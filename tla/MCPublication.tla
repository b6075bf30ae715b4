--------------------------- MODULE MCPublication ---------------------------
(***************************************************************************)
(* Instances of Publication for TLC: two branches, commits 1 and 2 of one  *)
(* history, and batches that create, fast-forward, force back and delete.  *)
(***************************************************************************)
EXTENDS Publication, TLC

CONSTANTS main, dev, PushOps, AdminOps

Cmd(new, force) == [new |-> new, force |-> force]

MCRefs == {main, dev}
MCOids == {1, 2}
MCAncestors == {<<1, 2>>}

(* Fast-forward main and create dev, atomically; create main or force it   *)
(* back, and delete dev if it is there.                                    *)
MCBatches ==
    {[cmds |-> (main :> Cmd(2, FALSE)) @@ (dev :> Cmd(1, FALSE)), atomic |-> TRUE],
     [cmds |-> (main :> Cmd(1, TRUE)) @@ (dev :> Cmd(None, FALSE)), atomic |-> FALSE]}

(* A smaller choice, with a forced update. *)
MCFewBatches ==
    {[cmds |-> (main :> Cmd(2, FALSE)), atomic |-> FALSE],
     [cmds |-> (main :> Cmd(1, TRUE)) @@ (dev :> Cmd(1, FALSE)), atomic |-> FALSE]}

MCMaxOps == [c \in Clients |-> IF c \in Pushers THEN PushOps ELSE AdminOps]

Symmetry == Permutations(Pushers)

=============================================================================
