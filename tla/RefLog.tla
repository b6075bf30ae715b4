------------------------------ MODULE RefLog ------------------------------
(***************************************************************************)
(* What a git3 repository promises to its users, whatever is stored where: *)
(* a map of refs that only changes by whole transactions, each committed   *)
(* against the values it was validated for, in one repository-wide order,  *)
(* and a push that is told "ok" only for a committed transaction.          *)
(***************************************************************************)
EXTENDS Naturals

CONSTANTS Refs, None

VARIABLES
    refs,       \* the current ref map
    sym,        \* the branch HEAD names, or None
    gen,        \* the number of committed transactions
    committed,  \* the transactions committed so far
    acked       \* the transactions whose pusher was told "ok"

vars == <<refs, sym, gen, committed, acked>>

Init ==
    /\ refs = [r \in Refs |-> None]
    /\ sym = None
    /\ gen = 0
    /\ committed = {}
    /\ acked = {}

(* One transaction takes effect, at most once, and only on the old values  *)
(* that its pusher validated.  The first one chooses the symbolic HEAD; a  *)
(* later one only clears it, when it deletes the branch HEAD names.  Its   *)
(* pusher may learn of it at once, later or never.                         *)
Commit(t) ==
    /\ t \notin committed
    /\ t.gen = gen + 1
    /\ \A r \in DOMAIN t.updates : refs[r] = t.updates[r].old
    /\ refs' = [r \in Refs |-> IF r \in DOMAIN t.updates THEN t.updates[r].new ELSE refs[r]]
    /\ gen' = t.gen
    /\ committed' = committed \cup {t}
    /\ \/ gen = 0 /\ sym' \in {r \in Refs : refs'[r] # None}
       \/ gen > 0 /\ sym' = IF sym # None /\ refs'[sym] = None THEN None ELSE sym
    /\ acked' \in {acked, acked \cup {t}}

(* set-head names an existing branch. *)
Point ==
    /\ sym' \in {r \in Refs : refs[r] # None}
    /\ UNCHANGED <<refs, gen, committed, acked>>

Acknowledge(t) ==
    /\ t \in committed
    /\ acked' = acked \cup {t}
    /\ UNCHANGED <<refs, sym, gen, committed>>

Next ==
    \/ \E t \in committed' \ committed : Commit(t)
    \/ Point
    \/ \E t \in committed : Acknowledge(t)

Spec == Init /\ [][Next]_vars

=============================================================================
