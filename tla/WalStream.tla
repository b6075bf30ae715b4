----------------------------- MODULE WalStream -----------------------------
(***************************************************************************)
(* installWAL: a goroutine downloads a WAL pack range by range into an     *)
(* io.Pipe and hashes it on the way; os/exec copies the pipe to the        *)
(* standard input of git index-pack, which installs the pack with a .keep  *)
(* file.  The verdict on the digest reaches index-pack's caller only       *)
(* through the pipe, after the last byte.                                  *)
(*                                                                         *)
(* index-pack is external: it ends well only when it has read as many      *)
(* ranges as the pack has, and it may refuse bytes that are not the pack.  *)
(***************************************************************************)
EXTENDS Integers

CONSTANTS
    Keys,   \* objects in the store
    Spans   \* per key: number of ranges

VARIABLES
    remote,  \* per key: "good", "other" bytes, "resized" or "gone"
    causes,  \* what went wrong so far outside the program
    ws,      \* the stream
    packs,   \* per key: the bytes index-pack installed, or "none"
    keeps    \* keys whose pack has a .keep file

vars == <<remote, causes, ws, packs, keeps>>

(* The goroutine is getting or writing a range, or has closed the pipe     *)
(* with err; pos ranges went through the pipe, with hash `sum`.  copier    *)
(* reads from the pipe, writes the range `held` to the child, or has ended *)
(* with cerr.  The child has got ranges with content `seen`.               *)
Off == [key |-> "none", phase |-> "off", at |-> "getting", pos |-> 0, sum |-> "good", unit |-> "none",
        err |-> "none", copier |-> "reading", held |-> "none", cerr |-> "none", got |-> 0, seen |-> "good",
        child |-> "running", out |-> "none"]

Bytes == {"good", "other"}
Errors == {"none", "network", "cancelled", "integrity"}
Results == {"none", "ok", "git", "cancelled"}
Stream ==
    [key : Keys \cup {"none"}, phase : {"off", "running", "returned"},
     at : {"getting", "writing", "closed"}, pos : Nat, sum : Bytes, unit : Bytes \cup {"none"}, err : Errors,
     copier : {"reading", "writing", "ended"}, held : Bytes \cup {"none"}, cerr : Errors,
     got : Nat, seen : Bytes, child : {"running", "ok", "failed"}, out : Results]

Types ==
    /\ ws \in Stream
    /\ packs \in [Keys -> Bytes \cup {"none"}]
    /\ keeps \subseteq Keys

Interrupted == "cancelled" \in causes
Running == ws.phase = "running"
Mixed(a, b) == IF a = "good" THEN b ELSE a

Start(k) ==
    /\ ws' = [Off EXCEPT !.key = k, !.phase = "running"]
    /\ UNCHANGED <<remote, causes, packs, keeps>>

-----------------------------------------------------------------------------
(* The downloading goroutine. *)

Get ==
    /\ ws.at = "getting" /\ ws.phase # "off" /\ ws.pos < Spans[ws.key]
    /\ remote[ws.key] \in {"good", "other"}
    /\ ws' = [ws EXCEPT !.at = "writing", !.unit = remote[ws.key], !.sum = Mixed(@, remote[ws.key])]
    /\ UNCHANGED <<remote, causes, packs, keeps>>

(* copyRange fails: CloseWithError. *)
GetFails ==
    /\ ws.at = "getting" /\ ws.phase # "off" /\ ws.pos < Spans[ws.key]
    /\ \E err \in {"network", "cancelled", "integrity"} :
        /\ \/ err = "cancelled" /\ Interrupted /\ UNCHANGED causes
           \/ err = "network" /\ remote[ws.key] = "gone" /\ UNCHANGED causes
           \/ err = "network" /\ remote[ws.key] # "gone" /\ causes' = causes \cup {"network"}
           \/ err = "integrity" /\ remote[ws.key] = "resized" /\ UNCHANGED causes
        /\ ws' = [ws EXCEPT !.at = "closed", !.err = err]
    /\ UNCHANGED <<remote, packs, keeps>>

CloseUnchecked ==
    /\ ws.at = "getting" /\ ws.phase # "off" /\ ws.pos = Spans[ws.key]
    /\ ws' = [ws EXCEPT !.at = "closed"]
    /\ UNCHANGED <<remote, causes, packs, keeps>>

(* Close, or CloseWithError when the digest is not the expected one. *)
Close ==
    /\ ws.at = "getting" /\ ws.phase # "off" /\ ws.pos = Spans[ws.key]
    /\ ws' = [ws EXCEPT !.at = "closed", !.err = IF ws.sum = "good" THEN "none" ELSE "integrity"]
    /\ UNCHANGED <<remote, causes, packs, keeps>>

-----------------------------------------------------------------------------
(* IndexPack: os/exec's copying goroutine, and the child. *)

(* The pipe has no buffer: a write ends when it has been read. *)
CopierReads ==
    /\ ws.copier = "reading"
    /\ \/ /\ ws.at = "writing"
          /\ ws' = [ws EXCEPT !.at = "getting", !.pos = @ + 1, !.copier = "writing", !.held = ws.unit]
       \/ /\ ws.at = "closed"
          /\ ws' = [ws EXCEPT !.copier = "ended", !.cerr = ws.err]
    /\ UNCHANGED <<remote, causes, packs, keeps>>

(* os/exec ignores a write to a child that has exited. *)
CopierWrites ==
    /\ ws.copier = "writing"
    /\ IF ws.child = "running"
       THEN ws' = [ws EXCEPT !.copier = "reading", !.got = @ + 1, !.seen = Mixed(@, ws.held)]
       ELSE ws' = [ws EXCEPT !.copier = "ended"]
    /\ UNCHANGED <<remote, causes, packs, keeps>>

ChildInstalls ==
    /\ Running /\ ws.child = "running" /\ ws.got = Spans[ws.key]
    /\ ws' = [ws EXCEPT !.child = "ok"]
    /\ packs' = [packs EXCEPT ![ws.key] = ws.seen]
    /\ keeps' = keeps \cup {ws.key}
    /\ UNCHANGED <<remote, causes>>

(* Bad bytes, an early end of its input, a signal, or a local failure. *)
ChildFails ==
    /\ Running /\ ws.child = "running"
    /\ \/ /\ \/ ws.seen = "other" \/ Interrupted
             \/ ws.copier = "ended" /\ ws.got < Spans[ws.key]
          /\ UNCHANGED causes
       \/ causes' = causes \cup {"local"}
    /\ ws' = [ws EXCEPT !.child = "failed"]
    /\ UNCHANGED <<remote, packs, keeps>>

(* Run's result: the child's status, then the copier's error; under a      *)
(* cancelled context also the context's.                                   *)
Outcomes ==
    IF ws.child = "failed" \/ ws.cerr # "none"
    THEN {IF Interrupted THEN "cancelled" ELSE "git"}
    ELSE {"ok"} \cup (IF Interrupted THEN {"cancelled"} ELSE {})

WaitForChildOnly ==
    /\ Running /\ ws.child # "running"
    /\ \E out \in Outcomes : ws' = [ws EXCEPT !.phase = "returned", !.out = out]
    /\ UNCHANGED <<remote, causes, packs, keeps>>

(* Run waits for the child and for the copier. *)
Wait ==
    /\ Running /\ ws.child # "running" /\ ws.copier = "ended"
    /\ \E out \in Outcomes : ws' = [ws EXCEPT !.phase = "returned", !.out = out]
    /\ UNCHANGED <<remote, causes, packs, keeps>>

Proceed ==
    \/ Get \/ GetFails \/ Close \/ CopierReads \/ CopierWrites
    \/ ChildInstalls \/ ChildFails \/ Wait

-----------------------------------------------------------------------------
(* The inductive invariant. *)

(* What the goroutine has hashed is what the child has got, then what the  *)
(* copier holds, then what is in the pipe.                                 *)
Held == IF ws.copier = "writing" THEN Mixed(ws.seen, ws.held) ELSE ws.seen
Sent == IF ws.at = "writing" THEN Mixed(Held, ws.unit) ELSE Held
Conserved ==
    /\ ws.sum = Sent
    /\ ws.pos = ws.got + (IF ws.copier = "writing" THEN 1 ELSE 0)
    /\ ws.at = "writing" => ws.unit # "none"
    /\ ws.copier = "writing" => ws.held # "none"

(* A copier that has ended has the verdict, unless its child had gone.     *)
StreamInv ==
    /\ Types
    /\ ws.phase = "off" => ws = Off
    /\ ws.phase # "off" => ws.key \in Keys /\ ws.pos <= Spans[ws.key]
    /\ ws.at = "writing" => ws.pos < Spans[ws.key]
    /\ ws.copier # "ended" => Conserved /\ ws.cerr = "none"
    /\ ws.at # "closed" => ws.err = "none"
    /\ ws.at = "closed" /\ ws.err = "none" => ws.pos = Spans[ws.key] /\ ws.sum = "good"
    /\ ws.copier = "ended" => ws.child = "failed" \/ (Conserved /\ ws.at = "closed" /\ ws.cerr = ws.err)
    /\ ws.err # "none" => Interrupted \/ causes \cap {"network", "damage"} # {}
    /\ ws.cerr # "none" => ws.cerr = ws.err
    /\ "other" \in {ws.sum, ws.unit, ws.held, ws.seen} => "damage" \in causes
    /\ ws.child = "failed" => Interrupted \/ causes \cap {"network", "damage", "local"} # {}
    /\ ws.child = "ok" => ws.got = Spans[ws.key] /\ packs[ws.key] = ws.seen
    /\ ws.phase # "returned" => ws.out = "none"
    /\ ws.phase = "returned" => ws.out # "none" /\ ws.child # "running" /\ ws.copier = "ended"
    /\ ws.out = "ok" => ws.child = "ok" /\ ws.cerr = "none"
    /\ ws.out = "git" => causes \cap {"network", "damage", "local"} # {}
    /\ ws.out = "cancelled" => Interrupted

=============================================================================
