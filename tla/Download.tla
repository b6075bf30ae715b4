----------------------------- MODULE Download ------------------------------
(***************************************************************************)
(* One object is downloaded into a file by a pool of workers: the ranges   *)
(* go through an unbuffered channel `jobs`, errors into a buffered channel *)
(* `failures`, and the digest of the finished file decides.                *)
(* downloadVerified of the engine and download of the LFS agent are this   *)
(* program with other constants.                                           *)
(***************************************************************************)
EXTENDS Integers, Sequences

CONSTANTS
    Keys,           \* objects in the store
    Spans,          \* per key: number of ranges
    Workers,        \* goroutines
    FailureSlots,   \* capacity of the channel for errors
    Agent           \* TRUE in the LFS agent, which writes progress messages in
                    \* the workers and looks at ctx.Err after them

VARIABLES
    remote,  \* per key: "good", "other" bytes, "resized" or "gone"
    causes,  \* what went wrong so far outside the program
    dl       \* the download

Remotes == {"good", "other", "resized", "gone"}
Causes == {"network", "cancelled", "damage", "local", "output", "edited", "conflict", "packdir"}
Errors == {"network", "cancelled", "integrity", "output"}

(* producing: the loop hands out ranges; waiting: the channel is closed,   *)
(* wg.Wait; returned: with `out`.                                          *)
Phases == {"off", "producing", "waiting", "returned"}

(* The path holds nothing, or per range a hole, a part of it, the right    *)
(* bytes or other ones.                                                    *)
Absent == <<"absent">>
Whole(file) == \A s \in DOMAIN file : file[s] = "good"

(* A worker is idle, copies a range, has failed, has sent its error, or    *)
(* has ended.                                                              *)
Idle == [at |-> "idle", job |-> 0, err |-> "none"]

Off == [key |-> "none", phase |-> "off", next |-> 1, file |-> Absent,
        pool |-> [w \in Workers |-> Idle], failures |-> <<>>, ctx |-> FALSE, out |-> "none"]

Worker == [at : {"idle", "copying", "failed", "sent", "ended"}, job : Nat, err : Errors \cup {"none"}]
Transfer ==
    [key : Keys \cup {"none"}, phase : Phases, next : Nat,
     file : Seq({"absent", "hole", "part", "good", "other"}), pool : [Workers -> Worker],
     failures : Seq(Errors), ctx : BOOLEAN, out : Errors \cup {"none", "ok"}]

Types ==
    /\ remote \in [Keys -> Remotes]
    /\ causes \subseteq Causes
    /\ dl \in Transfer
    /\ Len(dl.failures) <= FailureSlots
    /\ \A w \in Workers : dl.pool[w].job = 0 \/ dl.pool[w].job \in 1..Spans[dl.key]

(* The caller's context, and the one derived from it. *)
Interrupted == "cancelled" \in causes
Cancelled == Interrupted \/ dl.ctx

(* What happens outside: one object is damaged or deleted (a bound), the   *)
(* user interrupts.                                                        *)
Damage(k) ==
    /\ "damage" \notin causes
    /\ remote' \in {[remote EXCEPT ![k] = v] : v \in Remotes \ {"good"}}
    /\ causes' = causes \cup {"damage"}

Interrupt == ~Interrupted /\ causes' = causes \cup {"cancelled"} /\ UNCHANGED remote

-----------------------------------------------------------------------------
(* The file is created and truncated to the object's size. *)
Open(k) ==
    /\ dl' = [Off EXCEPT !.key = k, !.phase = "producing", !.file = [s \in 1..Spans[k] |-> "hole"]]
    /\ UNCHANGED <<remote, causes>>

(* select: a waiting worker takes the next range, or the context is done;  *)
(* when both are possible, either happens.                                 *)
HandOut(w) ==
    /\ dl.phase = "producing" /\ dl.next <= Spans[dl.key] /\ dl.pool[w].at = "idle"
    /\ dl' = [dl EXCEPT !.next = @ + 1, !.pool[w] = [Idle EXCEPT !.at = "copying", !.job = dl.next]]
    /\ UNCHANGED <<remote, causes>>

GiveUp ==
    /\ dl.phase = "producing" /\ dl.next <= Spans[dl.key] /\ Cancelled
    /\ dl' = [dl EXCEPT !.next = Spans[dl.key] + 1]
    /\ UNCHANGED <<remote, causes>>

CloseJobs ==
    /\ dl.phase = "producing" /\ dl.next > Spans[dl.key]
    /\ dl' = [dl EXCEPT !.phase = "waiting"]
    /\ UNCHANGED <<remote, causes>>

(* copyRange: the sizes of the response and of the object are as expected. *)
Copied(w) ==
    /\ dl.pool[w].at = "copying" /\ remote[dl.key] \in {"good", "other"}
    /\ dl' = [dl EXCEPT !.file[dl.pool[w].job] = remote[dl.key], !.pool[w] = Idle]
    /\ UNCHANGED <<remote, causes>>

(* They are not, the request fails or breaks off, the context is done, or  *)
(* the progress message cannot be written.                                 *)
CopyFails(w) ==
    /\ dl.pool[w].at = "copying"
    /\ \E err \in Errors, left \in {"hole", "part"} :
        /\ \/ err = "cancelled" /\ Cancelled /\ UNCHANGED causes
           \/ err = "network" /\ remote[dl.key] = "gone" /\ UNCHANGED causes
           \/ err = "network" /\ remote[dl.key] # "gone" /\ causes' = causes \cup {"network"}
           \/ err = "integrity" /\ remote[dl.key] = "resized" /\ UNCHANGED causes
           \/ err = "output" /\ Agent /\ "output" \in causes /\ UNCHANGED causes
        /\ dl' = [dl EXCEPT !.file[dl.pool[w].job] = left, !.pool[w] = [@ EXCEPT !.at = "failed", !.err = err]]
    /\ UNCHANGED remote

(* A worker sends its error, if there is room, then cancels the others and *)
(* ends.                                                                   *)
Sent(w) == IF Len(dl.failures) < FailureSlots THEN Append(dl.failures, dl.pool[w].err) ELSE dl.failures

WorkerCancelsFirst(w) ==
    /\ \/ dl.pool[w].at = "failed" /\ dl' = [dl EXCEPT !.pool[w].at = "sent", !.ctx = TRUE]
       \/ dl.pool[w].at = "sent" /\ dl' = [dl EXCEPT !.pool[w].at = "ended", !.failures = Sent(w)]
    /\ UNCHANGED <<remote, causes>>

WorkerOnlySends(w) ==
    /\ dl.pool[w].at = "failed" /\ dl' = [dl EXCEPT !.pool[w].at = "ended", !.failures = Sent(w)]
    /\ UNCHANGED <<remote, causes>>

WorkerFails(w) ==
    /\ \/ dl.pool[w].at = "failed" /\ dl' = [dl EXCEPT !.pool[w].at = "sent", !.failures = Sent(w)]
       \/ dl.pool[w].at = "sent" /\ dl' = [dl EXCEPT !.pool[w].at = "ended", !.ctx = TRUE]
    /\ UNCHANGED <<remote, causes>>

OutcomeWithoutContext ==
    IF dl.failures # <<>> THEN Head(dl.failures) ELSE IF Whole(dl.file) THEN "ok" ELSE "integrity"
OutcomeByErrors == IF dl.failures # <<>> THEN Head(dl.failures) ELSE "ok"

(* The first error, the end of the context, or what the digest says. *)
Outcome ==
    IF dl.failures # <<>> THEN Head(dl.failures)
    ELSE IF Agent /\ Spans[dl.key] > 0 /\ Cancelled THEN "cancelled"
    ELSE IF Whole(dl.file) THEN "ok" ELSE "integrity"

(* Once every worker has ended; the file stays only when all is well. *)
Finish ==
    /\ dl.phase = "waiting" /\ \A w \in Workers : dl.pool[w].at \in {"idle", "ended"}
    /\ dl' = [dl EXCEPT !.phase = "returned", !.out = Outcome, !.file = IF Outcome = "ok" THEN @ ELSE Absent]
    /\ UNCHANGED <<remote, causes>>

Proceed ==
    \/ GiveUp \/ CloseJobs \/ Finish
    \/ \E w \in Workers : HandOut(w) \/ Copied(w) \/ CopyFails(w) \/ WorkerFails(w)

-----------------------------------------------------------------------------
(* The inductive invariant.  What can make an object differ from what its  *)
(* key says is in the set `harm`.                                          *)

Active == dl.phase \in {"producing", "waiting"}
Harmed(harm) == causes \cap harm # {}

(* What an error says of the world. *)
Explained(err, harm) ==
    /\ err = "cancelled" => Interrupted
    /\ err = "network" => "network" \in causes \/ Harmed(harm)
    /\ err = "integrity" => Harmed(harm)
    /\ err = "output" => "output" \in causes

(* A range that was handed out is in the file or on its way, or somebody   *)
(* has failed.                                                             *)
Accounted(s) ==
    \/ dl.file[s] \in {"good", "other"} \/ Interrupted \/ dl.failures # <<>>
    \/ \E w \in Workers :
        \/ dl.pool[w].at = "copying" /\ dl.pool[w].job = s
        \/ dl.pool[w].at = "failed"

(* The error channel is filled before the context is cancelled, so its     *)
(* first error is nobody's echo; and nothing touches the file any more     *)
(* when the transfer has returned.                                         *)
DownloadInv(harm) ==
    /\ Types
    /\ \A s \in DOMAIN dl.file : dl.file[s] = "other" => Harmed(harm)
    /\ dl.ctx => dl.failures # <<>>
    /\ dl.failures # <<>> => Explained(Head(dl.failures), harm)
    /\ \A w \in Workers :
        /\ dl.pool[w].at \in {"idle", "ended"} \/ Active
        /\ dl.pool[w].at = "copying" => dl.pool[w].job # 0
        /\ dl.pool[w].at = "failed" => dl.pool[w].err # "none"
        /\ dl.pool[w].at = "failed" => dl.failures # <<>> \/ Explained(dl.pool[w].err, harm)
        /\ dl.pool[w].at = "sent" => dl.failures # <<>>
    /\ Active =>
        /\ dl.key \in Keys /\ Len(dl.file) = Spans[dl.key] /\ dl.out = "none"
        /\ remote[dl.key] # "good" => Harmed(harm)
        /\ dl.next \in 1..(Spans[dl.key] + 1) /\ (dl.phase = "waiting" => dl.next = Spans[dl.key] + 1)
        /\ \A s \in 1..(dl.next - 1) : Accounted(s)
    /\ dl.phase = "off" => dl.file = Absent /\ dl.out = "none"
    /\ dl.phase = "returned" =>
        /\ IF dl.out = "ok" THEN Whole(dl.file) ELSE dl.file = Absent
        /\ dl.out # "none"
        /\ Explained(dl.out, harm) \/ (dl.out = "integrity" /\ ~Agent /\ Interrupted)

=============================================================================
