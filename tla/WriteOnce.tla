----------------------------- MODULE WriteOnce -----------------------------
(***************************************************************************)
(* What an immutable key promises to the processes that create it with     *)
(* If-None-Match: it goes from absent to one process's whole content, is   *)
(* never replaced, and a process is told `ok` only when the key holds what *)
(* that process meant to store.                                            *)
(***************************************************************************)
CONSTANTS Callers, None

VARIABLES
    content,  \* what each caller's reader yields up to its end of file
    wanted,   \* what each caller means to store
    object,   \* the key's value, or None
    result    \* what each caller was told: "none", "ok" or "failed"

vars == <<content, wanted, object, result>>

Init ==
    /\ object = None
    /\ result = [c \in Callers |-> "none"]

(* The whole content of one caller appears. *)
Create(c) ==
    /\ object = None
    /\ object' = content[c]
    /\ UNCHANGED <<content, wanted, result>>

(* The reader of a caller that is still at work ends earlier. *)
Shorten(c) ==
    /\ result[c] = "none"
    /\ \A d \in Callers \ {c} : content'[d] = content[d]
    /\ UNCHANGED <<wanted, object, result>>

Report(c) ==
    /\ result[c] = "none"
    /\ \/ object = wanted[c] /\ result' = [result EXCEPT ![c] = "ok"]
       \/ result' = [result EXCEPT ![c] = "failed"]
    /\ UNCHANGED <<content, wanted, object>>

Next == \E c \in Callers : Create(c) \/ Shorten(c) \/ Report(c)

Spec == Init /\ [][Next]_vars

=============================================================================
