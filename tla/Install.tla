------------------------------ MODULE Install ------------------------------
(***************************************************************************)
(* The transfers of one bootstrap fetch: installPackPair downloads a pack  *)
(* and its index with pools of workers (module Download), then the WAL     *)
(* packs go one by one through index-pack (module WalStream), and          *)
(* connectivity is verified.  Meanwhile requests fail, objects are damaged *)
(* or deleted, the user interrupts and local commands fail.                *)
(***************************************************************************)
EXTENDS Integers, Sequences, FiniteSets

CONSTANTS
    Files,    \* keys of the pack and its index, in order
    Wals,     \* keys of the WAL packs, in order
    Spans,    \* per key: number of ranges
    Workers   \* DownloadConcurrency

ASSUME SequenceAssumption == Files \in Seq(STRING) /\ Wals \in Seq(STRING)
ASSUME WorkersAssumption == IsFiniteSet(Workers) /\ Workers # {}

Keys == {Files[i] : i \in DOMAIN Files} \cup {Wals[i] : i \in DOMAIN Wals}

ASSUME SpansAssumption == Spans \in [Keys -> Nat]

VARIABLES
    remote, causes,  \* as in Download
    dl,              \* the download at work
    ws, packs, keeps,  \* the WAL at work, see WalStream
    done,            \* number of keys that were transferred
    paired,          \* whether pack and index are in the pack directory
    handed,          \* report.InstalledKeeps
    result           \* of the fetch: "none", "ok" or its error

vars == <<remote, causes, dl, ws, packs, keeps, done, paired, handed, result>>

D == INSTANCE Download WITH FailureSlots <- Cardinality(Workers), Agent <- FALSE
W == INSTANCE WalStream

Init ==
    /\ remote = [k \in Keys |-> "good"] /\ causes = {}
    /\ dl = D!Off /\ ws = W!Off
    /\ packs = [k \in Keys |-> "none"] /\ keeps = {}
    /\ done = 0 /\ paired = FALSE /\ handed = {} /\ result = "none"

rest == <<done, paired, handed, result>>

(* installPackPair, file by file. *)
BeginFile ==
    /\ result = "none" /\ done < Len(Files) /\ dl.key # Files[done + 1]
    /\ D!Open(Files[done + 1])
    /\ UNCHANGED <<ws, packs, keeps, rest>>

EndFile ==
    /\ result = "none" /\ done < Len(Files) /\ dl.key = Files[done + 1] /\ dl.phase = "returned"
    /\ IF dl.out = "ok" THEN done' = done + 1 /\ UNCHANGED result
       ELSE result' = dl.out /\ UNCHANGED done
    /\ UNCHANGED <<remote, causes, dl, ws, packs, keeps, paired, handed>>

(* A git command fails when it is killed or by itself. *)
GitFails ==
    \/ W!Interrupted /\ result' = "cancelled" /\ UNCHANGED causes
    \/ ~W!Interrupted /\ result' = "git" /\ causes' = causes \cup {"local"}

(* verifyPackPair on the staged files, and the two renames. *)
VerifyPair ==
    /\ result = "none" /\ done = Len(Files) /\ ~paired
    /\ \/ GitFails /\ UNCHANGED paired
       \/ ~W!Interrupted /\ paired' = TRUE /\ UNCHANGED <<causes, result>>
    /\ UNCHANGED <<remote, dl, ws, packs, keeps, done, handed>>

(* installWAL, pack by pack. *)
Wal == Wals[done - Len(Files) + 1]
AtWals == result = "none" /\ paired /\ done < Len(Files) + Len(Wals)

BeginWal ==
    /\ AtWals /\ ws.key # Wal
    /\ W!Start(Wal)
    /\ UNCHANGED <<dl, rest>>

EndWalUnreported ==
    /\ AtWals /\ ws.key = Wal /\ ws.phase = "returned"
    /\ IF ws.out = "ok" THEN done' = done + 1 /\ UNCHANGED result
       ELSE result' = ws.out /\ UNCHANGED done
    /\ UNCHANGED <<remote, causes, dl, ws, packs, keeps, paired, handed>>

(* The .keep is reported, unless git does not name the pack directory or   *)
(* Stat fails.  These errors are dropped, and the WAL counts as installed. *)
EndWal ==
    /\ AtWals /\ ws.key = Wal /\ ws.phase = "returned"
    /\ IF ws.out = "ok"
       THEN /\ \/ handed' = handed \cup {ws.key} /\ UNCHANGED causes
               \/ W!Interrupted /\ UNCHANGED <<handed, causes>>
               \/ ~W!Interrupted /\ causes' = causes \cup {"packdir"} /\ UNCHANGED handed
            /\ done' = done + 1 /\ UNCHANGED result
       ELSE result' = ws.out /\ UNCHANGED <<causes, done, handed>>
    /\ UNCHANGED <<remote, dl, ws, packs, keeps, paired>>

(* VerifyConnectivity, a command of the same context. *)
Verify ==
    /\ result = "none" /\ paired /\ done = Len(Files) + Len(Wals)
    /\ GitFails \/ (~W!Interrupted /\ result' = "ok" /\ UNCHANGED causes)
    /\ UNCHANGED <<remote, dl, ws, packs, keeps, done, paired, handed>>

Outside ==
    /\ result = "none"
    /\ D!Interrupt \/ \E k \in Keys : D!Damage(k)
    /\ UNCHANGED <<dl, ws, packs, keeps, rest>>

Proceed ==
    \/ BeginFile \/ EndFile \/ VerifyPair \/ BeginWal \/ EndWal \/ Verify
    \/ D!Proceed /\ UNCHANGED <<ws, packs, keeps, rest>>
    \/ W!Proceed /\ UNCHANGED <<dl, rest>>

Next == Proceed \/ Outside

Spec == Init /\ [][Next]_vars

(* Goroutines and child processes run, and requests have deadlines. *)
FairSpec == Spec /\ WF_vars(Proceed)

-----------------------------------------------------------------------------
(* Types; the channel for errors never holds more than its capacity. *)
TypeOK ==
    /\ D!Types /\ W!Types
    /\ done \in 0..(Len(Files) + Len(Wals)) /\ paired \in BOOLEAN /\ handed \subseteq Keys
    /\ result \in {"none", "ok", "git"} \cup D!Errors

(* A file that downloadVerified has accepted holds the right bytes in      *)
(* every range, also when the producer gave up while no worker had an      *)
(* error to report, and still does when its caller renames it.             *)
DownloadVerified == dl.out = "ok" => D!Whole(dl.file)

(* A WAL whose installation is reported as successful is the referenced    *)
(* pack: index-pack may have installed other bytes before the digest was   *)
(* known, but then the verdict arrives and the fetch fails.                *)
WalVerified == ws.out = "ok" => packs[ws.key] = "good"

(* A fetch fails only for a reason, and names it: the cancellation that a  *)
(* failing worker causes is never taken for the user's, and no error is    *)
(* invented by the races of workers, pipe and child.  (A cancelled         *)
(* downloadVerified whose workers are idle reports the holes of the file   *)
(* as an integrity failure.)                                               *)
Reasons ==
    [cancelled |-> {"cancelled"}, network |-> {"network", "damage"}, integrity |-> {"damage", "cancelled"},
     git |-> {"network", "damage", "local"}]
CauseReported == result \in DOMAIN Reasons => Reasons[result] \cap causes # {}

(* A fetch that succeeds, also after an interrupt that came in between,    *)
(* has reported the .keep of every pack that index-pack installed, unless  *)
(* the pack directory could not be looked at when the user had not         *)
(* interrupted.                                                            *)
KeepsHandedOver == result = "ok" => keeps \subseteq handed \/ "packdir" \in causes

(* SPEC 12.5: the helper cleans the keeps that it owns after a failed      *)
(* operation.                                                              *)
StaleKeepsCleaned == result \notin {"none", "ok"} => keeps = {}

(* A fetch ends, whoever fails first: producer, workers, pipe, copier or   *)
(* child.                                                                  *)
EveryInstallEnds == <>(result # "none")

-----------------------------------------------------------------------------
(* The inductive invariant. *)

(* Every error is explained, the stream and the download at work are those *)
(* of the next key, and only the .keep of the WAL at work is not handed    *)
(* over yet, unless the user has interrupted, or the pack directory could  *)
(* not be looked at.                                                       *)
Unseen == causes \cap {"cancelled", "packdir"} # {}
InstallInv ==
    /\ TypeOK
    /\ D!DownloadInv({"damage"}) /\ W!StreamInv
    /\ \A k \in Keys : remote[k] # "good" => "damage" \in causes
    /\ paired => done >= Len(Files)
    /\ W!Running => AtWals /\ ws.key = Wal
    /\ Unseen \/ result \notin {"none", "ok"} \/ keeps \subseteq handed
       \/ (AtWals /\ ws.key = Wal /\ keeps \subseteq handed \cup {ws.key})
    /\ CauseReported /\ KeepsHandedOver

=============================================================================
