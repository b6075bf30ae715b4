--------------------------- MODULE InstallProofs ---------------------------
(***************************************************************************)
(* Machine-checked theorems about Install, for every list of files and     *)
(* WALs, every number of ranges and every pool of workers.                 *)
(***************************************************************************)
EXTENDS Install, FiniteSetTheorems, TLAPS

(* The lemmas about the two parts. *)
P == INSTANCE DownloadProofs WITH FailureSlots <- Cardinality(Workers), Agent <- FALSE
S == INSTANCE WalStreamProofs

harm == {"damage"}

(* The invariant's part about the control of the fetch. *)
Sound == \A k \in Keys : remote[k] # "good" => "damage" \in causes
Control ==
    /\ done \in 0..(Len(Files) + Len(Wals)) /\ paired \in BOOLEAN /\ handed \subseteq Keys
    /\ result \in {"none", "ok", "git"} \cup D!Errors
    /\ paired => done >= Len(Files)
    /\ W!Running => AtWals /\ ws.key = Wal
    /\ Unseen \/ result \notin {"none", "ok"} \/ keeps \subseteq handed
       \/ (AtWals /\ ws.key = Wal /\ keeps \subseteq handed \cup {ws.key})
    /\ CauseReported /\ KeepsHandedOver

(* The constants are what the lemmas ask for. *)
LEMMA Constants ==
    /\ P!Sizes /\ S!Sizes
    /\ Len(Files) \in Nat /\ Len(Wals) \in Nat
    /\ \A i \in 1..Len(Files) : Files[i] \in Keys
    /\ \A i \in 1..Len(Wals) : Wals[i] \in Keys
<1>1. Len(Files) \in Nat /\ Len(Wals) \in Nat /\ DOMAIN Files = 1..Len(Files) /\ DOMAIN Wals = 1..Len(Wals)
  BY SequenceAssumption
<1>2. Cardinality(Workers) \in Nat \ {0}
  BY WorkersAssumption, FS_CardinalityType, FS_EmptySet
<1> QED
  BY <1>1, <1>2, SpansAssumption DEF P!Sizes, S!Sizes, Keys

(* The parts of the invariant. *)
LEMMA Parts == InstallInv <=> D!DownloadInv(harm) /\ W!StreamInv /\ Sound /\ Control
BY DEF InstallInv, TypeOK, Control, Sound, D!DownloadInv, W!StreamInv, harm

(* The same in the next state. *)
LEMMA PartsNext == InstallInv' <=> D!DownloadInv(harm)' /\ W!StreamInv' /\ Sound' /\ Control'
BY Parts, PTL

(* The two instances of Download, and those of WalStream, are the same. *)
LEMMA SameInv == (P!DownloadInv(harm) <=> D!DownloadInv(harm)) /\ (S!StreamInv <=> W!StreamInv)
<1>1. P!DownloadInv(harm) <=> D!DownloadInv(harm)
  BY DEF P!DownloadInv, D!DownloadInv, P!Types, D!Types, P!Transfer, D!Transfer, P!Worker, D!Worker,
         P!Remotes, D!Remotes, P!Causes, D!Causes, P!Errors, D!Errors, P!Phases, D!Phases,
         P!Harmed, D!Harmed, P!Explained, D!Explained, P!Interrupted, D!Interrupted, P!Active, D!Active,
         P!Accounted, D!Accounted, P!Absent, D!Absent, P!Whole, D!Whole
<1>2. S!StreamInv <=> W!StreamInv
  BY DEF S!StreamInv, W!StreamInv, S!Types, W!Types, S!Stream, W!Stream, S!Bytes, W!Bytes, S!Errors, W!Errors,
         S!Results, W!Results, S!Off, W!Off, S!Conserved, W!Conserved, S!Sent, W!Sent, S!Held, W!Held,
         S!Mixed, W!Mixed, S!Interrupted, W!Interrupted
<1> QED
  BY <1>1, <1>2

(* The same in the next state. *)
LEMMA SameInvNext == (P!DownloadInv(harm)' <=> D!DownloadInv(harm)') /\ (S!StreamInv' <=> W!StreamInv')
BY SameInv, PTL

(* Their actions and values are the same, too. *)
LEMMA SameActions ==
    /\ D!Proceed => P!Proceed
    /\ W!Proceed => S!Proceed
    /\ \A k : D!Open(k) => P!Open(k)
    /\ \A k : W!Start(k) => S!Start(k)
    /\ D!Off = P!Off /\ W!Off = S!Off /\ (Sound <=> S!Sound) /\ D!Remotes = P!Remotes /\ D!Causes = P!Causes
<1>1. D!Off = P!Off /\ W!Off = S!Off /\ (Sound <=> S!Sound) /\ D!Remotes = P!Remotes /\ D!Causes = P!Causes
  BY DEF D!Off, P!Off, W!Off, S!Off, Sound, S!Sound, D!Remotes, P!Remotes, D!Causes, P!Causes, D!Idle, P!Idle,
         D!Absent, P!Absent
<1>2. \A k : D!Open(k) => P!Open(k)
  BY <1>1 DEF D!Open, P!Open
<1>3. \A k : W!Start(k) => S!Start(k)
  BY <1>1 DEF W!Start, S!Start
<1>4. D!Proceed => P!Proceed
  BY DEF D!Proceed, P!Proceed, D!GiveUp, P!GiveUp, D!CloseJobs, P!CloseJobs, D!Finish, P!Finish,
         D!HandOut, P!HandOut, D!Copied, P!Copied, D!CopyFails, P!CopyFails, D!WorkerFails, P!WorkerFails,
         D!Cancelled, P!Cancelled, D!Interrupted, P!Interrupted, D!Idle, P!Idle, D!Sent, P!Sent,
         D!Outcome, P!Outcome, D!Whole, P!Whole, D!Absent, P!Absent, D!Errors, P!Errors
<1>5. W!Proceed => S!Proceed
  BY DEF W!Proceed, S!Proceed, W!Get, S!Get, W!GetFails, S!GetFails, W!Close, S!Close, W!CopierReads, S!CopierReads,
         W!CopierWrites, S!CopierWrites, W!ChildInstalls, S!ChildInstalls, W!ChildFails, S!ChildFails,
         W!Wait, S!Wait, W!Outcomes, S!Outcomes, W!Mixed, S!Mixed, W!Interrupted, S!Interrupted,
         W!Running, S!Running
<1> QED
  BY <1>1, <1>2, <1>3, <1>4, <1>5

(* What is known of the parts. *)
LEMMA InvFacts ==
    ASSUME InstallInv
    PROVE  /\ D!DownloadInv(harm) /\ W!StreamInv /\ Sound /\ Control
           /\ remote \in [Keys -> D!Remotes] /\ causes \subseteq D!Causes
           /\ dl \in D!Transfer /\ ws \in W!Stream /\ keeps \subseteq Keys
<1>1. D!DownloadInv(harm) /\ W!StreamInv /\ Sound /\ Control
  BY Parts
<1> QED
  BY <1>1 DEF D!DownloadInv, D!Types, W!StreamInv, W!Types

(* A step around the two parts keeps theirs. *)
LEMMA AroundParts ==
    ASSUME InstallInv, UNCHANGED <<dl, ws, packs, keeps>>, causes \subseteq causes', causes' \subseteq D!Causes,
           remote' \in [Keys -> D!Remotes], Sound'
    PROVE  D!DownloadInv(harm)' /\ W!StreamInv'
<1>1. W!StreamInv'
  BY InvFacts, SameInv, SameInvNext, S!AroundKeeps
<1>2. P!DownloadInv(harm) /\ remote' \in [Keys -> P!Remotes] /\ causes' \subseteq P!Causes
  BY InvFacts, SameInv, SameActions
<1>3. P!Active => dl.key \in Keys
  BY <1>2 DEF P!DownloadInv
<1>4. P!Active /\ remote'[dl.key] # "good" => P!Harmed(harm)'
  BY <1>3 DEF Sound, P!Harmed, harm
<1>5. P!DownloadInv(harm)'
  BY <1>2, <1>4, P!OutsideKeeps
<1> QED
  BY <1>1, <1>5, SameInvNext

(* A step that leaves the causes and the result alone, or adds a cause. *)
LEMMA CauseKept ==
    ASSUME CauseReported, causes \subseteq causes', result' = result
    PROVE  CauseReported'
BY DEF CauseReported

(* The next file is opened. *)
LEMMA BeginFileKeeps ==
    ASSUME InstallInv, BeginFile
    PROVE  InstallInv'
<1>1. done < Len(Files) /\ D!Open(Files[done + 1]) /\ UNCHANGED <<ws, packs, keeps, done, paired, handed, result>>
  BY DEF BeginFile, rest
<1>2. Files[done + 1] \in Keys
  BY <1>1, InvFacts, Constants DEF Control
<1>3. remote' = remote /\ causes' = causes
  BY <1>1 DEF D!Open
<1>4. remote \in [Keys -> P!Remotes] /\ causes \subseteq P!Causes
  BY InvFacts, SameActions
<1>5. remote[Files[done + 1]] # "good" => P!Harmed(harm)
  BY <1>2, InvFacts DEF Sound, P!Harmed, harm
<1>6. P!Open(Files[done + 1])
  BY <1>1, SameActions
<1>7. P!DownloadInv(harm)'
  BY <1>2, <1>4, <1>5, <1>6, Constants, P!OpenKeeps
<1>8. S!StreamInv'
  BY <1>1, <1>3, InvFacts, SameInv, S!AroundKeeps
<1>9. Sound' /\ Control'
  BY <1>1, <1>3, InvFacts DEF Sound, Control, W!Running, AtWals, Wal, D!Interrupted, Unseen, CauseReported, KeepsHandedOver
<1> QED
  BY <1>7, <1>8, <1>9, SameInvNext, PartsNext

(* The verdict on a file. *)
LEMMA EndFileKeeps ==
    ASSUME InstallInv, EndFile
    PROVE  InstallInv'
<1>1. /\ result = "none" /\ done < Len(Files) /\ dl.phase = "returned"
      /\ IF dl.out = "ok" THEN done' = done + 1 /\ result' = result ELSE result' = dl.out /\ done' = done
      /\ UNCHANGED <<remote, causes, dl, ws, packs, keeps, paired, handed>>
  BY DEF EndFile
<1>a. Len(Files) \in Nat /\ Len(Wals) \in Nat /\ done \in Nat
  BY InvFacts, Constants DEF Control
<1>2. ~paired /\ ~W!Running /\ ~AtWals
  BY <1>1, <1>a, InvFacts DEF Control, AtWals
<1>3. Sound'
  BY <1>1, InvFacts DEF Sound
<1>4. D!DownloadInv(harm)' /\ W!StreamInv'
  BY <1>1, <1>3, InvFacts, AroundParts
<1>5. CASE dl.out = "ok"
  <2>1. done' = done + 1 /\ result' = "none" /\ ~W!Running'
    BY <1>1, <1>2, <1>5 DEF W!Running
  <2>2. Control'
    BY <1>1, <1>2, <1>a, <2>1, InvFacts DEF Control, CauseReported, KeepsHandedOver, Unseen, Reasons
  <2> QED
    BY <1>3, <1>4, <2>2, PartsNext
<1>6. CASE dl.out # "ok"
  <2>0. dl.out # "none" /\ (D!Explained(dl.out, harm) \/ (dl.out = "integrity" /\ D!Interrupted))
    BY <1>1, <1>6, InvFacts DEF D!DownloadInv
  <2>1. dl.out \in D!Errors
    BY <1>6, <2>0, InvFacts DEF D!Transfer
  <2>2. dl.out \in DOMAIN Reasons => Reasons[dl.out] \cap causes # {}
    BY <2>0, <2>1 DEF D!Explained, D!Errors, D!Harmed, D!Interrupted, harm, Reasons
  <2>3. CauseReported' /\ KeepsHandedOver'
    BY <1>1, <1>6, <2>2 DEF CauseReported, KeepsHandedOver
  <2>4. done' = done /\ result' = dl.out /\ ~W!Running' /\ dl.out \notin {"none", "ok"}
    BY <1>1, <1>2, <1>6, <2>0 DEF W!Running
  <2>5. Control'
    BY <1>1, <1>2, <1>a, <2>1, <2>3, <2>4, InvFacts DEF Control
  <2> QED
    BY <1>3, <1>4, <2>5, PartsNext
<1> QED
  BY <1>5, <1>6

(* A git command's failure names its cause. *)
LEMMA GitFailsFacts ==
    ASSUME InstallInv, GitFails
    PROVE  /\ causes \subseteq causes' /\ causes' \subseteq D!Causes
           /\ result' \in {"git", "cancelled"} /\ CauseReported' /\ KeepsHandedOver'
<1>1. \/ D!Interrupted /\ result' = "cancelled" /\ causes' = causes
      \/ result' = "git" /\ causes' = causes \cup {"local"}
  BY DEF GitFails, W!Interrupted, D!Interrupted
<1>2. causes \subseteq causes' /\ causes' \subseteq D!Causes
  BY <1>1, InvFacts DEF D!Causes
<1>3. result' \in {"git", "cancelled"} /\ KeepsHandedOver'
  BY <1>1 DEF KeepsHandedOver
<1>4. Reasons.cancelled = {"cancelled"} /\ Reasons.git = {"network", "damage", "local"}
  BY DEF Reasons
<1>5. CauseReported'
  BY <1>1, <1>4 DEF CauseReported, D!Interrupted
<1> QED
  BY <1>2, <1>3, <1>5

(* verifyPackPair and the renames. *)
LEMMA VerifyPairKeeps ==
    ASSUME InstallInv, VerifyPair
    PROVE  InstallInv'
<1>1. /\ result = "none" /\ done = Len(Files) /\ ~paired /\ UNCHANGED <<remote, dl, ws, packs, keeps, done, handed>>
      /\ (GitFails /\ paired' = paired) \/ (paired' = TRUE /\ causes' = causes /\ result' = result)
  BY DEF VerifyPair
<1>a. Len(Files) \in Nat /\ Len(Wals) \in Nat /\ done \in Nat /\ ~W!Running /\ ~AtWals
  BY <1>1, InvFacts, Constants DEF Control, AtWals
<1>2. causes \subseteq causes' /\ causes' \subseteq D!Causes
  BY <1>1, GitFailsFacts, InvFacts
<1>3. Sound' /\ D!DownloadInv(harm)' /\ W!StreamInv'
  <2>1. Sound'
    BY <1>1, <1>2, InvFacts DEF Sound
  <2> QED
    BY <2>1, <1>1, <1>2, InvFacts, AroundParts
<1>4. ~W!Running'
  BY <1>1, <1>a DEF W!Running
<1>5. CASE GitFails /\ paired' = paired
  <2>1. result' \in {"git", "cancelled"} /\ CauseReported' /\ KeepsHandedOver'
    BY <1>5, GitFailsFacts
  <2>2. Control'
    BY <1>1, <1>4, <1>5, <1>a, <2>1, InvFacts DEF Control, D!Errors
  <2> QED
    BY <1>3, <2>2, PartsNext
<1>6. CASE paired' = TRUE /\ causes' = causes /\ result' = result
  <2>1. CauseReported' /\ KeepsHandedOver'
    BY <1>1, <1>6, InvFacts, CauseKept DEF Control, KeepsHandedOver
  <2>2. Unseen \/ keeps \subseteq handed
    BY <1>1, <1>a, InvFacts DEF Control
  <2>3. Control'
    BY <1>1, <1>4, <1>6, <1>a, <2>1, <2>2, InvFacts DEF Control, Unseen
  <2> QED
    BY <1>3, <2>3, PartsNext
<1> QED
  BY <1>1, <1>5, <1>6

(* The WAL at work is one of the repository's objects. *)
LEMMA WalFacts ==
    ASSUME InstallInv, AtWals
    PROVE  Wal \in Keys /\ result = "none" /\ paired /\ done < Len(Files) + Len(Wals)
<1>1. Len(Files) \in Nat /\ Len(Wals) \in Nat /\ done \in Nat /\ done >= Len(Files) /\ done < Len(Files) + Len(Wals)
  BY InvFacts, Constants DEF Control, AtWals
<1>2. done - Len(Files) + 1 \in 1..Len(Wals)
  BY <1>1
<1> QED
  BY <1>2, Constants DEF Wal, AtWals

(* The next WAL is started. *)
LEMMA BeginWalKeeps ==
    ASSUME InstallInv, BeginWal
    PROVE  InstallInv'
<1>1. AtWals /\ ws.key # Wal /\ W!Start(Wal) /\ UNCHANGED <<dl, done, paired, handed, result>>
  BY DEF BeginWal, rest
<1>2. remote' = remote /\ causes' = causes /\ packs' = packs /\ keeps' = keeps
  BY <1>1 DEF W!Start
<1>3. Wal \in Keys /\ S!Start(Wal)
  BY <1>1, WalFacts, SameActions
<1>4. S!StreamInv'
  BY <1>3, InvFacts, SameInv, Constants, S!StartKeeps
<1>5. Sound'
  BY <1>2, InvFacts DEF Sound
<1>6. P!DownloadInv(harm)'
  <2>1. P!DownloadInv(harm) /\ remote' \in [Keys -> P!Remotes] /\ causes' \subseteq P!Causes
    BY <1>2, InvFacts, SameInv, SameActions
  <2>2. P!Active /\ remote'[dl.key] # "good" => P!Harmed(harm)'
    BY <2>1, <1>2 DEF P!DownloadInv, P!Harmed
  <2> QED
    BY <2>1, <2>2, <1>1, <1>2, P!OutsideKeeps
<1>7. ws'.key = Wal
  BY <1>1 DEF W!Start, W!Off
<1>8. AtWals' /\ Wal' = Wal
  BY <1>1 DEF AtWals, Wal
<1>9. Unseen \/ keeps \subseteq handed
  BY <1>1, WalFacts, InvFacts DEF Control
<1>10. CauseReported' /\ KeepsHandedOver'
  BY <1>1, <1>2, InvFacts, CauseKept DEF Control, KeepsHandedOver
<1>11. Control'
  BY <1>1, <1>2, <1>7, <1>8, <1>9, <1>10, InvFacts DEF Control, Unseen
<1> QED
  BY <1>4, <1>5, <1>6, <1>11, SameInvNext, PartsNext

(* The verdict on a WAL. *)
LEMMA EndWalKeeps ==
    ASSUME InstallInv, EndWal
    PROVE  InstallInv'
<1>1. /\ AtWals /\ ws.key = Wal /\ ws.phase = "returned" /\ UNCHANGED <<remote, dl, ws, packs, keeps, paired>>
      /\ \/ /\ ws.out = "ok" /\ done' = done + 1 /\ result' = result
            /\ \/ handed' = handed \cup {ws.key} /\ causes' = causes
               \/ handed' = handed /\ causes' = causes /\ "cancelled" \in causes
               \/ handed' = handed /\ causes' = causes \cup {"packdir"}
         \/ ws.out # "ok" /\ result' = ws.out /\ done' = done /\ handed' = handed /\ causes' = causes
  BY DEF EndWal, W!Interrupted
<1>a. /\ Len(Files) \in Nat /\ Len(Wals) \in Nat /\ done \in Nat /\ done >= Len(Files) /\ done < Len(Files) + Len(Wals)
      /\ Wal \in Keys /\ result = "none" /\ paired
  BY <1>1, WalFacts, InvFacts, Constants DEF Control, AtWals
<1>2. ~W!Running'
  BY <1>1 DEF W!Running
<1>b. causes \subseteq causes' /\ causes' \subseteq D!Causes
  BY <1>1, InvFacts DEF D!Causes
<1>3. Sound' /\ D!DownloadInv(harm)' /\ W!StreamInv'
  <2>1. Sound'
    BY <1>1, <1>b, InvFacts DEF Sound
  <2> QED
    BY <2>1, <1>1, <1>b, InvFacts, AroundParts
<1>4. CASE ws.out = "ok"
  <2>1. done' = done + 1 /\ result' = "none" /\ handed' \subseteq Keys /\ (Unseen' \/ handed' = handed \cup {ws.key})
    BY <1>1, <1>4, <1>a, InvFacts DEF Control, Unseen
  <2>2. Unseen' \/ keeps' \subseteq handed'
    BY <2>1, <1>1, <1>a, <1>b, InvFacts DEF Control, Unseen
  <2>3. CauseReported' /\ KeepsHandedOver'
    BY <2>1, <1>a, <1>b, InvFacts, CauseKept DEF Control, KeepsHandedOver
  <2>4. Control'
    BY <2>1, <2>2, <2>3, <1>1, <1>2, <1>a, InvFacts DEF Control
  <2> QED
    BY <1>3, <2>4, PartsNext
<1>5. CASE ws.out # "ok"
  <2>1. ws.out \in {"git", "cancelled"}
    <3>1. ws.out \in {"none", "ok", "git", "cancelled"}
      BY InvFacts DEF W!Stream, W!Results
    <3>2. ws.out # "none"
      BY <1>1, InvFacts DEF W!StreamInv
    <3> QED
      BY <1>5, <3>1, <3>2
  <2>2. Reasons.cancelled = {"cancelled"} /\ Reasons.git = {"network", "damage", "local"}
    BY DEF Reasons
  <2>3. Reasons[ws.out] \cap causes # {}
    BY <2>1, <2>2, InvFacts DEF W!StreamInv, W!Interrupted
  <2>4. result' = ws.out /\ done' = done /\ handed' = handed
    BY <1>1, <1>5
  <2>5. CauseReported' /\ KeepsHandedOver'
    BY <2>1, <2>3, <2>4, <1>b DEF CauseReported, KeepsHandedOver
  <2>6. Control'
    BY <2>1, <2>4, <2>5, <1>1, <1>2, <1>a, InvFacts DEF Control, D!Errors
  <2> QED
    BY <1>3, <2>6, PartsNext
<1> QED
  BY <1>4, <1>5

(* VerifyConnectivity. *)
LEMMA VerifyKeeps ==
    ASSUME InstallInv, Verify
    PROVE  InstallInv'
<1>1. /\ result = "none" /\ paired /\ done = Len(Files) + Len(Wals)
      /\ UNCHANGED <<remote, dl, ws, packs, keeps, done, paired, handed>>
      /\ GitFails \/ (~D!Interrupted /\ result' = "ok" /\ causes' = causes)
  BY DEF Verify, W!Interrupted, D!Interrupted
<1>a. Len(Files) \in Nat /\ Len(Wals) \in Nat /\ done \in Nat
  BY InvFacts, Constants DEF Control
<1>b. ~AtWals /\ ~W!Running
  BY <1>1, <1>a, InvFacts DEF Control, AtWals
<1>2. causes \subseteq causes' /\ causes' \subseteq D!Causes
  BY <1>1, GitFailsFacts, InvFacts
<1>3. Sound' /\ D!DownloadInv(harm)' /\ W!StreamInv'
  <2>1. Sound'
    BY <1>1, <1>2, InvFacts DEF Sound
  <2> QED
    BY <2>1, <1>1, <1>2, InvFacts, AroundParts
<1>4. ~W!Running'
  BY <1>1, <1>b DEF W!Running
<1>5. CASE GitFails
  <2>1. result' \in {"git", "cancelled"} /\ CauseReported' /\ KeepsHandedOver'
    BY <1>5, GitFailsFacts
  <2>2. Control'
    BY <1>1, <1>4, <1>a, <2>1, InvFacts DEF Control, D!Errors
  <2> QED
    BY <1>3, <2>2, PartsNext
<1>6. CASE ~D!Interrupted /\ result' = "ok" /\ causes' = causes
  <2>1. keeps \subseteq handed \/ "packdir" \in causes
    BY <1>1, <1>6, <1>b, InvFacts DEF Control, Unseen, D!Interrupted
  <2>2. CauseReported' /\ KeepsHandedOver'
    BY <1>1, <1>6, <2>1 DEF CauseReported, KeepsHandedOver, Reasons
  <2>3. Control'
    BY <1>1, <1>4, <1>6, <1>a, <2>1, <2>2, InvFacts DEF Control, Unseen
  <2> QED
    BY <1>3, <2>3, PartsNext
<1> QED
  BY <1>1, <1>5, <1>6

(* A change of the causes alone leaves the control as it is. *)
LEMMA ControlKept ==
    ASSUME Control, causes \subseteq causes', UNCHANGED <<ws, keeps, done, paired, handed, result>>
    PROVE  Control'
<1>1. CauseReported' /\ KeepsHandedOver'
  BY CauseKept DEF Control, KeepsHandedOver
<1>2. Unseen => Unseen'
  BY DEF Unseen
<1>3. (W!Running' <=> W!Running) /\ (AtWals' <=> AtWals) /\ Wal' = Wal
  BY DEF W!Running, AtWals, Wal
<1> QED
  BY <1>1, <1>2, <1>3 DEF Control

(* Damage and the user's interrupt. *)
LEMMA OutsideKeeps ==
    ASSUME InstallInv, Outside
    PROVE  InstallInv'
<1>1. /\ D!Interrupt \/ \E k \in Keys : D!Damage(k)
      /\ UNCHANGED <<dl, ws, packs, keeps, done, paired, handed, result>>
  BY DEF Outside, rest
<1>2. /\ causes \subseteq causes' /\ causes' \subseteq D!Causes /\ remote' \in [Keys -> D!Remotes] /\ Sound'
  <2>1. CASE D!Interrupt
    BY <2>1, InvFacts DEF D!Interrupt, D!Causes, Sound
  <2>2. CASE \E k \in Keys : D!Damage(k)
    BY <2>2, InvFacts DEF D!Damage, D!Causes, Sound
  <2> QED
    BY <1>1, <2>1, <2>2
<1>3. D!DownloadInv(harm)' /\ W!StreamInv'
  BY <1>1, <1>2, AroundParts
<1>4. Control'
  BY <1>1, <1>2, InvFacts, ControlKept
<1> QED
  BY <1>2, <1>3, <1>4, PartsNext

(* A step of the pool of workers. *)
LEMMA DownloadStepKeeps ==
    ASSUME InstallInv, D!Proceed, UNCHANGED <<ws, packs, keeps, rest>>
    PROVE  InstallInv'
<1>1. UNCHANGED <<ws, packs, keeps, done, paired, handed, result>>
  BY DEF rest
<1>2. P!Proceed /\ P!DownloadInv(harm)
  BY InvFacts, SameInv, SameActions
<1>3. P!DownloadInv(harm)'
  BY <1>2, Constants, P!ProceedKeeps
<1>4. remote' = remote /\ causes \subseteq causes'
  BY <1>2, P!ProceedFacts
<1>5. S!StreamInv'
  BY <1>1, <1>4, InvFacts, SameInv, S!AroundKeeps
<1>6. Sound' /\ Control'
  BY <1>1, <1>4, InvFacts, ControlKept DEF Sound
<1> QED
  BY <1>3, <1>5, <1>6, SameInvNext, PartsNext

(* A step of the goroutine, the copier or the child. *)
LEMMA StreamStepKeeps ==
    ASSUME InstallInv, W!Proceed, UNCHANGED <<dl, rest>>
    PROVE  InstallInv'
<1>1. UNCHANGED <<dl, done, paired, handed, result>>
  BY DEF rest
<1>2. S!Proceed /\ S!StreamInv /\ S!Sound
  BY InvFacts, SameInv, SameActions
<1>3. S!StreamInv'
  BY <1>2, Constants, S!StreamProceedKeeps
<1>4. /\ remote' = remote /\ ws'.key = ws.key /\ (ws'.phase = "running" => W!Running)
      /\ causes' \in {causes, causes \cup {"network"}, causes \cup {"local"}}
      /\ keeps' = keeps \/ (W!Running /\ keeps' = keeps \cup {ws.key})
  BY <1>2, S!StreamProceedFacts DEF S!Running, W!Running
<1>5. causes \subseteq causes' /\ causes' \subseteq D!Causes
  BY <1>4, InvFacts DEF D!Causes
<1>6. Sound'
  BY <1>4, <1>5, InvFacts DEF Sound
<1>7. P!DownloadInv(harm)'
  <2>1. P!DownloadInv(harm) /\ remote' \in [Keys -> P!Remotes] /\ causes' \subseteq P!Causes
    BY <1>4, <1>5, InvFacts, SameInv, SameActions
  <2>2. P!Active /\ remote'[dl.key] # "good" => P!Harmed(harm)'
    BY <2>1, <1>4, <1>5 DEF P!DownloadInv, P!Harmed
  <2> QED
    BY <2>1, <2>2, <1>1, <1>5, P!OutsideKeeps
<1>8. (W!Running' => W!Running) /\ (AtWals' <=> AtWals) /\ Wal' = Wal /\ (Unseen => Unseen')
  BY <1>1, <1>4, <1>5 DEF W!Running, AtWals, Wal, Unseen
<1>9. CauseReported'
  BY <1>1, <1>5, InvFacts, CauseKept DEF Control
<1>10. CASE keeps' = keeps
  <2>1. KeepsHandedOver'
    BY <1>1, <1>5, <1>10, InvFacts DEF Control, KeepsHandedOver
  <2>2. Control'
    BY <1>1, <1>4, <1>8, <1>9, <1>10, <2>1, InvFacts DEF Control
  <2> QED
    BY <1>3, <1>6, <1>7, <2>2, SameInvNext, PartsNext
<1>11. CASE W!Running /\ keeps' = keeps \cup {ws.key}
  <2>1. AtWals /\ ws.key = Wal
    BY <1>11, InvFacts DEF Control
  <2>2. result = "none"
    BY <2>1 DEF AtWals
  <2>3. KeepsHandedOver'
    BY <1>1, <2>2 DEF KeepsHandedOver
  <2>4. Unseen \/ keeps' \subseteq handed \cup {ws.key}
    BY <1>11, <2>2, InvFacts DEF Control
  <2>5. Control'
    BY <1>1, <1>4, <1>8, <1>9, <2>1, <2>3, <2>4, InvFacts DEF Control
  <2> QED
    BY <1>3, <1>6, <1>7, <2>5, SameInvNext, PartsNext
<1> QED
  BY <1>4, <1>10, <1>11

-----------------------------------------------------------------------------
(* The invariant holds: initially, and after every step of pool, stream,   *)
(* fetch and world.                                                        *)
THEOREM InvariantHolds == Spec => []InstallInv
<1>1. Init => InstallInv
  <2> SUFFICES ASSUME Init PROVE InstallInv
    OBVIOUS
  <2>1. remote \in [Keys -> P!Remotes] /\ causes \subseteq P!Causes
    BY DEF Init, P!Remotes
  <2>2. dl = P!Off /\ ws = S!Off
    BY SameActions DEF Init
  <2>3. P!DownloadInv(harm)
    BY <2>1, <2>2, Constants, P!OffFits
  <2>4. packs \in [Keys -> S!Bytes \cup {"none"}] /\ keeps \subseteq Keys
    BY DEF Init
  <2>5. S!StreamInv
    BY <2>2, <2>4, S!OffStream
  <2>6. Sound
    BY DEF Init, Sound
  <2>7. ~W!Running
    BY DEF Init, W!Running, W!Off
  <2>8. 0 \in 0..(Len(Files) + Len(Wals))
    BY Constants
  <2>9. CauseReported /\ KeepsHandedOver
    BY DEF Init, CauseReported, KeepsHandedOver, Reasons
  <2>10. Control
    BY <2>7, <2>8, <2>9 DEF Init, Control
  <2> QED
    BY <2>3, <2>5, <2>6, <2>10, SameInv, Parts
<1>2. InstallInv /\ [Next]_vars => InstallInv'
  <2> SUFFICES ASSUME InstallInv, [Next]_vars PROVE InstallInv'
    OBVIOUS
  <2>1. CASE Next
    BY <2>1, BeginFileKeeps, EndFileKeeps, VerifyPairKeeps, BeginWalKeeps, EndWalKeeps, VerifyKeeps,
       DownloadStepKeeps, StreamStepKeeps, OutsideKeeps DEF Next, Proceed
  <2>2. CASE UNCHANGED vars
    <3>1. UNCHANGED <<remote, causes, dl, ws, packs, keeps, done, paired, handed, result>>
      BY <2>2 DEF vars
    <3>2. Sound' /\ Control'
      BY <3>1, InvFacts, ControlKept DEF Sound
    <3>3. D!DownloadInv(harm)' /\ W!StreamInv'
      BY <3>1, <3>2, InvFacts, AroundParts
    <3> QED
      BY <3>2, <3>3, PartsNext
  <2> QED
    BY <2>1, <2>2
<1> QED
  BY <1>1, <1>2, PTL DEF Spec

(* Every variable keeps its type, and no error channel overflows. *)
THEOREM TypeCorrect == Spec => []TypeOK
<1>1. InstallInv => TypeOK
  BY DEF InstallInv
<1> QED
  BY <1>1, InvariantHolds, PTL

(* A file that downloadVerified accepts is right in every range, whatever  *)
(* number of workers fails, gives up or is late.                           *)
THEOREM AcceptedIsRight == Spec => []DownloadVerified
<1>1. InstallInv => DownloadVerified
  <2> SUFFICES ASSUME InstallInv, dl.out = "ok" PROVE D!Whole(dl.file)
    BY DEF DownloadVerified
  <2>1. dl.phase \in {"off", "producing", "waiting", "returned"}
    BY InvFacts DEF D!Transfer, D!Phases
  <2>2. dl.phase = "returned"
    BY <2>1, InvFacts DEF D!DownloadInv, D!Active
  <2> QED
    BY <2>2, InvFacts DEF D!DownloadInv
<1> QED
  BY <1>1, InvariantHolds, PTL

(* A WAL that installWAL reports as installed is the referenced pack: the  *)
(* verdict on the digest reaches Run before it returns.                    *)
THEOREM InstalledIsReferenced == Spec => []WalVerified
<1>1. InstallInv => WalVerified
  <2> SUFFICES ASSUME InstallInv, ws.out = "ok" PROVE packs[ws.key] = "good"
    BY DEF WalVerified
  <2>1. ws.phase = "returned" /\ ws.child = "ok" /\ ws.cerr = "none" /\ ws.copier = "ended"
    BY InvFacts DEF W!StreamInv
  <2>2. W!Conserved /\ ws.at = "closed" /\ ws.err = "none" /\ packs[ws.key] = ws.seen
    BY <2>1, InvFacts DEF W!StreamInv
  <2>3. ws.sum = "good"
    BY <2>2, InvFacts DEF W!StreamInv
  <2>4. ws.sum = ws.seen
    BY <2>1, <2>2 DEF W!Conserved, W!Sent, W!Held
  <2> QED
    BY <2>2, <2>3, <2>4
<1> QED
  BY <1>1, InvariantHolds, PTL

(* A fetch that fails names what went wrong. *)
THEOREM FailureHasCause == Spec => []CauseReported
<1>1. InstallInv => CauseReported
  BY DEF InstallInv
<1> QED
  BY <1>1, InvariantHolds, PTL

(* A successful fetch has reported every .keep file, unless the pack       *)
(* directory could not be looked at: that the user's interrupt killed the  *)
(* command that asks for it cannot go unnoticed, since the connectivity    *)
(* check of the same fetch is then killed, too.                            *)
THEOREM KeepsAreReported == Spec => []KeepsHandedOver
<1>1. InstallInv => KeepsHandedOver
  BY DEF InstallInv
<1> QED
  BY <1>1, InvariantHolds, PTL

=============================================================================
