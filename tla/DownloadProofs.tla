-------------------------- MODULE DownloadProofs ---------------------------
(***************************************************************************)
(* Machine-checked lemmas about Download: every step of the pool, and      *)
(* every change of the world around it, keeps its invariant.  They serve   *)
(* Install and Lfs, whatever the number of workers, ranges and slots.      *)
(***************************************************************************)
EXTENDS Download, SequenceTheorems, TLAPS

(* What is asked of the constants: there is room for one error. *)
Sizes == Spans \in [Keys -> Nat] /\ FailureSlots \in Nat \ {0}

(* The states of one worker that need no explanation. *)
Resting(w) == dl.pool[w].at \in {"idle", "ended"}

(* Types, and the invariant's part about one worker. *)
Fits(w, harm) ==
    /\ Resting(w) \/ Active
    /\ dl.pool[w].job = 0 \/ dl.pool[w].job \in 1..Spans[dl.key]
    /\ dl.pool[w].at = "copying" => dl.pool[w].job # 0
    /\ dl.pool[w].at = "failed" => dl.pool[w].err # "none"
    /\ dl.pool[w].at = "failed" => dl.failures # <<>> \/ Explained(dl.pool[w].err, harm)
    /\ dl.pool[w].at = "sent" => dl.failures # <<>>

(* What is known of the transfer. *)
LEMMA TransferFacts ==
    ASSUME NEW harm, DownloadInv(harm)
    PROVE  /\ remote \in [Keys -> Remotes] /\ causes \subseteq Causes /\ dl \in Transfer
           /\ Len(dl.failures) <= FailureSlots
           /\ \A w \in Workers : Fits(w, harm) /\ dl.pool[w] \in Worker
           /\ dl.pool \in [Workers -> Worker] /\ dl.failures \in Seq(Errors) /\ dl.next \in Nat
           /\ dl.file \in Seq({"absent", "hole", "part", "good", "other"})
           /\ \A s \in DOMAIN dl.file : dl.file[s] = "other" => Harmed(harm)
           /\ dl.ctx => dl.failures # <<>>
           /\ dl.failures # <<>> => Explained(Head(dl.failures), harm)
<1>1. remote \in [Keys -> Remotes] /\ causes \subseteq Causes /\ dl \in Transfer /\ Len(dl.failures) <= FailureSlots
  BY DEF DownloadInv, Types
<1>2. /\ dl.pool \in [Workers -> Worker] /\ dl.failures \in Seq(Errors) /\ dl.next \in Nat
      /\ dl.file \in Seq({"absent", "hole", "part", "good", "other"})
  BY <1>1 DEF Transfer
<1>3. \A w \in Workers : Fits(w, harm)
  BY DEF DownloadInv, Types, Fits, Resting
<1> QED
  BY <1>1, <1>2, <1>3 DEF DownloadInv

(* What is known of one at work. *)
LEMMA ActiveFacts ==
    ASSUME Sizes, NEW harm, DownloadInv(harm), Active
    PROVE  /\ dl.key \in Keys /\ Spans[dl.key] \in Nat /\ Len(dl.file) = Spans[dl.key] /\ dl.out = "none"
           /\ DOMAIN dl.file = 1..Spans[dl.key]
           /\ remote[dl.key] # "good" => Harmed(harm)
           /\ dl.next \in 1..(Spans[dl.key] + 1) /\ (dl.phase = "waiting" => dl.next = Spans[dl.key] + 1)
           /\ \A s \in 1..(dl.next - 1) : Accounted(s) /\ s \in 1..Spans[dl.key]
<1>1. /\ dl.key \in Keys /\ Len(dl.file) = Spans[dl.key] /\ dl.out = "none"
      /\ remote[dl.key] # "good" => Harmed(harm)
      /\ dl.next \in 1..(Spans[dl.key] + 1) /\ (dl.phase = "waiting" => dl.next = Spans[dl.key] + 1)
      /\ \A s \in 1..(dl.next - 1) : Accounted(s)
  BY DEF DownloadInv
<1>2. Spans[dl.key] \in Nat
  BY <1>1 DEF Sizes
<1>3. DOMAIN dl.file = 1..Spans[dl.key]
  BY <1>1, TransferFacts
<1>4. \A s \in 1..(dl.next - 1) : s \in 1..Spans[dl.key]
  BY <1>1, <1>2
<1> QED
  BY <1>1, <1>2, <1>3, <1>4

(* A step of a transfer at work keeps the invariant when its parts do. *)
LEMMA WorkStep ==
    ASSUME Sizes, NEW harm, DownloadInv(harm), Active, remote' = remote, causes \subseteq causes',
           causes' \subseteq Causes, dl' \in Transfer, Active', dl'.key = dl.key, dl'.out = dl.out,
           Len(dl'.failures) <= FailureSlots, Len(dl'.file) = Len(dl.file),
           dl'.ctx => dl'.failures # <<>>,
           dl'.failures # <<>> => Explained(Head(dl.failures), harm)',
           \A s \in DOMAIN dl'.file : dl'.file[s] = "other" => Harmed(harm)',
           \A w \in Workers : Fits(w, harm)',
           dl'.next \in 1..(Spans[dl.key] + 1),
           dl'.phase = "waiting" => dl'.next = Spans[dl.key] + 1,
           \A s \in 1..(dl'.next - 1) : Accounted(s)'
    PROVE  DownloadInv(harm)'
<1>1. /\ dl.key \in Keys /\ Len(dl.file) = Spans[dl.key] /\ dl.out = "none"
      /\ remote[dl.key] # "good" => Harmed(harm)
  BY ActiveFacts
<1>2. Harmed(harm) => Harmed(harm)'
  BY DEF Harmed
<1>3. Types'
  BY TransferFacts DEF Types, Fits
<1>4. \A w \in Workers : /\ dl'.pool[w].at \in {"idle", "ended"} \/ Active'
                         /\ dl'.pool[w].at = "copying" => dl'.pool[w].job # 0
                         /\ dl'.pool[w].at = "failed" => dl'.pool[w].err # "none"
                         /\ dl'.pool[w].at = "failed" =>
                              dl'.failures # <<>> \/ Explained(dl.pool[w].err, harm)'
                         /\ dl'.pool[w].at = "sent" => dl'.failures # <<>>
  BY DEF Fits, Resting
<1>5. dl'.phase # "off" /\ dl'.phase # "returned"
  BY DEF Active
<1> QED
  BY <1>1, <1>2, <1>3, <1>4, <1>5 DEF DownloadInv

(* What has gone wrong stays so. *)
LEMMA Monotone ==
    ASSUME NEW harm, causes \subseteq causes'
    PROVE  /\ Harmed(harm) => Harmed(harm)'
           /\ Interrupted => Interrupted'
           /\ \A err : Explained(err, harm) => Explained(err, harm)'
<1>1. Harmed(harm) => Harmed(harm)'
  BY DEF Harmed
<1>2. Interrupted => Interrupted'
  BY DEF Interrupted
<1>3. ASSUME NEW err, Explained(err, harm) PROVE Explained(err, harm)'
  BY <1>1, <1>2, <1>3 DEF Explained
<1> QED
  BY <1>1, <1>2, <1>3

(* A worker that a step leaves alone still fits. *)
LEMMA OtherFits ==
    ASSUME NEW harm, NEW v \in Workers, Fits(v, harm), causes \subseteq causes', Active', dl'.key = dl.key,
           dl'.pool[v] = dl.pool[v], dl.failures # <<>> => dl'.failures # <<>>
    PROVE  Fits(v, harm)'
<1>1. Explained(dl.pool[v].err, harm) => Explained(dl.pool[v].err, harm)'
  BY Monotone DEF Explained
<1> QED
  BY <1>1 DEF Fits

(* A worker that rests fits. *)
LEMMA RestFits ==
    ASSUME NEW harm, NEW w \in Workers, dl'.pool[w] = Idle
    PROVE  Fits(w, harm)'
BY DEF Fits, Resting, Idle

(* A range that was accounted for still is when nobody forgets it. *)
LEMMA AccountKept ==
    ASSUME NEW s, Accounted(s), causes \subseteq causes', dl'.file[s] = dl.file[s],
           dl.failures # <<>> => dl'.failures # <<>>,
           \A v \in Workers : (dl.pool[v].at = "copying" /\ dl.pool[v].job = s) \/ dl.pool[v].at = "failed"
                                => dl'.pool[v] = dl.pool[v]
    PROVE  Accounted(s)'
BY Monotone DEF Accounted, Interrupted

(* The producer gives up. *)
LEMMA GiveUpKeeps ==
    ASSUME Sizes, NEW harm, DownloadInv(harm), GiveUp
    PROVE  DownloadInv(harm)'
<1> DEFINE d == [dl EXCEPT !.next = Spans[dl.key] + 1]
<1>a. Active
  BY DEF GiveUp, Active
<1>b. dl' = d /\ causes' = causes /\ remote' = remote
  BY DEF GiveUp
<1>c. Spans[dl.key] + 1 \in Nat
  BY <1>a, ActiveFacts
<1>1. /\ d \in Transfer /\ d.next = Spans[dl.key] + 1 /\ d.key = dl.key /\ d.phase = dl.phase /\ d.file = dl.file
      /\ d.pool = dl.pool /\ d.failures = dl.failures /\ d.ctx = dl.ctx /\ d.out = dl.out
  BY TransferFacts, <1>c DEF Transfer
<1> HIDE DEF d
<1>2. Active'
  BY <1>a, <1>b, <1>1 DEF Active
<1>3. \A w \in Workers : Fits(w, harm)'
  BY <1>b, <1>1, <1>2, TransferFacts, OtherFits
<1>4. dl.failures # <<>> \/ Interrupted
  BY TransferFacts DEF GiveUp, Cancelled
<1>5. \A s : Accounted(s)'
  BY <1>4, <1>b, <1>1 DEF Accounted, Interrupted
<1>6. dl'.failures # <<>> => Explained(Head(dl.failures), harm)'
  BY TransferFacts, <1>b, <1>1 DEF Explained, Harmed, Interrupted
<1>7. \A s \in DOMAIN dl'.file : dl'.file[s] = "other" => Harmed(harm)'
  BY TransferFacts, <1>b, <1>1 DEF Harmed
<1>8. dl'.next \in 1..(Spans[dl.key] + 1)
  BY <1>a, <1>b, <1>1, ActiveFacts
<1> QED
  BY WorkStep, TransferFacts, <1>a, <1>b, <1>1, <1>2, <1>3, <1>5, <1>6, <1>7, <1>8

(* The channel of ranges is closed. *)
LEMMA CloseJobsKeeps ==
    ASSUME Sizes, NEW harm, DownloadInv(harm), CloseJobs
    PROVE  DownloadInv(harm)'
<1> DEFINE d == [dl EXCEPT !.phase = "waiting"]
<1>a. Active
  BY DEF CloseJobs, Active
<1>b. dl' = d /\ causes' = causes /\ remote' = remote
  BY DEF CloseJobs
<1>c. "waiting" \in Phases
  BY DEF Phases
<1>1. /\ d \in Transfer /\ d.next = dl.next /\ d.key = dl.key /\ d.phase = "waiting" /\ d.file = dl.file
      /\ d.pool = dl.pool /\ d.failures = dl.failures /\ d.ctx = dl.ctx /\ d.out = dl.out
  BY TransferFacts, <1>c DEF Transfer
<1> HIDE DEF d
<1>2. Active'
  BY <1>a, <1>b, <1>1 DEF Active
<1>3. \A w \in Workers : Fits(w, harm)'
  BY <1>b, <1>1, <1>2, TransferFacts, OtherFits
<1>5. \A s \in 1..(dl'.next - 1) : Accounted(s)'
  BY <1>a, <1>b, <1>1, ActiveFacts, AccountKept
<1>6. dl'.failures # <<>> => Explained(Head(dl.failures), harm)'
  BY TransferFacts, <1>b, <1>1 DEF Explained, Harmed, Interrupted
<1>7. \A s \in DOMAIN dl'.file : dl'.file[s] = "other" => Harmed(harm)'
  BY TransferFacts, <1>b, <1>1 DEF Harmed
<1>8. dl'.next \in 1..(Spans[dl.key] + 1) /\ dl'.next = Spans[dl.key] + 1
  BY <1>a, <1>b, <1>1, ActiveFacts DEF CloseJobs
<1> QED
  BY WorkStep, TransferFacts, <1>a, <1>b, <1>1, <1>2, <1>3, <1>5, <1>6, <1>7, <1>8

(* A worker takes the next range. *)
LEMMA HandOutKeeps ==
    ASSUME Sizes, NEW harm, DownloadInv(harm), NEW w \in Workers, HandOut(w)
    PROVE  DownloadInv(harm)'
<1> DEFINE j == [Idle EXCEPT !.at = "copying", !.job = dl.next]
           pool == [dl.pool EXCEPT ![w] = j]
           d == [dl EXCEPT !.next = dl.next + 1, !.pool = pool]
<1>a. Active
  BY DEF HandOut, Active
<1>b. /\ dl.next \in 1..Spans[dl.key] /\ dl.next \in Nat /\ dl.next + 1 \in Nat /\ Spans[dl.key] \in Nat
      /\ dl.phase = "producing" /\ dl.pool[w].at = "idle"
  BY <1>a, ActiveFacts DEF HandOut
<1>c. j \in Worker /\ j.at = "copying" /\ j.job = dl.next
  BY <1>b DEF Idle, Worker
<1> HIDE DEF j
<1>d. pool \in [Workers -> Worker] /\ pool[w] = j /\ \A v \in Workers \ {w} : pool[v] = dl.pool[v]
  BY <1>c, TransferFacts
<1>e. dl' = d /\ causes' = causes /\ remote' = remote
  BY TransferFacts DEF HandOut, j, Transfer
<1> HIDE DEF pool
<1>1. /\ d \in Transfer /\ d.next = dl.next + 1 /\ d.key = dl.key /\ d.phase = dl.phase /\ d.file = dl.file
      /\ d.pool = pool /\ d.failures = dl.failures /\ d.ctx = dl.ctx /\ d.out = dl.out
  BY TransferFacts, <1>b, <1>d DEF Transfer
<1> HIDE DEF d
<1>2. Active'
  BY <1>a, <1>e, <1>1 DEF Active
<1>3. ASSUME NEW v \in Workers PROVE Fits(v, harm)'
  <2>1. CASE v = w
    BY <2>1, <1>b, <1>c, <1>d, <1>e, <1>1, <1>2 DEF Fits, Resting
  <2>2. CASE v # w
    BY <2>2, <1>d, <1>e, <1>1, <1>2, TransferFacts, OtherFits
  <2> QED
    BY <2>1, <2>2
<1>4. \A s : s = dl.next => Accounted(s)'
  BY <1>c, <1>d, <1>e, <1>1 DEF Accounted
<1>5. ASSUME NEW s \in 1..(dl.next - 1) PROVE Accounted(s)'
  <2>1. Accounted(s)
    BY <1>a, ActiveFacts
  <2> QED
    BY <2>1, <1>b, <1>d, <1>e, <1>1, AccountKept
<1>6. dl'.failures # <<>> => Explained(Head(dl.failures), harm)'
  BY TransferFacts, <1>e, <1>1 DEF Explained, Harmed, Interrupted
<1>7. \A s \in DOMAIN dl'.file : dl'.file[s] = "other" => Harmed(harm)'
  BY TransferFacts, <1>e, <1>1 DEF Harmed
<1>8. dl'.next \in 1..(Spans[dl.key] + 1) /\ \A s \in 1..(dl'.next - 1) : s = dl.next \/ s \in 1..(dl.next - 1)
  BY <1>b, <1>e, <1>1
<1>9. \A s \in 1..(dl'.next - 1) : Accounted(s)'
  BY <1>4, <1>5, <1>8
<1>10. dl'.phase # "waiting"
  BY <1>b, <1>e, <1>1
<1> QED
  BY WorkStep, TransferFacts, <1>a, <1>e, <1>1, <1>2, <1>3, <1>6, <1>7, <1>8, <1>9, <1>10

(* Writing one range of the file. *)
LEMMA FileWritten ==
    ASSUME NEW S, NEW f \in Seq(S), NEW i \in DOMAIN f, NEW e \in S
    PROVE  /\ [f EXCEPT ![i] = e] \in Seq(S) /\ Len([f EXCEPT ![i] = e]) = Len(f)
           /\ [f EXCEPT ![i] = e][i] = e
           /\ DOMAIN [f EXCEPT ![i] = e] = DOMAIN f
           /\ \A s \in DOMAIN f \ {i} : [f EXCEPT ![i] = e][s] = f[s]
BY ExceptSeq

(* A copying worker has a range of the file. *)
LEMMA CopyingFacts ==
    ASSUME Sizes, NEW harm, DownloadInv(harm), NEW w \in Workers, dl.pool[w].at \in {"copying", "failed", "sent"}
    PROVE  Active /\ (dl.pool[w].at = "copying" => dl.pool[w].job \in DOMAIN dl.file)
<1>1. Fits(w, harm)
  BY TransferFacts
<1>2. Active
  BY <1>1 DEF Fits, Resting
<1> QED
  BY <1>1, <1>2, ActiveFacts DEF Fits

(* A range is copied. *)
LEMMA CopiedKeeps ==
    ASSUME Sizes, NEW harm, DownloadInv(harm), NEW w \in Workers, Copied(w)
    PROVE  DownloadInv(harm)'
<1> DEFINE i == dl.pool[w].job
           e == remote[dl.key]
           file == [dl.file EXCEPT ![i] = e]
           pool == [dl.pool EXCEPT ![w] = Idle]
           d == [dl EXCEPT !.file = file, !.pool = pool]
<1>a. Active /\ i \in DOMAIN dl.file /\ e \in {"good", "other"} /\ (e = "other" => Harmed(harm))
  BY CopyingFacts, ActiveFacts DEF Copied
<1>b. /\ file \in Seq({"absent", "hole", "part", "good", "other"}) /\ Len(file) = Len(dl.file)
      /\ file[i] = e /\ DOMAIN file = DOMAIN dl.file /\ \A s \in DOMAIN dl.file \ {i} : file[s] = dl.file[s]
  BY <1>a, TransferFacts, FileWritten
<1>c. Idle \in Worker
  BY DEF Idle, Worker
<1>d. pool \in [Workers -> Worker] /\ pool[w] = Idle /\ \A v \in Workers \ {w} : pool[v] = dl.pool[v]
  BY <1>c, TransferFacts
<1>e. dl' = d /\ causes' = causes /\ remote' = remote /\ dl.pool[w].at = "copying"
  BY TransferFacts DEF Copied, Transfer
<1> HIDE DEF pool, file, e
<1>1. /\ d \in Transfer /\ d.next = dl.next /\ d.key = dl.key /\ d.phase = dl.phase /\ d.file = file
      /\ d.pool = pool /\ d.failures = dl.failures /\ d.ctx = dl.ctx /\ d.out = dl.out
  BY TransferFacts, <1>b, <1>d DEF Transfer
<1> HIDE DEF d
<1>2. Active'
  BY <1>a, <1>e, <1>1 DEF Active
<1>3. ASSUME NEW v \in Workers PROVE Fits(v, harm)'
  <2>1. CASE v = w
    BY <2>1, <1>d, <1>e, <1>1, RestFits
  <2>2. CASE v # w
    BY <2>2, <1>d, <1>e, <1>1, <1>2, TransferFacts, OtherFits
  <2> QED
    BY <2>1, <2>2
<1>5. ASSUME NEW s \in 1..(dl.next - 1) PROVE Accounted(s)'
  <2>1. Accounted(s) /\ s \in DOMAIN dl.file
    BY <1>a, ActiveFacts
  <2>2. CASE s = i
    BY <2>2, <1>a, <1>b, <1>e, <1>1 DEF Accounted
  <2>3. CASE s # i
    BY <2>1, <2>3, <1>b, <1>d, <1>e, <1>1, AccountKept
  <2> QED
    BY <2>2, <2>3
<1>6. dl'.failures # <<>> => Explained(Head(dl.failures), harm)'
  BY TransferFacts, <1>e, <1>1 DEF Explained, Harmed, Interrupted
<1>7. \A s \in DOMAIN dl'.file : dl'.file[s] = "other" => Harmed(harm)'
  BY TransferFacts, <1>a, <1>b, <1>e, <1>1 DEF Harmed
<1>8. dl'.next \in 1..(Spans[dl.key] + 1) /\ (dl'.phase = "waiting" => dl'.next = Spans[dl.key] + 1)
  BY <1>a, <1>e, <1>1, ActiveFacts
<1>9. \A s \in 1..(dl'.next - 1) : Accounted(s)'
  BY <1>5, <1>e, <1>1
<1> QED
  BY WorkStep, TransferFacts, <1>a, <1>b, <1>e, <1>1, <1>2, <1>3, <1>6, <1>7, <1>8, <1>9

(* What a failing copy may say is true of the world. *)
LEMMA ReasonGiven ==
    ASSUME Sizes, NEW harm, DownloadInv(harm), NEW w \in Workers, NEW err \in Errors, Active,
           \/ err = "cancelled" /\ Cancelled /\ UNCHANGED causes
           \/ err = "network" /\ remote[dl.key] = "gone" /\ UNCHANGED causes
           \/ err = "network" /\ remote[dl.key] # "gone" /\ causes' = causes \cup {"network"}
           \/ err = "integrity" /\ remote[dl.key] = "resized" /\ UNCHANGED causes
           \/ err = "output" /\ Agent /\ "output" \in causes /\ UNCHANGED causes
    PROVE  /\ causes \subseteq causes' /\ causes' \subseteq Causes /\ err # "none"
           /\ dl.failures # <<>> \/ Explained(err, harm)'
<1>1. causes \subseteq causes' /\ causes' \subseteq Causes /\ err # "none"
  BY TransferFacts DEF Causes, Errors
<1>2. remote[dl.key] # "good" => Harmed(harm)'
  BY <1>1, ActiveFacts, Monotone
<1>3. Cancelled => dl.failures # <<>> \/ Interrupted'
  BY <1>1, TransferFacts, Monotone DEF Cancelled
<1> QED
  BY <1>1, <1>2, <1>3 DEF Explained

(* A copy fails, and the worker has a reason. *)
LEMMA CopyFailsKeeps ==
    ASSUME Sizes, NEW harm, DownloadInv(harm), NEW w \in Workers, CopyFails(w)
    PROVE  DownloadInv(harm)'
<1>a. dl.pool[w].at = "copying"
  BY DEF CopyFails
<1> PICK err \in Errors, left \in {"hole", "part"} :
        /\ \/ err = "cancelled" /\ Cancelled /\ UNCHANGED causes
           \/ err = "network" /\ remote[dl.key] = "gone" /\ UNCHANGED causes
           \/ err = "network" /\ remote[dl.key] # "gone" /\ causes' = causes \cup {"network"}
           \/ err = "integrity" /\ remote[dl.key] = "resized" /\ UNCHANGED causes
           \/ err = "output" /\ Agent /\ "output" \in causes /\ UNCHANGED causes
        /\ dl' = [dl EXCEPT !.file[dl.pool[w].job] = left, !.pool[w] = [@ EXCEPT !.at = "failed", !.err = err]]
  BY DEF CopyFails
<1> DEFINE i == dl.pool[w].job
           file == [dl.file EXCEPT ![i] = left]
           q == [dl.pool[w] EXCEPT !.at = "failed", !.err = err]
           pool == [dl.pool EXCEPT ![w] = q]
           d == [dl EXCEPT !.file = file, !.pool = pool]
<1>b. Active /\ i \in DOMAIN dl.file
  BY <1>a, CopyingFacts
<1>c. causes \subseteq causes' /\ causes' \subseteq Causes /\ err # "none" /\ (dl.failures # <<>> \/ Explained(err, harm)')
  BY <1>b, ReasonGiven
<1>d. /\ file \in Seq({"absent", "hole", "part", "good", "other"}) /\ Len(file) = Len(dl.file)
      /\ file[i] = left /\ DOMAIN file = DOMAIN dl.file /\ \A s \in DOMAIN dl.file \ {i} : file[s] = dl.file[s]
  BY <1>b, TransferFacts, FileWritten
<1>e. q \in Worker /\ q.at = "failed" /\ q.err = err /\ q.job = i
  BY TransferFacts DEF Worker
<1>f. pool \in [Workers -> Worker] /\ pool[w] = q /\ \A v \in Workers \ {w} : pool[v] = dl.pool[v]
  BY <1>e, TransferFacts
<1>g. dl' = d /\ remote' = remote
  BY TransferFacts DEF CopyFails, Transfer, Worker
<1> HIDE DEF pool, file, q
<1>1. /\ d \in Transfer /\ d.next = dl.next /\ d.key = dl.key /\ d.phase = dl.phase /\ d.file = file
      /\ d.pool = pool /\ d.failures = dl.failures /\ d.ctx = dl.ctx /\ d.out = dl.out
  BY TransferFacts, <1>d, <1>f DEF Transfer
<1> HIDE DEF d
<1>2. Active'
  BY <1>b, <1>g, <1>1 DEF Active
<1>3. ASSUME NEW v \in Workers PROVE Fits(v, harm)'
  <2>1. CASE v = w
    <3>1. Fits(w, harm) /\ dl'.pool[w] = q
      BY <1>f, <1>g, <1>1, TransferFacts
    <3>2. dl'.failures # <<>> \/ Explained(dl.pool[w].err, harm)'
      BY <3>1, <1>c, <1>e, <1>g, <1>1 DEF Explained
    <3> QED
      BY <2>1, <3>1, <3>2, <1>c, <1>e, <1>g, <1>1, <1>2 DEF Fits, Resting
  <2>2. CASE v # w
    BY <2>2, <1>c, <1>f, <1>g, <1>1, <1>2, TransferFacts, OtherFits
  <2> QED
    BY <2>1, <2>2
<1>5. \A s : Accounted(s)'
  BY <1>e, <1>f, <1>g, <1>1 DEF Accounted
<1>6. dl'.failures # <<>> => Explained(Head(dl.failures), harm)'
  BY TransferFacts, <1>c, <1>g, <1>1, Monotone DEF Explained
<1>7. \A s \in DOMAIN dl'.file : dl'.file[s] = "other" => Harmed(harm)'
  BY TransferFacts, <1>c, <1>d, <1>g, <1>1, Monotone
<1>8. dl'.next \in 1..(Spans[dl.key] + 1) /\ (dl'.phase = "waiting" => dl'.next = Spans[dl.key] + 1)
  BY <1>b, <1>g, <1>1, ActiveFacts
<1> QED
  BY WorkStep, TransferFacts, <1>b, <1>c, <1>d, <1>g, <1>1, <1>2, <1>3, <1>5, <1>6, <1>7, <1>8

(* The first error into the channel stays its first one. *)
LEMMA SentFacts ==
    ASSUME Sizes, NEW harm, DownloadInv(harm), NEW w \in Workers, dl.pool[w].at = "failed"
    PROVE  /\ Sent(w) \in Seq(Errors) /\ Len(Sent(w)) <= FailureSlots /\ Sent(w) # <<>>
           /\ Explained(Head(Sent(w)), harm)
<1>1. dl.pool[w].err \in Errors
  BY TransferFacts DEF Fits, Worker
<1>2. dl.failures \in Seq(Errors) /\ Len(dl.failures) <= FailureSlots /\ FailureSlots \in Nat \ {0}
  BY TransferFacts DEF Sizes
<1>3. dl.failures # <<>> => Explained(Head(dl.failures), harm)
  BY TransferFacts
<1>4. dl.failures = <<>> => Explained(dl.pool[w].err, harm)
  BY TransferFacts DEF Fits
<1>5. CASE Len(dl.failures) < FailureSlots
  <2>1. Sent(w) = Append(dl.failures, dl.pool[w].err)
    BY <1>5 DEF Sent
  <2>2. Sent(w) \in Seq(Errors) /\ Len(Sent(w)) <= FailureSlots /\ Sent(w) # <<>>
    BY <2>1, <1>1, <1>2, <1>5, AppendProperties
  <2>3. Head(Sent(w)) = IF dl.failures = <<>> THEN dl.pool[w].err ELSE Head(dl.failures)
    BY <2>1, <1>1, <1>2
  <2> QED
    BY <2>2, <2>3, <1>3, <1>4
<1>6. CASE ~(Len(dl.failures) < FailureSlots)
  <2>1. Sent(w) = dl.failures /\ dl.failures # <<>>
    BY <1>2, <1>6 DEF Sent
  <2> QED
    BY <2>1, <1>2, <1>3
<1> QED
  BY <1>5, <1>6

(* A worker sends its error, then cancels the others. *)
LEMMA WorkerFailsKeeps ==
    ASSUME Sizes, NEW harm, DownloadInv(harm), NEW w \in Workers, WorkerFails(w)
    PROVE  DownloadInv(harm)'
<1>a. dl.pool[w].at \in {"failed", "sent"} /\ remote' = remote /\ causes' = causes
  BY DEF WorkerFails
<1>b. Active
  BY <1>a, CopyingFacts
<1> DEFINE at == IF dl.pool[w].at = "failed" THEN "sent" ELSE "ended"
           fails == IF dl.pool[w].at = "failed" THEN Sent(w) ELSE dl.failures
           ctx == IF dl.pool[w].at = "failed" THEN dl.ctx ELSE TRUE
           q == [dl.pool[w] EXCEPT !.at = at]
           pool == [dl.pool EXCEPT ![w] = q]
           d1 == [dl EXCEPT !.pool = pool]
           d2 == [d1 EXCEPT !.failures = fails]
           d == [d2 EXCEPT !.ctx = ctx]
<1>c. /\ fails \in Seq(Errors) /\ Len(fails) <= FailureSlots /\ fails # <<>> /\ Explained(Head(fails), harm)
      /\ ctx \in BOOLEAN
  <2>1. CASE dl.pool[w].at = "failed"
    <3>1. dl.ctx \in BOOLEAN
      BY TransferFacts DEF Transfer
    <3> QED
      BY <2>1, <3>1, SentFacts
  <2>2. CASE dl.pool[w].at = "sent"
    BY <2>2, TransferFacts DEF Fits
  <2> QED
    BY <1>a, <2>1, <2>2
<1>d. q \in Worker /\ q.at = at /\ q.job = dl.pool[w].job /\ at \in {"sent", "ended"}
  BY TransferFacts DEF Worker
<1>e. pool \in [Workers -> Worker] /\ pool[w] = q /\ \A v \in Workers \ {w} : pool[v] = dl.pool[v]
  BY <1>d, TransferFacts
<1>f. dl' = d
  <2>1. CASE dl.pool[w].at = "failed"
    BY <2>1, TransferFacts DEF WorkerFails, Transfer, Worker
  <2>2. CASE dl.pool[w].at = "sent"
    BY <2>2, TransferFacts DEF WorkerFails, Transfer, Worker
  <2> QED
    BY <1>a, <2>1, <2>2
<1> HIDE DEF pool, q, fails, ctx
<1>1. /\ d1 \in Transfer /\ d1.next = dl.next /\ d1.key = dl.key /\ d1.phase = dl.phase /\ d1.file = dl.file
      /\ d1.pool = pool /\ d1.out = dl.out
  BY TransferFacts, <1>e DEF Transfer
<1> HIDE DEF d1
<1>2. /\ d2 \in Transfer /\ d2.next = dl.next /\ d2.key = dl.key /\ d2.phase = dl.phase /\ d2.file = dl.file
      /\ d2.pool = pool /\ d2.out = dl.out /\ d2.failures = fails
  BY <1>1, <1>c DEF Transfer
<1> HIDE DEF d2
<1>3. /\ d \in Transfer /\ d.next = dl.next /\ d.key = dl.key /\ d.phase = dl.phase /\ d.file = dl.file
      /\ d.pool = pool /\ d.out = dl.out /\ d.failures = fails
  BY <1>2, <1>c DEF Transfer
<1> HIDE DEF d, at
<1>4. Active'
  BY <1>b, <1>f, <1>3 DEF Active
<1>5. ASSUME NEW v \in Workers PROVE Fits(v, harm)'
  <2>1. CASE v = w
    <3>1. Fits(w, harm) /\ dl'.pool[w] = q
      BY <1>e, <1>f, <1>3, TransferFacts
    <3> QED
      BY <2>1, <3>1, <1>c, <1>d, <1>f, <1>3, <1>4 DEF Fits, Resting
  <2>2. CASE v # w
    BY <2>2, <1>a, <1>c, <1>e, <1>f, <1>3, <1>4, TransferFacts, OtherFits
  <2> QED
    BY <2>1, <2>2
<1>6. \A s : Accounted(s)'
  BY <1>c, <1>f, <1>3 DEF Accounted
<1>7. Explained(Head(dl.failures), harm)'
  BY <1>a, <1>c, <1>f, <1>3 DEF Explained, Harmed, Interrupted
<1>8. \A s \in DOMAIN dl'.file : dl'.file[s] = "other" => Harmed(harm)'
  BY TransferFacts, <1>a, <1>f, <1>3 DEF Harmed
<1>9. dl'.next \in 1..(Spans[dl.key] + 1) /\ (dl'.phase = "waiting" => dl'.next = Spans[dl.key] + 1)
  BY <1>b, <1>f, <1>3, ActiveFacts
<1>10. causes \subseteq causes' /\ causes' \subseteq Causes /\ dl'.failures # <<>>
  BY TransferFacts, <1>a, <1>c, <1>f, <1>3
<1> QED
  BY WorkStep, TransferFacts, <1>a, <1>b, <1>c, <1>f, <1>3, <1>4, <1>5, <1>6, <1>7, <1>8, <1>9, <1>10

(* What downloadVerified returns is true of the file and of the world. *)
LEMMA OutcomeFacts ==
    ASSUME Sizes, NEW harm, DownloadInv(harm), dl.phase = "waiting", \A w \in Workers : Resting(w)
    PROVE  /\ Outcome \in Errors \cup {"ok"}
           /\ Outcome = "ok" => Whole(dl.file)
           /\ Explained(Outcome, harm) \/ (Outcome = "integrity" /\ ~Agent /\ Interrupted)
<1>a. Active
  BY DEF Active
<1>1. CASE dl.failures # <<>>
  <2>1. Outcome = Head(dl.failures) /\ Head(dl.failures) \in Errors
    BY <1>1, TransferFacts DEF Outcome
  <2>2. "ok" \notin Errors
    BY DEF Errors
  <2> QED
    BY <1>1, <2>1, <2>2, TransferFacts
<1>2. CASE dl.failures = <<>> /\ Agent /\ Spans[dl.key] > 0 /\ Cancelled
  <2>1. Outcome = "cancelled"
    BY <1>2 DEF Outcome
  <2>2. Interrupted
    BY <1>2, TransferFacts DEF Cancelled
  <2> QED
    BY <2>1, <2>2 DEF Explained, Errors
<1>3. CASE dl.failures = <<>> /\ ~(Agent /\ Spans[dl.key] > 0 /\ Cancelled) /\ Whole(dl.file)
  <2>1. Outcome = "ok"
    BY <1>3 DEF Outcome
  <2> QED
    BY <2>1, <1>3 DEF Explained
<1>4. CASE dl.failures = <<>> /\ ~(Agent /\ Spans[dl.key] > 0 /\ Cancelled) /\ ~Whole(dl.file)
  <2>1. Outcome = "integrity"
    BY <1>4 DEF Outcome
  <2>2. PICK s \in DOMAIN dl.file : dl.file[s] # "good"
    BY <1>4 DEF Whole
  <2>3. Accounted(s) /\ Spans[dl.key] > 0
    BY <1>a, <2>2, ActiveFacts
  <2>4. dl.file[s] = "other" \/ Interrupted
    BY <2>2, <2>3, <1>4 DEF Accounted, Resting
  <2>5. Interrupted => ~Agent
    BY <2>3, <1>4 DEF Cancelled
  <2>6. Harmed(harm) \/ (Interrupted /\ ~Agent)
    BY <2>2, <2>4, <2>5, TransferFacts
  <2> QED
    BY <2>1, <2>6 DEF Explained, Errors
<1> QED
  BY <1>1, <1>2, <1>3, <1>4

(* The transfer returns. *)
LEMMA FinishKeeps ==
    ASSUME Sizes, NEW harm, DownloadInv(harm), Finish
    PROVE  DownloadInv(harm)'
<1> DEFINE file == IF Outcome = "ok" THEN dl.file ELSE Absent
           d1 == [dl EXCEPT !.phase = "returned"]
           d2 == [d1 EXCEPT !.out = Outcome]
           d == [d2 EXCEPT !.file = file]
<1>a. Active /\ dl.phase = "waiting" /\ (\A w \in Workers : Resting(w)) /\ remote' = remote /\ causes' = causes
  BY DEF Finish, Active, Resting
<1>b. /\ Outcome \in Errors \cup {"ok"}
      /\ Outcome = "ok" => Whole(dl.file)
      /\ Explained(Outcome, harm) \/ (Outcome = "integrity" /\ ~Agent /\ Interrupted)
  BY <1>a, OutcomeFacts
<1>c. file \in Seq({"absent", "hole", "part", "good", "other"})
  <2>1. Absent \in Seq({"absent", "hole", "part", "good", "other"})
    BY DEF Absent
  <2> QED
    BY <2>1, TransferFacts
<1>d. \A s \in DOMAIN file : file[s] = "other" => Harmed(harm)
  BY TransferFacts DEF Absent
<1>e. IF Outcome = "ok" THEN Whole(file) ELSE file = Absent
  BY <1>b
<1>f. dl' = d
  BY TransferFacts DEF Finish, Transfer
<1>g. "returned" \in Phases /\ Outcome \in Errors \cup {"none", "ok"} /\ Outcome # "none"
  BY <1>b DEF Phases, Errors
<1> HIDE DEF file
<1>1. /\ d1 \in Transfer /\ d1.next = dl.next /\ d1.key = dl.key /\ d1.phase = "returned"
      /\ d1.pool = dl.pool /\ d1.failures = dl.failures /\ d1.ctx = dl.ctx
  BY TransferFacts, <1>g DEF Transfer
<1> HIDE DEF d1
<1>2. /\ d2 \in Transfer /\ d2.next = dl.next /\ d2.key = dl.key /\ d2.phase = "returned" /\ d2.out = Outcome
      /\ d2.pool = dl.pool /\ d2.failures = dl.failures /\ d2.ctx = dl.ctx
  BY <1>1, <1>g DEF Transfer
<1> HIDE DEF d2
<1>3. /\ d \in Transfer /\ d.next = dl.next /\ d.key = dl.key /\ d.phase = "returned" /\ d.out = Outcome
      /\ d.pool = dl.pool /\ d.failures = dl.failures /\ d.ctx = dl.ctx /\ d.file = file
  BY <1>2, <1>c DEF Transfer
<1> HIDE DEF d
<1>4. Types'
  BY <1>a, <1>f, <1>3, TransferFacts DEF Types, Fits
<1>5. \A w \in Workers : Fits(w, harm)'
  BY <1>a, <1>f, <1>3, TransferFacts DEF Fits, Resting
<1>6. dl'.failures # <<>> => Explained(Head(dl.failures), harm)'
  BY TransferFacts, <1>a, <1>f, <1>3 DEF Explained, Harmed, Interrupted
<1>7. \A s \in DOMAIN dl'.file : dl'.file[s] = "other" => Harmed(harm)'
  BY <1>d, <1>a, <1>f, <1>3 DEF Harmed
<1>8. (Explained(dl.out, harm) \/ (dl.out = "integrity" /\ ~Agent /\ Interrupted))'
  BY <1>a, <1>b, <1>f, <1>3 DEF Explained, Harmed, Interrupted
<1>9. IF dl'.out = "ok" THEN Whole(dl'.file) ELSE dl'.file = Absent
  BY <1>e, <1>f, <1>3
<1>10. ~Active' /\ dl'.phase # "off" /\ dl'.out # "none" /\ (dl'.ctx => dl'.failures # <<>>)
  BY <1>f, <1>g, <1>3, TransferFacts DEF Active
<1>11. Whole(dl.file)' <=> Whole(dl'.file)
  BY DEF Whole
<1> QED
  BY <1>4, <1>5, <1>6, <1>7, <1>8, <1>9, <1>10, <1>11 DEF DownloadInv, Fits, Resting

(* Every step of the pool. *)
LEMMA ProceedKeeps ==
    ASSUME Sizes, NEW harm, DownloadInv(harm), Proceed
    PROVE  DownloadInv(harm)'
BY GiveUpKeeps, CloseJobsKeeps, FinishKeeps, HandOutKeeps, CopiedKeeps, CopyFailsKeeps, WorkerFailsKeeps DEF Proceed

(* The next transfer begins; its object differs from what the key says     *)
(* only when something has happened to it.                                 *)
LEMMA OpenKeeps ==
    ASSUME Sizes, NEW harm, remote \in [Keys -> Remotes], causes \subseteq Causes, NEW k \in Keys,
           remote[k] # "good" => Harmed(harm), Open(k)
    PROVE  DownloadInv(harm)'
<1> DEFINE file == [s \in 1..Spans[k] |-> "hole"]
<1>a. Spans[k] \in Nat
  BY DEF Sizes
<1>b. file \in Seq({"absent", "hole", "part", "good", "other"}) /\ Len(file) = Spans[k] /\ DOMAIN file = 1..Spans[k]
  BY <1>a
<1>c. \A s \in DOMAIN file : file[s] = "hole"
  OBVIOUS
<1>d. /\ dl' = [Off EXCEPT !.key = k, !.phase = "producing", !.file = file]
      /\ remote' = remote /\ causes' = causes
  BY DEF Open
<1> HIDE DEF file
<1>e. Idle \in Worker /\ Idle.at = "idle" /\ Idle.job = 0
  BY DEF Idle, Worker
<1>1. /\ dl'.next = 1 /\ dl'.key = k /\ dl'.phase = "producing" /\ dl'.out = "none" /\ dl'.file = file
      /\ dl'.pool = [w \in Workers |-> Idle] /\ dl'.failures = <<>> /\ dl'.ctx = FALSE
  BY <1>d DEF Off
<1>2. dl' \in Transfer
  <2>1. [w \in Workers |-> Idle] \in [Workers -> Worker] /\ <<>> \in Seq(Errors) /\ "producing" \in Phases
    BY <1>e DEF Phases
  <2> QED
    BY <1>b, <1>d, <2>1 DEF Off, Transfer
<1>3. \A w \in Workers : dl'.pool[w] = Idle
  BY <1>1
<1>4. Types'
  BY <1>1, <1>2, <1>3, <1>d, <1>e, EmptySeq DEF Types, Sizes
<1>5. Active' /\ dl'.phase # "off" /\ dl'.phase # "returned" /\ dl'.phase # "waiting"
  BY <1>1 DEF Active
<1>6. (remote[dl.key] # "good" => Harmed(harm))'
  BY <1>1, <1>d DEF Harmed
<1>7. dl'.next \in 1..(Spans[k] + 1) /\ \A s \in 1..(dl'.next - 1) : FALSE
  BY <1>1, <1>a
<1> QED
  BY <1>b, <1>c, <1>d, <1>e, <1>1, <1>3, <1>4, <1>5, <1>6, <1>7 DEF DownloadInv

(* A transfer at rest, before the first. *)
LEMMA OffFits ==
    ASSUME Sizes, NEW harm, remote \in [Keys -> Remotes], causes \subseteq Causes, dl = Off
    PROVE  DownloadInv(harm)
<1>e. Idle \in Worker /\ Idle.at = "idle" /\ Idle.job = 0
  BY DEF Idle, Worker
<1>1. /\ dl.next = 1 /\ dl.phase = "off" /\ dl.out = "none" /\ dl.file = Absent
      /\ dl.pool = [w \in Workers |-> Idle] /\ dl.failures = <<>> /\ dl.ctx = FALSE
  BY DEF Off
<1>2. dl \in Transfer
  <2>1. [w \in Workers |-> Idle] \in [Workers -> Worker] /\ <<>> \in Seq(Errors) /\ "off" \in Phases
    BY <1>e DEF Phases
  <2>2. Absent \in Seq({"absent", "hole", "part", "good", "other"})
    BY DEF Absent
  <2> QED
    BY <2>1, <2>2 DEF Off, Transfer
<1>3. \A w \in Workers : dl.pool[w] = Idle
  BY <1>1
<1>4. Types
  BY <1>1, <1>2, <1>3, <1>e, EmptySeq DEF Types, Sizes
<1>5. ~Active
  BY <1>1 DEF Active
<1>6. \A s \in DOMAIN dl.file : dl.file[s] = "absent"
  BY <1>1 DEF Absent
<1> QED
  BY <1>e, <1>1, <1>3, <1>4, <1>5, <1>6 DEF DownloadInv

(* What happens around a transfer does not disturb it. *)
LEMMA OutsideKeeps ==
    ASSUME NEW harm, DownloadInv(harm), dl' = dl, remote' \in [Keys -> Remotes], causes \subseteq causes',
           causes' \subseteq Causes, Active /\ remote'[dl.key] # "good" => Harmed(harm)'
    PROVE  DownloadInv(harm)'
<1>1. Types'
  BY DEF DownloadInv, Types
<1>2. /\ Harmed(harm) => Harmed(harm)'
      /\ Interrupted => Interrupted'
      /\ \A err : Explained(err, harm) => Explained(err, harm)'
  BY Monotone
<1>3. Active' <=> Active
  BY DEF Active
<1>4. \A s : Accounted(s) => Accounted(s)'
  BY <1>2 DEF Accounted
<1>5. Whole(dl.file)' <=> Whole(dl.file)
  BY DEF Whole
<1>6. /\ Explained(Head(dl.failures), harm) => Explained(Head(dl.failures), harm)'
      /\ Explained(dl.out, harm) => Explained(dl.out, harm)'
      /\ \A w \in Workers : Explained(dl.pool[w].err, harm) => Explained(dl.pool[w].err, harm)'
  BY <1>2 DEF Explained
<1> QED
  BY <1>1, <1>2, <1>3, <1>4, <1>5, <1>6 DEF DownloadInv

(* What a step of the pool touches outside it. *)
LEMMA ProceedFacts ==
    ASSUME Proceed
    PROVE  remote' = remote /\ causes' \in {causes, causes \cup {"network"}}
BY DEF Proceed, GiveUp, CloseJobs, Finish, HandOut, Copied, CopyFails, WorkerFails

(* Only a transfer at work makes a step, and stays that transfer. *)
LEMMA ProceedActs ==
    ASSUME Sizes, NEW harm, DownloadInv(harm), Proceed
    PROVE  Active /\ dl'.key = dl.key /\ dl'.phase # "off"
<1>a. dl \in Transfer
  BY TransferFacts
<1>1. CASE GiveUp \/ CloseJobs
  BY <1>1, <1>a DEF GiveUp, CloseJobs, Active, Transfer
<1>2. CASE Finish
  BY <1>2, <1>a DEF Finish, Active, Transfer
<1>3. CASE \E w \in Workers : HandOut(w)
  BY <1>3, <1>a DEF HandOut, Active, Transfer
<1>4. ASSUME NEW w \in Workers, Copied(w) \/ CopyFails(w) \/ WorkerFails(w)
      PROVE  Active /\ dl'.key = dl.key /\ dl'.phase # "off"
  <2>1. Active
    BY <1>4, CopyingFacts DEF Copied, CopyFails, WorkerFails
  <2>2. dl'.key = dl.key /\ dl'.phase = dl.phase
    BY <1>4, <1>a DEF Copied, CopyFails, WorkerFails, Transfer
  <2> QED
    BY <2>1, <2>2 DEF Active
<1> QED
  BY <1>1, <1>2, <1>3, <1>4 DEF Proceed

=============================================================================
