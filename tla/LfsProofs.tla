----------------------------- MODULE LfsProofs -----------------------------
(***************************************************************************)
(* Machine-checked theorems about Lfs, for every set of objects, any       *)
(* number of uploading agents and any pool of workers.                     *)
(***************************************************************************)
EXTENDS Lfs, TLAPS

(* The lemmas about the download. *)
P == INSTANCE DownloadProofs WITH FailureSlots <- 1, Agent <- TRUE

harm == {"damage", "edited"}

(* The invariant's part about one uploader with session s and local file   *)
(* f, in a world with objects r and causes c.                              *)
Good(s, f, r, c) ==
    /\ s.phase \in {"opened", "head", "put", "verify", "answer"} => s.key \in Keys
    /\ s.phase = "verify" => r[s.key] # "gone" \/ c \cap {"damage", "conflict"} # {}
    /\ s.phase = "answer" /\ s.out = "ok" =>
        \/ r[s.key] = "good" \/ "damage" \in c
        \/ s.key \in Large /\ f # "good"
        \/ Spans[s.key] = 0 /\ "conflict" \in c
    /\ c \cap {"edited", "network", "damage", "conflict"} = {} => s.out \in {"none", "ok"}

UpsFit == \A u \in Uploaders : Good(up[u], files[u], remote, causes)

(* About what the agents share. *)
Shared ==
    /\ files \in [Uploaders -> Bodies] /\ late \subseteq Keys \X Bodies /\ requests \in Nat
    /\ up \in [Uploaders -> Sessions] /\ Traced

(* About the downloader. *)
DownFits == down \in Sessions /\ DownInv /\ DownloadedIsWhole /\ IntegrityMeansDamage

(* The world goes on: what went wrong stays, and an object that is there   *)
(* is only changed by damage.                                              *)
Grows ==
    /\ causes \subseteq causes' /\ causes' \subseteq D!Causes
    /\ remote' \in [Keys -> D!Remotes]
    /\ \A k \in Keys : remote[k] # "gone" => remote'[k] = remote[k] \/ "damage" \in causes'

(* The constants are what the lemmas ask for. *)
LEMMA Constants == P!Sizes
BY SpansAssumption DEF P!Sizes

(* The parts of the invariant. *)
LEMMA Parts ==
    LfsInv <=> D!DownloadInv(harm) /\ Shared /\ DownFits /\ UpsFit
<1>1. D!DownloadInv(harm) => D!Types
  BY DEF D!DownloadInv
<1>2. UpsFit <=> UploadedIsStored /\ UploadsAgree /\ \A u \in Uploaders : UpInv(u)
  BY DEF UpsFit, Good, UploadedIsStored, UploadsAgree, UpInv
<1> QED
  BY <1>1, <1>2 DEF LfsInv, TypeOK, Shared, DownFits, harm

(* The same in the next state. *)
LEMMA PartsNext ==
    LfsInv' <=> /\ D!DownloadInv(harm)' /\ Shared' /\ DownFits'
                /\ \A u \in Uploaders : Good(up'[u], files'[u], remote', causes')
<1>1. LfsInv' <=> D!DownloadInv(harm)' /\ Shared' /\ DownFits' /\ UpsFit'
  BY Parts, PTL
<1> QED
  BY <1>1 DEF UpsFit

(* The two instances of Download are the same. *)
LEMMA SameInv == P!DownloadInv(harm) <=> D!DownloadInv(harm)
BY DEF P!DownloadInv, D!DownloadInv, P!Types, D!Types, P!Transfer, D!Transfer, P!Worker, D!Worker,
       P!Remotes, D!Remotes, P!Causes, D!Causes, P!Errors, D!Errors, P!Phases, D!Phases,
       P!Harmed, D!Harmed, P!Explained, D!Explained, P!Interrupted, D!Interrupted, P!Active, D!Active,
       P!Accounted, D!Accounted, P!Absent, D!Absent, P!Whole, D!Whole

(* The same in the next state. *)
LEMMA SameInvNext == P!DownloadInv(harm)' <=> D!DownloadInv(harm)'
BY SameInv, PTL

(* Their actions and values are the same, too. *)
LEMMA SameActions ==
    /\ D!Proceed => P!Proceed
    /\ \A k : D!Open(k) => P!Open(k)
    /\ D!Off = P!Off /\ D!Remotes = P!Remotes /\ D!Causes = P!Causes
<1>1. D!Off = P!Off /\ D!Remotes = P!Remotes /\ D!Causes = P!Causes
  BY DEF D!Off, P!Off, D!Remotes, P!Remotes, D!Causes, P!Causes, D!Idle, P!Idle, D!Absent, P!Absent
<1>2. \A k : D!Open(k) => P!Open(k)
  BY <1>1 DEF D!Open, P!Open
<1>3. D!Proceed => P!Proceed
  BY DEF D!Proceed, P!Proceed, D!GiveUp, P!GiveUp, D!CloseJobs, P!CloseJobs, D!Finish, P!Finish,
         D!HandOut, P!HandOut, D!Copied, P!Copied, D!CopyFails, P!CopyFails, D!WorkerFails, P!WorkerFails,
         D!Cancelled, P!Cancelled, D!Interrupted, P!Interrupted, D!Idle, P!Idle, D!Sent, P!Sent,
         D!Outcome, P!Outcome, D!Whole, P!Whole, D!Absent, P!Absent, D!Errors, P!Errors
<1> QED
  BY <1>1, <1>2, <1>3

(* What is known in a state of the system. *)
LEMMA InvFacts ==
    ASSUME LfsInv
    PROVE  /\ D!DownloadInv(harm) /\ Shared /\ DownFits
           /\ \A u \in Uploaders : Good(up[u], files[u], remote, causes) /\ up[u] \in Sessions /\ files[u] \in Bodies
           /\ remote \in [Keys -> D!Remotes] /\ causes \subseteq D!Causes
<1>1. /\ D!DownloadInv(harm) /\ Shared /\ DownFits
      /\ \A u \in Uploaders : Good(up[u], files[u], remote, causes)
  BY Parts DEF UpsFit
<1> QED
  BY <1>1 DEF D!DownloadInv, D!Types, Shared

(* The session after a verdict. *)
LEMMA ToldFacts ==
    ASSUME NEW s \in Sessions, NEW out \in Outs
    PROVE  /\ Told(s, out) \in Sessions /\ Told(s, out).phase = "answer"
           /\ Told(s, out).key = s.key /\ Told(s, out).out = out
<1>1. "answer" \in Phases
  BY DEF Phases
<1> QED
  BY <1>1 DEF Told, Sessions

(* The session after a change of phase. *)
LEMMA GoesFacts ==
    ASSUME NEW s \in Sessions, NEW p \in Phases
    PROVE  /\ Goes(s, p) \in Sessions /\ Goes(s, p).phase = p
           /\ Goes(s, p).key = s.key /\ Goes(s, p).out = s.out
BY DEF Goes, Sessions

(* An uploader is told of an error when something went wrong. *)
LEMMA ErrorIsGood ==
    ASSUME NEW s \in Sessions, s.key \in Keys, NEW out \in Outs \ {"ok"}, NEW f, NEW r, NEW c,
           c \cap {"edited", "network", "damage", "conflict"} # {}
    PROVE  Told(s, out) \in Sessions /\ Good(Told(s, out), f, r, c)
BY ToldFacts DEF Good

(* It is told of success when the object is there. *)
LEMMA SuccessIsGood ==
    ASSUME NEW s \in Sessions, s.key \in Keys, NEW f, NEW r, NEW c,
           \/ r[s.key] = "good" \/ "damage" \in c
           \/ s.key \in Large /\ f # "good"
           \/ Spans[s.key] = 0 /\ "conflict" \in c
    PROVE  Told(s, "ok") \in Sessions /\ Good(Told(s, "ok"), f, r, c)
<1>1. "ok" \in Outs
  BY DEF Outs
<1>2. /\ Told(s, "ok") \in Sessions /\ Told(s, "ok").phase = "answer"
      /\ Told(s, "ok").key = s.key /\ Told(s, "ok").out = "ok"
  BY <1>1, ToldFacts
<1> QED
  BY <1>2 DEF Good

(* It goes on. *)
LEMMA PhaseIsGood ==
    ASSUME NEW s \in Sessions, s.key \in Keys, NEW p \in Phases \ {"answer"}, NEW f, NEW r, NEW c, NEW g, NEW q, NEW d,
           Good(s, g, q, d), d \subseteq c, p = "verify" => r[s.key] # "gone" \/ c \cap {"damage", "conflict"} # {}
    PROVE  Goes(s, p) \in Sessions /\ Good(Goes(s, p), f, r, c)
BY GoesFacts DEF Good

(* A session, its file and the world around it. *)
LEMMA GoodKept ==
    ASSUME Grows, NEW s \in Sessions, NEW f, NEW g, Good(s, f, remote, causes), s.phase = "answer" => g = f
    PROVE  Good(s, g, remote', causes')
BY DEF Grows, Good

(* What happens around a transfer does not disturb it. *)
LEMMA TransferKept ==
    ASSUME LfsInv, Grows, dl' = dl
    PROVE  D!DownloadInv(harm)'
<1>1. P!DownloadInv(harm) /\ remote' \in [Keys -> P!Remotes] /\ causes' \subseteq P!Causes /\ causes \subseteq causes'
  BY InvFacts, SameInv, SameActions DEF Grows
<1>2. P!Active => dl.key \in Keys /\ (remote[dl.key] # "good" => P!Harmed(harm))
  BY <1>1 DEF P!DownloadInv
<1>3. P!Active /\ remote'[dl.key] # "good" => P!Harmed(harm)'
  BY <1>1, <1>2 DEF Grows, P!Harmed, harm
<1> QED
  BY <1>1, <1>3, P!OutsideKeeps, SameInvNext

(* Nor does it disturb the downloader. *)
LEMMA DownKept ==
    ASSUME LfsInv, Grows, dl' = dl, down' = down
    PROVE  D!DownloadInv(harm)' /\ DownFits'
<1>1. DownFits'
  BY InvFacts DEF Grows, DownFits, DownInv, DownloadedIsWhole, IntegrityMeansDamage, D!Active, D!Whole
<1> QED
  BY <1>1, TransferKept

(* A step of one uploader. *)
LEMMA UpStep ==
    ASSUME LfsInv, Grows, NEW u \in Uploaders, NEW s \in Sessions, Up(u, s),
           files' \in [Uploaders -> Bodies], \A v \in Uploaders \ {u} : files'[v] = files[v],
           late' \subseteq Keys \X Bodies, requests' \in Nat, Traced',
           Good(s, files'[u], remote', causes')
    PROVE  LfsInv'
<1>1. up' = [up EXCEPT ![u] = s] /\ dl' = dl /\ down' = down
  BY DEF Up
<1>2. up' \in [Uploaders -> Sessions] /\ up'[u] = s /\ \A v \in Uploaders \ {u} : up'[v] = up[v]
  BY <1>1, InvFacts DEF Shared
<1>3. ASSUME NEW v \in Uploaders PROVE Good(up'[v], files'[v], remote', causes')
  BY <1>2, InvFacts, GoodKept
<1>4. Shared'
  BY <1>2 DEF Shared
<1>5. D!DownloadInv(harm)' /\ DownFits'
  BY <1>1, DownKept
<1> QED
  BY <1>3, <1>4, <1>5, PartsNext

(* A step of one uploader that changes neither files nor objects. *)
LEMMA QuietUpStep ==
    ASSUME LfsInv, NEW u \in Uploaders, NEW s \in Sessions, Up(u, s), UNCHANGED <<remote, files, late, requests>>,
           causes \subseteq causes', causes' \subseteq D!Causes, Good(s, files[u], remote, causes')
    PROVE  LfsInv'
<1>1. Grows
  BY InvFacts DEF Grows
<1>2. Traced'
  BY InvFacts DEF Shared, Traced
<1> QED
  BY <1>1, <1>2, InvFacts, UpStep DEF Shared

(* What may follow in a session. *)
LEMMA FollowsFacts ==
    ASSUME NEW s \in Sessions, NEW first \in {"opened", "head"}, NEW t \in Follows(s, first)
    PROVE  /\ t \in Sessions /\ (t.phase \in {"ready", "ended"} \/ (t.phase = first /\ t.key \in Keys))
           /\ t.out = s.out \/ t.out = "none"
           /\ s.phase \in {"init", "ready", "answer"}
<1>a. {"ready", "ended", "opened", "head", "init"} \subseteq Phases /\ "none" \in Outs
  BY DEF Phases, Outs
<1>1. CASE s.phase = "init"
  <2>1. PICK p \in {"ready", "ended"} : t = Goes(s, p)
    BY <1>1 DEF Follows, Goes
  <2> QED
    BY <1>1, <1>a, <2>1, GoesFacts
<1>2. CASE s.phase = "ready"
  <2>1. t = Goes(s, "ended") \/ \E k \in Keys : t = [s EXCEPT !.phase = first, !.key = k]
    BY <1>2 DEF Follows, Goes
  <2>2. CASE t = Goes(s, "ended")
    BY <1>2, <1>a, <2>2, GoesFacts
  <2>3. CASE \E k \in Keys : t = [s EXCEPT !.phase = first, !.key = k]
    <3>1. first \in Phases
      BY <1>a
    <3> QED
      BY <1>2, <2>3, <3>1 DEF Sessions
  <2> QED
    BY <2>1, <2>2, <2>3
<1>3. CASE s.phase = "answer"
  <2>1. Session \in Sessions /\ Session.out = "none"
    BY <1>a DEF Session, Sessions
  <2>2. PICK p \in {"ready", "ended"} : t = Goes(Session, p)
    BY <1>3 DEF Follows, Goes
  <2>3. p \in Phases
    BY <1>a
  <2>4. t \in Sessions /\ t.phase = p /\ t.out = "none"
    BY <2>1, <2>2, <2>3, GoesFacts
  <2> QED
    BY <1>3, <2>4
<1>4. s.phase \in {"init", "ready", "answer"}
  BY DEF Follows
<1> QED
  BY <1>1, <1>2, <1>3, <1>4

(* A request comes, an answer goes, the session ends. *)
LEMMA UpSessionKeeps ==
    ASSUME LfsInv, NEW u \in Uploaders, UpSession(u)
    PROVE  LfsInv'
<1>1. PICK s \in Follows(up[u], "opened") :
        Up(u, s) /\ requests' = IF s.phase = "opened" THEN requests + 1 ELSE requests
  BY DEF UpSession
<1>2. files' = [files EXCEPT ![u] = "good"] /\ UNCHANGED <<remote, causes, late>>
  BY DEF UpSession
<1>3. s \in Sessions /\ (s.phase \in {"ready", "ended"} \/ (s.phase = "opened" /\ s.key \in Keys)) /\ (s.out = up[u].out \/ s.out = "none")
  BY InvFacts, FollowsFacts
<1>4. files' \in [Uploaders -> Bodies] /\ files'[u] = "good" /\ \A v \in Uploaders \ {u} : files'[v] = files[v]
  BY <1>2, InvFacts DEF Shared, Bodies
<1>5. Good(s, files'[u], remote', causes')
  BY <1>2, <1>3, InvFacts DEF Good
<1>6. Traced'
  BY <1>2, <1>4, InvFacts DEF Shared, Traced
<1>7. Grows
  BY <1>2, InvFacts DEF Grows
<1>8. requests' \in Nat
  BY <1>1, InvFacts DEF Shared
<1> QED
  BY <1>1, <1>2, <1>3, <1>4, <1>5, <1>6, <1>7, <1>8, InvFacts, UpStep DEF Shared

(* The local file is hashed. *)
LEMMA UpFileKeeps ==
    ASSUME LfsInv, NEW u \in Uploaders, UpFile(u)
    PROVE  LfsInv'
<1> DEFINE s == IF files[u] = "good" THEN Goes(up[u], "head") ELSE Told(up[u], "local")
<1>1. up[u].phase = "opened" /\ Up(u, s) /\ UNCHANGED <<remote, causes, late, files, requests>>
  BY DEF UpFile, InUpload
<1>2. "head" \in Phases \ {"answer"} /\ "local" \in Outs \ {"ok"}
  BY DEF Phases, Outs
<1>3. up[u].key \in Keys /\ up[u] \in Sessions /\ Good(up[u], files[u], remote, causes)
  BY <1>1, InvFacts DEF Good
<1>4. CASE files[u] = "good"
  <2>1. Goes(up[u], "head") \in Sessions /\ Good(Goes(up[u], "head"), files[u], remote, causes)
    BY <1>2, <1>3, PhaseIsGood
  <2> QED
    BY <1>1, <1>4, <2>1, InvFacts, QuietUpStep
<1>5. CASE files[u] # "good"
  <2>1. causes \cap {"edited", "network", "damage", "conflict"} # {}
    BY <1>5, InvFacts DEF Shared, Traced
  <2>2. Told(up[u], "local") \in Sessions /\ Good(Told(up[u], "local"), files[u], remote, causes)
    BY <1>2, <1>3, <2>1, ErrorIsGood
  <2> QED
    BY <1>1, <1>5, <2>2, InvFacts, QuietUpStep
<1> QED
  BY <1>4, <1>5

(* HeadObject. *)
LEMMA UpHeadKeeps ==
    ASSUME LfsInv, NEW u \in Uploaders, UpHead(u)
    PROVE  LfsInv'
<1> DEFINE k == up[u].key
           s == CASE remote[k] = "gone" -> Goes(up[u], "put")
                  [] remote[k] = "resized" -> Told(up[u], "integrity")
                  [] OTHER -> Goes(up[u], "verify")
<1>1. up[u].phase = "head" /\ Up(u, s) /\ UNCHANGED <<remote, causes, late, files, requests>>
  BY DEF UpHead, InUpload
<1>2. "put" \in Phases \ {"answer"} /\ "verify" \in Phases \ {"answer"} /\ "integrity" \in Outs \ {"ok"}
  BY DEF Phases, Outs
<1>3. k \in Keys /\ up[u] \in Sessions /\ Good(up[u], files[u], remote, causes)
  BY <1>1, InvFacts DEF Good
<1>4. CASE remote[k] = "gone"
  <2>1. s = Goes(up[u], "put")
    BY <1>4
  <2>2. s \in Sessions /\ Good(s, files[u], remote, causes)
    BY <2>1, <1>2, <1>3, PhaseIsGood
  <2> QED
    BY <1>1, <2>2, InvFacts, QuietUpStep
<1>5. CASE remote[k] = "resized"
  <2>1. s = Told(up[u], "integrity")
    BY <1>5
  <2>2. causes \cap {"edited", "network", "damage", "conflict"} # {}
    BY <1>3, <1>5, InvFacts DEF Shared, Traced
  <2>3. s \in Sessions /\ Good(s, files[u], remote, causes)
    BY <2>1, <2>2, <1>2, <1>3, ErrorIsGood
  <2> QED
    BY <1>1, <2>3, InvFacts, QuietUpStep
<1>6. CASE remote[k] # "gone" /\ remote[k] # "resized"
  <2>1. s = Goes(up[u], "verify")
    BY <1>6
  <2>2. s \in Sessions /\ Good(s, files[u], remote, causes)
    BY <2>1, <1>2, <1>3, <1>6, PhaseIsGood
  <2> QED
    BY <1>1, <2>2, InvFacts, QuietUpStep
<1> QED
  BY <1>4, <1>5, <1>6

(* An object that comes into being is what was sent; bytes that are not    *)
(* the object's are sent after an edit, and are stored only in parts.      *)
LEMMA Created ==
    ASSUME LfsInv, NEW k \in Keys, NEW body \in Bodies, remote[k] = "gone", Accepted(k, body),
           body # "good" => "edited" \in causes, remote' = [remote EXCEPT ![k] = body],
           causes \subseteq causes', causes' \subseteq D!Causes, files' = files, late' \subseteq late
    PROVE  Grows /\ Traced' /\ remote'[k] = body /\ (body = "good" \/ k \in Large)
<1>1. body \in D!Remotes
  BY DEF Bodies, D!Remotes
<1>2. remote' \in [Keys -> D!Remotes] /\ remote'[k] = body /\ \A j \in Keys \ {k} : remote'[j] = remote[j]
  BY <1>1, InvFacts
<1>3. Grows
  BY <1>2 DEF Grows
<1>4. body = "good" \/ k \in Large
  BY DEF Accepted
<1>5. \A j \in Keys :
        remote'[j] \in {"other", "resized"} => "damage" \in causes' \/ (j \in Large /\ "edited" \in causes')
  BY <1>2, <1>4, InvFacts DEF Shared, Traced
<1>6. Traced'
  BY <1>5, InvFacts DEF Shared, Traced
<1> QED
  BY <1>2, <1>3, <1>4, <1>6

(* The uploader's request is one of the repository's objects. *)
LEMMA PutFacts ==
    ASSUME LfsInv, NEW u \in Uploaders, up[u].phase \in {"put", "verify", "head"}
    PROVE  /\ up[u].key \in Keys /\ up[u] \in Sessions /\ Good(up[u], files[u], remote, causes)
           /\ files[u] \in Bodies /\ (files[u] # "good" => "edited" \in causes)
           /\ "verify" \in Phases \ {"answer"} /\ "network" \in Outs \ {"ok"} /\ "integrity" \in Outs \ {"ok"}
           /\ late \subseteq Keys \X Bodies /\ requests \in Nat /\ files \in [Uploaders -> Bodies]
BY InvFacts DEF Good, Shared, Traced, Phases, Outs

(* The PUT. *)
LEMMA UpPutKeeps ==
    ASSUME LfsInv, NEW u \in Uploaders, UpPut(u)
    PROVE  LfsInv'
<1> DEFINE k == up[u].key
           body == files[u]
<1>1. up[u].phase = "put" /\ UNCHANGED <<causes, late, files, requests>>
  BY DEF UpPut, InUpload
<1>2. CASE ~Accepted(k, body) /\ Up(u, Told(up[u], "network")) /\ remote' = remote
  <2>1. causes \cap {"edited", "network", "damage", "conflict"} # {}
    BY <1>1, <1>2, PutFacts DEF Accepted
  <2>2. Told(up[u], "network") \in Sessions /\ Good(Told(up[u], "network"), files[u], remote, causes)
    BY <1>1, <2>1, PutFacts, ErrorIsGood
  <2> QED
    BY <1>1, <1>2, <2>2, InvFacts, QuietUpStep
<1>3. CASE Accepted(k, body) /\ remote[k] = "gone" /\ remote' = [remote EXCEPT ![k] = body] /\ Up(u, Told(up[u], "ok"))
  <2>0. causes \subseteq causes' /\ causes' \subseteq D!Causes /\ late' \subseteq late
    BY <1>1, InvFacts
  <2>1. Grows /\ Traced' /\ remote'[k] = body /\ (body = "good" \/ k \in Large)
    BY <1>1, <1>3, <2>0, PutFacts, Created
  <2>2. Told(up[u], "ok") \in Sessions /\ Good(Told(up[u], "ok"), files[u], remote', causes')
    BY <1>1, <2>1, PutFacts, SuccessIsGood
  <2> QED
    BY <1>1, <1>3, <2>1, <2>2, PutFacts, UpStep
<1>4. CASE Accepted(k, body) /\ remote[k] # "gone" /\ Up(u, Refused(up[u])) /\ remote' = remote
  <2>1. Refused(up[u]) \in Sessions /\ Good(Refused(up[u]), files[u], remote, causes)
    BY <1>1, <1>4, PutFacts, PhaseIsGood DEF Refused
  <2> QED
    BY <1>1, <1>4, <2>1, InvFacts, QuietUpStep
<1> QED
  BY <1>2, <1>3, <1>4 DEF UpPut

(* The answer to a PUT was lost. *)
LEMMA UpPutResentKeeps ==
    ASSUME LfsInv, NEW u \in Uploaders, UpPutResent(u)
    PROVE  LfsInv'
<1> DEFINE k == up[u].key
<1>1. /\ up[u].phase = "put" /\ remote[k] = "gone" /\ Accepted(k, files[u])
      /\ remote' = [remote EXCEPT ![k] = files[u]] /\ Up(u, Refused(up[u]))
      /\ UNCHANGED <<causes, late, files, requests>>
  BY DEF UpPutResent, InUpload
<1>2. causes \subseteq causes' /\ causes' \subseteq D!Causes /\ late' \subseteq late
  BY <1>1, InvFacts DEF D!Causes
<1>3. Grows /\ Traced' /\ remote'[k] = files[u]
  BY <1>1, <1>2, PutFacts, Created
<1>4. remote'[k] # "gone"
  BY <1>1, <1>3, PutFacts DEF Bodies
<1>5. Refused(up[u]) \in Sessions /\ Good(Refused(up[u]), files[u], remote', causes')
  BY <1>1, <1>2, <1>4, PutFacts, PhaseIsGood DEF Refused
<1> QED
  BY <1>1, <1>3, <1>5, PutFacts, UpStep

(* A 409. *)
LEMMA UpPutConflictsKeeps ==
    ASSUME LfsInv, NEW u \in Uploaders, UpPutConflicts(u)
    PROVE  LfsInv'
<1>1. /\ up[u].phase = "put" /\ causes' = causes \cup {"conflict"} /\ Up(u, Refused(up[u]))
      /\ UNCHANGED <<remote, late, files, requests>>
  BY DEF UpPutConflicts, InUpload
<1>2. causes \subseteq causes' /\ causes' \subseteq D!Causes /\ "conflict" \in causes'
  BY <1>1, InvFacts DEF D!Causes
<1>3. Refused(up[u]) \in Sessions /\ Good(Refused(up[u]), files[u], remote, causes')
  BY <1>1, <1>2, PutFacts, PhaseIsGood DEF Refused
<1> QED
  BY <1>1, <1>2, <1>3, InvFacts, QuietUpStep

(* verifyRemote. *)
LEMMA UpVerifyKeeps ==
    ASSUME LfsInv, NEW u \in Uploaders, UpVerify(u)
    PROVE  LfsInv'
<1> DEFINE k == up[u].key
           out == IF remote[k] = "good" \/ Spans[k] = 0 THEN "ok"
                  ELSE IF remote[k] = "gone" THEN "network" ELSE "integrity"
<1>1. up[u].phase = "verify" /\ Up(u, Told(up[u], out)) /\ UNCHANGED <<remote, causes, late, files, requests>>
  BY DEF UpVerify, InUpload
<1>2. k \in Keys /\ remote[k] \in {"good", "other", "resized", "gone"}
  BY <1>1, PutFacts, InvFacts DEF D!Remotes
<1>3. remote[k] = "gone" => causes \cap {"damage", "conflict"} # {}
  BY <1>1, InvFacts DEF Good
<1>4. remote[k] \in {"other", "resized"} => "damage" \in causes \/ (k \in Large /\ "edited" \in causes)
  BY <1>2, InvFacts DEF Shared, Traced
<1>5. k \in Large => Spans[k] # 0
  BY LargeAssumption, SpansAssumption
<1>6. CASE remote[k] = "good" \/ Spans[k] = 0
  <2>1. out = "ok"
    BY <1>6
  <2>2. remote[k] = "good" \/ "damage" \in causes \/ (Spans[k] = 0 /\ "conflict" \in causes)
    BY <1>2, <1>3, <1>4, <1>5, <1>6
  <2>3. Told(up[u], "ok") \in Sessions /\ Good(Told(up[u], "ok"), files[u], remote, causes)
    BY <1>1, <2>2, PutFacts, SuccessIsGood
  <2> QED
    BY <1>1, <2>1, <2>3, InvFacts, QuietUpStep
<1>7. CASE ~(remote[k] = "good" \/ Spans[k] = 0)
  <2>1. out \in Outs \ {"ok"}
    BY <1>1, <1>7, PutFacts
  <2>2. causes \cap {"edited", "network", "damage", "conflict"} # {}
    BY <1>2, <1>3, <1>4, <1>7
  <2>3. Told(up[u], out) \in Sessions /\ Good(Told(up[u], out), files[u], remote, causes)
    <3> HIDE DEF out
    <3> QED
      BY <1>1, <2>1, <2>2, PutFacts, ErrorIsGood
  <2> HIDE DEF out
  <2> QED
    BY <1>1, <2>3, InvFacts, QuietUpStep
<1> QED
  BY <1>6, <1>7

(* A request fails. *)
LEMMA UpFailsKeeps ==
    ASSUME LfsInv, NEW u \in Uploaders, UpFails(u)
    PROVE  LfsInv'
<1>1. /\ up[u].phase \in {"head", "put", "verify"} /\ causes' = causes \cup {"network"}
      /\ Up(u, Told(up[u], "network")) /\ UNCHANGED <<remote, files, requests>>
      /\ late' \subseteq late \cup {<<up[u].key, files[u]>>}
  BY DEF UpFails, InUpload
<1>2. causes \subseteq causes' /\ causes' \subseteq D!Causes
  BY <1>1, InvFacts DEF D!Causes
<1>3. Grows
  BY <1>1, <1>2, InvFacts DEF Grows
<1>4. late' \subseteq Keys \X Bodies
  BY <1>1, PutFacts
<1>5. Traced'
  <2>1. \A p \in late' : p[2] # "good" => "edited" \in causes'
    BY <1>1, PutFacts, InvFacts DEF Shared, Traced
  <2> QED
    BY <1>1, <2>1, InvFacts DEF Shared, Traced
<1>6. Told(up[u], "network") \in Sessions /\ Good(Told(up[u], "network"), files[u], remote', causes')
  BY <1>1, PutFacts, ErrorIsGood
<1> QED
  BY <1>1, <1>3, <1>4, <1>5, <1>6, PutFacts, UpStep

(* A PUT that nobody waits for is applied. *)
LEMMA ServeLateKeeps ==
    ASSUME LfsInv, ServeLate
    PROVE  LfsInv'
<1>1. PICK p \in late : /\ late' = late \ {p} /\ Accepted(p[1], p[2]) /\ remote[p[1]] = "gone"
                        /\ remote' = [remote EXCEPT ![p[1]] = p[2]]
                        /\ UNCHANGED <<causes, dl, files, up, down, requests>>
  BY DEF ServeLate
<1>2. p[1] \in Keys /\ p[2] \in Bodies /\ (p[2] # "good" => "edited" \in causes) /\ late' \subseteq late
  BY <1>1, InvFacts DEF Shared, Traced
<1>3. causes \subseteq causes' /\ causes' \subseteq D!Causes
  BY <1>1, InvFacts
<1>4. Grows /\ Traced'
  BY <1>1, <1>2, <1>3, Created
<1>5. \A v \in Uploaders : Good(up'[v], files'[v], remote', causes')
  BY <1>1, <1>4, InvFacts, GoodKept
<1>6. Shared'
  BY <1>1, <1>2, <1>4, InvFacts DEF Shared
<1>7. D!DownloadInv(harm)' /\ DownFits'
  BY <1>1, <1>4, DownKept
<1> QED
  BY <1>5, <1>6, <1>7, PartsNext

(* A file is edited. *)
LEMMA EditKeeps ==
    ASSUME LfsInv, NEW u \in Uploaders, Edit(u)
    PROVE  LfsInv'
<1>1. /\ up[u].phase # "answer" /\ causes' = causes \cup {"edited"} /\ UNCHANGED <<remote, dl, late, up, down, requests>>
      /\ \E b \in Bodies : files' = [files EXCEPT ![u] = b]
  BY DEF Edit
<1>2. files' \in [Uploaders -> Bodies] /\ \A v \in Uploaders \ {u} : files'[v] = files[v]
  BY <1>1, InvFacts DEF Shared
<1>3. Grows
  BY <1>1, InvFacts DEF Grows, D!Causes
<1>4. Traced'
  BY <1>1, InvFacts DEF Shared, Traced
<1>5. \A v \in Uploaders : Good(up'[v], files'[v], remote', causes')
  BY <1>1, <1>2, <1>3, InvFacts, GoodKept
<1>6. Shared'
  BY <1>1, <1>2, <1>4, InvFacts DEF Shared
<1>7. D!DownloadInv(harm)' /\ DownFits'
  BY <1>1, <1>3, DownKept
<1> QED
  BY <1>5, <1>6, <1>7, PartsNext

(* Damage, an interrupt, git-lfs goes away. *)
LEMMA OutsideKeeps ==
    ASSUME LfsInv, Outside
    PROVE  LfsInv'
<1>1. UNCHANGED <<dl, files, late, up, down, requests>>
  BY DEF Outside
<1>2. Grows /\ Traced'
  <2>1. CASE \E k \in Keys : D!Damage(k)
    <3>1. causes' = causes \cup {"damage"} /\ remote' \in [Keys -> D!Remotes]
      BY <2>1, InvFacts DEF D!Damage
    <3> QED
      BY <3>1, <1>1, InvFacts DEF Grows, D!Causes, Shared, Traced
  <2>2. CASE remote' = remote /\ causes' \in {causes \cup {"cancelled"}, causes \cup {"output"}}
    BY <2>2, <1>1, InvFacts DEF Grows, D!Causes, Shared, Traced
  <2> QED
    BY <2>1, <2>2 DEF Outside, D!Interrupt
<1>5. \A v \in Uploaders : Good(up'[v], files'[v], remote', causes')
  BY <1>1, <1>2, InvFacts, GoodKept
<1>6. Shared'
  BY <1>1, <1>2, InvFacts DEF Shared
<1>7. D!DownloadInv(harm)' /\ DownFits'
  BY <1>1, <1>2, DownKept
<1> QED
  BY <1>5, <1>6, <1>7, PartsNext

-----------------------------------------------------------------------------
(* A step of the downloader leaves the uploaders and the objects alone. *)
LEMMA DownStep ==
    ASSUME LfsInv, UNCHANGED <<remote, files, late, up>>, causes \subseteq causes', causes' \subseteq D!Causes,
           requests' \in Nat, D!DownloadInv(harm)', DownFits'
    PROVE  LfsInv'
<1>1. Grows /\ Traced'
  BY InvFacts DEF Grows, Shared, Traced
<1>2. \A v \in Uploaders : Good(up'[v], files'[v], remote', causes')
  BY <1>1, InvFacts, GoodKept
<1>3. Shared'
  BY <1>1, InvFacts DEF Shared
<1> QED
  BY <1>2, <1>3, PartsNext

(* The downloader's session goes on; the last transfer is over. *)
LEMMA DownSessionKeeps ==
    ASSUME LfsInv, DownSession
    PROVE  LfsInv'
<1>1. PICK s \in Follows(down, "head") :
        Down(s) /\ requests' = IF s.phase = "head" THEN requests + 1 ELSE requests
  BY DEF DownSession
<1>2. dl' = D!Off /\ down' = s /\ UNCHANGED <<remote, causes, files, late, up>>
  BY <1>1 DEF DownSession, Down
<1>3. s \in Sessions /\ (s.phase \in {"ready", "ended"} \/ (s.phase = "head" /\ s.key \in Keys))
  BY InvFacts, FollowsFacts DEF DownFits
<1>4. (P!DownloadInv(harm))'
  <2>1. (dl = P!Off /\ remote \in [Keys -> P!Remotes] /\ causes \subseteq P!Causes)' => P!DownloadInv(harm)'
    BY Constants, P!OffFits, PTL
  <2>2. (dl = P!Off /\ remote \in [Keys -> P!Remotes] /\ causes \subseteq P!Causes)'
    BY <1>2, InvFacts, SameActions DEF P!Off, D!Off
  <2> QED
    BY <2>1, <2>2
<1>5. ~D!Active'
  BY <1>2 DEF D!Active, D!Off
<1>6. DownFits'
  BY <1>2, <1>3, <1>5 DEF DownFits, DownInv, DownloadedIsWhole, IntegrityMeansDamage
<1>7. requests' \in Nat
  BY <1>1, InvFacts DEF Shared
<1> QED
  BY <1>2, <1>4, <1>6, <1>7, InvFacts, SameInvNext, DownStep

(* A request fails before there is a transfer. *)
LEMMA DownTold ==
    ASSUME LfsInv, down.phase = "head", NEW out \in Outs \ {"ok"}, Down(Told(down, out)),
           UNCHANGED <<remote, dl, requests>>, causes \subseteq causes', causes' \subseteq D!Causes,
           out = "integrity" => causes' \cap {"damage", "edited"} # {}
    PROVE  LfsInv'
<1>1. down' = Told(down, out) /\ UNCHANGED <<files, late, up>>
  BY DEF Down
<1>2. dl = D!Off /\ down \in Sessions /\ down.key \in Keys
  BY InvFacts DEF DownFits, DownInv
<1>3. down' \in Sessions /\ down'.phase = "answer" /\ down'.key = down.key /\ down'.out = out
  BY <1>1, <1>2, ToldFacts
<1>4. dl'.file = D!Absent /\ ~D!Active'
  BY <1>2 DEF D!Off, D!Active
<1>5. DownFits'
  BY <1>2, <1>3, <1>4 DEF DownFits, DownInv, DownloadedIsWhole, IntegrityMeansDamage, D!Absent
<1>6. D!DownloadInv(harm)'
  <2>1. Grows
    BY InvFacts DEF Grows
  <2> QED
    BY <2>1, TransferKept
<1> QED
  BY <1>1, <1>5, <1>6, InvFacts, DownStep DEF Shared

(* HeadObject and the temporary file. *)
LEMMA DownHeadKeeps ==
    ASSUME LfsInv, DownHead
    PROVE  LfsInv'
<1> DEFINE k == down.key
<1>1. down.phase = "head" /\ requests' = requests
  BY DEF DownHead
<1>2. k \in Keys /\ down \in Sessions /\ (remote[k] \in {"other", "resized"} => causes \cap {"damage", "edited"} # {})
  BY <1>1, InvFacts DEF DownFits, DownInv, Shared, Traced
<1>o. {"network", "integrity", "cancelled"} \subseteq Outs \ {"ok"} /\ "transfer" \in Phases
  BY DEF Outs, Phases
<1>3. CASE remote[k] \in {"good", "other"} /\ D!Open(k) /\ Down(Goes(down, "transfer"))
  <2>1. down' = Goes(down, "transfer") /\ UNCHANGED <<files, late, up, remote, causes>>
    BY <1>3 DEF Down, D!Open
  <2>2. down' \in Sessions /\ down'.phase = "transfer" /\ down'.key = k
    BY <2>1, <1>2, <1>o, GoesFacts
  <2>3. remote[k] # "good" => P!Harmed(harm)
    BY <1>2, <1>3 DEF P!Harmed, harm
  <2>4. P!Open(k) /\ remote \in [Keys -> P!Remotes] /\ causes \subseteq P!Causes
    BY <1>3, InvFacts, SameActions
  <2>5. P!DownloadInv(harm)'
    BY <1>2, <2>3, <2>4, Constants, P!OpenKeeps
  <2>6. dl'.key = k /\ dl'.phase # "off"
    BY <1>3 DEF D!Open, D!Off
  <2>7. DownFits'
    BY <1>2, <2>2, <2>6 DEF DownFits, DownInv, DownloadedIsWhole, IntegrityMeansDamage
  <2> QED
    BY <1>1, <2>1, <2>5, <2>7, InvFacts, SameInvNext, DownStep DEF Shared
<1>4. CASE /\ remote[k] \in {"gone", "resized"} /\ UNCHANGED <<remote, causes, dl>>
           /\ Down(Told(down, IF remote[k] = "gone" THEN "network" ELSE "integrity"))
  <2>1. CASE remote[k] = "gone"
    BY <1>1, <1>4, <1>o, <2>1, InvFacts, DownTold
  <2>2. CASE remote[k] = "resized"
    BY <1>1, <1>2, <1>4, <1>o, <2>2, InvFacts, DownTold
  <2> QED
    BY <1>4, <2>1, <2>2
<1>5. CASE /\ causes' \in {causes, causes \cup {"network"}} /\ UNCHANGED <<remote, dl>>
           /\ Down(Told(down, "cancelled")) \/ Down(Told(down, "network"))
  <2>1. causes \subseteq causes' /\ causes' \subseteq D!Causes
    BY <1>5, InvFacts DEF D!Causes
  <2> QED
    BY <1>1, <1>5, <1>o, <2>1, DownTold
<1> QED
  BY <1>3, <1>4, <1>5 DEF DownHead

(* A step of the pool of workers. *)
LEMMA DownTransferKeeps ==
    ASSUME LfsInv, DownTransfer
    PROVE  LfsInv'
<1>1. P!Proceed /\ P!DownloadInv(harm) /\ UNCHANGED <<files, late, up, down, requests>>
  BY InvFacts, SameInv, SameActions DEF DownTransfer
<1>2. P!DownloadInv(harm)'
  BY <1>1, Constants, P!ProceedKeeps
<1>3. remote' = remote /\ causes \subseteq causes' /\ causes' \subseteq D!Causes
  BY <1>1, InvFacts, P!ProceedFacts DEF D!Causes
<1>4. P!Active /\ dl'.key = dl.key /\ dl'.phase # "off"
  BY <1>1, Constants, P!ProceedActs
<1>5. down.phase = "transfer"
  BY <1>4, InvFacts DEF DownFits, DownInv, P!Active, D!Active
<1>6. DownFits'
  BY <1>1, <1>4, <1>5, InvFacts DEF DownFits, DownInv, DownloadedIsWhole, IntegrityMeansDamage
<1> QED
  BY <1>1, <1>2, <1>3, <1>6, InvFacts, SameInvNext, DownStep DEF Shared

(* The transfer has returned. *)
LEMMA DownEndsKeeps ==
    ASSUME LfsInv, DownEnds
    PROVE  LfsInv'
<1>1. /\ down.phase = "transfer" /\ dl.phase = "returned" /\ down' = Told(down, dl.out)
      /\ UNCHANGED <<remote, causes, dl, requests, files, late, up>>
  BY DEF DownEnds, Down
<1>2. dl.out \in Outs
  BY InvFacts DEF D!DownloadInv, D!Types, D!Transfer, D!Errors, Outs
<1>3. down.key \in Keys /\ dl.key = down.key /\ down \in Sessions
  BY <1>1, InvFacts DEF DownFits, DownInv
<1>4. down' \in Sessions /\ down'.phase = "answer" /\ down'.key = down.key /\ down'.out = dl.out
  BY <1>1, <1>2, <1>3, ToldFacts
<1>5. IF dl.out = "ok" THEN D!Whole(dl.file) ELSE dl.file = D!Absent
  BY <1>1, InvFacts DEF D!DownloadInv
<1>6. dl.out = "integrity" => causes \cap {"damage", "edited"} # {}
  BY <1>1, InvFacts DEF D!DownloadInv, D!Explained, D!Harmed, harm
<1>7. ~D!Active'
  BY <1>1 DEF D!Active
<1>8. DownFits'
  BY <1>1, <1>3, <1>4, <1>5, <1>6, <1>7 DEF DownFits, DownInv, DownloadedIsWhole, IntegrityMeansDamage, D!Whole, D!Absent
<1>9. D!DownloadInv(harm)'
  <2>1. Grows
    BY <1>1, InvFacts DEF Grows
  <2> QED
    BY <2>1, <1>1, TransferKept
<1> QED
  BY <1>1, <1>8, <1>9, InvFacts, DownStep DEF Shared

-----------------------------------------------------------------------------
(* The invariant holds: initially, and after every step of the agents, the *)
(* store and the user.                                                     *)
THEOREM InvariantHolds == Spec => []LfsInv
<1>1. Init => LfsInv
  <2> SUFFICES ASSUME Init PROVE LfsInv
    OBVIOUS
  <2>1. remote \in [Keys -> P!Remotes] /\ causes \subseteq P!Causes /\ dl = P!Off
    BY SameActions DEF Init, P!Remotes
  <2>2. P!DownloadInv(harm)
    BY <2>1, Constants, P!OffFits
  <2>3. Session \in Sessions /\ Session.phase = "init" /\ Session.out = "none"
    BY DEF Session, Sessions, Phases, Outs
  <2>4. Traced
    BY DEF Init, Traced
  <2>5. Shared
    BY <2>3, <2>4 DEF Init, Shared, Bodies
  <2>6. ~D!Active
    BY DEF Init, D!Active, D!Off
  <2>7. DownFits
    BY <2>3, <2>6 DEF Init, DownFits, DownInv, DownloadedIsWhole, IntegrityMeansDamage
  <2>8. UpsFit
    BY <2>3 DEF Init, UpsFit, Good
  <2> QED
    BY <2>2, <2>5, <2>7, <2>8, SameInv, Parts
<1>2. LfsInv /\ [Next]_vars => LfsInv'
  <2> SUFFICES ASSUME LfsInv, [Next]_vars PROVE LfsInv'
    OBVIOUS
  <2>1. CASE Download
    BY <2>1, DownSessionKeeps, DownHeadKeeps, DownTransferKeeps, DownEndsKeeps DEF Download
  <2>2. CASE \E u \in Uploaders : Upload(u)
    BY <2>2, UpSessionKeeps, UpFileKeeps, UpHeadKeeps, UpPutKeeps, UpPutResentKeeps, UpPutConflictsKeeps,
       UpVerifyKeeps, UpFailsKeeps DEF Upload
  <2>3. CASE Outside \/ ServeLate \/ \E u \in Uploaders : Edit(u)
    BY <2>3, OutsideKeeps, ServeLateKeeps, EditKeeps
  <2>4. CASE UNCHANGED vars
    <3>1. UNCHANGED <<remote, causes, dl, files, late, up, down, requests>>
      BY <2>4 DEF vars
    <3>2. Grows
      BY <3>1, InvFacts DEF Grows
    <3> QED
      BY <3>1, <3>2, InvFacts, DownKept, DownStep DEF Shared
  <2> QED
    BY <2>1, <2>2, <2>3, <2>4 DEF Next
<1> QED
  BY <1>1, <1>2, PTL DEF Spec

(* Every variable keeps its type, and the one slot for errors suffices. *)
THEOREM TypeCorrect == Spec => []TypeOK
<1>1. LfsInv => TypeOK
  BY DEF LfsInv
<1> QED
  BY <1>1, InvariantHolds, PTL

(* What an agent reports as uploaded is stored under its key, whoever      *)
(* stored it and whichever answer was lost.                                *)
THEOREM CompletedUploadIsStored == Spec => []UploadedIsStored
<1>1. LfsInv => UploadedIsStored
  BY DEF LfsInv
<1> QED
  BY <1>1, InvariantHolds, PTL

(* Agents that upload the same object do not make each other fail. *)
THEOREM UploadersDoNotCollide == Spec => []UploadsAgree
<1>1. LfsInv => UploadsAgree
  BY DEF LfsInv
<1> QED
  BY <1>1, InvariantHolds, PTL

(* What an agent reports as downloaded is whole, and a failed download     *)
(* leaves no file.                                                         *)
THEOREM CompletedDownloadIsWhole == Spec => []DownloadedIsWhole
<1>1. LfsInv => DownloadedIsWhole
  BY DEF LfsInv
<1> QED
  BY <1>1, InvariantHolds, PTL

(* An integrity error is never the trace of a cancellation. *)
THEOREM IntegrityErrorIsReal == Spec => []IntegrityMeansDamage
<1>1. LfsInv => IntegrityMeansDamage
  BY DEF LfsInv
<1> QED
  BY <1>1, InvariantHolds, PTL

=============================================================================
