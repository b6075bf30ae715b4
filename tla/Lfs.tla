-------------------------------- MODULE Lfs --------------------------------
(***************************************************************************)
(* Git LFS transfer agents of one remote: processes that upload, and one   *)
(* that downloads with a pool of workers (module Download).  Each serves a *)
(* session of requests from git-lfs on its standard input.  An object's    *)
(* key is the digest of its content.  Local files may be edited at any     *)
(* moment, requests fail, are applied late or lose their answer, objects   *)
(* are damaged, the user interrupts the download, and git-lfs goes away.   *)
(*                                                                         *)
(* S3.Put is taken as one request here; module Upload has its inside.      *)
(***************************************************************************)
EXTENDS Integers, Sequences, FiniteSets

CONSTANTS
    Keys,        \* objects
    Spans,       \* per key: number of ranges
    Large,       \* keys that Put uploads in parts
    Uploaders,   \* agents that upload
    Workers,     \* DownloadConcurrency
    MaxRequests, \* bound: requests, of all sessions together
    MaxCauses    \* bound: kinds of things that go wrong in one behaviour

ASSUME SpansAssumption == Spans \in [Keys -> Nat]
ASSUME LargeAssumption == Large \subseteq {k \in Keys : Spans[k] > 0}

VARIABLES
    remote, causes,  \* as in Download; an object that is not there is "gone"
    dl,              \* the download at work
    files,           \* per uploader: the local file of its request
    late,            \* PUTs that nobody waits for
    up,              \* per uploader: its session
    down,            \* the downloader's session
    requests         \* requests so far

vars == <<remote, causes, dl, files, late, up, down, requests>>

D == INSTANCE Download WITH FailureSlots <- 1, Agent <- TRUE

Bodies == {"good", "other", "resized"}

(* init      before the first message                                      *)
(* ready     waits for a request                                           *)
(* opened    an upload: the local file comes next                          *)
(* head      HeadObject comes next                                         *)
(* put       an upload: the conditional PUT comes next                     *)
(* verify    an upload: the stored object is read and hashed               *)
(* transfer  a download is at work                                         *)
(* answer    `complete` with or without an error comes next                *)
(* ended     Run has returned                                              *)
Session == [phase |-> "init", key |-> "none", out |-> "none"]
Outs == {"none", "ok", "local", "network", "cancelled", "integrity", "output"}
Phases == {"init", "ready", "opened", "head", "put", "verify", "transfer", "answer", "ended"}
Sessions == [phase : Phases, key : Keys \cup {"none"}, out : Outs]

Init ==
    /\ \E v \in {"gone", "good"} : remote = [k \in Keys |-> v]
    /\ causes = {}
    /\ dl = D!Off
    /\ files = [u \in Uploaders |-> "good"]
    /\ late = {}
    /\ up = [u \in Uploaders |-> Session]
    /\ down = Session
    /\ requests = 0

-----------------------------------------------------------------------------
(* Agent.Run, the same for both operations: the sessions that may follow   *)
(* s.  Opening the remote fails, or not; then come requests, `terminate`   *)
(* or the end of the input.  Each request gets one `complete`: an error of *)
(* the transfer leaves the session open, one of the output ends it.        *)
Follows(s, first) ==
    CASE s.phase = "init" -> {[s EXCEPT !.phase = p] : p \in {"ready", "ended"}}
      [] s.phase = "ready" ->
            {[s EXCEPT !.phase = "ended"]} \cup
            {[s EXCEPT !.phase = first, !.key = k] : k \in {x \in Keys : requests < MaxRequests}}
      [] s.phase = "answer" -> {[Session EXCEPT !.phase = IF "output" \in causes THEN "ended" ELSE "ready"]}
      [] OTHER -> {}

Told(s, out) == [s EXCEPT !.phase = "answer", !.out = out]
Goes(s, phase) == [s EXCEPT !.phase = phase]

-----------------------------------------------------------------------------
(* Agent.upload *)

Up(u, s) == up' = [up EXCEPT ![u] = s] /\ UNCHANGED <<dl, down>>
InUpload == UNCHANGED <<files, requests>>

UpSession(u) ==
    /\ \E s \in Follows(up[u], "opened") :
        /\ Up(u, s)
        /\ requests' = IF s.phase = "opened" THEN requests + 1 ELSE requests
    /\ files' = [files EXCEPT ![u] = "good"]
    /\ UNCHANGED <<remote, causes, late>>

(* Size and digest of the file decide; then it is read again by Put. *)
UpFile(u) ==
    /\ up[u].phase = "opened"
    /\ Up(u, IF files[u] = "good" THEN Goes(up[u], "head") ELSE Told(up[u], "local"))
    /\ UNCHANGED <<remote, causes, late>> /\ InUpload

(* An existing object of the right size is read back, an absent one is     *)
(* created.                                                                *)
UpHead(u) ==
    /\ up[u].phase = "head"
    /\ Up(u, CASE remote[up[u].key] = "gone" -> Goes(up[u], "put")
               [] remote[up[u].key] = "resized" -> Told(up[u], "integrity")
               [] OTHER -> Goes(up[u], "verify"))
    /\ UNCHANGED <<remote, causes, late>> /\ InUpload

AcceptedUnchecked(k, body) == k \in Keys /\ body \in Bodies

(* The store compares a single PUT with the digest and length it carries;  *)
(* the parts of a large file carry only their own checksums.               *)
Accepted(k, body) == body = "good" \/ k \in Large

(* ErrPrecondition: the key exists by now, and is read back. *)
RefusedFails(s) == Told(s, "network")
Refused(s) == Goes(s, "verify")

(* Put with If-None-Match: *. *)
UpPut(u) ==
    LET k == up[u].key
        body == files[u]
    IN  /\ up[u].phase = "put"
        /\ \/ /\ ~Accepted(k, body)
              /\ Up(u, Told(up[u], "network")) /\ UNCHANGED remote
           \/ /\ Accepted(k, body) /\ remote[k] = "gone"
              /\ remote' = [remote EXCEPT ![k] = body] /\ Up(u, Told(up[u], "ok"))
           \/ /\ Accepted(k, body) /\ remote[k] # "gone"
              /\ Up(u, Refused(up[u])) /\ UNCHANGED remote
        /\ UNCHANGED <<causes, late>> /\ InUpload

(* The answer to the first attempt was lost: the one that the SDK resends  *)
(* finds the object that the first has made.                               *)
UpPutResent(u) ==
    LET k == up[u].key
    IN  /\ up[u].phase = "put" /\ remote[k] = "gone" /\ Accepted(k, files[u])
        /\ remote' = [remote EXCEPT ![k] = files[u]]
        /\ Up(u, Refused(up[u]))
        /\ UNCHANGED <<causes, late>> /\ InUpload

(* Two PUTs of one key at once: one is answered 409, which has the meaning *)
(* of 412 although the key may not exist yet.                              *)
UpPutConflicts(u) ==
    /\ up[u].phase = "put"
    /\ \E v \in Uploaders \ {u} : up[v].phase = "put" /\ up[v].key = up[u].key
    /\ causes' = causes \cup {"conflict"}
    /\ Up(u, Refused(up[u]))
    /\ UNCHANGED <<remote, late>> /\ InUpload

UpVerifySize(u) ==
    /\ up[u].phase = "verify"
    /\ Up(u, Told(up[u], IF remote[up[u].key] \in {"good", "other"} THEN "ok" ELSE "integrity"))
    /\ UNCHANGED <<remote, causes, late>> /\ InUpload

(* verifyRemote; an empty object has no range to ask for. *)
UpVerify(u) ==
    /\ up[u].phase = "verify"
    /\ Up(u, Told(up[u], IF remote[up[u].key] = "good" \/ Spans[up[u].key] = 0 THEN "ok"
                         ELSE IF remote[up[u].key] = "gone" THEN "network" ELSE "integrity"))
    /\ UNCHANGED <<remote, causes, late>> /\ InUpload

(* A request fails; a PUT may still be on its way. *)
UpFails(u) ==
    /\ up[u].phase \in {"head", "put", "verify"}
    /\ causes' = causes \cup {"network"}
    /\ late' \in {late, IF up[u].phase = "put" THEN late \cup {<<up[u].key, files[u]>>} ELSE late}
    /\ Up(u, Told(up[u], "network"))
    /\ UNCHANGED remote /\ InUpload

ServeLate ==
    \E p \in late :
        /\ late' = late \ {p}
        /\ Accepted(p[1], p[2]) /\ remote[p[1]] = "gone"
        /\ remote' = [remote EXCEPT ![p[1]] = p[2]]
        /\ UNCHANGED <<causes, dl, files, up, down, requests>>

(* Somebody edits the file, with or without changing its length. *)
Edit(u) ==
    /\ up[u].phase \in {"opened", "head", "put"} /\ files[u] = "good"
    /\ files' \in {[files EXCEPT ![u] = b] : b \in Bodies \ {"good"}}
    /\ causes' = causes \cup {"edited"}
    /\ UNCHANGED <<remote, dl, late, up, down, requests>>

-----------------------------------------------------------------------------
(* Agent.download *)

Down(s) == down' = s /\ UNCHANGED <<files, late, up>>

DownSession ==
    /\ \E s \in Follows(down, "head") :
        /\ Down(s)
        /\ requests' = IF s.phase = "head" THEN requests + 1 ELSE requests
    /\ dl' = D!Off
    /\ UNCHANGED <<remote, causes>>

(* Head, and the temporary file. *)
DownHead ==
    /\ down.phase = "head"
    /\ \/ /\ remote[down.key] \in {"good", "other"} /\ ~D!Interrupted
          /\ D!Open(down.key) /\ Down(Goes(down, "transfer"))
       \/ /\ remote[down.key] \in {"gone", "resized"} /\ ~D!Interrupted
          /\ Down(Told(down, IF remote[down.key] = "gone" THEN "network" ELSE "integrity"))
          /\ UNCHANGED <<remote, causes, dl>>
       \/ /\ IF D!Interrupted THEN UNCHANGED causes ELSE causes' = causes \cup {"network"}
          /\ Down(Told(down, IF D!Interrupted THEN "cancelled" ELSE "network"))
          /\ UNCHANGED <<remote, dl>>
    /\ UNCHANGED requests

DownTransfer == D!Proceed /\ UNCHANGED <<files, late, up, down, requests>>

DownEnds ==
    /\ down.phase = "transfer" /\ dl.phase = "returned"
    /\ Down(Told(down, dl.out))
    /\ UNCHANGED <<remote, causes, dl, requests>>

-----------------------------------------------------------------------------
Outside ==
    /\ \/ D!Interrupt
       \/ \E k \in Keys : remote[k] = "good" /\ D!Damage(k)
       \/ "output" \notin causes /\ causes' = causes \cup {"output"} /\ UNCHANGED remote
    /\ UNCHANGED <<dl, files, late, up, down, requests>>

Upload(u) ==
    \/ UpSession(u) \/ UpFile(u) \/ UpHead(u) \/ UpPut(u) \/ UpPutResent(u) \/ UpPutConflicts(u)
    \/ UpVerify(u) \/ UpFails(u)
Download == DownSession \/ DownHead \/ DownTransfer \/ DownEnds

Next ==
    /\ Download \/ Outside \/ ServeLate \/ \E u \in Uploaders : Upload(u) \/ Edit(u)
    /\ Cardinality(causes') <= MaxCauses

Spec == Init /\ [][Next]_vars

-----------------------------------------------------------------------------
(* Types. *)
TypeOK ==
    /\ D!Types
    /\ files \in [Uploaders -> Bodies]
    /\ late \subseteq Keys \X Bodies
    /\ up \in [Uploaders -> Sessions] /\ down \in Sessions
    /\ requests \in Nat

(* An upload that is reported complete has left the right content under    *)
(* its key, whoever created it, also when the answer was lost or another   *)
(* agent was first.  The exceptions are a large file that was edited after *)
(* it was hashed, whose parts are not compared with the key, and an empty  *)
(* object whose PUT was answered 409: it has no range to read back.        *)
UploadedIsStored ==
    \A u \in Uploaders :
        up[u].phase = "answer" /\ up[u].out = "ok" =>
            \/ remote[up[u].key] = "good" \/ "damage" \in causes
            \/ up[u].key \in Large /\ files[u] # "good"
            \/ Spans[up[u].key] = 0 /\ "conflict" \in causes

(* Agents that upload the same object at the same time do not make each    *)
(* other fail, and neither does a PUT that was applied and is sent again,  *)
(* as often as answers are lost: without an edited file, damage, a request *)
(* that fails for good or a 409 nobody is told of an error.                *)
UploadsAgree ==
    causes \cap {"edited", "network", "damage", "conflict"} = {} =>
        \A u \in Uploaders : up[u].out \in {"none", "ok"}

(* A download that is reported complete has every range of the object, and *)
(* a failed one has left no file.                                          *)
DownloadedIsWhole ==
    down.phase = "answer" =>
        /\ down.out = "ok" => D!Whole(dl.file) /\ dl.key = down.key
        /\ down.out # "ok" => dl.file = D!Absent

(* An integrity error means that the store holds something else than the   *)
(* object: it is never the trace of a cancellation, neither the user's nor *)
(* that of a worker that failed.                                           *)
IntegrityMeansDamage ==
    down.phase = "answer" /\ down.out = "integrity" =>
        causes \cap {"damage", "edited"} # {}

-----------------------------------------------------------------------------
(* The inductive invariant. *)

(* An object differs from its key only after damage, or because the parts  *)
(* of an edited file were stored; bytes that differ come from an edit.     *)
Traced ==
    /\ \A k \in Keys :
        remote[k] \in {"other", "resized"} => "damage" \in causes \/ (k \in Large /\ "edited" \in causes)
    /\ \A u \in Uploaders : files[u] # "good" => "edited" \in causes
    /\ \A p \in late : p[2] # "good" => "edited" \in causes

(* An uploader reads back only what is there, unless it was deleted or a   *)
(* 409 has said so.                                                        *)
UpInv(u) ==
    /\ up[u].phase \in {"opened", "head", "put", "verify", "answer"} => up[u].key \in Keys
    /\ up[u].phase = "verify" => remote[up[u].key] # "gone" \/ causes \cap {"damage", "conflict"} # {}

(* The transfer at work is the one of the request. *)
DownInv ==
    /\ down.phase \in {"head", "transfer", "answer"} => down.key \in Keys
    /\ down.phase = "transfer" => dl.key = down.key /\ dl.phase # "off"
    /\ down.phase # "transfer" => ~D!Active
    /\ down.phase \notin {"transfer", "answer"} => dl = D!Off

LfsInv ==
    /\ TypeOK /\ Traced
    /\ D!DownloadInv({"damage", "edited"})
    /\ \A u \in Uploaders : UpInv(u)
    /\ DownInv
    /\ UploadedIsStored /\ UploadsAgree /\ DownloadedIsWhole /\ IntegrityMeansDamage

=============================================================================
