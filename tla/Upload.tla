------------------------------ MODULE Upload -------------------------------
(***************************************************************************)
(* Creating one immutable key: S3.Put with its single PUT and its          *)
(* multipart upload (a reader of parts, one goroutine per part, a pool of  *)
(* buffers), called by uploadFile with a file, or by makeTransaction with  *)
(* the output of pack-objects, teed into the trailer of the pack.  Callers *)
(* are processes that create the same key.  Requests are lost, resent by   *)
(* the SDK and applied late; a caller is cancelled or dies; pack-objects   *)
(* fails half-way.  Contents are sequences of units.                       *)
(***************************************************************************)
EXTENDS Integers, Sequences, SequencesExt, FiniteSets

CONSTANTS
    Callers,      \* processes that create the key
    Units,        \* what contents are made of
    Sources,      \* what each caller may upload, see Source
    None,         \* absent object
    PartSize,     \* units of a part
    Threshold,    \* MultipartThreshold
    Concurrency,  \* UploadConcurrency: buffers, and parts in flight
    MaxParts,     \* 10,000 in the code
    TrailerSize,  \* length of the checksum that ends a pack
    MaxFaults     \* bound: failed requests, reads and deaths

ASSUME SizeAssumption ==
    /\ PartSize \in Nat \ {0} /\ Concurrency \in Nat \ {0} /\ MaxParts \in Nat \ {0}
    /\ Threshold \in Nat /\ TrailerSize \in Nat /\ MaxFaults \in Nat

VARIABLES
    source,     \* per caller: what its reader yields
    object,     \* the key's value
    uploads,    \* per caller: its multipart upload in the store
    call,       \* per caller: its Put and what surrounds it
    result,     \* per caller: what it was told
    late,       \* callers with a final request that nobody waits for
    unaborted,  \* callers whose upload nobody will abort
    faults

vars == <<source, object, uploads, call, result, late, unaborted, faults>>

(* A file, or the output of a command that ends after `made` units; it     *)
(* exits with status 0 iff that is all of its data.  "none": the caller    *)
(* does not take part.                                                     *)
Contents == Seq(Units)
Kinds == {"file", "stream", "none"}
Readers == [kind : Kinds, data : Contents, made : Nat]

Source(s) ==
    /\ s.made <= Len(s.data)
    /\ s.kind = "file" => s.made = Len(s.data)

ASSUME NoneAssumption == None \notin Contents

ASSUME SourceAssumption ==
    /\ Sources \subseteq [Callers -> Readers]
    /\ \A f \in Sources : \A c \in Callers : Source(f[c])

(* idle       before Put                                                   *)
(* single     PutObject is on its way                                      *)
(* creating   CreateMultipartUpload is on its way                          *)
(* reading    the loop reads the next part, or waits for a buffer          *)
(* polling    the loop takes the results that are there                    *)
(* collecting the reader is at its end: wait for every part                *)
(* completing CompleteMultipartUpload is on its way                        *)
(* draining   a part failed: wait for the others                           *)
(* aborting   AbortMultipartUpload is on its way                           *)
(* returned   Put has returned `out`; done: the caller has its result      *)
Phases == {"idle", "single", "creating", "reading", "polling", "collecting", "completing",
           "draining", "aborting", "returned", "done", "dead"}
Uploads == [open : BOOLEAN, parts : [1..MaxParts -> Contents]]
Outs == {"none", "stored", "exists", "failed"}
Told == {"none", "ok", "failed"}

Tasks == [part : 1..MaxParts, buf : 1..Concurrency, size : 1..PartSize]
Outcomes == [part : 1..MaxParts, buf : 1..Concurrency, ok : BOOLEAN]

(* pos counts the units that went into parts; bufs are the buffers, free   *)
(* the stack of unused ones; tasks are the goroutines, sent the results    *)
(* channel; stopped: uploadCtx is cancelled, ctx: the caller's is; tail is *)
(* the trailerWriter's.                                                    *)
Calls ==
    [phase : Phases, pos : Nat, tail : Contents, next : 1..MaxParts + 1, last : BOOLEAN,
     free : Seq(1..Concurrency), bufs : [1..Concurrency -> Contents],
     tasks : SUBSET Tasks, sent : Seq(Outcomes), parts : Seq(1..MaxParts),
     stopped : BOOLEAN, ctx : BOOLEAN, out : Outs]

NewCall(s) ==
    [phase |-> IF s.kind = "none" THEN "done" ELSE "idle", pos |-> 0, tail |-> <<>>, next |-> 1, last |-> FALSE,
     free |-> [b \in 1..Concurrency |-> b], bufs |-> [b \in 1..Concurrency |-> <<>>],
     tasks |-> {}, sent |-> <<>>, parts |-> <<>>, stopped |-> FALSE, ctx |-> FALSE, out |-> "none"]

Init ==
    /\ source \in Sources
    /\ object = None
    /\ uploads = [c \in Callers |-> [open |-> FALSE, parts |-> [n \in 1..MaxParts |-> <<>>]]]
    /\ call = [c \in Callers |-> NewCall(source[c])]
    /\ result = [c \in Callers |-> "none"]
    /\ late = {} /\ unaborted = {} /\ faults = 0

Becomes(c, r) == call' = [call EXCEPT ![c] = r]
Goes(c, phase) == Becomes(c, [call[c] EXCEPT !.phase = phase])
Returns(c, out) == Becomes(c, [call[c] EXCEPT !.phase = "returned", !.out = out])

Fault == faults < MaxFaults /\ faults' = faults + 1

Smaller(m, n) == IF m < n THEN m ELSE n

-----------------------------------------------------------------------------
(* The reader. *)

Reader(s) == SubSeq(s.data, 1, s.made)
Prefix(s) == Smaller(s.made, Threshold + 1)

(* How much of a stream was read: its first Threshold + 1 units are read   *)
(* before anything is sent.                                                *)
Teed(s, r) ==
    IF r.phase = "idle" THEN 0
    ELSE IF r.pos > Prefix(s) THEN r.pos ELSE Prefix(s)

(* trailerWriter.Write *)
WriteKeepingAll(tail, p) ==
    IF Len(p) >= TrailerSize THEN SubSeq(p, Len(p) - TrailerSize + 1, Len(p))
    ELSE SubSeq(tail \o p, 1, Smaller(TrailerSize, Len(tail) + Len(p)))
Write(tail, p) ==
    IF Len(p) >= TrailerSize THEN SubSeq(p, Len(p) - TrailerSize + 1, Len(p))
    ELSE LET overflow == Len(tail) + Len(p) - TrailerSize
             kept == IF overflow > 0 THEN SubSeq(tail, overflow + 1, Len(tail)) ELSE tail
         IN  kept \o p

(* The tails after p, which arrives in one or two writes. *)
Writes(tail, p) == {Write(Write(tail, SubSeq(p, 1, n)), SubSeq(p, n + 1, Len(p))) : n \in 0..Len(p)}

-----------------------------------------------------------------------------
(* S3.Put *)

Multipart(s) ==
    IF s.kind = "stream" THEN Prefix(s) > Threshold
    ELSE s.made > 0 /\ s.made >= Threshold

Begin(c) ==
    /\ call[c].phase = "idle"
    /\ \E tail \in IF source[c].kind = "stream" THEN Writes(<<>>, SubSeq(Reader(source[c]), 1, Prefix(source[c])))
                   ELSE {<<>>} :
        Becomes(c, [call[c] EXCEPT !.phase = IF Multipart(source[c]) THEN "creating" ELSE "single", !.tail = tail])
    /\ UNCHANGED <<source, object, uploads, result, late, unaborted, faults>>

(* The conditional creation, as the store serves it. *)
Store(value) == object' = IF object = None THEN value ELSE object

(* putSingle: PutObject with If-None-Match: *. *)
PutServed(c) ==
    /\ call[c].phase = "single" /\ ~call[c].ctx
    /\ Store(Reader(source[c]))
    /\ Returns(c, IF object = None THEN "stored" ELSE "exists")
    /\ UNCHANGED <<source, uploads, result, late, unaborted, faults>>

(* The answer of the first attempt was lost. *)
PutResent(c) ==
    /\ call[c].phase = "single" /\ ~call[c].ctx /\ Fault
    /\ Store(Reader(source[c]))
    /\ Returns(c, "exists")
    /\ UNCHANGED <<source, uploads, result, late, unaborted>>

CreateServed(c) ==
    /\ call[c].phase = "creating" /\ ~call[c].ctx
    /\ uploads' = [uploads EXCEPT ![c].open = TRUE]
    /\ Goes(c, "reading")
    /\ UNCHANGED <<source, object, result, late, unaborted, faults>>

(* What may come of a request whose answer is no longer waited for.  An    *)
(* upload whose id never arrives is left to the bucket's lifecycle.        *)
Lost(c) ==
    \/ UNCHANGED <<uploads, late, unaborted>>
    \/ /\ call[c].phase \in {"single", "completing"}
       /\ late' = late \cup {c}
       /\ UNCHANGED <<uploads, unaborted>>
    \/ /\ call[c].phase = "creating"
       /\ uploads' = [uploads EXCEPT ![c].open = TRUE]
       /\ unaborted' = unaborted \cup {c}
       /\ UNCHANGED late

(* A request fails; one of a cancelled context is not even sent. *)
RequestFails(c) ==
    /\ call[c].phase \in {"single", "creating", "completing"}
    /\ IF call[c].ctx THEN UNCHANGED <<uploads, late, unaborted, faults>> ELSE Lost(c) /\ Fault
    /\ Becomes(c, [call[c] EXCEPT !.phase = IF @ = "completing" THEN "aborting" ELSE "returned",
                                   !.out = "failed"])
    /\ UNCHANGED <<source, object, result>>

-----------------------------------------------------------------------------
(* putMultipart: the loop that reads parts and takes results. *)

Inflight(c) == Cardinality(call[c].tasks) + Len(call[c].sent)

(* cancel() before drain() *)
Stop(r) == [r EXCEPT !.phase = "draining", !.stopped = TRUE, !.out = "failed"]

(* An error between taking a buffer and starting its part: the buffer is   *)
(* not put back.                                                           *)
StopReading(r) == Stop([r EXCEPT !.free = Front(@)])

TooManyPartsLate(r) == r.next > MaxParts + 1
TooManyParts(r) == r.next > MaxParts

(* ReadFull into the buffer on top of the stack.  At the end of the reader *)
(* the buffer goes back; a short part is the last one.                     *)
ReadPart(c) ==
    LET r == call[c]
        b == Last(r.free)
        chunk == SubSeq(Reader(source[c]), r.pos + 1, Smaller(r.pos + PartSize, source[c].made))
        fresh == SubSeq(Reader(source[c]), Teed(source[c], call[c]) + 1, r.pos + Len(chunk))
        filled == [r.bufs EXCEPT ![b] = chunk \o SubSeq(@, Len(chunk) + 1, Len(@))]
    IN  /\ r.phase = "reading" /\ r.free # <<>>
        /\ \E tail \in IF source[c].kind = "stream" THEN Writes(r.tail, fresh) ELSE {r.tail} :
            \/ /\ chunk = <<>>
               /\ Goes(c, "collecting")
            \/ /\ chunk # <<>> /\ TooManyParts(r)
               /\ Becomes(c, StopReading([r EXCEPT !.tail = tail]))
            \/ /\ chunk # <<>> /\ ~TooManyParts(r)
               /\ Becomes(c, [r EXCEPT
                    !.phase = "polling", !.pos = @ + Len(chunk), !.tail = tail, !.next = @ + 1,
                    !.last = Len(chunk) < PartSize, !.free = Front(@), !.bufs = filled,
                    !.tasks = @ \cup {[part |-> r.next, buf |-> b, size |-> Len(chunk)]}])
        /\ UNCHANGED <<source, object, uploads, result, late, unaborted, faults>>

ReadFails(c) ==
    /\ call[c].phase = "reading" /\ call[c].free # <<>>
    /\ source[c].kind = "file" /\ Fault
    /\ Becomes(c, StopReading(call[c]))
    /\ UNCHANGED <<source, object, uploads, result, late, unaborted>>

(* accept: the buffer is free again, whatever the result. *)
Accept(r, x) ==
    [r EXCEPT !.sent = Tail(@), !.free = Append(@, x.buf),
              !.parts = IF x.ok THEN Append(@, x.part) ELSE @]

(* The loop receives when it has no buffer, when a result is there after a *)
(* part was started, and until none is in flight at the end.               *)
Receives(r) ==
    \/ r.phase = "reading" /\ r.free = <<>>
    \/ r.phase \in {"polling", "collecting", "draining"}

ReceiveIgnoringErrors(c) ==
    LET r == call[c]
    IN  /\ Receives(r) /\ r.sent # <<>>
        /\ Becomes(c, Accept(r, Head(r.sent)))
        /\ UNCHANGED <<source, object, uploads, result, late, unaborted, faults>>

Receive(c) ==
    LET r == call[c]
        x == Head(r.sent)
    IN  /\ Receives(r) /\ r.sent # <<>>
        /\ Becomes(c, IF x.ok \/ r.phase = "draining" THEN Accept(r, x) ELSE Stop(Accept(r, x)))
        /\ UNCHANGED <<source, object, uploads, result, late, unaborted, faults>>

(* The loop goes on when there is nothing to receive. *)
Polled(c) ==
    /\ call[c].phase = "polling" /\ call[c].sent = <<>>
    /\ Goes(c, IF call[c].last THEN "collecting" ELSE "reading")
    /\ UNCHANGED <<source, object, uploads, result, late, unaborted, faults>>

Collected(c) ==
    /\ call[c].phase = "collecting" /\ Inflight(c) = 0
    /\ Goes(c, "completing")
    /\ UNCHANGED <<source, object, uploads, result, late, unaborted, faults>>

DrainedAtOnce(c) ==
    /\ call[c].phase = "draining" /\ call[c].sent = <<>>
    /\ Goes(c, "aborting")
    /\ UNCHANGED <<source, object, uploads, result, late, unaborted, faults>>

DrainedWhenAllBack(c) ==
    /\ call[c].phase = "draining" /\ Len(call[c].sent) = Concurrency
    /\ Goes(c, "aborting")
    /\ UNCHANGED <<source, object, uploads, result, late, unaborted, faults>>

Drained(c) ==
    /\ call[c].phase = "draining" /\ Inflight(c) = 0
    /\ Goes(c, "aborting")
    /\ UNCHANGED <<source, object, uploads, result, late, unaborted, faults>>

(* The goroutine of a part sends what its buffer holds now. *)
Sends(c, t, ok) ==
    Becomes(c, [call[c] EXCEPT !.tasks = @ \ {t},
                               !.sent = Append(@, [part |-> t.part, buf |-> t.buf, ok |-> ok])])

PartServed(c) ==
    \E t \in call[c].tasks :
        /\ uploads' = [uploads EXCEPT ![c].parts[t.part] = SubSeq(call[c].bufs[t.buf], 1, t.size)]
        /\ Sends(c, t, TRUE)
        /\ UNCHANGED <<source, object, result, late, unaborted, faults>>

(* Whether the store has a failed part makes no difference: it is not      *)
(* listed when the upload is completed.                                    *)
PartFails(c) ==
    \E t \in call[c].tasks :
        /\ IF call[c].stopped \/ call[c].ctx THEN UNCHANGED faults ELSE Fault
        /\ Sends(c, t, FALSE)
        /\ UNCHANGED <<source, object, uploads, result, late, unaborted>>

-----------------------------------------------------------------------------
(* The end of an upload. *)

(* The accepted parts by number. *)
Listed(r) ==
    CHOOSE l \in [1..Len(r.parts) -> 1..MaxParts] :
        /\ \A i, j \in 1..Len(r.parts) : i < j => l[i] < l[j]
        /\ \A i \in 1..Len(r.parts) : \E j \in 1..Len(r.parts) : l[i] = r.parts[j]
Joined(c) == FlattenSeq([i \in 1..Len(call[c].parts) |-> uploads[c].parts[Listed(call[c])[i]]])

(* CompleteMultipartUpload with If-None-Match: *.  A refused upload stays  *)
(* open, and the deferred abort removes it.                                *)
CompleteServed(c) ==
    /\ call[c].phase = "completing" /\ ~call[c].ctx
    /\ Store(Joined(c))
    /\ IF object = None
       THEN uploads' = [uploads EXCEPT ![c].open = FALSE] /\ Returns(c, "stored")
       ELSE UNCHANGED uploads /\ Becomes(c, [call[c] EXCEPT !.phase = "aborting", !.out = "exists"])
    /\ UNCHANGED <<source, result, late, unaborted, faults>>

(* Two uploads complete at once: one of them gets 409, which mapS3 gives   *)
(* the meaning of 412.                                                     *)
CompleteConflicts(c) ==
    /\ call[c].phase = "completing" /\ ~call[c].ctx
    /\ \E d \in Callers \ {c} : call[d].phase \in {"single", "completing"} \/ d \in late
    /\ Becomes(c, [call[c] EXCEPT !.phase = "aborting", !.out = "exists"])
    /\ UNCHANGED <<source, object, uploads, result, late, unaborted, faults>>

(* A second attempt after a lost answer finds the upload gone, or the key  *)
(* in place.                                                               *)
CompleteResent(c) ==
    /\ call[c].phase = "completing" /\ ~call[c].ctx /\ object = None /\ Fault
    /\ Store(Joined(c))
    /\ uploads' = [uploads EXCEPT ![c].open = FALSE]
    /\ \E out \in {"failed", "exists"} : Becomes(c, [call[c] EXCEPT !.phase = "aborting", !.out = out])
    /\ UNCHANGED <<source, result, late, unaborted>>

AbortInContext(c) ==
    /\ call[c].phase = "aborting"
    /\ uploads' = [uploads EXCEPT ![c].open = @ /\ call[c].ctx]
    /\ Goes(c, "returned")
    /\ UNCHANGED <<source, object, result, late, unaborted, faults>>

(* The abort has a context of its own, which a cancelled caller's does not *)
(* reach.                                                                  *)
AbortServed(c) ==
    /\ call[c].phase = "aborting"
    /\ uploads' = [uploads EXCEPT ![c].open = FALSE]
    /\ Goes(c, "returned")
    /\ UNCHANGED <<source, object, result, late, unaborted, faults>>

AbortFails(c) ==
    /\ call[c].phase = "aborting" /\ Fault
    /\ unaborted' = unaborted \cup {c}
    /\ Goes(c, "returned")
    /\ UNCHANGED <<source, object, uploads, result, late>>

(* The store applies a final request that nobody waits for. *)
ServeLate(c) ==
    /\ c \in late /\ late' = late \ {c}
    /\ \/ Multipart(source[c]) /\ uploads[c].open /\ Store(Joined(c))
          /\ uploads' = [uploads EXCEPT ![c].open = object # None]
       \/ ~Multipart(source[c]) /\ Store(Reader(source[c])) /\ UNCHANGED uploads
    /\ UNCHANGED <<source, call, result, unaborted, faults>>

-----------------------------------------------------------------------------
(* The callers. *)

(* uploadFile and immutable read a key back that exists already; its       *)
(* content makes the difference.  makeTransaction does not.                *)
FileOk(c) == call[c].out = "stored" \/ (call[c].out = "exists" /\ object = Reader(source[c]))

(* makeTransaction waits for pack-objects, whose exit status says whether  *)
(* it wrote everything, and wants a whole trailer.                         *)
StreamOk(c) ==
    /\ call[c].out = "stored"
    /\ source[c].made = Len(source[c].data)
    /\ Len(call[c].tail) = TrailerSize

Reports(c, told) ==
    /\ call[c].phase = "returned"
    /\ result' = [result EXCEPT ![c] = told]
    /\ Goes(c, "done")
    /\ UNCHANGED <<source, object, uploads, late, unaborted>>

Report(c) ==
    /\ Reports(c, IF IF source[c].kind = "file" THEN FileOk(c) ELSE StreamOk(c) THEN "ok" ELSE "failed")
    /\ UNCHANGED faults

(* The key cannot be read back, or pack-objects is killed after its last   *)
(* unit.                                                                   *)
ReportFails(c) ==
    /\ IF call[c].ctx THEN UNCHANGED faults ELSE source[c].kind = "file" /\ call[c].out = "exists" /\ Fault
    /\ Reports(c, "failed")

(* The caller's context is cancelled: pack-objects is killed. *)
Interrupt(c) ==
    /\ call[c].phase \notin {"done", "dead"} /\ ~call[c].ctx /\ Fault
    /\ \E n \in Teed(source[c], call[c])..source[c].made :
        source' = IF source[c].kind = "stream" THEN [source EXCEPT ![c].made = n] ELSE source
    /\ Lost(c)
    /\ Becomes(c, [call[c] EXCEPT !.ctx = TRUE])
    /\ UNCHANGED <<object, result>>

Crash(c) ==
    /\ call[c].phase \notin {"done", "dead"} /\ Fault
    /\ \/ Lost(c) /\ ~uploads[c].open
       \/ /\ uploads[c].open
          /\ unaborted' = unaborted \cup {c}
          /\ late' \in {late, IF call[c].phase = "completing" THEN late \cup {c} ELSE late}
          /\ UNCHANGED uploads
    /\ Becomes(c, [call[c] EXCEPT !.phase = "dead", !.tasks = {}, !.sent = <<>>])
    /\ UNCHANGED <<source, object, result>>

Proceed(c) ==
    \/ Begin(c) \/ PutServed(c) \/ PutResent(c) \/ CreateServed(c) \/ RequestFails(c)
    \/ ReadPart(c) \/ ReadFails(c) \/ Receive(c) \/ Polled(c) \/ Collected(c) \/ Drained(c)
    \/ PartServed(c) \/ PartFails(c)
    \/ CompleteServed(c) \/ CompleteConflicts(c) \/ CompleteResent(c)
    \/ AbortServed(c) \/ AbortFails(c)
    \/ Report(c) \/ ReportFails(c)

Next == \E c \in Callers : Proceed(c) \/ ServeLate(c) \/ Interrupt(c) \/ Crash(c)

Spec == Init /\ [][Next]_vars

(* A caller's own steps happen: every request is answered or fails at its  *)
(* deadline, and the goroutines run.                                       *)
Fairness == \A c \in Callers : WF_vars(Proceed(c))

FairSpec == Spec /\ Fairness

-----------------------------------------------------------------------------
(* Types; at most MaxParts parts are sent. *)
TypeOK ==
    /\ source \in [Callers -> Readers]
    /\ \A c \in Callers : Source(source[c])
    /\ object \in Contents \cup {None}
    /\ uploads \in [Callers -> Uploads]
    /\ call \in [Callers -> Calls]
    /\ result \in [Callers -> Told]
    /\ late \subseteq Callers /\ unaborted \subseteq Callers
    /\ faults \in 0..MaxFaults

(* The owners of a buffer: the stack, a goroutine or a result. *)
Owners(r, b) ==
    Cardinality({t \in r.tasks : t.buf = b})
    + Cardinality({i \in DOMAIN r.sent : r.sent[i].buf = b})
    + Cardinality({i \in DOMAIN r.free : r.free[i] = b})

(* putMultipart's bookkeeping: a buffer never has two owners, so no part   *)
(* is overwritten while it is sent, and once the loop is through, the      *)
(* upload is completed or aborted with every part settled and nothing of   *)
(* it runs after Put has returned.                                         *)
PartsSettled ==
    \A c \in Callers :
        /\ \A b \in 1..Concurrency : Owners(call[c], b) <= 1
        /\ call[c].phase \in {"completing", "aborting", "returned", "done"} => Inflight(c) = 0

(* A caller that has its answer leaves no upload open in the store, unless *)
(* the abort itself failed or the upload's id was lost; this includes      *)
(* callers that were cancelled or refused.                                 *)
UploadsClosed ==
    \A c \in Callers : result[c] # "none" /\ uploads[c].open => c \in unaborted

(* The descriptor of an accepted pack ends in the pack's own checksum: the *)
(* tail that trailerWriter kept across all the reads is the end of what    *)
(* the key holds.                                                          *)
TrailerIsObjectEnd ==
    \A c \in Callers :
        result[c] = "ok" /\ source[c].kind = "stream" =>
            call[c].tail = SubSeq(object, Len(object) - TrailerSize + 1, Len(object))

(* The key is created once, with the whole of what one caller's reader     *)
(* yields, in order, and `ok` means that it holds what the caller meant.   *)
Key == INSTANCE WriteOnce WITH
    content <- [c \in Callers |-> Reader(source[c])],
    wanted <- [c \in Callers |-> source[c].data]

ImplementsWriteOnce == Key!Spec

(***************************************************************************)
(* The inductive invariant of the proofs, caller by caller: s is what its  *)
(* reader yields, u its upload and r its call.                             *)
(***************************************************************************)
Running == {"reading", "polling", "collecting", "draining"}
Opened == Running \cup {"completing", "aborting"}

(* Every buffer has one owner, and nothing runs outside the loop. *)
BufferInv(r) ==
    /\ IsFiniteSet(r.tasks)
    /\ r.phase \notin Running => r.tasks = {} /\ r.sent = <<>>
    /\ \A i, j \in DOMAIN r.free : r.free[i] = r.free[j] => i = j
    /\ \A t, x \in r.tasks : t.buf = x.buf => t = x
    /\ \A i, j \in DOMAIN r.sent : r.sent[i].buf = r.sent[j].buf => i = j
    /\ \A t \in r.tasks : \A i \in DOMAIN r.free : t.buf # r.free[i]
    /\ \A t \in r.tasks : \A i \in DOMAIN r.sent : t.buf # r.sent[i].buf
    /\ \A i \in DOMAIN r.sent : \A j \in DOMAIN r.free : r.sent[i].buf # r.free[j]

(* The k-th part of a reader. *)
Chunk(s, k) == SubSeq(s.data, (k - 1) * PartSize + 1, Smaller(k * PartSize, s.made))

(* A part number is in flight, in the channel, accepted or refused. *)
NumberInv(r) ==
    /\ \A i \in DOMAIN r.parts : r.parts[i] < r.next
    /\ \A t \in r.tasks : t.part < r.next
    /\ \A i \in DOMAIN r.sent : r.sent[i].part < r.next
    /\ \A t, x \in r.tasks : t.part = x.part => t = x
    /\ \A i, j \in DOMAIN r.parts : r.parts[i] = r.parts[j] => i = j
    /\ \A i, j \in DOMAIN r.sent : r.sent[i].part = r.sent[j].part => i = j
    /\ \A t \in r.tasks : \A i \in DOMAIN r.parts : t.part # r.parts[i]
    /\ \A t \in r.tasks : \A i \in DOMAIN r.sent : t.part # r.sent[i].part
    /\ \A i \in DOMAIN r.sent : \A j \in DOMAIN r.parts : r.sent[i].part # r.parts[j]

Accepted(r, k) == \E i \in DOMAIN r.parts : r.parts[i] = k
InFlight(r, k) == (\E t \in r.tasks : t.part = k) \/ \E i \in DOMAIN r.sent : r.sent[i].part = k

(* The loop has read the first parts of its reader and lost none. *)
LoopInv(s, r) ==
    /\ r.pos = Smaller((r.next - 1) * PartSize, s.made)
    /\ r.phase \in {"idle", "single", "creating"} => r.next = 1
    /\ r.last => r.pos = s.made
    /\ r.phase \in {"collecting", "completing"} => r.pos = s.made
    /\ r.phase \in {"reading", "polling", "collecting"} =>
           \A k \in 1..r.next - 1 : Accepted(r, k) \/ InFlight(r, k)
    /\ r.phase = "completing" => \A k \in 1..r.next - 1 : Accepted(r, k)

(* What is sent, and what the store has, is the part of that number. *)
PartInv(s, u, r) ==
    /\ \A t \in r.tasks :
        t.size = Len(Chunk(s, t.part)) /\ SubSeq(r.bufs[t.buf], 1, t.size) = Chunk(s, t.part)
    /\ \A i \in DOMAIN r.sent : r.sent[i].ok => u.parts[r.sent[i].part] = Chunk(s, r.sent[i].part)
    /\ \A i \in DOMAIN r.parts : u.parts[r.parts[i]] = Chunk(s, r.parts[i])

(* An upload that the store may still complete has all of its parts. *)
Whole(s, r) == r.pos = s.made /\ \A k \in 1..r.next - 1 : Accepted(r, k)

(* The tail is the end of what was read. *)
TailInv(s, r) ==
    /\ r.phase \in {"idle", "single", "creating", "reading", "polling", "collecting", "completing"} =>
           r.out = "none"
    /\ s.kind = "stream" /\ r.out # "failed" /\ r.phase # "dead" =>
           r.tail = SubSeq(s.data, Teed(s, r) - Smaller(TrailerSize, Teed(s, r)) + 1, Teed(s, r))

(* Only a small content is put at once, and what was stored stays. *)
OutInv(s, r, value) ==
    /\ r.phase = "single" => ~Multipart(s)
    /\ r.out = "stored" => value = Reader(s) /\ (s.kind = "stream" => Teed(s, r) = s.made)

ToldInv(s, r, told) ==
    /\ told # "none" => r.phase = "done"
    /\ told = "ok" /\ s.kind = "stream" =>
           r.out = "stored" /\ s.made = Len(s.data) /\ Len(r.tail) = TrailerSize

CallInv(s, u, r) ==
    BufferInv(r) /\ NumberInv(r) /\ LoopInv(s, r) /\ PartInv(s, u, r) /\ TailInv(s, r)

CallerInv(c) ==
    /\ CallInv(source[c], uploads[c], call[c])
    /\ OutInv(source[c], call[c], object)
    /\ ToldInv(source[c], call[c], result[c])
    /\ c \in late /\ Multipart(source[c]) => Whole(source[c], call[c])
    /\ uploads[c].open => c \in unaborted \/ call[c].phase \in Opened

(* The invariant that the proofs carry from step to step: at every moment, *)
(* what putMultipart holds and what the store has of its upload are parts  *)
(* of the reader under their own numbers, none of them lost.               *)
UploadInv == TypeOK /\ \A c \in Callers : CallerInv(c)

(* Every Put returns: no failed part leaves the loop, its goroutines and   *)
(* the drain waiting for each other.                                       *)
EveryPutEnds == \A c \in Callers : <>(call[c].phase \in {"done", "dead"})

=============================================================================
