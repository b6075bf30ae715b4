-------------------------- MODULE WalStreamProofs --------------------------
(***************************************************************************)
(* Machine-checked lemmas about WalStream: every step of the goroutine,    *)
(* the copier and the child, and every change of the world around them,    *)
(* keeps the stream's invariant.  They serve Install.                      *)
(***************************************************************************)
EXTENDS WalStream, TLAPS

Sizes == Spans \in [Keys -> Nat]

(* An object differs from what its key says only when it was damaged. *)
Sound == \A k \in Keys : remote[k] # "good" => "damage" \in causes

(* What is known of the stream. *)
LEMMA StreamFacts ==
    ASSUME StreamInv
    PROVE  /\ ws \in Stream /\ packs \in [Keys -> Bytes \cup {"none"}] /\ keeps \subseteq Keys
           /\ ws.pos \in Nat /\ ws.got \in Nat
           /\ ws.phase = "off" => ws = Off
           /\ ws.phase # "off" => ws.key \in Keys
<1>1. ws \in Stream /\ packs \in [Keys -> Bytes \cup {"none"}] /\ keeps \subseteq Keys
  BY DEF StreamInv, Types
<1>2. ws.pos \in Nat /\ ws.got \in Nat
  BY <1>1 DEF Stream
<1> QED
  BY <1>1, <1>2 DEF StreamInv

(* A stream that is off has the fields of Off. *)
LEMMA OffFields ==
    /\ Off.key = "none" /\ Off.phase = "off" /\ Off.at = "getting" /\ Off.pos = 0 /\ Off.sum = "good"
    /\ Off.unit = "none" /\ Off.err = "none" /\ Off.copier = "reading" /\ Off.held = "none"
    /\ Off.cerr = "none" /\ Off.got = 0 /\ Off.seen = "good" /\ Off.child = "running" /\ Off.out = "none"
    /\ Off \in Stream
BY DEF Off, Stream, Bytes, Errors, Results

(* The goroutine gets a range and hashes it. *)
LEMMA GetKeeps ==
    ASSUME Sizes, StreamInv, Sound, Get
    PROVE  StreamInv'
<1> DEFINE e == remote[ws.key]
           s == Mixed(ws.sum, e)
           d == [ws EXCEPT !.at = "writing", !.unit = e, !.sum = s]
<1>a. /\ ws.at = "getting" /\ ws.phase # "off" /\ ws.pos < Spans[ws.key] /\ e \in Bytes
      /\ ws' = d /\ UNCHANGED <<remote, causes, packs, keeps>>
  BY DEF Get, Bytes
<1>b. s \in Bytes /\ (e = "other" => "damage" \in causes)
  BY <1>a, StreamFacts DEF Mixed, Stream, Bytes, Sound
<1>c. s = Mixed(ws.sum, e)
  OBVIOUS
<1> HIDE DEF s, e
<1>1. /\ d \in Stream /\ d.key = ws.key /\ d.phase = ws.phase /\ d.at = "writing" /\ d.pos = ws.pos
      /\ d.sum = s /\ d.unit = e /\ d.err = ws.err /\ d.copier = ws.copier /\ d.held = ws.held
      /\ d.cerr = ws.cerr /\ d.got = ws.got /\ d.seen = ws.seen /\ d.child = ws.child /\ d.out = ws.out
  <2>1. ws \in Stream
    BY StreamFacts
  <2>2. d \in Stream
    BY <1>a, <1>b, <2>1 DEF Stream
  <2> QED
    BY <2>1, <2>2 DEF Stream
<1> HIDE DEF d
<1>2. Types'
  BY <1>a, <1>1, StreamFacts DEF Types
<1>3. ws.copier # "ended" => Conserved'
  BY <1>a, <1>1, <1>b, <1>c DEF StreamInv, Conserved, Sent, Held, Mixed, Bytes
<1> QED
  BY <1>a, <1>b, <1>c, <1>1, <1>2, <1>3, StreamFacts DEF StreamInv, Mixed, Interrupted

(* The goroutine cannot get a range. *)
LEMMA GetFailsKeeps ==
    ASSUME Sizes, StreamInv, Sound, GetFails
    PROVE  StreamInv'
<1> PICK err \in {"network", "cancelled", "integrity"} :
        /\ \/ err = "cancelled" /\ Interrupted /\ UNCHANGED causes
           \/ err = "network" /\ remote[ws.key] = "gone" /\ UNCHANGED causes
           \/ err = "network" /\ remote[ws.key] # "gone" /\ causes' = causes \cup {"network"}
           \/ err = "integrity" /\ remote[ws.key] = "resized" /\ UNCHANGED causes
        /\ ws' = [ws EXCEPT !.at = "closed", !.err = err]
  BY DEF GetFails
<1> DEFINE d == [ws EXCEPT !.at = "closed", !.err = err]
<1>a. ws.at = "getting" /\ ws.phase # "off" /\ ws' = d /\ UNCHANGED <<remote, packs, keeps>> /\ ws.key \in Keys
  BY StreamFacts DEF GetFails
<1>b. causes \subseteq causes' /\ (Interrupted \/ causes' \cap {"network", "damage"} # {}) /\ err \in Errors
  BY <1>a DEF Sound, Errors
<1>1. /\ d \in Stream /\ d.key = ws.key /\ d.phase = ws.phase /\ d.at = "closed" /\ d.pos = ws.pos
      /\ d.sum = ws.sum /\ d.unit = ws.unit /\ d.err = err /\ d.copier = ws.copier /\ d.held = ws.held
      /\ d.cerr = ws.cerr /\ d.got = ws.got /\ d.seen = ws.seen /\ d.child = ws.child /\ d.out = ws.out
  <2>1. ws \in Stream
    BY StreamFacts
  <2>2. d \in Stream
    BY <1>a, <1>b, <2>1 DEF Stream
  <2> QED
    BY <2>1, <2>2 DEF Stream
<1> HIDE DEF d
<1>2. Types'
  BY <1>a, <1>1, StreamFacts DEF Types
<1>3. Conserved => Conserved'
  BY <1>a, <1>1 DEF Conserved, Sent, Held, Mixed
<1> QED
  BY <1>a, <1>b, <1>1, <1>2, <1>3, StreamFacts DEF StreamInv, Interrupted

(* The goroutine closes the pipe with the verdict on the digest. *)
LEMMA CloseKeeps ==
    ASSUME Sizes, StreamInv, Close
    PROVE  StreamInv'
<1> DEFINE err == IF ws.sum = "good" THEN "none" ELSE "integrity"
           d == [ws EXCEPT !.at = "closed", !.err = err]
<1>a. /\ ws.at = "getting" /\ ws.phase # "off" /\ ws.pos = Spans[ws.key]
      /\ ws' = d /\ UNCHANGED <<remote, causes, packs, keeps>>
  BY DEF Close
<1>b. ws.sum \in {"good", "other"} /\ err \in Errors
  BY StreamFacts DEF Stream, Bytes, Errors
<1>1. /\ d \in Stream /\ d.key = ws.key /\ d.phase = ws.phase /\ d.at = "closed" /\ d.pos = ws.pos
      /\ d.sum = ws.sum /\ d.unit = ws.unit /\ d.err = err /\ d.copier = ws.copier /\ d.held = ws.held
      /\ d.cerr = ws.cerr /\ d.got = ws.got /\ d.seen = ws.seen /\ d.child = ws.child /\ d.out = ws.out
  <2>1. ws \in Stream
    BY StreamFacts
  <2>2. d \in Stream
    BY <1>a, <1>b, <2>1 DEF Stream
  <2> QED
    BY <2>1, <2>2 DEF Stream
<1> HIDE DEF d
<1>2. Types'
  BY <1>a, <1>1, StreamFacts DEF Types
<1>3. Conserved => Conserved'
  BY <1>a, <1>1 DEF Conserved, Sent, Held, Mixed
<1> QED
  BY <1>a, <1>b, <1>1, <1>2, <1>3, StreamFacts DEF StreamInv, Interrupted

(* The copier takes a range or the end of the pipe. *)
LEMMA CopierReadsKeeps ==
    ASSUME Sizes, StreamInv, CopierReads
    PROVE  StreamInv'
<1>a. ws.copier = "reading" /\ UNCHANGED <<remote, causes, packs, keeps>>
  BY DEF CopierReads
<1>1. CASE ws.at = "writing"
  <2> DEFINE d == [ws EXCEPT !.at = "getting", !.pos = ws.pos + 1, !.copier = "writing", !.held = ws.unit]
  <2>a. ws' = d
    BY <1>1 DEF CopierReads
  <2>b. ws.unit \in Bytes /\ ws.pos + 1 \in Nat /\ ws.phase # "off"
    <3>1. ws.unit \in Bytes \cup {"none"} /\ ws.pos + 1 \in Nat
      BY StreamFacts DEF Stream
    <3>2. ws.unit # "none"
      BY <1>a, <1>1 DEF StreamInv, Conserved
    <3>3. ws.phase # "off"
      BY <1>1, StreamFacts, OffFields
    <3> QED
      BY <3>1, <3>2, <3>3
  <2>1. /\ d \in Stream /\ d.key = ws.key /\ d.phase = ws.phase /\ d.at = "getting" /\ d.pos = ws.pos + 1
        /\ d.sum = ws.sum /\ d.unit = ws.unit /\ d.err = ws.err /\ d.copier = "writing" /\ d.held = ws.unit
        /\ d.cerr = ws.cerr /\ d.got = ws.got /\ d.seen = ws.seen /\ d.child = ws.child /\ d.out = ws.out
    <3>1. ws \in Stream
      BY StreamFacts
    <3>2. d \in Stream
      BY <2>b, <3>1 DEF Stream
    <3> QED
      BY <3>1, <3>2 DEF Stream
  <2> HIDE DEF d
  <2>2. Types'
    BY <1>a, <2>a, <2>1, StreamFacts DEF Types
  <2>3. Conserved'
    <3>1. Conserved
      BY <1>a DEF StreamInv
    <3> QED
      BY <3>1, <1>a, <1>1, <2>a, <2>b, <2>1, StreamFacts DEF Conserved, Sent, Held, Mixed
  <2>4. ws.key \in Keys /\ Spans[ws.key] \in Nat /\ ws.pos < Spans[ws.key]
    BY <1>1, <2>b, StreamFacts DEF StreamInv, Sizes
  <2> QED
    BY <1>a, <1>1, <2>a, <2>b, <2>1, <2>2, <2>3, <2>4, StreamFacts DEF StreamInv, Interrupted
<1>2. CASE ws.at = "closed"
  <2> DEFINE e == ws.err
             d == [ws EXCEPT !.copier = "ended", !.cerr = e]
  <2>a. ws' = d
    BY <1>2 DEF CopierReads
  <2>b. ws.phase # "off"
    BY <1>2, StreamFacts, OffFields
  <2>c. e \in Errors /\ ws.err = e
    BY StreamFacts DEF Stream
  <2> HIDE DEF e
  <2>1. /\ d \in Stream /\ d.key = ws.key /\ d.phase = ws.phase /\ d.at = ws.at /\ d.pos = ws.pos
        /\ d.sum = ws.sum /\ d.unit = ws.unit /\ d.err = ws.err /\ d.copier = "ended" /\ d.held = ws.held
        /\ d.cerr = e /\ d.got = ws.got /\ d.seen = ws.seen /\ d.child = ws.child /\ d.out = ws.out
    <3>1. ws \in Stream
      BY StreamFacts
    <3>2. d \in Stream
      BY <2>c, <3>1 DEF Stream
    <3> QED
      BY <3>1, <3>2 DEF Stream
  <2> HIDE DEF d
  <2>2. Types'
    BY <1>a, <2>a, <2>1, StreamFacts DEF Types
  <2>3. Conserved'
    BY <1>a, <1>2, <2>a, <2>1 DEF StreamInv, Conserved, Sent, Held, Mixed
  <2> QED
    BY <1>a, <1>2, <2>a, <2>b, <2>c, <2>1, <2>2, <2>3, StreamFacts DEF StreamInv, Interrupted
<1> QED
  BY <1>1, <1>2 DEF CopierReads

(* The copier gives its range to the child, or finds it gone. *)
LEMMA CopierWritesKeeps ==
    ASSUME Sizes, StreamInv, CopierWrites
    PROVE  StreamInv'
<1>a. ws.copier = "writing" /\ UNCHANGED <<remote, causes, packs, keeps>>
  BY DEF CopierWrites
<1>b. ws.phase # "off" /\ ws.key \in Keys /\ Spans[ws.key] \in Nat
  BY <1>a, StreamFacts, OffFields DEF Sizes
<1>c. Conserved /\ ws.cerr = "none"
  BY <1>a DEF StreamInv
<1>1. CASE ws.child = "running"
  <2> DEFINE s == Mixed(ws.seen, ws.held)
             d == [ws EXCEPT !.copier = "reading", !.got = ws.got + 1, !.seen = s]
  <2>a. ws' = d
    BY <1>1 DEF CopierWrites
  <2>b. s \in Bytes /\ ws.got + 1 \in Nat
    <3>1. ws.held \in Bytes \cup {"none"} /\ ws.seen \in Bytes /\ ws.got + 1 \in Nat
      BY StreamFacts DEF Stream
    <3> QED
      BY <3>1, <1>a, <1>c DEF Mixed, Conserved, Bytes
  <2>c. s = Mixed(ws.seen, ws.held)
    OBVIOUS
  <2> HIDE DEF s
  <2>1. /\ d \in Stream /\ d.key = ws.key /\ d.phase = ws.phase /\ d.at = ws.at /\ d.pos = ws.pos
        /\ d.sum = ws.sum /\ d.unit = ws.unit /\ d.err = ws.err /\ d.copier = "reading" /\ d.held = ws.held
        /\ d.cerr = ws.cerr /\ d.got = ws.got + 1 /\ d.seen = s /\ d.child = ws.child /\ d.out = ws.out
    <3>1. ws \in Stream
      BY StreamFacts
    <3>2. d \in Stream
      BY <2>b, <3>1 DEF Stream
    <3> QED
      BY <3>1, <3>2 DEF Stream
  <2> HIDE DEF d
  <2>2. Types'
    BY <1>a, <2>a, <2>1, StreamFacts DEF Types
  <2>3. Conserved'
    BY <1>a, <1>c, <1>1, <2>a, <2>b, <2>c, <2>1, StreamFacts DEF Conserved, Sent, Held
  <2> QED
    BY <1>a, <1>b, <1>c, <1>1, <2>a, <2>b, <2>c, <2>1, <2>2, <2>3, StreamFacts DEF StreamInv, Interrupted, Mixed
<1>2. CASE ws.child # "running"
  <2> DEFINE d == [ws EXCEPT !.copier = "ended"]
  <2>a. ws' = d
    BY <1>2 DEF CopierWrites
  <2>b. ws.child = "failed"
    <3>1. ws.child \in {"running", "ok", "failed"}
      BY StreamFacts DEF Stream
    <3>2. ws.child = "ok" => ws.got = Spans[ws.key]
      BY DEF StreamInv
    <3>3. ws.pos = ws.got + 1 /\ ws.pos <= Spans[ws.key]
      BY <1>a, <1>b, <1>c DEF StreamInv, Conserved
    <3> QED
      BY <1>2, <1>b, <3>1, <3>2, <3>3, StreamFacts
  <2>1. /\ d \in Stream /\ d.key = ws.key /\ d.phase = ws.phase /\ d.at = ws.at /\ d.pos = ws.pos
        /\ d.sum = ws.sum /\ d.unit = ws.unit /\ d.err = ws.err /\ d.copier = "ended" /\ d.held = ws.held
        /\ d.cerr = ws.cerr /\ d.got = ws.got /\ d.seen = ws.seen /\ d.child = ws.child /\ d.out = ws.out
    <3>1. ws \in Stream
      BY StreamFacts
    <3>2. d \in Stream
      BY <3>1 DEF Stream
    <3> QED
      BY <3>1, <3>2 DEF Stream
  <2> HIDE DEF d
  <2>2. Types'
    BY <1>a, <2>a, <2>1, StreamFacts DEF Types
  <2> QED
    BY <1>a, <1>b, <1>c, <1>2, <2>a, <2>b, <2>1, <2>2, StreamFacts DEF StreamInv, Interrupted
<1> QED
  BY <1>1, <1>2

(* index-pack has the whole pack. *)
LEMMA ChildInstallsKeeps ==
    ASSUME Sizes, StreamInv, ChildInstalls
    PROVE  StreamInv'
<1> DEFINE d == [ws EXCEPT !.child = "ok"]
<1>a. /\ ws.phase = "running" /\ ws.child = "running" /\ ws.got = Spans[ws.key] /\ ws' = d
      /\ packs' = [packs EXCEPT ![ws.key] = ws.seen] /\ keeps' = keeps \cup {ws.key} /\ causes' = causes
  BY DEF ChildInstalls, Running
<1>b. ws.key \in Keys /\ ws.seen \in Bytes
  BY <1>a, StreamFacts DEF Stream
<1>1. /\ d \in Stream /\ d.key = ws.key /\ d.phase = ws.phase /\ d.at = ws.at /\ d.pos = ws.pos
      /\ d.sum = ws.sum /\ d.unit = ws.unit /\ d.err = ws.err /\ d.copier = ws.copier /\ d.held = ws.held
      /\ d.cerr = ws.cerr /\ d.got = ws.got /\ d.seen = ws.seen /\ d.child = "ok" /\ d.out = ws.out
  <2>1. ws \in Stream
    BY StreamFacts
  <2>2. d \in Stream
    BY <2>1 DEF Stream
  <2> QED
    BY <2>1, <2>2 DEF Stream
<1> HIDE DEF d
<1>2. Types'
  BY <1>a, <1>b, <1>1, StreamFacts DEF Types
<1>3. Conserved => Conserved'
  BY <1>a, <1>1 DEF Conserved, Sent, Held, Mixed
<1>4. packs'[ws.key] = ws.seen
  BY <1>a, <1>b, StreamFacts
<1> QED
  BY <1>a, <1>b, <1>1, <1>2, <1>3, <1>4, StreamFacts DEF StreamInv, Interrupted

(* index-pack fails. *)
LEMMA ChildFailsKeeps ==
    ASSUME Sizes, StreamInv, ChildFails
    PROVE  StreamInv'
<1> DEFINE d == [ws EXCEPT !.child = "failed"]
<1>a. /\ ws.phase = "running" /\ ws.child = "running" /\ ws' = d /\ UNCHANGED <<packs, keeps>>
  BY DEF ChildFails, Running
<1>b. causes \subseteq causes'
  BY DEF ChildFails
<1>c. Interrupted \/ causes' \cap {"network", "damage", "local"} # {}
  <2>1. CASE causes' = causes \cup {"local"}
    BY <2>1
  <2>2. CASE ws.seen = "other" /\ causes' = causes
    BY <2>2 DEF StreamInv
  <2>3. CASE ws.copier = "ended" /\ ws.got < Spans[ws.key] /\ causes' = causes
    <3>0. Conserved /\ ws.at = "closed"
      BY <2>3, <1>a DEF StreamInv
    <3>1. ws.pos = ws.got
      BY <2>3, <3>0, StreamFacts DEF Conserved
    <3>2. ws.err # "none"
      BY <2>3, <3>0, <3>1, <1>a, StreamFacts DEF StreamInv, Sizes
    <3> QED
      BY <2>3, <3>2 DEF StreamInv
  <2> QED
    BY <2>1, <2>2, <2>3 DEF ChildFails
<1>1. /\ d \in Stream /\ d.key = ws.key /\ d.phase = ws.phase /\ d.at = ws.at /\ d.pos = ws.pos
      /\ d.sum = ws.sum /\ d.unit = ws.unit /\ d.err = ws.err /\ d.copier = ws.copier /\ d.held = ws.held
      /\ d.cerr = ws.cerr /\ d.got = ws.got /\ d.seen = ws.seen /\ d.child = "failed" /\ d.out = ws.out
  <2>1. ws \in Stream
    BY StreamFacts
  <2>2. d \in Stream
    BY <2>1 DEF Stream
  <2> QED
    BY <2>1, <2>2 DEF Stream
<1> HIDE DEF d
<1>2. Types'
  BY <1>a, <1>1, StreamFacts DEF Types
<1>3. Conserved => Conserved'
  BY <1>a, <1>1 DEF Conserved, Sent, Held, Mixed
<1> QED
  BY <1>a, <1>b, <1>c, <1>1, <1>2, <1>3, StreamFacts DEF StreamInv, Interrupted

(* Run returns. *)
LEMMA WaitKeeps ==
    ASSUME Sizes, StreamInv, Wait
    PROVE  StreamInv'
<1> PICK out \in Outcomes : ws' = [ws EXCEPT !.phase = "returned", !.out = out]
  BY DEF Wait
<1> DEFINE d == [ws EXCEPT !.phase = "returned", !.out = out]
<1>a. /\ ws.phase = "running" /\ ws.child # "running" /\ ws.copier = "ended"
      /\ ws' = d /\ UNCHANGED <<remote, causes, packs, keeps>>
  BY DEF Wait, Running
<1>b. /\ out \in Results /\ out # "none"
      /\ out = "ok" => ws.child # "failed" /\ ws.cerr = "none"
      /\ out = "cancelled" => Interrupted
      /\ out = "git" => ~Interrupted /\ (ws.child = "failed" \/ ws.cerr # "none")
  BY DEF Outcomes, Results
<1>c. ws.child \in {"running", "ok", "failed"}
  BY StreamFacts DEF Stream
<1>d. out = "git" => causes \cap {"network", "damage", "local"} # {}
  BY <1>b DEF StreamInv
<1>1. /\ d \in Stream /\ d.key = ws.key /\ d.phase = "returned" /\ d.at = ws.at /\ d.pos = ws.pos
      /\ d.sum = ws.sum /\ d.unit = ws.unit /\ d.err = ws.err /\ d.copier = ws.copier /\ d.held = ws.held
      /\ d.cerr = ws.cerr /\ d.got = ws.got /\ d.seen = ws.seen /\ d.child = ws.child /\ d.out = out
  <2>1. ws \in Stream
    BY StreamFacts
  <2>2. d \in Stream
    BY <1>b, <2>1 DEF Stream
  <2> QED
    BY <2>1, <2>2 DEF Stream
<1> HIDE DEF d
<1>2. Types'
  BY <1>a, <1>1, StreamFacts DEF Types
<1>3. Conserved => Conserved'
  BY <1>a, <1>1 DEF Conserved, Sent, Held, Mixed
<1> QED
  BY <1>a, <1>b, <1>c, <1>d, <1>1, <1>2, <1>3, StreamFacts DEF StreamInv, Interrupted

(* Every step of the stream. *)
LEMMA StreamProceedKeeps ==
    ASSUME Sizes, StreamInv, Sound, Proceed
    PROVE  StreamInv'
BY GetKeeps, GetFailsKeeps, CloseKeeps, CopierReadsKeeps, CopierWritesKeeps, ChildInstallsKeeps,
   ChildFailsKeeps, WaitKeeps DEF Proceed

(* The next stream begins. *)
LEMMA StartKeeps ==
    ASSUME Sizes, StreamInv, NEW k \in Keys, Start(k)
    PROVE  StreamInv'
<1> DEFINE d == [Off EXCEPT !.key = k, !.phase = "running"]
<1>a. ws' = d /\ UNCHANGED <<remote, causes, packs, keeps>> /\ Spans[k] \in Nat
  BY DEF Start, Sizes
<1>1. /\ d \in Stream /\ d.key = k /\ d.phase = "running" /\ d.at = "getting" /\ d.pos = 0
      /\ d.sum = "good" /\ d.unit = "none" /\ d.err = "none" /\ d.copier = "reading" /\ d.held = "none"
      /\ d.cerr = "none" /\ d.got = 0 /\ d.seen = "good" /\ d.child = "running" /\ d.out = "none"
  BY DEF Off, Stream, Bytes, Errors, Results
<1> HIDE DEF d
<1>2. Types'
  BY <1>a, <1>1, StreamFacts DEF Types
<1>3. Conserved'
  BY <1>a, <1>1 DEF Conserved, Sent, Held
<1> QED
  BY <1>a, <1>1, <1>2, <1>3 DEF StreamInv

(* A stream at rest, before the first. *)
LEMMA OffStream ==
    ASSUME ws = Off, packs \in [Keys -> Bytes \cup {"none"}], keeps \subseteq Keys
    PROVE  StreamInv
<1>1. Types
  BY OffFields DEF Types
<1>2. Conserved
  BY OffFields DEF Conserved, Sent, Held
<1> QED
  BY <1>1, <1>2, OffFields DEF StreamInv

(* What happens around a stream does not disturb it. *)
LEMMA AroundKeeps ==
    ASSUME StreamInv, UNCHANGED <<ws, packs, keeps>>, causes \subseteq causes'
    PROVE  StreamInv'
<1>1. Types' /\ (Conserved' <=> Conserved)
  BY DEF StreamInv, Types, Conserved, Sent, Held
<1>2. Interrupted => Interrupted'
  BY DEF Interrupted
<1> QED
  BY <1>1, <1>2 DEF StreamInv

(* What a step of the stream touches outside it. *)
LEMMA StreamProceedFacts ==
    ASSUME StreamInv, Proceed
    PROVE  /\ remote' = remote /\ ws'.key = ws.key /\ (ws'.phase = "running" => Running)
           /\ causes' \in {causes, causes \cup {"network"}, causes \cup {"local"}}
           /\ keeps' = keeps \/ (Running /\ keeps' = keeps \cup {ws.key})
<1> USE DEF Running
<1>a. ws \in Stream
  BY StreamFacts
<1>1. CASE Get
  BY <1>1, <1>a DEF Get, Stream
<1>2. CASE GetFails
  BY <1>2, <1>a DEF GetFails, Stream
<1>3. CASE Close
  BY <1>3, <1>a DEF Close, Stream
<1>4. CASE CopierReads
  BY <1>4, <1>a DEF CopierReads, Stream
<1>5. CASE CopierWrites
  BY <1>5, <1>a DEF CopierWrites, Stream
<1>6. CASE ChildInstalls
  BY <1>6, <1>a DEF ChildInstalls, Stream
<1>7. CASE ChildFails
  BY <1>7, <1>a DEF ChildFails, Stream
<1>8. CASE Wait
  BY <1>8, <1>a DEF Wait, Stream
<1> QED
  BY <1>1, <1>2, <1>3, <1>4, <1>5, <1>6, <1>7, <1>8 DEF Proceed

=============================================================================
