----------------------- MODULE SessionRecordingProofs -----------------------
(***************************************************************************)
(* Proofs about SessionRecording for any number of events, streams,        *)
(* emitters and attempts.                                                  *)
(***************************************************************************)
EXTENDS SessionRecording, SequenceTheorems, FiniteSetTheorems, WellFoundedInduction, TLAPS

-----------------------------------------------------------------------------
(* The structure of the streams *)

\* A stream that was never asked for.
Fresh(s) == /\ handler[s] = "none" /\ loop[s] = "none" /\ upload[s] = 0
            /\ wire[s] = <<>>

\* A stream that has no loop has nothing to upload and sends no status.
Idle(s) == DOMAIN activeUploads[s] = {} /\ current[s] = NoSlice /\ statusCh[s] = None

\* The writer uses one stream at a time, and resumes with the upload of its last
\* status; an upload exists from when the stream that has its number is opened.
StreamOK(s) ==
    /\ conn[s] = "none" => Fresh(s)
    /\ conn[s] = "up" => s = stream
    /\ handler[s] \in {"none", "opening"} => loop[s] = "none"
    /\ handler[s] \in {"serving", "closing"} => loop[s] # "none"
    /\ loop[s] = "none" => Idle(s)
    /\ loop[s] # "none" => upload[s] # 0
    /\ loop[s] = "ended" => DOMAIN activeUploads[s] = {}
    /\ upload[s] # 0 => uploads[upload[s]] # "none"
    /\ uploads[s] # "none" => handler[s] \notin {"none", "opening"}

WriterOK ==
    /\ conn[stream] # "none"
    /\ pc = "resume" => conn[stream] = "down"
    /\ lastStatus # 0 => upload[stream] = lastStatus
    /\ trimmed # <<>> => lastStatus # 0

StreamsInv == WriterOK /\ \A s \in Streams : StreamOK(s)

\* Slices are uploaded one at a time, and one fails only when its upload is completed.
SlicesOK(s) ==
    /\ \A n, m \in DOMAIN activeUploads[s] :
         activeUploads[s][n].state = "uploading" /\ activeUploads[s][m].state = "uploading" => n = m
    /\ \A n \in DOMAIN activeUploads[s] :
         activeUploads[s][n].state = "failed" => uploads[upload[s]] = "completed"

SlicesInv == \A s \in Streams : SlicesOK(s)

\* A stream that the writer has not sent anything on yet.
ResumedInv ==
    pc \in {"await", "replay"} =>
        /\ statusCh[stream] <= 0
        /\ conn[stream] = "up" =>
             /\ wire[stream] = <<>> /\ current[stream] \in {NoSlice, <<>>}
             /\ \A n \in DOMAIN activeUploads[stream] : activeUploads[stream][n].slice = <<>>

-----------------------------------------------------------------------------
(* What is where *)

\* The events that the upload of the stream in use has, or had until a part was
\* overwritten, and those that were omitted; the upload is not completed.
Safe == Lost \cup (IF upload[stream] = 0 THEN {} ELSE EventsOf(parts[upload[stream]]))
Live == upload[stream] = 0 \/ uploads[upload[stream]] = "active"

\* The events that were taken after a larger one, and those that were not.
OvertakenOf(t) == {t[i] : i \in {k \in 1..Len(t) : \E j \in 1..(k - 1) : t[j] > t[k]}}
OrderOf(t) == Range(t) \ OvertakenOf(t)
InOrder == OrderOf(Taken)

\* The events of the current slice, and of the active uploads in a state.
SliceEvents(slice) == IF slice = NoSlice THEN {} ELSE Range(slice)
EventsIn(active, st) == UNION {Range(active[n].slice) : n \in {m \in DOMAIN active : active[m].state = st}}

\* Between the writer and the storage no event overtakes another: where an event is,
\* those of the writer before it are not further behind.  good are the events that
\* came in order, taken all that the writer took, stored and up those of the active
\* uploads, slice those of the current slice, sent is what is on the way.
Flow(good, safe, taken, stored, up, slice, sent) ==
    /\ stored \subseteq taken /\ up \subseteq taken /\ slice \subseteq taken /\ Range(sent) \subseteq taken
    /\ good \subseteq safe \cup up \cup slice \cup Range(sent)
    /\ \A e \in stored, x \in good : x <= e => x \in safe
    /\ \A e \in up, x \in good : x <= e => x \in safe \cup up
    /\ \A e \in slice, x \in good : x <= e => x \in safe \cup up \cup slice
    /\ \A k \in DOMAIN sent, x \in good : x <= sent[k] => x \in safe \cup up \cup slice \cup {sent[j] : j \in 1..k}

StoredNow == EventsIn(activeUploads[stream], "stored")
UploadingNow == EventsIn(activeUploads[stream], "uploading")
SliceNow == SliceEvents(current[stream])

FlowInv ==
    pc = "select" /\ conn[stream] = "up" /\ Live =>
        Flow(InOrder, Safe, Range(Taken), StoredNow, UploadingNow, SliceNow, wire[stream])

\* A status that the writer is going to read says that an event is stored, with all
\* that came before it.  That of an empty slice is 0, which covers one event at most.
StatusInv ==
    pc = "select" /\ statusCh[stream] > 0 /\ Live =>
        /\ statusCh[stream] \in Range(Taken)
        /\ \A x \in InOrder : x <= statusCh[stream] => x \in Safe

RecordingInv == ResumedInv /\ FlowInv /\ StatusInv /\ ConfirmedStored

\* An event is in the buffer once.
Distinct == \A j, k \in 1..Len(buffer) : buffer[j] = buffer[k] => j = k

-----------------------------------------------------------------------------
(* Numbers and sequences *)

\* A set of naturals that is not empty and has a bound has a greatest element.
LEMMA MaxFact ==
  ASSUME NEW n \in Nat, NEW S \in SUBSET (0..n), S # {}
  PROVE  Max(S) \in S /\ \A j \in S : j <= Max(S)
  <1> DEFINE R == {ss \in Nat \X Nat : ss[1] < ss[2]}
             bounds == {m \in Nat : \A j \in S : j <= m}
  <1>1. IsWellFoundedOn(R, Nat) /\ \A x, y \in Nat : <<y, x>> \in R <=> y < x
    <2>1. OpToRel(<, Nat) = R
      BY Zenon DEF OpToRel
    <2>2. IsWellFoundedOn(R, Nat)
      BY <2>1, NatLessThanWellFounded, Zenon
    <2> QED BY <2>2
  <1>2. bounds \in SUBSET Nat /\ n \in bounds
    OBVIOUS
  <1> HIDE DEF R
  <1>3. PICK m \in bounds : \A b \in bounds : ~(<<b, m>> \in R)
    BY <1>1, <1>2, WFMin
  <1>4. \A b \in bounds : ~(b < m)
    BY <1>1, <1>2, <1>3, Zenon
  <1>5. m \in S
    <2> SUFFICES ASSUME m \notin S PROVE FALSE
      OBVIOUS
    <2>1. PICK j \in S : TRUE
      OBVIOUS
    <2>2. m - 1 \in bounds
      BY <2>1
    <2> QED BY <1>4, <2>2
  <1>6. \E x \in S : \A y \in S : x >= y
    BY <1>5
  <1>7. Max(S) \in S /\ \A y \in S : Max(S) >= y
    BY <1>6, Zenon DEF Max
  <1> QED BY <1>7

LEMMA EventTypes ==
  /\ Events \subseteq Nat /\ 0 \in Events /\ CompleteStream \notin Events /\ None \notin Events
  /\ NoSlice \notin Seq(Events) /\ <<>> \in Seq(Events) /\ NoSlice # <<>>
  /\ Uploads = Streams /\ 0 \notin Streams /\ Streams \subseteq Nat /\ 1 \in Streams
  /\ DOMAIN NoParts = {}
  <1>1. Events \subseteq Nat /\ 0 \in Events /\ CompleteStream \notin Events /\ None \notin Events
    BY RecordingAssumption DEF Events, CompleteStream, None
  <1>2. NoSlice # <<>> /\ NoSlice \notin Seq(Events)
    <2>1. None \notin Events
      BY <1>1
    <2> HIDE DEF Events
    <2> QED BY <2>1 DEF NoSlice
  <1>3. <<>> \in Seq(Events)
    BY EmptySeq
  <1>4. Uploads = Streams /\ 0 \notin Streams /\ Streams \subseteq Nat /\ 1 \in Streams
    BY RecordingAssumption DEF Uploads, Streams
  <1>5. DOMAIN NoParts = {}
    BY DEF NoParts
  <1> QED BY <1>1, <1>2, <1>3, <1>4, <1>5

\* updateStatus takes a leading part of the buffer, and nothing that the status does
\* not cover.
LEMMA CoveredFact ==
  ASSUME buffer \in Seq(Events), NEW index \in Int
  PROVE  /\ Covered(index) \in 0..Len(buffer)
         /\ Covered(index) # 0 => index >= 0 /\ Covered(index) > 1
         /\ \A j \in 1..Covered(index) : buffer[j] <= index
  <1> DEFINE S == {0} \cup {i \in 1..Len(buffer) : \A j \in 1..i : buffer[j] <= index}
  <1>1. Len(buffer) \in Nat
    BY LenProperties
  <1>2. S \in SUBSET (0..Len(buffer)) /\ S # {}
    BY <1>1
  <1>3. Max(S) \in S
    BY <1>1, <1>2, MaxFact
  <1>4. Covered(index) = IF index >= 0 /\ Max(S) > 1 THEN Max(S) ELSE 0
    BY Zenon DEF Covered
  <1>5. Max(S) = 0 \/ (Max(S) \in 1..Len(buffer) /\ \A j \in 1..Max(S) : buffer[j] <= index)
    BY <1>3
  <1> HIDE DEF S
  <1>6. CASE index >= 0 /\ Max(S) > 1
    BY <1>1, <1>4, <1>5, <1>6
  <1>7. CASE ~(index >= 0 /\ Max(S) > 1)
    BY <1>1, <1>4, <1>7
  <1> QED BY <1>6, <1>7

\* A sequence is cut in two.
LEMMA CutFact ==
  ASSUME NEW S, NEW s \in Seq(S), NEW n \in 0..Len(s)
  PROVE  /\ SubSeq(s, 1, n) \in Seq(S) /\ SubSeq(s, n + 1, Len(s)) \in Seq(S)
         /\ SubSeq(s, 1, n) \o SubSeq(s, n + 1, Len(s)) = s
         /\ \A x \in Range(SubSeq(s, 1, n)) : \E j \in 1..n : x = s[j]
  <1>1. Len(s) \in Nat
    BY LenProperties
  <1>2. SubSeq(s, 1, n) \in Seq(S) /\ SubSeq(s, n + 1, Len(s)) \in Seq(S)
    BY <1>1, SubSeqProperties
  <1>3. 1 \in 1..(Len(s) + 1) /\ n \in (1 - 1)..Len(s) /\ Len(s) \in n..Len(s)
    BY <1>1
  <1>4. SubSeq(s, 1, n) \o SubSeq(s, n + 1, Len(s)) = SubSeq(s, 1, Len(s))
    BY <1>3, ConcatAdjacentSubSeq
  <1>5. SubSeq(s, 1, Len(s)) = s
    BY SubSeqFull
  <1>6. \A x \in Range(SubSeq(s, 1, n)) : \E j \in 1..n : x = s[j]
    BY <1>1, <1>2 DEF Range
  <1> QED BY <1>2, <1>4, <1>5, <1>6

\* What the members of a sequence are after the operations that the model uses.
LEMMA RangeAppend ==
  ASSUME NEW S, NEW s \in Seq(S), NEW e \in S
  PROVE  Range(Append(s, e)) = Range(s) \cup {e}
  <1>1. /\ Append(s, e) \in Seq(S) /\ Len(Append(s, e)) = Len(s) + 1 /\ Len(s) \in Nat
        /\ \A i \in 1..Len(s) : Append(s, e)[i] = s[i] /\ Append(s, e)[Len(s) + 1] = e
    BY AppendProperties, LenProperties
  <1>2. DOMAIN Append(s, e) = 1..(Len(s) + 1) /\ DOMAIN s = 1..Len(s)
    BY <1>1
  <1>3. ASSUME NEW x \in Range(Append(s, e)) PROVE x \in Range(s) \cup {e}
    BY <1>1, <1>2 DEF Range
  <1>4. ASSUME NEW x \in Range(s) \cup {e} PROVE x \in Range(Append(s, e))
    BY <1>1, <1>2 DEF Range
  <1> QED BY <1>3, <1>4

LEMMA RangeConcat ==
  ASSUME NEW S, NEW s \in Seq(S), NEW t \in Seq(S)
  PROVE  Range(s \o t) = Range(s) \cup Range(t)
  <1>1. /\ s \o t \in Seq(S) /\ Len(s \o t) = Len(s) + Len(t) /\ Len(s) \in Nat /\ Len(t) \in Nat
        /\ \A i \in 1..Len(s) + Len(t) : (s \o t)[i] = IF i <= Len(s) THEN s[i] ELSE t[i - Len(s)]
    BY ConcatProperties, LenProperties
  <1>2. DOMAIN (s \o t) = 1..(Len(s) + Len(t)) /\ DOMAIN s = 1..Len(s) /\ DOMAIN t = 1..Len(t)
    BY <1>1
  <1>3. ASSUME NEW x \in Range(s \o t) PROVE x \in Range(s) \cup Range(t)
    BY <1>1, <1>2 DEF Range
  <1>4. ASSUME NEW x \in Range(s) PROVE x \in Range(s \o t)
    BY <1>1, <1>2 DEF Range
  <1>5. ASSUME NEW x \in Range(t) PROVE x \in Range(s \o t)
    <2>1. PICK i \in 1..Len(t) : x = t[i]
      BY <1>2 DEF Range
    <2>2. i + Len(s) \in 1..(Len(s) + Len(t)) /\ ~(i + Len(s) <= Len(s)) /\ (i + Len(s)) - Len(s) = i
      BY <1>1
    <2>3. (s \o t)[i + Len(s)] = x
      BY <1>1, <2>1, <2>2
    <2> QED BY <1>2, <2>2, <2>3 DEF Range
  <1> QED BY <1>3, <1>4, <1>5

-----------------------------------------------------------------------------
(* The types *)

Messages == Events \cup {CompleteStream}

WriterTypes ==
    /\ buffer \in Seq(Events) /\ trimmed \in Seq(Events) /\ lastStatus \in Uploads \cup {0}
    /\ stream \in Streams /\ attempt \in 0..FastAttempts
    /\ pc \in {"select", "resume", "await", "replay", "ended"}
    /\ tracker \in BOOLEAN

ClientTypes ==
    /\ conn \in [Streams -> {"none", "up", "down"}]
    /\ wire \in [Streams -> Seq(Messages)]
    /\ statusCh \in [Streams -> Events \cup {-1, None}]

ServerTypes ==
    /\ handler \in [Streams -> {"none", "opening", "serving", "closing", "done"}]
    /\ loop \in [Streams -> {"none", "select", "drain", "ended"}]
    /\ upload \in [Streams -> Uploads \cup {0}]
    /\ completeType \in [Streams -> {"complete", "flush"}]

SliceTypes ==
    /\ current \in [Streams -> Seq(Events) \cup {NoSlice}]
    /\ lastPartNumber \in [Streams -> Nat] /\ flushCh \in [Streams -> BOOLEAN]
    /\ completedParts \in [Streams -> SUBSET PartNumbers]
    /\ DOMAIN activeUploads = Streams

ActiveTypes ==
    \A s \in Streams : /\ DOMAIN activeUploads[s] \subseteq PartNumbers
                       /\ \A n \in DOMAIN activeUploads[s] : activeUploads[s][n] \in Slices
                       /\ loop[s] \in {"select", "drain"} => lastPartNumber[s] > 0

StorageTypes ==
    /\ DOMAIN parts = Uploads
    /\ \A u \in Uploads : IsParts(parts[u])
    /\ uploads \in [Uploads -> {"none", "active", "completed"}]
    /\ IsParts(recording)
    /\ source \in [by : {"stream", "completer", Nobody}, upload : Uploads \cup {0}]
    /\ erased \subseteq Events /\ omitted \subseteq Events

\* The numbers of the parts have a bound, so that there is a greatest one.
PartsBounded == \A u \in Uploads : \E m \in Nat : \A n \in DOMAIN parts[u] : n <= m

\* TypeOK by what the actions change together.
LEMMA TypeParts ==
  TypeOK <=> WriterTypes /\ ClientTypes /\ ServerTypes /\ SliceTypes /\ ActiveTypes /\ StorageTypes
  BY Zenon DEF TypeOK, WriterTypes, ClientTypes, ServerTypes, SliceTypes, ActiveTypes, StorageTypes, Messages

\* The same for the state after a step.
LEMMA TypePartsNext ==
  TypeOK' <=> WriterTypes' /\ ClientTypes' /\ ServerTypes' /\ SliceTypes' /\ ActiveTypes' /\ StorageTypes'
  BY TypeParts, PTL

Types == TypeOK /\ PartsBounded

\* The parts that a stream is going to complete its upload with are there.
Stored(s) == {n \in DOMAIN activeUploads[s] : activeUploads[s][n].state = "stored"}
PartsOK(s) == loop[s] # "none" /\ uploads[upload[s]] = "active" =>
                  completedParts[s] \cup Stored(s) \subseteq DOMAIN parts[upload[s]]
PartsThere == \A s \in Streams : PartsOK(s)

\* What a step leaves alone keeps its type.
LEMMA WriterKept ==
  ASSUME WriterTypes, UNCHANGED <<writerVars, tracker>>
  PROVE  WriterTypes'
  BY Zenon DEF WriterTypes, writerVars, Uploads, Streams, Events

LEMMA ClientKept ==
  ASSUME ClientTypes, UNCHANGED clientVars
  PROVE  ClientTypes'
  BY Zenon DEF ClientTypes, clientVars, Streams, Messages, Events, CompleteStream, None

LEMMA ServerKept ==
  ASSUME ServerTypes, UNCHANGED serverVars
  PROVE  ServerTypes'
  BY Zenon DEF ServerTypes, serverVars, Uploads, Streams

LEMMA SliceKept ==
  ASSUME SliceTypes, ActiveTypes, UNCHANGED sliceVars,
         \A s \in Streams : loop'[s] \in {"select", "drain"} => loop[s] \in {"select", "drain"}
  PROVE  SliceTypes' /\ ActiveTypes'
  <1>1. SliceTypes'
    BY Zenon DEF SliceTypes, sliceVars, Streams, PartNumbers, NoSlice, None, Events
  <1>2. ActiveTypes'
    BY Zenon DEF ActiveTypes, sliceVars, Streams, PartNumbers, Slices, Events
  <1> QED BY <1>1, <1>2

LEMMA StorageKept ==
  ASSUME StorageTypes, PartsBounded, UNCHANGED storageVars
  PROVE  StorageTypes' /\ PartsBounded'
  BY Zenon DEF StorageTypes, PartsBounded, storageVars, Uploads, Streams, IsParts, PartNumbers, Events

\* An event may be omitted.
LEMMA OmitTypes ==
  ASSUME StorageTypes, PartsBounded, UNCHANGED <<parts, uploads, recording, source, erased>>,
         omitted' = omitted \/ \E i \in Events : omitted' = omitted \cup {i}
  PROVE  StorageTypes' /\ PartsBounded'
  <1>1. omitted' \subseteq Events
    BY Zenon DEF StorageTypes
  <1> QED BY <1>1, Zenon DEF StorageTypes, PartsBounded, Uploads, Streams, IsParts, PartNumbers, Events

\* Messages that are sent, and a connection that is closed.
LEMMA SendTypes ==
  ASSUME ClientTypes, NEW s \in Streams, NEW ms \in Seq(Messages), Send(s, ms)
  PROVE  wire' \in [Streams -> Seq(Messages)]
  <1>1. wire[s] \o ms \in Seq(Messages) /\ wire[s] \in Seq(Messages)
    BY ConcatProperties DEF ClientTypes
  <1>2. wire' = [wire EXCEPT ![s] = IF conn[s] = "up" THEN wire[s] \o ms ELSE wire[s]]
    BY Zenon DEF Send, ClientTypes
  <1> HIDE DEF Messages
  <1>3. wire \in [Streams -> Seq(Messages)]
    BY DEF ClientTypes
  <1>4. PICK w \in Seq(Messages) : wire' = [wire EXCEPT ![s] = w]
    BY <1>1, <1>2
  <1> QED BY <1>3, <1>4, Zenon

LEMMA CloseTypes ==
  ASSUME ClientTypes, NEW s \in Streams, CloseStream(s)
  PROVE  conn' \in [Streams -> {"none", "up", "down"}]
  BY DEF ClientTypes, CloseStream

\* What there is to show for the parts that a step changes.
LEMMA WriterNext ==
  ASSUME buffer' \in Seq(Events), trimmed' \in Seq(Events), lastStatus' \in Streams \cup {0},
         stream' \in Streams, attempt' \in 0..FastAttempts, tracker' \in BOOLEAN,
         pc' \in {"select", "resume", "await", "replay", "ended"}
  PROVE  WriterTypes'
  BY Zenon DEF WriterTypes, Uploads, Streams, Events

LEMMA ClientNext ==
  ASSUME conn' \in [Streams -> {"none", "up", "down"}], wire' \in [Streams -> Seq(Messages)],
         statusCh' \in [Streams -> Events \cup {-1, None}]
  PROVE  ClientTypes'
  BY Zenon DEF ClientTypes, Streams, Messages, Events, CompleteStream, None

LEMMA ServerNext ==
  ASSUME handler' \in [Streams -> {"none", "opening", "serving", "closing", "done"}],
         loop' \in [Streams -> {"none", "select", "drain", "ended"}],
         upload' \in [Streams -> Streams \cup {0}], completeType' \in [Streams -> {"complete", "flush"}]
  PROVE  ServerTypes'
  BY Zenon DEF ServerTypes, Uploads, Streams

LEMMA SliceNext ==
  ASSUME current' \in [Streams -> Seq(Events) \cup {NoSlice}], lastPartNumber' \in [Streams -> Nat],
         flushCh' \in [Streams -> BOOLEAN], completedParts' \in [Streams -> SUBSET PartNumbers], DOMAIN activeUploads' = Streams,
         \A s \in Streams : /\ DOMAIN activeUploads'[s] \subseteq PartNumbers
                            /\ \A n \in DOMAIN activeUploads'[s] : activeUploads'[s][n] \in Slices
                            /\ loop'[s] \in {"select", "drain"} => lastPartNumber'[s] > 0
  PROVE  SliceTypes' /\ ActiveTypes'
  BY Zenon DEF SliceTypes, ActiveTypes, Streams, PartNumbers, Slices, NoSlice, None, Events

LEMMA StorageNext ==
  ASSUME DOMAIN parts' = Streams,
         \A u \in Streams : IsParts(parts'[u]) /\ \E m \in Nat : \A n \in DOMAIN parts'[u] : n <= m,
         uploads' \in [Streams -> {"none", "active", "completed"}], IsParts(recording'),
         source' \in [by : {"stream", "completer", Nobody}, upload : Streams \cup {0}],
         erased' \subseteq Events, omitted' \subseteq Events
  PROVE  StorageTypes' /\ PartsBounded'
  BY Zenon DEF StorageTypes, PartsBounded, Uploads, Streams, IsParts, PartNumbers, Events

\* The types of the single variables, with uploads numbered as streams.
LEMMA TypeFacts ==
  ASSUME Types
  PROVE  /\ WriterTypes /\ ClientTypes /\ ServerTypes /\ SliceTypes /\ ActiveTypes /\ StorageTypes
         /\ lastStatus \in Streams \cup {0} /\ upload \in [Streams -> Streams \cup {0}]
         /\ uploads \in [Streams -> {"none", "active", "completed"}]
         /\ DOMAIN parts = Streams
         /\ \A u \in Streams : IsParts(parts[u]) /\ \E m \in Nat : \A n \in DOMAIN parts[u] : n <= m
  <1>1. WriterTypes /\ ClientTypes /\ ServerTypes /\ SliceTypes /\ ActiveTypes /\ StorageTypes
    BY TypeParts DEF Types
  <1> QED BY <1>1, EventTypes, Zenon DEF Types, WriterTypes, ServerTypes, StorageTypes, PartsBounded

\* A status is an index, -1 or None.
LEMMA StatusType ==
  ASSUME ClientTypes, NEW s \in Streams
  PROVE  statusCh[s] \in Int /\ (statusCh[s] >= 0 => statusCh[s] \in Events) /\ None < 0
  <1>1. statusCh[s] \in Events \cup {-1, None}
    BY DEF ClientTypes
  <1>2. None \in Int /\ None < 0
    BY DEF None
  <1>3. \A e \in Events : e \in Int /\ e >= 0
    BY RecordingAssumption DEF Events
  <1>4. CASE statusCh[s] \in Events
    BY <1>2, <1>3, <1>4
  <1>5. CASE statusCh[s] = -1
    BY <1>2, <1>5
  <1>6. CASE statusCh[s] = None
    BY <1>2, <1>6
  <1> QED BY <1>1, <1>4, <1>5, <1>6

\* The steps of the writer that change nothing but its own state and its connection.
LEMMA ConnTypes ==
  ASSUME Types, NEW s \in Streams,
         Break(s) \/ StreamDone \/ EndStream \/ ResumeFails \/ GiveUp \/ Resumed \/ ResumeTimeout \/ Replay
  PROVE  Types'
  <1>0. WriterTypes /\ ClientTypes /\ ServerTypes /\ SliceTypes /\ ActiveTypes /\ StorageTypes /\ PartsBounded
    BY TypeFacts DEF Types
  <1>1. /\ UNCHANGED <<buffer, trimmed, lastStatus, stream, tracker>> /\ UNCHANGED <<serverVars, sliceVars, storageVars>>
    BY Zenon DEF Break, StreamDone, EndStream, ResumeFails, GiveUp, Resumed, ResumeTimeout, Replay, writerVars
  <1>2. ServerTypes' /\ SliceTypes' /\ ActiveTypes' /\ StorageTypes' /\ PartsBounded'
    <2>1. loop' = loop
      BY <1>1 DEF serverVars
    <2> QED BY <1>0, <1>1, <2>1, ServerKept, SliceKept, StorageKept
  <1>3. pc' \in {"select", "resume", "await", "replay", "ended"}
    BY <1>0, Zenon DEF Break, StreamDone, EndStream, ResumeFails, GiveUp, Resumed, ResumeTimeout, Replay, writerVars,
           RecoverStream, WriterTypes
  <1>4. attempt' \in 0..FastAttempts
    <2>1. attempt' = attempt \/ attempt' = 0 \/ (AttemptsLeft /\ attempt' = attempt + 1)
      BY Zenon DEF Break, StreamDone, EndStream, ResumeFails, GiveUp, Resumed, ResumeTimeout, Replay, writerVars,
             RecoverStream
    <2> QED BY <1>0, <2>1, RecordingAssumption DEF WriterTypes, AttemptsLeft
  <1>5. WriterTypes'
    BY <1>0, <1>1, <1>3, <1>4, EventTypes, WriterNext, Zenon DEF WriterTypes
  <1>6. conn' \in [Streams -> {"none", "up", "down"}]
    <2>1. conn' = conn \/ CloseStream(s) \/ CloseStream(stream)
      BY Zenon DEF Break, StreamDone, EndStream, ResumeFails, GiveUp, Resumed, ResumeTimeout, Replay, clientVars,
             RecoverStream
    <2> QED BY <1>0, <2>1, CloseTypes DEF ClientTypes, WriterTypes
  <1>7. statusCh' \in [Streams -> Events \cup {-1, None}]
    <2>1. statusCh' = statusCh \/ \E r \in Streams : statusCh' = [statusCh EXCEPT ![r] = None]
      BY <1>0, Zenon DEF Break, StreamDone, EndStream, ResumeFails, GiveUp, Resumed, ResumeTimeout, Replay, clientVars,
             RecoverStream, WriterTypes
    <2> QED BY <1>0, <2>1 DEF ClientTypes
  <1>8. wire' \in [Streams -> Seq(Messages)]
    <2>1. CASE Replay
      <3>1. buffer \in Seq(Messages) /\ Send(stream, buffer) /\ stream \in Streams
        BY <1>0, <2>1 DEF Replay, WriterTypes, Messages
      <3> QED BY <1>0, <3>1, SendTypes
    <2>2. CASE EndStream
      <3>1. <<CompleteStream>> \in Seq(Messages) /\ Send(stream, <<CompleteStream>>) /\ stream \in Streams
        BY <1>0, <2>2 DEF EndStream, WriterTypes, Messages
      <3> QED BY <1>0, <3>1, SendTypes
    <2>3. CASE ~(Replay \/ EndStream)
      <3>1. wire' = wire
        BY <2>3, Zenon DEF Break, StreamDone, ResumeFails, GiveUp, Resumed, ResumeTimeout, clientVars
      <3> QED BY <1>0, <3>1 DEF ClientTypes
    <2> QED BY <2>1, <2>2, <2>3
  <1>9. ClientTypes'
    BY <1>6, <1>7, <1>8, ClientNext
  <1> QED BY <1>2, <1>5, <1>9, TypePartsNext DEF Types

\* updateStatus and an event of the session.
LEMMA WriterStepTypes ==
  ASSUME Types, UpdateStatus \/ \E i \in Events : TakeEvent(i)
  PROVE  Types'
  <1>0. WriterTypes /\ ClientTypes /\ ServerTypes /\ SliceTypes /\ ActiveTypes /\ StorageTypes /\ PartsBounded
    BY TypeFacts DEF Types
  <1>1. UNCHANGED <<stream, tracker>> /\ UNCHANGED <<serverVars, sliceVars>> /\ UNCHANGED <<parts, uploads, recording, source, erased>>
        /\ (omitted' = omitted \/ \E i \in Events : omitted' = omitted \cup {i})
    BY Zenon DEF UpdateStatus, TakeEvent, Omit, storageVars
  <1>2. ServerTypes' /\ SliceTypes' /\ ActiveTypes' /\ StorageTypes' /\ PartsBounded'
    <2>1. loop' = loop
      BY <1>1 DEF serverVars
    <2> QED BY <1>0, <1>1, <2>1, ServerKept, SliceKept, OmitTypes
  <1>3. CASE UpdateStatus
    <2> DEFINE n == Covered(statusCh[stream])
    <2>1. /\ trimmed' = trimmed \o SubSeq(buffer, 1, n) /\ buffer' = SubSeq(buffer, n + 1, Len(buffer))
          /\ lastStatus' = upload[stream] /\ statusCh' = [statusCh EXCEPT ![stream] = None]
          /\ UNCHANGED <<pc, attempt, conn, wire>>
      BY <1>3, Zenon DEF UpdateStatus
    <2>2. statusCh[stream] \in Int /\ buffer \in Seq(Events) /\ trimmed \in Seq(Events) /\ stream \in Streams
      BY <1>0, StatusType DEF WriterTypes
    <2>3. n \in 0..Len(buffer)
      BY <2>2, CoveredFact
    <2> HIDE DEF n
    <2>4. SubSeq(buffer, 1, n) \in Seq(Events) /\ SubSeq(buffer, n + 1, Len(buffer)) \in Seq(Events)
      BY <2>2, <2>3, CutFact
    <2>5. trimmed' \in Seq(Events)
      BY <2>1, <2>2, <2>4, ConcatProperties
    <2>6. lastStatus' \in Streams \cup {0}
      BY <2>1, <2>2, TypeFacts
    <2>7. WriterTypes'
      BY <1>0, <1>1, <2>1, <2>4, <2>5, <2>6, WriterNext DEF WriterTypes
    <2>8. ClientTypes'
      <3>1. statusCh' \in [Streams -> Events \cup {-1, None}]
        BY <1>0, <2>1 DEF ClientTypes
      <3> QED BY <1>0, <2>1, <3>1, ClientNext DEF ClientTypes
    <2> QED BY <1>2, <2>7, <2>8, TypePartsNext DEF Types
  <1>4. ASSUME NEW i \in Events, TakeEvent(i) PROVE Types'
    <2>1. buffer' = Append(buffer, i) /\ UNCHANGED <<trimmed, lastStatus, stream>> /\ buffer \in Seq(Events) /\ stream \in Streams
      BY <1>0, <1>4 DEF TakeEvent, WriterTypes
    <2>2. buffer' \in Seq(Events)
      BY <2>1, AppendProperties
    <2>3. /\ pc' \in {"select", "resume", "await", "replay", "ended"} /\ (attempt' = attempt \/ attempt' = 0)
          /\ (conn' = conn \/ CloseStream(stream))
          /\ (statusCh' = statusCh \/ statusCh' = [statusCh EXCEPT ![stream] = None])
          /\ (wire' = wire \/ Send(stream, <<i>>))
      BY <1>0, <1>4, Zenon DEF TakeEvent, RecoverStream, WriterTypes, clientVars
    <2>4. attempt' \in 0..FastAttempts
      BY <1>0, <2>3, RecordingAssumption DEF WriterTypes
    <2>5. WriterTypes'
      BY <1>0, <1>1, <2>1, <2>2, <2>3, <2>4, EventTypes, WriterNext, Zenon DEF WriterTypes
    <2>6. <<i>> \in Seq(Messages)
      BY DEF Messages
    <2>7. ClientTypes'
      <3>1. wire' \in [Streams -> Seq(Messages)]
        BY <1>0, <2>1, <2>3, <2>6, SendTypes, Zenon DEF ClientTypes
      <3>2. conn' \in [Streams -> {"none", "up", "down"}]
        BY <1>0, <2>1, <2>3, CloseTypes, Zenon DEF ClientTypes
      <3>3. statusCh' \in [Streams -> Events \cup {-1, None}]
        BY <1>0, <2>3 DEF ClientTypes
      <3> QED BY <3>1, <3>2, <3>3, ClientNext
    <2> QED BY <1>2, <2>5, <2>7, TypePartsNext DEF Types
  <1> QED BY <1>3, <1>4

\* A connection is made.
LEMMA ResumeTypes ==
  ASSUME Types, NEW s \in Streams, Resume(s)
  PROVE  Types'
  <1>0. WriterTypes /\ ClientTypes /\ ServerTypes /\ SliceTypes /\ ActiveTypes /\ StorageTypes /\ PartsBounded
    BY TypeFacts DEF Types
  <1>1. /\ UNCHANGED <<buffer, trimmed, lastStatus, wire, statusCh, loop, completeType, sliceVars, storageVars, tracker>>
        /\ stream' = s /\ pc' = "await" /\ AttemptsLeft /\ attempt' = attempt + 1
        /\ upload' = [upload EXCEPT ![s] = lastStatus] /\ conn' = [conn EXCEPT ![s] = "up"]
        /\ handler' = [handler EXCEPT ![s] = "opening"]
    BY Zenon DEF Resume
  <1>2. SliceTypes' /\ ActiveTypes' /\ StorageTypes' /\ PartsBounded'
    BY <1>0, <1>1, SliceKept, StorageKept
  <1>3. WriterTypes'
    <2>1. attempt' \in 0..FastAttempts
      BY <1>0, <1>1, RecordingAssumption DEF WriterTypes, AttemptsLeft
    <2>2. lastStatus \in Streams \cup {0}
      BY TypeFacts
    <2> QED BY <1>0, <1>1, <2>1, <2>2, WriterNext DEF WriterTypes
  <1>4. ClientTypes'
    <2>1. conn' \in [Streams -> {"none", "up", "down"}]
      BY <1>0, <1>1 DEF ClientTypes
    <2> QED BY <1>0, <1>1, <2>1, ClientNext DEF ClientTypes
  <1>5. ServerTypes'
    <2>1. upload' \in [Streams -> Streams \cup {0}]
      BY <1>1, TypeFacts
    <2>2. handler' \in [Streams -> {"none", "opening", "serving", "closing", "done"}]
      BY <1>0, <1>1 DEF ServerTypes
    <2> QED BY <1>0, <1>1, <2>1, <2>2, ServerNext DEF ServerTypes
  <1> QED BY <1>2, <1>3, <1>4, <1>5, TypePartsNext DEF Types

\* A replay that fails has sent a leading part of the buffer.
LEMMA ReplayFailsPart ==
  ASSUME ReplayFails, buffer \in Seq(Events)
  PROVE  \E n \in 0..Len(buffer) : /\ n = 0 \/ handler[stream] # "done"
                                  /\ wire' = [wire EXCEPT ![stream] = @ \o SubSeq(buffer, 1, n)]
  <1>1. PICK n \in 0..(Len(buffer) - 1) : /\ n = 0 \/ handler[stream] # "done"
                                          /\ wire' = [wire EXCEPT ![stream] = @ \o SubSeq(buffer, 1, n)]
    BY Zenon DEF ReplayFails
  <1>2. n \in 0..Len(buffer)
    BY LenProperties
  <1> QED BY <1>1, <1>2, Zenon

LEMMA ReplayFailsTypes ==
  ASSUME Types, ReplayFails
  PROVE  Types'
  <1>0. WriterTypes /\ ClientTypes /\ ServerTypes /\ SliceTypes /\ ActiveTypes /\ StorageTypes /\ PartsBounded
    BY TypeFacts DEF Types
  <1>1. /\ UNCHANGED <<buffer, trimmed, lastStatus, stream, attempt, statusCh, serverVars, sliceVars, storageVars, tracker>>
        /\ pc' = "ended" /\ CloseStream(stream)
    BY Zenon DEF ReplayFails
  <1>2. PICK n \in 0..Len(buffer) : wire' = [wire EXCEPT ![stream] = @ \o SubSeq(buffer, 1, n)]
    BY <1>0, ReplayFailsPart, Zenon DEF WriterTypes
  <1>3. ServerTypes' /\ SliceTypes' /\ ActiveTypes' /\ StorageTypes' /\ PartsBounded'
    <2>1. loop' = loop
      BY <1>1 DEF serverVars
    <2> QED BY <1>0, <1>1, <2>1, ServerKept, SliceKept, StorageKept
  <1>4. WriterTypes'
    <2>1. lastStatus \in Streams \cup {0}
      BY TypeFacts
    <2> QED BY <1>0, <1>1, <2>1, WriterNext DEF WriterTypes
  <1>5. wire' \in [Streams -> Seq(Messages)]
    <2>1. buffer \in Seq(Events) /\ stream \in Streams
      BY <1>0 DEF WriterTypes
    <2>2. SubSeq(buffer, 1, n) \in Seq(Events)
      BY <1>2, <2>1, CutFact
    <2>3. SubSeq(buffer, 1, n) \in Seq(Messages)
      BY <2>2 DEF Messages
    <2>4. wire[stream] \o SubSeq(buffer, 1, n) \in Seq(Messages)
      BY <1>0, <2>1, <2>3, ConcatProperties DEF ClientTypes
    <2> QED BY <1>0, <1>2, <2>1, <2>4, Zenon DEF ClientTypes
  <1>6. ClientTypes'
    <2>1. conn' \in [Streams -> {"none", "up", "down"}]
      BY <1>0, <1>1, CloseTypes DEF WriterTypes
    <2> QED BY <1>0, <1>1, <1>5, <2>1, ClientNext DEF ClientTypes
  <1> QED BY <1>3, <1>4, <1>6, TypePartsNext DEF Types

\* NewProtoStream: the first number is beyond those of the parts that are there.
LEMMA OpenTypes ==
  ASSUME Types, NEW s \in Streams, Open(s)
  PROVE  Types'
  <1>0. WriterTypes /\ ClientTypes /\ ServerTypes /\ SliceTypes /\ ActiveTypes /\ StorageTypes /\ PartsBounded
    BY TypeFacts DEF Types
  <1> DEFINE u == IF upload[s] = 0 THEN s ELSE upload[s]
             ps == DOMAIN parts[u]
             first == FirstPartNumber(ps)
             status == IF conn[s] = "up" THEN -1 ELSE None
  <1>1. /\ UNCHANGED <<writerVars, conn, wire, completeType, flushCh, activeUploads, parts, recording, source, erased, omitted, tracker>>
        /\ handler' = [handler EXCEPT ![s] = "serving"] /\ loop' = [loop EXCEPT ![s] = "select"]
        /\ upload' = [upload EXCEPT ![s] = u] /\ uploads' = [uploads EXCEPT ![u] = "active"]
        /\ statusCh' = [statusCh EXCEPT ![s] = status] /\ current' = [current EXCEPT ![s] = <<>>]
        /\ lastPartNumber' = [lastPartNumber EXCEPT ![s] = first] /\ completedParts' = [completedParts EXCEPT ![s] = ps]
    BY Zenon DEF Open
  <1>2. u \in Streams
    <2>1. upload[s] \in Streams \cup {0}
      BY TypeFacts
    <2> QED BY <2>1
  <1>3. ps \in SUBSET PartNumbers /\ \E m \in Nat : \A n \in ps : n <= m
    BY <1>2, TypeFacts DEF IsParts
  <1>4. status \in {-1, None}
    OBVIOUS
  <1> HIDE DEF u, ps, status
  <1>5. first \in Nat /\ first > 0
    <2>1. CASE ps = {}
      BY <2>1 DEF FirstPartNumber
    <2>2. CASE ps # {}
      <3>1. PICK m \in Nat : \A n \in ps : n <= m
        BY <1>3
      <3>2. ps \in SUBSET (0..m)
        BY <1>3, <3>1 DEF PartNumbers
      <3>3. Max(ps) \in ps
        BY <2>2, <3>2, MaxFact
      <3>4. Max(ps) \in Nat
        BY <1>3, <3>3 DEF PartNumbers
      <3> QED BY <2>2, <3>4 DEF FirstPartNumber
    <2> QED BY <2>1, <2>2
  <1> HIDE DEF first
  <1>6. WriterTypes'
    BY <1>0, <1>1, WriterKept
  <1>7. ClientTypes'
    <2>1. statusCh' \in [Streams -> Events \cup {-1, None}]
      BY <1>0, <1>1, <1>4 DEF ClientTypes
    <2> QED BY <1>0, <1>1, <2>1, ClientNext DEF ClientTypes
  <1>8. ServerTypes'
    <2>1. upload' \in [Streams -> Streams \cup {0}]
      BY <1>1, <1>2, TypeFacts
    <2>2. handler' \in [Streams -> {"none", "opening", "serving", "closing", "done"}]
      BY <1>0, <1>1 DEF ServerTypes
    <2>3. loop' \in [Streams -> {"none", "select", "drain", "ended"}]
      BY <1>0, <1>1 DEF ServerTypes
    <2> QED BY <1>0, <1>1, <2>1, <2>2, <2>3, ServerNext DEF ServerTypes
  <1>9. SliceTypes' /\ ActiveTypes'
    <2>1. current' \in [Streams -> Seq(Events) \cup {NoSlice}]
      BY <1>0, <1>1, EventTypes, Zenon DEF SliceTypes
    <2>2. lastPartNumber' \in [Streams -> Nat] /\ completedParts' \in [Streams -> SUBSET PartNumbers]
      BY <1>0, <1>1, <1>3, <1>5, Zenon DEF SliceTypes
    <2>5. flushCh' \in [Streams -> BOOLEAN]
      BY <1>0, <1>1, Zenon DEF SliceTypes
    <2>3. ASSUME NEW r \in Streams
          PROVE  /\ DOMAIN activeUploads'[r] \subseteq PartNumbers
                 /\ \A n \in DOMAIN activeUploads'[r] : activeUploads'[r][n] \in Slices
                 /\ loop'[r] \in {"select", "drain"} => lastPartNumber'[r] > 0
      <3>1. CASE r = s
        BY <1>0, <1>1, <1>5, <3>1, Zenon DEF SliceTypes, ActiveTypes
      <3>2. CASE r # s
        <4>1. lastPartNumber'[r] = lastPartNumber[r] /\ loop'[r] = loop[r]
          BY <1>0, <1>1, <3>2, Zenon DEF SliceTypes, ServerTypes
        <4> QED BY <1>0, <1>1, <4>1, Zenon DEF ActiveTypes
      <3> QED BY <3>1, <3>2
    <2>4. DOMAIN activeUploads' = Streams
      BY <1>0, <1>1 DEF SliceTypes
    <2> QED BY <2>1, <2>2, <2>3, <2>4, <2>5, SliceNext
  <1>10. StorageTypes' /\ PartsBounded'
    <2>1. uploads' \in [Streams -> {"none", "active", "completed"}]
      BY <1>1, <1>2, TypeFacts
    <2>2. source' \in [by : {"stream", "completer", Nobody}, upload : Streams \cup {0}]
      BY <1>0, <1>1, EventTypes, Zenon DEF StorageTypes
    <2>3. IsParts(recording') /\ erased' \subseteq Events /\ omitted' \subseteq Events
      BY <1>0, <1>1 DEF StorageTypes
    <2>4. DOMAIN parts' = Streams /\ \A v \in Streams : IsParts(parts'[v]) /\ \E m \in Nat : \A n \in DOMAIN parts'[v] : n <= m
      BY <1>1, TypeFacts
    <2> QED BY <2>1, <2>2, <2>3, <2>4, StorageNext
  <1> QED BY <1>6, <1>7, <1>8, <1>9, <1>10, TypePartsNext DEF Types

\* The handler returns, the loop ends.
LEMMA ReturnTypes ==
  ASSUME ClientTypes, ServerTypes, NEW s \in Streams, Return(s)
  PROVE  /\ handler' \in [Streams -> {"none", "opening", "serving", "closing", "done"}]
         /\ conn' \in [Streams -> {"none", "up", "down"}] /\ wire' \in [Streams -> Seq(Messages)]
  <1>1. handler' \in [Streams -> {"none", "opening", "serving", "closing", "done"}]
    BY DEF Return, ServerTypes
  <1>2. conn' \in [Streams -> {"none", "up", "down"}]
    BY CloseTypes DEF Return
  <1>3. wire' \in [Streams -> Seq(Messages)]
    <2>1. <<>> \in Seq(Messages)
      BY EmptySeq
    <2> QED BY <2>1, Zenon DEF Return, ClientTypes
  <1> QED BY <1>1, <1>2, <1>3

LEMMA EndLoopTypes ==
  ASSUME SliceTypes, ActiveTypes, ServerTypes, NEW s \in Streams, EndLoop(s)
  PROVE  SliceTypes' /\ ActiveTypes' /\ loop' \in [Streams -> {"none", "select", "drain", "ended"}]
  <1>1. loop' \in [Streams -> {"none", "select", "drain", "ended"}] /\ loop' = [loop EXCEPT ![s] = "ended"]
    BY DEF EndLoop, ServerTypes
  <1>2. current' \in [Streams -> Seq(Events) \cup {NoSlice}] /\ lastPartNumber' \in [Streams -> Nat]
        /\ completedParts' \in [Streams -> SUBSET PartNumbers] /\ flushCh' \in [Streams -> BOOLEAN]
    <2>1. 0 \in Nat /\ {} \in SUBSET PartNumbers
      OBVIOUS
    <2> QED BY <2>1, Zenon DEF EndLoop, SliceTypes
  <1>3. DOMAIN activeUploads' = Streams
    BY DEF EndLoop, SliceTypes
  <1>4. ASSUME NEW r \in Streams
        PROVE  /\ DOMAIN activeUploads'[r] \subseteq PartNumbers
               /\ \A n \in DOMAIN activeUploads'[r] : activeUploads'[r][n] \in Slices
               /\ loop'[r] \in {"select", "drain"} => lastPartNumber'[r] > 0
    <2>1. CASE r = s
      <3>1. loop'[r] = "ended" /\ activeUploads'[r] = NoParts
        BY <2>1 DEF EndLoop, SliceTypes, ServerTypes
      <3> QED BY <3>1, EventTypes
    <2>2. CASE r # s
      <3>1. loop'[r] = loop[r] /\ activeUploads'[r] = activeUploads[r] /\ lastPartNumber'[r] = lastPartNumber[r]
        BY <2>2, Zenon DEF EndLoop, SliceTypes, ServerTypes
      <3> QED BY <3>1, Zenon DEF ActiveTypes
    <2> QED BY <2>1, <2>2
  <1> QED BY <1>1, <1>2, <1>3, <1>4, SliceNext

\* The steps of the handler.
LEMMA HandlerTypes ==
  ASSUME Types, NEW s \in Streams, OpenFails(s) \/ ReceiveComplete(s) \/ Abandon(s)
  PROVE  Types'
  <1>0. WriterTypes /\ ClientTypes /\ ServerTypes /\ SliceTypes /\ ActiveTypes /\ StorageTypes /\ PartsBounded
    BY TypeFacts DEF Types
  <1>1. UNCHANGED <<writerVars, statusCh, loop, upload, sliceVars, storageVars, tracker>>
    BY Zenon DEF OpenFails, ReceiveComplete, Abandon, CompleteProtoStream
  <1>2. WriterTypes' /\ SliceTypes' /\ ActiveTypes' /\ StorageTypes' /\ PartsBounded'
    BY <1>0, <1>1, WriterKept, SliceKept, StorageKept
  <1>3. PICK ms \in Seq(Messages) :
          Return(s) \/ (handler' = [handler EXCEPT ![s] = "closing"] /\ wire' = [wire EXCEPT ![s] = ms] /\ conn' = conn)
    <2>1. wire[s] \in Seq(Messages) /\ <<>> \in Seq(Messages)
      BY <1>0, EmptySeq DEF ClientTypes
    <2>2. CASE ReceiveComplete(s)
      <3>1. Tail(wire[s]) \in Seq(Messages)
        BY <2>1, <2>2, HeadTailProperties DEF ReceiveComplete
      <3> QED BY <2>2, <3>1, Zenon DEF ReceiveComplete, CompleteProtoStream
    <2>3. CASE Abandon(s) \/ OpenFails(s)
      BY <2>1, <2>3, Zenon DEF Abandon, OpenFails, CompleteProtoStream
    <2> QED BY <2>2, <2>3
  <1>4. completeType' \in [Streams -> {"complete", "flush"}]
    <2>1. completeType' = completeType \/ completeType' = [completeType EXCEPT ![s] = "complete"]
          \/ completeType' = [completeType EXCEPT ![s] = "flush"]
      BY Zenon DEF OpenFails, ReceiveComplete, Abandon, CompleteProtoStream, CloseType
    <2> QED BY <1>0, <2>1 DEF ServerTypes
  <1>5. /\ handler' \in [Streams -> {"none", "opening", "serving", "closing", "done"}]
        /\ conn' \in [Streams -> {"none", "up", "down"}] /\ wire' \in [Streams -> Seq(Messages)]
    <2>1. CASE Return(s)
      BY <1>0, <2>1, ReturnTypes
    <2>2. CASE handler' = [handler EXCEPT ![s] = "closing"] /\ wire' = [wire EXCEPT ![s] = ms] /\ conn' = conn
      <3>1. wire' \in [Streams -> Seq(Messages)]
        BY <1>0, <2>2, Zenon DEF ClientTypes
      <3>2. handler' \in [Streams -> {"none", "opening", "serving", "closing", "done"}]
        BY <1>0, <2>2 DEF ServerTypes
      <3> QED BY <1>0, <2>2, <3>1, <3>2 DEF ClientTypes
    <2> QED BY <1>3, <2>1, <2>2
  <1>6. ClientTypes'
    BY <1>0, <1>1, <1>5, ClientNext, Zenon DEF ClientTypes
  <1>7. ServerTypes'
    <2>1. upload \in [Streams -> Streams \cup {0}]
      BY TypeFacts
    <2> QED BY <1>0, <1>1, <1>4, <1>5, <2>1, ServerNext, Zenon DEF ServerTypes
  <1> QED BY <1>2, <1>6, <1>7, TypePartsNext DEF Types

\* An event is put into the slice or omitted, or the loop has ended.
LEMMA ReceiveEventTypes ==
  ASSUME Types, NEW s \in Streams, ReceiveEvent(s)
  PROVE  Types'
  <1>0. WriterTypes /\ ClientTypes /\ ServerTypes /\ SliceTypes /\ ActiveTypes /\ StorageTypes /\ PartsBounded
    BY TypeFacts DEF Types
  <1>1. UNCHANGED <<writerVars, statusCh, loop, upload, completeType, activeUploads, completedParts, parts, uploads, recording, source,
                    erased, tracker>>
    BY Zenon DEF ReceiveEvent
  <1>3. wire[s] \in Seq(Messages) /\ wire[s] # <<>>
    BY <1>0 DEF ClientTypes, ReceiveEvent
  <1>4. Tail(wire[s]) \in Seq(Messages) /\ Head(wire[s]) \in Messages
    BY <1>3, HeadTailProperties
  <1>5. Head(wire[s]) \in Events
    BY <1>4 DEF ReceiveEvent, Messages
  <1>6. /\ handler' \in [Streams -> {"none", "opening", "serving", "closing", "done"}]
        /\ conn' \in [Streams -> {"none", "up", "down"}] /\ wire' \in [Streams -> Seq(Messages)]
    <2>1. CASE wire' = [wire EXCEPT ![s] = Tail(@)] /\ UNCHANGED <<handler, conn>>
      <3>1. wire' = [wire EXCEPT ![s] = Tail(wire[s])] /\ handler' = handler /\ conn' = conn
        BY <1>0, <2>1, Zenon DEF ClientTypes
      <3> QED BY <1>0, <1>4, <3>1, Zenon DEF ClientTypes, ServerTypes
    <2>2. CASE Return(s)
      BY <1>0, <2>2, ReturnTypes
    <2> QED BY <2>1, <2>2, Zenon DEF ReceiveEvent
  <1>7. ClientTypes'
    BY <1>0, <1>1, <1>6, ClientNext, Zenon DEF ClientTypes
  <1>8. ServerTypes'
    <2>1. upload \in [Streams -> Streams \cup {0}]
      BY TypeFacts
    <2> QED BY <1>0, <1>1, <1>6, <2>1, ServerNext, Zenon DEF ServerTypes
  <1>2. WriterTypes' /\ StorageTypes' /\ PartsBounded'
    <2>1. omitted' = omitted \/ omitted' = omitted \cup {Head(wire[s])}
      BY Zenon DEF ReceiveEvent, SubmitEvent, Omit
    <2> QED BY <1>0, <1>1, <1>5, <2>1, WriterKept, OmitTypes, Zenon
  <1>9. PICK c \in Seq(Events) : current' = current \/ current' = [current EXCEPT ![s] = c]
    <2> DEFINE slice == IF current[s] = NoSlice THEN <<>> ELSE current[s]
    <2>1. slice \in Seq(Events)
      BY <1>0, EmptySeq DEF SliceTypes
    <2>2. Append(slice, Head(wire[s])) \in Seq(Events)
      BY <1>5, <2>1, AppendProperties
    <2>3. current' = current \/ current' = [current EXCEPT ![s] = slice] \/ current' = [current EXCEPT ![s] = Append(slice, Head(wire[s]))]
      BY Zenon DEF ReceiveEvent, SubmitEvent
    <2> QED BY <2>1, <2>2, <2>3, Zenon
  <1>10. current' \in [Streams -> Seq(Events) \cup {NoSlice}]
    BY <1>0, <1>9, Zenon DEF SliceTypes
  <1>11. lastPartNumber' \in [Streams -> Nat] /\ \A r \in Streams : lastPartNumber'[r] >= lastPartNumber[r]
    <2>1. lastPartNumber' = lastPartNumber \/ lastPartNumber' = [lastPartNumber EXCEPT ![s] = IF current[s] = NoSlice THEN @ + 1 ELSE @]
      BY Zenon DEF ReceiveEvent, SubmitEvent
    <2>2. lastPartNumber \in [Streams -> Nat]
      BY <1>0 DEF SliceTypes
    <2> QED BY <2>1, <2>2
  <1>13. flushCh' \in [Streams -> BOOLEAN]
    BY <1>0, Zenon DEF ReceiveEvent, SubmitEvent, SliceTypes
  <1>12. SliceTypes' /\ ActiveTypes'
    <2>1. completedParts' \in [Streams -> SUBSET PartNumbers] /\ DOMAIN activeUploads' = Streams
      BY <1>0, <1>1 DEF SliceTypes
    <2>2. ASSUME NEW r \in Streams
          PROVE  /\ DOMAIN activeUploads'[r] \subseteq PartNumbers
                 /\ \A n \in DOMAIN activeUploads'[r] : activeUploads'[r][n] \in Slices
                 /\ loop'[r] \in {"select", "drain"} => lastPartNumber'[r] > 0
      <3>1. lastPartNumber[r] \in Nat /\ lastPartNumber'[r] \in Nat /\ lastPartNumber'[r] >= lastPartNumber[r]
        BY <1>0, <1>11 DEF SliceTypes
      <3>2. lastPartNumber[r] > 0 => lastPartNumber'[r] > 0
        BY <3>1
      <3> QED BY <1>0, <1>1, <3>2, Zenon DEF ActiveTypes
    <2> QED BY <1>10, <1>11, <1>13, <2>1, <2>2, SliceNext
  <1> QED BY <1>2, <1>7, <1>8, <1>12, TypePartsNext DEF Types

\* startUploadCurrentSlice gives the slice its number.
LEMMA StartUploadTypes ==
  ASSUME SliceTypes, ActiveTypes, ServerTypes, NEW s \in Streams, StartUploadCurrentSlice(s),
         loop[s] = "select", current[s] # NoSlice, UNCHANGED completedParts,
         loop' = loop \/ loop' = [loop EXCEPT ![s] = "drain"]
  PROVE  SliceTypes' /\ ActiveTypes'
  <1>1. current[s] \in Seq(Events) /\ lastPartNumber[s] \in Nat /\ lastPartNumber[s] > 0
    BY DEF SliceTypes, ActiveTypes
  <1> DEFINE n0 == lastPartNumber[s]
             new == [slice |-> current[s], state |-> "uploading"]
             active == [n \in DOMAIN activeUploads[s] \cup {n0} |-> IF n = n0 THEN new ELSE activeUploads[s][n]]
  <1>2. activeUploads' = [activeUploads EXCEPT ![s] = active] /\ lastPartNumber' = [lastPartNumber EXCEPT ![s] = n0 + 1]
        /\ current' = [current EXCEPT ![s] = NoSlice]
    BY Zenon DEF StartUploadCurrentSlice, SliceTypes
  <1>3. new \in Slices
    BY <1>1 DEF Slices
  <1>4. n0 \in PartNumbers /\ n0 + 1 \in Nat /\ n0 + 1 > 0
    BY <1>1 DEF PartNumbers
  <1>5. DOMAIN active \subseteq PartNumbers /\ \A n \in DOMAIN active : active[n] \in Slices
    BY <1>3, <1>4, Zenon DEF ActiveTypes
  <1> HIDE DEF active, n0
  <1>6. current' \in [Streams -> Seq(Events) \cup {NoSlice}] /\ lastPartNumber' \in [Streams -> Nat]
        /\ completedParts' \in [Streams -> SUBSET PartNumbers] /\ flushCh' \in [Streams -> BOOLEAN]
    BY <1>2, <1>4, Zenon DEF SliceTypes, StartUploadCurrentSlice
  <1>7. DOMAIN activeUploads' = Streams
    BY <1>2 DEF SliceTypes
  <1>8. ASSUME NEW r \in Streams
        PROVE  /\ DOMAIN activeUploads'[r] \subseteq PartNumbers
               /\ \A n \in DOMAIN activeUploads'[r] : activeUploads'[r][n] \in Slices
               /\ loop'[r] \in {"select", "drain"} => lastPartNumber'[r] > 0
    <2>1. CASE r = s
      <3>1. activeUploads'[r] = active /\ lastPartNumber'[r] = n0 + 1
        BY <1>2, <2>1, Zenon DEF SliceTypes
      <3> QED BY <1>4, <1>5, <3>1, Zenon
    <2>2. CASE r # s
      <3>1. activeUploads'[r] = activeUploads[r] /\ lastPartNumber'[r] = lastPartNumber[r] /\ loop'[r] = loop[r]
        BY <1>2, <2>2, Zenon DEF SliceTypes, ServerTypes
      <3> QED BY <3>1, Zenon DEF ActiveTypes
    <2> QED BY <2>1, <2>2
  <1> QED BY <1>6, <1>7, <1>8, SliceNext

LEMMA FlushSliceTypes ==
  ASSUME Types, NEW s \in Streams, FlushSlice(s)
  PROVE  Types'
  <1>0. WriterTypes /\ ClientTypes /\ ServerTypes /\ SliceTypes /\ ActiveTypes /\ StorageTypes /\ PartsBounded
    BY TypeFacts DEF Types
  <1>1. /\ UNCHANGED <<writerVars, clientVars, serverVars, completedParts, storageVars, tracker>>
        /\ StartUploadCurrentSlice(s) /\ loop[s] = "select" /\ current[s] # NoSlice
    BY DEF FlushSlice
  <1>2. loop' = loop
    BY <1>1 DEF serverVars
  <1>3. SliceTypes' /\ ActiveTypes'
    BY <1>0, <1>1, <1>2, StartUploadTypes
  <1> QED BY <1>0, <1>1, <1>3, WriterKept, ClientKept, ServerKept, StorageKept, TypePartsNext DEF Types

LEMMA UploadLastSliceTypes ==
  ASSUME Types, NEW s \in Streams, UploadLastSlice(s)
  PROVE  Types'
  <1>0. WriterTypes /\ ClientTypes /\ ServerTypes /\ SliceTypes /\ ActiveTypes /\ StorageTypes /\ PartsBounded
    BY TypeFacts DEF Types
  <1>1. /\ UNCHANGED <<writerVars, clientVars, handler, upload, completeType, completedParts, storageVars, tracker>>
        /\ loop[s] = "select" /\ loop' = [loop EXCEPT ![s] = "drain"]
    BY DEF UploadLastSlice
  <1>2. SliceTypes' /\ ActiveTypes'
    <2>1. CASE current[s] = NoSlice
      <3>1. UNCHANGED sliceVars
        BY <1>1, <2>1 DEF UploadLastSlice, sliceVars
      <3>2. \A r \in Streams : loop'[r] \in {"select", "drain"} => loop[r] \in {"select", "drain"}
        BY <1>0, <1>1 DEF ServerTypes
      <3> QED BY <1>0, <3>1, <3>2, SliceKept
    <2>2. CASE current[s] # NoSlice
      <3>1. StartUploadCurrentSlice(s)
        BY <2>2 DEF UploadLastSlice
      <3> QED BY <1>0, <1>1, <2>2, <3>1, StartUploadTypes
    <2> QED BY <2>1, <2>2
  <1>3. ServerTypes'
    <2>1. upload \in [Streams -> Streams \cup {0}]
      BY TypeFacts
    <2>2. loop' \in [Streams -> {"none", "select", "drain", "ended"}]
      BY <1>0, <1>1 DEF ServerTypes
    <2> QED BY <1>0, <1>1, <2>1, <2>2, ServerNext, Zenon DEF ServerTypes
  <1> QED BY <1>0, <1>1, <1>2, <1>3, WriterKept, ClientKept, StorageKept, TypePartsNext DEF Types

\* What an upload that ends makes of the active uploads.
LEMMA SliceUploaded ==
  ASSUME SliceTypes, ActiveTypes, NEW s \in Streams, NEW n \in DOMAIN activeUploads[s], NEW st \in {"stored", "failed"},
         activeUploads' = [activeUploads EXCEPT ![s][n].state = st]
  PROVE  /\ DOMAIN activeUploads' = Streams
         /\ \A r \in Streams : r # s => activeUploads'[r] = activeUploads[r]
         /\ DOMAIN activeUploads'[s] = DOMAIN activeUploads[s]
         /\ \A m \in DOMAIN activeUploads[s] : m # n => activeUploads'[s][m] = activeUploads[s][m]
         /\ activeUploads'[s][n] \in Slices
         /\ activeUploads'[s][n].state = st /\ activeUploads'[s][n].slice = activeUploads[s][n].slice
  <1> DEFINE item == [activeUploads[s][n] EXCEPT !.state = st]
  <1>1. activeUploads' = [activeUploads EXCEPT ![s] = [activeUploads[s] EXCEPT ![n] = item]]
    BY Zenon DEF SliceTypes
  <1>2. activeUploads[s][n] \in Slices
    BY DEF ActiveTypes
  <1>3. item \in Slices /\ item.state = st /\ item.slice = activeUploads[s][n].slice
    BY <1>2 DEF Slices
  <1> HIDE DEF item
  <1>4. DOMAIN activeUploads = Streams
    BY DEF SliceTypes
  <1>5. /\ DOMAIN activeUploads' = Streams /\ activeUploads'[s] = [activeUploads[s] EXCEPT ![n] = item]
        /\ \A r \in Streams : r # s => activeUploads'[r] = activeUploads[r]
    BY <1>1, <1>4, Zenon
  <1>6. activeUploads'[s][n] = item /\ DOMAIN activeUploads'[s] = DOMAIN activeUploads[s]
        /\ \A m \in DOMAIN activeUploads[s] : m # n => activeUploads'[s][m] = activeUploads[s][m]
    BY <1>5, Zenon
  <1> QED BY <1>3, <1>5, <1>6, Zenon

\* UploadPart adds a part, in place of one that has the number.
LEMMA UploadPartFacts ==
  ASSUME Types, NEW u \in Streams, NEW n \in PartNumbers, NEW slice \in Seq(Events), UploadPart(u, n, slice)
  PROVE  /\ DOMAIN parts' = Streams /\ \A v \in Streams : v # u => parts'[v] = parts[v]
         /\ DOMAIN parts'[u] = DOMAIN parts[u] \cup {n} /\ parts'[u][n] = slice
         /\ \A m \in DOMAIN parts[u] : m # n => parts'[u][m] = parts[u][m]
         /\ erased' = erased \cup (IF n \in DOMAIN parts[u] THEN Range(parts[u][n]) \ Range(slice) ELSE {})
         /\ erased' \subseteq erased \cup EventsOf(parts[u]) /\ EventsOf(parts[u]) \subseteq erased' \cup EventsOf(parts'[u])
  <1> DEFINE ps == [m \in DOMAIN parts[u] \cup {n} |-> IF m = n THEN slice ELSE parts[u][m]]
  <1>1. DOMAIN parts = Streams
    BY TypeFacts
  <1>2. parts' = [parts EXCEPT ![u] = ps]
    BY <1>1, Zenon DEF UploadPart
  <1>3. DOMAIN ps = DOMAIN parts[u] \cup {n} /\ ps[n] = slice /\ \A m \in DOMAIN parts[u] : m # n => ps[m] = parts[u][m]
    BY Zenon
  <1> HIDE DEF ps
  <1>4. DOMAIN parts' = Streams /\ parts'[u] = ps /\ \A v \in Streams : v # u => parts'[v] = parts[v]
    BY <1>1, <1>2, Zenon
  <1>5. erased' = erased \cup (IF n \in DOMAIN parts[u] THEN Range(parts[u][n]) \ Range(slice) ELSE {})
    BY Zenon DEF UploadPart
  <1>6. erased' \subseteq erased \cup EventsOf(parts[u])
    BY <1>5 DEF EventsOf
  <1>7. ASSUME NEW x \in EventsOf(parts[u]) PROVE x \in erased' \cup EventsOf(parts'[u])
    <2>1. PICK m \in DOMAIN parts[u] : x \in Range(parts[u][m])
      BY DEF EventsOf
    <2>2. CASE m = n
      BY <1>3, <1>4, <1>5, <2>1, <2>2 DEF EventsOf
    <2>3. CASE m # n
      <3>1. m \in DOMAIN parts'[u] /\ x \in Range(parts'[u][m])
        BY <1>3, <1>4, <2>1, <2>3
      <3> QED BY <3>1 DEF EventsOf
    <2> QED BY <2>2, <2>3
  <1> QED BY <1>3, <1>4, <1>5, <1>6, <1>7, Zenon

LEMMA EventsOfType ==
  ASSUME NEW ps, IsParts(ps)
  PROVE  EventsOf(ps) \subseteq Events
  <1>1. \A n \in DOMAIN ps : Range(ps[n]) \subseteq Events
    BY DEF IsParts, Range
  <1> QED BY <1>1, Zenon DEF EventsOf

LEMMA UploadSliceTypes ==
  ASSUME Types, NEW s \in Streams, NEW n \in DOMAIN activeUploads[s], UploadSlice(s, n), upload[s] # 0
  PROVE  Types'
  <1>0. WriterTypes /\ ClientTypes /\ ServerTypes /\ SliceTypes /\ ActiveTypes /\ StorageTypes /\ PartsBounded
    BY TypeFacts DEF Types
  <1>1. /\ UNCHANGED <<writerVars, clientVars, serverVars, current, lastPartNumber, flushCh, completedParts, uploads,
                       recording, source, omitted, tracker>>
    BY Zenon DEF UploadSlice
  <1>2. activeUploads[s][n] \in Slices /\ n \in PartNumbers
    BY <1>0, Zenon DEF ActiveTypes
  <1>3. activeUploads[s][n].slice \in Seq(Events)
    BY <1>2 DEF Slices
  <1>4. loop' = loop
    BY <1>1 DEF serverVars
  <1>5. SliceTypes' /\ ActiveTypes'
    <2>1. PICK st \in {"stored", "failed"} : activeUploads' = [activeUploads EXCEPT ![s][n].state = st]
      BY Zenon DEF UploadSlice
    <2>2. /\ DOMAIN activeUploads' = Streams
          /\ \A r \in Streams : r # s => activeUploads'[r] = activeUploads[r]
          /\ DOMAIN activeUploads'[s] = DOMAIN activeUploads[s]
          /\ \A m \in DOMAIN activeUploads[s] : m # n => activeUploads'[s][m] = activeUploads[s][m]
          /\ activeUploads'[s][n] \in Slices
      BY <1>0, <2>1, SliceUploaded
    <2>3. ASSUME NEW r \in Streams
          PROVE  /\ DOMAIN activeUploads'[r] \subseteq PartNumbers
                 /\ \A m \in DOMAIN activeUploads'[r] : activeUploads'[r][m] \in Slices
                 /\ loop'[r] \in {"select", "drain"} => lastPartNumber'[r] > 0
      BY <1>0, <1>1, <1>4, <2>2, Zenon DEF ActiveTypes
    <2> QED BY <1>0, <1>1, <2>2, <2>3, SliceNext DEF SliceTypes
  <1>6. upload[s] \in Streams
    <2>1. upload[s] \in Streams \cup {0}
      BY TypeFacts
    <2> QED BY <2>1
  <1>7. StorageTypes' /\ PartsBounded'
    <2>1. CASE UNCHANGED <<parts, erased>>
      <3>1. UNCHANGED storageVars
        BY <1>1, <2>1 DEF storageVars
      <3> QED BY <1>0, <3>1, StorageKept
    <2>2. CASE UploadPart(upload[s], n, activeUploads[s][n].slice)
      <3>1. PICK u \in Streams : u = upload[s]
        BY <1>6
      <3>2. PICK slice \in Seq(Events) : slice = activeUploads[s][n].slice
        BY <1>3
      <3>3. /\ DOMAIN parts' = Streams /\ \A v \in Streams : v # u => parts'[v] = parts[v]
            /\ DOMAIN parts'[u] = DOMAIN parts[u] \cup {n} /\ parts'[u][n] = slice
            /\ \A m \in DOMAIN parts[u] : m # n => parts'[u][m] = parts[u][m]
            /\ erased' \subseteq erased \cup EventsOf(parts[u])
        BY <1>2, <2>2, <3>1, <3>2, UploadPartFacts
      <3>4. IsParts(parts[u]) /\ \E m \in Nat : \A k \in DOMAIN parts[u] : k <= m
        BY TypeFacts
      <3>5. IsParts(parts'[u])
        BY <1>2, <3>3, <3>4, Zenon DEF IsParts
      <3>6. \E m \in Nat : \A k \in DOMAIN parts'[u] : k <= m
        <4>1. PICK m \in Nat : \A k \in DOMAIN parts[u] : k <= m
          BY <3>4
        <4>2. n \in Nat /\ \A k \in DOMAIN parts[u] : k \in Nat
          BY <1>2, <3>4 DEF IsParts, PartNumbers
        <4>3. \A k \in DOMAIN parts'[u] : k <= m + n
          BY <3>3, <4>1, <4>2
        <4> QED BY <4>2, <4>3
      <3>7. \A v \in Streams : IsParts(parts'[v]) /\ \E m \in Nat : \A k \in DOMAIN parts'[v] : k <= m
        <4>1. \A v \in Streams : IsParts(parts[v]) /\ \E m \in Nat : \A k \in DOMAIN parts[v] : k <= m
          BY TypeFacts
        <4> QED BY <3>3, <3>5, <3>6, <4>1, Zenon
      <3>8. erased' \subseteq Events /\ omitted' \subseteq Events
        BY <1>1, <1>0, <3>3, <3>4, EventsOfType, Zenon DEF StorageTypes
      <3>9. uploads' \in [Streams -> {"none", "active", "completed"}]
        BY <1>1, TypeFacts
      <3>10. source' \in [by : {"stream", "completer", Nobody}, upload : Streams \cup {0}] /\ IsParts(recording')
        BY <1>0, <1>1, EventTypes, Zenon DEF StorageTypes
      <3> QED BY <3>3, <3>7, <3>8, <3>9, <3>10, StorageNext
    <2> QED BY <2>1, <2>2, Zenon DEF UploadSlice
  <1> QED BY <1>0, <1>1, <1>5, <1>7, WriterKept, ClientKept, ServerKept, TypePartsNext DEF Types

\* The status of a slice is the index of one of its events, or 0.
LEMMA LastEventIndexFact ==
  ASSUME NEW slice \in Seq(Events)
  PROVE  /\ LastEventIndex(slice) \in Nat
         /\ LastEventIndex(slice) \in Range(slice) \cup {0}
         /\ \A e \in Range(slice) : e <= LastEventIndex(slice)
  <1> DEFINE S == {0} \cup Range(slice)
  <1>1. Range(slice) \subseteq Events
    BY DEF Range
  <1>2. Events = 0..(MaxEvents - 1) /\ MaxEvents \in Nat
    BY RecordingAssumption DEF Events
  <1>3. S \in SUBSET (0..MaxEvents)
    BY <1>1, <1>2
  <1>4. Max(S) \in S /\ \A j \in S : j <= Max(S)
    BY <1>2, <1>3, MaxFact
  <1>5. LastEventIndex(slice) = Max(S)
    BY Zenon DEF LastEventIndex
  <1> HIDE DEF S
  <1>6. Max(S) \in Nat
    <2>1. \A x \in 0..MaxEvents : x \in Nat
      BY <1>2
    <2>2. Max(S) \in 0..MaxEvents
      BY <1>3, <1>4, Zenon
    <2> QED BY <2>1, <2>2, Zenon
  <1> QED BY <1>4, <1>5, <1>6 DEF S

\* A slice that is stored leaves the active uploads.
LEMMA RestrictFacts ==
  ASSUME NEW active, NEW n
  PROVE  /\ DOMAIN Restrict(active, DOMAIN active \ {n}) = DOMAIN active \ {n}
         /\ \A m \in DOMAIN active \ {n} : Restrict(active, DOMAIN active \ {n})[m] = active[m]
  BY Zenon DEF Restrict

LEMMA CompletedUploadTypes ==
  ASSUME Types, NEW s \in Streams, NEW n \in DOMAIN activeUploads[s], CompletedUpload(s, n)
  PROVE  Types'
  <1>0. WriterTypes /\ ClientTypes /\ ServerTypes /\ SliceTypes /\ ActiveTypes /\ StorageTypes /\ PartsBounded
    BY TypeFacts DEF Types
  <1>1. UNCHANGED <<writerVars, conn, wire, serverVars, current, lastPartNumber, flushCh, storageVars, tracker>>
    BY Zenon DEF CompletedUpload
  <1>2. n \in PartNumbers /\ activeUploads[s][n] \in Slices
    BY <1>0, Zenon DEF ActiveTypes
  <1>3. LastEventIndex(activeUploads[s][n].slice) \in Events
    <2>1. activeUploads[s][n].slice \in Seq(Events)
      BY <1>2 DEF Slices
    <2>2. Range(activeUploads[s][n].slice) \subseteq Events
      BY <2>1 DEF Range
    <2> QED BY <2>1, <2>2, LastEventIndexFact, EventTypes
  <1>4. ClientTypes'
    <2>1. statusCh' = statusCh \/ statusCh' = [statusCh EXCEPT ![s] = LastEventIndex(activeUploads[s][n].slice)]
      <3>1. statusCh' = [statusCh EXCEPT ![s] = IF statusCh[s] = None /\ conn[s] = "up" /\ pc # "ended"
                                                THEN LastEventIndex(activeUploads[s][n].slice) ELSE statusCh[s]]
        BY <1>0, Zenon DEF CompletedUpload, ClientTypes
      <3>2. [statusCh EXCEPT ![s] = statusCh[s]] = statusCh
        BY <1>0, Zenon DEF ClientTypes
      <3> QED BY <3>1, <3>2, Zenon
    <2>2. statusCh' \in [Streams -> Events \cup {-1, None}]
      BY <1>0, <1>3, <2>1, Zenon DEF ClientTypes
    <2> QED BY <1>0, <1>1, <2>2, ClientNext DEF ClientTypes
  <1>5. SliceTypes' /\ ActiveTypes'
    <2> DEFINE active == Restrict(activeUploads[s], DOMAIN activeUploads[s] \ {n})
    <2>1. activeUploads' = [activeUploads EXCEPT ![s] = active] /\ completedParts' = [completedParts EXCEPT ![s] = completedParts[s] \cup {n}]
      BY <1>0, Zenon DEF CompletedUpload, SliceTypes
    <2>2. DOMAIN active = DOMAIN activeUploads[s] \ {n} /\ \A m \in DOMAIN activeUploads[s] \ {n} : active[m] = activeUploads[s][m]
      BY RestrictFacts, Zenon
    <2> HIDE DEF active
    <2>3. completedParts' \in [Streams -> SUBSET PartNumbers]
      BY <1>0, <1>2, <2>1 DEF SliceTypes
    <2>4. DOMAIN activeUploads' = Streams /\ activeUploads'[s] = active /\ \A r \in Streams : r # s => activeUploads'[r] = activeUploads[r]
      BY <1>0, <2>1, Zenon DEF SliceTypes
    <2>5. loop' = loop
      BY <1>1 DEF serverVars
    <2>6. ASSUME NEW r \in Streams
          PROVE  /\ DOMAIN activeUploads'[r] \subseteq PartNumbers
                 /\ \A m \in DOMAIN activeUploads'[r] : activeUploads'[r][m] \in Slices
                 /\ loop'[r] \in {"select", "drain"} => lastPartNumber'[r] > 0
      BY <1>0, <1>1, <2>2, <2>4, <2>5, Zenon DEF ActiveTypes
    <2> QED BY <1>0, <1>1, <2>3, <2>4, <2>6, SliceNext DEF SliceTypes
  <1> QED BY <1>0, <1>1, <1>4, <1>5, WriterKept, ServerKept, StorageKept, TypePartsNext DEF Types

\* The loop ends without completing the upload.
LEMMA LoopEndsTypes ==
  ASSUME Types, NEW s \in Streams, Crash(s) \/ \E n \in DOMAIN activeUploads[s] : FailedUpload(s, n)
  PROVE  Types'
  <1>0. WriterTypes /\ ClientTypes /\ ServerTypes /\ SliceTypes /\ ActiveTypes /\ StorageTypes /\ PartsBounded
    BY TypeFacts DEF Types
  <1>1. EndLoop(s) /\ UNCHANGED <<writerVars, upload, completeType, storageVars, tracker>>
    BY Zenon DEF Crash, FailedUpload
  <1>2. /\ handler' \in [Streams -> {"none", "opening", "serving", "closing", "done"}]
        /\ conn' \in [Streams -> {"none", "up", "down"}] /\ wire' \in [Streams -> Seq(Messages)]
    <2>1. Return(s) \/ UNCHANGED <<handler, conn, wire>>
      BY Zenon DEF Crash, FailedUpload
    <2> QED BY <1>0, <2>1, ReturnTypes DEF ClientTypes, ServerTypes
  <1>3. statusCh' \in [Streams -> Events \cup {-1, None}]
    <2>1. statusCh' = statusCh \/ statusCh' = [statusCh EXCEPT ![s] = None]
      BY Zenon DEF Crash, FailedUpload
    <2> QED BY <1>0, <2>1 DEF ClientTypes
  <1>4. SliceTypes' /\ ActiveTypes' /\ loop' \in [Streams -> {"none", "select", "drain", "ended"}]
    BY <1>0, <1>1, EndLoopTypes
  <1>5. ServerTypes'
    <2>1. upload \in [Streams -> Streams \cup {0}]
      BY TypeFacts
    <2> QED BY <1>0, <1>1, <1>2, <1>4, <2>1, ServerNext, Zenon DEF ServerTypes
  <1> QED BY <1>0, <1>1, <1>2, <1>3, <1>4, <1>5, WriterKept, ClientNext, StorageKept, TypePartsNext DEF Types

\* CompleteUpload makes the recording of parts that are there.
LEMMA CompleteUploadTypes ==
  ASSUME Types, NEW u \in Streams, NEW by \in {"stream", "completer"}, NEW ps \in SUBSET PartNumbers,
         uploads[u] = "active" => ps \subseteq DOMAIN parts[u],
         CompleteUpload(by, u, ps), UNCHANGED <<erased, omitted>>
  PROVE  StorageTypes' /\ PartsBounded'
  <1>0. /\ StorageTypes /\ uploads \in [Streams -> {"none", "active", "completed"}] /\ DOMAIN parts = Streams
        /\ \A v \in Streams : IsParts(parts[v]) /\ \E m \in Nat : \A n \in DOMAIN parts[v] : n <= m
    BY TypeFacts
  <1>1. IsParts(NoParts) /\ \E m \in Nat : \A n \in DOMAIN NoParts : n <= m
    BY EventTypes DEF IsParts
  <1>2. erased' \subseteq Events /\ omitted' \subseteq Events
    BY <1>0 DEF StorageTypes
  <1>3. CASE uploads[u] = "active"
    <2>1. /\ recording' = Restrict(parts[u], ps) /\ source' = [by |-> by, upload |-> u]
          /\ uploads' = [uploads EXCEPT ![u] = "completed"] /\ parts' = [parts EXCEPT ![u] = NoParts]
      BY <1>3, Zenon DEF CompleteUpload
    <2>2. IsParts(recording')
      BY <1>0, <1>3, <2>1, Zenon DEF IsParts, Restrict
    <2>3. uploads' \in [Streams -> {"none", "active", "completed"}]
      BY <1>0, <2>1
    <2>4. source' \in [by : {"stream", "completer", Nobody}, upload : Streams \cup {0}]
      BY <2>1
    <2>5. DOMAIN parts' = Streams /\ \A v \in Streams : IsParts(parts'[v]) /\ \E m \in Nat : \A n \in DOMAIN parts'[v] : n <= m
      <3>1. DOMAIN parts' = Streams /\ \A v \in Streams : parts'[v] = IF v = u THEN NoParts ELSE parts[v]
        BY <1>0, <2>1, Zenon
      <3> QED BY <1>0, <1>1, <3>1, Zenon
    <2> QED BY <1>2, <2>2, <2>3, <2>4, <2>5, StorageNext
  <1>4. CASE uploads[u] # "active"
    <2>1. recording' = NoParts /\ UNCHANGED <<source, uploads, parts>>
      BY <1>4, Zenon DEF CompleteUpload
    <2>2. source' \in [by : {"stream", "completer", Nobody}, upload : Streams \cup {0}]
      BY <1>0, <2>1, EventTypes, Zenon DEF StorageTypes
    <2>3. IsParts(recording')
      BY <1>1, <2>1
    <2> QED BY <1>0, <1>2, <2>1, <2>2, <2>3, StorageNext
  <1> QED BY <1>3, <1>4

LEMMA FinishStreamTypes ==
  ASSUME Types, PartsThere, NEW s \in Streams, FinishStream(s), upload[s] # 0
  PROVE  Types'
  <1>0. WriterTypes /\ ClientTypes /\ ServerTypes /\ SliceTypes /\ ActiveTypes /\ StorageTypes /\ PartsBounded
    BY TypeFacts DEF Types
  <1>1. EndLoop(s) /\ Return(s) /\ loop[s] = "drain" /\ UNCHANGED <<writerVars, statusCh, upload, completeType, erased, omitted, tracker>>
    BY Zenon DEF FinishStream
  <1>2. SliceTypes' /\ ActiveTypes' /\ loop' \in [Streams -> {"none", "select", "drain", "ended"}]
    BY <1>0, <1>1, EndLoopTypes
  <1>3. /\ handler' \in [Streams -> {"none", "opening", "serving", "closing", "done"}]
        /\ conn' \in [Streams -> {"none", "up", "down"}] /\ wire' \in [Streams -> Seq(Messages)]
    BY <1>0, <1>1, ReturnTypes
  <1>4. upload \in [Streams -> Streams \cup {0}]
    BY TypeFacts
  <1>5. ServerTypes'
    BY <1>0, <1>1, <1>2, <1>3, <1>4, ServerNext, Zenon DEF ServerTypes
  <1>6. ClientTypes'
    BY <1>0, <1>1, <1>3, ClientNext, Zenon DEF ClientTypes
  <1>7. StorageTypes' /\ PartsBounded'
    <2>1. CASE UNCHANGED <<recording, source, uploads, parts>>
      <3>1. UNCHANGED storageVars
        BY <1>1, <2>1 DEF storageVars
      <3> QED BY <1>0, <3>1, StorageKept
    <2>2. CASE CompleteUpload("stream", upload[s], completedParts[s] \cup Stored(s))
      <3>1. upload[s] \in Streams
        BY <1>4
      <3>2. completedParts[s] \cup Stored(s) \in SUBSET PartNumbers
        BY <1>0 DEF SliceTypes, ActiveTypes, Stored
      <3>3. uploads[upload[s]] = "active" => completedParts[s] \cup Stored(s) \subseteq DOMAIN parts[upload[s]]
        BY <1>1 DEF PartsThere, PartsOK
      <3>4. UNCHANGED <<erased, omitted>>
        BY <1>1
      <3> QED BY <2>2, <3>1, <3>2, <3>3, <3>4, CompleteUploadTypes
    <2>3. UNCHANGED <<recording, source, uploads, parts>> \/ CompleteUpload("stream", upload[s], completedParts[s] \cup Stored(s))
      BY Zenon DEF FinishStream, Stored
    <2> QED BY <2>1, <2>2, <2>3
  <1> QED BY <1>0, <1>1, <1>2, <1>5, <1>6, <1>7, WriterKept, TypePartsNext DEF Types

LEMMA CompleterTypes ==
  ASSUME Types, ExpireTracker \/ \E u \in Uploads : CheckUpload(u)
  PROVE  Types'
  <1>0. WriterTypes /\ ClientTypes /\ ServerTypes /\ SliceTypes /\ ActiveTypes /\ StorageTypes /\ PartsBounded
    BY TypeFacts DEF Types
  <1>1. UNCHANGED <<writerVars, clientVars, serverVars, sliceVars>>
    BY Zenon DEF ExpireTracker, CheckUpload
  <1>2. loop' = loop
    BY <1>1 DEF serverVars
  <1>3. ClientTypes' /\ ServerTypes' /\ SliceTypes' /\ ActiveTypes'
    BY <1>0, <1>1, <1>2, ClientKept, ServerKept, SliceKept
  <1>4. WriterTypes'
    <2>1. tracker' \in BOOLEAN
      BY <1>0, Zenon DEF ExpireTracker, CheckUpload, WriterTypes
    <2>2. lastStatus \in Streams \cup {0}
      BY TypeFacts
    <2> QED BY <1>0, <1>1, <2>1, <2>2, WriterNext, Zenon DEF WriterTypes, writerVars
  <1>5. StorageTypes' /\ PartsBounded'
    <2>1. CASE ExpireTracker
      BY <1>0, <2>1, StorageKept DEF ExpireTracker
    <2>2. ASSUME NEW u \in Uploads, CheckUpload(u) PROVE StorageTypes' /\ PartsBounded'
      <3>1. CompleteUpload("completer", u, DOMAIN parts[u]) /\ UNCHANGED <<erased, omitted>>
        BY <2>2, Zenon DEF CheckUpload
      <3>2. u \in Streams
        BY EventTypes
      <3>3. DOMAIN parts[u] \in SUBSET PartNumbers
        BY <3>2, TypeFacts, Zenon DEF IsParts
      <3> QED BY <3>1, <3>2, <3>3, CompleteUploadTypes
    <2> QED BY <2>1, <2>2
  <1> QED BY <1>3, <1>4, <1>5, TypePartsNext DEF Types

-----------------------------------------------------------------------------
(* The structure of the streams is kept *)

Struct == Types /\ StreamsInv /\ SlicesInv /\ PartsThere

\* What a step that has no part in an upload leaves as it was.
LEMMA SlicesSame ==
  ASSUME SlicesInv, PartsThere, UNCHANGED <<loop, upload, activeUploads, completedParts, uploads, parts>>
  PROVE  SlicesInv' /\ PartsThere'
  BY Zenon DEF SlicesInv, SlicesOK, PartsThere, PartsOK, Stored, Streams

LEMMA SlicesNext ==
  ASSUME \A s \in Streams : SlicesOK(s)' /\ PartsOK(s)'
  PROVE  SlicesInv' /\ PartsThere'
  BY Zenon DEF SlicesInv, PartsThere, Streams

LEMMA StreamsNext ==
  ASSUME WriterOK', \A s \in Streams : StreamOK(s)'
  PROVE  StreamsInv'
  BY Zenon DEF StreamsInv, Streams

\* A step of the writer, or of a connection: connections are closed, messages sent on
\* those that were made, statuses lost or read.
LEMMA WriterStreams ==
  ASSUME Types, StreamsInv, UNCHANGED <<stream, serverVars, sliceVars, uploads>>,
         \A s \in Streams : conn'[s] = conn[s] \/ (conn[s] # "none" /\ conn'[s] = "down"),
         \A s \in Streams : wire'[s] = wire[s] \/ conn[s] # "none",
         \A s \in Streams : statusCh'[s] = statusCh[s] \/ statusCh'[s] = None,
         pc' = "resume" => conn'[stream] = "down",
         (lastStatus' = lastStatus /\ trimmed' = trimmed) \/ (lastStatus' = upload[stream] /\ upload[stream] # 0)
  PROVE  StreamsInv'
  <1>1. UNCHANGED <<handler, loop, upload, current, activeUploads, uploads>>
    BY Zenon DEF serverVars, sliceVars
  <1>2. stream \in Streams /\ None' = None /\ Streams' = Streams /\ NoSlice' = NoSlice
    BY TypeFacts DEF WriterTypes
  <1>3. ASSUME NEW s \in Streams PROVE StreamOK(s)'
    BY <1>1, Zenon DEF StreamsInv, StreamOK, Fresh, Idle
  <1>4. WriterOK'
    BY <1>1, <1>2, Zenon DEF StreamsInv, WriterOK
  <1> QED BY <1>2, <1>3, <1>4, StreamsNext

LEMMA WriterStruct ==
  ASSUME Struct, NEW s \in Streams,
         \/ Break(s) \/ StreamDone \/ EndStream \/ ResumeFails \/ GiveUp \/ Resumed \/ ResumeTimeout \/ Replay
         \/ UpdateStatus \/ (\E i \in Events : TakeEvent(i)) \/ ReplayFails
  PROVE  Struct'
  <1>0. Types /\ StreamsInv /\ SlicesInv /\ PartsThere
    BY DEF Struct
  <1>1. Types'
    BY <1>0, ConnTypes, WriterStepTypes, ReplayFailsTypes
  <1>2. UNCHANGED <<stream, serverVars, sliceVars, parts, uploads>>
    BY Zenon DEF Break, StreamDone, EndStream, ResumeFails, GiveUp, Resumed, ResumeTimeout, Replay, UpdateStatus, TakeEvent,
           ReplayFails, writerVars, storageVars
  <1>3. WriterTypes /\ ClientTypes /\ stream \in Streams /\ conn[stream] # "none"
    BY <1>0, TypeFacts DEF StreamsInv, WriterOK, WriterTypes
  <1>4. \A r \in Streams : conn'[r] = conn[r] \/ (conn[r] # "none" /\ conn'[r] = "down")
    <2>1. conn' = conn \/ CloseStream(stream) \/ (CloseStream(s) /\ conn[s] = "up")
      BY Zenon DEF Break, StreamDone, EndStream, ResumeFails, GiveUp, Resumed, ResumeTimeout, Replay, UpdateStatus, TakeEvent,
             ReplayFails, clientVars, RecoverStream
    <2> QED BY <1>3, <2>1 DEF CloseStream, ClientTypes
  <1>5. \A r \in Streams : wire'[r] = wire[r] \/ conn[r] # "none"
    <2>1. wire' = wire \/ \E ms : wire' = [wire EXCEPT ![stream] = ms]
      BY Zenon DEF Break, StreamDone, EndStream, ResumeFails, GiveUp, Resumed, ResumeTimeout, Replay, UpdateStatus, TakeEvent,
             ReplayFails, clientVars, Send
    <2> QED BY <1>3, <2>1, Zenon DEF ClientTypes
  <1>6. \A r \in Streams : statusCh'[r] = statusCh[r] \/ statusCh'[r] = None
    <2>1. statusCh' = statusCh \/ \E r \in Streams : statusCh' = [statusCh EXCEPT ![r] = None]
      BY <1>3, Zenon DEF Break, StreamDone, EndStream, ResumeFails, GiveUp, Resumed, ResumeTimeout, Replay, UpdateStatus, TakeEvent,
             ReplayFails, clientVars, RecoverStream
    <2> QED BY <1>3, <2>1, Zenon DEF ClientTypes
  <1>7. pc' = "resume" => conn'[stream] = "down"
    <2> SUFFICES ASSUME pc' = "resume" PROVE conn'[stream] = "down"
      OBVIOUS
    <2>1. CloseStream(stream) \/ pc = "resume"
      BY Zenon DEF Break, StreamDone, EndStream, ResumeFails, GiveUp, Resumed, ResumeTimeout, Replay, UpdateStatus, TakeEvent,
             ReplayFails, RecoverStream, writerVars
    <2>2. CASE CloseStream(stream)
      BY <1>3, <2>2 DEF CloseStream, ClientTypes
    <2>3. CASE pc = "resume"
      BY <1>0, <1>3, <1>4, <2>3, Zenon DEF StreamsInv, WriterOK
    <2> QED BY <2>1, <2>2, <2>3
  <1>8. (lastStatus' = lastStatus /\ trimmed' = trimmed) \/ (lastStatus' = upload[stream] /\ upload[stream] # 0)
    <2>1. (lastStatus' = lastStatus /\ trimmed' = trimmed) \/ (lastStatus' = upload[stream] /\ statusCh[stream] # None)
      BY Zenon DEF Break, StreamDone, EndStream, ResumeFails, GiveUp, Resumed, ResumeTimeout, Replay, UpdateStatus, TakeEvent,
             ReplayFails, writerVars
    <2> QED BY <1>0, <1>3, <2>1, Zenon DEF StreamsInv, StreamOK, Idle
  <1>9. StreamsInv'
    BY <1>0, <1>2, <1>4, <1>5, <1>6, <1>7, <1>8, WriterStreams
  <1>10. SlicesInv' /\ PartsThere'
    <2>1. UNCHANGED <<loop, upload, activeUploads, completedParts, uploads, parts>>
      BY <1>2, Zenon DEF serverVars, sliceVars
    <2> QED BY <1>0, <2>1, SlicesSame
  <1> QED BY <1>1, <1>9, <1>10 DEF Struct

LEMMA ResumeStruct ==
  ASSUME Struct, NEW s \in Streams, Resume(s)
  PROVE  Struct'
  <1>0. Types /\ StreamsInv /\ SlicesInv /\ PartsThere
    BY DEF Struct
  <1>1. Types'
    BY <1>0, ResumeTypes
  <1>2. /\ UNCHANGED <<buffer, trimmed, lastStatus, wire, statusCh, loop, completeType, sliceVars, storageVars, tracker>>
        /\ stream' = s /\ pc = "resume" /\ pc' = "await" /\ conn[s] = "none"
        /\ upload' = [upload EXCEPT ![s] = lastStatus] /\ conn' = [conn EXCEPT ![s] = "up"]
        /\ handler' = [handler EXCEPT ![s] = "opening"]
    BY Zenon DEF Resume
  <1>3. /\ stream \in Streams /\ conn \in [Streams -> {"none", "up", "down"}] /\ upload \in [Streams -> Streams \cup {0}]
        /\ handler \in [Streams -> {"none", "opening", "serving", "closing", "done"}]
    BY <1>0, TypeFacts DEF WriterTypes, ClientTypes, ServerTypes
  <1>4. UNCHANGED <<wire, statusCh, loop, current, activeUploads, completedParts, uploads, parts, lastStatus, trimmed>>
    BY <1>2, Zenon DEF sliceVars, storageVars
  <1>5. /\ \A r \in Streams : r # s => conn'[r] = conn[r] /\ upload'[r] = upload[r] /\ handler'[r] = handler[r]
        /\ conn'[s] = "up" /\ upload'[s] = lastStatus /\ handler'[s] = "opening"
    BY <1>2, <1>3, Zenon
  <1>6. Fresh(s) /\ Idle(s) /\ uploads[s] = "none"
    BY <1>0, <1>2, Zenon DEF StreamsInv, StreamOK, Fresh
  <1>7. conn[stream] = "down" /\ (lastStatus # 0 => uploads[lastStatus] # "none")
    BY <1>0, <1>2, <1>3, Zenon DEF StreamsInv, StreamOK, WriterOK
  <1>8. \A r \in Streams : conn[r] # "up"
    BY <1>0, <1>7 DEF StreamsInv, StreamOK
  <1>9. ASSUME NEW r \in Streams PROVE StreamOK(r)'
    <2>1. CASE r = s
      BY <1>2, <1>4, <1>5, <1>6, <1>7, <2>1 DEF StreamOK, Fresh, Idle
    <2>2. CASE r # s
      <3>1. StreamOK(r)
        BY <1>0 DEF StreamsInv
      <3> QED BY <1>4, <1>5, <1>8, <2>2, <3>1, Zenon DEF StreamOK, Fresh, Idle
    <2> QED BY <2>1, <2>2
  <1>10. WriterOK'
    BY <1>0, <1>2, <1>4, <1>5 DEF StreamsInv, WriterOK
  <1>11. StreamsInv'
    BY <1>9, <1>10, StreamsNext
  <1>12. ASSUME NEW r \in Streams PROVE SlicesOK(r)' /\ PartsOK(r)'
    <2>1. CASE r = s
      BY <1>4, <1>6, <2>1, Zenon DEF SlicesOK, PartsOK, Fresh, Idle
    <2>2. CASE r # s
      <3>1. SlicesOK(r) /\ PartsOK(r)
        BY <1>0 DEF SlicesInv, PartsThere
      <3> QED BY <1>4, <1>5, <2>2, <3>1, Zenon DEF SlicesOK, PartsOK, Stored
    <2> QED BY <2>1, <2>2
  <1> QED BY <1>1, <1>11, <1>12, SlicesNext DEF Struct

\* NewProtoStream: an upload that was completed is never opened again.
LEMMA OpenStruct ==
  ASSUME Struct, NEW s \in Streams, Open(s)
  PROVE  Struct' /\ \A v \in Streams : uploads[v] # "none" => uploads'[v] = uploads[v]
  <1>0. Types /\ StreamsInv /\ SlicesInv /\ PartsThere
    BY DEF Struct
  <1>1. Types'
    BY <1>0, OpenTypes
  <1> DEFINE u == IF upload[s] = 0 THEN s ELSE upload[s]
             ps == DOMAIN parts[u]
  <1>2. /\ UNCHANGED <<writerVars, conn, wire, completeType, activeUploads, parts, recording, source, tracker>>
        /\ handler[s] = "opening" /\ (upload[s] = 0 \/ uploads[u] = "active")
        /\ handler' = [handler EXCEPT ![s] = "serving"] /\ loop' = [loop EXCEPT ![s] = "select"]
        /\ upload' = [upload EXCEPT ![s] = u] /\ uploads' = [uploads EXCEPT ![u] = "active"]
        /\ current' = [current EXCEPT ![s] = <<>>]
        /\ completedParts' = [completedParts EXCEPT ![s] = ps]
    BY Zenon DEF Open
  <1>3. \A r \in Streams : r # s => statusCh'[r] = statusCh[r]
    BY <1>0, TypeFacts, Zenon DEF Open, ClientTypes
  <1>4. /\ stream \in Streams /\ upload \in [Streams -> Streams \cup {0}] /\ uploads \in [Streams -> {"none", "active", "completed"}]
        /\ handler \in [Streams -> {"none", "opening", "serving", "closing", "done"}]
        /\ loop \in [Streams -> {"none", "select", "drain", "ended"}] /\ DOMAIN current = Streams /\ DOMAIN completedParts = Streams
    BY <1>0, TypeFacts, Zenon DEF WriterTypes, ServerTypes, SliceTypes
  <1>5. u \in Streams /\ 0 \notin Streams
    <2>1. upload[s] \in Streams \cup {0}
      BY <1>4
    <2> QED BY <2>1, EventTypes
  <1>6. u = IF upload[s] = 0 THEN s ELSE upload[s]
    OBVIOUS
  <1> HIDE DEF u
  <1>7. /\ loop[s] = "none" /\ Idle(s) /\ uploads[s] = "none" /\ conn[s] # "none"
        /\ (upload[s] = 0 => uploads[u] = "none") /\ (upload[s] # 0 => uploads[u] = "active")
    BY <1>0, <1>2, <1>5, <1>6, Zenon DEF StreamsInv, StreamOK, Fresh
  <1>8. /\ \A r \in Streams : r # s => /\ handler'[r] = handler[r] /\ loop'[r] = loop[r] /\ upload'[r] = upload[r]
                                       /\ current'[r] = current[r] /\ completedParts'[r] = completedParts[r]
        /\ handler'[s] = "serving" /\ loop'[s] = "select" /\ upload'[s] = u /\ completedParts'[s] = ps
        /\ uploads'[u] = "active" /\ \A v \in Streams : v # u => uploads'[v] = uploads[v]
    BY <1>2, <1>4, <1>5, Zenon
  <1>9. \A v \in Streams : uploads[v] # "none" => uploads'[v] = uploads[v]
    BY <1>5, <1>7, <1>8, Zenon
  <1>10. UNCHANGED <<conn, wire, activeUploads, parts, stream, pc, lastStatus, trimmed>>
    BY <1>2, Zenon DEF writerVars
  <1>11. \A r \in Streams : StreamOK(r)
    BY <1>0 DEF StreamsInv
  <1>12. ASSUME NEW r \in Streams PROVE StreamOK(r)'
    <2>1. CASE r = s
      <3>1. (conn[s] = "up" => s = stream)
        BY <1>11, Zenon DEF StreamOK
      <3> QED BY <1>5, <1>7, <1>8, <1>10, <2>1, <3>1, Zenon DEF StreamOK
    <2>2. CASE r # s
      <3>1. upload[r] # 0 => uploads'[upload[r]] # "none"
        <4>1. upload[r] # 0 => upload[r] \in Streams /\ uploads[upload[r]] # "none"
          BY <1>4, <1>11 DEF StreamOK
        <4> QED BY <1>9, <4>1, Zenon
      <3>2. uploads'[r] # "none" => handler[r] \notin {"none", "opening"}
        <4>1. CASE upload[s] = 0
          BY <1>6, <1>8, <1>11, <2>2, <4>1, Zenon DEF StreamOK
        <4>2. CASE upload[s] # 0
          BY <1>7, <1>8, <1>11, <4>2, Zenon DEF StreamOK
        <4> QED BY <4>1, <4>2
      <3>3. StreamOK(r)
        BY <1>11
      <3>4. /\ handler'[r] = handler[r] /\ loop'[r] = loop[r] /\ upload'[r] = upload[r] /\ current'[r] = current[r]
            /\ statusCh'[r] = statusCh[r]
        BY <1>3, <1>8, <2>2
      <3> QED BY <1>10, <3>1, <3>2, <3>3, <3>4, Zenon DEF StreamOK, Fresh, Idle
    <2> QED BY <2>1, <2>2
  <1>13. WriterOK'
    <2>1. WriterOK
      BY <1>0 DEF StreamsInv
    <2>2. lastStatus # 0 => upload'[stream] = lastStatus
      BY <1>4, <1>6, <1>8, <2>1 DEF WriterOK
    <2> QED BY <1>10, <2>1, <2>2, Zenon DEF WriterOK
  <1>14. StreamsInv'
    BY <1>12, <1>13, StreamsNext
  <1>15. ASSUME NEW r \in Streams PROVE SlicesOK(r)' /\ PartsOK(r)'
    <2>1. CASE r = s
      <3>1. DOMAIN activeUploads'[r] = {}
        BY <1>7, <1>10, <2>1 DEF Idle
      <3> QED BY <1>8, <1>10, <2>1, <3>1, Zenon DEF SlicesOK, PartsOK, Stored
    <2>2. CASE r # s
      <3>1. SlicesOK(r) /\ PartsOK(r) /\ StreamOK(r)
        BY <1>0, <1>11 DEF SlicesInv, PartsThere
      <3>2. upload[r] # 0 => uploads'[upload[r]] = uploads[upload[r]]
        BY <1>4, <1>5, <1>9, <3>1, Zenon DEF StreamOK
      <3>3. loop[r] = "none" => DOMAIN activeUploads[r] = {}
        BY <3>1, Zenon DEF StreamOK, Idle
      <3> QED BY <1>8, <1>10, <2>2, <3>1, <3>2, <3>3, Zenon DEF SlicesOK, PartsOK, Stored, StreamOK
    <2> QED BY <2>1, <2>2
  <1> QED BY <1>1, <1>9, <1>14, <1>15, SlicesNext DEF Struct

\* A step of the handler: the handler goes on, its connection is closed or kept, and
\* the slice that is written belongs to a loop.
LEMMA HandlerStruct ==
  ASSUME Struct, NEW s \in Streams, OpenFails(s) \/ ReceiveComplete(s) \/ Abandon(s) \/ ReceiveEvent(s)
  PROVE  Struct'
  <1>0. Types /\ StreamsInv /\ SlicesInv /\ PartsThere
    BY DEF Struct
  <1>1. Types'
    BY <1>0, HandlerTypes, ReceiveEventTypes
  <1>2. UNCHANGED <<writerVars, statusCh, loop, upload, activeUploads, completedParts, parts, uploads>>
    BY Zenon DEF OpenFails, ReceiveComplete, Abandon, CompleteProtoStream, ReceiveEvent, sliceVars, storageVars
  <1>3. handler[s] # "none" /\ (loop[s] = "select" \/ current' = current)
    BY Zenon DEF OpenFails, ReceiveComplete, Abandon, CompleteProtoStream, ReceiveEvent, sliceVars
  <1>4. /\ \A r \in Streams : r # s => /\ conn'[r] = conn[r] /\ wire'[r] = wire[r] /\ handler'[r] = handler[r]
                                       /\ current'[r] = current[r]
        /\ conn'[s] \in {conn[s], "down"} /\ handler'[s] \in {handler[s], "closing", "done"}
        /\ (handler'[s] = handler[s] \/ handler'[s] = "closing" => handler[s] = "serving")
    <2>1. \/ Return(s)
          \/ /\ (handler' = handler \/ handler' = [handler EXCEPT ![s] = "closing"]) /\ handler[s] = "serving"
             /\ (\E ms : wire' = [wire EXCEPT ![s] = ms]) /\ conn' = conn
      BY Zenon DEF OpenFails, ReceiveComplete, Abandon, CompleteProtoStream, ReceiveEvent
    <2>2. current' = current \/ \E c : current' = [current EXCEPT ![s] = c]
      BY Zenon DEF OpenFails, ReceiveComplete, Abandon, CompleteProtoStream, ReceiveEvent, SubmitEvent, sliceVars
    <2>3. DOMAIN conn = Streams /\ DOMAIN wire = Streams /\ DOMAIN handler = Streams /\ DOMAIN current = Streams
      BY <1>0, TypeFacts, Zenon DEF ClientTypes, ServerTypes, SliceTypes
    <2>4. \A r \in Streams : r # s => current'[r] = current[r]
      BY <2>2, <2>3, Zenon
    <2>5. CASE Return(s)
      <3>1. /\ \A r \in Streams : r # s => conn'[r] = conn[r] /\ wire'[r] = wire[r] /\ handler'[r] = handler[r]
            /\ conn'[s] = "down" /\ handler'[s] = "done"
        BY <2>3, <2>5, Zenon DEF Return, CloseStream
      <3>2. handler[s] # "done"
        BY DEF OpenFails, ReceiveComplete, Abandon, ReceiveEvent
      <3> QED BY <2>4, <3>1, <3>2
    <2>6. CASE /\ (handler' = handler \/ handler' = [handler EXCEPT ![s] = "closing"]) /\ handler[s] = "serving"
               /\ (\E ms : wire' = [wire EXCEPT ![s] = ms]) /\ conn' = conn
      <3>1. /\ \A r \in Streams : r # s => conn'[r] = conn[r] /\ wire'[r] = wire[r] /\ handler'[r] = handler[r]
            /\ conn'[s] = conn[s] /\ handler'[s] \in {handler[s], "closing"}
        BY <2>3, <2>6, Zenon
      <3> QED BY <2>4, <2>6, <3>1
    <2> QED BY <2>1, <2>5, <2>6
  <1>5. UNCHANGED <<loop, upload, activeUploads, completedParts, uploads, parts, statusCh, stream, pc, lastStatus, trimmed>>
    BY <1>2, Zenon DEF writerVars
  <1>6. ASSUME NEW r \in Streams PROVE StreamOK(r)'
    <2>0. StreamOK(r)
      BY <1>0 DEF StreamsInv
    <2>1. CASE r = s
      <3>1. conn[s] # "none" /\ (loop[s] = "none" => current'[s] = current[s])
        BY <1>3, <2>0, <2>1 DEF StreamOK, Fresh
      <3>2. conn'[s] # "none" /\ (conn'[s] = "up" => conn[s] = "up")
        BY <1>4, <3>1
      <3>3. handler'[s] \notin {"none", "opening"} /\ (handler'[s] \in {"serving", "closing"} => loop[s] # "none")
        BY <1>4, <2>0, <2>1 DEF StreamOK
      <3> QED BY <1>5, <2>0, <2>1, <3>1, <3>2, <3>3, Zenon DEF StreamOK, Idle
    <2>2. CASE r # s
      <3>1. conn'[r] = conn[r] /\ wire'[r] = wire[r] /\ handler'[r] = handler[r] /\ current'[r] = current[r]
        BY <1>4, <2>2
      <3> QED BY <1>5, <2>0, <3>1, Zenon DEF StreamOK, Fresh, Idle
    <2> QED BY <2>1, <2>2
  <1>7. WriterOK'
    <2>1. WriterOK /\ stream \in Streams /\ StreamOK(s)
      BY <1>0, TypeFacts DEF StreamsInv, WriterTypes
    <2>2. conn[stream] # "none" => conn'[stream] \in {conn[stream], "down"}
      BY <1>4, <2>1
    <2> QED BY <1>5, <2>1, <2>2 DEF WriterOK
  <1> QED BY <1>0, <1>1, <1>5, <1>6, <1>7, StreamsNext, SlicesSame DEF Struct

\* A step of a loop that goes on, or ends: the other streams and the writer do not see it.
LEMMA LoopStreams ==
  ASSUME Types, StreamsInv, NEW s \in Streams, loop[s] # "none",
         UNCHANGED <<stream, pc, lastStatus, trimmed, upload>>,
         \A r \in Streams : r # s => /\ conn'[r] = conn[r] /\ wire'[r] = wire[r] /\ handler'[r] = handler[r]
                                     /\ loop'[r] = loop[r] /\ current'[r] = current[r]
                                     /\ activeUploads'[r] = activeUploads[r] /\ statusCh'[r] = statusCh[r],
         conn'[s] \in {conn[s], "down"}, handler'[s] \in {handler[s], "done"}, loop'[s] # "none",
         loop'[s] = "ended" => DOMAIN activeUploads'[s] = {},
         \A u \in Streams : uploads[u] # uploads'[u] => uploads[u] = "active" /\ uploads'[u] = "completed"
  PROVE  StreamsInv'
  <1>1. \A r \in Streams : StreamOK(r)
    BY DEF StreamsInv
  <1>2. upload \in [Streams -> Streams \cup {0}]
    BY TypeFacts
  <1>3. \A u \in Streams : uploads'[u] = "none" <=> uploads[u] = "none"
    OBVIOUS
  <1>4. ASSUME NEW r \in Streams PROVE StreamOK(r)'
    <2>1. upload[r] # 0 => uploads'[upload[r]] # "none"
      <3>1. upload[r] # 0 => upload[r] \in Streams /\ uploads[upload[r]] # "none"
        BY <1>1, <1>2 DEF StreamOK
      <3> QED BY <1>3, <3>1
    <2>2. CASE r = s
      <3>1. conn[s] # "none" /\ handler[s] \notin {"none", "opening"}
        BY <1>1 DEF StreamOK, Fresh
      <3>2. conn'[s] # "none" /\ (conn'[s] = "up" => conn[s] = "up") /\ handler'[s] \notin {"none", "opening"}
        BY <3>1
      <3> QED BY <1>1, <2>1, <2>2, <3>2, Zenon DEF StreamOK
    <2>3. CASE r # s
      <3>1. /\ conn'[r] = conn[r] /\ wire'[r] = wire[r] /\ handler'[r] = handler[r] /\ loop'[r] = loop[r]
            /\ current'[r] = current[r] /\ activeUploads'[r] = activeUploads[r] /\ statusCh'[r] = statusCh[r]
        BY <2>3
      <3>2. StreamOK(r) /\ (uploads'[r] = "none" <=> uploads[r] = "none")
        BY <1>1, <1>3
      <3> QED BY <2>1, <3>1, <3>2, Zenon DEF StreamOK, Fresh, Idle
    <2> QED BY <2>2, <2>3
  <1>5. WriterOK'
    <2>1. WriterOK /\ stream \in Streams
      BY TypeFacts DEF StreamsInv, WriterTypes
    <2>2. conn[stream] # "none" => conn'[stream] \in {conn[stream], "down"}
      BY <2>1
    <2> QED BY <2>1, <2>2 DEF WriterOK
  <1> QED BY <1>4, <1>5, StreamsNext

\* What startUploadCurrentSlice makes of the active uploads.
LEMMA StartUploadFacts ==
  ASSUME SliceTypes, NEW s \in Streams, StartUploadCurrentSlice(s)
  PROVE  /\ \A r \in Streams : r # s => activeUploads'[r] = activeUploads[r] /\ current'[r] = current[r]
         /\ DOMAIN activeUploads'[s] = DOMAIN activeUploads[s] \cup {lastPartNumber[s]} /\ current'[s] = NoSlice
         /\ activeUploads'[s][lastPartNumber[s]] = [slice |-> current[s], state |-> "uploading"]
         /\ \A n \in DOMAIN activeUploads[s] \ {lastPartNumber[s]} : activeUploads'[s][n] = activeUploads[s][n]
         /\ \A n \in DOMAIN activeUploads[s] : activeUploads[s][n].state # "uploading"
  <1> DEFINE n0 == lastPartNumber[s]
             new == [slice |-> current[s], state |-> "uploading"]
             active == [n \in DOMAIN activeUploads[s] \cup {n0} |-> IF n = n0 THEN new ELSE activeUploads[s][n]]
  <1>1. activeUploads' = [activeUploads EXCEPT ![s] = active] /\ current' = [current EXCEPT ![s] = NoSlice]
    BY Zenon DEF StartUploadCurrentSlice, SliceTypes
  <1>2. /\ DOMAIN active = DOMAIN activeUploads[s] \cup {n0} /\ active[n0] = new
        /\ \A n \in DOMAIN activeUploads[s] \ {n0} : active[n] = activeUploads[s][n]
    BY Zenon
  <1> HIDE DEF active
  <1>3. /\ \A r \in Streams : r # s => activeUploads'[r] = activeUploads[r] /\ current'[r] = current[r]
        /\ activeUploads'[s] = active /\ current'[s] = NoSlice
    BY <1>1, Zenon DEF SliceTypes
  <1>4. \A n \in DOMAIN activeUploads[s] : activeUploads[s][n].state # "uploading"
    BY DEF StartUploadCurrentSlice, Uploading
  <1> QED BY <1>2, <1>3, <1>4, Zenon

\* A slice is uploaded: when it fills up, or as the last one.
LEMMA StartUploadStruct ==
  ASSUME Struct, NEW s \in Streams, FlushSlice(s) \/ UploadLastSlice(s)
  PROVE  Struct'
  <1>0. Types /\ StreamsInv /\ SlicesInv /\ PartsThere /\ ServerTypes /\ SliceTypes
    BY TypeFacts DEF Struct
  <1>1. Types'
    BY <1>0, FlushSliceTypes, UploadLastSliceTypes
  <1>2. /\ UNCHANGED <<writerVars, clientVars, handler, upload, completedParts, storageVars>> /\ loop[s] = "select"
        /\ (FlushSlice(s) /\ loop' = loop) \/ loop' = [loop EXCEPT ![s] = "drain"]
    BY Zenon DEF FlushSlice, UploadLastSlice, serverVars
  <1>3. /\ \A r \in Streams : r # s => loop'[r] = loop[r]
        /\ loop'[s] \in {"select", "drain"} /\ (loop'[s] = "select" => FlushSlice(s))
    BY <1>0, <1>2 DEF ServerTypes
  <1>4. UNCHANGED <<activeUploads, current>> \/ StartUploadCurrentSlice(s)
    BY Zenon DEF FlushSlice, UploadLastSlice
  <1>5. \A r \in Streams : r # s => activeUploads'[r] = activeUploads[r] /\ current'[r] = current[r]
    BY <1>0, <1>4, StartUploadFacts
  <1>6. UNCHANGED <<upload, completedParts, uploads, parts, statusCh, conn, wire, handler, stream, pc, lastStatus, trimmed>>
    BY <1>2, Zenon DEF writerVars, clientVars, storageVars
  <1>7. StreamsInv'
    <2>1. loop[s] # "none" /\ loop'[s] \notin {"none", "ended"}
      BY <1>2, <1>3
    <2> QED BY <1>0, <1>3, <1>5, <1>6, <2>1, LoopStreams
  <1>8. ASSUME NEW r \in Streams PROVE SlicesOK(r)' /\ PartsOK(r)'
    <2>1. SlicesOK(r) /\ PartsOK(r)
      BY <1>0 DEF SlicesInv, PartsThere
    <2>2. CASE r # s
      <3>1. loop'[r] = loop[r] /\ activeUploads'[r] = activeUploads[r]
        BY <1>3, <1>5, <2>2
      <3> QED BY <1>6, <2>1, <3>1, Zenon DEF SlicesOK, PartsOK, Stored
    <2>3. CASE r = s /\ UNCHANGED <<activeUploads, current>>
      <3>1. loop[r] = "select"
        BY <1>2, <2>3
      <3> QED BY <1>6, <2>1, <2>3, <3>1 DEF SlicesOK, PartsOK, Stored
    <2>4. CASE r = s /\ StartUploadCurrentSlice(s)
      <3>1. /\ DOMAIN activeUploads'[s] = DOMAIN activeUploads[s] \cup {lastPartNumber[s]}
            /\ activeUploads'[s][lastPartNumber[s]] = [slice |-> current[s], state |-> "uploading"]
            /\ \A n \in DOMAIN activeUploads[s] \ {lastPartNumber[s]} : activeUploads'[s][n] = activeUploads[s][n]
            /\ \A n \in DOMAIN activeUploads[s] : activeUploads[s][n].state # "uploading"
        BY <1>0, <2>4, StartUploadFacts
      <3>2. /\ activeUploads'[s][lastPartNumber[s]].slice = current[s]
            /\ activeUploads'[s][lastPartNumber[s]].state = "uploading"
        BY <3>1
      <3>4. loop[s] = "select" /\ uploads' = uploads /\ upload' = upload
        BY <1>2, <1>6
      <3>5. SlicesOK(s)'
        BY <2>1, <2>4, <3>1, <3>2, <3>4 DEF SlicesOK
      <3>6. Stored(s)' \subseteq Stored(s)
        BY <3>1, <3>2 DEF Stored
      <3>7. PartsOK(s)'
        BY <1>6, <2>1, <2>4, <3>4, <3>6 DEF PartsOK
      <3> QED BY <2>4, <3>5, <3>7
    <2> QED BY <1>4, <2>2, <2>3, <2>4
  <1> QED BY <1>1, <1>7, <1>8, SlicesNext DEF Struct

\* A slice is stored, or finds its upload completed.
LEMMA UploadSliceStruct ==
  ASSUME Struct, NEW s \in Streams, NEW n \in DOMAIN activeUploads[s], UploadSlice(s, n)
  PROVE  Struct'
  <1>0. Types /\ StreamsInv /\ SlicesInv /\ PartsThere /\ SliceTypes /\ ActiveTypes
    BY TypeFacts DEF Struct
  <1>1. loop[s] \notin {"none", "ended"} /\ upload[s] # 0 /\ uploads[upload[s]] # "none" /\ upload[s] \in Streams
    <2>1. StreamOK(s) /\ upload[s] \in Streams \cup {0}
      BY <1>0, TypeFacts DEF StreamsInv
    <2> QED BY <2>1 DEF StreamOK, Idle
  <1>2. Types'
    BY <1>0, <1>1, UploadSliceTypes
  <1>3. UNCHANGED <<upload, loop, completedParts, uploads, statusCh, conn, wire, handler, current, stream, pc, lastStatus, trimmed>>
    BY Zenon DEF UploadSlice, writerVars, clientVars, serverVars
  <1>4. PICK st \in {"stored", "failed"} :
          /\ activeUploads' = [activeUploads EXCEPT ![s][n].state = st] /\ (st = "stored") = (uploads[upload[s]] = "active")
          /\ st = "stored" => UploadPart(upload[s], n, activeUploads[s][n].slice)
          /\ st = "failed" => parts' = parts
    <2>1. CASE uploads[upload[s]] = "active"
      BY <2>1 DEF UploadSlice
    <2>2. CASE uploads[upload[s]] # "active"
      BY <2>2 DEF UploadSlice
    <2> QED BY <2>1, <2>2
  <1>5. /\ \A r \in Streams : r # s => activeUploads'[r] = activeUploads[r]
        /\ DOMAIN activeUploads'[s] = DOMAIN activeUploads[s]
        /\ \A m \in DOMAIN activeUploads[s] : m # n => activeUploads'[s][m] = activeUploads[s][m]
        /\ activeUploads'[s][n].state = st /\ activeUploads'[s][n].slice = activeUploads[s][n].slice
    <2>1. activeUploads' = [activeUploads EXCEPT ![s][n].state = st] /\ SliceTypes /\ ActiveTypes
      BY <1>0, <1>4
    <2> QED BY <2>1, SliceUploaded
  <1>6. /\ \A u \in Streams : DOMAIN parts[u] \subseteq DOMAIN parts'[u]
        /\ st = "stored" => n \in DOMAIN parts'[upload[s]]
    <2>1. n \in PartNumbers /\ activeUploads[s][n].slice \in Seq(Events)
      BY <1>0 DEF ActiveTypes, Slices
    <2>2. CASE st = "stored"
      <3>1. PICK u \in Streams : u = upload[s]
        BY <1>1
      <3>2. PICK slice \in Seq(Events) : slice = activeUploads[s][n].slice
        BY <2>1
      <3>3. UploadPart(u, n, slice)
        BY <1>4, <2>2, <3>1, <3>2
      <3>4. (\A v \in Streams : v # u => parts'[v] = parts[v]) /\ DOMAIN parts'[u] = DOMAIN parts[u] \cup {n}
        BY <1>0, <2>1, <3>3, UploadPartFacts
      <3> QED BY <3>1, <3>4, Zenon
    <2>3. CASE st = "failed"
      BY <1>4, <2>3
    <2> QED BY <2>2, <2>3
  <1>7. StreamsInv'
    BY <1>0, <1>1, <1>3, <1>5, LoopStreams
  <1>8. ASSUME NEW r \in Streams PROVE SlicesOK(r)' /\ PartsOK(r)'
    <2>1. SlicesOK(r) /\ PartsOK(r) /\ StreamOK(r) /\ (upload[r] = 0 \/ upload[r] \in Streams)
      BY <1>0, TypeFacts DEF SlicesInv, PartsThere, StreamsInv
    <2>2. CASE r # s
      <3>1. activeUploads'[r] = activeUploads[r]
        BY <1>5, <2>2
      <3>2. SlicesOK(r)'
        BY <1>3, <2>1, <3>1, Zenon DEF SlicesOK
      <3>3. PartsOK(r)'
        BY <1>3, <1>6, <2>1, <3>1, Zenon DEF PartsOK, Stored, StreamOK
      <3> QED BY <3>2, <3>3
    <2>3. CASE r = s
      <3>1. uploads[upload[s]] \in {"active", "completed"}
        BY <1>0, <1>1, TypeFacts
      <3>2. st = "failed" => uploads[upload[s]] = "completed"
        BY <1>4, <3>1
      <3>3. SlicesOK(s)'
        BY <1>3, <1>5, <2>1, <2>3, <3>2 DEF SlicesOK
      <3>4. Stored(s)' \subseteq Stored(s) \cup (IF st = "stored" THEN {n} ELSE {})
        BY <1>5 DEF Stored
      <3>5. PartsOK(s)'
        BY <1>1, <1>3, <1>6, <2>1, <2>3, <3>4 DEF PartsOK
      <3> QED BY <2>3, <3>3, <3>5
    <2> QED BY <2>2, <2>3
  <1> QED BY <1>2, <1>7, <1>8, SlicesNext DEF Struct

\* A status is made of a slice that is stored.
LEMMA CompletedUploadStruct ==
  ASSUME Struct, NEW s \in Streams, NEW n \in DOMAIN activeUploads[s], CompletedUpload(s, n)
  PROVE  Struct'
  <1>0. Types /\ StreamsInv /\ SlicesInv /\ PartsThere /\ SliceTypes /\ ClientTypes
    BY TypeFacts DEF Struct
  <1>1. loop[s] = "select" /\ activeUploads[s][n].state = "stored"
    BY DEF CompletedUpload
  <1>3. Types'
    BY <1>0, CompletedUploadTypes
  <1>4. UNCHANGED <<upload, loop, uploads, parts, conn, wire, handler, current, stream, pc, lastStatus, trimmed>>
    BY Zenon DEF CompletedUpload, writerVars, serverVars, storageVars
  <1>5. /\ \A r \in Streams : r # s => activeUploads'[r] = activeUploads[r] /\ statusCh'[r] = statusCh[r]
        /\ DOMAIN activeUploads'[s] = DOMAIN activeUploads[s] \ {n}
        /\ \A m \in DOMAIN activeUploads[s] : m # n => activeUploads'[s][m] = activeUploads[s][m]
    <2>1. /\ \A r \in Streams : r # s => activeUploads'[r] = activeUploads[r] /\ statusCh'[r] = statusCh[r]
          /\ activeUploads'[s] = Restrict(activeUploads[s], DOMAIN activeUploads[s] \ {n})
      BY <1>0, Zenon DEF CompletedUpload, SliceTypes, ClientTypes
    <2>2. PICK a : a = activeUploads[s]
      OBVIOUS
    <2>3. DOMAIN activeUploads'[s] = DOMAIN a \ {n} /\ \A m \in DOMAIN a \ {n} : activeUploads'[s][m] = a[m]
      BY <2>1, <2>2, Zenon DEF Restrict
    <2> QED BY <2>1, <2>2, <2>3
  <1>6. /\ \A r \in Streams : r # s => completedParts'[r] = completedParts[r]
        /\ completedParts'[s] = completedParts[s] \cup {n}
    BY <1>0, Zenon DEF CompletedUpload, SliceTypes
  <1>7. StreamsInv'
    <2>1. loop[s] # "none" /\ loop'[s] \notin {"none", "ended"}
      BY <1>1, <1>4
    <2> QED BY <1>0, <1>4, <1>5, <2>1, LoopStreams
  <1>8. ASSUME NEW r \in Streams PROVE SlicesOK(r)' /\ PartsOK(r)'
    <2>1. SlicesOK(r) /\ PartsOK(r)
      BY <1>0 DEF SlicesInv, PartsThere
    <2>2. CASE r # s
      <3>1. activeUploads'[r] = activeUploads[r] /\ completedParts'[r] = completedParts[r]
        BY <1>5, <1>6, <2>2
      <3> QED BY <1>4, <2>1, <3>1, Zenon DEF SlicesOK, PartsOK, Stored
    <2>3. CASE r = s
      <3>1. SlicesOK(s)'
        BY <1>4, <1>5, <2>1, <2>3 DEF SlicesOK
      <3>2. Stored(s)' \subseteq Stored(s) /\ n \in Stored(s)
        BY <1>1, <1>5 DEF Stored
      <3>3. PartsOK(s)'
        BY <1>4, <1>6, <2>1, <2>3, <3>2 DEF PartsOK
      <3> QED BY <2>3, <3>1, <3>3
    <2> QED BY <2>2, <2>3
  <1> QED BY <1>3, <1>7, <1>8, SlicesNext DEF Struct

\* CompleteUpload: an upload may be completed, parts are kept until then.
LEMMA CompleteUploadFacts ==
  ASSUME Types, NEW u \in Streams, NEW by, NEW ps, CompleteUpload(by, u, ps)
  PROVE  /\ \A v \in Streams : uploads[v] # uploads'[v] => uploads[v] = "active" /\ uploads'[v] = "completed"
         /\ \A v \in Streams : uploads'[v] = "active" => parts'[v] = parts[v]
  <1>1. uploads \in [Streams -> {"none", "active", "completed"}] /\ DOMAIN parts = Streams
    BY TypeFacts
  <1>2. CASE uploads[u] = "active"
    <2>1. uploads' = [uploads EXCEPT ![u] = "completed"] /\ parts' = [parts EXCEPT ![u] = NoParts]
      BY <1>2, Zenon DEF CompleteUpload
    <2>2. /\ uploads'[u] = "completed" /\ \A v \in Streams : v # u => uploads'[v] = uploads[v] /\ parts'[v] = parts[v]
      BY <1>1, <2>1, Zenon
    <2> QED BY <1>2, <2>2
  <1>3. CASE uploads[u] # "active"
    BY <1>3, Zenon DEF CompleteUpload
  <1> QED BY <1>2, <1>3

\* A stream that has no part in the completion of an upload.
LEMMA SlicesDone ==
  ASSUME Types, NEW r \in Streams, SlicesOK(r), PartsOK(r), StreamOK(r),
         activeUploads'[r] = activeUploads[r], completedParts'[r] = completedParts[r], loop'[r] = loop[r],
         UNCHANGED upload,
         \A v \in Streams : uploads[v] # uploads'[v] => uploads[v] = "active" /\ uploads'[v] = "completed",
         \A v \in Streams : uploads'[v] = "active" => parts'[v] = parts[v]
  PROVE  SlicesOK(r)' /\ PartsOK(r)'
  <1>1. upload[r] = 0 \/ upload[r] \in Streams
    BY TypeFacts
  <1>2. upload[r] = 0 => loop[r] = "none" /\ DOMAIN activeUploads[r] = {}
    BY DEF StreamOK, Idle
  <1>3. upload[r] # 0 => /\ uploads[upload[r]] = "completed" => uploads'[upload[r]] = "completed"
                         /\ uploads'[upload[r]] = "active" =>
                              uploads[upload[r]] = "active" /\ parts'[upload[r]] = parts[upload[r]]
    BY <1>1
  <1>4. SlicesOK(r)'
    BY <1>1, <1>2, <1>3 DEF SlicesOK
  <1>5. PartsOK(r)'
    BY <1>1, <1>2, <1>3, Zenon DEF PartsOK, Stored
  <1> QED BY <1>4, <1>5

\* The loop of a stream ends.
LEMMA LoopEndsStruct ==
  ASSUME Struct, NEW s \in Streams, Crash(s) \/ FinishStream(s) \/ \E n \in DOMAIN activeUploads[s] : FailedUpload(s, n)
  PROVE  Struct'
  <1>0. Types /\ StreamsInv /\ SlicesInv /\ PartsThere /\ ClientTypes /\ ServerTypes /\ SliceTypes
    BY TypeFacts DEF Struct
  <1>1. EndLoop(s) /\ UNCHANGED <<writerVars, upload>> /\ (Return(s) \/ UNCHANGED <<handler, conn, wire>>)
    BY Zenon DEF Crash, FailedUpload, FinishStream
  <1>2. loop[s] # "none" /\ upload[s] # 0
    <2>1. StreamOK(s)
      BY <1>0 DEF StreamsInv
    <2>2. loop[s] # "none"
      BY <2>1 DEF StreamOK, Crash, FailedUpload, FinishStream
    <2> QED BY <2>1, <2>2 DEF StreamOK
  <1>3. upload[s] \in Streams
    <2>1. upload[s] \in Streams \cup {0}
      BY <1>0, TypeFacts
    <2> QED BY <1>2, <2>1
  <1>4. Types'
    BY <1>0, <1>2, LoopEndsTypes, FinishStreamTypes
  <1>5. /\ \A r \in Streams : r # s => /\ loop'[r] = loop[r] /\ current'[r] = current[r] /\ activeUploads'[r] = activeUploads[r]
                                       /\ completedParts'[r] = completedParts[r]
        /\ loop'[s] = "ended" /\ activeUploads'[s] = NoParts /\ completedParts'[s] = {}
    BY <1>0, <1>1, Zenon DEF EndLoop, ServerTypes, SliceTypes
  <1>6. /\ \A r \in Streams : r # s => /\ conn'[r] = conn[r] /\ wire'[r] = wire[r] /\ handler'[r] = handler[r]
        /\ conn'[s] \in {conn[s], "down"} /\ handler'[s] \in {handler[s], "done"}
    <2>1. CASE Return(s)
      <3>1. /\ \A r \in Streams : r # s => /\ conn'[r] = conn[r] /\ wire'[r] = wire[r] /\ handler'[r] = handler[r]
            /\ conn'[s] = "down" /\ handler'[s] = "done"
        BY <1>0, <2>1, Zenon DEF Return, CloseStream, ClientTypes, ServerTypes
      <3> QED BY <3>1
    <2>2. CASE UNCHANGED <<handler, conn, wire>>
      BY <2>2
    <2> QED BY <1>1, <2>1, <2>2
  <1>7. \A r \in Streams : r # s => statusCh'[r] = statusCh[r]
    <2>1. statusCh' = statusCh \/ statusCh' = [statusCh EXCEPT ![s] = None]
      BY Zenon DEF Crash, FailedUpload, FinishStream
    <2> QED BY <1>0, <2>1, Zenon DEF ClientTypes
  <1>8. /\ \A v \in Streams : uploads[v] # uploads'[v] => uploads[v] = "active" /\ uploads'[v] = "completed"
        /\ \A v \in Streams : uploads'[v] = "active" => parts'[v] = parts[v]
    <2>1. UNCHANGED <<uploads, parts>> \/ CompleteUpload("stream", upload[s], completedParts[s] \cup Stored(s))
      BY Zenon DEF Crash, FailedUpload, FinishStream, storageVars, Stored
    <2>2. CASE UNCHANGED <<uploads, parts>>
      BY <2>2
    <2>3. CASE CompleteUpload("stream", upload[s], completedParts[s] \cup Stored(s))
      BY <1>0, <1>3, <2>3, CompleteUploadFacts
    <2> QED BY <2>1, <2>2, <2>3
  <1>9. UNCHANGED <<upload, stream, pc, lastStatus, trimmed>> /\ DOMAIN activeUploads'[s] = {} /\ loop'[s] # "none"
    BY <1>1, <1>5, EventTypes DEF writerVars
  <1>10. StreamsInv'
    BY <1>0, <1>2, <1>5, <1>6, <1>7, <1>8, <1>9, LoopStreams
  <1>11. ASSUME NEW r \in Streams PROVE SlicesOK(r)' /\ PartsOK(r)'
    <2>1. SlicesOK(r) /\ PartsOK(r) /\ StreamOK(r)
      BY <1>0 DEF SlicesInv, PartsThere, StreamsInv
    <2>2. CASE r # s
      <3>1. activeUploads'[r] = activeUploads[r] /\ completedParts'[r] = completedParts[r] /\ loop'[r] = loop[r]
        BY <1>5, <2>2
      <3> QED BY <1>0, <1>8, <1>9, <2>1, <3>1, SlicesDone
    <2>3. CASE r = s
      BY <1>5, <1>9, <2>3, Zenon DEF SlicesOK, PartsOK, Stored
    <2> QED BY <2>2, <2>3
  <1> QED BY <1>4, <1>10, <1>11, SlicesNext DEF Struct

\* UploadCompleter.
LEMMA CompleterStruct ==
  ASSUME Struct, ExpireTracker \/ \E u \in Uploads : CheckUpload(u)
  PROVE  Struct'
  <1>0. Types /\ StreamsInv /\ SlicesInv /\ PartsThere
    BY DEF Struct
  <1>1. Types'
    BY <1>0, CompleterTypes
  <1>2. UNCHANGED <<writerVars, clientVars, serverVars, sliceVars>>
    BY Zenon DEF ExpireTracker, CheckUpload
  <1>3. /\ UNCHANGED <<stream, pc, lastStatus, trimmed, conn, wire, statusCh, handler, loop, upload>>
        /\ UNCHANGED <<current, activeUploads, completedParts>>
    BY <1>2, Zenon DEF writerVars, clientVars, serverVars, sliceVars
  <1>4. /\ \A v \in Streams : uploads[v] # uploads'[v] => uploads[v] = "active" /\ uploads'[v] = "completed"
        /\ \A v \in Streams : uploads'[v] = "active" => parts'[v] = parts[v]
    <2>1. CASE ExpireTracker
      BY <2>1, Zenon DEF ExpireTracker, storageVars
    <2>2. ASSUME NEW u \in Uploads, CheckUpload(u)
          PROVE  /\ \A v \in Streams : uploads[v] # uploads'[v] => uploads[v] = "active" /\ uploads'[v] = "completed"
                 /\ \A v \in Streams : uploads'[v] = "active" => parts'[v] = parts[v]
      <3>1. CompleteUpload("completer", u, DOMAIN parts[u]) /\ u \in Streams
        BY <2>2, EventTypes, Zenon DEF CheckUpload
      <3> QED BY <1>0, <3>1, CompleteUploadFacts
    <2> QED BY <2>1, <2>2
  <1>5. ASSUME NEW r \in Streams PROVE StreamOK(r)'
    <2>1. StreamOK(r) /\ (upload[r] = 0 \/ upload[r] \in Streams)
      BY <1>0, TypeFacts DEF StreamsInv
    <2>2. (uploads'[r] # "none" => uploads[r] # "none") /\ (upload[r] # 0 => uploads'[upload[r]] # "none")
      BY <1>4, <2>1 DEF StreamOK
    <2> QED BY <1>3, <2>1, <2>2, Zenon DEF StreamOK, Fresh, Idle
  <1>6. WriterOK'
    BY <1>0, <1>3, Zenon DEF StreamsInv, WriterOK
  <1>7. ASSUME NEW r \in Streams PROVE SlicesOK(r)' /\ PartsOK(r)'
    <2>1. SlicesOK(r) /\ PartsOK(r) /\ StreamOK(r)
      BY <1>0 DEF SlicesInv, PartsThere, StreamsInv
    <2> QED BY <1>0, <1>3, <1>4, <2>1, SlicesDone
  <1> QED BY <1>1, <1>5, <1>6, <1>7, StreamsNext, SlicesNext DEF Struct

LEMMA InitStruct ==
  ASSUME Init
  PROVE  Struct
  <1>1. WriterTypes
    <2>1. 0 \in 0..FastAttempts /\ <<>> \in Seq(Events) /\ 1 \in Streams
      BY RecordingAssumption, EventTypes
    <2> QED BY <2>1, Zenon DEF Init, WriterTypes
  <1>2. ClientTypes
    <2>1. <<>> \in Seq(Messages)
      BY EmptySeq
    <2>2. conn \in [Streams -> {"none", "up", "down"}]
      BY DEF Init
    <2>3. wire \in [Streams -> Seq(Messages)] /\ statusCh \in [Streams -> Events \cup {-1, None}]
      BY <2>1, Zenon DEF Init
    <2> QED BY <2>2, <2>3 DEF ClientTypes
  <1>3. ServerTypes
    BY DEF Init, ServerTypes
  <1>4. SliceTypes /\ ActiveTypes
    <2>1. 0 \in Nat /\ {} \in SUBSET PartNumbers
      OBVIOUS
    <2>2. SliceTypes
      BY <2>1, Zenon DEF Init, SliceTypes
    <2>3. ASSUME NEW s \in Streams PROVE activeUploads[s] = NoParts /\ loop[s] = "none"
      BY Zenon DEF Init
    <2> QED BY <2>2, <2>3, EventTypes DEF ActiveTypes
  <1>5. StorageTypes /\ PartsBounded
    <2>1. IsParts(NoParts) /\ \E m \in Nat : \A n \in DOMAIN NoParts : n <= m
      BY EventTypes DEF IsParts
    <2>2. DOMAIN parts = Uploads /\ \A u \in Uploads : parts[u] = NoParts
      BY Zenon DEF Init
    <2>3. PartsBounded /\ \A u \in Uploads : IsParts(parts[u])
      BY <2>1, <2>2, Zenon DEF PartsBounded
    <2>4. uploads \in [Uploads -> {"none", "active", "completed"}] /\ IsParts(recording) /\ erased \subseteq Events /\ omitted \subseteq Events
      BY <2>1, Zenon DEF Init
    <2>5. source \in [by : {"stream", "completer", Nobody}, upload : Uploads \cup {0}]
      BY DEF Init
    <2> QED BY <2>2, <2>3, <2>4, <2>5 DEF StorageTypes
  <1>6. Types
    BY <1>1, <1>2, <1>3, <1>4, <1>5, TypeParts DEF Types
  <1>7. ASSUME NEW s \in Streams
        PROVE  /\ loop[s] = "none" /\ upload[s] = 0 /\ wire[s] = <<>> /\ activeUploads[s] = NoParts /\ current[s] = NoSlice
               /\ statusCh[s] = None /\ uploads[s] = "none"
               /\ (conn[s] = "up" /\ handler[s] = "opening" /\ s = 1) \/ (conn[s] = "none" /\ handler[s] = "none" /\ s # 1)
    BY EventTypes DEF Init
  <1>8. StreamsInv
    <2>1. WriterOK
      BY EventTypes DEF Init, WriterOK
    <2>2. stream = 1
      BY DEF Init
    <2> QED BY <1>7, <2>1, <2>2, EventTypes DEF StreamsInv, StreamOK, Fresh, Idle
  <1>9. SlicesInv /\ PartsThere
    BY <1>7, EventTypes DEF SlicesInv, SlicesOK, PartsThere, PartsOK
  <1> QED BY <1>6, <1>8, <1>9 DEF Struct

LEMMA NextStruct ==
  ASSUME Struct, [Next]_vars
  PROVE  Struct'
  <1>1. CASE UNCHANGED vars
    <2>1. UNCHANGED <<writerVars, clientVars, serverVars, sliceVars, storageVars, tracker>>
      BY <1>1, Zenon DEF vars
    <2>2. loop' = loop
      BY <2>1 DEF serverVars
    <2>3. Types'
      BY <2>1, <2>2, TypeFacts, WriterKept, ClientKept, ServerKept, SliceKept, StorageKept, TypePartsNext DEF Struct, Types
    <2>4. UNCHANGED <<stream, conn, wire, statusCh, pc, lastStatus, trimmed>>
      BY <2>1, Zenon DEF writerVars, clientVars
    <2>5. pc' = "resume" => conn'[stream] = "down"
      BY <2>4, Zenon DEF Struct, StreamsInv, WriterOK
    <2>7. UNCHANGED <<loop, upload, activeUploads, completedParts, uploads, parts>>
      BY <2>1, Zenon DEF serverVars, sliceVars, storageVars
    <2>6. StreamsInv'
      BY <2>1, <2>4, <2>5, <2>7, WriterStreams DEF Struct
    <2>8. SlicesInv' /\ PartsThere'
      BY <2>7, SlicesSame DEF Struct
    <2> QED BY <2>3, <2>6, <2>8 DEF Struct
  <1>2. CASE ProcessEvents \/ EndStream
    <2>1. 1 \in Streams
      BY EventTypes
    <2> QED BY <1>2, <2>1, WriterStruct, ResumeStruct DEF ProcessEvents
  <1>3. ASSUME NEW s \in Streams, Serve(s) \/ FlushSlice(s) \/ Break(s) \/ Crash(s) PROVE Struct'
    BY <1>3, OpenStruct, HandlerStruct, StartUploadStruct, UploadSliceStruct, CompletedUploadStruct, LoopEndsStruct,
       WriterStruct DEF Serve
  <1>4. CASE ExpireTracker \/ \E u \in Uploads : CheckUpload(u)
    BY <1>4, CompleterStruct
  <1> QED BY <1>1, <1>2, <1>3, <1>4, Zenon DEF Next, System

\* Every reconnect of the writer, every end of a handler and every upload leaves the
\* streams, their slices and the storage in a consistent state: one stream is in use,
\* one slice of it is being uploaded, and a part that a stream counts as completed is
\* there.
THEOREM RecordingStructure == Spec => []Struct
  BY InitStruct, NextStruct, PTL DEF Spec

\* The state of the writer, of ProtoStream and of the storage stays well formed: parts
\* have positive numbers and hold events, and tryResumeStream makes no attempt more
\* than it may.
THEOREM RecordingTypeCorrect == Spec => []TypeOK
  <1>1. Struct => TypeOK
    BY DEF Struct, Types
  <1> QED BY <1>1, RecordingStructure, PTL

-----------------------------------------------------------------------------
(* Events on their way to the storage *)

\* More is stored, and a slice that is stored is dealt with.
LEMMA FlowMore ==
  ASSUME NEW good, NEW safe, NEW taken, NEW stored, NEW up, NEW slice, NEW sent,
         Flow(good, safe, taken, stored, up, slice, sent),
         NEW safe2, safe \subseteq safe2, NEW stored2, stored2 \subseteq stored
  PROVE  Flow(good, safe2, taken, stored2, up, slice, sent)
  <1>1. stored2 \subseteq taken /\ up \subseteq taken /\ slice \subseteq taken /\ Range(sent) \subseteq taken
    BY Zenon DEF Flow
  <1>2. good \subseteq safe2 \cup up \cup slice \cup Range(sent)
    BY Zenon DEF Flow
  <1>3. \A e \in stored2, x \in good : x <= e => x \in safe2
    BY Zenon DEF Flow
  <1>4. \A e \in up, x \in good : x <= e => x \in safe2 \cup up
    BY Zenon DEF Flow
  <1>5. \A e \in slice, x \in good : x <= e => x \in safe2 \cup up \cup slice
    BY Zenon DEF Flow
  <1>6. \A k \in DOMAIN sent, x \in good : x <= sent[k] => x \in safe2 \cup up \cup slice \cup {sent[j] : j \in 1..k}
    BY Zenon DEF Flow
  <1> QED BY <1>1, <1>2, <1>3, <1>4, <1>5, <1>6, Zenon DEF Flow

\* The writer takes an event and sends it.
LEMMA FlowTake ==
  ASSUME NEW good, NEW safe, NEW taken \in SUBSET Int, NEW stored, NEW up, NEW slice, NEW S, NEW sent \in Seq(S),
         Flow(good, safe, taken, stored, up, slice, sent), good \subseteq taken,
         NEW i \in Int, i \in S, NEW good2, good2 \subseteq good \cup {i}, i \in good2 => \A e \in taken : e < i
  PROVE  Flow(good2, safe, taken \cup {i}, stored, up, slice, Append(sent, i))
  <1> DEFINE sent2 == Append(sent, i)
  <1>0. /\ Range(sent2) = Range(sent) \cup {i} /\ DOMAIN sent = 1..Len(sent) /\ Len(sent) \in Nat
        /\ DOMAIN sent2 = 1..(Len(sent) + 1) /\ sent2[Len(sent) + 1] = i /\ \A k \in 1..Len(sent) : sent2[k] = sent[k]
    <2>1. Range(sent2) = Range(sent) \cup {i}
      BY RangeAppend
    <2>2. Len(sent2) = Len(sent) + 1 /\ sent2 \in Seq(S) /\ Len(sent) \in Nat
      BY AppendProperties, LenProperties
    <2>3. sent2[Len(sent) + 1] = i /\ \A k \in 1..Len(sent) : sent2[k] = sent[k]
      BY <2>2, AppendProperties
    <2> QED BY <2>1, <2>2, <2>3, LenProperties
  <1> HIDE DEF sent2
  <1>1. /\ stored \subseteq taken /\ up \subseteq taken /\ slice \subseteq taken /\ Range(sent) \subseteq taken
        /\ good \subseteq safe \cup up \cup slice \cup Range(sent)
    BY Zenon DEF Flow
  <1>2. \A e \in taken : ~(i \in good2 /\ i <= e)
    OBVIOUS
  <1>3. \A e \in stored, x \in good2 : x <= e => x \in safe
    BY <1>1, <1>2, Zenon DEF Flow
  <1>4. \A e \in up, x \in good2 : x <= e => x \in safe \cup up
    BY <1>1, <1>2, Zenon DEF Flow
  <1>5. \A e \in slice, x \in good2 : x <= e => x \in safe \cup up \cup slice
    BY <1>1, <1>2, Zenon DEF Flow
  <1>6. ASSUME NEW k \in DOMAIN sent2, NEW x \in good2, x <= sent2[k]
        PROVE  x \in safe \cup up \cup slice \cup {sent2[j] : j \in 1..k}
    <2>1. CASE k = Len(sent) + 1
      <3>1. \A y \in Range(sent) : \E j \in 1..k : y = sent2[j]
        BY <1>0, <2>1 DEF Range
      <3>2. i \in {sent2[j] : j \in 1..k}
        BY <1>0, <2>1
      <3> QED BY <1>1, <3>1, <3>2
    <2>2. CASE k # Len(sent) + 1
      <3>1. k \in 1..Len(sent) /\ sent2[k] = sent[k] /\ sent[k] \in taken
        BY <1>0, <1>1, <2>2 DEF Range
      <3>2. x \in good
        BY <1>2, <1>6, <3>1
      <3>3. x \in safe \cup up \cup slice \cup {sent[j] : j \in 1..k}
        BY <1>0, <1>6, <3>1, <3>2, Zenon DEF Flow
      <3>4. \A j \in 1..k : sent2[j] = sent[j]
        BY <1>0, <3>1
      <3> QED BY <3>3, <3>4
    <2> QED BY <2>1, <2>2
  <1>7. good2 \subseteq safe \cup up \cup slice \cup Range(sent2)
    BY <1>0, <1>1
  <1>8. stored \subseteq taken \cup {i} /\ up \subseteq taken \cup {i} /\ slice \subseteq taken \cup {i} /\ Range(sent2) \subseteq taken \cup {i}
    BY <1>0, <1>1
  <1> QED BY <1>3, <1>4, <1>5, <1>6, <1>7, <1>8, Zenon DEF Flow, sent2

\* An event goes from the connection to the slice.
LEMMA FlowReceive ==
  ASSUME NEW good, NEW safe, NEW taken, NEW stored, NEW up, NEW slice, NEW S, NEW sent \in Seq(S), sent # <<>>,
         Flow(good, safe, taken, stored, up, slice, sent)
  PROVE  Flow(good, safe, taken, stored, up, slice \cup {Head(sent)}, Tail(sent))
  <1>0. PICK n \in Nat : /\ DOMAIN sent = 1..(n + 1) /\ Head(sent) = sent[1]
                         /\ DOMAIN Tail(sent) = 1..n /\ \A k \in 1..n : Tail(sent)[k] = sent[k + 1]
    <2>1. Len(sent) \in Nat /\ Len(sent) # 0
      BY LenProperties, EmptySeq
    <2> QED BY <2>1, HeadTailProperties
  <1>1. /\ stored \subseteq taken /\ up \subseteq taken /\ slice \subseteq taken /\ Range(sent) \subseteq taken
        /\ good \subseteq safe \cup up \cup slice \cup Range(sent)
    BY Zenon DEF Flow
  <1>2. Range(sent) = {Head(sent)} \cup Range(Tail(sent))
    <2>1. ASSUME NEW x \in Range(sent) PROVE x \in {Head(sent)} \cup Range(Tail(sent))
      <3>1. PICK k \in 1..(n + 1) : x = sent[k]
        BY <1>0 DEF Range
      <3>2. CASE k = 1
        BY <1>0, <3>1, <3>2
      <3>3. CASE k # 1
        <4>1. k - 1 \in 1..n /\ (k - 1) + 1 = k
          BY <3>3
        <4>2. Tail(sent)[k - 1] = x
          BY <1>0, <3>1, <4>1
        <4> QED BY <1>0, <4>1, <4>2 DEF Range
      <3> QED BY <3>2, <3>3
    <2>2. ASSUME NEW x \in {Head(sent)} \cup Range(Tail(sent)) PROVE x \in Range(sent)
      BY <1>0 DEF Range
    <2> QED BY <2>1, <2>2
  <1>3. \A e \in slice \cup {Head(sent)}, x \in good : x <= e => x \in safe \cup up \cup (slice \cup {Head(sent)})
    <2>1. \A e \in slice, x \in good : x <= e => x \in safe \cup up \cup slice
      BY Zenon DEF Flow
    <2>2. 1 \in DOMAIN sent /\ \A j \in 1..1 : sent[j] = Head(sent)
      BY <1>0
    <2>3. \A x \in good : x <= sent[1] => x \in safe \cup up \cup slice \cup {sent[j] : j \in 1..1}
      BY <2>2, Zenon DEF Flow
    <2> QED BY <1>0, <2>1, <2>2, <2>3
  <1>4. ASSUME NEW k \in DOMAIN Tail(sent), NEW x \in good, x <= Tail(sent)[k]
        PROVE  x \in safe \cup up \cup (slice \cup {Head(sent)}) \cup {Tail(sent)[j] : j \in 1..k}
    <2>1. k + 1 \in DOMAIN sent /\ Tail(sent)[k] = sent[k + 1] /\ k \in 1..n
      BY <1>0
    <2>2. x \in safe \cup up \cup slice \cup {sent[j] : j \in 1..(k + 1)}
      BY <1>4, <2>1, Zenon DEF Flow
    <2>3. ASSUME NEW j \in 1..(k + 1) PROVE sent[j] = Head(sent) \/ \E m \in 1..k : sent[j] = Tail(sent)[m]
      <3>1. CASE j = 1
        BY <1>0, <3>1
      <3>2. CASE j # 1
        <4>1. j - 1 \in 1..k /\ j - 1 \in 1..n /\ (j - 1) + 1 = j
          BY <2>1, <3>2
        <4>2. Tail(sent)[j - 1] = sent[j]
          BY <1>0, <4>1
        <4> QED BY <4>1, <4>2
      <3> QED BY <3>1, <3>2
    <2> QED BY <2>2, <2>3
  <1>5. slice \cup {Head(sent)} \subseteq taken /\ Range(Tail(sent)) \subseteq taken
    BY <1>1, <1>2
  <1>6. good \subseteq safe \cup up \cup (slice \cup {Head(sent)}) \cup Range(Tail(sent))
    BY <1>1, <1>2
  <1>7. /\ \A e \in stored, x \in good : x <= e => x \in safe
        /\ \A e \in up, x \in good : x <= e => x \in safe \cup up
    BY Zenon DEF Flow
  <1> QED BY <1>1, <1>3, <1>4, <1>5, <1>6, <1>7, Zenon DEF Flow

\* The writer takes an event that is omitted.
LEMMA FlowOmit ==
  ASSUME NEW good, NEW safe, NEW taken, NEW stored, NEW up, NEW slice, NEW sent,
         Flow(good, safe, taken, stored, up, slice, sent),
         NEW i, NEW good2, good2 \subseteq good \cup {i}, NEW safe2, safe \cup {i} \subseteq safe2
  PROVE  Flow(good2, safe2, taken \cup {i}, stored, up, slice, sent)
  <1>1. /\ stored \subseteq taken \cup {i} /\ up \subseteq taken \cup {i} /\ slice \subseteq taken \cup {i}
        /\ Range(sent) \subseteq taken \cup {i}
    BY Zenon DEF Flow
  <1>2. good2 \subseteq safe2 \cup up \cup slice \cup Range(sent)
    BY DEF Flow
  <1>3. \A x \in good2 : x \in good \/ x \in safe2
    OBVIOUS
  <1>4. \A e \in stored, x \in good2 : x <= e => x \in safe2
    BY <1>3, Zenon DEF Flow
  <1>5. \A e \in up, x \in good2 : x <= e => x \in safe2 \cup up
    BY <1>3, Zenon DEF Flow
  <1>6. \A e \in slice, x \in good2 : x <= e => x \in safe2 \cup up \cup slice
    BY <1>3, Zenon DEF Flow
  <1>7. \A k \in DOMAIN sent, x \in good2 : x <= sent[k] => x \in safe2 \cup up \cup slice \cup {sent[j] : j \in 1..k}
    BY <1>3, Zenon DEF Flow
  <1> QED BY <1>1, <1>2, <1>4, <1>5, <1>6, <1>7, Zenon DEF Flow

\* An event of the slice is omitted.
LEMMA FlowDrop ==
  ASSUME NEW good, NEW safe, NEW taken, NEW stored, NEW up, NEW slice2, NEW sent,
         Flow(good, safe, taken, stored, up, slice2, sent),
         NEW slice, slice \subseteq slice2, NEW safe2, safe \cup (slice2 \ slice) \subseteq safe2
  PROVE  Flow(good, safe2, taken, stored, up, slice, sent)
  <1>1. stored \subseteq taken /\ up \subseteq taken /\ slice \subseteq taken /\ Range(sent) \subseteq taken
    BY Zenon DEF Flow
  <1>2. \A x \in slice2 : x \in slice \/ x \in safe2
    OBVIOUS
  <1>3. good \subseteq safe2 \cup up \cup slice \cup Range(sent)
    BY <1>2 DEF Flow
  <1>4. \A e \in stored, x \in good : x <= e => x \in safe2
    BY Zenon DEF Flow
  <1>5. \A e \in up, x \in good : x <= e => x \in safe2 \cup up
    BY Zenon DEF Flow
  <1>6. \A e \in slice, x \in good : x <= e => x \in safe2 \cup up \cup slice
    BY <1>2, Zenon DEF Flow
  <1>7. \A k \in DOMAIN sent, x \in good : x <= sent[k] => x \in safe2 \cup up \cup slice \cup {sent[j] : j \in 1..k}
    BY <1>2, Zenon DEF Flow
  <1> QED BY <1>1, <1>3, <1>4, <1>5, <1>6, <1>7, Zenon DEF Flow

\* The slice becomes the one that is uploaded.
LEMMA FlowStart ==
  ASSUME NEW good, NEW safe, NEW taken, NEW stored, NEW slice, NEW sent,
         Flow(good, safe, taken, stored, {}, slice, sent), NEW stored2, stored2 \subseteq stored
  PROVE  Flow(good, safe, taken, stored2, slice, {}, sent)
  <1>1. stored2 \subseteq taken /\ slice \subseteq taken /\ {} \subseteq taken /\ Range(sent) \subseteq taken
    BY Zenon DEF Flow
  <1>2. good \subseteq safe \cup slice \cup {} \cup Range(sent)
    BY DEF Flow
  <1>3. \A e \in stored2, x \in good : x <= e => x \in safe
    BY Zenon DEF Flow
  <1>4. \A e \in slice, x \in good : x <= e => x \in safe \cup slice
    BY DEF Flow
  <1>5. \A k \in DOMAIN sent, x \in good : x <= sent[k] => x \in safe \cup slice \cup {} \cup {sent[j] : j \in 1..k}
    <2>1. \A k \in DOMAIN sent, x \in good : x <= sent[k] => x \in safe \cup {} \cup slice \cup {sent[j] : j \in 1..k}
      BY Zenon DEF Flow
    <2> QED BY <2>1
  <1> QED BY <1>1, <1>2, <1>3, <1>4, <1>5 DEF Flow

\* The slice that is uploaded gets stored.
LEMMA FlowStore ==
  ASSUME NEW good, NEW safe, NEW taken, NEW stored, NEW up, NEW slice, NEW sent,
         Flow(good, safe, taken, stored, up, slice, sent),
         NEW safe2, safe \cup up \subseteq safe2, NEW stored2, stored2 \subseteq stored \cup up
  PROVE  Flow(good, safe2, taken, stored2, {}, slice, sent)
  <1>1. stored2 \subseteq taken /\ slice \subseteq taken /\ {} \subseteq taken /\ Range(sent) \subseteq taken
    BY Zenon DEF Flow
  <1>2. good \subseteq safe2 \cup {} \cup slice \cup Range(sent)
    BY DEF Flow
  <1>3. \A e \in stored2, x \in good : x <= e => x \in safe2
    BY Zenon DEF Flow
  <1>4. \A e \in slice, x \in good : x <= e => x \in safe2 \cup {} \cup slice
    BY DEF Flow
  <1>5. \A k \in DOMAIN sent, x \in good : x <= sent[k] => x \in safe2 \cup {} \cup slice \cup {sent[j] : j \in 1..k}
    <2>1. \A k \in DOMAIN sent, x \in good : x <= sent[k] => x \in safe \cup up \cup slice \cup {sent[j] : j \in 1..k}
      BY Zenon DEF Flow
    <2> QED BY <2>1
  <1> QED BY <1>1, <1>2, <1>3, <1>4, <1>5 DEF Flow

\* An event that is taken later is in order only if it is the largest.
LEMMA OrderAppend ==
  ASSUME NEW t \in Seq(Events), NEW i \in Events, i \notin Range(t)
  PROVE  /\ OvertakenOf(t) \subseteq OvertakenOf(Append(t, i))
         /\ OrderOf(Append(t, i)) \subseteq OrderOf(t) \cup {i}
         /\ i \in OrderOf(Append(t, i)) => \A e \in Range(t) : e < i
  <1> DEFINE u == Append(t, i)
  <1>0. PICK n \in Nat : /\ Len(t) = n /\ Len(u) = n + 1 /\ u[n + 1] = i /\ \A k \in 1..n : u[k] = t[k]
                         /\ DOMAIN t = 1..n /\ Range(u) = Range(t) \cup {i}
    <2>1. Range(u) = Range(t) \cup {i}
      BY RangeAppend
    <2>2. Len(t) \in Nat /\ Len(u) = Len(t) + 1 /\ u[Len(t) + 1] = i /\ \A k \in 1..Len(t) : u[k] = t[k]
      BY AppendProperties, LenProperties
    <2> QED BY <2>1, <2>2, LenProperties
  <1> HIDE DEF u
  <1>1. \A e \in Range(t) : e \in Nat
    <2>1. \A e \in Events : e \in Nat
      BY EventTypes
    <2>2. Range(t) \subseteq Events
      BY DEF Range
    <2> QED BY <2>1, <2>2, Zenon
  <1>2. OvertakenOf(t) \subseteq OvertakenOf(u)
    <2> SUFFICES ASSUME NEW x \in OvertakenOf(t) PROVE x \in OvertakenOf(u)
      OBVIOUS
    <2>1. PICK k \in 1..n : x = t[k] /\ \E j \in 1..(k - 1) : t[j] > t[k]
      BY <1>0 DEF OvertakenOf
    <2>2. PICK j \in 1..(k - 1) : t[j] > t[k]
      BY <2>1
    <2>3. j \in 1..n /\ k \in 1..(n + 1)
      BY <1>0
    <2>4. u[j] > u[k] /\ u[k] = x
      BY <1>0, <2>1, <2>2, <2>3
    <2> QED BY <1>0, <2>3, <2>4 DEF OvertakenOf
  <1>3. OrderOf(u) \subseteq OrderOf(t) \cup {i}
    BY <1>0, <1>2 DEF OrderOf
  <1>4. ASSUME i \in OrderOf(u), NEW e \in Range(t) PROVE e < i
    <2>1. PICK j \in 1..n : e = t[j]
      BY <1>0 DEF Range
    <2>2. j \in 1..((n + 1) - 1) /\ n + 1 \in 1..Len(u) /\ u[j] = e
      BY <1>0, <2>1
    <2>3. ~(u[j] > u[n + 1])
      BY <1>0, <1>4, <2>2 DEF OrderOf, OvertakenOf
    <2>4. e \in Nat /\ i \in Nat /\ e # i
      BY <1>1, EventTypes
    <2> QED BY <1>0, <2>2, <2>3, <2>4
  <1> QED BY <1>2, <1>3, <1>4 DEF u

\* The writer sends its buffer: where an event is, those in order before it are too,
\* or were taken off the buffer.
LEMMA FlowReplay ==
  ASSUME NEW a \in Seq(Events), NEW b \in Seq(Events), NEW safe,
         \A x \in Range(a) : x \in OrderOf(a \o b) => x \in safe
  PROVE  Flow(OrderOf(a \o b), safe, Range(a \o b), {}, {}, {}, b)
  <1> DEFINE t == a \o b
  <1>0. PICK m \in Nat, n \in Nat : /\ Len(t) = m + n /\ DOMAIN b = 1..n /\ DOMAIN a = 1..m
                                    /\ \A k \in 1..n : t[m + k] = b[k]
    <2>1. /\ Len(t) = Len(a) + Len(b) /\ Len(a) \in Nat /\ Len(b) \in Nat
          /\ \A i \in 1..Len(a) + Len(b) : t[i] = IF i <= Len(a) THEN a[i] ELSE b[i - Len(a)]
      BY ConcatProperties, LenProperties
    <2>2. ASSUME NEW k \in 1..Len(b) PROVE t[Len(a) + k] = b[k]
      <3>1. Len(a) + k \in 1..(Len(a) + Len(b)) /\ ~(Len(a) + k <= Len(a)) /\ (Len(a) + k) - Len(a) = k
        BY <2>1
      <3> QED BY <2>1, <3>1
    <2> QED BY <2>1, <2>2, LenProperties
  <1>1. Range(t) = Range(a) \cup Range(b)
    BY RangeConcat
  <1> HIDE DEF t
  <1>2. OrderOf(t) \subseteq safe \cup {} \cup {} \cup Range(b)
    BY <1>1 DEF OrderOf, t
  <1>3. ASSUME NEW k \in DOMAIN b, NEW x \in OrderOf(t), x <= b[k]
        PROVE  x \in safe \cup {} \cup {} \cup {b[j] : j \in 1..k}
    <2>1. CASE x \in Range(a)
      BY <2>1 DEF t
    <2>2. CASE x \in Range(b)
      <3>1. PICK j \in 1..n : x = b[j]
        BY <1>0, <2>2 DEF Range
      <3>2. CASE j <= k
        BY <1>0, <3>1, <3>2
      <3>3. CASE j > k
        <4>1. m + k \in 1..((m + j) - 1) /\ m + j \in 1..Len(t) /\ t[m + k] = b[k] /\ t[m + j] = b[j]
          BY <1>0, <3>3
        <4>2. ~(t[m + k] > t[m + j])
          BY <3>1, <4>1 DEF OrderOf, OvertakenOf
        <4>3. b[k] \in Nat /\ b[j] \in Nat
          <5>1. b[k] \in Events /\ b[j] \in Events
            BY <1>0
          <5> QED BY <5>1, EventTypes
        <4>4. x = b[k]
          BY <1>3, <3>1, <4>1, <4>2, <4>3
        <4> QED BY <1>0, <4>4
      <3> QED BY <1>0, <3>2, <3>3
    <2> QED BY <1>1, <2>1, <2>2 DEF OrderOf
  <1>4. Range(b) \subseteq Range(t)
    BY <1>1
  <1> QED BY <1>2, <1>3, <1>4 DEF Flow, t

\* Overtaken of the model.
LEMMA OvertakenFact == Overtaken = OvertakenOf(Taken) /\ InOrder = Range(Taken) \ Overtaken
  BY Zenon DEF Overtaken, OvertakenOf, InOrder, OrderOf

-----------------------------------------------------------------------------
(* The storage keeps what it has *)

\* An upload is active once; until it is completed its parts lose nothing but what is
\* overwritten.  What is lost, overwritten or omitted, stays lost.
Grows ==
    /\ Lost \subseteq Lost'
    /\ \A u \in Streams : uploads[u] # "none" /\ uploads'[u] = "active" =>
          /\ uploads[u] = "active" /\ DOMAIN parts[u] \subseteq DOMAIN parts'[u]
          /\ \A m \in DOMAIN parts[u] : Range(parts[u][m]) \subseteq Lost' \cup Range(parts'[u][m])

LEMMA GrowsFact ==
  ASSUME Grows, NEW u \in Streams, uploads[u] # "none", uploads'[u] = "active"
  PROVE  uploads[u] = "active" /\ Lost \cup EventsOf(parts[u]) \subseteq Lost' \cup EventsOf(parts'[u])
  <1>1. ASSUME NEW x \in EventsOf(parts[u]) PROVE x \in Lost' \cup EventsOf(parts'[u])
    <2>1. PICK m \in DOMAIN parts[u] : x \in Range(parts[u][m])
      BY DEF EventsOf
    <2>2. m \in DOMAIN parts'[u] /\ Range(parts[u][m]) \subseteq Lost' \cup Range(parts'[u][m])
      BY DEF Grows
    <2> QED BY <2>1, <2>2 DEF EventsOf
  <1> QED BY <1>1 DEF Grows

LEMMA StorageGrows ==
  ASSUME Struct, [Next]_vars
  PROVE  Grows
  <1>0. Types /\ StreamsInv /\ ActiveTypes
    BY TypeFacts DEF Struct
  <1>1. CASE UNCHANGED storageVars
    BY <1>1, Zenon DEF storageVars, Grows, Lost
  <1>00. CASE UNCHANGED <<parts, uploads, erased>> /\ omitted \subseteq omitted'
    <2>1. Lost \subseteq Lost'
      BY <1>00 DEF Lost
    <2> QED BY <1>00, <2>1, Zenon DEF Grows
  <1>2. ASSUME NEW s \in Streams, Open(s) PROVE Grows
    <2>1. \A v \in Streams : uploads[v] # "none" => uploads'[v] = uploads[v]
      BY <1>2, OpenStruct
    <2>2. UNCHANGED <<parts, Lost>>
      BY <1>2, Zenon DEF Open, Lost
    <2> QED BY <2>1, <2>2, Zenon DEF Grows
  <1>3. ASSUME NEW s \in Streams, NEW n \in DOMAIN activeUploads[s], UploadSlice(s, n) PROVE Grows
    <2>1. uploads' = uploads
      BY <1>3, Zenon DEF UploadSlice
    <2>2. CASE uploads[upload[s]] # "active"
      <3>1. UNCHANGED <<parts, Lost>>
        BY <1>3, <2>2, Zenon DEF UploadSlice, Lost
      <3> QED BY <2>1, <3>1, Zenon DEF Grows
    <2>3. CASE uploads[upload[s]] = "active"
      <3>1. StreamOK(s) /\ upload[s] \in Streams \cup {0}
        BY <1>0, TypeFacts DEF StreamsInv
      <3>2. PICK u \in Streams : u = upload[s]
        BY <3>1 DEF StreamOK, Idle
      <3>3. PICK slice \in Seq(Events) : slice = activeUploads[s][n].slice
        BY <1>0 DEF ActiveTypes, Slices
      <3>4. UploadPart(u, n, slice) /\ n \in PartNumbers
        BY <1>0, <1>3, <2>3, <3>2, <3>3, Zenon DEF UploadSlice, ActiveTypes
      <3>5. /\ \A v \in Streams : v # u => parts'[v] = parts[v]
            /\ DOMAIN parts'[u] = DOMAIN parts[u] \cup {n} /\ parts'[u][n] = slice
            /\ \A m \in DOMAIN parts[u] : m # n => parts'[u][m] = parts[u][m]
            /\ Lost' = Lost \cup (IF n \in DOMAIN parts[u] THEN Range(parts[u][n]) \ Range(slice) ELSE {})
        <4>1. omitted' = omitted
          BY <1>3, Zenon DEF UploadSlice
        <4>2. erased' = erased \cup (IF n \in DOMAIN parts[u] THEN Range(parts[u][n]) \ Range(slice) ELSE {})
          BY <1>0, <3>4, UploadPartFacts
        <4>3. Lost' = Lost \cup (IF n \in DOMAIN parts[u] THEN Range(parts[u][n]) \ Range(slice) ELSE {})
          BY <4>1, <4>2 DEF Lost
        <4> QED BY <1>0, <3>4, <4>3, UploadPartFacts
      <3>6. Lost \subseteq Lost'
        BY <3>5
      <3>7. ASSUME NEW m \in DOMAIN parts[u] PROVE Range(parts[u][m]) \subseteq Lost' \cup Range(parts'[u][m])
        <4>1. CASE m = n
          BY <3>5, <4>1
        <4>2. CASE m # n
          BY <3>5, <4>2
        <4> QED BY <4>1, <4>2
      <3> QED BY <2>1, <3>5, <3>6, <3>7, Zenon DEF Grows
    <2> QED BY <2>2, <2>3
  <1>4. ASSUME NEW u \in Streams, NEW by, NEW ps, CompleteUpload(by, u, ps), UNCHANGED Lost PROVE Grows
    <2>1. /\ \A v \in Streams : uploads[v] # uploads'[v] => uploads[v] = "active" /\ uploads'[v] = "completed"
          /\ \A v \in Streams : uploads'[v] = "active" => parts'[v] = parts[v]
      BY <1>0, <1>4, CompleteUploadFacts
    <2> QED BY <1>4, <2>1 DEF Grows
  <1>5. ASSUME NEW s \in Streams, FinishStream(s) PROVE Grows
    <2>1. CASE UNCHANGED storageVars
      BY <1>1, <2>1
    <2>2. CASE CompleteUpload("stream", upload[s], completedParts[s] \cup Stored(s)) /\ UNCHANGED <<erased, omitted>>
      <3>0. UNCHANGED Lost
        BY <2>2, Zenon DEF Lost
      <3>1. StreamOK(s) /\ upload[s] \in Streams \cup {0} /\ loop[s] = "drain"
        BY <1>0, <1>5, TypeFacts DEF StreamsInv, FinishStream
      <3>2. upload[s] \in Streams
        BY <3>1 DEF StreamOK
      <3> QED BY <1>4, <2>2, <3>0, <3>2
    <2> QED BY <1>5, <2>1, <2>2, Zenon DEF FinishStream, storageVars, Stored
  <1>6. ASSUME NEW u \in Uploads, CheckUpload(u) PROVE Grows
    <2>1. UNCHANGED Lost
      BY <1>6, Zenon DEF CheckUpload, Lost
    <2> QED BY <1>4, <1>6, <2>1, EventTypes, Zenon DEF CheckUpload
  <1>9. ASSUME NEW s \in Streams, ReceiveEvent(s) PROVE Grows
    <2>1. UNCHANGED <<parts, uploads, erased>> /\ (omitted' = omitted \/ \E i : omitted' = omitted \cup {i})
      BY <1>9, Zenon DEF ReceiveEvent, SubmitEvent, Omit
    <2>2. omitted \subseteq omitted'
      BY <2>1
    <2> QED BY <1>00, <2>1, <2>2
  <1>10. ASSUME NEW i \in Events, TakeEvent(i) PROVE Grows
    <2>1. UNCHANGED <<parts, uploads, erased>> /\ (omitted' = omitted \/ omitted' = omitted \cup {i})
      BY <1>10, Zenon DEF TakeEvent, Omit
    <2>2. omitted \subseteq omitted'
      BY <2>1
    <2> QED BY <1>00, <2>1, <2>2
  <1>7. ASSUME NEW s \in Streams, Serve(s) PROVE Grows
    <2>1. \/ Open(s) \/ FinishStream(s) \/ (\E n \in DOMAIN activeUploads[s] : UploadSlice(s, n)) \/ ReceiveEvent(s)
          \/ UNCHANGED storageVars
      BY <1>7, Zenon DEF Serve, OpenFails, ReceiveComplete, Abandon, UploadLastSlice, CompletedUpload,
             FailedUpload, CompleteProtoStream
    <2> QED BY <1>1, <1>2, <1>3, <1>5, <1>9, <2>1
  <1>8. CASE \/ UNCHANGED vars \/ ProcessEvents \/ EndStream \/ ExpireTracker
             \/ \E s \in Streams : FlushSlice(s) \/ Break(s) \/ Crash(s)
    <2>1. UNCHANGED storageVars \/ \E i \in Events : TakeEvent(i)
      BY <1>8, Zenon DEF vars, ProcessEvents, EndStream, ExpireTracker, FlushSlice, Break, Crash, UpdateStatus, StreamDone,
             ResumeFails, GiveUp, Resumed, ResumeTimeout, Replay, ReplayFails, Resume
    <2> QED BY <1>1, <1>10, <2>1
  <1> QED BY <1>6, <1>7, <1>8, Zenon DEF Next, System

\* What is safe for the writer stays safe while the upload is active.
LEMMA SafeGrows ==
  ASSUME Struct, Grows, UNCHANGED stream, upload'[stream] = upload[stream] \/ upload[stream] = 0, Live'
  PROVE  Live /\ Safe \subseteq Safe'
  <1>1. stream \in Streams /\ upload[stream] \in Streams \cup {0} /\ StreamOK(stream)
    BY TypeFacts DEF Struct, StreamsInv, WriterTypes
  <1>2. CASE upload[stream] = 0
    BY <1>2 DEF Live, Safe, Grows
  <1>3. CASE upload[stream] # 0
    <2>1. PICK u \in Streams : u = upload[stream] /\ u = upload'[stream']
      BY <1>1, <1>3
    <2>2. uploads[u] # "none" /\ uploads'[u] = "active"
      BY <1>1, <1>3, <2>1 DEF StreamOK, Live
    <2>3. uploads[u] = "active" /\ Lost \cup EventsOf(parts[u]) \subseteq Lost' \cup EventsOf(parts'[u])
      BY <2>2, GrowsFact
    <2>4. Safe' = Lost' \cup EventsOf(parts'[u]) /\ Safe = Lost \cup EventsOf(parts[u])
      BY <1>3, <2>1 DEF Safe
    <2> QED BY <2>1, <2>3, <2>4 DEF Live
  <1> QED BY <1>2, <1>3

\* What was confirmed stays stored.
LEMMA ConfirmedKept ==
  ASSUME Struct, ConfirmedStored, Grows, UNCHANGED <<lastStatus, trimmed>>, Overtaken \subseteq Overtaken'
  PROVE  ConfirmedStored'
  <1> SUFFICES ASSUME lastStatus # 0, uploads'[lastStatus] = "active", NEW x \in Range(trimmed)
               PROVE  x \in EventsOf(parts'[lastStatus]) \cup Overtaken' \cup Lost'
    BY Zenon DEF ConfirmedStored
  <1>1. lastStatus \in Streams /\ uploads[lastStatus] # "none"
    <2>1. stream \in Streams /\ lastStatus \in Streams \cup {0} /\ StreamOK(stream) /\ upload[stream] = lastStatus
      BY TypeFacts DEF Struct, StreamsInv, WriterTypes, WriterOK
    <2> QED BY <2>1 DEF StreamOK
  <1>2. /\ uploads[lastStatus] = "active"
        /\ Lost \cup EventsOf(parts[lastStatus]) \subseteq Lost' \cup EventsOf(parts'[lastStatus])
    BY <1>1, GrowsFact
  <1>3. x \in EventsOf(parts[lastStatus]) \cup Overtaken \cup Lost
    BY <1>2, Zenon DEF ConfirmedStored
  <1> QED BY <1>2, <1>3, Zenon

-----------------------------------------------------------------------------
(* What is confirmed is stored *)

\* The events of a writer that takes none.
LEMMA TakenSame ==
  ASSUME UNCHANGED <<buffer, trimmed>>
  PROVE  Taken' = Taken /\ InOrder' = InOrder /\ Overtaken' = Overtaken
  BY Zenon DEF Taken, InOrder, OrderOf, OvertakenOf, Overtaken

LEMMA NowFacts ==
  ASSUME Struct
  PROVE  /\ stream \in Streams /\ statusCh[stream] \in Int /\ None < 0 /\ None \in Int
         /\ Taken \in Seq(Events) /\ Range(Taken) \subseteq Events /\ InOrder \subseteq Range(Taken)
         /\ wire[stream] \in Seq(Messages) /\ StreamOK(stream) /\ SlicesOK(stream) /\ WriterOK
  <1>1. WriterTypes /\ ClientTypes
    BY TypeFacts DEF Struct
  <1>2. stream \in Streams /\ buffer \in Seq(Events) /\ trimmed \in Seq(Events) /\ wire[stream] \in Seq(Messages)
    BY <1>1 DEF WriterTypes, ClientTypes
  <1>3. statusCh[stream] \in Int /\ None < 0 /\ None \in Int
    <2>1. None \in Int
      BY DEF None
    <2> QED BY <1>1, <1>2, <2>1, StatusType
  <1>4. Taken \in Seq(Events)
    BY <1>2, ConcatProperties DEF Taken
  <1>5. Range(Taken) \subseteq Events /\ InOrder \subseteq Range(Taken)
    BY <1>4 DEF Range, InOrder, OrderOf
  <1> QED BY <1>2, <1>3, <1>4, <1>5 DEF Struct, StreamsInv, SlicesInv

\* A step that leaves the writer alone, and its stream but for its end.
LEMMA AwayInv ==
  ASSUME Struct, RecordingInv, Grows, UNCHANGED <<buffer, trimmed, lastStatus, stream, pc>>,
         conn'[stream] = conn[stream] \/ conn'[stream] = "down",
         statusCh'[stream] = statusCh[stream] \/ (statusCh'[stream] \in Int /\ statusCh'[stream] < 0),
         upload'[stream] = upload[stream] \/ upload[stream] = 0,
         conn'[stream] = "up" =>
             /\ wire'[stream] = wire[stream] /\ activeUploads'[stream] = activeUploads[stream]
             /\ current'[stream] = current[stream] \/ (current[stream] = NoSlice /\ current'[stream] = <<>>)
  PROVE  RecordingInv'
  <1>0. ResumedInv /\ FlowInv /\ StatusInv /\ ConfirmedStored /\ statusCh[stream] \in Int
    BY NowFacts DEF RecordingInv
  <1>1. Taken' = Taken /\ InOrder' = InOrder /\ Overtaken' = Overtaken
    BY TakenSame
  <1>2. ConfirmedStored'
    BY <1>0, <1>1, ConfirmedKept
  <1>3. Live' => Live /\ Safe \subseteq Safe'
    BY SafeGrows
  <1>4. ResumedInv'
    BY <1>0 DEF ResumedInv
  <1>5. StatusInv'
    <2> SUFFICES ASSUME pc = "select", statusCh'[stream] > 0, Live'
                 PROVE  statusCh'[stream] \in Range(Taken) /\ \A x \in InOrder : x <= statusCh'[stream] => x \in Safe'
      BY <1>1 DEF StatusInv
    <2>1. statusCh'[stream] = statusCh[stream]
      OBVIOUS
    <2> QED BY <1>0, <1>3, <2>1 DEF StatusInv
  <1>6. FlowInv'
    <2> SUFFICES ASSUME pc = "select", conn'[stream] = "up", Live'
                 PROVE  Flow(InOrder, Safe', Range(Taken), StoredNow', UploadingNow', SliceNow', wire'[stream])
      BY <1>1 DEF FlowInv
    <2>1. Flow(InOrder, Safe, Range(Taken), StoredNow, UploadingNow, SliceNow, wire[stream])
      BY <1>0, <1>3 DEF FlowInv
    <2>2. StoredNow' = StoredNow /\ UploadingNow' = UploadingNow /\ wire'[stream] = wire[stream]
      BY Zenon DEF StoredNow, UploadingNow, EventsIn
    <2>3. SliceNow' = SliceNow
      <3>1. Range(<<>>) = {} /\ NoSlice # <<>> /\ NoSlice' = NoSlice
        BY EventTypes DEF Range
      <3>2. CASE current'[stream] = current[stream]
        BY <3>2 DEF SliceNow, SliceEvents
      <3>3. CASE current[stream] = NoSlice /\ current'[stream] = <<>>
        BY <3>1, <3>3 DEF SliceNow, SliceEvents
      <3> QED BY <3>2, <3>3
    <2>4. Flow(InOrder, Safe', Range(Taken), StoredNow, UploadingNow, SliceNow, wire[stream])
      BY <1>3, <2>1, FlowMore
    <2> QED BY <2>2, <2>3, <2>4
  <1> QED BY <1>2, <1>4, <1>5, <1>6 DEF RecordingInv

\* The writer is not, or no longer, in its loop.
LEMMA OutsideInv ==
  ASSUME Struct, RecordingInv, Grows, UNCHANGED <<trimmed, lastStatus>>, Overtaken \subseteq Overtaken',
         pc' # "select", ResumedInv'
  PROVE  RecordingInv'
  <1>1. ConfirmedStored'
    BY ConfirmedKept DEF RecordingInv
  <1> QED BY <1>1 DEF RecordingInv, FlowInv, StatusInv

\* The steps of the writer outside of its loop.
LEMMA WriterOutsideInv ==
  ASSUME Struct, RecordingInv, Grows,
         StreamDone \/ EndStream \/ ResumeFails \/ GiveUp \/ Resumed \/ ResumeTimeout \/ ReplayFails
  PROVE  RecordingInv'
  <1>1. UNCHANGED <<buffer, trimmed, lastStatus, stream, current, activeUploads>> /\ pc' # "select"
    BY Zenon DEF StreamDone, EndStream, ResumeFails, GiveUp, Resumed, ResumeTimeout, ReplayFails, RecoverStream, sliceVars
  <1>2. Overtaken \subseteq Overtaken'
    BY <1>1, TakenSame
  <1>3. ResumedInv'
    <2>1. CASE Resumed
      <3>1. /\ pc = "await" /\ statusCh' = [statusCh EXCEPT ![stream] = None] /\ UNCHANGED <<conn, wire, current, activeUploads, stream>>
        BY <1>1, <2>1, Zenon DEF Resumed
      <3>2. statusCh'[stream] <= 0
        <4>1. statusCh'[stream] = None /\ None < 0 /\ None \in Int
          BY <3>1, NowFacts, TypeFacts DEF Struct, ClientTypes
        <4> QED BY <4>1
      <3> QED BY <3>1, <3>2, EventTypes DEF ResumedInv, RecordingInv
    <2>2. CASE ~Resumed
      <3>1. pc' \notin {"await", "replay"}
        BY <2>2 DEF StreamDone, EndStream, ResumeFails, GiveUp, ResumeTimeout, ReplayFails, RecoverStream
      <3> QED BY <3>1 DEF ResumedInv
    <2> QED BY <2>1, <2>2
  <1> QED BY <1>1, <1>2, <1>3, OutsideInv

\* A new stream has nothing on it.
LEMMA ResumeInv ==
  ASSUME Struct, RecordingInv, Grows, NEW s \in Streams, Resume(s)
  PROVE  RecordingInv'
  <1>1. /\ UNCHANGED <<buffer, trimmed, lastStatus, wire, statusCh, current, activeUploads>>
        /\ stream' = s /\ pc' = "await" /\ conn[s] = "none"
    BY Zenon DEF Resume, sliceVars
  <1>2. StreamOK(s)
    BY DEF Struct, StreamsInv
  <1>3. wire[s] = <<>> /\ DOMAIN activeUploads[s] = {} /\ current[s] = NoSlice /\ statusCh[s] = None
    BY <1>1, <1>2 DEF StreamOK, Fresh, Idle
  <1>4. ResumedInv'
    <2>1. None <= 0
      <3>1. None < 0 /\ None \in Int
        BY NowFacts
      <3> QED BY <3>1
    <2> QED BY <1>1, <1>3, <2>1 DEF ResumedInv
  <1>5. Overtaken \subseteq Overtaken'
    BY <1>1, TakenSame
  <1> QED BY <1>1, <1>4, <1>5, OutsideInv

\* updateStatus: what the status covers is stored.
LEMMA UpdateStatusInv ==
  ASSUME Struct, RecordingInv, Distinct, Grows, UpdateStatus
  PROVE  RecordingInv'
  <1>0. ResumedInv /\ FlowInv /\ StatusInv /\ ConfirmedStored
    BY DEF RecordingInv
  <1>1. PICK n : /\ n = Covered(statusCh[stream]) /\ trimmed' = trimmed \o SubSeq(buffer, 1, n)
                 /\ buffer' = SubSeq(buffer, n + 1, Len(buffer))
    BY DEF UpdateStatus
  <1>2. /\ lastStatus' = upload[stream] /\ pc = "select" /\ statusCh[stream] # None
        /\ UNCHANGED <<stream, pc, conn, wire, upload, current, activeUploads, uploads, parts, Lost>>
    BY Zenon DEF UpdateStatus, serverVars, sliceVars, storageVars, Lost
  <1>3. buffer \in Seq(Events) /\ trimmed \in Seq(Events) /\ stream \in Streams /\ statusCh[stream] \in Int
    BY TypeFacts, NowFacts DEF Struct, WriterTypes
  <1>4. n \in 0..Len(buffer) /\ (n # 0 => statusCh[stream] > 0) /\ \A j \in 1..n : buffer[j] <= statusCh[stream]
    <2>1. /\ n \in 0..Len(buffer) /\ (n # 0 => statusCh[stream] >= 0 /\ n > 1) /\ Len(buffer) \in Nat
          /\ \A j \in 1..n : buffer[j] <= statusCh[stream]
      BY <1>1, <1>3, CoveredFact, LenProperties
    <2>2. ASSUME n # 0 PROVE statusCh[stream] > 0
      <3>1. 1 \in 1..n /\ 2 \in 1..n /\ 1 \in 1..Len(buffer) /\ 2 \in 1..Len(buffer) /\ 1 # 2
        BY <2>1, <2>2
      <3>2. buffer[1] \in Events /\ buffer[2] \in Events
        BY <1>3, <3>1, ElementOfSeq
      <3>3. buffer[1] \in Nat /\ buffer[2] \in Nat
        BY <3>2, EventTypes
      <3>4. buffer[1] # buffer[2]
        BY <3>1, Zenon DEF Distinct
      <3>5. buffer[1] <= statusCh[stream] /\ buffer[2] <= statusCh[stream]
        BY <2>1, <3>1
      <3> QED BY <1>3, <3>3, <3>4, <3>5
    <2> QED BY <2>1, <2>2
  <1>5. /\ SubSeq(buffer, 1, n) \in Seq(Events) /\ SubSeq(buffer, n + 1, Len(buffer)) \in Seq(Events)
        /\ SubSeq(buffer, 1, n) \o SubSeq(buffer, n + 1, Len(buffer)) = buffer
        /\ \A x \in Range(SubSeq(buffer, 1, n)) : \E j \in 1..n : x = buffer[j]
    BY <1>3, <1>4, CutFact
  <1>6. Taken' = Taken
    <2>1. \A p, q, r \in Seq(Events) : (p \o q) \o r = p \o (q \o r)
      BY ConcatAssociative
    <2>2. PICK p \in Seq(Events), q \in Seq(Events) :
            p = SubSeq(buffer, 1, n) /\ q = SubSeq(buffer, n + 1, Len(buffer)) /\ p \o q = buffer
      BY <1>5
    <2>3. (trimmed \o p) \o q = trimmed \o buffer
      <3>1. (trimmed \o p) \o q = trimmed \o (p \o q)
        BY <1>3, <2>1
      <3> QED BY <2>2, <3>1
    <2> QED BY <1>1, <2>2, <2>3 DEF Taken
  <1>7. InOrder' = InOrder /\ Overtaken' = Overtaken
    BY <1>6, Zenon DEF InOrder, Overtaken
  <1>8. Range(trimmed') = Range(trimmed) \cup Range(SubSeq(buffer, 1, n)) /\ Range(buffer) \subseteq Range(Taken)
    <2>1. Range(Taken) = Range(trimmed) \cup Range(buffer)
      BY <1>3, RangeConcat DEF Taken
    <2>2. Range(trimmed \o SubSeq(buffer, 1, n)) = Range(trimmed) \cup Range(SubSeq(buffer, 1, n))
      BY <1>3, <1>5, RangeConcat
    <2> QED BY <1>1, <2>1, <2>2
  <1>9. ConfirmedStored'
    <2> SUFFICES ASSUME upload[stream] # 0, uploads[upload[stream]] = "active", NEW x \in Range(trimmed')
                 PROVE  x \in EventsOf(parts[upload[stream]]) \cup Overtaken \cup Lost
      BY <1>2, <1>7, Zenon DEF ConfirmedStored
    <2>1. CASE x \in Range(trimmed)
      <3>1. trimmed # <<>>
        BY <2>1 DEF Range
      <3>2. lastStatus # 0 /\ upload[stream] = lastStatus
        BY <3>1, NowFacts DEF WriterOK
      <3> QED BY <1>0, <2>1, <3>2, Zenon DEF ConfirmedStored
    <2>2. CASE x \in Range(SubSeq(buffer, 1, n))
      <3>1. PICK j \in 1..n : x = buffer[j]
        BY <1>5, <2>2
      <3>2. n # 0 /\ x <= statusCh[stream] /\ statusCh[stream] > 0
        BY <1>4, <3>1
      <3>3. x \in Range(Taken)
        <4>1. DOMAIN buffer = 1..Len(buffer) /\ Len(buffer) \in Nat
          BY <1>3, LenProperties
        <4>2. j \in DOMAIN buffer
          BY <1>4, <4>1
        <4>3. x \in Range(buffer)
          BY <3>1, <4>2 DEF Range
        <4> QED BY <1>8, <4>3
      <3>4. x \in InOrder => x \in Safe
        BY <1>0, <1>2, <3>2 DEF StatusInv, Live
      <3>5. x \in InOrder \/ x \in Overtaken
        BY <3>3, OvertakenFact
      <3> QED BY <3>4, <3>5 DEF Safe
    <2> QED BY <1>8, <2>1, <2>2
  <1>10. statusCh'[stream] = None /\ None < 0
    BY <1>3, TypeFacts, NowFacts, Zenon DEF UpdateStatus, Struct, ClientTypes
  <1>11. StatusInv'
    BY <1>2, <1>10, NowFacts DEF StatusInv
  <1>12. ResumedInv'
    BY <1>2 DEF ResumedInv
  <1>13. FlowInv'
    BY <1>0, <1>2, <1>6, <1>7, Zenon DEF FlowInv, Live, Safe, StoredNow, UploadingNow, SliceNow
  <1> QED BY <1>9, <1>11, <1>12, <1>13 DEF RecordingInv

\* An event is taken and sent, or the stream is found broken.
LEMMA TakeEventInv ==
  ASSUME Struct, RecordingInv, Grows, NEW i \in Events, TakeEvent(i)
  PROVE  RecordingInv'
  <1>0. ResumedInv /\ FlowInv /\ StatusInv /\ ConfirmedStored
    BY DEF RecordingInv
  <1>1. /\ buffer' = Append(buffer, i) /\ i \notin Range(Taken) /\ pc = "select"
        /\ UNCHANGED <<trimmed, lastStatus, stream, upload, current, activeUploads, uploads, parts, erased>>
    BY Zenon DEF TakeEvent, Ready, serverVars, sliceVars
  <1>2. buffer \in Seq(Events) /\ trimmed \in Seq(Events)
    BY TypeFacts DEF Struct, WriterTypes
  <1>3. Taken' = Append(Taken, i) /\ Taken \in Seq(Events)
    <2>1. \A p, q \in Seq(Events), e \in Events : p \o Append(q, e) = Append(p \o q, e)
      <3>1. ASSUME NEW p \in Seq(Events), NEW q \in Seq(Events), NEW e \in Events PROVE p \o Append(q, e) = Append(p \o q, e)
        <4>1. \A a \in Seq(Events) : Append(a, e) = a \o <<e>>
          BY AppendIsConcat
        <4>2. p \o q \in Seq(Events) /\ <<e>> \in Seq(Events)
          BY ConcatProperties
        <4>3. (p \o q) \o <<e>> = p \o (q \o <<e>>)
          BY <4>2, ConcatAssociative
        <4> QED BY <4>1, <4>2, <4>3
      <3> QED BY <3>1
    <2>2. trimmed \o Append(buffer, i) = Append(trimmed \o buffer, i)
      BY <1>2, <2>1
    <2> QED BY <1>1, <2>2, NowFacts DEF Taken
  <1>4. PICK t \in Seq(Events) : t = Taken
    BY <1>3
  <1>5. /\ Overtaken \subseteq Overtaken' /\ InOrder' \subseteq InOrder \cup {i}
        /\ i \in InOrder' => \A e \in Range(Taken) : e < i
    <2>1. Overtaken' = OvertakenOf(Taken') /\ Overtaken = OvertakenOf(Taken)
      BY Zenon DEF Overtaken, OvertakenOf
    <2>2. InOrder' = OrderOf(Append(t, i)) /\ InOrder = OrderOf(t)
      BY <1>3, <1>4 DEF InOrder
    <2>3. /\ OvertakenOf(t) \subseteq OvertakenOf(Append(t, i)) /\ OrderOf(Append(t, i)) \subseteq OrderOf(t) \cup {i}
          /\ i \in OrderOf(Append(t, i)) => \A e \in Range(t) : e < i
      BY <1>1, <1>4, OrderAppend
    <2>4. Overtaken' = OvertakenOf(Append(t, i)) /\ Overtaken = OvertakenOf(t)
      BY <1>3, <1>4, <2>1
    <2> QED BY <1>4, <2>2, <2>3, <2>4
  <1>6. Range(Taken') = Range(Taken) \cup {i}
    BY <1>3, RangeAppend
  <1>7. CASE pc' # "select"
    <2>1. pc' = "resume"
      BY <1>1, <1>7 DEF TakeEvent, RecoverStream
    <2>2. ResumedInv'
      BY <2>1 DEF ResumedInv
    <2> QED BY <1>1, <1>5, <1>7, <2>2, OutsideInv
  <1>8. CASE pc' = "select"
    <2>1. /\ UNCHANGED <<conn, statusCh, pc>>
          /\ (Send(stream, <<i>>) /\ Lost' = Lost) \/ (wire' = wire /\ Lost' = Lost \cup {i})
      <3>1. CASE Send(stream, <<i>>) /\ UNCHANGED <<conn, statusCh, pc, attempt, omitted>>
        BY <1>1, <3>1, Zenon DEF Lost
      <3>2. CASE Omit(i) /\ UNCHANGED <<clientVars, pc, attempt>>
        <4>1. Lost' = Lost \cup {i}
          BY <1>1, <3>2 DEF Lost, Omit
        <4> QED BY <3>2, <4>1, Zenon DEF clientVars
      <3>3. ~RecoverStream
        BY <1>8 DEF RecoverStream
      <3> QED BY <3>1, <3>2, <3>3, Zenon DEF TakeEvent
    <2>2. ConfirmedStored'
      BY <1>0, <1>1, <1>5, ConfirmedKept
    <2>3. ResumedInv'
      BY <1>8 DEF ResumedInv
    <2>4. /\ Live' = Live /\ StoredNow' = StoredNow /\ UploadingNow' = UploadingNow /\ SliceNow' = SliceNow
          /\ Safe \subseteq Safe' /\ (Lost' = Lost \cup {i} => Safe \cup {i} \subseteq Safe')
      <3>1. Live' = Live /\ StoredNow' = StoredNow /\ UploadingNow' = UploadingNow /\ SliceNow' = SliceNow
        BY <1>1, Zenon DEF Live, StoredNow, UploadingNow, SliceNow
      <3>2. Safe' = Lost' \cup (IF upload[stream] = 0 THEN {} ELSE EventsOf(parts[upload[stream]]))
        BY <1>1, Zenon DEF Safe
      <3>3. Lost \subseteq Lost'
        BY <2>1
      <3> QED BY <3>1, <3>2, <3>3 DEF Safe
    <2>5. StatusInv'
      <3> SUFFICES ASSUME statusCh[stream] > 0, Live
                   PROVE  /\ statusCh[stream] \in Range(Taken')
                          /\ \A x \in InOrder' : x <= statusCh[stream] => x \in Safe'
        BY <1>1, <2>1, <2>4 DEF StatusInv
      <3>1. statusCh[stream] \in Range(Taken) /\ \A x \in InOrder : x <= statusCh[stream] => x \in Safe
        BY <1>0, <1>1 DEF StatusInv
      <3>2. i \in Int /\ statusCh[stream] \in Int
        BY NowFacts, EventTypes
      <3>3. i \in InOrder' => ~(i <= statusCh[stream])
        BY <1>5, <3>1, <3>2
      <3> QED BY <1>5, <1>6, <2>4, <3>1, <3>3
    <2>6. FlowInv'
      <3> SUFFICES ASSUME conn[stream] = "up", Live
                   PROVE  Flow(InOrder', Safe', Range(Taken) \cup {i}, StoredNow, UploadingNow, SliceNow, wire'[stream])
        BY <1>1, <1>6, <2>1, <2>4 DEF FlowInv
      <3>1. Flow(InOrder, Safe, Range(Taken), StoredNow, UploadingNow, SliceNow, wire[stream])
        BY <1>0, <1>1 DEF FlowInv
      <3>2. wire[stream] \in Seq(Messages) /\ stream \in Streams /\ DOMAIN wire = Streams /\ i \in Messages
        BY NowFacts, TypeFacts DEF Struct, ClientTypes, Messages
      <3>6. CASE wire' = wire /\ Lost' = Lost \cup {i}
        <4>1. PICK good2, safe2 : good2 = InOrder' /\ safe2 = Safe'
          OBVIOUS
        <4>2. good2 \subseteq InOrder \cup {i} /\ Safe \cup {i} \subseteq safe2
          BY <1>5, <2>4, <3>6, <4>1
        <4>3. Flow(good2, safe2, Range(Taken) \cup {i}, StoredNow, UploadingNow, SliceNow, wire[stream])
          BY <3>1, <4>2, FlowOmit
        <4> QED BY <1>1, <3>6, <4>1, <4>3
      <3>7. CASE Send(stream, <<i>>)
        <4>1. wire'[stream] = Append(wire[stream], i)
          <5>1. wire'[stream] = wire[stream] \o <<i>>
            BY <3>2, <3>7, Zenon DEF Send
          <5>2. Append(wire[stream], i) = wire[stream] \o <<i>>
            BY <3>2, AppendIsConcat
          <5> QED BY <5>1, <5>2
        <4>2. Range(Taken) \in SUBSET Int /\ i \in Int /\ InOrder \subseteq Range(Taken)
          <5>1. \A e \in Events : e \in Int
            BY EventTypes
          <5> QED BY <5>1, NowFacts, Zenon
        <4>3. PICK good2, safe2 : good2 = InOrder' /\ safe2 = Safe'
          OBVIOUS
        <4>4. good2 \subseteq InOrder \cup {i} /\ (i \in good2 => \A e \in Range(Taken) : e < i) /\ Safe \subseteq safe2
          BY <1>5, <2>4, <4>3
        <4>5. Flow(good2, Safe, Range(Taken) \cup {i}, StoredNow, UploadingNow, SliceNow, Append(wire[stream], i))
          BY <3>1, <3>2, <4>2, <4>4, FlowTake
        <4>6. StoredNow \subseteq StoredNow
          OBVIOUS
        <4>7. Flow(good2, safe2, Range(Taken) \cup {i}, StoredNow, UploadingNow, SliceNow, Append(wire[stream], i))
          BY <4>4, <4>5, <4>6, FlowMore
        <4> QED BY <1>1, <4>1, <4>3, <4>7
      <3> QED BY <2>1, <3>6, <3>7
    <2> QED BY <2>2, <2>3, <2>5, <2>6 DEF RecordingInv
  <1> QED BY <1>7, <1>8

\* The replay: what is not on the stream again was confirmed, and is stored.
LEMMA ReplayInv ==
  ASSUME Struct, RecordingInv, Grows, Replay
  PROVE  RecordingInv'
  <1>0. ResumedInv /\ FlowInv /\ StatusInv /\ ConfirmedStored
    BY DEF RecordingInv
  <1>1. /\ pc = "replay" /\ pc' = "select" /\ Send(stream, buffer)
        /\ UNCHANGED <<buffer, trimmed, lastStatus, stream, conn, statusCh, upload, current, activeUploads, uploads, parts, Lost>>
    BY Zenon DEF Replay, serverVars, sliceVars, storageVars, Lost
  <1>2. Taken' = Taken /\ InOrder' = InOrder /\ Overtaken' = Overtaken
    BY <1>1, TakenSame
  <1>3. ConfirmedStored'
    BY <1>0, <1>1, <1>2, ConfirmedKept
  <1>4. ResumedInv'
    BY <1>1 DEF ResumedInv
  <1>5. StatusInv'
    <2>1. statusCh[stream] <= 0 /\ statusCh[stream] \in Int
      BY <1>0, <1>1, NowFacts DEF ResumedInv
    <2> QED BY <1>1, <2>1 DEF StatusInv
  <1>6. FlowInv'
    <2>1. Live' = Live /\ Safe' = Safe /\ StoredNow' = StoredNow /\ UploadingNow' = UploadingNow /\ SliceNow' = SliceNow
      BY <1>1, Zenon DEF Live, Safe, StoredNow, UploadingNow, SliceNow
    <2> SUFFICES ASSUME conn[stream] = "up", Live
                 PROVE  Flow(InOrder, Safe, Range(Taken), StoredNow, UploadingNow, SliceNow, wire'[stream])
      BY <1>1, <1>2, <2>1 DEF FlowInv
    <2>2. /\ wire[stream] = <<>> /\ current[stream] \in {NoSlice, <<>>}
          /\ \A n \in DOMAIN activeUploads[stream] : activeUploads[stream][n].slice = <<>>
      BY <1>0, <1>1 DEF ResumedInv
    <2>3. buffer \in Seq(Events) /\ trimmed \in Seq(Events) /\ stream \in Streams /\ DOMAIN wire = Streams
      BY TypeFacts DEF Struct, WriterTypes, ClientTypes
    <2>4. wire'[stream] = buffer
      <3>1. wire'[stream] = wire[stream] \o buffer
        BY <1>1, <2>3, Zenon DEF Send
      <3>2. <<>> \o buffer = buffer
        BY <2>3, ConcatEmptySeq
      <3> QED BY <2>2, <3>1, <3>2
    <2>5. StoredNow = {} /\ UploadingNow = {} /\ SliceNow = {}
      <3>1. Range(<<>>) = {}
        BY DEF Range
      <3>2. \A n \in DOMAIN activeUploads[stream] : Range(activeUploads[stream][n].slice) = {}
        BY <2>2, <3>1
      <3> QED BY <2>2, <3>1, <3>2 DEF StoredNow, UploadingNow, SliceNow, EventsIn, SliceEvents
    <2>6. \A x \in Range(trimmed) : x \in OrderOf(trimmed \o buffer) => x \in Safe
      <3> SUFFICES ASSUME NEW x \in Range(trimmed), x \in InOrder PROVE x \in Safe
        BY DEF InOrder, Taken
      <3>1. trimmed # <<>>
        BY DEF Range
      <3>2. lastStatus # 0 /\ upload[stream] = lastStatus
        BY <3>1, NowFacts DEF WriterOK
      <3>3. x \notin Overtaken /\ uploads[lastStatus] = "active"
        BY <3>2, OvertakenFact DEF Live
      <3> QED BY <1>0, <3>2, <3>3, Zenon DEF ConfirmedStored, Safe
    <2>7. Flow(OrderOf(trimmed \o buffer), Safe, Range(trimmed \o buffer), {}, {}, {}, buffer)
      BY <2>3, <2>6, FlowReplay
    <2> QED BY <2>4, <2>5, <2>7 DEF InOrder, Taken
  <1> QED BY <1>3, <1>4, <1>5, <1>6 DEF RecordingInv

\* A step of the server on the stream in use.
LEMMA StreamStepInv ==
  ASSUME Struct, RecordingInv, Grows, UNCHANGED <<buffer, trimmed, lastStatus, stream, pc, upload>>,
         conn'[stream] = conn[stream] \/ conn'[stream] = "down", statusCh'[stream] = statusCh[stream], ResumedInv',
         ASSUME pc = "select", conn[stream] = "up", Live, Live'
         PROVE  Flow(InOrder, Safe', Range(Taken), StoredNow', UploadingNow', SliceNow', wire'[stream])
  PROVE  RecordingInv'
  <1>0. FlowInv /\ StatusInv /\ ConfirmedStored
    BY DEF RecordingInv
  <1>1. Taken' = Taken /\ InOrder' = InOrder /\ Overtaken' = Overtaken
    BY TakenSame
  <1>2. ConfirmedStored'
    BY <1>0, <1>1, ConfirmedKept
  <1>3. Live' => Live /\ Safe \subseteq Safe'
    BY SafeGrows
  <1>4. StatusInv'
    BY <1>0, <1>1, <1>3 DEF StatusInv
  <1>5. FlowInv'
    BY <1>1, <1>3 DEF FlowInv
  <1> QED BY <1>2, <1>4, <1>5 DEF RecordingInv

\* A step of another stream.
LEMMA OtherStreamInv ==
  ASSUME Struct, RecordingInv, Grows, NEW s \in Streams, s # stream, Serve(s) \/ FlushSlice(s) \/ Crash(s)
  PROVE  RecordingInv'
  <1>0. /\ stream \in Streams /\ DOMAIN conn = Streams /\ DOMAIN wire = Streams /\ DOMAIN statusCh = Streams
        /\ DOMAIN current = Streams /\ DOMAIN activeUploads = Streams /\ DOMAIN upload = Streams
    BY TypeFacts, Zenon DEF Struct, WriterTypes, ClientTypes, ServerTypes, SliceTypes
  <1>1. UNCHANGED writerVars
    BY Zenon DEF Serve, Open, OpenFails, ReceiveEvent, ReceiveComplete, Abandon, CompleteProtoStream, UploadLastSlice,
           FinishStream, UploadSlice, CompletedUpload, FailedUpload, FlushSlice, Crash
  <1>2. conn' = conn \/ \E v : conn' = [conn EXCEPT ![s] = v]
    BY Zenon DEF Serve, Open, OpenFails, ReceiveEvent, ReceiveComplete, Abandon, CompleteProtoStream, UploadLastSlice,
           FinishStream, UploadSlice, CompletedUpload, FailedUpload, FlushSlice, Crash, Return, CloseStream, clientVars
  <1>3. wire' = wire \/ \E v : wire' = [wire EXCEPT ![s] = v]
    BY Zenon DEF Serve, Open, OpenFails, ReceiveEvent, ReceiveComplete, Abandon, CompleteProtoStream, UploadLastSlice,
           FinishStream, UploadSlice, CompletedUpload, FailedUpload, FlushSlice, Crash, Return, clientVars
  <1>4. statusCh' = statusCh \/ \E v : statusCh' = [statusCh EXCEPT ![s] = v]
    BY Zenon DEF Serve, Open, OpenFails, ReceiveEvent, ReceiveComplete, Abandon, CompleteProtoStream, UploadLastSlice,
           FinishStream, UploadSlice, CompletedUpload, FailedUpload, FlushSlice, Crash, clientVars
  <1>5. current' = current \/ \E v : current' = [current EXCEPT ![s] = v]
    BY Zenon DEF Serve, Open, OpenFails, ReceiveEvent, ReceiveComplete, Abandon, CompleteProtoStream, UploadLastSlice,
           FinishStream, UploadSlice, CompletedUpload, FailedUpload, FlushSlice, Crash, SubmitEvent, StartUploadCurrentSlice,
           EndLoop, sliceVars
  <1>6. activeUploads' = activeUploads \/ \E v : activeUploads' = [activeUploads EXCEPT ![s] = v]
    BY Zenon DEF Serve, Open, OpenFails, ReceiveEvent, ReceiveComplete, Abandon, CompleteProtoStream, UploadLastSlice,
           FinishStream, UploadSlice, CompletedUpload, FailedUpload, FlushSlice, Crash, StartUploadCurrentSlice,
           EndLoop, sliceVars
  <1>7. upload' = upload \/ \E v : upload' = [upload EXCEPT ![s] = v]
    BY Zenon DEF Serve, Open, OpenFails, ReceiveEvent, ReceiveComplete, Abandon, CompleteProtoStream, UploadLastSlice,
           FinishStream, UploadSlice, CompletedUpload, FailedUpload, FlushSlice, Crash, serverVars
  <1>8. /\ conn'[stream] = conn[stream] /\ wire'[stream] = wire[stream] /\ statusCh'[stream] = statusCh[stream]
        /\ current'[stream] = current[stream] /\ activeUploads'[stream] = activeUploads[stream] /\ upload'[stream] = upload[stream]
    BY <1>0, <1>2, <1>3, <1>4, <1>5, <1>6, <1>7, Zenon
  <1>9. UNCHANGED <<buffer, trimmed, lastStatus, stream, pc>>
    BY <1>1, Zenon DEF writerVars
  <1> QED BY <1>8, <1>9, AwayInv

\* The stream in use is opened, or comes to its end.
LEMMA OpenCloseInv ==
  ASSUME Struct, RecordingInv, Grows,
         Break(stream) \/ Open(stream) \/ OpenFails(stream) \/ Abandon(stream) \/ FinishStream(stream) \/ Crash(stream)
  PROVE  RecordingInv'
  <1>0. /\ stream \in Streams /\ conn \in [Streams -> {"none", "up", "down"}] /\ DOMAIN statusCh = Streams /\ DOMAIN upload = Streams
        /\ DOMAIN current = Streams /\ DOMAIN handler = Streams
    BY TypeFacts, Zenon DEF Struct, WriterTypes, ClientTypes, ServerTypes, SliceTypes
  <1>1. UNCHANGED <<buffer, trimmed, lastStatus, stream, pc>>
    BY Zenon DEF Break, Open, OpenFails, Abandon, CompleteProtoStream, FinishStream, Crash, writerVars
  <1>2. CASE Open(stream)
    <2>1. /\ UNCHANGED <<conn, wire, activeUploads>> /\ statusCh' = [statusCh EXCEPT ![stream] = IF conn[stream] = "up" THEN -1 ELSE None]
          /\ current' = [current EXCEPT ![stream] = <<>>] /\ handler[stream] = "opening"
          /\ upload' = [upload EXCEPT ![stream] = IF upload[stream] = 0 THEN stream ELSE upload[stream]]
      BY <1>2, Zenon DEF Open
    <2>2. current[stream] = NoSlice /\ current'[stream] = <<>>
      BY <1>0, <2>1, NowFacts, Zenon DEF StreamOK, Idle
    <2>3. statusCh'[stream] \in Int /\ statusCh'[stream] < 0
      <3>1. statusCh'[stream] = IF conn[stream] = "up" THEN -1 ELSE None
        BY <1>0, <2>1, Zenon
      <3> QED BY <3>1, NowFacts
    <2>4. upload'[stream] = upload[stream] \/ upload[stream] = 0
      BY <1>0, <2>1
    <2> QED BY <1>1, <2>1, <2>2, <2>3, <2>4, AwayInv
  <1>3. CASE ~Open(stream)
    <2>1. /\ upload' = upload /\ (statusCh' = statusCh \/ statusCh' = [statusCh EXCEPT ![stream] = None])
          /\ CloseStream(stream) \/ (conn' = conn /\ conn[stream] = "down")
      BY <1>3, Zenon DEF Break, OpenFails, Abandon, CompleteProtoStream, FinishStream, Crash, Return, serverVars
    <2>2. conn'[stream] = "down"
      BY <1>0, <2>1 DEF CloseStream
    <2>3. statusCh'[stream] = statusCh[stream] \/ (statusCh'[stream] \in Int /\ statusCh'[stream] < 0)
      BY <1>0, <2>1, NowFacts
    <2>4. upload'[stream] = upload[stream]
      BY <1>3, Zenon DEF Break, OpenFails, Abandon, CompleteProtoStream, FinishStream, Crash, serverVars
    <2> QED BY <1>1, <2>2, <2>3, <2>4, AwayInv
  <1> QED BY <1>2, <1>3

\* The handler receives.
LEMMA ReceiveInv ==
  ASSUME Struct, RecordingInv, Grows, ReceiveEvent(stream) \/ ReceiveComplete(stream)
  PROVE  RecordingInv'
  <1>0. /\ stream \in Streams /\ conn \in [Streams -> {"none", "up", "down"}] /\ DOMAIN wire = Streams
        /\ current \in [Streams -> Seq(Events) \cup {NoSlice}] /\ wire[stream] \in Seq(Messages)
    BY TypeFacts, Zenon DEF Struct, WriterTypes, ClientTypes, SliceTypes
  <1>1. /\ UNCHANGED <<buffer, trimmed, lastStatus, stream, pc, upload, statusCh, activeUploads, parts, uploads>>
        /\ wire[stream] # <<>>
    BY Zenon DEF ReceiveEvent, ReceiveComplete, CompleteProtoStream, writerVars, sliceVars, storageVars
  <1>7. Safe \subseteq Safe' /\ Lost' \subseteq Safe' /\ (Live' <=> Live)
    <2>1. Safe' = Lost' \cup (IF upload[stream] = 0 THEN {} ELSE EventsOf(parts[upload[stream]])) /\ (Live' <=> Live)
      BY <1>1, Zenon DEF Safe, Live
    <2>2. Lost \subseteq Lost'
      BY DEF Grows
    <2> QED BY <2>1, <2>2 DEF Safe
  <1>2. (conn' = conn \/ CloseStream(stream)) /\ (conn'[stream] = conn[stream] \/ conn'[stream] = "down")
    <2>1. conn' = conn \/ CloseStream(stream)
      BY Zenon DEF ReceiveEvent, ReceiveComplete, CompleteProtoStream, Return
    <2> QED BY <1>0, <2>1 DEF CloseStream
  <1>3. ResumedInv'
    <2>1. conn'[stream] = "up" => conn[stream] = "up"
      BY <1>2
    <2> QED BY <1>1, <2>1 DEF ResumedInv, RecordingInv
  <1>4. ASSUME pc = "select", conn[stream] = "up", Live, conn'[stream] = "up"
        PROVE  Flow(InOrder, Safe', Range(Taken), StoredNow', UploadingNow', SliceNow', wire'[stream])
    <2>1. Flow(InOrder, Safe, Range(Taken), StoredNow, UploadingNow, SliceNow, wire[stream])
      BY <1>4 DEF RecordingInv, FlowInv
    <2>2. StoredNow' = StoredNow /\ UploadingNow' = UploadingNow
      BY <1>1, Zenon DEF StoredNow, UploadingNow
    <2>3. Head(wire[stream]) \in Events
      <3>1. Range(wire[stream]) \subseteq Events
        BY <2>1, NowFacts, Zenon DEF Flow
      <3>2. Len(wire[stream]) \in Nat /\ Len(wire[stream]) # 0 /\ DOMAIN wire[stream] = 1..Len(wire[stream])
        BY <1>0, <1>1, LenProperties, EmptySeq
      <3>3. 1 \in DOMAIN wire[stream] /\ Head(wire[stream]) = wire[stream][1]
        BY <1>0, <1>1, <3>2, HeadTailProperties
      <3> QED BY <3>1, <3>3 DEF Range
    <2>4. Head(wire[stream]) # CompleteStream
      BY <2>3, EventTypes
    <2> DEFINE slice == IF current[stream] = NoSlice THEN <<>> ELSE current[stream]
               e == Head(wire[stream])
    <2>5. /\ wire'[stream] = Tail(wire[stream])
          /\ \/ current'[stream] = Append(slice, e)
             \/ current'[stream] \in {slice, current[stream]} /\ e \in Lost'
      <3>1. ReceiveEvent(stream)
        BY <2>4 DEF ReceiveComplete
      <3>2. ~Return(stream)
        BY <1>0, <1>4 DEF Return, CloseStream
      <3>3. /\ wire' = [wire EXCEPT ![stream] = Tail(wire[stream])]
            /\ SubmitEvent(stream, e) \/ (Omit(e) /\ current' = current)
        BY <1>0, <3>1, <3>2, Zenon DEF ReceiveEvent
      <3>4. wire'[stream] = Tail(wire[stream])
        BY <1>0, <3>3, Zenon
      <3>5. Omit(e) => e \in Lost'
        BY DEF Omit, Lost
      <3>6. \/ current' = [current EXCEPT ![stream] = Append(slice, e)]
            \/ current' = [current EXCEPT ![stream] = slice] /\ Omit(e)
            \/ current' = current /\ Omit(e)
        BY <3>3, Zenon DEF SubmitEvent
      <3> HIDE DEF slice, e
      <3> QED BY <1>0, <3>4, <3>5, <3>6, Zenon
    <2>6. slice \in Seq(Events) /\ Range(slice) = SliceNow /\ e \in Events /\ slice # NoSlice
      <3>1. slice \in Seq(Events) /\ <<>> \in Seq(Events) /\ NoSlice \notin Seq(Events)
        BY <1>0, EventTypes
      <3>2. Range(<<>>) = {}
        BY DEF Range
      <3> QED BY <2>3, <3>1, <3>2 DEF SliceNow, SliceEvents
    <2>8. Flow(InOrder, Safe, Range(Taken), StoredNow, UploadingNow, SliceNow \cup {e}, Tail(wire[stream]))
      BY <1>0, <1>1, <2>1, FlowReceive
    <2> HIDE DEF slice, e
    <2>7. CASE current'[stream] = Append(slice, e)
      <3>1. Append(slice, e) \in Seq(Events) /\ Append(slice, e) # NoSlice
        <4>1. Append(slice, e) \in Seq(Events)
          BY <2>6, AppendProperties
        <4> QED BY <4>1, EventTypes
      <3>2. Range(Append(slice, e)) = SliceNow \cup {e}
        BY <2>6, RangeAppend
      <3>3. SliceNow' = SliceNow \cup {e}
        BY <1>1, <2>7, <3>1, <3>2 DEF SliceNow, SliceEvents
      <3>4. PICK safe2 : safe2 = Safe' /\ Safe \subseteq safe2 /\ StoredNow \subseteq StoredNow
        BY <1>7
      <3>5. Flow(InOrder, safe2, Range(Taken), StoredNow, UploadingNow, SliceNow \cup {e}, Tail(wire[stream]))
        BY <2>8, <3>4, FlowMore
      <3> QED BY <1>1, <2>2, <2>5, <3>3, <3>4, <3>5
    <2>9. CASE current'[stream] \in {slice, current[stream]} /\ e \in Lost'
      <3>1. SliceNow' = SliceNow
        <4>1. CASE current'[stream] = slice
          BY <1>1, <2>6, <4>1 DEF SliceNow, SliceEvents
        <4>2. CASE current'[stream] = current[stream]
          BY <1>1, <4>2 DEF SliceNow, SliceEvents
        <4> QED BY <2>9, <4>1, <4>2
      <3>2. PICK safe2 : safe2 = Safe' /\ Safe \cup ((SliceNow \cup {e}) \ SliceNow) \subseteq safe2
        BY <1>7, <2>9
      <3>3. PICK slice2 : slice2 = SliceNow \cup {e} /\ SliceNow \subseteq slice2
        OBVIOUS
      <3>4. Flow(InOrder, safe2, Range(Taken), StoredNow, UploadingNow, SliceNow, Tail(wire[stream]))
        BY <2>8, <3>2, <3>3, FlowDrop
      <3> QED BY <1>1, <2>2, <2>5, <3>1, <3>2, <3>4
    <2> QED BY <2>5, <2>7, <2>9
  <1>5. CASE conn'[stream] = "up"
    <2>1. conn'[stream] = conn[stream] /\ statusCh'[stream] = statusCh[stream]
      BY <1>1, <1>2, <1>5
    <2> QED BY <1>1, <1>3, <1>4, <1>5, <2>1, StreamStepInv
  <1>6. CASE conn'[stream] # "up"
    <2>1. statusCh'[stream] = statusCh[stream] /\ upload'[stream] = upload[stream]
      BY <1>1
    <2> QED BY <1>1, <1>2, <1>6, <2>1, AwayInv
  <1> QED BY <1>5, <1>6

\* A slice is uploaded.
LEMMA StartInv ==
  ASSUME Struct, RecordingInv, Grows, FlushSlice(stream) \/ UploadLastSlice(stream)
  PROVE  RecordingInv'
  <1>0. stream \in Streams /\ SliceTypes
    BY TypeFacts DEF Struct, WriterTypes
  <1>1. UNCHANGED <<buffer, trimmed, lastStatus, stream, pc, upload, statusCh, conn, wire, parts, Lost, uploads>>
    BY Zenon DEF FlushSlice, UploadLastSlice, writerVars, clientVars, serverVars, storageVars, Lost
  <1>2. CASE UNCHANGED <<activeUploads, current>>
    BY <1>1, <1>2, AwayInv
  <1>3. CASE StartUploadCurrentSlice(stream) /\ current[stream] # NoSlice
    <2> DEFINE n0 == lastPartNumber[stream]
    <2>1. /\ DOMAIN activeUploads'[stream] = DOMAIN activeUploads[stream] \cup {n0} /\ current'[stream] = NoSlice
          /\ activeUploads'[stream][n0] = [slice |-> current[stream], state |-> "uploading"]
          /\ \A n \in DOMAIN activeUploads[stream] \ {n0} : activeUploads'[stream][n] = activeUploads[stream][n]
          /\ \A n \in DOMAIN activeUploads[stream] : activeUploads[stream][n].state # "uploading"
      BY <1>0, <1>3, StartUploadFacts
    <2>2. activeUploads'[stream][n0].slice = current[stream] /\ activeUploads'[stream][n0].state = "uploading"
      BY <2>1
    <2> HIDE DEF n0
    <2>3. ResumedInv'
      <3> SUFFICES ASSUME pc \in {"await", "replay"}
                   PROVE  /\ statusCh[stream] <= 0
                          /\ conn[stream] = "up" =>
                               /\ wire[stream] = <<>>
                               /\ \A n \in DOMAIN activeUploads'[stream] : activeUploads'[stream][n].slice = <<>>
        BY <1>1, <2>1 DEF ResumedInv
      <3> QED BY <1>3, <2>1, <2>2 DEF ResumedInv, RecordingInv
    <2>4. ASSUME pc = "select", conn[stream] = "up", Live
          PROVE  Flow(InOrder, Safe', Range(Taken), StoredNow', UploadingNow', SliceNow', wire'[stream])
      <3>1. Flow(InOrder, Safe, Range(Taken), StoredNow, UploadingNow, SliceNow, wire[stream])
        BY <2>4 DEF RecordingInv, FlowInv
      <3>2. UploadingNow = {} /\ SliceNow' = {} /\ Safe' = Safe /\ wire'[stream] = wire[stream]
        <4>1. UploadingNow = {}
          BY <2>1 DEF UploadingNow, EventsIn
        <4>2. SliceNow' = {}
          BY <1>1, <2>1 DEF SliceNow, SliceEvents
        <4> QED BY <1>1, <4>1, <4>2 DEF Safe
      <3>3. UploadingNow' = SliceNow
        <4>1. SliceNow = Range(current[stream])
          BY <1>3 DEF SliceNow, SliceEvents
        <4>2. {m \in DOMAIN activeUploads'[stream] : activeUploads'[stream][m].state = "uploading"} = {n0}
          BY <2>1, <2>2
        <4>3. UploadingNow' = UNION {Range(activeUploads'[stream][n].slice) : n \in {n0}}
          BY <1>1, <4>2 DEF UploadingNow, EventsIn
        <4>4. UNION {Range(activeUploads'[stream][n].slice) : n \in {n0}} = Range(activeUploads'[stream][n0].slice)
          BY Zenon
        <4> QED BY <2>2, <4>1, <4>3, <4>4
      <3>4. StoredNow' \subseteq StoredNow
        <4>1. ASSUME NEW x \in StoredNow' PROVE x \in StoredNow
          <5>1. PICK n \in DOMAIN activeUploads'[stream] :
                  activeUploads'[stream][n].state = "stored" /\ x \in Range(activeUploads'[stream][n].slice)
            BY <1>1 DEF StoredNow, EventsIn
          <5>2. n \in DOMAIN activeUploads[stream] /\ activeUploads'[stream][n] = activeUploads[stream][n]
            BY <2>1, <2>2, <5>1
          <5> QED BY <5>1, <5>2 DEF StoredNow, EventsIn
        <4> QED BY <4>1
      <3>5. PICK stored2 : stored2 = StoredNow' /\ stored2 \subseteq StoredNow
        BY <3>4
      <3>6. Flow(InOrder, Safe, Range(Taken), stored2, SliceNow, {}, wire[stream])
        BY <3>1, <3>2, <3>5, FlowStart
      <3> QED BY <3>2, <3>3, <3>5, <3>6
    <2> QED BY <1>1, <2>3, <2>4, StreamStepInv
  <1> QED BY <1>2, <1>3, Zenon DEF FlushSlice, UploadLastSlice

\* A slice is stored.
LEMMA UploadSliceInv ==
  ASSUME Struct, RecordingInv, Grows, NEW n \in DOMAIN activeUploads[stream], UploadSlice(stream, n)
  PROVE  RecordingInv'
  <1>0. stream \in Streams /\ SliceTypes /\ ActiveTypes /\ SlicesOK(stream) /\ StreamOK(stream) /\ Types
    BY TypeFacts, NowFacts DEF Struct
  <1>1. /\ UNCHANGED <<buffer, trimmed, lastStatus, stream, pc, upload, statusCh, conn, wire, current, uploads>>
        /\ activeUploads[stream][n].state = "uploading"
    BY DEF UploadSlice, Uploading, writerVars, clientVars, serverVars
  <1>2. PICK st \in {"stored", "failed"} :
          /\ activeUploads' = [activeUploads EXCEPT ![stream][n].state = st]
          /\ uploads[upload[stream]] = "active" =>
               st = "stored" /\ UploadPart(upload[stream], n, activeUploads[stream][n].slice)
    <2>1. CASE uploads[upload[stream]] = "active"
      BY <2>1 DEF UploadSlice
    <2>2. CASE uploads[upload[stream]] # "active"
      BY <2>2 DEF UploadSlice
    <2> QED BY <2>1, <2>2
  <1>3. /\ DOMAIN activeUploads'[stream] = DOMAIN activeUploads[stream]
        /\ \A m \in DOMAIN activeUploads[stream] : m # n => activeUploads'[stream][m] = activeUploads[stream][m]
        /\ activeUploads'[stream][n].state = st /\ activeUploads'[stream][n].slice = activeUploads[stream][n].slice
    <2>1. activeUploads' = [activeUploads EXCEPT ![stream][n].state = st]
      BY <1>2
    <2> QED BY <1>0, <2>1, SliceUploaded
  <1>4. ResumedInv'
    <2>1. ASSUME \A m \in DOMAIN activeUploads[stream] : activeUploads[stream][m].slice = <<>>
          PROVE  \A m \in DOMAIN activeUploads'[stream] : activeUploads'[stream][m].slice = <<>>
      BY <1>3, <2>1
    <2> QED BY <1>1, <2>1 DEF ResumedInv, RecordingInv
  <1>5. ASSUME pc = "select", conn[stream] = "up", Live, Live'
        PROVE  Flow(InOrder, Safe', Range(Taken), StoredNow', UploadingNow', SliceNow', wire'[stream])
    <2>1. Flow(InOrder, Safe, Range(Taken), StoredNow, UploadingNow, SliceNow, wire[stream])
      BY <1>5 DEF RecordingInv, FlowInv
    <2>2. upload[stream] # 0 /\ upload[stream] \in Streams /\ uploads[upload[stream]] = "active"
      <3>1. upload[stream] \in Streams \cup {0}
        BY <1>0, TypeFacts
      <3> QED BY <1>0, <1>5, <3>1 DEF StreamOK, Idle, Live
    <2>3. SliceNow' = SliceNow /\ wire'[stream] = wire[stream]
      BY <1>1, Zenon DEF SliceNow
    <2>4. PICK slice \in Seq(Events) : slice = activeUploads[stream][n].slice
      BY <1>0 DEF ActiveTypes, Slices
    <2>5. PICK u \in Streams : u = upload[stream]
      BY <2>2
    <2>6. Range(slice) \subseteq Safe'
      <3>1. UploadPart(u, n, slice) /\ n \in PartNumbers
        BY <1>0, <1>2, <2>2, <2>4, <2>5 DEF ActiveTypes
      <3>2. n \in DOMAIN parts'[u] /\ parts'[u][n] = slice
        BY <1>0, <3>1, UploadPartFacts
      <3>3. Range(slice) \subseteq EventsOf(parts'[u])
        BY <3>2, Zenon DEF EventsOf
      <3>4. Safe' = Lost' \cup EventsOf(parts'[u])
        BY <1>1, <2>2, <2>5 DEF Safe
      <3> QED BY <3>3, <3>4
    <2>7. UploadingNow = Range(slice)
      <3>1. {m \in DOMAIN activeUploads[stream] : activeUploads[stream][m].state = "uploading"} = {n}
        BY <1>0, <1>1 DEF SlicesOK
      <3>2. UploadingNow = UNION {Range(activeUploads[stream][m].slice) : m \in {n}}
        BY <3>1, Zenon DEF UploadingNow, EventsIn
      <3>3. UNION {Range(activeUploads[stream][m].slice) : m \in {n}} = Range(activeUploads[stream][n].slice)
        BY Zenon
      <3> QED BY <2>4, <3>2, <3>3
    <2>8. UploadingNow' = {}
      <3>1. \A m \in DOMAIN activeUploads'[stream] : activeUploads'[stream][m].state # "uploading"
        BY <1>0, <1>1, <1>3 DEF SlicesOK
      <3> QED BY <1>1, <3>1 DEF UploadingNow, EventsIn
    <2>9. StoredNow' \subseteq StoredNow \cup UploadingNow
      <3>1. ASSUME NEW x \in StoredNow' PROVE x \in StoredNow \cup Range(slice)
        <4>1. PICK m \in DOMAIN activeUploads'[stream] :
                activeUploads'[stream][m].state = "stored" /\ x \in Range(activeUploads'[stream][m].slice)
          BY <1>1 DEF StoredNow, EventsIn
        <4>2. CASE m = n
          BY <1>3, <2>4, <4>1, <4>2
        <4>3. CASE m # n
          <5>1. m \in DOMAIN activeUploads[stream] /\ activeUploads'[stream][m] = activeUploads[stream][m]
            BY <1>3, <4>3
          <5>2. x \in StoredNow
            BY <4>1, <5>1 DEF StoredNow, EventsIn
          <5> QED BY <5>2
        <4> QED BY <4>2, <4>3
      <3> QED BY <2>7, <3>1
    <2>10. Safe \cup UploadingNow \subseteq Safe'
      <3>1. Safe \subseteq Safe'
        BY <1>1, <1>5, SafeGrows
      <3> QED BY <2>6, <2>7, <3>1
    <2>11. PICK safe2, stored2 : /\ safe2 = Safe' /\ stored2 = StoredNow'
                                 /\ Safe \cup UploadingNow \subseteq safe2 /\ stored2 \subseteq StoredNow \cup UploadingNow
      BY <2>9, <2>10
    <2>12. Flow(InOrder, safe2, Range(Taken), stored2, {}, SliceNow, wire[stream])
      BY <2>1, <2>11, FlowStore
    <2> QED BY <2>3, <2>8, <2>11, <2>12
  <1> QED BY <1>1, <1>4, <1>5, StreamStepInv

\* A slice that is stored is reported, with the largest of its events.
LEMMA CompletedUploadInv ==
  ASSUME Struct, RecordingInv, Grows, NEW n \in DOMAIN activeUploads[stream], CompletedUpload(stream, n)
  PROVE  RecordingInv'
  <1>0. /\ stream \in Streams /\ SliceTypes /\ ActiveTypes /\ ClientTypes /\ SlicesOK(stream) /\ StreamOK(stream) /\ statusCh[stream] \in Int
        /\ InOrder \subseteq Range(Taken) /\ Range(Taken) \subseteq Events
    BY TypeFacts, NowFacts DEF Struct
  <1>00. ResumedInv /\ FlowInv /\ StatusInv /\ ConfirmedStored
    BY DEF RecordingInv
  <1>1. /\ UNCHANGED <<buffer, trimmed, lastStatus, stream, pc, upload, conn, wire, current, uploads, parts, Lost>>
        /\ activeUploads[stream][n].state = "stored" /\ loop[stream] = "select"
    BY Zenon DEF CompletedUpload, writerVars, serverVars, storageVars, Lost
  <1>2. /\ DOMAIN activeUploads'[stream] = DOMAIN activeUploads[stream] \ {n}
        /\ \A m \in DOMAIN activeUploads[stream] \ {n} : activeUploads'[stream][m] = activeUploads[stream][m]
    <2>1. activeUploads' = [activeUploads EXCEPT ![stream] = Restrict(activeUploads[stream], DOMAIN activeUploads[stream] \ {n})]
      BY <1>0, Zenon DEF CompletedUpload, SliceTypes
    <2>2. activeUploads'[stream] = Restrict(activeUploads[stream], DOMAIN activeUploads[stream] \ {n})
      BY <1>0, <2>1, Zenon DEF SliceTypes
    <2>3. PICK active : active = activeUploads[stream] /\ activeUploads'[stream] = Restrict(active, DOMAIN active \ {n})
      BY <2>2, Zenon
    <2>4. /\ DOMAIN Restrict(active, DOMAIN active \ {n}) = DOMAIN active \ {n}
          /\ \A m \in DOMAIN active \ {n} : Restrict(active, DOMAIN active \ {n})[m] = active[m]
      BY RestrictFacts, Zenon
    <2> QED BY <2>3, <2>4, Zenon
  <1>3. PICK slice \in Seq(Events) : slice = activeUploads[stream][n].slice
    BY <1>0 DEF ActiveTypes, Slices
  <1>5. PICK last \in Range(slice) \cup {0} : last = LastEventIndex(slice)
    BY LastEventIndexFact
  <1>6. statusCh'[stream] = IF statusCh[stream] = None /\ conn[stream] = "up" /\ pc # "ended" THEN last ELSE statusCh[stream]
    BY <1>0, <1>3, <1>5, Zenon DEF CompletedUpload, ClientTypes
  <1>7. Taken' = Taken /\ InOrder' = InOrder /\ Overtaken' = Overtaken /\ Safe' = Safe /\ (Live' <=> Live)
    <2>1. Safe' = Safe /\ (Live' <=> Live)
      BY <1>1, Zenon DEF Safe, Live
    <2> QED BY <1>1, <2>1, TakenSame
  <1>8. ConfirmedStored'
    BY <1>00, <1>1, <1>7, ConfirmedKept
  <1>9. ResumedInv'
    <2> SUFFICES ASSUME pc \in {"await", "replay"}
                 PROVE  /\ statusCh'[stream] <= 0
                        /\ conn[stream] = "up" =>
                             /\ wire[stream] = <<>> /\ current[stream] \in {NoSlice, <<>>}
                             /\ \A m \in DOMAIN activeUploads'[stream] : activeUploads'[stream][m].slice = <<>>
      BY <1>1 DEF ResumedInv
    <2>1. conn[stream] = "up" => last = 0
      <3>1. conn[stream] = "up" => slice = <<>>
        BY <1>00, <1>3 DEF ResumedInv
      <3>2. Range(<<>>) = {}
        BY DEF Range
      <3> QED BY <3>1, <3>2
    <2>2. statusCh'[stream] <= 0
      BY <1>00, <1>6, <2>1 DEF ResumedInv
    <2> QED BY <1>00, <1>2, <2>2 DEF ResumedInv
  <1>10. Range(slice) \subseteq StoredNow
    BY <1>1, <1>3, Zenon DEF StoredNow, EventsIn
  <1>11. FlowInv'
    <2> SUFFICES ASSUME pc = "select", conn[stream] = "up", Live
                 PROVE  Flow(InOrder, Safe, Range(Taken), StoredNow', UploadingNow', SliceNow', wire[stream])
      BY <1>1, <1>7 DEF FlowInv
    <2>1. Flow(InOrder, Safe, Range(Taken), StoredNow, UploadingNow, SliceNow, wire[stream])
      BY <1>00 DEF FlowInv
    <2>2. SliceNow' = SliceNow
      BY <1>1, Zenon DEF SliceNow
    <2>3. {m \in DOMAIN activeUploads'[stream] : activeUploads'[stream][m].state = "uploading"}
            = {m \in DOMAIN activeUploads[stream] : activeUploads[stream][m].state = "uploading"}
      BY <1>1, <1>2
    <2>4. UploadingNow' = UploadingNow
      <3>1. ASSUME NEW x PROVE x \in UploadingNow' <=> x \in UploadingNow
        BY <1>1, <1>2, <2>3 DEF UploadingNow, EventsIn
      <3> QED BY <3>1
    <2>5. StoredNow' \subseteq StoredNow
      <3>1. ASSUME NEW x \in StoredNow' PROVE x \in StoredNow
        <4>1. PICK m \in DOMAIN activeUploads'[stream] :
                activeUploads'[stream][m].state = "stored" /\ x \in Range(activeUploads'[stream][m].slice)
          BY <1>1 DEF StoredNow, EventsIn
        <4>2. m \in DOMAIN activeUploads[stream] /\ activeUploads'[stream][m] = activeUploads[stream][m]
          BY <1>2, <4>1
        <4> QED BY <4>1, <4>2 DEF StoredNow, EventsIn
      <3> QED BY <3>1
    <2>6. PICK stored2 : stored2 = StoredNow' /\ stored2 \subseteq StoredNow
      BY <2>5
    <2>7. Safe \subseteq Safe
      OBVIOUS
    <2>8. Flow(InOrder, Safe, Range(Taken), stored2, UploadingNow, SliceNow, wire[stream])
      BY <2>1, <2>6, <2>7, FlowMore
    <2> QED BY <2>2, <2>4, <2>6, <2>8
  <1>12. StatusInv'
    <2> SUFFICES ASSUME pc = "select", statusCh'[stream] > 0, Live
                 PROVE  statusCh'[stream] \in Range(Taken) /\ \A x \in InOrder : x <= statusCh'[stream] => x \in Safe
      BY <1>1, <1>7 DEF StatusInv
    <2>1. CASE statusCh'[stream] = statusCh[stream]
      BY <1>00, <2>1 DEF StatusInv
    <2>2. CASE statusCh'[stream] # statusCh[stream]
      <3>1. statusCh'[stream] = last /\ conn[stream] = "up"
        BY <1>6, <2>2
      <3>2. Flow(InOrder, Safe, Range(Taken), StoredNow, UploadingNow, SliceNow, wire[stream])
        BY <1>00, <3>1 DEF FlowInv
      <3>3. last \in StoredNow
        BY <1>5, <1>10, <3>1
      <3>4. last \in Range(Taken) /\ \A x \in InOrder : x <= last => x \in Safe
        BY <3>2, <3>3, Zenon DEF Flow
      <3> QED BY <3>1, <3>4
    <2> QED BY <2>1, <2>2
  <1> QED BY <1>8, <1>9, <1>11, <1>12 DEF RecordingInv

\* A slice fails only in an upload that is completed.
LEMMA FailedUploadInv ==
  ASSUME Struct, RecordingInv, Grows, NEW n \in DOMAIN activeUploads[stream], FailedUpload(stream, n)
  PROVE  RecordingInv'
  <1>0. stream \in Streams /\ SlicesOK(stream) /\ StreamOK(stream) /\ ClientTypes /\ SliceTypes
    BY TypeFacts, NowFacts DEF Struct
  <1>1. /\ UNCHANGED <<buffer, trimmed, lastStatus, stream, pc, upload, statusCh, uploads>>
        /\ conn' = conn \/ CloseStream(stream)
        /\ activeUploads[stream][n].state = "failed" /\ EndLoop(stream) /\ loop[stream] = "select"
        /\ wire' = wire \/ wire' = [wire EXCEPT ![stream] = <<>>]
    BY Zenon DEF FailedUpload, Return, writerVars, storageVars
  <1>2. conn'[stream] = conn[stream] \/ conn'[stream] = "down"
    BY <1>0, <1>1 DEF CloseStream, ClientTypes
  <1>3. ~Live
    BY <1>0, <1>1 DEF SlicesOK, StreamOK, Live
  <1>4. ResumedInv'
    <2>1. current'[stream] = NoSlice /\ activeUploads'[stream] = NoParts
      BY <1>0, <1>1, Zenon DEF EndLoop, SliceTypes
    <2>2. wire[stream] = <<>> => wire'[stream] = <<>>
      BY <1>0, <1>1 DEF ClientTypes
    <2>3. DOMAIN NoParts = {}
      BY DEF NoParts
    <2>4. conn'[stream] = "up" => conn[stream] = "up"
      BY <1>2
    <2> SUFFICES ASSUME pc \in {"await", "replay"}
                 PROVE  statusCh[stream] <= 0 /\ (conn'[stream] = "up" => wire'[stream] = <<>>)
      BY <1>1, <2>1, <2>3, Zenon DEF ResumedInv
    <2> QED BY <2>2, <2>4 DEF ResumedInv, RecordingInv
  <1>5. statusCh'[stream] = statusCh[stream]
    BY <1>1
  <1> QED BY <1>1, <1>2, <1>3, <1>4, <1>5, StreamStepInv

LEMMA InitRecording ==
  ASSUME Init, Struct
  PROVE  RecordingInv /\ Distinct
  <1>1. /\ buffer = <<>> /\ trimmed = <<>> /\ lastStatus = 0 /\ pc = "select" /\ wire[stream] = <<>> /\ statusCh[stream] = None
        /\ DOMAIN activeUploads[stream] = {} /\ current[stream] = NoSlice
    <2>1. stream \in Streams
      BY NowFacts
    <2> QED BY <2>1 DEF Init, NoParts
  <1>2. Range(<<>>) = {}
    BY DEF Range
  <1>3. Taken = <<>>
    BY <1>1, ConcatProperties DEF Taken
  <1>4. InOrder = {}
    BY <1>2, <1>3 DEF InOrder, OrderOf
  <1>5. ResumedInv /\ StatusInv /\ ConfirmedStored
    BY <1>1, NowFacts DEF ResumedInv, StatusInv, ConfirmedStored
  <1>6. FlowInv
    <2>1. StoredNow = {} /\ UploadingNow = {} /\ SliceNow = {}
      BY <1>1 DEF StoredNow, UploadingNow, EventsIn, SliceNow, SliceEvents
    <2>2. Flow({}, Safe, {}, {}, {}, {}, <<>>)
      BY <1>2 DEF Flow
    <2> QED BY <1>1, <1>2, <1>3, <1>4, <2>1, <2>2 DEF FlowInv
  <1>7. Distinct
    BY <1>1 DEF Distinct
  <1> QED BY <1>5, <1>6, <1>7 DEF RecordingInv

\* The buffer loses events at its front and gets those that were not taken yet.
LEMMA NextDistinct ==
  ASSUME Struct, Distinct, [Next]_vars
  PROVE  Distinct'
  <1>1. buffer \in Seq(Events) /\ trimmed \in Seq(Events) /\ Len(buffer) \in Nat
    BY TypeFacts, LenProperties DEF Struct, WriterTypes
  <1>2. CASE UNCHANGED buffer
    BY <1>2, Zenon DEF Distinct
  <1>3. ASSUME NEW i \in Events, TakeEvent(i) PROVE Distinct'
    <2>1. buffer' = Append(buffer, i) /\ i \notin Range(Taken)
      BY <1>3, Zenon DEF TakeEvent, Ready
    <2>2. i \notin Range(buffer)
      BY <1>1, <2>1, RangeConcat DEF Taken
    <2>3. \A j \in 1..Len(buffer) : buffer[j] # i
      BY <1>1, <2>2, LenProperties DEF Range
    <2>4. /\ Len(buffer') = Len(buffer) + 1 /\ buffer'[Len(buffer) + 1] = i
          /\ \A j \in 1..Len(buffer) : buffer'[j] = buffer[j]
      BY <1>1, <2>1, AppendProperties
    <2>5. \A j \in 1..Len(buffer') : j \in 1..Len(buffer) \/ j = Len(buffer) + 1
      BY <1>1, <2>4
    <2> QED BY <2>3, <2>4, <2>5, Zenon DEF Distinct
  <1>4. CASE UpdateStatus
    <2>1. PICK n : n = Covered(statusCh[stream]) /\ buffer' = SubSeq(buffer, n + 1, Len(buffer))
      BY <1>4 DEF UpdateStatus
    <2>2. n \in 0..Len(buffer)
      BY <1>1, <2>1, CoveredFact, NowFacts
    <2>3. Len(buffer') = Len(buffer) - n /\ \A j \in 1..(Len(buffer) - n) : buffer'[j] = buffer[n + j]
      <3>1. n + 1 \in 1..(Len(buffer) + 1) /\ Len(buffer) \in ((n + 1) - 1)..Len(buffer)
        BY <1>1, <2>2
      <3>2. /\ Len(buffer') = Len(buffer) - (n + 1) + 1
            /\ \A j \in 1..(Len(buffer) - (n + 1) + 1) : buffer'[j] = buffer[(n + 1) + j - 1]
        BY <1>1, <2>1, <3>1, SubSeqProperties
      <3> QED BY <1>1, <2>2, <3>2
    <2>4. \A j \in 1..(Len(buffer) - n) : n + j \in 1..Len(buffer)
      BY <1>1, <2>2
    <2>5. \A j, k \in 1..(Len(buffer) - n) : n + j = n + k => j = k
      BY <2>2
    <2>6. ASSUME NEW j \in 1..Len(buffer'), NEW k \in 1..Len(buffer'), buffer'[j] = buffer'[k] PROVE j = k
      <3>1. j \in 1..(Len(buffer) - n) /\ k \in 1..(Len(buffer) - n)
        BY <2>3
      <3>2. buffer[n + j] = buffer[n + k]
        BY <2>3, <2>6, <3>1
      <3>3. n + j = n + k
        BY <2>4, <3>1, <3>2, Zenon DEF Distinct
      <3> QED BY <2>5, <3>1, <3>3
    <2> QED BY <2>6, Zenon DEF Distinct
  <1>5. UNCHANGED buffer \/ UpdateStatus \/ \E i \in Events : TakeEvent(i)
    <2>1. CASE ProcessEvents \/ EndStream \/ ExpireTracker \/ UNCHANGED vars \/ \E u \in Uploads : CheckUpload(u)
      BY <2>1, Zenon DEF ProcessEvents, EndStream, ExpireTracker, CheckUpload, StreamDone, ResumeFails, GiveUp, Resumed,
             ResumeTimeout, Replay, ReplayFails, Resume, vars, writerVars
    <2>2. ASSUME NEW s \in Streams, Serve(s) \/ FlushSlice(s) \/ Break(s) \/ Crash(s) PROVE UNCHANGED buffer
      <3>1. UNCHANGED writerVars
        BY <2>2, Zenon DEF Serve, Open, OpenFails, ReceiveEvent, ReceiveComplete, Abandon, CompleteProtoStream, UploadLastSlice,
               FinishStream, UploadSlice, CompletedUpload, FailedUpload, FlushSlice, Break, Crash
      <3> QED BY <3>1, Zenon DEF writerVars
    <2> QED BY <2>1, <2>2, Zenon DEF Next, System
  <1> QED BY <1>2, <1>3, <1>4, <1>5

LEMMA NextRecording ==
  ASSUME Struct, RecordingInv, Distinct, [Next]_vars
  PROVE  RecordingInv'
  <1>0. Grows /\ stream \in Streams
    BY StorageGrows, NowFacts
  <1>1. CASE UNCHANGED vars \/ ExpireTracker \/ \E u \in Uploads : CheckUpload(u)
    <2>1. UNCHANGED <<buffer, trimmed, lastStatus, stream, pc, conn, wire, statusCh, upload, activeUploads, current>>
      BY <1>1, Zenon DEF vars, ExpireTracker, CheckUpload, writerVars, clientVars, serverVars, sliceVars
    <2>2. /\ conn'[stream] = conn[stream] /\ wire'[stream] = wire[stream] /\ statusCh'[stream] = statusCh[stream]
          /\ current'[stream] = current[stream] /\ activeUploads'[stream] = activeUploads[stream] /\ upload'[stream] = upload[stream]
      BY <2>1, Zenon
    <2> QED BY <1>0, <2>1, <2>2, AwayInv
  <1>2. CASE ProcessEvents \/ EndStream
    BY <1>0, <1>2, UpdateStatusInv, TakeEventInv, ReplayInv, WriterOutsideInv, ResumeInv DEF ProcessEvents
  <1>3. ASSUME NEW s \in Streams, Serve(s) \/ FlushSlice(s) \/ Crash(s) PROVE RecordingInv'
    <2>1. CASE s # stream
      BY <1>0, <1>3, <2>1, OtherStreamInv
    <2>2. CASE s = stream
      BY <1>0, <1>3, <2>2, OpenCloseInv, ReceiveInv, StartInv, UploadSliceInv, CompletedUploadInv, FailedUploadInv DEF Serve
    <2> QED BY <2>1, <2>2
  <1>4. ASSUME NEW s \in Streams, Break(s) PROVE RecordingInv'
    <2>1. s = stream
      BY <1>4 DEF Break, Struct, StreamsInv, StreamOK
    <2> QED BY <1>0, <1>4, <2>1, OpenCloseInv
  <1> QED BY <1>1, <1>2, <1>3, <1>4, Zenon DEF Next, System

\* What updateStatus has taken off the writer's buffer is stored in the upload that the
\* writer resumes, unless it came out of order, its part was overwritten or it was omitted
\* for a permanent error: for any number of emitters, events, streams and attempts,
\* whatever broke or crashed.
THEOREM RecordingConfirmedStored == Spec => []ConfirmedStored
  <1>1. RecordingInv => ConfirmedStored
    BY DEF RecordingInv
  <1>2. Init => Struct /\ RecordingInv /\ Distinct
    BY InitStruct, InitRecording
  <1>3. Struct /\ RecordingInv /\ Distinct /\ [Next]_vars => (Struct /\ RecordingInv /\ Distinct)'
    BY NextStruct, NextRecording, NextDistinct
  <1> QED BY <1>1, <1>2, <1>3, PTL DEF Spec

-----------------------------------------------------------------------------
(* A completed recording is kept *)

NoneCompleted == \A u \in Streams : uploads[u] # "completed"

\* The stream is asked to complete its upload: CompleteStream is on the way, or the
\* handler has got it.
Finishing(s) ==
    \/ CompleteStream \in Range(wire[s])
    \/ handler[s] = "closing" /\ completeType[s] = "complete"

\* Only the last stream of a writer that has ended is asked to, and only once, before
\* the upload completer has anything to do.
EndOK(s) ==
    /\ handler[s] = "none" => conn[s] = "none"
    /\ handler[s] = "done" => conn[s] = "down" /\ wire[s] = <<>> /\ loop[s] \in {"none", "ended"}
    /\ loop[s] = "drain" => handler[s] = "closing"
    /\ Finishing(s) => s = stream /\ pc = "ended" /\ tracker /\ NoneCompleted

Gone(s) == handler[s] \in {"none", "done"}

EndInv ==
    /\ \A s \in Streams : EndOK(s)
    /\ ~NoneCompleted => pc = "ended"
    /\ ~tracker => pc = "ended" /\ \A s \in Streams : Gone(s)
    /\ NoneCompleted => recording = NoParts

LEMMA EndNext ==
  ASSUME \A s \in Streams : EndOK(s)', ~NoneCompleted' => pc' = "ended",
         ~tracker' => pc' = "ended" /\ \A s \in Streams : Gone(s)', NoneCompleted' => recording' = NoParts
  PROVE  EndInv'
  BY Zenon DEF EndInv, Streams, NoParts

\* A step of the writer, or of an upload that goes on.
LEMMA EndKept ==
  ASSUME Struct, EndInv, UNCHANGED <<handler, loop, completeType, uploads, recording, tracker>>,
         \A s \in Streams : /\ conn[s] = "none" => conn'[s] = "none"
                            /\ conn[s] = "down" => conn'[s] = "down"
                            /\ handler[s] = "done" => wire'[s] = <<>>
                            /\ Finishing(s)' => Finishing(s) \/ (s = stream' /\ pc' = "ended" /\ tracker /\ NoneCompleted),
         pc = "ended" => pc' = "ended" /\ stream' = stream
  PROVE  EndInv'
  <1>1. NoneCompleted' = NoneCompleted
    BY Zenon DEF NoneCompleted, Streams
  <1>2. ASSUME NEW s \in Streams PROVE EndOK(s)'
    <2>1. EndOK(s)
      BY DEF EndInv
    <2>2. handler'[s] = "none" => conn'[s] = "none"
      BY <2>1, Zenon DEF EndOK
    <2>3. handler'[s] = "done" => conn'[s] = "down" /\ wire'[s] = <<>> /\ loop'[s] \in {"none", "ended"}
      BY <2>1, Zenon DEF EndOK
    <2>4. loop'[s] = "drain" => handler'[s] = "closing"
      BY <2>1, Zenon DEF EndOK
    <2>5. Finishing(s)' => s = stream' /\ pc' = "ended" /\ tracker' /\ NoneCompleted'
      BY <1>1, <2>1, Zenon DEF EndOK
    <2> QED BY <2>2, <2>3, <2>4, <2>5, Zenon DEF EndOK
  <1>3. \A s \in Streams : Gone(s)' <=> Gone(s)
    BY Zenon DEF Gone
  <1>4. ~tracker' => pc' = "ended" /\ \A s \in Streams : Gone(s)'
    BY <1>3, Zenon DEF EndInv
  <1>5. (~NoneCompleted' => pc' = "ended") /\ (NoneCompleted' => recording' = NoParts)
    BY <1>1, Zenon DEF EndInv
  <1> QED BY <1>2, <1>4, <1>5, EndNext

\* Events are sent.
LEMMA EventsSent ==
  ASSUME Struct, NEW p, p \in Seq(Events), NEW s \in Streams, wire' = [wire EXCEPT ![s] = wire[s] \o p], NEW r \in Streams
  PROVE  CompleteStream \in Range(wire'[r]) => CompleteStream \in Range(wire[r])
  <1>1. DOMAIN wire = Streams /\ wire[s] \in Seq(Messages)
    BY TypeFacts DEF Struct, ClientTypes
  <1>2. CASE r # s
    BY <1>1, <1>2
  <1>3. CASE r = s
    <2>1. wire'[s] = wire[s] \o p
      BY <1>1
    <2>2. p \in Seq(Messages)
      BY SeqMonotonic DEF Messages
    <2>3. Range(wire'[s]) = Range(wire[s]) \cup Range(p)
      BY <1>1, <2>1, <2>2, RangeConcat
    <2>4. CompleteStream \notin Range(p)
      BY EventTypes DEF Range
    <2> QED BY <1>3, <2>3, <2>4
  <1> QED BY <1>2, <1>3

\* The writer's steps, and those of an upload that change neither handler nor loop.
LEMMA WriterEnd ==
  ASSUME Struct, EndInv,
         \/ UNCHANGED vars \/ UpdateStatus \/ StreamDone \/ (\E i \in Events : TakeEvent(i)) \/ ResumeFails \/ GiveUp \/ Resumed
         \/ ResumeTimeout \/ Replay \/ ReplayFails \/ EndStream
         \/ \E s \in Streams : \/ Break(s) \/ FlushSlice(s)
                               \/ \E n \in DOMAIN activeUploads[s] : UploadSlice(s, n) \/ CompletedUpload(s, n)
  PROVE  EndInv'
  <1>0. /\ stream \in Streams /\ ClientTypes /\ conn[stream] # "none" /\ buffer \in Seq(Events)
        /\ \A s \in Streams : EndOK(s)
    BY TypeFacts DEF Struct, WriterTypes, StreamsInv, WriterOK, EndInv
  <1>1. UNCHANGED <<handler, loop, completeType, uploads, recording, tracker, stream>>
    BY Zenon DEF vars, UpdateStatus, StreamDone, TakeEvent, ResumeFails, GiveUp, Resumed, ResumeTimeout, Replay, ReplayFails, EndStream,
           Break, FlushSlice, UploadSlice, CompletedUpload, writerVars, serverVars, storageVars
  <1>2. pc = "ended" => pc' = "ended"
    BY DEF vars, UpdateStatus, StreamDone, TakeEvent, ResumeFails, GiveUp, Resumed, ResumeTimeout, Replay, ReplayFails, EndStream,
           Break, FlushSlice, UploadSlice, CompletedUpload, writerVars
  <1>3. conn' = conn \/ \E s \in Streams : conn[s] # "none" /\ conn' = [conn EXCEPT ![s] = "down"]
    <2>1. conn' = conn \/ CloseStream(stream) \/ \E s \in Streams : Break(s)
      BY Zenon DEF vars, UpdateStatus, StreamDone, TakeEvent, ResumeFails, GiveUp, Resumed, ResumeTimeout, Replay, ReplayFails, EndStream,
             FlushSlice, UploadSlice, CompletedUpload, clientVars, RecoverStream
    <2> QED BY <1>0, <2>1 DEF CloseStream, Break
  <1>4. \A s \in Streams : (conn[s] = "none" => conn'[s] = "none") /\ (conn[s] = "down" => conn'[s] = "down")
    BY <1>0, <1>3 DEF ClientTypes
  <1>5. \/ wire' = wire
        \/ \E p \in Seq(Events) : wire' = [wire EXCEPT ![stream] = wire[stream] \o p] /\ (p = <<>> \/ handler[stream] # "done")
        \/ EndStream /\ conn[stream] = "up" /\ wire' = [wire EXCEPT ![stream] = wire[stream] \o <<CompleteStream>>]
    <2>1. [wire EXCEPT ![stream] = wire[stream]] = wire
      BY <1>0, Zenon DEF ClientTypes
    <2>2. \A ms : Send(stream, ms) => wire' = wire \/ (conn[stream] = "up" /\ wire' = [wire EXCEPT ![stream] = wire[stream] \o ms])
      BY <1>0, <2>1, Zenon DEF Send, ClientTypes
    <2>3. conn[stream] = "up" => handler[stream] # "done"
      BY <1>0 DEF EndOK
    <2>4. CASE EndStream
      BY <2>2, <2>4, Zenon DEF EndStream
    <2>5. CASE Replay
      BY <1>0, <2>2, <2>3, <2>5 DEF Replay
    <2>6. CASE \E i \in Events : TakeEvent(i)
      <3>1. PICK i \in Events : TakeEvent(i)
        BY <2>6
      <3>2. <<i>> \in Seq(Events)
        OBVIOUS
      <3>3. wire' = wire \/ Send(stream, <<i>>)
        BY <3>1, Zenon DEF TakeEvent, clientVars
      <3> QED BY <2>2, <2>3, <3>2, <3>3, Zenon
    <2>7. CASE ReplayFails
      <3>1. PICK n \in 0..Len(buffer) : (n = 0 \/ handler[stream] # "done") /\ wire' = [wire EXCEPT ![stream] = wire[stream] \o SubSeq(buffer, 1, n)]
        BY <1>0, <2>7, ReplayFailsPart, Zenon DEF ClientTypes
      <3>2. SubSeq(buffer, 1, n) \in Seq(Events)
        BY <1>0, CutFact
      <3>3. n = 0 => SubSeq(buffer, 1, n) = <<>>
        BY <1>0, SubSeqProperties
      <3> QED BY <3>1, <3>2, <3>3, Zenon
    <2>8. CASE ~(EndStream \/ Replay \/ ReplayFails \/ \E i \in Events : TakeEvent(i))
      BY <2>8, Zenon DEF vars, UpdateStatus, StreamDone, ResumeFails, GiveUp, Resumed, ResumeTimeout,
             Break, FlushSlice, UploadSlice, CompletedUpload, clientVars
    <2> QED BY <2>4, <2>5, <2>6, <2>7, <2>8
  <1>6. ASSUME NEW s \in Streams, handler[s] = "done" PROVE wire'[s] = <<>>
    <2>1. wire[s] = <<>> /\ conn[s] = "down"
      BY <1>0, <1>6 DEF EndOK
    <2>2. CASE wire' = wire
      BY <2>1, <2>2
    <2>3. CASE \E p \in Seq(Events) : wire' = [wire EXCEPT ![stream] = wire[stream] \o p] /\ (p = <<>> \/ handler[stream] # "done")
      <3>1. PICK p \in Seq(Events) : wire' = [wire EXCEPT ![stream] = wire[stream] \o p] /\ (p = <<>> \/ handler[stream] # "done")
        BY <2>3
      <3>2. CASE s # stream
        BY <1>0, <2>1, <3>1, <3>2 DEF ClientTypes
      <3>3. CASE s = stream
        <4>1. wire'[s] = <<>> \o <<>>
          BY <1>0, <1>6, <2>1, <3>1, <3>3 DEF ClientTypes
        <4> QED BY <4>1
      <3> QED BY <3>2, <3>3
    <2>4. CASE conn[stream] = "up" /\ wire' = [wire EXCEPT ![stream] = wire[stream] \o <<CompleteStream>>]
      BY <1>0, <2>1, <2>4 DEF ClientTypes
    <2> QED BY <1>5, <2>2, <2>3, <2>4
  <1>7. ASSUME NEW s \in Streams, Finishing(s)'
        PROVE  Finishing(s) \/ (s = stream' /\ pc' = "ended" /\ tracker /\ NoneCompleted)
    <2>1. CASE wire' = wire
      BY <1>1, <1>7, <2>1, Zenon DEF Finishing
    <2>2. CASE \E p \in Seq(Events) : wire' = [wire EXCEPT ![stream] = wire[stream] \o p]
      <3>1. CompleteStream \in Range(wire'[s]) => CompleteStream \in Range(wire[s])
        BY <1>0, <2>2, EventsSent
      <3> QED BY <1>1, <1>7, <3>1 DEF Finishing
    <2>3. CASE EndStream /\ wire' = [wire EXCEPT ![stream] = wire[stream] \o <<CompleteStream>>]
      <3>1. pc = "select" /\ pc' = "ended"
        BY <2>3 DEF EndStream
      <3>2. tracker /\ NoneCompleted
        BY <3>1, Zenon DEF EndInv
      <3>3. CASE s = stream
        BY <1>1, <3>1, <3>2, <3>3
      <3>4. CASE s # stream
        <4>1. wire'[s] = wire[s]
          BY <1>0, <2>3, <3>4 DEF ClientTypes
        <4> QED BY <1>1, <1>7, <4>1 DEF Finishing
      <3> QED BY <3>3, <3>4
    <2> QED BY <1>5, <2>1, <2>2, <2>3
  <1> QED BY <1>1, <1>2, <1>4, <1>6, <1>7, EndKept

\* A step of a handler or of its loop that completes no upload.
LEMMA ServerEnd ==
  ASSUME Struct, EndInv, NEW s \in Streams, UNCHANGED <<stream, pc, tracker, recording>>, NoneCompleted' <=> NoneCompleted,
         \A r \in Streams \ {s} : /\ handler'[r] = handler[r] /\ loop'[r] = loop[r] /\ completeType'[r] = completeType[r]
                                  /\ conn'[r] = conn[r] /\ wire'[r] = wire[r],
         handler[s] \notin {"none", "done"}, handler'[s] # "none",
         handler'[s] = "done" => conn'[s] = "down" /\ wire'[s] = <<>> /\ loop'[s] \in {"none", "ended"},
         loop'[s] = "drain" => handler'[s] = "closing",
         Finishing(s)' => Finishing(s)
  PROVE  EndInv'
  <1>0. tracker /\ (\A r \in Streams : EndOK(r)) /\ (~NoneCompleted => pc = "ended") /\ (NoneCompleted => recording = NoParts)
    BY DEF EndInv, Gone
  <1>1. ASSUME NEW r \in Streams PROVE EndOK(r)'
    <2>1. CASE r = s
      BY <1>0, <2>1 DEF EndOK
    <2>2. CASE r # s
      <3>1. Finishing(r)' <=> Finishing(r)
        BY <2>2 DEF Finishing
      <3> QED BY <1>0, <2>2, <3>1 DEF EndOK
    <2> QED BY <2>1, <2>2
  <1>2. tracker' /\ (~NoneCompleted' => pc' = "ended") /\ (NoneCompleted' => recording' = NoParts)
    BY <1>0
  <1> QED BY <1>1, <1>2, EndNext

LEMMA HandlerEnd ==
  ASSUME Struct, EndInv, NEW s \in Streams,
         \/ Open(s) \/ OpenFails(s) \/ ReceiveEvent(s) \/ ReceiveComplete(s) \/ Abandon(s) \/ UploadLastSlice(s)
         \/ (\E n \in DOMAIN activeUploads[s] : FailedUpload(s, n)) \/ Crash(s)
         \/ (FinishStream(s) /\ completeType[s] # "complete")
  PROVE  EndInv'
  <1>0. /\ ClientTypes /\ ServerTypes /\ StreamOK(s) /\ EndOK(s) /\ wire[s] \in Seq(Messages)
    BY TypeFacts DEF Struct, ClientTypes, StreamsInv, EndInv
  <1>1. UNCHANGED <<stream, pc, tracker, recording>>
    BY Zenon DEF Open, OpenFails, ReceiveEvent, ReceiveComplete, Abandon, CompleteProtoStream, UploadLastSlice, FailedUpload, Crash,
           FinishStream, writerVars, storageVars
  <1>2. NoneCompleted' <=> NoneCompleted
    <2>1. CASE Open(s)
      <3>1. \A v \in Streams : uploads[v] # "none" => uploads'[v] = uploads[v]
        BY <2>1, OpenStruct
      <3>2. \A v \in Streams : uploads'[v] = "completed" => uploads[v] = "completed"
        <4>1. PICK u \in Streams : uploads' = [uploads EXCEPT ![u] = "active"]
          <5>1. s \in Streams /\ upload[s] \in Streams \cup {0}
            BY <1>0, TypeFacts DEF Struct
          <5> QED BY <2>1, <5>1 DEF Open
        <4>2. DOMAIN uploads = Streams
          BY TypeFacts, EventTypes DEF Struct, StorageTypes
        <4> QED BY <4>1, <4>2
      <3>3. \A v \in Streams : uploads[v] = "completed" => uploads'[v] = "completed"
        BY <3>1
      <3> QED BY <3>2, <3>3 DEF NoneCompleted
    <2>2. CASE ~Open(s)
      <3>1. uploads' = uploads
        BY <2>2, Zenon DEF OpenFails, ReceiveEvent, ReceiveComplete, Abandon, CompleteProtoStream, UploadLastSlice, FailedUpload, Crash,
               FinishStream, storageVars
      <3> QED BY <3>1 DEF NoneCompleted
    <2> QED BY <2>1, <2>2
  <1>3. handler' = handler \/ \E v : handler' = [handler EXCEPT ![s] = v]
    BY Zenon DEF Open, OpenFails, ReceiveEvent, ReceiveComplete, Abandon, CompleteProtoStream, UploadLastSlice, FailedUpload, Crash,
           FinishStream, Return
  <1>4. loop' = loop \/ \E v : loop' = [loop EXCEPT ![s] = v]
    BY Zenon DEF Open, OpenFails, ReceiveEvent, ReceiveComplete, Abandon, CompleteProtoStream, UploadLastSlice, FailedUpload, Crash,
           FinishStream, EndLoop
  <1>5. completeType' = completeType \/ \E v : completeType' = [completeType EXCEPT ![s] = v]
    BY Zenon DEF Open, OpenFails, ReceiveEvent, ReceiveComplete, Abandon, CompleteProtoStream, UploadLastSlice, FailedUpload, Crash,
           FinishStream
  <1>6. conn' = conn \/ \E v : conn' = [conn EXCEPT ![s] = v]
    BY Zenon DEF Open, OpenFails, ReceiveEvent, ReceiveComplete, Abandon, CompleteProtoStream, UploadLastSlice, FailedUpload, Crash,
           FinishStream, Return, CloseStream, clientVars
  <1>7. wire' = wire \/ \E v : wire' = [wire EXCEPT ![s] = v]
    BY Zenon DEF Open, OpenFails, ReceiveEvent, ReceiveComplete, Abandon, CompleteProtoStream, UploadLastSlice, FailedUpload, Crash,
           FinishStream, Return, clientVars
  <1>8. \A r \in Streams \ {s} : /\ handler'[r] = handler[r] /\ loop'[r] = loop[r] /\ completeType'[r] = completeType[r]
                                 /\ conn'[r] = conn[r] /\ wire'[r] = wire[r]
    BY <1>0, <1>3, <1>4, <1>5, <1>6, <1>7, Zenon DEF ClientTypes, ServerTypes
  <1>9. handler[s] \notin {"none", "done"}
    <2>1. handler[s] \in {"opening", "serving", "closing"} \/ loop[s] \in {"select", "drain"}
      BY DEF Open, OpenFails, ReceiveEvent, ReceiveComplete, Abandon, CompleteProtoStream, UploadLastSlice, FailedUpload, Crash, FinishStream
    <2> QED BY <1>0, <2>1 DEF StreamOK, EndOK
  <1>10. Return(s) => handler'[s] = "done" /\ conn'[s] = "down" /\ wire'[s] = <<>>
    BY <1>0, Zenon DEF Return, CloseStream, ClientTypes, ServerTypes
  <1>11. ASSUME handler'[s] = "done", wire'[s] = <<>> PROVE ~Finishing(s)'
    <2>1. Range(<<>>) = {}
      BY DEF Range
    <2> QED BY <1>11, <2>1 DEF Finishing
  <1>12. CASE Return(s)
    <2>1. loop'[s] \in {"none", "ended"}
      <3>1. loop' = [loop EXCEPT ![s] = "ended"] \/ (loop' = loop /\ (handler[s] = "opening" \/ (handler[s] = "serving" /\ loop[s] # "select")
                                                                    \/ loop[s] = "ended"))
        <4>1. handler'[s] \notin {"serving", "closing"}
          BY <1>10, <1>12
        <4>2. ~Open(s) /\ ~UploadLastSlice(s)
          BY <1>0, <1>9, <1>10, <1>12 DEF Open, UploadLastSlice, ServerTypes
        <4>3. CASE ReceiveComplete(s) \/ Abandon(s)
          <5>1. loop' = loop /\ (loop[s] = "ended" \/ handler' = [handler EXCEPT ![s] = "closing"])
            BY <4>3, Zenon DEF ReceiveComplete, Abandon, CompleteProtoStream
          <5> QED BY <1>0, <4>1, <5>1 DEF ServerTypes
        <4>4. CASE ReceiveEvent(s)
          <5>1. loop' = loop /\ handler[s] = "serving" /\ (loop[s] = "select" => handler' = handler)
            BY <4>4, Zenon DEF ReceiveEvent
          <5> QED BY <4>1, <5>1
        <4>5. CASE OpenFails(s)
          BY <4>5, Zenon DEF OpenFails
        <4>6. CASE (\E n \in DOMAIN activeUploads[s] : FailedUpload(s, n)) \/ Crash(s) \/ FinishStream(s)
          BY <4>6, Zenon DEF FailedUpload, Crash, FinishStream, EndLoop
        <4> QED BY <4>2, <4>3, <4>4, <4>5, <4>6
      <3>2. loop[s] \in {"none", "select", "drain", "ended"} /\ DOMAIN loop = Streams
        BY <1>0 DEF ServerTypes
      <3> QED BY <1>0, <3>1, <3>2 DEF StreamOK, EndOK
    <2>2. ~Finishing(s)'
      BY <1>10, <1>11, <1>12
    <2> QED BY <1>1, <1>2, <1>8, <1>9, <1>10, <1>12, <2>1, <2>2, ServerEnd
  <1>13. CASE ~Return(s)
    <2>1. /\ handler'[s] \in {"serving", "closing"} /\ (loop'[s] = "drain" => handler'[s] = "closing")
          /\ Finishing(s)' => Finishing(s)
      <3>1. CASE Open(s)
        <4>1. handler'[s] = "serving" /\ loop'[s] = "select" /\ wire' = wire
          BY <1>0, <3>1 DEF Open, ServerTypes
        <4> QED BY <4>1 DEF Finishing
      <3>2. CASE ReceiveEvent(s)
        <4>1. handler'[s] = "serving" /\ loop'[s] # "drain" /\ wire'[s] = Tail(wire[s]) /\ wire[s] # <<>>
          <5>1. /\ handler[s] = "serving" /\ handler' = handler /\ loop' = loop /\ wire[s] # <<>>
                /\ wire' = [wire EXCEPT ![s] = Tail(wire[s])]
            BY <1>0, <1>13, <3>2, Zenon DEF ReceiveEvent, ClientTypes
          <5> QED BY <1>0, <5>1 DEF ClientTypes, EndOK
        <4>2. Range(Tail(wire[s])) \subseteq Range(wire[s])
          BY <1>0, <4>1 DEF Range
        <4> QED BY <4>1, <4>2 DEF Finishing
      <3>3. CASE ReceiveComplete(s)
        <4>1. handler'[s] = "closing" /\ wire[s] # <<>> /\ Head(wire[s]) = CompleteStream
          BY <1>0, <1>13, <3>3, Zenon DEF ReceiveComplete, CompleteProtoStream, ServerTypes
        <4>2. CompleteStream \in Range(wire[s])
          <5>1. Len(wire[s]) \in Nat /\ Len(wire[s]) # 0 /\ DOMAIN wire[s] = 1..Len(wire[s]) /\ Head(wire[s]) = wire[s][1]
            BY <1>0, <4>1, LenProperties, EmptySeq, HeadTailProperties
          <5> QED BY <4>1, <5>1 DEF Range
        <4> QED BY <4>1, <4>2 DEF Finishing
      <3>4. CASE Abandon(s)
        <4>1. handler'[s] = "closing" /\ completeType'[s] = "flush" /\ wire'[s] = <<>>
          BY <1>0, <1>13, <3>4 DEF Abandon, CompleteProtoStream, CloseType, ServerTypes, ClientTypes
        <4>2. Range(<<>>) = {}
          BY DEF Range
        <4> QED BY <4>1, <4>2 DEF Finishing
      <3>5. CASE UploadLastSlice(s)
        BY <3>5 DEF UploadLastSlice, clientVars, Finishing
      <3>6. CASE \E n \in DOMAIN activeUploads[s] : FailedUpload(s, n)
        <4>1. UNCHANGED <<handler, conn, wire, completeType>> /\ loop'[s] = "ended" /\ loop[s] = "select"
          BY <1>0, <1>13, <3>6, Zenon DEF FailedUpload, EndLoop, ServerTypes
        <4>2. handler[s] \in {"opening", "serving", "closing"}
          BY <1>0, <1>9 DEF ServerTypes
        <4> QED BY <1>0, <4>1, <4>2 DEF Finishing, StreamOK
      <3> QED BY <1>13, <3>1, <3>2, <3>3, <3>4, <3>5, <3>6 DEF OpenFails, Crash, FinishStream
    <2> QED BY <1>1, <1>2, <1>8, <1>9, <2>1, ServerEnd
  <1> QED BY <1>12, <1>13

\* The stream that completes an upload is the last one, and the first to do so.
LEMMA FinishEnd ==
  ASSUME Struct, EndInv, NEW s \in Streams, FinishStream(s), completeType[s] = "complete"
  PROVE  EndInv' /\ NoneCompleted
  <1>0. /\ ClientTypes /\ ServerTypes /\ StreamOK(s) /\ \A r \in Streams : EndOK(r)
    BY TypeFacts DEF Struct, StreamsInv, EndInv
  <1>1. loop[s] = "drain" /\ handler[s] = "closing"
    BY <1>0 DEF FinishStream, EndOK
  <1>2. Finishing(s)
    BY <1>1 DEF Finishing
  <1>3. s = stream /\ pc = "ended" /\ tracker /\ NoneCompleted
    BY <1>0, <1>2 DEF EndOK
  <1>4. /\ UNCHANGED <<stream, pc, tracker, completeType>> /\ Return(s) /\ EndLoop(s)
        /\ CompleteUpload("stream", upload[s], completedParts[s] \cup Stored(s))
    BY Zenon DEF FinishStream, writerVars, Stored
  <1>5. PICK u \in Streams : u = upload[s]
    <2>1. upload[s] \in Streams \cup {0}
      BY TypeFacts DEF Struct
    <2> QED BY <1>0, <1>1, <2>1 DEF StreamOK
  <1>6. NoneCompleted' => recording' = NoParts
    <2>1. CASE uploads[u] = "active"
      <3>1. DOMAIN uploads = Streams
        BY TypeFacts DEF Struct
      <3>2. uploads'[u] = "completed"
        BY <1>4, <1>5, <2>1, <3>1 DEF CompleteUpload
      <3> QED BY <3>2 DEF NoneCompleted
    <2>2. CASE uploads[u] # "active"
      BY <1>4, <1>5, <2>2 DEF CompleteUpload
    <2> QED BY <2>1, <2>2
  <1>7. /\ handler'[s] = "done" /\ conn'[s] = "down" /\ wire'[s] = <<>> /\ loop'[s] = "ended"
        /\ \A r \in Streams : r # s => /\ handler'[r] = handler[r] /\ conn'[r] = conn[r] /\ wire'[r] = wire[r] /\ loop'[r] = loop[r]
    BY <1>0, <1>4 DEF Return, EndLoop, CloseStream, ClientTypes, ServerTypes
  <1>8. ASSUME NEW r \in Streams PROVE EndOK(r)'
    <2>1. CASE r = s
      <3>1. Range(<<>>) = {}
        BY DEF Range
      <3>2. ~Finishing(r)'
        BY <1>7, <2>1, <3>1 DEF Finishing
      <3> QED BY <1>7, <2>1, <3>2 DEF EndOK
    <2>2. CASE r # s
      <3>1. ~Finishing(r)
        BY <1>0, <1>3, <2>2 DEF EndOK
      <3>2. ~Finishing(r)'
        BY <1>4, <1>7, <2>2, <3>1 DEF Finishing
      <3> QED BY <1>0, <1>7, <2>2, <3>2 DEF EndOK
    <2> QED BY <2>1, <2>2
  <1>9. tracker' /\ pc' = "ended"
    BY <1>3, <1>4
  <1> QED BY <1>3, <1>6, <1>8, <1>9, EndNext

\* The upload completer comes when all streams have ended.
LEMMA CompleterEnd ==
  ASSUME Struct, EndInv, ExpireTracker \/ \E u \in Uploads : CheckUpload(u)
  PROVE  EndInv'
  <1>0. ClientTypes /\ ServerTypes /\ (\A s \in Streams : StreamOK(s) /\ EndOK(s))
    BY TypeFacts DEF Struct, StreamsInv, EndInv
  <1>1. UNCHANGED <<stream, pc, handler, conn, wire, loop, completeType>>
    BY Zenon DEF ExpireTracker, CheckUpload, writerVars, clientVars, serverVars
  <1>2. pc = "ended" /\ \A s \in Streams : Gone(s)
    BY Zenon DEF ExpireTracker, CheckUpload, Abandoned, Gone, EndInv
  <1>3. ASSUME NEW s \in Streams PROVE ~Finishing(s)
    <2>1. wire[s] = <<>> /\ handler[s] # "closing"
      BY <1>0, <1>2 DEF Gone, EndOK, StreamOK, Fresh
    <2>2. Range(<<>>) = {}
      BY DEF Range
    <2> QED BY <2>1, <2>2 DEF Finishing
  <1>4. ASSUME NEW s \in Streams PROVE EndOK(s)' /\ Gone(s)'
    <2>1. ~Finishing(s)'
      BY <1>1, <1>3 DEF Finishing
    <2> QED BY <1>0, <1>1, <1>2, <2>1 DEF EndOK, Gone
  <1>5. NoneCompleted' => recording' = NoParts
    <2>1. CASE ExpireTracker
      <3>1. uploads' = uploads /\ recording' = recording
        BY <2>1, Zenon DEF ExpireTracker, storageVars
      <3> QED BY <3>1 DEF NoneCompleted, EndInv
    <2>2. ASSUME NEW u \in Uploads, CheckUpload(u) PROVE ~NoneCompleted'
      <3>1. u \in Streams /\ DOMAIN uploads = Streams
        BY TypeFacts, EventTypes DEF Struct
      <3>2. uploads'[u] = "completed"
        BY <2>2, <3>1 DEF CheckUpload, Abandoned, CompleteUpload
      <3> QED BY <3>1, <3>2 DEF NoneCompleted
    <2> QED BY <2>1, <2>2
  <1> QED BY <1>1, <1>2, <1>4, <1>5, EndNext

LEMMA ResumeEnd ==
  ASSUME Struct, EndInv, NEW s \in Streams, Resume(s)
  PROVE  EndInv'
  <1>0. ClientTypes /\ ServerTypes /\ (\A r \in Streams : StreamOK(r) /\ EndOK(r))
    BY TypeFacts DEF Struct, StreamsInv, EndInv
  <1>1. /\ pc = "resume" /\ conn[s] = "none" /\ UNCHANGED <<wire, loop, completeType, uploads, recording, tracker>>
        /\ conn' = [conn EXCEPT ![s] = "up"] /\ handler' = [handler EXCEPT ![s] = "opening"]
    BY Zenon DEF Resume, storageVars
  <1>2. tracker' /\ NoneCompleted' /\ recording' = NoParts
    BY <1>1 DEF EndInv, NoneCompleted
  <1>3. ASSUME NEW r \in Streams PROVE EndOK(r)'
    <2>1. ~Finishing(r)
      BY <1>0, <1>1 DEF EndOK
    <2>2. CASE r = s
      <3>1. handler'[r] = "opening" /\ loop[r] = "none"
        BY <1>0, <1>1, <2>2 DEF ServerTypes, StreamOK, Fresh
      <3>2. ~Finishing(r)'
        BY <1>1, <2>1, <3>1 DEF Finishing
      <3> QED BY <1>1, <3>1, <3>2 DEF EndOK
    <2>3. CASE r # s
      <3>1. handler'[r] = handler[r] /\ conn'[r] = conn[r]
        BY <1>0, <1>1, <2>3 DEF ServerTypes, ClientTypes
      <3>2. ~Finishing(r)'
        BY <1>1, <2>1, <3>1 DEF Finishing
      <3> QED BY <1>0, <1>1, <3>1, <3>2 DEF EndOK
    <2> QED BY <2>2, <2>3
  <1> QED BY <1>2, <1>3, EndNext

LEMMA InitEnd ==
  ASSUME Init
  PROVE  EndInv
  <1>1. /\ \A s \in Streams : /\ handler[s] = "none" => conn[s] = "none"
                              /\ handler[s] \notin {"done", "closing"} /\ loop[s] = "none" /\ wire[s] = <<>>
                              /\ uploads[s] = "none"
        /\ tracker /\ recording = NoParts
    BY EventTypes DEF Init
  <1>2. Range(<<>>) = {}
    BY DEF Range
  <1>3. \A s \in Streams : EndOK(s)
    BY <1>1, <1>2 DEF EndOK, Finishing
  <1> QED BY <1>1, <1>3 DEF EndInv, NoneCompleted

LEMMA NextEnd ==
  ASSUME Struct, EndInv, [Next]_vars
  PROVE  EndInv'
  <1>1. CASE UNCHANGED vars \/ ProcessEvents \/ EndStream
    BY <1>1, WriterEnd, ResumeEnd DEF ProcessEvents
  <1>2. ASSUME NEW s \in Streams, Serve(s) \/ FlushSlice(s) \/ Break(s) \/ Crash(s) PROVE EndInv'
    BY <1>2, WriterEnd, HandlerEnd, FinishEnd DEF Serve
  <1>3. CASE ExpireTracker \/ \E u \in Uploads : CheckUpload(u)
    BY <1>3, CompleterEnd
  <1> QED BY <1>1, <1>2, <1>3, Zenon DEF Next, System

\* A step of a session with one upload leaves the recording as it is, or makes the first.
LEMMA KeptStep ==
  ASSUME Struct, EndInv, [Next]_vars, Cardinality({u \in Uploads : uploads[u] # "none"}) = 1
  PROVE  ReadFrom(recording) \subseteq ReadFrom(recording')
  <1>1. NoneCompleted => ReadFrom(recording) = {}
    BY EventTypes DEF EndInv, ReadFrom
  <1>2. CASE recording' = recording
    BY <1>2 DEF ReadFrom, Before
  <1>3. ASSUME NEW s \in Streams, FinishStream(s), completeType[s] = "complete" PROVE NoneCompleted
    BY <1>3, FinishEnd
  <1>4. ASSUME NEW u \in Uploads, CheckUpload(u) PROVE NoneCompleted
    <2> DEFINE S == {v \in Uploads : uploads[v] # "none"}
    <2>1. IsFiniteSet(S)
      <3>1. IsFiniteSet(Uploads)
        BY RecordingAssumption, FS_Interval DEF Uploads, Streams
      <3> QED BY <3>1, FS_Subset
    <2>2. PICK x : S = {x}
      BY <2>1, FS_Singleton
    <2>3. uploads[u] = "active"
      BY <1>4 DEF CheckUpload, Abandoned
    <2>4. \A v \in Uploads : v # u => uploads[v] = "none"
      BY <2>2, <2>3
    <2> QED BY <2>3, <2>4, EventTypes DEF NoneCompleted
  <1>5. \/ recording' = recording \/ (\E s \in Streams : FinishStream(s) /\ completeType[s] = "complete")
        \/ \E u \in Uploads : CheckUpload(u)
    BY Zenon DEF Next, System, vars, ProcessEvents, EndStream, ExpireTracker, FlushSlice, Break, Crash, UpdateStatus, StreamDone,
           TakeEvent, ResumeFails, GiveUp, Resumed, ResumeTimeout, Replay, ReplayFails, Resume, Serve, Open, OpenFails, ReceiveEvent,
           ReceiveComplete, Abandon, UploadLastSlice, UploadSlice, CompletedUpload, FailedUpload, FinishStream, CompleteProtoStream,
           storageVars
  <1> QED BY <1>1, <1>2, <1>3, <1>4, <1>5

\* completeStream and checkUploads do not touch the recording of a session with one
\* upload once it is there: the stream that completes the upload is the last of the
\* session and the first to complete it, and the completer finds an upload that is
\* active.  For any number of emitters, events, streams and attempts.
THEOREM RecordingIsKept == Spec => RecordingKept
  <1>1. Init => Struct /\ EndInv
    BY InitStruct, InitEnd
  <1>2. Struct /\ EndInv /\ [Next]_vars => (Struct /\ EndInv)'
    BY NextStruct, NextEnd
  <1>3. Struct /\ EndInv /\ [Next]_vars =>
          [Cardinality({u \in Uploads : uploads[u] # "none"}) = 1 => ReadFrom(recording) \subseteq ReadFrom(recording')]_vars
    BY KeptStep
  <1> QED BY <1>1, <1>2, <1>3, PTL DEF Spec, RecordingKept

-----------------------------------------------------------------------------
(* A completed recording is whole *)

\* A stream with a loop whose upload is not completed yet, and the parts that it will
\* complete the upload with.
Running(s) == loop[s] \in {"select", "drain"} /\ uploads[upload[s]] = "active"
Mine(s) == completedParts[s] \cup Stored(s)

\* Parts have the odd numbers, from the first one on.
FirstOdds(i) == {2 * j - 1 : j \in 1..i}

\* The events that a stream relies on: those of its parts, those that were in them until
\* they were overwritten, and those that were omitted.  Then those that it has, too.
EventsAt(u, ns) == UNION {Range(parts[u][n]) : n \in ns}
Held(s) == Lost \cup (IF loop[s] = "none" THEN {} ELSE EventsAt(upload[s], Mine(s)))
Ups(s) == {activeUploads[s][n].slice : n \in Uploading(s)}
Members(qs) == UNION {Range(q) : q \in qs}
OnWay(s) == Held(s) \cup Members(Ups(s)) \cup SliceEvents(current[s])

\* No event overtakes another in a part, a slice or on a connection: the events in order
\* that are smaller come first, or are in base.
Ordered(t, base, q) ==
    \A k \in DOMAIN q : /\ q[k] \in Range(t) \cup {CompleteStream}
                        /\ \A x \in OrderOf(t) : x <= q[k] => x \in base \cup {q[j] : j \in 1..k}

\* A stream gives its slices the next odd numbers.
NumberedAs(s, i) ==
    /\ Mine(s) = FirstOdds(i) /\ Uploading(s) \subseteq {2 * i + 1}
    /\ lastPartNumber[s] = 2 * i + (IF Uploading(s) = {} THEN 0 ELSE 2) + (IF current[s] = NoSlice THEN 0 ELSE 1)
Numbered(s) == \E i \in Nat : NumberedAs(s, i)

\* From the writer to the storage: what is on the connection comes after what is in the
\* slice, this after what is being uploaded, and this after what is held.
Path(t, held, ups, slice, sent) ==
    /\ \A q \in ups : Ordered(t, held, q)
    /\ slice # NoSlice => Ordered(t, held \cup Members(ups), slice)
    /\ Ordered(t, held \cup Members(ups) \cup SliceEvents(slice), sent)

PathOK(s) == Path(Taken, Held(s), Ups(s), current[s], wire[s])

\* A stream that is asked to complete the upload has everything.
LineOK(s) ==
    /\ loop[s] = "none" \/ Running(s) => PathOK(s)
    /\ Running(s) => /\ Numbered(s)
                     /\ loop[s] = "drain" => current[s] = NoSlice
                     /\ handler[s] = "closing" /\ completeType[s] = "complete" => InOrder \subseteq OnWay(s)

\* What the writer took is on the stream in use, and what it was told is stored is in
\* the parts that this stream has found.
WriterLine ==
    /\ pc = "select" /\ conn[stream] = "up" /\ (loop[stream] = "none" \/ Running(stream)) =>
           InOrder \subseteq OnWay(stream) \cup Range(wire[stream])
    /\ pc = "replay" => loop[stream] # "none"
    /\ pc \in {"await", "replay"} /\ Running(stream) => Range(trimmed) \cap InOrder \subseteq Held(stream)

UploadOK(u) ==
    /\ \E k \in Nat : DOMAIN parts[u] = FirstOdds(k)
    /\ \A n \in DOMAIN parts[u] : Ordered(Taken, Lost \cup EventsAt(u, {m \in DOMAIN parts[u] : m < n}), parts[u][n])

WholeInv ==
    /\ \A s \in Streams : LineOK(s)
    /\ \A u \in Streams : UploadOK(u)
    /\ WriterLine
    /\ NoneCompleted => source.by = Nobody
    /\ WholeRecording

-----------------------------------------------------------------------------
\* The odd numbers.
LEMMA OddsFact ==
  ASSUME NEW i \in Nat, NEW k \in Nat
  PROVE  /\ FirstOdds(0) = {} /\ FirstOdds(i) \subseteq Nat
         /\ \A m \in FirstOdds(i) : m < 2 * i + 1
         /\ FirstOdds(i) \cup {2 * i + 1} = FirstOdds(i + 1)
         /\ FirstOdds(i) \subseteq FirstOdds(k) => i <= k
         /\ i <= k => FirstOdds(i) = {m \in FirstOdds(k) : m < 2 * i + 1}
         /\ i < k => 2 * i + 1 \in FirstOdds(k)
  <1>1. ASSUME NEW a \in Nat, NEW m PROVE m \in FirstOdds(a) <=> \E j \in 1..a : m = 2 * j - 1
    BY DEF FirstOdds
  <1>2. FirstOdds(0) = {}
    BY DEF FirstOdds
  <1>3. FirstOdds(i) \subseteq Nat /\ \A m \in FirstOdds(i) : m < 2 * i + 1
    BY <1>1
  <1>4. FirstOdds(i) \cup {2 * i + 1} = FirstOdds(i + 1)
    <2>1. ASSUME NEW m \in FirstOdds(i + 1) PROVE m \in FirstOdds(i) \cup {2 * i + 1}
      <3>1. PICK j \in 1..(i + 1) : m = 2 * j - 1
        BY <1>1
      <3>2. CASE j = i + 1
        BY <3>1, <3>2
      <3>3. CASE j \in 1..i
        BY <1>1, <3>1, <3>3
      <3> QED BY <3>2, <3>3
    <2>2. ASSUME NEW m \in FirstOdds(i) PROVE m \in FirstOdds(i + 1)
      <3>1. PICK j \in 1..i : m = 2 * j - 1
        BY <1>1
      <3>2. j \in 1..(i + 1)
        OBVIOUS
      <3> QED BY <1>1, <3>1, <3>2
    <2>3. 2 * i + 1 \in FirstOdds(i + 1)
      <3>1. i + 1 \in 1..(i + 1) /\ 2 * i + 1 = 2 * (i + 1) - 1
        OBVIOUS
      <3> QED BY <1>1, <3>1
    <2> QED BY <2>1, <2>2, <2>3
  <1>5. ASSUME NEW a \in Nat, NEW b \in Nat, a < b PROVE 2 * a + 1 \in FirstOdds(b)
    <2>1. a + 1 \in 1..b /\ 2 * a + 1 = 2 * (a + 1) - 1
      BY <1>5
    <2> QED BY <1>1, <2>1
  <1>6. ASSUME FirstOdds(i) \subseteq FirstOdds(k), k < i PROVE FALSE
    <2>1. 2 * k + 1 \in FirstOdds(k)
      BY <1>5, <1>6
    <2>2. PICK j \in 1..k : 2 * k + 1 = 2 * j - 1
      BY <1>1, <2>1
    <2> QED BY <2>2
  <1>7. ASSUME i <= k PROVE FirstOdds(i) = {m \in FirstOdds(k) : m < 2 * i + 1}
    <2>1. ASSUME NEW m \in FirstOdds(i) PROVE m \in FirstOdds(k) /\ m < 2 * i + 1
      <3>1. PICK j \in 1..i : m = 2 * j - 1
        BY <1>1
      <3>2. j \in 1..k
        BY <1>7
      <3> QED BY <1>1, <1>3, <3>1, <3>2
    <2>2. ASSUME NEW m \in FirstOdds(k), m < 2 * i + 1 PROVE m \in FirstOdds(i)
      <3>1. PICK j \in 1..k : m = 2 * j - 1
        BY <1>1
      <3>2. j \in 1..i
        BY <2>2, <3>1
      <3> QED BY <1>1, <3>1, <3>2
    <2> QED BY <2>1, <2>2
  <1> QED BY <1>2, <1>3, <1>4, <1>5, <1>6, <1>7

\* NewProtoStream goes on with the next odd number.
LEMMA FirstPartFact ==
  ASSUME NEW k \in Nat
  PROVE  FirstPartNumber(FirstOdds(k)) = 2 * k + 1
  <1>1. CASE k = 0
    <2>1. FirstOdds(k) = {}
      BY <1>1, OddsFact
    <2> QED BY <1>1, <2>1 DEF FirstPartNumber
  <1>2. CASE k # 0
    <2>1. PICK i \in Nat : k = i + 1
      <3>1. k - 1 \in Nat /\ k = (k - 1) + 1
        BY <1>2
      <3> QED BY <3>1
    <2>2. 2 * i + 1 \in FirstOdds(k)
      <3>1. FirstOdds(i) \cup {2 * i + 1} = FirstOdds(i + 1)
        BY OddsFact
      <3> QED BY <2>1, <3>1
    <2>3. FirstOdds(k) \in SUBSET (0..(2 * k + 1)) /\ FirstOdds(k) # {} /\ 2 * k + 1 \in Nat /\ \A m \in FirstOdds(k) : m \in Nat /\ m < 2 * k + 1
      BY <2>2, OddsFact
    <2>4. Max(FirstOdds(k)) \in FirstOdds(k) /\ \A j \in FirstOdds(k) : j <= Max(FirstOdds(k))
      BY <2>3, MaxFact
    <2>5. PICK j \in 1..k : Max(FirstOdds(k)) = 2 * j - 1
      BY <2>4 DEF FirstOdds
    <2>6. Max(FirstOdds(k)) = 2 * i + 1
      BY <2>1, <2>2, <2>4, <2>5
    <2>7. FirstPartNumber(FirstOdds(k)) = Max(FirstOdds(k)) + 2
      BY <2>3 DEF FirstPartNumber
    <2> QED BY <2>1, <2>6, <2>7
  <1> QED BY <1>1, <1>2

\* A set of naturals that is not empty has a least element.
LEMMA MinFact ==
  ASSUME NEW S \in SUBSET Nat, S # {}
  PROVE  \E m \in S : \A j \in S : m <= j
  <1> DEFINE R == {ss \in Nat \X Nat : ss[1] < ss[2]}
  <1>1. IsWellFoundedOn(R, Nat) /\ \A x, y \in Nat : <<y, x>> \in R <=> y < x
    <2>1. OpToRel(<, Nat) = R
      BY Zenon DEF OpToRel
    <2>2. IsWellFoundedOn(R, Nat)
      BY <2>1, NatLessThanWellFounded, Zenon
    <2> QED BY <2>2
  <1> HIDE DEF R
  <1>2. PICK x \in S : TRUE
    OBVIOUS
  <1>3. PICK m \in S : \A b \in S : ~(<<b, m>> \in R)
    BY <1>1, <1>2, WFMin
  <1>4. \A b \in S : ~(b < m)
    BY <1>1, <1>3, Zenon
  <1> QED BY <1>3, <1>4

\* More may be relied on.
LEMMA OrderedMore ==
  ASSUME NEW t, NEW base, NEW more, NEW q, base \subseteq more, Ordered(t, base, q)
  PROVE  Ordered(t, more, q)
  BY Zenon DEF Ordered

\* What is sent on a connection comes after what was sent before.
LEMMA OrderedConcat ==
  ASSUME NEW t, NEW base, NEW M, NEW q \in Seq(M), NEW p \in Seq(M), Ordered(t, base, q), Ordered(t, base \cup Range(q), p)
  PROVE  Ordered(t, base, q \o p)
  <1>1. /\ q \o p \in Seq(M) /\ Len(q \o p) = Len(q) + Len(p) /\ Len(q) \in Nat /\ Len(p) \in Nat
        /\ \A i \in 1..Len(q) + Len(p) : (q \o p)[i] = IF i <= Len(q) THEN q[i] ELSE p[i - Len(q)]
    BY ConcatProperties, LenProperties
  <1>2. DOMAIN (q \o p) = 1..(Len(q) + Len(p)) /\ DOMAIN q = 1..Len(q) /\ DOMAIN p = 1..Len(p)
    BY <1>1
  <1>3. ASSUME NEW k \in DOMAIN (q \o p)
        PROVE  /\ (q \o p)[k] \in Range(t) \cup {CompleteStream}
               /\ \A x \in OrderOf(t) : x <= (q \o p)[k] => x \in base \cup {(q \o p)[j] : j \in 1..k}
    <2>1. CASE k <= Len(q)
      <3>1. k \in DOMAIN q /\ (q \o p)[k] = q[k] /\ \A j \in 1..k : (q \o p)[j] = q[j]
        BY <1>1, <1>2, <1>3, <2>1
      <3>2. {q[j] : j \in 1..k} = {(q \o p)[j] : j \in 1..k}
        BY <3>1
      <3> QED BY <3>1, <3>2, Zenon DEF Ordered
    <2>2. CASE ~(k <= Len(q))
      <3>1. PICK h \in DOMAIN p : h = k - Len(q) /\ (q \o p)[k] = p[h]
        BY <1>1, <1>2, <1>3, <2>2
      <3>2. ASSUME NEW j \in 1..h PROVE \E m \in 1..k : p[j] = (q \o p)[m]
        <4>1. j + Len(q) \in 1..k /\ j + Len(q) \in 1..(Len(q) + Len(p)) /\ ~(j + Len(q) <= Len(q)) /\ (j + Len(q)) - Len(q) = j
          BY <1>1, <1>2, <3>1
        <4>2. (q \o p)[j + Len(q)] = p[j]
          BY <1>1, <4>1
        <4> QED BY <4>1, <4>2
      <3>3. ASSUME NEW x \in Range(q) PROVE \E m \in 1..k : x = (q \o p)[m]
        <4>1. PICK j \in 1..Len(q) : x = q[j]
          BY <1>2 DEF Range
        <4>2. j \in 1..k /\ (q \o p)[j] = q[j]
          BY <1>1, <1>2, <1>3, <2>2
        <4> QED BY <4>1, <4>2
      <3>4. ASSUME NEW x \in OrderOf(t), x <= (q \o p)[k] PROVE x \in base \cup {(q \o p)[j] : j \in 1..k}
        <4>1. x \in (base \cup Range(q)) \cup {p[j] : j \in 1..h}
          BY <3>1, <3>4, Zenon DEF Ordered
        <4>2. CASE x \in base \cup Range(q)
          BY <3>3, <4>2
        <4>3. CASE x \in {p[j] : j \in 1..h}
          BY <3>2, <4>3
        <4> QED BY <4>1, <4>2, <4>3
      <3> QED BY <3>1, <3>4, Zenon DEF Ordered
    <2> QED BY <2>1, <2>2
  <1> QED BY <1>3, Zenon DEF Ordered

LEMMA OrderedNothing ==
  ASSUME NEW t, NEW base
  PROVE  Ordered(t, base, <<>>)
  BY DEF Ordered

\* The first of some events goes ahead.
LEMMA OrderedTail ==
  ASSUME NEW t, NEW base, NEW M, NEW q \in Seq(M), q # <<>>, Ordered(t, base, q)
  PROVE  Ordered(t, base \cup {Head(q)}, Tail(q)) /\ Ordered(t, base, <<Head(q)>>)
  <1>1. /\ Len(q) \in Nat \ {0} /\ DOMAIN q = 1..Len(q) /\ Head(q) = q[1] /\ Tail(q) \in Seq(M)
        /\ DOMAIN Tail(q) = 1..(Len(q) - 1) /\ \A k \in 1..(Len(q) - 1) : Tail(q)[k] = q[k + 1]
    <2>1. Len(q) \in Nat /\ Len(q) # 0
      BY LenProperties, EmptySeq
    <2> QED BY <2>1, HeadTailProperties, LenProperties
  <1>2. ASSUME NEW k \in DOMAIN Tail(q)
        PROVE  /\ Tail(q)[k] \in Range(t) \cup {CompleteStream}
               /\ \A x \in OrderOf(t) : x <= Tail(q)[k] => x \in (base \cup {Head(q)}) \cup {Tail(q)[j] : j \in 1..k}
    <2>1. k \in 1..(Len(q) - 1) /\ k + 1 \in DOMAIN q /\ Tail(q)[k] = q[k + 1]
      BY <1>1
    <2>2. ASSUME NEW j \in 1..(k + 1) PROVE q[j] = Head(q) \/ \E m \in 1..k : q[j] = Tail(q)[m]
      <3>1. CASE j = 1
        BY <1>1, <3>1
      <3>2. CASE j # 1
        <4>1. j - 1 \in 1..k /\ j - 1 \in 1..(Len(q) - 1) /\ (j - 1) + 1 = j
          BY <2>1, <3>2
        <4>2. Tail(q)[j - 1] = q[j]
          BY <1>1, <4>1
        <4> QED BY <4>1, <4>2
      <3> QED BY <3>1, <3>2
    <2>3. ASSUME NEW x \in OrderOf(t), x <= Tail(q)[k] PROVE x \in (base \cup {Head(q)}) \cup {Tail(q)[j] : j \in 1..k}
      <3>1. x \in base \cup {q[j] : j \in 1..(k + 1)}
        BY <2>1, <2>3, Zenon DEF Ordered
      <3> QED BY <2>2, <3>1
    <2> QED BY <2>1, <2>3, Zenon DEF Ordered
  <1>3. ASSUME NEW k \in DOMAIN <<Head(q)>>
        PROVE  /\ <<Head(q)>>[k] \in Range(t) \cup {CompleteStream}
               /\ \A x \in OrderOf(t) : x <= <<Head(q)>>[k] => x \in base \cup {<<Head(q)>>[j] : j \in 1..k}
    <2>1. k = 1 /\ <<Head(q)>>[k] = q[1] /\ 1 \in DOMAIN q
      BY <1>1
    <2>2. {<<Head(q)>>[j] : j \in 1..1} = {q[j] : j \in 1..1}
      BY <1>1
    <2> QED BY <2>1, <2>2, Zenon DEF Ordered
  <1> QED BY <1>2, <1>3, Zenon DEF Ordered

\* One event.
LEMMA OrderedOne ==
  ASSUME NEW t, NEW base, NEW e, e \in Range(t) \cup {CompleteStream}, \A x \in OrderOf(t) : x <= e => x \in base \cup {e}
  PROVE  Ordered(t, base, <<e>>)
  <1>1. \A k \in DOMAIN <<e>> : k = 1 /\ <<e>>[k] = e
    OBVIOUS
  <1>2. {<<e>>[j] : j \in 1..1} = {e}
    OBVIOUS
  <1> QED BY <1>1, <1>2, Zenon DEF Ordered

\* An event that is taken is in order only if it is the largest.
LEMMA OrderedTake ==
  ASSUME NEW t \in Seq(Events), NEW i \in Events, i \notin Range(t), NEW base, NEW q, Ordered(t, base, q),
         \A k \in DOMAIN q : q[k] # CompleteStream
  PROVE  Ordered(Append(t, i), base, q)
  <1>1. /\ OrderOf(Append(t, i)) \subseteq OrderOf(t) \cup {i} /\ Range(Append(t, i)) = Range(t) \cup {i}
        /\ i \in OrderOf(Append(t, i)) => \A e \in Range(t) : e < i
    BY OrderAppend, RangeAppend
  <1>2. \A e \in Range(t) : e \in Nat
    <2>1. Range(t) \subseteq Events
      BY DEF Range
    <2> QED BY <2>1, EventTypes
  <1>3. i \in Nat
    BY EventTypes
  <1>4. ASSUME NEW k \in DOMAIN q
        PROVE  /\ q[k] \in Range(Append(t, i)) \cup {CompleteStream}
               /\ \A x \in OrderOf(Append(t, i)) : x <= q[k] => x \in base \cup {q[j] : j \in 1..k}
    <2>1. q[k] \in Range(t) /\ \A x \in OrderOf(t) : x <= q[k] => x \in base \cup {q[j] : j \in 1..k}
      BY DEF Ordered
    <2>2. i \in OrderOf(Append(t, i)) => ~(i <= q[k])
      BY <1>1, <1>2, <1>3, <2>1
    <2>3. q[k] \in Range(Append(t, i)) \cup {CompleteStream}
      BY <1>1, <2>1
    <2>4. ASSUME NEW x \in OrderOf(Append(t, i)), x <= q[k] PROVE x \in base \cup {q[j] : j \in 1..k}
      <3>1. x \in OrderOf(t)
        BY <1>1, <2>2, <2>4
      <3> QED BY <2>1, <2>4, <3>1, Zenon
    <2> QED BY <2>3, <2>4, Zenon
  <1> QED BY <1>4, Zenon DEF Ordered

\* The buffer is in order, if what was taken off it is in base.
LEMMA OrderedReplay ==
  ASSUME NEW a \in Seq(Events), NEW b \in Seq(Events), NEW base, Range(a) \cap OrderOf(a \o b) \subseteq base
  PROVE  Ordered(a \o b, base, b) /\ OrderOf(a \o b) \subseteq base \cup Range(b)
  <1>1. Flow(OrderOf(a \o b), base, Range(a \o b), {}, {}, {}, b)
    BY FlowReplay
  <1>2. \A k \in DOMAIN b, x \in OrderOf(a \o b) : x <= b[k] => x \in base \cup {b[j] : j \in 1..k}
    BY <1>1 DEF Flow
  <1>3. Range(b) \subseteq Range(a \o b) /\ OrderOf(a \o b) \subseteq base \cup Range(b)
    BY <1>1 DEF Flow
  <1>4. \A k \in DOMAIN b : b[k] \in Range(b)
    BY DEF Range
  <1> QED BY <1>2, <1>3, <1>4, Zenon DEF Ordered

\* So is a leading part of it.
LEMMA OrderedPart ==
  ASSUME NEW t, NEW M, NEW b \in Seq(M), NEW base, Ordered(t, base, b), NEW n \in 0..Len(b)
  PROVE  Ordered(t, base, SubSeq(b, 1, n))
  <1>1. Len(b) \in Nat /\ DOMAIN b = 1..Len(b)
    BY LenProperties
  <1>2. DOMAIN SubSeq(b, 1, n) = 1..n /\ \A k \in 1..n : SubSeq(b, 1, n)[k] = b[k]
    BY <1>1, SubSeqProperties
  <1>3. ASSUME NEW k \in 1..n
        PROVE  /\ SubSeq(b, 1, n)[k] \in Range(t) \cup {CompleteStream}
               /\ \A x \in OrderOf(t) : x <= SubSeq(b, 1, n)[k] => x \in base \cup {SubSeq(b, 1, n)[j] : j \in 1..k}
    <2>1. k \in DOMAIN b /\ SubSeq(b, 1, n)[k] = b[k] /\ \A j \in 1..k : SubSeq(b, 1, n)[j] = b[j]
      BY <1>1, <1>2
    <2>2. {SubSeq(b, 1, n)[j] : j \in 1..k} = {b[j] : j \in 1..k}
      BY <2>1
    <2> QED BY <2>1, <2>2, Zenon DEF Ordered
  <1> QED BY <1>2, <1>3, Zenon DEF Ordered

-----------------------------------------------------------------------------
\* More is held.
LEMMA PathMore ==
  ASSUME NEW t, NEW held, NEW more, NEW ups, NEW slice, NEW sent, held \subseteq more, Path(t, held, ups, slice, sent)
  PROVE  Path(t, more, ups, slice, sent)
  <1>1. held \cup Members(ups) \subseteq more \cup Members(ups)
    OBVIOUS
  <1>2. held \cup Members(ups) \cup SliceEvents(slice) \subseteq more \cup Members(ups) \cup SliceEvents(slice)
    OBVIOUS
  <1>3. \A q \in ups : Ordered(t, more, q)
    BY OrderedMore DEF Path
  <1>4. slice # NoSlice => Ordered(t, more \cup Members(ups), slice)
    BY <1>1, OrderedMore DEF Path
  <1>5. Ordered(t, more \cup Members(ups) \cup SliceEvents(slice), sent)
    BY <1>2, OrderedMore DEF Path
  <1> QED BY <1>3, <1>4, <1>5, Zenon DEF Path

\* The writer takes an event.
LEMMA PathTake ==
  ASSUME NEW t \in Seq(Events), NEW i \in Events, i \notin Range(t), NEW held, NEW ups \in SUBSET Seq(Events),
         NEW slice \in Seq(Events) \cup {NoSlice}, NEW sent \in Seq(Messages), CompleteStream \notin Range(sent),
         Path(t, held, ups, slice, sent)
  PROVE  Path(Append(t, i), held, ups, slice, sent)
  <1>1. \A q \in Seq(Events) : \A k \in DOMAIN q : q[k] # CompleteStream
    BY EventTypes
  <1>2. \A k \in DOMAIN sent : sent[k] # CompleteStream
    BY DEF Range
  <1>3. \A q \in ups : Ordered(Append(t, i), held, q)
    <2>1. ASSUME NEW q \in ups PROVE Ordered(Append(t, i), held, q)
      <3>1. Ordered(t, held, q) /\ q \in Seq(Events)
        BY DEF Path
      <3>2. \A k \in DOMAIN q : q[k] # CompleteStream
        BY <1>1, <3>1
      <3> QED BY <3>1, <3>2, OrderedTake
    <2> QED BY <2>1
  <1>4. ASSUME slice # NoSlice PROVE Ordered(Append(t, i), held \cup Members(ups), slice)
    <2>1. Ordered(t, held \cup Members(ups), slice) /\ slice \in Seq(Events)
      BY <1>4 DEF Path
    <2>2. \A k \in DOMAIN slice : slice[k] # CompleteStream
      BY <1>1, <2>1
    <2> QED BY <2>1, <2>2, OrderedTake
  <1>5. Ordered(Append(t, i), held \cup Members(ups) \cup SliceEvents(slice), sent)
    <2>1. Ordered(t, held \cup Members(ups) \cup SliceEvents(slice), sent)
      BY DEF Path
    <2> QED BY <1>2, <2>1, OrderedTake
  <1> QED BY <1>3, <1>4, <1>5, Zenon DEF Path

\* The writer sends.
LEMMA PathSend ==
  ASSUME NEW t, NEW held, NEW ups, NEW slice, NEW sent \in Seq(Messages), NEW p \in Seq(Messages),
         Path(t, held, ups, slice, sent),
         Ordered(t, (held \cup Members(ups) \cup SliceEvents(slice)) \cup Range(sent), p)
  PROVE  Path(t, held, ups, slice, sent \o p)
  <1>1. Ordered(t, held \cup Members(ups) \cup SliceEvents(slice), sent \o p)
    BY OrderedConcat DEF Path
  <1> QED BY <1>1, Zenon DEF Path

LEMMA PathNothing ==
  ASSUME NEW t, NEW held, NEW ups, NEW slice, NEW sent, Path(t, held, ups, slice, sent)
  PROVE  Path(t, held, ups, slice, <<>>)
  BY OrderedNothing, Zenon DEF Path

\* The handler receives an event.
Longer(slice, e, more) == more = IF slice = NoSlice THEN <<e>> ELSE Append(slice, e)

LEMMA LongerFact ==
  ASSUME NEW slice \in Seq(Events) \cup {NoSlice}, NEW e \in Events, NEW more, Longer(slice, e, more)
  PROVE  more \in Seq(Events) /\ more # NoSlice /\ SliceEvents(more) = SliceEvents(slice) \cup {e}
  <1>1. more \in Seq(Events) /\ Range(more) = SliceEvents(slice) \cup {e}
    <2>1. CASE slice = NoSlice
      <3>1. more = <<e>> /\ SliceEvents(slice) = {}
        BY <2>1 DEF SliceEvents, Longer
      <3>2. Range(<<e>>) = {e}
        BY DEF Range
      <3> QED BY <3>1, <3>2
    <2>2. CASE slice # NoSlice
      <3>1. more = Append(slice, e) /\ SliceEvents(slice) = Range(slice) /\ slice \in Seq(Events)
        BY <2>2 DEF SliceEvents, Longer
      <3>2. Range(Append(slice, e)) = Range(slice) \cup {e}
        BY <3>1, RangeAppend
      <3> QED BY <3>1, <3>2
    <2> QED BY <2>1, <2>2
  <1>2. more # NoSlice
    BY <1>1, EventTypes
  <1> QED BY <1>1, <1>2 DEF SliceEvents

LEMMA PathReceive ==
  ASSUME NEW t, NEW held, NEW ups, NEW slice \in Seq(Events) \cup {NoSlice}, NEW sent \in Seq(Messages), sent # <<>>,
         NEW e \in Events, e = Head(sent), NEW rest, rest = Tail(sent), Path(t, held, ups, slice, sent),
         NEW more, Longer(slice, e, more)
  PROVE  Path(t, held, ups, more, rest)
  <1> DEFINE base == held \cup Members(ups)
  <1>1. Ordered(t, base \cup SliceEvents(slice) \cup {e}, Tail(sent)) /\ Ordered(t, base \cup SliceEvents(slice), <<e>>)
    <2>1. Ordered(t, base \cup SliceEvents(slice), sent)
      BY DEF Path
    <2> QED BY <2>1, OrderedTail
  <1>2. more \in Seq(Events) /\ more # NoSlice /\ SliceEvents(more) = SliceEvents(slice) \cup {e}
    BY LongerFact
  <1>3. Ordered(t, base, more)
    <2>1. CASE slice = NoSlice
      <3>1. more = <<e>> /\ SliceEvents(slice) = {} /\ base \cup {} = base
        BY <2>1 DEF SliceEvents, Longer
      <3>2. Ordered(t, base \cup {}, <<e>>)
        BY <1>1, <3>1
      <3> QED BY <3>1, <3>2
    <2>2. CASE slice # NoSlice
      <3>1. more = Append(slice, e) /\ SliceEvents(slice) = Range(slice) /\ slice \in Seq(Events)
        BY <2>2 DEF SliceEvents, Longer
      <3>2. more = slice \o <<e>> /\ <<e>> \in Seq(Events)
        BY <3>1
      <3>3. Ordered(t, base, slice)
        BY <2>2 DEF Path
      <3>4. Ordered(t, base \cup Range(slice), <<e>>)
        BY <1>1, <3>1
      <3>5. Ordered(t, base, slice \o <<e>>)
        BY <3>1, <3>2, <3>3, <3>4, OrderedConcat
      <3> QED BY <3>2, <3>5
    <2> QED BY <2>1, <2>2
  <1>4. base \cup SliceEvents(slice) \cup {e} = base \cup SliceEvents(more)
    BY <1>2
  <1>5. Ordered(t, base \cup SliceEvents(more), rest)
    BY <1>1, <1>4
  <1> QED BY <1>2, <1>3, <1>5, Zenon DEF Path

\* The slice after an event was not written to it: it may have been started for the event.
Unwritten(slice, slice2) == slice2 = slice \/ (slice = NoSlice /\ slice2 = <<>>)

LEMMA UnwrittenFact ==
  ASSUME NEW slice, NEW slice2, Unwritten(slice, slice2)
  PROVE  SliceEvents(slice2) = SliceEvents(slice)
  <1>1. Range(<<>>) = {}
    BY DEF Range
  <1> QED BY <1>1 DEF SliceEvents, Unwritten

\* The first event on the connection is omitted.
LEMMA PathOmit ==
  ASSUME NEW t, NEW held, NEW ups, NEW slice, NEW sent \in Seq(Messages), sent # <<>>,
         NEW e \in held, e = Head(sent), NEW rest, rest = Tail(sent), Path(t, held, ups, slice, sent),
         NEW slice2, Unwritten(slice, slice2)
  PROVE  Path(t, held, ups, slice2, rest)
  <1>1. SliceEvents(slice2) = SliceEvents(slice) /\ (slice2 # slice => slice2 = <<>>)
    <2>1. Range(<<>>) = {}
      BY DEF Range
    <2> QED BY <2>1 DEF SliceEvents, Unwritten
  <1>2. Path(t, held, ups, slice, sent)
    OBVIOUS
  <1>3. Ordered(t, held \cup Members(ups) \cup SliceEvents(slice), rest)
    <2>1. Ordered(t, held \cup Members(ups) \cup SliceEvents(slice), sent)
      BY <1>2 DEF Path
    <2>2. Ordered(t, (held \cup Members(ups) \cup SliceEvents(slice)) \cup {Head(sent)}, Tail(sent))
      BY <2>1, OrderedTail
    <2>3. (held \cup Members(ups) \cup SliceEvents(slice)) \cup {Head(sent)} = held \cup Members(ups) \cup SliceEvents(slice)
      OBVIOUS
    <2> QED BY <2>2, <2>3
  <1>4. slice2 # NoSlice => Ordered(t, held \cup Members(ups), slice2)
    BY <1>1, <1>2, OrderedNothing DEF Path
  <1> QED BY <1>1, <1>2, <1>3, <1>4, Zenon DEF Path

\* The slice becomes the one that is uploaded.
LEMMA PathStart ==
  ASSUME NEW t, NEW held, NEW slice, slice # NoSlice, NEW sent, Path(t, held, {}, slice, sent)
  PROVE  /\ Path(t, held, {slice}, NoSlice, sent)
         /\ held \cup Members({slice}) \cup SliceEvents(NoSlice) = held \cup Members({}) \cup SliceEvents(slice)
  <1>1. Members({}) = {} /\ Members({slice}) = Range(slice) /\ SliceEvents(NoSlice) = {} /\ SliceEvents(slice) = Range(slice)
    BY DEF Members, SliceEvents
  <1>2. held \cup Members({slice}) \cup SliceEvents(NoSlice) = held \cup Members({}) \cup SliceEvents(slice)
    BY <1>1
  <1>3. held \cup Members({}) = held
    BY <1>1
  <1> QED BY <1>2, <1>3 DEF Path

\* The slice that was uploaded is stored.
LEMMA PathStore ==
  ASSUME NEW t, NEW held, NEW more, NEW q, NEW slice, NEW sent, held \cup Range(q) \subseteq more,
         Path(t, held, {q}, slice, sent)
  PROVE  /\ Path(t, more, {}, slice, sent)
         /\ held \cup Members({q}) \cup SliceEvents(slice) \subseteq more \cup Members({}) \cup SliceEvents(slice)
  <1>1. Members({}) = {} /\ Members({q}) = Range(q)
    BY DEF Members
  <1>2. /\ held \cup Members({q}) \subseteq more \cup Members({})
        /\ held \cup Members({q}) \cup SliceEvents(slice) \subseteq more \cup Members({}) \cup SliceEvents(slice)
    BY <1>1
  <1>3. slice # NoSlice => Ordered(t, more \cup Members({}), slice)
    BY <1>2, OrderedMore DEF Path
  <1>4. Ordered(t, more \cup Members({}) \cup SliceEvents(slice), sent)
    BY <1>2, OrderedMore DEF Path
  <1> QED BY <1>2, <1>3, <1>4, Zenon DEF Path

-----------------------------------------------------------------------------
\* ProtoReader returns an event in order of a recording that has it: the first event that
\* is not smaller, in the first part that has one, is the event itself.
LEMMA ReadFact ==
  ASSUME NEW rec, IsParts(rec), NEW t \in Seq(Events), NEW lost,
         \A n \in DOMAIN rec : Ordered(t, lost \cup UNION {Range(rec[m]) : m \in {j \in DOMAIN rec : j < n}}, rec[n]),
         NEW x \in OrderOf(t), x \in EventsOf(rec), x \notin lost
  PROVE  x \in ReadFrom(rec)
  <1>1. x \in Events /\ x \in Nat
    <2>1. Range(t) \subseteq Events
      BY DEF Range
    <2> QED BY <2>1, EventTypes DEF OrderOf
  <1>2. \A n \in DOMAIN rec : n \in Nat /\ rec[n] \in Seq(Events) /\ Range(rec[n]) \subseteq Nat
    <2>1. \A q \in Seq(Events) : Range(q) \subseteq Nat
      <3>1. \A q \in Seq(Events) : Range(q) \subseteq Events
        BY DEF Range
      <3> QED BY <3>1, EventTypes
    <2> QED BY <2>1 DEF IsParts, PartNumbers
  <1>3. PICK n \in DOMAIN rec : (\E e \in Range(rec[n]) : x <= e) /\ \A m \in DOMAIN rec : (\E e \in Range(rec[m]) : x <= e) => n <= m
    <2> DEFINE S == {n \in DOMAIN rec : \E e \in Range(rec[n]) : x <= e}
    <2>1. PICK n \in DOMAIN rec : x \in Range(rec[n])
      BY DEF EventsOf
    <2>2. x <= x
      BY <1>1
    <2>3. n \in S
      BY <2>1, <2>2
    <2>4. S \in SUBSET Nat /\ S # {}
      BY <1>2, <2>3
    <2>5. \E m \in S : \A j \in S : m <= j
      <3> HIDE DEF S
      <3> QED BY <2>4, MinFact
    <2> QED BY <2>5
  <1>4. PICK q \in Seq(Events) : q = rec[n]
    BY <1>2
  <1>5. Len(q) \in Nat /\ DOMAIN q = 1..Len(q)
    BY LenProperties
  <1>6. PICK k \in 1..Len(q) : x <= q[k] /\ \A j \in 1..Len(q) : x <= q[j] => k <= j
    <2> DEFINE S == {k \in 1..Len(q) : x <= q[k]}
    <2>1. PICK e \in Range(q) : x <= e
      BY <1>3, <1>4
    <2>2. PICK k \in 1..Len(q) : e = q[k]
      BY <1>5 DEF Range
    <2>3. S \in SUBSET Nat /\ S # {}
      BY <1>5, <2>1, <2>2
    <2>4. \E m \in S : \A j \in S : m <= j
      <3> HIDE DEF S
      <3> QED BY <2>3, MinFact
    <2> QED BY <2>4
  <1>6a. Before(rec, n, k) = (UNION {Range(rec[m]) : m \in {i \in DOMAIN rec : i < n}}) \cup {q[i] : i \in 1..(k - 1)}
    <2>1. Before(rec, n, k) = (UNION {Range(rec[m]) : m \in {i \in DOMAIN rec : i < n}}) \cup {rec[n][i] : i \in 1..(k - 1)}
      BY Zenon DEF Before
    <2>2. {rec[n][i] : i \in 1..(k - 1)} = {q[i] : i \in 1..(k - 1)}
      BY <1>4
    <2> QED BY <2>1, <2>2
  <1>7. ASSUME NEW j \in Before(rec, n, k) PROVE j < x
    <2>1. CASE \E m \in DOMAIN rec : m < n /\ j \in Range(rec[m])
      <3>1. PICK m \in DOMAIN rec : m < n /\ j \in Range(rec[m])
        BY <2>1
      <3>2. m \in Nat /\ n \in Nat /\ j \in Nat
        BY <1>2, <3>1
      <3>3. ~(x <= j)
        BY <1>3, <3>1, <3>2
      <3> QED BY <1>1, <3>2, <3>3
    <2>2. CASE \E i \in 1..(k - 1) : j = q[i]
      <3>1. PICK i \in 1..(k - 1) : j = q[i]
        BY <2>2
      <3>2. i \in 1..Len(q) /\ ~(k <= i)
        BY <1>5
      <3>3. ~(x <= j)
        BY <1>6, <3>1, <3>2
      <3>4. j \in Nat
        <4>1. q[i] \in Events
          BY <1>5, <3>2
        <4> QED BY <3>1, <4>1, EventTypes
      <3> QED BY <1>1, <3>3, <3>4
    <2>3. j \in UNION {Range(rec[m]) : m \in {i \in DOMAIN rec : i < n}} \/ j \in {q[i] : i \in 1..(k - 1)}
      BY <1>6a
    <2> QED BY <2>1, <2>2, <2>3
  <1>8. q[k] = x
    <2>1. Ordered(t, lost \cup UNION {Range(rec[m]) : m \in {j \in DOMAIN rec : j < n}}, q)
      BY <1>4
    <2>2. k \in DOMAIN q
      BY <1>5
    <2>3. x \in (lost \cup UNION {Range(rec[m]) : m \in {j \in DOMAIN rec : j < n}}) \cup {q[j] : j \in 1..k}
      BY <1>6, <2>1, <2>2, Zenon DEF Ordered
    <2>4. ~(x < x)
      BY <1>1
    <2>5. x \notin Before(rec, n, k)
      BY <1>7, <2>4, Zenon
    <2>6. x \notin UNION {Range(rec[m]) : m \in {j \in DOMAIN rec : j < n}}
      BY <2>5, Zenon DEF Before
    <2>7. PICK j \in 1..k : x = q[j]
      BY <2>3, <2>6
    <2>8. j \notin 1..(k - 1)
      BY <1>6a, <2>5, <2>7
    <2>9. j = k
      BY <1>5, <2>8
    <2> QED BY <2>7, <2>9
  <1> QED BY <1>1, <1>4, <1>7, <1>8 DEF ReadFrom

-----------------------------------------------------------------------------
(* What a step leaves alone *)

\* The loop of the stream makes no step.
Untouched(s) ==
    /\ loop'[s] = loop[s] /\ upload'[s] = upload[s] /\ current'[s] = current[s]
    /\ lastPartNumber'[s] = lastPartNumber[s] /\ activeUploads'[s] = activeUploads[s]
    /\ completedParts'[s] = completedParts[s]

\* The upload of a loop.
LEMMA LoopUpload ==
  ASSUME Struct, NEW s \in Streams, loop[s] # "none"
  PROVE  upload[s] \in Streams /\ uploads[upload[s]] # "none" /\ (uploads[upload[s]] = "active" => Mine(s) \subseteq DOMAIN parts[upload[s]])
  <1>1. upload[s] \in Streams \cup {0} /\ StreamOK(s) /\ PartsOK(s)
    BY TypeFacts DEF Struct, StreamsInv, PartsThere
  <1> QED BY <1>1 DEF StreamOK, PartsOK, Mine

\* What a stream holds it keeps while the upload is active.
LEMMA HeldGrows ==
  ASSUME Struct, Grows, NEW s \in Streams, loop[s] # "none", loop'[s] # "none", upload'[s] = upload[s],
         Mine(s) \subseteq Mine(s)', uploads'[upload[s]] = "active"
  PROVE  uploads[upload[s]] = "active" /\ Held(s) \subseteq Held(s)'
  <1>1. PICK u \in Streams : u = upload[s] /\ uploads[u] # "none" /\ uploads'[u] = "active"
    BY LoopUpload
  <1>2. /\ Lost \subseteq Lost' /\ uploads[u] = "active" /\ DOMAIN parts[u] \subseteq DOMAIN parts'[u]
        /\ \A m \in DOMAIN parts[u] : Range(parts[u][m]) \subseteq Lost' \cup Range(parts'[u][m])
    BY <1>1, Zenon DEF Grows
  <1>3. Mine(s) \subseteq DOMAIN parts[u]
    BY <1>1, <1>2, LoopUpload
  <1>4. Held(s) = Lost \cup UNION {Range(parts[u][n]) : n \in Mine(s)}
    BY <1>1, Zenon DEF Held, EventsAt
  <1>5. PICK more : more = Mine(s)'
    OBVIOUS
  <1>6. Held(s)' = Lost' \cup UNION {Range(parts'[u][n]) : n \in more}
    BY <1>1, <1>5, Zenon DEF Held, EventsAt
  <1>7. ASSUME NEW x \in Held(s) PROVE x \in Held(s)'
    <2>1. CASE x \in Lost
      BY <1>2, <1>6, <2>1
    <2>2. CASE \E n \in Mine(s) : x \in Range(parts[u][n])
      <3>1. PICK n \in Mine(s) : x \in Range(parts[u][n])
        BY <2>2
      <3>2. n \in more /\ n \in DOMAIN parts[u]
        BY <1>3, <1>5
      <3>3. x \in Lost' \cup Range(parts'[u][n])
        BY <1>2, <3>1, <3>2
      <3> QED BY <1>6, <3>2, <3>3
    <2> QED BY <1>4, <2>1, <2>2
  <1> QED BY <1>1, <1>2, <1>7

LEMMA UntouchedFacts ==
  ASSUME Struct, Grows, NEW s \in Streams, Untouched(s)
  PROVE  /\ Mine(s)' = Mine(s) /\ Uploading(s)' = Uploading(s) /\ Ups(s)' = Ups(s) /\ (Numbered(s) => Numbered(s)')
         /\ Running(s)' => Running(s)
         /\ loop[s] = "none" \/ Running(s)' => Held(s) \subseteq Held(s)' /\ OnWay(s) \subseteq OnWay(s)'
  <1>1. Mine(s)' = Mine(s)
    BY Zenon DEF Mine, Stored, Untouched
  <1>2. Uploading(s)' = Uploading(s)
    BY Zenon DEF Uploading, Untouched
  <1>3. Ups(s)' = Ups(s)
    <2>1. PICK active, ns : active = activeUploads[s] /\ ns = Uploading(s)
      OBVIOUS
    <2>2. Ups(s) = {active[n].slice : n \in ns}
      BY <2>1, Zenon DEF Ups
    <2>3. active = activeUploads'[s] /\ ns = Uploading(s)'
      BY <1>2, <2>1 DEF Untouched
    <2>4. Ups(s)' = {active[n].slice : n \in ns}
      BY <2>3, Zenon DEF Ups
    <2> QED BY <2>2, <2>4
  <1>4. Numbered(s) => Numbered(s)'
    <2>1. ASSUME NEW i \in Nat, NumberedAs(s, i) PROVE NumberedAs(s, i)'
      BY <1>1, <1>2, <2>1, Zenon DEF NumberedAs, Untouched, NoSlice, None, FirstOdds
    <2> QED BY <2>1, Zenon DEF Numbered
  <1>5. ASSUME Running(s)' PROVE Running(s) /\ Held(s) \subseteq Held(s)'
    <2>1. /\ loop'[s] \in {"select", "drain"} /\ loop[s] \in {"select", "drain"} /\ uploads'[upload[s]] = "active"
          /\ upload'[s] = upload[s]
      BY <1>5 DEF Running, Untouched
    <2>2. Mine(s) \subseteq Mine(s)'
      BY <1>1
    <2> QED BY <2>1, <2>2, HeldGrows DEF Running
  <1>6. ASSUME loop[s] = "none" PROVE Held(s) \subseteq Held(s)'
    <2>1. Held(s) = Lost \cup {} /\ Held(s)' = Lost' \cup {}
      BY <1>6, Zenon DEF Held, Untouched
    <2> QED BY <2>1 DEF Grows
  <1>7. SliceEvents(current[s])' = SliceEvents(current[s]) /\ Members(Ups(s))' = Members(Ups(s))
    BY <1>3, Zenon DEF SliceEvents, Members, NoSlice, None, Untouched
  <1>8. Held(s) \subseteq Held(s)' => OnWay(s) \subseteq OnWay(s)'
    BY <1>7 DEF OnWay
  <1> QED BY <1>1, <1>2, <1>3, <1>4, <1>5, <1>6, <1>8

\* A step of the connection or of the handler.
LEMMA LineUntouched ==
  ASSUME Struct, Grows, NEW s \in Streams, LineOK(s), Untouched(s),
         loop[s] = "none" \/ Running(s) => Path(Taken', Held(s), Ups(s), current[s], wire'[s]),
         Running(s) /\ handler'[s] = "closing" /\ completeType'[s] = "complete" => InOrder' \subseteq OnWay(s)
  PROVE  LineOK(s)'
  <1>1. /\ Ups(s)' = Ups(s) /\ (Numbered(s) => Numbered(s)')
        /\ Running(s)' => Running(s)
        /\ loop[s] = "none" \/ Running(s)' => Held(s) \subseteq Held(s)' /\ OnWay(s) \subseteq OnWay(s)'
    BY UntouchedFacts
  <1>2. loop'[s] = loop[s] /\ current'[s] = current[s]
    BY DEF Untouched
  <1>3. ASSUME loop[s] = "none" \/ Running(s)' PROVE PathOK(s)'
    <2>1. PICK t, more, ups, slice, sent : t = Taken' /\ more = Held(s)' /\ ups = Ups(s) /\ slice = current[s] /\ sent = wire'[s]
      OBVIOUS
    <2>2. Path(t, Held(s), ups, slice, sent) /\ Held(s) \subseteq more
      BY <1>1, <1>3, <2>1
    <2>3. Path(t, more, ups, slice, sent)
      BY <2>2, PathMore
    <2> QED BY <1>1, <1>2, <2>1, <2>3 DEF PathOK
  <1>4. ASSUME Running(s)'
        PROVE  /\ Numbered(s)' /\ (loop'[s] = "drain" => current'[s] = NoSlice)
               /\ handler'[s] = "closing" /\ completeType'[s] = "complete" => InOrder' \subseteq OnWay(s)'
    BY <1>1, <1>2, <1>4 DEF LineOK
  <1>5. NoSlice' = NoSlice
    BY DEF NoSlice, None
  <1> QED BY <1>2, <1>3, <1>4, <1>5, Zenon DEF LineOK

\* A step that does not touch the stream at all.
LEMMA LineSame ==
  ASSUME Struct, Grows, NEW s \in Streams, LineOK(s), Untouched(s), Taken' = Taken, wire'[s] = wire[s],
         handler'[s] = "closing" /\ completeType'[s] = "complete" => handler[s] = "closing" /\ completeType[s] = "complete"
  PROVE  LineOK(s)'
  <1>1. InOrder' = InOrder
    BY Zenon DEF InOrder, OrderOf, OvertakenOf
  <1>2. loop[s] = "none" \/ Running(s) => Path(Taken', Held(s), Ups(s), current[s], wire'[s])
    BY Zenon DEF LineOK, PathOK
  <1>3. Running(s) /\ handler'[s] = "closing" /\ completeType'[s] = "complete" => InOrder' \subseteq OnWay(s)
    BY <1>1, Zenon DEF LineOK
  <1> QED BY <1>2, <1>3, LineUntouched

\* An upload that gets no part, and one that has none.
LEMMA UploadSame ==
  ASSUME NEW u \in Streams, UploadOK(u), Taken' = Taken, parts'[u] = parts[u], Lost \subseteq Lost'
  PROVE  UploadOK(u)'
  <1>1. PICK ps, t, more : ps = parts[u] /\ t = Taken /\ more = Lost'
    OBVIOUS
  <1>2. ps = parts'[u] /\ t = Taken' /\ Lost \subseteq more
    BY <1>1
  <1>3. \E k \in Nat : DOMAIN ps = FirstOdds(k)
    BY <1>1 DEF UploadOK
  <1>4. ASSUME NEW n \in DOMAIN ps
        PROVE  Ordered(t, more \cup UNION {Range(ps[m]) : m \in {j \in DOMAIN ps : j < n}}, ps[n])
    <2>1. Ordered(t, Lost \cup UNION {Range(ps[m]) : m \in {j \in DOMAIN ps : j < n}}, ps[n])
      BY <1>1, Zenon DEF UploadOK, EventsAt
    <2>2. Lost \cup UNION {Range(ps[m]) : m \in {j \in DOMAIN ps : j < n}}
            \subseteq more \cup UNION {Range(ps[m]) : m \in {j \in DOMAIN ps : j < n}}
      BY <1>2
    <2> QED BY <2>1, <2>2, OrderedMore
  <1> QED BY <1>1, <1>2, <1>3, <1>4, Zenon DEF UploadOK, EventsAt, FirstOdds

LEMMA UploadNone ==
  ASSUME NEW u \in Streams, parts'[u] = NoParts
  PROVE  UploadOK(u)'
  <1>1. DOMAIN parts'[u] = {}
    BY EventTypes
  <1>2. DOMAIN parts'[u] = FirstOdds(0) /\ 0 \in Nat
    BY <1>1, OddsFact
  <1>3. \E k \in Nat : DOMAIN parts'[u] = FirstOdds(k)
    BY <1>2
  <1> QED BY <1>1, <1>3 DEF UploadOK, FirstOdds

\* A recording that stays as it is.
LEMMA WholeKept ==
  ASSUME WholeInv, UNCHANGED <<recording, source>>, Lost \subseteq Lost',
         source.by = Nobody \/ (Taken' = Taken /\ trimmed' = trimmed /\ lastStatus' = lastStatus)
  PROVE  WholeRecording'
  <1>1. source.by = Nobody => source'.by # "stream" /\ source'.by # "completer"
    BY RecordingAssumption
  <1>2. ASSUME Taken' = Taken, trimmed' = trimmed, lastStatus' = lastStatus PROVE WholeRecording'
    <2>1. ReadFrom(recording)' = ReadFrom(recording)
      BY DEF ReadFrom, Before
    <2>2. Overtaken' = Overtaken
      BY <1>2, Zenon DEF Overtaken
    <2>3. Range(Taken)' = Range(Taken) /\ Range(trimmed)' = Range(trimmed)
      BY <1>2, Zenon DEF Range
    <2>4. ReadFrom(recording) \cup Overtaken \cup Lost \subseteq ReadFrom(recording)' \cup Overtaken' \cup Lost'
      BY <2>1, <2>2
    <2>5. WholeRecording
      BY DEF WholeInv
    <2> QED BY <1>2, <2>3, <2>4, <2>5 DEF WholeRecording
  <1> QED BY <1>1, <1>2 DEF WholeRecording

\* A step that the storage has no part in, but an event may be omitted.
LEMMA StorageMore ==
  ASSUME WholeInv, UNCHANGED <<parts, uploads, recording, source>>, Lost \subseteq Lost', Taken' = Taken,
         source.by = Nobody \/ (trimmed' = trimmed /\ lastStatus' = lastStatus)
  PROVE  (\A u \in Streams : UploadOK(u)') /\ (NoneCompleted' => source'.by = Nobody) /\ WholeRecording'
  <1>1. UNCHANGED <<parts, uploads, recording, source>>
    OBVIOUS
  <1>2. Lost \subseteq Lost'
    OBVIOUS
  <1>3. ASSUME NEW u \in Streams PROVE UploadOK(u)'
    <2>1. UploadOK(u) /\ parts'[u] = parts[u]
      BY <1>1 DEF WholeInv
    <2> QED BY <1>2, <2>1, UploadSame
  <1>4. NoneCompleted' => source'.by = Nobody
    BY <1>1 DEF NoneCompleted, WholeInv
  <1>5. WholeRecording'
    BY <1>1, <1>2, WholeKept
  <1> QED BY <1>3, <1>4, <1>5

LEMMA StorageSame ==
  ASSUME WholeInv, UNCHANGED storageVars, Taken' = Taken,
         source.by = Nobody \/ (trimmed' = trimmed /\ lastStatus' = lastStatus)
  PROVE  (\A u \in Streams : UploadOK(u)') /\ (NoneCompleted' => source'.by = Nobody) /\ WholeRecording'
  <1>1. UNCHANGED <<parts, uploads, recording, source, Lost>>
    BY Zenon DEF storageVars, Lost
  <1> QED BY <1>1, StorageMore

LEMMA WholeNext ==
  ASSUME \A s \in Streams : LineOK(s)', \A u \in Streams : UploadOK(u)', WriterLine', NoneCompleted' => source'.by = Nobody,
         WholeRecording'
  PROVE  WholeInv'
  BY Zenon DEF WholeInv, Streams

\* The writer does nothing, and its stream loses nothing.
LEMMA WriterLineKept ==
  ASSUME Struct, WriterLine, UNCHANGED <<stream, pc, trimmed>>, Taken' = Taken, NEW s \in Streams, s = stream,
         conn'[s] = "up" => conn[s] = "up", loop[s] # "none" => loop'[s] # "none",
         pc = "select" /\ conn'[s] = "up" /\ (loop'[s] = "none" \/ Running(s)') =>
             /\ loop[s] = "none" \/ Running(s)
             /\ OnWay(s) \cup Range(wire[s]) \subseteq OnWay(s)' \cup Range(wire'[s]),
         pc \in {"await", "replay"} /\ Running(s)' => Range(trimmed) \cap InOrder \subseteq Held(s)'
  PROVE  WriterLine'
  <1>1. InOrder' = InOrder
    BY Zenon DEF InOrder, OrderOf, OvertakenOf
  <1>2. stream' = s /\ stream = s /\ pc' = pc /\ trimmed' = trimmed
    OBVIOUS
  <1>3. ASSUME pc = "select", conn'[s] = "up", loop'[s] = "none" \/ Running(s)' PROVE InOrder \subseteq OnWay(s)' \cup Range(wire'[s])
    <2>1. InOrder \subseteq OnWay(s) \cup Range(wire[s])
      <3>1. pc = "select" /\ conn[stream] = "up" /\ (loop[stream] = "none" \/ Running(stream))
        BY <1>2, <1>3
      <3>2. InOrder \subseteq OnWay(stream) \cup Range(wire[stream])
        BY <3>1 DEF WriterLine
      <3> QED BY <1>2, <3>2
    <2> QED BY <1>3, <2>1
  <1>4. pc = "replay" => loop'[s] # "none"
    BY <1>2 DEF WriterLine
  <1> QED BY <1>1, <1>2, <1>3, <1>4 DEF WriterLine

\* A step of one stream leaves the writer and the other streams alone.
LEMMA OtherStreams ==
  ASSUME Struct, NEW s \in Streams, Serve(s) \/ FlushSlice(s) \/ Break(s) \/ Crash(s)
  PROVE  /\ UNCHANGED writerVars
         /\ \A r \in Streams : r # s => /\ Untouched(r) /\ wire'[r] = wire[r] /\ conn'[r] = conn[r]
                                        /\ handler'[r] = handler[r] /\ completeType'[r] = completeType[r]
  <1>0. /\ DOMAIN conn = Streams /\ DOMAIN wire = Streams /\ DOMAIN handler = Streams /\ DOMAIN loop = Streams
        /\ DOMAIN completeType = Streams /\ DOMAIN current = Streams /\ DOMAIN activeUploads = Streams /\ DOMAIN upload = Streams
        /\ DOMAIN lastPartNumber = Streams /\ DOMAIN completedParts = Streams
    BY TypeFacts, Zenon DEF Struct, ClientTypes, ServerTypes, SliceTypes
  <1>1. UNCHANGED writerVars
    BY Zenon DEF Serve, Open, OpenFails, ReceiveEvent, ReceiveComplete, Abandon, CompleteProtoStream, UploadLastSlice,
           FinishStream, UploadSlice, CompletedUpload, FailedUpload, FlushSlice, Break, Crash
  <1>2. conn' = conn \/ \E v : conn' = [conn EXCEPT ![s] = v]
    BY Zenon DEF Serve, Open, OpenFails, ReceiveEvent, ReceiveComplete, Abandon, CompleteProtoStream, UploadLastSlice,
           FinishStream, UploadSlice, CompletedUpload, FailedUpload, FlushSlice, Break, Crash, Return, CloseStream, clientVars
  <1>3. wire' = wire \/ \E v : wire' = [wire EXCEPT ![s] = v]
    BY Zenon DEF Serve, Open, OpenFails, ReceiveEvent, ReceiveComplete, Abandon, CompleteProtoStream, UploadLastSlice,
           FinishStream, UploadSlice, CompletedUpload, FailedUpload, FlushSlice, Break, Crash, Return, clientVars
  <1>4. handler' = handler \/ \E v : handler' = [handler EXCEPT ![s] = v]
    BY Zenon DEF Serve, Open, OpenFails, ReceiveEvent, ReceiveComplete, Abandon, CompleteProtoStream, UploadLastSlice,
           FinishStream, UploadSlice, CompletedUpload, FailedUpload, FlushSlice, Break, Crash, Return, serverVars
  <1>5. current' = current \/ \E v : current' = [current EXCEPT ![s] = v]
    BY Zenon DEF Serve, Open, OpenFails, ReceiveEvent, ReceiveComplete, Abandon, CompleteProtoStream, UploadLastSlice,
           FinishStream, UploadSlice, CompletedUpload, FailedUpload, FlushSlice, Break, Crash, SubmitEvent, StartUploadCurrentSlice,
           EndLoop, sliceVars
  <1>6. activeUploads' = activeUploads \/ \E v : activeUploads' = [activeUploads EXCEPT ![s] = v]
    BY Zenon DEF Serve, Open, OpenFails, ReceiveEvent, ReceiveComplete, Abandon, CompleteProtoStream, UploadLastSlice,
           FinishStream, UploadSlice, CompletedUpload, FailedUpload, FlushSlice, Break, Crash, StartUploadCurrentSlice,
           EndLoop, sliceVars
  <1>7. upload' = upload \/ \E v : upload' = [upload EXCEPT ![s] = v]
    BY Zenon DEF Serve, Open, OpenFails, ReceiveEvent, ReceiveComplete, Abandon, CompleteProtoStream, UploadLastSlice,
           FinishStream, UploadSlice, CompletedUpload, FailedUpload, FlushSlice, Break, Crash, serverVars
  <1>8. loop' = loop \/ \E v : loop' = [loop EXCEPT ![s] = v]
    BY Zenon DEF Serve, Open, OpenFails, ReceiveEvent, ReceiveComplete, Abandon, CompleteProtoStream, UploadLastSlice,
           FinishStream, UploadSlice, CompletedUpload, FailedUpload, FlushSlice, Break, Crash, EndLoop, serverVars
  <1>9. lastPartNumber' = lastPartNumber \/ \E v : lastPartNumber' = [lastPartNumber EXCEPT ![s] = v]
    BY Zenon DEF Serve, Open, OpenFails, ReceiveEvent, ReceiveComplete, Abandon, CompleteProtoStream, UploadLastSlice,
           FinishStream, UploadSlice, CompletedUpload, FailedUpload, FlushSlice, Break, Crash, SubmitEvent, StartUploadCurrentSlice,
           EndLoop, sliceVars
  <1>10. completedParts' = completedParts \/ \E v : completedParts' = [completedParts EXCEPT ![s] = v]
    BY Zenon DEF Serve, Open, OpenFails, ReceiveEvent, ReceiveComplete, Abandon, CompleteProtoStream, UploadLastSlice,
           FinishStream, UploadSlice, CompletedUpload, FailedUpload, FlushSlice, Break, Crash, EndLoop, sliceVars
  <1>11. completeType' = completeType \/ \E v : completeType' = [completeType EXCEPT ![s] = v]
    BY Zenon DEF Serve, Open, OpenFails, ReceiveEvent, ReceiveComplete, Abandon, CompleteProtoStream, UploadLastSlice,
           FinishStream, UploadSlice, CompletedUpload, FailedUpload, FlushSlice, Break, Crash, serverVars
  <1>12. ASSUME NEW r \in Streams, r # s
         PROVE  /\ loop'[r] = loop[r] /\ upload'[r] = upload[r] /\ current'[r] = current[r]
                /\ lastPartNumber'[r] = lastPartNumber[r] /\ activeUploads'[r] = activeUploads[r]
                /\ completedParts'[r] = completedParts[r] /\ wire'[r] = wire[r] /\ conn'[r] = conn[r]
                /\ handler'[r] = handler[r] /\ completeType'[r] = completeType[r]
    BY <1>0, <1>2, <1>3, <1>4, <1>5, <1>6, <1>7, <1>8, <1>9, <1>10, <1>11, <1>12, Zenon
  <1> QED BY <1>1, <1>12, Zenon DEF Untouched

\* A step of one stream, by what it does there.
LEMMA StreamStep ==
  ASSUME Struct, Grows, WholeInv, NEW s \in Streams, Serve(s) \/ FlushSlice(s) \/ Break(s) \/ Crash(s),
         LineOK(s)', \A u \in Streams : UploadOK(u)', NoneCompleted' => source'.by = Nobody, WholeRecording',
         s = stream =>
             /\ conn'[s] = "up" => conn[s] = "up"
             /\ loop[s] # "none" => loop'[s] # "none"
             /\ pc = "select" /\ conn'[s] = "up" /\ (loop'[s] = "none" \/ Running(s)') =>
                    /\ loop[s] = "none" \/ Running(s)
                    /\ OnWay(s) \cup Range(wire[s]) \subseteq OnWay(s)' \cup Range(wire'[s])
             /\ pc \in {"await", "replay"} /\ Running(s)' => Range(trimmed) \cap InOrder \subseteq Held(s)'
  PROVE  WholeInv'
  <1>1. /\ UNCHANGED <<buffer, trimmed, stream, pc>>
        /\ \A r \in Streams : r # s => /\ Untouched(r) /\ wire'[r] = wire[r] /\ conn'[r] = conn[r]
                                       /\ handler'[r] = handler[r] /\ completeType'[r] = completeType[r]
    BY OtherStreams, Zenon DEF writerVars
  <1>2. Taken' = Taken
    BY <1>1, TakenSame
  <1>3. ASSUME NEW r \in Streams PROVE LineOK(r)'
    <2>1. CASE r # s
      <3>1. LineOK(r) /\ Untouched(r) /\ wire'[r] = wire[r] /\ handler'[r] = handler[r] /\ completeType'[r] = completeType[r]
        BY <1>1, <2>1 DEF WholeInv
      <3> QED BY <1>2, <3>1, LineSame
    <2> QED BY <2>1
  <1>4. WriterLine'
    <2>1. PICK r \in Streams : r = stream
      BY NowFacts
    <2>2. CASE s = stream
      BY <1>1, <1>2, <2>2, WriterLineKept DEF WholeInv
    <2>3. CASE s # stream
      <3>1. Untouched(r) /\ wire'[r] = wire[r] /\ conn'[r] = conn[r] /\ loop'[r] = loop[r]
        BY <1>1, <2>1, <2>3 DEF Untouched
      <3>2. /\ Running(r)' => Running(r)
            /\ loop[r] = "none" \/ Running(r)' => Held(r) \subseteq Held(r)' /\ OnWay(r) \subseteq OnWay(r)'
        BY <3>1, UntouchedFacts
      <3>3. ASSUME pc \in {"await", "replay"}, Running(r)' PROVE Range(trimmed) \cap InOrder \subseteq Held(r)'
        BY <2>1, <3>2, <3>3 DEF WholeInv, WriterLine
      <3>4. WriterLine
        BY DEF WholeInv
      <3>5. pc = "select" /\ conn'[r] = "up" /\ (loop'[r] = "none" \/ Running(r)') =>
              /\ loop[r] = "none" \/ Running(r)
              /\ OnWay(r) \cup Range(wire[r]) \subseteq OnWay(r)' \cup Range(wire'[r])
        BY <3>1, <3>2
      <3> QED BY <1>1, <1>2, <2>1, <3>1, <3>3, <3>4, <3>5, WriterLineKept
    <2> QED BY <2>2, <2>3
  <1> QED BY <1>3, <1>4, WholeNext

-----------------------------------------------------------------------------
(* Steps of the handler *)

\* CompleteStream is no event.
LEMMA OrderedLess ==
  ASSUME NEW t \in Seq(Events), NEW base, NEW q, Ordered(t, base \cup {CompleteStream}, q)
  PROVE  Ordered(t, base, q)
  <1>1. CompleteStream \notin OrderOf(t)
    <2>1. Range(t) \subseteq Events
      BY DEF Range
    <2> QED BY <2>1, EventTypes DEF OrderOf
  <1> QED BY <1>1, Zenon DEF Ordered

\* CompleteStream comes after every event that is in order.
LEMMA OrderedComplete ==
  ASSUME NEW t \in Seq(Events), NEW base, NEW q \in Seq(Messages), q # <<>>, Head(q) = CompleteStream, Ordered(t, base, q)
  PROVE  OrderOf(t) \subseteq base /\ Ordered(t, base, Tail(q))
  <1>1. Ordered(t, base \cup {CompleteStream}, Tail(q)) /\ Ordered(t, base, <<CompleteStream>>)
    BY OrderedTail
  <1>2. ASSUME NEW x \in OrderOf(t) PROVE x \in base
    <2>1. x \in Events
      <3>1. Range(t) \subseteq Events
        BY DEF Range
      <3> QED BY <3>1 DEF OrderOf
    <2>2. x <= CompleteStream /\ x # CompleteStream
      BY <2>1, RecordingAssumption DEF Events, CompleteStream
    <2>3. 1 \in DOMAIN <<CompleteStream>> /\ <<CompleteStream>>[1] = CompleteStream /\ {<<CompleteStream>>[j] : j \in 1..1} = {CompleteStream}
      OBVIOUS
    <2>4. x \in base \cup {<<CompleteStream>>[j] : j \in 1..1}
      BY <1>1, <2>2, <2>3, Zenon DEF Ordered
    <2> QED BY <2>2, <2>3, <2>4
  <1> QED BY <1>1, <1>2, OrderedLess

\* The connection breaks, or the handler ends or is told to.
LEMMA HandlerWhole ==
  ASSUME Struct, Grows, EndInv, WholeInv, NEW s \in Streams,
         \/ Break(s) \/ OpenFails(s) \/ Abandon(s) \/ ReceiveComplete(s)
         \/ (ReceiveEvent(s) /\ Return(s) /\ UNCHANGED <<sliceVars, storageVars>>)
  PROVE  WholeInv'
  <1>0. /\ ClientTypes /\ ServerTypes /\ LineOK(s) /\ EndOK(s) /\ WriterLine /\ wire[s] \in Seq(Messages) /\ Taken \in Seq(Events)
    BY TypeFacts, NowFacts DEF Struct, WholeInv, EndInv, ClientTypes
  <1>1. UNCHANGED <<storageVars, loop, upload, sliceVars>> /\ UNCHANGED <<writerVars>>
    BY Zenon DEF Break, OpenFails, Abandon, ReceiveComplete, ReceiveEvent, CompleteProtoStream, serverVars, sliceVars
  <1>2. Untouched(s) /\ UNCHANGED <<buffer, trimmed, lastStatus, stream, pc>>
    BY <1>1, Zenon DEF Untouched, sliceVars, writerVars
  <1>3. Taken' = Taken /\ InOrder' = InOrder
    BY <1>2, TakenSame
  <1>4. /\ Running(s)' => Running(s)
        /\ loop[s] = "none" \/ Running(s)' => Held(s) \subseteq Held(s)' /\ OnWay(s) \subseteq OnWay(s)'
    BY <1>2, UntouchedFacts
  <1>5. Path(Taken, Held(s), Ups(s), current[s], wire[s]) => Path(Taken, Held(s), Ups(s), current[s], <<>>)
    BY PathNothing
  <1>6. CASE ~ReceiveComplete(s)
    <2>1. /\ conn'[s] = "down"
          /\ wire'[s] \in {wire[s], <<>>}
          /\ handler'[s] = "closing" /\ completeType'[s] = "complete" => handler[s] = "closing" /\ completeType[s] = "complete"
      <3>1. CASE Break(s)
        BY <1>0, <3>1 DEF Break, CloseStream, ClientTypes, serverVars
      <3>2. CASE Return(s)
        BY <1>0, <3>2 DEF Return, CloseStream, ClientTypes, ServerTypes
      <3>3. CASE Abandon(s) /\ ~Return(s)
        BY <1>0, <3>3 DEF Abandon, CompleteProtoStream, ClientTypes, ServerTypes, CloseType
      <3>4. Return(s) => completeType' = completeType \/ Abandon(s)
        BY <1>6, Zenon DEF OpenFails, ReceiveEvent, Break, serverVars
      <3> QED BY <1>6, <3>1, <3>2, <3>3 DEF OpenFails
    <2>2. loop[s] = "none" \/ Running(s) => Path(Taken', Held(s), Ups(s), current[s], wire'[s])
      BY <1>0, <1>3, <1>5, <2>1 DEF LineOK, PathOK
    <2>3. Running(s) /\ handler'[s] = "closing" /\ completeType'[s] = "complete" => InOrder' \subseteq OnWay(s)
      BY <1>0, <1>3, <2>1 DEF LineOK
    <2>4. LineOK(s)'
      BY <1>0, <1>2, <2>2, <2>3, LineUntouched
    <2>5. (\A u \in Streams : UploadOK(u)') /\ (NoneCompleted' => source'.by = Nobody) /\ WholeRecording'
      BY <1>1, <1>2, <1>3, StorageSame
    <2>6. s = stream /\ pc \in {"await", "replay"} /\ Running(s)' => Range(trimmed) \cap InOrder \subseteq Held(s)'
      BY <1>0, <1>4 DEF WriterLine
    <2>7. Serve(s) \/ Break(s)
      BY Zenon DEF Serve
    <2> QED BY <1>2, <2>1, <2>4, <2>5, <2>6, <2>7, StreamStep DEF Untouched
  <1>7. CASE ReceiveComplete(s)
    <2>1. /\ wire[s] # <<>> /\ Head(wire[s]) = CompleteStream /\ wire'[s] \in {Tail(wire[s]), <<>>} /\ conn'[s] \in {conn[s], "down"}
      BY <1>0, <1>7 DEF ReceiveComplete, CompleteProtoStream, Return, CloseStream, ClientTypes, ServerTypes
    <2>2. pc = "ended"
      <3>1. Len(wire[s]) \in Nat /\ Len(wire[s]) # 0 /\ DOMAIN wire[s] = 1..Len(wire[s]) /\ Head(wire[s]) = wire[s][1]
        BY <1>0, <2>1, LenProperties, EmptySeq, HeadTailProperties
      <3>2. CompleteStream \in Range(wire[s])
        BY <2>1, <3>1 DEF Range
      <3> QED BY <1>0, <3>2 DEF EndOK, Finishing
    <2>3. ASSUME Path(Taken, Held(s), Ups(s), current[s], wire[s])
          PROVE  InOrder \subseteq OnWay(s) /\ Path(Taken, Held(s), Ups(s), current[s], Tail(wire[s]))
      <3>1. Ordered(Taken, OnWay(s), wire[s])
        BY <2>3, Zenon DEF Path, OnWay
      <3>2. InOrder \subseteq OnWay(s) /\ Ordered(Taken, OnWay(s), Tail(wire[s]))
        BY <1>0, <2>1, <3>1, OrderedComplete DEF InOrder
      <3> QED BY <2>3, <3>2, Zenon DEF Path, OnWay
    <2>4. loop[s] = "none" \/ Running(s) => Path(Taken', Held(s), Ups(s), current[s], wire'[s])
      BY <1>0, <1>3, <1>5, <2>1, <2>3 DEF LineOK, PathOK
    <2>5. Running(s) => InOrder' \subseteq OnWay(s)
      BY <1>0, <1>3, <2>3 DEF LineOK, PathOK
    <2>6. LineOK(s)'
      BY <1>0, <1>2, <2>4, <2>5, LineUntouched
    <2>7. (\A u \in Streams : UploadOK(u)') /\ (NoneCompleted' => source'.by = Nobody) /\ WholeRecording'
      BY <1>1, <1>2, <1>3, StorageSame
    <2>8. Serve(s)
      BY <1>7, Zenon DEF Serve
    <2> QED BY <1>2, <2>1, <2>2, <2>6, <2>7, <2>8, StreamStep DEF Untouched
  <1> QED BY <1>6, <1>7

\* The loop ends, and with it what it has not uploaded.
LEMMA EndLoopLine ==
  ASSUME Struct, NEW s \in Streams, EndLoop(s)
  PROVE  LineOK(s)' /\ loop'[s] = "ended" /\ ~Running(s)'
  <1>1. loop'[s] = "ended"
    BY TypeFacts DEF Struct, ServerTypes, EndLoop
  <1> QED BY <1>1 DEF LineOK, Running

LEMMA LoopEndsWhole ==
  ASSUME Struct, Grows, WholeInv, NEW s \in Streams,
         Crash(s) \/ (\E n \in DOMAIN activeUploads[s] : FailedUpload(s, n)) \/ (FinishStream(s) /\ completeType[s] # "complete")
  PROVE  WholeInv'
  <1>0. ClientTypes
    BY TypeFacts DEF Struct
  <1>1. UNCHANGED <<storageVars, writerVars>> /\ EndLoop(s) /\ (conn' = conn \/ CloseStream(s))
    BY Zenon DEF Crash, FailedUpload, FinishStream, Return, storageVars
  <1>2. LineOK(s)' /\ loop'[s] = "ended" /\ ~Running(s)'
    BY <1>1, EndLoopLine
  <1>3. UNCHANGED <<buffer, trimmed, lastStatus>>
    BY <1>1, Zenon DEF writerVars
  <1>4. Taken' = Taken
    BY <1>3, TakenSame
  <1>5. (\A u \in Streams : UploadOK(u)') /\ (NoneCompleted' => source'.by = Nobody) /\ WholeRecording'
    BY <1>1, <1>3, <1>4, StorageSame
  <1>6. conn'[s] = "up" => conn[s] = "up"
    BY <1>0, <1>1 DEF CloseStream, ClientTypes
  <1>7. Serve(s) \/ Crash(s)
    BY Zenon DEF Serve
  <1> QED BY <1>2, <1>5, <1>6, <1>7, StreamStep

\* What a stream has when its parts, the parts of its upload and its active uploads stay
\* the same.
LEMMA HeldSame ==
  ASSUME NEW s \in Streams, loop[s] # "none", loop'[s] # "none", UNCHANGED <<parts, Lost, uploads>>, upload'[s] = upload[s], Mine(s)' = Mine(s)
  PROVE  Held(s)' = Held(s) /\ (Running(s)' <=> loop'[s] \in {"select", "drain"} /\ uploads[upload[s]] = "active")
  <1>1. PICK ns, u : ns = Mine(s) /\ ns = Mine(s)' /\ u = upload[s] /\ u = upload'[s]
    OBVIOUS
  <1>2. Held(s) = Lost \cup UNION {Range(parts[u][n]) : n \in ns} /\ Held(s)' = Lost' \cup UNION {Range(parts'[u][n]) : n \in ns}
    BY <1>1, Zenon DEF Held, EventsAt
  <1>3. {Range(parts[u][n]) : n \in ns} = {Range(parts'[u][n]) : n \in ns}
    BY Zenon
  <1> QED BY <1>1, <1>2, <1>3 DEF Running

LEMMA HeldMore ==
  ASSUME NEW s \in Streams, loop[s] # "none", UNCHANGED <<parts, uploads>>, Lost \subseteq Lost', loop'[s] = loop[s],
         upload'[s] = upload[s], Mine(s)' = Mine(s)
  PROVE  Held(s)' = Held(s) \cup Lost' /\ (Running(s)' <=> Running(s))
  <1>1. PICK ns, u : ns = Mine(s) /\ ns = Mine(s)' /\ u = upload[s] /\ u = upload'[s]
    OBVIOUS
  <1>2. Held(s) = Lost \cup UNION {Range(parts[u][n]) : n \in ns} /\ Held(s)' = Lost' \cup UNION {Range(parts'[u][n]) : n \in ns}
    BY <1>1, Zenon DEF Held, EventsAt
  <1>3. {Range(parts[u][n]) : n \in ns} = {Range(parts'[u][n]) : n \in ns}
    BY Zenon
  <1> QED BY <1>1, <1>2, <1>3 DEF Running

\* The handler receives an event, that is written to the slice or omitted.
LEMMA ReceiveEventWhole ==
  ASSUME Struct, Grows, EndInv, WholeInv, NEW s \in Streams, ReceiveEvent(s)
  PROVE  WholeInv'
  <1>0. /\ ClientTypes /\ SliceTypes /\ LineOK(s) /\ WriterLine /\ wire[s] \in Seq(Messages) /\ current[s] \in Seq(Events) \cup {NoSlice}
        /\ lastPartNumber[s] \in Nat /\ StreamOK(s) /\ DOMAIN current = Streams /\ DOMAIN lastPartNumber = Streams
    BY TypeFacts DEF Struct, WholeInv, ClientTypes, SliceTypes, StreamsInv
  <1> DEFINE slice == IF current[s] = NoSlice THEN <<>> ELSE current[s]
  <1>1. CASE Return(s) /\ UNCHANGED <<current, lastPartNumber, flushCh, omitted>>
    <2>1. UNCHANGED <<sliceVars, storageVars>>
      BY <1>1, Zenon DEF ReceiveEvent, sliceVars, storageVars
    <2> QED BY <1>1, <2>1, HandlerWhole
  <1>2. CASE /\ wire' = [wire EXCEPT ![s] = Tail(wire[s])] /\ UNCHANGED <<handler, conn>>
             /\ \/ loop[s] = "select" /\ SubmitEvent(s, Head(wire[s]))
                \/ Omit(Head(wire[s])) /\ UNCHANGED <<current, lastPartNumber, flushCh>>
    <2>1. /\ UNCHANGED <<writerVars, loop, upload, activeUploads, completedParts, completeType, parts, uploads, recording, source>>
          /\ handler[s] = "serving" /\ wire[s] # <<>> /\ Head(wire[s]) # CompleteStream
      BY Zenon DEF ReceiveEvent
    <2>2. UNCHANGED <<buffer, trimmed, lastStatus, stream, pc>> /\ Lost \subseteq Lost'
      BY <2>1, Zenon DEF writerVars, Grows
    <2>3. Taken' = Taken /\ InOrder' = InOrder
      BY <2>2, TakenSame
    <2>4. PICK e \in Events : e = Head(wire[s])
      <3>1. Head(wire[s]) \in Messages
        BY <1>0, <2>1, HeadTailProperties, EmptySeq
      <3> QED BY <2>1, <3>1 DEF Messages
    <2>5. /\ wire'[s] = Tail(wire[s]) /\ loop[s] # "none" /\ loop'[s] = loop[s]
          /\ lastPartNumber'[s] = lastPartNumber[s] + (IF current[s] = NoSlice /\ current'[s] # NoSlice THEN 1 ELSE 0)
          /\ current[s] # NoSlice => current'[s] # NoSlice
          /\ Longer(current[s], e, current'[s]) \/ (current'[s] \in {slice, current[s]} /\ e \in Lost')
      <3>1. wire'[s] = Tail(wire[s]) /\ loop[s] # "none" /\ loop'[s] = loop[s]
        BY <1>0, <1>2, <2>1 DEF ClientTypes, StreamOK
      <3>2. Omit(e) => e \in Lost'
        BY DEF Omit, Lost
      <3>3. CASE Omit(e) /\ UNCHANGED <<current, lastPartNumber>>
        BY <1>0, <3>1, <3>2, <3>3
      <3>4. CASE SubmitEvent(s, e)
        <4>1. lastPartNumber'[s] = IF current[s] = NoSlice THEN lastPartNumber[s] + 1 ELSE lastPartNumber[s]
          BY <1>0, <3>4 DEF SubmitEvent
        <4>2. slice \in Seq(Events) /\ slice # NoSlice
          BY <1>0, EventTypes
        <4>3. CASE current' = [current EXCEPT ![s] = Append(slice, e)]
          <5>1. current'[s] = Append(slice, e)
            BY <1>0, <4>3
          <5>2. Append(<<>>, e) = <<e>>
            OBVIOUS
          <5>3. Longer(current[s], e, current'[s])
            BY <5>1, <5>2 DEF Longer
          <5>4. current'[s] # NoSlice
            BY <1>0, <5>3, LongerFact
          <5> QED BY <1>0, <3>1, <4>1, <5>3, <5>4
        <4>4. CASE current' = [current EXCEPT ![s] = slice] /\ Omit(e)
          <5>1. current'[s] = slice
            BY <1>0, <4>4
          <5> QED BY <1>0, <3>1, <3>2, <4>1, <4>2, <4>4, <5>1
        <4> QED BY <3>4, <4>3, <4>4 DEF SubmitEvent
      <3> QED BY <1>2, <2>4, <3>3, <3>4
    <2> HIDE DEF slice
    <2>6. Mine(s)' = Mine(s) /\ Uploading(s)' = Uploading(s) /\ Ups(s)' = Ups(s)
      <3>1. Mine(s)' = Mine(s) /\ Uploading(s)' = Uploading(s)
        BY <2>1, Zenon DEF Mine, Stored, Uploading
      <3> QED BY <2>1, <3>1, Zenon DEF Ups
    <2>7. Held(s)' = Held(s) \cup Lost' /\ (Running(s)' <=> Running(s))
      BY <2>1, <2>2, <2>5, <2>6, HeldMore
    <2>8. slice \in {<<>>, current[s]} /\ (slice = current[s] \/ current[s] = NoSlice)
      BY DEF slice
    <2>9. ASSUME Running(s)
          PROVE  /\ Path(Taken, Held(s)', Ups(s), current'[s], Tail(wire[s]))
                 /\ SliceEvents(current[s]) \cup {e} \subseteq SliceEvents(current'[s]) \cup Held(s)'
      <3>0. PICK t, held, held2, ups : t = Taken /\ held = Held(s) /\ held2 = Held(s)' /\ ups = Ups(s) /\ held \subseteq held2
        BY <2>7
      <3>0a. PICK slice1 \in Seq(Events) \cup {NoSlice} : slice1 = current[s]
        BY <1>0
      <3>0b. PICK slice2 : slice2 = current'[s]
        OBVIOUS
      <3>1. PICK sent \in Seq(Messages) : /\ t = Taken /\ held = Held(s) /\ held2 = Held(s)' /\ ups = Ups(s) /\ held \subseteq held2
                                          /\ slice1 = current[s] /\ slice2 = current'[s] /\ sent = wire[s]
        BY <1>0, <3>0, <3>0a, <3>0b
      <3>2. Path(t, held, ups, slice1, sent) /\ sent # <<>> /\ e = Head(sent)
        BY <1>0, <2>1, <2>4, <2>9, <3>1 DEF LineOK, PathOK
      <3>3. PICK rest : rest = Tail(sent)
        OBVIOUS
      <3>4. CASE Longer(slice1, e, slice2)
        <4>1. Path(t, held, ups, slice2, rest)
          BY <3>2, <3>3, <3>4, PathReceive
        <4>2. Path(t, held2, ups, slice2, rest)
          BY <3>1, <4>1, PathMore
        <4>3. SliceEvents(slice2) = SliceEvents(slice1) \cup {e}
          BY <3>4, LongerFact
        <4> QED BY <3>1, <3>3, <4>2, <4>3
      <3>5. CASE (slice2 = slice1 \/ (slice1 = NoSlice /\ slice2 = <<>>)) /\ e \in Lost'
        <4>1. e \in held2
          BY <2>7, <3>1, <3>5
        <4>2. Path(t, held2, ups, slice2, rest) /\ SliceEvents(slice2) = SliceEvents(slice1)
          <5>1. sent # <<>> /\ Path(t, held, ups, slice1, sent) /\ held \subseteq held2
            BY <3>1, <3>2
          <5>2. Path(t, held2, ups, slice1, sent)
            BY <5>1, PathMore
          <5>3. Unwritten(slice1, slice2)
            BY <3>5 DEF Unwritten
          <5>4. Path(t, held2, ups, slice2, rest)
            BY <3>2, <3>3, <4>1, <5>1, <5>2, <5>3, PathOmit
          <5>5. SliceEvents(slice2) = SliceEvents(slice1)
            BY <5>3, UnwrittenFact
          <5> QED BY <5>4, <5>5
        <4> QED BY <3>1, <3>3, <4>1, <4>2
      <3> QED BY <2>5, <2>8, <3>1, <3>4, <3>5
    <2>10. ASSUME Running(s) PROVE LineOK(s)'
      <3>1. PathOK(s)'
        BY <2>3, <2>5, <2>6, <2>9, <2>10 DEF PathOK
      <3>2. Numbered(s)'
        <4>1. PICK i \in Nat : NumberedAs(s, i)
          BY <1>0, <2>10 DEF LineOK, Numbered
        <4>3. Mine(s)' = FirstOdds(i) /\ Uploading(s)' \subseteq {2 * i + 1}
          BY <2>6, <4>1 DEF NumberedAs
        <4>4. lastPartNumber'[s] = 2 * i + (IF Uploading(s)' = {} THEN 0 ELSE 2) + (IF current'[s] = NoSlice THEN 0 ELSE 1)
          BY <1>0, <2>5, <2>6, <4>1 DEF NumberedAs
        <4>5. NumberedAs(s, i)'
          BY <4>3, <4>4, Zenon DEF NumberedAs, FirstOdds, NoSlice, None
        <4> QED BY <4>5, Zenon DEF Numbered
      <3>3. loop[s] # "drain"
        BY <2>1 DEF EndInv, EndOK
      <3> QED BY <1>2, <2>1, <2>5, <3>1, <3>2, <3>3 DEF LineOK
    <2>11. LineOK(s)'
      <3>1. CASE ~Running(s)
        <4>1. ~Running(s)' /\ loop'[s] # "none"
          BY <2>5, <2>7, <3>1
        <4> QED BY <4>1 DEF LineOK
      <3> QED BY <2>10, <3>1
    <2>12. ASSUME Running(s) PROVE OnWay(s) \cup Range(wire[s]) \subseteq OnWay(s)' \cup Range(wire'[s])
      <3>1. SliceEvents(current[s]) \cup {e} \subseteq SliceEvents(current[s])' \cup Held(s)'
        <4>1. SliceEvents(current[s])' = SliceEvents(current'[s])
          BY Zenon DEF SliceEvents, NoSlice, None
        <4> QED BY <2>9, <2>12, <4>1
      <3>2. Members(Ups(s))' = Members(Ups(s))
        BY <2>6, Zenon DEF Members
      <3>3. Range(wire[s]) \subseteq {e} \cup Range(Tail(wire[s]))
        <4>1. /\ Len(wire[s]) \in Nat \ {0} /\ DOMAIN wire[s] = 1..Len(wire[s]) /\ Head(wire[s]) = wire[s][1]
              /\ DOMAIN Tail(wire[s]) = 1..(Len(wire[s]) - 1) /\ \A k \in 1..(Len(wire[s]) - 1) : Tail(wire[s])[k] = wire[s][k + 1]
          <5>1. Len(wire[s]) \in Nat /\ Len(wire[s]) # 0
            BY <1>0, <2>1, LenProperties, EmptySeq
          <5> QED BY <1>0, <2>1, <5>1, HeadTailProperties, LenProperties
        <4>2. ASSUME NEW k \in DOMAIN wire[s] PROVE wire[s][k] \in {e} \cup Range(Tail(wire[s]))
          <5>1. CASE k = 1
            BY <2>4, <4>1, <5>1
          <5>2. CASE k # 1
            <6>1. k - 1 \in 1..(Len(wire[s]) - 1) /\ (k - 1) + 1 = k
              BY <4>1, <5>2
            <6>2. Tail(wire[s])[k - 1] = wire[s][k] /\ k - 1 \in DOMAIN Tail(wire[s])
              BY <4>1, <6>1
            <6> QED BY <6>2 DEF Range
          <5> QED BY <5>1, <5>2
        <4> QED BY <4>2 DEF Range
      <3> QED BY <2>5, <2>7, <3>1, <3>2, <3>3 DEF OnWay
    <2>13. (\A u \in Streams : UploadOK(u)') /\ (NoneCompleted' => source'.by = Nobody) /\ WholeRecording'
      BY <2>1, <2>2, <2>3, StorageMore
    <2>14. s = stream /\ pc \in {"await", "replay"} /\ Running(s)' => Range(trimmed) \cap InOrder \subseteq Held(s)'
      BY <1>0, <2>7 DEF WriterLine
    <2>15. Serve(s)
      BY Zenon DEF Serve
    <2>16. conn'[s] = conn[s] /\ loop'[s] # "none"
      BY <1>2, <2>5
    <2> QED BY <2>5, <2>7, <2>11, <2>12, <2>13, <2>14, <2>15, <2>16, StreamStep
  <1> QED BY <1>0, <1>1, <1>2, Zenon DEF ReceiveEvent, ClientTypes

-----------------------------------------------------------------------------
(* Steps of the loop *)

\* The slice is uploaded, with the next odd number.
LEMMA StartLine ==
  ASSUME Struct, WholeInv, NEW s \in Streams, StartUploadCurrentSlice(s), current[s] # NoSlice, loop[s] = "select", Running(s),
         loop'[s] \in {"select", "drain"}, UNCHANGED <<completedParts, upload, wire, handler, completeType, parts, Lost, uploads>>,
         Taken' = Taken, InOrder' = InOrder
  PROVE  LineOK(s)' /\ Held(s)' = Held(s) /\ OnWay(s)' = OnWay(s)
  <1>0. SliceTypes /\ ActiveTypes /\ LineOK(s) /\ lastPartNumber[s] \in Nat /\ DOMAIN lastPartNumber = Streams
    BY TypeFacts DEF Struct, WholeInv, SliceTypes
  <1>1. PICK n : n = lastPartNumber[s]
    OBVIOUS
  <1>2. /\ DOMAIN activeUploads'[s] = DOMAIN activeUploads[s] \cup {n} /\ current'[s] = NoSlice
        /\ activeUploads'[s][n] = [slice |-> current[s], state |-> "uploading"]
        /\ \A m \in DOMAIN activeUploads[s] \ {n} : activeUploads'[s][m] = activeUploads[s][m]
        /\ \A m \in DOMAIN activeUploads[s] : activeUploads[s][m].state # "uploading"
    BY <1>0, <1>1, StartUploadFacts
  <1>3. lastPartNumber'[s] = n + 1
    BY <1>0, <1>1 DEF StartUploadCurrentSlice
  <1>4. PICK i \in Nat : NumberedAs(s, i)
    BY <1>0 DEF LineOK, Numbered
  <1>5. Uploading(s) = {}
    BY <1>2 DEF Uploading
  <1>6. n = 2 * i + 1 /\ Mine(s) = FirstOdds(i)
    BY <1>1, <1>4, <1>5 DEF NumberedAs
  <1>7. n \notin Mine(s)
    <2>1. \A m \in FirstOdds(i) : m \in Nat /\ m < 2 * i + 1
      BY OddsFact
    <2>2. n \in Nat
      BY <1>6
    <2> QED BY <1>6, <2>1, <2>2
  <1>8. Uploading(s)' = {n}
    BY <1>2 DEF Uploading
  <1>9. Stored(s)' = Stored(s)
    <2>1. n \notin Stored(s)
      BY <1>7 DEF Mine
    <2>2. n \notin Stored(s)'
      BY <1>2 DEF Stored
    <2>3. ASSUME NEW m, m # n PROVE m \in Stored(s)' <=> m \in Stored(s)
      BY <1>2, <2>3 DEF Stored
    <2> QED BY <2>1, <2>2, <2>3
  <1>10. Mine(s)' = Mine(s)
    BY <1>9, Zenon DEF Mine
  <1>11. Held(s)' = Held(s) /\ Running(s)'
    BY <1>10, HeldSame DEF Running
  <1>12. Ups(s) = {} /\ Ups(s)' = {current[s]}
    <2>1. Ups(s) = {}
      BY <1>5 DEF Ups
    <2>2. Ups(s)' = {activeUploads'[s][m].slice : m \in {n}}
      BY <1>8, Zenon DEF Ups
    <2>3. {activeUploads'[s][m].slice : m \in {n}} = {activeUploads'[s][n].slice}
      BY Zenon
    <2>4. activeUploads'[s][n].slice = current[s]
      BY <1>2
    <2> QED BY <2>1, <2>2, <2>3, <2>4
  <1>13. PICK t, held, slice, sent : t = Taken /\ held = Held(s) /\ slice = current[s] /\ sent = wire[s]
    OBVIOUS
  <1>14. Path(t, held, {}, slice, sent) /\ slice # NoSlice
    BY <1>0, <1>12, <1>13 DEF LineOK, PathOK
  <1>15. /\ Path(t, held, {slice}, NoSlice, sent)
         /\ held \cup Members({slice}) \cup SliceEvents(NoSlice) = held \cup Members({}) \cup SliceEvents(slice)
    BY <1>14, PathStart
  <1>16. PathOK(s)'
    BY <1>2, <1>11, <1>12, <1>13, <1>15 DEF PathOK
  <1>17. OnWay(s)' = OnWay(s)
    <2>1. OnWay(s) = held \cup Members({}) \cup SliceEvents(slice)
      BY <1>12, <1>13, Zenon DEF OnWay
    <2>2. OnWay(s)' = held \cup Members({slice}) \cup SliceEvents(NoSlice)
      BY <1>2, <1>11, <1>12, <1>13, Zenon DEF OnWay, Members, SliceEvents, NoSlice, None
    <2> QED BY <1>15, <2>1, <2>2
  <1>18. Numbered(s)'
    <2>1. NumberedAs(s, i)'
      <3>1. Mine(s)' = FirstOdds(i)
        BY <1>6, <1>10
      <3>2. Uploading(s)' = {2 * i + 1}
        BY <1>6, <1>8
      <3>3. lastPartNumber'[s] = 2 * i + 2 + 0
        BY <1>3, <1>6
      <3> QED BY <1>2, <3>1, <3>2, <3>3 DEF NumberedAs, FirstOdds, NoSlice, None
    <2> QED BY <2>1, Zenon DEF Numbered
  <1>19. handler'[s] = "closing" /\ completeType'[s] = "complete" => InOrder' \subseteq OnWay(s)'
    BY <1>0, <1>17 DEF LineOK
  <1>20. current'[s] = NoSlice'
    BY <1>2 DEF NoSlice, None
  <1> QED BY <1>11, <1>16, <1>17, <1>18, <1>19, <1>20, Zenon DEF LineOK

LEMMA StartWhole ==
  ASSUME Struct, Grows, WholeInv, NEW s \in Streams, FlushSlice(s) \/ UploadLastSlice(s)
  PROVE  WholeInv'
  <1>0. ServerTypes /\ LineOK(s) /\ WriterLine
    BY TypeFacts DEF Struct, WholeInv
  <1>1. /\ UNCHANGED <<writerVars, storageVars, conn, wire, handler, upload, completeType, completedParts>> /\ loop[s] = "select"
        /\ loop' = loop \/ loop' = [loop EXCEPT ![s] = "drain"]
        /\ \/ UNCHANGED <<activeUploads, current, lastPartNumber>> /\ current[s] = NoSlice
           \/ StartUploadCurrentSlice(s) /\ current[s] # NoSlice
    BY Zenon DEF FlushSlice, UploadLastSlice, clientVars, serverVars
  <1>2. UNCHANGED <<buffer, trimmed, lastStatus, stream, pc, parts, Lost, uploads>>
    BY <1>1, Zenon DEF writerVars, storageVars, Lost
  <1>3. Taken' = Taken /\ InOrder' = InOrder
    BY <1>2, TakenSame
  <1>4. loop'[s] \in {"select", "drain"}
    BY <1>0, <1>1 DEF ServerTypes
  <1>5. Running(s)' <=> Running(s)
    BY <1>1, <1>2, <1>4 DEF Running
  <1>6. ASSUME Running(s) PROVE LineOK(s)' /\ Held(s)' = Held(s) /\ OnWay(s)' = OnWay(s)
    <2>1. CASE StartUploadCurrentSlice(s) /\ current[s] # NoSlice
      BY <1>1, <1>2, <1>3, <1>4, <1>6, <2>1, StartLine
    <2>2. CASE UNCHANGED <<activeUploads, current, lastPartNumber>> /\ current[s] = NoSlice
      <3>1. Mine(s)' = Mine(s) /\ Uploading(s)' = Uploading(s)
        BY <1>1, <2>2, Zenon DEF Mine, Stored, Uploading
      <3>2. Ups(s)' = Ups(s)
        BY <2>2, <3>1, Zenon DEF Ups
      <3>3. Held(s)' = Held(s)
        BY <1>1, <1>2, <1>4, <3>1, HeldSame
      <3>4. OnWay(s)' = OnWay(s)
        BY <2>2, <3>2, <3>3, Zenon DEF OnWay, Members, SliceEvents, NoSlice, None
      <3>5. PathOK(s) /\ Numbered(s)
        BY <1>0, <1>6 DEF LineOK
      <3>6. PathOK(s)'
        BY <1>1, <1>3, <2>2, <3>2, <3>3, <3>5 DEF PathOK
      <3>7. Numbered(s)'
        <4>1. ASSUME NEW i \in Nat, NumberedAs(s, i) PROVE NumberedAs(s, i)'
          BY <2>2, <3>1, <4>1, Zenon DEF NumberedAs, NoSlice, None, FirstOdds
        <4> QED BY <3>5, <4>1, Zenon DEF Numbered
      <3>8. handler'[s] = "closing" /\ completeType'[s] = "complete" => InOrder' \subseteq OnWay(s)'
        BY <1>0, <1>1, <1>3, <1>6, <3>4 DEF LineOK
      <3>9. current'[s] = NoSlice'
        BY <2>2 DEF NoSlice, None
      <3>10. LineOK(s)'
        BY <3>6, <3>7, <3>8, <3>9, Zenon DEF LineOK
      <3> QED BY <3>3, <3>4, <3>10
    <2> QED BY <1>1, <2>1, <2>2
  <1>7. LineOK(s)'
    <2>1. CASE ~Running(s)
      <3>1. ~Running(s)' /\ loop'[s] # "none"
        BY <1>4, <1>5, <2>1
      <3> QED BY <3>1 DEF LineOK
    <2> QED BY <1>6, <2>1
  <1>8. (\A u \in Streams : UploadOK(u)') /\ (NoneCompleted' => source'.by = Nobody) /\ WholeRecording'
    BY <1>1, <1>2, <1>3, StorageSame
  <1>9. s = stream /\ pc \in {"await", "replay"} /\ Running(s)' => Range(trimmed) \cap InOrder \subseteq Held(s)'
    BY <1>0, <1>5, <1>6 DEF WriterLine
  <1>10. Serve(s) \/ FlushSlice(s)
    BY Zenon DEF Serve
  <1>11. conn'[s] = conn[s] /\ loop'[s] # "none" /\ wire'[s] = wire[s]
    BY <1>1, <1>4
  <1> QED BY <1>5, <1>6, <1>7, <1>8, <1>9, <1>10, <1>11, StreamStep

\* The slice is stored: it is a part of the upload, after all those that the stream has.
LEMMA UploadSliceLine ==
  ASSUME Struct, Grows, WholeInv, NEW s \in Streams, NEW n \in DOMAIN activeUploads[s], UploadSlice(s, n), Running(s)
  PROVE  LineOK(s)' /\ Held(s) \subseteq Held(s)' /\ OnWay(s) \subseteq OnWay(s)' /\ \A u \in Streams : UploadOK(u)'
  <1>0. SliceTypes /\ ActiveTypes /\ LineOK(s) /\ SlicesOK(s) /\ Types
    BY TypeFacts DEF Struct, WholeInv, SlicesInv
  <1>1. PICK u \in Streams : u = upload[s] /\ uploads[u] = "active" /\ Mine(s) \subseteq DOMAIN parts[u]
    BY LoopUpload DEF Running
  <1>2. PICK q \in Seq(Events) : q = activeUploads[s][n].slice
    BY <1>0 DEF ActiveTypes, Slices
  <1>3. /\ UNCHANGED <<writerVars, loop, upload, handler, completeType, wire, current, lastPartNumber, completedParts, uploads>>
        /\ n \in Uploading(s)
        /\ activeUploads' = [activeUploads EXCEPT ![s][n].state = "stored"] /\ UploadPart(u, n, q)
    BY <1>1, <1>2, Zenon DEF UploadSlice, serverVars, clientVars
  <1>4. Taken' = Taken /\ InOrder' = InOrder
    BY <1>3, TakenSame DEF writerVars
  <1>5. /\ DOMAIN activeUploads'[s] = DOMAIN activeUploads[s]
        /\ \A m \in DOMAIN activeUploads[s] : m # n => activeUploads'[s][m] = activeUploads[s][m]
        /\ activeUploads'[s][n].state = "stored"
    BY <1>0, <1>3, SliceUploaded
  <1>6. n \in PartNumbers
    BY <1>0 DEF ActiveTypes
  <1>7. /\ \A v \in Streams : v # u => parts'[v] = parts[v]
        /\ DOMAIN parts'[u] = DOMAIN parts[u] \cup {n} /\ parts'[u][n] = q
        /\ \A m \in DOMAIN parts[u] : m # n => parts'[u][m] = parts[u][m]
    BY <1>0, <1>3, <1>6, UploadPartFacts
  <1>8. Uploading(s) = {n} /\ Uploading(s)' = {}
    BY <1>0, <1>3, <1>5 DEF Uploading, SlicesOK
  <1>9. PICK i \in Nat : NumberedAs(s, i)
    BY <1>0 DEF LineOK, Numbered
  <1>10. n = 2 * i + 1 /\ Mine(s) = FirstOdds(i)
    BY <1>8, <1>9 DEF NumberedAs
  <1>11. Mine(s)' = FirstOdds(i) \cup {n}
    <2>1. Stored(s)' = Stored(s) \cup {n}
      <3>1. n \in Stored(s)'
        BY <1>5 DEF Stored
      <3>2. ASSUME NEW m, m # n PROVE m \in Stored(s)' <=> m \in Stored(s)
        BY <1>5, <3>2 DEF Stored
      <3> QED BY <3>1, <3>2
    <2>2. Mine(s)' = completedParts[s] \cup Stored(s)'
      BY <1>3, Zenon DEF Mine
    <2> QED BY <1>10, <2>1, <2>2 DEF Mine
  <1>12. Held(s) \subseteq Held(s)' /\ Range(q) \subseteq Held(s)'
    <2>1. loop[s] # "none" /\ loop'[s] # "none" /\ uploads'[upload[s]] = "active" /\ upload'[s] = upload[s] /\ Mine(s) \subseteq Mine(s)'
      BY <1>1, <1>3, <1>10, <1>11 DEF Running
    <2>2. Held(s) \subseteq Held(s)'
      BY <2>1, HeldGrows
    <2>3. PICK ns : ns = Mine(s)' /\ n \in ns
      BY <1>11
    <2>4. Held(s)' = Lost' \cup UNION {Range(parts'[u][m]) : m \in ns}
      BY <1>1, <2>1, <2>3, Zenon DEF Held, EventsAt
    <2>5. Range(q) \subseteq UNION {Range(parts'[u][m]) : m \in ns}
      BY <1>7, <2>3, Zenon
    <2> QED BY <2>2, <2>4, <2>5
  <1>13. Ups(s) = {q} /\ Ups(s)' = {}
    <2>1. Ups(s)' = {}
      BY <1>8 DEF Ups
    <2>2. Ups(s) = {activeUploads[s][m].slice : m \in {n}}
      BY <1>8, Zenon DEF Ups
    <2>3. {activeUploads[s][m].slice : m \in {n}} = {activeUploads[s][n].slice}
      BY Zenon
    <2> QED BY <1>2, <2>1, <2>2, <2>3
  <1>14. PICK t, held, more, slice, sent : t = Taken /\ held = Held(s) /\ more = Held(s)' /\ slice = current[s] /\ sent = wire[s]
    OBVIOUS
  <1>15. Path(t, held, {q}, slice, sent) /\ held \cup Range(q) \subseteq more
    BY <1>0, <1>12, <1>13, <1>14 DEF LineOK, PathOK
  <1>16. /\ Path(t, more, {}, slice, sent)
         /\ held \cup Members({q}) \cup SliceEvents(slice) \subseteq more \cup Members({}) \cup SliceEvents(slice)
    BY <1>15, PathStore
  <1>17. PathOK(s)'
    BY <1>3, <1>4, <1>13, <1>14, <1>16 DEF PathOK
  <1>18. OnWay(s) \subseteq OnWay(s)'
    <2>1. OnWay(s) = held \cup Members({q}) \cup SliceEvents(slice)
      BY <1>13, <1>14, Zenon DEF OnWay
    <2>2. OnWay(s)' = more \cup Members({}) \cup SliceEvents(slice)
      BY <1>3, <1>13, <1>14, Zenon DEF OnWay, Members, SliceEvents, NoSlice, None
    <2> QED BY <1>16, <2>1, <2>2
  <1>19. Numbered(s)'
    <2>0. FirstOdds(i) \cup {2 * i + 1} = FirstOdds(i + 1)
      BY OddsFact
    <2>1. i + 1 \in Nat /\ 2 * (i + 1) = 2 * i + 2
      OBVIOUS
    <2>2. Mine(s)' = FirstOdds(i + 1)
      BY <1>10, <1>11, <2>0
    <2>3. lastPartNumber'[s] = 2 * (i + 1) + 0 + (IF current'[s] = NoSlice THEN 0 ELSE 1)
      BY <1>3, <1>8, <1>9, <2>1 DEF NumberedAs
    <2>4. NumberedAs(s, i + 1)'
      BY <1>8, <2>2, <2>3 DEF NumberedAs, FirstOdds, NoSlice, None
    <2> QED BY <2>1, <2>4, Zenon DEF Numbered
  <1>20. LineOK(s)'
    <2>1. loop'[s] = "drain" => current'[s] = NoSlice'
      BY <1>0, <1>3 DEF LineOK, NoSlice, None
    <2>2. handler'[s] = "closing" /\ completeType'[s] = "complete" => InOrder' \subseteq OnWay(s)'
      BY <1>0, <1>3, <1>4, <1>18 DEF LineOK
    <2> QED BY <1>17, <1>19, <2>1, <2>2, Zenon DEF LineOK
  <1>21. ASSUME NEW v \in Streams, v # u PROVE UploadOK(v)'
    <2>1. UploadOK(v) /\ parts'[v] = parts[v] /\ Lost \subseteq Lost'
      BY <1>7, <1>21 DEF WholeInv, Grows
    <2> QED BY <1>4, <2>1, UploadSame
  <1>22. UploadOK(u)'
    <2>1. PICK k \in Nat : DOMAIN parts[u] = FirstOdds(k)
      BY DEF WholeInv, UploadOK
    <2>2. i <= k
      <3>1. FirstOdds(i) \subseteq FirstOdds(k)
        BY <1>1, <1>10, <2>1
      <3>2. FirstOdds(i) \subseteq FirstOdds(k) => i <= k
        BY OddsFact
      <3> QED BY <3>1, <3>2
    <2>3. PICK h \in Nat : DOMAIN parts'[u] = FirstOdds(h) /\ i < h
      <3>1. CASE i < k
        <4>1. n \in FirstOdds(k)
          BY <1>10, <3>1, OddsFact
        <4>2. DOMAIN parts'[u] = FirstOdds(k)
          BY <1>7, <2>1, <4>1
        <4> QED BY <3>1, <4>2
      <3>2. CASE i = k
        <4>1. FirstOdds(k) \cup {2 * k + 1} = FirstOdds(k + 1)
          BY OddsFact
        <4>2. DOMAIN parts'[u] = FirstOdds(k + 1) /\ k + 1 \in Nat /\ i < k + 1
          BY <1>7, <1>10, <2>1, <3>2, <4>1
        <4> QED BY <4>2
      <3> QED BY <2>2, <3>1, <3>2
    <2>4. FirstOdds(i) = {m \in FirstOdds(h) : m < 2 * i + 1}
      <3>1. i <= h
        BY <2>3
      <3> QED BY <3>1, OddsFact
    <2>5. PICK ps, lost : ps = parts'[u] /\ lost = Lost'
      OBVIOUS
    <2>6. ASSUME NEW m \in DOMAIN ps
          PROVE  Ordered(t, lost \cup UNION {Range(ps[j]) : j \in {l \in DOMAIN ps : l < m}}, ps[m])
      <3>1. CASE m = n
        <4>1. {l \in DOMAIN ps : l < m} = FirstOdds(i)
          BY <1>10, <2>3, <2>4, <2>5, <3>1
        <4>2. Ordered(t, held, q)
          BY <1>15 DEF Path
        <4>3. held \subseteq lost \cup UNION {Range(ps[j]) : j \in FirstOdds(i)}
          <5>1. held = Lost \cup UNION {Range(parts[u][j]) : j \in FirstOdds(i)}
            BY <1>1, <1>10, <1>14, Zenon DEF Held, EventsAt, Running
          <5>2. ASSUME NEW j \in FirstOdds(i) PROVE ps[j] = parts[u][j]
            <6>1. j \in DOMAIN parts[u]
              BY <1>1, <1>10
            <6>2. j # n
              <7>1. j < 2 * i + 1 /\ j \in Nat
                BY OddsFact
              <7> QED BY <1>10, <7>1
            <6> QED BY <1>7, <2>5, <6>1, <6>2
          <5>3. Lost \subseteq lost
            BY <2>5 DEF Grows
          <5> QED BY <5>1, <5>2, <5>3
        <4>4. Ordered(t, lost \cup UNION {Range(ps[j]) : j \in FirstOdds(i)}, q)
          BY <4>2, <4>3, OrderedMore
        <4>5. q = ps[m]
          BY <1>7, <2>5, <3>1
        <4> QED BY <4>1, <4>4, <4>5
      <3>2. CASE m # n
        <4>1. m \in DOMAIN parts[u] /\ ps[m] = parts[u][m]
          BY <1>7, <2>5, <3>2
        <4>2. PICK base : base = Lost \cup UNION {Range(parts[u][j]) : j \in {l \in DOMAIN parts[u] : l < m}}
          OBVIOUS
        <4>3. Ordered(t, base, ps[m])
          BY <1>14, <4>1, <4>2, Zenon DEF WholeInv, UploadOK, EventsAt
        <4>4. base \subseteq lost \cup UNION {Range(ps[j]) : j \in {l \in DOMAIN ps : l < m}}
          <5>1. /\ Lost \subseteq lost /\ DOMAIN parts[u] \subseteq DOMAIN ps
                /\ \A j \in DOMAIN parts[u] : Range(parts[u][j]) \subseteq lost \cup Range(ps[j])
            BY <1>1, <1>3, <2>5 DEF Grows
          <5>2. ASSUME NEW x \in base PROVE x \in lost \cup UNION {Range(ps[j]) : j \in {l \in DOMAIN ps : l < m}}
            <6>1. CASE x \in Lost
              BY <5>1, <6>1
            <6>2. CASE \E j \in DOMAIN parts[u] : j < m /\ x \in Range(parts[u][j])
              <7>1. PICK j \in DOMAIN parts[u] : j < m /\ x \in Range(parts[u][j])
                BY <6>2
              <7>2. j \in DOMAIN ps /\ x \in lost \cup Range(ps[j])
                BY <5>1, <7>1
              <7> QED BY <7>1, <7>2
            <6> QED BY <4>2, <6>1, <6>2
          <5> QED BY <5>2
        <4> QED BY <4>3, <4>4, OrderedMore
      <3> QED BY <3>1, <3>2
    <2>7. DOMAIN ps = FirstOdds(h) /\ t = Taken'
      BY <1>4, <1>14, <2>3, <2>5
    <2> QED BY <2>5, <2>6, <2>7, Zenon DEF UploadOK, EventsAt, FirstOdds
  <1> QED BY <1>12, <1>18, <1>20, <1>21, <1>22

LEMMA UploadSliceWhole ==
  ASSUME Struct, Grows, WholeInv, NEW s \in Streams, NEW n \in DOMAIN activeUploads[s], UploadSlice(s, n)
  PROVE  WholeInv'
  <1>0. StreamOK(s) /\ ServerTypes /\ WriterLine
    BY TypeFacts DEF Struct, WholeInv, StreamsInv
  <1>1. UNCHANGED <<writerVars, clientVars, serverVars, uploads, recording, source>>
    BY Zenon DEF UploadSlice
  <1>2. UNCHANGED <<buffer, trimmed, lastStatus, stream, pc, conn, wire, loop, upload>>
    BY <1>1, Zenon DEF writerVars, clientVars, serverVars
  <1>3. Taken' = Taken
    BY <1>2, TakenSame
  <1>4. loop[s] \in {"select", "drain"}
    BY <1>0 DEF StreamOK, Idle, ServerTypes
  <1>5. (Running(s)' <=> Running(s)) /\ loop'[s] # "none" /\ conn'[s] = conn[s] /\ wire'[s] = wire[s]
    BY <1>1, <1>2, <1>4 DEF Running
  <1>6. LineOK(s)' /\ (\A u \in Streams : UploadOK(u)') /\ (Running(s) => Held(s) \subseteq Held(s)' /\ OnWay(s) \subseteq OnWay(s)')
    <2>1. CASE Running(s)
      BY <2>1, UploadSliceLine
    <2>2. CASE ~Running(s)
      <3>1. LineOK(s)'
        BY <1>5, <2>2 DEF LineOK
      <3>2. UNCHANGED <<parts, Lost>>
        BY <1>4, <2>2, Zenon DEF UploadSlice, Running, Lost
      <3>3. ASSUME NEW u \in Streams PROVE UploadOK(u)'
        <4>1. UploadOK(u) /\ parts'[u] = parts[u] /\ Lost \subseteq Lost'
          BY <3>2 DEF WholeInv
        <4> QED BY <1>3, <4>1, UploadSame
      <3> QED BY <2>2, <3>1, <3>3
    <2> QED BY <2>1, <2>2
  <1>7. NoneCompleted' => source'.by = Nobody
    BY <1>1 DEF NoneCompleted, WholeInv
  <1>8. WholeRecording'
    <2>1. Lost \subseteq Lost'
      BY DEF Grows
    <2> QED BY <1>1, <1>2, <1>3, <2>1, WholeKept
  <1>9. s = stream /\ pc \in {"await", "replay"} /\ Running(s)' => Range(trimmed) \cap InOrder \subseteq Held(s)'
    BY <1>0, <1>5, <1>6 DEF WriterLine
  <1>10. Serve(s)
    BY Zenon DEF Serve
  <1>11. loop'[s] = "none" \/ Running(s)' => Running(s) /\ OnWay(s) \cup Range(wire[s]) \subseteq OnWay(s)' \cup Range(wire'[s])
    BY <1>5, <1>6
  <1> QED BY <1>5, <1>6, <1>7, <1>8, <1>9, <1>10, <1>11, StreamStep

\* A part that is reported stays one of those the stream has.
LEMMA CompletedUploadWhole ==
  ASSUME Struct, Grows, WholeInv, NEW s \in Streams, NEW n \in DOMAIN activeUploads[s], CompletedUpload(s, n)
  PROVE  WholeInv'
  <1>0. SliceTypes /\ LineOK(s) /\ WriterLine
    BY TypeFacts DEF Struct, WholeInv
  <1>1. /\ UNCHANGED <<writerVars, storageVars, conn, wire, handler, loop, upload, completeType, current, lastPartNumber>>
        /\ loop[s] = "select" /\ activeUploads[s][n].state = "stored"
    BY Zenon DEF CompletedUpload, serverVars
  <1>2. UNCHANGED <<buffer, trimmed, lastStatus, stream, pc, parts, Lost, uploads>>
    BY <1>1, Zenon DEF writerVars, storageVars, Lost
  <1>3. Taken' = Taken /\ InOrder' = InOrder
    BY <1>2, TakenSame
  <1>4. /\ DOMAIN activeUploads'[s] = DOMAIN activeUploads[s] \ {n}
        /\ \A m \in DOMAIN activeUploads[s] \ {n} : activeUploads'[s][m] = activeUploads[s][m]
    <2>1. activeUploads' = [activeUploads EXCEPT ![s] = Restrict(activeUploads[s], DOMAIN activeUploads[s] \ {n})]
      BY <1>0, Zenon DEF CompletedUpload, SliceTypes
    <2>2. activeUploads'[s] = Restrict(activeUploads[s], DOMAIN activeUploads[s] \ {n})
      BY <1>0, <2>1, Zenon DEF SliceTypes
    <2>3. PICK active : active = activeUploads[s] /\ activeUploads'[s] = Restrict(active, DOMAIN active \ {n})
      BY <2>2, Zenon
    <2>4. /\ DOMAIN Restrict(active, DOMAIN active \ {n}) = DOMAIN active \ {n}
          /\ \A m \in DOMAIN active \ {n} : Restrict(active, DOMAIN active \ {n})[m] = active[m]
      BY RestrictFacts, Zenon
    <2> QED BY <2>3, <2>4, Zenon
  <1>5. completedParts'[s] = completedParts[s] \cup {n}
    BY <1>0, Zenon DEF CompletedUpload, SliceTypes
  <1>6. Mine(s)' = Mine(s)
    <2>1. Stored(s) = Stored(s)' \cup {n}
      <3>1. n \in Stored(s)
        BY <1>1 DEF Stored
      <3>2. ASSUME NEW m, m # n PROVE m \in Stored(s)' <=> m \in Stored(s)
        BY <1>4, <3>2 DEF Stored
      <3> QED BY <3>1, <3>2
    <2>2. Mine(s)' = completedParts'[s] \cup Stored(s)'
      BY Zenon DEF Mine
    <2> QED BY <1>5, <2>1, <2>2 DEF Mine
  <1>7. Uploading(s)' = Uploading(s) /\ \A m \in Uploading(s) : activeUploads'[s][m] = activeUploads[s][m]
    BY <1>1, <1>4 DEF Uploading
  <1>8. Ups(s)' = Ups(s)
    <2>1. PICK ns : ns = Uploading(s) /\ ns = Uploading(s)'
      BY <1>7
    <2>2. Ups(s) = {activeUploads[s][m].slice : m \in ns} /\ Ups(s)' = {activeUploads'[s][m].slice : m \in ns}
      BY <2>1, Zenon DEF Ups
    <2> QED BY <1>7, <2>1, <2>2
  <1>9. Held(s)' = Held(s) /\ (Running(s)' <=> Running(s))
    BY <1>1, <1>2, <1>6, HeldSame DEF Running
  <1>10. OnWay(s)' = OnWay(s)
    BY <1>1, <1>8, <1>9, Zenon DEF OnWay, Members, SliceEvents, NoSlice, None
  <1>11. LineOK(s)'
    <2>1. CASE Running(s)
      <3>1. PathOK(s) /\ Numbered(s)
        BY <1>0, <2>1 DEF LineOK
      <3>2. PathOK(s)'
        BY <1>1, <1>3, <1>8, <1>9, <3>1 DEF PathOK
      <3>3. Numbered(s)'
        <4>1. ASSUME NEW i \in Nat, NumberedAs(s, i) PROVE NumberedAs(s, i)'
          BY <1>1, <1>6, <1>7, <4>1, Zenon DEF NumberedAs, NoSlice, None, FirstOdds
        <4> QED BY <3>1, <4>1, Zenon DEF Numbered
      <3>4. handler'[s] = "closing" /\ completeType'[s] = "complete" => InOrder' \subseteq OnWay(s)'
        BY <1>0, <1>1, <1>3, <1>10, <2>1 DEF LineOK
      <3>5. loop'[s] # "drain"
        BY <1>1
      <3> QED BY <3>2, <3>3, <3>4, <3>5, Zenon DEF LineOK
    <2>2. CASE ~Running(s)
      <3>1. ~Running(s)' /\ loop'[s] # "none"
        BY <1>1, <1>9, <2>2
      <3> QED BY <3>1 DEF LineOK
    <2> QED BY <2>1, <2>2
  <1>12. (\A u \in Streams : UploadOK(u)') /\ (NoneCompleted' => source'.by = Nobody) /\ WholeRecording'
    BY <1>1, <1>2, <1>3, StorageSame
  <1>13. s = stream /\ pc \in {"await", "replay"} /\ Running(s)' => Range(trimmed) \cap InOrder \subseteq Held(s)'
    BY <1>0, <1>9 DEF WriterLine
  <1>14. Serve(s)
    BY Zenon DEF Serve
  <1>15. conn'[s] = conn[s] /\ loop'[s] # "none" /\ wire'[s] = wire[s]
    BY <1>1
  <1> QED BY <1>9, <1>10, <1>11, <1>12, <1>13, <1>14, <1>15, StreamStep

\* A stream that is opened finds all the parts of its upload, with what was confirmed.
LEMMA OpenWhole ==
  ASSUME Struct, RecordingInv, Grows, WholeInv, NEW s \in Streams, Open(s)
  PROVE  WholeInv'
  <1>0. /\ StreamOK(s) /\ ServerTypes /\ SliceTypes /\ LineOK(s) /\ upload[s] \in Streams \cup {0} /\ DOMAIN uploads = Streams
        /\ ConfirmedStored
    BY TypeFacts DEF Struct, WholeInv, StreamsInv, RecordingInv
  <1>1. PICK u \in Streams : u = IF upload[s] = 0 THEN s ELSE upload[s]
    BY <1>0
  <1>2. PICK ps : ps = DOMAIN parts[u]
    OBVIOUS
  <1>3. /\ handler[s] = "opening" /\ (upload[s] = 0 \/ uploads[u] = "active")
        /\ handler' = [handler EXCEPT ![s] = "serving"] /\ loop' = [loop EXCEPT ![s] = "select"]
        /\ upload' = [upload EXCEPT ![s] = u] /\ uploads' = [uploads EXCEPT ![u] = "active"]
        /\ current' = [current EXCEPT ![s] = <<>>] /\ lastPartNumber' = [lastPartNumber EXCEPT ![s] = FirstPartNumber(ps)]
        /\ completedParts' = [completedParts EXCEPT ![s] = ps]
        /\ UNCHANGED <<writerVars, conn, wire, activeUploads, parts, recording, source, Lost>>
    BY <1>1, <1>2, Zenon DEF Open, Lost
  <1>4. /\ handler'[s] = "serving" /\ loop'[s] = "select" /\ upload'[s] = u /\ uploads'[u] = "active" /\ current'[s] = <<>>
        /\ lastPartNumber'[s] = FirstPartNumber(ps) /\ completedParts'[s] = ps
    BY <1>0, <1>3 DEF ServerTypes, SliceTypes
  <1>5. UNCHANGED <<buffer, trimmed, lastStatus, stream, pc>>
    BY <1>3, Zenon DEF writerVars
  <1>6. Taken' = Taken /\ InOrder' = InOrder
    BY <1>5, TakenSame
  <1>7. loop[s] = "none" /\ DOMAIN activeUploads[s] = {} /\ current[s] = NoSlice
    BY <1>0, <1>3 DEF StreamOK, Idle
  <1>8. Mine(s)' = ps /\ Uploading(s) = {} /\ Uploading(s)' = {} /\ Ups(s) = {} /\ Ups(s)' = {}
    <2>1. Stored(s)' = {} /\ Uploading(s) = {} /\ Uploading(s)' = {}
      BY <1>3, <1>7 DEF Stored, Uploading
    <2>2. Mine(s)' = completedParts'[s] \cup Stored(s)'
      BY Zenon DEF Mine
    <2>3. Mine(s)' = ps
      BY <1>4, <2>1, <2>2
    <2> QED BY <2>1, <2>3 DEF Ups
  <1>9. Held(s) = Lost /\ Held(s)' = Lost \cup EventsOf(parts[u])
    <2>1. Held(s) = Lost
      BY <1>7 DEF Held
    <2>2. Held(s)' = Lost' \cup UNION {Range(parts'[u][n]) : n \in ps}
      BY <1>4, <1>8, Zenon DEF Held, EventsAt
    <2> QED BY <1>2, <1>3, <2>1, <2>2 DEF EventsOf
  <1>10. SliceEvents(<<>>) = {} /\ SliceEvents(NoSlice) = {} /\ Members({}) = {}
    BY DEF SliceEvents, Members, Range
  <1>11. PathOK(s)'
    <2>1. PICK t, held, more, sent : t = Taken /\ held = Held(s) /\ more = Held(s)' /\ sent = wire[s] /\ held \subseteq more
      BY <1>9
    <2>2. Path(t, held, {}, NoSlice, sent)
      BY <1>0, <1>7, <1>8, <2>1 DEF LineOK, PathOK
    <2>3. Path(t, more, {}, NoSlice, sent)
      BY <2>1, <2>2, PathMore
    <2>4. Ordered(t, more \cup Members({}), <<>>)
      BY OrderedNothing
    <2>5. Path(t, more, {}, <<>>, sent)
      BY <1>10, <2>3, <2>4 DEF Path
    <2> QED BY <1>3, <1>4, <1>6, <1>8, <2>1, <2>5 DEF PathOK
  <1>12. Numbered(s)'
    <2>1. PICK k \in Nat : ps = FirstOdds(k)
      BY <1>2 DEF WholeInv, UploadOK
    <2>2. lastPartNumber'[s] = 2 * k + 1
      BY <1>4, <2>1, FirstPartFact
    <2>3. current'[s] # NoSlice
      BY <1>4, EventTypes
    <2>4. NumberedAs(s, k)'
      BY <1>8, <2>1, <2>2, <2>3 DEF NumberedAs, FirstOdds, NoSlice, None
    <2> QED BY <2>4, Zenon DEF Numbered
  <1>13. LineOK(s)'
    <2>1. loop'[s] # "drain" /\ handler'[s] # "closing"
      BY <1>4
    <2> QED BY <1>11, <1>12, <2>1, Zenon DEF LineOK
  <1>14. Lost \subseteq Lost'
    BY <1>3
  <1>15. ASSUME NEW v \in Streams PROVE UploadOK(v)'
    <2>1. UploadOK(v) /\ parts'[v] = parts[v]
      BY <1>3 DEF WholeInv
    <2> QED BY <1>6, <1>14, <2>1, UploadSame
  <1>16. NoneCompleted' => source'.by = Nobody
    <2>1. \A v \in Streams : uploads[v] # "none" => uploads'[v] = uploads[v]
      BY OpenStruct
    <2>2. NoneCompleted' => NoneCompleted
      BY <2>1 DEF NoneCompleted
    <2> QED BY <1>3, <2>2 DEF WholeInv
  <1>17. WholeRecording'
    BY <1>3, <1>5, <1>6, <1>14, WholeKept
  <1>18. OnWay(s) \subseteq OnWay(s)'
    <2>1. OnWay(s) = Held(s) \cup Members({}) \cup SliceEvents(NoSlice)
      BY <1>7, <1>8, Zenon DEF OnWay
    <2>2. Held(s)' \subseteq OnWay(s)'
      BY DEF OnWay
    <2> QED BY <1>9, <1>10, <2>1, <2>2
  <1>19. ASSUME s = stream, NEW x \in Range(trimmed) \cap InOrder PROVE x \in Held(s)'
    <2>1. trimmed # <<>>
      BY DEF Range
    <2>2. lastStatus # 0 /\ upload[stream] = lastStatus
      BY <2>1, NowFacts DEF WriterOK
    <2>3. u = lastStatus /\ uploads[lastStatus] = "active"
      BY <1>1, <1>3, <1>19, <2>2
    <2>4. x \in EventsOf(parts[lastStatus]) \cup Overtaken \cup Lost
      BY <1>0, <2>2, <2>3, Zenon DEF ConfirmedStored
    <2>5. x \notin Overtaken
      BY OvertakenFact
    <2> QED BY <1>9, <2>3, <2>4, <2>5
  <1>20. Serve(s)
    BY Zenon DEF Serve
  <1>21. conn'[s] = conn[s] /\ loop'[s] # "none" /\ wire'[s] = wire[s]
    BY <1>3, <1>4
  <1>22. s = stream => Range(trimmed) \cap InOrder \subseteq Held(s)'
    BY <1>19
  <1>23. OnWay(s) \cup Range(wire[s]) \subseteq OnWay(s)' \cup Range(wire'[s])
    BY <1>18, <1>21
  <1> QED BY <1>7, <1>13, <1>15, <1>16, <1>17, <1>20, <1>21, <1>22, <1>23, StreamStep

-----------------------------------------------------------------------------
(* An upload is completed *)

\* The recording that is made of the first parts of an upload.
LEMMA RecordingRead ==
  ASSUME Struct, NEW u \in Streams, UploadOK(u), NEW i \in Nat, FirstOdds(i) \subseteq DOMAIN parts[u],
         NEW x \in InOrder, x \notin Lost, x \in EventsAt(u, FirstOdds(i))
  PROVE  x \in ReadFrom(Restrict(parts[u], FirstOdds(i)))
  <1>1. PICK k \in Nat : DOMAIN parts[u] = FirstOdds(k)
    BY DEF UploadOK
  <1>2. i <= k
    BY <1>1, OddsFact
  <1>3. FirstOdds(i) = {m \in FirstOdds(k) : m < 2 * i + 1}
    BY <1>2, OddsFact
  <1>4. PICK rec : rec = Restrict(parts[u], FirstOdds(i))
    OBVIOUS
  <1>5. DOMAIN rec = FirstOdds(i) /\ \A n \in FirstOdds(i) : rec[n] = parts[u][n]
    BY <1>4, Zenon DEF Restrict
  <1>6. IsParts(rec)
    <2>1. IsParts(parts[u])
      BY TypeFacts DEF Struct
    <2> QED BY <1>5, <2>1 DEF IsParts
  <1>7. PICK t \in Seq(Events) : t = Taken
    BY NowFacts
  <1>8. ASSUME NEW n \in DOMAIN rec PROVE Ordered(t, Lost \cup UNION {Range(rec[m]) : m \in {j \in DOMAIN rec : j < n}}, rec[n])
    <2>1. n \in DOMAIN parts[u] /\ rec[n] = parts[u][n]
      BY <1>5
    <2>2. Ordered(t, Lost \cup UNION {Range(parts[u][m]) : m \in {j \in DOMAIN parts[u] : j < n}}, rec[n])
      BY <1>7, <2>1, Zenon DEF UploadOK, EventsAt
    <2>3. {j \in DOMAIN parts[u] : j < n} = {j \in DOMAIN rec : j < n}
      <3>1. FirstOdds(k) \subseteq Nat /\ n \in Nat /\ n < 2 * i + 1
        BY <1>1, <1>3, <1>5, OddsFact
      <3> QED BY <1>1, <1>3, <1>5, <3>1
    <2>4. \A m \in {j \in DOMAIN rec : j < n} : rec[m] = parts[u][m]
      BY <1>5
    <2>5. UNION {Range(parts[u][m]) : m \in {j \in DOMAIN parts[u] : j < n}} = UNION {Range(rec[m]) : m \in {j \in DOMAIN rec : j < n}}
      BY <2>3, <2>4
    <2> QED BY <2>2, <2>5
  <1>9. x \in EventsOf(rec)
    BY <1>5 DEF EventsAt, EventsOf
  <1>10. x \in OrderOf(t)
    BY <1>7 DEF InOrder
  <1> QED BY <1>4, <1>6, <1>8, <1>9, <1>10, ReadFact

\* What is left of an upload that is completed, and of the others.
LEMMA UploadsAfter ==
  ASSUME Struct, WholeInv, NEW u \in Streams, uploads[u] = "active", NEW by, NEW ps, CompleteUpload(by, u, ps),
         UNCHANGED Lost, Taken' = Taken
  PROVE  /\ \A v \in Streams : UploadOK(v)'
         /\ ~NoneCompleted' /\ recording' = Restrict(parts[u], ps) /\ source' = [by |-> by, upload |-> u]
  <1>0. DOMAIN parts = Streams /\ DOMAIN uploads = Streams
    BY TypeFacts DEF Struct
  <1>1. /\ recording' = Restrict(parts[u], ps) /\ source' = [by |-> by, upload |-> u]
        /\ uploads' = [uploads EXCEPT ![u] = "completed"] /\ parts' = [parts EXCEPT ![u] = NoParts]
    BY Zenon DEF CompleteUpload
  <1>2. uploads'[u] = "completed" /\ parts'[u] = NoParts /\ \A v \in Streams : v # u => parts'[v] = parts[v]
    BY <1>0, <1>1
  <1>3. ~NoneCompleted'
    BY <1>2 DEF NoneCompleted
  <1>4. ASSUME NEW v \in Streams PROVE UploadOK(v)'
    <2>1. CASE v = u
      BY <1>2, <2>1, UploadNone
    <2>2. CASE v # u
      <3>1. UploadOK(v) /\ parts'[v] = parts[v] /\ Lost \subseteq Lost'
        BY <1>2, <2>2 DEF WholeInv
      <3> QED BY <3>1, UploadSame
    <2> QED BY <2>1, <2>2
  <1> QED BY <1>1, <1>3, <1>4

\* completeStream: the stream has everything, and its parts are the recording.
LEMMA FinishWhole ==
  ASSUME Struct, EndInv, Grows, WholeInv, NEW s \in Streams, FinishStream(s), completeType[s] = "complete"
  PROVE  WholeInv'
  <1>0. ClientTypes /\ StreamOK(s) /\ EndOK(s) /\ LineOK(s) /\ NoneCompleted
    BY TypeFacts, FinishEnd DEF Struct, StreamsInv, EndInv, WholeInv
  <1>1. /\ UNCHANGED <<writerVars, Lost>> /\ Return(s) /\ EndLoop(s) /\ loop[s] = "drain" /\ Uploading(s) = {}
        /\ CompleteUpload("stream", upload[s], Mine(s))
    BY Zenon DEF FinishStream, Stored, Mine, Awaited, Lost
  <1>2. handler[s] = "closing"
    BY <1>0, <1>1 DEF EndOK
  <1>3. PICK u \in Streams : u = upload[s] /\ uploads[u] = "active"
    <2>1. uploads[upload[s]] # "none" /\ upload[s] \in Streams /\ uploads \in [Streams -> {"none", "active", "completed"}]
      BY <1>1, LoopUpload, TypeFacts DEF Struct
    <2> QED BY <1>0, <2>1 DEF NoneCompleted
  <1>4. Running(s)
    BY <1>1, <1>3 DEF Running
  <1>5. PICK i \in Nat : Mine(s) = FirstOdds(i)
    BY <1>0, <1>4 DEF LineOK, Numbered, NumberedAs
  <1>6. FirstOdds(i) \subseteq DOMAIN parts[u]
    BY <1>1, <1>3, <1>5, LoopUpload
  <1>7. UNCHANGED <<buffer, trimmed, lastStatus, stream, pc>>
    BY <1>1, Zenon DEF writerVars
  <1>8. Taken' = Taken /\ InOrder' = InOrder /\ Overtaken' = Overtaken
    BY <1>7, TakenSame
  <1>9. /\ \A v \in Streams : UploadOK(v)'
        /\ ~NoneCompleted' /\ recording' = Restrict(parts[u], FirstOdds(i)) /\ source' = [by |-> "stream", upload |-> u]
    <2>1. CompleteUpload("stream", u, FirstOdds(i))
      BY <1>1, <1>3, <1>5
    <2> QED BY <1>1, <1>3, <1>8, <2>1, UploadsAfter
  <1>10. InOrder \subseteq Lost \cup EventsAt(u, FirstOdds(i))
    <2>1. InOrder \subseteq OnWay(s) /\ current[s] = NoSlice
      BY <1>0, <1>1, <1>2, <1>4 DEF LineOK
    <2>2. Ups(s) = {}
      BY <1>1 DEF Ups
    <2>3. Members({}) = {} /\ SliceEvents(NoSlice) = {}
      BY DEF Members, SliceEvents
    <2>4. OnWay(s) = Held(s) \cup Members({}) \cup SliceEvents(NoSlice)
      BY <2>1, <2>2, Zenon DEF OnWay
    <2>5. Held(s) = Lost \cup EventsAt(u, FirstOdds(i))
      BY <1>1, <1>3, <1>5 DEF Held
    <2> QED BY <2>1, <2>3, <2>4, <2>5
  <1>11. ASSUME NEW x \in Range(Taken) PROVE x \in ReadFrom(recording') \cup Overtaken \cup Lost
    <2>1. CASE x \in InOrder /\ x \notin Lost
      <3>1. x \in EventsAt(u, FirstOdds(i)) /\ UploadOK(u)
        BY <1>10, <2>1 DEF WholeInv
      <3>2. x \in ReadFrom(Restrict(parts[u], FirstOdds(i)))
        BY <1>6, <2>1, <3>1, RecordingRead
      <3> QED BY <1>9, <3>2
    <2>2. x \in InOrder \/ x \in Overtaken
      BY OvertakenFact
    <2> QED BY <2>1, <2>2
  <1>12. WholeRecording'
    <2>1. source'.by = "stream" /\ source'.by # "completer" /\ Lost' = Lost
      BY <1>1, <1>9
    <2>2. PICK rec : rec = recording'
      OBVIOUS
    <2>3. Range(Taken) \subseteq ReadFrom(rec) \cup Overtaken \cup Lost
      BY <1>11, <2>2
    <2>4. Range(Taken)' = Range(Taken)
      BY <1>8, Zenon DEF Range
    <2>5. ReadFrom(recording)' = ReadFrom(rec)
      BY <2>2 DEF ReadFrom, Before
    <2> QED BY <1>8, <2>1, <2>3, <2>4, <2>5 DEF WholeRecording
  <1>13. LineOK(s)' /\ loop'[s] = "ended" /\ ~Running(s)'
    BY <1>1, EndLoopLine
  <1>14. conn'[s] = "up" => conn[s] = "up"
    BY <1>0, <1>1 DEF Return, CloseStream, ClientTypes
  <1>15. Serve(s)
    BY Zenon DEF Serve
  <1> QED BY <1>9, <1>12, <1>13, <1>14, <1>15, StreamStep

\* No stream makes a step, and nothing is sent.
LEMMA AllSame ==
  ASSUME Struct, Grows, WholeInv, UNCHANGED <<handler, loop, upload, completeType, sliceVars, wire>>, Taken' = Taken
  PROVE  \A s \in Streams : LineOK(s)'
  <1>1. ASSUME NEW s \in Streams PROVE LineOK(s)'
    <2>1. LineOK(s) /\ Untouched(s) /\ wire'[s] = wire[s]
      BY DEF WholeInv, Untouched, sliceVars
    <2> QED BY <2>1, LineSame
  <1> QED BY <1>1

\* checkUploads: the parts that are there are the recording.
LEMMA CheckWhole ==
  ASSUME Struct, RecordingInv, EndInv, Grows, WholeInv, NEW u \in Streams, CheckUpload(u)
  PROVE  WholeInv'
  <1>1. /\ UNCHANGED <<writerVars, clientVars, serverVars, sliceVars, Lost>> /\ ~tracker /\ uploads[u] = "active"
        /\ CompleteUpload("completer", u, DOMAIN parts[u])
    BY Zenon DEF CheckUpload, Abandoned, Lost
  <1>2. UNCHANGED <<buffer, trimmed, lastStatus, pc, wire, handler, loop, upload, completeType>>
    BY <1>1, Zenon DEF writerVars, clientVars, serverVars
  <1>3. Taken' = Taken /\ InOrder' = InOrder /\ Overtaken' = Overtaken
    BY <1>2, TakenSame
  <1>4. \A s \in Streams : LineOK(s)'
    BY <1>1, <1>2, <1>3, AllSame
  <1>5. pc' = "ended"
    BY <1>1, <1>2 DEF EndInv
  <1>6. WriterLine'
    BY <1>5 DEF WriterLine
  <1>7. PICK i \in Nat : DOMAIN parts[u] = FirstOdds(i)
    BY DEF WholeInv, UploadOK
  <1>8. /\ \A v \in Streams : UploadOK(v)'
        /\ ~NoneCompleted' /\ recording' = Restrict(parts[u], FirstOdds(i)) /\ source' = [by |-> "completer", upload |-> u]
    <2>1. CompleteUpload("completer", u, FirstOdds(i))
      BY <1>1, <1>7
    <2> QED BY <1>1, <1>3, <2>1, UploadsAfter
  <1>9. ASSUME u = lastStatus, NEW x \in Range(trimmed) PROVE x \in ReadFrom(recording') \cup Overtaken \cup Lost
    <2>1. x \in EventsOf(parts[u]) \cup Overtaken \cup Lost
      <3>1. lastStatus # 0 /\ uploads[lastStatus] = "active"
        BY <1>1, <1>9, EventTypes
      <3> QED BY <1>9, <3>1, Zenon DEF RecordingInv, ConfirmedStored
    <2>2. x \in Range(Taken)
      <3>1. trimmed \in Seq(Events) /\ buffer \in Seq(Events)
        BY TypeFacts DEF Struct, WriterTypes
      <3> QED BY <1>9, <3>1, RangeConcat DEF Taken
    <2>3. CASE x \notin Overtaken /\ x \notin Lost
      <3>1. x \in InOrder /\ x \in EventsAt(u, FirstOdds(i)) /\ UploadOK(u)
        BY <1>7, <2>1, <2>2, <2>3, OvertakenFact DEF EventsOf, EventsAt, WholeInv
      <3>2. x \in ReadFrom(Restrict(parts[u], FirstOdds(i)))
        BY <1>7, <2>3, <3>1, RecordingRead
      <3> QED BY <1>8, <3>2
    <2> QED BY <2>3
  <1>10. WholeRecording'
    <2>1. source'.by # "stream" /\ source'.upload = u /\ Lost' = Lost
      BY <1>1, <1>8
    <2>2. PICK rec : rec = recording'
      OBVIOUS
    <2>3. u = lastStatus => Range(trimmed) \subseteq ReadFrom(rec) \cup Overtaken \cup Lost
      BY <1>9, <2>2
    <2>4. Range(trimmed)' = Range(trimmed)
      BY <1>2, Zenon DEF Range
    <2>5. ReadFrom(recording)' = ReadFrom(rec)
      BY <2>2 DEF ReadFrom, Before
    <2> QED BY <1>2, <1>3, <2>1, <2>3, <2>4, <2>5 DEF WholeRecording
  <1> QED BY <1>4, <1>6, <1>8, <1>10, WholeNext

-----------------------------------------------------------------------------
(* The steps of the writer *)

\* updateStatus takes the events that a status covers off the buffer, no others.
LEMMA UpdateStatusTaken ==
  ASSUME Struct, UpdateStatus
  PROVE  Taken' = Taken
  <1>1. PICK n : /\ n = Covered(statusCh[stream]) /\ trimmed' = trimmed \o SubSeq(buffer, 1, n)
                 /\ buffer' = SubSeq(buffer, n + 1, Len(buffer))
    BY DEF UpdateStatus
  <1>2. buffer \in Seq(Events) /\ trimmed \in Seq(Events) /\ statusCh[stream] \in Int
    BY TypeFacts, NowFacts DEF Struct, WriterTypes
  <1>3. n \in 0..Len(buffer)
    BY <1>1, <1>2, CoveredFact
  <1>4. PICK p \in Seq(Events), q \in Seq(Events) :
          p = SubSeq(buffer, 1, n) /\ q = SubSeq(buffer, n + 1, Len(buffer)) /\ p \o q = buffer
    <2>1. /\ SubSeq(buffer, 1, n) \in Seq(Events) /\ SubSeq(buffer, n + 1, Len(buffer)) \in Seq(Events)
          /\ SubSeq(buffer, 1, n) \o SubSeq(buffer, n + 1, Len(buffer)) = buffer
      BY <1>2, <1>3, CutFact
    <2> QED BY <2>1, Zenon
  <1>5. (trimmed \o p) \o q = trimmed \o (p \o q)
    BY <1>2, ConcatAssociative
  <1> QED BY <1>1, <1>4, <1>5 DEF Taken

\* The steps on which nothing is taken, sent or stored.
LEMMA QuietWhole ==
  ASSUME Struct, EndInv, Grows, WholeInv,
         \/ UNCHANGED vars \/ ExpireTracker \/ UpdateStatus \/ StreamDone \/ ResumeFails \/ GiveUp \/ Resumed \/ ResumeTimeout
  PROVE  WholeInv'
  <1>0. stream \in Streams /\ StreamOK(stream) /\ WriterLine
    BY NowFacts DEF WholeInv
  <1>1. UNCHANGED <<serverVars, sliceVars, storageVars, wire, stream>>
    BY Zenon DEF vars, ExpireTracker, UpdateStatus, StreamDone, ResumeFails, GiveUp, Resumed, ResumeTimeout, writerVars, clientVars
  <1>2. UNCHANGED <<handler, loop, upload, completeType>>
    BY <1>1, Zenon DEF serverVars
  <1>3. Taken' = Taken
    <2>1. CASE UpdateStatus
      BY <2>1, UpdateStatusTaken
    <2>2. CASE ~UpdateStatus
      <3>1. UNCHANGED <<buffer, trimmed>>
        BY <2>2, Zenon DEF vars, ExpireTracker, StreamDone, ResumeFails, GiveUp, Resumed, ResumeTimeout, writerVars
      <3> QED BY <3>1, TakenSame
    <2> QED BY <2>1, <2>2
  <1>4. source.by = Nobody \/ (trimmed' = trimmed /\ lastStatus' = lastStatus)
    <2>1. CASE UpdateStatus
      BY <2>1 DEF UpdateStatus, EndInv, WholeInv
    <2>2. CASE ~UpdateStatus
      BY <2>2, Zenon DEF vars, ExpireTracker, StreamDone, ResumeFails, GiveUp, Resumed, ResumeTimeout, writerVars
    <2> QED BY <2>1, <2>2
  <1>5. (\A u \in Streams : UploadOK(u)') /\ (NoneCompleted' => source'.by = Nobody) /\ WholeRecording'
    BY <1>1, <1>3, <1>4, StorageSame
  <1>6. \A s \in Streams : LineOK(s)'
    BY <1>1, <1>2, <1>3, AllSame
  <1>7. InOrder' = InOrder
    BY <1>3, Zenon DEF InOrder, OrderOf, OvertakenOf
  <1>8. PICK s \in Streams : s = stream /\ s = stream'
    BY <1>0, <1>1
  <1>9. /\ Running(s)' => Running(s)
        /\ loop[s] = "none" \/ Running(s)' => Held(s) \subseteq Held(s)' /\ OnWay(s) \subseteq OnWay(s)'
    <2>1. Untouched(s)
      BY <1>1, <1>2 DEF Untouched, sliceVars
    <2> QED BY <2>1, UntouchedFacts
  <1>10. WriterLine'
    <2>1. CASE UpdateStatus \/ UNCHANGED vars
      <3>1. UNCHANGED <<pc, conn>> /\ (UpdateStatus => pc = "select") /\ (~UpdateStatus => trimmed' = trimmed)
        BY <2>1, Zenon DEF UpdateStatus, vars, writerVars, clientVars
      <3>2. ASSUME pc' = "select", conn'[s] = "up", loop'[s] = "none" \/ Running(s)' PROVE InOrder' \subseteq OnWay(s)' \cup Range(wire'[s])
        <4>1. InOrder \subseteq OnWay(s) \cup Range(wire[s])
          BY <1>0, <1>2, <1>8, <1>9, <3>1, <3>2 DEF WriterLine
        <4> QED BY <1>1, <1>2, <1>7, <1>9, <3>2, <4>1
      <3>3. pc' = "replay" => loop'[s] # "none"
        BY <1>0, <1>2, <1>8, <3>1 DEF WriterLine
      <3>4. ASSUME pc' \in {"await", "replay"}, Running(s)' PROVE Range(trimmed)' \cap InOrder' \subseteq Held(s)'
        <4>1. Range(trimmed) \cap InOrder \subseteq Held(s) /\ trimmed' = trimmed
          BY <1>0, <1>8, <1>9, <3>1, <3>4 DEF WriterLine
        <4> QED BY <1>7, <1>9, <3>4, <4>1
      <3> QED BY <1>8, <3>2, <3>3, <3>4, Zenon DEF WriterLine
    <2>2. CASE Resumed
      <3>1. pc = "await" /\ pc' = "replay" /\ trimmed' = trimmed /\ statusCh[s] # None
        BY <1>8, <2>2 DEF Resumed
      <3>2. loop'[s] # "none"
        BY <1>0, <1>2, <1>8, <3>1 DEF StreamOK, Idle
      <3>3. ASSUME Running(s)' PROVE Range(trimmed)' \cap InOrder' \subseteq Held(s)'
        <4>1. Range(trimmed) \cap InOrder \subseteq Held(s)
          BY <1>0, <1>8, <1>9, <3>1, <3>3 DEF WriterLine
        <4> QED BY <1>7, <1>9, <3>1, <3>3, <4>1
      <3> QED BY <1>8, <3>1, <3>2, <3>3, Zenon DEF WriterLine
    <2>3. CASE StreamDone \/ ResumeFails \/ GiveUp \/ ResumeTimeout \/ ExpireTracker
      <3>1. pc' \in {"resume", "ended"}
        BY <2>3 DEF StreamDone, RecoverStream, ResumeFails, GiveUp, ResumeTimeout, ExpireTracker, writerVars
      <3> QED BY <3>1 DEF WriterLine
    <2> QED BY <2>1, <2>2, <2>3
  <1> QED BY <1>5, <1>6, <1>10, WholeNext

\* A new stream has nothing.
LEMMA ResumeWhole ==
  ASSUME Struct, Grows, WholeInv, NEW s \in Streams, Resume(s)
  PROVE  WholeInv'
  <1>0. ServerTypes /\ StreamOK(s) /\ LineOK(s) /\ upload \in [Streams -> Streams \cup {0}]
    BY TypeFacts DEF Struct, StreamsInv, WholeInv
  <1>1. /\ UNCHANGED <<buffer, trimmed, lastStatus, wire, loop, completeType, sliceVars, storageVars>>
        /\ conn[s] = "none" /\ upload' = [upload EXCEPT ![s] = lastStatus] /\ handler' = [handler EXCEPT ![s] = "opening"]
        /\ stream' = s /\ pc' = "await"
    BY Zenon DEF Resume
  <1>2. Taken' = Taken
    BY <1>1, TakenSame
  <1>3. (\A u \in Streams : UploadOK(u)') /\ (NoneCompleted' => source'.by = Nobody) /\ WholeRecording'
    BY <1>1, <1>2, StorageSame
  <1>4. loop[s] = "none" /\ loop'[s] = "none" /\ handler'[s] = "opening"
    BY <1>0, <1>1 DEF StreamOK, Fresh, ServerTypes
  <1>5. ~Running(s)'
    BY <1>4 DEF Running
  <1>6. LineOK(s)'
    <2>1. UNCHANGED <<activeUploads, current, Lost>>
      BY <1>1, Zenon DEF sliceVars, storageVars, Lost
    <2>2. Held(s) = Lost /\ Held(s)' = Lost'
      BY <1>4 DEF Held
    <2>3. Ups(s)' = Ups(s)
      BY <2>1, Zenon DEF Ups, Uploading
    <2>4. PathOK(s)
      BY <1>0, <1>4 DEF LineOK
    <2>5. PathOK(s)'
      BY <1>1, <1>2, <2>1, <2>2, <2>3, <2>4 DEF PathOK
    <2> QED BY <1>5, <2>5 DEF LineOK
  <1>7. ASSUME NEW r \in Streams, r # s PROVE LineOK(r)'
    <2>1. LineOK(r) /\ Untouched(r) /\ wire'[r] = wire[r] /\ handler'[r] = handler[r] /\ completeType'[r] = completeType[r]
      BY <1>0, <1>1, <1>7 DEF WholeInv, Untouched, sliceVars, ServerTypes
    <2> QED BY <1>2, <2>1, LineSame
  <1>8. WriterLine'
    BY <1>1, <1>5, Zenon DEF WriterLine
  <1> QED BY <1>3, <1>6, <1>7, <1>8, WholeNext

\* The writer sends something on its stream, or it is lost.
LEMMA SendLine ==
  ASSUME Struct, Grows, WholeInv, UNCHANGED <<serverVars, sliceVars>>, NEW s \in Streams, NEW p \in Seq(Messages),
         wire' = wire \/ wire' = [wire EXCEPT ![s] = wire[s] \o p],
         \A r \in Streams : loop[r] = "none" \/ Running(r) => Path(Taken', Held(r), Ups(r), current[r], wire[r]),
         \A r \in Streams : Running(r) /\ handler[r] = "closing" /\ completeType[r] = "complete" => InOrder' \subseteq OnWay(r),
         wire' # wire /\ (loop[s] = "none" \/ Running(s)) => Ordered(Taken', OnWay(s) \cup Range(wire[s]), p)
  PROVE  \A r \in Streams : LineOK(r)'
  <1>0. ClientTypes
    BY TypeFacts DEF Struct
  <1>1. UNCHANGED <<handler, loop, upload, completeType>>
    BY Zenon DEF serverVars
  <1>2. ASSUME NEW r \in Streams PROVE LineOK(r)'
    <2>1. LineOK(r) /\ Untouched(r)
      BY <1>1 DEF WholeInv, Untouched, sliceVars
    <2>2. ASSUME loop[r] = "none" \/ Running(r) PROVE Path(Taken', Held(r), Ups(r), current[r], wire'[r])
      <3>1. CASE wire'[r] = wire[r]
        BY <2>2, <3>1
      <3>2. CASE wire'[r] # wire[r]
        <4>1. r = s /\ wire' # wire /\ wire'[r] = wire[r] \o p /\ wire[r] \in Seq(Messages)
          BY <1>0, <3>2 DEF ClientTypes
        <4>2. PICK t, held, ups, slice, sent : /\ t = Taken' /\ held = Held(r) /\ ups = Ups(r) /\ slice = current[r] /\ sent = wire[r]
                                               /\ sent \in Seq(Messages)
          BY <4>1
        <4>3. Path(t, held, ups, slice, sent)
          BY <2>2, <4>2
        <4>4. Ordered(t, OnWay(r) \cup Range(sent), p)
          BY <2>2, <4>1, <4>2
        <4>5. OnWay(r) = held \cup Members(ups) \cup SliceEvents(slice)
          BY <4>2, Zenon DEF OnWay
        <4>6. Path(t, held, ups, slice, sent \o p)
          BY <4>2, <4>3, <4>4, <4>5, PathSend
        <4> QED BY <4>1, <4>2, <4>6
      <3> QED BY <3>1, <3>2
    <2>3. Running(r) /\ handler'[r] = "closing" /\ completeType'[r] = "complete" => InOrder' \subseteq OnWay(r)
      BY <1>1
    <2> QED BY <2>1, <2>2, <2>3, LineUntouched
  <1> QED BY <1>2

\* The writer sends again or for the last time.
LEMMA SendWhole ==
  ASSUME Struct, Grows, WholeInv, UNCHANGED <<serverVars, sliceVars, storageVars, buffer, trimmed, lastStatus>>,
         NEW s \in Streams, NEW p \in Seq(Messages),
         wire' = wire \/ wire' = [wire EXCEPT ![s] = wire[s] \o p],
         wire' # wire /\ (loop[s] = "none" \/ Running(s)) => Ordered(Taken, OnWay(s) \cup Range(wire[s]), p),
         WriterLine'
  PROVE  WholeInv'
  <1>1. Taken' = Taken /\ InOrder' = InOrder
    BY TakenSame
  <1>2. (\A u \in Streams : UploadOK(u)') /\ (NoneCompleted' => source'.by = Nobody) /\ WholeRecording'
    BY <1>1, StorageSame
  <1>3. ASSUME NEW r \in Streams
        PROVE  /\ loop[r] = "none" \/ Running(r) => Path(Taken', Held(r), Ups(r), current[r], wire[r])
               /\ Running(r) /\ handler[r] = "closing" /\ completeType[r] = "complete" => InOrder' \subseteq OnWay(r)
    BY <1>1, Zenon DEF WholeInv, LineOK, PathOK
  <1>4. wire' # wire /\ (loop[s] = "none" \/ Running(s)) => Ordered(Taken', OnWay(s) \cup Range(wire[s]), p)
    BY <1>1
  <1>5. \A r \in Streams : LineOK(r)'
    BY <1>3, <1>4, SendLine
  <1> QED BY <1>2, <1>5, WholeNext

\* completeStream of the writer: everything comes before CompleteStream.
LEMMA EndStreamWhole ==
  ASSUME Struct, Grows, WholeInv, EndStream
  PROVE  WholeInv'
  <1>0. ClientTypes /\ WriterLine
    BY TypeFacts DEF Struct, WholeInv
  <1>1. PICK s \in Streams : s = stream
    BY NowFacts
  <1>2. PICK p \in Seq(Messages) : p = <<CompleteStream>>
    <2>1. CompleteStream \in Messages
      BY DEF Messages
    <2>2. <<CompleteStream>> \in Seq(Messages)
      BY <2>1
    <2> QED BY <2>2
  <1>3. /\ UNCHANGED <<serverVars, sliceVars, storageVars, buffer, trimmed, lastStatus>> /\ pc = "select" /\ pc' = "ended"
        /\ wire' = [wire EXCEPT ![s] = IF conn[s] = "up" THEN wire[s] \o p ELSE wire[s]]
    BY <1>0, <1>1, <1>2, Zenon DEF EndStream, Send, ClientTypes
  <1>4. wire' = wire \/ (conn[s] = "up" /\ wire' = [wire EXCEPT ![s] = wire[s] \o p])
    BY <1>0, <1>3 DEF ClientTypes
  <1>5. ASSUME conn[s] = "up", loop[s] = "none" \/ Running(s) PROVE Ordered(Taken, OnWay(s) \cup Range(wire[s]), p)
    <2>1. InOrder \subseteq OnWay(s) \cup Range(wire[s])
      BY <1>0, <1>1, <1>3, <1>5 DEF WriterLine
    <2>2. PICK t, base : t = Taken /\ base = OnWay(s) \cup Range(wire[s])
      OBVIOUS
    <2>3. \A x \in OrderOf(t) : x \in base
      BY <2>1, <2>2 DEF InOrder
    <2>4. Ordered(t, base, <<CompleteStream>>)
      BY <2>3, OrderedOne
    <2> QED BY <1>2, <2>2, <2>4
  <1>6. WriterLine'
    BY <1>3 DEF WriterLine
  <1> QED BY <1>3, <1>4, <1>5, <1>6, SendWhole

\* The buffer is sent again: what is not in it the new stream has found.
LEMMA ReplayFact ==
  ASSUME Struct, WholeInv, pc = "replay", NEW s \in Streams, s = stream, loop[s] = "none" \/ Running(s)
  PROVE  /\ Ordered(Taken, OnWay(s) \cup Range(wire[s]), buffer)
         /\ Running(s) /\ InOrder \subseteq (OnWay(s) \cup Range(wire[s])) \cup Range(buffer)
  <1>0. WriterLine
    BY DEF WholeInv
  <1>1. Running(s) /\ Range(trimmed) \cap InOrder \subseteq Held(s)
    BY <1>0 DEF WriterLine
  <1>2. PICK a \in Seq(Events), b \in Seq(Events) : a = trimmed /\ b = buffer
    BY TypeFacts DEF Struct, WriterTypes
  <1>3. Taken = a \o b /\ InOrder = OrderOf(a \o b)
    BY <1>2 DEF Taken, InOrder
  <1>4. PICK base : base = OnWay(s) \cup Range(wire[s])
    OBVIOUS
  <1>5. Range(a) \cap OrderOf(a \o b) \subseteq base
    BY <1>1, <1>2, <1>3, <1>4 DEF OnWay
  <1>6. Ordered(a \o b, base, b) /\ OrderOf(a \o b) \subseteq base \cup Range(b)
    BY <1>5, OrderedReplay
  <1> QED BY <1>1, <1>2, <1>3, <1>4, <1>6

LEMMA ReplayWhole ==
  ASSUME Struct, Grows, WholeInv, Replay
  PROVE  WholeInv'
  <1>0. ClientTypes /\ WriterLine
    BY TypeFacts DEF Struct, WholeInv
  <1>1. PICK s \in Streams : s = stream
    BY NowFacts
  <1>2. PICK p \in Seq(Messages) : p = buffer
    <2>1. buffer \in Seq(Events)
      BY TypeFacts DEF Struct, WriterTypes
    <2> QED BY <2>1, SeqMonotonic DEF Messages
  <1>3. /\ UNCHANGED <<serverVars, sliceVars, storageVars, buffer, trimmed, lastStatus, stream, conn>> /\ pc = "replay" /\ pc' = "select"
        /\ wire' = [wire EXCEPT ![s] = IF conn[s] = "up" THEN wire[s] \o p ELSE wire[s]]
    BY <1>0, <1>1, <1>2, Zenon DEF Replay, Send, ClientTypes
  <1>4. wire' = wire \/ wire' = [wire EXCEPT ![s] = wire[s] \o p]
    BY <1>0, <1>3 DEF ClientTypes
  <1>5. loop[s] = "none" \/ Running(s) => Ordered(Taken, OnWay(s) \cup Range(wire[s]), p)
    BY <1>1, <1>2, <1>3, ReplayFact
  <1>6. WriterLine'
    <2>1. Untouched(s) /\ loop'[s] = loop[s]
      BY <1>3 DEF Untouched, serverVars, sliceVars
    <2>2. /\ Running(s)' => Running(s)
          /\ loop[s] = "none" \/ Running(s)' => OnWay(s) \subseteq OnWay(s)'
      BY <2>1, UntouchedFacts
    <2>3. ASSUME conn'[s] = "up", loop'[s] = "none" \/ Running(s)' PROVE InOrder' \subseteq OnWay(s)' \cup Range(wire'[s])
      <3>1. loop[s] = "none" \/ Running(s)
        BY <2>1, <2>2, <2>3
      <3>2. InOrder \subseteq (OnWay(s) \cup Range(wire[s])) \cup Range(p)
        BY <1>1, <1>2, <1>3, <3>1, ReplayFact
      <3>3. wire'[s] = wire[s] \o p /\ wire[s] \in Seq(Messages)
        BY <1>0, <1>3, <2>3 DEF ClientTypes
      <3>4. Range(wire[s] \o p) = Range(wire[s]) \cup Range(p)
        BY <3>3, RangeConcat
      <3>5. InOrder' = InOrder
        BY <1>3, TakenSame
      <3>6. OnWay(s) \subseteq OnWay(s)'
        BY <2>1, <2>2, <2>3
      <3> QED BY <3>2, <3>3, <3>4, <3>5, <3>6
    <2>4. stream' = s /\ pc' # "replay" /\ pc' # "await"
      BY <1>1, <1>3
    <2> QED BY <2>3, <2>4, Zenon DEF WriterLine
  <1> QED BY <1>3, <1>4, <1>5, <1>6, SendWhole

LEMMA ReplayFailsWhole ==
  ASSUME Struct, Grows, WholeInv, ReplayFails
  PROVE  WholeInv'
  <1>0. ClientTypes /\ buffer \in Seq(Events)
    BY TypeFacts DEF Struct, WriterTypes
  <1>1. PICK s \in Streams : s = stream
    BY NowFacts
  <1>2. PICK n \in 0..Len(buffer) : wire' = [wire EXCEPT ![s] = @ \o SubSeq(buffer, 1, n)]
    BY <1>0, <1>1, ReplayFailsPart, Zenon
  <1>3. /\ UNCHANGED <<serverVars, sliceVars, storageVars, buffer, trimmed, lastStatus>> /\ pc = "replay" /\ pc' = "ended"
    BY Zenon DEF ReplayFails
  <1>4. PICK p \in Seq(Messages) : p = SubSeq(buffer, 1, n)
    <2>1. SubSeq(buffer, 1, n) \in Seq(Events)
      BY <1>0, CutFact
    <2> QED BY <2>1, SeqMonotonic DEF Messages
  <1>5. ASSUME loop[s] = "none" \/ Running(s) PROVE Ordered(Taken, OnWay(s) \cup Range(wire[s]), p)
    <2>1. PICK t, base : t = Taken /\ base = OnWay(s) \cup Range(wire[s])
      OBVIOUS
    <2>2. Ordered(t, base, buffer)
      BY <1>1, <1>3, <1>5, <2>1, ReplayFact
    <2>3. Ordered(t, base, SubSeq(buffer, 1, n))
      BY <1>0, <2>2, OrderedPart
    <2> QED BY <1>4, <2>1, <2>3
  <1>6. WriterLine'
    BY <1>3 DEF WriterLine
  <1> QED BY <1>2, <1>3, <1>4, <1>5, <1>6, SendWhole

\* An event is taken, and sent after all that were taken before it.
LEMMA TakeEventWhole ==
  ASSUME Struct, EndInv, Grows, WholeInv, NEW i \in Events, TakeEvent(i)
  PROVE  WholeInv'
  <1>0. ClientTypes /\ SliceTypes /\ ActiveTypes /\ WriterLine /\ DOMAIN parts = Streams /\ buffer \in Seq(Events) /\ trimmed \in Seq(Events)
    BY TypeFacts DEF Struct, WholeInv, WriterTypes
  <1>1. PICK s \in Streams : s = stream
    BY NowFacts
  <1>2. PICK p \in Seq(Messages) : p = <<i>>
    <2>1. i \in Messages
      BY DEF Messages
    <2>2. <<i>> \in Seq(Messages)
      BY <2>1
    <2> QED BY <2>2
  <1>3. /\ UNCHANGED <<serverVars, sliceVars, parts, uploads, recording, source, trimmed, lastStatus, stream>> /\ pc = "select" /\ i \notin Range(Taken)
        /\ buffer' = Append(buffer, i)
        /\ \/ /\ wire' = [wire EXCEPT ![s] = IF conn[s] = "up" THEN wire[s] \o p ELSE wire[s]]
              /\ UNCHANGED <<conn, pc>>
           \/ wire' = wire /\ pc' = "resume"
           \/ UNCHANGED <<wire, conn, pc>> /\ i \in Lost'
    BY <1>0, <1>1, <1>2, Zenon DEF TakeEvent, Ready, Send, RecoverStream, ClientTypes, clientVars, Omit, Lost
  <1>4. PICK t \in Seq(Events) : t = Taken
    BY NowFacts
  <1>5. Taken' = Append(t, i)
    <2>1. /\ Append(buffer, i) = buffer \o <<i>> /\ Append(trimmed \o buffer, i) = (trimmed \o buffer) \o <<i>> /\ <<i>> \in Seq(Events)
      <3>1. trimmed \o buffer \in Seq(Events)
        BY <1>0, ConcatProperties
      <3> QED BY <1>0, <3>1, AppendIsConcat
    <2>2. trimmed \o (buffer \o <<i>>) = (trimmed \o buffer) \o <<i>>
      BY <1>0, <2>1, ConcatAssociative
    <2> QED BY <1>3, <1>4, <2>1, <2>2 DEF Taken
  <1>6. InOrder' = OrderOf(Append(t, i)) /\ InOrder = OrderOf(t) /\ OrderOf(Append(t, i)) \subseteq OrderOf(t) \cup {i}
    <2>1. InOrder' = OrderOf(Append(t, i)) /\ InOrder = OrderOf(t)
      BY <1>4, <1>5 DEF InOrder
    <2>2. OrderOf(Append(t, i)) \subseteq OrderOf(t) \cup {i}
      BY <1>3, <1>4, OrderAppend
    <2> QED BY <2>1, <2>2
  <1>7. ASSUME NEW r \in Streams
        PROVE  /\ loop[r] = "none" \/ Running(r) => Path(Taken', Held(r), Ups(r), current[r], wire[r])
               /\ ~(handler[r] = "closing" /\ completeType[r] = "complete")
    <2>1. CompleteStream \notin Range(wire[r]) /\ ~(handler[r] = "closing" /\ completeType[r] = "complete")
      BY <1>3 DEF EndInv, EndOK, Finishing
    <2>2. ASSUME loop[r] = "none" \/ Running(r) PROVE Path(Taken', Held(r), Ups(r), current[r], wire[r])
      <3>1. Ups(r) \subseteq Seq(Events)
        BY <1>0 DEF Ups, Uploading, ActiveTypes, Slices
      <3>2. current[r] \in Seq(Events) \cup {NoSlice} /\ wire[r] \in Seq(Messages)
        BY <1>0 DEF SliceTypes, ClientTypes
      <3>3. Path(t, Held(r), Ups(r), current[r], wire[r])
        BY <1>4, <2>2 DEF WholeInv, LineOK, PathOK
      <3>4. Path(Append(t, i), Held(r), Ups(r), current[r], wire[r])
        BY <1>3, <1>4, <2>1, <3>1, <3>2, <3>3, PathTake
      <3> QED BY <1>5, <3>4
    <2> QED BY <2>1, <2>2
  <1>8. wire' = wire \/ (conn[s] = "up" /\ wire' = [wire EXCEPT ![s] = wire[s] \o p])
    BY <1>0, <1>3 DEF ClientTypes
  <1>9. conn[s] = "up" /\ (loop[s] = "none" \/ Running(s)) => InOrder \subseteq OnWay(s) \cup Range(wire[s])
    BY <1>0, <1>1, <1>3 DEF WriterLine
  <1>10. ASSUME conn[s] = "up", loop[s] = "none" \/ Running(s) PROVE Ordered(Taken', OnWay(s) \cup Range(wire[s]), p)
    <2>1. PICK more, base : more = Append(t, i) /\ base = OnWay(s) \cup Range(wire[s])
      OBVIOUS
    <2>2. \A x \in OrderOf(more) : x <= i => x \in base \cup {i}
      BY <1>6, <1>9, <1>10, <2>1
    <2>3. i \in Range(more) \cup {CompleteStream}
      BY <2>1, RangeAppend
    <2>4. Ordered(more, base, <<i>>)
      BY <2>2, <2>3, OrderedOne
    <2> QED BY <1>2, <1>5, <2>1, <2>4
  <1>11. \A r \in Streams : LineOK(r)'
    BY <1>3, <1>7, <1>8, <1>10, SendLine
  <1>12. UNCHANGED <<parts, uploads, recording, source>> /\ Lost \subseteq Lost'
    BY <1>3, Zenon DEF Grows
  <1>13. ASSUME NEW u \in Streams PROVE UploadOK(u)'
    <2>1. PICK ps, lost, lost2, more : ps = parts[u] /\ ps = parts'[u] /\ lost = Lost /\ lost2 = Lost' /\ lost \subseteq lost2 /\ more = Taken'
      BY <1>12
    <2>2. ASSUME NEW n \in DOMAIN ps
          PROVE  Ordered(more, lost2 \cup UNION {Range(ps[m]) : m \in {j \in DOMAIN ps : j < n}}, ps[n])
      <3>1. PICK base : base = lost \cup UNION {Range(ps[m]) : m \in {j \in DOMAIN ps : j < n}}
        OBVIOUS
      <3>2. Ordered(t, base, ps[n])
        BY <1>4, <2>1, <3>1, Zenon DEF WholeInv, UploadOK, EventsAt
      <3>3. ps[n] \in Seq(Events)
        BY <2>1, TypeFacts DEF Struct, IsParts
      <3>4. \A k \in DOMAIN ps[n] : ps[n][k] # CompleteStream
        BY <3>3, EventTypes
      <3>5. Ordered(Append(t, i), base, ps[n])
        BY <1>3, <1>4, <3>2, <3>4, OrderedTake
      <3>6. base \subseteq lost2 \cup UNION {Range(ps[m]) : m \in {j \in DOMAIN ps : j < n}}
        BY <2>1, <3>1
      <3>7. Ordered(Append(t, i), lost2 \cup UNION {Range(ps[m]) : m \in {j \in DOMAIN ps : j < n}}, ps[n])
        BY <3>5, <3>6, OrderedMore
      <3> QED BY <1>5, <2>1, <3>7
    <2>3. \E k \in Nat : DOMAIN ps = FirstOdds(k)
      BY <2>1 DEF WholeInv, UploadOK
    <2> QED BY <2>1, <2>2, <2>3, Zenon DEF UploadOK, EventsAt, FirstOdds
  <1>14. source.by = Nobody
    BY <1>3 DEF EndInv, WholeInv
  <1>15. WholeRecording'
    <2>1. Lost \subseteq Lost'
      BY <1>12
    <2> QED BY <1>12, <1>14, <2>1, WholeKept
  <1>16. NoneCompleted' => source'.by = Nobody
    BY <1>12, <1>14
  <1>17. WriterLine'
    <2>1. CASE pc' = "resume"
      BY <2>1 DEF WriterLine
    <2>2. CASE pc' # "resume"
      <3>1. /\ conn' = conn /\ pc' = "select"
            /\ \/ wire' = [wire EXCEPT ![s] = IF conn[s] = "up" THEN wire[s] \o p ELSE wire[s]]
               \/ wire' = wire /\ i \in Lost'
        BY <1>3, <2>2
      <3>2. Untouched(s) /\ loop'[s] = loop[s]
        BY <1>3 DEF Untouched, serverVars, sliceVars
      <3>3. /\ Running(s)' => Running(s)
            /\ loop[s] = "none" \/ Running(s)' => OnWay(s) \subseteq OnWay(s)'
        BY <3>2, UntouchedFacts
      <3>4. ASSUME conn'[s] = "up", loop'[s] = "none" \/ Running(s)' PROVE InOrder' \subseteq OnWay(s)' \cup Range(wire'[s])
        <4>3. Range(wire[s]) \subseteq Range(wire'[s]) /\ i \in OnWay(s)' \cup Range(wire'[s])
          <5>1. CASE wire' = [wire EXCEPT ![s] = IF conn[s] = "up" THEN wire[s] \o p ELSE wire[s]]
            <6>1. wire'[s] = wire[s] \o p /\ wire[s] \in Seq(Messages)
              BY <1>0, <3>1, <3>4, <5>1 DEF ClientTypes
            <6>2. Range(wire[s] \o p) = Range(wire[s]) \cup Range(p)
              BY <6>1, RangeConcat
            <6>3. i \in Range(p)
              BY <1>2 DEF Range
            <6> QED BY <6>1, <6>2, <6>3
          <5>2. CASE wire' = wire /\ i \in Lost'
            <6>1. i \in OnWay(s)'
              BY <5>2, Zenon DEF OnWay, Held
            <6> QED BY <5>2, <6>1
          <5> QED BY <3>1, <5>1, <5>2
        <4>4. InOrder \subseteq OnWay(s) \cup Range(wire[s]) /\ OnWay(s) \subseteq OnWay(s)'
          BY <1>9, <3>1, <3>2, <3>3, <3>4
        <4> QED BY <1>6, <4>3, <4>4
      <3>5. stream' = s
        BY <1>1, <1>3
      <3> QED BY <3>1, <3>4, <3>5, Zenon DEF WriterLine
    <2> QED BY <2>1, <2>2
  <1> QED BY <1>11, <1>13, <1>15, <1>16, <1>17, WholeNext

-----------------------------------------------------------------------------
LEMMA InitWhole ==
  ASSUME Init
  PROVE  WholeInv
  <1>1. /\ pc = "select" /\ stream = 1 /\ source.by = Nobody /\ 1 \in Streams /\ buffer = <<>> /\ trimmed = <<>>
        /\ \A s \in Streams : /\ loop[s] = "none" /\ wire[s] = <<>> /\ current[s] = NoSlice /\ activeUploads[s] = NoParts
                              /\ parts[s] = NoParts
    BY EventTypes DEF Init
  <1>2. DOMAIN NoParts = {}
    BY EventTypes
  <1>3. ASSUME NEW s \in Streams PROVE LineOK(s)
    <2>1. Ups(s) = {} /\ ~Running(s)
      BY <1>1, <1>2 DEF Ups, Uploading, Running
    <2>2. PICK t, held : t = Taken /\ held = Held(s)
      OBVIOUS
    <2>3. Path(t, held, {}, NoSlice, <<>>)
      BY OrderedNothing DEF Path
    <2>4. PathOK(s)
      BY <1>1, <2>1, <2>2, <2>3 DEF PathOK
    <2> QED BY <2>1, <2>4 DEF LineOK
  <1>4. ASSUME NEW u \in Streams PROVE UploadOK(u)
    <2>1. DOMAIN parts[u] = {} /\ FirstOdds(0) = {} /\ 0 \in Nat
      BY <1>1, <1>2, OddsFact
    <2>2. \E k \in Nat : DOMAIN parts[u] = FirstOdds(k)
      BY <2>1
    <2> QED BY <2>1, <2>2 DEF UploadOK
  <1>5. InOrder = {}
    <2>1. Taken = <<>>
      BY <1>1 DEF Taken
    <2> QED BY <2>1 DEF InOrder, OrderOf, Range
  <1>6. WriterLine
    BY <1>1, <1>5 DEF WriterLine
  <1>7. WholeRecording
    BY <1>1, RecordingAssumption DEF WholeRecording
  <1> QED BY <1>1, <1>3, <1>4, <1>6, <1>7 DEF WholeInv

LEMMA NextWhole ==
  ASSUME Struct, RecordingInv, EndInv, WholeInv, [Next]_vars
  PROVE  WholeInv'
  <1>0. Grows
    BY StorageGrows
  <1>1. CASE UNCHANGED vars \/ ProcessEvents \/ EndStream \/ ExpireTracker
    BY <1>0, <1>1, QuietWhole, TakeEventWhole, ReplayWhole, ReplayFailsWhole, EndStreamWhole, ResumeWhole DEF ProcessEvents
  <1>2. ASSUME NEW s \in Streams, Serve(s) \/ FlushSlice(s) \/ Break(s) \/ Crash(s) PROVE WholeInv'
    <2>1. CASE Open(s)
      BY <1>0, <2>1, OpenWhole
    <2>2. CASE OpenFails(s) \/ ReceiveEvent(s) \/ ReceiveComplete(s) \/ Abandon(s) \/ Break(s)
      BY <1>0, <2>2, HandlerWhole, ReceiveEventWhole
    <2>3. CASE UploadLastSlice(s) \/ FlushSlice(s)
      BY <1>0, <2>3, StartWhole
    <2>4. CASE FinishStream(s) \/ Crash(s)
      BY <1>0, <2>4, FinishWhole, LoopEndsWhole
    <2>5. ASSUME NEW n \in DOMAIN activeUploads[s], UploadSlice(s, n) \/ CompletedUpload(s, n) \/ FailedUpload(s, n) PROVE WholeInv'
      BY <1>0, <2>5, UploadSliceWhole, CompletedUploadWhole, LoopEndsWhole
    <2> QED BY <1>2, <2>1, <2>2, <2>3, <2>4, <2>5 DEF Serve
  <1>3. ASSUME NEW u \in Uploads, CheckUpload(u) PROVE WholeInv'
    BY <1>0, <1>3, CheckWhole, EventTypes
  <1> QED BY <1>1, <1>2, <1>3, Zenon DEF Next, System

\* The recording that a stream completes has, for ProtoReader, every event that the
\* writer took, but for those that were overtaken, overwritten or omitted for a permanent
\* error, whatever streams broke, crashed or were resumed before it, and the one that the upload completer makes of the writer's
\* upload has every such event that was confirmed.  For any number of emitters, events,
\* streams and attempts.
THEOREM RecordingWhole == Spec => []WholeRecording
  <1>1. Init => Struct /\ RecordingInv /\ Distinct /\ EndInv /\ WholeInv
    BY InitStruct, InitRecording, InitEnd, InitWhole
  <1>2. Struct /\ RecordingInv /\ Distinct /\ EndInv /\ WholeInv /\ [Next]_vars => (Struct /\ RecordingInv /\ Distinct /\ EndInv /\ WholeInv)'
    BY NextStruct, NextRecording, NextDistinct, NextEnd, NextWhole
  <1>3. WholeInv => WholeRecording
    BY DEF WholeInv
  <1> QED BY <1>1, <1>2, <1>3, PTL DEF Spec

-----------------------------------------------------------------------------
(* After the session nobody waits for ever *)

\* The guards of the steps that are left to the auth servers when the writer has ended:
\* the handler opens the upload, or fails to; it reads a message, or finds the stream
\* cancelled; the loop uploads a slice, takes the last one or ends; the tracker expires;
\* the completer finds the upload.
CanServe(s) ==
    \/ handler[s] = "opening"
    \/ handler[s] = "serving" /\ (wire[s] # <<>> \/ conn[s] = "down")
    \/ Uploading(s) # {}
    \/ loop[s] = "select" /\ handler[s] = "closing" /\ Uploading(s) = {}
    \/ loop[s] = "drain" /\ Awaited(s) = {}
CanEnd ==
    \/ \E s \in Streams : CanServe(s)
    \/ tracker /\ pc = "ended" /\ \A s \in Streams : handler[s] \in {"none", "done"}
    \/ \E u \in Uploads : Abandoned(u)

\* What UploadsCompleted says, with the guards of the steps in place of ENABLED.
UploadsCanComplete == pc = "ended" /\ (tracker \/ \E u \in Uploads : uploads[u] = "active") => CanEnd

\* A handler that waits for its loop has one that runs, and one that waits for a message
\* of a writer that has ended has CompleteStream to read.
WaitOK(s) ==
    /\ handler[s] = "closing" => loop[s] # "ended"
    /\ pc = "ended" /\ handler[s] \in {"opening", "serving"} /\ conn[s] = "up" => CompleteStream \in Range(wire[s])

WaitInv == \A s \in Streams : WaitOK(s)

LEMMA WriterWaits ==
  ASSUME Struct, WaitInv, ProcessEvents \/ EndStream
  PROVE  WaitInv'
  <1>0. /\ ClientTypes /\ ServerTypes /\ WriterTypes /\ WriterOK /\ \A s \in Streams : StreamOK(s) /\ WaitOK(s)
    BY TypeFacts DEF Struct, StreamsInv, WaitInv
  <1>1. CASE pc' # "ended" /\ UNCHANGED <<handler, loop>>
    BY <1>0, <1>1 DEF WaitInv, WaitOK
  <1>2. CASE UpdateStatus \/ StreamDone \/ (\E i \in Events : TakeEvent(i)) \/ ResumeFails \/ Resumed \/ ResumeTimeout \/ Replay
    <2>1. pc' # "ended"
      BY <1>2, Zenon DEF UpdateStatus, StreamDone, TakeEvent, RecoverStream, ResumeFails, Resumed, ResumeTimeout, Replay
    <2>2. UNCHANGED <<handler, loop>>
      BY <1>2, Zenon DEF UpdateStatus, StreamDone, TakeEvent, RecoverStream, ResumeFails, Resumed, ResumeTimeout, Replay, serverVars
    <2> QED BY <1>1, <2>1, <2>2
  <1>3. ASSUME NEW s \in Streams, Resume(s) PROVE WaitInv'
    <2>1. pc' = "await" /\ loop' = loop /\ handler' = [handler EXCEPT ![s] = "opening"]
      BY <1>3, Zenon DEF Resume
    <2>2. \A r \in Streams : handler'[r] = "closing" => handler[r] = "closing"
      BY <1>0, <2>1 DEF ServerTypes
    <2> QED BY <1>0, <2>1, <2>2 DEF WaitInv, WaitOK
  <1>4. CASE EndStream
    <2>1. UNCHANGED <<handler, loop, conn>> /\ Send(stream, <<CompleteStream>>)
      BY <1>4, Zenon DEF EndStream, serverVars
    <2>2. ASSUME NEW s \in Streams, conn[s] = "up" PROVE CompleteStream \in Range(wire'[s])
      <3>1. s = stream
        BY <1>0, <2>2 DEF StreamOK
      <3>2. wire'[s] = wire[s] \o <<CompleteStream>> /\ wire[s] \in Seq(Messages)
        BY <1>0, <2>1, <2>2, <3>1 DEF Send, ClientTypes
      <3>3. <<CompleteStream>> \in Seq(Messages) /\ Range(<<CompleteStream>>) = {CompleteStream}
        BY DEF Messages, Range
      <3>4. Range(wire'[s]) = Range(wire[s]) \cup {CompleteStream}
        <4>1. Range(wire[s] \o <<CompleteStream>>) = Range(wire[s]) \cup Range(<<CompleteStream>>)
          BY <3>2, <3>3, RangeConcat, Zenon
        <4> QED BY <3>2, <3>3, <4>1, Zenon
      <3> QED BY <3>4
    <2> QED BY <1>0, <2>1, <2>2 DEF WaitInv, WaitOK
  <1>5. CASE GiveUp \/ ReplayFails
    <2>1. UNCHANGED <<handler, loop>> /\ ((conn' = conn /\ pc = "resume") \/ CloseStream(stream))
      BY <1>5, Zenon DEF GiveUp, ReplayFails, serverVars, clientVars
    <2>2. \A s \in Streams : conn'[s] # "up"
      BY <1>0, <2>1 DEF StreamOK, WriterOK, CloseStream, ClientTypes
    <2> QED BY <1>0, <2>1, <2>2 DEF WaitInv, WaitOK
  <1> QED BY <1>2, <1>3, <1>4, <1>5, Zenon DEF ProcessEvents

LEMMA ServerWaits ==
  ASSUME Struct, EndInv, WaitInv, NEW s \in Streams, Serve(s) \/ FlushSlice(s) \/ Break(s) \/ Crash(s)
  PROVE  WaitInv'
  <1>0. /\ ClientTypes /\ ServerTypes /\ StreamOK(s) /\ EndOK(s) /\ wire[s] \in Seq(Messages) /\ \A r \in Streams : WaitOK(r)
    BY TypeFacts DEF Struct, ClientTypes, StreamsInv, EndInv, WaitInv
  <1>1. pc' = pc
    BY Zenon DEF Serve, Open, OpenFails, ReceiveEvent, ReceiveComplete, Abandon, CompleteProtoStream, UploadLastSlice, FailedUpload, Crash,
           FinishStream, UploadSlice, CompletedUpload, FlushSlice, Break, writerVars
  <1>3. handler' = handler \/ \E v : handler' = [handler EXCEPT ![s] = v]
    BY Zenon DEF Serve, Open, OpenFails, ReceiveEvent, ReceiveComplete, Abandon, CompleteProtoStream, UploadLastSlice, FailedUpload, Crash,
           FinishStream, UploadSlice, CompletedUpload, FlushSlice, Break, Return, serverVars
  <1>4. loop' = loop \/ \E v : loop' = [loop EXCEPT ![s] = v]
    BY Zenon DEF Serve, Open, OpenFails, ReceiveEvent, ReceiveComplete, Abandon, CompleteProtoStream, UploadLastSlice, FailedUpload, Crash,
           FinishStream, UploadSlice, CompletedUpload, FlushSlice, Break, EndLoop, serverVars
  <1>5. conn' = conn \/ \E v : conn' = [conn EXCEPT ![s] = v]
    BY Zenon DEF Serve, Open, OpenFails, ReceiveEvent, ReceiveComplete, Abandon, CompleteProtoStream, UploadLastSlice, FailedUpload, Crash,
           FinishStream, UploadSlice, CompletedUpload, FlushSlice, Break, Return, CloseStream, clientVars
  <1>6. wire' = wire \/ \E v : wire' = [wire EXCEPT ![s] = v]
    BY Zenon DEF Serve, Open, OpenFails, ReceiveEvent, ReceiveComplete, Abandon, CompleteProtoStream, UploadLastSlice, FailedUpload, Crash,
           FinishStream, UploadSlice, CompletedUpload, FlushSlice, Break, Return, clientVars
  <1>7. \A r \in Streams \ {s} : handler'[r] = handler[r] /\ loop'[r] = loop[r] /\ conn'[r] = conn[r] /\ wire'[r] = wire[r]
    BY <1>0, <1>3, <1>4, <1>5, <1>6, Zenon DEF ClientTypes, ServerTypes
  <1>8. ASSUME NEW r \in Streams, r # s PROVE WaitOK(r)'
    BY <1>0, <1>1, <1>7, <1>8 DEF WaitOK
  <1>9. WaitOK(s)'
    <2>1. CASE Return(s)
      <3>1. handler'[s] = "done"
        BY <1>0, <2>1, Zenon DEF Return, ServerTypes
      <3> QED BY <3>1 DEF WaitOK
    <2>2. CASE UNCHANGED <<handler, loop, wire>> /\ (conn'[s] = "up" => conn[s] = "up")
      BY <1>0, <1>1, <2>2 DEF WaitOK
    <2>3. CASE FlushSlice(s) \/ \E n \in DOMAIN activeUploads[s] : UploadSlice(s, n) \/ CompletedUpload(s, n)
      <3>1. UNCHANGED <<handler, loop, wire, conn>>
        BY <2>3, Zenon DEF FlushSlice, UploadSlice, CompletedUpload, serverVars, clientVars
      <3> QED BY <2>2, <3>1
    <2>4. CASE Break(s)
      <3>1. UNCHANGED <<handler, loop, wire>> /\ conn[s] = "up"
        BY <2>4, Zenon DEF Break, serverVars
      <3> QED BY <2>2, <3>1
    <2>5. CASE Open(s)
      <3>1. handler[s] = "opening" /\ handler'[s] = "serving" /\ wire' = wire /\ conn' = conn
        BY <1>0, <2>5 DEF Open, ServerTypes
      <3> QED BY <1>0, <1>1, <3>1 DEF WaitOK
    <2>6. CASE OpenFails(s) \/ FinishStream(s) \/ Crash(s)
      BY <2>1, <2>6, Zenon DEF OpenFails, FinishStream, Crash
    <2>7. CASE (ReceiveComplete(s) \/ Abandon(s)) /\ ~Return(s)
      <3>1. loop[s] # "ended" /\ loop' = loop /\ handler' = [handler EXCEPT ![s] = "closing"]
        BY <2>7, Zenon DEF ReceiveComplete, Abandon, CompleteProtoStream
      <3>2. handler'[s] = "closing"
        BY <1>0, <3>1 DEF ServerTypes
      <3> QED BY <3>1, <3>2 DEF WaitOK
    <2>8. CASE ReceiveEvent(s) /\ ~Return(s)
      <3>1. /\ handler[s] = "serving" /\ UNCHANGED <<handler, conn>> /\ wire[s] # <<>> /\ Head(wire[s]) # CompleteStream
            /\ wire' = [wire EXCEPT ![s] = Tail(wire[s])]
        BY <1>0, <2>8, Zenon DEF ReceiveEvent, ClientTypes
      <3>2. wire'[s] = Tail(wire[s])
        BY <1>0, <3>1 DEF ClientTypes
      <3>3. ASSUME CompleteStream \in Range(wire[s]) PROVE CompleteStream \in Range(Tail(wire[s]))
        <4>1. /\ Len(wire[s]) \in Nat /\ DOMAIN wire[s] = 1..Len(wire[s]) /\ Head(wire[s]) = wire[s][1]
              /\ Tail(wire[s]) \in Seq(Messages) /\ Len(Tail(wire[s])) = Len(wire[s]) - 1
              /\ \A i \in 1..Len(Tail(wire[s])) : Tail(wire[s])[i] = wire[s][i + 1]
          BY <1>0, <3>1, LenProperties, HeadTailProperties
        <4>2. PICK i \in 1..Len(wire[s]) : wire[s][i] = CompleteStream
          BY <3>3, <4>1 DEF Range
        <4>3. i - 1 \in 1..Len(Tail(wire[s])) /\ (i - 1) + 1 = i
          BY <3>1, <4>1, <4>2
        <4>4. Tail(wire[s])[i - 1] = CompleteStream
          BY <4>1, <4>2, <4>3
        <4>5. DOMAIN Tail(wire[s]) = 1..Len(Tail(wire[s]))
          BY <4>1, LenProperties
        <4> QED BY <4>3, <4>4, <4>5 DEF Range
      <3> QED BY <1>0, <1>1, <3>1, <3>2, <3>3 DEF WaitOK
    <2>9. CASE UploadLastSlice(s)
      <3>1. UNCHANGED <<handler, wire, conn>> /\ loop'[s] = "drain"
        BY <1>0, <2>9 DEF UploadLastSlice, clientVars, ServerTypes
      <3> QED BY <1>0, <1>1, <3>1 DEF WaitOK
    <2>10. CASE (\E n \in DOMAIN activeUploads[s] : FailedUpload(s, n)) /\ ~Return(s)
      <3>1. handler[s] # "closing" /\ UNCHANGED <<handler, wire, conn>>
        BY <2>10, Zenon DEF FailedUpload
      <3> QED BY <1>0, <1>1, <3>1 DEF WaitOK
    <2> QED BY <2>1, <2>3, <2>4, <2>5, <2>6, <2>7, <2>8, <2>9, <2>10, Zenon DEF Serve
  <1> QED BY <1>8, <1>9 DEF WaitInv

\* After the session is closed, and until all of its uploads are completed, there is a
\* goroutine of an auth server, or the upload completer, that the code lets go on, however
\* many streams broke, crashed or were given up.
THEOREM RecordingUploadsCanComplete == Spec => []UploadsCanComplete
  <1>1. Init => Struct /\ EndInv /\ WaitInv
    <2>1. Init => WaitInv
      <3> SUFFICES ASSUME Init, NEW s \in Streams PROVE WaitOK(s)
        BY DEF WaitInv
      <3>1. pc = "select" /\ handler[s] \in {"opening", "none"}
        BY DEF Init
      <3> QED BY <3>1 DEF WaitOK
    <2> QED BY <2>1, InitStruct, InitEnd
  <1>2. Struct /\ EndInv /\ WaitInv /\ [Next]_vars => (Struct /\ EndInv /\ WaitInv)'
    <2> SUFFICES ASSUME Struct, EndInv, WaitInv, [Next]_vars PROVE WaitInv'
      BY NextStruct, NextEnd
    <2>1. CASE ExpireTracker \/ (\E u \in Uploads : CheckUpload(u)) \/ UNCHANGED vars
      <3>1. UNCHANGED <<pc, handler, loop, conn, wire>>
        BY <2>1, Zenon DEF ExpireTracker, CheckUpload, vars, writerVars, serverVars, clientVars
      <3> QED BY <3>1 DEF WaitInv, WaitOK
    <2> QED BY <2>1, WriterWaits, ServerWaits, Zenon DEF Next, System
  <1>3. Struct /\ EndInv /\ WaitInv => UploadsCanComplete
    <2> SUFFICES ASSUME Struct, EndInv, WaitInv, pc = "ended", tracker \/ \E u \in Uploads : uploads[u] = "active", ~CanEnd
                 PROVE  FALSE
      BY DEF UploadsCanComplete
    <2>0. ~(\E u \in Uploads : Abandoned(u)) /\ \A s \in Streams : ~CanServe(s)
      BY DEF CanEnd
    <2>1. tracker
      BY <2>0 DEF Abandoned
    <2>2. PICK s \in Streams : handler[s] \notin {"none", "done"}
      BY <2>1 DEF CanEnd
    <2>3. /\ handler[s] \in {"opening", "serving", "closing"} /\ loop[s] \in {"none", "select", "drain", "ended"}
          /\ conn[s] \in {"none", "up", "down"} /\ StreamOK(s) /\ EndOK(s) /\ WaitOK(s)
      BY <2>2, TypeFacts DEF Struct, ServerTypes, ClientTypes, StreamsInv, EndInv, WaitInv
    <2>4. CASE handler[s] = "serving"
      <3>1. conn[s] # "down" /\ conn[s] # "none" /\ wire[s] = <<>>
        BY <2>0, <2>3, <2>4 DEF CanServe, StreamOK, Fresh
      <3>2. CompleteStream \in Range(<<>>)
        BY <2>3, <2>4, <3>1 DEF WaitOK
      <3>3. Range(<<>>) = {}
        BY DEF Range
      <3> QED BY <3>2, <3>3
    <2>5. CASE handler[s] = "closing"
      <3>1. loop[s] \in {"select", "drain"}
        BY <2>3, <2>5 DEF WaitOK, StreamOK
      <3> QED BY <2>0, <2>5, <3>1 DEF CanServe, Awaited
    <2> QED BY <2>0, <2>3, <2>4, <2>5 DEF CanServe
  <1> QED BY <1>1, <1>2, <1>3, PTL DEF Spec

=============================================================================
