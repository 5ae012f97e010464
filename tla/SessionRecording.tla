-------------------------- MODULE SessionRecording --------------------------
(***************************************************************************)
(* The recording of a session in sync mode: the AuditWriter of the node    *)
(* (lib/events/auditwriter.go), its stream to an auth server               *)
(* (api/client/auditstreamer.go, CreateAuditStream of lib/auth/grpcserver) *)
(* the ProtoStream there that uploads the events in parts                  *)
(* (lib/events/stream.go), the file storage (lib/events/filesessions) and  *)
(* the UploadCompleter (lib/events/complete.go).                           *)
(*                                                                         *)
(* The writer keeps the events that are not confirmed to be stored.  When  *)
(* its stream breaks it opens another one, to any auth server, and sends   *)
(* them again.  The auth server that had the broken stream finds out in    *)
(* its own time and flushes what it has.                                   *)
(*                                                                         *)
(* An event is its index.  Indexes are only ever compared, so an event     *)
(* that EmitAuditEvent loses, which leaves a gap, is left out.             *)
(*                                                                         *)
(* What a slice holds before it is uploaded is a matter of bytes and of    *)
(* time and left open.  UploadPart is tried again until it succeeds or     *)
(* the upload is gone.  A loop that waits for semUploads takes no other    *)
(* step; here it has yet to decide to upload.                              *)
(***************************************************************************)
EXTENDS Integers, Sequences, FiniteSets, Functions, FiniteSetsExt

CONSTANTS Emitters,      \* how many goroutines call EmitAuditEvent of the writer
          MaxEvents,     \* bound: events of the session
          MaxStreams,    \* bound: connections that are made
          MaxFlushPart,  \* bound: the largest part that is uploaded before the stream ends
          Faulty,        \* the events that an EmitAuditEvent may refuse for good
          FastAttempts,  \* the attempts of tryResumeStream
          Nobody         \* no stream has the upload completed yet

ASSUME RecordingAssumption == /\ Emitters \in Nat \ {0} /\ MaxEvents \in Nat \ {0}
                              /\ MaxStreams \in Nat \ {0} /\ MaxFlushPart \in Nat /\ FastAttempts \in Nat
                              /\ Nobody \notin {"stream", "completer"}

VARIABLES buffer, trimmed,              \* AuditWriter: events not confirmed, and those that were
          lastStatus,                   \* the upload of the last status, 0: none yet
          stream, pc, attempt,          \* the stream in use, processEvents, tryResumeStream
          conn, wire,                   \* a stream: its connection, what is on the way
          handler, loop,                \* where the handler and receiveAndUpload are
          upload,                       \* the upload of a stream, 0: to be created
          statusCh,                     \* a status on its way to the writer
          completeType,
          current, lastPartNumber,      \* sliceWriter: the slice, the last number given
          flushCh,                      \* the slice was given an event, which sets the timer
          activeUploads, completedParts,
          parts, uploads,               \* the storage: parts of an upload, state of an upload
          recording, source,            \* the completed recording, and who completed it
          erased,                       \* events of a part that was overwritten by one without them
          omitted,                      \* events that a permanent error was reported for
          tracker                       \* the session tracker exists

writerVars == <<buffer, trimmed, lastStatus, stream, pc, attempt>>
clientVars == <<conn, wire, statusCh>>
serverVars == <<handler, loop, upload, completeType>>
sliceVars == <<current, lastPartNumber, flushCh, activeUploads, completedParts>>
storageVars == <<parts, uploads, recording, source, erased, omitted>>
vars == <<writerVars, clientVars, serverVars, sliceVars, storageVars, tracker>>

Streams == 1..MaxStreams
Uploads == Streams            \* an upload has the number of the stream that created it
Events == 0..(MaxEvents - 1)
None == -2                    \* an empty channel
CompleteStream == MaxEvents   \* the last message of a stream
NoSlice == <<None>>
NoParts == [n \in {} |-> <<>>]
PartNumbers == Nat \ {0}
Slices == [slice : Seq(Events), state : {"uploading", "stored", "failed"}]

IsParts(f) == DOMAIN f \subseteq PartNumbers /\ \A n \in DOMAIN f : f[n] \in Seq(Events)

TypeOK ==
    /\ buffer \in Seq(Events) /\ trimmed \in Seq(Events)
    /\ lastStatus \in Uploads \cup {0}
    /\ stream \in Streams /\ attempt \in 0..FastAttempts
    /\ pc \in {"select", "resume", "await", "replay", "ended"}
    /\ conn \in [Streams -> {"none", "up", "down"}]
    /\ wire \in [Streams -> Seq(Events \cup {CompleteStream})]
    /\ statusCh \in [Streams -> Events \cup {-1, None}]
    /\ handler \in [Streams -> {"none", "opening", "serving", "closing", "done"}]
    /\ loop \in [Streams -> {"none", "select", "drain", "ended"}]
    /\ upload \in [Streams -> Uploads \cup {0}]
    /\ completeType \in [Streams -> {"complete", "flush"}]
    /\ current \in [Streams -> Seq(Events) \cup {NoSlice}]
    /\ lastPartNumber \in [Streams -> Nat] /\ flushCh \in [Streams -> BOOLEAN]
    /\ completedParts \in [Streams -> SUBSET PartNumbers]
    /\ DOMAIN activeUploads = Streams /\ DOMAIN parts = Uploads
    /\ \A s \in Streams : /\ DOMAIN activeUploads[s] \subseteq PartNumbers
                          /\ \A n \in DOMAIN activeUploads[s] : activeUploads[s][n] \in Slices
                          /\ loop[s] \in {"select", "drain"} => lastPartNumber[s] > 0
    /\ \A u \in Uploads : IsParts(parts[u])
    /\ uploads \in [Uploads -> {"none", "active", "completed"}]
    /\ IsParts(recording)
    /\ source \in [by : {"stream", "completer", Nobody}, upload : Uploads \cup {0}]
    /\ erased \subseteq Events /\ omitted \subseteq Events
    /\ tracker \in BOOLEAN

\* NewAuditWriter has asked for the first stream.
Init ==
    /\ buffer = <<>> /\ trimmed = <<>> /\ lastStatus = 0
    /\ stream = 1 /\ pc = "select" /\ attempt = 0
    /\ conn = [s \in Streams |-> IF s = 1 THEN "up" ELSE "none"]
    /\ handler = [s \in Streams |-> IF s = 1 THEN "opening" ELSE "none"]
    /\ wire = [s \in Streams |-> <<>>] /\ statusCh = [s \in Streams |-> None]
    /\ loop = [s \in Streams |-> "none"] /\ upload = [s \in Streams |-> 0]
    /\ completeType = [s \in Streams |-> "complete"]
    /\ current = [s \in Streams |-> NoSlice]
    /\ lastPartNumber = [s \in Streams |-> 0] /\ flushCh = [s \in Streams |-> FALSE]
    /\ activeUploads = [s \in Streams |-> NoParts]
    /\ completedParts = [s \in Streams |-> {}]
    /\ parts = [u \in Uploads |-> NoParts] /\ uploads = [u \in Uploads |-> "none"]
    /\ recording = NoParts /\ source = [by |-> Nobody, upload |-> 0]
    /\ erased = {} /\ omitted = {} /\ tracker = TRUE

-----------------------------------------------------------------------------
(* The writer's end of a stream.                                           *)

\* Send of gRPC takes messages, that never arrive, also from when the
\* connection breaks until this is known.
Send(s, ms) == wire' = [wire EXCEPT ![s] = IF conn[s] = "up" THEN @ \o ms ELSE @]

\* auditStreamer.Close: the server takes a cancelled stream like a FlushAndClose.
CloseStream(s) == conn' = [conn EXCEPT ![s] = "down"]

\* A status that forwardEvents has not sent, or that recv has not got, is lost.
Break(s) ==
    /\ conn[s] = "up"
    /\ CloseStream(s)
    /\ statusCh' \in {statusCh, [statusCh EXCEPT ![s] = None]}
    /\ UNCHANGED <<writerVars, wire, serverVars, sliceVars, storageVars, tracker>>

-----------------------------------------------------------------------------
(* AuditWriter: EmitAuditEvent and processEvents.                          *)

\* The events the writer took, in the order it took them.
Taken == trimmed \o buffer

\* setupEvent gives an event its index under the mutex, eventsCh is entered
\* outside of it: an event may be overtaken by those of the other emitters.
Ready == {i \in Events \ Range(Taken) : Cardinality((0..(i - 1)) \ Range(Taken)) < Emitters}

\* How many events a status takes off the buffer: the leading ones it covers,
\* but not if there is just one.
CoveredAndNext(index) ==
    LET n == Max({0} \cup {i \in 1..Len(buffer) : \A j \in 1..i : buffer[j] <= index})
    IN IF index >= 0 /\ n > 1 /\ n < Len(buffer) THEN n + 1 ELSE 0

Covered(index) ==
    LET n == Max({0} \cup {i \in 1..Len(buffer) : \A j \in 1..i : buffer[j] <= index})
    IN IF index >= 0 /\ n > 1 THEN n ELSE 0

UpdateStatus ==
    /\ pc = "select" /\ statusCh[stream] # None
    /\ LET n == Covered(statusCh[stream])
       IN /\ trimmed' = trimmed \o SubSeq(buffer, 1, n)
          /\ buffer' = SubSeq(buffer, n + 1, Len(buffer))
    /\ lastStatus' = upload[stream]
    /\ statusCh' = [statusCh EXCEPT ![stream] = None]
    /\ UNCHANGED <<stream, pc, attempt, conn, wire, serverVars, sliceVars, storageVars, tracker>>

\* closeStream, then tryResumeStream.
RecoverStream ==
    /\ CloseStream(stream)
    /\ statusCh' = [statusCh EXCEPT ![stream] = None]
    /\ pc' = "resume" /\ attempt' = 0

\* A permanent error (IsPermanentEmitError), of an event that is too large for
\* example, is only logged: the stream goes on without the event.
Omit(i) == i \in Faulty /\ omitted' = omitted \cup {i}

TakeEvent(i) ==
    /\ pc = "select" /\ i \in Ready
    /\ buffer' = Append(buffer, i)
    /\ \/ Send(stream, <<i>>) /\ UNCHANGED <<conn, statusCh, pc, attempt, omitted>>
       \/ conn[stream] = "down" /\ RecoverStream /\ UNCHANGED <<wire, omitted>>
       \/ Omit(i) /\ UNCHANGED <<clientVars, pc, attempt>>
    /\ UNCHANGED <<trimmed, lastStatus, stream, serverVars, sliceVars, parts, uploads, recording,
                   source, erased, tracker>>

StreamDone ==
    /\ pc = "select" /\ conn[stream] = "down"
    /\ RecoverStream
    /\ UNCHANGED <<buffer, trimmed, lastStatus, stream, wire, serverVars, sliceVars, storageVars,
                   tracker>>

\* The writer is closed; completeStream only logs an error.
EndStream ==
    /\ pc = "select"
    /\ Send(stream, <<CompleteStream>>)
    /\ statusCh' = [statusCh EXCEPT ![stream] = None]
    /\ pc' = "ended"
    /\ UNCHANGED <<buffer, trimmed, lastStatus, stream, attempt, conn, serverVars, sliceVars,
                   storageVars, tracker>>

-----------------------------------------------------------------------------
(* tryResumeStream and the replay of recoverStream.                        *)

AttemptsLeftOne == attempt <= FastAttempts
AttemptsLeft == attempt < FastAttempts

\* A connection is made and the upload of the last status asked for, or a new one.
Resume(s) ==
    /\ pc = "resume" /\ AttemptsLeft
    /\ conn[s] = "none" /\ \A r \in 1..(s - 1) : conn[r] # "none"
    /\ stream' = s
    /\ upload' = [upload EXCEPT ![s] = lastStatus]
    /\ conn' = [conn EXCEPT ![s] = "up"]
    /\ handler' = [handler EXCEPT ![s] = "opening"]
    /\ pc' = "await"
    /\ attempt' = attempt + 1
    /\ UNCHANGED <<buffer, trimmed, lastStatus, wire, statusCh, loop, completeType, sliceVars,
                   storageVars, tracker>>

ResumeFails ==
    /\ pc = "resume" /\ AttemptsLeft
    /\ attempt' = attempt + 1
    /\ UNCHANGED <<buffer, trimmed, lastStatus, stream, pc, clientVars, serverVars, sliceVars,
                   storageVars, tracker>>

\* The writer is closed after a failed attempt, or there were FastAttempts of them.
GiveUp ==
    /\ pc = "resume" /\ attempt > 0
    /\ pc' = "ended"
    /\ UNCHANGED <<buffer, trimmed, lastStatus, stream, attempt, clientVars, serverVars, sliceVars,
                   storageVars, tracker>>

\* The first status of the new stream is read and dropped.
Resumed ==
    /\ pc = "await" /\ statusCh[stream] # None
    /\ statusCh' = [statusCh EXCEPT ![stream] = None]
    /\ pc' = "replay" /\ attempt' = 0
    /\ UNCHANGED <<buffer, trimmed, lastStatus, stream, conn, wire, serverVars, sliceVars,
                   storageVars, tracker>>

ResumeTimeout ==
    /\ pc = "await"
    /\ CloseStream(stream)
    /\ statusCh' = [statusCh EXCEPT ![stream] = None]
    /\ pc' = "resume"
    /\ UNCHANGED <<buffer, trimmed, lastStatus, stream, attempt, wire, serverVars, sliceVars,
                   storageVars, tracker>>

Replay ==
    /\ pc = "replay"
    /\ Send(stream, buffer)
    /\ pc' = "select"
    /\ UNCHANGED <<buffer, trimmed, lastStatus, stream, attempt, conn, statusCh, serverVars,
                   sliceVars, storageVars, tracker>>

\* A replay that fails, for a permanent error too, ends the writer; a handler that is
\* there may have got some of it.
ReplayFails ==
    /\ pc = "replay" /\ buffer # <<>>
    /\ \E n \in 0..(Len(buffer) - 1) :
          /\ n = 0 \/ handler[stream] # "done"
          /\ wire' = [wire EXCEPT ![stream] = @ \o SubSeq(buffer, 1, n)]
    /\ CloseStream(stream)
    /\ pc' = "ended"
    /\ UNCHANGED <<buffer, trimmed, lastStatus, stream, attempt, statusCh, serverVars,
                   sliceVars, storageVars, tracker>>

-----------------------------------------------------------------------------
(* The storage, after lib/events/filesessions.                             *)

EventsOf(ps) == UNION {Range(ps[n]) : n \in DOMAIN ps}

UploadPart(u, n, slice) ==
    /\ parts' = [parts EXCEPT ![u] = [m \in DOMAIN @ \cup {n} |-> IF m = n THEN slice ELSE @[m]]]
    /\ erased' = erased \cup (IF n \in DOMAIN parts[u] THEN Range(parts[u][n]) \ Range(slice) ELSE {})

\* An upload that is no more leaves the recording truncated.
CompleteUpload(by, u, ps) ==
    IF uploads[u] = "active"
    THEN /\ recording' = Restrict(parts[u], ps)
         /\ source' = [by |-> by, upload |-> u]
         /\ uploads' = [uploads EXCEPT ![u] = "completed"]
         /\ parts' = [parts EXCEPT ![u] = NoParts]
    ELSE recording' = NoParts /\ UNCHANGED <<source, uploads, parts>>

-----------------------------------------------------------------------------
(* CreateAuditStream of the auth server and ProtoStream.                   *)

\* lastPartNumber with the first slice.
FirstPartNumber(ps) == IF ps = {} THEN 1 ELSE Max(ps) + 2

\* NewProtoStream, for a new upload or one to resume.
Open(s) ==
    LET u == IF upload[s] = 0 THEN s ELSE upload[s]
        ps == DOMAIN parts[u]
    IN /\ handler[s] = "opening"
       /\ upload[s] = 0 \/ uploads[u] = "active"
       /\ handler' = [handler EXCEPT ![s] = "serving"]
       /\ loop' = [loop EXCEPT ![s] = "select"]
       /\ upload' = [upload EXCEPT ![s] = u]
       /\ uploads' = [uploads EXCEPT ![u] = "active"]
       /\ statusCh' = [statusCh EXCEPT ![s] = IF conn[s] = "up" THEN -1 ELSE None]
       /\ current' = [current EXCEPT ![s] = <<>>]
       /\ lastPartNumber' = [lastPartNumber EXCEPT ![s] = FirstPartNumber(ps)]
       /\ completedParts' = [completedParts EXCEPT ![s] = ps]
       /\ UNCHANGED <<writerVars, conn, wire, completeType, flushCh, activeUploads, parts,
                      recording, source, erased, omitted, tracker>>

\* The handler returns, and the client is told.
Return(s) ==
    /\ handler' = [handler EXCEPT ![s] = "done"]
    /\ CloseStream(s)
    /\ wire' = [wire EXCEPT ![s] = <<>>]

OpenFails(s) ==
    /\ handler[s] = "opening"
    /\ Return(s)
    /\ UNCHANGED <<writerVars, statusCh, loop, upload, completeType, sliceVars, storageVars, tracker>>

\* Complete or Close of ProtoStream: the handler waits for the loop to end.
CompleteProtoStream(s, type, rest) ==
    /\ completeType' = [completeType EXCEPT ![s] = type]
    /\ IF loop[s] = "ended" THEN Return(s)
       ELSE /\ handler' = [handler EXCEPT ![s] = "closing"]
            /\ wire' = [wire EXCEPT ![s] = rest]
            /\ UNCHANGED conn
    /\ UNCHANGED <<writerVars, statusCh, loop, upload, sliceVars, storageVars, tracker>>

\* submitEvent: a slice is there or started, and the event is written to it or lost.
SubmitEvent(s, index) ==
    LET slice == IF current[s] = NoSlice THEN <<>> ELSE current[s]
    IN /\ lastPartNumber' = [lastPartNumber EXCEPT ![s] = IF current[s] = NoSlice THEN @ + 1 ELSE @]
       /\ flushCh' = [flushCh EXCEPT ![s] = TRUE]
       /\ \/ current' = [current EXCEPT ![s] = Append(slice, index)] /\ UNCHANGED omitted
          \/ current' = [current EXCEPT ![s] = slice] /\ Omit(index)

\* EmitAuditEvent reports a permanent error before it looks whether the loop has ended.
ReceiveEvent(s) ==
    /\ handler[s] = "serving" /\ wire[s] # <<>> /\ Head(wire[s]) # CompleteStream
    /\ \/ /\ wire' = [wire EXCEPT ![s] = Tail(@)]
          /\ \/ loop[s] = "select" /\ SubmitEvent(s, Head(wire[s]))
             \/ Omit(Head(wire[s])) /\ UNCHANGED <<current, lastPartNumber, flushCh>>
          /\ UNCHANGED <<handler, conn>>
       \/ loop[s] # "select" /\ Return(s) /\ UNCHANGED <<current, lastPartNumber, flushCh, omitted>>
    /\ UNCHANGED <<writerVars, statusCh, loop, upload, completeType, activeUploads, completedParts,
                   parts, uploads, recording, source, erased, tracker>>

ReceiveComplete(s) ==
    /\ handler[s] = "serving" /\ wire[s] # <<>> /\ Head(wire[s]) = CompleteStream
    /\ CompleteProtoStream(s, "complete", Tail(wire[s]))

\* The completeType that Close stores.
CloseTypeDefault == "complete"
CloseType == "flush"

\* The handler finds the stream cancelled; what it has not read is lost.
Abandon(s) ==
    /\ handler[s] = "serving" /\ conn[s] = "down"
    /\ CompleteProtoStream(s, CloseType, <<>>)

-----------------------------------------------------------------------------
(* receiveAndUpload of sliceWriter.                                        *)

Uploading(s) == {n \in DOMAIN activeUploads[s] : activeUploads[s][n].state = "uploading"}

\* ConcurrentUploads is 1.
StartUploadCurrentSlice(s) ==
    /\ Uploading(s) = {}
    /\ activeUploads' = [activeUploads EXCEPT ![s] =
           [n \in DOMAIN @ \cup {lastPartNumber[s]} |->
                IF n = lastPartNumber[s] THEN [slice |-> current[s], state |-> "uploading"]
                ELSE @[n]]]
    /\ current' = [current EXCEPT ![s] = NoSlice]
    /\ lastPartNumber' = [lastPartNumber EXCEPT ![s] = @ + 1]
    /\ flushCh' = [flushCh EXCEPT ![s] = FALSE]

\* The slice has MinUploadBytes, or flushCh fires; a slice that has lost its only
\* event is empty.
FlushSlice(s) ==
    /\ loop[s] = "select" /\ current[s] # NoSlice /\ flushCh[s]
    /\ lastPartNumber[s] <= MaxFlushPart
    /\ StartUploadCurrentSlice(s)
    /\ UNCHANGED <<writerVars, clientVars, serverVars, completedParts, storageVars, tracker>>

\* The goroutine of startUpload.
UploadSlice(s, n) ==
    /\ n \in Uploading(s)
    /\ IF uploads[upload[s]] = "active"
       THEN /\ activeUploads' = [activeUploads EXCEPT ![s][n].state = "stored"]
            /\ UploadPart(upload[s], n, activeUploads[s][n].slice)
       ELSE /\ activeUploads' = [activeUploads EXCEPT ![s][n].state = "failed"]
            /\ UNCHANGED <<parts, erased>>
    /\ UNCHANGED <<writerVars, clientVars, serverVars, current, lastPartNumber, flushCh,
                   completedParts, uploads, recording, source, omitted, tracker>>

LastEventIndex(slice) == Max({0} \cup Range(slice))

\* updateCompletedParts.  A status that finds the channel full is dropped,
\* and none reaches a writer that has ended or lost its connection.
CompletedUpload(s, n) ==
    /\ loop[s] = "select"
    /\ n \in DOMAIN activeUploads[s] /\ activeUploads[s][n].state = "stored"
    /\ activeUploads' = [activeUploads EXCEPT ![s] = Restrict(@, DOMAIN @ \ {n})]
    /\ completedParts' = [completedParts EXCEPT ![s] = @ \cup {n}]
    /\ statusCh' = [statusCh EXCEPT ![s] =
                        IF @ = None /\ conn[s] = "up" /\ pc # "ended"
                        THEN LastEventIndex(activeUploads[s][n].slice) ELSE @]
    /\ UNCHANGED <<writerVars, conn, wire, serverVars, current, lastPartNumber, flushCh, storageVars,
                   tracker>>

\* receiveAndUpload returns; what was not uploaded is gone.
EndLoop(s) ==
    /\ loop' = [loop EXCEPT ![s] = "ended"]
    /\ current' = [current EXCEPT ![s] = NoSlice]
    /\ lastPartNumber' = [lastPartNumber EXCEPT ![s] = 0]
    /\ flushCh' = [flushCh EXCEPT ![s] = FALSE]
    /\ activeUploads' = [activeUploads EXCEPT ![s] = NoParts]
    /\ completedParts' = [completedParts EXCEPT ![s] = {}]

\* A part that could not be uploaded.
FailedUpload(s, n) ==
    /\ loop[s] = "select"
    /\ n \in DOMAIN activeUploads[s] /\ activeUploads[s][n].state = "failed"
    /\ EndLoop(s)
    /\ IF handler[s] = "closing" THEN Return(s) ELSE UNCHANGED <<handler, conn, wire>>
    /\ UNCHANGED <<writerVars, statusCh, upload, completeType, storageVars, tracker>>

\* completeCtx is done: the last slice, even an empty one, is uploaded.
UploadLastSlice(s) ==
    /\ loop[s] = "select" /\ handler[s] = "closing"
    /\ loop' = [loop EXCEPT ![s] = "drain"]
    /\ IF current[s] = NoSlice THEN UNCHANGED <<activeUploads, current, lastPartNumber, flushCh>>
       ELSE StartUploadCurrentSlice(s)
    /\ UNCHANGED <<writerVars, clientVars, handler, upload, completeType, completedParts,
                   storageVars, tracker>>

\* The uploads completeStream waits for.
AwaitedNone(s) == {}
Awaited(s) == Uploading(s)

\* completeStream: parts that failed are left out.
FinishStream(s) ==
    LET stored == {n \in DOMAIN activeUploads[s] : activeUploads[s][n].state = "stored"}
    IN /\ loop[s] = "drain" /\ Awaited(s) = {}
       /\ EndLoop(s)
       /\ Return(s)
       /\ IF completeType[s] = "complete"
          THEN CompleteUpload("stream", upload[s], completedParts[s] \cup stored)
          ELSE UNCHANGED <<recording, source, uploads, parts>>
       /\ UNCHANGED <<writerVars, statusCh, upload, completeType, erased, omitted, tracker>>

\* The auth server stops, or cannot reserve a part.
Crash(s) ==
    /\ handler[s] \in {"serving", "closing"} /\ loop[s] # "ended"
    /\ EndLoop(s)
    /\ Return(s)
    /\ statusCh' \in {statusCh, [statusCh EXCEPT ![s] = None]}
    /\ UNCHANGED <<writerVars, upload, completeType, storageVars, tracker>>

-----------------------------------------------------------------------------
(* UploadCompleter.                                                        *)

\* The tracker is refreshed while the session lasts and outlives it by an
\* hour, in which the streams have ended.
ExpireTracker ==
    /\ tracker /\ pc = "ended"
    /\ \A s \in Streams : handler[s] \in {"none", "done"}
    /\ tracker' = FALSE
    /\ UNCHANGED <<writerVars, clientVars, serverVars, sliceVars, storageVars>>

AbandonedWithParts(u) == ~tracker /\ uploads[u] = "active" /\ parts[u] # NoParts
Abandoned(u) == ~tracker /\ uploads[u] = "active"

\* checkUploads, the earlier uploads first.
CheckUpload(u) ==
    /\ Abandoned(u) /\ \A v \in 1..(u - 1) : ~Abandoned(v)
    /\ CompleteUpload("completer", u, DOMAIN parts[u])
    /\ UNCHANGED <<writerVars, clientVars, serverVars, sliceVars, erased, omitted, tracker>>

-----------------------------------------------------------------------------
ProcessEvents ==
    \/ UpdateStatus \/ StreamDone \/ \E i \in Events : TakeEvent(i)
    \/ ResumeFails \/ GiveUp \/ Resumed \/ ResumeTimeout \/ Replay \/ ReplayFails
    \/ \E s \in Streams : Resume(s)

Serve(s) ==
    \/ Open(s) \/ OpenFails(s) \/ ReceiveEvent(s) \/ ReceiveComplete(s) \/ Abandon(s)
    \/ UploadLastSlice(s) \/ FinishStream(s)
    \/ \E n \in DOMAIN activeUploads[s] :
           UploadSlice(s, n) \/ CompletedUpload(s, n) \/ FailedUpload(s, n)

System ==
    \/ ProcessEvents \/ \E s \in Streams : Serve(s)
    \/ ExpireTracker \/ \E u \in Uploads : CheckUpload(u)

Next ==
    \/ System \/ EndStream
    \/ \E s \in Streams : FlushSlice(s) \/ Break(s) \/ Crash(s)

Spec == Init /\ [][Next]_vars

-----------------------------------------------------------------------------
\* The events that the writer took after one with a larger index.
Overtaken == {Taken[i] : i \in {k \in 1..Len(Taken) : \E j \in 1..(k - 1) : Taken[j] > Taken[k]}}

\* What ProtoReader returns of a recording: it skips an event whose index is
\* not larger than that of the last one.
Before(rec, n, k) == (UNION {Range(rec[m]) : m \in {j \in DOMAIN rec : j < n}})
                     \cup {rec[n][j] : j \in 1..(k - 1)}
ReadFrom(rec) ==
    {i \in Events : \E n \in DOMAIN rec : \E k \in 1..Len(rec[n]) :
                       rec[n][k] = i /\ \A j \in Before(rec, n, k) : j < i}

\* An event is not in the storage although the writer has forgotten it, and this is
\* not for its place among the others: its part was overwritten, or it was omitted.
Lost == erased \cup omitted

\* The writer forgets an event only when it is stored: what updateStatus has
\* taken off the buffer is in a part of the upload, whatever streams broke,
\* crashed or were resumed in between, with three exceptions: it came out of
\* order, a stream that was given up overwrote the part, or somebody on the
\* way omitted it for a permanent error.
ConfirmedStored ==
    lastStatus # 0 /\ uploads[lastStatus] = "active" =>
        Range(trimmed) \subseteq EventsOf(parts[lastStatus]) \cup Overtaken \cup Lost

\* The recording that a stream completes has, for ProtoReader, every event
\* that the writer took, and the one the upload completer makes of the
\* writer's upload has every event that was confirmed, with the same three
\* exceptions.
WholeRecording ==
    /\ source.by = "stream" =>
           Range(Taken) \subseteq ReadFrom(recording) \cup Overtaken \cup Lost
    /\ source.by = "completer" /\ source.upload = lastStatus =>
           Range(trimmed) \subseteq ReadFrom(recording) \cup Overtaken \cup Lost

\* A recording once completed does not lose events: no flush that comes
\* late, no second completion touches it, if the session had one upload.
RecordingKept ==
    [][Cardinality({u \in Uploads : uploads[u] # "none"}) = 1
          => ReadFrom(recording) \subseteq ReadFrom(recording')]_vars

\* After the session is closed nobody waits for ever: until every upload of
\* it is completed, if not by its stream then by the upload completer, some
\* goroutine has a step to take.  No step can be taken for ever, so that all
\* of them get completed.
UploadsCompleted ==
    pc = "ended" /\ (tracker \/ \E u \in Uploads : uploads[u] = "active") => ENABLED System

\* NewProtoStream skips parts "as a protection from accidental overwrites":
\* no flush of a stream that was given up takes away an event the writer
\* was told is stored, and has forgotten.
NothingErased == lastStatus # 0 => erased \cap Range(trimmed) \subseteq EventsOf(parts[lastStatus])

=============================================================================
