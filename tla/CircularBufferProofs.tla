------------------------ MODULE CircularBufferProofs ------------------------
(***************************************************************************)
(* Proofs about CircularBuffer for any watchers, keys, capacities and      *)
(* grace period, and any number of events.                                 *)
(***************************************************************************)
EXTENDS CircularBuffer, SequenceTheorems, TLAPS

\* A sequence is cut in two.
LEMMA SplitFact ==
  ASSUME NEW S, NEW s \in Seq(S), NEW n \in 0..Len(s)
  PROVE  /\ SubSeq(s, 1, n) \in Seq(S) /\ Len(SubSeq(s, 1, n)) = n
         /\ SubSeq(s, n + 1, Len(s)) \in Seq(S) /\ Len(SubSeq(s, n + 1, Len(s))) = Len(s) - n
         /\ n = Len(s) => SubSeq(s, n + 1, Len(s)) = << >>
  <1>1. Len(s) \in Nat
    BY LenProperties
  <1>2. SubSeq(s, 1, n) \in Seq(S) /\ Len(SubSeq(s, 1, n)) = n
    BY <1>1, SubSeqProperties
  <1>3. SubSeq(s, n + 1, Len(s)) \in Seq(S) /\ Len(SubSeq(s, n + 1, Len(s))) = Len(s) - n
    BY <1>1, SubSeqProperties
  <1>4. \A t \in Seq(S) : Len(t) = 0 => t = << >>
    BY EmptySeq
  <1> QED BY <1>1, <1>2, <1>3, <1>4

\* What flushBacklog leaves: a channel that has room for what it holds, is full if
\* there is a rest, and a rest only of a backlog.
LEMMA FlushFact ==
  ASSUME TypeOK, NEW w \in Watchers
  PROVE  /\ flushBacklog(w).chan \in Seq(Events)
         /\ flushBacklog(w).rest \in Seq(Events)
         /\ Len(flushBacklog(w).chan) =< capacity[w]
         /\ flushBacklog(w).rest # << >> => /\ Len(flushBacklog(w).chan) = capacity[w]
                                            /\ backlog[w] # << >>
  <1> DEFINE all == eventsC[w] \o backlog[w]
             n == IF Len(all) =< capacity[w] THEN Len(all) ELSE capacity[w]
             chan == SubSeq(all, 1, n)
             rest == SubSeq(all, n + 1, Len(all))
  <1>1. /\ eventsC[w] \in Seq(Events) /\ backlog[w] \in Seq(Events) /\ capacity[w] \in Nat
        /\ Len(eventsC[w]) =< capacity[w]
    BY DEF TypeOK
  <1>2. all \in Seq(Events) /\ Len(all) = Len(eventsC[w]) + Len(backlog[w])
    BY <1>1, ConcatProperties
  <1>3. flushBacklog(w) = [chan |-> chan, rest |-> rest]
    BY DEF flushBacklog
  <1> HIDE DEF all
  <1>4. Len(eventsC[w]) \in Nat /\ Len(backlog[w]) \in Nat /\ Len(all) \in Nat
    BY <1>1, <1>2, LenProperties
  <1>5. backlog[w] = << >> => Len(backlog[w]) = 0
    BY <1>1, EmptySeq
  <1>6. /\ Len(all) =< capacity[w] => n = Len(all)
        /\ ~(Len(all) =< capacity[w]) => n = capacity[w]
    BY Zenon
  <1> HIDE DEF n
  <1>7. n \in 0..Len(all) /\ n =< capacity[w]
    BY <1>1, <1>4, <1>6
  <1>8. /\ chan \in Seq(Events) /\ Len(chan) = n /\ rest \in Seq(Events)
        /\ n = Len(all) => rest = << >>
    <2> HIDE DEF Events
    <2>1. /\ SubSeq(all, 1, n) \in Seq(Events) /\ Len(SubSeq(all, 1, n)) = n
          /\ SubSeq(all, n + 1, Len(all)) \in Seq(Events)
          /\ n = Len(all) => SubSeq(all, n + 1, Len(all)) = << >>
      BY <1>2, <1>7, SplitFact
    <2> QED BY <2>1
  <1> HIDE DEF chan, rest
  <1>9. flushBacklog(w).chan = chan /\ flushBacklog(w).rest = rest
    BY <1>3
  <1>10. ASSUME rest # << >> PROVE n = capacity[w] /\ backlog[w] # << >>
    <2>1. ~(Len(all) =< capacity[w])
      BY <1>6, <1>8, <1>10, Zenon
    <2>2. \A x, y, z, c \in Nat : x = y + z /\ y =< c /\ ~(x =< c) => z # 0
      OBVIOUS
    <2>3. Len(backlog[w]) # 0
      BY <1>1, <1>2, <1>4, <2>1, <2>2, Zenon
    <2> QED BY <1>5, <1>6, <2>1, <2>3, Zenon
  <1>11. Len(chan) =< capacity[w]
    BY <1>7, <1>8
  <1> QED BY <1>8, <1>9, <1>10, <1>11, Zenon

-----------------------------------------------------------------------------
(* The queue of a watcher *)

\* The types of the variables that Queue assigns.
QueueTypes ==
    /\ eventsC \in [Watchers -> Seq(Events)] /\ backlog \in [Watchers -> Seq(Events)]
    /\ age \in [Watchers -> 0..Never] /\ behind \in [Watchers -> 0..Never]

\* What emit, emitRefused and Events() have in common: they leave a channel that
\* fits and is full if there is a backlog; that is either new, or as old as before.
Served(w) ==
    \E chan \in Seq(Events), rest \in Seq(Events), since \in 0..Never :
        /\ Queue(w, chan, rest, since)
        /\ Len(chan) =< capacity[w]
        /\ rest # << >> => /\ Len(chan) = capacity[w]
                           /\ \/ since = 0
                              \/ since = age[w] /\ backlog[w] # << >> /\ flushBacklog(w).rest # << >>

\* The constants that occur in the queues have the types of what the queues hold.
LEMMA EventTypes == InitEvent \in Events /\ << >> \in Seq(Events) /\ 0 \in 0..Never /\ Never \in 0..Never
  <1>1. InitEvent \in Events
    BY DEF Events
  <1>2. 0 \in 0..Never /\ Never \in 0..Never
    BY BufferAssumption DEF Never
  <1> QED BY <1>1, <1>2, EmptySeq

\* BufferWatcher.emit serves its watcher.
LEMMA EmitServes ==
  ASSUME TypeOK, NEW w \in Watchers, NEW e \in Events, emit(w, e)
  PROVE  Served(w)
  <1> DEFINE chan == flushBacklog(w).chan
             rest == flushBacklog(w).rest
  <1>1. /\ chan \in Seq(Events) /\ rest \in Seq(Events) /\ Len(chan) =< capacity[w]
        /\ rest # << >> => Len(chan) = capacity[w] /\ backlog[w] # << >>
    BY FlushFact
  <1>2. age[w] \in 0..Never /\ capacity[w] \in Nat
    BY DEF TypeOK
  <1>3. \/ rest # << >> /\ Queue(w, chan, Append(rest, e), age[w])
        \/ Len(chan) < capacity[w] /\ Queue(w, Append(chan, e), << >>, Never)
        \/ Len(chan) = capacity[w] /\ Queue(w, chan, <<e>>, 0)
    BY Zenon DEF emit
  <1> HIDE DEF chan, rest
  <1>4. CASE rest # << >> /\ Queue(w, chan, Append(rest, e), age[w])
    <2>1. Append(rest, e) \in Seq(Events)
      BY <1>1, AppendProperties
    <2>2. flushBacklog(w).rest # << >> /\ backlog[w] # << >> /\ Len(chan) = capacity[w]
      BY <1>1, <1>4 DEF rest
    <2> QED BY <1>1, <1>2, <1>4, <2>1, <2>2, Zenon DEF Served
  <1>5. CASE Len(chan) < capacity[w] /\ Queue(w, Append(chan, e), << >>, Never)
    <2>1. Append(chan, e) \in Seq(Events) /\ Len(Append(chan, e)) = Len(chan) + 1
      BY <1>1, AppendProperties
    <2>2. Len(Append(chan, e)) =< capacity[w]
      BY <1>1, <1>2, <1>5, <2>1, LenProperties
    <2> QED BY <1>5, <2>1, <2>2, EventTypes, Zenon DEF Served
  <1>6. CASE Len(chan) = capacity[w] /\ Queue(w, chan, <<e>>, 0)
    <2>1. <<e>> \in Seq(Events)
      <3> HIDE DEF Events
      <3> QED OBVIOUS
    <2> QED BY <1>1, <1>6, <2>1, EventTypes, Zenon DEF Served
  <1> QED BY <1>3, <1>4, <1>5, <1>6, Zenon

\* So does an emit that returns false, which there is only for a backlog that is too old.
LEMMA RefusalServes ==
  ASSUME TypeOK, NEW w \in Watchers, emitRefused(w)
  PROVE  Served(w) /\ backlog[w] # << >> /\ age[w] > Grace
  <1>1. /\ flushBacklog(w).rest # << >> /\ age[w] > Grace
        /\ Queue(w, flushBacklog(w).chan, flushBacklog(w).rest, age[w])
    BY Zenon DEF emitRefused
  <1>2. age[w] \in 0..Never
    BY DEF TypeOK
  <1> QED BY <1>1, <1>2, FlushFact, Zenon DEF Served

\* BufferWatcher.Events serves its watcher.
LEMMA CallServes ==
  ASSUME TypeOK, NEW w \in Watchers, CallEvents(w)
  PROVE  Served(w)
  <1> DEFINE chan == flushBacklog(w).chan
             rest == flushBacklog(w).rest
             since == IF rest = << >> THEN Never ELSE age[w]
  <1>1. Queue(w, chan, rest, since)
    BY Zenon DEF CallEvents
  <1>2. age[w] \in 0..Never
    BY DEF TypeOK
  <1>3. since \in 0..Never /\ (rest # << >> => since = age[w])
    BY <1>2, EventTypes, Zenon
  <1>4. /\ chan \in Seq(Events) /\ rest \in Seq(Events) /\ Len(chan) =< capacity[w]
        /\ rest # << >> => Len(chan) = capacity[w] /\ backlog[w] # << >>
    BY FlushFact
  <1> HIDE DEF chan, rest, since
  <1>5. rest # << >> => flushBacklog(w).rest # << >>
    BY DEF rest
  <1> QED BY <1>1, <1>3, <1>4, <1>5, Zenon DEF Served

\* What is left by a step that serves a watcher.
LEMMA ServedFact ==
  ASSUME TypeOK, NEW w \in Watchers, Served(w)
  PROVE  /\ QueueTypes'
         /\ Len(eventsC'[w]) =< capacity[w]
         /\ backlog'[w] # << >> => /\ Len(eventsC'[w]) = capacity[w]
                                   /\ \/ age'[w] = 0
                                      \/ /\ age'[w] = age[w] /\ backlog[w] # << >>
                                         /\ behind'[w] = behind[w]
         /\ \A v \in Watchers \ {w} : /\ eventsC'[v] = eventsC[v] /\ backlog'[v] = backlog[v]
                                      /\ age'[v] = age[v] /\ behind'[v] = behind[v]
  <1>1. PICK chan \in Seq(Events), rest \in Seq(Events), since \in 0..Never :
             /\ Queue(w, chan, rest, since)
             /\ Len(chan) =< capacity[w]
             /\ rest # << >> => /\ Len(chan) = capacity[w]
                                /\ \/ since = 0
                                   \/ since = age[w] /\ backlog[w] # << >> /\ flushBacklog(w).rest # << >>
    BY DEF Served
  <1>2. QueueTypes
    BY Zenon DEF TypeOK, QueueTypes
  <1> DEFINE b == IF flushBacklog(w).rest = << >> THEN 0 ELSE behind[w]
  <1>3. /\ eventsC' = [eventsC EXCEPT ![w] = chan]
        /\ backlog' = [backlog EXCEPT ![w] = rest]
        /\ age' = [age EXCEPT ![w] = since]
        /\ behind' = [behind EXCEPT ![w] = b]
    BY <1>1, Zenon DEF Queue
  <1>4. b \in 0..Never /\ (flushBacklog(w).rest # << >> => b = behind[w])
    BY <1>2, EventTypes, Zenon DEF QueueTypes
  <1> HIDE DEF b
  <1>5. eventsC' \in [Watchers -> Seq(Events)] /\ backlog' \in [Watchers -> Seq(Events)]
    BY <1>2, <1>3, Zenon DEF QueueTypes
  <1>6. age' \in [Watchers -> 0..Never] /\ behind' \in [Watchers -> 0..Never]
    BY <1>2, <1>3, <1>4, Zenon DEF QueueTypes
  <1>7. eventsC'[w] = chan /\ backlog'[w] = rest /\ age'[w] = since /\ behind'[w] = b
    BY <1>2, <1>3, Zenon DEF QueueTypes
  <1>8. \A v \in Watchers \ {w} : /\ eventsC'[v] = eventsC[v] /\ backlog'[v] = backlog[v]
                                  /\ age'[v] = age[v] /\ behind'[v] = behind[v]
    BY <1>2, <1>3, Zenon DEF QueueTypes
  <1>9. QueueTypes'
    BY <1>5, <1>6, Zenon DEF QueueTypes, Never
  <1> QED BY <1>1, <1>4, <1>7, <1>8, <1>9, Zenon

-----------------------------------------------------------------------------
(* The types *)

ControlTypes ==
    /\ init \in BOOLEAN /\ closed \in BOOLEAN
    /\ tree \subseteq Watchers /\ done \subseteq Watchers /\ removals \subseteq done

EmissionTypes ==
    /\ emitted \in 0..MaxEvents /\ batch \in Seq(Events)
    /\ \A visit \in walk : visit[1] \in tree
    /\ overflowed \subseteq tree

WatcherTypes ==
    /\ watch \in [Watchers -> Watches \cup {<< >>}]
    /\ DOMAIN prefixes = Watchers
    /\ capacity \in [Watchers -> Nat]
    /\ consumer \in [Watchers -> {"none", "events", "receive", "closed"}]
    /\ received \in [Watchers -> Seq(Events)]

\* A watcher has a channel from its creation on, and the channel is never overfull.
Sized(w) ==
    /\ Len(eventsC[w]) =< capacity[w]
    /\ consumer[w] = "none" <=> capacity[w] = 0
    /\ w \in tree => capacity[w] > 0

\* TypeOK by what the actions change together.
LEMMA TypeParts ==
  TypeOK <=> /\ ControlTypes /\ EmissionTypes /\ WatcherTypes /\ QueueTypes
             /\ \A w \in Watchers : Sized(w)
  BY Zenon DEF TypeOK, ControlTypes, EmissionTypes, WatcherTypes, QueueTypes, Sized

\* The same for the state after a step.
LEMMA TypePartsNext ==
  TypeOK' <=> /\ ControlTypes' /\ EmissionTypes' /\ WatcherTypes' /\ QueueTypes'
              /\ (\A w \in Watchers : Sized(w))'
  BY TypeParts, PTL

\* Outside a call of Emit nobody is to be called and nobody to be deleted.
Quiet == Unlocked => walk = {} /\ overflowed = {}

\* Each operation keeps the types.  NewWatcher makes a channel that has room for the
\* init event.
LEMMA NewWatcherTypes ==
  ASSUME TypeOK, Quiet, NEW w \in Watchers, NEW list \in Watches, NEW size \in QueueSizes,
         NewWatcher(w, list, size)
  PROVE  TypeOK' /\ Quiet'
  <1>0. ControlTypes /\ EmissionTypes /\ WatcherTypes /\ QueueTypes /\ \A v \in Watchers : Sized(v)
    BY TypeParts
  <1> DEFINE cap == IF size = 0 THEN Capacity ELSE size
             chan == IF init THEN <<InitEvent>> ELSE << >>
  <1>1. cap \in Nat /\ cap > 0
    BY BufferAssumption
  <1>2. chan \in Seq(Events) /\ Len(chan) =< 1
    BY EventTypes
  <1> HIDE DEF cap, chan
  <1>3. ControlTypes' /\ EmissionTypes' /\ Quiet'
    BY <1>0, Zenon DEF NewWatcher, ControlTypes, EmissionTypes, emission, Quiet, Unlocked
  <1>4. capacity' = [capacity EXCEPT ![w] = cap] /\ eventsC' = [eventsC EXCEPT ![w] = chan]
    BY Zenon DEF NewWatcher, cap, chan
  <1>5. WatcherTypes'
    BY <1>0, <1>1, <1>4 DEF WatcherTypes, NewWatcher
  <1>6. QueueTypes'
    BY <1>0, <1>2, <1>4 DEF QueueTypes, NewWatcher
  <1>7. ASSUME NEW v \in Watchers PROVE Sized(v)'
    <2>1. CASE v = w
      BY <1>0, <1>1, <1>2, <1>4, <2>1 DEF WatcherTypes, QueueTypes, NewWatcher, Sized
    <2>2. CASE v # w
      BY <1>0, <1>4, <2>2 DEF WatcherTypes, QueueTypes, NewWatcher, Sized
    <2> QED BY <2>1, <2>2
  <1> QED BY <1>3, <1>5, <1>6, <1>7, TypePartsNext

\* SetInit puts one event into the channels of the watchers in the tree.
LEMMA SetInitTypes ==
  ASSUME TypeOK, Quiet, SetInit
  PROVE  TypeOK' /\ Quiet'
  <1>0. ControlTypes /\ EmissionTypes /\ WatcherTypes /\ QueueTypes /\ \A v \in Watchers : Sized(v)
    BY TypeParts
  <1>1. ControlTypes' /\ EmissionTypes' /\ Quiet'
    BY <1>0, Zenon DEF SetInit, ControlTypes, EmissionTypes, emission, Quiet, Unlocked
  <1>2. WatcherTypes'
    BY <1>0, Zenon DEF WatcherTypes, SetInit, owner
  <1>3. <<InitEvent>> \in Seq(Events) /\ Len(<<InitEvent>>) = 1
    BY EventTypes
  <1>4. QueueTypes'
    BY <1>0, <1>3 DEF QueueTypes, SetInit
  <1>5. ASSUME NEW v \in Watchers PROVE Sized(v)'
    <2>1. capacity[v] \in Nat
      BY <1>0 DEF WatcherTypes
    <2> QED BY <1>0, <1>3, <2>1 DEF SetInit, Sized, owner
  <1> QED BY <1>1, <1>2, <1>4, <1>5, TypePartsNext

\* clear leaves a tree without watchers, when nobody is to be called.
LEMMA ClearTypes ==
  ASSUME TypeOK, Quiet, Clear \/ Reset \/ Close
  PROVE  TypeOK' /\ Quiet'
  <1>0. ControlTypes /\ EmissionTypes /\ WatcherTypes /\ QueueTypes /\ \A v \in Watchers : Sized(v)
    BY TypeParts
  <1>1. clear /\ init' \in BOOLEAN /\ closed' \in BOOLEAN
    BY <1>0, Zenon DEF Clear, Reset, Close, ControlTypes
  <1>2. ControlTypes' /\ EmissionTypes' /\ Quiet'
    BY <1>0, <1>1, Zenon DEF clear, ControlTypes, EmissionTypes, emission, Quiet, Unlocked
  <1>3. WatcherTypes' /\ QueueTypes'
    BY <1>0, <1>1, Zenon DEF WatcherTypes, QueueTypes, clear, owner, queues, Never
  <1>4. ASSUME NEW v \in Watchers PROVE Sized(v)'
    BY <1>0, <1>1, Zenon DEF clear, Sized, owner, queues
  <1> QED BY <1>2, <1>3, <1>4, TypePartsNext

\* watcherTree.walkPath reaches no watcher but those in the tree.
LEMMA WalkFact ==
  ASSUME NEW ws, NEW event
  PROVE  \A visit \in walkPath(ws, event) : visit[1] \in ws
  <1> SUFFICES ASSUME NEW visit \in walkPath(ws, event) PROVE visit[1] \in ws
    OBVIOUS
  <1>1. PICK w \in ws : visit \in {<<w, p>> : p \in {q \in prefixes[w] : IsPrefix(q, event.key)}}
    BY Zenon DEF walkPath
  <1>2. PICK p : visit = <<w, p>>
    BY <1>1, Zenon
  <1> QED BY <1>2

\* Emit numbers its events within the bound and calls watchers of the tree only.
LEMMA EmitTypes ==
  ASSUME TypeOK, Quiet, NEW n \in 1..MaxBatch, NEW keys \in [1..n -> Keys], Emit(keys)
  PROVE  TypeOK' /\ Quiet'
  <1>0. ControlTypes /\ EmissionTypes /\ WatcherTypes /\ QueueTypes /\ \A v \in Watchers : Sized(v)
    BY TypeParts
  <1>1. n \in Nat /\ n > 0
    BY BufferAssumption
  <1>2. keys \in Seq(Keys) /\ Len(keys) = n
    BY <1>1
  <1>3. emitted' = emitted + n /\ emitted' =< MaxEvents /\ emitted \in Nat /\ emitted' \in 0..MaxEvents
    BY <1>0, <1>1, <1>2, BufferAssumption DEF Emit, EmissionTypes
  <1>4. batch' = [i \in 1..n |-> [key |-> keys[i], id |-> emitted + i]]
    BY <1>2 DEF Emit
  <1>5. ASSUME NEW i \in 1..n PROVE [key |-> keys[i], id |-> emitted + i] \in Events
    <2>1. keys[i] \in Keys /\ emitted + i \in 1..MaxEvents
      BY <1>1, <1>3, BufferAssumption
    <2> QED BY <2>1, Zenon DEF Events
  <1>6. batch' \in Seq(Events) /\ Len(batch') = n
    BY <1>1, <1>4, <1>5
  <1>7. batch' # << >>
    BY <1>1, <1>6
  <1>8. \A visit \in walk' : visit[1] \in tree'
    BY WalkFact, Zenon DEF Emit, buffer
  <1>9. overflowed' = overflowed /\ tree' = tree
    BY Zenon DEF Emit, buffer
  <1>10. EmissionTypes'
    BY <1>0, <1>3, <1>6, <1>8, <1>9 DEF EmissionTypes
  <1>11. Quiet'
    BY <1>7 DEF Quiet, Unlocked
  <1>12. ControlTypes'
    BY <1>0, Zenon DEF ControlTypes, Emit, buffer
  <1>13. WatcherTypes' /\ QueueTypes'
    BY <1>0, Zenon DEF WatcherTypes, QueueTypes, Emit, owner, queues, Never
  <1>14. ASSUME NEW v \in Watchers PROVE Sized(v)'
    BY <1>0, Zenon DEF Emit, Sized, owner, queues, buffer
  <1> QED BY <1>10, <1>11, <1>12, <1>13, <1>14, TypePartsNext

\* A step of fanOutEvent serves a watcher of the tree; one that it gives up has had
\* a backlog for longer than the grace period.
LEMMA FanOutServes ==
  ASSUME TypeOK, Quiet, NEW w \in Watchers, NEW p, FanOut(w, p)
  PROVE  /\ Served(w) /\ w \in tree /\ batch # << >>
         /\ overflowed' \subseteq overflowed \cup {w}
         /\ w \in overflowed' \ overflowed => backlog[w] # << >> /\ age[w] > Grace
  <1>0. EmissionTypes
    BY TypeParts
  <1>1. <<w, p>> \in walk
    BY Zenon DEF FanOut
  <1>2. w \in tree
    BY <1>0, <1>1 DEF EmissionTypes
  <1>3. batch # << >>
    BY <1>1, Zenon DEF Quiet, Unlocked
  <1>4. batch[1] \in Events
    <2>1. batch \in Seq(Events)
      BY <1>0 DEF EmissionTypes
    <2> HIDE DEF Events
    <2> QED BY <1>3, <2>1
  <1>5. CASE emit(w, batch[1]) /\ UNCHANGED overflowed
    BY <1>2, <1>3, <1>4, <1>5, EmitServes, Zenon
  <1>6. CASE emitRefused(w) /\ overflowed' = overflowed \cup {w}
    BY <1>2, <1>3, <1>6, RefusalServes, Zenon
  <1> QED BY <1>5, <1>6, Zenon DEF FanOut

\* fanOutEvent calls a watcher.
LEMMA FanOutTypes ==
  ASSUME TypeOK, Quiet, NEW w \in Watchers, NEW p, FanOut(w, p)
  PROVE  TypeOK' /\ Quiet'
  <1>0. ControlTypes /\ EmissionTypes /\ WatcherTypes /\ QueueTypes /\ \A v \in Watchers : Sized(v)
    BY TypeParts
  <1>1. Served(w) /\ w \in tree /\ batch # << >> /\ overflowed' \subseteq overflowed \cup {w}
    BY FanOutServes
  <1>2. ControlTypes' /\ EmissionTypes' /\ Quiet'
    <2>1. batch' = batch /\ emitted' = emitted /\ tree' = tree /\ walk' \subseteq walk
      BY Zenon DEF FanOut, buffer
    <2>2. EmissionTypes'
      BY <1>0, <1>1, <2>1, Zenon DEF EmissionTypes, Events, InitEvent
    <2>3. ControlTypes' /\ Quiet'
      BY <1>0, <1>1, <2>1, Zenon DEF FanOut, ControlTypes, Quiet, Unlocked, buffer
    <2> QED BY <2>2, <2>3
  <1>3. WatcherTypes'
    BY <1>0, Zenon DEF WatcherTypes, FanOut, owner
  <1>4. QueueTypes'
    BY <1>1, ServedFact
  <1>5. ASSUME NEW v \in Watchers PROVE Sized(v)'
    <2>1. Len(eventsC'[v]) =< capacity[v]
      BY <1>0, <1>1, ServedFact, Zenon DEF Sized
    <2> QED BY <1>0, <2>1, Zenon DEF Sized, FanOut, owner, buffer
  <1> QED BY <1>2, <1>3, <1>4, <1>5, TypePartsNext

\* The end of fanOutEvent: the walk for the next event is in the tree that is left.
LEMMA FanOutEndTypes ==
  ASSUME TypeOK, Quiet, FanOutEnd
  PROVE  TypeOK' /\ Quiet'
  <1>0. ControlTypes /\ EmissionTypes /\ WatcherTypes /\ QueueTypes /\ \A v \in Watchers : Sized(v)
    BY TypeParts
  <1>1. batch \in Seq(Events) /\ batch # << >>
    BY <1>0 DEF EmissionTypes, FanOutEnd
  <1>2. Tail(batch) \in Seq(Events) /\ (Len(batch) # 1 => Tail(batch) # << >>)
    <2>1. Tail(batch) \in Seq(Events) /\ Len(Tail(batch)) = Len(batch) - 1 /\ Len(batch) \in Nat
      BY <1>1, HeadTailProperties, LenProperties
    <2>2. Len(batch) # 1 => Len(Tail(batch)) # 0
      BY <2>1
    <2> QED BY <2>1, <2>2, EmptySeq, Zenon
  <1>3. \A visit \in walk' : visit[1] \in tree'
    <2>1. walk' = {} \/ walk' = walkPath(tree', batch[2])
      BY Zenon DEF FanOutEnd
    <2> QED BY <2>1, WalkFact, Zenon
  <1>4. EmissionTypes'
    <2>1. batch' = Tail(batch) /\ emitted' = emitted /\ overflowed' = {}
      BY Zenon DEF FanOutEnd
    <2> QED BY <1>0, <1>2, <1>3, <2>1, Zenon DEF EmissionTypes, Events, InitEvent
  <1>5. Quiet'
    BY <1>2, Zenon DEF FanOutEnd, Quiet, Unlocked
  <1>6. ControlTypes'
    BY <1>0, Zenon DEF FanOutEnd, ControlTypes, EmissionTypes
  <1>7. WatcherTypes' /\ QueueTypes'
    BY <1>0, Zenon DEF WatcherTypes, QueueTypes, FanOutEnd, owner, queues, Never
  <1>8. ASSUME NEW v \in Watchers PROVE Sized(v)'
    BY <1>0, Zenon DEF FanOutEnd, Sized, owner, queues
  <1> QED BY <1>4, <1>5, <1>6, <1>7, <1>8, TypePartsNext

\* removeWatcherWithLock changes the tree when nobody is to be called.
LEMMA RemovalTypes ==
  ASSUME TypeOK, Quiet, NEW w \in Watchers, removeWatcherWithLock(w)
  PROVE  TypeOK' /\ Quiet'
  <1>0. ControlTypes /\ EmissionTypes /\ WatcherTypes /\ QueueTypes /\ \A v \in Watchers : Sized(v)
    BY TypeParts
  <1>1. ControlTypes' /\ EmissionTypes' /\ Quiet'
    BY <1>0, Zenon DEF removeWatcherWithLock, ControlTypes, EmissionTypes, emission, Quiet, Unlocked
  <1>2. WatcherTypes' /\ QueueTypes'
    BY <1>0, Zenon DEF WatcherTypes, QueueTypes, removeWatcherWithLock, owner, queues, Never
  <1>3. ASSUME NEW v \in Watchers PROVE Sized(v)'
    BY <1>0, Zenon DEF removeWatcherWithLock, Sized, owner, queues
  <1> QED BY <1>1, <1>2, <1>3, TypePartsNext

\* Events() of an owner.
LEMMA CallTypes ==
  ASSUME TypeOK, Quiet, NEW w \in Watchers, CallEvents(w)
  PROVE  TypeOK' /\ Quiet'
  <1>0. ControlTypes /\ EmissionTypes /\ WatcherTypes /\ QueueTypes /\ \A v \in Watchers : Sized(v)
    BY TypeParts
  <1>1. ControlTypes' /\ EmissionTypes' /\ Quiet'
    BY <1>0, Zenon DEF CallEvents, ControlTypes, EmissionTypes, buffer, emission, Quiet, Unlocked
  <1>2. WatcherTypes'
    BY <1>0 DEF WatcherTypes, CallEvents
  <1>3. QueueTypes' /\ Len(eventsC'[w]) =< capacity[w]
        /\ \A v \in Watchers \ {w} : eventsC'[v] = eventsC[v]
    BY CallServes, ServedFact, Zenon
  <1>4. ASSUME NEW v \in Watchers PROVE Sized(v)'
    <2>1. capacity' = capacity /\ tree' = tree
      BY Zenon DEF CallEvents, buffer
    <2>2. consumer'[v] = "none" <=> consumer[v] = "none"
      BY <1>0 DEF CallEvents, WatcherTypes
    <2> QED BY <1>0, <1>3, <2>1, <2>2, Zenon DEF Sized
  <1> QED BY <1>1, <1>2, <1>3, <1>4, TypePartsNext

\* A receive of an owner.
LEMMA ReceiveTypes ==
  ASSUME TypeOK, Quiet, NEW w \in Watchers, Receive(w)
  PROVE  TypeOK' /\ Quiet'
  <1>0. ControlTypes /\ EmissionTypes /\ WatcherTypes /\ QueueTypes /\ \A v \in Watchers : Sized(v)
    BY TypeParts
  <1>1. ControlTypes' /\ EmissionTypes' /\ Quiet'
    BY <1>0, Zenon DEF Receive, ControlTypes, EmissionTypes, buffer, emission, Quiet, Unlocked
  <1> DEFINE chan == Tail(eventsC[w])
             got == Append(received[w], Head(eventsC[w]))
  <1>2. eventsC[w] \in Seq(Events) /\ eventsC[w] # << >> /\ received[w] \in Seq(Events)
    BY <1>0 DEF QueueTypes, WatcherTypes, Receive
  <1>3. /\ chan \in Seq(Events) /\ Len(chan) = Len(eventsC[w]) - 1 /\ Len(eventsC[w]) \in Nat
        /\ Head(eventsC[w]) \in Events
    BY <1>2, HeadTailProperties, LenProperties
  <1>4. got \in Seq(Events)
    BY <1>2, <1>3, AppendProperties
  <1>5. received' = [received EXCEPT ![w] = got] /\ eventsC' = [eventsC EXCEPT ![w] = chan]
    BY <1>0, Zenon DEF Receive, WatcherTypes, QueueTypes
  <1> HIDE DEF chan, got
  <1>6. WatcherTypes'
    BY <1>0, <1>4, <1>5 DEF WatcherTypes, Receive
  <1>7. QueueTypes'
    BY <1>0, <1>3, <1>5 DEF QueueTypes, Receive
  <1>8. ASSUME NEW v \in Watchers PROVE Sized(v)'
    <2>1. capacity' = capacity /\ tree' = tree /\ capacity[v] \in Nat
      BY <1>0, Zenon DEF Receive, buffer, WatcherTypes
    <2>2. consumer'[v] = "none" <=> consumer[v] = "none"
      BY <1>0 DEF Receive, WatcherTypes
    <2>3. Len(eventsC'[v]) =< capacity[v]
      <3>1. CASE v = w
        <4>1. eventsC'[v] = chan /\ Len(eventsC[w]) =< capacity[v]
          BY <1>0, <1>5, <3>1 DEF QueueTypes, Sized
        <4> QED BY <1>3, <2>1, <4>1
      <3>2. CASE v # w
        BY <1>0, <1>5, <3>2, Zenon DEF QueueTypes, Sized
      <3> QED BY <3>1, <3>2
    <2> QED BY <1>0, <2>1, <2>2, <2>3, Zenon DEF Sized
  <1> QED BY <1>1, <1>6, <1>7, <1>8, TypePartsNext

\* Close of a watcher, and the end of its context.
LEMMA CloseTypes ==
  ASSUME TypeOK, Quiet, NEW w \in Watchers, CloseWatcher(w) \/ CancelContext(w)
  PROVE  TypeOK' /\ Quiet'
  <1>0. ControlTypes /\ EmissionTypes /\ WatcherTypes /\ QueueTypes /\ \A v \in Watchers : Sized(v)
    BY TypeParts
  <1>1. ControlTypes' /\ EmissionTypes' /\ Quiet'
    BY <1>0, Zenon DEF CloseWatcher, CancelContext, ControlTypes, EmissionTypes, buffer, emission, Quiet, Unlocked
  <1>2. WatcherTypes'
    BY <1>0 DEF WatcherTypes, CloseWatcher, CancelContext, owner
  <1>3. QueueTypes'
    BY <1>0, Zenon DEF QueueTypes, CloseWatcher, CancelContext, queues, Never
  <1>4. ASSUME NEW v \in Watchers PROVE Sized(v)'
    <2>1. capacity' = capacity /\ tree' = tree /\ eventsC' = eventsC
      BY Zenon DEF CloseWatcher, CancelContext, buffer, queues
    <2>2. consumer'[v] = "none" <=> consumer[v] = "none"
      BY <1>0 DEF CloseWatcher, CancelContext, WatcherTypes, owner
    <2> QED BY <1>0, <2>1, <2>2, Zenon DEF Sized
  <1> QED BY <1>1, <1>2, <1>3, <1>4, TypePartsNext

\* The clock.
LEMMA TickTypes ==
  ASSUME TypeOK, Quiet, Tick
  PROVE  TypeOK' /\ Quiet'
  <1>0. ControlTypes /\ EmissionTypes /\ WatcherTypes /\ QueueTypes /\ \A v \in Watchers : Sized(v)
    BY TypeParts
  <1>1. ControlTypes' /\ EmissionTypes' /\ WatcherTypes' /\ Quiet'
    BY <1>0, Zenon DEF Tick, ControlTypes, EmissionTypes, WatcherTypes, buffer, emission, owner, Quiet, Unlocked
  <1>2. age' \in [Watchers -> 0..Never] /\ behind' \in [Watchers -> 0..Never]
    BY <1>0, BufferAssumption DEF Tick, QueueTypes, Never
  <1>3. QueueTypes'
    BY <1>0, <1>2, Zenon DEF Tick, QueueTypes, Never
  <1>4. ASSUME NEW v \in Watchers PROVE Sized(v)'
    BY <1>0, Zenon DEF Tick, Sized, buffer, owner
  <1> QED BY <1>1, <1>3, <1>4, TypePartsNext

\* A step of somebody else.
LEMMA StutterTypes ==
  ASSUME TypeOK, Quiet, UNCHANGED vars
  PROVE  TypeOK' /\ Quiet'
  BY Zenon DEF TypeOK, Quiet, Unlocked, vars, Events, InitEvent, Never

\* The types, with Quiet, which clear and removeWatcherWithLock need, are inductive.
LEMMA TypeInvariant == Spec => [](TypeOK /\ Quiet)
  <1>1. Init => TypeOK /\ Quiet
    <2> SUFFICES ASSUME Init PROVE TypeOK /\ Quiet
      OBVIOUS
    <2>1. ControlTypes /\ Quiet
      BY Zenon DEF Init, ControlTypes, Quiet
    <2>5. emitted \in 0..MaxEvents
      BY BufferAssumption DEF Init
    <2>6. EmissionTypes
      BY EventTypes, <2>5, Zenon DEF Init, EmissionTypes
    <2>2. WatcherTypes
      BY EventTypes DEF Init, WatcherTypes
    <2>3. QueueTypes
      BY EventTypes DEF Init, QueueTypes
    <2>4. \A w \in Watchers : Sized(w)
      BY DEF Init, Sized
    <2> QED BY <2>1, <2>2, <2>3, <2>4, <2>6, TypeParts
  <1>2. TypeOK /\ Quiet /\ [Next]_vars => (TypeOK /\ Quiet)'
    <2> SUFFICES ASSUME TypeOK, Quiet, [Next]_vars PROVE TypeOK' /\ Quiet'
      BY Zenon
    <2>1. ASSUME EmitStep PROVE TypeOK' /\ Quiet'
      BY <2>1, FanOutEndTypes, FanOutTypes, Zenon DEF EmitStep
    <2>2. ASSUME NEW w \in Watchers, Owner(w) PROVE TypeOK' /\ Quiet'
      BY <2>2, CallTypes, ReceiveTypes, CloseTypes, Zenon DEF Owner
    <2> QED BY <2>1, <2>2, NewWatcherTypes, SetInitTypes, ClearTypes, EmitTypes, RemovalTypes,
               TickTypes, StutterTypes, Zenon DEF Next
  <1> QED BY <1>1, <1>2, PTL DEF Spec

\* Every step of the buffer and of the owners keeps the variables in their types;
\* in particular no channel ever holds more than its capacity.
THEOREM BufferTypeCorrect == Spec => []TypeOK
  BY TypeInvariant, PTL

-----------------------------------------------------------------------------
(* The properties *)

\* Most steps leave the queues and the owners alone.
LEMMA NoStallKept ==
  ASSUME NoStall, UNCHANGED <<eventsC, backlog, consumer>>
  PROVE  NoStall'
  BY Zenon DEF NoStall

\* Every step keeps NoStall.
LEMMA NoStallStep ==
  ASSUME TypeOK, Quiet, NoStall, [Next]_vars
  PROVE  NoStall'
  <1>0. WatcherTypes /\ QueueTypes /\ \A v \in Watchers : Sized(v)
    BY TypeParts
  \* A watcher with a channel that is served has something to receive.
  <1>14. ASSUME NEW w \in Watchers, Served(w), capacity[w] # 0, NEW v \in Watchers,
               v # w => consumer'[v] = consumer[v], consumer'[v] = "receive", backlog'[v] # << >>
        PROVE  eventsC'[v] # << >>
    <2>1. CASE v = w
      <3>1. Len(eventsC'[w]) = capacity[w]
        BY <1>14, <2>1, ServedFact, Zenon
      <3>2. Len(eventsC'[w]) # 0
        BY <1>14, <3>1, Zenon
      <3> QED BY <2>1, <3>2, EmptySeq, Zenon
    <2>2. CASE v # w
      BY <1>14, <2>2, ServedFact, Zenon DEF NoStall
    <2> QED BY <2>1, <2>2
  <1>1. ASSUME NEW w \in Watchers, NEW list, NEW size, NewWatcher(w, list, size) PROVE NoStall'
    <2>1. \A v \in Watchers : /\ v # w => consumer'[v] = consumer[v] /\ eventsC'[v] = eventsC[v]
                              /\ v = w => consumer'[v] = "events"
      BY <1>0, <1>1 DEF NewWatcher, WatcherTypes, QueueTypes
    <2>2. backlog' = backlog
      BY <1>1 DEF NewWatcher
    <2> QED BY <2>1, <2>2 DEF NoStall
  <1>2. CASE SetInit
    <2>1. consumer' = consumer /\ backlog' = backlog
      BY <1>2, Zenon DEF SetInit, owner
    <2>2. \A v \in Watchers : eventsC'[v] = <<InitEvent>> \/ eventsC'[v] = eventsC[v]
      BY <1>2, Zenon DEF SetInit
    <2>3. <<InitEvent>> # << >>
      OBVIOUS
    <2> QED BY <2>1, <2>2, <2>3, Zenon DEF NoStall
  <1>3. CASE Clear \/ Reset \/ Close
    BY <1>3, NoStallKept, Zenon DEF Clear, Reset, Close, clear, queues, owner
  <1>4. ASSUME NEW keys, Emit(keys) PROVE NoStall'
    BY <1>4, NoStallKept, Zenon DEF Emit, queues, owner
  <1>5. ASSUME NEW w \in Watchers, NEW p, FanOut(w, p) PROVE NoStall'
    <2>1. Served(w) /\ w \in tree
      BY <1>5, FanOutServes
    <2>2. consumer' = consumer
      BY <1>5, Zenon DEF FanOut, owner
    <2>3. capacity[w] # 0
      BY <1>0, <2>1 DEF Sized, WatcherTypes
    <2> QED BY <1>14, <2>1, <2>2, <2>3, Zenon DEF NoStall
  <1>6. CASE FanOutEnd
    BY <1>6, NoStallKept, Zenon DEF FanOutEnd, queues, owner
  <1>7. ASSUME NEW w \in Watchers, removeWatcherWithLock(w) PROVE NoStall'
    BY <1>7, NoStallKept, Zenon DEF removeWatcherWithLock, queues, owner
  <1>8. ASSUME NEW w \in Watchers, CallEvents(w) PROVE NoStall'
    <2>1. Served(w)
      BY <1>8, CallServes
    <2>2. capacity[w] # 0
      BY <1>0, <1>8 DEF CallEvents, Sized
    <2>3. \A v \in Watchers : v # w => consumer'[v] = consumer[v]
      BY <1>0, <1>8 DEF CallEvents, WatcherTypes
    <2> QED BY <1>14, <2>1, <2>2, <2>3, Zenon DEF NoStall
  <1>9. ASSUME NEW w \in Watchers, Receive(w) PROVE NoStall'
    <2>1. \A v \in Watchers : /\ v # w => consumer'[v] = consumer[v] /\ eventsC'[v] = eventsC[v]
                              /\ v = w => consumer'[v] = "events"
      BY <1>0, <1>9 DEF Receive, WatcherTypes, QueueTypes
    <2>2. backlog' = backlog
      BY <1>9 DEF Receive
    <2> QED BY <2>1, <2>2 DEF NoStall
  <1>10. ASSUME NEW w \in Watchers, CloseWatcher(w) PROVE NoStall'
    <2>1. \A v \in Watchers : /\ v # w => consumer'[v] = consumer[v]
                              /\ v = w => consumer'[v] = "closed"
      BY <1>0, <1>10 DEF CloseWatcher, WatcherTypes
    <2>2. backlog' = backlog /\ eventsC' = eventsC
      BY <1>10 DEF CloseWatcher, queues
    <2> QED BY <2>1, <2>2 DEF NoStall
  <1>11. ASSUME NEW w \in Watchers, CancelContext(w) PROVE NoStall'
    BY <1>11, NoStallKept, Zenon DEF CancelContext, queues, owner
  <1>12. CASE Tick
    BY <1>12, NoStallKept, Zenon DEF Tick, owner
  <1>13. CASE UNCHANGED vars
    BY <1>13, NoStallKept, Zenon DEF vars
  <1> QED BY <1>1, <1>2, <1>3, <1>4, <1>5, <1>6, <1>7, <1>8, <1>9, <1>10, <1>11, <1>12, <1>13,
             Zenon DEF Next, EmitStep, Owner

\* BufferWatcher.Events: an owner that calls it before each receive never waits on an
\* empty channel while its backlog has events, for any capacities and any number of
\* watchers and events.  It rests on a served watcher's channel being full when there
\* is a backlog, and on no channel having capacity 0.
THEOREM BufferNoStall == Spec => []NoStall
  <1>1. Init => NoStall
    BY DEF Init, NoStall
  <1>2. TypeOK /\ Quiet /\ NoStall /\ [Next]_vars => NoStall'
    BY NoStallStep
  <1> QED BY <1>1, <1>2, TypeInvariant, PTL DEF Spec

\* fanOutEvent, clear and closeAndRemove: whoever takes a watcher from the tree has
\* cancelled its context, so that its owner can tell.
THEOREM BufferDetachedIsTold == Spec => []DetachedIsTold
  <1>1. Init => DetachedIsTold
    BY DEF Init, DetachedIsTold
  <1>2. TypeOK /\ Quiet /\ DetachedIsTold /\ [Next]_vars => DetachedIsTold'
    <2> SUFFICES ASSUME TypeOK, Quiet, DetachedIsTold, [Next]_vars,
                        NEW v \in Watchers, consumer'[v] # "none", v \notin tree'
                 PROVE  v \in done'
      BY Zenon DEF DetachedIsTold
    <2>0. ControlTypes /\ WatcherTypes
      BY TypeParts
    <2>11. (consumer[v] # "none" /\ v \notin tree) => v \in done
      BY Zenon DEF DetachedIsTold
    <2>1. ASSUME NEW w \in Watchers, NEW list, NEW size, NewWatcher(w, list, size) PROVE v \in done'
      BY <2>0, <2>1, <2>11 DEF NewWatcher, WatcherTypes
    <2>2. CASE SetInit
      BY <2>2, <2>11, Zenon DEF SetInit, owner
    <2>3. CASE Clear \/ Reset \/ Close
      BY <2>3, <2>11, Zenon DEF Clear, Reset, Close, clear, owner
    <2>4. ASSUME NEW keys, Emit(keys) PROVE v \in done'
      BY <2>4, <2>11, Zenon DEF Emit, buffer, owner
    <2>5. ASSUME NEW w \in Watchers, NEW p, FanOut(w, p) PROVE v \in done'
      BY <2>5, <2>11, Zenon DEF FanOut, buffer, owner
    <2>6. CASE FanOutEnd
      BY <2>6, <2>11, Zenon DEF FanOutEnd, owner
    <2>7. ASSUME NEW w \in Watchers, removeWatcherWithLock(w) PROVE v \in done'
      BY <2>0, <2>7, <2>11, Zenon DEF removeWatcherWithLock, owner, ControlTypes
    <2>8. ASSUME NEW w \in Watchers, Owner(w) PROVE v \in done'
      <3>1. done \subseteq done' /\ tree' = tree /\ (consumer'[v] # "none" => consumer[v] # "none")
        BY <2>0, <2>8 DEF Owner, CallEvents, Receive, CloseWatcher, CancelContext, buffer, owner, WatcherTypes
      <3> QED BY <2>11, <3>1, Zenon
    <2>9. CASE Tick
      BY <2>9, <2>11, Zenon DEF Tick, buffer, owner
    <2>10. CASE UNCHANGED vars
      BY <2>10, <2>11, Zenon DEF vars
    <2> QED BY <2>1, <2>2, <2>3, <2>4, <2>5, <2>6, <2>7, <2>8, <2>9, <2>10, Zenon DEF Next, EmitStep
  <1> QED BY <1>1, <1>2, TypeInvariant, PTL DEF Spec

\* The backlog has been there for as long as backlogSince says.
Lag == \A w \in Watchers : backlog[w] # << >> => age[w] =< behind[w]

\* Every step keeps Lag.
LEMMA LagStep ==
  ASSUME TypeOK, Quiet, Lag, [Next]_vars
  PROVE  Lag'
  <1>0. QueueTypes
    BY TypeParts
  <1>14. ASSUME UNCHANGED <<backlog, age, behind>> PROVE Lag'
    BY <1>14, Zenon DEF Lag
  <1>15. ASSUME NEW w \in Watchers, Served(w) PROVE Lag'
    <2> SUFFICES ASSUME NEW v \in Watchers, backlog'[v] # << >> PROVE age'[v] =< behind'[v]
      BY Zenon DEF Lag
    <2>1. CASE v = w
      <3>1. age'[w] = 0 \/ (age'[w] = age[w] /\ backlog[w] # << >> /\ behind'[w] = behind[w])
        BY <1>15, <2>1, ServedFact, Zenon
      <3>2. behind'[w] \in 0..Never
        BY <1>15, ServedFact DEF QueueTypes
      <3> QED BY <2>1, <3>1, <3>2 DEF Lag
    <2>2. CASE v # w
      BY <1>15, <2>2, ServedFact, Zenon DEF Lag
    <2> QED BY <2>1, <2>2
  <1>1. CASE Tick
    <2> SUFFICES ASSUME NEW v \in Watchers, backlog'[v] # << >> PROVE age'[v] =< behind'[v]
      BY Zenon DEF Lag
    <2>1. backlog[v] # << >> /\ age[v] =< behind[v] /\ age[v] \in 0..Never /\ behind[v] \in 0..Never
      BY <1>0, <1>1 DEF Tick, Lag, QueueTypes
    <2>2. /\ age'[v] = IF age[v] = Never THEN Never ELSE age[v] + 1
          /\ behind'[v] = IF behind[v] = Never THEN behind[v] ELSE behind[v] + 1
      BY <1>1, <2>1 DEF Tick
    <2> QED BY <2>1, <2>2, BufferAssumption DEF Never
  <1>2. ASSUME NEW w \in Watchers, NEW p, FanOut(w, p) PROVE Lag'
    BY <1>2, <1>15, FanOutServes, Zenon
  <1>3. ASSUME NEW w \in Watchers, CallEvents(w) PROVE Lag'
    BY <1>3, <1>15, CallServes, Zenon
  <1>4. ASSUME NEW w \in Watchers, Receive(w) \/ CloseWatcher(w) \/ CancelContext(w) \/ removeWatcherWithLock(w)
        PROVE  Lag'
    BY <1>4, <1>14, Zenon DEF Receive, CloseWatcher, CancelContext, removeWatcherWithLock, queues
  <1>5. ASSUME NEW w \in Watchers, NEW list, NEW size, NewWatcher(w, list, size) PROVE Lag'
    BY <1>5, <1>14, Zenon DEF NewWatcher
  <1>6. ASSUME NEW keys, Emit(keys) PROVE Lag'
    BY <1>6, <1>14, Zenon DEF Emit, queues
  <1>7. CASE SetInit \/ Clear \/ Reset \/ Close \/ FanOutEnd \/ UNCHANGED vars
    BY <1>7, <1>14, Zenon DEF SetInit, Clear, Reset, Close, clear, FanOutEnd, queues, vars
  <1> QED BY <1>1, <1>2, <1>3, <1>4, <1>5, <1>6, <1>7, Zenon DEF Next, EmitStep, Owner

\* BufferWatcher.emit: a watcher is given up only when no flush of its backlog has
\* emptied it for longer than the grace period, whatever the period, the capacities and
\* the pace of its owner: backlogSince never makes a backlog older than it is.
THEOREM BufferOverflowsAfterGrace == Spec => OverflowsAfterGrace
  <1> DEFINE Step == \A w \in Watchers : w \in overflowed' \ overflowed => behind[w] > Grace
  <1>1. Init => Lag
    BY DEF Init, Lag
  <1>2. TypeOK /\ Quiet /\ Lag /\ [Next]_vars => Lag'
    BY LagStep
  <1>3. TypeOK /\ Quiet /\ Lag /\ [Next]_vars => [Step]_vars
    <2> SUFFICES ASSUME TypeOK, Quiet, Lag, Next, NEW v \in Watchers, v \in overflowed' \ overflowed
                 PROVE  behind[v] > Grace
      BY Zenon
    <2>0. QueueTypes
      BY TypeParts
    <2>1. ASSUME NEW w \in Watchers, NEW p, FanOut(w, p) PROVE behind[v] > Grace
      <3>1. v = w /\ backlog[w] # << >> /\ age[w] > Grace
        BY <2>1, FanOutServes, Zenon
      <3>2. age[w] \in 0..Never /\ behind[w] \in 0..Never /\ age[w] =< behind[w]
        BY <2>0, <3>1, Zenon DEF QueueTypes, Lag
      <3> QED BY <3>1, <3>2, BufferAssumption DEF Never
    <2>2. ASSUME NEW w \in Watchers, Owner(w) PROVE FALSE
      BY <2>2, Zenon DEF Owner, CallEvents, Receive, CloseWatcher, CancelContext, emission
    <2>3. ASSUME NEW w \in Watchers, removeWatcherWithLock(w) PROVE FALSE
      BY <2>3, Zenon DEF removeWatcherWithLock, emission
    <2>4. ASSUME NEW w \in Watchers, NEW list, NEW size, NewWatcher(w, list, size) PROVE FALSE
      BY <2>4, Zenon DEF NewWatcher, emission
    <2>5. ASSUME NEW keys, Emit(keys) PROVE FALSE
      BY <2>5, Zenon DEF Emit
    <2>6. CASE SetInit \/ Clear \/ Reset \/ Close \/ FanOutEnd \/ Tick
      BY <2>6, Zenon DEF SetInit, Clear, Reset, Close, clear, FanOutEnd, Tick, emission
    <2> QED BY <2>1, <2>2, <2>3, <2>4, <2>5, <2>6, Zenon DEF Next, EmitStep
  <1> QED BY <1>1, <1>2, <1>3, TypeInvariant, PTL DEF Spec, OverflowsAfterGrace

=============================================================================
