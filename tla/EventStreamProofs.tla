------------------------- MODULE EventStreamProofs -------------------------
(***************************************************************************)
(* CircularBuffer implements EventStream, for any number of watchers and   *)
(* events, any capacities and any grace period: each step of the buffer,   *)
(* of Emit or of an owner is a step of the abstract stream, or none.       *)
(***************************************************************************)
EXTENDS CircularBufferProofs, FiniteSetTheorems

-----------------------------------------------------------------------------
(* The variables of the abstract stream *)

interestBar == [w \in Watchers |-> Asked(w)]
phaseBar == [w \in Watchers |->
               IF consumer[w] = "none" THEN "new"
               ELSE IF ~Attached(w) THEN "detached"
               ELSE IF init THEN "attached" ELSE "waiting"]
streamBar == [w \in Watchers |-> received[w] \o eventsC[w] \o backlog[w] \o Owed(w)]

IsMap == /\ interestBar = [w \in Watchers |-> interestBar[w]]
         /\ phaseBar = [w \in Watchers |-> phaseBar[w]]
         /\ streamBar = [w \in Watchers |-> streamBar[w]]

LEMMA Mapped == IsMap
  BY DEF IsMap, interestBar, phaseBar, streamBar

LEMMA MappedNext == IsMap'
  BY Mapped, PTL

\* What a step leaves alone for a watcher.
Keeps(w) == /\ interestBar'[w] = interestBar[w] /\ phaseBar'[w] = phaseBar[w]
            /\ streamBar'[w] = streamBar[w]

\* A step that no watcher can see.
LEMMA MapStutter ==
  ASSUME received' = received, \A w \in Watchers : Keeps(w)
  PROVE  UNCHANGED Stream!vars
  <1>1. interestBar' = interestBar /\ phaseBar' = phaseBar /\ streamBar' = streamBar
    BY Mapped, MappedNext DEF Keeps, IsMap
  <1> QED BY <1>1, Zenon DEF Stream!vars, interestBar, phaseBar, streamBar

\* NewWatcher is Register.
LEMMA MapRegister ==
  ASSUME NEW w \in Watchers, NEW keys \in SUBSET Keys, interestBar'[w] = keys, received' = received,
         phaseBar[w] = "new",
         \/ phaseBar'[w] = "waiting" /\ streamBar'[w] = streamBar[w]
         \/ phaseBar'[w] = "attached" /\ streamBar'[w] = <<InitEvent>>,
         \A v \in Watchers \ {w} : Keeps(v)
  PROVE  Stream!Next
  <1>1. interestBar' = [interestBar EXCEPT ![w] = keys]
    BY Mapped, MappedNext DEF Keeps, IsMap
  <1>2. \/ phaseBar' = [phaseBar EXCEPT ![w] = "waiting"] /\ streamBar' = streamBar
        \/ phaseBar' = [phaseBar EXCEPT ![w] = "attached"] /\ streamBar' = [streamBar EXCEPT ![w] = <<InitEvent>>]
    BY Mapped, MappedNext DEF Keeps, IsMap
  <1>3. Stream!Register(w, keys)
    BY <1>1, <1>2, Zenon DEF Stream!Register, interestBar, phaseBar, streamBar
  <1> QED BY <1>3, Zenon DEF Stream!Next

\* SetInit is Start.
LEMMA MapStart ==
  ASSUME received' = received,
         \A w \in Watchers :
            /\ interestBar'[w] = interestBar[w]
            /\ phaseBar'[w] = IF phaseBar[w] = "waiting" THEN "attached" ELSE phaseBar[w]
            /\ streamBar'[w] = IF phaseBar[w] = "waiting" THEN <<InitEvent>> ELSE streamBar[w]
  PROVE  Stream!Next
  <1>1. /\ interestBar' = interestBar
        /\ phaseBar' = [w \in Watchers |-> IF phaseBar[w] = "waiting" THEN "attached" ELSE phaseBar[w]]
        /\ streamBar' = [w \in Watchers |-> IF phaseBar[w] = "waiting" THEN <<InitEvent>> ELSE streamBar[w]]
    BY Mapped, MappedNext DEF IsMap
  <1>2. Stream!Start
    BY <1>1, Zenon DEF Stream!Start, interestBar, phaseBar, streamBar
  <1> QED BY <1>2, Zenon DEF Stream!Next

\* The fan-out of an event is Emit.
LEMMA MapEmit ==
  ASSUME NEW event \in Events, received' = received,
         \A w \in Watchers :
            /\ interestBar'[w] = interestBar[w] /\ phaseBar'[w] = phaseBar[w]
            /\ streamBar'[w] = IF phaseBar[w] = "attached" /\ event.key \in interestBar[w]
                               THEN Append(streamBar[w], event) ELSE streamBar[w]
  PROVE  Stream!Next
  <1>1. /\ interestBar' = interestBar /\ phaseBar' = phaseBar
        /\ streamBar' = [w \in Watchers |-> IF phaseBar[w] = "attached" /\ event.key \in interestBar[w]
                                            THEN Append(streamBar[w], event) ELSE streamBar[w]]
    BY Mapped, MappedNext DEF IsMap
  <1>2. Stream!Emit(event)
    BY <1>1, Zenon DEF Stream!Emit, interestBar, phaseBar, streamBar
  <1> QED BY <1>2, Zenon DEF Stream!Next

\* A receive of an owner is Receive.
LEMMA MapReceive ==
  ASSUME NEW w \in Watchers, Len(received[w]) < Len(streamBar[w]),
         received' = [received EXCEPT ![w] = Append(received[w], streamBar[w][Len(received[w]) + 1])],
         \A v \in Watchers : Keeps(v)
  PROVE  Stream!Next
  <1>1. interestBar' = interestBar /\ phaseBar' = phaseBar /\ streamBar' = streamBar
    BY Mapped, MappedNext DEF Keeps, IsMap
  <1>2. Stream!Receive(w)
    BY <1>1, Zenon DEF Stream!Receive, interestBar, phaseBar, streamBar
  <1> QED BY <1>2, Zenon DEF Stream!Next

\* An emit that returns false is Overflow.
LEMMA MapOverflow ==
  ASSUME NEW w \in Watchers, phaseBar[w] = "attached", received' = received,
         interestBar'[w] = interestBar[w], phaseBar'[w] = "detached",
         NEW n \in Len(received[w])..Len(streamBar[w]), streamBar'[w] = SubSeq(streamBar[w], 1, n),
         \A v \in Watchers \ {w} : Keeps(v)
  PROVE  Stream!Next
  <1>1. /\ interestBar' = interestBar /\ phaseBar' = [phaseBar EXCEPT ![w] = "detached"]
        /\ streamBar' = [streamBar EXCEPT ![w] = SubSeq(streamBar[w], 1, n)]
    BY Mapped, MappedNext DEF Keeps, IsMap
  <1>2. Stream!Overflow(w)
    BY <1>1, Zenon DEF Stream!Overflow, interestBar, phaseBar, streamBar
  <1> QED BY <1>2, Zenon DEF Stream!Next

\* Who takes watchers from the tree detaches them.
LEMMA MapDetach ==
  ASSUME NEW ws \in SUBSET Watchers, \A w \in ws : phaseBar[w] # "new", received' = received,
         \A w \in Watchers :
            /\ interestBar'[w] = interestBar[w] /\ streamBar'[w] = streamBar[w]
            /\ phaseBar'[w] = IF w \in ws THEN "detached" ELSE phaseBar[w]
  PROVE  Stream!Next
  <1>1. /\ interestBar' = interestBar /\ streamBar' = streamBar
        /\ phaseBar' = [w \in Watchers |-> IF w \in ws THEN "detached" ELSE phaseBar[w]]
    BY Mapped, MappedNext DEF IsMap
  <1>2. Stream!Detach(ws)
    BY <1>1, Zenon DEF Stream!Detach, interestBar, phaseBar, streamBar
  <1> QED BY <1>2, Zenon DEF Stream!Next

-----------------------------------------------------------------------------
(* What the abstract variables are, before and after a step *)

owedBar == [w \in Watchers |-> Owed(w)]

Views ==
    \A w \in Watchers :
        /\ consumer[w] = "none" => interestBar[w] = {} /\ phaseBar[w] = "new"
        /\ consumer[w] # "none" =>
             /\ interestBar[w] = {k \in Keys : watch[w] = << >> \/ \E p \in ToSet(watch[w]) : IsPrefix(p, k)}
             /\ w \notin tree \ overflowed => phaseBar[w] = "detached"
             /\ w \in tree \ overflowed /\ init => phaseBar[w] = "attached"
             /\ w \in tree \ overflowed /\ ~init => phaseBar[w] = "waiting"
        /\ streamBar[w] = (received[w] \o eventsC[w] \o backlog[w]) \o owedBar[w]

OwedViews ==
    \A w \in Watchers :
        /\ batch = << >> \/ w \notin tree \ overflowed \/ (\A visit \in walk : visit[1] # w)
             => owedBar[w] = << >>
        /\ \A p : batch # << >> /\ w \in tree \ overflowed /\ <<w, p>> \in walk
                  /\ (\A visit \in walk : visit[1] = w => visit = <<w, p>>)
             => owedBar[w] = <<batch[1]>>

LEMMA ViewsHold == Views
  BY DEF Views, interestBar, phaseBar, streamBar, owedBar, Asked, Attached

LEMMA ViewsNext == Views'
  BY ViewsHold, PTL

LEMMA OwedViewsHold == OwedViews
  <1> SUFFICES ASSUME NEW w \in Watchers
               PROVE  /\ batch = << >> \/ w \notin tree \ overflowed \/ (\A visit \in walk : visit[1] # w)
                           => owedBar[w] = << >>
                      /\ \A p : batch # << >> /\ w \in tree \ overflowed /\ <<w, p>> \in walk
                                /\ (\A visit \in walk : visit[1] = w => visit = <<w, p>>)
                           => owedBar[w] = <<batch[1]>>
    BY DEF OwedViews
  <1> DEFINE visits == {visit \in walk : visit[1] = w}
  <1>1. owedBar[w] = IF batch = << >> \/ ~(w \in tree \ overflowed) THEN << >>
                     ELSE [i \in 1..Cardinality(visits) |-> batch[1]]
    BY DEF owedBar, Owed, Attached
  <1>2. ASSUME \A visit \in walk : visit[1] # w PROVE [i \in 1..Cardinality(visits) |-> batch[1]] = << >>
    <2>1. visits = {}
      BY <1>2
    <2>2. Cardinality(visits) = 0
      BY <2>1, FS_EmptySet
    <2> HIDE DEF visits
    <2> QED BY <2>2
  <1>3. ASSUME NEW p, <<w, p>> \in walk, \A visit \in walk : visit[1] = w => visit = <<w, p>>
        PROVE  [i \in 1..Cardinality(visits) |-> batch[1]] = <<batch[1]>>
    <2>1. visits = {<<w, p>>}
      BY <1>3
    <2>2. Cardinality(visits) = 1
      BY <2>1, FS_Singleton
    <2> HIDE DEF visits
    <2> QED BY <2>2
  <1> HIDE DEF visits
  <1> QED BY <1>1, <1>2, <1>3, Zenon

LEMMA OwedViewsNext == OwedViews'
  BY OwedViewsHold, PTL

\* A step that moves events along and loses none.
LEMMA StreamKept ==
  ASSUME NEW w \in Watchers, owedBar'[w] = owedBar[w],
         received'[w] \o eventsC'[w] \o backlog'[w] = received[w] \o eventsC[w] \o backlog[w]
  PROVE  streamBar'[w] = streamBar[w]
  <1>1. streamBar[w] = (received[w] \o eventsC[w] \o backlog[w]) \o owedBar[w]
    BY ViewsHold, Zenon DEF Views
  <1>2. streamBar'[w] = (received'[w] \o eventsC'[w] \o backlog'[w]) \o owedBar'[w]
    BY ViewsNext, Zenon DEF Views
  <1> QED BY <1>1, <1>2

\* A watcher for which a step changes nothing that can be seen.
LEMMA KeepsFact ==
  ASSUME NEW w \in Watchers, consumer'[w] = "none" <=> consumer[w] = "none", watch'[w] = watch[w],
         w \in tree' \ overflowed' <=> w \in tree \ overflowed,
         (init' <=> init) \/ w \notin tree \ overflowed,
         received'[w] \o eventsC'[w] \o backlog'[w] = received[w] \o eventsC[w] \o backlog[w],
         owedBar'[w] = owedBar[w]
  PROVE  Keeps(w)
  <1>1. streamBar'[w] = streamBar[w]
    BY StreamKept
  <1>3. interestBar'[w] = interestBar[w]
    <2>1. CASE consumer[w] = "none"
      BY <2>1, ViewsHold, ViewsNext, Zenon DEF Views
    <2>2. CASE consumer[w] # "none"
      BY <2>2, ViewsHold, ViewsNext, Zenon DEF Views
    <2> QED BY <2>1, <2>2
  <1>2. phaseBar'[w] = phaseBar[w]
    <2>1. CASE consumer[w] = "none"
      BY <2>1, ViewsHold, ViewsNext, Zenon DEF Views
    <2>2. CASE consumer[w] # "none" /\ w \notin tree \ overflowed
      BY <2>2, ViewsHold, ViewsNext, Zenon DEF Views
    <2>3. CASE consumer[w] # "none" /\ w \in tree \ overflowed
      <3>1. CASE init
        BY <2>3, <3>1, ViewsHold, ViewsNext, Zenon DEF Views
      <3>2. CASE ~init
        BY <2>3, <3>2, ViewsHold, ViewsNext, Zenon DEF Views
      <3> QED BY <3>1, <3>2
    <2> QED BY <2>1, <2>2, <2>3
  <1> QED BY <1>1, <1>2, <1>3 DEF Keeps

-----------------------------------------------------------------------------
(* The queue *)

\* flushBacklog moves events, and loses or reorders none.
LEMMA FlushKeeps ==
  ASSUME TypeOK, NEW w \in Watchers
  PROVE  flushBacklog(w).chan \o flushBacklog(w).rest = eventsC[w] \o backlog[w]
  <1> DEFINE all == eventsC[w] \o backlog[w]
             n == IF Len(all) =< capacity[w] THEN Len(all) ELSE capacity[w]
  <1>1. eventsC[w] \in Seq(Events) /\ backlog[w] \in Seq(Events) /\ capacity[w] \in Nat
    BY DEF TypeOK
  <1>2. all \in Seq(Events)
    BY <1>1, ConcatProperties
  <1>3. flushBacklog(w).chan = SubSeq(all, 1, n) /\ flushBacklog(w).rest = SubSeq(all, n + 1, Len(all))
    BY DEF flushBacklog
  <1> HIDE DEF all
  <1>4. Len(all) \in Nat
    BY <1>2, LenProperties
  <1>5. n \in 0..Len(all)
    BY <1>1, <1>4
  <1> HIDE DEF n
  <1>6. 1 \in 1..(Len(all) + 1) /\ n \in (1 - 1)..Len(all) /\ Len(all) \in n..Len(all)
    BY <1>4, <1>5
  <1>7. SubSeq(all, 1, n) \o SubSeq(all, n + 1, Len(all)) = SubSeq(all, 1, Len(all))
    BY <1>2, <1>6, ConcatAdjacentSubSeq
  <1>8. SubSeq(all, 1, Len(all)) = all
    BY <1>2, SubSeqFull
  <1> QED BY <1>3, <1>7, <1>8 DEF all

\* The order in which the parts of a stream are joined does not matter.
LEMMA ConcatLaw == \A r, e, b \in Seq(Events) : (r \o e) \o b = r \o (e \o b)
  BY ConcatAssociative

\* Two parts of a stream make a sequence of events.
LEMMA ConcatType == \A r, e \in Seq(Events) : r \o e \in Seq(Events)
  BY ConcatProperties

\* Nothing joined with nothing is nothing.
LEMMA ConcatIsEmpty == \A r, e \in Seq(Events) : r \o e = << >> => r = << >> /\ e = << >>
  BY ConcatEqualIffEmpty

\* BufferWatcher.emit puts the event at the end, whether it goes into the channel
\* or into the backlog.
LEMMA EmitAppends ==
  ASSUME TypeOK, NEW w \in Watchers, NEW e \in Events, emit(w, e)
  PROVE  eventsC'[w] \o backlog'[w] = (eventsC[w] \o backlog[w]) \o <<e>>
  <1> DEFINE chan == flushBacklog(w).chan
             rest == flushBacklog(w).rest
             all == eventsC[w] \o backlog[w]
  <1>1. chan \in Seq(Events) /\ rest \in Seq(Events) /\ chan \o rest = all
    BY FlushFact, FlushKeeps
  <1>2. \A c, r, since : Queue(w, c, r, since) => eventsC'[w] = c /\ backlog'[w] = r
    BY DEF Queue, TypeOK
  <1>3. \/ eventsC'[w] = chan /\ backlog'[w] = Append(rest, e)
        \/ rest = << >> /\ eventsC'[w] = Append(chan, e) /\ backlog'[w] = << >>
        \/ rest = << >> /\ eventsC'[w] = chan /\ backlog'[w] = <<e>>
    BY <1>2, Zenon DEF emit
  <1>4. all \in Seq(Events)
    BY <1>1, ConcatProperties
  <1>5. <<e>> \in Seq(Events)
    <2> HIDE DEF Events
    <2> QED OBVIOUS
  <1> HIDE DEF chan, rest, all
  <1>6. rest = << >> => chan = all
    BY <1>1, ConcatEmptySeq
  <1>7. CASE eventsC'[w] = chan /\ backlog'[w] = Append(rest, e)
    <2>1. Append(rest, e) = rest \o <<e>>
      BY <1>1, AppendIsConcat
    <2>2. chan \o (rest \o <<e>>) = (chan \o rest) \o <<e>>
      BY <1>1, <1>5, ConcatLaw
    <2> QED BY <1>1, <1>7, <2>1, <2>2 DEF all
  <1>8. CASE rest = << >> /\ eventsC'[w] = Append(chan, e) /\ backlog'[w] = << >>
    <2>1. Append(all, e) = all \o <<e>> /\ Append(all, e) \in Seq(Events)
      BY <1>4, AppendIsConcat, AppendProperties
    <2>2. Append(all, e) \o << >> = Append(all, e)
      BY <2>1, ConcatEmptySeq
    <2> QED BY <1>6, <1>8, <2>1, <2>2 DEF all
  <1>9. CASE rest = << >> /\ eventsC'[w] = chan /\ backlog'[w] = <<e>>
    BY <1>6, <1>9 DEF all
  <1> QED BY <1>3, <1>7, <1>8, <1>9

\* A flush on its own, by Events() or by an emit that returns false.
LEMMA FlushedKeeps ==
  ASSUME TypeOK, NEW w \in Watchers, NEW since,
         Queue(w, flushBacklog(w).chan, flushBacklog(w).rest, since)
  PROVE  eventsC'[w] \o backlog'[w] = eventsC[w] \o backlog[w]
  <1>1. eventsC'[w] = flushBacklog(w).chan /\ backlog'[w] = flushBacklog(w).rest
    BY DEF Queue, TypeOK
  <1> QED BY <1>1, FlushKeeps

-----------------------------------------------------------------------------
(* The inductive invariant *)

\* What removeRedundantPrefixes is for: the prefixes a watcher is registered with
\* match the keys it asked for, and each of them once.
MatchedOnce ==
    \A list \in Watches, k \in Keys :
        /\ (list = << >> \/ \E p \in ToSet(list) : IsPrefix(p, k)) <=> (\E p \in Kept(list) : IsPrefix(p, k))
        /\ \A p, q \in Kept(list) : IsPrefix(p, k) /\ IsPrefix(q, k) => p = q

Untouched(w) == received[w] = << >> /\ eventsC[w] = << >> /\ backlog[w] = << >>

\* A watcher that is not there yet has received nothing; one that is has the
\* prefixes that are kept of those it asked for.
Registered ==
    \A w \in Watchers : /\ consumer[w] = "none" => Untouched(w)
                        /\ consumer[w] # "none" => watch[w] \in Watches /\ prefixes[w] = Kept(watch[w])

\* Before SetInit nothing is emitted, and nobody in the tree has received anything.
Waiting == ~init => batch = << >> /\ \A w \in tree : Untouched(w)

KeysEmitted == \A i \in 1..Len(batch) : batch[i].key \in Keys

\* Those who are still to be called for an event match it, and have not overflowed.
Due == \A visit \in walk : \E w \in tree \ overflowed : \E p \in prefixes[w] :
           visit = <<w, p>> /\ IsPrefix(p, batch[1].key)

MapInv == Registered /\ Waiting /\ KeysEmitted /\ Due

-----------------------------------------------------------------------------
(* Steps that change neither the tree nor the emission *)

\* What is owed depends on the emission and the tree only.
LEMMA OwedKept ==
  ASSUME UNCHANGED <<batch, walk, overflowed, tree>>
  PROVE  owedBar' = owedBar
  BY Zenon DEF owedBar, Owed, Attached

\* Outside Emit nothing is owed.
LEMMA OwedNothing ==
  ASSUME batch = << >>, batch' = << >>, NEW w \in Watchers
  PROVE  owedBar[w] = << >> /\ owedBar'[w] = << >>
  BY OwedViewsHold, OwedViewsNext, Zenon DEF OwedViews

\* A watcher that is still to be called for an event has one visit to come.
LEMMA OneVisit ==
  ASSUME MatchedOnce, TypeOK, Quiet, MapInv, NEW visit \in walk
  PROVE  \E w \in tree \ overflowed : \E p \in prefixes[w] :
            /\ visit = <<w, p>> /\ batch # << >> /\ init
            /\ \A other \in walk : other[1] = w => other = visit
  <1>1. PICK w \in tree \ overflowed : \E p \in prefixes[w] : visit = <<w, p>> /\ IsPrefix(p, batch[1].key)
    BY Zenon DEF MapInv, Due
  <1>2. PICK p \in prefixes[w] : visit = <<w, p>> /\ IsPrefix(p, batch[1].key)
    BY <1>1
  <1>3. batch # << >> /\ init
    BY Zenon DEF Quiet, Unlocked, MapInv, Waiting
  <1>4. batch[1].key \in Keys
    <2>1. batch \in Seq(Events)
      BY DEF TypeOK
    <2>2. 1 \in 1..Len(batch)
      BY <1>3, <2>1, EmptySeq, LenProperties
    <2> QED BY <2>2, Zenon DEF MapInv, KeysEmitted
  <1>5. watch[w] \in Watches /\ prefixes[w] = Kept(watch[w])
    <2>1. w \in Watchers /\ consumer[w] # "none"
      BY DEF TypeOK
    <2> QED BY <2>1, Zenon DEF MapInv, Registered
  <1>6. ASSUME NEW other \in walk, other[1] = w PROVE other = visit
    <2>1. PICK v \in tree \ overflowed : \E q \in prefixes[v] : other = <<v, q>> /\ IsPrefix(q, batch[1].key)
      BY Zenon DEF MapInv, Due
    <2>2. PICK q \in prefixes[v] : other = <<v, q>> /\ IsPrefix(q, batch[1].key)
      BY <2>1
    <2>3. v = w
      BY <1>6, <2>2
    <2>4. q = p
      <3>1. p \in Kept(watch[w]) /\ q \in Kept(watch[w])
        BY <1>2, <1>5, <2>2, <2>3
      <3> QED BY <1>2, <1>4, <1>5, <2>2, <3>1, Zenon DEF MatchedOnce
    <2> QED BY <1>2, <2>2, <2>3, <2>4
  <1> QED BY <1>1, <1>2, <1>3, <1>6, Zenon

\* So at most the event that is being fanned out is owed.
LEMMA OwedType ==
  ASSUME MatchedOnce, TypeOK, Quiet, MapInv, NEW w \in Watchers
  PROVE  owedBar[w] \in Seq(Events)
  <1>1. CASE batch = << >> \/ w \notin tree \ overflowed \/ (\A visit \in walk : visit[1] # w)
    <2>1. owedBar[w] = << >>
      BY <1>1, OwedViewsHold, Zenon DEF OwedViews
    <2> QED BY <2>1, EmptySeq
  <1>2. CASE batch # << >> /\ w \in tree \ overflowed /\ \E visit \in walk : visit[1] = w
    <2>1. PICK visit \in walk : visit[1] = w
      BY <1>2
    <2>2. PICK v \in tree \ overflowed : \E p \in prefixes[v] :
              visit = <<v, p>> /\ \A other \in walk : other[1] = v => other = visit
      BY OneVisit, Zenon
    <2>3. PICK p \in prefixes[v] : visit = <<v, p>> /\ \A other \in walk : other[1] = v => other = visit
      BY <2>2
    <2>4. v = w
      BY <2>1, <2>3
    <2>5. owedBar[w] = <<batch[1]>>
      BY <1>2, <2>3, <2>4, OwedViewsHold, Zenon DEF OwedViews
    <2>6. batch \in Seq(Events)
      BY DEF TypeOK
    <2>7. batch[1] \in Events
      <3> HIDE DEF Events
      <3> QED BY <1>2, <2>6
    <2> QED BY <2>5, <2>7
  <1> QED BY <1>1, <1>2, Zenon

\* A step of an owner that moves no event out of the queue of its watcher.
LEMMA OwnerKeeps ==
  ASSUME MapInv, UNCHANGED <<init, batch, walk, overflowed, tree, watch, prefixes, received>>,
         \A w \in Watchers : /\ consumer'[w] = "none" <=> consumer[w] = "none"
                             /\ consumer[w] = "none" => eventsC'[w] = eventsC[w] /\ backlog'[w] = backlog[w]
                             /\ ~init /\ w \in tree => eventsC'[w] = eventsC[w] /\ backlog'[w] = backlog[w]
                             /\ received'[w] \o eventsC'[w] \o backlog'[w] = received[w] \o eventsC[w] \o backlog[w],
         tree \subseteq Watchers
  PROVE  MapInv' /\ UNCHANGED Stream!vars
  <1>1. ASSUME NEW w \in Watchers PROVE Keeps(w)
    <2>1. owedBar'[w] = owedBar[w]
      BY OwedKept, Zenon
    <2> QED BY <2>1, KeepsFact
  <1>2. UNCHANGED Stream!vars
    BY <1>1, MapStutter
  <1>3. Registered'
    BY Zenon DEF MapInv, Registered, Untouched
  <1>4. Waiting'
    BY Zenon DEF MapInv, Waiting, Untouched
  <1>5. KeysEmitted' /\ Due'
    BY Zenon DEF MapInv, KeysEmitted, Due
  <1> QED BY <1>2, <1>3, <1>4, <1>5 DEF MapInv

\* Events() only moves events from the backlog into the channel.
LEMMA CallMaps ==
  ASSUME TypeOK, MapInv, NEW w \in Watchers, CallEvents(w)
  PROVE  MapInv' /\ UNCHANGED Stream!vars
  <1>0. WatcherTypes /\ QueueTypes /\ ControlTypes
    BY TypeParts
  <1>1. UNCHANGED <<init, batch, walk, overflowed, tree, watch, prefixes, received>>
    BY Zenon DEF CallEvents, buffer, emission
  <1>2. PICK since : Queue(w, flushBacklog(w).chan, flushBacklog(w).rest, since)
    BY Zenon DEF CallEvents
  <1>3. eventsC'[w] \o backlog'[w] = eventsC[w] \o backlog[w]
    BY <1>2, FlushedKeeps
  <1>4. QueueTypes' /\ \A v \in Watchers \ {w} : eventsC'[v] = eventsC[v] /\ backlog'[v] = backlog[v]
    BY CallServes, ServedFact, Zenon
  <1>5. \A v \in Watchers : consumer'[v] = "none" <=> consumer[v] = "none"
    BY <1>0 DEF CallEvents, WatcherTypes
  <1>6. consumer[w] # "none"
    BY DEF CallEvents
  <1>7. /\ received[w] \in Seq(Events) /\ eventsC[w] \in Seq(Events) /\ backlog[w] \in Seq(Events)
        /\ eventsC'[w] \in Seq(Events) /\ backlog'[w] \in Seq(Events) /\ received'[w] = received[w]
    <2>1. eventsC' \in [Watchers -> Seq(Events)] /\ backlog' \in [Watchers -> Seq(Events)]
      BY <1>4, Zenon DEF QueueTypes, Events, InitEvent
    <2> QED BY <1>0, <1>1, <2>1, Zenon DEF WatcherTypes, QueueTypes
  <1>8. received'[w] \o eventsC'[w] \o backlog'[w] = received[w] \o eventsC[w] \o backlog[w]
    <2>1. received[w] \o eventsC[w] \o backlog[w] = received[w] \o (eventsC[w] \o backlog[w])
      BY <1>7, ConcatLaw
    <2>2. received'[w] \o eventsC'[w] \o backlog'[w] = received'[w] \o (eventsC'[w] \o backlog'[w])
      <3>1. received'[w] \in Seq(Events)
        BY <1>7
      <3> QED BY <1>7, <3>1, ConcatLaw
    <2> QED BY <1>3, <1>7, <2>1, <2>2
  <1>9. ASSUME Untouched(w) PROVE eventsC'[w] = eventsC[w] /\ backlog'[w] = backlog[w]
    <2>1. eventsC'[w] \o backlog'[w] = << >> \o << >>
      BY <1>3, <1>9 DEF Untouched
    <2>2. << >> \o << >> = << >>
      OBVIOUS
    <2>3. eventsC'[w] = << >> /\ backlog'[w] = << >>
      BY <1>7, <2>1, <2>2, ConcatIsEmpty, Zenon
    <2> QED BY <1>9, <2>3 DEF Untouched
  <1>10. ASSUME NEW v \in Watchers
         PROVE  /\ consumer[v] = "none" => eventsC'[v] = eventsC[v] /\ backlog'[v] = backlog[v]
                /\ ~init /\ v \in tree => eventsC'[v] = eventsC[v] /\ backlog'[v] = backlog[v]
                /\ received'[v] \o eventsC'[v] \o backlog'[v] = received[v] \o eventsC[v] \o backlog[v]
    <2>1. CASE v = w
      BY <1>6, <1>8, <1>9, <2>1, Zenon DEF MapInv, Waiting
    <2>2. CASE v # w
      BY <1>1, <1>4, <2>2, Zenon
    <2> QED BY <2>1, <2>2
  <1>11. tree \subseteq Watchers
    BY <1>0 DEF ControlTypes
  <1> QED BY <1>1, <1>5, <1>10, <1>11, OwnerKeeps, Zenon

\* Close of a watcher, the end of its context and the clock move no event.
LEMMA CloseMaps ==
  ASSUME TypeOK, MapInv, \/ Tick \/ UNCHANGED vars
                         \/ \E w \in Watchers : CloseWatcher(w) \/ CancelContext(w)
  PROVE  MapInv' /\ UNCHANGED Stream!vars
  <1>0. WatcherTypes /\ ControlTypes
    BY TypeParts
  <1>1. UNCHANGED <<init, batch, walk, overflowed, tree, watch, prefixes, received, eventsC, backlog>>
    BY Zenon DEF CloseWatcher, CancelContext, Tick, buffer, emission, queues, owner, vars
  <1>2. ASSUME NEW v \in Watchers PROVE consumer'[v] = "none" <=> consumer[v] = "none"
    BY <1>0 DEF CloseWatcher, CancelContext, Tick, owner, WatcherTypes, vars
  <1>3. tree \subseteq Watchers
    BY <1>0 DEF ControlTypes
  <1> QED BY <1>1, <1>2, <1>3, OwnerKeeps, Zenon

\* A receive takes the next event of the stream.
LEMMA ReceiveMaps ==
  ASSUME MatchedOnce, TypeOK, Quiet, MapInv, NEW w \in Watchers, Receive(w)
  PROVE  MapInv' /\ Stream!Next
  <1>0. WatcherTypes /\ QueueTypes /\ ControlTypes
    BY TypeParts
  <1>1. UNCHANGED <<init, batch, walk, overflowed, tree, watch, prefixes, backlog>>
    BY Zenon DEF Receive, buffer, emission
  <1> DEFINE r == received[w]
             c == eventsC[w]
             b == backlog[w]
             o == owedBar[w]
             e == Head(c)
  <1>2. r \in Seq(Events) /\ c \in Seq(Events) /\ b \in Seq(Events) /\ c # << >> /\ consumer[w] = "receive"
    BY <1>0 DEF WatcherTypes, QueueTypes, Receive
  <1>3. /\ \A v \in Watchers \ {w} : received'[v] = received[v] /\ eventsC'[v] = eventsC[v]
        /\ received' = [received EXCEPT ![w] = Append(r, e)] /\ received'[w] = Append(r, e) /\ eventsC'[w] = Tail(c)
    BY <1>0, Zenon DEF Receive, WatcherTypes, QueueTypes
  <1>4. \A v \in Watchers : consumer'[v] = "none" <=> consumer[v] = "none"
    BY <1>0 DEF Receive, WatcherTypes
  <1>5. e \in Events /\ Tail(c) \in Seq(Events) /\ c = <<e>> \o Tail(c)
    BY <1>2, HeadTailProperties
  <1>6. Append(r, e) = r \o <<e>> /\ <<e>> \in Seq(Events)
    <2> HIDE DEF e, Events
    <2> QED BY <1>2, <1>5, AppendIsConcat
  <1>7. received'[w] \o eventsC'[w] \o backlog'[w] = r \o c \o b
    <2>1. (r \o <<e>>) \o Tail(c) = r \o c
      <3>1. (r \o <<e>>) \o Tail(c) = r \o (<<e>> \o Tail(c))
        <4> HIDE DEF r, c, e
        <4> QED BY <1>2, <1>5, <1>6, ConcatLaw
      <3> QED BY <1>5, <3>1
    <2> QED BY <1>1, <1>3, <1>6, <2>1, Zenon
  <1>8. ASSUME NEW v \in Watchers PROVE Keeps(v)
    <2>1. owedBar'[v] = owedBar[v]
      BY <1>1, OwedKept, Zenon
    <2>2. received'[v] \o eventsC'[v] \o backlog'[v] = received[v] \o eventsC[v] \o backlog[v]
      BY <1>1, <1>3, <1>7, Zenon
    <2> QED BY <1>1, <1>4, <2>1, <2>2, KeepsFact
  <1>9. Len(r) < Len(streamBar[w]) /\ streamBar[w][Len(r) + 1] = e
    <2>1. o \in Seq(Events)
      BY OwedType
    <2>2. streamBar[w] = (r \o c \o b) \o o
      BY ViewsHold, Zenon DEF Views
    <2>3. (r \o c \o b) \o o = r \o (c \o (b \o o)) /\ b \o o \in Seq(Events)
      <3> HIDE DEF r, c, b, o
      <3>1. r \o c \in Seq(Events) /\ b \o o \in Seq(Events)
        BY <1>2, <2>1, ConcatType, Zenon
      <3>2. ((r \o c) \o b) \o o = (r \o c) \o (b \o o)
        BY <1>2, <2>1, <3>1, ConcatLaw
      <3>3. (r \o c) \o (b \o o) = r \o (c \o (b \o o))
        BY <1>2, <3>1, ConcatLaw
      <3> QED BY <3>1, <3>2, <3>3
    <2> DEFINE t == b \o o
    <2>4. c \o t \in Seq(Events) /\ Len(c \o t) = Len(c) + Len(t) /\ (c \o t)[1] = c[1]
          /\ Len(c) \in Nat /\ Len(c) > 0 /\ Len(t) \in Nat
      <3>1. t \in Seq(Events)
        BY <2>3
      <3> HIDE DEF t, c, Events
      <3> QED BY <1>2, <3>1, ConcatProperties, LenProperties
    <2> DEFINE u == c \o t
    <2>5. Len(r \o u) = Len(r) + Len(u) /\ (r \o u)[Len(r) + 1] = u[1] /\ Len(r) \in Nat /\ Len(u) > 0
      <3>1. u \in Seq(Events) /\ Len(u) > 0 /\ Len(u) \in Nat
        <4> HIDE DEF t, c
        <4> QED BY <2>4
      <3> HIDE DEF u, r, Events
      <3> QED BY <1>2, <3>1, ConcatProperties, LenProperties
    <2>6. c[1] = e
      BY <1>2
    <2> HIDE DEF r, c, b, o, e, t
    <2>7. Len(u) \in Nat
      BY <2>4
    <2> QED BY <2>2, <2>3, <2>4, <2>5, <2>6, <2>7 DEF t
  <1>10. Stream!Next
    BY <1>3, <1>8, <1>9, MapReceive
  <1>11. init \/ w \notin tree
    BY <1>2 DEF MapInv, Waiting, Untouched
  <1>12. Registered'
    <2> SUFFICES ASSUME NEW v \in Watchers
                 PROVE  /\ consumer'[v] = "none" => received'[v] = << >> /\ eventsC'[v] = << >> /\ backlog'[v] = << >>
                        /\ consumer'[v] # "none" => watch'[v] \in Watches /\ prefixes'[v] = Kept(watch'[v])
      BY Zenon DEF Registered, Untouched
    <2>1. v # w \/ consumer[v] # "none"
      BY <1>2
    <2> QED BY <1>1, <1>3, <1>4, <2>1, Zenon DEF MapInv, Registered, Untouched
  <1>13. Waiting'
    <2> SUFFICES ASSUME ~init', NEW v \in tree'
                 PROVE  batch' = << >> /\ received'[v] = << >> /\ eventsC'[v] = << >> /\ backlog'[v] = << >>
      BY <1>1, Zenon DEF Waiting, Untouched, MapInv
    <2>1. v \in Watchers \ {w}
      BY <1>0, <1>1, <1>11 DEF ControlTypes
    <2> QED BY <1>1, <1>3, <2>1, Zenon DEF MapInv, Waiting, Untouched
  <1>14. KeysEmitted' /\ Due'
    BY <1>1, Zenon DEF MapInv, KeysEmitted, Due
  <1> QED BY <1>10, <1>12, <1>13, <1>14 DEF MapInv

-----------------------------------------------------------------------------
(* The operations of the buffer *)

\* NewWatcher registers a watcher that has received nothing, or the init event.
LEMMA NewWatcherMaps ==
  ASSUME TypeOK, Quiet, MapInv, NEW w \in Watchers, NEW list \in Watches, NEW size \in QueueSizes,
         NewWatcher(w, list, size)
  PROVE  MapInv' /\ Stream!Next
  <1>0. WatcherTypes /\ QueueTypes /\ ControlTypes /\ EmissionTypes
    BY TypeParts
  <1>1. /\ UNCHANGED <<init, batch, walk, overflowed, received, backlog>>
        /\ tree' = tree \cup {w} /\ batch = << >> /\ consumer[w] = "none" /\ walk = {} /\ overflowed = {}
    BY Zenon DEF NewWatcher, emission, Unlocked, Quiet
  <1>2. /\ \A v \in Watchers \ {w} : /\ watch'[v] = watch[v] /\ prefixes'[v] = prefixes[v]
                                     /\ eventsC'[v] = eventsC[v] /\ consumer'[v] = consumer[v]
        /\ watch'[w] = list /\ prefixes'[w] = Kept(list) /\ consumer'[w] = "events"
        /\ eventsC'[w] = IF init THEN <<InitEvent>> ELSE << >>
    BY <1>0 DEF NewWatcher, WatcherTypes, QueueTypes
  <1>3. Untouched(w)
    BY <1>1, Zenon DEF MapInv, Registered
  <1>4. ASSUME NEW v \in Watchers PROVE owedBar[v] = << >> /\ owedBar'[v] = << >>
    BY <1>1, OwedNothing
  <1>5. ASSUME NEW v \in Watchers \ {w} PROVE Keeps(v)
    BY <1>1, <1>2, <1>4, KeepsFact
  <1>6. PICK keys \in SUBSET Keys : interestBar'[w] = keys
    <2>1. consumer'[w] # "none"
      BY <1>2
    <2> QED BY <2>1, ViewsNext, Zenon DEF Views
  <1>7. phaseBar[w] = "new" /\ streamBar[w] = << >>
    <2>1. streamBar[w] = (<< >> \o << >> \o << >>) \o << >>
      BY <1>3, <1>4, ViewsHold, Zenon DEF Views, Untouched
    <2>2. (<< >> \o << >> \o << >>) \o << >> = << >>
      OBVIOUS
    <2> QED BY <1>1, <2>1, <2>2, ViewsHold, Zenon DEF Views
  <1>8. \/ phaseBar'[w] = "waiting" /\ streamBar'[w] = streamBar[w]
        \/ phaseBar'[w] = "attached" /\ streamBar'[w] = <<InitEvent>>
    <2>1. consumer'[w] # "none" /\ w \in tree' \ overflowed' /\ (init' <=> init)
      BY <1>1, <1>2
    <2>2. streamBar'[w] = (<< >> \o eventsC'[w] \o << >>) \o << >>
      BY <1>1, <1>3, <1>4, ViewsNext, Zenon DEF Views, Untouched
    <2>3. CASE init
      <3>1. phaseBar'[w] = "attached"
        BY <2>1, <2>3, ViewsNext, Zenon DEF Views
      <3>2. (<< >> \o <<InitEvent>> \o << >>) \o << >> = <<InitEvent>>
        OBVIOUS
      <3> QED BY <1>2, <2>2, <2>3, <3>1, <3>2
    <2>4. CASE ~init
      <3>1. phaseBar'[w] = "waiting"
        BY <2>1, <2>4, ViewsNext, Zenon DEF Views
      <3>2. (<< >> \o << >> \o << >>) \o << >> = << >>
        OBVIOUS
      <3> QED BY <1>2, <1>7, <2>2, <2>4, <3>1, <3>2
    <2> QED BY <2>3, <2>4
  <1>9. Stream!Next
    BY <1>1, <1>5, <1>6, <1>7, <1>8, MapRegister
  <1>10. Registered'
    <2> SUFFICES ASSUME NEW v \in Watchers
                 PROVE  /\ consumer'[v] = "none" => received'[v] = << >> /\ eventsC'[v] = << >> /\ backlog'[v] = << >>
                        /\ consumer'[v] # "none" => watch'[v] \in Watches /\ prefixes'[v] = Kept(watch'[v])
      BY Zenon DEF Registered, Untouched
    <2>1. CASE v = w
      BY <1>2, <2>1
    <2>2. CASE v # w
      BY <1>1, <1>2, <2>2, Zenon DEF MapInv, Registered, Untouched
    <2> QED BY <2>1, <2>2
  <1>11. Waiting'
    <2> SUFFICES ASSUME ~init', NEW v \in tree'
                 PROVE  received'[v] = << >> /\ eventsC'[v] = << >> /\ backlog'[v] = << >>
      BY <1>1, Zenon DEF Waiting, Untouched
    <2>1. CASE v = w
      BY <1>1, <1>2, <1>3, <2>1 DEF Untouched
    <2>2. CASE v # w
      <3>1. v \in tree /\ v \in Watchers \ {w}
        BY <1>0, <1>1, <2>2 DEF ControlTypes
      <3> QED BY <1>1, <1>2, <3>1, Zenon DEF MapInv, Waiting, Untouched
    <2> QED BY <2>1, <2>2
  <1>12. KeysEmitted' /\ Due'
    <2>1. KeysEmitted'
      BY <1>1, Zenon DEF MapInv, KeysEmitted
    <2>2. Due'
      BY <1>1 DEF Due
    <2> QED BY <2>1, <2>2
  <1> QED BY <1>9, <1>10, <1>11, <1>12 DEF MapInv

\* SetInit starts the streams of the watchers that wait in the tree.
LEMMA SetInitMaps ==
  ASSUME TypeOK, Quiet, MapInv, SetInit
  PROVE  MapInv' /\ Stream!Next
  <1>0. WatcherTypes /\ QueueTypes /\ ControlTypes /\ \A v \in Watchers : Sized(v)
    BY TypeParts
  <1>1. /\ UNCHANGED <<tree, watch, prefixes, consumer, batch, walk, overflowed, received, backlog>>
        /\ batch = << >> /\ ~init /\ init' /\ walk = {} /\ overflowed = {}
    BY Zenon DEF SetInit, emission, owner, Unlocked, Quiet
  <1>2. \A v \in Watchers : eventsC'[v] = IF v \in tree THEN <<InitEvent>> ELSE eventsC[v]
    BY Zenon DEF SetInit
  <1>3. \A v \in tree : Untouched(v) /\ v \in Watchers /\ consumer[v] # "none"
    <2>1. \A v \in tree : v \in Watchers /\ consumer[v] # "none"
      BY <1>0 DEF ControlTypes, Sized, WatcherTypes
    <2> QED BY <1>1, <2>1, Zenon DEF MapInv, Waiting
  <1>4. ASSUME NEW v \in Watchers PROVE owedBar[v] = << >> /\ owedBar'[v] = << >>
    BY <1>1, OwedNothing
  <1>5. ASSUME NEW v \in Watchers
        PROVE  /\ interestBar'[v] = interestBar[v]
               /\ phaseBar'[v] = IF phaseBar[v] = "waiting" THEN "attached" ELSE phaseBar[v]
               /\ streamBar'[v] = IF phaseBar[v] = "waiting" THEN <<InitEvent>> ELSE streamBar[v]
    <2>1. CASE v \in tree
      <3>1. phaseBar[v] = "waiting"
        BY <1>1, <1>3, <2>1, ViewsHold, Zenon DEF Views
      <3>2. phaseBar'[v] = "attached"
        BY <1>1, <1>3, <2>1, ViewsNext, Zenon DEF Views
      <3>3. interestBar'[v] = interestBar[v]
        BY <1>1, <1>3, <2>1, ViewsHold, ViewsNext, Zenon DEF Views
      <3>4. streamBar'[v] = (<< >> \o <<InitEvent>> \o << >>) \o << >>
        BY <1>1, <1>2, <1>3, <1>4, <2>1, ViewsNext, Zenon DEF Views, Untouched
      <3>5. (<< >> \o <<InitEvent>> \o << >>) \o << >> = <<InitEvent>>
        OBVIOUS
      <3> QED BY <3>1, <3>2, <3>3, <3>4, <3>5
    <2>2. CASE v \notin tree
      <3>1. Keeps(v)
        BY <1>1, <1>2, <1>4, <2>2, KeepsFact
      <3>2. phaseBar[v] # "waiting"
        <4>1. phaseBar[v] = "new" \/ phaseBar[v] = "detached"
          BY <2>2, ViewsHold, Zenon DEF Views
        <4> QED BY <4>1
      <3> QED BY <3>1, <3>2 DEF Keeps
    <2> QED BY <2>1, <2>2
  <1>6. Stream!Next
    BY <1>1, <1>5, MapStart
  <1>7. Registered'
    <2> SUFFICES ASSUME NEW v \in Watchers
                 PROVE  /\ consumer'[v] = "none" => received'[v] = << >> /\ eventsC'[v] = << >> /\ backlog'[v] = << >>
                        /\ consumer'[v] # "none" => watch'[v] \in Watches /\ prefixes'[v] = Kept(watch'[v])
      BY Zenon DEF Registered, Untouched
    <2>1. consumer[v] = "none" => eventsC'[v] = eventsC[v]
      BY <1>2, <1>3
    <2> QED BY <1>1, <2>1, Zenon DEF MapInv, Registered, Untouched
  <1>8. Waiting' /\ KeysEmitted' /\ Due'
    <2>1. Waiting'
      BY <1>1, Zenon DEF Waiting
    <2>2. KeysEmitted'
      BY <1>1, Zenon DEF MapInv, KeysEmitted
    <2>3. Due'
      BY <1>1, Zenon DEF MapInv, Due
    <2> QED BY <2>1, <2>2, <2>3
  <1> QED BY <1>6, <1>7, <1>8 DEF MapInv

\* Clear, Reset, Close and removeWatcherWithLock take watchers from the tree when
\* nothing is owed to them.
LEMMA RemovalMaps ==
  ASSUME TypeOK, Quiet, MapInv, NEW ws \in SUBSET tree, tree' = tree \ ws,
         Unlocked, (init' <=> init) \/ (~init' /\ ws = tree),
         UNCHANGED <<watch, prefixes, eventsC, backlog, consumer, received, batch, walk, overflowed>>
  PROVE  MapInv' /\ Stream!Next
  <1>0. WatcherTypes /\ ControlTypes /\ \A v \in Watchers : Sized(v)
    BY TypeParts
  <1>1. batch = << >> /\ walk = {} /\ overflowed = {}
    BY Zenon DEF Quiet, Unlocked
  <1>2. \A v \in tree : v \in Watchers /\ consumer[v] # "none"
    BY <1>0 DEF ControlTypes, Sized, WatcherTypes
  <1>3. ASSUME NEW v \in Watchers PROVE owedBar[v] = << >> /\ owedBar'[v] = << >>
    BY <1>1, OwedNothing
  <1>4. \A v \in ws : phaseBar[v] # "new"
    <2> SUFFICES ASSUME NEW v \in ws PROVE phaseBar[v] # "new"
      OBVIOUS
    <2>1. phaseBar[v] = "waiting" \/ phaseBar[v] = "attached"
      BY <1>1, <1>2, ViewsHold, Zenon DEF Views
    <2> QED BY <2>1
  <1>5. ASSUME NEW v \in Watchers
        PROVE  /\ interestBar'[v] = interestBar[v] /\ streamBar'[v] = streamBar[v]
               /\ phaseBar'[v] = IF v \in ws THEN "detached" ELSE phaseBar[v]
    <2>1. CASE v \in ws
      <3>1. phaseBar'[v] = "detached" /\ interestBar'[v] = interestBar[v]
        BY <1>2, <2>1, ViewsHold, ViewsNext, Zenon DEF Views
      <3>2. streamBar'[v] = streamBar[v]
        <4>1. owedBar'[v] = owedBar[v]
          BY <1>3
        <4>2. received'[v] \o eventsC'[v] \o backlog'[v] = received[v] \o eventsC[v] \o backlog[v]
          OBVIOUS
        <4> QED BY <4>1, <4>2, StreamKept
      <3> QED BY <2>1, <3>1, <3>2
    <2>2. CASE v \notin ws
      <3>1. Keeps(v)
        BY <1>1, <1>3, <2>2, KeepsFact
      <3> QED BY <2>2, <3>1 DEF Keeps
    <2> QED BY <2>1, <2>2
  <1>6. Stream!Next
    <2>1. ws \in SUBSET Watchers
      BY <1>2
    <2> QED BY <1>4, <1>5, <2>1, MapDetach
  <1>7. Registered'
    BY Zenon DEF MapInv, Registered, Untouched
  <1>8. Waiting'
    BY <1>1, Zenon DEF MapInv, Waiting, Untouched
  <1>9. KeysEmitted' /\ Due'
    <2>1. KeysEmitted'
      BY Zenon DEF MapInv, KeysEmitted
    <2>2. Due'
      BY <1>1, Zenon DEF Due
    <2> QED BY <2>1, <2>2
  <1> QED BY <1>6, <1>7, <1>8, <1>9 DEF MapInv

\* The three that take all.
LEMMA ClearMaps ==
  ASSUME TypeOK, Quiet, MapInv, Clear \/ Reset \/ Close
  PROVE  MapInv' /\ Stream!Next
  <1>1. clear /\ ((init' <=> init) \/ ~init')
    BY DEF Clear, Reset, Close
  <1>3. /\ Unlocked /\ tree' = {}
        /\ UNCHANGED <<watch, prefixes, eventsC, backlog, consumer, received, batch, walk, overflowed>>
    BY <1>1, Zenon DEF clear, queues, owner, emission
  <1>2. tree' = tree \ tree /\ tree \in SUBSET tree
    BY <1>3
  <1> QED BY <1>1, <1>2, <1>3, RemovalMaps, Zenon

\* The one that takes the watcher that was closed, if it is still there.
LEMMA RemoveMaps ==
  ASSUME TypeOK, Quiet, MapInv, NEW w \in Watchers, removeWatcherWithLock(w)
  PROVE  MapInv' /\ Stream!Next
  <1>1. /\ Unlocked /\ tree' = tree \ {w} /\ init' = init
        /\ UNCHANGED <<watch, prefixes, eventsC, backlog, consumer, received, batch, walk, overflowed>>
    BY Zenon DEF removeWatcherWithLock, queues, owner, emission
  <1> DEFINE ws == tree \cap {w}
  <1>2. tree' = tree \ ws /\ ws \in SUBSET tree
    BY <1>1
  <1> HIDE DEF ws
  <1> QED BY <1>1, <1>2, RemovalMaps, Zenon

-----------------------------------------------------------------------------
(* The fan-out *)

\* Who is called for an event: each watcher that asked for its key, and once.
LEMMA WalkMembers ==
  ASSUME NEW ws, NEW event, NEW visit \in walkPath(ws, event)
  PROVE  \E w \in ws : \E p \in prefixes[w] : visit = <<w, p>> /\ IsPrefix(p, event.key)
  <1>1. PICK w \in ws : visit \in {<<w, p>> : p \in {q \in prefixes[w] : IsPrefix(q, event.key)}}
    BY Zenon DEF walkPath
  <1> QED BY <1>1, Zenon

LEMMA WalkReaches ==
  ASSUME NEW ws, NEW event, NEW w \in ws, NEW p \in prefixes[w], IsPrefix(p, event.key)
  PROVE  <<w, p>> \in walkPath(ws, event)
  <1>1. <<w, p>> \in {<<w, r>> : r \in {q \in prefixes[w] : IsPrefix(q, event.key)}}
    BY Zenon
  <1> QED BY <1>1, Zenon DEF walkPath

\* The walk for an event begins: from then on the event is owed to those who asked
\* for its key.
LEMMA FanOutBegins ==
  ASSUME MatchedOnce, TypeOK, MapInv, NEW event \in Events, event.key \in Keys, init,
         \A w \in Watchers : owedBar[w] = << >>,
         batch' # << >>, batch'[1] = event, walk' = walkPath(tree', event),
         tree' = tree \ overflowed, overflowed' = {},
         UNCHANGED <<init, watch, prefixes, eventsC, backlog, consumer, received>>
  PROVE  Stream!Next /\ Due'
  <1>0. WatcherTypes /\ QueueTypes /\ ControlTypes /\ \A v \in Watchers : Sized(v)
    BY TypeParts
  <1>1. \A v \in tree : v \in Watchers /\ consumer[v] # "none"
    BY <1>0 DEF ControlTypes, Sized, WatcherTypes
  <1>2. ASSUME NEW w \in Watchers
        PROVE  /\ interestBar'[w] = interestBar[w] /\ phaseBar'[w] = phaseBar[w]
               /\ streamBar'[w] = IF phaseBar[w] = "attached" /\ event.key \in interestBar[w]
                                  THEN Append(streamBar[w], event) ELSE streamBar[w]
    <2>1. streamBar[w] = received[w] \o eventsC[w] \o backlog[w] /\ streamBar[w] \in Seq(Events)
      <3>1. received[w] \in Seq(Events) /\ eventsC[w] \in Seq(Events) /\ backlog[w] \in Seq(Events)
        BY <1>0, Zenon DEF WatcherTypes, QueueTypes
      <3>2. received[w] \o eventsC[w] \in Seq(Events)
        BY <3>1, ConcatType, Zenon
      <3>3. (received[w] \o eventsC[w]) \o backlog[w] \in Seq(Events)
        BY <3>1, <3>2, ConcatType, Zenon
      <3>4. streamBar[w] = (received[w] \o eventsC[w] \o backlog[w]) \o << >>
        BY ViewsHold, Zenon DEF Views
      <3>5. \A s \in Seq(Events) : s \o << >> = s
        BY ConcatEmptySeq
      <3> QED BY <3>3, <3>4, <3>5, Zenon
    <2>2. streamBar'[w] = streamBar[w] \o owedBar'[w]
      <3>1. streamBar'[w] = (received'[w] \o eventsC'[w] \o backlog'[w]) \o owedBar'[w]
        BY ViewsNext, Zenon DEF Views
      <3> QED BY <2>1, <3>1
    <2>3. CASE w \in tree \ overflowed
      <3>1. consumer[w] # "none" /\ watch[w] \in Watches /\ prefixes[w] = Kept(watch[w])
        BY <1>1, <2>3, Zenon DEF MapInv, Registered
      <3>2. phaseBar[w] = "attached" /\ phaseBar'[w] = "attached"
        BY <2>3, <3>1, ViewsHold, ViewsNext, Zenon DEF Views
      <3>3. interestBar[w] = {k \in Keys : watch[w] = << >> \/ \E p \in ToSet(watch[w]) : IsPrefix(p, k)}
        BY <3>1, ViewsHold, Zenon DEF Views
      <3>4. interestBar'[w] = interestBar[w]
        BY <3>1, ViewsHold, ViewsNext, Zenon DEF Views
      <3>5. event.key \in interestBar[w] <=> \E p \in prefixes[w] : IsPrefix(p, event.key)
        <4>1. event.key \in interestBar[w] <=> (watch[w] = << >> \/ \E p \in ToSet(watch[w]) : IsPrefix(p, event.key))
          BY <3>3, Zenon
        <4>2. (watch[w] = << >> \/ \E p \in ToSet(watch[w]) : IsPrefix(p, event.key))
                <=> (\E p \in Kept(watch[w]) : IsPrefix(p, event.key))
          BY <3>1, Zenon DEF MatchedOnce
        <4> QED BY <3>1, <4>1, <4>2, Zenon
      <3>6. ASSUME event.key \in interestBar[w] PROVE owedBar'[w] = <<event>>
        <4>1. PICK p \in prefixes[w] : IsPrefix(p, event.key)
          BY <3>5, <3>6
        <4>2. <<w, p>> \in walk'
          BY <2>3, <4>1, WalkReaches, Zenon
        <4>3. ASSUME NEW visit \in walk', visit[1] = w PROVE visit = <<w, p>>
          <5>1. PICK v \in tree' : \E q \in prefixes[v] : visit = <<v, q>> /\ IsPrefix(q, event.key)
            BY WalkMembers
          <5>2. PICK q \in prefixes[v] : visit = <<v, q>> /\ IsPrefix(q, event.key)
            BY <5>1
          <5>3. v = w
            BY <4>3, <5>2
          <5>4. q = p
            <6>1. p \in Kept(watch[w]) /\ q \in Kept(watch[w])
              BY <3>1, <4>1, <5>2, <5>3
            <6> QED BY <3>1, <4>1, <5>2, <6>1, Zenon DEF MatchedOnce
          <5> QED BY <5>2, <5>3, <5>4
        <4>4. w \in tree' \ overflowed'
          BY <2>3
        <4> QED BY <4>2, <4>3, <4>4, OwedViewsNext, Zenon DEF OwedViews
      <3>7. ASSUME event.key \notin interestBar[w] PROVE owedBar'[w] = << >>
        <4>1. ASSUME NEW visit \in walk' PROVE visit[1] # w
          <5>1. PICK v \in tree' : \E q \in prefixes[v] : visit = <<v, q>> /\ IsPrefix(q, event.key)
            BY WalkMembers
          <5>2. visit[1] = v
            BY <5>1
          <5> QED BY <3>5, <3>7, <5>1, <5>2, Zenon
        <4> QED BY <4>1, OwedViewsNext, Zenon DEF OwedViews
      <3>8. streamBar[w] \o <<event>> = Append(streamBar[w], event) /\ streamBar[w] \o << >> = streamBar[w]
        BY <2>1, AppendIsConcat, ConcatEmptySeq
      <3> QED BY <2>2, <3>2, <3>4, <3>6, <3>7, <3>8
    <2>4. CASE w \notin tree \ overflowed
      <3>1. owedBar'[w] = << >> /\ owedBar[w] = << >>
        BY <2>4, OwedViewsNext, Zenon DEF OwedViews
      <3>2. Keeps(w)
        BY <2>4, <3>1, KeepsFact
      <3>3. phaseBar[w] # "attached"
        <4>1. phaseBar[w] = "new" \/ phaseBar[w] = "detached"
          BY <2>4, ViewsHold, Zenon DEF Views
        <4> QED BY <4>1
      <3> QED BY <3>2, <3>3 DEF Keeps
    <2> QED BY <2>3, <2>4
  <1>3. Stream!Next
    BY <1>2, MapEmit
  <1>4. Due'
    <2> SUFFICES ASSUME NEW visit \in walk'
                 PROVE  \E w \in tree' \ overflowed' : \E p \in prefixes'[w] :
                            visit = <<w, p>> /\ IsPrefix(p, batch'[1].key)
      BY Zenon DEF Due
    <2>1. PICK w \in tree' : \E p \in prefixes[w] : visit = <<w, p>> /\ IsPrefix(p, event.key)
      BY WalkMembers
    <2> QED BY <2>1
  <1> QED BY <1>3, <1>4

\* Emit begins with its first event.
LEMMA EmitMaps ==
  ASSUME MatchedOnce, TypeOK, Quiet, MapInv, NEW n \in 1..MaxBatch, NEW keys \in [1..n -> Keys], Emit(keys)
  PROVE  MapInv' /\ Stream!Next
  <1>0. WatcherTypes /\ QueueTypes /\ ControlTypes /\ EmissionTypes
    BY TypeParts
  <1>1. /\ UNCHANGED <<init, tree, watch, prefixes, eventsC, backlog, consumer, received, overflowed>>
        /\ batch = << >> /\ init /\ walk = {} /\ overflowed = {} /\ walk' = walkPath(tree, batch'[1])
    BY Zenon DEF Emit, buffer, queues, owner, Unlocked, Quiet
  <1>2. n \in Nat /\ n > 0 /\ Len(keys) = n
    BY BufferAssumption
  <1>3. batch' = [i \in 1..n |-> [key |-> keys[i], id |-> emitted + i]]
    BY <1>2 DEF Emit
  <1>4. batch' \in Seq(Events)
    BY EmitTypes, Zenon DEF TypeOK, Events, InitEvent
  <1>5. Len(batch') = n /\ batch' # << >>
    BY <1>2, <1>3
  <1>6. batch'[1] \in Events
    <2> HIDE DEF Events
    <2> QED BY <1>4, <1>5
  <1>7. \A i \in 1..n : batch'[i].key \in Keys
    BY <1>3
  <1>8. batch'[1].key \in Keys
    BY <1>2, <1>7
  <1>9. \A w \in Watchers : owedBar[w] = << >>
    BY <1>1, OwedViewsHold, Zenon DEF OwedViews
  <1>10. tree' = tree \ overflowed /\ overflowed' = {} /\ walk' = walkPath(tree', batch'[1])
    BY <1>1
  <1>14. PICK event : event = batch'[1]
    OBVIOUS
  <1>11. Stream!Next /\ Due'
    BY <1>1, <1>5, <1>6, <1>8, <1>9, <1>10, <1>14, FanOutBegins, Zenon
  <1>12. Registered' /\ Waiting'
    BY <1>1, Zenon DEF MapInv, Registered, Waiting, Untouched
  <1>13. KeysEmitted'
    BY <1>5, <1>7 DEF KeysEmitted
  <1> QED BY <1>11, <1>12, <1>13 DEF MapInv

\* fanOutEvent ends with an event: nothing is owed any more, until it begins with
\* the next one.
LEMMA FanOutEndMaps ==
  ASSUME MatchedOnce, TypeOK, Quiet, MapInv, FanOutEnd
  PROVE  MapInv' /\ (Stream!Next \/ UNCHANGED Stream!vars)
  <1>0. WatcherTypes /\ QueueTypes /\ ControlTypes /\ EmissionTypes
    BY TypeParts
  <1>1. /\ UNCHANGED <<init, watch, prefixes, eventsC, backlog, consumer, received>>
        /\ batch # << >> /\ walk = {} /\ tree' = tree \ overflowed /\ overflowed' = {} /\ batch' = Tail(batch)
        /\ walk' = IF Len(batch) = 1 THEN {} ELSE walkPath(tree', batch[2])
    BY Zenon DEF FanOutEnd, queues, owner
  <1>2. init
    BY <1>1, Zenon DEF MapInv, Waiting
  <1>3. /\ batch \in Seq(Events) /\ Len(batch) \in Nat /\ Len(batch) > 0 /\ Tail(batch) \in Seq(Events)
        /\ Len(Tail(batch)) = Len(batch) - 1 /\ \A i \in 1..Len(batch)-1 : Tail(batch)[i] = batch[i + 1]
    <2>1. batch \in Seq(Events)
      BY <1>0 DEF EmissionTypes
    <2> HIDE DEF Events
    <2> QED BY <1>1, <2>1
  <1>4. \A w \in Watchers : owedBar[w] = << >>
    BY <1>1, OwedViewsHold, Zenon DEF OwedViews
  <1>5. Registered' /\ Waiting'
    <2>1. Registered'
      BY <1>1, Zenon DEF MapInv, Registered, Untouched
    <2>2. Waiting'
      BY <1>1, <1>2, Zenon DEF Waiting
    <2> QED BY <2>1, <2>2
  <1>6. KeysEmitted'
    <2> SUFFICES ASSUME NEW i \in 1..Len(batch') PROVE batch'[i].key \in Keys
      BY Zenon DEF KeysEmitted
    <2>1. i + 1 \in 1..Len(batch) /\ batch'[i] = batch[i + 1]
      BY <1>1, <1>3
    <2> QED BY <2>1 DEF MapInv, KeysEmitted
  <1>7. CASE Len(batch) = 1
    <2>1. batch' = << >> /\ walk' = {}
      BY <1>1, <1>3, <1>7, EmptySeq
    <2>2. \A w \in Watchers : owedBar'[w] = << >>
      BY <2>1, OwedViewsNext, Zenon DEF OwedViews
    <2>3. ASSUME NEW w \in Watchers PROVE Keeps(w)
      <3>1. w \in tree' \ overflowed' <=> w \in tree \ overflowed
        BY <1>1
      <3>2. owedBar'[w] = owedBar[w]
        BY <1>4, <2>2
      <3> QED BY <1>1, <3>1, <3>2, KeepsFact
    <2>4. UNCHANGED Stream!vars
      BY <1>1, <2>3, MapStutter
    <2>5. Due'
      BY <2>1, Zenon DEF Due
    <2> QED BY <1>5, <1>6, <2>4, <2>5 DEF MapInv
  <1>8. CASE Len(batch) # 1
    <2>1. batch' # << >> /\ batch'[1] = batch[2] /\ walk' = walkPath(tree', batch[2]) /\ 2 \in 1..Len(batch)
      <3>1. 2 \in 1..Len(batch) /\ 1 \in 1..Len(batch)-1 /\ Len(Tail(batch)) # 0
        BY <1>3, <1>8
      <3>2. Tail(batch)[1] = batch[1 + 1] /\ Tail(batch) # << >>
        BY <1>3, <3>1, EmptySeq
      <3> QED BY <1>1, <1>8, <3>1, <3>2
    <2>2. batch[2].key \in Keys
      BY <2>1, Zenon DEF MapInv, KeysEmitted
    <2>3. batch[2] \in Events
      <3> HIDE DEF Events
      <3> QED BY <1>3, <2>1
    <2>4. Stream!Next /\ Due'
      BY <1>1, <1>2, <1>4, <2>1, <2>2, <2>3, FanOutBegins, Zenon
    <2> QED BY <1>5, <1>6, <2>4 DEF MapInv
  <1> QED BY <1>7, <1>8

\* fanOutEvent calls a watcher: the event that was owed to it is now in its queue,
\* or its stream ends.
LEMMA FanOutMaps ==
  ASSUME MatchedOnce, TypeOK, Quiet, MapInv, NEW w \in Watchers, NEW p, FanOut(w, p)
  PROVE  MapInv' /\ (Stream!Next \/ UNCHANGED Stream!vars)
  <1>0. WatcherTypes /\ QueueTypes /\ ControlTypes /\ EmissionTypes /\ \A v \in Watchers : Sized(v)
    BY TypeParts
  <1>1. /\ UNCHANGED <<init, tree, batch, watch, prefixes, consumer, received>>
        /\ <<w, p>> \in walk /\ walk' = walk \ {<<w, p>>}
    BY Zenon DEF FanOut, buffer, owner
  <1>2. w \in tree \ overflowed /\ batch # << >> /\ init /\ \A other \in walk : other[1] = w => other = <<w, p>>
    <2>1. PICK v \in tree \ overflowed : \E q \in prefixes[v] :
              /\ <<w, p>> = <<v, q>> /\ batch # << >> /\ init
              /\ \A other \in walk : other[1] = v => other = <<w, p>>
      BY <1>1, OneVisit, Zenon
    <2>2. v = w
      BY <2>1
    <2> QED BY <2>1, <2>2
  <1>3. consumer[w] # "none"
    BY <1>0, <1>2 DEF Sized
  <1> DEFINE e == batch[1]
             q == eventsC[w] \o backlog[w]
             content == received[w] \o eventsC[w] \o backlog[w]
  <1>4. e \in Events
    <2>1. batch \in Seq(Events)
      BY <1>0 DEF EmissionTypes
    <2> HIDE DEF Events
    <2> QED BY <1>2, <2>1
  <1>5. /\ received[w] \in Seq(Events) /\ eventsC[w] \in Seq(Events) /\ backlog[w] \in Seq(Events)
        /\ eventsC'[w] \in Seq(Events) /\ backlog'[w] \in Seq(Events) /\ received'[w] = received[w]
        /\ \A v \in Watchers \ {w} : eventsC'[v] = eventsC[v] /\ backlog'[v] = backlog[v]
    <2>1. QueueTypes' /\ \A v \in Watchers \ {w} : eventsC'[v] = eventsC[v] /\ backlog'[v] = backlog[v]
      BY FanOutServes, ServedFact, Zenon
    <2>2. eventsC' \in [Watchers -> Seq(Events)] /\ backlog' \in [Watchers -> Seq(Events)]
      BY <2>1, Zenon DEF QueueTypes, Events, InitEvent
    <2> QED BY <1>0, <1>1, <2>1, <2>2, Zenon DEF WatcherTypes, QueueTypes
  <1>6. content = received[w] \o q /\ q \in Seq(Events) /\ content \in Seq(Events)
    <2>1. q \in Seq(Events)
      BY <1>5, ConcatType, Zenon
    <2>2. received[w] \o q \in Seq(Events)
      BY <1>5, <2>1, ConcatType, Zenon
    <2>3. content = received[w] \o q
      BY <1>5, ConcatLaw
    <2> QED BY <2>1, <2>2, <2>3
  <1>7. received'[w] \o eventsC'[w] \o backlog'[w] = received[w] \o (eventsC'[w] \o backlog'[w])
    <2>1. received'[w] \in Seq(Events) /\ eventsC'[w] \in Seq(Events) /\ backlog'[w] \in Seq(Events)
      BY <1>5
    <2>2. received'[w] \o eventsC'[w] \o backlog'[w] = received'[w] \o (eventsC'[w] \o backlog'[w])
      BY <2>1, ConcatLaw
    <2> QED BY <1>5, <2>2
  <1>8. owedBar[w] = <<e>> /\ owedBar'[w] = << >>
    <2>1. owedBar[w] = <<e>>
      BY <1>1, <1>2, OwedViewsHold, Zenon DEF OwedViews
    <2>2. \A visit \in walk' : visit[1] # w
      BY <1>1, <1>2
    <2> QED BY <2>1, <2>2, OwedViewsNext, Zenon DEF OwedViews
  <1>9. ASSUME NEW v \in Watchers \ {w}, overflowed' \subseteq overflowed \cup {w}, overflowed \subseteq overflowed'
        PROVE  Keeps(v)
    <2>1. {visit \in walk' : visit[1] = v} = {visit \in walk : visit[1] = v}
      <3>1. \A visit \in walk : visit[1] = v => visit # <<w, p>>
        OBVIOUS
      <3> QED BY <1>1, <3>1
    <2>2. v \in tree' \ overflowed' <=> v \in tree \ overflowed
      BY <1>1, <1>9
    <2>3. owedBar'[v] = owedBar[v]
      BY <1>1, <2>1, <2>2, Zenon DEF owedBar, Owed, Attached
    <2> QED BY <1>1, <1>5, <2>2, <2>3, KeepsFact
  <1>10. Registered' /\ Waiting' /\ KeysEmitted'
    <2>1. Registered'
      <3> SUFFICES ASSUME NEW v \in Watchers
                   PROVE  /\ consumer'[v] = "none" => received'[v] = << >> /\ eventsC'[v] = << >> /\ backlog'[v] = << >>
                          /\ consumer'[v] # "none" => watch'[v] \in Watches /\ prefixes'[v] = Kept(watch'[v])
        BY Zenon DEF Registered, Untouched
      <3>1. v # w \/ consumer[v] # "none"
        BY <1>3
      <3> QED BY <1>1, <1>5, <3>1, Zenon DEF MapInv, Registered, Untouched
    <2>2. Waiting' /\ KeysEmitted'
      BY <1>1, <1>2, Zenon DEF MapInv, Waiting, KeysEmitted
    <2> QED BY <2>1, <2>2
  <1>11. ASSUME overflowed' \subseteq overflowed \cup {w} PROVE Due'
    <2> SUFFICES ASSUME NEW visit \in walk'
                 PROVE  \E v \in tree' \ overflowed' : \E r \in prefixes'[v] :
                            visit = <<v, r>> /\ IsPrefix(r, batch'[1].key)
      BY Zenon DEF Due
    <2>1. visit \in walk /\ visit # <<w, p>>
      BY <1>1
    <2>2. PICK v \in tree \ overflowed : \E r \in prefixes[v] : visit = <<v, r>> /\ IsPrefix(r, batch[1].key)
      BY <2>1, Zenon DEF MapInv, Due
    <2>3. v # w
      <3>1. visit[1] = v
        BY <2>2
      <3> QED BY <1>2, <2>1, <3>1
    <2> QED BY <1>1, <1>11, <2>2, <2>3
  <1>12. CASE emit(w, batch[1]) /\ UNCHANGED overflowed
    <2>1. eventsC'[w] \o backlog'[w] = q \o <<e>>
      BY <1>4, <1>12, EmitAppends
    <2>2. <<e>> \in Seq(Events)
      <3> HIDE DEF e, Events
      <3> QED BY <1>4
    <2> HIDE DEF q, e, content
    <2>3. received[w] \o (q \o <<e>>) = content \o <<e>>
      <3>1. (received[w] \o q) \o <<e>> = received[w] \o (q \o <<e>>)
        <4>1. \A t \in Seq(Events) : (received[w] \o q) \o t = received[w] \o (q \o t)
          BY <1>5, <1>6, ConcatLaw
        <4> HIDE DEF Events
        <4> QED BY <2>2, <4>1, Zenon
      <3> QED BY <1>6, <3>1
    <2>4. content \o <<e>> \in Seq(Events)
      BY <1>6, <2>2, ConcatType, Zenon
    <2>5. streamBar[w] = content \o <<e>>
      BY <1>8, ViewsHold, Zenon DEF Views, content
    <2>6. streamBar'[w] = (received'[w] \o eventsC'[w] \o backlog'[w]) \o << >>
      BY <1>8, ViewsNext, Zenon DEF Views
    <2>7. (content \o <<e>>) \o << >> = content \o <<e>>
      BY <2>4, ConcatEmptySeq
    <2>8. streamBar'[w] = streamBar[w]
      BY <1>7, <2>1, <2>3, <2>5, <2>6, <2>7
    <2>9. interestBar'[w] = interestBar[w] /\ phaseBar'[w] = phaseBar[w]
      <3>1. w \in tree' \ overflowed' /\ consumer'[w] # "none" /\ init'
        BY <1>1, <1>2, <1>3, <1>12
      <3>2. phaseBar[w] = "attached" /\ phaseBar'[w] = "attached"
        BY <1>2, <1>3, <3>1, ViewsHold, ViewsNext, Zenon DEF Views
      <3>3. interestBar'[w] = interestBar[w]
        BY <1>1, <1>3, <3>1, ViewsHold, ViewsNext, Zenon DEF Views
      <3> QED BY <3>2, <3>3
    <2>10. ASSUME NEW v \in Watchers PROVE Keeps(v)
      <3>1. CASE v = w
        BY <2>8, <2>9, <3>1 DEF Keeps
      <3>2. CASE v # w
        BY <1>9, <1>12, <3>2
      <3> QED BY <3>1, <3>2
    <2>11. UNCHANGED Stream!vars
      BY <1>1, <2>10, MapStutter
    <2>12. Due'
      BY <1>11, <1>12
    <2> QED BY <1>10, <2>11, <2>12 DEF MapInv
  <1>13. CASE emitRefused(w) /\ overflowed' = overflowed \cup {w}
    <2>1. PICK since : Queue(w, flushBacklog(w).chan, flushBacklog(w).rest, since)
      BY <1>13, Zenon DEF emitRefused
    <2>2. eventsC'[w] \o backlog'[w] = q
      BY <2>1, FlushedKeeps
    <2>3. <<e>> \in Seq(Events)
      <3> HIDE DEF e, Events
      <3> QED BY <1>4
    <2>4. received'[w] \o eventsC'[w] \o backlog'[w] = content
      BY <1>6, <1>7, <2>2
    <2>5. w \notin tree' \ overflowed' /\ consumer'[w] # "none"
      BY <1>1, <1>3, <1>13
    <2>6. phaseBar[w] = "attached" /\ phaseBar'[w] = "detached"
      BY <1>2, <1>3, <2>5, ViewsHold, ViewsNext, Zenon DEF Views
    <2>7. interestBar'[w] = interestBar[w]
      BY <1>1, <1>3, <2>5, ViewsHold, ViewsNext, Zenon DEF Views
    <2>8. streamBar[w] = content \o <<e>> /\ streamBar'[w] = content
      <3>1. streamBar[w] = content \o <<e>>
        BY <1>8, ViewsHold, Zenon DEF Views
      <3>2. streamBar'[w] = (received'[w] \o eventsC'[w] \o backlog'[w]) \o << >>
        BY <1>8, ViewsNext, Zenon DEF Views
      <3>3. content \o << >> = content
        BY <1>6, ConcatEmptySeq
      <3> QED BY <2>4, <3>1, <3>2, <3>3
    <2>13. Len(content) = Len(received[w]) + Len(q) /\ Len(received[w]) \in Nat /\ Len(q) \in Nat
      <3> HIDE DEF q, content, Events
      <3> QED BY <1>5, <1>6, ConcatProperties, LenProperties
    <2> HIDE DEF q, e, content
    <2>9. Len(content \o <<e>>) = Len(content) + 1 /\ SubSeq(content \o <<e>>, 1, Len(content)) = content
      <3> HIDE DEF Events
      <3>1. content \o <<e>> \in Seq(Events) /\ Len(content \o <<e>>) = Len(content) + 1
        BY <1>6, <2>3, ConcatProperties
      <3>2. \A i \in 1..Len(content) : (content \o <<e>>)[i] = content[i]
        BY <1>6, <2>3, ConcatProperties
      <3> QED BY <1>6, <3>1, <3>2
    <2>10. PICK n : n = Len(content)
      OBVIOUS
    <2>11. n \in Len(received[w])..Len(streamBar[w]) /\ streamBar'[w] = SubSeq(streamBar[w], 1, n)
      BY <2>8, <2>9, <2>10, <2>13
    <2>12. \A v \in Watchers \ {w} : Keeps(v)
      BY <1>9, <1>13
    <2>14. Stream!Next
      BY <1>1, <2>6, <2>7, <2>11, <2>12, MapOverflow
    <2>15. Due'
      BY <1>11, <1>13
    <2> QED BY <1>10, <2>14, <2>15 DEF MapInv
  <1> QED BY <1>12, <1>13, Zenon DEF FanOut

-----------------------------------------------------------------------------
(* The refinement *)

\* Before the first step nobody is registered.
LEMMA InitMaps ==
  ASSUME Init
  PROVE  MapInv /\ Stream!Init
  <1>1. MapInv
    <2>1. Registered /\ Waiting
      BY DEF Init, Registered, Waiting, Untouched
    <2>2. KeysEmitted /\ Due
      BY DEF Init, KeysEmitted, Due
    <2> QED BY <2>1, <2>2 DEF MapInv
  <1>2. ASSUME NEW w \in Watchers
        PROVE  interestBar[w] = {} /\ phaseBar[w] = "new" /\ streamBar[w] = << >>
    <2>1. owedBar[w] = << >>
      BY OwedViewsHold, Zenon DEF OwedViews, Init
    <2>2. consumer[w] = "none" /\ received[w] = << >> /\ eventsC[w] = << >> /\ backlog[w] = << >>
      BY DEF Init
    <2>3. streamBar[w] = (<< >> \o << >> \o << >>) \o << >>
      BY <2>1, <2>2, ViewsHold, Zenon DEF Views
    <2>4. (<< >> \o << >> \o << >>) \o << >> = << >>
      OBVIOUS
    <2> QED BY <2>2, <2>3, <2>4, ViewsHold, Zenon DEF Views
  <1>3. /\ interestBar = [w \in Watchers |-> {}] /\ phaseBar = [w \in Watchers |-> "new"]
        /\ streamBar = [w \in Watchers |-> << >>]
    BY <1>2, Mapped DEF IsMap
  <1>4. Stream!Init
    BY <1>3, Zenon DEF Stream!Init, Init, interestBar, phaseBar, streamBar
  <1> QED BY <1>1, <1>4

\* CircularBuffer implements EventStream: whatever the number of watchers, their
\* queues and the grace period, and however their owners interleave with Emit, the
\* stream of a watcher is the init event and then every event that one of its
\* prefixes matches, once and in order, up to the point where it is detached; no
\* flush of a backlog, no retry of Events() and no removal changes what a watcher
\* has been promised.  MatchedOnce is what removeRedundantPrefixes and walkPath owe
\* to the fan-out: without it a watcher with two prefixes of one key would get an
\* event twice.
THEOREM BufferImplementsEventStream ==
  ASSUME MatchedOnce
  PROVE  Spec => ImplementsEventStream
  <1>1. Init => MapInv /\ Stream!Init
    BY InitMaps
  <1>2. TypeOK /\ Quiet /\ MapInv /\ [Next]_vars => MapInv' /\ [Stream!Next]_(Stream!vars)
    <2> SUFFICES ASSUME TypeOK, Quiet, MapInv, [Next]_vars
                 PROVE  MapInv' /\ (Stream!Next \/ UNCHANGED Stream!vars)
      BY Zenon
    <2>1. ASSUME EmitStep PROVE MapInv' /\ (Stream!Next \/ UNCHANGED Stream!vars)
      BY <2>1, FanOutEndMaps, FanOutMaps, Zenon DEF EmitStep
    <2>2. ASSUME NEW w \in Watchers, Owner(w) PROVE MapInv' /\ (Stream!Next \/ UNCHANGED Stream!vars)
      BY <2>2, CallMaps, ReceiveMaps, CloseMaps, Zenon DEF Owner
    <2> QED BY <2>1, <2>2, NewWatcherMaps, SetInitMaps, ClearMaps, EmitMaps, RemoveMaps, CloseMaps,
               Zenon DEF Next
  <1> QED BY <1>1, <1>2, TypeInvariant, PTL DEF Spec, ImplementsEventStream, Stream!Spec

=============================================================================
