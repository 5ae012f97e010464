--------------------------- MODULE CircularBuffer ---------------------------
(***************************************************************************)
(* The fan-out of backend events in lib/backend/buffer.go: a buffer whose  *)
(* operations hold its mutex, and watchers with a bounded channel and,     *)
(* once that is full, a backlog that is tolerated for a grace period.      *)
(*                                                                         *)
(* Emit holds the mutex c for a batch of events and calls every watcher    *)
(* once for each of its prefixes; the consumers do not take c: Events()    *)
(* takes the mutex of the watcher, and a receive takes none.  So the steps *)
(* of Emit interleave with the consumers and with nothing else.  A step of *)
(* emit or Events is atomic: a receive takes the head of a channel that is *)
(* not empty and commutes with everything that is done at the other end.   *)
(***************************************************************************)
EXTENDS Integers, Sequences, FiniteSets, SequencesExt

CONSTANTS Watchers,    \* the calls of NewWatcher
          Keys,        \* the keys of events, as paths below the separator
          Watches,     \* the lists of prefixes that a call may ask for
          QueueSizes,  \* the queue sizes that a call may ask for
          Capacity,    \* the queue size for those who ask for none
          Grace,       \* the grace period of a backlog, in ticks
          MaxEvents,   \* bound: how many events are emitted
          MaxBatch     \* bound: how many of them by one call

ASSUME BufferAssumption ==
    /\ QueueSizes \subseteq Nat /\ Capacity \in Nat \ {0}
    /\ Grace \in Nat /\ MaxEvents \in Nat /\ MaxBatch \in Nat \ {0}

VARIABLES init, closed,
          batch,       \* the events that Emit, holding c, has still to fan out
          walk,        \* for the first of them: whom it has still to call, and why
          overflowed,  \* watchersToDelete
          tree,        \* the watchers in the tree
          watch,       \* the list of prefixes that a watcher asked for
          prefixes,    \* those it is registered with
          capacity,    \* of its channel, 0 before it is there
          eventsC, backlog,
          age,         \* ticks since backlogSince, at most Grace + 1
          done,        \* the watchers whose context is cancelled
          consumer,    \* what the owner of the watcher does
          removals,    \* the watchers whose removeWatcherWithLock waits in a goroutine
          received,    \* history: what the owner has received
          behind,      \* history: ticks since a flush last emptied the backlog, while there is one
          emitted      \* history: the number of events

buffer == <<init, closed, tree>>
emission == <<batch, walk, overflowed, emitted>>
queues == <<eventsC, backlog, age, behind>>
owner == <<consumer, received>>
vars == <<init, closed, batch, walk, overflowed, tree, watch, prefixes, capacity, eventsC, backlog,
          age, done, consumer, removals, received, behind, emitted>>

InitEvent == [key |-> << >>, id |-> 0]
Events == {InitEvent} \cup [key : Keys, id : 1..MaxEvents]

\* A zero backlogSince is longer ago than any grace period.
Never == Grace + 1

TypeOK ==
    /\ init \in BOOLEAN /\ closed \in BOOLEAN
    /\ emitted \in 0..MaxEvents
    /\ batch \in Seq(Events)
    /\ \A visit \in walk : visit[1] \in tree
    /\ overflowed \subseteq tree /\ tree \subseteq Watchers
    /\ watch \in [Watchers -> Watches \cup {<< >>}]
    /\ DOMAIN prefixes = Watchers
    /\ capacity \in [Watchers -> Nat]
    /\ eventsC \in [Watchers -> Seq(Events)]
    /\ backlog \in [Watchers -> Seq(Events)]
    /\ age \in [Watchers -> 0..Never] /\ behind \in [Watchers -> 0..Never]
    /\ consumer \in [Watchers -> {"none", "events", "receive", "closed"}]
    /\ received \in [Watchers -> Seq(Events)]
    /\ \A w \in Watchers : /\ Len(eventsC[w]) =< capacity[w]
                           /\ consumer[w] = "none" <=> capacity[w] = 0
                           /\ w \in tree => capacity[w] > 0
    /\ done \subseteq Watchers /\ removals \subseteq done

Init ==
    /\ init = FALSE /\ closed = FALSE
    /\ batch = << >> /\ walk = {} /\ overflowed = {} /\ emitted = 0
    /\ tree = {} /\ done = {} /\ removals = {}
    /\ watch = [w \in Watchers |-> << >>]
    /\ prefixes = [w \in Watchers |-> {}]
    /\ capacity = [w \in Watchers |-> 0]
    /\ eventsC = [w \in Watchers |-> << >>]
    /\ backlog = [w \in Watchers |-> << >>]
    /\ age = [w \in Watchers |-> Never]
    /\ behind = [w \in Watchers |-> 0]
    /\ consumer = [w \in Watchers |-> "none"]
    /\ received = [w \in Watchers |-> << >>]

\* The mutex c; an operation that is one step takes and releases it.
Unlocked == batch = << >>

-----------------------------------------------------------------------------
(* Prefixes *)

\* bytes.Compare(p, q) == -1
Before(p, q) ==
    \/ IsStrictPrefix(p, q)
    \/ \E i \in 1..Len(p) : /\ i =< Len(q) /\ p[i] < q[i]
                            /\ \A j \in 1..(i - 1) : p[j] = q[j]

\* Mutant: the prefixes are not grouped by sorting them.
removeRedundantUnsorted(list) ==
    FoldLeft(LAMBDA kept, p : IF kept # << >> /\ IsPrefix(Last(kept), p) THEN kept
                              ELSE Append(kept, p),
             << >>, list)

\* Sort, then skip each prefix that the last one kept is a prefix of.
removeRedundantPrefixes(list) ==
    FoldLeft(LAMBDA kept, p : IF kept # << >> /\ IsPrefix(Last(kept), p) THEN kept
                              ELSE Append(kept, p),
             << >>, SortSeq(list, Before))

\* A watcher that names no prefix gets the separator, which all keys start with.
Kept(list) == IF list = << >> THEN {<< >>} ELSE ToSet(removeRedundantPrefixes(list))

\* watcherTree.walkPath calls fn for each prefix of the key, and each of its watchers.
walkPath(ws, event) ==
    UNION {{<<w, p>> : p \in {q \in prefixes[w] : IsPrefix(q, event.key)}} : w \in ws}

-----------------------------------------------------------------------------
(* The queue of a watcher *)

\* Mutant: the backlog is flushed although the channel is full.
flushBacklogAll(w) == [chan |-> eventsC[w] \o backlog[w], rest |-> << >>]

\* flushBacklog moves what fits into the channel: it leaves a channel and a backlog.
flushBacklog(w) ==
    LET all == eventsC[w] \o backlog[w]
        n   == IF Len(all) =< capacity[w] THEN Len(all) ELSE capacity[w]
    IN  [chan |-> SubSeq(all, 1, n), rest |-> SubSeq(all, n + 1, Len(all))]

\* What a step leaves of the queue.
Queue(w, chan, rest, since) ==
    /\ eventsC' = [eventsC EXCEPT ![w] = chan]
    /\ backlog' = [backlog EXCEPT ![w] = rest]
    /\ age' = [age EXCEPT ![w] = since]
    /\ behind' = [behind EXCEPT ![w] = IF flushBacklog(w).rest = << >> THEN 0 ELSE @]

\* Mutant: a new backlog keeps the zero backlogSince.
emitSinceEver(w, e) ==
    LET flushed == flushBacklog(w)
    IN  \/ /\ flushed.rest # << >> /\ age[w] =< Grace
           /\ Queue(w, flushed.chan, Append(flushed.rest, e), age[w])
        \/ /\ flushed.rest = << >> /\ Len(flushed.chan) < capacity[w]
           /\ Queue(w, Append(flushed.chan, e), << >>, Never)
        \/ /\ flushed.rest = << >> /\ Len(flushed.chan) = capacity[w]
           /\ Queue(w, flushed.chan, <<e>>, Never)

\* BufferWatcher.emit when it returns true.
emit(w, e) ==
    LET flushed == flushBacklog(w)
    IN  \/ /\ flushed.rest # << >> /\ age[w] =< Grace
           /\ Queue(w, flushed.chan, Append(flushed.rest, e), age[w])
        \/ /\ flushed.rest = << >> /\ Len(flushed.chan) < capacity[w]
           /\ Queue(w, Append(flushed.chan, e), << >>, Never)
        \/ /\ flushed.rest = << >> /\ Len(flushed.chan) = capacity[w]
           /\ Queue(w, flushed.chan, <<e>>, 0)

\* ... and when it returns false.
emitRefused(w) ==
    LET flushed == flushBacklog(w)
    IN  /\ flushed.rest # << >> /\ age[w] > Grace
        /\ Queue(w, flushed.chan, flushed.rest, age[w])

-----------------------------------------------------------------------------
(* The operations of the buffer *)

\* NewWatcher of a buffer that is not closed.  The init event always fits.
NewWatcher(w, list, size) ==
    /\ Unlocked /\ ~closed /\ consumer[w] = "none"
    /\ watch' = [watch EXCEPT ![w] = list]
    /\ prefixes' = [prefixes EXCEPT ![w] = Kept(list)]
    /\ capacity' = [capacity EXCEPT ![w] = IF size = 0 THEN Capacity ELSE size]
    /\ eventsC' = [eventsC EXCEPT ![w] = IF init THEN <<InitEvent>> ELSE << >>]
    /\ tree' = tree \cup {w}
    /\ consumer' = [consumer EXCEPT ![w] = "events"]
    /\ UNCHANGED <<init, closed, backlog, age, behind, done, removals, received, emission>>

SetInit ==
    /\ Unlocked /\ ~init
    /\ eventsC' = [w \in Watchers |-> IF w \in tree THEN <<InitEvent>> ELSE eventsC[w]]
    /\ init' = TRUE
    /\ UNCHANGED <<closed, tree, watch, prefixes, capacity, backlog, age, behind,
                   done, removals, owner, emission>>

\* Clear, Reset and Close cancel the watchers and start with a new tree.
clear ==
    /\ Unlocked
    /\ done' = done \cup tree
    /\ tree' = {}
    /\ UNCHANGED <<watch, prefixes, capacity, queues, removals, owner, emission>>

Clear == clear /\ UNCHANGED <<init, closed>>
Reset == clear /\ init' = FALSE /\ UNCHANGED closed
Close == clear /\ closed' = TRUE /\ UNCHANGED init

\* Emit of a buffer that is not closed.  It panics before SetInit; the backends
\* call it after SetInit only, from the goroutine that also calls Reset.
Emit(keys) ==
    /\ Unlocked /\ ~closed /\ init
    /\ emitted + Len(keys) =< MaxEvents
    /\ batch' = [i \in 1..Len(keys) |-> [key |-> keys[i], id |-> emitted + i]]
    /\ walk' = walkPath(tree, batch'[1])
    /\ emitted' = emitted + Len(keys)
    /\ UNCHANGED <<buffer, overflowed, watch, prefixes, capacity, queues, done, removals, owner>>

\* fanOutEvent calls a watcher.
FanOut(w, p) ==
    /\ <<w, p>> \in walk
    /\ walk' = walk \ {<<w, p>>}
    /\ \/ emit(w, batch[1]) /\ UNCHANGED overflowed
       \/ emitRefused(w) /\ overflowed' = overflowed \cup {w}
    /\ UNCHANGED <<buffer, batch, emitted, watch, prefixes, capacity, done, removals, owner>>

\* Mutant: an overflowing watcher is removed, but not told.
FanOutEndSilently ==
    /\ batch # << >> /\ walk = {}
    /\ tree' = tree \ overflowed
    /\ overflowed' = {}
    /\ batch' = Tail(batch)
    /\ walk' = IF Len(batch) = 1 THEN {} ELSE walkPath(tree', batch[2])
    /\ UNCHANGED <<init, closed, emitted, done, watch, prefixes, capacity, queues, removals, owner>>

\* The end of fanOutEvent, and the next event.
FanOutEnd ==
    /\ batch # << >> /\ walk = {}
    /\ done' = done \cup overflowed
    /\ tree' = tree \ overflowed
    /\ overflowed' = {}
    /\ batch' = Tail(batch)
    /\ walk' = IF Len(batch) = 1 THEN {} ELSE walkPath(tree', batch[2])
    /\ UNCHANGED <<init, closed, emitted, watch, prefixes, capacity, queues, removals, owner>>

\* The goroutine that Close of a watcher starts.
removeWatcherWithLock(w) ==
    /\ Unlocked /\ w \in removals
    /\ tree' = tree \ {w}
    /\ removals' = removals \ {w}
    /\ UNCHANGED <<init, closed, watch, prefixes, capacity, queues, done, owner, emission>>

-----------------------------------------------------------------------------
(* The owner of a watcher: it calls Events(), waits for an event or for Done(), *)
(* and calls Events() again.  It closes the watcher when it likes.              *)

\* Mutant: Events() returns the channel only.
CallEventsOnly(w) ==
    /\ consumer[w] = "events"
    /\ consumer' = [consumer EXCEPT ![w] = "receive"]
    /\ UNCHANGED <<buffer, emission, watch, prefixes, capacity, queues, done, removals, received>>

CallEvents(w) ==
    /\ consumer[w] = "events"
    /\ consumer' = [consumer EXCEPT ![w] = "receive"]
    /\ LET flushed == flushBacklog(w)
       IN  Queue(w, flushed.chan, flushed.rest, IF flushed.rest = << >> THEN Never ELSE age[w])
    /\ UNCHANGED <<buffer, emission, watch, prefixes, capacity, done, removals, received>>

Receive(w) ==
    /\ consumer[w] = "receive" /\ eventsC[w] # << >>
    /\ received' = [received EXCEPT ![w] = Append(@, Head(eventsC[w]))]
    /\ eventsC' = [eventsC EXCEPT ![w] = Tail(@)]
    /\ consumer' = [consumer EXCEPT ![w] = "events"]
    /\ UNCHANGED <<buffer, emission, watch, prefixes, capacity, backlog, age, behind, done, removals>>

\* Mutant: Close only cancels the context.
CloseWatcherOnly(w) ==
    /\ consumer[w] \in {"events", "receive"}
    /\ consumer' = [consumer EXCEPT ![w] = "closed"]
    /\ done' = done \cup {w}
    /\ UNCHANGED <<buffer, emission, watch, prefixes, capacity, queues, received, removals>>

\* BufferWatcher.Close: it must not take the mutex, which its caller may hold.
CloseWatcher(w) ==
    /\ consumer[w] \in {"events", "receive"}
    /\ consumer' = [consumer EXCEPT ![w] = "closed"]
    /\ done' = done \cup {w}
    /\ removals' = removals \cup {w}
    /\ UNCHANGED <<buffer, emission, watch, prefixes, capacity, queues, received>>

\* The context that NewWatcher was called with ends.
CancelContext(w) ==
    /\ consumer[w] # "none"
    /\ done' = done \cup {w}
    /\ UNCHANGED <<buffer, emission, watch, prefixes, capacity, queues, owner, removals>>

Tick ==
    /\ age' = [w \in Watchers |-> IF age[w] = Never THEN Never ELSE age[w] + 1]
    /\ behind' = [w \in Watchers |->
         IF backlog[w] = << >> \/ behind[w] = Never THEN behind[w] ELSE behind[w] + 1]
    /\ UNCHANGED <<buffer, emission, watch, prefixes, capacity, eventsC, backlog, done, removals, owner>>

Owner(w) == CallEvents(w) \/ Receive(w) \/ CloseWatcher(w) \/ CancelContext(w)
EmitStep == FanOutEnd \/ \E w \in Watchers : \E p \in prefixes[w] : FanOut(w, p)

Next ==
    \/ \E w \in Watchers, list \in Watches, size \in QueueSizes : NewWatcher(w, list, size)
    \/ SetInit \/ Clear \/ Reset \/ Close
    \/ \E n \in 1..MaxBatch : \E keys \in [1..n -> Keys] : Emit(keys)
    \/ EmitStep
    \/ \E w \in Watchers : removeWatcherWithLock(w) \/ Owner(w)
    \/ Tick

\* Emit runs to its end; an owner that has not stopped goes on, and closes a
\* watcher that is done; a mutex of Go is not starved for ever.
Fairness ==
    /\ WF_vars(EmitStep)
    /\ \A w \in Watchers :
         /\ WF_vars(CallEvents(w) \/ Receive(w))
         /\ WF_vars(w \in done /\ CloseWatcher(w))
         /\ SF_vars(removeWatcherWithLock(w))

Spec == Init /\ [][Next]_vars /\ Fairness

-----------------------------------------------------------------------------
(* Properties *)

Asked(w) ==
    IF consumer[w] = "none" THEN {}
    ELSE {k \in Keys : watch[w] = << >> \/ \E p \in ToSet(watch[w]) : IsPrefix(p, k)}

Attached(w) == w \in tree \ overflowed

\* The event that is being fanned out, for a watcher that is still to be called.
Owed(w) ==
    IF batch = << >> \/ ~Attached(w) THEN << >>
    ELSE [i \in 1..Cardinality({visit \in walk : visit[1] = w}) |-> batch[1]]

Stream == INSTANCE EventStream WITH
    interest <- [w \in Watchers |-> Asked(w)],
    phase    <- [w \in Watchers |->
                   IF consumer[w] = "none" THEN "new"
                   ELSE IF ~Attached(w) THEN "detached"
                   ELSE IF init THEN "attached" ELSE "waiting"],
    stream   <- [w \in Watchers |-> received[w] \o eventsC[w] \o backlog[w] \o Owed(w)]

\* The fan-out as a whole, whatever prefixes a watcher asked for, however its
\* owner interleaves with Emit and whenever it registers: its stream is the
\* init event and then each event that one of its prefixes matches, once and in
\* order, up to the point where it is detached.
ImplementsEventStream == Stream!Spec

\* BufferWatcher.Events: an owner that calls it before each receive never waits
\* on an empty channel while its backlog has events.
NoStall ==
    \A w \in Watchers : consumer[w] = "receive" /\ backlog[w] # << >> => eventsC[w] # << >>

\* BufferWatcher.emit: a watcher is given up only when no flush of its backlog, by
\* emit or by Events, has emptied it for longer than the grace period.
OverflowsAfterGrace ==
    [][\A w \in Watchers : w \in overflowed' \ overflowed => behind[w] > Grace]_vars

\* fanOutEvent and clear: a watcher that will get no more events, because it has
\* overflowed or the buffer was cleared, is told so.
DetachedIsTold ==
    \A w \in Watchers : consumer[w] # "none" /\ w \notin tree => w \in done

\* Emit and Events together: whatever is emitted for a watcher is received by
\* its owner, or the watcher is done.
Delivered ==
    \A w \in Watchers : \A n \in 1..(MaxEvents + 1) :
        Attached(w) /\ Len(received[w] \o eventsC[w] \o backlog[w]) >= n
            ~> Len(received[w]) >= n \/ w \in done

\* closeAndRemove: a watcher that is done leaves the tree, although its Close does
\* not wait for the mutex and others may have removed it before.
DoneIsRemoved == \A w \in Watchers : w \in done ~> w \notin tree

=============================================================================
