---------------------------- MODULE ReplicaCache ----------------------------
(***************************************************************************)
(* The event driven cache: fetchAndWatch, read and processEvent of         *)
(* lib/cache/cache.go, a collection of lib/cache/collections.go and the    *)
(* fan-out of lib/services/fanout.go by which one cache feeds the next.    *)
(*                                                                         *)
(* Caches form a tree: an auth server's cache follows the backend, those   *)
(* of proxies and nodes follow an auth server's cache.  Every cache holds  *)
(* a copy of its parent's items, which it fetches kind by kind and then    *)
(* keeps up to date from the parent's events, and passes each event it     *)
(* has processed on to its own watchers.  A cache that is not readable     *)
(* lets its readers, derivative caches among them, read from its parent.   *)
(*                                                                         *)
(* The backend sends an event some time after the write it is about.       *)
(* Expiry, and with it performRelativeNodeExpiry, is left out.             *)
(***************************************************************************)
EXTENDS Integers, Sequences, FiniteSets

CONSTANTS Caches, Backend,
          Parent,      \* the cache, or the backend, that a cache follows
          Keys, Kind,  \* the items, and the collection each belongs to
          Absent,      \* the value of an item that does not exist
          OpInit,
          QueueSize,   \* the channel between a fan-out and a watcher
          MaxWrites,   \* bound: writes to the backend
          MaxFaults    \* bound: requests that fail, connections that break, caches that close

Nodes == Caches \cup {Backend}
Kinds == {Kind[k] : k \in Keys}
Values == 1..MaxWrites \cup {Absent}

\* Whichever caches are taken, one of them follows none of the others.
ASSUME TreeAssumption ==
    /\ Backend \notin Caches /\ Parent \in [Caches -> Nodes]
    /\ \A S \in SUBSET Caches : S # {} => \E c \in S : Parent[c] \notin S
ASSUME BoundAssumption == /\ QueueSize \in Nat \ {0}
                          /\ MaxWrites \in Nat /\ MaxFaults \in Nat

VARIABLES content,      \* the items of the backend and of every cache
          unsent,       \* events of changes to the content, not emitted yet
          queue,        \* the channel of a cache's watcher
          conn,         \* the watcher, as its parent's fan-out has it
          pc,           \* where fetchAndWatch is
          fetched,      \* what fetch has read so far
          todo,         \* what apply has still to do
          ok,           \* the caches that are readable
          initialized,  \* the caches whose fan-out is
          reading,      \* the caches somebody holds a read guard of
          torn,         \* history: an apply has changed items of the cache and not ended
          writes, faults

cacheState == <<queue, conn, pc, fetched, todo>>
vars == <<content, unsent, cacheState, ok, initialized, reading, torn, writes, faults>>

Events == [key : Keys, value : Values]
Contents == [Keys -> Values]
Idle == [kinds |-> {}, puts |-> {}]
Nothing == [k \in Keys |-> Absent]

TypeOK ==
    /\ content \in [Nodes -> Contents]
    /\ unsent \in [Nodes -> Seq(Events)]
    /\ queue \in [Caches -> Seq(Events \cup {OpInit})]
    /\ \A c \in Caches : Len(queue[c]) <= QueueSize
    /\ conn \in [Caches -> {"none", "attached", "detached", "done"}]
    /\ pc \in [Caches -> {"start", "init", "fetch", "apply", "setInit", "loop", "emit", "closed"}]
    /\ fetched \in [Caches -> [kinds : SUBSET Kinds, items : Contents]]
    /\ todo \in [Caches -> [kinds : SUBSET Kinds, puts : SUBSET Keys]]
    /\ ok \subseteq Caches /\ initialized \subseteq Caches /\ reading \subseteq Caches
    /\ torn \subseteq Caches
    /\ writes \in 0..MaxWrites /\ faults \in 0..MaxFaults

Init ==
    /\ content = [n \in Nodes |-> Nothing]
    /\ unsent = [n \in Nodes |-> << >>]
    /\ queue = [c \in Caches |-> << >>]
    /\ conn = [c \in Caches |-> "none"]
    /\ pc = [c \in Caches |-> "start"]
    /\ fetched = [c \in Caches |-> [kinds |-> {}, items |-> Nothing]]
    /\ todo = [c \in Caches |-> Idle]
    /\ ok = {} /\ initialized = {} /\ reading = {} /\ torn = {}
    /\ writes = 0 /\ faults = 0

Children(n) == {c \in Caches : Parent[c] = n}
Go(c, label) == pc' = [pc EXCEPT ![c] = label]
Fault == faults < MaxFaults /\ faults' = faults + 1

\* Where a read of a node ends up: read() falls back to the node's own source.
Serving[n \in Nodes] == IF n = Backend \/ n \in ok THEN n ELSE Serving[Parent[n]]

-----------------------------------------------------------------------------
(* The backend *)

\* An item is put, or deleted if there is one.
Write(k, v) ==
    /\ writes < MaxWrites
    /\ v = writes + 1 \/ (v = Absent /\ content[Backend][k] # Absent)
    /\ content' = [content EXCEPT ![Backend][k] = v]
    /\ unsent' = [unsent EXCEPT ![Backend] = Append(@, [key |-> k, value |-> v])]
    /\ writes' = writes + 1
    /\ UNCHANGED <<cacheState, ok, initialized, reading, torn, faults>>

-----------------------------------------------------------------------------
(* Fanout *)

\* Mutant: the channel has no limit.
EmitToAll(n, event) ==
    /\ queue' = [c \in Caches |-> IF c \in Children(n) /\ conn[c] = "attached"
                                     THEN Append(queue[c], event) ELSE queue[c]]
    /\ UNCHANGED conn

\* Emit: a watcher with a full channel is removed and cancelled.
EmitTo(n, event) ==
    LET fits(c) == Len(queue[c]) < QueueSize
        to == {c \in Children(n) : conn[c] = "attached"}
    IN  /\ queue' = [c \in Caches |-> IF c \in to /\ fits(c) THEN Append(queue[c], event) ELSE queue[c]]
        /\ conn' = [c \in Caches |-> IF c \in to /\ ~fits(c) THEN "done" ELSE conn[c]]

\* takeAndReset, takeAndClose: the watchers are taken out at once and cancelled
\* by a goroutine of its own.
Taken(n) == [c \in Caches |-> IF Parent[c] = n /\ conn[c] = "attached" THEN "detached" ELSE conn[c]]

CloseWatcher(c) ==
    /\ conn[c] = "detached"
    /\ conn' = [conn EXCEPT ![c] = "done"]
    /\ UNCHANGED <<content, torn, unsent, queue, pc, fetched, todo, ok, initialized, reading, writes, faults>>

\* CircularBuffer.fanOutEvent, and forwardEvents of lib/services/local/events.go: the
\* queue of a cache of the backend stands for the channel and the backlog of its
\* BufferWatcher.  The buffer lets a backlog grow for a grace period before it drops
\* the watcher, here a full queue drops it at once: a cache is disconnected at least
\* as often as by the code.
EmitBackend ==
    /\ unsent[Backend] # << >>
    /\ EmitTo(Backend, Head(unsent[Backend]))
    /\ unsent' = [unsent EXCEPT ![Backend] = Tail(@)]
    /\ UNCHANGED <<content, torn, pc, fetched, todo, ok, initialized, reading, writes, faults>>

\* The connection of a watcher to its parent breaks.
Disconnect(c) ==
    /\ conn[c] = "attached" /\ Fault
    /\ conn' = [conn EXCEPT ![c] = "done"]
    /\ UNCHANGED <<content, torn, unsent, queue, pc, fetched, todo, ok, initialized, reading, writes>>

-----------------------------------------------------------------------------
(* fetchAndWatch *)

Closed(n) == n # Backend /\ pc[n] = "closed"

\* The init event comes at once from a fan-out that is initialized.
NewWatcher(c) ==
    /\ pc[c] = "start" /\ ~Closed(Parent[c])
    /\ conn' = [conn EXCEPT ![c] = "attached"]
    /\ queue' = [queue EXCEPT ![c] =
                   IF Parent[c] \in initialized \cup {Backend} THEN <<OpInit>> ELSE << >>]
    /\ Go(c, "init")
    /\ UNCHANGED <<content, torn, unsent, fetched, todo, ok, initialized, reading, writes, faults>>

ReceiveInit(c) ==
    /\ pc[c] = "init" /\ queue[c] # << >> /\ Head(queue[c]) = OpInit
    /\ queue' = [queue EXCEPT ![c] = Tail(@)]
    /\ Go(c, "fetch")
    /\ UNCHANGED <<content, torn, unsent, conn, fetched, todo, ok, initialized, reading, writes, faults>>

\* collection.fetch: one range of the parent, or of what the parent reads from.
Fetch(c, kind) ==
    /\ pc[c] = "fetch" /\ kind \notin fetched[c].kinds /\ ~Closed(Parent[c])
    /\ fetched' = [fetched EXCEPT ![c] =
         [kinds |-> @.kinds \cup {kind},
          items |-> [k \in Keys |-> IF Kind[k] = kind THEN content[Serving[Parent[c]]][k]
                                                      ELSE @.items[k]]]]
    /\ UNCHANGED <<content, torn, unsent, queue, conn, pc, todo, ok, initialized, reading, writes, faults>>

\* setReadOK(false) waits for the read guards.
BeginApply(c) ==
    /\ pc[c] = "fetch" /\ fetched[c].kinds = Kinds
    /\ c \notin reading
    /\ ok' = ok \ {c}
    /\ todo' = [todo EXCEPT ![c] = [kinds |-> Kinds, puts |-> {}]]
    /\ Go(c, "apply")
    /\ UNCHANGED <<content, torn, unsent, queue, conn, fetched, initialized, reading, writes, faults>>

\* The collections are applied one after the other, each first erased ...
ApplyErase(c, kind) ==
    /\ pc[c] = "apply" /\ todo[c].puts = {} /\ kind \in todo[c].kinds
    /\ content' = [content EXCEPT ![c] = [k \in Keys |-> IF Kind[k] = kind THEN Absent ELSE @[k]]]
    /\ todo' = [todo EXCEPT ![c] =
         [kinds |-> @.kinds \ {kind},
          puts |-> {k \in Keys : Kind[k] = kind /\ fetched[c].items[k] # Absent}]]
    /\ torn' = torn \cup {c}
    /\ UNCHANGED <<unsent, queue, conn, pc, fetched, ok, initialized, reading, writes, faults>>

\* ... and then filled.
ApplyPut(c, k) ==
    /\ k \in todo[c].puts
    /\ content' = [content EXCEPT ![c][k] = fetched[c].items[k]]
    /\ todo' = [todo EXCEPT ![c].puts = @ \ {k}]
    /\ UNCHANGED <<unsent, queue, conn, pc, fetched, ok, initialized, reading, torn, writes, faults>>

\* apply was successful: setReadOK(true).
EndApply(c) ==
    /\ pc[c] = "apply" /\ todo[c] = Idle
    /\ ok' = ok \cup {c} /\ torn' = torn \ {c}
    /\ fetched' = [fetched EXCEPT ![c] = [kinds |-> {}, items |-> Nothing]]
    /\ Go(c, "setInit")
    /\ UNCHANGED <<content, unsent, queue, conn, todo, initialized, reading, writes, faults>>

\* Fanout.SetInit: the watchers that queued up get their init event.
SetInit(c) ==
    /\ pc[c] = "setInit"
    /\ initialized' = initialized \cup {c}
    /\ queue' = [d \in Caches |-> IF Parent[d] = c /\ conn[d] = "attached"
                                    THEN <<OpInit>> ELSE queue[d]]
    /\ Go(c, "loop")
    /\ UNCHANGED <<content, torn, unsent, conn, fetched, todo, ok, reading, writes, faults>>

\* processEvent, first half: the collection.
ProcessEvent(c) ==
    /\ pc[c] = "loop" /\ queue[c] # << >>
    /\ LET event == Head(queue[c])
       IN  /\ content' = [content EXCEPT ![c][event.key] = event.value]
           /\ unsent' = [unsent EXCEPT ![c] = <<event>>]
    /\ queue' = [queue EXCEPT ![c] = Tail(@)]
    /\ Go(c, "emit")
    /\ UNCHANGED <<conn, fetched, todo, ok, initialized, reading, torn, writes, faults>>

\* processEvent, second half: the fan-out.
EmitCache(c) ==
    /\ pc[c] = "emit"
    /\ EmitTo(c, Head(unsent[c]))
    /\ unsent' = [unsent EXCEPT ![c] = << >>]
    /\ Go(c, "loop")
    /\ UNCHANGED <<content, torn, fetched, todo, ok, initialized, reading, writes, faults>>

\* Mutant: the event loop does not select on watcher.Done().
FailsInInit(c) ==
    \/ conn[c] = "done" /\ pc[c] = "init" /\ UNCHANGED faults
    \/ pc[c] = "fetch" /\ Closed(Parent[c]) /\ UNCHANGED faults
    \/ pc[c] \in {"init", "fetch", "apply", "loop"} /\ Fault

\* What makes fetchAndWatch return: a watcher that is done, where it looks at
\* that, a source that is closed, or a request that fails or times out.
Fails(c) ==
    \/ conn[c] = "done" /\ pc[c] \in {"init", "loop"} /\ UNCHANGED faults
    \/ pc[c] = "fetch" /\ Closed(Parent[c]) /\ UNCHANGED faults
    \/ pc[c] \in {"init", "fetch", "apply", "loop"} /\ Fault

\* Mutant: the derivative caches are not told.
FailWithoutReset(c) ==
    /\ Fails(c)
    /\ conn' = [conn EXCEPT ![c] = "none"]
    /\ queue' = [queue EXCEPT ![c] = << >>]
    /\ fetched' = [fetched EXCEPT ![c] = [kinds |-> {}, items |-> Nothing]]
    /\ todo' = [todo EXCEPT ![c] = Idle]
    /\ Go(c, "start")
    /\ UNCHANGED <<content, torn, unsent, ok, initialized, reading, writes>>

\* Mutant: the cache is made readable again also after an apply that failed.
FailReadable(c) ==
    /\ Fails(c)
    /\ ok' = IF pc[c] = "apply" THEN ok \cup {c} ELSE ok
    /\ conn' = [IF pc[c] = "loop" THEN Taken(c) ELSE conn EXCEPT ![c] = "none"]
    /\ initialized' = initialized \ {c}
    /\ queue' = [queue EXCEPT ![c] = << >>]
    /\ fetched' = [fetched EXCEPT ![c] = [kinds |-> {}, items |-> Nothing]]
    /\ todo' = [todo EXCEPT ![c] = Idle]
    /\ Go(c, "start")
    /\ UNCHANGED <<content, torn, unsent, reading, writes>>

\* Its deferred calls: Fanout.Reset, if SetInit was called, and watcher.Close.
\* What was readable stays readable until the next apply.
Fail(c) ==
    /\ Fails(c)
    /\ conn' = [IF pc[c] = "loop" THEN Taken(c) ELSE conn EXCEPT ![c] = "none"]
    /\ initialized' = initialized \ {c}
    /\ queue' = [queue EXCEPT ![c] = << >>]
    /\ fetched' = [fetched EXCEPT ![c] = [kinds |-> {}, items |-> Nothing]]
    /\ todo' = [todo EXCEPT ![c] = Idle]
    /\ Go(c, "start")
    /\ UNCHANGED <<content, torn, unsent, ok, reading, writes>>

\* Cache.Close, from any point: the fan-out is closed for good.
Close(c) ==
    /\ pc[c] # "closed" /\ Fault
    /\ conn' = [Taken(c) EXCEPT ![c] = "none"]
    /\ queue' = [queue EXCEPT ![c] = << >>]
    /\ unsent' = [unsent EXCEPT ![c] = << >>]
    /\ fetched' = [fetched EXCEPT ![c] = [kinds |-> {}, items |-> Nothing]]
    /\ todo' = [todo EXCEPT ![c] = Idle]
    /\ Go(c, "closed")
    /\ UNCHANGED <<content, torn, ok, initialized, reading, writes>>

-----------------------------------------------------------------------------
(* Readers *)

\* read() takes the lock if the cache is readable; otherwise the reader is one
\* of the parent's.
ReadBegin(c) ==
    /\ c \in ok \ reading /\ pc[c] # "closed"
    /\ reading' = reading \cup {c}
    /\ UNCHANGED <<content, torn, unsent, cacheState, ok, initialized, writes, faults>>

ReadRelease(c) ==
    /\ c \in reading
    /\ reading' = reading \ {c}
    /\ UNCHANGED <<content, torn, unsent, cacheState, ok, initialized, writes, faults>>

FetchAndWatch(c) ==
    \/ NewWatcher(c) \/ ReceiveInit(c)
    \/ \E kind \in Kinds : Fetch(c, kind) \/ ApplyErase(c, kind)
    \/ BeginApply(c) \/ EndApply(c) \/ SetInit(c)
    \/ \E k \in Keys : ApplyPut(c, k)
    \/ ProcessEvent(c) \/ EmitCache(c) \/ Fail(c)

Next ==
    \/ \E k \in Keys, v \in Values : Write(k, v)
    \/ EmitBackend
    \/ \E c \in Caches :
         \/ FetchAndWatch(c) \/ CloseWatcher(c) \/ Disconnect(c) \/ Close(c)
         \/ ReadBegin(c) \/ ReadRelease(c)

\* The backend's events arrive, the caches' goroutines are scheduled and guards
\* are released; a waiting writer of the RWMutex goes before later readers.
Fairness ==
    /\ WF_vars(EmitBackend)
    /\ \A c \in Caches : /\ WF_vars(FetchAndWatch(c)) /\ WF_vars(CloseWatcher(c))
                         /\ SF_vars(BeginApply(c)) /\ WF_vars(ReadRelease(c))

Spec == Init /\ [][Next]_vars /\ Fairness

-----------------------------------------------------------------------------
(* Properties *)

\* The items after a sequence of events: the last one about an item counts.
Replayed(items, events) ==
    [k \in Keys |->
       LET about == {i \in DOMAIN events : events[i].key = k}
       IN  IF about = {} THEN items[k]
           ELSE events[CHOOSE i \in about : \A j \in about : j <= i].value]

\* fetchAndWatch: a cache that follows its parent's events has missed none and
\* read nothing that they do not account for: with what is still on the way it
\* has the parent's items, although fetch reads kind after kind while events
\* pile up, and events older than what it read are replayed.
ReplicaInSync ==
    \A c \in Caches :
      pc[c] \in {"loop", "emit"} /\ conn[c] = "attached" =>
        content[Parent[c]] = Replayed(content[c], queue[c] \o unsent[Parent[c]])

\* read and setReadOK: a cache with collections that are half applied has no
\* readers and gets none, while apply runs and after it has failed or was cut
\* off half way, however often, until one has come to its end.
NoPartialReads == \A c \in torn : c \notin ok /\ c \notin reading

\* The update loop: once nothing is written and nothing fails any more, all
\* caches whose ancestors are open are readable and equal to the backend.
Converges ==
    <>[](\A c \in Caches :
           pc[c] # "closed" /\ ~Closed(Parent[c]) =>
             c \in ok /\ (Parent[c] \in ok \cup {Backend} => content[c] = content[Backend]))

=============================================================================
