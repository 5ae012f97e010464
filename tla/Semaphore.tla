----------------------------- MODULE Semaphore -----------------------------
(***************************************************************************)
(* Semaphores: the record of lib/services/local/presence.go that holds the *)
(* leases of one semaphore, the operations of api/types/semaphore.go on it *)
(* and the keepalive of lib/services/semaphore.go.                         *)
(*                                                                         *)
(* A lock is one call of AcquireSemaphoreLock; AcquireSemaphore draws a    *)
(* fresh lease id, so the lock is its own lease id.  Its goroutine         *)
(* (keepAlive) and the auth server's handlers of its keepalive calls are   *)
(* threads of their own: a call may fail for the goroutine, with its       *)
(* context or with the connection, while the handler runs on, and the      *)
(* goroutine then calls again.  Every operation reads the record with Get  *)
(* and writes it back with Create or CompareAndSwap, two requests that     *)
(* others can come between.                                                *)
(*                                                                         *)
(* As in BackendLock what is kept of a time is the number of ticks left.   *)
(* The clocks of the auth servers and of the holders agree, every request  *)
(* may fail, before or after it took effect, and any step may be late.     *)
(* One behaviour of the code has to be excluded for the limit to hold: a   *)
(* handler that outlives the round of its call may renew the lease after   *)
(* a later round did, and KeepAlive then sets its expiry back.  In a       *)
(* punctual behaviour a round begins when the handlers of the earlier ones *)
(* have ended; the specification has both kinds.                           *)
(***************************************************************************)
EXTENDS Integers, FiniteSets, Functions

CONSTANTS Locks,      \* the calls of AcquireSemaphoreLock on one semaphore
          Limits,     \* what MaxLeases of the requests may be
          Expiry,     \* SemaphoreLockConfig.Expiry, in ticks
          Attempts,   \* leaseRetryAttempts
          Calls,      \* the bound: the keepalive calls of a lock that run at a time
          Punctual    \* whether the handlers of a failed call end before the next round

ASSUME LeaseAssumption == Limits \subseteq Nat \ {0} /\ Attempts \in Nat \ {0} /\ Punctual \subseteq BOOLEAN
\* Names that stand for no call.
ASSUME CallsAssumption == "main" \notin Calls /\ "none" \notin Calls
\* CheckAndSetDefaults wants 0 < TickRate < Expiry.
ASSUME ExpiryAssumption == Expiry \in Nat /\ Expiry > 1

VARIABLES maxLeases, \* MaxLeases of every AcquireSemaphoreRequest of this run
          punctual,  \* whether they do in this run
          record,    \* the backend item: ticks left and the leases (id -> ticks left)
          pc,        \* where the call of AcquireSemaphoreLock and its goroutine are
          attempt,   \* the i of the retry loop of AcquireSemaphore or CancelSemaphoreLease
          lease,     \* ticks left of lease.Expires as the holder knows it
          ticker,    \* ticks until ticker.C fires
          tickC,     \* the tick in ticker.C: ticks left of tick + Expiry
          next,      \* ticks left of nextLease.Expires
          call,      \* the call of KeepAliveSemaphoreLease that keepAlive waits for
          handler,   \* where the handler of a call is, or its answer
          asked,     \* ticks left of the Expires of a call, until the handler used it
          seen,      \* what a thread read of the record with Get
          update,    \* what it will write: computed from what it read
          fresh,     \* the threads since whose Get no lease was renewed
          ctxDone,   \* the locks whose parent context is cancelled
          doneC,     \* the locks whose doneC is closed
          revoked    \* the locks whose lease was deleted with its semaphore

given == <<maxLeases, punctual>>
rpc == <<call, handler, asked>>
vars == <<given, record, pc, attempt, lease, ticker, tickC, next, rpc, seen, update, fresh,
          ctxDone, doneC, revoked>>

Empty == [l \in {} |-> 0]
Absent == [left |-> 0, leases |-> Empty]
NoTick == -1
TickRate == Expiry \div 2

NoCall == "none"

\* The threads of a lock that read and write the record.
Main(l) == <<l, "main">>
Handler(l, c) == <<l, c>>
Handlers == Locks \X Calls
Threads == Handlers \cup Locks \X {"main"}

Leases == UNION {[S -> 0..Expiry] : S \in SUBSET Locks}
Records == [left : 0..Expiry, leases : Leases]

MainStates == {"idle", "get", "swap", "create", "failed", "held", "renew", "backoff",
               "cancelGet", "cancelSwap", "finished"}
HandlerStates == {"none", "get", "swap", "ok", "notFound", "error"}

TypeOK ==
    /\ maxLeases \in Limits
    /\ punctual \in Punctual
    /\ record \in Records
    /\ record.left = 0 => record = Absent
    /\ pc \in [Locks -> MainStates]
    /\ attempt \in [Locks -> 0..Attempts]
    /\ lease \in [Locks -> 0..Expiry]
    /\ ticker \in [Locks -> 0..TickRate]
    /\ tickC \in [Locks -> NoTick..Expiry]
    /\ next \in [Locks -> 0..Expiry]
    /\ call \in [Locks -> Calls \cup {NoCall}]
    /\ handler \in [Handlers -> HandlerStates]
    /\ asked \in [Handlers -> 0..Expiry]
    /\ seen \in [Threads -> Records]
    /\ update \in [Threads -> Records]
    /\ fresh \in SUBSET Threads
    /\ ctxDone \in SUBSET Locks
    /\ doneC \in SUBSET Locks
    /\ revoked \in SUBSET Locks

\* The semaphore does not exist, or has just been left by its last holder.
Init ==
    /\ maxLeases \in Limits
    /\ punctual \in Punctual
    /\ record \in {Absent, [left |-> Expiry, leases |-> Empty]}
    /\ pc = [l \in Locks |-> "idle"]
    /\ attempt = [l \in Locks |-> 0]
    /\ lease = [l \in Locks |-> 0]
    /\ ticker = [l \in Locks |-> 0]
    /\ tickC = [l \in Locks |-> NoTick]
    /\ next = [l \in Locks |-> 0]
    /\ call = [l \in Locks |-> NoCall]
    /\ handler = [h \in Handlers |-> "none"]
    /\ asked = [h \in Handlers |-> 0]
    /\ seen = [t \in Threads |-> Absent]
    /\ update = [t \in Threads |-> Absent]
    /\ fresh = {}
    /\ ctxDone = {}
    /\ doneC = {}
    /\ revoked = {}

-----------------------------------------------------------------------------
(* The methods of SemaphoreV3 on a record r *)

Later(a, b) == IF a > b THEN a ELSE b

\* An item written with no time left is gone before anyone can read it.
Item(r) == IF r.left = 0 THEN Absent ELSE r

RemoveExpiredLeases(r) ==
    [r EXCEPT !.leases = Restrict(@, {l \in DOMAIN @ : @[l] > 0})]

\* leaseCount() < maxLeases
HasRoom(r) == Cardinality(DOMAIN r.leases) < maxLeases

\* Acquire and KeepAlive set the lease's expiry and move the record's with it.
WithLease(r, l, left) ==
    [left |-> Later(r.left, left),
     leases |-> [k \in DOMAIN r.leases \cup {l} |-> IF k = l THEN left ELSE r.leases[k]]]

\* Cancel leaves the record's expiry as it is.
Cancel(r, l) == [r EXCEPT !.leases = Restrict(@, DOMAIN @ \ {l})]

-----------------------------------------------------------------------------
(* Get and CompareAndSwap *)

Found == record.left > 0

\* RemoveExpiredLeases uses the clock right after Get.
Read(t, new) ==
    /\ seen' = [seen EXCEPT ![t] = record]
    /\ update' = [update EXCEPT ![t] = new]
    /\ fresh' = fresh \cup {t}

Forget(t) ==
    /\ seen' = [seen EXCEPT ![t] = Absent]
    /\ update' = [update EXCEPT ![t] = Absent]
    /\ fresh' = fresh \ {t}

\* CompareAndSwap compares the stored bytes with the ones Get returned.  A
\* renewal is told apart by fresh: once a lease is expired its ticks left no
\* longer are.
Unchanged(t) == Found /\ record = seen[t] /\ t \in fresh

Move(l, from, to) == pc[l] = from /\ pc' = [pc EXCEPT ![l] = to]
Handle(h, from, to) == handler[h] = from /\ handler' = [handler EXCEPT ![h] = to]

-----------------------------------------------------------------------------
(* AcquireSemaphore *)

\* CheckAndSetDefaults computes Params.Expires before the first attempt.
Call(l) ==
    /\ Move(l, "idle", "get")
    /\ lease' = [lease EXCEPT ![l] = Expiry]
    /\ UNCHANGED <<given, record, attempt, ticker, tickC, next, rpc, seen, update, fresh, ctxDone, doneC, revoked>>

\* NotFound goes on to initSemaphore.
AcquireGet(l) ==
    /\ \/ Found /\ HasRoom(RemoveExpiredLeases(record)) /\ Move(l, "get", "swap")
       \/ ~Found /\ Move(l, "get", "create")
    /\ Read(Main(l), WithLease(RemoveExpiredLeases(record), l, lease[l]))
    /\ UNCHANGED <<given, record, attempt, lease, ticker, tickC, next, rpc, ctxDone, doneC, revoked>>

\* AcquireSemaphore or CancelSemaphoreLease returns and there is no lease.
NoLease(l) ==
    /\ lease' = [lease EXCEPT ![l] = 0]
    /\ attempt' = [attempt EXCEPT ![l] = 0]
    /\ Forget(Main(l))
    /\ UNCHANGED <<given, ticker, tickC, next, rpc, ctxDone, doneC, revoked>>

\* LimitExceeded
AcquireExceeded(l) ==
    /\ Found /\ ~HasRoom(RemoveExpiredLeases(record))
    /\ Move(l, "get", "failed")
    /\ NoLease(l)
    /\ UNCHANGED record

\* The lease is returned, AcquireSemaphoreLock starts the ticker and keepAlive.
Acquired(l) ==
    /\ \E s \in {"swap", "create"} : Move(l, s, "held")
    /\ ticker' = [ticker EXCEPT ![l] = TickRate]
    /\ attempt' = [attempt EXCEPT ![l] = 0]
    /\ Forget(Main(l))
    /\ UNCHANGED <<given, lease, tickC, next, rpc, ctxDone, doneC, revoked>>

\* Mutant: a Put that compares nothing.
AcquireSwapPut(l) ==
    /\ pc[l] = "swap"
    /\ record' = Item(update[Main(l)])
    /\ Acquired(l)

AcquireSwap(l) ==
    /\ pc[l] = "swap" /\ Unchanged(Main(l))
    /\ record' = Item(update[Main(l)])
    /\ Acquired(l)

\* initSemaphore: ConfigureSemaphore, Acquire and Create.
AcquireCreate(l) ==
    /\ pc[l] = "create" /\ ~Found
    /\ record' = Item(update[Main(l)])
    /\ Acquired(l)

Contended(l) ==
    \/ pc[l] = "swap" /\ ~Unchanged(Main(l))
    \/ pc[l] = "create" /\ Found

\* Mutant: the attempts are not counted against the limit.
AcquireContendedAlways(l) ==
    /\ Contended(l)
    /\ Move(l, pc[l], "get")
    /\ attempt' = [attempt EXCEPT ![l] = @ + 1]
    /\ Forget(Main(l))
    /\ UNCHANGED <<given, record, lease, ticker, tickC, next, rpc, ctxDone, doneC, revoked>>

\* CompareFailed or AlreadyExists: the next attempt, after a backoff.
AcquireContended(l) ==
    /\ Contended(l) /\ attempt[l] + 1 < Attempts
    /\ Move(l, pc[l], "get")
    /\ attempt' = [attempt EXCEPT ![l] = @ + 1]
    /\ Forget(Main(l))
    /\ UNCHANGED <<given, record, lease, ticker, tickC, next, rpc, ctxDone, doneC, revoked>>

\* Contention at the last attempt, any other error and a context that is done
\* between two attempts end the call; a request that fails may have taken effect.
AcquireFailed(l) ==
    /\ \E s \in {"get", "swap", "create"} : Move(l, s, "failed")
    /\ \/ record' = record
       \/ /\ pc[l] \in {"swap", "create"} /\ ~Contended(l)
          /\ record' = Item(update[Main(l)])
    /\ NoLease(l)

-----------------------------------------------------------------------------
(* SemaphoreLock.keepAlive *)

\* leaseContext ends with the lease and with the parent context.
LeaseContextDone(l) == lease[l] = 0 \/ l \in ctxDone

\* The call goes to a handler that is free.
Send(l, left) ==
    \E c \in Calls :
      /\ Handle(Handler(l, c), "none", "get")
      /\ asked' = [asked EXCEPT ![Handler(l, c)] = left]
      /\ call' = [call EXCEPT ![l] = c]

\* A tick begins a round: nextLease expires Expiry after the tick, and the
\* handler is called, unless leaseContext is done already.
KeepAliveTick(l) ==
    /\ tickC[l] # NoTick
    /\ punctual => \A c \in Calls : handler[Handler(l, c)] = "none"
    /\ next' = [next EXCEPT ![l] = tickC[l]]
    /\ tickC' = [tickC EXCEPT ![l] = NoTick]
    /\ IF LeaseContextDone(l)
         THEN Move(l, "held", "backoff") /\ UNCHANGED rpc
         ELSE Move(l, "held", "renew") /\ Send(l, tickC[l])
    /\ UNCHANGED <<given, record, attempt, lease, ticker, seen, update, fresh, ctxDone, doneC, revoked>>

\* The handler's answer to the call arrives.
Receive(l, answer) ==
    /\ Handle(Handler(l, call[l]), answer, "none")
    /\ call' = [call EXCEPT ![l] = NoCall]
    /\ UNCHANGED asked

\* nodrop: stop at once and leave the lease.
KeepAliveNotFound(l) ==
    /\ Move(l, "renew", "finished")
    /\ Receive(l, "notFound")
    /\ doneC' = doneC \cup {l}
    /\ ticker' = [ticker EXCEPT ![l] = 0]
    /\ tickC' = [tickC EXCEPT ![l] = NoTick]
    /\ lease' = [lease EXCEPT ![l] = 0]
    /\ next' = [next EXCEPT ![l] = 0]
    /\ UNCHANGED <<given, record, attempt, seen, update, fresh, ctxDone, revoked>>

KeepAliveOK(l) ==
    /\ Move(l, "renew", "held")
    /\ Receive(l, "ok")
    /\ lease' = [lease EXCEPT ![l] = next[l]]
    /\ next' = [next EXCEPT ![l] = 0]
    /\ UNCHANGED <<given, record, attempt, ticker, tickC, seen, update, fresh, ctxDone, doneC, revoked>>

\* The call fails for keepAlive: the handler answered with an error, or the
\* answer is lost or not there yet.  A handler that is not done runs on.
CallFails(l) ==
    /\ handler' = [handler EXCEPT ![Handler(l, call[l])] = IF @ \in {"get", "swap"} THEN @ ELSE "none"]
    /\ call' = [call EXCEPT ![l] = NoCall]
    /\ UNCHANGED asked

\* Mutant: the lease is taken as renewed when the call fails.
KeepAliveErrorIgnored(l) ==
    /\ Move(l, "renew", "held")
    /\ CallFails(l)
    /\ lease' = [lease EXCEPT ![l] = next[l]]
    /\ next' = [next EXCEPT ![l] = 0]
    /\ UNCHANGED <<given, record, attempt, ticker, tickC, seen, update, fresh, ctxDone, doneC, revoked>>

\* Any other error is retried, also one of the connection or of leaseContext.
KeepAliveError(l) ==
    /\ Move(l, "renew", "backoff")
    /\ CallFails(l)
    /\ UNCHANGED <<given, record, attempt, lease, ticker, tickC, next, seen, update, fresh, ctxDone, doneC, revoked>>

\* retry.After, or a tick with time left on the lease: call again, for the same
\* nextLease.
KeepAliveRetry(l) ==
    /\ ~LeaseContextDone(l)
    /\ Move(l, "backoff", "renew")
    /\ Send(l, next[l])
    /\ \/ tickC' = tickC
       \/ tickC[l] # NoTick /\ tickC' = [tickC EXCEPT ![l] = NoTick]
    /\ UNCHANGED <<given, record, attempt, lease, ticker, next, seen, update, fresh, ctxDone, doneC, revoked>>

\* The loop returns and the deferred function calls Stop.  A lease with time
\* left is cancelled, an expired one is left to the record.
Leave(l) ==
    /\ Move(l, pc[l], IF lease[l] > 0 THEN "cancelGet" ELSE "finished")
    /\ doneC' = doneC \cup {l}
    /\ ticker' = [ticker EXCEPT ![l] = 0]
    /\ tickC' = [tickC EXCEPT ![l] = NoTick]
    /\ UNCHANGED <<given, record, attempt, lease, next, rpc, seen, update, fresh, ctxDone, revoked>>

\* Mutant: the retry loop does not look at what is left of the lease.
KeepAliveLeaveOnStop(l) ==
    /\ pc[l] \in {"held", "backoff"} /\ (l \in ctxDone \/ l \in doneC)
    /\ Leave(l)

\* Mutant: only the context is looked at.
KeepAliveLeaveOnContext(l) ==
    /\ \/ pc[l] = "held" /\ l \in ctxDone
       \/ pc[l] = "backoff" /\ LeaseContextDone(l)
    /\ Leave(l)

\* A tick that finds the lease expired leaves like leaseContext.Done().
KeepAliveLeave(l) ==
    /\ \/ pc[l] = "held" /\ (l \in ctxDone \/ l \in doneC)
       \/ pc[l] = "backoff" /\ (LeaseContextDone(l) \/ l \in doneC)
    /\ Leave(l)

-----------------------------------------------------------------------------
(* KeepAliveSemaphoreLease on the auth server *)

\* The answer goes to keepAlive if it still waits for this call.
Answered(l, c, from, answer) ==
    /\ Handle(Handler(l, c), from, IF call[l] = c THEN answer ELSE "none")
    /\ asked' = [asked EXCEPT ![Handler(l, c)] = 0]

HandleGet(l, c) ==
    /\ asked[Handler(l, c)] > 0 /\ Found
    /\ l \in DOMAIN RemoveExpiredLeases(record).leases
    /\ Handle(Handler(l, c), "get", "swap")
    /\ Read(Handler(l, c), WithLease(RemoveExpiredLeases(record), l, asked[Handler(l, c)]))
    /\ asked' = [asked EXCEPT ![Handler(l, c)] = 0]
    /\ UNCHANGED <<given, record, pc, attempt, lease, ticker, tickC, next, call, ctxDone, doneC, revoked>>

\* Neither a semaphore that is gone nor a lease that is not in it is renewed.
HandleNotFound(l, c) ==
    /\ asked[Handler(l, c)] > 0
    /\ ~(Found /\ l \in DOMAIN RemoveExpiredLeases(record).leases)
    /\ Answered(l, c, "get", "notFound")
    /\ UNCHANGED <<given, record, pc, attempt, lease, ticker, tickC, next, call, seen, update, fresh, ctxDone, doneC, revoked>>

\* The record with the lease renewed; everyone else's copy is out of date.
Renewed(h) ==
    /\ record' = Item(update[h])
    /\ seen' = [seen EXCEPT ![h] = Absent]
    /\ update' = [update EXCEPT ![h] = Absent]
    /\ fresh' = IF record' = record THEN fresh \ {h} ELSE {}

\* Mutant: a Put of the record Get returned, with the lease renewed.
HandleSwapPut(l, c) ==
    /\ Answered(l, c, "swap", "ok")
    /\ Renewed(Handler(l, c))
    /\ UNCHANGED <<given, pc, attempt, lease, ticker, tickC, next, call, ctxDone, doneC, revoked>>

HandleSwap(l, c) ==
    /\ Unchanged(Handler(l, c))
    /\ Answered(l, c, "swap", "ok")
    /\ Renewed(Handler(l, c))
    /\ UNCHANGED <<given, pc, attempt, lease, ticker, tickC, next, call, ctxDone, doneC, revoked>>

\* A nextLease in the past, CompareFailed and every other error are answered
\* alike; a CompareAndSwap that fails may have taken effect.
HandleError(l, c) ==
    /\ \E s \in {"get", "swap"} : Answered(l, c, s, "error")
    /\ \/ record' = record /\ Forget(Handler(l, c))
       \/ handler[Handler(l, c)] = "swap" /\ Unchanged(Handler(l, c)) /\ Renewed(Handler(l, c))
    /\ UNCHANGED <<given, pc, attempt, lease, ticker, tickC, next, call, ctxDone, doneC, revoked>>

-----------------------------------------------------------------------------
(* CancelSemaphoreLease *)

CancelGet(l) ==
    /\ Found /\ l \in DOMAIN record.leases
    /\ Move(l, "cancelGet", "cancelSwap")
    /\ Read(Main(l), Cancel(record, l))
    /\ UNCHANGED <<given, record, attempt, lease, ticker, tickC, next, rpc, ctxDone, doneC, revoked>>

CancelSwap(l) ==
    /\ Unchanged(Main(l))
    /\ Move(l, "cancelSwap", "finished")
    /\ record' = Item(update[Main(l)])
    /\ NoLease(l)

CancelContended(l) ==
    /\ ~Unchanged(Main(l)) /\ attempt[l] + 1 < Attempts
    /\ Move(l, "cancelSwap", "cancelGet")
    /\ attempt' = [attempt EXCEPT ![l] = @ + 1]
    /\ Forget(Main(l))
    /\ UNCHANGED <<given, record, lease, ticker, tickC, next, rpc, ctxDone, doneC, revoked>>

\* NotFound, an expired lease, contention at the last attempt, the timeout of
\* Expiry / 4 or any other error.
CancelFailed(l) ==
    /\ \E s \in {"cancelGet", "cancelSwap"} : Move(l, s, "finished")
    /\ \/ record' = record
       \/ pc[l] = "cancelSwap" /\ Unchanged(Main(l)) /\ record' = Item(update[Main(l)])
    /\ NoLease(l)

-----------------------------------------------------------------------------
(* The holder, an administrator, and time *)

Running(l) == pc[l] \in {"held", "renew", "backoff"}

\* The holder cancels the context it passed.
CancelContext(l) ==
    /\ Running(l) /\ l \notin ctxDone
    /\ ctxDone' = ctxDone \cup {l}
    /\ UNCHANGED <<given, record, pc, attempt, lease, ticker, tickC, next, rpc, seen, update, fresh, doneC, revoked>>

\* SemaphoreLock.Stop
Stop(l) ==
    /\ Running(l) /\ l \notin doneC \cup ctxDone
    /\ doneC' = doneC \cup {l}
    /\ UNCHANGED <<given, record, pc, attempt, lease, ticker, tickC, next, rpc, seen, update, fresh, ctxDone, revoked>>

\* DeleteSemaphore, once.
DeleteSemaphore ==
    /\ Found /\ revoked = {}   \* the bound: one that finds a lease
    /\ record' = Absent
    /\ revoked' = DOMAIN record.leases
    /\ UNCHANGED <<given, pc, attempt, lease, ticker, tickC, next, rpc, seen, update, fresh, ctxDone, doneC>>

Less(n) == IF n = 0 THEN 0 ELSE n - 1

Aged(r) == [left |-> Less(r.left), leases |-> [l \in DOMAIN r.leases |-> Less(r.leases[l])]]

Fires(l) == Running(l) /\ l \notin doneC /\ ticker[l] = 1

\* A tick that is not received yet is kept, the ones after it are dropped.
Tick ==
    /\ record' = Item(Aged(record))
    /\ seen' = [t \in Threads |-> Aged(seen[t])]
    /\ update' = [t \in Threads |-> Aged(update[t])]
    /\ lease' = [l \in Locks |-> Less(lease[l])]
    /\ next' = [l \in Locks |-> Less(next[l])]
    /\ asked' = [h \in Handlers |-> Less(asked[h])]
    /\ ticker' = [l \in Locks |-> IF Fires(l) THEN TickRate ELSE Less(ticker[l])]
    /\ tickC' = [l \in Locks |-> IF tickC[l] # NoTick THEN Less(tickC[l])
                                 ELSE IF Fires(l) THEN Expiry ELSE NoTick]
    /\ UNCHANGED <<given, pc, attempt, call, handler, fresh, ctxDone, doneC, revoked>>

AcquireSemaphore(l) ==
    \/ Call(l) \/ AcquireGet(l) \/ AcquireExceeded(l) \/ AcquireSwap(l)
    \/ AcquireCreate(l) \/ AcquireContended(l) \/ AcquireFailed(l)

KeepAlive(l) ==
    \/ KeepAliveTick(l) \/ KeepAliveNotFound(l) \/ KeepAliveOK(l) \/ KeepAliveError(l)
    \/ KeepAliveRetry(l) \/ KeepAliveLeave(l)

KeepAliveSemaphoreLease(l, c) ==
    HandleGet(l, c) \/ HandleNotFound(l, c) \/ HandleSwap(l, c) \/ HandleError(l, c)

CancelSemaphoreLease(l) ==
    CancelGet(l) \/ CancelSwap(l) \/ CancelContended(l) \/ CancelFailed(l)

Next ==
    \/ \E l \in Locks :
         \/ AcquireSemaphore(l) \/ KeepAlive(l) \/ CancelSemaphoreLease(l)
         \/ \E c \in Calls : KeepAliveSemaphoreLease(l, c)
         \/ CancelContext(l) \/ Stop(l)
    \/ DeleteSemaphore
    \/ Tick

\* Time passes, and the goroutine and the auth server's handlers are scheduled;
\* nothing is promised of the holder.
Fairness ==
    /\ WF_vars(Tick)
    /\ \A l \in Locks : /\ WF_vars(KeepAlive(l)) /\ SF_vars(KeepAliveLeave(l))
                        /\ \A c \in Calls : WF_vars(KeepAliveSemaphoreLease(l, c))
                        /\ WF_vars(CancelSemaphoreLease(l))

Spec == Init /\ [][Next]_vars /\ Fairness

-----------------------------------------------------------------------------
(* Properties *)

\* A lock that has its lease and was not told, by itself or by keepAlive, that
\* it ended.
Holds(l) == Running(l) /\ l \notin doneC /\ l \notin ctxDone

Live(r) == {l \in DOMAIN r.leases : r.leases[l] > 0}

\* AcquireSemaphore: never more than MaxLeases holders with an unexpired lease,
\* however acquisitions, renewals and cancellations interleave, as long as
\* nobody deletes the semaphore under them and no handler of a failed renewal
\* lives into the next round.
HoldersBounded ==
    punctual =>
      Cardinality({l \in Locks : Holds(l) /\ lease[l] > 0 /\ l \notin revoked}) <= maxLeases

\* keepAlive: a holder's own idea of its expiry is never later than the
\* record's, although it learns of a renewal after the fact or not at all, and
\* although a renewal it counts as failed may still be under way when it calls
\* again; as long as that one ends before the next round begins.
HolderKnowsExpiry ==
    punctual =>
      \A l \in Locks : Holds(l) /\ lease[l] > 0 /\ l \notin revoked =>
                         l \in DOMAIN record.leases /\ lease[l] <= record.leases[l]

\* A lease enters the record only by the acquisition of its own lock and
\* leaves it unexpired only by the cancellation of that lock or with the whole
\* semaphore: no acquisition, renewal or expiry of the record drops it, and a
\* renewal its holder gave up on, however late, does not bring it back.
OnlyOwnLease ==
    [][\A l \in Locks :
         /\ l \in Live(record) /\ record.leases[l] > 1 /\ l \notin DOMAIN record'.leases
              => pc[l] = "cancelSwap" \/ revoked' # revoked
         /\ l \in DOMAIN record'.leases /\ l \notin DOMAIN record.leases
              => pc[l] \in {"swap", "create"}]_vars

\* SemaphoreLock.Done: a holder whose lease is gone from the record or ran out
\* is told, whatever the backend answers.
LapseNoticed ==
    \A l \in Locks : (Holds(l) /\ l \notin DOMAIN record.leases) ~> l \in doneC

\* Stop, Wait and the deferred cancel: once a lock is stopped Wait returns, and
\* the lock's place becomes free and stays free.
PlaceFreed ==
    \A l \in Locks :
      (l \in doneC \cup ctxDone) ~> [](pc[l] = "finished" /\ l \notin Live(record))

=============================================================================
