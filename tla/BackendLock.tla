---------------------------- MODULE BackendLock ----------------------------
(***************************************************************************)
(* The distributed lock of lib/backend/helpers.go: AcquireLock,            *)
(* Lock.Release, Lock.resetTTL and RunWhileLocked on top of one key of a   *)
(* backend whose items expire.                                             *)
(*                                                                         *)
(* A caller is one call of RunWhileLocked; AcquireLock draws a fresh       *)
(* random id for each call, so the caller is its own id.  Every call has   *)
(* two threads: the main one (acquire, run fn, release) and the goroutine  *)
(* that refreshes the lock.  Time is relative: what is kept of an expiry   *)
(* or of a timer is the number of ticks left, so no clock needs a bound.   *)
(*                                                                         *)
(* In a reliable run the backend answers without errors and each thread    *)
(* completes an operation it has begun within Delay ticks; in any other    *)
(* any call may fail and any step may be delayed for ever.                 *)
(***************************************************************************)
EXTENDS Integers, FiniteSets

CONSTANTS Callers,    \* the calls of RunWhileLocked on one lock name
          NoCaller,   \* the value of the key when it is absent or expired
          TTL,        \* the ttl argument, in ticks
          Delay       \* how late a thread can be in a reliable run

ASSUME CallerAssumption == NoCaller \notin Callers
ASSUME TimeAssumption == /\ TTL \in Nat \ {0}
                         /\ Delay \in Nat

VARIABLES reliable,   \* whether this run is reliable
          lock,       \* the backend item: its value (an id) and the ticks left
          pc,         \* where the main thread of a call is
          lease,      \* ticks left of the Expires computed before Create
          refresher,  \* where the refresh goroutine of a call is
          timer,      \* ticks left of its time.After(ttl / 2)
          renewal,    \* ticks left of the Expires computed before CompareAndSwap
          cancelled,  \* the calls whose subContext is cancelled
          mainAge,    \* ticks since the main thread began its operation
          refreshAge  \* ticks since the refresh timer fired

vars == <<reliable, lock, pc, lease, refresher, timer, renewal, cancelled, mainAge, refreshAge>>

Absent == [id |-> NoCaller, left |-> 0]

\* Mutant: the factor is on the wrong side.
RefreshAfterTwice == TTL * 2

\* Mutant: the refresh period is the whole ttl.
RefreshAfterWholeTTL == TTL

\* refreshAfter := ttl / 2
RefreshAfter == TTL \div 2

\* What a reliable backend owes the callers: beside the refresh period, the ttl
\* has room for three operations that are as late as they can be.
ASSUME RoomForDelays == TTL - TTL \div 2 > 3 * Delay

MainStates == {"idle", "acquire", "create", "running", "releaseGet",
               "releaseDelete", "returned"}
RefresherStates == {"none", "sleep", "get", "cas", "stopped"}

TypeOK ==
    /\ reliable \in BOOLEAN
    /\ lock \in [id : Callers \cup {NoCaller}, left : 0..TTL]
    /\ lock.left = 0 <=> lock.id = NoCaller
    /\ pc \in [Callers -> MainStates]
    /\ lease \in [Callers -> 0..TTL]
    /\ refresher \in [Callers -> RefresherStates]
    /\ timer \in [Callers -> 0..TTL]
    /\ renewal \in [Callers -> 0..TTL]
    /\ cancelled \in SUBSET Callers
    /\ mainAge \in [Callers -> 0..Delay]
    /\ refreshAge \in [Callers -> 0..Delay]

Init ==
    /\ reliable \in BOOLEAN
    /\ lock = Absent
    /\ pc = [c \in Callers |-> "idle"]
    /\ lease = [c \in Callers |-> 0]
    /\ refresher = [c \in Callers |-> "none"]
    /\ timer = [c \in Callers |-> 0]
    /\ renewal = [c \in Callers |-> 0]
    /\ cancelled = {}
    /\ mainAge = [c \in Callers |-> 0]
    /\ refreshAge = [c \in Callers |-> 0]

\* What the backend finds under the key: an expired item is not there.
Owned(c) == lock.id = c

\* An item that would be written with no time left is removed by the next
\* operation before anyone can read it.
Item(c, left) == IF left = 0 THEN Absent ELSE [id |-> c, left |-> left]

Move(c, from, to) == pc[c] = from /\ pc' = [pc EXCEPT ![c] = to]

Refresh(c, from, to) ==
    refresher[c] = from /\ refresher' = [refresher EXCEPT ![c] = to]

-----------------------------------------------------------------------------
(* AcquireLock *)

Call(c) ==
    /\ Move(c, "idle", "acquire")
    /\ UNCHANGED <<reliable, lock, lease, refresher, timer, renewal, cancelled, mainAge, refreshAge>>

\* Expires is computed from the caller's clock before Create reaches the backend.
AcquireExpires(c) ==
    /\ Move(c, "acquire", "create")
    /\ lease' = [lease EXCEPT ![c] = TTL]
    /\ UNCHANGED <<reliable, lock, refresher, timer, renewal, cancelled, mainAge, refreshAge>>

\* Create succeeds on a key that is absent; RunWhileLocked then starts the
\* refresh goroutine and calls fn.
AcquireCreated(c) ==
    /\ lock.left = 0
    /\ Move(c, "create", "running")
    /\ lock' = Item(c, lease[c])
    /\ Refresh(c, "none", "sleep")
    /\ timer' = [timer EXCEPT ![c] = RefreshAfter]
    /\ lease' = [lease EXCEPT ![c] = 0]
    /\ mainAge' = [mainAge EXCEPT ![c] = 0]
    /\ UNCHANGED <<reliable, renewal, cancelled, refreshAge>>

\* AlreadyExists: wait 250 milliseconds and go around, or give up when the
\* context is done.
AcquireRetry(c) ==
    /\ lock.left > 0
    /\ \E next \in {"acquire", "returned"} : Move(c, "create", next)
    /\ lease' = [lease EXCEPT ![c] = 0]
    /\ mainAge' = [mainAge EXCEPT ![c] = 0]
    /\ UNCHANGED <<reliable, lock, refresher, timer, renewal, cancelled, refreshAge>>

\* Any other error ends the call.  A request that fails may have taken effect.
AcquireFailed(c) ==
    /\ ~reliable
    /\ Move(c, "create", "returned")
    /\ lock' = lock \/ (lock.left = 0 /\ lock' = Item(c, lease[c]))
    /\ lease' = [lease EXCEPT ![c] = 0]
    /\ UNCHANGED <<reliable, refresher, timer, renewal, cancelled, mainAge, refreshAge>>

-----------------------------------------------------------------------------
(* Lock.resetTTL in the refresh goroutine *)

\* The timer fired: resetTTL reads the lock.
RefreshFire(c) ==
    /\ timer[c] = 0
    /\ Refresh(c, "sleep", "get")
    /\ UNCHANGED <<reliable, lock, pc, lease, timer, renewal, cancelled, mainAge, refreshAge>>

\* close(stopRefresh) was seen instead; select may prefer either when both
\* channels are ready.
RefreshStop(c) ==
    /\ pc[c] \in {"releaseGet", "releaseDelete", "returned"}
    /\ Refresh(c, "sleep", "stopped")
    /\ refreshAge' = [refreshAge EXCEPT ![c] = 0]
    /\ UNCHANGED <<reliable, lock, pc, lease, timer, renewal, cancelled, mainAge>>

\* The lock is still ours; its next expiry is computed from this clock.
RefreshGet(c) ==
    /\ Owned(c)
    /\ Refresh(c, "get", "cas")
    /\ renewal' = [renewal EXCEPT ![c] = TTL]
    /\ UNCHANGED <<reliable, lock, pc, lease, timer, cancelled, mainAge, refreshAge>>

\* Mutant: a plain Put instead of the CompareAndSwap.
RefreshSwapPut(c) ==
    /\ Refresh(c, "cas", "sleep")
    /\ lock' = Item(c, renewal[c])
    /\ renewal' = [renewal EXCEPT ![c] = 0]
    /\ timer' = [timer EXCEPT ![c] = RefreshAfter]
    /\ refreshAge' = [refreshAge EXCEPT ![c] = 0]
    /\ UNCHANGED <<reliable, pc, lease, cancelled, mainAge>>

\* CompareAndSwap compares the value, which is the id.
RefreshSwap(c) ==
    /\ Owned(c)
    /\ Refresh(c, "cas", "sleep")
    /\ lock' = Item(c, renewal[c])
    /\ renewal' = [renewal EXCEPT ![c] = 0]
    /\ timer' = [timer EXCEPT ![c] = RefreshAfter]
    /\ refreshAge' = [refreshAge EXCEPT ![c] = 0]
    /\ UNCHANGED <<reliable, pc, lease, cancelled, mainAge>>

\* Mutant: the goroutine ends without cancelFunction().
RefreshLostSilently(c) ==
    /\ ~Owned(c) \/ ~reliable
    /\ \E s \in {"get", "cas"} : Refresh(c, s, "stopped")
    /\ \/ lock' = lock
       \/ refresher[c] = "cas" /\ Owned(c) /\ lock' = Item(c, renewal[c])
    /\ renewal' = [renewal EXCEPT ![c] = 0]
    /\ refreshAge' = [refreshAge EXCEPT ![c] = 0]
    /\ UNCHANGED <<reliable, pc, lease, timer, cancelled, mainAge>>

\* The lock expired, changed its owner or could not be read or written:
\* cancelFunction() and the goroutine ends.
RefreshLost(c) ==
    /\ ~Owned(c) \/ ~reliable
    /\ \E s \in {"get", "cas"} : Refresh(c, s, "stopped")
    /\ \/ lock' = lock
       \/ refresher[c] = "cas" /\ Owned(c) /\ lock' = Item(c, renewal[c])
    /\ cancelled' = cancelled \cup {c}
    /\ renewal' = [renewal EXCEPT ![c] = 0]
    /\ refreshAge' = [refreshAge EXCEPT ![c] = 0]
    /\ UNCHANGED <<reliable, pc, lease, timer, mainAge>>

-----------------------------------------------------------------------------
(* The end of RunWhileLocked: fn returns, close(stopRefresh), Lock.Release *)

FnReturns(c) ==
    /\ Move(c, "running", "releaseGet")
    /\ UNCHANGED <<reliable, lock, lease, refresher, timer, renewal, cancelled, mainAge, refreshAge>>

\* Mutant: Release deletes without comparing the value with its id.
ReleaseGetUnchecked(c) ==
    /\ lock.left > 0
    /\ Move(c, "releaseGet", "releaseDelete")
    /\ UNCHANGED <<reliable, lock, lease, refresher, timer, renewal, cancelled, mainAge, refreshAge>>

ReleaseGet(c) ==
    /\ Owned(c)
    /\ Move(c, "releaseGet", "releaseDelete")
    /\ UNCHANGED <<reliable, lock, lease, refresher, timer, renewal, cancelled, mainAge, refreshAge>>

\* CompareFailed: the lock expired, or its ownership changed.
ReleaseNotOwned(c) ==
    /\ ~Owned(c)
    /\ Move(c, "releaseGet", "returned")
    /\ mainAge' = [mainAge EXCEPT ![c] = 0]
    /\ UNCHANGED <<reliable, lock, lease, refresher, timer, renewal, cancelled, refreshAge>>

\* Delete removes whatever the key holds by now; it is NotFound on an
\* expired item.
ReleaseDelete(c) ==
    /\ Move(c, "releaseDelete", "returned")
    /\ lock' = Absent
    /\ mainAge' = [mainAge EXCEPT ![c] = 0]
    /\ UNCHANGED <<reliable, lease, refresher, timer, renewal, cancelled, refreshAge>>

ReleaseFailed(c) ==
    /\ ~reliable
    /\ \E s \in {"releaseGet", "releaseDelete"} : Move(c, s, "returned")
    /\ lock' = lock \/ (pc[c] = "releaseDelete" /\ lock' = Absent)
    /\ UNCHANGED <<reliable, lease, refresher, timer, renewal, cancelled, mainAge, refreshAge>>

-----------------------------------------------------------------------------
(* Time *)

MainBusy(c) == pc[c] \in {"create", "releaseGet", "releaseDelete"}
RefreshBusy(c) ==
    refresher[c] \in {"get", "cas"} \/ (refresher[c] = "sleep" /\ timer[c] = 0)

Less(n) == IF n = 0 THEN 0 ELSE n - 1

\* Time passes for the backend and for every timer at once.  In a reliable run it
\* does not pass while a thread is Delay ticks late.
Tick ==
    /\ reliable => \A c \in Callers : /\ MainBusy(c) => mainAge[c] < Delay
                                      /\ RefreshBusy(c) => refreshAge[c] < Delay
    /\ lock' = Item(lock.id, Less(lock.left))
    /\ lease' = [c \in Callers |-> Less(lease[c])]
    /\ timer' = [c \in Callers |-> Less(timer[c])]
    /\ renewal' = [c \in Callers |-> Less(renewal[c])]
    /\ mainAge' = [c \in Callers |->
                     IF reliable /\ MainBusy(c) THEN mainAge[c] + 1 ELSE 0]
    /\ refreshAge' = [c \in Callers |->
                     IF reliable /\ RefreshBusy(c) THEN refreshAge[c] + 1 ELSE 0]
    /\ UNCHANGED <<reliable, pc, refresher, cancelled>>

Acquire(c) == AcquireExpires(c) \/ AcquireCreated(c) \/ AcquireRetry(c) \/ AcquireFailed(c)
ResetTTL(c) == RefreshFire(c) \/ RefreshStop(c) \/ RefreshGet(c) \/ RefreshSwap(c) \/ RefreshLost(c)
Release(c) == ReleaseGet(c) \/ ReleaseNotOwned(c) \/ ReleaseDelete(c) \/ ReleaseFailed(c)

Next ==
    \/ \E c \in Callers : Call(c) \/ Acquire(c) \/ ResetTTL(c) \/ FnReturns(c) \/ Release(c)
    \/ Tick

\* The goroutine is scheduled and the clock advances; nothing is promised of
\* the main thread, which may never call, return from fn or release.
Fairness == WF_vars(Tick) /\ \A c \in Callers : WF_vars(ResetTTL(c))

Spec == Init /\ [][Next]_vars /\ Fairness

-----------------------------------------------------------------------------
(* Properties *)

\* A call is in the section the lock protects: fn runs and has not been told
\* that the lock is lost.
Inside(c) == pc[c] = "running" /\ c \notin cancelled

\* RunWhileLocked: in a reliable run, where the ttl has room for three delays
\* beside the refresh period, at most one fn runs with an uncancelled context.
MutualExclusion ==
    reliable => \A c, d \in Callers : Inside(c) /\ Inside(d) => c = d

ReleasesOther(c) ==
    /\ pc[c] = "releaseDelete" /\ pc'[c] = "returned"
    /\ lock.left > 0 /\ lock.id # c /\ lock' = Absent

\* Lock.Release: in a reliable run the Delete at the end of a call only ever
\* removes that call's own lock, although the ownership check and the Delete
\* are two requests.
ReleaseOnlyOwn ==
    [][reliable => \A c \in Callers : ~ReleasesOther(c)]_vars

\* resetTTL and Create: a call becomes the owner only by Create on a key that
\* is free; no refresh revives an expired lock or takes over a live one.
OwnershipOnlyByCreate ==
    [][\A c \in Callers :
         lock'.id = c /\ lock.id # c => pc[c] = "create" /\ lock.left = 0]_vars

\* RunWhileLocked: a call that lost its lock while fn runs has its context
\* cancelled (or fn returns first), however the backend behaves.
LostLockCancels ==
    \A c \in Callers : (pc[c] = "running" /\ lock.id # c) ~> (c \in cancelled \/ pc[c] # "running")

=============================================================================
