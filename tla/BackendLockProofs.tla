------------------------- MODULE BackendLockProofs -------------------------
(***************************************************************************)
(* Proofs about BackendLock for any set of callers, any ttl and any delay. *)
(* The safety of the lock is a matter of arithmetic on what is left of the *)
(* lease: Slack is what remains of it when the refresh timer fires.        *)
(***************************************************************************)
EXTENDS BackendLock, TLAPS

Slack == TTL - RefreshAfter - Delay

\* The operation of the main thread is as old as mainAge says, and Create
\* carries an expiry that has lost no more than that.
AcquireInv(c) ==
    /\ pc[c] \in {"idle", "acquire", "running"} => mainAge[c] = 0
    /\ pc[c] \in {"idle", "acquire", "create"} => refresher[c] = "none"
    /\ pc[c] = "create" => lease[c] + mainAge[c] >= TTL

\* The same for the refresh goroutine and its CompareAndSwap.
RefreshInv(c) ==
    /\ refresher[c] = "none" => refreshAge[c] = 0
    /\ refresher[c] = "sleep" /\ timer[c] > 0 => refreshAge[c] = 0
    /\ refresher[c] = "cas" => renewal[c] + refreshAge[c] >= TTL

\* While fn runs the lock is there, is ours, and outlives the next refresh.
RunningInv(c) ==
    pc[c] = "running" =>
        /\ lock.id = c
        /\ refresher[c] \in {"sleep", "get", "cas"}
        /\ refresher[c] = "sleep" => lock.left + refreshAge[c] >= timer[c] + Slack
        /\ refresher[c] # "sleep" => lock.left + refreshAge[c] >= Slack

\* While it is released the lock is there, is ours, and outlives the Delete.
ReleaseInv(c) ==
    pc[c] \in {"releaseGet", "releaseDelete"} =>
        lock.id = c /\ lock.left + mainAge[c] > Delay

LockInv == /\ TypeOK
           /\ \A c \in Callers : AcquireInv(c) /\ RefreshInv(c) /\ RunningInv(c) /\ ReleaseInv(c)

-----------------------------------------------------------------------------

LEMMA RefreshAfterFact == RefreshAfter \in 0..TTL
  BY TimeAssumption DEF RefreshAfter

\* Every step keeps every variable of BackendLock in its type.
THEOREM TypeCorrect == Spec => []TypeOK
  <1> USE CallerAssumption, TimeAssumption, RefreshAfterFact
  <1>1. Init => TypeOK
    BY DEF Init, TypeOK, Absent, MainStates, RefresherStates
  <1>2. TypeOK /\ [Next]_vars => TypeOK'
    <2> SUFFICES ASSUME TypeOK, [Next]_vars PROVE TypeOK'
      OBVIOUS
    <2> USE DEF TypeOK, MainStates, RefresherStates, Move, Refresh, Item, Absent, Owned
    <2>1. ASSUME NEW c \in Callers, Call(c) PROVE TypeOK'
      BY <2>1 DEF Call
    <2>2. ASSUME NEW c \in Callers, Acquire(c) PROVE TypeOK'
      <3>1. CASE AcquireExpires(c) BY <3>1 DEF AcquireExpires
      <3>2. CASE AcquireCreated(c) BY <3>2 DEF AcquireCreated
      <3>3. CASE AcquireRetry(c) BY <3>3 DEF AcquireRetry
      <3>4. CASE AcquireFailed(c) BY <3>4 DEF AcquireFailed
      <3>5. QED BY <2>2, <3>1, <3>2, <3>3, <3>4 DEF Acquire
    <2>3. ASSUME NEW c \in Callers, ResetTTL(c) PROVE TypeOK'
      <3>1. CASE RefreshFire(c) BY <3>1 DEF RefreshFire
      <3>2. CASE RefreshStop(c) BY <3>2 DEF RefreshStop
      <3>3. CASE RefreshGet(c) BY <3>3 DEF RefreshGet
      <3>4. CASE RefreshSwap(c) BY <3>4 DEF RefreshSwap
      <3>5. CASE RefreshLost(c) BY <3>5 DEF RefreshLost
      <3>6. QED BY <2>3, <3>1, <3>2, <3>3, <3>4, <3>5 DEF ResetTTL
    <2>4. ASSUME NEW c \in Callers, FnReturns(c) PROVE TypeOK'
      BY <2>4 DEF FnReturns
    <2>5. ASSUME NEW c \in Callers, Release(c) PROVE TypeOK'
      <3>1. CASE ReleaseGet(c) BY <3>1 DEF ReleaseGet
      <3>2. CASE ReleaseNotOwned(c) BY <3>2 DEF ReleaseNotOwned
      <3>3. CASE ReleaseDelete(c) BY <3>3 DEF ReleaseDelete
      <3>4. CASE ReleaseFailed(c) BY <3>4 DEF ReleaseFailed
      <3>5. QED BY <2>5, <3>1, <3>2, <3>3, <3>4 DEF Release
    <2>6. CASE Tick
      <3>1. lock' \in [id : Callers \cup {NoCaller}, left : 0..TTL] /\ (lock'.left = 0 <=> lock'.id = NoCaller)
        BY <2>6 DEF Tick, Less
      <3>2. /\ lease' \in [Callers -> 0..TTL]
            /\ timer' \in [Callers -> 0..TTL]
            /\ renewal' \in [Callers -> 0..TTL]
        BY <2>6 DEF Tick, Less
      <3>3. mainAge' \in [Callers -> 0..Delay] /\ refreshAge' \in [Callers -> 0..Delay]
        BY <2>6 DEF Tick
      <3>4. QED BY <2>6, <3>1, <3>2, <3>3 DEF Tick
    <2>7. CASE UNCHANGED vars
      BY <2>7 DEF vars
    <2>8. QED BY <2>1, <2>2, <2>3, <2>4, <2>5, <2>6, <2>7 DEF Next
  <1>3. QED BY <1>1, <1>2, PTL DEF Spec

-----------------------------------------------------------------------------
(* Reliable runs. *)

LEMMA SlackFact == Slack \in Int /\ Slack > 2 * Delay /\ Slack + Delay =< TTL
  BY TimeAssumption, RoomForDelays DEF Slack, RefreshAfter

\* The inductive step: every action keeps the leases of all calls long enough.
LEMMA LockInvStep == ASSUME reliable, LockInv, TypeOK', [Next]_vars PROVE LockInv'
  <1> USE CallerAssumption, TimeAssumption, RefreshAfterFact, SlackFact
  <1> DEFINE Ok(c) == AcquireInv(c) /\ RefreshInv(c) /\ RunningInv(c) /\ ReleaseInv(c)
  <1> SUFFICES ASSUME NEW c \in Callers PROVE Ok(c)'
    BY DEF LockInv
  <1>0. TypeOK /\ Ok(c) /\ \A d \in Callers : Ok(d)
    BY DEF LockInv
  <1> USE DEF TypeOK, AcquireInv, RefreshInv, RunningInv, ReleaseInv, Move, Refresh, Item, Absent, Owned
  <1>1. ASSUME NEW d \in Callers, Call(d) PROVE Ok(c)'
    BY <1>0, <1>1 DEF Call
  <1>2. ASSUME NEW d \in Callers, Acquire(d) PROVE Ok(c)'
    <2>1. CASE AcquireExpires(d) BY <1>0, <2>1 DEF AcquireExpires
    <2>2. CASE AcquireCreated(d) BY <1>0, <2>2 DEF AcquireCreated, Slack
    <2>3. CASE AcquireRetry(d) BY <1>0, <2>3 DEF AcquireRetry
    <2>4. CASE AcquireFailed(d) BY <2>4 DEF AcquireFailed
    <2>5. QED BY <1>2, <2>1, <2>2, <2>3, <2>4 DEF Acquire
  <1>3. ASSUME NEW d \in Callers, ResetTTL(d) PROVE Ok(c)'
    <2>1. CASE RefreshFire(d) BY <1>0, <2>1 DEF RefreshFire
    <2>2. CASE RefreshStop(d) BY <1>0, <2>2 DEF RefreshStop
    <2>3. CASE RefreshGet(d) BY <1>0, <2>3 DEF RefreshGet
    <2>4. CASE RefreshSwap(d) BY <1>0, <2>4 DEF RefreshSwap, Slack
    <2>5. CASE RefreshLost(d) BY <1>0, <2>5 DEF RefreshLost
    <2>6. QED BY <1>3, <2>1, <2>2, <2>3, <2>4, <2>5 DEF ResetTTL
  <1>4. ASSUME NEW d \in Callers, FnReturns(d) PROVE Ok(c)'
    BY <1>0, <1>4 DEF FnReturns
  <1>5. ASSUME NEW d \in Callers, Release(d) PROVE Ok(c)'
    <2>1. CASE ReleaseGet(d) BY <1>0, <2>1 DEF ReleaseGet
    <2>2. CASE ReleaseNotOwned(d) BY <1>0, <2>2 DEF ReleaseNotOwned
    <2>3. CASE ReleaseDelete(d) BY <1>0, <2>3 DEF ReleaseDelete
    <2>4. CASE ReleaseFailed(d) BY <2>4 DEF ReleaseFailed
    <2>5. QED BY <1>5, <2>1, <2>2, <2>3, <2>4 DEF Release
  <1>6. CASE Tick
    <2>1. lock'.left = Less(lock.left) /\ (lock'.left > 0 => lock'.id = lock.id)
      BY <1>0, <1>6 DEF Tick, Less
    <2>2. /\ lease'[c] = Less(lease[c])
          /\ timer'[c] = Less(timer[c])
          /\ renewal'[c] = Less(renewal[c])
          /\ mainAge'[c] = IF MainBusy(c) THEN mainAge[c] + 1 ELSE 0
          /\ refreshAge'[c] = IF RefreshBusy(c) THEN refreshAge[c] + 1 ELSE 0
          /\ pc' = pc /\ refresher' = refresher
          /\ MainBusy(c) => mainAge[c] < Delay
          /\ RefreshBusy(c) => refreshAge[c] < Delay
      BY <1>0, <1>6 DEF Tick
    <2>3. AcquireInv(c)' BY <1>0, <2>2 DEF Less, MainBusy
    <2>4. RefreshInv(c)' BY <1>0, <2>2 DEF Less, RefreshBusy
    <2>5. RunningInv(c)' BY <1>0, <2>1, <2>2 DEF Less, RefreshBusy
    <2>6. ReleaseInv(c)' BY <1>0, <2>1, <2>2 DEF Less, MainBusy
    <2>7. QED BY <2>3, <2>4, <2>5, <2>6
  <1>7. CASE UNCHANGED vars BY <1>0, <1>7 DEF vars
  <1>8. QED BY <1>1, <1>2, <1>3, <1>4, <1>5, <1>6, <1>7 DEF Next

\* The arithmetic of the leases holds in every state of a reliable run.
THEOREM LockInvariant == Spec => [](reliable => LockInv)
  <1>1. Init => LockInv
    BY TimeAssumption, CallerAssumption
    DEF Init, LockInv, TypeOK, Absent, MainStates, RefresherStates,
        AcquireInv, RefreshInv, RunningInv, ReleaseInv
  <1>2. [Next]_vars => reliable' = reliable
    BY DEF Next, vars, Call, Acquire, AcquireExpires, AcquireCreated, AcquireRetry, AcquireFailed,
           ResetTTL, RefreshFire, RefreshStop, RefreshGet, RefreshSwap, RefreshLost,
           FnReturns, Release, ReleaseGet, ReleaseNotOwned, ReleaseDelete, ReleaseFailed, Tick
  <1>3. (reliable => LockInv) /\ TypeOK' /\ [Next]_vars => (reliable => LockInv)'
    BY <1>2, LockInvStep
  <1>4. QED BY <1>1, <1>3, TypeCorrect, PTL DEF Spec

\* RunWhileLocked: in a reliable run at most one fn runs under the lock, for
\* every number of callers, every ttl and every delay it has room for.
THEOREM LockMutualExclusion == Spec => []MutualExclusion
  <1>1. (reliable => LockInv) => MutualExclusion
    BY DEF LockInv, RunningInv, MutualExclusion, Inside
  <1>2. QED BY <1>1, LockInvariant, PTL

\* Lock.Release: in a reliable run the Delete that follows the ownership check
\* removes no lock but the caller's own.
THEOREM LockReleaseOnlyOwn == Spec => ReleaseOnlyOwn
  <1>1. (reliable => LockInv) => (reliable => \A c \in Callers : ~ReleasesOther(c))
    BY DEF LockInv, ReleaseInv, ReleasesOther
  <1>2. (reliable => LockInv) /\ [Next]_vars
          => [reliable => \A c \in Callers : ~ReleasesOther(c)]_vars
    BY <1>1
  <1>3. QED BY <1>2, LockInvariant, PTL DEF Spec, ReleaseOnlyOwn

\* resetTTL and Create, whatever the backend does: a call becomes the owner only
\* by Create on a free key, so a refresh neither revives nor takes over a lock.
THEOREM LockOwnershipOnlyByCreate == Spec => OwnershipOnlyByCreate
  <1> DEFINE Step == \A c \in Callers :
         lock'.id = c /\ lock.id # c => pc[c] = "create" /\ lock.left = 0
  <1>1. TypeOK /\ [Next]_vars => [Step]_vars
    <2> SUFFICES ASSUME TypeOK, Next, NEW c \in Callers, lock'.id = c, lock.id # c
                 PROVE  pc[c] = "create" /\ lock.left = 0
      OBVIOUS
    <2> USE CallerAssumption DEF TypeOK, Move, Refresh, Item, Absent, Owned
    <2>1. ASSUME NEW d \in Callers, Call(d) \/ Acquire(d) \/ ResetTTL(d) \/ FnReturns(d) \/ Release(d)
          PROVE  pc[c] = "create" /\ lock.left = 0
      <3>1. CASE Acquire(d)
        BY <3>1 DEF Acquire, AcquireExpires, AcquireCreated, AcquireRetry, AcquireFailed
      <3>2. CASE ResetTTL(d)
        BY <3>2 DEF ResetTTL, RefreshFire, RefreshStop, RefreshGet, RefreshSwap, RefreshLost
      <3>3. CASE Release(d)
        BY <3>3 DEF Release, ReleaseGet, ReleaseNotOwned, ReleaseDelete, ReleaseFailed
      <3>4. QED BY <2>1, <3>1, <3>2, <3>3 DEF Call, FnReturns
    <2>2. ASSUME Tick PROVE FALSE
      BY <2>2 DEF Tick
    <2>3. QED BY <2>1, <2>2 DEF Next
  <1>2. QED BY <1>1, TypeCorrect, PTL DEF Spec, OwnershipOnlyByCreate

=============================================================================
