-------------------------- MODULE SemaphoreProofs --------------------------
(***************************************************************************)
(* Proofs about Semaphore for any locks, limits, expiry and number of      *)
(* attempts, and any number of calls under way.                            *)
(***************************************************************************)
EXTENDS Semaphore, FiniteSetTheorems, TLAPS

USE DEF given, rpc

-----------------------------------------------------------------------------
(* Records and the operations on them *)

\* Leases are the functions from some of the locks to what is left.
LEMMA LeasesFact ==
  ASSUME NEW f
  PROVE  f \in Leases <=> DOMAIN f \subseteq Locks /\ f \in [DOMAIN f -> 0..Expiry]
  <1>1. ASSUME f \in Leases PROVE DOMAIN f \subseteq Locks /\ f \in [DOMAIN f -> 0..Expiry]
    <2>1. PICK S \in SUBSET Locks : f \in [S -> 0..Expiry]
      BY <1>1, Zenon DEF Leases
    <2> QED BY <2>1
  <1>2. ASSUME DOMAIN f \subseteq Locks, f \in [DOMAIN f -> 0..Expiry] PROVE f \in Leases
    BY <1>2, Zenon DEF Leases
  <1> QED BY <1>1, <1>2

\* A record has a number of ticks left and leases with at most Expiry of them.
LEMMA RecordFact ==
  ASSUME NEW r \in Records
  PROVE  /\ r = [left |-> r.left, leases |-> r.leases]
         /\ r.left \in 0..Expiry
         /\ DOMAIN r.leases \subseteq Locks
         /\ r.leases = [k \in DOMAIN r.leases |-> r.leases[k]]
         /\ \A k \in DOMAIN r.leases : r.leases[k] \in 0..Expiry
  <1>1. r.leases \in Leases /\ r.left \in 0..Expiry /\ r = [left |-> r.left, leases |-> r.leases]
    BY Zenon DEF Records
  <1>2. DOMAIN r.leases \subseteq Locks /\ r.leases \in [DOMAIN r.leases -> 0..Expiry]
    BY <1>1, LeasesFact
  <1> QED BY <1>1, <1>2

LEMMA RecordIntro ==
  ASSUME NEW n \in 0..Expiry, NEW S \in SUBSET Locks, NEW f \in [S -> 0..Expiry]
  PROVE  [left |-> n, leases |-> f] \in Records
  <1>1. f \in Leases
    BY Zenon DEF Leases
  <1> QED BY <1>1 DEF Records

LEMMA AbsentFact ==
  /\ Absent \in Records /\ Absent.left = 0 /\ DOMAIN Absent.leases = {} /\ Live(Absent) = {}
  /\ 0 \in 0..Expiry /\ Expiry \in 0..Expiry /\ TickRate \in 0..TickRate /\ TickRate \in 0..Expiry
  <1>1. 0 \in 0..Expiry /\ Expiry \in 0..Expiry /\ TickRate \in 0..TickRate /\ TickRate \in 0..Expiry
    BY ExpiryAssumption DEF TickRate
  <1>2. Empty \in [{} -> 0..Expiry] /\ DOMAIN Empty = {}
    BY DEF Empty
  <1>3. Absent \in Records
    BY <1>1, <1>2, RecordIntro DEF Absent
  <1> QED BY <1>1, <1>2, <1>3 DEF Absent, Live

\* A record written again has what was written, or has expired.
LEMMA ItemFact ==
  ASSUME NEW r \in Records
  PROVE  /\ Item(r) \in Records
         /\ r.left > 0 => Item(r) = r
         /\ r.left = 0 => Item(r) = Absent
         /\ Item(r).left = 0 => Item(r) = Absent
  <1>1. r.left \in 0..Expiry
    BY RecordFact
  <1> QED BY <1>1, AbsentFact, ExpiryAssumption DEF Item

LEMMA RemoveExpiredFact ==
  ASSUME NEW r \in Records
  PROVE  /\ RemoveExpiredLeases(r) \in Records
         /\ RemoveExpiredLeases(r).left = r.left
         /\ DOMAIN RemoveExpiredLeases(r).leases = Live(r)
         /\ \A k \in Live(r) : RemoveExpiredLeases(r).leases[k] = r.leases[k]
  <1> DEFINE f == [k \in Live(r) |-> r.leases[k]]
  <1>1. /\ r = [left |-> r.left, leases |-> r.leases] /\ r.left \in 0..Expiry
        /\ DOMAIN r.leases \subseteq Locks /\ \A k \in DOMAIN r.leases : r.leases[k] \in 0..Expiry
    BY RecordFact
  <1>2. Live(r) \in SUBSET Locks /\ f \in [Live(r) -> 0..Expiry]
    BY <1>1 DEF Live
  <1>3. RemoveExpiredLeases(r) = [left |-> r.left, leases |-> f]
    BY <1>1 DEF RemoveExpiredLeases, Restrict, Live
  <1>4. [left |-> r.left, leases |-> f] \in Records
    BY <1>1, <1>2, RecordIntro
  <1> QED BY <1>3, <1>4

LEMMA WithLeaseFact ==
  ASSUME NEW r \in Records, NEW l \in Locks, NEW n \in 0..Expiry
  PROVE  /\ WithLease(r, l, n) \in Records
         /\ WithLease(r, l, n).left = Later(r.left, n)
         /\ DOMAIN WithLease(r, l, n).leases = DOMAIN r.leases \cup {l}
         /\ WithLease(r, l, n).leases[l] = n
         /\ \A k \in DOMAIN r.leases \ {l} : WithLease(r, l, n).leases[k] = r.leases[k]
  <1> DEFINE f == [k \in DOMAIN r.leases \cup {l} |-> IF k = l THEN n ELSE r.leases[k]]
  <1>1. /\ r.left \in 0..Expiry
        /\ DOMAIN r.leases \subseteq Locks /\ \A k \in DOMAIN r.leases : r.leases[k] \in 0..Expiry
    BY RecordFact
  <1>2. DOMAIN r.leases \cup {l} \in SUBSET Locks /\ f \in [DOMAIN r.leases \cup {l} -> 0..Expiry]
    BY <1>1
  <1>3. Later(r.left, n) \in 0..Expiry
    BY <1>1 DEF Later
  <1>4. [left |-> Later(r.left, n), leases |-> f] \in Records
    BY <1>2, <1>3, RecordIntro
  <1> QED BY <1>4 DEF WithLease

LEMMA CancelFact ==
  ASSUME NEW r \in Records, NEW l \in Locks
  PROVE  /\ Cancel(r, l) \in Records
         /\ Cancel(r, l).left = r.left
         /\ DOMAIN Cancel(r, l).leases = DOMAIN r.leases \ {l}
         /\ \A k \in DOMAIN r.leases \ {l} : Cancel(r, l).leases[k] = r.leases[k]
  <1> DEFINE f == [k \in DOMAIN r.leases \ {l} |-> r.leases[k]]
  <1>1. /\ r = [left |-> r.left, leases |-> r.leases] /\ r.left \in 0..Expiry
        /\ DOMAIN r.leases \subseteq Locks /\ \A k \in DOMAIN r.leases : r.leases[k] \in 0..Expiry
    BY RecordFact
  <1>2. DOMAIN r.leases \ {l} \in SUBSET Locks /\ f \in [DOMAIN r.leases \ {l} -> 0..Expiry]
    BY <1>1
  <1>3. Cancel(r, l) = [left |-> r.left, leases |-> f]
    BY <1>1 DEF Cancel, Restrict
  <1>4. [left |-> r.left, leases |-> f] \in Records
    BY <1>1, <1>2, RecordIntro
  <1> QED BY <1>3, <1>4

LEMMA LessFact ==
  ASSUME NEW n \in 0..Expiry
  PROVE  Less(n) \in 0..Expiry /\ Less(n) <= n /\ (n > 0 => Less(n) = n - 1) /\ (n = 0 => Less(n) = 0)
  BY ExpiryAssumption DEF Less

LEMMA AgedFact ==
  ASSUME NEW r \in Records
  PROVE  /\ Aged(r) \in Records
         /\ Aged(r).left = Less(r.left)
         /\ DOMAIN Aged(r).leases = DOMAIN r.leases
         /\ \A k \in DOMAIN r.leases : Aged(r).leases[k] = Less(r.leases[k])
  <1> DEFINE f == [k \in DOMAIN r.leases |-> Less(r.leases[k])]
  <1>1. /\ r.left \in 0..Expiry
        /\ DOMAIN r.leases \subseteq Locks /\ \A k \in DOMAIN r.leases : r.leases[k] \in 0..Expiry
    BY RecordFact
  <1>2. f \in [DOMAIN r.leases -> 0..Expiry] /\ Less(r.left) \in 0..Expiry
    BY <1>1, LessFact
  <1>3. [left |-> Less(r.left), leases |-> f] \in Records
    BY <1>1, <1>2, RecordIntro
  <1> QED BY <1>3 DEF Aged

-----------------------------------------------------------------------------
(* Types *)

LEMMA ThreadFact ==
  /\ \A l \in Locks : Main(l) \in Threads
  /\ \A l \in Locks, c \in Calls : Handler(l, c) \in Threads /\ Handler(l, c) \in Handlers
  /\ \A l, k \in Locks, c \in Calls : Main(l) # Handler(k, c)
  /\ \A l, k \in Locks : Main(l) = Main(k) => l = k
  /\ \A l, k \in Locks, c, d \in Calls : Handler(l, c) = Handler(k, d) => l = k /\ c = d
  BY CallsAssumption DEF Main, Handler, Handlers, Threads

\* A thread reads the record, or forgets what it read.
LEMMA ReadTypes ==
  ASSUME TypeOK, NEW t \in Threads, NEW new \in Records, Read(t, new)
  PROVE  seen' \in [Threads -> Records] /\ update' \in [Threads -> Records] /\ fresh' \in SUBSET Threads
  BY DEF TypeOK, Read

LEMMA ForgetTypes ==
  ASSUME TypeOK, NEW t \in Threads, Forget(t)
  PROVE  seen' \in [Threads -> Records] /\ update' \in [Threads -> Records] /\ fresh' \in SUBSET Threads
  BY AbsentFact DEF TypeOK, Forget

LEMMA RenewedTypes ==
  ASSUME TypeOK, NEW h \in Threads, Renewed(h)
  PROVE  /\ seen' \in [Threads -> Records] /\ update' \in [Threads -> Records] /\ fresh' \in SUBSET Threads
         /\ record' \in Records /\ (record'.left = 0 => record' = Absent)
  <1>1. update[h] \in Records
    BY DEF TypeOK
  <1> QED BY <1>1, ItemFact, AbsentFact DEF TypeOK, Renewed

LEMMA AcquireTypes ==
  ASSUME TypeOK, NEW l \in Locks, AcquireSemaphore(l)
  PROVE  TypeOK'
  <1>1. Main(l) \in Threads /\ update[Main(l)] \in Records
    BY ThreadFact DEF TypeOK
  <1>2. Item(update[Main(l)]) \in Records /\ (Item(update[Main(l)]).left = 0 => Item(update[Main(l)]) = Absent)
    BY <1>1, ItemFact
  <1>3. CASE Call(l)
    BY <1>3, AbsentFact DEF TypeOK, Call, Move, MainStates
  <1>4. CASE AcquireGet(l)
    <2>1. WithLease(RemoveExpiredLeases(record), l, lease[l]) \in Records
      BY RemoveExpiredFact, WithLeaseFact DEF TypeOK
    <2>2. seen' \in [Threads -> Records] /\ update' \in [Threads -> Records] /\ fresh' \in SUBSET Threads
      BY <1>1, <1>4, <2>1, ReadTypes DEF AcquireGet
    <2> QED BY <1>4, <2>2 DEF TypeOK, AcquireGet, Move, MainStates
  <1>5. ASSUME NoLease(l) \/ Acquired(l) \/ AcquireContended(l)
        PROVE  seen' \in [Threads -> Records] /\ update' \in [Threads -> Records] /\ fresh' \in SUBSET Threads
    BY <1>1, <1>5, ForgetTypes DEF NoLease, Acquired, AcquireContended
  <1>6. CASE AcquireExceeded(l)
    BY <1>5, <1>6, AbsentFact, LeaseAssumption DEF TypeOK, AcquireExceeded, NoLease, Move, MainStates
  <1>7. CASE AcquireSwap(l) \/ AcquireCreate(l)
    BY <1>2, <1>5, <1>7, AbsentFact, LeaseAssumption
       DEF TypeOK, AcquireSwap, AcquireCreate, Acquired, Move, MainStates
  <1>8. CASE AcquireContended(l)
    BY <1>5, <1>8, LeaseAssumption DEF TypeOK, AcquireContended, Move, MainStates
  <1>9. CASE AcquireFailed(l)
    BY <1>2, <1>5, <1>9, AbsentFact, LeaseAssumption DEF TypeOK, AcquireFailed, NoLease, Move, MainStates
  <1> QED BY <1>3, <1>4, <1>6, <1>7, <1>8, <1>9 DEF AcquireSemaphore

\* A call is sent, answered or given up on.
LEMMA CallTypes ==
  ASSUME TypeOK, NEW l \in Locks,
         \/ \E n \in 0..Expiry : Send(l, n)
         \/ \E a \in HandlerStates : Receive(l, a)
         \/ CallFails(l)
  PROVE  /\ call' \in [Locks -> Calls \cup {NoCall}]
         /\ handler' \in [Handlers -> HandlerStates] /\ asked' \in [Handlers -> 0..Expiry]
  <1>1. CASE \E n \in 0..Expiry : Send(l, n)
    <2>1. PICK n \in 0..Expiry, c \in Calls : /\ Handle(Handler(l, c), "none", "get")
                                             /\ asked' = [asked EXCEPT ![Handler(l, c)] = n]
                                             /\ call' = [call EXCEPT ![l] = c]
      BY <1>1 DEF Send
    <2>2. handler' \in [Handlers -> HandlerStates]
      BY <2>1 DEF TypeOK, Handle, HandlerStates
    <2> QED BY <2>1, <2>2 DEF TypeOK
  <1>2. CASE \E a \in HandlerStates : Receive(l, a)
    BY <1>2 DEF TypeOK, Receive, Handle, HandlerStates
  <1>3. CASE CallFails(l)
    BY <1>3 DEF TypeOK, CallFails, HandlerStates
  <1> QED BY <1>1, <1>2, <1>3

LEMMA KeepAliveTypes ==
  ASSUME TypeOK, NEW l \in Locks, KeepAlive(l)
  PROVE  TypeOK'
  <1>0. tickC[l] # NoTick => tickC[l] \in 0..Expiry
    BY ExpiryAssumption DEF TypeOK, NoTick
  <1>1. CASE KeepAliveTick(l)
    <2>1. /\ call' \in [Locks -> Calls \cup {NoCall}]
          /\ handler' \in [Handlers -> HandlerStates] /\ asked' \in [Handlers -> 0..Expiry]
      <3>1. CASE UNCHANGED rpc
        BY <3>1 DEF TypeOK
      <3> QED BY <1>0, <1>1, <3>1, CallTypes DEF KeepAliveTick
    <2>2. pc' \in [Locks -> MainStates]
      BY <1>1 DEF TypeOK, KeepAliveTick, Move, MainStates
    <2>3. next' \in [Locks -> 0..Expiry] /\ tickC' \in [Locks -> NoTick..Expiry]
      BY <1>0, <1>1, ExpiryAssumption DEF TypeOK, KeepAliveTick, NoTick
    <2> QED BY <1>1, <2>1, <2>2, <2>3, Zenon DEF TypeOK, KeepAliveTick
  <1>2. CASE KeepAliveNotFound(l)
    <2>1. /\ call' \in [Locks -> Calls \cup {NoCall}]
          /\ handler' \in [Handlers -> HandlerStates] /\ asked' \in [Handlers -> 0..Expiry]
      BY <1>2, CallTypes DEF KeepAliveNotFound, HandlerStates
    <2>2. /\ pc' \in [Locks -> MainStates] /\ ticker' \in [Locks -> 0..TickRate]
          /\ tickC' \in [Locks -> NoTick..Expiry]
      BY <1>2, ExpiryAssumption DEF TypeOK, KeepAliveNotFound, Move, MainStates, NoTick, TickRate
    <2>3. lease' \in [Locks -> 0..Expiry] /\ next' \in [Locks -> 0..Expiry] /\ doneC' \in SUBSET Locks
      BY <1>2, AbsentFact DEF TypeOK, KeepAliveNotFound
    <2> QED BY <1>2, <2>1, <2>2, <2>3, Zenon DEF TypeOK, KeepAliveNotFound
  <1>3. CASE KeepAliveOK(l)
    <2>1. /\ call' \in [Locks -> Calls \cup {NoCall}]
          /\ handler' \in [Handlers -> HandlerStates] /\ asked' \in [Handlers -> 0..Expiry]
      BY <1>3, CallTypes DEF KeepAliveOK, HandlerStates
    <2> QED BY <1>3, <2>1, AbsentFact DEF TypeOK, KeepAliveOK, Move, MainStates
  <1>4. CASE KeepAliveError(l)
    <2>1. /\ call' \in [Locks -> Calls \cup {NoCall}]
          /\ handler' \in [Handlers -> HandlerStates] /\ asked' \in [Handlers -> 0..Expiry]
      BY <1>4, CallTypes DEF KeepAliveError
    <2> QED BY <1>4, <2>1 DEF TypeOK, KeepAliveError, Move, MainStates
  <1>5. CASE KeepAliveRetry(l)
    <2>1. /\ call' \in [Locks -> Calls \cup {NoCall}]
          /\ handler' \in [Handlers -> HandlerStates] /\ asked' \in [Handlers -> 0..Expiry]
      <3>1. next[l] \in 0..Expiry
        BY DEF TypeOK
      <3> QED BY <1>5, <3>1, CallTypes DEF KeepAliveRetry
    <2>2. pc' \in [Locks -> MainStates] /\ tickC' \in [Locks -> NoTick..Expiry]
      BY <1>5, ExpiryAssumption DEF TypeOK, KeepAliveRetry, Move, MainStates, NoTick
    <2> QED BY <1>5, <2>1, <2>2, Zenon DEF TypeOK, KeepAliveRetry
  <1>6. CASE KeepAliveLeave(l)
    BY <1>6, ExpiryAssumption DEF TypeOK, KeepAliveLeave, Leave, Move, MainStates, NoTick, TickRate
  <1> QED BY <1>1, <1>2, <1>3, <1>4, <1>5, <1>6 DEF KeepAlive

LEMMA HandlerTypes ==
  ASSUME TypeOK, NEW l \in Locks, NEW c \in Calls, KeepAliveSemaphoreLease(l, c)
  PROVE  TypeOK'
  <1> DEFINE h == Handler(l, c)
  <1>1. h \in Threads /\ h \in Handlers
    BY ThreadFact
  <1>2. asked' \in [Handlers -> 0..Expiry]
    BY <1>1, AbsentFact DEF TypeOK, KeepAliveSemaphoreLease, HandleGet, HandleNotFound, HandleSwap,
                            HandleError, Answered
  <1>3. CASE HandleGet(l, c)
    <2>1. WithLease(RemoveExpiredLeases(record), l, asked[h]) \in Records
      BY <1>1, RemoveExpiredFact, WithLeaseFact DEF TypeOK
    <2>2. seen' \in [Threads -> Records] /\ update' \in [Threads -> Records] /\ fresh' \in SUBSET Threads
      BY <1>1, <1>3, <2>1, ReadTypes DEF HandleGet
    <2> QED BY <1>2, <1>3, <2>2 DEF TypeOK, HandleGet, Handle, HandlerStates
  <1>4. CASE HandleNotFound(l, c)
    BY <1>2, <1>4 DEF TypeOK, HandleNotFound, Answered, Handle, HandlerStates
  <1>5. CASE HandleSwap(l, c)
    <2>1. handler' \in [Handlers -> HandlerStates]
      BY <1>5 DEF TypeOK, HandleSwap, Answered, Handle, HandlerStates
    <2> QED BY <1>1, <1>2, <1>5, <2>1, RenewedTypes DEF TypeOK, HandleSwap
  <1>6. CASE HandleError(l, c)
    <2>1. handler' \in [Handlers -> HandlerStates]
      BY <1>6 DEF TypeOK, HandleError, Answered, Handle, HandlerStates
    <2>2. CASE record' = record /\ Forget(h)
      BY <1>1, <1>2, <1>6, <2>1, <2>2, ForgetTypes DEF TypeOK, HandleError
    <2>3. CASE Renewed(h)
      BY <1>1, <1>2, <1>6, <2>1, <2>3, RenewedTypes DEF TypeOK, HandleError
    <2> QED BY <1>6, <2>2, <2>3 DEF HandleError
  <1> QED BY <1>3, <1>4, <1>5, <1>6 DEF KeepAliveSemaphoreLease

LEMMA CancelTypes ==
  ASSUME TypeOK, NEW l \in Locks, CancelSemaphoreLease(l)
  PROVE  TypeOK'
  <1>1. Main(l) \in Threads /\ update[Main(l)] \in Records
    BY ThreadFact DEF TypeOK
  <1>2. Item(update[Main(l)]) \in Records /\ (Item(update[Main(l)]).left = 0 => Item(update[Main(l)]) = Absent)
    BY <1>1, ItemFact
  <1>3. CASE CancelGet(l)
    <2>1. Cancel(record, l) \in Records
      BY CancelFact DEF TypeOK
    <2>2. seen' \in [Threads -> Records] /\ update' \in [Threads -> Records] /\ fresh' \in SUBSET Threads
      BY <1>1, <1>3, <2>1, ReadTypes DEF CancelGet
    <2> QED BY <1>3, <2>2 DEF TypeOK, CancelGet, Move, MainStates
  <1>4. ASSUME NoLease(l) \/ CancelContended(l)
        PROVE  seen' \in [Threads -> Records] /\ update' \in [Threads -> Records] /\ fresh' \in SUBSET Threads
    BY <1>1, <1>4, ForgetTypes DEF NoLease, CancelContended
  <1>5. CASE CancelSwap(l) \/ CancelFailed(l)
    BY <1>2, <1>4, <1>5, AbsentFact, LeaseAssumption
       DEF TypeOK, CancelSwap, CancelFailed, NoLease, Move, MainStates
  <1>6. CASE CancelContended(l)
    BY <1>4, <1>6, LeaseAssumption DEF TypeOK, CancelContended, Move, MainStates
  <1> QED BY <1>3, <1>5, <1>6 DEF CancelSemaphoreLease

LEMMA TickTypes ==
  ASSUME TypeOK, Tick
  PROVE  TypeOK'
  <1>1. record' \in Records /\ (record'.left = 0 => record' = Absent)
    BY AgedFact, ItemFact DEF TypeOK, Tick
  <1>2. seen' \in [Threads -> Records] /\ update' \in [Threads -> Records]
    BY AgedFact DEF TypeOK, Tick
  <1>3. lease' \in [Locks -> 0..Expiry] /\ next' \in [Locks -> 0..Expiry] /\ asked' \in [Handlers -> 0..Expiry]
    BY LessFact DEF TypeOK, Tick
  <1>4. ticker' \in [Locks -> 0..TickRate]
    BY AbsentFact, ExpiryAssumption DEF TypeOK, Tick, Less
  <1>5. tickC' \in [Locks -> NoTick..Expiry]
    BY ExpiryAssumption DEF TypeOK, Tick, Less, NoTick
  <1> QED BY <1>1, <1>2, <1>3, <1>4, <1>5 DEF TypeOK, Tick

LEMMA NextTypes ==
  ASSUME TypeOK, [Next]_vars
  PROVE  TypeOK'
  <1>1. ASSUME NEW l \in Locks, CancelContext(l) \/ Stop(l) PROVE TypeOK'
    BY <1>1 DEF TypeOK, CancelContext, Stop
  <1>2. CASE DeleteSemaphore
    <2>1. DOMAIN record.leases \subseteq Locks
      BY RecordFact DEF TypeOK
    <2> QED BY <1>2, <2>1, AbsentFact DEF TypeOK, DeleteSemaphore
  <1>3. CASE UNCHANGED vars
    BY <1>3 DEF TypeOK, vars
  <1> QED BY <1>1, <1>2, <1>3, AcquireTypes, KeepAliveTypes, HandlerTypes, CancelTypes, TickTypes DEF Next

LEMMA InitTypes == Init => TypeOK
  <1> SUFFICES ASSUME Init PROVE TypeOK
    OBVIOUS
  <1>1. record \in Records /\ (record.left = 0 => record = Absent)
    <2>1. Empty \in [{} -> 0..Expiry]
      BY DEF Empty
    <2>2. [left |-> Expiry, leases |-> Empty] \in Records
      BY <2>1, AbsentFact, RecordIntro
    <2> QED BY <2>2, AbsentFact, ExpiryAssumption DEF Init
  <1> QED BY <1>1, AbsentFact, LeaseAssumption, ExpiryAssumption
          DEF Init, TypeOK, MainStates, HandlerStates, NoTick, TickRate

\* The state of a semaphore, of its locks and of the requests in flight stays
\* well formed: in particular no loop of AcquireSemaphore or
\* CancelSemaphoreLease makes more than leaseRetryAttempts attempts.
THEOREM SemaphoreTypeCorrect == Spec => []TypeOK
  BY InitTypes, NextTypes, PTL DEF Spec

-----------------------------------------------------------------------------
(* The inductive invariant *)

\* No lease outlives its record: an item that expires takes no lease along.
Covers(r) == \A k \in DOMAIN r.leases : r.leases[k] <= r.left

\* What a thread of lock l is about to write keeps every lease of another lock
\* that had time left when the record was read.
Keeps(t, l) ==
    \A k \in DOMAIN seen[t].leases :
        k # l /\ seen[t].leases[k] > 0 =>
            k \in DOMAIN update[t].leases /\ update[t].leases[k] = seen[t].leases[k]

\* It gives lease l the ticks that are left.
Grants(t, l, left) == l \in DOMAIN update[t].leases /\ update[t].leases[l] = left

\* Where keepAlive and its calls are with respect to each other.
KeepAliveInv(l) ==
    /\ pc[l] \in {"idle", "get", "swap", "create", "failed"} =>
         tickC[l] = NoTick /\ \A c \in Calls : handler[Handler(l, c)] = "none"
    /\ IF pc[l] = "renew" THEN call[l] \in Calls ELSE call[l] = NoCall
    /\ \A c \in Calls : handler[Handler(l, c)] = "ok" => call[l] = c

\* A renewal is always for later than the lease: next is for later than the
\* lease, and a tick that was not received yet for later than both.
TimesInv(l) ==
    Running(l) =>
      /\ tickC[l] # NoTick => lease[l] <= tickC[l]
      /\ pc[l] # "held" => lease[l] <= next[l]
      /\ pc[l] # "held" /\ tickC[l] # NoTick => next[l] <= tickC[l]

\* What the threads of lock l are about to write.
WritesInv(l) ==
    /\ pc[l] = "swap" =>
         /\ Keeps(Main(l), l) /\ Grants(Main(l), l, lease[l])
         /\ DOMAIN update[Main(l)].leases \subseteq DOMAIN seen[Main(l)].leases \cup {l}
    /\ pc[l] = "create" =>
         Grants(Main(l), l, lease[l]) /\ DOMAIN update[Main(l)].leases = {l}
    /\ pc[l] = "cancelSwap" =>
         /\ Keeps(Main(l), l)
         /\ DOMAIN update[Main(l)].leases \subseteq DOMAIN seen[Main(l)].leases
    /\ \A c \in Calls : handler[Handler(l, c)] = "swap" =>
         /\ Keeps(Handler(l, c), l) /\ l \in DOMAIN update[Handler(l, c)].leases
         /\ DOMAIN update[Handler(l, c)].leases \subseteq DOMAIN seen[Handler(l, c)].leases

\* Handler h of lock l renews the lease for at least n ticks.
Renews(h, l, n) ==
    /\ handler[h] = "get" => n <= asked[h]
    /\ handler[h] = "swap" => n <= update[h].leases[l]

\* A call that is under way, given up on or not, is of this round: it renews
\* the lease for no less than the holder knows, or is about to know.
RoundInv(l) ==
    Running(l) => \A c \in Calls :
                    /\ Renews(Handler(l, c), l, lease[l])
                    /\ pc[l] # "held" => Renews(Handler(l, c), l, next[l])

\* The record has a lease of lock l for n ticks, unless it was deleted.
Recorded(l, n) ==
    n > 0 /\ l \notin revoked => l \in DOMAIN record.leases /\ n <= record.leases[l]

LeaseInv ==
    /\ Covers(record) /\ \A t \in Threads : Covers(update[t])
    /\ \A l \in Locks : KeepAliveInv(l) /\ TimesInv(l) /\ WritesInv(l)
    /\ punctual => \A l \in Locks :
                     /\ RoundInv(l)
                     /\ Running(l) => Recorded(l, lease[l])
                     /\ \A c \in Calls : handler[Handler(l, c)] = "ok" => Recorded(l, next[l])

\* There is a place for every lease.
Placed(r) == IsFiniteSet(DOMAIN r.leases) /\ Cardinality(DOMAIN r.leases) <= maxLeases

PlacesInv == Placed(record) /\ \A t \in Threads : Placed(update[t])

-----------------------------------------------------------------------------
(* keepAlive and its handler *)

ClockInv == \A l \in Locks : KeepAliveInv(l) /\ TimesInv(l)

\* A step of lock l, of its goroutine or of one of its handlers.
Serve(l) == \E c \in Calls : KeepAliveSemaphoreLease(l, c)
Step(l) ==
    \/ AcquireSemaphore(l) \/ KeepAlive(l) \/ Serve(l) \/ CancelSemaphoreLease(l)
    \/ CancelContext(l) \/ Stop(l)

LEMMA NextSteps ==
  Next <=> (\E l \in Locks : Step(l)) \/ DeleteSemaphore \/ Tick
  BY DEF Next, Step, Serve

\* The specification is chosen once: neither the limit nor whether handlers
\* are punctual changes.
LEMMA GivenStep ==
  ASSUME [Next]_vars
  PROVE  UNCHANGED given
  <1>1. ASSUME NEW l \in Locks, AcquireSemaphore(l) \/ CancelSemaphoreLease(l) PROVE UNCHANGED given
    BY <1>1, Zenon
       DEF AcquireSemaphore, Call, AcquireGet, AcquireExceeded, AcquireSwap, AcquireCreate, AcquireContended,
           AcquireFailed, Acquired, NoLease, CancelSemaphoreLease, CancelGet, CancelSwap, CancelContended,
           CancelFailed
  <1>2. ASSUME NEW l \in Locks, KeepAlive(l) \/ CancelContext(l) \/ Stop(l) PROVE UNCHANGED given
    BY <1>2, Zenon
       DEF KeepAlive, KeepAliveTick, KeepAliveNotFound, KeepAliveOK, KeepAliveError, KeepAliveRetry,
           KeepAliveLeave, Leave, CancelContext, Stop
  <1>3. ASSUME NEW l \in Locks, NEW c \in Calls, KeepAliveSemaphoreLease(l, c) PROVE UNCHANGED given
    BY <1>3, Zenon DEF KeepAliveSemaphoreLease, HandleGet, HandleNotFound, HandleSwap, HandleError
  <1>4. CASE DeleteSemaphore \/ Tick \/ UNCHANGED vars
    BY <1>4, Zenon DEF DeleteSemaphore, Tick, vars
  <1> QED BY <1>1, <1>2, <1>3, <1>4 DEF Next

\* A step of lock l leaves the other locks alone.
LEMMA LockOthers ==
  ASSUME TypeOK, NEW l \in Locks, NEW k \in Locks \ {l}, Step(l)
  PROVE  /\ pc'[k] = pc[k] /\ tickC'[k] = tickC[k] /\ lease'[k] = lease[k] /\ next'[k] = next[k]
         /\ call'[k] = call[k]
         /\ \A c \in Calls : /\ handler'[Handler(k, c)] = handler[Handler(k, c)]
                              /\ asked'[Handler(k, c)] = asked[Handler(k, c)]
  <1>1. CASE AcquireSemaphore(l)
    BY <1>1 DEF TypeOK, AcquireSemaphore, Call, AcquireGet, AcquireExceeded, AcquireSwap, AcquireCreate,
                AcquireContended, AcquireFailed, Acquired, NoLease, Move
  <1>2. CASE KeepAlive(l)
    <2>1. /\ pc'[k] = pc[k] /\ tickC'[k] = tickC[k] /\ lease'[k] = lease[k] /\ next'[k] = next[k]
      BY <1>2 DEF TypeOK, KeepAlive, KeepAliveTick, KeepAliveNotFound, KeepAliveOK, KeepAliveError,
                  KeepAliveRetry, KeepAliveLeave, Leave, Move
    <2>2. ASSUME NEW c \in Calls, NEW x
          PROVE  Handler(k, c) \in Handlers /\ Handler(k, c) # Handler(l, x)
      BY DEF Handler, Handlers
    <2>3. ASSUME NEW n, Send(l, n) \/ Receive(l, n) \/ CallFails(l) \/ UNCHANGED rpc
          PROVE  /\ call'[k] = call[k]
                 /\ \A c \in Calls : /\ handler'[Handler(k, c)] = handler[Handler(k, c)]
                                      /\ asked'[Handler(k, c)] = asked[Handler(k, c)]
      BY <2>2, <2>3 DEF TypeOK, Send, Receive, CallFails, Handle
    <2>4. \E n : Send(l, n) \/ Receive(l, n) \/ CallFails(l) \/ UNCHANGED rpc
      BY <1>2, Zenon DEF KeepAlive, KeepAliveTick, KeepAliveNotFound, KeepAliveOK, KeepAliveError,
                         KeepAliveRetry, KeepAliveLeave, Leave
    <2> QED BY <2>1, <2>3, <2>4
  <1>3. ASSUME NEW c \in Calls, KeepAliveSemaphoreLease(l, c)
        PROVE  /\ pc' = pc /\ tickC' = tickC /\ lease' = lease /\ next' = next /\ call' = call
               /\ \A d \in Calls : /\ handler'[Handler(k, d)] = handler[Handler(k, d)]
                                    /\ asked'[Handler(k, d)] = asked[Handler(k, d)]
    <2>1. \A d \in Calls : Handler(k, d) \in Handlers /\ Handler(k, d) # Handler(l, c)
      BY DEF Handler, Handlers
    <2>2. handler' = [handler EXCEPT ![Handler(l, c)] = handler'[Handler(l, c)]]
          /\ asked' = [asked EXCEPT ![Handler(l, c)] = 0]
      BY <1>3, ThreadFact DEF TypeOK, KeepAliveSemaphoreLease, HandleGet, HandleNotFound, HandleSwap,
                              HandleError, Answered, Handle
    <2>3. \A d \in Calls : /\ handler'[Handler(k, d)] = handler[Handler(k, d)]
                           /\ asked'[Handler(k, d)] = asked[Handler(k, d)]
      BY <2>1, <2>2 DEF TypeOK
    <2> QED BY <1>3, <2>3, Zenon DEF KeepAliveSemaphoreLease, HandleGet, HandleNotFound, HandleSwap,
                                     HandleError
  <1>4. CASE CancelSemaphoreLease(l)
    BY <1>4 DEF TypeOK, CancelSemaphoreLease, CancelGet, CancelSwap, CancelContended, CancelFailed,
                NoLease, Move
  <1>5. CASE CancelContext(l) \/ Stop(l)
    BY <1>5 DEF CancelContext, Stop
  <1> QED BY <1>1, <1>2, <1>3, <1>4, <1>5 DEF Step, Serve

\* What a step does to the handlers of the lock it is of.
LEMMA SendFact ==
  ASSUME TypeOK, NEW l \in Locks, NEW n, Send(l, n)
  PROVE  \E c \in Calls : /\ call'[l] = c /\ handler[Handler(l, c)] = "none"
                          /\ handler'[Handler(l, c)] = "get" /\ asked'[Handler(l, c)] = n
                          /\ \A d \in Calls \ {c} : /\ handler'[Handler(l, d)] = handler[Handler(l, d)]
                                                    /\ asked'[Handler(l, d)] = asked[Handler(l, d)]
  <1>1. PICK c \in Calls : /\ Handle(Handler(l, c), "none", "get")
                           /\ asked' = [asked EXCEPT ![Handler(l, c)] = n]
                           /\ call' = [call EXCEPT ![l] = c]
    BY DEF Send
  <1>2. \A d \in Calls : Handler(l, d) \in Handlers /\ (d # c => Handler(l, d) # Handler(l, c))
    BY ThreadFact
  <1> QED BY <1>1, <1>2 DEF TypeOK, Handle

\* A call that ends for keepAlive leaves no answer behind.
LEMMA EndFact ==
  ASSUME TypeOK, NEW l \in Locks, call[l] \in Calls, CallFails(l) \/ \E a : Receive(l, a)
  PROVE  /\ call'[l] = NoCall /\ asked' = asked
         /\ handler'[Handler(l, call[l])] \in {"none", "get", "swap"}
         /\ handler'[Handler(l, call[l])] # "none" =>
              handler'[Handler(l, call[l])] = handler[Handler(l, call[l])]
         /\ \A d \in Calls \ {call[l]} : handler'[Handler(l, d)] = handler[Handler(l, d)]
         /\ \A a : Receive(l, a) => handler[Handler(l, call[l])] = a
  <1>1. \A d \in Calls : Handler(l, d) \in Handlers /\ (d # call[l] => Handler(l, d) # Handler(l, call[l]))
    BY ThreadFact
  <1>2. CASE CallFails(l)
    BY <1>1, <1>2 DEF TypeOK, CallFails, Receive, Handle
  <1>3. CASE \E a : Receive(l, a)
    BY <1>1, <1>3 DEF TypeOK, Receive, Handle
  <1> QED BY <1>2, <1>3

\* A handler takes a step.
LEMMA ServeFact ==
  ASSUME TypeOK, NEW l \in Locks, NEW c \in Calls, KeepAliveSemaphoreLease(l, c)
  PROVE  /\ UNCHANGED <<pc, lease, tickC, next, call>>
         /\ handler[Handler(l, c)] \in {"get", "swap"}
         /\ handler'[Handler(l, c)] \in {"none", "ok", "notFound", "error", "swap"}
         /\ handler'[Handler(l, c)] = "ok" => call[l] = c /\ HandleSwap(l, c)
         /\ handler'[Handler(l, c)] = "swap" => HandleGet(l, c)
         /\ \A d \in Calls \ {c} : /\ handler'[Handler(l, d)] = handler[Handler(l, d)]
                                    /\ asked'[Handler(l, d)] = asked[Handler(l, d)]
  <1>1. Handler(l, c) \in Handlers /\ \A d \in Calls \ {c} :
          Handler(l, d) \in Handlers /\ Handler(l, d) # Handler(l, c)
    BY ThreadFact
  <1>2. CASE HandleGet(l, c)
    BY <1>1, <1>2 DEF TypeOK, HandleGet, Handle
  <1>3. CASE HandleNotFound(l, c)
    BY <1>1, <1>3 DEF TypeOK, HandleNotFound, Answered, Handle
  <1>4. CASE HandleSwap(l, c)
    BY <1>1, <1>4 DEF TypeOK, HandleSwap, Answered, Handle
  <1>5. CASE HandleError(l, c)
    BY <1>1, <1>5 DEF TypeOK, HandleError, Answered, Handle
  <1> QED BY <1>2, <1>3, <1>4, <1>5 DEF KeepAliveSemaphoreLease

\* AcquireSemaphoreLock starts keepAlive with no tick and no request under way.
LEMMA ClockAcquire ==
  ASSUME TypeOK, NEW l \in Locks, KeepAliveInv(l), TimesInv(l), AcquireSemaphore(l)
  PROVE  KeepAliveInv(l)' /\ TimesInv(l)'
  <1> USE DEF Move, KeepAliveInv, TimesInv, Running
  <1>1. CASE Call(l) \/ AcquireGet(l)
    BY <1>1 DEF TypeOK, Call, AcquireGet
  <1>2. CASE AcquireExceeded(l) \/ AcquireContended(l) \/ AcquireFailed(l)
    BY <1>2 DEF TypeOK, AcquireExceeded, AcquireContended, AcquireFailed, NoLease, Contended
  <1>3. CASE AcquireSwap(l) \/ AcquireCreate(l)
    BY <1>3 DEF TypeOK, AcquireSwap, AcquireCreate, Acquired
  <1> QED BY <1>1, <1>2, <1>3 DEF AcquireSemaphore

LEMMA ClockKeepAlive ==
  ASSUME TypeOK, NEW l \in Locks, KeepAliveInv(l), TimesInv(l), KeepAlive(l)
  PROVE  KeepAliveInv(l)' /\ TimesInv(l)'
  <1>1. CASE KeepAliveTick(l)
    <2>1. TimesInv(l)'
      BY <1>1 DEF TypeOK, KeepAliveTick, TimesInv, Running, Move, NoTick
    <2>2. CASE UNCHANGED rpc /\ pc[l] = "held" /\ pc'[l] = "backoff"
      BY <2>1, <2>2 DEF KeepAliveInv
    <2>3. CASE Send(l, tickC[l]) /\ pc[l] = "held" /\ pc'[l] = "renew"
      BY <2>1, <2>3, SendFact, CallsAssumption DEF KeepAliveInv, NoCall
    <2> QED BY <1>1, <2>2, <2>3 DEF TypeOK, KeepAliveTick, Move
  <1>2. CASE KeepAliveNotFound(l) \/ KeepAliveOK(l) \/ KeepAliveError(l)
    <2>1. pc[l] = "renew" /\ pc'[l] \in {"finished", "held", "backoff"}
      BY <1>2 DEF TypeOK, KeepAliveNotFound, KeepAliveOK, KeepAliveError, Move
    <2>2. TimesInv(l)'
      <3>1. CASE KeepAliveNotFound(l)
        BY <3>1 DEF TypeOK, KeepAliveNotFound, Move, TimesInv, Running
      <3>2. CASE KeepAliveOK(l)
        BY <2>1, <3>2 DEF TypeOK, KeepAliveOK, Move, TimesInv, Running
      <3>3. CASE KeepAliveError(l)
        BY <2>1, <3>3 DEF TypeOK, KeepAliveError, TimesInv, Running
      <3> QED BY <1>2, <3>1, <3>2, <3>3
    <2>3. CallFails(l) \/ \E a : Receive(l, a)
      BY <1>2, Zenon DEF KeepAliveNotFound, KeepAliveOK, KeepAliveError
    <2> QED BY <2>1, <2>2, <2>3, EndFact DEF KeepAliveInv
  <1>3. CASE KeepAliveRetry(l)
    <2>1. TimesInv(l)' /\ pc[l] = "backoff" /\ pc'[l] = "renew" /\ Send(l, next[l])
      BY <1>3 DEF TypeOK, KeepAliveRetry, TimesInv, Running, Move, NoTick
    <2> QED BY <2>1, SendFact, CallsAssumption DEF KeepAliveInv, NoCall
  <1>4. CASE KeepAliveLeave(l)
    <2>1. /\ pc[l] \in {"held", "backoff"} /\ pc'[l] \in {"cancelGet", "finished"} /\ UNCHANGED rpc
      BY <1>4 DEF TypeOK, KeepAliveLeave, Leave, Move
    <2> QED BY <2>1 DEF KeepAliveInv, TimesInv, Running
  <1> QED BY <1>1, <1>2, <1>3, <1>4 DEF KeepAlive

LEMMA ClockServer ==
  ASSUME TypeOK, NEW l \in Locks, KeepAliveInv(l), TimesInv(l),
         Serve(l) \/ CancelSemaphoreLease(l) \/ CancelContext(l) \/ Stop(l)
  PROVE  KeepAliveInv(l)' /\ TimesInv(l)'
  <1>1. CASE Serve(l)
    <2>1. PICK c \in Calls : KeepAliveSemaphoreLease(l, c)
      BY <1>1 DEF Serve
    <2> QED BY <2>1, ServeFact DEF KeepAliveInv, TimesInv, Running
  <1>2. CASE CancelSemaphoreLease(l)
    <2>1. /\ pc[l] \in {"cancelGet", "cancelSwap"} /\ pc'[l] \in {"cancelGet", "cancelSwap", "finished"}
          /\ UNCHANGED rpc
      BY <1>2 DEF TypeOK, CancelSemaphoreLease, CancelGet, CancelSwap, CancelContended, CancelFailed,
                  NoLease, Move
    <2> QED BY <2>1 DEF KeepAliveInv, TimesInv, Running
  <1>3. CASE CancelContext(l) \/ Stop(l)
    BY <1>3 DEF CancelContext, Stop, KeepAliveInv, TimesInv, Running
  <1> QED BY <1>1, <1>2, <1>3

\* Time passes for all of them, and a tick that fires is for later than any other.
LEMMA ClockTick ==
  ASSUME TypeOK, NEW l \in Locks, KeepAliveInv(l), TimesInv(l), Tick
  PROVE  KeepAliveInv(l)' /\ TimesInv(l)'
  <1>1. /\ lease[l] \in 0..Expiry /\ next[l] \in 0..Expiry /\ tickC[l] \in NoTick..Expiry
    BY DEF TypeOK
  <1>2. /\ lease'[l] = Less(lease[l]) /\ next'[l] = Less(next[l])
        /\ tickC'[l] = IF tickC[l] # NoTick THEN Less(tickC[l])
                       ELSE IF Fires(l) THEN Expiry ELSE NoTick
        /\ pc' = pc /\ handler' = handler /\ call' = call
    BY DEF Tick
  <1>3. Fires(l) => Running(l)
    BY DEF Fires
  <1> QED BY <1>1, <1>2, <1>3, ExpiryAssumption DEF KeepAliveInv, TimesInv, Running, Less, NoTick

LEMMA ClockStep ==
  ASSUME TypeOK, ClockInv, [Next]_vars
  PROVE  ClockInv'
  <1> SUFFICES ASSUME NEW k \in Locks PROVE KeepAliveInv(k)' /\ TimesInv(k)'
    BY DEF ClockInv
  <1>1. KeepAliveInv(k) /\ TimesInv(k)
    BY DEF ClockInv
  <1>2. ASSUME NEW l \in Locks, Step(l)
        PROVE  KeepAliveInv(k)' /\ TimesInv(k)'
    <2>1. CASE k = l
      BY <1>1, <1>2, <2>1, ClockAcquire, ClockKeepAlive, ClockServer DEF Step
    <2>2. CASE k # l
      BY <1>1, <1>2, <2>2, LockOthers DEF KeepAliveInv, TimesInv, Running
    <2> QED BY <2>1, <2>2
  <1>3. CASE DeleteSemaphore \/ UNCHANGED vars
    BY <1>1, <1>3 DEF DeleteSemaphore, vars, KeepAliveInv, TimesInv, Running
  <1>4. CASE Tick
    BY <1>1, <1>4, ClockTick
  <1> QED BY <1>2, <1>3, <1>4, NextSteps

-----------------------------------------------------------------------------
(* What the requests do to the record *)

\* The threads of lock l.
Mine(l) == {Main(l)} \cup {Handler(l, c) : c \in Calls}

\* Thread t of lock l writes what it has computed: with Create when there is no
\* record, or with CompareAndSwap when it is the one that was read.
Stores(t, l) ==
    /\ record' = Item(update[t]) /\ revoked' = revoked
    /\ seen' = [seen EXCEPT ![t] = Absent]
    /\ update' = [update EXCEPT ![t] = Absent]
    /\ \/ t = Main(l) /\ pc[l] = "create" /\ record.left = 0
       \/ t = Main(l) /\ pc[l] \in {"swap", "cancelSwap"} /\ record = seen[t]
       \/ \E c \in Calls : t = Handler(l, c) /\ handler[t] = "swap" /\ record = seen[t]

\* It only forgets what it has read.
Drops(t) ==
    /\ record' = record /\ revoked' = revoked
    /\ seen' = [seen EXCEPT ![t] = Absent]
    /\ update' = [update EXCEPT ![t] = Absent]

\* It reads the record.
Gets(t, new) ==
    /\ record' = record /\ revoked' = revoked
    /\ seen' = [seen EXCEPT ![t] = record]
    /\ update' = [update EXCEPT ![t] = new]

\* What a step of lock l may do to the record, and to what was read of it.
Effect(l) ==
    \/ UNCHANGED <<record, revoked, seen, update>>
    \/ \E t \in Mine(l) : Stores(t, l) \/ Drops(t)
    \/ AcquireGet(l) /\ Gets(Main(l), WithLease(RemoveExpiredLeases(record), l, lease[l]))
    \/ \E c \in Calls :
         /\ HandleGet(l, c)
         /\ Gets(Handler(l, c), WithLease(RemoveExpiredLeases(record), l, asked[Handler(l, c)]))
    \/ CancelGet(l) /\ Gets(Main(l), Cancel(record, l))

\* There is nothing else: every write is a Create or a CompareAndSwap of what
\* was computed from the record it replaces.
LEMMA EveryEffect ==
  ASSUME TypeOK, NEW l \in Locks, Step(l)
  PROVE  Effect(l)
  <1>0. record.left \in 0..Expiry
    BY RecordFact DEF TypeOK
  <1>00. Main(l) \in Mine(l) /\ \A c \in Calls : Handler(l, c) \in Mine(l)
    BY DEF Mine
  <1>1. CASE Call(l) \/ KeepAlive(l) \/ CancelContext(l) \/ Stop(l)
    BY <1>1 DEF Call, KeepAlive, KeepAliveTick, KeepAliveNotFound, KeepAliveOK, KeepAliveError,
                KeepAliveRetry, KeepAliveLeave, Leave, CancelContext, Stop, Effect
  <1>2. CASE AcquireGet(l)
    BY <1>2 DEF AcquireGet, Read, Gets, Effect
  <1>3. CASE AcquireExceeded(l) \/ AcquireContended(l)
    BY <1>00, <1>3 DEF AcquireExceeded, AcquireContended, NoLease, Forget, Drops, Effect
  <1>4. CASE AcquireSwap(l)
    BY <1>00, <1>4 DEF AcquireSwap, Acquired, Forget, Unchanged, Stores, Effect
  <1>5. CASE AcquireCreate(l)
    <2>1. Stores(Main(l), l)
      BY <1>0, <1>5 DEF AcquireCreate, Acquired, Forget, Found, Stores
    <2> QED BY <1>00, <2>1 DEF Effect
  <1>6. CASE AcquireFailed(l)
    <2>1. CASE record' = record
      BY <1>00, <1>6, <2>1 DEF AcquireFailed, NoLease, Forget, Drops, Effect
    <2>2. CASE pc[l] \in {"swap", "create"} /\ ~Contended(l) /\ record' = Item(update[Main(l)])
      <3>1. \/ pc[l] = "swap" /\ record = seen[Main(l)]
            \/ pc[l] = "create" /\ record.left = 0
        BY <1>0, <2>2 DEF Contended, Unchanged, Found
      <3> QED BY <1>00, <1>6, <2>2, <3>1 DEF AcquireFailed, NoLease, Forget, Stores, Effect
    <2> QED BY <1>6, <2>1, <2>2 DEF AcquireFailed
  <1>7. ASSUME NEW c \in Calls, KeepAliveSemaphoreLease(l, c) PROVE Effect(l)
    <2>1. CASE HandleGet(l, c)
      BY <2>1 DEF HandleGet, Read, Gets, Effect
    <2>2. CASE HandleNotFound(l, c)
      BY <2>2 DEF HandleNotFound, Effect
    <2>3. CASE HandleSwap(l, c)
      BY <1>00, <2>3 DEF HandleSwap, Answered, Handle, Renewed, Unchanged, Stores, Effect
    <2>4. CASE HandleError(l, c)
      <3>1. CASE record' = record /\ Forget(Handler(l, c))
        BY <1>00, <2>4, <3>1 DEF HandleError, Forget, Drops, Effect
      <3>2. CASE handler[Handler(l, c)] = "swap" /\ Unchanged(Handler(l, c)) /\ Renewed(Handler(l, c))
        BY <1>00, <2>4, <3>2 DEF HandleError, Renewed, Unchanged, Stores, Effect
      <3> QED BY <2>4, <3>1, <3>2 DEF HandleError
    <2> QED BY <1>7, <2>1, <2>2, <2>3, <2>4 DEF KeepAliveSemaphoreLease
  <1>8. CASE CancelGet(l)
    BY <1>8 DEF CancelGet, Read, Gets, Effect
  <1>9. CASE CancelSwap(l)
    BY <1>00, <1>9 DEF CancelSwap, Move, NoLease, Forget, Unchanged, Stores, Effect
  <1>10. CASE CancelContended(l)
    BY <1>00, <1>10 DEF CancelContended, Forget, Drops, Effect
  <1>11. CASE CancelFailed(l)
    BY <1>00, <1>11 DEF CancelFailed, NoLease, Forget, Unchanged, Stores, Drops, Effect
  <1> QED BY <1>1, <1>2, <1>3, <1>4, <1>5, <1>6, <1>7, <1>8, <1>9, <1>10, <1>11
          DEF Step, Serve, AcquireSemaphore, CancelSemaphoreLease

\* The operations of SemaphoreV3 and the passing of time keep the leases within
\* the life of their record.
LEMMA CoversFact ==
  ASSUME NEW r \in Records, Covers(r)
  PROVE  /\ Covers(Absent) /\ Covers(Item(r)) /\ Covers(Aged(r))
         /\ \A l \in Locks : Covers(Cancel(r, l))
         /\ \A l \in Locks, n \in 0..Expiry : Covers(WithLease(RemoveExpiredLeases(r), l, n))
  <1>1. r.left \in 0..Expiry /\ \A k \in DOMAIN r.leases : r.leases[k] \in 0..Expiry /\ r.leases[k] <= r.left
    BY RecordFact DEF Covers
  <1>2. Covers(Absent)
    BY AbsentFact DEF Covers
  <1>3. Covers(Item(r))
    BY <1>2 DEF Item
  <1>4. Covers(Aged(r))
    BY <1>1, AgedFact, ExpiryAssumption DEF Covers, Less
  <1>5. \A l \in Locks : Covers(Cancel(r, l))
    BY <1>1, CancelFact DEF Covers
  <1>6. ASSUME NEW l \in Locks, NEW n \in 0..Expiry
        PROVE  Covers(WithLease(RemoveExpiredLeases(r), l, n))
    <2> DEFINE q == RemoveExpiredLeases(r)
    <2>1. q \in Records /\ q.left = r.left /\ DOMAIN q.leases = Live(r)
          /\ \A k \in Live(r) : q.leases[k] = r.leases[k]
      BY RemoveExpiredFact
    <2> HIDE DEF q
    <2>2. \A k \in DOMAIN q.leases : q.leases[k] \in 0..Expiry /\ q.leases[k] <= r.left
      BY <1>1, <2>1 DEF Live
    <2>3. /\ WithLease(q, l, n).left = Later(r.left, n)
          /\ DOMAIN WithLease(q, l, n).leases = DOMAIN q.leases \cup {l}
          /\ WithLease(q, l, n).leases[l] = n
          /\ \A k \in DOMAIN q.leases \ {l} : WithLease(q, l, n).leases[k] = q.leases[k]
      BY <2>1, WithLeaseFact
    <2>4. Later(r.left, n) \in 0..Expiry /\ n <= Later(r.left, n) /\ r.left <= Later(r.left, n)
      BY <1>1 DEF Later
    <2> HIDE DEF Later
    <2>5. \A k \in DOMAIN q.leases \cup {l} : WithLease(q, l, n).leases[k] <= Later(r.left, n)
      <3> SUFFICES ASSUME NEW k \in DOMAIN q.leases \cup {l}
                   PROVE  WithLease(q, l, n).leases[k] <= Later(r.left, n)
        OBVIOUS
      <3>1. CASE k = l
        BY <2>3, <2>4, <3>1
      <3>2. CASE k # l
        BY <1>1, <2>2, <2>3, <2>4, <3>2
      <3> QED BY <3>1, <3>2
    <2> QED BY <2>3, <2>5 DEF Covers, q
  <1> QED BY <1>2, <1>3, <1>4, <1>5, <1>6

CoversInv == Covers(record) /\ \A t \in Threads : Covers(update[t])

LEMMA CoversStep ==
  ASSUME TypeOK, CoversInv, [Next]_vars
  PROVE  CoversInv'
  <1>1. record \in Records /\ update \in [Threads -> Records]
    BY DEF TypeOK
  <1>2. ASSUME NEW l \in Locks, Effect(l) PROVE CoversInv'
    <2>1. /\ Main(l) \in Threads /\ Mine(l) \subseteq Threads /\ lease[l] \in 0..Expiry
          /\ \A c \in Calls : Handler(l, c) \in Threads /\ asked[Handler(l, c)] \in 0..Expiry
      BY ThreadFact DEF TypeOK, Mine
    <2>2. CASE UNCHANGED <<record, revoked, seen, update>>
      BY <2>2 DEF CoversInv, Covers
    <2>3. ASSUME NEW t \in Threads, Stores(t, l) \/ Drops(t) PROVE CoversInv'
      <3>1. Covers(Absent) /\ Covers(Item(update[t]))
        BY <1>1, CoversFact DEF CoversInv
      <3>2. Covers(record')
        BY <2>3, <3>1 DEF Stores, Drops, CoversInv
      <3>3. update' = [update EXCEPT ![t] = Absent]
        BY <2>3 DEF Stores, Drops
      <3>4. \A s \in Threads : Covers(update'[s])
        BY <1>1, <3>1, <3>3 DEF CoversInv
      <3> QED BY <3>2, <3>4 DEF CoversInv, Covers
    <2>4. ASSUME NEW t \in Threads, NEW new, Covers(new), Gets(t, new) PROVE CoversInv'
      <3>1. update' = [update EXCEPT ![t] = new] /\ record' = record
        BY <2>4 DEF Gets
      <3>2. \A s \in Threads : Covers(update'[s])
        BY <1>1, <2>4, <3>1 DEF CoversInv
      <3> QED BY <3>1, <3>2 DEF CoversInv, Covers
    <2>5. /\ Covers(Cancel(record, l))
          /\ Covers(WithLease(RemoveExpiredLeases(record), l, lease[l]))
          /\ \A c \in Calls : Covers(WithLease(RemoveExpiredLeases(record), l, asked[Handler(l, c)]))
      BY <1>1, <2>1, CoversFact DEF CoversInv
    <2> QED BY <1>2, <2>1, <2>2, <2>3, <2>4, <2>5 DEF Effect
  <1>3. CASE Tick
    <2>1. Covers(record')
      BY <1>1, <1>3, AgedFact, CoversFact DEF Tick, CoversInv
    <2>2. \A t \in Threads : Covers(update'[t])
      BY <1>1, <1>3, CoversFact DEF Tick, CoversInv
    <2> QED BY <2>1, <2>2 DEF CoversInv, Covers
  <1>4. CASE DeleteSemaphore
    BY <1>1, <1>4, AbsentFact DEF DeleteSemaphore, CoversInv, Covers
  <1>5. CASE UNCHANGED vars
    BY <1>5 DEF vars, CoversInv, Covers
  <1> QED BY <1>2, <1>3, <1>4, <1>5, EveryEffect, NextSteps

-----------------------------------------------------------------------------
(* What the threads are about to write *)

\* The leases with time left that a thread of lock l keeps in what it computed.
LEMMA ComputedFact ==
  ASSUME NEW r \in Records, NEW l \in Locks, NEW n \in 0..Expiry
  PROVE  LET new == WithLease(RemoveExpiredLeases(r), l, n)
         IN  /\ l \in DOMAIN new.leases /\ new.leases[l] = n
             /\ DOMAIN new.leases \subseteq DOMAIN r.leases \cup {l}
             /\ r.left = 0 /\ r = Absent => DOMAIN new.leases = {l}
             /\ \A k \in DOMAIN r.leases :
                  k # l /\ r.leases[k] > 0 => k \in DOMAIN new.leases /\ new.leases[k] = r.leases[k]
  <1> DEFINE q == RemoveExpiredLeases(r)
  <1>1. q \in Records /\ DOMAIN q.leases = Live(r) /\ \A k \in Live(r) : q.leases[k] = r.leases[k]
    BY RemoveExpiredFact
  <1> HIDE DEF q
  <1>2. /\ DOMAIN WithLease(q, l, n).leases = DOMAIN q.leases \cup {l}
        /\ WithLease(q, l, n).leases[l] = n
        /\ \A k \in DOMAIN q.leases \ {l} : WithLease(q, l, n).leases[k] = q.leases[k]
    BY <1>1, WithLeaseFact
  <1>3. Live(r) \subseteq DOMAIN r.leases /\ \A k \in DOMAIN r.leases : r.leases[k] > 0 => k \in Live(r)
    BY DEF Live
  <1>4. r = Absent => Live(r) = {}
    BY AbsentFact
  <1> QED BY <1>1, <1>2, <1>3, <1>4 DEF q

\* Time passes alike for what was read, for what was computed from it and for
\* what the lock and the handler know.
LEMMA WritesTick ==
  ASSUME TypeOK, NEW l \in Locks, WritesInv(l), Tick
  PROVE  WritesInv(l)'
  <1>1. Main(l) \in Threads /\ \A c \in Calls : Handler(l, c) \in Threads
    BY ThreadFact
  <1>2. pc' = pc /\ handler' = handler /\ lease'[l] = Less(lease[l])
    BY DEF Tick
  <1>3. ASSUME NEW t \in Threads
        PROVE  /\ DOMAIN seen'[t].leases = DOMAIN seen[t].leases
               /\ DOMAIN update'[t].leases = DOMAIN update[t].leases
               /\ \A k \in DOMAIN seen[t].leases :
                    seen'[t].leases[k] = Less(seen[t].leases[k]) /\ seen[t].leases[k] \in 0..Expiry
               /\ \A k \in DOMAIN update[t].leases : update'[t].leases[k] = Less(update[t].leases[k])
    <2>1. seen[t] \in Records /\ update[t] \in Records
      BY DEF TypeOK
    <2>2. seen'[t] = Aged(seen[t]) /\ update'[t] = Aged(update[t])
      BY DEF Tick
    <2>3. /\ DOMAIN Aged(seen[t]).leases = DOMAIN seen[t].leases
          /\ \A k \in DOMAIN seen[t].leases : Aged(seen[t]).leases[k] = Less(seen[t].leases[k])
      BY <2>1, AgedFact
    <2>4. /\ DOMAIN Aged(update[t]).leases = DOMAIN update[t].leases
          /\ \A k \in DOMAIN update[t].leases : Aged(update[t]).leases[k] = Less(update[t].leases[k])
      BY <2>1, AgedFact
    <2>5. \A k \in DOMAIN seen[t].leases : seen[t].leases[k] \in 0..Expiry
      BY <2>1, RecordFact
    <2> QED BY <2>2, <2>3, <2>4, <2>5
  <1>4. \A n \in 0..Expiry : Less(n) > 0 => n > 0
    BY LessFact, ExpiryAssumption
  <1>5. ASSUME NEW t \in Threads, Keeps(t, l) PROVE Keeps(t, l)'
    BY <1>3, <1>4, <1>5 DEF Keeps
  <1>6. ASSUME NEW t \in Threads, NEW n, Grants(t, l, n)
        PROVE  l \in DOMAIN update'[t].leases /\ update'[t].leases[l] = Less(n)
    BY <1>3, <1>6 DEF Grants
  <1>7. Grants(Main(l), l, lease[l]) => Grants(Main(l), l, lease[l])'
    BY <1>1, <1>2, <1>6 DEF Grants, Main
  <1>8. /\ Keeps(Main(l), l) => Keeps(Main(l), l)'
        /\ \A c \in Calls : Keeps(Handler(l, c), l) => Keeps(Handler(l, c), l)'
    BY <1>1, <1>5
  <1> QED BY <1>1, <1>2, <1>3, <1>7, <1>8 DEF WritesInv

\* What WritesInv says of lock l depends on these only.
LEMMA WritesKept ==
  ASSUME TypeOK, NEW l \in Locks, WritesInv(l),
         (pc'[l] = pc[l] /\ lease'[l] = lease[l]) \/ pc'[l] \notin {"swap", "create", "cancelSwap"},
         pc'[l] \in {"swap", "create", "cancelSwap"} =>
           seen'[Main(l)] = seen[Main(l)] /\ update'[Main(l)] = update[Main(l)],
         \A c \in Calls :
           handler'[Handler(l, c)] = "swap" =>
             /\ handler[Handler(l, c)] = "swap"
             /\ seen'[Handler(l, c)] = seen[Handler(l, c)] /\ update'[Handler(l, c)] = update[Handler(l, c)]
  PROVE  WritesInv(l)'
  BY DEF WritesInv, Keeps, Grants

\* A step of lock l leaves what the threads of the others have read.
LEMMA SeenOthers ==
  ASSUME TypeOK, NEW l \in Locks, Step(l), NEW t \in Threads, t \notin Mine(l)
  PROVE  seen'[t] = seen[t] /\ update'[t] = update[t]
  <1>1. Effect(l)
    BY EveryEffect
  <1>2. Main(l) \in Mine(l) /\ \A c \in Calls : Handler(l, c) \in Mine(l)
    BY DEF Mine
  <1> QED BY <1>1, <1>2 DEF TypeOK, Effect, Stores, Drops, Gets

LEMMA NotMine ==
  ASSUME NEW l \in Locks, NEW k \in Locks \ {l}
  PROVE  /\ Main(k) \in Threads /\ Main(k) \notin Mine(l)
         /\ \A c \in Calls : Handler(k, c) \in Threads /\ Handler(k, c) \notin Mine(l)
  BY ThreadFact DEF Mine

\* The steps of the other locks do not matter.
LEMMA WritesOthers ==
  ASSUME TypeOK, NEW l \in Locks, NEW k \in Locks \ {l}, WritesInv(k), Step(l)
  PROVE  WritesInv(k)'
  <1>1. /\ pc'[k] = pc[k] /\ lease'[k] = lease[k]
        /\ \A c \in Calls : handler'[Handler(k, c)] = handler[Handler(k, c)]
    BY LockOthers
  <1>2. /\ seen'[Main(k)] = seen[Main(k)] /\ update'[Main(k)] = update[Main(k)]
        /\ \A c \in Calls : /\ seen'[Handler(k, c)] = seen[Handler(k, c)]
                             /\ update'[Handler(k, c)] = update[Handler(k, c)]
    BY NotMine, SeenOthers
  <1> QED BY <1>1, <1>2, WritesKept

LEMMA WritesAcquire ==
  ASSUME TypeOK, NEW l \in Locks, KeepAliveInv(l), WritesInv(l), AcquireSemaphore(l)
  PROVE  WritesInv(l)'
  <1>1. Main(l) \in Threads
    BY ThreadFact
  <1>2. \A c \in Calls : handler'[Handler(l, c)] = "none"
    BY DEF TypeOK, KeepAliveInv, AcquireSemaphore, Call, AcquireGet, AcquireExceeded, AcquireSwap,
           AcquireCreate, AcquireContended, AcquireFailed, Acquired, NoLease, Move, Contended
  <1>3. CASE AcquireGet(l)
    <2> DEFINE new == WithLease(RemoveExpiredLeases(record), l, lease[l])
    <2>1. record \in Records /\ lease[l] \in 0..Expiry /\ (record.left = 0 => record = Absent)
          /\ record.left \in 0..Expiry
      BY RecordFact DEF TypeOK
    <2>2. /\ l \in DOMAIN new.leases /\ new.leases[l] = lease[l]
          /\ DOMAIN new.leases \subseteq DOMAIN record.leases \cup {l}
          /\ record.left = 0 /\ record = Absent => DOMAIN new.leases = {l}
          /\ \A k \in DOMAIN record.leases : k # l /\ record.leases[k] > 0
               => k \in DOMAIN new.leases /\ new.leases[k] = record.leases[k]
      BY <2>1, ComputedFact
    <2> HIDE DEF new
    <2>3. seen'[Main(l)] = record /\ update'[Main(l)] = new
      BY <1>1, <1>3 DEF TypeOK, AcquireGet, Read, new
    <2>4. \/ pc'[l] = "swap"
          \/ pc'[l] = "create" /\ record.left = 0
      BY <1>3, <2>1 DEF TypeOK, AcquireGet, Move, Found
    <2>5. lease'[l] = lease[l]
      BY <1>3 DEF AcquireGet
    <2> QED BY <1>2, <2>1, <2>2, <2>3, <2>4, <2>5 DEF WritesInv, Keeps, Grants
  <1>4. CASE ~AcquireGet(l)
    <2>1. pc'[l] \notin {"swap", "create", "cancelSwap"}
      BY <1>4 DEF TypeOK, AcquireSemaphore, Call, AcquireExceeded, AcquireSwap, AcquireCreate,
                  AcquireContended, AcquireFailed, Acquired, Move
    <2> QED BY <1>2, <2>1 DEF WritesInv
  <1> QED BY <1>3, <1>4

LEMMA WritesKeepAlive ==
  ASSUME TypeOK, NEW l \in Locks, KeepAliveInv(l), WritesInv(l), KeepAlive(l)
  PROVE  WritesInv(l)'
  <1>1. UNCHANGED <<seen, update>>
    BY DEF KeepAlive, KeepAliveTick, KeepAliveNotFound, KeepAliveOK, KeepAliveError,
           KeepAliveRetry, KeepAliveLeave, Leave
  <1>2. pc'[l] \notin {"swap", "create", "cancelSwap"}
    BY DEF TypeOK, KeepAlive, KeepAliveTick, KeepAliveNotFound, KeepAliveOK, KeepAliveError,
           KeepAliveRetry, KeepAliveLeave, Leave, Move
  <1>3. \A c \in Calls : handler'[Handler(l, c)] = "swap" => handler[Handler(l, c)] = "swap"
    <2>1. CASE UNCHANGED rpc
      BY <2>1
    <2>2. ASSUME NEW n, Send(l, n)
          PROVE  \A c \in Calls : handler'[Handler(l, c)] = "swap" => handler[Handler(l, c)] = "swap"
      BY <2>2, SendFact
    <2>3. CASE pc[l] = "renew" /\ (CallFails(l) \/ \E a : Receive(l, a))
      BY <2>3, EndFact DEF KeepAliveInv
    <2>4. \/ UNCHANGED rpc \/ \E n : Send(l, n)
          \/ pc[l] = "renew" /\ (CallFails(l) \/ \E a : Receive(l, a))
      BY Zenon DEF KeepAlive, KeepAliveTick, KeepAliveNotFound, KeepAliveOK, KeepAliveError, KeepAliveRetry,
                   KeepAliveLeave, Leave, Move
    <2> QED BY <2>1, <2>2, <2>3, <2>4
  <1> QED BY <1>1, <1>2, <1>3, WritesKept

LEMMA WritesHandler ==
  ASSUME TypeOK, NEW l \in Locks, WritesInv(l), NEW c \in Calls, KeepAliveSemaphoreLease(l, c)
  PROVE  WritesInv(l)'
  <1> DEFINE h == Handler(l, c)
  <1>1. /\ h \in Threads /\ h \in Handlers /\ Main(l) \in Threads /\ Main(l) # h
        /\ \A d \in Calls \ {c} : Handler(l, d) \in Threads /\ Handler(l, d) # h
    BY ThreadFact
  <1>2. /\ pc' = pc /\ lease' = lease
        /\ \A d \in Calls \ {c} : handler'[Handler(l, d)] = handler[Handler(l, d)]
    BY ServeFact
  <1>3. ASSUME NEW t \in Threads, t # h PROVE seen'[t] = seen[t] /\ update'[t] = update[t]
    BY <1>1, <1>3 DEF TypeOK, KeepAliveSemaphoreLease, HandleGet, HandleNotFound, HandleSwap, HandleError,
                      Read, Renewed, Forget
  <1>4. CASE HandleGet(l, c)
    <2> DEFINE new == WithLease(RemoveExpiredLeases(record), l, asked[h])
    <2>1. record \in Records /\ asked[h] \in 0..Expiry
      BY <1>1 DEF TypeOK
    <2>2. /\ l \in DOMAIN new.leases
          /\ DOMAIN new.leases \subseteq DOMAIN record.leases \cup {l}
          /\ \A k \in DOMAIN record.leases : k # l /\ record.leases[k] > 0
               => k \in DOMAIN new.leases /\ new.leases[k] = record.leases[k]
      BY <2>1, ComputedFact
    <2>3. l \in DOMAIN record.leases
      BY <1>4, <2>1, RemoveExpiredFact DEF HandleGet, Live
    <2> HIDE DEF new
    <2>4. seen'[h] = record /\ update'[h] = new
      BY <1>1, <1>4 DEF TypeOK, HandleGet, Read, new
    <2>5. /\ Keeps(h, l)' /\ l \in DOMAIN update'[h].leases
          /\ DOMAIN update'[h].leases \subseteq DOMAIN seen'[h].leases
      BY <2>2, <2>3, <2>4 DEF Keeps, Handler
    <2> QED BY <1>1, <1>2, <1>3, <2>5 DEF WritesInv, Keeps, Grants
  <1>5. CASE ~HandleGet(l, c)
    <2>1. handler'[h] # "swap"
      BY <1>5, ServeFact
    <2> QED BY <1>1, <1>2, <1>3, <2>1, WritesKept
  <1> QED BY <1>4, <1>5

LEMMA WritesCancel ==
  ASSUME TypeOK, NEW l \in Locks, WritesInv(l), CancelSemaphoreLease(l)
  PROVE  WritesInv(l)'
  <1>1. Main(l) \in Threads /\ \A c \in Calls : Handler(l, c) \in Threads /\ Main(l) # Handler(l, c)
    BY ThreadFact
  <1>2. handler' = handler
    BY DEF CancelSemaphoreLease, CancelGet, CancelSwap, CancelContended, CancelFailed, NoLease
  <1>3. \A c \in Calls : /\ seen'[Handler(l, c)] = seen[Handler(l, c)]
                         /\ update'[Handler(l, c)] = update[Handler(l, c)]
    BY <1>1 DEF TypeOK, CancelSemaphoreLease, CancelGet, CancelSwap, CancelContended, CancelFailed,
                NoLease, Read, Forget
  <1>4. CASE CancelGet(l)
    <2>1. /\ DOMAIN Cancel(record, l).leases = DOMAIN record.leases \ {l}
          /\ \A k \in DOMAIN record.leases \ {l} : Cancel(record, l).leases[k] = record.leases[k]
      BY CancelFact DEF TypeOK
    <2>2. seen'[Main(l)] = record /\ update'[Main(l)] = Cancel(record, l) /\ pc'[l] = "cancelSwap"
      BY <1>1, <1>4 DEF TypeOK, CancelGet, Read, Move
    <2> QED BY <1>2, <1>3, <2>1, <2>2 DEF WritesInv, Keeps, Grants
  <1>5. CASE ~CancelGet(l)
    <2>1. pc'[l] \notin {"swap", "create", "cancelSwap"}
      BY <1>5 DEF TypeOK, CancelSemaphoreLease, CancelSwap, CancelContended, CancelFailed, Move
    <2> QED BY <1>2, <1>3, <2>1, WritesKept
  <1> QED BY <1>4, <1>5

\* A tick, or a step of some lock, keeps what WritesInv says of all of them.
LEMMA WritesStep ==
  ASSUME TypeOK, ClockInv, \A l \in Locks : WritesInv(l), [Next]_vars
  PROVE  \A l \in Locks : WritesInv(l)'
  <1> SUFFICES ASSUME NEW k \in Locks PROVE WritesInv(k)'
    OBVIOUS
  <1>1. KeepAliveInv(k) /\ WritesInv(k)
    BY DEF ClockInv
  <1>2. ASSUME NEW l \in Locks, Step(l)
        PROVE  WritesInv(k)'
    <2>1. CASE k # l
      BY <1>1, <1>2, <2>1, WritesOthers
    <2>2. CASE k = l /\ (CancelContext(l) \/ Stop(l))
      BY <1>1, <2>2 DEF CancelContext, Stop, WritesInv, Keeps, Grants
    <2> QED BY <1>1, <1>2, <2>1, <2>2, WritesAcquire, WritesKeepAlive, WritesHandler, WritesCancel
            DEF Step, Serve
  <1>3. CASE DeleteSemaphore \/ UNCHANGED vars
    BY <1>1, <1>3 DEF DeleteSemaphore, vars, WritesInv, Keeps, Grants
  <1> QED BY <1>1, <1>2, <1>3, WritesTick, NextSteps

-----------------------------------------------------------------------------
(* What the record has of the holders *)

RecordedInv ==
    \A l \in Locks : /\ Running(l) => Recorded(l, lease[l])
                     /\ \A c \in Calls : handler[Handler(l, c)] = "ok" => Recorded(l, next[l])

\* A call that is sent, given up on or answered renews what it did before.
LEMMA RoundKeepAlive ==
  ASSUME TypeOK, NEW l \in Locks, KeepAliveInv(l), TimesInv(l), RoundInv(l), punctual, KeepAlive(l)
  PROVE  RoundInv(l)'
  <1>0. /\ lease[l] \in 0..Expiry /\ next[l] \in 0..Expiry /\ update' = update
        /\ tickC[l] # NoTick => tickC[l] \in 0..Expiry
    <2>1. update' = update
      BY DEF KeepAlive, KeepAliveTick, KeepAliveNotFound, KeepAliveOK, KeepAliveError, KeepAliveRetry,
             KeepAliveLeave, Leave
    <2>2. tickC[l] # NoTick => tickC[l] \in 0..Expiry
      BY ExpiryAssumption DEF TypeOK, NoTick
    <2> QED BY <2>1, <2>2 DEF TypeOK
  <1>1. CASE KeepAliveTick(l)
    <2>1. /\ tickC[l] # NoTick /\ pc[l] = "held" /\ lease'[l] = lease[l] /\ next'[l] = tickC[l]
          /\ \A c \in Calls : handler[Handler(l, c)] = "none"
          /\ UNCHANGED rpc \/ Send(l, tickC[l])
      BY <1>1 DEF TypeOK, KeepAliveTick, Move
    <2>2. lease[l] <= tickC[l]
      BY <2>1 DEF TimesInv, Running
    <2>3. CASE UNCHANGED rpc
      BY <2>1, <2>3 DEF RoundInv, Renews
    <2>4. CASE Send(l, tickC[l])
      <3>1. PICK c \in Calls : /\ handler'[Handler(l, c)] = "get" /\ asked'[Handler(l, c)] = tickC[l]
                               /\ \A d \in Calls \ {c} : handler'[Handler(l, d)] = "none"
        BY <2>1, <2>4, SendFact
      <3>2. \A d \in Calls : Renews(Handler(l, d), l, lease[l])' /\ Renews(Handler(l, d), l, next[l])'
        BY <1>0, <2>1, <2>2, <3>1 DEF Renews
      <3> QED BY <3>2 DEF RoundInv
    <2> QED BY <2>1, <2>3, <2>4
  <1>2. CASE KeepAliveOK(l) \/ KeepAliveError(l)
    <2>1. /\ pc[l] = "renew" /\ call[l] \in Calls /\ Running(l)
          /\ CallFails(l) \/ \E a : Receive(l, a)
      BY <1>2 DEF KeepAliveOK, KeepAliveError, Move, KeepAliveInv, Running
    <2>2. \A c \in Calls : /\ asked' = asked
                           /\ handler'[Handler(l, c)] \in {"get", "swap"} =>
                                handler'[Handler(l, c)] = handler[Handler(l, c)]
      BY <2>1, EndFact
    <2>3. \A c \in Calls : \A n : Renews(Handler(l, c), l, n) =>
            /\ handler'[Handler(l, c)] = "get" => n <= asked'[Handler(l, c)]
            /\ handler'[Handler(l, c)] = "swap" => n <= update'[Handler(l, c)].leases[l]
      BY <1>0, <2>2 DEF Renews
    <2>4. \/ pc'[l] = "held" /\ lease'[l] = next[l]
          \/ pc'[l] = "backoff" /\ lease'[l] = lease[l] /\ next'[l] = next[l]
      BY <1>2 DEF TypeOK, KeepAliveOK, KeepAliveError, Move
    <2> QED BY <2>1, <2>3, <2>4 DEF RoundInv, Renews
  <1>3. CASE KeepAliveRetry(l)
    <2>1. /\ pc[l] = "backoff" /\ lease'[l] = lease[l] /\ next'[l] = next[l] /\ Send(l, next[l])
          /\ Running(l)
      BY <1>3 DEF TypeOK, KeepAliveRetry, Move, Running
    <2>2. lease[l] <= next[l]
      BY <2>1 DEF TimesInv, Running
    <2>3. PICK c \in Calls : /\ handler'[Handler(l, c)] = "get" /\ asked'[Handler(l, c)] = next[l]
                             /\ \A d \in Calls \ {c} : /\ handler'[Handler(l, d)] = handler[Handler(l, d)]
                                                       /\ asked'[Handler(l, d)] = asked[Handler(l, d)]
      BY <2>1, SendFact
    <2>4. ASSUME NEW d \in Calls PROVE Renews(Handler(l, d), l, lease[l])' /\ Renews(Handler(l, d), l, next[l])'
      <3>1. CASE d = c
        BY <1>0, <2>1, <2>2, <2>3, <3>1 DEF Renews
      <3>2. CASE d # c
        BY <1>0, <2>1, <2>3, <3>2 DEF Renews, RoundInv
      <3> QED BY <3>1, <3>2
    <2> QED BY <2>4 DEF RoundInv
  <1>4. CASE KeepAliveNotFound(l) \/ KeepAliveLeave(l)
    <2>1. ~Running(l)'
      BY <1>4 DEF TypeOK, KeepAliveNotFound, KeepAliveLeave, Leave, Move, Running
    <2> QED BY <2>1 DEF RoundInv
  <1> QED BY <1>1, <1>2, <1>3, <1>4 DEF KeepAlive

\* A handler computes the lease it was asked for.
LEMMA RoundServe ==
  ASSUME TypeOK, NEW l \in Locks, RoundInv(l), NEW c \in Calls, KeepAliveSemaphoreLease(l, c)
  PROVE  RoundInv(l)'
  <1> DEFINE h == Handler(l, c)
  <1>1. /\ h \in Threads /\ h \in Handlers
        /\ \A d \in Calls \ {c} : Handler(l, d) \in Threads /\ Handler(l, d) # h
    BY ThreadFact
  <1>2. \A d \in Calls \ {c} : update'[Handler(l, d)] = update[Handler(l, d)]
    BY <1>1 DEF TypeOK, KeepAliveSemaphoreLease, HandleGet, HandleNotFound, HandleSwap, HandleError,
                Read, Renewed, Forget
  <1>3. ASSUME NEW n, Renews(h, l, n) PROVE handler'[h] # "get" /\ (handler'[h] = "swap" => n <= update'[h].leases[l])
    <2>1. CASE HandleGet(l, c)
      <3>1. record \in Records /\ asked[h] \in 0..Expiry
        BY <1>1 DEF TypeOK
      <3>2. WithLease(RemoveExpiredLeases(record), l, asked[h]).leases[l] = asked[h]
        BY <3>1, ComputedFact
      <3>3. update'[h] = WithLease(RemoveExpiredLeases(record), l, asked[h]) /\ handler[h] = "get"
        BY <1>1, <2>1 DEF TypeOK, HandleGet, Read, Handle
      <3> QED BY <1>3, <3>2, <3>3, ServeFact DEF Renews
    <2> QED BY <2>1, ServeFact
  <1>4. ASSUME NEW d \in Calls, NEW n, Renews(Handler(l, d), l, n)
        PROVE  /\ handler'[Handler(l, d)] = "get" => n <= asked'[Handler(l, d)]
               /\ handler'[Handler(l, d)] = "swap" => n <= update'[Handler(l, d)].leases[l]
    <2>1. CASE d = c
      BY <1>3, <1>4, <2>1
    <2>2. CASE d # c
      BY <1>2, <1>4, <2>2, ServeFact DEF Renews
    <2> QED BY <2>1, <2>2
  <1>5. pc' = pc /\ lease' = lease /\ next' = next
    BY ServeFact
  <1> QED BY <1>4, <1>5 DEF RoundInv, Renews, Running

\* Time passes for what is asked and for what is known alike.
LEMMA RoundTick ==
  ASSUME TypeOK, NEW l \in Locks, WritesInv(l), RoundInv(l), Tick
  PROVE  RoundInv(l)'
  <1>1. pc' = pc /\ handler' = handler /\ lease'[l] = Less(lease[l]) /\ next'[l] = Less(next[l])
        /\ lease[l] \in 0..Expiry /\ next[l] \in 0..Expiry
    BY DEF TypeOK, Tick
  <1>2. ASSUME NEW c \in Calls, NEW n \in 0..Expiry, Renews(Handler(l, c), l, n)
        PROVE  /\ handler[Handler(l, c)] = "get" => Less(n) <= asked'[Handler(l, c)]
               /\ handler[Handler(l, c)] = "swap" => Less(n) <= update'[Handler(l, c)].leases[l]
    <2> DEFINE h == Handler(l, c)
    <2>1. h \in Threads /\ h \in Handlers
      BY ThreadFact
    <2>2. asked'[h] = Less(asked[h]) /\ asked[h] \in 0..Expiry
      BY <2>1 DEF TypeOK, Tick
    <2>3. ASSUME handler[h] = "swap"
          PROVE  update'[h].leases[l] = Less(update[h].leases[l]) /\ update[h].leases[l] \in 0..Expiry
      <3>1. l \in DOMAIN update[h].leases /\ update[h] \in Records /\ update'[h] = Aged(update[h])
        BY <2>1, <2>3 DEF WritesInv, TypeOK, Tick
      <3> QED BY <3>1, AgedFact, RecordFact
    <2>4. \A m \in 0..Expiry : n <= m => Less(n) <= Less(m)
      BY ExpiryAssumption DEF Less
    <2> QED BY <1>2, <2>2, <2>3, <2>4 DEF Renews
  <1> QED BY <1>1, <1>2 DEF RoundInv, Renews, Running

LEMMA RoundStep ==
  ASSUME TypeOK, ClockInv, \A l \in Locks : WritesInv(l), \A l \in Locks : RoundInv(l), punctual, [Next]_vars
  PROVE  \A l \in Locks : RoundInv(l)'
  <1> SUFFICES ASSUME NEW k \in Locks PROVE RoundInv(k)'
    OBVIOUS
  <1>1. KeepAliveInv(k) /\ TimesInv(k) /\ RoundInv(k) /\ WritesInv(k)
    BY DEF ClockInv
  <1>2. ASSUME NEW l \in Locks, Step(l) PROVE RoundInv(k)'
    <2>1. CASE k # l
      <3>1. /\ pc'[k] = pc[k] /\ lease'[k] = lease[k] /\ next'[k] = next[k]
            /\ \A c \in Calls : /\ handler'[Handler(k, c)] = handler[Handler(k, c)]
                                 /\ asked'[Handler(k, c)] = asked[Handler(k, c)]
        BY <1>2, <2>1, LockOthers
      <3>2. \A c \in Calls : update'[Handler(k, c)] = update[Handler(k, c)]
        BY <1>2, <2>1, NotMine, SeenOthers
      <3> QED BY <1>1, <3>1, <3>2 DEF RoundInv, Renews, Running
    <2>2. CASE k = l /\ AcquireSemaphore(l)
      <3>1. \A c \in Calls : handler'[Handler(l, c)] = "none"
        BY <1>1, <2>2 DEF TypeOK, KeepAliveInv, AcquireSemaphore, Call, AcquireGet, AcquireExceeded, AcquireSwap,
               AcquireCreate, AcquireContended, AcquireFailed, Acquired, NoLease, Move, Contended
      <3> QED BY <2>2, <3>1 DEF RoundInv, Renews
    <2>3. CASE k = l /\ CancelSemaphoreLease(l)
      <3>1. ~Running(l)'
        BY <2>3 DEF TypeOK, CancelSemaphoreLease, CancelGet, CancelSwap, CancelContended, CancelFailed,
                    Move, Running
      <3> QED BY <2>3, <3>1 DEF RoundInv
    <2>4. CASE k = l /\ (CancelContext(l) \/ Stop(l))
      BY <1>1, <2>4 DEF CancelContext, Stop, RoundInv, Renews, Running
    <2> QED BY <1>1, <1>2, <2>1, <2>2, <2>3, <2>4, RoundKeepAlive, RoundServe DEF Step, Serve
  <1>3. CASE DeleteSemaphore \/ UNCHANGED vars
    BY <1>1, <1>3 DEF DeleteSemaphore, vars, RoundInv, Renews, Running
  <1> QED BY <1>1, <1>2, <1>3, RoundTick, NextSteps

\* A write of lock l keeps the leases of the others that have time left.
LEMMA StoreKeeps ==
  ASSUME TypeOK, CoversInv, NEW l \in Locks, WritesInv(l), NEW t \in Threads, Stores(t, l),
         NEW k \in Locks \ {l}, k \in DOMAIN record.leases, record.leases[k] > 0
  PROVE  k \in DOMAIN record'.leases /\ record'.leases[k] = record.leases[k]
  <1>1. record = seen[t] /\ Keeps(t, l)
    <2>1. CASE record.left = 0
      BY <2>1, AbsentFact DEF TypeOK
    <2>2. CASE t = Main(l) /\ pc[l] \in {"swap", "cancelSwap"} /\ record = seen[t]
      BY <2>2 DEF WritesInv
    <2>3. CASE \E c \in Calls : t = Handler(l, c) /\ handler[t] = "swap" /\ record = seen[t]
      BY <2>3 DEF WritesInv
    <2> QED BY <2>1, <2>2, <2>3 DEF Stores
  <1>2. k \in DOMAIN update[t].leases /\ update[t].leases[k] = record.leases[k]
    BY <1>1 DEF Keeps
  <1>3. update[t] \in Records /\ update[t].left \in 0..Expiry /\ record.leases[k] \in 0..Expiry
    BY RecordFact DEF TypeOK
  <1>4. update[t].left > 0
    BY <1>2, <1>3, ExpiryAssumption DEF CoversInv, Covers
  <1>5. record' = update[t]
    BY <1>3, <1>4, ItemFact DEF Stores
  <1> QED BY <1>2, <1>5

\* A write of lock l that is not a cancellation has the lease as the lock or its
\* handler knows it.
LEMMA StoreGrants ==
  ASSUME TypeOK, CoversInv, NEW l \in Locks, WritesInv(l), NEW t \in Threads, Stores(t, l),
         NEW n \in 0..Expiry, n > 0, Grants(t, l, n)
  PROVE  l \in DOMAIN record'.leases /\ record'.leases[l] = n
  <1>1. update[t] \in Records /\ update[t].left \in 0..Expiry
    BY RecordFact DEF TypeOK
  <1>2. update[t].left > 0
    BY <1>1, ExpiryAssumption DEF CoversInv, Covers, Grants
  <1>3. record' = update[t]
    BY <1>1, <1>2, ItemFact DEF Stores
  <1> QED BY <1>3 DEF Grants

\* What is recorded of lock k is not touched by lock l.
LEMMA RecordedOthers ==
  ASSUME TypeOK, CoversInv, NEW l \in Locks, WritesInv(l), Effect(l),
         NEW k \in Locks \ {l}, NEW n \in 0..Expiry, Recorded(k, n)
  PROVE  n > 0 /\ k \notin revoked' => k \in DOMAIN record'.leases /\ n <= record'.leases[k]
  <1>1. CASE record' = record /\ revoked' = revoked
    BY <1>1 DEF Recorded
  <1>2. ASSUME NEW t \in Mine(l), Stores(t, l), n > 0, k \notin revoked'
        PROVE  k \in DOMAIN record'.leases /\ n <= record'.leases[k]
    <2>1. k \in DOMAIN record.leases /\ n <= record.leases[k]
      BY <1>2 DEF Recorded, Stores
    <2>2. record.leases[k] \in 0..Expiry
      BY <2>1, RecordFact DEF TypeOK
    <2>3. record.leases[k] > 0
      BY <1>2, <2>1, <2>2, ExpiryAssumption
    <2>4. t \in Threads
      BY <1>2, ThreadFact DEF Mine
    <2> QED BY <1>2, <2>1, <2>3, <2>4, StoreKeeps
  <1> QED BY <1>1, <1>2 DEF Effect, Drops, Gets

\* Nor is it by lock l itself, in any way that its holder would not know of.
LEMMA RecordedOwn ==
  ASSUME TypeOK, CoversInv, NEW l \in Locks, KeepAliveInv(l), WritesInv(l), RoundInv(l),
         Running(l) => Recorded(l, lease[l]),
         \A c \in Calls : handler[Handler(l, c)] = "ok" => Recorded(l, next[l]),
         Step(l)
  PROVE  /\ Running(l)' => Recorded(l, lease[l])'
         /\ \A c \in Calls : handler'[Handler(l, c)] = "ok" => Recorded(l, next[l])'
  <1>0. Main(l) \in Threads /\ lease[l] \in 0..Expiry /\ next[l] \in 0..Expiry
    BY ThreadFact DEF TypeOK
  <1>1. CASE AcquireSemaphore(l)
    <2>1. \A c \in Calls : handler'[Handler(l, c)] # "ok"
      BY <1>1 DEF TypeOK, KeepAliveInv, AcquireSemaphore, Call, AcquireGet, AcquireExceeded, AcquireSwap,
             AcquireCreate, AcquireContended, AcquireFailed, Acquired, NoLease, Move, Contended
    <2>2. CASE AcquireSwap(l) \/ AcquireCreate(l)
      <3>1. record.left \in 0..Expiry
        BY RecordFact DEF TypeOK
      <3>2. Stores(Main(l), l) /\ pc[l] \in {"swap", "create"} /\ lease' = lease
        BY <2>2, <3>1 DEF AcquireSwap, AcquireCreate, Acquired, Forget, Unchanged, Found, Stores
      <3>3. Grants(Main(l), l, lease[l])
        BY <3>2 DEF WritesInv
      <3>4. lease[l] > 0 => l \in DOMAIN record'.leases /\ record'.leases[l] = lease[l]
        BY <1>0, <3>2, <3>3, StoreGrants
      <3> QED BY <1>0, <2>1, <3>2, <3>4 DEF Recorded
    <2>3. CASE ~(AcquireSwap(l) \/ AcquireCreate(l))
      <3>1. ~Running(l)'
        BY <1>1, <2>3 DEF TypeOK, AcquireSemaphore, Call, AcquireGet, AcquireExceeded,
                          AcquireContended, AcquireFailed, Move, Running
      <3> QED BY <2>1, <3>1
    <2> QED BY <2>2, <2>3
  <1>2. CASE KeepAlive(l)
    <2>1. record' = record /\ revoked' = revoked
      BY <1>2 DEF KeepAlive, KeepAliveTick, KeepAliveNotFound, KeepAliveOK, KeepAliveError,
                  KeepAliveRetry, KeepAliveLeave, Leave
    <2>2. CASE KeepAliveTick(l)
      <3>1. pc[l] = "held" /\ lease'[l] = lease[l] /\ (UNCHANGED rpc \/ \E n : Send(l, n))
        BY <2>2, Zenon DEF KeepAliveTick, Move
      <3>2. \A c \in Calls : handler[Handler(l, c)] # "ok"
        BY <3>1, CallsAssumption DEF KeepAliveInv, NoCall
      <3>3. \A c \in Calls : handler'[Handler(l, c)] # "ok"
        BY <3>1, <3>2, SendFact
      <3> QED BY <2>1, <3>1, <3>3 DEF Recorded, Running
    <2>3. CASE KeepAliveRetry(l)
      <3>1. pc[l] = "backoff" /\ lease'[l] = lease[l] /\ next'[l] = next[l] /\ Send(l, next[l])
        BY <2>3 DEF KeepAliveRetry, Move
      <3>2. \A c \in Calls : handler'[Handler(l, c)] = "ok" => handler[Handler(l, c)] = "ok"
        BY <3>1, SendFact
      <3> QED BY <2>1, <3>1, <3>2 DEF Recorded, Running
    <2>4. CASE KeepAliveNotFound(l) \/ KeepAliveOK(l) \/ KeepAliveError(l)
      <3>1. pc[l] = "renew" /\ call[l] \in Calls /\ (CallFails(l) \/ \E a : Receive(l, a))
        BY <2>4 DEF KeepAliveNotFound, KeepAliveOK, KeepAliveError, Move, KeepAliveInv
      <3>2. \A c \in Calls : handler'[Handler(l, c)] # "ok"
        BY <3>1, EndFact DEF KeepAliveInv
      <3>3. \/ ~Running(l)' \/ lease'[l] = lease[l]
            \/ handler[Handler(l, call[l])] = "ok" /\ lease'[l] = next[l]
        <4>1. CASE KeepAliveOK(l)
          BY <3>1, <4>1, EndFact DEF TypeOK, KeepAliveOK
        <4>2. CASE KeepAliveNotFound(l)
          BY <4>2 DEF TypeOK, KeepAliveNotFound, Move, Running
        <4>3. CASE KeepAliveError(l)
          BY <4>3 DEF KeepAliveError
        <4> QED BY <2>4, <4>1, <4>2, <4>3
      <3> QED BY <2>1, <3>1, <3>2, <3>3 DEF Recorded, Running
    <2>5. CASE KeepAliveLeave(l)
      <3>1. pc[l] \in {"held", "backoff"} /\ UNCHANGED rpc /\ ~Running(l)'
        BY <2>5 DEF TypeOK, KeepAliveLeave, Leave, Move, Running
      <3> QED BY <3>1, CallsAssumption DEF KeepAliveInv, NoCall
    <2> QED BY <1>2, <2>2, <2>3, <2>4, <2>5 DEF KeepAlive
  <1>3. ASSUME NEW c \in Calls, KeepAliveSemaphoreLease(l, c)
        PROVE  /\ Running(l)' => Recorded(l, lease[l])'
               /\ \A d \in Calls : handler'[Handler(l, d)] = "ok" => Recorded(l, next[l])'
    <2> DEFINE h == Handler(l, c)
    <2>0. h \in Threads
      BY ThreadFact
    <2>1. /\ pc' = pc /\ lease' = lease /\ next' = next /\ Running(l)' = Running(l)
          /\ \A d \in Calls : handler'[Handler(l, d)] = "ok" => call[l] = d
      BY <1>3, ServeFact DEF Running, KeepAliveInv
    <2>2. CASE Stores(h, l)
      <3> DEFINE n == update[h].leases[l]
      <3>1. handler[h] = "swap" /\ l \in DOMAIN update[h].leases /\ revoked' = revoked
        BY <2>2, ThreadFact DEF Stores, WritesInv
      <3>2. n \in 0..Expiry
        BY <2>0, <3>1, RecordFact DEF TypeOK
      <3>3. n > 0 => l \in DOMAIN record'.leases /\ record'.leases[l] = n
        BY <2>0, <2>2, <3>1, <3>2, StoreGrants DEF Grants
      <3>4. /\ Running(l) => lease[l] <= n
            /\ Running(l) /\ pc[l] # "held" => next[l] <= n
        BY <3>1 DEF RoundInv, Renews
      <3>5. ASSUME NEW d \in Calls, handler'[Handler(l, d)] = "ok" PROVE Running(l) /\ pc[l] # "held"
        BY <2>1, <3>5, CallsAssumption DEF KeepAliveInv, Running, NoCall
      <3> HIDE DEF n
      <3>6. ASSUME NEW m \in 0..Expiry, m <= n, m > 0 PROVE l \in DOMAIN record'.leases /\ m <= record'.leases[l]
        BY <3>2, <3>3, <3>6, ExpiryAssumption
      <3> QED BY <1>0, <2>1, <3>1, <3>4, <3>5, <3>6 DEF Recorded
    <2>3. CASE ~Stores(h, l)
      <3>1. record' = record /\ revoked' = revoked
        BY <1>3, <2>3 DEF KeepAliveSemaphoreLease, HandleGet, HandleNotFound, HandleSwap, HandleError,
                          Answered, Handle, Renewed, Unchanged, Stores
      <3>2. ~HandleSwap(l, c)
        BY <2>3 DEF HandleSwap, Answered, Handle, Renewed, Unchanged, Stores
      <3>3. \A d \in Calls : handler'[Handler(l, d)] = "ok" => handler[Handler(l, d)] = "ok"
        BY <1>3, <3>2, ServeFact
      <3> QED BY <2>1, <3>1, <3>3 DEF Recorded
    <2> QED BY <2>2, <2>3
  <1>4. CASE CancelSemaphoreLease(l)
    <2>1. ~Running(l)' /\ handler' = handler /\ pc[l] # "renew"
      BY <1>4 DEF TypeOK, CancelSemaphoreLease, CancelGet, CancelSwap, CancelContended, CancelFailed,
                  NoLease, Move, Running
    <2> QED BY <2>1, CallsAssumption DEF KeepAliveInv, NoCall
  <1>5. CASE CancelContext(l) \/ Stop(l)
    BY <1>5 DEF CancelContext, Stop, Running, Recorded
  <1> QED BY <1>1, <1>2, <1>3, <1>4, <1>5 DEF Step, Serve

\* A lease that runs out with its record ran out before it.
LEMMA RecordedTick ==
  ASSUME TypeOK, CoversInv, Tick, NEW l \in Locks, NEW n \in 0..Expiry, Recorded(l, n)
  PROVE  Less(n) > 0 /\ l \notin revoked' => l \in DOMAIN record'.leases /\ Less(n) <= record'.leases[l]
  <1> SUFFICES ASSUME Less(n) > 0, l \notin revoked'
               PROVE  l \in DOMAIN record'.leases /\ Less(n) <= record'.leases[l]
    OBVIOUS
  <1>1. n > 0 /\ Less(n) = n - 1 /\ revoked' = revoked
    BY LessFact, ExpiryAssumption DEF Tick
  <1>2. l \in DOMAIN record.leases /\ n <= record.leases[l]
    BY <1>1 DEF Recorded
  <1>3. record \in Records /\ record.leases[l] \in 0..Expiry /\ record.left \in 0..Expiry
    BY <1>2, RecordFact DEF TypeOK
  <1>4. record.leases[l] <= record.left
    BY <1>2 DEF CoversInv, Covers
  <1>5. /\ Aged(record).left = Less(record.left) /\ Aged(record) \in Records
        /\ l \in DOMAIN Aged(record).leases /\ Aged(record).leases[l] = Less(record.leases[l])
    BY <1>2, <1>3, AgedFact
  <1>6. Less(record.left) > 0 /\ Less(n) <= Less(record.leases[l])
    BY <1>1, <1>2, <1>3, <1>4, ExpiryAssumption DEF Less
  <1>7. record' = Aged(record)
    BY <1>5, <1>6, ItemFact DEF Tick
  <1> QED BY <1>5, <1>6, <1>7

LEMMA RecordedStep ==
  ASSUME TypeOK, CoversInv, ClockInv, \A l \in Locks : WritesInv(l) /\ RoundInv(l), RecordedInv, [Next]_vars
  PROVE  RecordedInv'
  <1> SUFFICES ASSUME NEW k \in Locks
               PROVE  /\ Running(k)' => Recorded(k, lease[k])'
                      /\ \A c \in Calls : handler'[Handler(k, c)] = "ok" => Recorded(k, next[k])'
    BY DEF RecordedInv
  <1>1. /\ KeepAliveInv(k) /\ WritesInv(k) /\ RoundInv(k)
        /\ Running(k) => Recorded(k, lease[k])
        /\ \A c \in Calls : handler[Handler(k, c)] = "ok" => Recorded(k, next[k])
        /\ lease[k] \in 0..Expiry /\ next[k] \in 0..Expiry
    BY DEF ClockInv, RecordedInv, TypeOK
  <1>2. ASSUME NEW l \in Locks, Step(l)
        PROVE  /\ Running(k)' => Recorded(k, lease[k])'
               /\ \A c \in Calls : handler'[Handler(k, c)] = "ok" => Recorded(k, next[k])'
    <2>1. CASE k = l
      BY <1>1, <1>2, <2>1, RecordedOwn
    <2>2. CASE k # l
      <3>1. /\ pc'[k] = pc[k] /\ lease'[k] = lease[k] /\ next'[k] = next[k]
            /\ \A c \in Calls : handler'[Handler(k, c)] = handler[Handler(k, c)]
        BY <1>2, <2>2, LockOthers
      <3>2. Effect(l) /\ WritesInv(l)
        BY <1>2, EveryEffect
      <3>3. ASSUME NEW n \in 0..Expiry, Recorded(k, n)
            PROVE  n > 0 /\ k \notin revoked' => k \in DOMAIN record'.leases /\ n <= record'.leases[k]
        BY <2>2, <3>2, <3>3, RecordedOthers
      <3> QED BY <1>1, <3>1, <3>3 DEF Running, Recorded
    <2> QED BY <2>1, <2>2
  <1>3. CASE Tick
    <2>1. pc' = pc /\ handler' = handler /\ lease'[k] = Less(lease[k]) /\ next'[k] = Less(next[k])
      BY <1>3 DEF Tick
    <2>2. ASSUME NEW n \in 0..Expiry, Recorded(k, n)
          PROVE  Less(n) > 0 /\ k \notin revoked' => k \in DOMAIN record'.leases /\ Less(n) <= record'.leases[k]
      BY <1>3, <2>2, RecordedTick
    <2> QED BY <1>1, <2>1, <2>2 DEF Running, Recorded
  <1>4. CASE DeleteSemaphore
    <2>1. revoked = {} /\ revoked' = DOMAIN record.leases /\ UNCHANGED <<pc, lease, handler, next>>
      BY <1>4 DEF DeleteSemaphore
    <2> QED BY <1>1, <2>1 DEF Running, Recorded
  <1>5. CASE UNCHANGED vars
    BY <1>1, <1>5 DEF vars, Running, Recorded
  <1> QED BY <1>2, <1>3, <1>4, <1>5, NextSteps

-----------------------------------------------------------------------------
(* Places *)

\* Fewer leases need no more places.
LEMMA PlacedSubset ==
  ASSUME TypeOK, NEW r, Placed(r), NEW q, DOMAIN q.leases \subseteq DOMAIN r.leases
  PROVE  Placed(q)
  <1>1. IsFiniteSet(DOMAIN q.leases) /\ Cardinality(DOMAIN q.leases) <= Cardinality(DOMAIN r.leases)
    BY FS_Subset DEF Placed
  <1>2. /\ Cardinality(DOMAIN q.leases) \in Nat /\ Cardinality(DOMAIN r.leases) \in Nat
        /\ maxLeases \in Nat /\ Cardinality(DOMAIN r.leases) <= maxLeases
    BY <1>1, FS_CardinalityType, LeaseAssumption DEF TypeOK, Placed
  <1> QED BY <1>1, <1>2 DEF Placed

LEMMA PlacedAbsent ==
  ASSUME TypeOK
  PROVE  Placed(Absent)
  BY AbsentFact, FS_EmptySet, LeaseAssumption DEF TypeOK, Placed

\* AcquireSemaphore adds a lease only where there is a place.
LEMMA PlacedAcquire ==
  ASSUME TypeOK, PlacesInv, NEW l \in Locks, AcquireGet(l)
  PROVE  Placed(WithLease(RemoveExpiredLeases(record), l, lease[l]))
  <1> DEFINE q == RemoveExpiredLeases(record)
  <1>1. /\ record \in Records /\ lease[l] \in 0..Expiry /\ maxLeases \in Nat /\ maxLeases > 0
        /\ record.left = 0 => record = Absent
        /\ record.left \in 0..Expiry
    <2>1. /\ record \in Records /\ lease[l] \in 0..Expiry /\ maxLeases \in Limits
          /\ record.left = 0 => record = Absent
      BY DEF TypeOK
    <2>2. maxLeases \in Nat /\ maxLeases > 0
      BY <2>1, LeaseAssumption
    <2>3. record.left \in 0..Expiry
      BY <2>1, RecordFact
    <2> QED BY <2>1, <2>2, <2>3
  <1>2. q \in Records /\ DOMAIN q.leases = Live(record) /\ Live(record) \subseteq DOMAIN record.leases
    BY <1>1, RemoveExpiredFact DEF Live
  <1>3. DOMAIN WithLease(q, l, lease[l]).leases = DOMAIN q.leases \cup {l}
    BY <1>1, <1>2, WithLeaseFact
  <1>4. IsFiniteSet(DOMAIN q.leases)
    BY <1>2, FS_Subset DEF PlacesInv, Placed
  <1>5. Cardinality(DOMAIN q.leases) < maxLeases
    <2>1. CASE HasRoom(q)
      BY <2>1 DEF HasRoom
    <2>2. CASE ~Found
      <3>1. record = Absent
        BY <1>1, <2>2 DEF Found
      <3>2. DOMAIN q.leases = {}
        BY <1>2, <3>1, AbsentFact
      <3>3. Cardinality(DOMAIN q.leases) = 0
        BY <3>2, FS_EmptySet, Zenon
      <3> QED BY <1>1, <3>3
    <2> QED BY <2>1, <2>2 DEF AcquireGet
  <1> HIDE DEF q
  <1>6. /\ IsFiniteSet(DOMAIN q.leases \cup {l})
        /\ Cardinality(DOMAIN q.leases \cup {l}) =
             IF l \in DOMAIN q.leases THEN Cardinality(DOMAIN q.leases) ELSE Cardinality(DOMAIN q.leases) + 1
    BY <1>4, FS_AddElement
  <1>7. Cardinality(DOMAIN q.leases) \in Nat
    BY <1>4, FS_CardinalityType
  <1>8. Cardinality(DOMAIN q.leases \cup {l}) <= maxLeases
    BY <1>1, <1>5, <1>6, <1>7
  <1> QED BY <1>3, <1>6, <1>8 DEF Placed, q

\* A renewal finds the lease in the record and needs no other place.
LEMMA PlacedRenew ==
  ASSUME TypeOK, PlacesInv, NEW l \in Locks, NEW c \in Calls, HandleGet(l, c)
  PROVE  Placed(WithLease(RemoveExpiredLeases(record), l, asked[Handler(l, c)]))
  <1> DEFINE q == RemoveExpiredLeases(record)
  <1>1. record \in Records /\ asked[Handler(l, c)] \in 0..Expiry /\ l \in DOMAIN q.leases
    BY ThreadFact DEF TypeOK, HandleGet
  <1>2. q \in Records /\ DOMAIN q.leases = Live(record) /\ Live(record) \subseteq DOMAIN record.leases
    BY <1>1, RemoveExpiredFact DEF Live
  <1>3. DOMAIN WithLease(q, l, asked[Handler(l, c)]).leases = DOMAIN q.leases \cup {l}
    BY <1>1, <1>2, WithLeaseFact
  <1>4. DOMAIN WithLease(q, l, asked[Handler(l, c)]).leases \subseteq DOMAIN record.leases
    BY <1>1, <1>2, <1>3
  <1> QED BY <1>4, PlacedSubset DEF PlacesInv

LEMMA PlacesStep ==
  ASSUME TypeOK, PlacesInv, [Next]_vars
  PROVE  PlacesInv'
  <1>1. record \in Records /\ update \in [Threads -> Records] /\ Placed(Absent)
    BY PlacedAbsent DEF TypeOK
  <1>2. maxLeases' = maxLeases
    BY GivenStep
  <1>3. ASSUME NEW t \in Threads, NEW new, Placed(new), Gets(t, new) PROVE PlacesInv'
    <2>1. \A s \in Threads : Placed(update'[s])
      BY <1>1, <1>3 DEF Gets, PlacesInv
    <2> QED BY <1>2, <1>3, <2>1 DEF PlacesInv, Placed, Gets
  <1>4. ASSUME NEW l \in Locks, Step(l)
        PROVE  PlacesInv'
    <2>1. Main(l) \in Threads /\ Mine(l) \subseteq Threads /\ \A c \in Calls : Handler(l, c) \in Threads
      BY ThreadFact DEF Mine
    <2>2. CASE AcquireGet(l)
      BY <1>3, <2>1, <2>2, PlacedAcquire DEF AcquireGet, Read, Gets
    <2>3. ASSUME NEW c \in Calls, HandleGet(l, c) PROVE PlacesInv'
      BY <1>3, <2>1, <2>3, PlacedRenew DEF HandleGet, Read, Gets
    <2>4. CASE CancelGet(l)
      <3>1. DOMAIN Cancel(record, l).leases \subseteq DOMAIN record.leases
        BY <1>1, CancelFact
      <3>2. Placed(Cancel(record, l))
        BY <3>1, PlacedSubset DEF PlacesInv
      <3> QED BY <1>3, <2>1, <2>4, <3>2 DEF CancelGet, Read, Gets
    <2>5. CASE UNCHANGED <<record, update>>
      BY <1>2, <2>5 DEF PlacesInv, Placed
    <2>6. ASSUME NEW t \in Threads, Stores(t, l) \/ Drops(t) PROVE PlacesInv'
      <3>1. Placed(Item(update[t]))
        BY <1>1 DEF PlacesInv, Item
      <3>2. Placed(record')
        BY <2>6, <3>1 DEF Stores, Drops, PlacesInv
      <3>3. update' = [update EXCEPT ![t] = Absent]
        BY <2>6 DEF Stores, Drops
      <3>4. \A s \in Threads : Placed(update'[s])
        BY <1>1, <3>3 DEF PlacesInv
      <3> QED BY <1>2, <3>2, <3>4 DEF PlacesInv, Placed
    <2>7. \/ AcquireGet(l) \/ (\E c \in Calls : HandleGet(l, c)) \/ CancelGet(l)
          \/ UNCHANGED <<record, update>>
          \/ \E t \in Mine(l) : Stores(t, l) \/ Drops(t)
      BY <1>4, EveryEffect DEF Effect
    <2> QED BY <2>1, <2>2, <2>3, <2>4, <2>5, <2>6, <2>7
  <1>5. CASE Tick
    <2>1. \A r \in Records : DOMAIN Aged(r).leases = DOMAIN r.leases /\ Aged(r) \in Records
      BY AgedFact
    <2>2. Placed(Item(Aged(record)))
      BY <1>1, <2>1, PlacedSubset DEF PlacesInv, Item
    <2>3. \A t \in Threads : Placed(Aged(update[t]))
      BY <1>1, <2>1, PlacedSubset DEF PlacesInv
    <2> QED BY <1>2, <1>5, <2>2, <2>3 DEF PlacesInv, Placed, Tick
  <1>6. CASE DeleteSemaphore
    BY <1>1, <1>2, <1>6 DEF DeleteSemaphore, PlacesInv, Placed
  <1>7. CASE UNCHANGED vars
    BY <1>2, <1>7 DEF vars, PlacesInv, Placed
  <1> QED BY <1>4, <1>5, <1>6, <1>7, NextSteps

-----------------------------------------------------------------------------
(* Which leases a step may add to the record and drop from it *)

\* What a thread is about to write expires no earlier than what it has read.
LastsInv == \A t \in Threads : seen[t].left <= update[t].left

LEMMA LastsStep ==
  ASSUME TypeOK, LastsInv, [Next]_vars
  PROVE  LastsInv'
  <1>1. /\ record \in Records /\ update \in [Threads -> Records] /\ seen \in [Threads -> Records]
        /\ \A t \in Threads : update[t].left \in 0..Expiry /\ seen[t].left \in 0..Expiry
        /\ record.left \in 0..Expiry
    BY RecordFact DEF TypeOK
  <1>2. ASSUME NEW l \in Locks, Effect(l) PROVE LastsInv'
    <2>1. /\ Main(l) \in Threads /\ Mine(l) \subseteq Threads /\ lease[l] \in 0..Expiry
          /\ \A c \in Calls : Handler(l, c) \in Threads /\ asked[Handler(l, c)] \in 0..Expiry
      BY ThreadFact DEF TypeOK, Mine
    <2>2. CASE UNCHANGED <<record, revoked, seen, update>>
      BY <2>2 DEF LastsInv
    <2>3. ASSUME NEW t \in Threads, Stores(t, l) \/ Drops(t) PROVE LastsInv'
      <3>1. seen' = [seen EXCEPT ![t] = Absent] /\ update' = [update EXCEPT ![t] = Absent]
        BY <2>3 DEF Stores, Drops
      <3> QED BY <1>1, <3>1, AbsentFact DEF LastsInv
    <2>4. ASSUME NEW t \in Threads, NEW new, record.left <= new.left, Gets(t, new) PROVE LastsInv'
      BY <1>1, <2>4 DEF LastsInv, Gets
    <2>5. ASSUME NEW n \in 0..Expiry
          PROVE  record.left <= WithLease(RemoveExpiredLeases(record), l, n).left
      BY <1>1, RemoveExpiredFact, WithLeaseFact DEF Later
    <2>6. record.left <= Cancel(record, l).left
      BY <1>1, CancelFact
    <2> QED BY <1>2, <2>1, <2>2, <2>3, <2>4, <2>5, <2>6 DEF Effect
  <1>3. CASE Tick
    <2>1. \A t \in Threads : Aged(seen[t]).left <= Aged(update[t]).left
      BY <1>1, AgedFact, LessFact DEF LastsInv
    <2> QED BY <1>3, <2>1 DEF Tick, LastsInv
  <1>4. CASE DeleteSemaphore \/ UNCHANGED vars
    BY <1>4 DEF DeleteSemaphore, vars, LastsInv
  <1> QED BY <1>2, <1>3, <1>4, EveryEffect, NextSteps

\* A write of lock l adds no lease but its own, and that only when it acquires.
LEMMA StoreAdds ==
  ASSUME TypeOK, NEW l \in Locks, WritesInv(l), NEW t \in Threads, Stores(t, l),
         NEW k \in Locks, k \in DOMAIN record'.leases, k \notin DOMAIN record.leases
  PROVE  k = l /\ pc[l] \in {"swap", "create"}
  <1>1. k \in DOMAIN update[t].leases
    BY AbsentFact DEF Stores, Item
  <1>2. CASE t = Main(l) /\ pc[l] = "create"
    BY <1>1, <1>2 DEF WritesInv
  <1>3. CASE t = Main(l) /\ pc[l] \in {"swap", "cancelSwap"} /\ record = seen[t]
    BY <1>1, <1>3 DEF WritesInv
  <1>4. CASE \E c \in Calls : t = Handler(l, c) /\ handler[t] = "swap" /\ record = seen[t]
    BY <1>1, <1>4 DEF WritesInv
  <1> QED BY <1>2, <1>3, <1>4 DEF Stores

\* A write of lock l that is not a cancellation keeps its own lease too.
LEMMA StoreOwn ==
  ASSUME TypeOK, CoversInv, LastsInv, NEW l \in Locks, WritesInv(l), NEW t \in Threads, Stores(t, l),
         l \in DOMAIN record.leases, record.leases[l] > 0, pc[l] # "cancelSwap"
  PROVE  l \in DOMAIN record'.leases
  <1>1. record.left \in 0..Expiry /\ update[t] \in Records /\ update[t].left \in 0..Expiry
        /\ record.leases[l] \in 0..Expiry
    BY RecordFact DEF TypeOK
  <1>2. record.left > 0
    BY <1>1, ExpiryAssumption DEF CoversInv, Covers
  <1>3. record = seen[t] /\ l \in DOMAIN update[t].leases
    <2>1. CASE t = Main(l) /\ pc[l] = "swap" /\ record = seen[t]
      BY <2>1 DEF WritesInv, Grants
    <2>2. CASE \E c \in Calls : t = Handler(l, c) /\ handler[t] = "swap" /\ record = seen[t]
      BY <2>2 DEF WritesInv
    <2> QED BY <1>1, <1>2, <2>1, <2>2 DEF Stores
  <1>4. update[t].left > 0
    BY <1>1, <1>2, <1>3 DEF LastsInv
  <1>5. record' = update[t]
    BY <1>1, <1>4, ItemFact DEF Stores
  <1> QED BY <1>3, <1>5

-----------------------------------------------------------------------------
(* The theorems *)

\* The inductive invariant holds in every state.
THEOREM SemaphoreLeaseInvariant == Spec => []LeaseInv
  <1>1. Init => LeaseInv
    <2> SUFFICES ASSUME Init PROVE LeaseInv
      OBVIOUS
    <2>1. Covers(Absent) /\ Covers([left |-> Expiry, leases |-> Empty])
      BY AbsentFact DEF Covers, Empty
    <2>2. CoversInv
      BY <2>1 DEF Init, CoversInv
    <2>3. \A l \in Locks, c \in Calls : handler[Handler(l, c)] = "none"
      BY ThreadFact DEF Init
    <2> QED BY <2>2, <2>3 DEF Init, CoversInv, LeaseInv, KeepAliveInv, TimesInv, WritesInv, RoundInv, Running
  <1>2. LeaseInv <=> /\ CoversInv /\ ClockInv /\ (\A l \in Locks : WritesInv(l))
                     /\ punctual => RecordedInv /\ \A l \in Locks : RoundInv(l)
    BY DEF LeaseInv, CoversInv, ClockInv, RecordedInv
  <1>3. TypeOK /\ LeaseInv /\ [Next]_vars => LeaseInv'
    <2> SUFFICES ASSUME TypeOK, LeaseInv, [Next]_vars PROVE LeaseInv'
      OBVIOUS
    <2>1. CoversInv' /\ ClockInv' /\ punctual' = punctual
      BY <1>2, CoversStep, ClockStep, GivenStep
    <2>2. \A l \in Locks : WritesInv(l)'
      BY <1>2, WritesStep
    <2>3. ASSUME punctual PROVE RecordedInv' /\ \A l \in Locks : RoundInv(l)'
      BY <1>2, <2>3, RecordedStep, RoundStep
    <2> QED BY <2>1, <2>2, <2>3 DEF LeaseInv, CoversInv, ClockInv, RecordedInv
  <1> QED BY <1>1, <1>3, SemaphoreTypeCorrect, PTL DEF Spec

\* keepAlive, when the handlers of a round end before the next one begins:
\* however often the renewal of a round fails and is sent again, and whichever
\* of its calls take effect, the holder never believes in a lease for longer
\* than the record has it.
THEOREM SemaphoreHolderKnowsExpiry == Spec => []HolderKnowsExpiry
  <1>1. LeaseInv => HolderKnowsExpiry
    BY DEF LeaseInv, HolderKnowsExpiry, Holds, Recorded
  <1> QED BY <1>1, SemaphoreLeaseInvariant, PTL

\* AcquireSemaphore: the record never has more leases than MaxLeases, expired
\* ones included, and no thread is about to write more.
THEOREM SemaphorePlaces == Spec => []PlacesInv
  <1>1. Init => PlacesInv
    <2> SUFFICES ASSUME Init PROVE PlacesInv
      OBVIOUS
    <2>1. Placed(Absent) /\ TypeOK
      BY InitTypes, PlacedAbsent
    <2>2. DOMAIN [left |-> Expiry, leases |-> Empty].leases = {}
      BY DEF Empty
    <2>3. Placed([left |-> Expiry, leases |-> Empty])
      BY <2>1, <2>2, PlacedSubset
    <2> QED BY <2>1, <2>3 DEF Init, PlacesInv
  <1>2. TypeOK /\ PlacesInv /\ [Next]_vars => PlacesInv'
    BY PlacesStep
  <1> QED BY <1>1, <1>2, SemaphoreTypeCorrect, PTL DEF Spec

\* AcquireSemaphore, KeepAliveSemaphoreLease and CancelSemaphoreLease together:
\* there are never more holders with time left than MaxLeases, when the handlers
\* of a keepalive round end before the next one begins.
THEOREM SemaphoreHoldersBounded == Spec => []HoldersBounded
  <1>1. TypeOK /\ HolderKnowsExpiry /\ PlacesInv => HoldersBounded
    <2> SUFFICES ASSUME TypeOK, HolderKnowsExpiry, PlacesInv, punctual PROVE HoldersBounded
      BY DEF HoldersBounded
    <2> DEFINE holders == {l \in Locks : Holds(l) /\ lease[l] > 0 /\ l \notin revoked}
    <2>1. holders \subseteq DOMAIN record.leases
      BY DEF HolderKnowsExpiry
    <2> HIDE DEF holders
    <2>2. IsFiniteSet(holders) /\ Cardinality(holders) <= Cardinality(DOMAIN record.leases)
      BY <2>1, FS_Subset DEF PlacesInv, Placed
    <2>3. /\ Cardinality(holders) \in Nat /\ Cardinality(DOMAIN record.leases) \in Nat
          /\ maxLeases \in Nat /\ Cardinality(DOMAIN record.leases) <= maxLeases
      BY <2>2, FS_CardinalityType, LeaseAssumption DEF TypeOK, PlacesInv, Placed
    <2>4. Cardinality(holders) <= maxLeases
      BY <2>2, <2>3
    <2> QED BY <2>4 DEF HoldersBounded, holders
  <1> QED BY <1>1, SemaphoreTypeCorrect, SemaphoreHolderKnowsExpiry, SemaphorePlaces, PTL

\* SemaphoreV3 and its callers: nobody's unexpired lease is lost to a request of
\* another lock, to a renewal or to the expiry of the record, and no request
\* brings back a lease that is gone.
THEOREM SemaphoreOnlyOwnLease == Spec => OnlyOwnLease
  <1> DEFINE Only ==
        \A l \in Locks :
          /\ l \in Live(record) /\ record.leases[l] > 1 /\ l \notin DOMAIN record'.leases
               => pc[l] = "cancelSwap" \/ revoked' # revoked
          /\ l \in DOMAIN record'.leases /\ l \notin DOMAIN record.leases
               => pc[l] \in {"swap", "create"}
  <1>1. Init => LastsInv
    BY AbsentFact DEF Init, LastsInv
  <1>2. TypeOK /\ LastsInv /\ [Next]_vars => LastsInv'
    BY LastsStep
  <1>3. TypeOK /\ LeaseInv /\ LastsInv /\ Next => Only
    <2> SUFFICES ASSUME TypeOK, LeaseInv, LastsInv, Next, NEW k \in Locks
                 PROVE  /\ k \in Live(record) /\ record.leases[k] > 1 /\ k \notin DOMAIN record'.leases
                             => pc[k] = "cancelSwap" \/ revoked' # revoked
                        /\ k \in DOMAIN record'.leases /\ k \notin DOMAIN record.leases
                             => pc[k] \in {"swap", "create"}
      OBVIOUS
    <2>1. CoversInv /\ \A l \in Locks : WritesInv(l)
      BY DEF LeaseInv, CoversInv
    <2>2. /\ record \in Records /\ record.left \in 0..Expiry
          /\ \A l \in DOMAIN record.leases : record.leases[l] \in 0..Expiry
      BY RecordFact DEF TypeOK
    <2>3. ASSUME NEW l \in Locks, Effect(l)
          PROVE  /\ k \in Live(record) /\ record.leases[k] > 1 /\ k \notin DOMAIN record'.leases
                      => pc[k] = "cancelSwap"
                 /\ k \in DOMAIN record'.leases /\ k \notin DOMAIN record.leases
                      => pc[k] \in {"swap", "create"}
      <3>1. CASE record' = record
        BY <3>1 DEF Live
      <3>2. ASSUME NEW t \in Threads, Stores(t, l), k \in DOMAIN record.leases, record.leases[k] > 0,
                   pc[k] # "cancelSwap"
            PROVE  k \in DOMAIN record'.leases
        BY <2>1, <3>2, StoreKeeps, StoreOwn
      <3>3. ASSUME NEW t \in Threads, Stores(t, l), k \in DOMAIN record'.leases,
                   k \notin DOMAIN record.leases
            PROVE  pc[k] \in {"swap", "create"}
        BY <2>1, <3>3, StoreAdds
      <3>4. Mine(l) \subseteq Threads
        BY ThreadFact DEF Mine
      <3>5. record' = record \/ \E t \in Mine(l) : Stores(t, l)
        BY <2>3 DEF Effect, Drops, Gets
      <3> QED BY <3>1, <3>2, <3>3, <3>4, <3>5 DEF Live
    <2>4. CASE Tick
      <3>1. DOMAIN Aged(record).leases = DOMAIN record.leases /\ Aged(record) \in Records
            /\ Aged(record).left = Less(record.left)
        BY <2>2, AgedFact
      <3>2. DOMAIN record'.leases \subseteq DOMAIN record.leases
        BY <2>4, <3>1, AbsentFact DEF Tick, Item
      <3>3. ASSUME k \in DOMAIN record.leases, record.leases[k] > 1
            PROVE  k \in DOMAIN record'.leases
        <4>1. record.left > 1
          BY <2>1, <2>2, <3>3, ExpiryAssumption DEF CoversInv, Covers
        <4>2. Less(record.left) > 0
          BY <2>2, <4>1, LessFact
        <4>3. record' = Aged(record)
          BY <2>4, <3>1, <4>2, ItemFact DEF Tick
        <4> QED BY <3>1, <3>3, <4>3
      <3> QED BY <3>2, <3>3 DEF Live
    <2>5. CASE DeleteSemaphore
      BY <2>5, AbsentFact DEF DeleteSemaphore, Live
    <2> QED BY <2>3, <2>4, <2>5, EveryEffect, NextSteps
  <1>4. TypeOK /\ LeaseInv /\ LastsInv /\ [Next]_vars => [Only]_vars
    BY <1>3
  <1> QED BY <1>1, <1>2, <1>4, SemaphoreTypeCorrect, SemaphoreLeaseInvariant, PTL DEF Spec, OnlyOwnLease

=============================================================================
