-------------------------- MODULE CARotationProofs --------------------------
(***************************************************************************)
(* Proofs about CARotation for any number of servers, authority types and  *)
(* keys, any schedule, and any bound on the rotations.                     *)
(***************************************************************************)
EXTENDS CARotation, TLAPS

LEMMA CAType ==
  ASSUME NEW a \in SUBSET Keys, NEW d \in SUBSET Keys, NEW p \in Phases, NEW m \in Modes, NEW i \in Nat
  PROVE  CA(a, d, p, m, i) \in CertAuthorities
  BY DEF CA, CertAuthorities

\* The functions of rotate.go turn an authority into an authority.
LEMMA ProcessType ==
  ASSUME NEW c \in CertAuthorities, NEW target \in Phases, NEW mode \in Modes,
         NEW new \in SUBSET Keys, NEW forced \in BOOLEAN
  PROVE  processRotationRequest(c, target, mode, new, forced) \in CertAuthorities
  <1>1. /\ c.active \in SUBSET Keys /\ c.additional \in SUBSET Keys /\ {} \in SUBSET Keys
        /\ c.id \in Nat /\ c.id + 1 \in Nat
    BY DEF CertAuthorities
  <1>2. /\ {"standby", "init", "update_clients", "update_servers", "rollback"} \subseteq Phases
        /\ {"", "manual"} \subseteq Modes
    BY DEF Phases, Modes
  <1>3. QED
    BY <1>1, <1>2, CAType DEF processRotationRequest, startNewRotation, updateClients, updateServers,
         startRollingBackRotation, completeRotation

LEMMA NewType == ASSUME NEW keys \in SUBSET Keys PROVE NewCertAuthority(keys) \in CertAuthorities
  BY CAType DEF NewCertAuthority, Phases, Modes

LEMMA NeverFact == /\ Never \in Nat
                   /\ UpdateClientsAt <= Never /\ UpdateServersAt <= Never /\ StandbyAt <= Never
  BY ScheduleAssumption DEF Never

LEMMA NoRequestType == NoRequest \in Requests /\ NoRequest.snap \in [Types -> CertAuthorities]
  BY NewType DEF NoRequest, Request, Requests, Asks, NoCA, Phases, Modes

LEMMA LoopType ==
  ASSUME NEW pc \in LoopStates, NEW todo \in SUBSET Types, NEW c \in CertAuthorities,
         NEW k \in Keys \cup {NoKey}
  PROVE  Loop(pc, todo, c, k) \in Loops
  BY DEF Loop, Loops

LEMMA AtType ==
  ASSUME NEW pc \in LoopStates, NEW todo \in SUBSET Types
  PROVE  At(pc, todo) \in Loops
  BY LoopType, NewType DEF At, NoCA

\* A write of a well-typed authority.
LEMMA WriteType ==
  ASSUME TypeOK, NEW t \in Types, NEW new \in CertAuthorities, Write(t, new)
  PROVE  /\ ca' \in [Types -> CertAuthorities]
         /\ elapsed' \in [Types -> 0..Never]
         /\ origin' \in [Types -> SUBSET Keys]
  BY NeverFact DEF TypeOK, Write, CertAuthorities

LEMMA NewKeySetType ==
  ASSUME TypeOK, NEW s \in Servers, NEW k \in Keys, newKeySet(s, k)
  PROVE  generated' \in SUBSET Keys /\ stored' \in SUBSET generated'
  BY DEF TypeOK, newKeySet

LEMMA AtPc == ASSUME NEW pc, NEW todo PROVE At(pc, todo).pc = pc
  BY DEF At, Loop

LEMMA DoneType ==
  ASSUME TypeOK, NEW s \in Servers, NEW t \in Types
  PROVE  Done(s, t) \in Loops /\ Done(s, t).pc \in {"collect", "idle", "read"}
  BY AtType, AtPc DEF TypeOK, Done, Loops, LoopStates

\* What it takes to keep the loops well typed.
LEMMA LoopStep ==
  ASSUME TypeOK, NEW s \in Servers, NEW l \in Loops, l.pc \in {"add", "reget"} => l.key # NoKey,
         loop' = [loop EXCEPT ![s] = l]
  PROVE  /\ loop' \in [Servers -> Loops]
         /\ \A u \in Servers : loop'[u].pc \in {"add", "reget"} => loop'[u].key # NoKey
  BY DEF TypeOK

LEMMA RequestType ==
  ASSUME NEW types \in SUBSET Types, NEW unread \in SUBSET Types, NEW ordered \in BOOLEAN,
         NEW snap \in [Types -> CertAuthorities], NEW ask \in Asks
  PROVE  Request(types, unread, ordered, snap, ask) \in Requests
  BY DEF Request, Requests

LEMMA ReadOneType ==
  ASSUME TypeOK, NEW t \in Types, NEW r \in Requests
  PROVE  ReadOne(t, r) \in Requests
  <1> DEFINE snap == [r.snap EXCEPT ![t] = ca[t]]
             types == findDuplicatedCertificates(r.types, snap)
  <1>1. snap \in [Types -> CertAuthorities] /\ r.ask \in Asks
    BY DEF TypeOK, Requests
  <1>2. types \in SUBSET Types /\ r.types \in SUBSET Types /\ r.unread \ {t} \in SUBSET Types
    BY DEF findDuplicatedCertificates, Requests
  <1> HIDE DEF snap, types
  <1>3. /\ Request(types, {}, types = r.types, snap, r.ask) \in Requests
        /\ Request(r.types, r.unread \ {t}, TRUE, snap, r.ask) \in Requests
    BY <1>1, <1>2, RequestType
  <1>4. QED BY <1>3 DEF ReadOne, snap, types

LEMMA EnsureType ==
  ASSUME TypeOK, NEW s \in Servers, NEW t \in Types, NEW c \in CertAuthorities,
         ensureLocalAdditionalKeys(s, t, c)
  PROVE  /\ loop' \in [Servers -> Loops]
         /\ \A u \in Servers : loop'[u].pc \in {"add", "reget"} => loop'[u].key # NoKey
         /\ generated' \in SUBSET Keys /\ stored' \in SUBSET generated'
  <1>1. CASE keySetHasLocalKeys(s, c.additional)
    BY <1>1, DoneType, LoopStep DEF TypeOK, ensureLocalAdditionalKeys, KeepKeys
  <1>2. CASE ~keySetHasLocalKeys(s, c.additional)
    <2>1. PICK k \in Keys : /\ newKeySet(s, k)
                            /\ loop' = [loop EXCEPT ![s] = Loop("add", loop[s].todo, c, k)]
      BY <1>2 DEF ensureLocalAdditionalKeys
    <2>2. Loop("add", loop[s].todo, c, k) \in Loops
      BY LoopType DEF TypeOK, Loops, LoopStates
    <2>3. Loop("add", loop[s].todo, c, k).key # NoKey
      BY ServerAssumption DEF Loop
    <2>4. QED BY <2>1, <2>2, <2>3, NewKeySetType, LoopStep
  <1>3. QED BY <1>1, <1>2

LEMMA NewKeysType ==
  ASSUME TypeOK, NEW s \in Servers, NEW c \in CertAuthorities, NEW target \in Phases,
         NEW new \in SUBSET Keys, NewKeys(s, c, target, new)
  PROVE  generated' \in SUBSET Keys /\ stored' \in SUBSET generated'
  BY NewKeySetType DEF TypeOK, NewKeys, KeepKeys

\* RotateCertAuthority keeps the types.
LEMMA RotateTypes ==
  ASSUME TypeOK, NEW s \in Servers, RotateBegin(s) \/ RotateCertAuthority(s)
  PROVE  TypeOK'
  <1>1. request[s] \in Requests /\ request[s].ask \in Asks /\ request[s].types \in SUBSET Types
        /\ request[s].snap \in [Types -> CertAuthorities] /\ request[s].ordered \in BOOLEAN
    BY DEF TypeOK, Requests
  <1>2. CASE RotateBegin(s)
    <2>1. PICK ts \in {Types} \cup {{t} : t \in Types}, target \in Phases, mode \in RequestModes,
               forced \in BOOLEAN, t \in Types :
            request' = [request EXCEPT ![s] =
              ReadOne(t, Request(ts, Types, TRUE, NoRequest.snap,
                                 [target |-> target, mode |-> mode, forced |-> forced]))]
      BY <1>2 DEF RotateBegin
    <2>2. [target |-> target, mode |-> mode, forced |-> forced] \in Asks
      BY RequestAssumption DEF Asks, Modes
    <2>3. ts \in SUBSET Types
      OBVIOUS
    <2>4. ReadOne(t, Request(ts, Types, TRUE, NoRequest.snap,
                     [target |-> target, mode |-> mode, forced |-> forced])) \in Requests
      BY <2>2, <2>3, RequestType, NoRequestType, ReadOneType
    <2>5. QED BY <1>2, <2>1, <2>4 DEF RotateBegin, TypeOK, KeepCAs, KeepKeys, KeepBoot
  <1>3. CASE RotateRead(s)
    <2>1. PICK t \in Types : request' = [request EXCEPT ![s] = ReadOne(t, request[s])]
      BY <1>3 DEF RotateRead
    <2>2. QED BY <1>1, <1>3, <2>1, ReadOneType DEF RotateRead, TypeOK, KeepCAs, KeepKeys, KeepBoot
  <1>4. CASE RotateRefused(s) \/ RotateFailed(s)
    BY <1>4, NoRequestType DEF RotateRefused, RotateFailed, TypeOK, KeepCAs, KeepKeys, KeepBoot
  <1>5. CASE RotateOne(s)
    <2> DEFINE r == request[s]
               rotated(t, new) == processRotationRequest(r.snap[t], r.ask.target, r.ask.mode, new, r.ask.forced)
               next(t) == IF r.types \ {t} = {} THEN NoRequest
                          ELSE Request(r.types \ {t}, {}, r.ordered, r.snap, r.ask)
    <2>1. PICK t \in Types, new \in SUBSET Keys :
            /\ NewKeys(s, r.snap[t], r.ask.target, new)
            /\ Write(t, rotated(t, new))
            /\ request' = [request EXCEPT ![s] = next(t)]
            /\ UNCHANGED loop
      BY <1>5 DEF RotateOne, CompareAndSwapCertAuthority
    <2>2. r.snap[t] \in CertAuthorities /\ r.ask.target \in Phases /\ r.ask.mode \in Modes /\ r.ask.forced \in BOOLEAN
      BY <1>1 DEF Asks
    <2>3. rotated(t, new) \in CertAuthorities
      BY <2>2, ProcessType
    <2>4. next(t) \in Requests
      BY <1>1, NoRequestType, RequestType
    <2> HIDE DEF r, rotated, next
    <2>5. request' \in [Servers -> Requests]
      BY <2>1, <2>4 DEF TypeOK
    <2>6. generated' \in SUBSET Keys /\ stored' \in SUBSET generated'
      BY <2>1, <2>2, NewKeysType DEF r
    <2>7. ca' \in [Types -> CertAuthorities] /\ elapsed' \in [Types -> 0..Never] /\ origin' \in [Types -> SUBSET Keys]
      BY <2>1, <2>3, WriteType
    <2>8. QED BY <1>5, <2>1, <2>5, <2>6, <2>7 DEF RotateOne, KeepBoot, TypeOK
  <1>6. CASE RotateConflict(s)
    <2>1. PICK t \in Types, new \in SUBSET Keys :
            NewKeys(s, request[s].snap[t], request[s].ask.target, new)
      BY <1>6 DEF RotateConflict
    <2>2. generated' \in SUBSET Keys /\ stored' \in SUBSET generated'
      BY <1>1, <2>1, NewKeysType DEF Asks
    <2>3. QED BY <1>6, <2>2, NoRequestType DEF RotateConflict, TypeOK, KeepCAs, KeepBoot
  <1>7. QED BY <1>2, <1>3, <1>4, <1>5, <1>6 DEF RotateCertAuthority

\* So do the periodic loop and the start of a server.
LEMMA LoopTypes ==
  ASSUME TypeOK, NEW s \in Servers,
         autoRotateCertAuthorities(s) \/ AutoFailed(s) \/ Boot(s) \/ Crash(s)
  PROVE  TypeOK'
  <1> DEFINE l == loop[s]
  <1>0. /\ l \in Loops /\ l.cur \in CertAuthorities /\ l.todo \in SUBSET Types
        /\ l.key \in Keys \cup {NoKey}
        /\ l.pc \in {"add", "reget"} => l.key \in Keys
        /\ \A t \in Types : ca[t] \in CertAuthorities
    BY DEF TypeOK, Loops
  <1>1. CASE AutoBegin(s) \/ AutoGet(s) \/ AddReGet(s) \/ AddConflict(s)
    <2>1. PICK pc \in LoopStates, todo \in SUBSET Types, c \in CertAuthorities, k \in Keys \cup {NoKey} :
            /\ loop' = [loop EXCEPT ![s] = Loop(pc, todo, c, k)]
            /\ pc \in {"add", "reget"} => k \in Keys
      BY <1>0, <1>1 DEF AutoBegin, AutoGet, AddReGet, AddConflict, LoopStates
    <2>2. Loop(pc, todo, c, k).pc = pc /\ Loop(pc, todo, c, k).key = k
      BY DEF Loop
    <2>3. QED
      BY <1>1, <2>1, <2>2, LoopType, LoopStep, ServerAssumption
      DEF AutoBegin, AutoGet, AddReGet, AddConflict, TypeOK, KeepCAs, KeepKeys, KeepBoot
  <1>2. CASE AutoConflict(s) \/ AutoFailed(s)
    BY <1>2, AtType, AtPc, LoopStep
    DEF AutoConflict, AutoFailed, TypeOK, KeepCAs, KeepKeys, KeepBoot, LoopStates
  <1>3. CASE AddNotNeeded(s)
    BY <1>3, DoneType, LoopStep DEF AddNotNeeded, TypeOK, KeepCAs, KeepKeys, KeepBoot
  <1>4. CASE AddKeys(s)
    <2> DEFINE new == CA(l.cur.active, l.cur.additional \cup {l.key}, l.cur.phase, l.cur.mode, l.cur.id)
    <2>1. PICK t \in Types : Write(t, new) /\ loop' = [loop EXCEPT ![s] = Done(s, t)] /\ l.pc = "add"
      BY <1>4 DEF AddKeys, CompareAndSwapCertAuthority
    <2>2. new \in CertAuthorities
      BY <1>0, <2>1, CAType DEF CertAuthorities
    <2> HIDE DEF new
    <2>3. QED
      BY <1>4, <2>1, <2>2, WriteType, DoneType, LoopStep DEF AddKeys, KeepKeys, KeepBoot, TypeOK
  <1>5. CASE AutoSkip(s) \/ autoRotate(s)
    <2>1. PICK t \in Types : AutoEnsure(s, t) /\ (KeepCAs \/ \E new \in CertAuthorities : Write(t, new))
      <3>1. CASE AutoSkip(s) BY <3>1 DEF AutoSkip
      <3>2. CASE autoRotate(s)
        <4>1. PICK t \in Types :
                /\ AutoEnsure(s, t)
                /\ Write(t, processRotationRequest(l.cur, nextPhase(l.cur.phase), "auto", {}, FALSE))
          BY <3>2 DEF autoRotate, CompareAndSwapCertAuthority
        <4>2. nextPhase(l.cur.phase) \in Phases /\ "auto" \in Modes
          BY DEF nextPhase, Phases, Modes
        <4>3. processRotationRequest(l.cur, nextPhase(l.cur.phase), "auto", {}, FALSE) \in CertAuthorities
          BY <1>0, <4>2, ProcessType
        <4>4. QED BY <4>1, <4>3
      <3>3. QED BY <1>5, <3>1, <3>2
    <2>2. /\ loop' \in [Servers -> Loops]
          /\ \A u \in Servers : loop'[u].pc \in {"add", "reget"} => loop'[u].key # NoKey
          /\ generated' \in SUBSET Keys /\ stored' \in SUBSET generated'
      <3>1. CASE l.cur.phase = "init"
        BY <1>0, <2>1, <3>1, EnsureType DEF AutoEnsure
      <3>2. CASE l.cur.phase # "init"
        BY <2>1, <3>2, DoneType, LoopStep DEF AutoEnsure, KeepKeys, TypeOK
      <3>3. QED BY <3>1, <3>2
    <2>3. ca' \in [Types -> CertAuthorities] /\ elapsed' \in [Types -> 0..Never] /\ origin' \in [Types -> SUBSET Keys]
      BY <2>1, WriteType DEF KeepCAs, TypeOK
    <2>4. QED BY <1>5, <2>2, <2>3 DEF AutoSkip, autoRotate, KeepBoot, TypeOK
  <1>6. CASE Start(s) \/ Crash(s)
    BY <1>6, AtType, AtPc, LoopStep, NoRequestType, TypesAssumption
    DEF Start, Crash, TypeOK, KeepCAs, KeepKeys, LoopStates
  <1>7. CASE BootKeys(s)
    <2>1. /\ loop' \in [Servers -> Loops]
          /\ \A u \in Servers : loop'[u].pc \in {"add", "reget"} => loop'[u].key # NoKey
          /\ generated' \in SUBSET Keys /\ stored' \in SUBSET generated'
      <3>1. CASE keySetHasLocalKeys(s, ca[HostCA].active)
        BY <1>7, <3>1, DoneType, LoopStep, TypesAssumption DEF BootKeys, KeepKeys, TypeOK
      <3>2. CASE ~keySetHasLocalKeys(s, ca[HostCA].active)
        BY <1>0, <1>7, <3>2, EnsureType, TypesAssumption DEF BootKeys
      <3>3. QED BY <3>1, <3>2
    <2>2. QED BY <1>7, <2>1 DEF BootKeys, KeepCAs, KeepBoot, TypeOK
  <1>8. CASE BootCollect(s)
    <2>1. PICK t \in Types :
            /\ used' = [used EXCEPT ![s] = @ \cup usedKeys(ca[t])]
            /\ loop' = [loop EXCEPT ![s] = IF l.todo \ {t} = {} THEN At("delete", {})
                                                          ELSE At("collect", l.todo \ {t})]
      BY <1>8 DEF BootCollect
    <2>2. usedKeys(ca[t]) \in SUBSET Keys
      BY <1>0 DEF usedKeys, Trusted, CertAuthorities
    <2>3. used' \in [Servers -> SUBSET Keys]
      BY <2>1, <2>2 DEF TypeOK
    <2>4. QED BY <1>0, <1>8, <2>1, <2>3, AtType, AtPc, LoopStep DEF BootCollect, TypeOK, KeepCAs, KeepKeys, LoopStates
  <1>9. CASE BootDelete(s)
    BY <1>9, AtType, AtPc, LoopStep DEF BootDelete, DeleteUnusedKeys, TypeOK, KeepCAs, LoopStates
  <1>10. QED BY <1>1, <1>2, <1>3, <1>4, <1>5, <1>6, <1>7, <1>8, <1>9 DEF autoRotateCertAuthorities, Boot

\* Every variable of CARotation keeps its type.
THEOREM RotationTypeCorrect == Spec => []TypeOK
  <1>1. Init => TypeOK
    <2> SUFFICES ASSUME Init PROVE TypeOK
      OBVIOUS
    <2>1. ca \in [Types -> CertAuthorities] /\ origin \in [Types -> SUBSET Keys] /\ generated \in SUBSET Keys
      BY NewType, TypesAssumption DEF Init
    <2>2. request \in [Servers -> Requests] /\ loop \in [Servers -> Loops]
      BY NoRequestType, AtType DEF Init, LoopStates
    <2>3. \A s \in Servers : loop[s].pc \in {"idle", "down"}
      BY AtPc DEF Init
    <2>4. QED BY <2>1, <2>2, <2>3, NeverFact DEF Init, TypeOK
  <1>2. TypeOK /\ [Next]_vars => TypeOK'
    <2> SUFFICES ASSUME TypeOK, [Next]_vars PROVE TypeOK'
      OBVIOUS
    <2>1. CASE Tick
      BY <2>1, NeverFact DEF Tick, TypeOK
    <2>2. CASE UNCHANGED vars
      BY <2>2 DEF vars, TypeOK
    <2>3. QED BY <2>1, <2>2, RotateTypes, LoopTypes DEF Next
  <1>3. QED BY <1>1, <1>2, PTL DEF Spec

-----------------------------------------------------------------------------
(* What a step can do to an authority. *)

\* A supported transition.  A new rotation keeps the additional keys and has at
\* least one key.
Rotates(c, new) ==
    \E target \in Phases, mode \in Modes, keys \in SUBSET Keys, forced \in BOOLEAN :
        /\ supported(c, target)
        /\ target = "init" => c.additional \subseteq keys /\ keys # {}
        /\ new = processRotationRequest(c, target, mode, keys, forced)

\* A server without local additional keys adds one.
Extends(c, new) ==
    \E s \in Servers, k \in Keys :
        /\ ~keySetHasLocalKeys(s, c.additional)
        /\ new = CA(c.active, c.additional \cup {k}, c.phase, c.mode, c.id)

CAStep ==
    \/ UNCHANGED <<ca, origin>>
    \/ \E t \in Types, new \in CertAuthorities :
          Write(t, new) /\ (Rotates(ca[t], new) \/ Extends(ca[t], new))

\* Thanks to the CompareAndSwap no step does anything else, however old the
\* copy of the authority is that it starts from.
LEMMA EveryStep == ASSUME TypeOK, [Next]_vars PROVE CAStep
  <1>0. \A t \in Types : ca[t] \in CertAuthorities
    BY DEF TypeOK
  <1>1. ASSUME NEW s \in Servers, RotateOne(s) PROVE CAStep
    <2> DEFINE ask == request[s].ask
    <2>1. PICK t \in Types, keys \in SUBSET Keys :
            /\ supported(ca[t], ask.target)
            /\ NewKeys(s, ca[t], ask.target, keys)
            /\ Write(t, processRotationRequest(ca[t], ask.target, ask.mode, keys, ask.forced))
      BY <1>1 DEF RotateOne, CompareAndSwapCertAuthority
    <2>2. ask.target \in Phases /\ ask.mode \in Modes /\ ask.forced \in BOOLEAN
      BY DEF TypeOK, Requests, Asks
    <2>3. ask.target = "init" => ca[t].additional \subseteq keys /\ keys # {}
      BY <2>1 DEF NewKeys, keySetHasLocalKeys
    <2> HIDE DEF ask
    <2>4. Rotates(ca[t], processRotationRequest(ca[t], ask.target, ask.mode, keys, ask.forced))
      BY <2>1, <2>2, <2>3 DEF Rotates
    <2>5. QED BY <1>0, <2>1, <2>2, <2>4, ProcessType DEF CAStep
  <1>2. ASSUME NEW s \in Servers, autoRotate(s) PROVE CAStep
    <2>1. PICK t \in Types :
            /\ ca[t].phase \in AutoPhases
            /\ Write(t, processRotationRequest(ca[t], nextPhase(ca[t].phase), "auto", {}, FALSE))
      BY <1>2 DEF autoRotate, CompareAndSwapCertAuthority, AutoDue, Scheduled
    <2>2. /\ nextPhase(ca[t].phase) \in Phases \ {"init"} /\ "auto" \in Modes
          /\ supported(ca[t], nextPhase(ca[t].phase))
      BY <2>1 DEF nextPhase, AutoPhases, Phases, Modes, supported
    <2>3. Rotates(ca[t], processRotationRequest(ca[t], nextPhase(ca[t].phase), "auto", {}, FALSE))
      BY <2>2 DEF Rotates
    <2>4. QED BY <1>0, <2>1, <2>2, <2>3, ProcessType DEF CAStep
  <1>3. ASSUME NEW s \in Servers, AddKeys(s) PROVE CAStep
    <2> DEFINE k == loop[s].key
    <2>1. PICK t \in Types :
            /\ ~keySetHasLocalKeys(s, ca[t].additional)
            /\ Write(t, CA(ca[t].active, ca[t].additional \cup {k}, ca[t].phase, ca[t].mode, ca[t].id))
      BY <1>3 DEF AddKeys, CompareAndSwapCertAuthority
    <2>2. k \in Keys
      BY <1>3 DEF AddKeys, TypeOK, Loops
    <2> HIDE DEF k
    <2>3. CA(ca[t].active, ca[t].additional \cup {k}, ca[t].phase, ca[t].mode, ca[t].id) \in CertAuthorities
      BY <1>0, <2>2, CAType DEF CertAuthorities
    <2>4. QED BY <2>1, <2>2, <2>3 DEF CAStep, Extends
  <1>4. ASSUME NEW s \in Servers, RotateBegin(s) \/ RotateCertAuthority(s), ~RotateOne(s) PROVE CAStep
    BY <1>4 DEF RotateBegin, RotateCertAuthority, RotateRead, RotateRefused, RotateConflict, RotateFailed, KeepCAs, CAStep
  <1>5. ASSUME NEW s \in Servers, autoRotateCertAuthorities(s), ~autoRotate(s), ~AddKeys(s) PROVE CAStep
    BY <1>5 DEF autoRotateCertAuthorities, AutoBegin, AutoGet, AutoSkip, AutoConflict, AddNotNeeded,
                AddConflict, AddReGet, KeepCAs, CAStep
  <1>6. ASSUME NEW s \in Servers, AutoFailed(s) \/ Boot(s) \/ Crash(s) PROVE CAStep
    BY <1>6 DEF AutoFailed, Boot, Start, BootKeys, BootCollect, BootDelete, Crash, KeepCAs, CAStep
  <1>7. QED BY <1>1, <1>2, <1>3, <1>4, <1>5, <1>6 DEF Next, Tick, vars, CAStep

LEMMA CAFields ==
  ASSUME NEW a, NEW d, NEW p, NEW m, NEW i
  PROVE  /\ CA(a, d, p, m, i).active = a /\ CA(a, d, p, m, i).additional = d
         /\ CA(a, d, p, m, i).phase = p /\ CA(a, d, p, m, i).mode = m /\ CA(a, d, p, m, i).id = i
  BY DEF CA

\* The authorities of a step that writes one of them.
LEMMA WriteEffect ==
  ASSUME TypeOK, NEW t \in Types, NEW new \in CertAuthorities, Write(t, new), NEW u \in Types
  PROVE  /\ ca'[u] = IF u = t THEN new ELSE ca[u]
         /\ origin'[u] = IF u = t /\ new.id # ca[t].id THEN ca[t].active ELSE origin[u]
  BY DEF TypeOK, Write

\* RotateCertAuthority and autoRotate, run by any number of servers: authorities
\* only move along the documented phases, one at a time.
THEOREM RotationPhasesInOrder == Spec => PhasesInOrder
  <1> DEFINE Edges == {<<"standby", "init">>, <<"init", "update_clients">>,
                       <<"update_clients", "update_servers">>, <<"update_servers", "standby">>,
                       <<"init", "rollback">>, <<"update_clients", "rollback">>,
                       <<"update_servers", "rollback">>, <<"rollback", "standby">>}
             Ok(old, new) == /\ new.id # old.id => new.id = old.id + 1 /\ ~InProgress(old)
                             /\ new.phase # old.phase => <<old.phase, new.phase>> \in Edges
  <1>1. ASSUME NEW c \in CertAuthorities, NEW new, Rotates(c, new) \/ Extends(c, new) PROVE Ok(c, new)
    <2>1. CASE Extends(c, new)
      BY <2>1, CAFields DEF Extends
    <2>2. CASE Rotates(c, new)
      <3> c.id \in Nat
        BY DEF CertAuthorities
      <3>1. PICK target \in Phases, mode \in Modes, keys \in SUBSET Keys, forced \in BOOLEAN :
              supported(c, target) /\ new = processRotationRequest(c, target, mode, keys, forced)
        BY <2>2 DEF Rotates
      <3>2. CASE target = "init"
        <4>1. /\ new.id = c.id + 1 /\ c.phase = "standby" /\ new.phase \in {"init", "standby"}
          BY <3>1, <3>2, CAFields DEF supported, processRotationRequest, startNewRotation
        <4>2. QED BY <4>1 DEF InProgress
      <3>3. CASE target = "update_clients"
        BY <3>1, <3>3, CAFields DEF supported, processRotationRequest, updateClients
      <3>4. CASE target = "update_servers"
        BY <3>1, <3>4, CAFields DEF supported, processRotationRequest, updateServers
      <3>5. CASE target = "rollback"
        BY <3>1, <3>5, CAFields DEF supported, processRotationRequest, startRollingBackRotation
      <3>6. CASE target = "standby"
        <4>1. new = CA(c.active, {}, "standby", "", c.id)
          BY <3>1, <3>6 DEF processRotationRequest, completeRotation
        <4>2. new.phase = "standby" /\ new.id = c.id
          BY <4>1 DEF CA
        <4>3. c.phase \in {"update_servers", "rollback"}
          BY <3>1, <3>6 DEF supported
        <4>4. QED BY <4>2, <4>3
      <3>7. QED BY <3>2, <3>3, <3>4, <3>5, <3>6 DEF Phases
    <2>3. QED BY <1>1, <2>1, <2>2
  <1>2. TypeOK /\ [Next]_vars => [\A t \in Types : Ok(ca[t], ca'[t])]_vars
    <2> SUFFICES ASSUME TypeOK, [Next]_vars, NEW t \in Types PROVE Ok(ca[t], ca'[t])
      OBVIOUS
    <2>1. ca[t] \in CertAuthorities
      BY DEF TypeOK
    <2>2. CASE UNCHANGED <<ca, origin>>
      BY <2>2
    <2>3. CASE \E u \in Types, new \in CertAuthorities :
                 Write(u, new) /\ (Rotates(ca[u], new) \/ Extends(ca[u], new))
      <3> HIDE DEF Ok
      <3>1. ca'[t] = ca[t] \/ Rotates(ca[t], ca'[t]) \/ Extends(ca[t], ca'[t])
        BY <2>3, WriteEffect
      <3>2. Ok(ca[t], ca[t])
        BY DEF Ok
      <3>3. QED BY <2>1, <3>1, <3>2, <1>1
    <2>4. QED BY <2>2, <2>3, EveryStep DEF CAStep
  <1>3. QED BY <1>2, RotationTypeCorrect, PTL DEF Spec, PhasesInOrder

-----------------------------------------------------------------------------
(* The keys that a step moves. *)

\* The five supported transitions, with the key sets they leave behind.
LEMMA RotatesKeys ==
  ASSUME NEW c \in CertAuthorities, NEW new, Rotates(c, new)
  PROVE  \/ /\ new.id = c.id + 1 /\ c.phase = "standby" /\ new.phase = "standby"
            /\ new.active # {}
         \/ /\ new.id = c.id + 1 /\ c.phase = "standby" /\ new.phase = "init"
            /\ new.active = c.active /\ new.additional # {}
         \/ /\ new.id = c.id /\ c.phase = "init" /\ new.phase = "update_clients"
            /\ new.active = c.additional /\ new.additional = c.active
         \/ /\ new.id = c.id /\ c.phase = "update_clients" /\ new.phase = "update_servers"
            /\ new.active = c.active /\ new.additional = c.additional
         \/ /\ new.id = c.id /\ c.phase = "init" /\ new.phase = "rollback"
            /\ new.active = c.active /\ new.additional = c.additional
         \/ /\ new.id = c.id /\ c.phase \in {"update_clients", "update_servers"} /\ new.phase = "rollback"
            /\ new.active = c.additional /\ new.additional = c.active
         \/ /\ new.id = c.id /\ new.phase = "standby" /\ new.active = c.active
  <1>1. PICK target \in Phases, mode \in Modes, keys \in SUBSET Keys, forced \in BOOLEAN :
          /\ supported(c, target)
          /\ target = "init" => c.additional \subseteq keys /\ keys # {}
          /\ new = processRotationRequest(c, target, mode, keys, forced)
    BY DEF Rotates
  <1>2. CASE target = "init"
    <2>1. c.phase = "standby" /\ keys # {} /\ new = startNewRotation(c, mode, keys, forced)
      BY <1>1, <1>2 DEF supported, processRotationRequest
    <2>2. CASE forced
      BY <2>1, <2>2 DEF startNewRotation, CA
    <2>3. CASE ~forced
      BY <2>1, <2>3 DEF startNewRotation, CA
    <2>4. QED BY <2>2, <2>3
  <1>3. CASE target = "update_clients"
    BY <1>1, <1>3, CAFields DEF supported, processRotationRequest, updateClients
  <1>4. CASE target = "update_servers"
    BY <1>1, <1>4, CAFields DEF supported, processRotationRequest, updateServers
  <1>5. CASE target = "rollback"
    <2>1. /\ c.phase \in {"init", "update_clients", "update_servers"}
          /\ new = startRollingBackRotation(c)
      BY <1>1, <1>5 DEF supported, processRotationRequest
    <2>2. CASE c.phase = "init"
      BY <2>1, <2>2 DEF startRollingBackRotation, CA
    <2>3. CASE c.phase # "init"
      BY <2>1, <2>3 DEF startRollingBackRotation, CA
    <2>4. QED BY <2>2, <2>3
  <1>6. CASE target = "standby"
    <2>1. new = completeRotation(c)
      BY <1>1, <1>6 DEF processRotationRequest
    <2>2. QED BY <2>1 DEF completeRotation, CA
  <1>7. QED BY <1>2, <1>3, <1>4, <1>5, <1>6 DEF Phases

\* The purpose of the phases: whichever servers move an authority, and with
\* whatever keys servers add meanwhile, a key signs only once it is trusted and
\* is dropped only once it has stopped signing.
THEOREM RotationTrustOverlaps == Spec => TrustOverlaps
  <1> DEFINE Ok(old, new) ==
        ~(new.id # old.id /\ ~InProgress(new)) =>
            new.active \subseteq Trusted(old) /\ old.active \subseteq Trusted(new)
  <1>1. ASSUME NEW c \in CertAuthorities, NEW new, Rotates(c, new) \/ Extends(c, new) PROVE Ok(c, new)
    <2> c.id \in Nat
      BY DEF CertAuthorities
    <2>1. CASE Extends(c, new)
      BY <2>1, CAFields DEF Extends, Trusted
    <2>2. CASE Rotates(c, new)
      BY <2>2, RotatesKeys DEF Trusted, InProgress
    <2>3. QED BY <1>1, <2>1, <2>2
  <1>2. TypeOK /\ [Next]_vars
          => [\A t \in Types : ~Forced(t) =>
                  /\ ca'[t].active \subseteq Trusted(ca[t])
                  /\ ca[t].active \subseteq Trusted(ca'[t])]_vars
    <2> SUFFICES ASSUME TypeOK, [Next]_vars, NEW t \in Types PROVE Ok(ca[t], ca'[t])
      BY DEF Forced
    <2> HIDE DEF Ok
    <2>1. ca[t] \in CertAuthorities
      BY DEF TypeOK
    <2>2. ca'[t] = ca[t] \/ Rotates(ca[t], ca'[t]) \/ Extends(ca[t], ca'[t])
      BY WriteEffect, EveryStep DEF CAStep
    <2>3. Ok(ca[t], ca[t])
      BY DEF Ok, Trusted
    <2>4. QED BY <2>1, <2>2, <2>3, <1>1
  <1>3. QED BY <1>2, RotationTypeCorrect, PTL DEF Spec, TrustOverlaps

\* Where the keys of before the rotation are in each phase.
OriginKept(c, o) ==
    /\ c.active # {}
    /\ InProgress(c) => c.additional # {}
    /\ c.phase \in {"init", "rollback"} => c.active = o
    /\ c.phase \in {"update_clients", "update_servers"} => c.additional = o

RollbackInv == \A t \in Types : OriginKept(ca[t], origin[t])

LEMMA NewFields ==
  ASSUME NEW k
  PROVE  /\ NewCertAuthority(k).active = k /\ NewCertAuthority(k).additional = {}
         /\ NewCertAuthority(k).phase = "standby"
  BY DEF NewCertAuthority, CA

\* Without HSMs every server can use every key, so nobody adds keys to an
\* authority while it is being rotated and a rollback ends with exactly the keys
\* of before.
THEOREM RotationRollbackRestores ==
  ASSUME HSM = {}
  PROVE  Spec => []RollbackRestores
  <1>1. Init => RollbackInv
    <2> SUFFICES ASSUME Init, NEW t \in Types PROVE OriginKept(ca[t], origin[t])
      BY DEF RollbackInv
    <2>1. ca[t] = NewCertAuthority(InitialKeys[t])
      BY DEF Init
    <2>2. ca[t].active # {} /\ ca[t].phase = "standby"
      BY <2>1, NewFields, TypesAssumption
    <2>3. QED BY <2>2 DEF OriginKept, InProgress
  <1>2. TypeOK /\ RollbackInv /\ [Next]_vars => RollbackInv'
    <2> SUFFICES ASSUME TypeOK, RollbackInv, [Next]_vars, NEW t \in Types
                 PROVE  OriginKept(ca'[t], origin'[t])
      BY DEF RollbackInv
    <2>1. ca[t] \in CertAuthorities /\ OriginKept(ca[t], origin[t]) /\ ca[t].id \in Nat
      BY DEF TypeOK, RollbackInv, CertAuthorities
    <2>2. \/ ca'[t] = ca[t] /\ origin'[t] = origin[t]
          \/ /\ Rotates(ca[t], ca'[t]) \/ Extends(ca[t], ca'[t])
             /\ origin'[t] = IF ca'[t].id # ca[t].id THEN ca[t].active ELSE origin[t]
      BY WriteEffect, EveryStep DEF CAStep
    <2>3. CASE Rotates(ca[t], ca'[t])
      BY <2>1, <2>2, <2>3, RotatesKeys DEF OriginKept, InProgress
    <2>4. CASE Extends(ca[t], ca'[t])
      <3>1. ca[t].additional = {}
        BY <2>4, <2>1, ServerAssumption DEF Extends, keySetHasLocalKeys, CertAuthorities
      <3>2. /\ ca'[t].active = ca[t].active /\ ca'[t].phase = ca[t].phase
            /\ ca'[t].id = ca[t].id
        BY <2>4, CAFields DEF Extends
      <3>3. ca[t].phase = "standby"
        BY <2>1, <3>1 DEF OriginKept, InProgress
      <3>4. QED BY <2>1, <3>2, <3>3 DEF OriginKept, InProgress
    <2>5. QED BY <2>1, <2>2, <2>3, <2>4
  <1>3. RollbackInv => RollbackRestores
    BY DEF RollbackInv, OriginKept, RollbackRestores
  <1>4. QED BY <1>1, <1>2, <1>3, RotationTypeCorrect, PTL DEF Spec

-----------------------------------------------------------------------------
(* The keys that a server adds and deletes. *)

ServerStep(s) ==
    \/ RotateBegin(s) \/ RotateCertAuthority(s) \/ autoRotateCertAuthorities(s)
    \/ AutoFailed(s) \/ Boot(s) \/ Crash(s)

LEMMA LoopFields ==
  ASSUME NEW pc, NEW todo, NEW c, NEW k
  PROVE  /\ Loop(pc, todo, c, k).pc = pc /\ Loop(pc, todo, c, k).todo = todo
         /\ Loop(pc, todo, c, k).cur = c /\ Loop(pc, todo, c, k).key = k
         /\ At(pc, todo).pc = pc /\ At(pc, todo).todo = todo
  BY DEF At, Loop

\* After the last step for a type.
LEMMA DoneFields ==
  ASSUME NEW s, NEW t
  PROVE  /\ s \in booting => Done(s, t).pc = "collect" /\ Done(s, t).todo = Types
         /\ s \notin booting => Done(s, t).pc \in {"idle", "read"}
  BY LoopFields DEF Done

LEMMA NoRequestFields ==
  /\ NoRequest.types = {} /\ NoRequest.unread = {} /\ NoRequest.ask.forced = FALSE
  BY DEF NoRequest, Request

\* A server moves its own request and loop only.
LEMMA OtherServers ==
  ASSUME TypeOK, NEW s \in Servers, ServerStep(s), NEW u \in Servers, u # s
  PROVE  /\ loop'[u] = loop[u] /\ request'[u] = request[u] /\ used'[u] = used[u]
         /\ u \in booting' <=> u \in booting
  <1>1. CASE RotateBegin(s) \/ RotateCertAuthority(s)
    BY <1>1 DEF RotateBegin, RotateCertAuthority, RotateRead, RotateRefused, RotateOne, RotateConflict,
                RotateFailed, KeepBoot, TypeOK
  <1>2. CASE AutoBegin(s) \/ AutoGet(s) \/ AutoConflict(s) \/ AddNotNeeded(s) \/ AddKeys(s)
             \/ AddConflict(s) \/ AddReGet(s) \/ AutoFailed(s)
    BY <1>2 DEF AutoBegin, AutoGet, AutoConflict, AddNotNeeded, AddKeys, AddConflict, AddReGet,
                AutoFailed, KeepBoot, TypeOK
  <1>3. CASE AutoSkip(s) \/ autoRotate(s) \/ BootKeys(s)
    BY <1>3 DEF AutoSkip, autoRotate, AutoEnsure, BootKeys, ensureLocalAdditionalKeys, KeepBoot, TypeOK
  <1>4. CASE Start(s) \/ BootCollect(s) \/ BootDelete(s) \/ Crash(s)
    BY <1>4 DEF Start, BootCollect, BootDelete, Crash, TypeOK
  <1>5. QED BY <1>1, <1>2, <1>3, <1>4 DEF ServerStep, autoRotateCertAuthorities, Boot

\* processRotationRequest trusts no key but those of the authority and, at the
\* start of a rotation, the new ones.
LEMMA ProcessTrusts ==
  ASSUME NEW c \in CertAuthorities, NEW target \in Phases, NEW mode, NEW new, NEW forced
  PROVE  /\ Trusted(processRotationRequest(c, target, mode, new, forced)) \subseteq Trusted(c) \cup new
         /\ target # "init" =>
              Trusted(processRotationRequest(c, target, mode, new, forced)) \subseteq Trusted(c)
  <1> DEFINE p == processRotationRequest(c, target, mode, new, forced)
  <1>1. CASE target = "init"
    BY <1>1, CAFields DEF processRotationRequest, startNewRotation, Trusted
  <1>2. CASE target \in {"update_clients", "update_servers"}
    BY <1>2, CAFields DEF processRotationRequest, updateClients, updateServers, Trusted
  <1>3. CASE target = "rollback"
    BY <1>3, CAFields DEF processRotationRequest, startRollingBackRotation, Trusted
  <1>4. CASE target = "standby"
    <2>1. p = completeRotation(c)
      BY <1>4 DEF processRotationRequest
    <2> HIDE DEF p
    <2>2. p.active = c.active /\ p.additional = {}
      BY <2>1 DEF completeRotation, CA
    <2>3. Trusted(p) \subseteq Trusted(c) \cup new /\ Trusted(p) \subseteq Trusted(c)
      BY <2>2 DEF Trusted
    <2>4. QED BY <2>3 DEF p
  <1>5. QED BY <1>1, <1>2, <1>3, <1>4 DEF Phases

\* deleteUnusedKeys deletes what it has not found in use.  A server adds no key
\* to an authority between the first authority it reads there and the deletion,
\* and nobody else adds a key of its host.
InUse(s, t) == {k \in Trusted(ca[t]) : Owner[k] = s}

BootInv(s) ==
    /\ loop[s].pc \in {"add", "reget"} => loop[s].key \in stored /\ Owner[loop[s].key] = s
    /\ s \in booting \/ loop[s].pc = "down" => request[s] = NoRequest
    /\ loop[s].pc \in {"collect", "delete"} =>
         /\ s \in booting
         /\ \A t \in Types \ loop[s].todo : InUse(s, t) \subseteq used[s]
    /\ loop[s].pc = "delete" => loop[s].todo = {}

StoredInv == KeysInUseStored /\ \A s \in Servers : BootInv(s)

\* A key that a step adds to an authority is a stored key of the server that
\* takes the step, which is not about to delete any.
LEMMA StepTrusts ==
  ASSUME TypeOK, NEW s \in Servers, BootInv(s), ServerStep(s)
  PROVE  \/ UNCHANGED ca
         \/ /\ loop[s].pc \notin {"collect", "delete"} /\ ~BootDelete(s)
            /\ \A t \in Types : Trusted(ca'[t]) \subseteq Trusted(ca[t]) \cup {k \in stored' : Owner[k] = s}
  <1>0. \A t \in Types : ca[t] \in CertAuthorities
    BY DEF TypeOK
  <1>1. CASE RotateOne(s)
    <2> DEFINE ask == request[s].ask
    <2>1. PICK u \in Types, keys \in SUBSET Keys :
            /\ u \in request[s].types
            /\ NewKeys(s, ca[u], ask.target, keys)
            /\ Write(u, processRotationRequest(ca[u], ask.target, ask.mode, keys, ask.forced))
      BY <1>1 DEF RotateOne, CompareAndSwapCertAuthority, IsNext
    <2>2. ask.target \in Phases /\ ask.mode \in Modes /\ ask.forced \in BOOLEAN
      BY DEF TypeOK, Requests, Asks
    <2> HIDE DEF ask
    <2>3. s \notin booting /\ loop[s].pc \notin {"collect", "delete"}
      BY <2>1, NoRequestFields DEF BootInv
    <2>4. ASSUME ask.target = "init" PROVE keys \subseteq Trusted(ca[u]) \cup {k \in stored' : Owner[k] = s}
      BY <2>1, <2>4 DEF NewKeys, newKeySet, Trusted
    <2>5. Trusted(processRotationRequest(ca[u], ask.target, ask.mode, keys, ask.forced))
            \subseteq Trusted(ca[u]) \cup {k \in stored' : Owner[k] = s}
      BY <1>0, <2>2, <2>4, ProcessTrusts
    <2>6. ~BootDelete(s)
      BY <2>3 DEF BootDelete
    <2>7. QED BY <1>0, <2>1, <2>2, <2>3, <2>5, <2>6, ProcessType, WriteEffect
  <1>2. CASE autoRotate(s)
    <2>1. PICK u \in Types :
            /\ loop[s].pc = "rotate" /\ ca[u].phase \in AutoPhases
            /\ Write(u, processRotationRequest(ca[u], nextPhase(ca[u].phase), "auto", {}, FALSE))
      BY <1>2 DEF autoRotate, CompareAndSwapCertAuthority, AutoDue, Scheduled
    <2>2. nextPhase(ca[u].phase) \in Phases \ {"init"} /\ "auto" \in Modes
      BY <2>1 DEF nextPhase, AutoPhases, Phases, Modes
    <2>3. Trusted(processRotationRequest(ca[u], nextPhase(ca[u].phase), "auto", {}, FALSE)) \subseteq Trusted(ca[u])
      BY <1>0, <2>2, ProcessTrusts
    <2>4. ~BootDelete(s)
      BY <2>1 DEF BootDelete
    <2>5. QED BY <1>0, <2>1, <2>2, <2>3, <2>4, ProcessType, WriteEffect
  <1>3. CASE AddKeys(s)
    <2> DEFINE k == loop[s].key
               new(u) == CA(ca[u].active, ca[u].additional \cup {k}, ca[u].phase, ca[u].mode, ca[u].id)
    <2>1. PICK u \in Types : loop[s].pc = "add" /\ Write(u, new(u)) /\ UNCHANGED stored
      BY <1>3 DEF AddKeys, CompareAndSwapCertAuthority, KeepKeys
    <2>2. k \in Keys /\ k \in stored /\ Owner[k] = s
      BY <2>1 DEF BootInv, TypeOK, Loops
    <2>3. new(u) \in CertAuthorities
      BY <1>0, <2>2, CAType DEF CertAuthorities
    <2>4. Trusted(new(u)) = Trusted(ca[u]) \cup {k}
      BY CAFields DEF Trusted
    <2> HIDE DEF k, new
    <2>5. ~BootDelete(s)
      BY <2>1 DEF BootDelete
    <2>6. QED BY <2>1, <2>2, <2>3, <2>4, <2>5, WriteEffect
  <1>4. CASE (RotateBegin(s) \/ RotateCertAuthority(s)) /\ ~RotateOne(s)
    BY <1>4 DEF RotateBegin, RotateCertAuthority, RotateRead, RotateRefused, RotateConflict, RotateFailed, KeepCAs
  <1>5. CASE autoRotateCertAuthorities(s) /\ ~autoRotate(s) /\ ~AddKeys(s)
    BY <1>5 DEF autoRotateCertAuthorities, AutoBegin, AutoGet, AutoSkip, AutoConflict, AddNotNeeded,
                AddConflict, AddReGet, KeepCAs
  <1>6. CASE AutoFailed(s) \/ Boot(s) \/ Crash(s)
    BY <1>6 DEF AutoFailed, Boot, Start, BootKeys, BootCollect, BootDelete, Crash, KeepCAs
  <1>7. QED BY <1>1, <1>2, <1>3, <1>4, <1>5, <1>6 DEF ServerStep

\* Keys are deleted by deleteUnusedKeys only.
LEMMA StepStores ==
  ASSUME TypeOK, NEW s \in Servers, ServerStep(s), ~BootDelete(s)
  PROVE  stored \subseteq stored'
  <1>1. CASE RotateBegin(s) \/ RotateCertAuthority(s)
    BY <1>1 DEF RotateBegin, RotateCertAuthority, RotateRead, RotateRefused, RotateOne, RotateConflict,
                RotateFailed, NewKeys, newKeySet, KeepKeys
  <1>2. CASE autoRotateCertAuthorities(s)
    BY <1>2 DEF autoRotateCertAuthorities, AutoBegin, AutoGet, AutoSkip, autoRotate, AutoConflict, AddNotNeeded,
                AddKeys, AddConflict, AddReGet, AutoEnsure, ensureLocalAdditionalKeys, newKeySet, KeepKeys
  <1>3. CASE AutoFailed(s) \/ Boot(s) \/ Crash(s)
    BY <1>3 DEF AutoFailed, Boot, Start, BootKeys, BootCollect, Crash, ensureLocalAdditionalKeys,
                newKeySet, KeepKeys
  <1>4. QED BY <1>1, <1>2, <1>3 DEF ServerStep

\* The steps of a server keep what holds of its own loop and request.
LEMMA OwnBoot ==
  ASSUME TypeOK, NEW s \in Servers, BootInv(s), ServerStep(s)
  PROVE  BootInv(s)'
  <1> DEFINE l == loop[s]
  <1>0. /\ \A x : loop' = [loop EXCEPT ![s] = x] => loop'[s] = x
        /\ \A x : request' = [request EXCEPT ![s] = x] => request'[s] = x
        /\ \A x : used' = [used EXCEPT ![s] = x] => used'[s] = x
    BY DEF TypeOK
  <1>1. CASE RotateBegin(s) \/ RotateCertAuthority(s)
    <2>1. s \notin booting /\ l.pc # "down"
      BY <1>1, NoRequestFields DEF RotateBegin, RotateCertAuthority, RotateRead, RotateRefused, RotateOne,
           RotateConflict, RotateFailed, Serving, BootInv, IsNext, IsFirst
    <2>2. UNCHANGED <<loop, booting>>
      BY <1>1 DEF RotateBegin, RotateCertAuthority, RotateRead, RotateRefused, RotateOne,
           RotateConflict, RotateFailed, KeepBoot
    <2>3. stored \subseteq stored'
      BY <1>1, <2>1, StepStores DEF ServerStep, BootDelete, BootInv
    <2>4. QED BY <2>1, <2>2, <2>3 DEF BootInv
  <1>2. CASE AutoBegin(s) \/ AutoGet(s) \/ AutoConflict(s) \/ AutoFailed(s)
    <2>1. loop'[s].pc \in {"rotate", "idle"}
      BY <1>0, <1>2, LoopFields DEF AutoBegin, AutoGet, AutoConflict, AutoFailed
    <2>2. s \notin booting' \/ l.pc # "down"
      BY <1>2 DEF AutoBegin, AutoGet, AutoConflict, AutoFailed, KeepBoot
    <2>3. UNCHANGED <<request, booting>>
      BY <1>2 DEF AutoBegin, AutoGet, AutoConflict, AutoFailed, KeepBoot
    <2>4. QED BY <2>1, <2>2, <2>3 DEF BootInv
  <1>3. CASE AddNotNeeded(s) \/ AddKeys(s)
    <2>1. PICK t \in Types : loop'[s] = Done(s, t)
      BY <1>0, <1>3 DEF AddNotNeeded, AddKeys
    <2>2. UNCHANGED <<request, booting>> /\ l.pc = "add"
      BY <1>3 DEF AddNotNeeded, AddKeys, KeepBoot
    <2>3. QED BY <2>1, <2>2, DoneFields DEF BootInv
  <1>4. CASE AddConflict(s) \/ AddReGet(s)
    <2>1. /\ loop'[s].pc \in {"add", "reget"} /\ loop'[s].key = l.key /\ l.pc \in {"add", "reget"}
          /\ UNCHANGED <<request, booting, stored>>
      BY <1>0, <1>4, LoopFields DEF AddConflict, AddReGet, KeepBoot, KeepKeys
    <2>2. QED BY <2>1 DEF BootInv
  <1>5. ASSUME NEW t \in Types, NEW c, ensureLocalAdditionalKeys(s, t, c), UNCHANGED <<request, booting>>,
               l.pc \notin {"down"}
        PROVE  BootInv(s)'
    <2>1. CASE loop' = [loop EXCEPT ![s] = Done(s, t)]
      <3>1. loop'[s] = Done(s, t)
        BY <1>0, <2>1
      <3>2. QED BY <1>5, <3>1, DoneFields DEF BootInv
    <2>2. CASE \E k \in Keys : newKeySet(s, k) /\ loop' = [loop EXCEPT ![s] = Loop("add", loop[s].todo, c, k)]
      <3>1. PICK k \in Keys : newKeySet(s, k) /\ loop'[s] = Loop("add", loop[s].todo, c, k)
        BY <1>0, <2>2
      <3>2. k \in stored' /\ Owner[k] = s
        BY <3>1 DEF newKeySet
      <3>3. QED BY <1>5, <3>1, <3>2, LoopFields DEF BootInv
    <2>3. QED BY <1>5, <2>1, <2>2 DEF ensureLocalAdditionalKeys
  <1>6. CASE AutoSkip(s) \/ autoRotate(s)
    <2>1. PICK t \in Types : AutoEnsure(s, t)
      BY <1>6 DEF AutoSkip, autoRotate
    <2>2. UNCHANGED <<request, booting>> /\ l.pc = "rotate"
      BY <1>6 DEF AutoSkip, autoRotate, KeepBoot
    <2>3. CASE loop' = [loop EXCEPT ![s] = Done(s, t)]
      BY <1>0, <2>2, <2>3, DoneFields DEF BootInv
    <2>4. QED BY <1>5, <2>1, <2>2, <2>3 DEF AutoEnsure
  <1>7. CASE BootKeys(s)
    <2>1. UNCHANGED <<request, booting>> /\ l.pc = "boot"
      BY <1>7 DEF BootKeys, KeepBoot
    <2>2. CASE loop' = [loop EXCEPT ![s] = Done(s, HostCA)]
      BY <1>0, <2>1, <2>2, DoneFields DEF BootInv
    <2>3. QED BY <1>5, <1>7, <2>1, <2>2, TypesAssumption DEF BootKeys
  <1>8. CASE Start(s)
    <2>1. loop'[s] = At("boot", {HostCA}) /\ l.pc = "down" /\ UNCHANGED request
      BY <1>0, <1>8 DEF Start
    <2>2. loop'[s].pc = "boot"
      BY <2>1, LoopFields
    <2>3. QED BY <2>1, <2>2 DEF BootInv
  <1>9. CASE BootCollect(s)
    <2>1. PICK t \in Types :
            /\ used'[s] = used[s] \cup usedKeys(ca[t])
            /\ loop'[s] = IF l.todo \ {t} = {} THEN At("delete", {}) ELSE At("collect", l.todo \ {t})
      BY <1>0, <1>9 DEF BootCollect
    <2>2. UNCHANGED <<ca, request, booting, stored>> /\ l.pc = "collect"
      BY <1>9 DEF BootCollect, KeepCAs, KeepKeys
    <2>3. /\ loop'[s].todo = l.todo \ {t} /\ loop'[s].pc \in {"collect", "delete"}
          /\ loop'[s].pc = "delete" => loop'[s].todo = {}
      BY <2>1, LoopFields
    <2>4. ASSUME NEW u \in Types \ loop'[s].todo PROVE InUse(s, u)' \subseteq used'[s]
      <3>1. InUse(s, u)' = InUse(s, u)
        BY <2>2 DEF InUse
      <3>2. CASE u = t
        BY <2>1, <3>1, <3>2 DEF InUse, usedKeys
      <3>3. CASE u # t
        <4>1. u \notin l.todo
          BY <2>3, <2>4, <3>3
        <4>2. InUse(s, u) \subseteq used[s]
          BY <2>2, <2>4, <4>1 DEF BootInv
        <4>3. QED BY <2>1, <3>1, <4>2
      <3>4. QED BY <3>2, <3>3
    <2>5. QED BY <2>2, <2>3, <2>4 DEF BootInv
  <1>10. CASE BootDelete(s) \/ Crash(s)
    <2>1. /\ loop'[s].pc = "idle" \/ (loop'[s].pc = "down" /\ request'[s] = NoRequest)
          /\ s \notin booting'
      BY <1>0, <1>10, LoopFields DEF BootDelete, Crash
    <2>2. QED BY <2>1 DEF BootInv
  <1>11. QED
    BY <1>1, <1>2, <1>3, <1>4, <1>6, <1>7, <1>8, <1>9, <1>10 DEF ServerStep, autoRotateCertAuthorities, Boot

\* deleteUnusedKeys, run by a server that starts while the others rotate the
\* authorities: as long as a host runs one auth server at a time, no key of an
\* authority, signing or only trusted, loses its private part.
THEOREM RotationKeysInUseStored ==
  ASSUME \A s, r \in Servers : Host[s] = Host[r] => s = r
  PROVE  Spec => []KeysInUseStored
  <1>1. Init => StoredInv
    <2> SUFFICES ASSUME Init PROVE StoredInv
      OBVIOUS
    <2>1. ASSUME NEW t \in Types PROVE Trusted(ca[t]) \subseteq stored
      <3>1. ca[t].active = InitialKeys[t] /\ ca[t].additional = {}
        BY NewFields DEF Init
      <3>2. QED BY <3>1 DEF Init, Trusted
    <2>2. ASSUME NEW s \in Servers PROVE BootInv(s)
      BY LoopFields DEF Init, BootInv
    <2>3. QED BY <2>1, <2>2 DEF StoredInv, KeysInUseStored
  <1>2. TypeOK /\ StoredInv /\ [Next]_vars => StoredInv'
    <2> SUFFICES ASSUME TypeOK, StoredInv, [Next]_vars PROVE StoredInv'
      OBVIOUS
    <2>1. ASSUME NEW s \in Servers, ServerStep(s) PROVE StoredInv'
      <3>1. BootInv(s) /\ KeysInUseStored
        BY DEF StoredInv
      <3>2. ASSUME NEW t \in Types, NEW k \in Trusted(ca'[t]) PROVE k \in stored'
        <4>1. CASE BootDelete(s)
          <5>1. /\ ca' = ca /\ loop[s].pc = "delete"
                /\ stored' = DeleteUnusedKeys(s)
            BY <4>1 DEF BootDelete, KeepCAs
          <5>2. k \in stored /\ k \in Keys /\ Owner[k] \in Servers
            BY <3>1, <3>2, <5>1, ServerAssumption DEF KeysInUseStored, TypeOK
          <5>3. Owner[k] = s => k \in used[s]
            BY <3>1, <3>2, <5>1 DEF BootInv, InUse
          <5>4. Host[Owner[k]] = Host[s] => Owner[k] = s
            BY <5>2
          <5>5. QED BY <5>1, <5>2, <5>3, <5>4 DEF DeleteUnusedKeys
        <4>2. CASE ~BootDelete(s)
          BY <2>1, <3>1, <3>2, <4>2, StepTrusts, StepStores DEF KeysInUseStored
        <4>3. QED BY <4>1, <4>2
      <3>3. ASSUME NEW u \in Servers, u # s PROVE BootInv(u)'
        <4>1. /\ BootInv(u) /\ loop'[u] = loop[u] /\ request'[u] = request[u] /\ used'[u] = used[u]
              /\ u \in booting' <=> u \in booting
          BY <2>1, <3>3, OtherServers DEF StoredInv
        <4>2. ASSUME loop[u].pc \in {"add", "reget"} PROVE loop[u].key \in stored'
          <5>1. loop[u].key \in stored /\ Owner[loop[u].key] = u
            BY <4>1, <4>2 DEF BootInv
          <5>2. Host[u] # Host[s]
            BY <3>3
          <5>3. CASE BootDelete(s)
            BY <5>1, <5>2, <5>3 DEF BootDelete, DeleteUnusedKeys
          <5>4. QED BY <2>1, <5>1, <5>3, StepStores
        <4>3. ASSUME NEW t \in Types PROVE InUse(u, t)' \subseteq InUse(u, t)
          BY <2>1, <3>1, <3>3, StepTrusts DEF InUse
        <4>4. QED BY <4>1, <4>2, <4>3 DEF BootInv
      <3>4. BootInv(s)'
        BY <2>1, <3>1, OwnBoot
      <3>5. QED BY <3>2, <3>3, <3>4 DEF StoredInv, KeysInUseStored
    <2>2. CASE Tick \/ UNCHANGED vars
      <3>1. UNCHANGED <<ca, stored, request, loop, booting, used>>
        BY <2>2 DEF Tick, vars
      <3>2. KeysInUseStored'
        BY <3>1 DEF StoredInv, KeysInUseStored
      <3>3. ASSUME NEW s \in Servers PROVE BootInv(s)'
        BY <3>1 DEF StoredInv, BootInv, InUse
      <3>4. QED BY <3>2, <3>3 DEF StoredInv
    <2>3. QED BY <2>1, <2>2 DEF Next, ServerStep
  <1>3. StoredInv => KeysInUseStored
    BY DEF StoredInv
  <1>4. QED BY <1>1, <1>2, <1>3, RotationTypeCorrect, PTL DEF Spec

-----------------------------------------------------------------------------
(* The keys of before a rotation. *)

\* The signing keys are never among the additional ones, and those of before
\* the rotation have stopped signing from update_clients on.
Separated(c, o) ==
    /\ c.active \cap c.additional = {}
    /\ c.phase = "init" => c.active = o
    /\ c.phase \in {"update_clients", "update_servers"} => c.active \cap o = {}

\* An authority of a cluster without HSMs has additional keys while it is
\* rotated, and only then.
Alone(c) == c.active # {} /\ (c.additional = {} <=> ~InProgress(c))

\* What a server is about to add is a key of its own that no authority has yet;
\* without HSMs no server adds keys.
AddInv(s) ==
    /\ request[s].ask.forced => ~Grace
    /\ HSM = {} => loop[s].pc \notin {"add", "reget"} /\ (loop[s].pc = "rotate" => Alone(loop[s].cur))
    /\ loop[s].pc \in {"add", "reget"} =>
         /\ loop[s].key \in generated /\ Owner[loop[s].key] = s
         /\ \A t \in Types : loop[s].key \notin Trusted(ca[t])

AuthorityInv(t) ==
    /\ Trusted(ca[t]) \subseteq generated
    /\ Separated(ca[t], origin[t])
    /\ HSM = {} => Alone(ca[t])

RetiredInv == (\A t \in Types : AuthorityInv(t)) /\ \A s \in Servers : AddInv(s)

\* The two ways a rotation ends.
Retires(c, o, new) ==
    /\ new.id # c.id /\ ~InProgress(new) => c.active \cap Trusted(new) = {}
    /\ c.phase = "update_servers" /\ new.phase = "standby" => o \cap Trusted(new) = {}

\* The transitions of processRotationRequest, when the keys of a new rotation
\* are new, apart from the additional ones, and a rotation without a grace
\* period finds no additional ones.
LEMMA ProcessSeparates ==
  ASSUME NEW c \in CertAuthorities, NEW o, NEW target \in Phases, NEW mode, NEW keys, NEW forced \in BOOLEAN,
         supported(c, target), Separated(c, o),
         target = "init" => /\ keys # {} /\ c.additional \subseteq keys
                            /\ keys \cap c.active = {}
                            /\ forced => c.additional = {},
         NEW new, new = processRotationRequest(c, target, mode, keys, forced)
  PROVE  /\ Separated(new, IF new.id # c.id THEN c.active ELSE o)
         /\ Alone(c) => Alone(new)
         /\ Retires(c, o, new)
  <1>0. c.id \in Nat
    BY DEF CertAuthorities
  <1>1. CASE target = "init"
    <2>1. c.phase = "standby" /\ new = startNewRotation(c, mode, keys, forced)
      BY <1>1 DEF supported, processRotationRequest
    <2>2. CASE forced
      <3>1. new.active = keys /\ new.additional = {} /\ new.phase = "standby" /\ new.id = c.id + 1
        <4>1. c.additional = {}
          BY <1>1, <2>2
        <4>2. QED BY <2>1, <2>2, <4>1, CAFields DEF startNewRotation
      <3>2. QED BY <1>0, <1>1, <2>1, <3>1 DEF Separated, Alone, Retires, InProgress, Trusted
    <2>3. CASE ~forced
      <3>1. new.active = c.active /\ new.additional = keys /\ new.phase = "init" /\ new.id = c.id + 1
        BY <2>1, <2>3, CAFields DEF startNewRotation
      <3>2. QED BY <1>0, <1>1, <2>1, <3>1 DEF Separated, Alone, Retires, InProgress, Trusted
    <2>4. QED BY <2>2, <2>3
  <1>2. CASE target = "update_clients"
    <2>1. /\ new.active = c.additional /\ new.additional = c.active /\ new.phase = "update_clients"
          /\ new.id = c.id /\ c.phase = "init"
      BY <1>2, CAFields DEF supported, processRotationRequest, updateClients
    <2>2. QED BY <2>1 DEF Separated, Alone, Retires, InProgress
  <1>3. CASE target = "update_servers"
    <2>1. /\ new.active = c.active /\ new.additional = c.additional /\ new.phase = "update_servers"
          /\ new.id = c.id /\ c.phase = "update_clients"
      BY <1>3, CAFields DEF supported, processRotationRequest, updateServers
    <2>2. QED BY <2>1 DEF Separated, Alone, Retires, InProgress
  <1>4. CASE target = "rollback"
    <2>1. /\ \/ new.active = c.active /\ new.additional = c.additional
             \/ new.active = c.additional /\ new.additional = c.active
          /\ new.phase = "rollback" /\ new.id = c.id /\ c.phase # "standby"
      BY <1>4, CAFields DEF supported, processRotationRequest, startRollingBackRotation
    <2>2. QED BY <2>1 DEF Separated, Alone, Retires, InProgress
  <1>5. CASE target = "standby"
    <2>1. PICK m : new = CA(c.active, {}, "standby", m, c.id)
      BY <1>5, Zenon DEF processRotationRequest, completeRotation
    <2>2. new.active = c.active /\ new.additional = {} /\ new.phase = "standby" /\ new.id = c.id
      BY <2>1, CAFields
    <2>3. c.phase \in {"update_servers", "rollback"}
      BY <1>5 DEF supported
    <2>4. QED BY <2>2, <2>3 DEF Separated, Alone, Retires, InProgress, Trusted
  <1>6. QED BY <1>1, <1>2, <1>3, <1>4, <1>5 DEF Phases

LEMMA StepGenerates ==
  ASSUME NEW s \in Servers, ServerStep(s)
  PROVE  generated \subseteq generated'
  <1>1. CASE RotateBegin(s) \/ RotateCertAuthority(s)
    BY <1>1 DEF RotateBegin, RotateCertAuthority, RotateRead, RotateRefused, RotateOne, RotateConflict,
                RotateFailed, NewKeys, newKeySet, KeepKeys
  <1>2. CASE autoRotateCertAuthorities(s)
    BY <1>2 DEF autoRotateCertAuthorities, AutoBegin, AutoGet, AutoSkip, autoRotate, AutoConflict, AddNotNeeded,
                AddKeys, AddConflict, AddReGet, AutoEnsure, ensureLocalAdditionalKeys, newKeySet, KeepKeys
  <1>3. CASE AutoFailed(s) \/ Boot(s) \/ Crash(s)
    BY <1>3 DEF AutoFailed, Boot, Start, BootKeys, BootCollect, BootDelete, Crash, ensureLocalAdditionalKeys,
                newKeySet, KeepKeys
  <1>4. QED BY <1>1, <1>2, <1>3 DEF ServerStep

\* What a step of server s may turn authority c into: at most one key is new to
\* it, one that has just been generated or the one the server wanted to add.
KeyStep(s, c, o, new, o2) ==
    /\ Separated(new, o2)
    /\ HSM = {} => Alone(new)
    /\ Retires(c, o, new)
    /\ \A k \in Trusted(new) \ Trusted(c) :
         \/ k \notin generated /\ k \in generated' /\ UNCHANGED loop
         \/ k = loop[s].key /\ loop[s].pc = "add" /\ loop'[s].pc \notin {"add", "reget"}

LEMMA KeySteps ==
  ASSUME TypeOK, RetiredInv, HSM = {} \/ Grace, NEW s \in Servers, ServerStep(s), NEW t \in Types
  PROVE  KeyStep(s, ca[t], origin[t], ca'[t], origin'[t])
  <1>0. /\ ca[t] \in CertAuthorities /\ AuthorityInv(t) /\ AddInv(s)
        /\ \A u \in Types : ca[u] \in CertAuthorities
    BY DEF TypeOK, RetiredInv
  <1>1. ASSUME ca'[t] = ca[t], origin'[t] = origin[t] PROVE KeyStep(s, ca[t], origin[t], ca'[t], origin'[t])
    BY <1>0, <1>1 DEF AuthorityInv, KeyStep, Retires, InProgress
  <1>2. CASE RotateOne(s)
    <2> DEFINE ask == request[s].ask
               rotated(u, keys) == processRotationRequest(ca[u], ask.target, ask.mode, keys, ask.forced)
    <2>1. PICK u \in Types, keys \in SUBSET Keys :
            /\ supported(ca[u], ask.target)
            /\ NewKeys(s, ca[u], ask.target, keys)
            /\ Write(u, rotated(u, keys)) /\ UNCHANGED loop
      BY <1>2 DEF RotateOne, CompareAndSwapCertAuthority
    <2>2. ask.target \in Phases /\ ask.mode \in Modes /\ ask.forced \in BOOLEAN
      BY DEF TypeOK, Requests, Asks
    <2>3. rotated(u, keys) \in CertAuthorities
      BY <1>0, <2>2, ProcessType
    <2>4. CASE u # t
      BY <1>1, <2>1, <2>3, <2>4, WriteEffect
    <2>5. CASE u = t
      <3>1. /\ ca'[t] = rotated(t, keys)
            /\ origin'[t] = IF ca'[t].id # ca[t].id THEN ca[t].active ELSE origin[t]
        BY <2>1, <2>3, <2>5, WriteEffect
      <3>2. /\ ca[t].additional \subseteq keys
            /\ \A k \in keys \ ca[t].additional : k \notin generated /\ k \in generated'
            /\ ask.target = "init" => keys # {}
        BY <2>1, <2>5 DEF NewKeys, newKeySet, keySetHasLocalKeys
      <3>3. Trusted(ca[t]) \subseteq generated /\ ca[t].active \cap ca[t].additional = {}
        BY <1>0 DEF AuthorityInv, Separated
      <3>4. keys \cap ca[t].active = {}
        BY <3>2, <3>3 DEF Trusted
      <3>5. ask.target = "init" /\ ask.forced => ca[t].additional = {}
        BY <1>0, <2>1, <2>5 DEF AddInv, AuthorityInv, Alone, supported, InProgress
      <3>6. ask.target = "init" => /\ keys # {} /\ ca[t].additional \subseteq keys
                                   /\ keys \cap ca[t].active = {}
                                   /\ ask.forced => ca[t].additional = {}
        BY <3>2, <3>4, <3>5
      <3>7. supported(ca[t], ask.target) /\ Separated(ca[t], origin[t]) /\ (HSM = {} => Alone(ca[t]))
        BY <1>0, <2>1, <2>5 DEF AuthorityInv
      <3>8. Trusted(ca'[t]) \subseteq Trusted(ca[t]) \cup keys
        BY <1>0, <2>2, <3>1, ProcessTrusts
      <3> HIDE DEF ask
      <3>9. /\ Separated(ca'[t], origin'[t]) /\ (Alone(ca[t]) => Alone(ca'[t]))
            /\ Retires(ca[t], origin[t], ca'[t])
        BY <1>0, <2>2, <3>1, <3>6, <3>7, ProcessSeparates
      <3>10. \A k \in Trusted(ca'[t]) \ Trusted(ca[t]) : k \notin generated /\ k \in generated'
        BY <3>2, <3>8 DEF Trusted
      <3>11. QED BY <2>1, <3>7, <3>9, <3>10 DEF KeyStep
    <2>6. QED BY <2>4, <2>5
  <1>3. CASE autoRotate(s)
    <2> DEFINE rotated(u) == processRotationRequest(ca[u], nextPhase(ca[u].phase), "auto", {}, FALSE)
    <2>1. PICK u \in Types : ca[u].phase \in AutoPhases /\ Write(u, rotated(u))
      BY <1>3 DEF autoRotate, CompareAndSwapCertAuthority, AutoDue, Scheduled
    <2>2. /\ nextPhase(ca[u].phase) \in Phases \ {"init"} /\ "auto" \in Modes
          /\ supported(ca[u], nextPhase(ca[u].phase))
      BY <2>1 DEF nextPhase, AutoPhases, Phases, Modes, supported
    <2>3. rotated(u) \in CertAuthorities
      BY <1>0, <2>2, ProcessType
    <2>4. CASE u # t
      BY <1>1, <2>1, <2>3, <2>4, WriteEffect
    <2>5. CASE u = t
      <3>1. /\ ca'[t] = rotated(t)
            /\ origin'[t] = IF ca'[t].id # ca[t].id THEN ca[t].active ELSE origin[t]
        BY <2>1, <2>3, <2>5, WriteEffect
      <3>2. /\ Separated(ca'[t], origin'[t]) /\ (Alone(ca[t]) => Alone(ca'[t]))
            /\ Retires(ca[t], origin[t], ca'[t])
        <4>1. PICK target \in Phases, mode \in Modes, keys \in SUBSET Keys, forced \in BOOLEAN :
                /\ target # "init" /\ supported(ca[t], target)
                /\ ca'[t] = processRotationRequest(ca[t], target, mode, keys, forced)
          BY <2>2, <2>5, <3>1
        <4> HIDE DEF rotated
        <4>2. Separated(ca[t], origin[t])
          BY <1>0 DEF AuthorityInv
        <4>3. QED BY <1>0, <3>1, <4>1, <4>2, ProcessSeparates
      <3>3. Trusted(ca'[t]) \subseteq Trusted(ca[t])
        BY <1>0, <2>2, <2>5, <3>1, ProcessTrusts
      <3>4. QED BY <1>0, <3>2, <3>3 DEF AuthorityInv, KeyStep
    <2>6. QED BY <2>4, <2>5
  <1>4. CASE AddKeys(s)
    <2> DEFINE key == loop[s].key
               new(u) == CA(ca[u].active, ca[u].additional \cup {key}, ca[u].phase, ca[u].mode, ca[u].id)
    <2>1. PICK u \in Types : loop[s].pc = "add" /\ Write(u, new(u)) /\ loop' = [loop EXCEPT ![s] = Done(s, u)]
      BY <1>4 DEF AddKeys, CompareAndSwapCertAuthority
    <2>2. key \in Keys /\ HSM # {} /\ key \notin Trusted(ca[u])
      BY <1>0, <2>1 DEF AddInv, TypeOK, Loops
    <2>3. loop'[s].pc \notin {"add", "reget"}
      BY <2>1, DoneFields DEF TypeOK
    <2>4. new(u) \in CertAuthorities
      BY <1>0, <2>2, CAType DEF CertAuthorities
    <2>5. /\ new(u).active = ca[u].active /\ new(u).additional = ca[u].additional \cup {key}
          /\ new(u).phase = ca[u].phase /\ new(u).id = ca[u].id
      BY CAFields
    <2> HIDE DEF new
    <2>6. CASE u # t
      BY <1>1, <2>1, <2>4, <2>6, WriteEffect
    <2>7. CASE u = t
      <3>1. ca'[t] = new(u) /\ origin'[t] = origin[t]
        BY <2>1, <2>4, <2>5, <2>7, WriteEffect
      <3> HIDE DEF key
      <3>2. Separated(ca'[t], origin'[t])
        BY <1>0, <2>2, <2>5, <2>7, <3>1 DEF AuthorityInv, Separated, Trusted
      <3>3. Retires(ca[t], origin[t], ca'[t])
        BY <2>5, <2>7, <3>1 DEF Retires
      <3>4. \A k \in Trusted(ca'[t]) \ Trusted(ca[t]) : k = key
        BY <2>5, <2>7, <3>1 DEF Trusted
      <3>5. QED BY <2>1, <2>2, <2>3, <3>2, <3>3, <3>4 DEF KeyStep, key
    <2>8. QED BY <2>6, <2>7
  <1>5. CASE UNCHANGED <<ca, origin>>
    BY <1>1, <1>5
  <1>6. CASE (RotateBegin(s) \/ RotateCertAuthority(s)) /\ ~RotateOne(s)
    BY <1>5, <1>6 DEF RotateBegin, RotateCertAuthority, RotateRead, RotateRefused, RotateConflict, RotateFailed, KeepCAs
  <1>7. CASE autoRotateCertAuthorities(s) /\ ~autoRotate(s) /\ ~AddKeys(s)
    BY <1>5, <1>7 DEF autoRotateCertAuthorities, AutoBegin, AutoGet, AutoSkip, AutoConflict, AddNotNeeded,
                AddConflict, AddReGet, KeepCAs
  <1>8. CASE AutoFailed(s) \/ Boot(s) \/ Crash(s)
    BY <1>5, <1>8 DEF AutoFailed, Boot, Start, BootKeys, BootCollect, BootDelete, Crash, KeepCAs
  <1>9. QED BY <1>2, <1>3, <1>4, <1>6, <1>7, <1>8 DEF ServerStep

LEMMA OwnAdd ==
  ASSUME TypeOK, RetiredInv, HSM = {} \/ Grace, NEW s \in Servers, ServerStep(s)
  PROVE  AddInv(s)'
  <1> DEFINE l == loop[s]
  <1>0. /\ \A x : loop' = [loop EXCEPT ![s] = x] => loop'[s] = x
        /\ \A x : request' = [request EXCEPT ![s] = x] => request'[s] = x
    BY DEF TypeOK
  <1>1. /\ AddInv(s) /\ generated \subseteq generated'
        /\ \A t \in Types : AuthorityInv(t) /\ Trusted(ca[t]) \subseteq generated
    BY StepGenerates DEF RetiredInv, AuthorityInv
  <1>2. request'[s].ask.forced => ~Grace
    <2>1. CASE RotateBegin(s)
      <3>1. PICK ts \in {Types} \cup {{t} : t \in Types}, target \in Phases, mode \in RequestModes,
                 forced \in BOOLEAN, t \in Types :
              /\ forced => ~Grace
              /\ request' = [request EXCEPT ![s] =
                   ReadOne(t, Request(ts, Types, TRUE, NoRequest.snap,
                                      [target |-> target, mode |-> mode, forced |-> forced]))]
        BY <2>1 DEF RotateBegin
      <3>2. request'[s] = ReadOne(t, Request(ts, Types, TRUE, NoRequest.snap,
                                     [target |-> target, mode |-> mode, forced |-> forced]))
        BY <1>0, <3>1
      <3>3. request'[s].ask.forced = forced
        BY <3>2 DEF ReadOne, Request
      <3>4. QED BY <3>1, <3>3
    <2>2. CASE RotateCertAuthority(s) \/ Crash(s)
      <3>1. request'[s] = NoRequest \/ request'[s].ask = request[s].ask
        <4>1. CASE RotateRead(s)
          <5>1. PICK t \in Types : request' = [request EXCEPT ![s] = ReadOne(t, request[s])]
            BY <4>1 DEF RotateRead
          <5>2. request'[s] = ReadOne(t, request[s])
            BY <1>0, <5>1
          <5>3. QED BY <5>2 DEF ReadOne, Request
        <4>2. CASE RotateRefused(s) \/ RotateConflict(s) \/ RotateFailed(s) \/ Crash(s)
          BY <1>0, <4>2 DEF RotateRefused, RotateConflict, RotateFailed, Crash
        <4>3. CASE RotateOne(s)
          <5>1. PICK t \in Types :
                  request' = [request EXCEPT ![s] =
                    IF request[s].types \ {t} = {} THEN NoRequest
                    ELSE Request(request[s].types \ {t}, {}, request[s].ordered, request[s].snap, request[s].ask)]
            BY <4>3 DEF RotateOne
          <5>2. \/ request'[s] = NoRequest
                \/ request'[s] = Request(request[s].types \ {t}, {}, request[s].ordered, request[s].snap, request[s].ask)
            BY <1>0, <5>1
          <5>3. QED BY <5>2 DEF Request
        <4>4. QED BY <2>2, <4>1, <4>2, <4>3 DEF RotateCertAuthority
      <3>2. QED BY <1>1, <3>1, NoRequestFields DEF AddInv
    <2>3. CASE UNCHANGED request
      BY <1>1, <2>3 DEF AddInv
    <2>4. CASE autoRotateCertAuthorities(s) \/ AutoFailed(s) \/ Boot(s)
      BY <2>3, <2>4 DEF autoRotateCertAuthorities, AutoBegin, AutoGet, AutoSkip, autoRotate, AutoConflict,
           AddNotNeeded, AddKeys, AddConflict, AddReGet, AutoFailed, Boot, Start, BootKeys, BootCollect, BootDelete
    <2>5. QED BY <2>1, <2>2, <2>4 DEF ServerStep
  \* A key that is kept to be added stays apart from the authorities.
  <1>3. ASSUME l.pc \in {"add", "reget"}, loop'[s].key = l.key, loop'[s].pc \in {"add", "reget"}
        PROVE  AddInv(s)'
    <2>1. HSM # {} /\ l.key \in generated' /\ Owner[l.key] = s
      BY <1>1, <1>3 DEF AddInv
    <2>2. ASSUME NEW t \in Types PROVE l.key \notin Trusted(ca'[t])
      <3>1. KeyStep(s, ca[t], origin[t], ca'[t], origin'[t])
        BY KeySteps
      <3>2. l.key \notin Trusted(ca[t]) /\ l.key \in generated
        BY <1>1, <1>3 DEF AddInv
      <3>3. QED BY <1>3, <3>1, <3>2 DEF KeyStep
    <2>3. QED BY <1>2, <1>3, <2>1, <2>2 DEF AddInv
  <1>4. ASSUME loop'[s].pc \notin {"add", "reget", "rotate"} PROVE AddInv(s)'
    BY <1>2, <1>4 DEF AddInv
  <1>5. ASSUME NEW t \in Types, loop'[s] = Loop("rotate", l.todo, ca[t], NoKey)
                                \/ loop'[s] = Loop("rotate", Types, ca[t], NoKey) PROVE AddInv(s)'
    BY <1>1, <1>2, <1>5, LoopFields DEF AddInv, AuthorityInv
  <1>6. ASSUME NEW t \in Types, NEW c, ensureLocalAdditionalKeys(s, t, c),
               c \in CertAuthorities, HSM = {} => c.additional # {}, l.pc \in {"rotate", "boot"}
        PROVE  AddInv(s)'
    <2>1. CASE keySetHasLocalKeys(s, c.additional)
      BY <1>0, <1>4, <1>6, <2>1, DoneFields DEF ensureLocalAdditionalKeys
    <2>2. CASE ~keySetHasLocalKeys(s, c.additional)
      <3>1. HSM # {}
        BY <1>6, <2>2, ServerAssumption DEF keySetHasLocalKeys, CertAuthorities
      <3>2. PICK k \in Keys : newKeySet(s, k) /\ loop'[s] = Loop("add", loop[s].todo, c, k)
        BY <1>0, <1>6, <2>2 DEF ensureLocalAdditionalKeys
      <3>3. k \in generated' /\ Owner[k] = s /\ k \notin generated
        BY <3>2 DEF newKeySet
      <3>4. ASSUME NEW u \in Types PROVE k \notin Trusted(ca'[u])
        <4>1. KeyStep(s, ca[u], origin[u], ca'[u], origin'[u])
          BY KeySteps
        <4>2. loop'[s].pc = "add"
          BY <3>2, LoopFields
        <4>3. QED BY <1>1, <1>6, <3>3, <4>1, <4>2 DEF KeyStep
      <3>5. QED BY <1>2, <3>1, <3>2, <3>3, <3>4, LoopFields DEF AddInv
    <2>3. QED BY <2>1, <2>2
  <1>7. CASE RotateBegin(s) \/ RotateCertAuthority(s)
    <2>1. UNCHANGED loop
      BY <1>7 DEF RotateBegin, RotateCertAuthority, RotateRead, RotateRefused, RotateOne, RotateConflict, RotateFailed
    <2>2. CASE l.pc \in {"add", "reget"}
      BY <1>3, <2>1, <2>2
    <2>3. CASE l.pc \notin {"add", "reget"}
      BY <1>1, <1>2, <2>1, <2>3 DEF AddInv
    <2>4. QED BY <2>2, <2>3
  <1>8. CASE AutoBegin(s) \/ AutoGet(s)
    BY <1>0, <1>5, <1>8 DEF AutoBegin, AutoGet
  <1>9. CASE AddConflict(s) \/ AddReGet(s)
    BY <1>0, <1>3, <1>9, LoopFields DEF AddConflict, AddReGet
  <1>10. CASE AutoConflict(s) \/ AutoFailed(s) \/ BootDelete(s) \/ Crash(s) \/ Start(s) \/ BootCollect(s)
    <2>1. \E pc \in {"idle", "down", "boot", "collect", "delete"}, todo \in SUBSET Types : loop'[s] = At(pc, todo)
      BY <1>0, <1>10, TypesAssumption
      DEF AutoConflict, AutoFailed, BootDelete, Crash, Start, BootCollect, TypeOK, Loops
    <2>2. QED BY <1>4, <2>1, LoopFields
  <1>11. CASE AddNotNeeded(s) \/ AddKeys(s)
    BY <1>0, <1>4, <1>11, DoneFields DEF AddNotNeeded, AddKeys
  <1>12. CASE AutoSkip(s) \/ autoRotate(s)
    <2>1. PICK t \in Types : AutoEnsure(s, t)
      BY <1>12 DEF AutoSkip, autoRotate
    <2>2. l.pc = "rotate" /\ l.cur \in CertAuthorities /\ (HSM = {} => Alone(l.cur))
      BY <1>1, <1>12 DEF AutoSkip, autoRotate, AddInv, TypeOK, Loops
    <2>3. CASE l.cur.phase = "init"
      BY <1>6, <2>1, <2>2, <2>3 DEF AutoEnsure, Alone, InProgress
    <2>4. CASE l.cur.phase # "init"
      BY <1>0, <1>4, <2>1, <2>4, DoneFields DEF AutoEnsure
    <2>5. QED BY <2>3, <2>4
  <1>13. CASE BootKeys(s)
    <2>1. l.pc = "boot" /\ HostCA \in Types /\ ca[HostCA] \in CertAuthorities
      BY <1>13, TypesAssumption DEF BootKeys, TypeOK
    <2>2. CASE keySetHasLocalKeys(s, ca[HostCA].active)
      BY <1>0, <1>4, <1>13, <2>2, DoneFields DEF BootKeys
    <2>3. CASE ~keySetHasLocalKeys(s, ca[HostCA].active)
      <3>1. HSM # {}
        BY <1>1, <2>1, <2>3, ServerAssumption DEF AuthorityInv, Alone, keySetHasLocalKeys, CertAuthorities
      <3>2. QED BY <1>6, <1>13, <2>1, <2>3, <3>1 DEF BootKeys
    <2>4. QED BY <2>2, <2>3
  <1>14. QED
    BY <1>7, <1>8, <1>9, <1>10, <1>11, <1>12, <1>13 DEF ServerStep, autoRotateCertAuthorities, Boot

\* A rotation, of any length and whoever drives it, retires the keys that signed
\* before it, as long as the cluster has no HSMs or nobody skips the grace
\* period.
THEOREM RotationOldKeysRetired ==
  ASSUME HSM = {} \/ Grace
  PROVE  Spec => OldKeysRetired
  <1>1. Init => RetiredInv
    <2> SUFFICES ASSUME Init PROVE RetiredInv
      OBVIOUS
    <2>1. ASSUME NEW t \in Types PROVE AuthorityInv(t)
      <3>1. ca[t].active = InitialKeys[t] /\ ca[t].additional = {} /\ ca[t].phase = "standby"
        BY NewFields DEF Init
      <3>2. Trusted(ca[t]) \subseteq generated
        BY <3>1 DEF Init, Trusted
      <3>3. QED BY <3>1, <3>2, TypesAssumption DEF AuthorityInv, Separated, Alone, InProgress
    <2>2. ASSUME NEW s \in Servers PROVE AddInv(s)
      BY LoopFields, NoRequestFields DEF Init, AddInv
    <2>3. QED BY <2>1, <2>2 DEF RetiredInv
  <1>2. ASSUME TypeOK, RetiredInv, NEW s \in Servers, ServerStep(s) PROVE RetiredInv'
    <2>1. ASSUME NEW t \in Types PROVE AuthorityInv(t)'
      <3>1. KeyStep(s, ca[t], origin[t], ca'[t], origin'[t])
        BY <1>2, KeySteps
      <3>2. Trusted(ca[t]) \subseteq generated /\ generated \subseteq generated' /\ AddInv(s)
        BY <1>2, StepGenerates DEF RetiredInv, AuthorityInv
      <3>3. Trusted(ca'[t]) \subseteq generated'
        BY <3>1, <3>2 DEF KeyStep, AddInv
      <3>4. QED BY <3>1, <3>3 DEF AuthorityInv, KeyStep
    <2>2. ASSUME NEW u \in Servers, u # s PROVE AddInv(u)'
      <3>1. loop'[u] = loop[u] /\ request'[u] = request[u] /\ AddInv(u) /\ AddInv(s)
        BY <1>2, <2>2, OtherServers DEF RetiredInv
      <3>2. ASSUME loop[u].pc \in {"add", "reget"}, NEW t \in Types PROVE loop[u].key \notin Trusted(ca'[t])
        <4>1. KeyStep(s, ca[t], origin[t], ca'[t], origin'[t])
          BY <1>2, KeySteps
        <4>2. loop[u].key \notin Trusted(ca[t]) /\ loop[u].key \in generated /\ Owner[loop[u].key] = u
          BY <3>1, <3>2 DEF AddInv
        <4>3. loop[s].pc = "add" => loop[u].key # loop[s].key
          BY <2>2, <3>1, <4>2 DEF AddInv
        <4>4. QED BY <4>1, <4>2, <4>3 DEF KeyStep
      <3>3. generated \subseteq generated'
        BY <1>2, StepGenerates
      <3>4. QED BY <3>1, <3>2, <3>3 DEF AddInv
    <2>3. AddInv(s)'
      BY <1>2, OwnAdd
    <2>4. QED BY <2>1, <2>2, <2>3 DEF RetiredInv
  <1>3. TypeOK /\ RetiredInv /\ [Next]_vars => RetiredInv'
    <2> SUFFICES ASSUME TypeOK, RetiredInv, [Next]_vars PROVE RetiredInv'
      OBVIOUS
    <2>1. CASE Tick \/ UNCHANGED vars
      <3>1. UNCHANGED <<ca, origin, generated, request, loop>>
        BY <2>1 DEF Tick, vars
      <3>2. ASSUME NEW t \in Types PROVE AuthorityInv(t)'
        BY <3>1 DEF RetiredInv, AuthorityInv
      <3>3. ASSUME NEW s \in Servers PROVE AddInv(s)'
        BY <3>1 DEF RetiredInv, AddInv
      <3>4. QED BY <3>2, <3>3 DEF RetiredInv
    <2>2. QED BY <1>2, <2>1 DEF Next, ServerStep
  <1>4. TypeOK /\ RetiredInv /\ [Next]_vars
          => [\A t \in Types :
                /\ Forced(t) => ca[t].active \cap Trusted(ca'[t]) = {}
                /\ ca[t].phase = "update_servers" /\ ca'[t].phase = "standby"
                     => origin[t] \cap Trusted(ca'[t]) = {}]_vars
    <2> SUFFICES ASSUME TypeOK, RetiredInv, Next, NEW t \in Types PROVE Retires(ca[t], origin[t], ca'[t])
      BY DEF Retires, Forced
    <2>1. CASE Tick
      BY <2>1 DEF Tick, Retires
    <2>2. ASSUME NEW s \in Servers, ServerStep(s) PROVE Retires(ca[t], origin[t], ca'[t])
      BY <2>2, KeySteps DEF KeyStep
    <2>3. QED BY <2>1, <2>2 DEF Next, ServerStep
  <1>5. QED BY <1>1, <1>3, <1>4, RotationTypeCorrect, PTL DEF Spec, OldKeysRetired

-----------------------------------------------------------------------------
(* Authorities that share a key. *)

\* The phase a request for one target leaves an authority in.
Outcome(ask) == IF ask.target = "init" /\ ask.forced THEN "standby" ELSE ask.target

Shares(snap, t, u) == Trusted(snap[t]) \cap Trusted(snap[u]) # {}

\* Authorities begin with the same keys, a copy of each other, or with none in
\* common.
InitiallyCopies ==
    \A t, u \in Types : InitialKeys[t] = InitialKeys[u] \/ InitialKeys[t] \cap InitialKeys[u] = {}

\* The keys of authority t, in the backend and in the copies of requests.
Seen(t) == Trusted(ca[t]) \cup UNION {Trusted(request[s].snap[t]) : s \in Servers}

\* The first keys of an authority come and go together.
Whole(c, t) ==
    \A part \in {c.active, c.additional} : InitialKeys[t] \subseteq part \/ InitialKeys[t] \cap part = {}

\* A key that a server has generated and not added yet is in no authority.
PendingInv(s) ==
    loop[s].pc \in {"add", "reget"} =>
        /\ loop[s].key \in generated /\ Owner[loop[s].key] = s
        /\ \A t \in Types : loop[s].key \notin Seen(t) /\ loop[s].key \notin InitialKeys[t]

\* Two authorities only ever share keys they began with.
SeparateInv ==
    /\ \A t \in Types : Seen(t) \subseteq generated /\ InitialKeys[t] \subseteq generated
    /\ \A t, u \in Types : t # u => Seen(t) \cap Seen(u) \subseteq InitialKeys[t] \cap InitialKeys[u]

WholeInv ==
    /\ \A t \in Types : Whole(ca[t], t)
    /\ \A s \in Servers, t \in Types : Whole(request[s].snap[t], t)

\* Without requests for it nothing is rotated automatically.
ManualInv ==
    /\ \A t \in Types : ca[t].mode # "auto"
    /\ \A s \in Servers : request[s].ask.mode # "auto" /\ loop[s].cur.mode # "auto"

\* The authorities that share a key with one that is still to be rotated are
\* to be rotated too or have been.
CarriedInv(s) ==
    LET r == request[s]
    IN  /\ s \notin Admins => r.types = {}
        /\ r.unread # {} => r.types = Types \/ \E v \in Types : r.types = {v}
        /\ r.unread = {} => \A t \in r.types, u \in Types :
                               Shares(r.snap, t, u) => u \in r.types \/ ca[u].phase = Outcome(r.ask)

SharedInv == /\ SeparateInv /\ WholeInv /\ ManualInv
             /\ \A s \in Servers : PendingInv(s) /\ CarriedInv(s)

LEMMA RequestFields ==
  ASSUME NEW a, NEW b, NEW c, NEW d, NEW e
  PROVE  /\ Request(a, b, c, d, e).types = a /\ Request(a, b, c, d, e).unread = b
         /\ Request(a, b, c, d, e).ordered = c /\ Request(a, b, c, d, e).snap = d
         /\ Request(a, b, c, d, e).ask = e
  BY DEF Request

\* What a server that has no request has read.
LEMMA NoSnapshot ==
  /\ NoRequest.ask.mode = "" /\ NoCA.mode = "" /\ NoCA \in CertAuthorities
  /\ \A t \in Types : NoRequest.snap[t] = NoCA /\ Trusted(NoCA) = {} /\ Whole(NoCA, t)
  <1>1. NoCA.active = {} /\ NoCA.additional = {} /\ NoCA.mode = ""
    BY DEF NoCA, NewCertAuthority, CA
  <1>2. NoRequest.ask.mode = "" /\ NoRequest.snap = [t \in Types |-> NoCA]
    BY DEF NoRequest, Request
  <1>3. QED BY <1>1, <1>2, NewType DEF Trusted, Whole, NoCA

\* The result of a read: what was asked for is kept, one authority is read.
LEMMA ReadOneFields ==
  ASSUME NEW t \in Types, NEW r \in Requests
  PROVE  /\ ReadOne(t, r).ask = r.ask
         /\ \A u \in Types : ReadOne(t, r).snap[u] = IF u = t THEN ca[t] ELSE r.snap[u]
         /\ r.unread = {t} => /\ ReadOne(t, r).unread = {}
                              /\ ReadOne(t, r).types = findDuplicatedCertificates(r.types, ReadOne(t, r).snap)
         /\ r.unread # {t} => /\ ReadOne(t, r).unread = r.unread \ {t}
                              /\ ReadOne(t, r).types = r.types
  <1> DEFINE snap == [r.snap EXCEPT ![t] = ca[t]]
             types == findDuplicatedCertificates(r.types, snap)
  <1>1. \A u \in Types : snap[u] = IF u = t THEN ca[t] ELSE r.snap[u]
    BY DEF Requests
  <1> HIDE DEF snap, types
  <1>2. CASE r.unread = {t}
    <2>1. ReadOne(t, r) = Request(types, {}, types = r.types, snap, r.ask)
      BY <1>2 DEF ReadOne, snap, types
    <2>2. QED BY <1>1, <1>2, <2>1, RequestFields DEF types
  <1>3. CASE r.unread # {t}
    <2>1. ReadOne(t, r) = Request(r.types, r.unread \ {t}, TRUE, snap, r.ask)
      BY <1>3 DEF ReadOne, snap, types
    <2>2. /\ ReadOne(t, r).ask = r.ask /\ ReadOne(t, r).snap = snap
          /\ ReadOne(t, r).unread = r.unread \ {t} /\ ReadOne(t, r).types = r.types
      BY <2>1 DEF Request
    <2>3. QED BY <1>1, <1>3, <2>2
  <1>4. QED BY <1>2, <1>3

\* The first step of a request.
LEMMA BeginEffect ==
  ASSUME TypeOK, NEW s \in Servers, RotateBegin(s)
  PROVE  \E t \in Types, r \in Requests :
            /\ r.unread = Types /\ (r.types = Types \/ \E v \in Types : r.types = {v})
            /\ r.snap = NoRequest.snap /\ r.ask.mode \in RequestModes
            /\ s \in Admins
            /\ request' = [request EXCEPT ![s] = ReadOne(t, r)]
            /\ request'[s] = ReadOne(t, r)
  <1>1. PICK ts \in {Types} \cup {{t} : t \in Types}, target \in Phases, mode \in RequestModes,
             forced \in BOOLEAN, t \in Types :
          request' = [request EXCEPT ![s] =
            ReadOne(t, Request(ts, Types, TRUE, NoRequest.snap,
                               [target |-> target, mode |-> mode, forced |-> forced]))]
    BY DEF RotateBegin
  <1> DEFINE ask == [target |-> target, mode |-> mode, forced |-> forced]
             r == Request(ts, Types, TRUE, NoRequest.snap, ask)
  <1>2. ask \in Asks /\ ask.mode = mode
    BY RequestAssumption DEF Asks, Modes
  <1>3. ts \in SUBSET Types /\ (ts = Types \/ \E v \in Types : ts = {v})
    OBVIOUS
  <1> HIDE DEF ask
  <1>4. r \in Requests
    BY <1>2, <1>3, RequestType, NoRequestType
  <1>5. r.unread = Types /\ r.types = ts /\ r.snap = NoRequest.snap /\ r.ask = ask
    BY DEF Request
  <1>6. request' = [request EXCEPT ![s] = ReadOne(t, r)]
    BY <1>1 DEF ask
  <1> HIDE DEF r
  <1>7. request'[s] = ReadOne(t, r)
    BY <1>6 DEF TypeOK
  <1>8. s \in Admins
    BY DEF RotateBegin
  <1>9. QED BY <1>2, <1>3, <1>4, <1>5, <1>6, <1>7, <1>8

\* What a server does to its request.
LEMMA RequestMoves ==
  ASSUME TypeOK, NEW s \in Servers, ServerStep(s)
  PROVE  \/ request'[s] = request[s] /\ ~RotateOne(s)
         \/ RotateBegin(s)
         \/ \E t \in Types : IsFirst(t, request[s].unread) /\ request'[s] = ReadOne(t, request[s]) /\ RotateRead(s)
         \/ request'[s] = NoRequest
         \/ RotateOne(s) /\ \E t \in Types :
              /\ IsNext(t, request[s])
              /\ request'[s] = Request(request[s].types \ {t}, {}, request[s].ordered, request[s].snap, request[s].ask)
  <1>0. \A x : request' = [request EXCEPT ![s] = x] => request'[s] = x
    BY DEF TypeOK
  <1>1. CASE RotateRead(s)
    BY <1>0, <1>1 DEF RotateRead
  <1>2. CASE RotateRefused(s) \/ RotateConflict(s) \/ RotateFailed(s) \/ Crash(s)
    BY <1>0, <1>2 DEF RotateRefused, RotateConflict, RotateFailed, Crash
  <1>3. CASE RotateOne(s)
    <2>1. PICK t \in Types :
            /\ IsNext(t, request[s])
            /\ request' = [request EXCEPT ![s] =
                  IF request[s].types \ {t} = {} THEN NoRequest
                  ELSE Request(request[s].types \ {t}, {}, request[s].ordered, request[s].snap, request[s].ask)]
      BY <1>3 DEF RotateOne
    <2>2. QED BY <1>0, <1>3, <2>1
  <1>4. CASE (autoRotateCertAuthorities(s) \/ AutoFailed(s) \/ Boot(s)) /\ ~RotateOne(s)
    <2>1. UNCHANGED request
      BY <1>4 DEF autoRotateCertAuthorities, AutoBegin, AutoGet, AutoSkip, autoRotate, AutoConflict,
           AddNotNeeded, AddKeys, AddConflict, AddReGet, AutoFailed, Boot, Start, BootKeys, BootCollect, BootDelete
    <2>2. QED BY <1>4, <2>1
  <1>5. QED BY <1>1, <1>2, <1>3, <1>4 DEF ServerStep, RotateCertAuthority

\* The copies of a request are authorities as they were read.
LEMMA CopiesRead ==
  ASSUME TypeOK, NEW s \in Servers, ServerStep(s), NEW t \in Types
  PROVE  request'[s].snap[t] \in {NoCA, ca[t], request[s].snap[t]}
  <1>1. request[s] \in Requests
    BY DEF TypeOK
  <1>2. CASE RotateBegin(s)
    <2>1. PICK u \in Types, r \in Requests : r.snap = NoRequest.snap /\ request'[s] = ReadOne(u, r)
      BY <1>2, BeginEffect
    <2>2. ReadOne(u, r).snap[t] = IF t = u THEN ca[u] ELSE r.snap[t]
      BY ReadOneFields
    <2>3. QED BY <2>1, <2>2, NoSnapshot
  <1>3. ASSUME NEW u \in Types, request'[s] = ReadOne(u, request[s])
        PROVE  request'[s].snap[t] \in {NoCA, ca[t], request[s].snap[t]}
    <2>1. ReadOne(u, request[s]).snap[t] = IF t = u THEN ca[u] ELSE request[s].snap[t]
      BY <1>1, ReadOneFields
    <2>2. QED BY <1>3, <2>1
  <1>4. CASE request'[s] = NoRequest
    BY <1>4, NoSnapshot
  <1>5. ASSUME NEW u \in Types,
               request'[s] = Request(request[s].types \ {u}, {}, request[s].ordered, request[s].snap, request[s].ask)
        PROVE  request'[s].snap[t] \in {NoCA, ca[t], request[s].snap[t]}
    BY <1>5, RequestFields
  <1>6. QED BY <1>2, <1>3, <1>4, <1>5, RequestMoves

\* Nothing but a request sets the mode of an authority.
LEMMA ProcessMode ==
  ASSUME NEW c \in CertAuthorities, NEW target \in Phases, NEW mode, mode # "auto", NEW new, NEW forced
  PROVE  processRotationRequest(c, target, mode, new, forced).mode # "auto"
  <1> DEFINE p == processRotationRequest(c, target, mode, new, forced)
  <1>1. CASE target = "init"
    BY <1>1, CAFields DEF processRotationRequest, startNewRotation
  <1>2. CASE target \in {"update_clients", "update_servers"}
    BY <1>2, CAFields DEF processRotationRequest, updateClients, updateServers
  <1>3. CASE target = "rollback"
    BY <1>3, CAFields DEF processRotationRequest, startRollingBackRotation
  <1>4. CASE target = "standby"
    <2>1. p = completeRotation(c)
      BY <1>4 DEF processRotationRequest
    <2> HIDE DEF p
    <2>2. p.mode = ""
      BY <2>1 DEF completeRotation, CA
    <2>3. QED BY <2>2 DEF p
  <1>5. QED BY <1>1, <1>2, <1>3, <1>4 DEF Phases

LEMMA ProcessPhase ==
  ASSUME NEW c \in CertAuthorities, NEW ask \in Asks, NEW new
  PROVE  processRotationRequest(c, ask.target, ask.mode, new, ask.forced).phase = Outcome(ask)
  <1> DEFINE p == processRotationRequest(c, ask.target, ask.mode, new, ask.forced)
  <1>1. CASE ask.target = "init"
    BY <1>1, CAFields DEF processRotationRequest, startNewRotation, Outcome
  <1>2. CASE ask.target \in {"update_clients", "update_servers"}
    BY <1>2, CAFields DEF processRotationRequest, updateClients, updateServers, Outcome
  <1>3. CASE ask.target = "rollback"
    BY <1>3, CAFields DEF processRotationRequest, startRollingBackRotation, Outcome
  <1>4. CASE ask.target = "standby"
    <2>1. p = completeRotation(c)
      BY <1>4 DEF processRotationRequest
    <2> HIDE DEF p
    <2>2. p.phase = "standby"
      BY <2>1 DEF completeRotation, CA
    <2>3. QED BY <1>4, <2>2 DEF p, Outcome
  <1>5. ask.target \in Phases
    BY DEF Asks
  <1>6. QED BY <1>1, <1>2, <1>3, <1>4, <1>5 DEF Phases

\* The key sets of the result are those of the authority, the new one or empty.
LEMMA ProcessParts ==
  ASSUME NEW c \in CertAuthorities, NEW target \in Phases, NEW mode, NEW new, NEW forced
  PROVE  /\ processRotationRequest(c, target, mode, new, forced).active \in {c.active, c.additional, new, {}}
         /\ processRotationRequest(c, target, mode, new, forced).additional \in {c.active, c.additional, new, {}}
  <1> DEFINE p == processRotationRequest(c, target, mode, new, forced)
  <1>1. CASE target = "init"
    BY <1>1, CAFields DEF processRotationRequest, startNewRotation
  <1>2. CASE target \in {"update_clients", "update_servers"}
    BY <1>2, CAFields DEF processRotationRequest, updateClients, updateServers
  <1>3. CASE target = "rollback"
    BY <1>3, CAFields DEF processRotationRequest, startRollingBackRotation
  <1>4. CASE target = "standby"
    <2>1. p = completeRotation(c)
      BY <1>4 DEF processRotationRequest
    <2> HIDE DEF p
    <2>2. p.active = c.active /\ p.additional = {}
      BY <2>1 DEF completeRotation, CA
    <2>3. QED BY <2>2 DEF p
  <1>5. QED BY <1>1, <1>2, <1>3, <1>4 DEF Phases

\* The step that rotates one authority, from the copy of the request.
LEMMA RotateEffect ==
  ASSUME TypeOK, NEW s \in Servers, RotateOne(s)
  PROVE  \E t \in Types, new \in SUBSET Keys :
            /\ IsNext(t, request[s]) /\ request[s].types # {} /\ request[s].unread = {}
            /\ request[s].ask \in Asks
            /\ request'[s].types = request[s].types \ {t}
            /\ UNCHANGED loop
            /\ \A k \in new \ ca[t].additional : k \notin generated /\ k \in generated'
            /\ ca[t].additional \subseteq new
            /\ ca'[t] = processRotationRequest(ca[t], request[s].ask.target, request[s].ask.mode, new,
                                               request[s].ask.forced)
            /\ \A u \in Types \ {t} : ca'[u] = ca[u]
  <1> DEFINE r == request[s]
             p(t, new) == processRotationRequest(ca[t], r.ask.target, r.ask.mode, new, r.ask.forced)
  <1>1. PICK t \in Types, new \in SUBSET Keys :
          /\ IsNext(t, r)
          /\ NewKeys(s, ca[t], r.ask.target, new)
          /\ Write(t, p(t, new))
          /\ request' = [request EXCEPT ![s] =
               IF r.types \ {t} = {} THEN NoRequest ELSE Request(r.types \ {t}, {}, r.ordered, r.snap, r.ask)]
          /\ UNCHANGED loop
    BY DEF RotateOne, CompareAndSwapCertAuthority
  <1>2. r.ask \in Asks /\ r.ask.target \in Phases /\ r.ask.mode \in Modes /\ r.ask.forced \in BOOLEAN
        /\ ca[t] \in CertAuthorities
    BY DEF TypeOK, Requests, Asks
  <1>3. p(t, new) \in CertAuthorities
    BY <1>2, ProcessType
  <1>4. /\ ca'[t] = p(t, new)
        /\ \A u \in Types \ {t} : ca'[u] = ca[u]
    <2> HIDE DEF p
    <2>1. QED BY <1>1, <1>3, WriteEffect
  <1>5. request'[s].types = r.types \ {t}
    <2>1. request'[s] = IF r.types \ {t} = {} THEN NoRequest
                        ELSE Request(r.types \ {t}, {}, r.ordered, r.snap, r.ask)
      BY <1>1 DEF TypeOK
    <2> HIDE DEF r
    <2>2. CASE r.types \ {t} = {}
      BY <2>1, <2>2, NoRequestFields
    <2>3. CASE r.types \ {t} # {}
      <3>1. request'[s] = Request(r.types \ {t}, {}, r.ordered, r.snap, r.ask)
        BY <2>1, <2>3
      <3>2. QED BY <3>1 DEF Request
    <2>4. QED BY <2>2, <2>3
  <1>6. /\ ca[t].additional \subseteq new
        /\ \A k \in new \ ca[t].additional : k \notin generated /\ k \in generated'
    BY <1>1 DEF NewKeys, newKeySet
  <1>7. r.types # {} /\ r.unread = {}
    BY <1>1 DEF IsNext
  <1>8. QED BY <1>1, <1>2, <1>4, <1>5, <1>6, <1>7

\* The step that adds a key.
LEMMA AddEffect ==
  ASSUME TypeOK, NEW s \in Servers, AddKeys(s)
  PROVE  /\ loop[s].pc = "add" /\ loop'[s].pc \notin {"add", "reget"}
         /\ UNCHANGED <<request, generated>>
         /\ \E t \in Types :
              /\ ca'[t].active = ca[t].active /\ ca'[t].additional = ca[t].additional \cup {loop[s].key}
              /\ ca'[t].phase = ca[t].phase /\ ca'[t].mode = ca[t].mode
              /\ \A u \in Types \ {t} : ca'[u] = ca[u]
  <1> DEFINE k == loop[s].key
  <1>1. PICK t \in Types :
          /\ Write(t, CA(ca[t].active, ca[t].additional \cup {k}, ca[t].phase, ca[t].mode, ca[t].id))
          /\ loop' = [loop EXCEPT ![s] = Done(s, t)]
    BY DEF AddKeys, CompareAndSwapCertAuthority
  <1>2. k \in Keys /\ ca[t] \in CertAuthorities
    BY DEF AddKeys, TypeOK, Loops
  <1>3. loop'[s] = Done(s, t)
    BY <1>1 DEF TypeOK
  <1>4. loop[s].pc = "add" /\ loop'[s].pc \notin {"add", "reget"} /\ UNCHANGED <<request, generated>>
    BY <1>3, DoneFields DEF AddKeys, KeepKeys
  <1> HIDE DEF k
  <1> DEFINE c == CA(ca[t].active, ca[t].additional \cup {k}, ca[t].phase, ca[t].mode, ca[t].id)
  <1>5. c \in CertAuthorities
    BY <1>2, CAType DEF CertAuthorities
  <1>6. /\ c.active = ca[t].active /\ c.additional = ca[t].additional \cup {k}
        /\ c.phase = ca[t].phase /\ c.mode = ca[t].mode
    BY CAFields
  <1> HIDE DEF c
  <1>7. ca'[t] = c /\ \A u \in Types \ {t} : ca'[u] = ca[u]
    BY <1>1, <1>5, WriteEffect DEF c
  <1>8. QED BY <1>4, <1>6, <1>7 DEF k

LEMMA NothingAutomatic ==
  ASSUME ManualInv, NEW s \in Servers, ServerStep(s)
  PROVE  ~autoRotate(s) /\ (UNCHANGED ca \/ RotateOne(s) \/ AddKeys(s))
  <1>1. ~autoRotate(s)
    BY DEF autoRotate, AutoDue, Scheduled, ManualInv
  <1>2. CASE (RotateBegin(s) \/ RotateCertAuthority(s)) /\ ~RotateOne(s)
    BY <1>1, <1>2 DEF RotateBegin, RotateCertAuthority, RotateRead, RotateRefused, RotateConflict, RotateFailed, KeepCAs
  <1>3. CASE autoRotateCertAuthorities(s) /\ ~AddKeys(s)
    BY <1>1, <1>3 DEF autoRotateCertAuthorities, AutoBegin, AutoGet, AutoSkip, AutoConflict, AddNotNeeded,
                AddConflict, AddReGet, KeepCAs
  <1>4. CASE AutoFailed(s) \/ Boot(s) \/ Crash(s)
    BY <1>1, <1>4 DEF AutoFailed, Boot, Start, BootKeys, BootCollect, BootDelete, Crash, KeepCAs
  <1>5. QED BY <1>1, <1>2, <1>3, <1>4 DEF ServerStep

LEMMA AtCur == ASSUME NEW pc, NEW todo PROVE At(pc, todo).cur = NoCA
  BY DEF At, Loop

LEMMA DoneCur == ASSUME NEW s, NEW t PROVE Done(s, t).cur = NoCA
  BY AtCur DEF Done

\* The copy of the loop is an authority as it was read, and the key it wants to
\* add is one it has just generated.
Fresh(s, k) == k \notin generated /\ k \in generated' /\ Owner[k] = s

LEMMA LoopMoves ==
  ASSUME TypeOK, NEW s \in Servers, ServerStep(s), ~autoRotate(s)
  PROVE  /\ loop'[s].cur \in {NoCA, loop[s].cur} \cup {ca[t] : t \in Types}
         /\ loop'[s].pc \in {"add", "reget"} =>
              \/ loop[s].pc \in {"add", "reget"} /\ loop'[s].key = loop[s].key
              \/ Fresh(s, loop'[s].key) /\ UNCHANGED <<ca, request>>
  <1> DEFINE l == loop[s]
             Ok == /\ loop'[s].cur \in {NoCA, loop[s].cur} \cup {ca[t] : t \in Types}
                   /\ loop'[s].pc \in {"add", "reget"} =>
                        \/ loop[s].pc \in {"add", "reget"} /\ loop'[s].key = loop[s].key
                        \/ Fresh(s, loop'[s].key) /\ UNCHANGED <<ca, request>>
  <1>0. \A x : loop' = [loop EXCEPT ![s] = x] => loop'[s] = x
    BY DEF TypeOK
  <1>1. CASE UNCHANGED loop
    BY <1>1
  <1>2. CASE RotateBegin(s) \/ RotateCertAuthority(s)
    BY <1>1, <1>2 DEF RotateBegin, RotateCertAuthority, RotateRead, RotateRefused, RotateOne, RotateConflict, RotateFailed
  <1>3. CASE AutoBegin(s) \/ AutoGet(s)
    <2>1. PICK t \in Types, todo \in SUBSET Types : loop'[s] = Loop("rotate", todo, ca[t], NoKey)
      BY <1>0, <1>3 DEF AutoBegin, AutoGet, TypeOK, Loops
    <2>2. loop'[s].pc = "rotate" /\ loop'[s].cur = ca[t]
      BY <2>1, LoopFields
    <2>3. QED BY <2>2
  <1>4. CASE AddConflict(s)
    <2>1. l.pc = "add" /\ loop'[s] = Loop("reget", l.todo, l.cur, l.key)
      BY <1>0, <1>4 DEF AddConflict
    <2>2. QED BY <2>1, LoopFields
  <1>5. CASE AddReGet(s)
    <2>1. PICK t \in Types : l.pc = "reget" /\ loop'[s] = Loop("add", l.todo, ca[t], l.key)
      BY <1>0, <1>5 DEF AddReGet
    <2>2. loop'[s].key = l.key /\ loop'[s].cur = ca[t]
      BY <2>1, LoopFields
    <2>3. QED BY <2>1, <2>2
  <1>6. CASE AutoConflict(s) \/ AutoFailed(s) \/ BootDelete(s) \/ Crash(s) \/ Start(s) \/ BootCollect(s)
    <2>1. PICK pc \in {"idle", "down", "boot", "collect", "delete"}, todo \in SUBSET Types : loop'[s] = At(pc, todo)
      BY <1>0, <1>6, TypesAssumption
      DEF AutoConflict, AutoFailed, BootDelete, Crash, Start, BootCollect, TypeOK, Loops
    <2>2. loop'[s].cur = NoCA /\ loop'[s].pc = pc
      BY <2>1, LoopFields, AtCur
    <2>3. QED BY <2>2
  <1>7. ASSUME NEW t \in Types, loop'[s] = Done(s, t) PROVE Ok
    BY <1>7, DoneFields, DoneCur
  <1>8. ASSUME NEW t \in Types, NEW c \in CertAuthorities, ensureLocalAdditionalKeys(s, t, c),
               c \in {l.cur} \cup {ca[u] : u \in Types}, UNCHANGED <<ca, request>>
        PROVE  Ok
    <2>1. CASE keySetHasLocalKeys(s, c.additional)
      BY <1>0, <1>7, <1>8, <2>1 DEF ensureLocalAdditionalKeys
    <2>2. CASE ~keySetHasLocalKeys(s, c.additional)
      <3>1. PICK k \in Keys : newKeySet(s, k) /\ loop'[s] = Loop("add", loop[s].todo, c, k)
        BY <1>0, <1>8, <2>2 DEF ensureLocalAdditionalKeys
      <3>2. Fresh(s, k)
        BY <3>1 DEF newKeySet, Fresh
      <3>3. loop'[s].cur = c /\ loop'[s].key = k
        BY <3>1, LoopFields
      <3>4. QED BY <1>8, <3>2, <3>3
    <2>3. QED BY <2>1, <2>2
  <1>9. CASE AddNotNeeded(s) \/ AddKeys(s)
    BY <1>0, <1>7, <1>9 DEF AddNotNeeded, AddKeys
  <1>10. CASE AutoSkip(s)
    <2>1. PICK t \in Types : AutoEnsure(s, t)
      BY <1>10 DEF AutoSkip
    <2>2. l.cur \in CertAuthorities /\ UNCHANGED <<ca, request>>
      BY <1>10 DEF AutoSkip, KeepCAs, TypeOK, Loops
    <2>3. CASE l.cur.phase = "init"
      BY <1>8, <2>1, <2>2, <2>3 DEF AutoEnsure
    <2>4. CASE l.cur.phase # "init"
      BY <1>0, <1>7, <2>1, <2>4 DEF AutoEnsure
    <2>5. QED BY <2>3, <2>4
  <1>11. CASE BootKeys(s)
    <2>1. HostCA \in Types /\ ca[HostCA] \in CertAuthorities /\ UNCHANGED <<ca, request>>
      BY <1>11, TypesAssumption DEF BootKeys, KeepCAs, TypeOK
    <2>2. CASE keySetHasLocalKeys(s, ca[HostCA].active)
      BY <1>0, <1>7, <1>11, <2>1, <2>2 DEF BootKeys
    <2>3. CASE ~keySetHasLocalKeys(s, ca[HostCA].active)
      BY <1>8, <1>11, <2>1, <2>3 DEF BootKeys
    <2>4. QED BY <2>2, <2>3
  <1>12. QED
    BY <1>2, <1>3, <1>4, <1>5, <1>6, <1>9, <1>10, <1>11 DEF ServerStep, autoRotateCertAuthorities, Boot

LEMMA ManualStep ==
  ASSUME TypeOK, ManualInv, "auto" \notin RequestModes, NEW s \in Servers, ServerStep(s)
  PROVE  ManualInv'
  <1>0. \A t \in Types : ca[t] \in CertAuthorities
    BY DEF TypeOK
  <1>1. ASSUME NEW t \in Types PROVE ca'[t].mode # "auto"
    <2>1. CASE RotateOne(s)
      <3>1. PICK u \in Types, new \in SUBSET Keys :
              /\ request[s].ask \in Asks
              /\ ca'[u] = processRotationRequest(ca[u], request[s].ask.target, request[s].ask.mode, new,
                                                 request[s].ask.forced)
              /\ \A v \in Types \ {u} : ca'[v] = ca[v]
        BY <2>1, RotateEffect
      <3>2. request[s].ask.mode # "auto" /\ request[s].ask.target \in Phases
        BY <3>1 DEF ManualInv, Asks
      <3>3. ca'[u].mode # "auto"
        BY <1>0, <3>1, <3>2, ProcessMode
      <3>4. QED BY <3>1, <3>3 DEF ManualInv
    <2>2. CASE AddKeys(s)
      <3>1. PICK u \in Types : ca'[u].mode = ca[u].mode /\ \A v \in Types \ {u} : ca'[v] = ca[v]
        BY <2>2, AddEffect
      <3>2. QED BY <3>1 DEF ManualInv
    <2>3. QED BY <2>1, <2>2, NothingAutomatic DEF ManualInv
  <1>2. ASSUME NEW u \in Servers PROVE loop'[u].cur.mode # "auto"
    <2>1. CASE u = s
      BY <2>1, LoopMoves, NothingAutomatic, NoSnapshot DEF ManualInv
    <2>2. CASE u # s
      BY <2>2, OtherServers DEF ManualInv
    <2>3. QED BY <2>1, <2>2
  <1>3. ASSUME NEW u \in Servers PROVE request'[u].ask.mode # "auto"
    <2>1. CASE u # s
      BY <2>1, OtherServers DEF ManualInv
    <2>2. CASE u = s
      <3>1. CASE RotateBegin(s)
        <4>1. PICK t \in Types, r \in Requests : r.ask.mode \in RequestModes /\ request'[s] = ReadOne(t, r)
          BY <3>1, BeginEffect
        <4>2. QED BY <2>2, <4>1, ReadOneFields
      <3>2. ASSUME NEW t \in Types, request'[s] = ReadOne(t, request[s]) PROVE request'[s].ask.mode # "auto"
        <4>1. request[s] \in Requests
          BY DEF TypeOK
        <4>2. QED BY <3>2, <4>1, ReadOneFields DEF ManualInv
      <3>3. ASSUME NEW t \in Types,
                   request'[s] = Request(request[s].types \ {t}, {}, request[s].ordered, request[s].snap, request[s].ask)
            PROVE  request'[s].ask.mode # "auto"
        <4>1. request'[s].ask = request[s].ask
          BY <3>3 DEF Request
        <4>2. QED BY <4>1 DEF ManualInv
      <3>4. CASE request'[s] = NoRequest
        BY <2>2, <3>4, NoSnapshot
      <3>5. QED BY <2>2, <3>1, <3>2, <3>3, <3>4, RequestMoves DEF ManualInv
    <2>3. QED BY <2>1, <2>2
  <1>4. QED BY <1>1, <1>2, <1>3 DEF ManualInv

\* No copy has a key that was not seen before.
LEMMA SeenMoves ==
  ASSUME TypeOK, NEW s \in Servers, ServerStep(s), NEW t \in Types
  PROVE  Seen(t)' \subseteq Seen(t) \cup Trusted(ca'[t])
  <1> SUFFICES ASSUME NEW k \in Seen(t)', k \notin Trusted(ca'[t]) PROVE k \in Seen(t)
    OBVIOUS
  <1>1. PICK u \in Servers : k \in Trusted(request'[u].snap[t])
    BY DEF Seen
  <1>2. CASE u # s
    BY <1>1, <1>2, OtherServers DEF Seen
  <1>3. CASE u = s
    <2>1. request'[s].snap[t] \in {NoCA, ca[t], request[s].snap[t]}
      BY CopiesRead
    <2>2. QED BY <1>1, <1>3, <2>1, NoSnapshot DEF Seen
  <1>4. QED BY <1>2, <1>3

\* A step brings at most one authority new keys, and these are nowhere else.
NewTo(t, F) ==
    /\ \A u \in Types : Trusted(ca'[u]) \subseteq Trusted(ca[u]) \cup (IF u = t THEN F ELSE {})
    /\ F \subseteq generated'
    /\ \A u \in Types : F \cap Seen(u) = {} /\ F \cap InitialKeys[u] = {}
    /\ \A r \in Servers : loop'[r].pc \in {"add", "reget"} => loop'[r].key \notin F

LEMMA KeysMove ==
  ASSUME TypeOK, SharedInv, NEW s \in Servers, ServerStep(s)
  PROVE  \E t \in Types, F \in SUBSET Keys : NewTo(t, F) /\ (F # {} => ~UNCHANGED ca)
  <1>0. /\ \A t \in Types : ca[t] \in CertAuthorities
        /\ ManualInv /\ SeparateInv /\ generated \subseteq generated'
        /\ \A r \in Servers : PendingInv(r)
    BY StepGenerates DEF TypeOK, SharedInv
  <1>1. CASE UNCHANGED ca
    <2>1. HostCA \in Types
      BY TypesAssumption
    <2>2. NewTo(HostCA, {})
      BY <1>1 DEF NewTo
    <2>3. QED BY <2>1, <2>2
  <1>2. CASE RotateOne(s) /\ ~UNCHANGED ca
    <2>1. PICK t \in Types, new \in SUBSET Keys :
            /\ request[s].ask \in Asks /\ UNCHANGED loop
            /\ \A k \in new \ ca[t].additional : k \notin generated /\ k \in generated'
            /\ ca'[t] = processRotationRequest(ca[t], request[s].ask.target, request[s].ask.mode, new,
                                               request[s].ask.forced)
            /\ \A u \in Types \ {t} : ca'[u] = ca[u]
      BY <1>2, RotateEffect
    <2> DEFINE F == new \ ca[t].additional
    <2>2. request[s].ask.target \in Phases
      BY <2>1 DEF Asks
    <2>3. Trusted(ca'[t]) \subseteq Trusted(ca[t]) \cup new
      BY <1>0, <2>1, <2>2, ProcessTrusts
    <2>4. Trusted(ca'[t]) \subseteq Trusted(ca[t]) \cup F
      BY <2>3 DEF Trusted
    <2>5. F \cap generated = {} /\ F \subseteq generated'
      BY <2>1
    <2> HIDE DEF F
    <2>6. \A u \in Types : F \cap Seen(u) = {} /\ F \cap InitialKeys[u] = {}
      BY <1>0, <2>5 DEF SeparateInv
    <2>7. \A r \in Servers : loop'[r].pc \in {"add", "reget"} => loop'[r].key \notin F
      BY <1>0, <2>1, <2>5 DEF PendingInv
    <2>8. \A u \in Types : Trusted(ca'[u]) \subseteq Trusted(ca[u]) \cup (IF u = t THEN F ELSE {})
      BY <2>1, <2>4
    <2>9. F \in SUBSET Keys
      BY DEF F
    <2>10. QED BY <1>2, <2>5, <2>6, <2>7, <2>8, <2>9 DEF NewTo
  <1>3. CASE AddKeys(s) /\ ~UNCHANGED ca
    <2>1. PICK t \in Types :
            /\ ca'[t].active = ca[t].active /\ ca'[t].additional = ca[t].additional \cup {loop[s].key}
            /\ \A u \in Types \ {t} : ca'[u] = ca[u]
      BY <1>3, AddEffect
    <2>2. loop[s].pc = "add" /\ loop'[s].pc \notin {"add", "reget"} /\ generated' = generated
      BY <1>3, AddEffect
    <2> DEFINE k == loop[s].key
    <2>3. /\ k \in generated /\ Owner[k] = s
          /\ \A u \in Types : k \notin Seen(u) /\ k \notin InitialKeys[u]
      BY <1>0, <2>2 DEF PendingInv
    <2>4. ASSUME NEW r \in Servers, loop'[r].pc \in {"add", "reget"} PROVE loop'[r].key # k
      <3>1. r # s
        BY <2>2, <2>4
      <3>2. loop'[r] = loop[r]
        BY <3>1, OtherServers
      <3>3. QED BY <1>0, <2>3, <2>4, <3>1, <3>2 DEF PendingInv
    <2>5. \A u \in Types : Trusted(ca'[u]) \subseteq Trusted(ca[u]) \cup (IF u = t THEN {k} ELSE {})
      BY <2>1 DEF Trusted
    <2>6. k \in Keys
      BY <2>3 DEF TypeOK
    <2> HIDE DEF k
    <2>7. NewTo(t, {k})
      BY <2>2, <2>3, <2>4, <2>5 DEF NewTo
    <2>8. QED BY <1>3, <2>6, <2>7
  <1>4. QED BY <1>0, <1>1, <1>2, <1>3, NothingAutomatic

LEMMA SeparateStep ==
  ASSUME TypeOK, SharedInv, NEW s \in Servers, ServerStep(s)
  PROVE  SeparateInv' /\ \A r \in Servers : PendingInv(r)'
  <1>1. PICK t \in Types, F \in SUBSET Keys : NewTo(t, F) /\ (F # {} => ~UNCHANGED ca)
    BY KeysMove
  <1>2. ASSUME NEW u \in Types PROVE Seen(u)' \subseteq Seen(u) \cup (IF u = t THEN F ELSE {})
    <2>1. Seen(u)' \subseteq Seen(u) \cup Trusted(ca'[u])
      BY SeenMoves
    <2>2. Trusted(ca'[u]) \subseteq Trusted(ca[u]) \cup (IF u = t THEN F ELSE {})
      BY <1>1 DEF NewTo
    <2>3. Trusted(ca[u]) \subseteq Seen(u)
      BY DEF Seen
    <2>4. QED BY <2>1, <2>2, <2>3
  <1>3. /\ generated \subseteq generated' /\ F \subseteq generated'
        /\ \A u \in Types : F \cap Seen(u) = {}
        /\ \A u \in Types : Seen(u) \subseteq generated /\ InitialKeys[u] \subseteq generated
        /\ \A u, v \in Types : u # v => Seen(u) \cap Seen(v) \subseteq InitialKeys[u] \cap InitialKeys[v]
    BY <1>1, StepGenerates DEF NewTo, SharedInv, SeparateInv
  <1>4. SeparateInv'
    <2>1. \A u \in Types : Seen(u)' \subseteq generated' /\ InitialKeys[u] \subseteq generated'
      BY <1>2, <1>3
    <2>2. ASSUME NEW u \in Types, NEW v \in Types, u # v, NEW k \in Seen(u)' \cap Seen(v)'
          PROVE  k \in InitialKeys[u] \cap InitialKeys[v]
      <3>1. k \in Seen(u) \cup (IF u = t THEN F ELSE {}) /\ k \in Seen(v) \cup (IF v = t THEN F ELSE {})
        BY <1>2, <2>2
      <3>2. k \in Seen(u) /\ k \in Seen(v)
        BY <1>3, <2>2, <3>1
      <3>3. QED BY <1>3, <2>2, <3>2
    <2>3. QED BY <2>1, <2>2 DEF SeparateInv
  <1>5. ASSUME NEW r \in Servers, loop'[r].pc \in {"add", "reget"}
        PROVE  /\ loop'[r].key \in generated' /\ Owner[loop'[r].key] = r
               /\ \A u \in Types : loop'[r].key \notin Seen(u)' /\ loop'[r].key \notin InitialKeys[u]
    <2> DEFINE k == loop'[r].key
    <2>1. ~autoRotate(s)
      BY NothingAutomatic DEF SharedInv
    <2>2. \/ loop[r].pc \in {"add", "reget"} /\ loop[r].key = k
          \/ Fresh(r, k) /\ UNCHANGED <<ca, request>>
      <3>1. CASE r = s
        BY <1>5, <2>1, <3>1, LoopMoves
      <3>2. CASE r # s
        BY <1>5, <3>2, OtherServers
      <3>3. QED BY <3>1, <3>2
    <2>3. CASE loop[r].pc \in {"add", "reget"} /\ loop[r].key = k
      <3>1. /\ k \in generated /\ Owner[k] = r
            /\ \A u \in Types : k \notin Seen(u) /\ k \notin InitialKeys[u]
        BY <2>3 DEF SharedInv, PendingInv
      <3>2. k \notin F
        BY <1>1, <1>5 DEF NewTo
      <3> HIDE DEF k
      <3>3. \A u \in Types : k \notin Seen(u)'
        BY <1>2, <3>1, <3>2
      <3>4. QED BY <1>3, <3>1, <3>3 DEF k
    <2>4. CASE Fresh(r, k) /\ UNCHANGED <<ca, request>>
      <3>1. k \notin generated /\ k \in generated' /\ Owner[k] = r
        BY <2>4 DEF Fresh
      <3> HIDE DEF k
      <3>2. \A u \in Types : k \notin Seen(u)' /\ k \notin InitialKeys[u]
        BY <1>3, <2>4, <3>1 DEF Seen
      <3>3. QED BY <3>1, <3>2 DEF k
    <2>5. QED BY <2>2, <2>3, <2>4
  <1>6. QED BY <1>4, <1>5 DEF PendingInv

LEMMA WholeStep ==
  ASSUME TypeOK, SharedInv, NEW s \in Servers, ServerStep(s)
  PROVE  WholeInv'
  <1>0. /\ \A t \in Types : ca[t] \in CertAuthorities /\ Whole(ca[t], t)
        /\ \A r \in Servers, t \in Types : Whole(request[r].snap[t], t)
        /\ \A t \in Types : InitialKeys[t] \subseteq generated
        /\ ManualInv /\ PendingInv(s)
    BY DEF TypeOK, SharedInv, WholeInv, SeparateInv
  <1>1. ASSUME NEW t \in Types PROVE Whole(ca'[t], t)
    <2>1. CASE RotateOne(s)
      <3>1. PICK u \in Types, new \in SUBSET Keys :
              /\ request[s].ask \in Asks
              /\ \A k \in new \ ca[u].additional : k \notin generated /\ k \in generated'
              /\ ca[u].additional \subseteq new
              /\ ca'[u] = processRotationRequest(ca[u], request[s].ask.target, request[s].ask.mode, new,
                                                 request[s].ask.forced)
              /\ \A v \in Types \ {u} : ca'[v] = ca[v]
        BY <2>1, RotateEffect
      <3>2. CASE t # u
        BY <1>0, <3>1, <3>2
      <3>3. CASE t = u
        <4>1. request[s].ask.target \in Phases
          BY <3>1 DEF Asks
        <4>2. /\ ca'[u].active \in {ca[u].active, ca[u].additional, new, {}}
              /\ ca'[u].additional \in {ca[u].active, ca[u].additional, new, {}}
          BY <1>0, <3>1, <4>1, ProcessParts
        <4>3. InitialKeys[u] \subseteq new \/ InitialKeys[u] \cap new = {}
          BY <1>0, <3>1 DEF Whole
        <4>4. \A part \in {ca[u].active, ca[u].additional, new, {}} :
                 InitialKeys[u] \subseteq part \/ InitialKeys[u] \cap part = {}
          BY <1>0, <4>3 DEF Whole
        <4>5. QED BY <3>3, <4>2, <4>4 DEF Whole
      <3>4. QED BY <3>2, <3>3
    <2>2. CASE AddKeys(s)
      <3>1. PICK u \in Types :
              /\ ca'[u].active = ca[u].active /\ ca'[u].additional = ca[u].additional \cup {loop[s].key}
              /\ \A v \in Types \ {u} : ca'[v] = ca[v]
        BY <2>2, AddEffect
      <3>2. loop[s].key \notin InitialKeys[u]
        BY <1>0, <2>2, AddEffect DEF PendingInv
      <3>3. QED BY <1>0, <3>1, <3>2 DEF Whole
    <2>3. QED BY <1>0, <2>1, <2>2, NothingAutomatic
  <1>2. ASSUME NEW r \in Servers, NEW t \in Types PROVE Whole(request'[r].snap[t], t)
    <2>1. CASE r = s
      <3>1. request'[s].snap[t] \in {NoCA, ca[t], request[s].snap[t]}
        BY CopiesRead
      <3>2. QED BY <1>0, <2>1, <3>1, NoSnapshot
    <2>2. CASE r # s
      BY <1>0, <2>2, OtherServers
    <2>3. QED BY <2>1, <2>2
  <1>3. QED BY <1>1, <1>2 DEF WholeInv

\* Sharing a key is transitive, so that findDuplicatedCertificates, which looks
\* one step far, finds all.
LEMMA DuplicatesFound ==
  ASSUME InitiallyCopies, NEW snap, NEW ts,
         \A t \in Types : Whole(snap[t], t),
         \A t, u \in Types : t # u =>
            Trusted(snap[t]) \cap Trusted(snap[u]) \subseteq InitialKeys[t] \cap InitialKeys[u],
         ts = Types \/ \E v \in Types : ts = {v},
         NEW t \in findDuplicatedCertificates(ts, snap), NEW u \in Types, Shares(snap, t, u)
  PROVE  u \in findDuplicatedCertificates(ts, snap)
  <1>1. CASE ts = Types
    BY <1>1 DEF findDuplicatedCertificates
  <1>2. ASSUME NEW v \in Types, ts = {v} PROVE u \in findDuplicatedCertificates(ts, snap)
    <2>1. CASE t = v
      BY <1>2, <2>1 DEF findDuplicatedCertificates, Shares
    <2>2. CASE t # v
      <3>1. t \in Types /\ Trusted(snap[t]) \cap Trusted(snap[v]) # {}
        BY <1>2, <2>2 DEF findDuplicatedCertificates
      <3>2. CASE u = t
        BY <3>2
      <3>3. CASE u = v
        BY <1>2, <3>3 DEF findDuplicatedCertificates
      <3>4. CASE u # t /\ u # v
        <4>1. PICK k \in InitialKeys[t] \cap InitialKeys[v] : k \in Trusted(snap[v])
          BY <2>2, <3>1
        <4>2. PICK j \in InitialKeys[t] \cap InitialKeys[u] : j \in Trusted(snap[u])
          BY <3>1, <3>4 DEF Shares
        <4>3. InitialKeys[v] = InitialKeys[t]
          BY <3>1, <4>1 DEF InitiallyCopies
        <4>4. InitialKeys[v] \subseteq Trusted(snap[v])
          BY <4>1 DEF Whole, Trusted
        <4>5. j \in Trusted(snap[u]) \cap Trusted(snap[v])
          BY <4>2, <4>3, <4>4
        <4>6. QED BY <1>2, <4>5 DEF findDuplicatedCertificates
      <3>5. QED BY <3>2, <3>3, <3>4
    <2>3. QED BY <2>1, <2>2
  <1>3. QED BY <1>1, <1>2

\* A request that has read the last authority is about all that share a key.
LEMMA ReadAll ==
  ASSUME TypeOK, SharedInv, InitiallyCopies, NEW s \in Servers, ServerStep(s), NEW t \in Types, NEW r \in Requests,
         r.types = Types \/ \E v \in Types : r.types = {v},
         r.unread = {t}, request'[s] = ReadOne(t, r)
  PROVE  \A u \in request'[s].types, v \in Types : Shares(request'[s].snap, u, v) => v \in request'[s].types
  <1> DEFINE snap == request'[s].snap
  <1>1. request'[s].types = findDuplicatedCertificates(r.types, snap)
    BY ReadOneFields
  <1>2. \A u \in Types : Whole(snap[u], u)
    BY WholeStep DEF WholeInv
  <1>3. ASSUME NEW u \in Types, NEW v \in Types, u # v
        PROVE  Trusted(snap[u]) \cap Trusted(snap[v]) \subseteq InitialKeys[u] \cap InitialKeys[v]
    <2>1. Seen(u)' \cap Seen(v)' \subseteq InitialKeys[u] \cap InitialKeys[v]
      BY <1>3, SeparateStep DEF SeparateInv
    <2>2. Trusted(snap[u]) \subseteq Seen(u)' /\ Trusted(snap[v]) \subseteq Seen(v)'
      BY DEF Seen
    <2>3. QED BY <2>1, <2>2
  <1> HIDE DEF snap
  <1>4. \A u \in findDuplicatedCertificates(r.types, snap), v \in Types :
           Shares(snap, u, v) => v \in findDuplicatedCertificates(r.types, snap)
    BY <1>2, <1>3, DuplicatesFound
  <1>5. QED BY <1>1, <1>4 DEF snap

LEMMA CarriedStep ==
  ASSUME TypeOK, SharedInv, InitiallyCopies, \A a, b \in Admins : a = b,
         NEW s \in Servers, ServerStep(s), NEW q \in Servers
  PROVE  CarriedInv(q)'
  <1>0. /\ ManualInv /\ CarriedInv(s) /\ CarriedInv(q)
        /\ request[s] \in Requests /\ request[s].types \in SUBSET Types
    BY DEF SharedInv, TypeOK, Requests
  <1>1. ASSUME ~RotateOne(s), NEW u \in Types PROVE ca'[u].phase = ca[u].phase
    <2>1. CASE AddKeys(s)
      <3>1. PICK t \in Types : ca'[t].phase = ca[t].phase /\ \A v \in Types \ {t} : ca'[v] = ca[v]
        BY <2>1, AddEffect
      <3>2. QED BY <3>1
    <2>2. CASE ~AddKeys(s)
      BY <1>0, <1>1, <2>2, NothingAutomatic
    <2>3. QED BY <2>1, <2>2
  <1>2. ASSUME RotateOne(s) PROVE s \in Admins
    <2>1. request[s].types # {}
      BY <1>2, RotateEffect
    <2>2. QED BY <1>0, <2>1 DEF CarriedInv
  <1>3. CASE q # s
    <2>1. request'[q] = request[q]
      BY <1>3, OtherServers
    <2>2. CASE RotateOne(s)
      <3>1. request[q].types = {}
        BY <1>0, <1>2, <1>3, <2>2 DEF CarriedInv
      <3>2. QED BY <1>0, <2>1, <3>1 DEF CarriedInv
    <2>3. CASE ~RotateOne(s)
      BY <1>0, <1>1, <2>1, <2>3 DEF CarriedInv
    <2>4. QED BY <2>2, <2>3
  <1>4. CASE q = s
    <2>1. CASE request'[s] = request[s] /\ ~RotateOne(s)
      BY <1>0, <1>1, <1>4, <2>1 DEF CarriedInv
    <2>2. CASE request'[s] = NoRequest
      BY <1>4, <2>2, NoRequestFields DEF CarriedInv
    <2>3. ASSUME NEW t \in Types, NEW r \in Requests, request'[s] = ReadOne(t, r), t \in r.unread,
                 r.types = Types \/ \E v \in Types : r.types = {v},
                 s \in Admins
          PROVE  CarriedInv(s)'
      <3>1. CASE r.unread = {t}
        <4>1. \A u \in request'[s].types, v \in Types :
                 Shares(request'[s].snap, u, v) => v \in request'[s].types
          BY <2>3, <3>1, ReadAll
        <4>2. request'[s].unread = {}
          BY <2>3, <3>1, ReadOneFields
        <4>3. QED BY <2>3, <4>1, <4>2 DEF CarriedInv
      <3>2. CASE r.unread # {t}
        <4>1. request'[s].unread = r.unread \ {t} /\ request'[s].types = r.types
          BY <2>3, <3>2, ReadOneFields
        <4>2. request'[s].unread # {}
          BY <2>3, <3>2, <4>1
        <4>3. QED BY <2>3, <4>1, <4>2 DEF CarriedInv
      <3>3. QED BY <3>1, <3>2
    <2>4. CASE RotateBegin(s)
      <3>1. PICK t \in Types, r \in Requests :
              /\ r.unread = Types /\ (r.types = Types \/ \E v \in Types : r.types = {v})
              /\ s \in Admins /\ request'[s] = ReadOne(t, r)
        BY <2>4, BeginEffect
      <3>2. QED BY <1>4, <2>3, <3>1
    <2>5. ASSUME NEW t \in Types, IsFirst(t, request[s].unread), request'[s] = ReadOne(t, request[s])
          PROVE  CarriedInv(s)'
      <3>1. t \in request[s].unread
        BY <2>5 DEF IsFirst
      <3>2. request[s].types = Types \/ \E v \in Types : request[s].types = {v}
        BY <1>0, <3>1 DEF CarriedInv
      <3>3. s \in Admins
        BY <1>0, <3>2, TypesAssumption DEF CarriedInv
      <3>4. QED BY <1>0, <2>3, <2>5, <3>1, <3>2, <3>3
    <2>6. ASSUME RotateOne(s), NEW t \in Types,
                 request'[s] = Request(request[s].types \ {t}, {}, request[s].ordered, request[s].snap, request[s].ask)
          PROVE  CarriedInv(s)'
      <3>1. PICK w \in Types, new \in SUBSET Keys :
              /\ IsNext(w, request[s]) /\ request[s].unread = {} /\ request[s].ask \in Asks
              /\ request'[s].types = request[s].types \ {w}
              /\ ca'[w] = processRotationRequest(ca[w], request[s].ask.target, request[s].ask.mode, new,
                                                 request[s].ask.forced)
              /\ \A u \in Types \ {w} : ca'[u] = ca[u]
        BY <2>6, RotateEffect
      <3>2. request'[s].unread = {} /\ request'[s].snap = request[s].snap /\ request'[s].ask = request[s].ask
        BY <2>6 DEF Request
      <3>3. ca'[w].phase = Outcome(request[s].ask)
        <4>1. ca[w] \in CertAuthorities
          BY DEF TypeOK
        <4>2. QED BY <3>1, <4>1, ProcessPhase
      <3>4. ASSUME NEW u \in request'[s].types, NEW v \in Types, Shares(request'[s].snap, u, v)
            PROVE  v \in request'[s].types \/ ca'[v].phase = Outcome(request'[s].ask)
        <4>1. v \in request[s].types \/ ca[v].phase = Outcome(request[s].ask)
          BY <1>0, <3>1, <3>2, <3>4 DEF CarriedInv
        <4>2. CASE v = w
          BY <3>2, <3>3, <4>2
        <4>3. CASE v # w
          BY <3>1, <3>2, <4>1, <4>3
        <4>4. QED BY <4>2, <4>3
      <3>5. s \in Admins
        BY <1>2, <2>6
      <3>6. QED BY <3>2, <3>4, <3>5 DEF CarriedInv
    <2>7. QED BY <1>4, <2>1, <2>2, <2>4, <2>5, <2>6, RequestMoves
  <1>5. QED BY <1>3, <1>4

LEMMA NewMode == ASSUME NEW k PROVE NewCertAuthority(k).mode = ""
  BY DEF NewCertAuthority, CA

\* One administrator who drives the rotations by hand: whatever the other
\* servers do in the meantime, of their own or at a start, and wherever a request
\* is refused or lost, one that is carried out to its end leaves the authorities
\* that share a key in the same phase.  Another administrator, or the automatic
\* mode, may move one of them before the request is done.
THEOREM RotationSharedInStep ==
  ASSUME \A a, b \in Admins : a = b, "auto" \notin RequestModes, InitiallyCopies
  PROVE  Spec => SharedInStep
  <1>1. Init => SharedInv
    <2> SUFFICES ASSUME Init PROVE SharedInv
      OBVIOUS
    <2>1. ASSUME NEW t \in Types
          PROVE  /\ ca[t].active = InitialKeys[t] /\ ca[t].additional = {} /\ ca[t].mode = ""
                 /\ InitialKeys[t] \subseteq generated
      <3>1. ca[t] = NewCertAuthority(InitialKeys[t])
        BY DEF Init
      <3>2. ca[t].active = InitialKeys[t] /\ ca[t].additional = {}
        BY NewFields DEF Init
      <3>3. ca[t].mode = ""
        BY <3>1, NewMode
      <3>4. QED BY <3>2, <3>3 DEF Init
    <2>2. ASSUME NEW s \in Servers
          PROVE  /\ request[s] = NoRequest
                 /\ loop[s].pc \in {"idle", "down"} /\ loop[s].cur = NoCA
      BY LoopFields, AtCur DEF Init
    <2>3. \A t \in Types : Seen(t) = InitialKeys[t]
      <3>1. \A t \in Types : Trusted(ca[t]) = InitialKeys[t]
        BY <2>1 DEF Trusted
      <3>2. \A s \in Servers, t \in Types : Trusted(request[s].snap[t]) = {}
        BY <2>2, NoSnapshot
      <3>3. QED BY <3>1, <3>2 DEF Seen
    <2>4. SeparateInv
      BY <2>1, <2>3 DEF SeparateInv
    <2>5. WholeInv
      <3>1. \A t \in Types : Whole(ca[t], t)
        BY <2>1 DEF Whole
      <3>2. \A s \in Servers, t \in Types : Whole(request[s].snap[t], t)
        BY <2>2, NoSnapshot
      <3>3. QED BY <3>1, <3>2 DEF WholeInv
    <2>6. ManualInv
      BY <2>1, <2>2, NoSnapshot DEF ManualInv
    <2>7. ASSUME NEW s \in Servers PROVE PendingInv(s) /\ CarriedInv(s)
      BY <2>2, NoRequestFields DEF PendingInv, CarriedInv
    <2>8. QED BY <2>4, <2>5, <2>6, <2>7 DEF SharedInv
  <1>2. TypeOK /\ SharedInv /\ [Next]_vars => SharedInv'
    <2> SUFFICES ASSUME TypeOK, SharedInv, [Next]_vars PROVE SharedInv'
      OBVIOUS
    <2>1. CASE Tick \/ UNCHANGED vars
      <3>1. UNCHANGED <<ca, generated, request, loop>>
        BY <2>1 DEF Tick, vars
      <3>2. \A t : Seen(t)' = Seen(t)
        BY <3>1 DEF Seen
      <3>3. SeparateInv' /\ WholeInv' /\ ManualInv'
        BY <3>1, <3>2 DEF SharedInv, SeparateInv, WholeInv, ManualInv
      <3>4. ASSUME NEW s \in Servers PROVE PendingInv(s)' /\ CarriedInv(s)'
        BY <3>1, <3>2 DEF SharedInv, PendingInv, CarriedInv
      <3>5. QED BY <3>3, <3>4 DEF SharedInv
    <2>2. ASSUME NEW s \in Servers, ServerStep(s) PROVE SharedInv'
      <3>1. ManualInv'
        BY <2>2, ManualStep DEF SharedInv
      <3>2. SeparateInv' /\ WholeInv' /\ \A q \in Servers : PendingInv(q)'
        BY <2>2, SeparateStep, WholeStep
      <3>3. \A q \in Servers : CarriedInv(q)'
        BY <2>2, CarriedStep
      <3>4. QED BY <3>1, <3>2, <3>3 DEF SharedInv
    <2>3. QED BY <2>1, <2>2 DEF Next, ServerStep
  <1>3. TypeOK /\ SharedInv /\ [Next]_vars
          => [\A s \in Servers, t \in Types :
                ca'[t] # ca[t] /\ request[s].types = {t} /\ request'[s].types = {} =>
                    \A u \in Types : Trusted(request[s].snap[t]) \cap Trusted(request[s].snap[u]) # {}
                                         => ca'[u].phase = ca'[t].phase]_vars
    <2> SUFFICES ASSUME TypeOK, SharedInv, Next, NEW s \in Servers, NEW t \in Types,
                        ca'[t] # ca[t], request[s].types = {t}, request'[s].types = {},
                        NEW u \in Types, Shares(request[s].snap, t, u)
                 PROVE  ca'[u].phase = ca'[t].phase
      BY DEF Shares
    <2>1. ~Tick
      BY DEF Tick
    <2>2. PICK q \in Servers : ServerStep(q)
      BY <2>1 DEF Next, ServerStep
    <2>3. q = s
      BY <2>2, OtherServers
    <2>4. CASE RotateOne(s)
      <3>1. PICK w \in Types, new \in SUBSET Keys :
              /\ IsNext(w, request[s]) /\ request[s].unread = {} /\ request[s].ask \in Asks
              /\ ca'[w] = processRotationRequest(ca[w], request[s].ask.target, request[s].ask.mode, new,
                                                 request[s].ask.forced)
              /\ \A v \in Types \ {w} : ca'[v] = ca[v]
        BY <2>4, RotateEffect
      <3>2. w = t
        BY <3>1 DEF IsNext
      <3>3. ca'[t].phase = Outcome(request[s].ask)
        <4>1. ca[w] \in CertAuthorities
          BY DEF TypeOK
        <4>2. QED BY <3>1, <3>2, <4>1, ProcessPhase
      <3>4. u \in {t} \/ ca[u].phase = Outcome(request[s].ask)
        BY <3>1 DEF SharedInv, CarriedInv
      <3>5. QED BY <3>1, <3>2, <3>3, <3>4
    <2>5. CASE ~RotateOne(s)
      <3>1. AddKeys(s)
        BY <2>2, <2>3, <2>5, NothingAutomatic DEF SharedInv
      <3>2. UNCHANGED request
        BY <3>1, AddEffect
      <3>3. QED BY <3>2
    <2>6. QED BY <2>4, <2>5
  <1>4. QED BY <1>1, <1>2, <1>3, RotationTypeCorrect, PTL DEF Spec, SharedInStep

=============================================================================
