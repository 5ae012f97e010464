------------------------- MODULE RotationSyncProofs -------------------------
(***************************************************************************)
(* Proofs about RotationSync for any processes, rotations and crashes.     *)
(***************************************************************************)
EXTENDS RotationSync, TLAPS

-----------------------------------------------------------------------------
(* The inductive invariants *)

\* The count of rotations bounds the identifiers of the authority.
TypeInv == TypeOK /\ ca.id \in 0..MaxRotations /\ cached.id \in 0..MaxRotations

\* One key signs, and one more is trusted while a rotation goes on: the key of
\* this rotation and a key of an earlier one.
ShapeOf(c) ==
    \E i \in 0..c.id :
        /\ c.phase = "standby" => c.active = {KeyOf[i]} /\ c.additional = {}
        /\ c.phase # "standby" => i < c.id
        /\ c.phase \in {"init", "rollback"} =>
               c.active = {KeyOf[i]} /\ c.additional = {KeyOf[c.id]}
        /\ c.phase \in {"update_clients", "update_servers"} =>
               c.active = {KeyOf[c.id]} /\ c.additional = {KeyOf[i]}

\* An identity of the rotation id.
OfRotation(i, id) ==
    /\ i.signer = KeyOf[id]
    /\ \E k \in 0..(id - 1) : KeyOf[k] \in i.trusted

\* A node that writes a replacement has one of the rotation that it follows.
ReplacementInv(n) ==
    /\ state[n] = None => replacement[n] = None /\ pc[n] \in {"new", "joined", "identity", "state"}
    /\ pc[n] \in {"new", "joined"} => state[n] = None
    /\ state[n] # None /\ state[n].phase = "update_clients" /\ replacement[n] # None =>
           OfRotation(replacement[n], state[n].id)
    /\ pc[n] \in {"rotate", "identity", "state"} =>
           seen[n] # None /\ (seen[n].phase = "update_clients" => seen[n].id > 0)
    /\ pc[n] \in {"joined", "identity", "state"} => pending[n] # None
    /\ state[n] # None /\ pc[n] \in {"identity", "state"} /\ seen[n].phase = "update_clients" =>
           /\ OfRotation(pending[n], seen[n].id)
           /\ state[n].phase = "update_clients" => state[n].id = seen[n].id
           /\ pc[n] = "state" => replacement[n] = pending[n]

ReplacementsInv == ShapeOf(ca) /\ ShapeOf(cached) /\ \A n \in Nodes : ReplacementInv(n)

-----------------------------------------------------------------------------

\* The order in which an authority takes the phases of a rotation.
Pos(phase) ==
    IF phase = "init" THEN 1
    ELSE IF phase = "update_clients" THEN 2
    ELSE IF phase = "update_servers" THEN 3
    ELSE IF phase = "rollback" THEN 4
    ELSE 5

Precedes(r, s) == r.id < s.id \/ (r.id = s.id /\ Pos(r.phase) <= Pos(s.phase))

\* How far behind the authority c a rotation state may be: the administrator
\* waits for everyone, but not before a rollback.
InWindow(c, r) ==
    \/ r.id = c.id /\ r.phase = c.phase
    \/ r.id = c.id /\ c.phase = "standby" /\ r.phase \in {"update_servers", "rollback"}
    \/ r.id + 1 = c.id /\ c.phase \in {"init", "rollback"} /\ r.phase = "standby"
    \/ r.id = c.id /\ c.phase = "update_clients" /\ r.phase = "init"
    \/ r.id = c.id /\ c.phase = "update_servers" /\ r.phase = "update_clients"
    \/ r.id = c.id /\ c.phase = "rollback" /\ r.phase \in {"init", "update_clients", "update_servers"}

\* The keys of the time before the rotation.
Old(c) == IF c.phase \in {"update_clients", "update_servers"} THEN c.additional ELSE c.active

\* The cache has the authority, or one that it was while the rotation states
\* in use were current.
CacheInv ==
    /\ InWindow(ca, cached) /\ Precedes(cached, ca)
    /\ cached.id = ca.id /\ cached.phase = ca.phase => cached = ca
    /\ cached.id # ca.id \/ ca.phase = "standby" => cached.active = ca.active
    /\ cached.id = ca.id /\ ca.phase # "standby" =>
           Trusted(cached) = Trusted(ca) /\ Old(cached) = Old(ca)
    /\ ca.phase = "update_servers" => cached.active = ca.active

\* S: the keys that a server may present.
KeysInv(S) ==
    /\ Old(ca) \subseteq S /\ S \subseteq Trusted(ca) \cap Trusted(cached)
    /\ ca.phase \in {"standby", "init", "update_clients"} => S = Old(ca)
    /\ ca.phase = "update_servers" => S = Trusted(ca)
    /\ ca.phase = "rollback" /\ cached.phase = "update_servers" => S = Trusted(ca)

\* A client with this identity reaches every server.
ClientOK(S, i) ==
    /\ i # None
    /\ S \subseteq i.trusted
    /\ i.signer \in Trusted(ca) \cap Trusted(cached)

Follows(p) ==
    /\ state[p] # None
    /\ InWindow(ca, state[p]) /\ InWindow(cached, state[p]) /\ Precedes(state[p], cached)
    /\ pc[p] \notin {"new", "joined"}
    /\ pc[p] \in {"rotate", "identity", "state", "failed"} =>
           /\ seen[p] # None
           /\ InWindow(ca, seen[p]) /\ InWindow(cached, seen[p])
           /\ InWindow(seen[p], state[p]) /\ Precedes(state[p], seen[p])
           /\ Precedes(seen[p], cached)

InMemory(S, p) ==
    /\ pc[p] \in {"idle", "rotate", "failed"} =>
           client[p] = ClientOnDisk(p) /\ server[p] = ServerOnDisk(p)
    /\ client[p] # None => ClientOK(S, client[p])
    /\ server[p] # None => server[p].signer \in S

OnDisk(S, p) ==
    /\ current[p] # None /\ current[p].signer \in S
    /\ state[p].phase \notin {"update_clients", "update_servers"} => ClientOK(S, current[p])
    /\ state[p].phase \in {"update_clients", "update_servers"} => ClientOK(S, replacement[p])
    /\ state[p].phase = "update_servers" => replacement[p].signer \in S
    /\ pc[p] \in {"rotate", "identity", "state"} /\ seen[p].phase = "update_servers" =>
           replacement[p].signer \in S

Writing(S, p) ==
    /\ pc[p] \in {"identity", "state"} =>
           /\ ClientOK(S, pending[p])
           /\ seen[p].phase # "update_clients" => pending[p].signer \in S
    /\ pc[p] = "state" =>
           IF seen[p].phase = "update_clients" THEN replacement[p] = pending[p]
                                               ELSE current[p] = pending[p]

\* What a process that has caught up needs for the phase to come.
Prepared(p) ==
    /\ ca.phase \in {"update_clients", "update_servers"} =>
           /\ state[p].phase \in {"update_clients", "update_servers"} =>
                  replacement[p].signer \in ca.active /\ Trusted(ca) \subseteq replacement[p].trusted
           /\ state[p].phase = "update_servers" => current[p].signer \in ca.active
           /\ pc[p] \in {"identity", "state"} =>
                  pending[p].signer \in ca.active /\ Trusted(ca) \subseteq pending[p].trusted
    /\ ca.phase = "rollback" =>
           /\ state[p].phase = "rollback" => current[p].signer \in ca.active
           /\ pc[p] \in {"identity", "state"} /\ seen[p].phase = "rollback" =>
                  pending[p].signer \in ca.active

Local(S, p) == Follows(p) /\ InMemory(S, p) /\ OnDisk(S, p) /\ Writing(S, p) /\ Prepared(p)

PatientInv ==
    /\ CacheInv
    /\ \E S \in {Old(ca), Trusted(ca)} : KeysInv(S) /\ \A p \in Processes : Local(S, p)

-----------------------------------------------------------------------------
(* Types *)

LEMMA CAFields ==
  ASSUME NEW a, NEW d, NEW p, NEW m, NEW i
  PROVE  /\ CA(a, d, p, m, i).active = a /\ CA(a, d, p, m, i).additional = d
         /\ CA(a, d, p, m, i).phase = p /\ CA(a, d, p, m, i).id = i
  BY DEF CA

LEMMA CAType ==
  ASSUME NEW a \in SUBSET Keys, NEW d \in SUBSET Keys, NEW p \in Phases, NEW m \in Modes,
         NEW i \in 0..MaxRotations
  PROVE  CA(a, d, p, m, i) \in CertAuthorities /\ CA(a, d, p, m, i).id \in 0..MaxRotations
  BY BoundAssumption DEF CA, CertAuthorities

LEMMA CATypes ==
  ASSUME NEW c \in CertAuthorities
  PROVE  c.active \in SUBSET Keys /\ c.additional \in SUBSET Keys /\ c.phase \in Phases /\ c.id \in Nat
  BY DEF CertAuthorities

\* What an authority becomes in the phase that it is asked for.
Moves(c, d) ==
    \/ /\ c.phase = "standby" /\ d.phase = "init" /\ d.id = c.id + 1
       /\ d.active = c.active /\ d.additional = {KeyOf[d.id]}
    \/ /\ c.phase = "init" /\ d.phase = "update_clients" /\ d.id = c.id
       /\ d.active = c.additional /\ d.additional = c.active
    \/ /\ c.phase = "update_clients" /\ d.phase = "update_servers" /\ d.id = c.id
       /\ d.active = c.active /\ d.additional = c.additional
    \/ /\ c.phase = "init" /\ d.phase = "rollback" /\ d.id = c.id
       /\ d.active = c.active /\ d.additional = c.additional
    \/ /\ c.phase \in {"update_clients", "update_servers"} /\ d.phase = "rollback" /\ d.id = c.id
       /\ d.active = c.additional /\ d.additional = c.active
    \/ /\ c.phase \in {"update_servers", "rollback"} /\ d.phase = "standby" /\ d.id = c.id
       /\ d.active = c.active /\ d.additional = {}

\* The request of the administrator moves the authority and nothing else.
LEMMA RotateFact ==
  ASSUME TypeInv, NEW target \in Phases, Rotate(target)
  PROVE  /\ ca' \in CertAuthorities /\ ca'.id \in 0..MaxRotations
         /\ Moves(ca, ca')
         /\ Patient /\ ca'.phase # "rollback" => AllCaughtUp
         /\ UNCHANGED <<cached, state, current, replacement, pc, client, server, seen, pending,
                        crashes>>
  <1>1. PICK key \in Keys : /\ target = "init" => key = KeyOf[ca.id + 1]
                            /\ ca' = processRotationRequest(ca, target, "manual", {key}, FALSE)
    BY DEF Rotate
  <1>2. /\ ca \in CertAuthorities /\ supported(ca, target)
        /\ target = "init" => ca.id < MaxRotations
        /\ Patient /\ target # "rollback" => AllCaughtUp
    BY DEF Rotate, TypeInv, TypeOK
  <1>3. "" \in Modes
    BY DEF Modes
  <1>m. "manual" \in Modes
    BY DEF Modes
  <1>4. ca.active \in SUBSET Keys /\ ca.additional \in SUBSET Keys /\ {} \in SUBSET Keys
        /\ {key} \in SUBSET Keys /\ ca.id \in 0..MaxRotations
    BY <1>2, CATypes DEF TypeInv
  <1>5. /\ ca' \in CertAuthorities /\ ca'.id \in 0..MaxRotations /\ ca'.phase = target
        /\ Moves(ca, ca')
    <2>0. /\ "standby" \in Phases /\ "init" \in Phases /\ "update_clients" \in Phases
          /\ "update_servers" \in Phases /\ "rollback" \in Phases
      BY DEF Phases
    <2>1. CASE target = "init"
      <3>1. ca' = CA(ca.active, {key}, "init", "manual", ca.id + 1)
        BY <1>1, <2>1 DEF processRotationRequest, startNewRotation
      <3>2. ca.id + 1 \in 0..MaxRotations
        BY <1>2, <1>4, <2>1, BoundAssumption
      <3>3. ca' \in CertAuthorities /\ ca'.id \in 0..MaxRotations
        BY <1>4, <1>m, <2>0, <3>1, <3>2, CAType
      <3>4. /\ ca'.active = ca.active /\ ca'.additional = {key} /\ ca'.phase = "init"
            /\ ca'.id = ca.id + 1
        BY <3>1, CAFields
      <3> QED BY <1>1, <1>2, <2>1, <3>3, <3>4 DEF Moves, supported
    <2>2. CASE target = "update_clients"
      <3>1. ca' = CA(ca.additional, ca.active, "update_clients", "manual", ca.id)
        BY <1>1, <2>2 DEF processRotationRequest, updateClients
      <3>2. ca' \in CertAuthorities /\ ca'.id \in 0..MaxRotations
        BY <1>4, <1>m, <2>0, <3>1, CAType
      <3> QED BY <1>2, <2>2, <3>1, <3>2, CAFields DEF Moves, supported
    <2>3. CASE target = "update_servers"
      <3>1. ca' = CA(ca.active, ca.additional, "update_servers", "manual", ca.id)
        BY <1>1, <2>3 DEF processRotationRequest, updateServers
      <3>2. ca' \in CertAuthorities /\ ca'.id \in 0..MaxRotations
        BY <1>4, <1>m, <2>0, <3>1, CAType
      <3> QED BY <1>2, <2>3, <3>1, <3>2, CAFields DEF Moves, supported
    <2>4. CASE target = "rollback" /\ ca.phase = "init"
      <3>1. ca' = CA(ca.active, ca.additional, "rollback", "manual", ca.id)
        BY <1>1, <2>4 DEF processRotationRequest, startRollingBackRotation
      <3>2. ca' \in CertAuthorities /\ ca'.id \in 0..MaxRotations
        BY <1>4, <1>m, <2>0, <3>1, CAType
      <3> QED BY <1>2, <2>4, <3>1, <3>2, CAFields DEF Moves, supported
    <2>5. CASE target = "rollback" /\ ca.phase # "init"
      <3>1. ca' = CA(ca.additional, ca.active, "rollback", "manual", ca.id)
        BY <1>1, <2>5 DEF processRotationRequest, startRollingBackRotation
      <3>2. ca' \in CertAuthorities /\ ca'.id \in 0..MaxRotations
        BY <1>4, <1>m, <2>0, <3>1, CAType
      <3> QED BY <1>2, <2>5, <3>1, <3>2, CAFields DEF Moves, supported
    <2>6. CASE target = "standby"
      <3>1. \E mode \in Modes : ca' = CA(ca.active, {}, "standby", mode, ca.id)
        BY <1>1, <1>3, <2>6 DEF processRotationRequest, completeRotation
      <3>2. ca' \in CertAuthorities /\ ca'.id \in 0..MaxRotations
        BY <1>4, <2>0, <3>1, CAType
      <3>3. /\ ca'.active = ca.active /\ ca'.additional = {} /\ ca'.phase = "standby"
            /\ ca'.id = ca.id
        BY <3>1, CAFields
      <3> QED BY <1>2, <2>6, <3>2, <3>3 DEF Moves, supported
    <2> QED BY <2>1, <2>2, <2>3, <2>4, <2>5, <2>6 DEF Phases
  <1>6. UNCHANGED <<cached, state, current, replacement, pc, client, server, seen, pending, crashes>>
    BY DEF Rotate, disk, memory
  <1> QED BY <1>2, <1>5, <1>6

\* A certificate is an identity.
LEMMA CertificateFact ==
  ASSUME NEW c \in CertAuthorities, NEW i, Certificate(c, i)
  PROVE  i \in Identities /\ i.signer \in c.active /\ i.trusted = Trusted(c)
  BY DEF Certificate, Identity, Identities, CertAuthorities, Trusted

LEMMA TypeInit == Init => TypeInv
  <1> SUFFICES ASSUME Init PROVE TypeInv
    OBVIOUS
  <1>1. /\ KeyOf[0] \in Keys /\ {KeyOf[0]} \in SUBSET Keys /\ 0 \in 0..MaxRotations
        /\ 0 \in 0..MaxCrashes /\ 0 \in Nat /\ "standby" \in Phases /\ "" \in Modes
    BY KeyAssumption, BoundAssumption DEF Phases, Modes
  <1>2. /\ NewCertAuthority({KeyOf[0]}) \in CertAuthorities
        /\ NewCertAuthority({KeyOf[0]}).id = 0
        /\ RotationOf(NewCertAuthority({KeyOf[0]})) \in Rotations
    BY <1>1 DEF NewCertAuthority, CA, CertAuthorities, RotationOf, Rotations
  <1>3. \A fresh \in BOOLEAN : Identity(KeyOf[0], {KeyOf[0]}, fresh) \in Identities
    BY <1>1 DEF Identity, Identities
  <1>4. \A p \in Processes : (p \notin Renamed) \in BOOLEAN
    OBVIOUS
  <1> QED
    BY <1>1, <1>2, <1>3, <1>4 DEF Init, TypeInv, TypeOK, PCs

LEMMA TypeStep == TypeInv /\ [Next]_vars => TypeInv'
  <1> SUFFICES ASSUME TypeInv, [Next]_vars PROVE TypeInv'
    OBVIOUS
  <1>t. RotationOf(cached) \in Rotations
    BY DEF TypeInv, TypeOK, RotationOf, Rotations, CertAuthorities
  <1>1. ASSUME NEW p \in Processes, Step(p) \/ Crash(p) PROVE TypeInv'
    <2> USE DEF TypeInv, TypeOK
    <2>1. CASE connect(p)
      BY <2>1 DEF connect, Go, disk, PCs, ClientOnDisk, ServerOnDisk
    <2>2. CASE Register(p)
      BY <2>2 DEF Register, Go, disk, PCs
    <2>3. CASE JoinRead(p)
      BY <2>3, <1>t DEF JoinRead, Go, disk, PCs
    <2>4. CASE JoinFailed(p)
      BY <2>4 DEF JoinFailed, Go, disk, PCs
    <2>5. CASE syncRotationState(p)
      BY <2>5, <1>t DEF syncRotationState, Go, disk, PCs
    <2>6. CASE RotateNothing(p)
      BY <2>6 DEF RotateNothing, Go, disk, PCs
    <2>7. CASE RotateOutOfSync(p)
      BY <2>7 DEF RotateOutOfSync, Go, disk, memory, PCs
    <2>8. CASE RotateInit(p)
      BY <2>8 DEF RotateInit, Go, PCs
    <2>9. CASE reRegister(p)
      BY <2>9 DEF reRegister, Go, disk, PCs
    <2>10. CASE Promote(p)
      BY <2>10 DEF Promote, Go, disk, PCs
    <2>11. CASE RotateFailed(p)
      BY <2>11 DEF RotateFailed, Go, disk, memory, PCs
    <2>12. CASE WriteIdentity(p)
      BY <2>12 DEF WriteIdentity, Go, PCs
    <2>13. CASE WriteState(p)
      BY <2>13 DEF WriteState, Go, PCs
    <2>14. CASE Retry(p)
      BY <2>14 DEF Retry, Go, disk, PCs
    <2>15. CASE Crash(p)
      BY <2>15, BoundAssumption DEF Crash, Go, disk, PCs
    <2> HIDE DEF TypeInv, TypeOK
    <2> QED
      BY <1>1, <2>1, <2>2, <2>3, <2>4, <2>5, <2>6, <2>7, <2>8, <2>9, <2>10, <2>11, <2>12, <2>13,
         <2>14, <2>15 DEF Step, firstTimeConnect, rotate
  <1>2. ASSUME NEW target \in Phases, Rotate(target) PROVE TypeInv'
    BY <1>2, RotateFact DEF TypeInv, TypeOK
  <1>3. CASE CacheUpdate
    BY <1>3 DEF CacheUpdate, TypeInv, TypeOK, disk, memory
  <1>4. CASE UNCHANGED vars
    BY <1>4 DEF vars, disk, memory, TypeInv, TypeOK
  <1> QED BY <1>1, <1>2, <1>3, <1>4 DEF Next

\* A process keeps nothing on disk or in memory but rotation states of the
\* authority and identities.
THEOREM SyncTypeCorrect == Spec => []TypeOK
  <1>1. TypeInv => TypeOK
    BY DEF TypeInv
  <1> QED BY <1>1, TypeInit, TypeStep, PTL DEF Spec

-----------------------------------------------------------------------------
(* The replacement of a node *)

LEMMA NodeFact == ASSUME NEW n \in Nodes PROVE n \in Processes /\ n \notin Auth
  BY ProcessAssumption DEF Processes

LEMMA ShapeInit ==
  ASSUME NEW c, c = NewCertAuthority({KeyOf[0]})
  PROVE  ShapeOf(c) /\ c.phase = "standby" /\ c.id = 0 /\ c.active = {KeyOf[0]}
  <1>1. c.active = {KeyOf[0]} /\ c.additional = {} /\ c.phase = "standby" /\ c.id = 0
    <2>1. PICK mode : c = CA({KeyOf[0]}, {}, "standby", mode, 0)
      BY DEF NewCertAuthority
    <2> QED BY <2>1 DEF CA
  <1> QED BY <1>1 DEF ShapeOf

\* Every step of the authority keeps one key of the past and one of the rotation.
LEMMA ShapeStep ==
  ASSUME NEW c \in CertAuthorities, NEW d \in CertAuthorities, ShapeOf(c), Moves(c, d)
  PROVE  ShapeOf(d)
  <1>1. c.id \in Nat /\ d.id \in Nat /\ d.id >= c.id /\ (d.phase = "init" => d.id = c.id + 1)
    BY CATypes DEF Moves
  <1>2. PICK i \in 0..c.id :
          /\ c.phase = "standby" => c.active = {KeyOf[i]} /\ c.additional = {}
          /\ c.phase # "standby" => i < c.id
          /\ c.phase \in {"init", "rollback"} =>
                 c.active = {KeyOf[i]} /\ c.additional = {KeyOf[c.id]}
          /\ c.phase \in {"update_clients", "update_servers"} =>
                 c.active = {KeyOf[c.id]} /\ c.additional = {KeyOf[i]}
    BY DEF ShapeOf
  <1>3. CASE d.phase # "standby" \/ c.phase = "rollback"
    <2>1. i \in 0..d.id
      BY <1>1
    <2> QED BY <1>1, <1>2, <1>3, <2>1 DEF ShapeOf, Moves
  <1>4. CASE d.phase = "standby" /\ c.phase # "rollback"
    <2>1. c.id \in 0..d.id
      BY <1>1
    <2> QED BY <1>1, <1>2, <1>4, <2>1 DEF ShapeOf, Moves
  <1> QED BY <1>3, <1>4

\* The certificate of a node that expects update_clients.
LEMMA ExpectedCertificate ==
  ASSUME TypeInv, ShapeOf(ca), ShapeOf(cached), NEW n \in Nodes, NEW r \in Rotations,
         r.phase = "update_clients", r.id > 0, NEW i, GenerateHostCerts(n, r, i)
  PROVE  OfRotation(i, r.id)
  <1>1. ASSUME NEW c \in CertAuthorities, ShapeOf(c), r = RotationOf(c), Certificate(c, i)
        PROVE  OfRotation(i, r.id)
    <2>1. c.phase = "update_clients" /\ c.id = r.id /\ c.id \in Nat
      BY <1>1, CATypes DEF RotationOf
    <2>2. PICK k \in 0..c.id : k < c.id /\ c.active = {KeyOf[c.id]} /\ c.additional = {KeyOf[k]}
      BY <1>1, <2>1 DEF ShapeOf
    <2>3. i.signer \in c.active /\ i.trusted = Trusted(c)
      BY <1>1, CertificateFact
    <2>4. k \in 0..(r.id - 1) /\ KeyOf[k] \in i.trusted
      BY <2>1, <2>2, <2>3 DEF Trusted
    <2> QED BY <2>1, <2>2, <2>3, <2>4 DEF OfRotation
  <1>2. (r = RotationOf(cached) /\ Certificate(cached, i)) \/ (r = RotationOf(ca) /\ Certificate(ca, i))
    BY NodeFact DEF GenerateHostCerts, Rotations
  <1> QED BY <1>1, <1>2 DEF TypeInv, TypeOK

LEMMA ReplacementInit == Init => ReplacementsInv
  <1> SUFFICES ASSUME Init PROVE ReplacementsInv
    OBVIOUS
  <1>1. ShapeOf(ca) /\ ShapeOf(cached) /\ RotationOf(ca).phase = "standby"
        /\ RotationOf(ca) \in Rotations
    BY ShapeInit, TypeInit DEF Init, RotationOf, TypeInv, TypeOK, Rotations, CertAuthorities
  <1>2. ASSUME NEW n \in Nodes PROVE ReplacementInv(n)
    BY <1>1, NodeFact, NoneAssumption DEF Init, ReplacementInv
  <1> QED BY <1>1, <1>2 DEF ReplacementsInv

\* What is untouched stays right.
LEMMA ReplacementSame ==
  ASSUME NEW n, ReplacementInv(n), state'[n] = state[n], replacement'[n] = replacement[n],
         pc'[n] = pc[n], seen'[n] = seen[n], pending'[n] = pending[n]
  PROVE  ReplacementInv(n)'
  BY DEF ReplacementInv, OfRotation

LEMMA ReplacementStep == TypeInv /\ ReplacementsInv /\ [Next]_vars => ReplacementsInv'
  <1> SUFFICES ASSUME TypeInv, ReplacementsInv, [Next]_vars PROVE ReplacementsInv'
    OBVIOUS
  <1> USE NoneAssumption
  <1>t. RotationOf(cached) \in Rotations
    BY DEF TypeInv, TypeOK, RotationOf, Rotations, CertAuthorities
  <1>1. ASSUME NEW p \in Processes, Step(p) \/ Crash(p) PROVE ReplacementsInv'
    <2>1. ca' = ca /\ cached' = cached
      BY <1>1 DEF Step, firstTimeConnect, rotate, Crash, connect, Register, JoinRead, JoinFailed,
         syncRotationState, RotateNothing, RotateOutOfSync, RotateInit, reRegister, Promote,
         RotateFailed, WriteIdentity, WriteState, Retry
    <2>2. ASSUME NEW n \in Nodes PROVE ReplacementInv(n)'
      <3>1. CASE n # p
        <4>1. /\ state'[n] = state[n] /\ replacement'[n] = replacement[n]
              /\ pc'[n] = pc[n] /\ seen'[n] = seen[n] /\ pending'[n] = pending[n]
          BY <1>1, <3>1, NodeFact DEF Step, firstTimeConnect, rotate, Crash, connect, Register,
             JoinRead, JoinFailed, syncRotationState, RotateNothing, RotateOutOfSync, RotateInit,
             reRegister, Promote, RotateFailed, WriteIdentity, WriteState, Retry, Go, disk, memory,
             TypeInv, TypeOK
        <4> QED BY <4>1, ReplacementSame DEF ReplacementsInv
      <3>2. CASE n = p
        <4> SUFFICES ReplacementInv(p)'
          BY <3>2
        <4>1. /\ ReplacementInv(p) /\ p \in Nodes
              /\ state \in [Processes -> Rotations \cup {None}]
              /\ replacement \in [Processes -> Identities \cup {None}]
              /\ pc \in [Processes -> PCs]
              /\ seen \in [Processes -> Rotations \cup {None}]
              /\ pending \in [Processes -> Identities \cup {None}]
          BY <3>2 DEF ReplacementsInv, TypeInv, TypeOK
        <4>2. CASE connect(p)
          BY <4>1, <4>2 DEF connect, Go, disk, ReplacementInv
        <4>3. CASE Register(p)
          BY <4>1, <4>3 DEF Register, Go, disk, ReplacementInv
        <4>4. CASE JoinRead(p)
          <5>1. RotationOf(cached).phase = "update_clients" => RotationOf(cached).id > 0
            BY DEF ReplacementsInv, ShapeOf, RotationOf, TypeInv
          <5> QED BY <4>1, <4>4, <5>1, <1>t DEF JoinRead, Go, disk, ReplacementInv
        <4>5. CASE JoinFailed(p)
          BY <4>1, <4>5 DEF JoinFailed, Go, disk, ReplacementInv
        <4>6. CASE syncRotationState(p)
          <5>1. RotationOf(cached).phase = "update_clients" => RotationOf(cached).id > 0
            BY DEF ReplacementsInv, ShapeOf, RotationOf, TypeInv
          <5> QED BY <4>1, <4>6, <5>1, <1>t DEF syncRotationState, Go, disk, ReplacementInv
        <4>7. CASE RotateNothing(p)
          BY <4>1, <4>7 DEF RotateNothing, Go, disk, ReplacementInv
        <4>8. CASE RotateOutOfSync(p)
          BY <4>1, <4>8 DEF RotateOutOfSync, Go, disk, memory, ReplacementInv
        <4>9. CASE RotateInit(p)
          BY <4>1, <4>9 DEF RotateInit, Rotating, Go, ReplacementInv
        <4>10. CASE reRegister(p)
          <5>1. PICK i \in Identities : /\ GenerateHostCerts(p, seen[p], i)
                                        /\ pending' = [pending EXCEPT ![p] = i]
            BY <4>10 DEF reRegister
          <5>2. /\ pc[p] = "rotate" /\ ~OutOfSync(state[p], seen[p])
                /\ pc' = [pc EXCEPT ![p] = "identity"]
                /\ UNCHANGED <<state, replacement, seen>>
            BY <4>10 DEF reRegister, Rotating, Go, disk
          <5>3. seen[p] \in Rotations /\ state[p] # None
            BY <4>1, <5>2 DEF ReplacementInv
          <5>4. seen[p].phase = "update_clients" =>
                   /\ OfRotation(i, seen[p].id)
                   /\ state[p].phase = "update_clients" => state[p].id = seen[p].id
            BY <4>1, <5>1, <5>2, <5>3, ExpectedCertificate DEF ReplacementsInv, ReplacementInv, OutOfSync
          <5> QED BY <4>1, <5>1, <5>2, <5>3, <5>4 DEF ReplacementInv
        <4>11. CASE Promote(p)
          BY <4>1, <4>11 DEF Promote, Rotating, Go, disk, ReplacementInv
        <4>12. CASE RotateFailed(p)
          BY <4>1, <4>12 DEF RotateFailed, Rotating, Go, disk, memory, ReplacementInv
        <4>13. CASE WriteIdentity(p)
          BY <4>1, <4>13 DEF WriteIdentity, AsReplacement, InStandby, Go, ReplacementInv
        <4>14. CASE WriteState(p)
          BY <4>1, <4>14 DEF WriteState, Go, ReplacementInv
        <4>15. CASE Retry(p)
          BY <4>1, <4>15 DEF Retry, Go, disk, ReplacementInv
        <4>16. CASE Crash(p)
          BY <4>1, <4>16 DEF Crash, Go, disk, ReplacementInv
        <4> QED
          BY <1>1, <4>2, <4>3, <4>4, <4>5, <4>6, <4>7, <4>8, <4>9, <4>10, <4>11, <4>12, <4>13, <4>14,
             <4>15, <4>16 DEF Step, firstTimeConnect, rotate
      <3> QED BY <3>1, <3>2
    <2>3. ShapeOf(ca)' /\ ShapeOf(cached)'
      BY <2>1 DEF ReplacementsInv, ShapeOf
    <2> QED BY <2>2, <2>3 DEF ReplacementsInv
  <1>2. ASSUME NEW target \in Phases, Rotate(target) PROVE ReplacementsInv'
    <2>1. /\ ca' \in CertAuthorities /\ Moves(ca, ca')
          /\ UNCHANGED <<cached, state, replacement, pc, seen, pending>>
      BY <1>2, RotateFact
    <2>2. ShapeOf(ca') /\ ShapeOf(cached')
      BY <2>1, ShapeStep DEF ReplacementsInv, TypeInv, TypeOK, ShapeOf
    <2>3. ASSUME NEW n \in Nodes PROVE ReplacementInv(n)'
      BY <2>1, ReplacementSame DEF ReplacementsInv
    <2> QED BY <2>2, <2>3 DEF ReplacementsInv, ShapeOf
  <1>3. CASE CacheUpdate
    <2>1. cached' = ca /\ UNCHANGED <<ca, state, replacement, pc, seen, pending>>
      BY <1>3 DEF CacheUpdate, disk, memory
    <2>2. ASSUME NEW n \in Nodes PROVE ReplacementInv(n)'
      BY <2>1, ReplacementSame DEF ReplacementsInv
    <2> QED BY <2>1, <2>2 DEF ReplacementsInv, ShapeOf
  <1>4. CASE UNCHANGED vars
    <2>1. UNCHANGED <<ca, cached, state, replacement, pc, seen, pending>>
      BY <1>4 DEF vars, disk, memory
    <2>2. ASSUME NEW n \in Nodes PROVE ReplacementInv(n)'
      BY <2>1, ReplacementSame DEF ReplacementsInv
    <2> QED BY <2>1, <2>2 DEF ReplacementsInv, ShapeOf
  <1> QED BY <1>1, <1>2, <1>3, <1>4 DEF Next

\* GenerateHostCerts and rotate, whatever the administrator does and however
\* far the cache is behind: the replacement identity of a node in
\* update_clients is of the rotation that the node is in.
THEOREM SyncReplacementOfRotation == Spec => []ReplacementOfRotation
  <1>1. ReplacementsInv => ReplacementOfRotation
    BY DEF ReplacementsInv, ReplacementInv, ReplacementOfRotation, OfRotation
  <1> QED BY <1>1, TypeInit, TypeStep, ReplacementInit, ReplacementStep, PTL DEF Spec

-----------------------------------------------------------------------------
(* A patient administrator: the steps of a process *)

LEMMA TrustedFact ==
  ASSUME TypeInv
  PROVE  /\ ca \in CertAuthorities /\ cached \in CertAuthorities
         /\ ca.id \in Nat /\ cached.id \in Nat /\ ca.phase \in Phases /\ cached.phase \in Phases
  BY CATypes DEF TypeInv, TypeOK

LEMMA RotationsFact ==
  ASSUME NEW r \in Rotations
  PROVE  r.id \in Nat /\ r.phase \in Phases /\ r = [phase |-> r.phase, id |-> r.id] /\ r # None
  BY BoundAssumption, NoneAssumption DEF Rotations

\* Whoever is in the phase of the authority has it from a cache that has it too.
LEMMA CacheCurrent ==
  ASSUME TypeInv, CacheInv, NEW r \in Rotations, Precedes(r, cached),
         r.id = ca.id, r.phase = ca.phase
  PROVE  cached = ca
  <1>1. cached.id = ca.id
    BY TrustedFact DEF CacheInv, Precedes
  <1>2. Pos(cached.phase) = Pos(ca.phase)
    BY <1>1, TrustedFact DEF CacheInv, Precedes, Pos
  <1>3. cached.phase = ca.phase
    BY <1>2, TrustedFact DEF Pos, Phases
  <1> QED BY <1>1, <1>3 DEF CacheInv

\* All certificates are made with the cached authority.
LEMMA CachedCertificate ==
  ASSUME TypeInv, CacheInv, NEW p, NEW r \in Rotations, Precedes(r, cached),
         NEW i, GenerateHostCerts(p, r, i)
  PROVE  i \in Identities /\ i.signer \in cached.active /\ i.trusted = Trusted(cached)
  <1>1. Certificate(cached, i)
    <2>1. CASE r = RotationOf(ca)
      <3>1. cached = ca
        BY <2>1, CacheCurrent DEF RotationOf
      <3> QED BY <3>1 DEF GenerateHostCerts
    <2> QED BY <2>1 DEF GenerateHostCerts
  <1> QED BY <1>1, CertificateFact, TrustedFact

\* What is untouched stays right.
LEMMA LocalSame ==
  ASSUME NEW S, NEW p, Local(S, p), ca' = ca, cached' = cached, state'[p] = state[p],
         current'[p] = current[p], replacement'[p] = replacement[p], pc'[p] = pc[p],
         client'[p] = client[p], server'[p] = server[p], seen'[p] = seen[p],
         pending'[p] = pending[p]
  PROVE  Local(S, p)'
  BY DEF Local, Follows, InMemory, OnDisk, Writing, Prepared, ClientOK, ClientOnDisk, ServerOnDisk

LEMMA LocalStep ==
  ASSUME TypeInv, CacheInv, NEW S, KeysInv(S), NEW p \in Processes, Local(S, p),
         Step(p) \/ Crash(p), ca' = ca, cached' = cached
  PROVE  Local(S, p)'
  <1> USE NoneAssumption
  <1>1. /\ state \in [Processes -> Rotations \cup {None}]
        /\ current \in [Processes -> Identities \cup {None}]
        /\ replacement \in [Processes -> Identities \cup {None}]
        /\ pc \in [Processes -> PCs]
        /\ client \in [Processes -> Identities \cup {None}]
        /\ server \in [Processes -> Identities \cup {None}]
        /\ seen \in [Processes -> Rotations \cup {None}]
        /\ pending \in [Processes -> Identities \cup {None}]
    BY DEF TypeInv, TypeOK
  <1>2. /\ state[p] \in Rotations /\ pc[p] \notin {"new", "joined"}
        /\ Follows(p) /\ InMemory(S, p) /\ OnDisk(S, p) /\ Writing(S, p) /\ Prepared(p)
    BY <1>1 DEF Local, Follows
  <1>3. CASE connect(p)
    <2>1. /\ pc[p] \in {"reload", "down"}
          /\ client' = [client EXCEPT ![p] = ClientOnDisk(p)]
          /\ server' = [server EXCEPT ![p] = ServerOnDisk(p)]
          /\ pc' = [pc EXCEPT ![p] = "idle"]
          /\ UNCHANGED <<state, current, replacement, seen, pending>>
      BY <1>3 DEF connect, Go, disk
    <2>2. /\ client'[p] = ClientOnDisk(p) /\ server'[p] = ServerOnDisk(p) /\ pc'[p] = "idle"
          /\ ClientOnDisk(p)' = ClientOnDisk(p) /\ ServerOnDisk(p)' = ServerOnDisk(p)
      BY <1>1, <2>1 DEF ClientOnDisk, ServerOnDisk
    <2>3. ClientOK(S, ClientOnDisk(p)) /\ ServerOnDisk(p).signer \in S
      BY <1>2 DEF OnDisk, ClientOnDisk, ServerOnDisk
    <2>4. InMemory(S, p)'
      BY <2>1, <2>2, <2>3 DEF InMemory, ClientOK
    <2>5. Follows(p)' /\ OnDisk(S, p)' /\ Writing(S, p)' /\ Prepared(p)'
      BY <1>2, <2>1, <2>2 DEF Follows, OnDisk, Writing, Prepared, ClientOK
    <2> QED BY <2>4, <2>5 DEF Local
  <1>4. CASE syncRotationState(p)
    <2>1. /\ pc[p] = "idle" /\ pc'[p] = "rotate" /\ seen'[p] = RotationOf(cached)
          /\ UNCHANGED <<state, current, replacement, client, server, pending>>
      BY <1>1, <1>4 DEF syncRotationState, Go, disk
    <2>2. /\ RotationOf(cached) \in Rotations
          /\ RotationOf(cached).id = cached.id /\ RotationOf(cached).phase = cached.phase
      BY DEF TypeInv, TypeOK, RotationOf, Rotations, CertAuthorities
    <2>3. Follows(p)'
      <3>1. seen'[p] # None
        BY <2>1, <2>2, RotationsFact
      <3>2. InWindow(ca, seen'[p]) /\ InWindow(cached, seen'[p]) /\ Precedes(seen'[p], cached)
        BY <2>1, <2>2, TrustedFact DEF CacheInv, InWindow, Precedes, Pos
      <3>3. InWindow(seen'[p], state[p]) /\ Precedes(state[p], seen'[p])
        BY <1>2, <2>1, <2>2 DEF Follows, InWindow, Precedes
      <3> QED BY <1>2, <2>1, <3>1, <3>2, <3>3 DEF Follows
    <2>4. InMemory(S, p)' /\ Writing(S, p)' /\ Prepared(p)'
      BY <1>2, <2>1 DEF InMemory, Writing, Prepared, ClientOK, ClientOnDisk, ServerOnDisk
    <2>5. cached.phase = "update_servers" => replacement[p].signer \in S
      <3> SUFFICES ASSUME cached.phase = "update_servers" PROVE replacement[p].signer \in S
        OBVIOUS
      <3>1. state[p].phase \in {"update_clients", "update_servers"}
        BY <1>2 DEF Follows, InWindow
      <3>2. replacement[p].signer \in Trusted(ca)
        BY <1>2, <3>1 DEF OnDisk, ClientOK
      <3>3. CASE ca.phase \in {"update_servers", "rollback"}
        BY <3>2, <3>3 DEF KeysInv
      <3>4. CASE ca.phase \notin {"update_servers", "rollback"}
        <4>1. ca.phase = "standby" /\ cached.id = ca.id
          BY <3>4 DEF CacheInv, InWindow
        <4>2. state[p].phase = "update_servers"
          BY <1>2, <4>1, RotationsFact DEF Follows, InWindow
        <4> QED BY <1>2, <4>2 DEF OnDisk
      <3> QED BY <3>3, <3>4
    <2>6. OnDisk(S, p)'
      BY <1>2, <2>1, <2>2, <2>5 DEF OnDisk, ClientOK
    <2> QED BY <2>3, <2>4, <2>6 DEF Local
  <1>5. CASE RotateNothing(p) \/ Retry(p)
    <2>1. /\ pc[p] \in {"rotate", "failed"} /\ pc'[p] = "idle"
          /\ UNCHANGED <<state, current, replacement, client, server, pending>>
      BY <1>1, <1>5 DEF RotateNothing, Retry, Go, disk
    <2>2. Follows(p)'
      BY <1>2, <2>1 DEF Follows
    <2>3. InMemory(S, p)' /\ OnDisk(S, p)' /\ Writing(S, p)' /\ Prepared(p)'
      BY <1>2, <2>1 DEF InMemory, OnDisk, Writing, Prepared, ClientOK, ClientOnDisk, ServerOnDisk
    <2> QED BY <2>2, <2>3 DEF Local
  <1>6. CASE RotateOutOfSync(p) \/ RotateFailed(p)
    <2>1. /\ pc[p] = "rotate" /\ pc'[p] = "failed"
          /\ UNCHANGED <<state, current, replacement, client, server, seen, pending>>
      BY <1>1, <1>6 DEF RotateOutOfSync, RotateFailed, Rotating, Go, disk, memory
    <2>2. Follows(p)'
      BY <1>2, <2>1 DEF Follows
    <2>3. InMemory(S, p)' /\ OnDisk(S, p)' /\ Writing(S, p)' /\ Prepared(p)'
      BY <1>2, <2>1 DEF InMemory, OnDisk, Writing, Prepared, ClientOK, ClientOnDisk, ServerOnDisk
    <2> QED BY <2>2, <2>3 DEF Local
  <1>7. CASE RotateInit(p)
    <2>1. /\ pc[p] = "rotate" /\ pc'[p] = "idle" /\ state'[p] = seen[p]
          /\ ~OutOfSync(state[p], seen[p]) /\ seen[p].phase = "init"
          /\ UNCHANGED <<current, replacement, client, server, pending>>
      BY <1>1, <1>7 DEF RotateInit, Rotating, Go
    <2>2. state[p].phase = "standby"
      BY <2>1 DEF OutOfSync
    <2>3. Follows(p)'
      BY <1>2, <2>1 DEF Follows
    <2>4. InMemory(S, p)' /\ OnDisk(S, p)' /\ Writing(S, p)' /\ Prepared(p)'
      BY <1>2, <2>1, <2>2 DEF InMemory, OnDisk, Writing, Prepared, ClientOK, ClientOnDisk, ServerOnDisk
    <2> QED BY <2>3, <2>4 DEF Local
  <1>8. CASE reRegister(p)
    <2>1. PICK i \in Identities : GenerateHostCerts(p, seen[p], i) /\ pending' = [pending EXCEPT ![p] = i]
      BY <1>8 DEF reRegister
    <2>2. /\ pc[p] = "rotate" /\ pc'[p] = "identity" /\ pending'[p] = i /\ i # None
          /\ NeedsCertificate(p)
          /\ UNCHANGED <<state, current, replacement, client, server, seen>>
      BY <1>1, <1>8, <2>1 DEF reRegister, Rotating, Go, disk
    <2>3. seen[p] \in Rotations /\ Precedes(seen[p], cached) /\ InWindow(cached, seen[p])
          /\ InWindow(ca, seen[p])
      BY <1>1, <1>2, <2>2 DEF Follows
    <2>4. i.signer \in cached.active /\ i.trusted = Trusted(cached)
      BY <2>1, <2>3, CachedCertificate
    <2>5. seen[p].phase \in {"update_clients", "rollback", "standby"}
      BY <2>2 DEF NeedsCertificate
    <2>6. cached.active \subseteq Trusted(ca) \cap Trusted(cached) /\ S \subseteq Trusted(cached)
      BY TrustedFact DEF CacheInv, KeysInv, Trusted, InWindow
    <2>7. ClientOK(S, i)
      BY <2>2, <2>4, <2>6 DEF ClientOK
    <2>8. seen[p].phase # "update_clients" => cached.active \subseteq S
      <3> SUFFICES ASSUME seen[p].phase \in {"rollback", "standby"} PROVE cached.active \subseteq S
        BY <2>5
      <3>1. cached.phase \in {"rollback", "standby", "init"}
        BY <2>3, TrustedFact, RotationsFact DEF InWindow, Precedes, Pos
      <3>2. cached.active = Old(ca)
        BY <2>3, <3>1, TrustedFact, RotationsFact DEF CacheInv, Old, InWindow
      <3> QED BY <3>2 DEF KeysInv
    <2>9. ca.phase \in {"update_clients", "update_servers"} =>
             cached.active = ca.active /\ Trusted(ca) \subseteq Trusted(cached)
      <3> SUFFICES ASSUME ca.phase \in {"update_clients", "update_servers"}
                   PROVE cached.active = ca.active /\ Trusted(ca) \subseteq Trusted(cached)
        OBVIOUS
      <3>1. seen[p].phase = "update_clients" /\ seen[p].id = ca.id
        BY <2>3, <2>5 DEF InWindow
      <3>2. cached.id = ca.id /\ Trusted(cached) = Trusted(ca)
        BY DEF CacheInv, InWindow
      <3>3. ca.phase = "update_clients" => cached = ca
        BY <2>3, <3>1, CacheCurrent
      <3> QED BY <3>2, <3>3 DEF CacheInv
    <2>10. ca.phase = "rollback" /\ seen[p].phase = "rollback" => cached = ca
      BY <2>3, CacheCurrent, TrustedFact, RotationsFact DEF InWindow
    <2>11. Follows(p)'
      BY <1>2, <2>2 DEF Follows
    <2>12. InMemory(S, p)' /\ OnDisk(S, p)'
      BY <1>2, <2>2 DEF InMemory, OnDisk, ClientOK, ClientOnDisk, ServerOnDisk
    <2>13. Writing(S, p)'
      BY <2>2, <2>4, <2>7, <2>8 DEF Writing, ClientOK
    <2>14. Prepared(p)'
      BY <1>2, <2>2, <2>4, <2>9, <2>10 DEF Prepared
    <2> QED BY <2>11, <2>12, <2>13, <2>14 DEF Local
  <1>9. CASE Promote(p)
    <2>1. /\ pc[p] = "rotate" /\ pc'[p] = "identity" /\ pending'[p] = replacement[p]
          /\ seen[p].phase = "update_servers" /\ replacement[p] # None
          /\ UNCHANGED <<state, current, replacement, client, server, seen>>
      BY <1>1, <1>9 DEF Promote, Rotating, Go, disk
    <2>2. state[p].phase \in {"update_clients", "update_servers"}
      BY <1>2, <2>1 DEF Follows, InWindow
    <2>3. Follows(p)'
      BY <1>2, <2>1 DEF Follows
    <2>4. InMemory(S, p)' /\ OnDisk(S, p)'
      BY <1>2, <2>1 DEF InMemory, OnDisk, ClientOK, ClientOnDisk, ServerOnDisk
    <2>5. Writing(S, p)'
      BY <1>2, <2>1, <2>2 DEF Writing, OnDisk, ClientOK
    <2>6. Prepared(p)'
      BY <1>2, <2>1, <2>2 DEF Prepared
    <2> QED BY <2>3, <2>4, <2>5, <2>6 DEF Local
  <1>10. CASE WriteIdentity(p)
    <2>1. CASE AsReplacement(p)
      <3>1. /\ pc[p] = "identity" /\ pc'[p] = "state" /\ seen[p].phase = "update_clients"
            /\ replacement'[p] = pending[p]
            /\ UNCHANGED <<state, current, client, server, seen, pending>>
        BY <1>1, <1>10, <2>1 DEF WriteIdentity, AsReplacement, InStandby, Go
      <3>2. state[p].phase # "update_servers"
        BY <1>2, <3>1, RotationsFact DEF Follows, InWindow, Precedes, Pos
      <3>3. Follows(p)'
        BY <1>2, <3>1 DEF Follows
      <3>4. InMemory(S, p)' /\ OnDisk(S, p)' /\ Writing(S, p)' /\ Prepared(p)'
        BY <1>2, <3>1, <3>2 DEF InMemory, OnDisk, Writing, Prepared, ClientOK
      <3> QED BY <3>3, <3>4 DEF Local
    <2>2. CASE ~AsReplacement(p)
      <3>1. /\ pc[p] = "identity" /\ pc'[p] \in {"state", "reload"}
            /\ seen[p].phase # "update_clients"
            /\ pc'[p] = "state" => UNCHANGED <<seen, pending>>
            /\ current'[p] = pending[p]
            /\ UNCHANGED <<state, replacement, client, server>>
        BY <1>1, <1>2, <1>10, <2>2 DEF WriteIdentity, AsReplacement, Go, Follows
      <3>2. Follows(p)'
        BY <1>2, <3>1 DEF Follows
      <3>3. InMemory(S, p)' /\ OnDisk(S, p)' /\ Writing(S, p)'
        BY <1>2, <3>1 DEF InMemory, OnDisk, Writing, ClientOK
      <3>4. ca.phase = "rollback" /\ state[p].phase = "rollback" => seen[p].phase = "rollback"
        BY <1>1, <1>2, <3>1, TrustedFact, RotationsFact DEF Follows, InWindow, Precedes, Pos
      <3>5. Prepared(p)'
        BY <1>2, <3>1, <3>4 DEF Prepared
      <3> QED BY <3>2, <3>3, <3>5 DEF Local
    <2> QED BY <2>1, <2>2
  <1>11. CASE WriteState(p)
    <2>1. /\ pc[p] = "state" /\ pc'[p] = "reload" /\ state'[p] = seen[p]
          /\ UNCHANGED <<current, replacement, client, server>>
      BY <1>1, <1>2, <1>11 DEF WriteState, Go
    <2>2. Follows(p)'
      BY <1>2, <2>1 DEF Follows
    <2>3. seen[p].phase = "update_servers" => state[p].phase \in {"update_clients", "update_servers"}
      BY <1>2, <2>1 DEF Follows, InWindow
    <2>4. InMemory(S, p)' /\ OnDisk(S, p)' /\ Writing(S, p)'
      BY <1>2, <2>1, <2>3 DEF InMemory, OnDisk, Writing, ClientOK
    <2>5. Prepared(p)'
      BY <1>2, <2>1, <2>3 DEF Prepared, Writing
    <2> QED BY <2>2, <2>4, <2>5 DEF Local
  <1>12. CASE Crash(p)
    <2>1. /\ pc'[p] = "down" /\ client'[p] = None /\ server'[p] = None
          /\ UNCHANGED <<state, current, replacement>>
      BY <1>1, <1>2, <1>12 DEF Crash, Go, disk
    <2>2. Follows(p)'
      BY <1>2, <2>1 DEF Follows
    <2>3. InMemory(S, p)' /\ OnDisk(S, p)' /\ Writing(S, p)' /\ Prepared(p)'
      BY <1>2, <2>1 DEF InMemory, OnDisk, Writing, Prepared, ClientOK
    <2> QED BY <2>2, <2>3 DEF Local
  <1>13. ~firstTimeConnect(p)
    BY <1>2 DEF firstTimeConnect, Register, JoinRead, JoinFailed
  <1> QED
    BY <1>3, <1>4, <1>5, <1>6, <1>7, <1>8, <1>9, <1>10, <1>11, <1>12, <1>13 DEF Step, rotate

-----------------------------------------------------------------------------
(* A patient administrator: the steps of the authority and of the cache *)

\* When all have caught up the cache has too, and nobody writes.
LEMMA CaughtUpFact ==
  ASSUME TypeInv, CacheInv, NEW S, \A p \in Processes : Local(S, p), AllCaughtUp
  PROVE  /\ cached = ca
         /\ \A p \in Processes :
               /\ pc[p] \in {"idle", "rotate"}
               /\ state[p] \in Rotations /\ state[p].id = ca.id /\ state[p].phase = ca.phase
               /\ pc[p] = "rotate" =>
                     seen[p] \in Rotations /\ seen[p].id = ca.id /\ seen[p].phase = ca.phase
  <1>1. ASSUME NEW p \in Processes
        PROVE  /\ pc[p] \in {"idle", "rotate"}
               /\ state[p] \in Rotations /\ state[p].id = ca.id /\ state[p].phase = ca.phase
               /\ Precedes(state[p], cached)
    BY <1>1 DEF AllCaughtUp, CaughtUp, Local, Follows, RotationOf, TypeInv, TypeOK
  <1>2. cached = ca
    <2>1. PICK p \in Processes : TRUE
      BY ProcessAssumption DEF Processes
    <2> QED BY <1>1, <2>1, CacheCurrent
  <1>3. ASSUME NEW p \in Processes, pc[p] = "rotate"
        PROVE  seen[p] \in Rotations /\ seen[p].id = ca.id /\ seen[p].phase = ca.phase
    <2>1. /\ seen[p] \in Rotations /\ Precedes(state[p], seen[p]) /\ Precedes(seen[p], ca)
      BY <1>2, <1>3 DEF Local, Follows, TypeInv, TypeOK
    <2>2. seen[p].id \in Nat /\ seen[p].phase \in Phases
      BY <2>1, RotationsFact
    <2>3. seen[p].id = ca.id /\ Pos(seen[p].phase) = Pos(ca.phase)
      BY <1>1, <2>1, <2>2, TrustedFact DEF Precedes, Pos
    <2>4. seen[p].phase = ca.phase
      BY <2>2, <2>3, TrustedFact DEF Pos, Phases
    <2> QED BY <2>1, <2>3, <2>4
  <1> QED BY <1>1, <1>2, <1>3

\* The next phase, when all are prepared for it: T are the keys of its servers.
LEMMA NextPhase ==
  ASSUME TypeInv, CacheInv, NEW S, KeysInv(S), \A p \in Processes : Local(S, p), AllCaughtUp,
         ca' \in CertAuthorities, Moves(ca, ca'), ca'.phase # "rollback",
         UNCHANGED <<cached, state, current, replacement, pc, client, server, seen, pending>>
  PROVE  PatientInv'
  <1>0. PICK T : T = IF ca'.phase = "update_servers" THEN Trusted(ca') ELSE Old(ca')
    OBVIOUS
  <1>1. /\ cached = ca /\ cached' = ca /\ ca.id \in Nat /\ ca'.id \in Nat
    BY CaughtUpFact, TrustedFact, CATypes
  <1>2. CacheInv'
    BY <1>1 DEF CacheInv, InWindow, Precedes, Pos, Moves, Trusted, Old
  <1>3. KeysInv(T)'
    BY <1>0, <1>1 DEF KeysInv, Moves, Trusted, Old
  <1>4. ASSUME NEW p \in Processes PROVE Local(T, p)'
    <2>1. /\ pc[p] \in {"idle", "rotate"}
          /\ state[p] \in Rotations /\ state[p].id = ca.id /\ state[p].phase = ca.phase
          /\ pc[p] = "rotate" => seen[p] \in Rotations /\ seen[p].id = ca.id /\ seen[p].phase = ca.phase
      BY CaughtUpFact
    <2>2. Follows(p) /\ InMemory(S, p) /\ OnDisk(S, p) /\ Prepared(p)
      BY DEF Local
    <2>3. Follows(p)'
      BY <1>1, <2>1, <2>2 DEF Follows, Moves, InWindow, Precedes, Pos
    <2>4. client[p] = ClientOnDisk(p) /\ server[p] = ServerOnDisk(p)
      BY <2>1, <2>2 DEF InMemory
    <2>5. /\ ca'.phase \in {"init", "update_clients"} => T = S
          /\ ca'.phase = "standby" => T = ca.active /\ Trusted(ca') = ca.active
          /\ ca'.phase = "standby" /\ ca.phase = "rollback" => T \subseteq S
          /\ ca'.phase = "standby" /\ ca.phase = "update_servers" => S = Trusted(ca)
          /\ ca'.phase = "update_servers" => T = Trusted(ca)
          /\ ca'.phase \in {"update_clients", "update_servers"} => Trusted(ca) \subseteq Trusted(ca')
          /\ ca'.phase = "init" => S \subseteq Trusted(ca')
          /\ ca'.phase \in {"standby", "init", "update_clients", "update_servers"}
          /\ S \subseteq Trusted(ca) /\ ca.active \subseteq Trusted(ca)
      BY <1>0 DEF Moves, KeysInv, Old, Trusted
    <2>6. OnDisk(T, p)'
      <3>1. CASE ca'.phase \in {"init", "update_clients"}
        BY <1>1, <2>1, <2>2, <2>5, <3>1 DEF OnDisk, ClientOK, Moves
      <3>2. CASE ca'.phase = "update_servers"
        BY <1>1, <2>1, <2>2, <2>5, <3>2 DEF OnDisk, ClientOK, Moves, Prepared
      <3>3. CASE ca'.phase = "standby"
        BY <1>1, <2>1, <2>2, <2>5, <3>3 DEF OnDisk, ClientOK, Moves, Prepared
      <3> QED BY <2>5, <3>1, <3>2, <3>3
    <2>7. InMemory(T, p)'
      <3>1. ClientOnDisk(p)' = ClientOnDisk(p) /\ ServerOnDisk(p)' = ServerOnDisk(p)
        BY DEF ClientOnDisk, ServerOnDisk
      <3>2. ClientOK(T, ClientOnDisk(p))' /\ ServerOnDisk(p)'.signer \in T
        BY <2>6 DEF OnDisk, ClientOnDisk, ServerOnDisk
      <3> QED BY <2>4, <3>1, <3>2 DEF InMemory
    <2>8. Writing(T, p)'
      BY <2>1 DEF Writing
    <2>9. Prepared(p)'
      BY <1>1, <2>1, <2>2 DEF Prepared, Moves, Trusted
    <2> QED BY <2>3, <2>6, <2>7, <2>8, <2>9 DEF Local
  <1>5. T \in {Old(ca'), Trusted(ca')}
    BY <1>0
  <1> QED BY <1>2, <1>3, <1>4, <1>5 DEF PatientInv

\* A rollback, whoever has come how far.
LEMMA RollbackPhase ==
  ASSUME TypeInv, CacheInv, NEW S \in {Old(ca), Trusted(ca)}, KeysInv(S),
         \A p \in Processes : Local(S, p),
         ca' \in CertAuthorities, Moves(ca, ca'), ca'.phase = "rollback",
         UNCHANGED <<cached, state, current, replacement, pc, client, server, seen, pending>>
  PROVE  PatientInv'
  <1>1. /\ ca.id \in Nat /\ ca'.id = ca.id /\ ca.phase \in {"init", "update_clients", "update_servers"}
        /\ Old(ca') = Old(ca) /\ Trusted(ca') = Trusted(ca)
        /\ cached' = cached /\ ca'.active = Old(ca)
    BY TrustedFact DEF Moves, Old, Trusted
  <1>2. CacheInv'
    BY <1>1, TrustedFact DEF CacheInv, InWindow, Precedes, Pos, Old
  <1>3. KeysInv(S)'
    BY <1>1 DEF KeysInv, CacheInv, InWindow
  <1>4. ASSUME NEW p \in Processes PROVE Local(S, p)'
    <2>1. Follows(p) /\ InMemory(S, p) /\ OnDisk(S, p) /\ Writing(S, p) /\ Prepared(p)
      BY DEF Local
    <2>2. /\ state[p] \in Rotations /\ InWindow(ca, state[p])
          /\ pc[p] \in {"rotate", "identity", "state", "failed"} =>
                seen[p] \in Rotations /\ InWindow(ca, seen[p])
      BY <2>1 DEF Follows, TypeInv, TypeOK
    <2>3. /\ InWindow(ca', state[p]) /\ state[p].phase # "rollback"
          /\ pc[p] \in {"rotate", "identity", "state", "failed"} =>
                InWindow(ca', seen[p]) /\ seen[p].phase # "rollback"
      BY <1>1, <2>2 DEF InWindow
    <2>4. Follows(p)'
      BY <1>1, <2>1, <2>3 DEF Follows
    <2>5. InMemory(S, p)' /\ OnDisk(S, p)' /\ Writing(S, p)'
      BY <1>1, <2>1 DEF InMemory, OnDisk, Writing, ClientOK, ClientOnDisk, ServerOnDisk
    <2>6. Prepared(p)'
      BY <1>1, <2>3 DEF Prepared
    <2> QED BY <2>4, <2>5, <2>6 DEF Local
  <1>5. S \in {Old(ca'), Trusted(ca')}
    BY <1>1
  <1> QED BY <1>2, <1>3, <1>4, <1>5 DEF PatientInv

LEMMA CachePhase ==
  ASSUME TypeInv, CacheInv, NEW S \in {Old(ca), Trusted(ca)}, KeysInv(S),
         \A p \in Processes : Local(S, p), CacheUpdate
  PROVE  PatientInv'
  <1>1. /\ cached' = ca /\ ca' = ca
        /\ UNCHANGED <<state, current, replacement, pc, client, server, seen, pending>>
    BY DEF CacheUpdate, disk, memory
  <1>2. CacheInv'
    BY <1>1, TrustedFact DEF CacheInv, InWindow, Precedes, Pos
  <1>3. KeysInv(S)'
    BY <1>1 DEF KeysInv
  <1>4. ASSUME NEW p \in Processes PROVE Local(S, p)'
    <2>1. Follows(p) /\ InMemory(S, p) /\ OnDisk(S, p) /\ Writing(S, p) /\ Prepared(p)
      BY DEF Local
    <2>2. ASSUME NEW r \in Rotations, Precedes(r, cached) PROVE Precedes(r, ca)
      BY <2>2, TrustedFact, RotationsFact DEF CacheInv, Precedes, Pos
    <2>3. /\ state[p] \in Rotations
          /\ pc[p] \in {"rotate", "identity", "state", "failed"} => seen[p] \in Rotations
      BY <2>1 DEF Follows, TypeInv, TypeOK
    <2>4. Follows(p)'
      BY <1>1, <2>1, <2>2, <2>3 DEF Follows
    <2>5. InMemory(S, p)' /\ OnDisk(S, p)' /\ Writing(S, p)' /\ Prepared(p)'
      BY <1>1, <2>1 DEF InMemory, OnDisk, Writing, Prepared, ClientOK, ClientOnDisk, ServerOnDisk
    <2> QED BY <2>4, <2>5 DEF Local
  <1> QED BY <1>1, <1>2, <1>3, <1>4 DEF PatientInv

LEMMA PatientInit ==
  ASSUME Joining = {}
  PROVE  Init => PatientInv
  <1> SUFFICES ASSUME Init PROVE PatientInv
    OBVIOUS
  <1> DEFINE S == {KeyOf[0]}
  <1>1. /\ ca = NewCertAuthority({KeyOf[0]}) /\ cached = ca /\ ca.phase = "standby" /\ ca.id = 0
        /\ ca.active = S /\ TypeInv
    BY ShapeInit, TypeInit DEF Init
  <1>2. CacheInv
    BY <1>1 DEF CacheInv, InWindow, Precedes, Pos
  <1>3. KeysInv(S) /\ S = Old(ca) /\ S \subseteq Trusted(ca)
    BY <1>1 DEF KeysInv, Old, Trusted
  <1>4. ASSUME NEW p \in Processes PROVE Local(S, p)
    <2>1. /\ state[p] = RotationOf(ca) /\ state[p].phase = "standby" /\ state[p].id = 0
          /\ state[p] # None
      <3>1. RotationOf(ca) \in Rotations
        BY <1>1 DEF TypeInv, RotationOf, Rotations, Phases
      <3> QED BY <1>1, <3>1, NoneAssumption DEF Init, RotationOf
    <2>2. /\ pc[p] = "idle" /\ current[p].signer \in S /\ S \subseteq current[p].trusted
          /\ client[p] = current[p] /\ server[p] = current[p] /\ current[p] # None
      <3>1. current[p] = Identity(KeyOf[0], {KeyOf[0]}, p \notin Renamed)
        BY DEF Init
      <3>2. current[p] \in Identities
        BY <3>1, KeyAssumption, BoundAssumption DEF Identity, Identities
      <3>3. pc[p] = "idle" /\ client[p] = current[p] /\ server[p] = current[p]
        BY DEF Init
      <3> QED BY <3>1, <3>2, <3>3, NoneAssumption DEF Identity
    <2>3. Follows(p)
      BY <1>1, <2>1, <2>2 DEF Follows, InWindow, Precedes, Pos
    <2>4. InMemory(S, p) /\ OnDisk(S, p)
      BY <1>1, <1>3, <2>1, <2>2 DEF InMemory, OnDisk, ClientOK, ClientOnDisk, ServerOnDisk
    <2>5. Writing(S, p) /\ Prepared(p)
      BY <1>1, <2>2 DEF Writing, Prepared
    <2> QED BY <2>3, <2>4, <2>5 DEF Local
  <1> HIDE DEF S
  <1> QED BY <1>2, <1>3, <1>4 DEF PatientInv

LEMMA PatientStep ==
  ASSUME Patient
  PROVE  TypeInv /\ PatientInv /\ [Next]_vars => PatientInv'
  <1> SUFFICES ASSUME TypeInv, PatientInv, [Next]_vars PROVE PatientInv'
    OBVIOUS
  <1>1. PICK S \in {Old(ca), Trusted(ca)} : KeysInv(S) /\ \A p \in Processes : Local(S, p)
    BY DEF PatientInv
  <1>2. CacheInv
    BY DEF PatientInv
  <1>3. ASSUME NEW p \in Processes, Step(p) \/ Crash(p) PROVE PatientInv'
    <2>1. ca' = ca /\ cached' = cached
      BY <1>3 DEF Step, firstTimeConnect, rotate, Crash, connect, Register, JoinRead, JoinFailed,
         syncRotationState, RotateNothing, RotateOutOfSync, RotateInit, reRegister, Promote,
         RotateFailed, WriteIdentity, WriteState, Retry
    <2>2. Local(S, p)'
      BY <1>1, <1>2, <1>3, <2>1, LocalStep
    <2>3. ASSUME NEW q \in Processes, q # p PROVE Local(S, q)'
      <3>1. /\ state'[q] = state[q] /\ current'[q] = current[q] /\ replacement'[q] = replacement[q]
            /\ pc'[q] = pc[q] /\ client'[q] = client[q] /\ server'[q] = server[q]
            /\ seen'[q] = seen[q] /\ pending'[q] = pending[q]
        BY <1>3, <2>3 DEF Step, firstTimeConnect, rotate, Crash, connect, Register,
           JoinRead, JoinFailed, syncRotationState, RotateNothing, RotateOutOfSync, RotateInit,
           reRegister, Promote, RotateFailed, WriteIdentity, WriteState, Retry, Go, disk, memory,
           TypeInv, TypeOK
      <3> QED BY <1>1, <2>1, <3>1, LocalSame
    <2>4. CacheInv' /\ KeysInv(S)' /\ S \in {Old(ca'), Trusted(ca')}
      BY <1>1, <1>2, <2>1 DEF CacheInv, KeysInv
    <2>5. \A q \in Processes : Local(S, q)'
      BY <2>2, <2>3
    <2> QED BY <2>4, <2>5 DEF PatientInv
  <1>4. ASSUME NEW target \in Phases, Rotate(target) PROVE PatientInv'
    <2>1. /\ ca' \in CertAuthorities /\ Moves(ca, ca') /\ (ca'.phase # "rollback" => AllCaughtUp)
          /\ UNCHANGED <<cached, state, current, replacement, pc, client, server, seen, pending>>
      BY <1>4, RotateFact
    <2>2. CASE ca'.phase # "rollback"
      BY <1>1, <1>2, <2>1, <2>2, NextPhase
    <2>3. CASE ca'.phase = "rollback"
      BY <1>1, <1>2, <2>1, <2>3, RollbackPhase
    <2> QED BY <2>2, <2>3
  <1>5. CASE CacheUpdate
    BY <1>1, <1>2, <1>5, CachePhase
  <1>6. CASE UNCHANGED vars
    <2>1. /\ ca' = ca /\ cached' = cached
          /\ UNCHANGED <<state, current, replacement, pc, client, server, seen, pending>>
      BY <1>6 DEF vars, disk, memory
    <2>2. CacheInv' /\ KeysInv(S)' /\ S \in {Old(ca'), Trusted(ca')}
      BY <1>1, <1>2, <2>1 DEF CacheInv, KeysInv
    <2>3. \A q \in Processes : Local(S, q)'
      BY <1>1, <2>1, LocalSame
    <2> QED BY <2>2, <2>3 DEF PatientInv
  <1> QED BY <1>3, <1>4, <1>5, <1>6 DEF Next

\* The phases of a rotation do what they are for.  An administrator who waits
\* for all processes, but for none of them before a rollback, locks out no
\* node of a cluster that no node is joining: whatever process crashes at
\* whatever step, and however late the cache of the auth servers is.
THEOREM SyncNoLockout ==
  ASSUME Patient, Joining = {}
  PROVE  Spec => []NoLockout
  <1>1. TypeInv /\ PatientInv => NoLockout
    <2> SUFFICES ASSUME TypeInv, PatientInv PROVE NoLockout
      OBVIOUS
    <2>1. PICK S \in {Old(ca), Trusted(ca)} : KeysInv(S) /\ \A p \in Processes : Local(S, p)
      BY DEF PatientInv
    <2>2. ASSUME NEW p \in Processes
          PROVE  ClientOK(S, ClientOnDisk(p)) /\ ServerOnDisk(p).signer \in S /\ ServerOnDisk(p) # None
      BY <2>1 DEF Local, OnDisk, ClientOnDisk, ServerOnDisk, ClientOK
    <2>3. ASSUME NEW n \in Nodes, NEW i \in ClientIdentities(n) PROVE ClientOK(S, i)
      BY <2>1, <2>2, NodeFact DEF ClientIdentities, Local, InMemory
    <2>4. ASSUME NEW a \in Auth, NEW i \in ServerIdentities(a) PROVE i.signer \in S
      BY <2>1, <2>2 DEF ServerIdentities, Local, InMemory, Processes
    <2> QED BY <2>2, <2>3, <2>4 DEF NoLockout, ClientOK
  <1> QED BY <1>1, TypeInit, TypeStep, PatientInit, PatientStep, PTL DEF Spec

=============================================================================
