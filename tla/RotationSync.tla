---------------------------- MODULE RotationSync ----------------------------
(***************************************************************************)
(* How the processes of a cluster follow the rotation of the host CA:      *)
(* connect, firstTimeConnect, syncRotationState, rotate and reRegister of  *)
(* lib/service/connect.go, and GenerateHostCerts of the auth server.       *)
(*                                                                         *)
(* A process has one service, and on its disk the rotation state it has    *)
(* reached, the current identity and the replacement identity.  An auth    *)
(* server asks itself for certificates; a node does so over a connection   *)
(* that a reload has to establish anew.  The auth servers answer from a    *)
(* cache that may lag behind the backend.  A node learns which authorities *)
(* to trust together with its certificate, an auth server from the cache.  *)
(*                                                                         *)
(* The authority itself moves by the steps of CertAuthority, as CARotation *)
(* shows.  A patient administrator asks for the next phase only when all   *)
(* processes have caught up with the last one, but for a rollback at any   *)
(* time.  A process may crash between any two steps.                       *)
(***************************************************************************)
EXTENDS CertAuthority, FiniteSets

CONSTANTS Auth, Nodes,
          Joining,        \* the nodes that have not joined the cluster yet
          Renamed,        \* processes whose certificate lacks a configured principal
          KeyOf,          \* the key that each rotation generates
          None,
          Patient,
          MaxRotations,   \* bound: rotations
          MaxCrashes      \* bound: crashes

Processes == Auth \cup Nodes

ASSUME ProcessAssumption ==
    /\ Auth # {} /\ Auth \cap Nodes = {}
    /\ Joining \subseteq Nodes /\ Renamed \subseteq Processes
    /\ Patient \in BOOLEAN
ASSUME BoundAssumption == MaxRotations \in Nat /\ MaxCrashes \in Nat
ASSUME KeyAssumption ==
    /\ KeyOf \in [0..MaxRotations -> Keys]
    /\ \A i, j \in 0..MaxRotations : KeyOf[i] = KeyOf[j] => i = j

VARIABLES ca,           \* the host CA in the backend
          cached,       \* the host CA in the cache of the auth servers
          state,        \* disk: the rotation state of a process
          current,      \* disk: its current identity
          replacement,  \* disk: its replacement identity
          pc,
          client,       \* the identity its client uses
          server,       \* the identity its server uses
          seen,         \* the rotation state that it is following now
          pending,      \* the identity that it has to write
          crashes

disk == <<state, current, replacement>>
memory == <<client, server, seen, pending>>
vars == <<ca, cached, disk, pc, memory, crashes>>

Rotations == [phase : Phases, id : 0..MaxRotations]
RotationOf(c) == [phase |-> c.phase, id |-> c.id]

Identities == [signer : Keys, trusted : SUBSET Keys, fresh : BOOLEAN]
Identity(signer, trusted, fresh) == [signer |-> signer, trusted |-> trusted, fresh |-> fresh]

ASSUME NoneAssumption == None \notin Rotations \cup Identities

\* "new" has no state on disk; "joined" is firstTimeConnect with certificates;
\* "rotate" has read the CA; "identity" and "state" are the two writes;
\* "reload" still serves while the new process connects; "failed" waits for
\* the next cycle.
PCs == {"new", "joined", "down", "idle", "rotate", "identity", "state", "reload", "failed"}

TypeOK ==
    /\ ca \in CertAuthorities /\ cached \in CertAuthorities
    /\ state \in [Processes -> Rotations \cup {None}]
    /\ current \in [Processes -> Identities \cup {None}]
    /\ replacement \in [Processes -> Identities \cup {None}]
    /\ pc \in [Processes -> PCs]
    /\ client \in [Processes -> Identities \cup {None}]
    /\ server \in [Processes -> Identities \cup {None}]
    /\ seen \in [Processes -> Rotations \cup {None}]
    /\ pending \in [Processes -> Identities \cup {None}]
    /\ crashes \in 0..MaxCrashes

Init ==
    LET first == NewCertAuthority({KeyOf[0]})
        identity(p) == IF p \in Joining THEN None
                       ELSE Identity(KeyOf[0], {KeyOf[0]}, p \notin Renamed)
    IN  /\ ca = first /\ cached = first
        /\ state = [p \in Processes |-> IF p \in Joining THEN None ELSE RotationOf(first)]
        /\ current = [p \in Processes |-> identity(p)]
        /\ replacement = [p \in Processes |-> None]
        /\ pc = [p \in Processes |-> IF p \in Joining THEN "new" ELSE "idle"]
        /\ client = [p \in Processes |-> identity(p)]
        /\ server = [p \in Processes |-> identity(p)]
        /\ seen = [p \in Processes |-> None]
        /\ pending = [p \in Processes |-> None]
        /\ crashes = 0

Go(p, label) == pc' = [pc EXCEPT ![p] = label]

-----------------------------------------------------------------------------
(* Connecting *)

\* The auth servers trust the client and the client trusts one of them.
CanConnect(i) ==
    /\ i.signer \in Trusted(cached)
    /\ \E a \in Auth : server[a] # None /\ server[a].signer \in i.trusted

\* The identities that connect takes from the disk.
ClientOnDisk(p) ==
    IF state[p].phase \in {"update_clients", "update_servers"} THEN replacement[p] ELSE current[p]
ServerOnDisk(p) ==
    IF state[p].phase = "update_servers" THEN replacement[p] ELSE current[p]

\* A new process takes over, after a reload or a crash.
connect(p) ==
    /\ pc[p] \in {"reload", "down"}
    /\ current[p] # None /\ ClientOnDisk(p) # None
    /\ p \in Nodes => CanConnect(ClientOnDisk(p))
    /\ client' = [client EXCEPT ![p] = ClientOnDisk(p)]
    /\ server' = [server EXCEPT ![p] = ServerOnDisk(p)]
    /\ Go(p, "idle")
    /\ UNCHANGED <<ca, cached, disk, seen, pending, crashes>>

-----------------------------------------------------------------------------
(* Certificates *)

\* Mutant: the requested principals are left out.
CertificateUnnamed(c, identity) ==
    \E key \in c.active : identity = Identity(key, Trusted(c), FALSE)

\* Signed with an active key, for the configured principals, together with all
\* keys to trust.
Certificate(c, identity) ==
    \E key \in c.active : identity = Identity(key, Trusted(c), TRUE)

\* Mutant: the rotation state that the client expects is not checked.
GenerateHostCertsUnchecked(p, expected, identity) == Certificate(cached, identity)

\* The cache is used unless the client expects another rotation state; then the
\* backend must have that one.  An auth server asks itself and expects nothing.
GenerateHostCerts(p, expected, identity) ==
    IF p \in Auth \/ expected.id = 0 \/ expected = RotationOf(cached)
    THEN Certificate(cached, identity)
    ELSE expected = RotationOf(ca) /\ Certificate(ca, identity)

Refused(p, expected) == ~\E identity \in Identities : GenerateHostCerts(p, expected, identity)

-----------------------------------------------------------------------------
(* firstTimeConnect *)

Register(p) ==
    /\ pc[p] = "new"
    /\ \E identity \in Identities : /\ Certificate(cached, identity)
                                    /\ pending' = [pending EXCEPT ![p] = identity]
    /\ Go(p, "joined")
    /\ UNCHANGED <<ca, cached, disk, client, server, seen, crashes>>

\* The rotation state is read with the new client, after the certificates.
JoinRead(p) ==
    /\ pc[p] = "joined" /\ CanConnect(pending[p])
    /\ seen' = [seen EXCEPT ![p] = RotationOf(cached)]
    /\ Go(p, "identity")
    /\ UNCHANGED <<ca, cached, disk, client, server, pending, crashes>>

\* The certificates are of no use any more; connecting starts over.
JoinFailed(p) ==
    /\ pc[p] = "joined" /\ ~CanConnect(pending[p])
    /\ pending' = [pending EXCEPT ![p] = None]
    /\ Go(p, "new")
    /\ UNCHANGED <<ca, cached, disk, client, server, seen, crashes>>

firstTimeConnect(p) == Register(p) \/ JoinRead(p) \/ JoinFailed(p)

-----------------------------------------------------------------------------
(* rotate *)

\* A cycle starts with the CA as the auth servers know it.
syncRotationState(p) ==
    /\ pc[p] = "idle"
    /\ seen' = [seen EXCEPT ![p] = RotationOf(cached)]
    /\ Go(p, "rotate")
    /\ UNCHANGED <<ca, cached, disk, client, server, pending, crashes>>

checkServerIdentity(p) == ~server[p].fresh
InStandby(p) == state[p].phase = "standby" /\ seen[p].phase = "standby"
NothingToDo(p) ==
    /\ ~checkServerIdentity(p)
    /\ state[p] = seen[p] \/ InStandby(p)

\* Mutant: standby is entered from update_servers only.
OutOfSyncStrict(local, remote) ==
    remote.phase = "standby" /\ local.phase \notin {"standby", "update_servers"}

\* The local state that rotate refuses for the remote one.
OutOfSync(local, remote) ==
    \/ remote.phase = "standby" /\ local.phase \notin {"standby", "rollback"} /\ local.id # remote.id
    \/ remote.phase = "init" /\ local.phase # "standby"
    \/ remote.phase = "update_clients" /\ local.phase # "init" /\ local.id # remote.id
    \/ remote.phase = "update_servers" /\ local.phase # "update_clients" /\ local.id # remote.id

\* The states that need new certificates.
NeedsCertificate(p) ==
    \/ seen[p].phase \in {"update_clients", "rollback"}
    \/ seen[p].phase = "standby" /\ (state[p].phase # "standby" \/ checkServerIdentity(p))

Rotating(p) == pc[p] = "rotate" /\ ~NothingToDo(p) /\ ~OutOfSync(state[p], seen[p])

RotateNothing(p) ==
    /\ pc[p] = "rotate" /\ NothingToDo(p)
    /\ seen' = [seen EXCEPT ![p] = None]
    /\ Go(p, "idle")
    /\ UNCHANGED <<ca, cached, disk, client, server, pending, crashes>>

RotateOutOfSync(p) ==
    /\ pc[p] = "rotate" /\ ~NothingToDo(p) /\ OutOfSync(state[p], seen[p])
    /\ Go(p, "failed")
    /\ UNCHANGED <<ca, cached, disk, memory, crashes>>

\* The init phase only changes the local state.
RotateInit(p) ==
    /\ Rotating(p) /\ seen[p].phase = "init"
    /\ state' = [state EXCEPT ![p] = seen[p]]
    /\ seen' = [seen EXCEPT ![p] = None]
    /\ Go(p, "idle")
    /\ UNCHANGED <<ca, cached, current, replacement, client, server, pending, crashes>>

reRegister(p) ==
    /\ Rotating(p) /\ NeedsCertificate(p)
    /\ \E identity \in Identities : /\ GenerateHostCerts(p, seen[p], identity)
                                    /\ pending' = [pending EXCEPT ![p] = identity]
    /\ Go(p, "identity")
    /\ UNCHANGED <<ca, cached, disk, client, server, seen, crashes>>

\* In update_servers the replacement identity becomes the current one.
Promote(p) ==
    /\ Rotating(p) /\ seen[p].phase = "update_servers" /\ replacement[p] # None
    /\ pending' = [pending EXCEPT ![p] = replacement[p]]
    /\ Go(p, "identity")
    /\ UNCHANGED <<ca, cached, disk, client, server, seen, crashes>>

RotateFailed(p) ==
    /\ Rotating(p)
    /\ \/ NeedsCertificate(p) /\ Refused(p, seen[p])
       \/ seen[p].phase = "update_servers" /\ replacement[p] = None
    /\ Go(p, "failed")
    /\ UNCHANGED <<ca, cached, disk, memory, crashes>>

\* periodicSyncRotationState starts the next cycle.
Retry(p) ==
    /\ pc[p] = "failed"
    /\ seen' = [seen EXCEPT ![p] = None]
    /\ Go(p, "idle")
    /\ UNCHANGED <<ca, cached, disk, client, server, pending, crashes>>

rotate(p) ==
    RotateNothing(p) \/ RotateOutOfSync(p) \/ RotateInit(p) \/ reRegister(p) \/ Promote(p)
    \/ RotateFailed(p)

-----------------------------------------------------------------------------
(* writeStateAndIdentity *)

\* Mutant: the new identity replaces the current one at once.
AsReplacementNever(p) == FALSE

AsReplacement(p) == state[p] # None /\ seen[p].phase = "update_clients"

\* A certificate for new principals in standby leaves the state alone.
WriteIdentity(p) ==
    /\ pc[p] = "identity"
    /\ current' = IF AsReplacement(p) THEN current ELSE [current EXCEPT ![p] = pending[p]]
    /\ replacement' = IF AsReplacement(p) THEN [replacement EXCEPT ![p] = pending[p]] ELSE replacement
    /\ IF state[p] # None /\ InStandby(p)
       THEN /\ pending' = [pending EXCEPT ![p] = None]
            /\ seen' = [seen EXCEPT ![p] = None]
            /\ Go(p, "reload")
       ELSE UNCHANGED <<pending, seen>> /\ Go(p, "state")
    /\ UNCHANGED <<ca, cached, state, client, server, crashes>>

\* The process reloads, but one that has just joined starts working.
WriteState(p) ==
    /\ pc[p] = "state"
    /\ state' = [state EXCEPT ![p] = seen[p]]
    /\ seen' = [seen EXCEPT ![p] = None]
    /\ pending' = [pending EXCEPT ![p] = None]
    /\ IF state[p] = None
       THEN /\ client' = [client EXCEPT ![p] = pending[p]]
            /\ server' = [server EXCEPT ![p] = pending[p]]
            /\ Go(p, "idle")
       ELSE UNCHANGED <<client, server>> /\ Go(p, "reload")
    /\ UNCHANGED <<ca, cached, current, replacement, crashes>>

-----------------------------------------------------------------------------

Crash(p) ==
    /\ crashes < MaxCrashes /\ pc[p] \notin {"down", "new"}
    /\ crashes' = crashes + 1
    /\ Go(p, IF state[p] = None THEN "new" ELSE "down")
    /\ client' = [client EXCEPT ![p] = None]
    /\ server' = [server EXCEPT ![p] = None]
    /\ seen' = [seen EXCEPT ![p] = None]
    /\ pending' = [pending EXCEPT ![p] = None]
    /\ UNCHANGED <<ca, cached, disk>>

CacheUpdate ==
    /\ cached # ca /\ cached' = ca
    /\ UNCHANGED <<ca, disk, pc, memory, crashes>>

\* A process that runs with the identities of the phase the CA is in.
CaughtUp(p) == pc[p] \in {"idle", "rotate"} /\ state[p] = RotationOf(ca)
AllCaughtUp == \A p \in Processes : state[p] # None => CaughtUp(p)

Rotate(target) ==
    /\ supported(ca, target)
    /\ target = "init" => ca.id < MaxRotations
    /\ Patient /\ target # "rollback" => AllCaughtUp
    /\ \E key \in Keys : /\ target = "init" => key = KeyOf[ca.id + 1]
                         /\ ca' = processRotationRequest(ca, target, "manual", {key}, FALSE)
    /\ UNCHANGED <<cached, disk, pc, memory, crashes>>

Step(p) ==
    \/ connect(p) \/ firstTimeConnect(p) \/ syncRotationState(p) \/ rotate(p)
    \/ WriteIdentity(p) \/ WriteState(p) \/ Retry(p)

Next ==
    \/ \E p \in Processes : Step(p) \/ Crash(p)
    \/ \E target \in Phases : Rotate(target)
    \/ CacheUpdate

\* The cache follows the backend, and every process runs its periodic cycle.
Fairness == WF_vars(CacheUpdate) /\ \A p \in Processes : WF_vars(Step(p))

Spec == Init /\ [][Next]_vars /\ Fairness

-----------------------------------------------------------------------------
(* Properties *)

ClientIdentities(p) ==
    ({client[p]} \cup (IF state[p] = None THEN {} ELSE {ClientOnDisk(p)})) \ {None}
ServerIdentities(p) ==
    ({server[p]} \cup (IF state[p] = None THEN {} ELSE {ServerOnDisk(p)})) \ {None}

\* The purpose of the phases: whatever process has got how far, and whichever
\* of them restarts now, even between the two writes of its disk, it finds the
\* identities that connect reads, the auth servers trust the certificate of
\* every node and every node trusts the certificate of every auth server.
NoLockout ==
    /\ \A p \in Processes : state[p] # None => ClientOnDisk(p) # None /\ ServerOnDisk(p) # None
    /\ \A n \in Nodes, a \in Auth : \A i \in ClientIdentities(n) :
          /\ i.signer \in Trusted(ca) \cap Trusted(cached)
          /\ \A s \in ServerIdentities(a) : s.signer \in i.trusted

\* Every phase is followed: all processes keep catching up with the CA.
CatchesUp == []<>AllCaughtUp

\* GenerateHostCerts checks the rotation state that a node expects: the
\* replacement identity of a node in update_clients is signed with the new key
\* of that very rotation, and trusts the old one too.
ReplacementOfRotation ==
    \A n \in Nodes :
        (state[n] # None /\ state[n].phase = "update_clients" /\ replacement[n] # None) =>
            /\ replacement[n].signer = KeyOf[state[n].id]
            /\ \E i \in 0..(state[n].id - 1) : KeyOf[i] \in replacement[n].trusted

\* Renamed processes come to rest: when the CA stays in standby, reloads for
\* new principals end, and end with a certificate that has them.
ReloadsSettle ==
    <>[](ca.phase = "standby") =>
        <>[](\A p \in Processes : pc[p] \in {"idle", "rotate"} /\ server[p].fresh)

=============================================================================
