----------------------------- MODULE CARotation -----------------------------
(***************************************************************************)
(* Rotation of the certificate authorities by the auth servers of a        *)
(* cluster: RotateCertAuthority, the periodic autoRotateCertAuthorities,   *)
(* ensureLocalAdditionalKeys and its retry loop, and the part of the start *)
(* of an auth server that adds local keys and deletes unused ones.         *)
(*                                                                         *)
(* A server is one process.  It runs one request of an administrator and   *)
(* the periodic loop side by side with the other servers; every read of    *)
(* the backend and every CompareAndSwap is a step of its own.  Keys of a   *)
(* server in HSM are PKCS#11 keys that only processes on the same host can *)
(* use; the others are raw keys, which every server without HSM can use.   *)
(*                                                                         *)
(* With Faulty a process may crash, and a request to the backend may fail, *)
(* at any point.  A schedule is the number of ticks after the start of the *)
(* rotation at which each phase is due.                                    *)
(***************************************************************************)
EXTENDS CertAuthority, FiniteSets

CONSTANTS Servers, HSM, Host,        \* the processes, those with an HSM, their hosts
          Types, HostCA, Position,   \* types.CertAuthTypes and its order
          Owner,                     \* the process that generates a key
          NoKey,
          InitialKeys,               \* the active keys the cluster starts with
          Running,                   \* the processes that have started
          UpdateClientsAt, UpdateServersAt, StandbyAt,
          Admins,                    \* the processes administrators talk to
          RequestModes,              \* the modes they ask for
          Grace,                     \* no request skips the grace period
          Faulty,
          MaxRotations               \* bound: rotations of each authority

ASSUME ServerAssumption ==
    /\ HSM \subseteq Servers /\ Running \subseteq Servers
    /\ Owner \in [Keys -> Servers]
    /\ DOMAIN Host = Servers
    /\ NoKey \notin Keys
ASSUME TypesAssumption ==
    /\ HostCA \in Types
    /\ Position \in [Types -> Nat]
    /\ InitialKeys \in [Types -> SUBSET Keys]
    /\ \A t \in Types : InitialKeys[t] # {}
\* RotationSchedule.CheckAndSetDefaults orders the last two phases only.
ASSUME ScheduleAssumption ==
    /\ UpdateClientsAt \in Nat /\ UpdateServersAt \in Nat /\ StandbyAt \in Nat
    /\ UpdateServersAt <= StandbyAt
ASSUME RequestAssumption ==
    /\ RequestModes \subseteq {"manual", "auto"}
    /\ Grace \in BOOLEAN /\ Faulty \in BOOLEAN /\ MaxRotations \in Nat

VARIABLES ca,         \* the authorities in the backend
          elapsed,    \* ticks since the rotation of an authority started
          origin,     \* history: the active keys when its rotation started
          generated,  \* the keys that have been generated
          stored,     \* those whose private part has not been deleted
          request,    \* the request a process is serving
          loop,       \* its periodic loop, or its start-up
          booting,    \* the processes that are starting
          used        \* the keys deleteUnusedKeys has found in use

vars == <<ca, elapsed, origin, generated, stored, request, loop, booting, used>>

NoCA == NewCertAuthority({})
Never == IF UpdateClientsAt > StandbyAt THEN UpdateClientsAt ELSE StandbyAt

\* A request: the types it still has to rotate (none when there is no request),
\* the authorities it has not read yet, whether the types keep their order, the
\* authorities as they were read, and what was asked for.
Asks == [target : Phases, mode : Modes, forced : BOOLEAN]
Requests == [types : SUBSET Types, unread : SUBSET Types, ordered : BOOLEAN,
             snap : [Types -> CertAuthorities], ask : Asks]
Request(types, unread, ordered, snap, ask) ==
    [types |-> types, unread |-> unread, ordered |-> ordered, snap |-> snap, ask |-> ask]
NoRequest == Request({}, {}, TRUE, [t \in Types |-> NoCA],
                     [target |-> "standby", mode |-> "", forced |-> FALSE])

\* Where the loop is, the types of this round it is not done with, its copy of
\* the first of them, and the key it has generated for it.
LoopStates == {"down", "boot", "collect", "delete", "idle", "read", "rotate", "add", "reget"}
Loops == [pc : LoopStates, todo : SUBSET Types, cur : CertAuthorities, key : Keys \cup {NoKey}]
Loop(pc, todo, cur, key) == [pc |-> pc, todo |-> todo, cur |-> cur, key |-> key]
At(pc, todo) == Loop(pc, todo, NoCA, NoKey)

TypeOK ==
    /\ ca \in [Types -> CertAuthorities]
    /\ elapsed \in [Types -> 0..Never]
    /\ origin \in [Types -> SUBSET Keys]
    /\ generated \in SUBSET Keys
    /\ stored \in SUBSET generated
    /\ request \in [Servers -> Requests]
    /\ loop \in [Servers -> Loops]
    /\ \A s \in Servers : loop[s].pc \in {"add", "reget"} => loop[s].key # NoKey
    /\ booting \in SUBSET Servers
    /\ used \in [Servers -> SUBSET Keys]

Init ==
    /\ ca = [t \in Types |-> NewCertAuthority(InitialKeys[t])]
    /\ elapsed = [t \in Types |-> 0]
    /\ origin = InitialKeys
    /\ generated = UNION {InitialKeys[t] : t \in Types}
    /\ stored = generated
    /\ request = [s \in Servers |-> NoRequest]
    /\ loop = [s \in Servers |-> At(IF s \in Running THEN "idle" ELSE "down", {})]
    /\ booting = {}
    /\ used = [s \in Servers |-> {}]

IsFirst(t, ts) == t \in ts /\ \A u \in ts : Position[t] <= Position[u]

-----------------------------------------------------------------------------
(* Keys and the backend *)

\* keySetHasLocalKeys: a PKCS#11 key of this host, or any raw key.
keySetHasLocalKeys(s, keys) ==
    \E k \in keys : IF s \in HSM THEN Owner[k] \in HSM /\ Host[Owner[k]] = Host[s]
                                 ELSE Owner[k] \notin HSM

\* newKeySet; the HSM holds the private part from here on.
newKeySet(s, k) ==
    /\ Owner[k] = s /\ k \notin generated
    /\ generated' = generated \cup {k}
    /\ stored' = stored \cup {k}

\* What a write of authority t changes, with the history that goes with it.
Write(t, new) ==
    /\ ca' = [ca EXCEPT ![t] = new]
    /\ elapsed' = [elapsed EXCEPT ![t] = IF new.id = ca[t].id /\ InProgress(new) THEN @ ELSE 0]
    /\ origin' = [origin EXCEPT ![t] = IF new.id = ca[t].id THEN @ ELSE ca[t].active]

\* Mutant: the authority is written without comparing it with the expected one.
UpsertCertAuthority(t, expected, new) == Write(t, new)

CompareAndSwapCertAuthority(t, expected, new) == ca[t] = expected /\ Write(t, new)

KeepCAs == UNCHANGED <<ca, elapsed, origin>>
KeepKeys == UNCHANGED <<generated, stored>>
KeepBoot == UNCHANGED <<booting, used>>

-----------------------------------------------------------------------------
(* RotateCertAuthority *)

Serving(s) == loop[s].pc # "down" /\ s \notin booting

\* Mutant: types that share a key are not looked for.
findDuplicatedCertificatesNone(ts, snap) == ts

\* The requested types and those that share a key with one of them.
findDuplicatedCertificates(ts, snap) ==
    ts \cup {u \in Types : \E t \in ts : Trusted(snap[u]) \cap Trusted(snap[t]) # {}}

\* getAllCertificatesForRotation reads the authorities one by one; after the
\* last one the types to rotate are known.
ReadOne(t, r) ==
    LET snap == [r.snap EXCEPT ![t] = ca[t]]
        types == findDuplicatedCertificates(r.types, snap)
    IN  IF r.unread = {t} THEN Request(types, {}, types = r.types, snap, r.ask)
                          ELSE Request(r.types, r.unread \ {t}, TRUE, snap, r.ask)

\* A request for one type, or for all of them, reads the first authority.  A
\* forced request is one with an explicit schedule and no grace period.
RotateBegin(s) ==
    /\ s \in Admins /\ Serving(s) /\ request[s].types = {}
    /\ \E ts \in {Types} \cup {{t} : t \in Types}, target \in Phases, mode \in RequestModes,
          forced \in BOOLEAN, t \in Types :
         /\ forced => target = "init" /\ ~Grace
         /\ IsFirst(t, Types)
         /\ request' = [request EXCEPT ![s] =
              ReadOne(t, Request(ts, Types, TRUE, NoRequest.snap,
                                 [target |-> target, mode |-> mode, forced |-> forced]))]
    /\ KeepCAs /\ KeepKeys /\ KeepBoot /\ UNCHANGED loop

RotateRead(s) ==
    \E t \in Types :
        /\ IsFirst(t, request[s].unread)
        /\ request' = [request EXCEPT ![s] = ReadOne(t, @)]
        /\ KeepCAs /\ KeepKeys /\ KeepBoot /\ UNCHANGED loop

\* The type whose turn it is: the list has the order of CertAuthTypes unless
\* duplicates were found, when it comes out of a map.
IsNext(t, r) == r.unread = {} /\ t \in r.types /\ (r.ordered => IsFirst(t, r.types))

RotateRefused(s) ==
    \E t \in Types :
        /\ IsNext(t, request[s])
        /\ ~supported(request[s].snap[t], request[s].ask.target)
        /\ request' = [request EXCEPT ![s] = NoRequest]
        /\ KeepCAs /\ KeepKeys /\ KeepBoot /\ UNCHANGED loop

\* The keys of a new rotation: the additional keys of the authority, and a
\* local one unless there already is one.
NewKeys(s, c, target, new) ==
    IF target = "init" /\ ~keySetHasLocalKeys(s, c.additional)
    THEN \E k \in Keys : newKeySet(s, k) /\ new = c.additional \cup {k}
    ELSE KeepKeys /\ new = c.additional

\* One authority is processed as it was read and swapped in.
RotateOne(s) ==
    \E t \in Types, new \in SUBSET Keys :
        LET r == request[s]
            old == r.snap[t]
            rest == r.types \ {t}
        IN  /\ IsNext(t, r) /\ supported(old, r.ask.target)
            /\ r.ask.target = "init" => old.id < MaxRotations
            /\ NewKeys(s, old, r.ask.target, new)
            /\ CompareAndSwapCertAuthority(t, old,
                 processRotationRequest(old, r.ask.target, r.ask.mode, new, r.ask.forced))
            /\ request' = [request EXCEPT ![s] =
                 IF rest = {} THEN NoRequest ELSE Request(rest, {}, r.ordered, r.snap, r.ask)]
            /\ KeepBoot /\ UNCHANGED loop

\* It has been updated since: the request ends, the types before it are rotated.
RotateConflict(s) ==
    \E t \in Types, new \in SUBSET Keys :
        LET r == request[s]
        IN  /\ IsNext(t, r) /\ supported(r.snap[t], r.ask.target) /\ ca[t] # r.snap[t]
            /\ NewKeys(s, r.snap[t], r.ask.target, new)
            /\ request' = [request EXCEPT ![s] = NoRequest]
            /\ KeepCAs /\ KeepBoot /\ UNCHANGED loop

RotateFailed(s) ==
    /\ Faulty /\ request[s].types # {}
    /\ request' = [request EXCEPT ![s] = NoRequest]
    /\ KeepCAs /\ KeepKeys /\ KeepBoot /\ UNCHANGED loop

-----------------------------------------------------------------------------
(* ensureLocalAdditionalKeys *)

\* Done with type t: the next type, or the rest of the start-up.
Done(s, t) ==
    LET rest == loop[s].todo \ {t}
    IN  IF s \in booting THEN At("collect", Types)
        ELSE IF rest = {} THEN At("idle", {}) ELSE At("read", rest)

\* Generates a local key for the copy c of authority t, if it has none.
ensureLocalAdditionalKeys(s, t, c) ==
    IF keySetHasLocalKeys(s, c.additional)
    THEN loop' = [loop EXCEPT ![s] = Done(s, t)] /\ KeepKeys
    ELSE \E k \in Keys : /\ newKeySet(s, k)
                         /\ loop' = [loop EXCEPT ![s] = Loop("add", loop[s].todo, c, k)]

\* addAddtionalTrustedKeysAtomic: nothing to add any more, added, or start over
\* with the authority as it is now.
AddNotNeeded(s) ==
    \E t \in Types :
        /\ loop[s].pc = "add" /\ IsFirst(t, loop[s].todo)
        /\ keySetHasLocalKeys(s, loop[s].cur.additional)
        /\ loop' = [loop EXCEPT ![s] = Done(s, t)]
        /\ KeepCAs /\ KeepKeys /\ KeepBoot /\ UNCHANGED request

AddKeys(s) ==
    \E t \in Types :
        LET c == loop[s].cur
        IN  /\ loop[s].pc = "add" /\ IsFirst(t, loop[s].todo)
            /\ ~keySetHasLocalKeys(s, c.additional)
            /\ CompareAndSwapCertAuthority(t, c,
                 CA(c.active, c.additional \cup {loop[s].key}, c.phase, c.mode, c.id))
            /\ loop' = [loop EXCEPT ![s] = Done(s, t)]
            /\ KeepKeys /\ KeepBoot /\ UNCHANGED request

AddConflict(s) ==
    \E t \in Types :
        LET l == loop[s]
        IN  /\ l.pc = "add" /\ IsFirst(t, l.todo) /\ ~keySetHasLocalKeys(s, l.cur.additional)
            /\ ca[t] # l.cur
            /\ loop' = [loop EXCEPT ![s] = Loop("reget", l.todo, l.cur, l.key)]
            /\ KeepCAs /\ KeepKeys /\ KeepBoot /\ UNCHANGED request

AddReGet(s) ==
    \E t \in Types :
        /\ loop[s].pc = "reget" /\ IsFirst(t, loop[s].todo)
        /\ loop' = [loop EXCEPT ![s] = Loop("add", loop[s].todo, ca[t], loop[s].key)]
        /\ KeepCAs /\ KeepKeys /\ KeepBoot /\ UNCHANGED request

-----------------------------------------------------------------------------
(* autoRotateCertAuthorities *)

\* A round begins when the ticker fires; each authority is read on its turn.
AutoBegin(s) ==
    \E t \in Types :
        /\ loop[s].pc = "idle" /\ IsFirst(t, Types)
        /\ loop' = [loop EXCEPT ![s] = Loop("rotate", Types, ca[t], NoKey)]
        /\ KeepCAs /\ KeepKeys /\ KeepBoot /\ UNCHANGED request

AutoGet(s) ==
    \E t \in Types :
        /\ loop[s].pc = "read" /\ IsFirst(t, loop[s].todo)
        /\ loop' = [loop EXCEPT ![s] = Loop("rotate", loop[s].todo, ca[t], NoKey)]
        /\ KeepCAs /\ KeepKeys /\ KeepBoot /\ UNCHANGED request

DueAt(phase) ==
    IF phase = "init" THEN UpdateClientsAt
    ELSE IF phase = "update_clients" THEN UpdateServersAt
    ELSE StandbyAt

\* Mutant: the last phase is left to the administrator.
ScheduledButLast(c) == c.mode = "auto" /\ c.phase \in {"init", "update_clients"}

\* autoRotate does nothing for a rotation that is manual or not in progress.
Scheduled(c) == c.mode = "auto" /\ c.phase \in AutoPhases

Due(t, c) == elapsed[t] >= DueAt(c.phase)

\* The copy c asks for its next phase now.  A copy of an earlier rotation has
\* an earlier schedule of its own, which may or may not be over.  elapsed begins anew
\* with the end of a rotation, so that a copy from before the end is not due here while
\* in the code it is and runs into a conflict of CompareAndSwap: neither writes.
AutoDue(t, c) == Scheduled(c) /\ (c.id # ca[t].id \/ Due(t, c))
AutoNotDue(t, c) == Scheduled(c) => (c.id # ca[t].id \/ ~Due(t, c))

\* After autoRotate, with the copy that was read before it.
AutoEnsure(s, t) ==
    IF loop[s].cur.phase = "init"
    THEN ensureLocalAdditionalKeys(s, t, loop[s].cur)
    ELSE loop' = [loop EXCEPT ![s] = Done(s, t)] /\ KeepKeys

AutoSkip(s) ==
    \E t \in Types :
        /\ loop[s].pc = "rotate" /\ IsFirst(t, loop[s].todo) /\ AutoNotDue(t, loop[s].cur)
        /\ AutoEnsure(s, t)
        /\ KeepCAs /\ KeepBoot /\ UNCHANGED request

autoRotate(s) ==
    \E t \in Types :
        LET c == loop[s].cur
        IN  /\ loop[s].pc = "rotate" /\ IsFirst(t, loop[s].todo) /\ AutoDue(t, c)
            /\ CompareAndSwapCertAuthority(t, c,
                 processRotationRequest(c, nextPhase(c.phase), "auto", {}, FALSE))
            /\ AutoEnsure(s, t)
            /\ KeepBoot /\ UNCHANGED request

\* An error ends this round for the remaining types too.
AutoConflict(s) ==
    \E t \in Types :
        /\ loop[s].pc = "rotate" /\ IsFirst(t, loop[s].todo)
        /\ AutoDue(t, loop[s].cur) /\ ca[t] # loop[s].cur
        /\ loop' = [loop EXCEPT ![s] = At("idle", {})]
        /\ KeepCAs /\ KeepKeys /\ KeepBoot /\ UNCHANGED request

AutoFailed(s) ==
    /\ Faulty /\ loop[s].pc \in {"read", "rotate", "add", "reget"} /\ s \notin booting
    /\ loop' = [loop EXCEPT ![s] = At("idle", {})]
    /\ KeepCAs /\ KeepKeys /\ KeepBoot /\ UNCHANGED request

-----------------------------------------------------------------------------
(* The start of an auth server *)

Start(s) ==
    /\ loop[s].pc = "down"
    /\ loop' = [loop EXCEPT ![s] = At("boot", {HostCA})]
    /\ booting' = booting \cup {s}
    /\ KeepCAs /\ KeepKeys /\ UNCHANGED <<request, used>>

\* A server without local active keys adds additional ones to the host CA.
BootKeys(s) ==
    /\ loop[s].pc = "boot"
    /\ IF keySetHasLocalKeys(s, ca[HostCA].active)
       THEN loop' = [loop EXCEPT ![s] = Done(s, HostCA)] /\ KeepKeys
       ELSE ensureLocalAdditionalKeys(s, HostCA, ca[HostCA])
    /\ KeepCAs /\ KeepBoot /\ UNCHANGED request

\* Mutant: keys that are only trusted do not count as used.
usedKeysActive(c) == c.active

usedKeys(c) == Trusted(c)

\* deleteUnusedKeys reads the authorities one by one, then deletes.
BootCollect(s) ==
    \E t \in Types :
        LET rest == loop[s].todo \ {t}
        IN  /\ loop[s].pc = "collect" /\ IsFirst(t, loop[s].todo)
            /\ used' = [used EXCEPT ![s] = @ \cup usedKeys(ca[t])]
            /\ loop' = [loop EXCEPT ![s] = IF rest = {} THEN At("delete", {})
                                                       ELSE At("collect", rest)]
            /\ KeepCAs /\ KeepKeys /\ UNCHANGED <<request, booting>>

\* The keys of this host in its HSM; raw keys are not stored anywhere else
\* than in the authority.
DeleteUnusedKeys(s) ==
    {k \in stored : k \in used[s] \/ s \notin HSM \/ Owner[k] \notin HSM
                    \/ Host[Owner[k]] # Host[s]}

BootDelete(s) ==
    /\ loop[s].pc = "delete"
    /\ stored' = DeleteUnusedKeys(s)
    /\ loop' = [loop EXCEPT ![s] = At("idle", {})]
    /\ booting' = booting \ {s}
    /\ used' = [used EXCEPT ![s] = {}]
    /\ KeepCAs /\ UNCHANGED <<generated, request>>

\* The process ends, or its start-up does because of an error.
Crash(s) ==
    /\ Faulty /\ loop[s].pc # "down"
    /\ loop' = [loop EXCEPT ![s] = At("down", {})]
    /\ request' = [request EXCEPT ![s] = NoRequest]
    /\ booting' = booting \ {s}
    /\ used' = [used EXCEPT ![s] = {}]
    /\ KeepCAs /\ KeepKeys

-----------------------------------------------------------------------------

Tick ==
    /\ elapsed' = [t \in Types |-> IF InProgress(ca[t]) /\ elapsed[t] < Never
                                   THEN elapsed[t] + 1 ELSE elapsed[t]]
    /\ UNCHANGED <<ca, origin, generated, stored, request, loop, booting, used>>

RotateCertAuthority(s) ==
    RotateRead(s) \/ RotateRefused(s) \/ RotateOne(s) \/ RotateConflict(s) \/ RotateFailed(s)
autoRotateCertAuthorities(s) ==
    \/ AutoBegin(s) \/ AutoGet(s) \/ AutoSkip(s) \/ autoRotate(s) \/ AutoConflict(s)
    \/ AddNotNeeded(s) \/ AddKeys(s) \/ AddConflict(s) \/ AddReGet(s)
Boot(s) == Start(s) \/ BootKeys(s) \/ BootCollect(s) \/ BootDelete(s)

Next ==
    \/ \E s \in Servers :
         \/ RotateBegin(s) \/ RotateCertAuthority(s) \/ autoRotateCertAuthorities(s)
         \/ AutoFailed(s) \/ Boot(s) \/ Crash(s)
    \/ Tick

\* The clock advances and the periodic ticker of every server fires.
Fairness == WF_vars(Tick) /\ \A s \in Servers : WF_vars(autoRotateCertAuthorities(s))

Spec == Init /\ [][Next]_vars /\ Fairness

-----------------------------------------------------------------------------
(* Properties *)

\* RotateCertAuthority and autoRotate against each other: an authority only
\* moves along the documented phases, one at a time, whoever moves it and
\* however old the copy it was computed from.
PhasesInOrder ==
    [][\A t \in Types :
         LET old == ca[t]
             new == ca'[t]
         IN  /\ new.id # old.id => new.id = old.id + 1 /\ ~InProgress(old)
             /\ new.phase # old.phase =>
                  <<old.phase, new.phase>> \in
                    {<<"standby", "init">>, <<"init", "update_clients">>,
                     <<"update_clients", "update_servers">>, <<"update_servers", "standby">>,
                     <<"init", "rollback">>, <<"update_clients", "rollback">>,
                     <<"update_servers", "rollback">>, <<"rollback", "standby">>}]_vars

\* A rotation without a grace period, started and completed in one step.
Forced(t) == ca'[t].id # ca[t].id /\ ~InProgress(ca'[t])

\* Why there are phases at all: a key signs only after it has been published
\* as trusted, and is dropped only after it has stopped signing.
TrustOverlaps ==
    [][\A t \in Types : ~Forced(t) => /\ ca'[t].active \subseteq Trusted(ca[t])
                                      /\ ca[t].active \subseteq Trusted(ca'[t])]_vars

\* completeRotation and startNewRotation: after a rotation, forced or not, no
\* key that signed before it is trusted any more.
OldKeysRetired ==
    [][\A t \in Types :
         /\ Forced(t) => ca[t].active \cap Trusted(ca'[t]) = {}
         /\ ca[t].phase = "update_servers" /\ ca'[t].phase = "standby"
              => origin[t] \cap Trusted(ca'[t]) = {}]_vars

\* Rollback: the authority signs with the keys it had before the rotation.
RollbackRestores ==
    \A t \in Types : ca[t].phase = "rollback" => ca[t].active = origin[t]

\* deleteUnusedKeys: no key of an authority has lost its private part.
KeysInUseStored ==
    \A t \in Types : Trusted(ca[t]) \subseteq stored

\* findDuplicatedCertificates: a request that is carried out to its end leaves
\* the authorities that share a key with the rotated one in the same phase,
\* whatever earlier requests were refused half-way.
SharedInStep ==
    [][\A s \in Servers, t \in Types :
         ca'[t] # ca[t] /\ request[s].types = {t} /\ request'[s].types = {} =>
             \A u \in Types : Trusted(request[s].snap[t]) \cap Trusted(request[s].snap[u]) # {}
                                  => ca'[u].phase = ca'[t].phase]_vars

\* A rotation in the automatic mode comes to its end, unless an administrator
\* takes it over.
AutoCompletes ==
    \A t \in Types : (InProgress(ca[t]) /\ ca[t].mode = "auto")
                        ~> (~InProgress(ca[t]) \/ ca[t].mode = "manual")

=============================================================================
