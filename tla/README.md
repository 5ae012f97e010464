# A TLA+ verification of Teleport's state machines

Teleport is an access plane: auth servers that own the certificate authorities and the cluster
state, and proxies and agents that hold certificates signed by them. The cluster state lives in a
key/value backend with expiring items and a stream of change events. This directory models the
parts of the program where the order of steps decides whether it is correct.

Paths below are relative to the root of the repository. `PROJECT.json` has the line by line
correspondence between definitions and source (`map`), all runs, mutants, hazards and findings.

## 1. Inventory

Components that are modelled:

| component | source | state | operations | what is hard | what makes it correct |
|---|---|---|---|---|---|
| backend lock | `lib/backend/helpers.go` | one expiring key that holds an id; per call a refresh timer and a context | `AcquireLock`, `Release`, `resetTTL`, `RunWhileLocked` | requests that are late, fail, or fail after they took effect; expiry racing refresh and release | one holder at a time; a release or refresh touches the caller's own lock only; a lost lock is noticed |
| rotation of an authority | `lib/auth/rotate.go` | active and additional keys, phase, mode, rotation id | `processRotationRequest` and its five transitions | - (pure) | keys are trusted before they sign and after they have signed |
| rotation by the auth servers | `lib/auth/rotate.go`, `lib/auth/auth.go`, `lib/auth/init.go`, `lib/auth/keystore`, `lib/services/local/trust.go` | the authorities in the backend, the keys in the HSMs, copies in every server | `RotateCertAuthority`, `autoRotateCertAuthorities`, `ensureLocalAdditionalKeys`, start-up with `deleteUnusedKeys` | several servers and a periodic loop on copies of different age, partial failure, crashes, HSM keys of one host | phases in order, rollback restores, old keys retired, shared keys rotated together, no key lost, automatic rotations end |
| rotation of the services | `lib/service/connect.go`, `GenerateHostCerts` in `lib/auth/auth.go` | on disk: rotation state, current and replacement identity; in memory: client and server identity | `connect`, `firstTimeConnect`, `syncRotationState`, `rotate`, `writeStateAndIdentity`, reload | a crash between two writes, a cache that lags, processes that miss phases, rollback at any time | nobody is locked out, everybody can restart, everybody catches up |
| backend event buffer | `lib/backend/buffer.go` | watchers in a prefix tree, per watcher a bounded channel and a backlog | `NewWatcher`, `SetInit`, `Emit`, `Clear`, `Reset`, `Close`, `Events`, `BufferWatcher.Close` | slow owners, overflow in the middle of a batch, `Reset` against registration and removal | no event lost, doubled or reordered; an owner that keeps up is neither stalled nor dropped |
| semaphores | `lib/services/semaphore.go`, `lib/services/local/presence.go`, `api/types/semaphore.go` | a backend item with the leases and their expiry; per lock a lease, a ticker, a context | `AcquireSemaphore`, `KeepAliveSemaphoreLease`, `CancelSemaphoreLease`, `DeleteSemaphore`, `SemaphoreLock.keepAlive`, `Stop` | compare-and-swap loops on several auth servers, renewals that arrive late or whose answer is lost, expiry of a lease and of the whole record | never more holders than the limit, nobody holds a lease that has lapsed without being told, places become free |
| cache and event fan-out | `lib/cache`, `lib/services/fanout.go` | per cache a copy of its parent's items, a watcher, read guards; per fan-out the watchers | `fetchAndWatch`, `fetch` and `apply`, `processEvent`, `read`, `Fanout.NewWatcher`, `SetInit`, `Emit`, `Reset`, `Close` | events that pile up during a fetch, chains of caches that start over in any order, full channels | a cache that follows its parent has missed nothing, readers never see half of a state, all caches converge |
| session recording (sync mode) | `lib/events/auditwriter.go`, `lib/events/stream.go`, `lib/events/complete.go`, `lib/events/filesessions/filestream.go`, `api/client/auditstreamer.go`, `CreateAuditStream` in `lib/auth/grpcserver.go` | the writer's buffer of unconfirmed events; per stream the slice, part numbers and uploads; parts, uploads and the recording in the storage | `EmitAuditEvent`, `updateStatus`, `recoverStream`, `tryResumeStream`, `receiveAndUpload`, `completeStream`, `Close`, `checkUploads` | broken streams whose auth server finds out late, lost statuses, replays, crashes between a part and its status | what the writer forgets is stored, a recording is whole and stays so, no upload is left behind |

They interact as follows. `RotateCertAuthority` and the periodic loop of every auth server change
an authority by `CompareAndSwap` in the backend; the cache of the auth servers follows the events
of the backend; agents read the rotation state from an auth server, ask it for certificates and
reload. The lock keeps auth servers from initialising a cluster at the same time and guards
`ReplaceRemoteLocks`. The buffer is what every backend publishes its events through; the cache of
an auth server is one of its watchers, and the caches of proxies and agents watch the fan-out of an
auth server's cache in turn. Semaphores live in the same backend and limit, for example, the
sessions of a user. A node that records a session in sync mode streams the events to any auth
server; the parts it stores are found and completed by the upload completer of another one if need
be.

Components that are not modelled are listed in `PROJECT.json`, with the reason: the in-memory
backend, access requests, trusted clusters, reverse tunnels, inventory control, heartbeats,
moderation, supervisor, circuit breaker (candidates, see the plan), and the protocol proxies, web
handlers, command line tools, role checks and cryptography (not planned: I/O or pure functions).

## 2. Modules

| module | models | relies on |
|---|---|---|
| `BackendLock` | the lock; a caller has a main thread and a refresh goroutine, each backend request is a step | - |
| `CertAuthority` | an authority and its transitions, as functions | - |
| `CARotation` | the auth servers that rotate authorities | `CertAuthority` |
| `RotationSync` | the processes that follow the host CA | `CertAuthority` |
| `EventStream` | abstract: what a watcher is promised | - |
| `CircularBuffer` | the event buffer, shown to implement `EventStream` | `EventStream` |
| `Semaphore` | the record of a semaphore, the operations on it and the keepalive of its holders | - |
| `ReplicaCache` | a tree of caches that follow the backend, with their fan-outs | - |
| `SessionRecording` | a recording from the writer on a node to the completed upload | - |
| `MC*` | instances for TLC: orders, owners of keys, symmetry | |
| `BackendLockProofs`, `CARotationProofs`, `RotationSyncProofs`, `CircularBufferProofs`, `SemaphoreProofs`, `ReplicaCacheProofs`, `SessionRecordingProofs` | theorems about the module of that name, with proofs for TLAPS | the module |
| `EventStreamProofs` | the refinement of `EventStream` by `CircularBuffer`, with its proof | `CircularBufferProofs` |

### BackendLock

`lock` is the item in the backend, `pc` the main thread of a call and `refresher` its goroutine.
`lease` and `renewal` are the `Expires` that were computed from the caller's clock *before* the
request reached the backend; that they lose time on the way is the reason why a lock can expire
early. All times are ticks that are left, so the clock is not bounded. A run is *reliable* when no
request fails and each thread finishes an operation within `Delay` ticks; all other runs allow any
delay and any error, including errors after the request took effect.

### CertAuthority and CARotation

A key stands for the SSH, TLS and JWT pairs that `newKeySet` makes together; a key set is a set of
keys. `State` of `types.Rotation` is determined by the phase, and `CurrentID`, a fresh uuid, is a
count. A server serves one request (`request`) and runs the periodic loop (`loop`, which also
carries the start-up) independently. Each authority is read in a step of its own, because
`getAllCertificatesForRotation` and `deleteUnusedKeys` read them one after the other; every
`CompareAndSwap` compares the whole authority, as the code does. `origin` is a history variable:
the active keys from which the last rotation started.

### RotationSync

The authority moves by the transitions of `CertAuthority`; that concurrent servers amount to such
steps is the theorem `RotationPhasesInOrder` and the lemma `EveryStep` of `CARotationProofs`.
`cached` is the copy from which auth servers answer. A node gets the keys to trust together with
its certificate. `pc` splits `writeStateAndIdentity` into its two writes, with a crash possible
before, between and after. *Patient* is the administrator who asks for the next phase when all
processes have followed the last one, as `docs/pages/management/operations/ca-rotation.mdx` tells
him to; a rollback is possible at any time.

### EventStream and CircularBuffer

`Emit` holds the mutex for its batch (`batch`) and calls each watcher once for each of its
prefixes that matches (`walk`); what overflowed is removed at the end of each event. Owners
alternate `Events()` and a receive, and take no part in that mutex, so they interleave with all of
it. In the refinement a watcher's `stream` is what its owner has received, its channel, its
backlog, and the event being fanned out if it has not been called for it yet; the interest of a
watcher is taken from the prefixes it *asked* for, whereas the buffer works with what
`removeRedundantPrefixes` kept. `behind` is a history variable: the ticks since a flush, by `emit`
or by `Events()`, last found room for the whole backlog.

### Semaphore

A *lock* is one call of `AcquireSemaphoreLock`; as `AcquireSemaphore` draws a fresh lease id it is
its own lease id. `pc` is the call and then its goroutine `keepAlive`, which waits for one call of
`KeepAliveSemaphoreLease` at a time (`call`). Each call has a handler on the auth server
(`handler`), a thread of its own: a call may fail for the goroutine, with its context or with the
connection, at any point of the handler (`KeepAliveError`), and the goroutine calls again while the
handler of the failed call runs on. `Calls` bounds how many are under way at a time. Each thread reads the record with `Get` and computes at once what it will
write (`seen`, `update`); `Create` or `CompareAndSwap` is a later step. Two records that are equal
but for a renewal in between have different expiry times, which a count of ticks left cannot tell
apart: `fresh` says that no lease was renewed since a thread's `Get`. The clocks of auth servers
and holders are assumed to agree. Of lateness one thing has to be assumed for the limit to hold
(section 4): in a *punctual* behaviour the handlers of a round's calls have ended when the next
round begins. `punctual` says of a behaviour whether it is one; the specification has both kinds,
`HoldersBounded` and `HolderKnowsExpiry` speak of the punctual ones and all other properties of
both. Within a round any number of failed calls race their retries in either kind. An expired lease that is still in the record may be renewed by a
request that was late; the holder has left by then and its deferred cancel removes the lease again
(`PlaceFreed`).

### ReplicaCache

`content` is what the backend and every cache hold, `unsent` the changes to it whose events are
not emitted yet, `queue` the bounded channel of a cache's watcher. `pc` follows `fetchAndWatch`:
watcher, init event, fetch kind by kind from whatever the parent reads from at that moment
(`Serving`: a parent that is not readable passes reads on to its own source), apply collection by
collection and item by item under the write lock, `SetInit`, then the loop. A failure anywhere
resets the fan-out: its watchers are detached at once and find out later (`CloseWatcher`). One
collection, that of the nodes, stands for all of them, as they erase, upsert and process events
alike. `torn` is a history variable: an apply has changed items of the cache and none has run to
its end since, so that a failed apply leaves the cache torn. The queue of a cache of the backend
stands for the channel and the backlog of its `BufferWatcher`; a full queue drops the watcher at
once, where the buffer lets the backlog grow for a grace period, so the model disconnects caches at
least as often as the code (`EmitBackend`).

### SessionRecording

An event is its index. `buffer` and `trimmed` are the events that the writer keeps and those it
was told are stored. A stream has a client's end (`conn`, `wire`, `statusCh`) and a server's end
(`handler`, `loop`), and the two find out about a broken connection independently. `current`,
`lastPartNumber`, `activeUploads` and `completedParts` are those of `sliceWriter`; when a slice is
large enough, or idle for long enough, is left open (`FlushSlice`). The status of an upload
passes three channels that each drop what does not fit; the model has one of them and lets
`CompletedUpload` be late instead. An event of `Faulty` may meet a permanent error wherever
`EmitAuditEvent` can report one: the writer keeps it in its buffer and does not send it
(`lib/events/auditwriter.go:446`), the handler leaves it out and goes on
(`lib/auth/grpcserver.go:309`), or the stream has a slice for it, sets the timer of that slice
(`flushCh`) and loses it (`lib/events/stream.go:570`); a permanent error in a replay ends the writer
(`lib/events/auditwriter.go:522`). `erased`, `omitted` and `source` are history variables: the
events of a part that was overwritten by one without them, those that a permanent error was
reported for, and who completed the recording. `ConfirmedStored` and `WholeRecording` have three
exceptions: events that were overtaken, and those that are `Lost`, overwritten or omitted. `ReadFrom` is what
`ProtoReader` makes of a recording: it skips an event whose index is not larger than the last one.

## 3. Runs

| run | instance | checks |
|---|---|---|
| `lock` | 2 callers, ttl 7, delay 1; reliable and unreliable | `TypeOK`, `MutualExclusion`, `ReleaseOnlyOwn`, `OwnershipOnlyByCreate`, `LostLockCancels` |
| `rotation_concurrent` | 2 servers, both with requests and loop, 1 authority, automatic and forced rotations | `TypeOK`, `RollbackRestores`, `PhasesInOrder`, `AutoCompletes` |
| `rotation_shared` | 1 server, 3 authorities of which 2 share a key, manual | `SharedInStep`, `OldKeysRetired` |
| `rotation_hsm` | 1 server with an HSM, 2 without that join, crashes and errors | `KeysInUseStored`, `TrustOverlaps` |
| `sync_patient` | 1 auth server, 1 node with changed principals, 2 rotations, 2 crashes, patient | `NoLockout`, `CatchesUp`, `ReloadsSettle` |
| `sync_any` | 1 auth server, 1 node that joins, changed principals, 1 crash, impatient | `TypeOK`, `ReplacementOfRotation` |
| `buffer` | 1 watcher, capacity 1 or 2, 4 events in batches of up to 2, grace period 1 | `TypeOK`, `DetachedIsTold`, `NoStall`, `ImplementsEventStream`, `OverflowsAfterGrace`, `Delivered`, `DoneIsRemoved` |
| `semaphore` | 2 locks, limit 1 or 2, expiry 2, 2 attempts, 1 keepalive call at a time, punctual | `TypeOK`, `HoldersBounded`, `OnlyOwnLease` |
| `semaphore_live` | 1 lock, expiry 3, 2 attempts, 2 keepalive calls at a time, punctual or not | `HolderKnowsExpiry`, `LapseNoticed`, `PlaceFreed` |
| `cache` | backend, auth server, node; 2 kinds, channels of 1, 2 writes, 1 fault | `TypeOK`, `ReplicaInSync`, `NoPartialReads`, `Converges` |
| `recording` | 3 events of which 1 may meet a permanent error, 2 streams, 1 emitter, 1 attempt to resume | `TypeOK`, `ConfirmedStored`, `WholeRecording`, `UploadsCompleted`, `RecordingKept` |
| `recording_overwrite` (violation) | 2 events, 2 streams | `NothingErased` |

What the properties say is in the comment above each of them. `cache` and `recording` do not
check for deadlock: a closed cache and a completed recording have nothing more to do.

Why these bounds are enough to meet the interesting cases:

- *lock*: with a delay of 1 the ttl needs 7 ticks (`RoomForDelays`); 2 callers are enough for every
  race of an old and a new owner, and the theorems hold for any number.
- *rotation*: 1 rotation has all phases, rollbacks included; 2 servers have copies of every age.
  A second rotation matters to the services, which keep old identities, and is in `sync_*`.
- *hsm*: the third server makes `addAddtionalTrustedKeysAtomic` find the key that it was about to
  add, added by another one.
- *buffer*: with capacity 1 the init event already fills the channel, so the first event starts
  a backlog and the second one can overflow; the list of prefixes has one that is redundant and
  not adjacent to the one that covers it. Watchers share nothing but the tree and the mutex; the
  theorems about the buffer hold for any number of them.
- *semaphore*: the record is absent or just left by its last holder, so that both locks also meet
  in `CompareAndSwap` and not only in `Create`; 2 locks contend for 1 place, and share 2; with an
  expiry of 2 the ticker fires once before the lease lapses, so that one late renewal is enough.
  Retries go on until the last attempt in both loops. In `semaphore_live` one lock is enough: what
  another one does to it is a `CompareAndSwap` that fails, and every request may fail there; its
  two calls are a failed one that runs on and its retry, and with an expiry of 3 there is a second
  round for the first to reach into when the behaviour is not punctual. The two are apart because
  the product has too many states; the theorems cover any number of locks and calls at once.
- *cache*: the chain is as long as in a cluster (a node does not feed another cache); 2 kinds are
  what a fetch needs to read at different times; a channel of 1 overflows with the second write;
  the fault hits every point of the fetch and the loop.
- *recording*: a status takes events off the buffer only if it covers two, so that the third is
  the one that stays and is replayed; the second stream is the resumed one. The event that may be
  omitted is the one in the middle, so that it is confirmed, replayed, alone in its slice or next to
  others; with `MaxFlushPart = 3` the parts 1 and 3 are uploaded while a stream runs and further ones when
  it ends, which bounds the run and which the theorems do not need. A third one adds an
  order of parts that two do not have (an event that was overwritten in one part is still in a
  later one), for which `erased` counts by part; three streams with two events were searched in
  part, without an error, and `ConfirmedStored`, `WholeRecording` and `RecordingKept` are proved
  for any number. With two emitters and two events, or two attempts, the properties
  hold as well; those instances add no state that the one kept does not have a counterpart of, but
  for overtaken events, for which the properties make an exception.

Every property has a mutant in `PROJECT.json`, a plausible bug in the modelled code that TLC finds
through it.

### Fairness

- `BackendLock`: the clock advances and the refresh goroutine is scheduled. Nothing is assumed of
  the main thread: `fn` may never return.
- `CARotation`: the clock advances, the ticker of each server's periodic loop keeps firing and the
  loop is scheduled. Administrators owe nothing.
- `RotationSync`: the cache follows the backend (its watcher reconnects) and each process runs its
  cycle (`periodicSyncRotationState` retries for ever). Rotations and crashes owe nothing.
- `CircularBuffer`: `Emit` runs to its end, owners go on receiving, an owner closes a watcher that
  is done (`defer watcher.Close()`), and a goroutine that waits for the mutex gets it, again and
  again if need be (strong fairness: Go's mutex hands over to a starving waiter).
- `Semaphore`: the clock advances, `keepAlive` and the handlers of the auth server are scheduled.
  `KeepAliveLeave` is strongly fair: when doneC or a context is done, the `select` of `keepAlive`
  chooses uniformly among what is ready and so takes that way out in the end. Holders owe nothing.
- `ReplicaCache`: events arrive, the goroutines are scheduled, read guards are released, and the
  `RWMutex` lets a waiting writer go before later readers (strong fairness of `BeginApply`).
- `SessionRecording` has no fairness. All its behaviours are finite, as events and
  streams are bounded and no step undoes another, so that `UploadsCompleted` says when they may
  end: while an upload of a closed session is open, a goroutine has a step to take.

## 4. Findings

One run expects a violation; `findings` quotes the comment it contradicts.

`recording_overwrite`: when a writer resumes its upload in another stream, the new stream begins
with the number of the last stored part plus two, and with part 1 if there is none
(`NewProtoStream`). Part numbers of one stream go up by two (`startUploadCurrentSlice` and
`newSlice` each add one), so this is the number of the slice that the stream that was given up is
still filling. Its auth server finds the connection broken, flushes, and so replaces a part which
the new stream has stored and confirmed; the events of it that the old slice does not have are
gone, as the writer has dropped them from its buffer. The comment in `NewProtoStream` describes
this very case and means to exclude it.

Other divergences that were met while modelling, reproduced by giving the same modules other
constants or by stating the opposite, and that the properties above are therefore not stated for:

- `Release` of a lock (`lib/backend/helpers.go:93`) reads the lock and deletes the key in two
  requests. If the lock expires in between and another caller acquires it, that caller's lock is
  deleted, although the function has an error for "ownership changed". In a reliable run this
  cannot happen (`ReleaseOnlyOwn`, proved).
- A server with an HSM that starts in `update_clients` or `update_servers` adds its key to the
  additional keys (`lib/auth/init.go:381`), which after the swap are the *old* ones; a rollback
  then makes the added key an active one, so the cluster is not back in the original state, as
  `lib/auth/rotate.go:183` says. `RollbackRestores` is checked, and proved, without HSMs.
- A node that joins in `update_clients` stores that phase, but no replacement identity
  (`lib/service/connect.go:652`); it fails to follow the CA to `update_servers` and to restart.
  `NoLockout` and `CatchesUp` are checked without joins, and `NoLockout` is proved without them.
- An event that is overtaken by one of another goroutine, between `setupEvent` and the channel of
  the writer (`lib/events/auditwriter.go:290`), is skipped by `ProtoReader`, and a status for the
  later index takes it off the buffer whether it is stored or not.
- A writer that loses its first stream before the first status creates a second upload
  (`lib/events/auditwriter.go:562`). The first one is found by the upload completer, which writes
  its few parts over the complete recording. `RecordingKept` is stated for sessions with one
  upload. `CompleteUpload` of the file storage also truncates the recording before it finds that
  the upload is gone.
- `recoverStream` gives up for good when the replay into the resumed stream fails, without using
  the attempts that are left (`lib/events/auditwriter.go:520`). An upload loop that has ended is
  noticed by the client only with its next event.
- An event that meets a permanent error is left out of the recording and logged, and stays in the
  writer's buffer; a later status takes it off as if it were stored
  (`lib/events/auditwriter.go:446`, `lib/auth/grpcserver.go:309`, `lib/events/stream.go:570`).
  `ConfirmedStored` and `WholeRecording` make an exception for it and say that no other event is
  lost with it. A slice that has lost its only event is uploaded empty, and its status confirms
  nothing. The same error during a replay ends the writer, with all that is in its buffer
  (`lib/events/auditwriter.go:522`).
- The renewal of a semaphore lease sets `Expires` to what the request says, earlier or later
  (`api/types/semaphore.go:172`), and `keepAlive` calls again after any error, whether the handler
  of the failed call has ended or not (`lib/services/semaphore.go:165`). A handler that is held up
  before its `Get` until a later round has succeeded sets the lease back: it lapses in the record
  while its holder believes in it, and another lock may get the place. `HolderKnowsExpiry` and
  `HoldersBounded` are false of such behaviours and are checked, and proved, for punctual ones.
  Nothing in the code enforces it; that a gRPC server cancels the context of a handler whose
  connection broke, and that rounds are half an expiry apart, makes it unlikely.
- The comment on `AcquireSemaphore` (`lib/services/local/presence.go:707`) calls it the only method
  of semaphores that retries internally; `CancelSemaphoreLease` does so too.
- `firstTimeConnect` only logs a failed `WriteIdentity` and goes on to `WriteState`
  (`lib/service/connect.go:660`): the node has a state but no identity.
- A forced rotation (grace period 0) in a cluster with HSMs makes the additional keys active
  and keeps them as additional (`lib/auth/rotate.go:678`); the next forced rotation finds them in
  both sets and leaves them trusted. `OldKeysRetired` is checked without HSMs, and proved for
  clusters without HSMs or whose rotations have a grace period; neither can be left out.
- During a reload two processes share a host. `deleteUnusedKeys` of the new one may delete a key
  which the old one has generated and is about to add (`lib/auth/auth.go:3879`).
  `KeysInUseStored` is checked, and proved, for one process per host.
- `lib/auth/rotate.go:195` says that a failed automatic transition switches to the manual mode;
  `autoRotate` returns the error and tries again in the next round. The model does what the code
  does.
- The check in `lib/service/connect.go:1014` lets a process go from `init` to `update_servers` of
  the same rotation and promote the replacement identity of an earlier one. It takes an
  administrator who does not wait.
- A service whose principals change during `init` is told that it is out of sync although its
  state is that of the cluster (`lib/service/connect.go:984`); it recovers with the next phase,
  which `sync_patient` shows.

## 5. Proofs

`BackendLockProofs`, for any callers, ttl and delay with `TTL - TTL \div 2 > 3 * Delay`:

- `TypeCorrect`; `LockOwnershipOnlyByCreate`, in every run.
- `LockMutualExclusion` and `LockReleaseOnlyOwn`, in reliable runs. `MutualExclusion` alone is not
  inductive: it has to be known that the lock outlives the next refresh. `LockInv` says so by
  arithmetic: an expiry that is on its way has lost at most the age of the operation
  (`AcquireInv`, `RefreshInv`), while `fn` runs the lock lasts `Slack = TTL - RefreshAfter - Delay`
  beyond the refresh timer (`RunningInv`), and while it is released it lasts longer than the rest
  of the release (`ReleaseInv`). `RoomForDelays` is what makes `Slack` larger than two delays.

`CARotationProofs`, for any servers, hosts, authorities, keys and schedules:

- `RotationTypeCorrect`.
- `RotationPhasesInOrder` and `RotationTrustOverlaps`. Both rest on the lemma `EveryStep`: because
  each write is a `CompareAndSwap` of the whole authority, any step of any server changes an
  authority by a transition of the state machine from its *present* value (`Rotates`) or by adding
  a key (`Extends`), however old the copy was that the step was computed from.
- `RotationRollbackRestores`, for clusters without HSMs, which is where the divergence above
  does not apply. The strengthening `OriginKept` says where the keys of before the rotation are in each
  phase: active in `init` and in `rollback`, additional in between.
- `RotationKeysInUseStored`, for hosts that run one auth server at a time. `KeysInUseStored` is not
  inductive: `deleteUnusedKeys` reads the authorities one by one and deletes at the end. `BootInv`
  says that meanwhile a server that starts has seen every key of its own that an authority already
  read has, and `EveryStep` that nobody else adds a key of its host.
- `RotationOldKeysRetired`, for clusters without HSMs or rotations with a grace period.
  `RetiredInv`: signing keys are never among the additional ones, those of before the rotation have
  stopped signing from `update_clients` on, and what a server is about to add is a key that no
  authority has. Both hypotheses are needed (section 4).
- `RotationSharedInStep`, for one administrator who rotates by hand, with any number of other
  servers that add keys, start and crash. Both restrictions are needed: a second administrator, or
  the automatic mode, may move an authority on before a request is done with the others.
  `findDuplicatedCertificates` looks for types that share a key with a requested one and no
  further, so it finds all only if sharing is transitive. That is why the theorem assumes that
  authorities begin as copies of each other or with nothing in common (`InitiallyCopies`, which is
  how an authority comes to share keys: `migrateDBAuthority` copies the host CA). `SeparateInv` and
  `PendingInv` say that keys generated later are never shared, `WholeInv` that the first keys of an
  authority come and go together, and `CarriedInv` that what shares a key with an authority that
  the request has still to rotate is to be rotated too or already has the new phase.

`RotationSyncProofs`, for any processes, rotations and crashes:

- `SyncTypeCorrect`, and `SyncReplacementOfRotation` for every administrator. `ReplacementsInv`
  carries the shape of the authority (`ShapeOf`: one signing key, one more key while a rotation
  goes on, one of the two of this rotation) through the cache into every certificate on its way.
- `SyncNoLockout`, when the administrator is patient and no node joins (with joins TLC refutes it,
  section 4). `PatientInv` bounds how far a process may be behind (`InWindow`), and says of each of
  its identities, in memory, on disk and being written, that it is good for every server of now
  (`ClientOK`, with the set of keys that servers may present as a parameter); `Prepared` is what a
  process that has caught up needs for the next phase. A rollback is the hard step: it is asked for
  while processes are anywhere in the window.

`CircularBufferProofs`, for any watchers, prefixes, queue sizes, batches and grace period:

- `BufferTypeCorrect`, together with `Quiet`: outside a call of `Emit` nobody is to be called and
  nobody to be deleted, which is why `clear` and `removeWatcherWithLock` may shorten the tree.
- `BufferNoStall`. `emit` and `Events()` both *serve* a watcher (`Served`): the channel they leave
  is full if there is a backlog. A full channel is not empty because no channel has capacity 0,
  and a receive sends the owner back to `Events()`.
- `BufferDetachedIsTold`: each way out of the tree cancels the context, or follows a `Close` that
  has (`removals` are `done`, part of `TypeOK`).
- `BufferOverflowsAfterGrace`. The strengthening `Lag` says that a backlog has been there, with no
  flush that emptied it, for at least as long as `backlogSince` says; a service that leaves some of
  the backlog keeps `backlogSince`, and one that starts a new backlog sets it to now.

`EventStreamProofs`: `BufferImplementsEventStream`, for any watchers, capacities, batches and grace
period. One lemma per step of the buffer says which step of `EventStream` it is, or that no watcher
can see it. The invariant `MapInv` says who is still to be called during a fan-out (`Due`) and that
nothing was sent before `SetInit`; from it follows that at most the event being fanned out is owed
to a watcher. The hypothesis `MatchedOnce` is what `removeRedundantPrefixes` owes to the buffer:
the prefixes a watcher is registered with match each key it asked for, and once. That the function
does so for every list needs induction over the list; TLC evaluates it in the run `buffer`, whose
mutant `removeRedundantUnsorted` breaks it.

`SemaphoreProofs`, for any locks, limits, expiry and number of attempts:

- `SemaphoreTypeCorrect`.
- `SemaphoreHolderKnowsExpiry`, of punctual behaviours, with any number of failed calls that run on
  next to their retries. It is not inductive, because a renewal is computed from a record
  that was read earlier and is answered later. `LeaseInv` adds: no lease outlives its record
  (`Covers`), a write that is under way keeps the unexpired leases of all others (`Keeps`) and gives
  its own lock what the lock or its handler believes (`WritesInv`), a renewal is for later than the
  lease that it renews (`TimesInv`), the keepalive and its handlers agree on who is asked
  (`KeepAliveInv`), and, where the hypothesis is needed, every handler under way renews for no less
  than the holder knows or is about to know (`RoundInv`): it is of this round. The lemma `EveryEffect` reduces every step of a lock to a read, or to a
  `Create` or `CompareAndSwap` of what was computed from the very record that it replaces.
- `SemaphorePlaces` and `SemaphoreHoldersBounded`: neither the record nor any write under way has
  more leases than the limit, expired ones included, in any behaviour; each holder with time left
  has one, in a punctual one.
- `SemaphoreOnlyOwnLease`, in any behaviour, which also needs that a write never shortens the life of the record
  (`LastsInv`).

`ReplicaCacheProofs`, for any finite or infinite tree of caches (`TreeAssumption`: every set of
caches has one whose parent is outside of it), any items, kinds and sizes of channels:

- `CacheTypeCorrect`.
- `CacheNoPartialReads`: a cache is torn from the first change of an apply until one has run to its
  end, also when it fails half-way, and is not readable meanwhile (`TornStep`).
- `CacheReplicaInSync`. The invariant `CacheInv` says that a copy together with the events on the way to it (in the
  channel, and those the parent has still to emit) makes up the original, from the moment the init
  event was sent; during a fetch it says so of each kind that was read, at the time it was read.
  Events on the way never contradict the parent (`UnsentInv`, `SyncInv`), so that one that is
  applied twice does no harm. `BaseInv` says that a fan-out is initialized only while its cache
  follows its own parent, which is why a fetch that begins after the init event reads from the
  parent itself and not from where that one falls back to.

`SessionRecordingProofs`, for any emitters, events, streams and attempts:

- `RecordingStructure` and `RecordingTypeCorrect`: one stream is in use, one slice of it is being
  uploaded, a part that a stream counts as completed is there. That the first part number of a
  resumed stream is positive and beyond all that are listed needs that a bounded set of numbers has
  a greatest element (`PartsBounded`, `MaxFact`).
- `RecordingConfirmedStored`. The argument is that no event overtakes another between the writer
  and the storage (`Flow`): where an event is - stored, being uploaded, in the slice, on the
  connection - the events in order before it are there too or further on. A status speaks of the
  last event of a stored slice, so all before it are stored (`StatusInv`), and what is replayed
  into a resumed stream begins with the first event that was not confirmed (`ResumedInv`). The
  storage loses nothing but to an overwritten part (`StorageGrows`), and an omitted event is no
  longer counted by `Flow`. An event is in the buffer once (`Distinct`), so that omitting it at one
  place accounts for it at all others.
- `RecordingWhole`. The parts of an upload have the first odd numbers (`FirstOdds`), and a stream
  that runs gives the next ones to its slices (`Numbered`), so that it never uploads before a part
  it has found. Everything on the way - the connection, the slice, the slice being uploaded, each
  part - is closed under the order of the events, given what is further on, was overwritten or
  omitted (`Ordered`, `Path`). A stream that is asked to complete has on this way all that the writer took
  (`LineOK`, `WriterLine`), and so has the completed recording. `ReadFact` concludes: an event that
  `ProtoReader` skips, as its index is not larger than the last one, it has read before, or it had
  been overtaken, overwritten or omitted.
- `RecordingUploadsCanComplete`: what `UploadsCompleted` says, with the guards of the steps
  (`CanEnd`) in place of `ENABLED`. `WaitInv`: a handler that waits for its loop has one that runs,
  and one that waits for a message of a writer that has ended has `CompleteStream` to read or a
  connection that is down. That the guards do enable the steps TLC has checked on the instance of
  the run `recording`.
- `RecordingIsKept`. `EndInv`: only the last stream of a writer that has ended is ever asked to
  complete an upload, once, and the upload completer finds something to do only when all streams
  are gone.

Assumptions on constants are those of the modules (`CallerAssumption`, `TimeAssumption`,
`RoomForDelays`, `ServerAssumption`, `TypesAssumption`, `ScheduleAssumption`,
`RequestAssumption`, `BufferAssumption`, `ProcessAssumption`, `KeyAssumption`, `NoneAssumption`,
`LeaseAssumption`, `CallsAssumption`, `ExpiryAssumption`, `TreeAssumption`, `RecordingAssumption` and the
`BoundAssumption`s); TLC evaluates them in each run. A bound (`MaxEvents`, `MaxRotations`, ...) is
any natural number, so the theorems hold for executions of any length.

What the proofs changed in the models. `SharedInStep` was an invariant that compared the phases of
authorities between requests; a request that is refused half-way breaks it, so it is now stated of
the step that ends a request. `TypeOK` of `SessionRecording` no longer bounds part numbers, which
grow with every resumed stream. `erased` of `SessionRecording` counts per part: with three streams
an event may be overwritten in one part and be stored in a later one, which `ProtoReader` reads
out of order, so that `WholeRecording` was false as it stood. `omitted` was added for the
permanent errors, without which it was true of the model only. `RecordingAssumption` says that
`Nobody` is neither of the two that complete an upload, as `WholeRecording` takes for granted.

Only model-checked:

- liveness (`AutoCompletes`, `CatchesUp`, `ReloadsSettle`, `Delivered`, `DoneIsRemoved`,
  `LapseNoticed`, `PlaceFreed`, `Converges`, `LostLockCancels`) and `UploadsCompleted`, which is
  about `ENABLED` (its guards are the theorem `RecordingUploadsCanComplete`): out of reach of the
  prover;
- `MatchedOnce`, as above: induction over data. Where an induction over a natural number is enough
  the proofs use that a set of numbers has a least or a greatest element instead.

## 6. What is left out

Of the modelled components: `RotateExternalCertAuthority` (trusted clusters); processes with
several services, and dialling, in `RotationSync`; disks that fail; metrics and logs. In a rotation
request `findDuplicatedCertificates` may reorder the types by a map iteration, which is a
nondeterministic choice.

Of rotations: `SharedInStep` speaks of the step that ends a request that was carried out, not of
one that fails between two authorities, after which they differ until the request is repeated;
`AutoCompletes` is checked for one authority, whose rounds may lose a `CompareAndSwap` to another
server but do not fail otherwise. Of semaphores: clocks that disagree, and listing. Of the cache: the expiry of items, with
`performRelativeNodeExpiry`, which lets a replica differ from its parent on purpose; the `fnCache`
of reads that fall back, which may be stale for its ttl; single reads that fall back for one
missing item; the filter of watches by kind and the members of a `FanoutSet`. Of session recording:
the async mode (`lib/events/filesessions/fileasync.go`), in which the node stores parts on its own
disk first; the storages of S3 and GCS; `isUnrecoverableError`, which no error of a stream to an
auth server matches; the events that the writer drops on purpose in its backoff,
which leave a gap in the indexes and nothing else; and the `session.end` event that the completer
adds.

## 7. Plan

1. An abstract authority that `CARotation` implements, in place of the reference to `EveryStep` by
   which `RotationSync` takes over its transitions.
2. Further components: `lib/backend/memory` (tree, expiry heap and events, composed with
   `CircularBuffer`), access requests, `RotateExternalCertAuthority` and trusted clusters,
   heartbeats and inventory control, the async mode of session recording.
