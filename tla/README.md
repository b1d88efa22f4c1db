# Verification of the kinugasa recording backend

TLA+ models of the console backend in `src/crates` (Rust, Tokio, MySQL, S3,
RIST): what it promises about takes, videos and cameras while users, camera
inputs, uploads, passes, crashes and restarts act on it at the same time. TLC
checks small instances; TLAPS proves what matters most for all of them.

## 1. Inventory

| component | state | operations | hard behaviour |
|---|---|---|---|
| take use cases (`application/take.rs`) | none of its own: rows and the tasks in flight | `start_take`, `finish_take`, queries | a transaction, then one task per camera that calls its worker and commits the answer; requests may be dropped half way |
| recording state (`application/recording_state.rs`) | `takes`, `recording_cameras`, `video_files`, `finalized_recordings` | fail a recording, finish, stage, persist an upload, converge | many paths settle one video; conflicts; reasons have to agree |
| camera use cases (`application/camera.rs`) | `camera_identities`, `camera_connections` | create, delete (forced), queries | deletion against recording and upload |
| media coordinator (`application/media_coordinator.rs`) | tasks of a pass | startup recovery, periodic pass, event processing | reads a list, acts later; events are applied late |
| upload coordinator (`application/upload_coordinator.rs`) | tasks of a pass | list, upload, persist | late results, retries, forced deletions in between |
| backend process (`kinugasa-app/src/backend.rs`) | life of the process | recover, serve, stop | any task that ends stops all the others |
| media service and camera workers (`kinugasa-media/src/service.rs`, `camera.rs`) | registry, input state, open file, command queue, event channel | provision, revoke, start, finish, packets, disconnections | queue overflow, worker outliving its registry entry |
| recording files (`recording.rs`) | partial and final file | create, write, finish, drop | crash between link, removal and staging |
| RIST transport (`rist.rs`) | port pool, flow routes | allocate, release, observe, time out | exhaustion, colliding flows |
| MoQ preview (`moq.rs`, `preview.rs`) | grants, publications and their tasks, the listener's tasks | provision, revoke, authorize, shut down | a publication that lags or fails, tokens that expire while they are used, a shutdown that waits for all |
| object storage (`kinugasa-s3`) | objects | conditional put, head | lost answers, foreign objects |
| MySQL repository (`kinugasa-mysql`) | the rows, their locks, keys and constraints | queries | row locks, deadlocks, unlocked reads, rows that do not load |
| sessions, lockfile (`session.rs`, `lockfile.rs`) | rows that never change; a join | create, queries | the locking read of a session locks its takes too |
| statistics, HTTP API, configuration | read-only or constant | queries | a client that disconnects |
| web console, contracts, deployment | | | not backend logic |

How they interact: the HTTP API calls the use cases; these and the two
coordinators share nothing but the database, and call the media service
(commands to a worker's queue, answered through a oneshot channel) and the
object storage. A worker speaks to the media coordinator only through the event
channel, and to the preview through a broadcast channel that keeps the latest
packets. A crash loses everything but the database, the files and the objects.

What makes each part correct:

* takes: the phase of a take, its recording rows and its videos agree whatever
  happens in whatever order; a video is settled once; failures stay with their
  camera; a finished take is settled at last;
* cameras: a connection outlives the recordings that need it; a requested
  deletion is carried out and never undone; no camera is served without a row;
  the row follows the input;
* uploads: what is shown as completed is stored; nothing uploading is without
  somebody who will settle it;
* process: startup recovery gets through, and one camera does not stop the rest;
* workers: a file is open only while its input delivers, and not after its take;
* database: transactions that run at the same time come to what they would one
  after the other, and what they commit can be read again;
* preview: a camera that is served has a publication, its track lacks only what the
  relay was too slow for, access ends with its token, and the shutdown returns.

`PROJECT.json` lists the hazards behind these, each at its line.

## 2. Modules

| module | models |
|---|---|
| `Domain` | the states of `domain/take.rs` and `domain/camera.rs`; an errored state is its reason |
| `Store` | the rows of one session and every transaction on them, with its refusals |
| `MediaServer` | registry, camera workers, event channel |
| `Backend` | the process: use cases, coordinators, startup, stop and crash on `Store` and `MediaServer` |
| `TakeLedger` | the abstract specification: what takes and videos promise to their readers |
| `Records` | the columns of `Store`'s states, their constraints and the conversions back |
| `RowLocks` | the row locks of `Store`'s transactions, query by query, and their deadlocks |
| `MCBackend`, `MCLocks` | bounds and environments for TLC |
| `CameraWorker` | one worker with its bounded queue, overflow flag and callers; implements `MediaServer` |
| `CameraRegistry` | registrations of cameras with their routes, virtual ports and UDP ports, and the passes that drive them |
| `FlowRoutes` | the flows and ports of the RIST receiver |
| `MCRegistry` | constants of `CameraRegistry` for TLC |
| `Uploads` | recording files on disk and their way to the object storage |
| `Preview`, `MCPreview` | publications, access and shutdown of the preview relay; an instance for TLC |
| `BackendProofs` | types of `Backend`, consistency of takes and their rows, finality of deletions, the refinement of `TakeLedger` and what rests on it |
| `ServingProofs` | what is served, what recovery leaves, who owns an upload, what a row says of its input |
| `WorkerProofs`, `RegistryProofs`, `RouteProofs` | theorems about the three modules of the media server |
| `UploadProofs`, `PreviewProofs`, `LocksProofs` | theorems about `Uploads`, `Preview` and `RowLocks` |

`Backend` EXTENDS `Store` and `MediaServer`, whose operators are conjuncts of its
actions; `LedgerSpec` instantiates `TakeLedger` under a refinement mapping.
`CameraWorker` instantiates `MediaServer` for one camera: what is checked and
proved of the backend with the small worker holds with the one that has a queue.
`RowLocks` and `Records` EXTEND `Store`: the first shows what makes its transactions
single steps, the second that its states are ones the tables can hold.

### Store

| variable | rows |
|---|---|
| `take[t]` | `takes.phase` and `takes.state`: absent, ongoing, or finished as uploading, completed, errored |
| `row[t][c]` | `recording_cameras`: none, recording, or the reason it failed with |
| `video[t][c]` | `video_files`: none, uploading, completed, or the reason |
| `finalized` | `finalized_recordings` |
| `conn[c]`, `deleting` | `camera_connections.status` and `deletion_requested_at` |

Each operator is a whole transaction. `SaveTakes` is the end of all that touch
videos: `converge_finished_take` and the tail of `finish_ongoing_take` decide the
state of a take from its videos and delete its `recording_cameras` rows once
nothing is uploading.

*Why a transaction is one step.* Transactions lock the rows they decide on with
`SELECT ... FOR UPDATE` and write only through them, which is what `RowLocks` has lock
by lock. Two decide on an unlocked read. What `delete_camera` reads of recordings and
uploads still serves when it commits: no recording or upload can
be added meanwhile, as its insert locks the camera's identity for the foreign key, and
an upload that was settled meanwhile is read again under its lock.
`get_ongoing_recording_for_camera` in `process_next_event` is exposed to a
`start_take` task that commits a failure in between: action `EventConflicts`. But for
that roll-back, either commits what one step would (`TransactionsAreAtomic`).
Transactions aborted by the database are `TransactionFails`, `UploadDeferred`,
`Stop` or a crash.

*Recovery.* `recover_after_restart` fails the listed recordings one after the
other in one transaction; `InterruptRecordings` is the outcome of all. Any order
comes to it: after each item the rest of them ends where all would have
(`RecoveryItemsCommute`), so that all of them end there (`RecoveryIsOneStep`). An item that conflicts does so in every order
(`RecoveryConflictStays`), and all is rolled back (`RecoveryConflicts`).

### Records

For each table, its columns for a state (`TakeColumns`, ...), the `CHECK`s of
`0001_domain.sql` (`TakeValid`, ...) and the conversions of `model.rs` from a row to the
domain (`LoadTake`, ...), which may answer `Corrupt`, with the checks on several rows:
one ongoing take in a session, an ongoing take with cameras, a finished take whose state
is that of its files. `HasNames` is what the HTTP answer with an ongoing take needs.

### RowLocks

| code | model |
|---|---|
| a running transaction | a member of `DOMAIN held`; `held[x]` are its locks |
| a locking query, an insert, an update | a sequence of sets of locks: `GetTakeForUpdate`, `InsertVideoFile`, ... |
| a transaction | `Queries(x)`, the queries of its use case in their order, those behind a condition included |
| a read without a lock | `Read`, kept in `seen[x]` |
| `begin`, a query that returns, `commit` | `Begin`, `Lock`, `Commit` (a transition of `Store`, or nothing when the request is refused) |
| error 1213 | `Abort` of one of a set of transactions that wait for each other |

The rows change at the commit, as nobody reads what is not committed. InnoDB is external
and is modelled at `REPEATABLE READ`, the default the code leaves: `FOR UPDATE` and
changes lock a row exclusively, a foreign key locks the row it refers to for sharing, and a
locking read that finds nothing locks the gap, which others may lock too and none of them
can then insert into. `Transactions` are those of the use cases: `start` (cameras in any
order), `finish`, `create`, `delete` and `forced_delete`, the events `connected` and
`lost` (which fails a recording), `provisioned` and `deletion` of a camera pass, `started`
and `failed` of `start_take`'s tasks, `stage` of `finish_take`'s and `upload`. Startup runs alone.

### MediaServer

`provisioned` is the registry, `link[c]` the worker (gone, or its input waiting,
connected, errored: the flags `connected` and `errored` of its state), `file[c]`
the take of its open file, `events` the unbounded event channel. Each command of
a worker is an action. The bounded command queue is not a variable: whether it
overflowed before a packet or a finish is a choice (`PacketAfterOverflow`,
`FinishAfterOverflow`), possible in any state, which allows every outcome the
queue allows and some it does not: `CameraWorker` implements `MediaSpec`.
`input_error` and `abort_recording` have no caller and no action.

### Backend

A use case is cut where others can interfere: after each commit and around each
call to a worker or to the storage. `startTask`, `finishTask`, `uploadTask` hold
what the task of a take and a camera has in hand, `cameraTask` the task of a
camera pass; one pass of each kind runs at a time, as in the loops of
`backend.rs`.

| code | actions |
|---|---|
| `start_take` | `StartTake`; per camera `WorkerStart`, `PersistStart` |
| `finish_take` | `FinishTake`; per camera `WorkerFinish`, `PersistFinish` |
| `UploadCoordinator::reconcile` | `ListUploads`; per upload `StorageAnswers` or `UploadDeferred`, then `PersistUpload` |
| `reconcile_camera_resources` | `ListCameras`; per camera `Provision`, `PersistProvision` or `Revoke`, `PersistDeletion`, or `CameraDeferred` |
| `recover_after_restart` | `Startup`, the same camera tasks, `Serve` |
| `process_next_event` in `run_media_events` | `ProcessEvent`, `EventConflicts` |
| `run_camera` (inputs) | `WorkerInput` |
| `create_camera`, `delete_camera` | `CreateCamera`, `DeleteCamera` |
| a client that disconnects | `AbandonStart`, `AbandonFinish`: the tasks are dropped, commands in a queue stay |
| shutdown, end of the process | `Stop`, `Exit`, `Crash` |

An event that cannot be applied ends `run_media_events` and, as `run_until`
waits for the first task to end, the backend: `ProcessEvent` moves it to
`stopping`. A conflict in `Startup` ends the process in `failed`, which is started
again.

Abstractions: one session (sessions share no row but the list of sessions); the
name of a take or a camera is never used twice in it, also when the camera is
deleted (`takes_session_name_unique`, `camera_identities_session_name_unique`); the
messages of reasons are classes (`disconnected`, `input`, `media`, `interrupted`,
`storage`, `forced`); times, paths, hashes, ports and endpoints are left out.

### CameraWorker

| code | model |
|---|---|
| `mpsc::channel(queue_capacity)`, `Command` | `queue`; `current` is the command the worker has received |
| `CameraHandle::ingest` | `Ingest`, and `SetFlag` when the queue was full: the store to `overflowed` comes after the refusal, and the worker may run in between |
| `CameraHandle::disconnected` | `Timeout` |
| `start_recording`, `finish_recording` | `CallStart`, `CallFinish`, `EnqueueStart`, `EnqueueFinish`; `Abandon` is a caller that goes away |
| `run_camera` | `Receive`, then one action per command and value of the flag: `HandlePacket`, ... |
| the handle's reference count, `Drop` | `Held`, `DropHandle`, `End` |

A slot of the queue that becomes free goes to the call that waits longest, as
Tokio's channel is a fair semaphore: `HasRoom` is the room that is left for
`try_send`. Packets carry only whether one was lost before them (`afterLoss`),
files only whether they hold a packet, miss one, or were open when the flag was
set: the history the properties speak of. One librist thread serves a camera,
so `Ingest` and `Timeout` wait for `SetFlag`.

### CameraRegistry

| code | model |
|---|---|
| `by_id`, `SessionRoutes` | `registered` (a camera's virtual port), `entries`, `routes`, `nextPort` |
| `RistState` | `available`, `receiver` |
| MoQ publications | `published` |
| `camera_connections` | `row`, `saved` (its `virtual_port`) |
| `reconcile_camera_resources` | `Pass`, and `task` for each listed camera |
| `provision_camera` | `ProvisionKnown`, `ProvisionRefused`, `RistFails`, `MoqFails`, `Provision`, one for each way it returns |
| `revoke_camera` | `RevokeFails`, `Revoke` |
| the transactions that follow | `Save`, `DeleteRow` |

The registry's lock is held for a whole operation, which is one step. Virtual
ports are 1 to `LastPort`; the code's are 16-bit numbers from
`FIRST_VIRTUAL_PORT` to `LAST_VIRTUAL_PORT` of which only the order and the wrap
matter. The session of a camera never changes.

### FlowRoutes

The variables are the five maps of `FlowRoutes`; the actions of a flow are the
outcomes of `observe` and `timeout`. `connected` is what the cameras behind the
ports have been told last. `handle_data` ignores the decision (the code that acted
on it is commented out), so the packet is delivered in every case.

### Uploads

`Backend` knows a file as open or not and the storage by its three answers; here
are the file system and the bucket behind them.

| code | model |
|---|---|
| `RecordingFile` | `file`, the steps of `create`, `write_packet`, `abort` and `finish` one by one: `Create`, `Write`, `Abort`, `SyncFile`, `LinkFinal`, `RemovePartial`, `SyncParent`, `FinishFails` |
| the disk | `data` and `names`, what the process sees; `synced` and `durable`, what a power loss leaves |
| `video_files`, `recording_cameras` of one camera in one take | `video` |
| `finalized_recordings` | `staged`, `finishedAt` (only its order matters) |
| `UploadCoordinator::reconcile`, `list_pending_uploads` | `ListUploads`, then `task[r]` |
| `S3ObjectStorage::upload` | `Put`, `PutAnswered` or `PutUnanswered`, `HeadAnswered`, `Deferred` |
| `persist_upload_result` | `PersistUpload` |
| the bucket | `objects`; `requests` are the puts under way, `late` when nobody waits for them; `Meddle` is what others do to the bucket |

Contents are a number of packets, and a hash is the contents it is the hash of. A
write may be on disk before it is synced; a change of a directory reaches the disk
at any later time, and for good with `sync_parent`. `durable` is the set of states
of the directory a power loss may leave. The entries of the directories above it,
which the code does not sync, are taken to get to the disk with it. A restart fails
every video that uploads, as in `Backend`; a request sent before it may still be
served. `stored` and `foreign` are history.

### Preview

| code | model |
|---|---|
| `MoqState` | `previews` (sessions), `published` (their cameras) |
| `broadcast::channel(preview_queue_capacity)` | `sender` (the worker's end), `sent`, and `stream[c].next`, the place of its receiver |
| `publish_camera` | `task`, `stream`: `Publish`, `Lag`, `Rotate`, `PublicationEnds`, `PublicationFails` |
| `provision_camera`, `revoke_camera` | `ProvisionCamera`, `ProvisionFails`, `RevokeCamera`, then `WorkerEnds` |
| `PreviewAuthorizer` | `issued`, `grants`: `CreatePreviewAccess`, `Authorize` |
| the tasks of `run_listener` | `subscriber`: `Request`, `Authorize`, `Consume`, `Accept`, `Expire`, `Leave` |
| `MoqServer::shutdown` | `relay`, `draining`, `awaited`: `Shutdown`, `StopPublication`, `PublicationJoined`, `ListenerJoined` |

`moq-net` and `moq-tokio` are external: a call succeeds or fails. Packets are numbers,
with a size; `track` is what a subscriber gets: a frame has its packet, whether it opens
a group, and where in the track it ends. A stop that was sent
(`stopped`) is seen at some later turn of the task's `select!`. The container of the
frames, certificates and the wire are left out.

## 3. Properties and runs

Bounds: `MaxEvents` bounds the event channel, which the code does not; a worker
whose event would not fit waits. Two events are enough for the changes of one
input that overtake each other (an overflow emits two at once) and for two
cameras whose events queue up.

| run | instance | checks |
|---|---|---|
| `recordings` | 2 takes, 2 cameras, 2 events, all faults, in the environments below | `TypeOK`, `TakeRowsAgree`, `EveryRowLoads`, `CompletedIsStored`, `RecordingPinsConnection`, `RecoverySettles`, `ProvisionedHasConnection`, `OpenFileHasInput`, `ConnectionFollowsInput`, `FailureIsIsolated`, `DeletionIsFinal`, `LedgerSpec` |
| `settling` | 1 take, 1 camera, 2 events, crashes, any input | `UploadHasOwner`, `TakesSettle`, `DeletionsComplete` |
| `locks` | 2 takes, 1 camera, 3 transactions at a time | `TypeOK`, `DecisionsStand`, `DeadlocksAreKnown`, `TransactionsAreAtomic` |
| `worker` | 1 take, queue of 2, 2 events | `TypeOK`, `OverflowFailsRecording`, `ImplementsMediaServer`, `AnswersCome` |
| `registry` | 4 cameras in 2 sessions, 2 virtual ports each, 2 UDP ports | `TypeOK`, `RegistrationIsWhole`, `SavedPortIsServed` |
| `flows` | 3 flows, 3 ports | `TypeOK`, `TimeoutsAreExact`, `AttributionIsExclusive` |
| `uploads` | 2 recordings, a batch of 1, 1 packet, 1 operation of others on the bucket | `TypeOK`, `StagedIsDurable`, `CompletedIsWhole`, `ConflictIsForeign`, `UploadsSettle` |
| `preview` | 2 cameras, 3 packets of one, a channel of 2, 2 sessions, 1 token, 1 subscriber | `TypeOK`, `PublicationLives`, `StreamIsWhole`, `AccessIsGranted`, `AccessEnds`, `ShutdownReturns` |
| `startup`, `input_change`, `orphan_file`, `silent_gap` | smallest that show it | one statement of the repository each, which the code does not keep |

`recordings` explores the union of three environments, each a conjunct of `MCBackend`:

* `OneCamera`: two takes of one camera, or one take and two events in the channel, with
  every request and fault. A command or a result of an earlier take meets a later one,
  and one change of an input overtakes another.
* `KeptCameras`: two cameras in one take, every fault, no deletion. One camera fails
  beside one that does not, a take is partly settled, a pass works on one camera while
  the other records.
* `OneCameraStays`: two cameras in one take, one of which may be deleted, forced or not,
  with crashes, while no input changes. Once its connection is gone, only this bound
  holds: the take goes on beside a camera that was deleted.

Two takes on two cameras are beyond a run of five minutes; the theorems cover them for
what they prove. Takes and cameras are symmetric. `RecoverySettles` also excludes that the
foreign key of a recording row stops a deletion during recovery.

`settling` leaves out abandoned requests and failing transactions because `UploadHasOwner`
does not hold with them: a client that goes away, or a database that fails, between the
commit of `finish_take` and that of its tasks leaves a video uploading until the next
start. It takes one camera: when a take of several converges is what `TakeRowsAgree`
says, for every number of them.

In `locks`, two takes of one camera are enough for a transaction that locks an ongoing
take beside a finished one, and for two recordings that are staged into one gap. A third
transaction begins only while a take is ongoing, one of two waits, and neither of the two
is about to commit (`ThirdWhileWaiting`). In a deadlock of three someone is the first to
wait, and the third may as well begin after that; one that has all its locks waits for
nobody. Without the ongoing take there is no deadlock of three on these rows: the one
there is has `finish_take`, a `stage` and the event of a lost input in it. The rows
before a transaction are those that earlier ones have committed, so every combination of
states comes up. `DeadlocksAreKnown` names those that do occur, with what comes of them below.
With two cameras there is one more: an event of a camera whose deletion was forced, in a
take another camera still uploads to, with the deletion of its connection and a `stage`.
The proof covers it, and any other number.

In `preview`, three packets of sizes 2, 1 and 4 against groups of two frames and three
bytes fill a group, meet both limits, and hold one packet too large for any; a channel of
two is overtaken by three. The second camera has no packets: it is there for what is
stopped, replaced or awaited beside the first. The clock has one step, at which the only
token expires, before, while or after its subscriber is accepted. The second session is
there for a token that is presented for the wrong one.

A queue of two commands shows every order of a refused packet, a waiting call, a
command behind a packet and one in hand. A second take of one camera, which is
more than liveness can be checked with, is in the theorems. Three cameras of one session compete for two virtual and, with
the fourth, for two UDP ports, so that both pools run out. Three flows are enough
for a collision of two to reach a third over a shared port. A worker that is
revoked stops, and the runs of `CameraWorker` do not check for deadlock.

Two recordings and a batch of one make the second wait for the first. One packet
tells a whole file from a lost one. One operation of others is enough for a foreign
object under a recording's key, and for an object that goes between a refused put
and its head request. What ends is the set of recordings, so `uploads` does not
check for deadlock.

### Fairness

`Fairness` is what the runtime gives: Tokio polls a task that can go on (`WF` of
the worker's answers, of the commits and of the event loop), the tickers of the
two passes fire again (`WF` of `ListUploads` and `ListCameras`), the process is
started again and recovers (`WF` of `Startup`, `Serve` and `Exit`). A storage or a media server that is asked again and
again answers at last (`SF` of `StorageAnswers`, `Provision`, `Revoke`, as each
attempt may be deferred). Users, inputs and faults are under no fairness.
`RestartingSpec`, which `settling` checks, has crashes at any step and no other fault
of the process: its database answers, and the clients wait for theirs.
`TakesSettle` and `DeletionsComplete` speak of behaviours in which the backend is
up from some point on, since an event may stop it again and again (below).

In `CameraWorker` the worker, the event loop, the end of a refused `ingest`, the
drop of the handle and a call that a slot is reserved for go on (`WF`); nothing
makes packets, revocations or calls come. `AnswersCome` holds because freed slots
go to waiting calls first: its mutant, in which packets may take them, starves.

In `Uploads` the passes are repeated (`WF`), and reading, putting, the two answers and
the commit each succeed at last for the first upload of the batch if they are tried
again and again (`SF`). Without that an upload that is deferred for ever, an
unreadable file for one, holds its place in the batch, and the ones behind a full
batch of them starve: `list_pending_uploads` orders by the end of the recording and
nothing gives up.

In `Preview` time goes on, and what the runtime owes is `WF` of the end of a
publication that was told to stop or has no sender, of each stop and join of the
shutdown, and of a subscriber's steps. `PublicationEnds` is enabled as long as the stop
is unread, and `select!` polls its branches in random order, so no stream of packets
keeps a task from seeing it. Packets, requests, leaving and the shutdown itself are
under no fairness.

### Where code and documents disagree

* `silent_gap`: the flag does not say where in the queue the packet is missing. A
  packet handled before a recording's start command clears the flag of an overflow
  that came behind that command; the recording goes on with a gap and is finished.
  `recording-migration-research.md:190` wants the take to fail.
* `startup`: a take that is uploading keeps *all* its recording rows in state
  `recording`, and recovery fails every row in that state. When one of its videos
  is settled already, that is a conflict, recovery is rolled back, the process
  exits, and every later start does the same. `repository.rs:352`: "The startup
  use case marks every returned item errored".
* `input_change`: the first packet of a camera may be reported before its endpoint
  is saved, and an input may change after its connection is deleted. Both make
  `process_next_event` fail and stop the backend. The interface requirements want
  the recordings of the other cameras to go on.
* `orphan_file`: `finish_take` does not wait for the tasks of `start_take`. A finish
  command that comes first is refused, and the start command then opens a file
  nobody will close; the next recording of the camera is refused.

Seen beside these, and not among the runs:

* A disconnection that meets a full queue is lost (`Timeout` of `CameraWorker`), and
  its flow is forgotten with it, so the connection stays connected although the worker
  goes through its queue, and its recording goes on.
* Only activating cameras are provisioned by the periodic pass, so a camera whose
  provisioning fails at startup (`CameraDeferred`, `RistFails`) shows an endpoint nothing
  listens on until the next start. `media_coordinator.rs:84` leaves cameras alone
  as "already provisioned" which are not.
* Virtual ports are allocated with no regard to the rows. At startup, or beside a
  deferred camera, a new camera may get the port another one's row has saved; that
  one is then refused, and both rows hold the port, which
  `logical-database-requirements.md:41` wants to be kept.
* The event of a provisioned camera whose recording `start_take` fails at that
  moment (`EventConflicts`) stops the backend as in `input_change`.
* Deadlocks that do occur (`RowLocks`): the event of a lost input, which locks the camera
  and then the take, with a `finish_take`, which locks the take and then, by foreign key,
  the camera; that event with a `start_take`, which holds the ongoing take, to be refused,
  and wants the camera; two `stage`s, of which each holds the gap the other inserts into;
  a `stage` and a forced deletion; and cycles around these. One such cycle has no event
  of a lost input: the deletion of a connection, which holds its row and wants, by foreign
  key, one of a recording; a `stage` of that recording, which wants the identity of the
  camera; and any event of the camera, which holds the identity and wants the connection.
  When the event is the one rolled back, the backend stops with the row as it was. When a `stage` is,
  `finish_take` fails and the file stays behind, while its video uploads until recovery
  fails it.
* A publication that ended with an error of the relay is begun again only when its
  camera is provisioned again, which no pass does to a camera that is not activating.
* The answer of `start_take` is the take that is ongoing when its tasks are through, if
  there is one: a conflict, or another take, whose cameras may have no names.
* At shutdown the media service is taken back with `Arc::try_unwrap`; the tasks of a
  request whose client has just gone may still hold it, and the process then ends with
  `OutstandingMediaReferences` instead of a shutdown of the media service.

## 4. Proofs

For any sets of takes and cameras and any bound of the channel, from
`NoTakeAssumption` alone:

* `TypeCorrect` (`BackendProofs`): `Spec => []TypeOK`, one lemma per group of
  actions; `SaveTakesType`, `PersistRecordingFailureType` and
  `PersistUploadResultType` carry the transactions.
* `TakesConsistent`: `TakeRowsAgree`, that the phase, the rows and the
  videos of a take agree. None of its three parts is inductive alone: that a take
  which converges has videos needs the rows of the take, and that a failed row
  has failed its video needs the video of every row. Together (`TakeInv`, take by
  take) they are. `ConvergedTake` and `SaveTakesInv` reduce a transaction to what it
  hands to `SaveTakes`: a take it leaves alone keeps `TakeInv`, one it changes
  satisfies `MayConverge`. `TakeTransactions` says that a step is one of six
  transactions on takes or none, and there is one lemma for each.
  `InterruptRecordingsInv` is where `~ RecoveryConflicts` is needed.
* `DeletionStaysFinal`: `Spec => DeletionIsFinal`, from `ConnectionTransactions` and
  the types.
* `RecordingsPinConnections`: needs beside it that one take is ongoing at most
  (`OneOngoing`); only `start_take` adds rows (`OnlyStartAdds`), for connections
  that are connected and not to be deleted.
* `RowsLoad`: `EveryRowLoads` follows from the types, `TakeRowsAgree`,
  `RecordingPinsConnection` and `OneOngoing`, state by state.
* `ImplementsLedger`: `Spec => LedgerSpec`. `SaveTakesSettles` turns
  what a transaction does to the videos into the ledger's verdicts; each of the six
  transactions is then a step of the ledger or none.
* `FailuresIsolated`: `Spec => FailureIsIsolated`, from the same six.
* `CompletedStored`: `CompletedIsStored` with its strengthening `StoredInv`, which has what an
  upload's task knows: a video completes only after the storage has answered for it.
* `ServedCamerasConnected`, `OpenFilesConnected` (`ServingProofs`): with
  `CameraServed`, which relates registry, worker, pass and row of a camera. A worker
  that outlives its registry entry does so only when its camera is being deleted, so
  that nothing provisions it a second time.
* `RecoveryIsClean`: with `TasksWait`, that a backend which recovers has no task of a request.
* `RecoveryItemsCommute`, `RecoveryIsOneStep`, `RecoveryConflictStays`: that startup recovery
  is one step, as above. The number of items is not bounded: each item is a step of a behaviour,
  and where all of them end is an invariant of it (`EndsIn`), which needs no induction over data.
* `UploadsHaveOwners`: `RestartingSpec => []UploadHasOwner`, with `NoneAbandoned`; under `Spec`,
  which has failing transactions and abandoned requests, it does not hold.
* `ConnectionsFollowInputs`: `Spec => []ConnectionFollowsInput`, from `InputFollowed`, which says
  what pass, registry, row and channel know of an input: its last change in the channel is
  its state, and without one the row shows it, or a provisioning that is not saved yet
  will. The saved "waiting" overwrites no change, because a backend that recovers processes
  no event, and one that serves saves only rows that are activating, which accept none.

For any takes, capacity of the queue and bound of the channel, from
`CapacityAssumption`, `MaxEventsAssumption` and `TakesAssumption`:

* `WorkerTypeCorrect` (`WorkerProofs`): the types, with the bound of the queue.
* `OverflowNeverFinalizes`: `OverflowFailsRecording`. It needs, beside it, that a
  file which was open when the flag was set is open only while the flag still is.
* `WorkerImplements`: `Spec => ImplementsMediaServer`, action by action: the queue's
  steps stutter, each command is an action of `MediaServer`.

For any cameras, sessions and ports, from the assumptions of `CameraRegistry`:

* `RegistryTypes`, `RegistrationStaysWhole`, `SavedPortServed`
  (`RegistryProofs`): the invariants of run `registry`. They are inductive together with
  `TaskFits`, which says what a task knows of its camera.
* `EndpointsStay`: `Spec => [][EndpointsKept]_vars`, that an endpoint, once saved, is that of
  the camera until its connection is deleted, and `RegisteredHaveRows`:
  `Spec => []RegisteredHasRow`. Neither is an invariant of a run; both rest on `EndpointsFit`,
  which says what the row of a camera, its registration and its task have to do with each other.

For any flows and ports, from `NoneAssumption`:

* `RouteTypes`, `TimeoutsExact`, `AttributionExclusive`
  (`RouteProofs`): the invariants of run `flows`.

For any recordings, batch limit and bounds, from the assumptions of `Uploads`:

* `UploadTypes`, `StagedDurable`, `CompletedWhole`, `ConflictsForeign`
  (`UploadProofs`): all the invariants of run `uploads`. `FilesFit` says, step by step of a file, what of it a power loss leaves:
  that a staged file is synced and linked for good needs the steps before. `TasksFit`
  and `BucketFits` are what a task knows of its recording and what history says of
  the objects.

For any takes and cameras, as long as there are finitely many, and any number of
transactions at a time, from `FinitenessAssumption` and `MaxActiveAssumption`
(`LocksProofs`):

* `LocksTypes`: the types. Which queries a transaction runs depends on the rows, so its
  locks are typed query by query (`Among`).
* `TransactionsAtomic`: `Spec => TransactionsAreAtomic`. The inductive invariant `Inv` has,
  beside the types, that locks of one row exclude each other (`LocksExclude`), that each
  lock was asked for behind those its transaction takes first (`LocksInOrder`: the session,
  the take or the identity of the camera, by kind), that the takes a `stage` is about exist,
  and that what was read without a lock still holds (`ReadsHold`). The last is the point: a
  commit that would change it needs a lock that `LocksInOrder` and `LocksExclude` deny it
  (`CommitKeepsDeletion`, `CommitKeepsEvent`).
* `DeadlocksKnown`: `Spec => []DeadlocksAreKnown`. In a deadlock each waits for one of the
  others and keeps one of them waiting (`Knots`). Whoever holds anything holds the lock its
  kind takes first, so events and transactions of one take wait only for what others hold
  without it (`EventsWaitFirst`, `TakesWaitFirst`); what is left is `stage`s and at most one
  holder of the session, which a `stage` waits for only at the identity of its camera
  (`StageWaits`).
* `WaitsAlwaysEnd`: `Spec => []WaitsEnd`, the converse: where there is no deadlock, some
  running transaction gets its next lock or has all it needs. If all wait, a least set of
  transactions that wait only for each other (`MinimalSet`, from `LeastNumber`, which finds a
  least number without induction, by cardinalities) is a deadlock. With `DeadlocksKnown` this
  gives `PlainAlwaysGetOn`: without a `lost`, a `deletion`, a `stage` or a `forced_delete`
  among those that run, somebody gets on and no rollback is needed for it. It is as much of the locks' progress as
  can be said without fairness.
* `DecisionsKept`: `Spec => []DecisionsStand`. Which queries a transaction plans is a
  function of the rows, so what has to be shown is that nobody changes the rows a lock was
  taken for: a commit changes a take, a connection or a recording that is there only
  with its row locked (`CommitKeepsTake`, `CommitKeepsConnection`, `CommitKeepsRow`), and
  `LocksInOrder` gives each lock a row above it that excludes that. `DecisionsInv` adds
  that a take that has not begun has no recordings (`RowsHaveTakes`), and of `start_take`,
  which goes by the state of cameras it has locked one after another, why each of its locks
  was taken (`StartsDecided`): a camera because all before it are locked and ready.

For any sessions, cameras, tokens and subscribers, any capacity of the channel and any
limits of a group, from the assumptions of `Preview` (`PreviewProofs`):

* `PreviewTypes`, `PublicationsLive`, `AccessGranted`: the types and two of
  the invariants of run `preview`. A task that runs belongs to a camera that is published,
  being drained or told to stop (`EachIsStopped`), which is what the shutdown needs.
* `StreamsWhole`: `StreamIsWhole`, with `StreamInv`, which relates the counters of the task to
  the last group of the track, and the ends of the frames to their sizes.

Only model-checked, as they are out of reach of the prover, are the liveness properties
`TakesSettle`, `DeletionsComplete`, `AnswersCome`, `UploadsSettle`, `AccessEnds` and
`ShutdownReturns`.

## 5. Not modelled

* RIST statistics: counters that nothing decides on.
* The web console, the contracts and the deployment: no backend logic.
* Of the HTTP API and the configuration: routing, parsing and validation of a request,
  which end before a use case begins. What of them changes state is in `Backend`.
* Of sessions and queries: the creation of a session, which touches one row once,
  pages of lists and their cursors, the document of a lockfile.
* Of the media server: the bindings of librist (so whether closing a receiver waits for
  its callbacks, a listed hazard, is open), the media container, certificates,
  secrets, and the checks of paths and symbolic links of a recording file.
* `input_error` and `abort_recording` of a worker, which nothing calls.
* References: that `Arc::try_unwrap` may come too early, another listed hazard.
