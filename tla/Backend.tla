------------------------------ MODULE Backend ------------------------------
(***************************************************************************)
(* The backend process of one session: the use cases and the coordinators  *)
(* of kinugasa-core/src/application, run by kinugasa-app/src/backend.rs on *)
(* the database of module Store, the media server of module MediaServer    *)
(* and the object storage.                                                 *)
(*                                                                         *)
(* A use case is cut where its state can be seen or changed by others:     *)
(* after each commit, and around each call to the media server or to the   *)
(* object storage. What it has in hand between two cuts is the state of    *)
(* its task for a take and a camera.                                       *)
(***************************************************************************)
EXTENDS Store, MediaServer

VARIABLES
  backend,     \* the process: see Life
  startTask,   \* start_take, per take and camera
  finishTask,  \* finish_take, per take and camera
  uploadTask,  \* the upload pass, per take and camera
  cameraTask,  \* the camera pass, per camera
  stored       \* object storage: the recordings uploaded completely

storeVars == <<take, row, video, finalized, conn, deleting>>
taskVars  == <<startTask, finishTask, uploadTask, cameraTask>>
vars      == <<storeVars, mediaVars, taskVars, backend, stored>>

\* "down": no process. "recovering": recover_after_restart provisions the
\* cameras; "aborting": it has met an error. "failed": the process exited with
\* StartupRecovery. "up": it serves. "stopping": it drains its tasks.
Life == {"down", "recovering", "aborting", "failed", "up", "stopping"}

\* "abandoned": the request was dropped with its command in the worker's queue.
StartState  == {"idle", "requested", "started", "failed", "abandoned"}
FinishState == {"idle", "requested", "finalized", "failed", "abandoned"}
UploadState == {"idle", "listed", "completed", "conflict"}
CameraState == {"idle", "provision", "provisioned", "revoke", "revoked"}

PerRecording(S) == [Takes -> [Cameras -> S]]
IdleRecordings  == [t \in Takes |-> [c \in Cameras |-> "idle"]]
IdleCameras     == [c \in Cameras |-> "idle"]

TypeOK ==
  /\ StoreTypeOK
  /\ MediaTypeOK
  /\ backend \in Life
  /\ startTask \in PerRecording(StartState)
  /\ finishTask \in PerRecording(FinishState)
  /\ uploadTask \in PerRecording(UploadState)
  /\ cameraTask \in [Cameras -> CameraState]
  /\ stored \subseteq Takes \X Cameras

TasksStop ==
  /\ startTask' = IdleRecordings
  /\ finishTask' = IdleRecordings
  /\ uploadTask' = IdleRecordings
  /\ cameraTask' = IdleCameras

Init ==
  /\ StoreInit
  /\ MediaInit
  /\ backend = "down"
  /\ startTask = IdleRecordings
  /\ finishTask = IdleRecordings
  /\ uploadTask = IdleRecordings
  /\ cameraTask = IdleCameras
  /\ stored = {}

Running == backend \in {"recovering", "aborting", "up", "stopping"}

Quiescent ==
  /\ startTask = IdleRecordings /\ finishTask = IdleRecordings
  /\ uploadTask = IdleRecordings /\ cameraTask = IdleCameras

-----------------------------------------------------------------------------
(* start_take: one transaction, then one task per camera.                  *)

StartTake(t, cs) ==
  /\ backend = "up"
  /\ InsertOngoingTake(t, cs)
  /\ startTask' = [startTask EXCEPT ![t] = [c \in Cameras |->
                     IF c \in cs THEN "requested" ELSE "idle"]]
  /\ UNCHANGED <<finalized, conn, deleting, mediaVars, finishTask, uploadTask,
                 cameraTask, backend, stored>>

\* The worker answers the StartRecording command. The answer to an abandoned
\* request has no receiver.
WorkerStart(t, c) ==
  /\ Running
  /\ startTask[t][c] \in {"requested", "abandoned"}
  /\ \E answer \in {"started", "failed"} :
       /\ IF answer = "started" THEN StartsRecording(t, c) ELSE RefusesRecording
       /\ startTask' = [startTask EXCEPT ![t][c] =
                          IF @ = "abandoned" THEN "idle" ELSE answer]
  /\ UNCHANGED <<storeVars, finishTask, uploadTask, cameraTask, backend, stored>>

\* persist_recording_started only changes the time the recording started at.
PersistStart(t, c) ==
  /\ Running
  /\ \/ startTask[t][c] = "started" /\ UNCHANGED takeRows
     \/ startTask[t][c] = "failed" /\ PersistRecordingFailure(t, c, "media")
  /\ startTask' = [startTask EXCEPT ![t][c] = "idle"]
  /\ UNCHANGED <<finalized, conn, deleting, mediaVars, finishTask, uploadTask,
                 cameraTask, backend, stored>>

-----------------------------------------------------------------------------
(* finish_take: one transaction, then one task per camera still recording. *)

FinishTake(t) ==
  /\ backend = "up"
  /\ FinishOngoingTake(t)
  /\ finishTask' = [finishTask EXCEPT ![t] = [c \in Cameras |->
                      IF row[t][c] = "recording" THEN "requested" ELSE "idle"]]
  /\ UNCHANGED <<finalized, conn, deleting, mediaVars, startTask, uploadTask,
                 cameraTask, backend, stored>>

\* The worker answers the FinishRecording command; it has closed the file even
\* when finishing it fails.
WorkerFinish(t, c) ==
  /\ Running
  /\ finishTask[t][c] \in {"requested", "abandoned"}
  /\ \E answer \in {"finalized", "failed"} :
       /\ \/ FinishesRecording(t, c)
          \/ answer = "failed" /\ (FinishAfterOverflow(c) \/ HasNoRecording(t, c))
       /\ finishTask' = [finishTask EXCEPT ![t][c] =
                           IF @ = "abandoned" THEN "idle" ELSE answer]
  /\ UNCHANGED <<storeVars, startTask, uploadTask, cameraTask, backend, stored>>

\* Mutant of PersistFinish: the failure of a finish is only logged.
PersistFinalizedOnly(t, c) ==
  /\ Running
  /\ \/ /\ finishTask[t][c] = "finalized"
        /\ StageFinalizedRecording(t, c)
     \/ finishTask[t][c] = "failed" /\ UNCHANGED finalized
  /\ finishTask' = [finishTask EXCEPT ![t][c] = "idle"]
  /\ UNCHANGED <<takeRows, conn, deleting, mediaVars, startTask, uploadTask,
                 cameraTask, backend, stored>>

PersistFinish(t, c) ==
  /\ Running
  /\ \/ /\ finishTask[t][c] = "finalized"
        /\ StageFinalizedRecording(t, c)
        /\ UNCHANGED takeRows
     \/ /\ finishTask[t][c] = "failed"
        /\ PersistRecordingFailure(t, c, "media")
        /\ UNCHANGED finalized
  /\ finishTask' = [finishTask EXCEPT ![t][c] = "idle"]
  /\ UNCHANGED <<conn, deleting, mediaVars, startTask, uploadTask, cameraTask,
                 backend, stored>>

\* The client of a request is gone: its handler is dropped with its tasks. The
\* commands its tasks have sent stay in the queues of the workers.
Abandon(task) ==
  [c \in Cameras |-> IF task[c] \in {"requested", "abandoned"}
                     THEN "abandoned" ELSE "idle"]

AbandonStart(t) ==
  /\ Running /\ startTask[t] # IdleCameras
  /\ startTask' = [startTask EXCEPT ![t] = Abandon(@)]
  /\ UNCHANGED <<storeVars, mediaVars, finishTask, uploadTask, cameraTask,
                 backend, stored>>

AbandonFinish(t) ==
  /\ Running /\ finishTask[t] # IdleCameras
  /\ finishTask' = [finishTask EXCEPT ![t] = Abandon(@)]
  /\ UNCHANGED <<storeVars, mediaVars, startTask, uploadTask, cameraTask,
                 backend, stored>>

\* The database fails the transaction of a start or finish task: the task ends
\* with its error, which nobody retries.
TransactionFails(t, c) ==
  /\ Running
  /\ \/ /\ startTask[t][c] \in {"started", "failed"}
        /\ startTask' = [startTask EXCEPT ![t][c] = "idle"]
        /\ UNCHANGED finishTask
     \/ /\ finishTask[t][c] \in {"finalized", "failed"}
        /\ finishTask' = [finishTask EXCEPT ![t][c] = "idle"]
        /\ UNCHANGED startTask
  /\ UNCHANGED <<storeVars, mediaVars, uploadTask, cameraTask, backend, stored>>

-----------------------------------------------------------------------------
(* UploadCoordinator: a pass lists the pending uploads and runs a task for *)
(* each; the next pass starts when all have ended.                         *)

ListUploads ==
  /\ backend = "up"
  /\ uploadTask = IdleRecordings
  /\ PendingUploads # {}
  /\ uploadTask' = [t \in Takes |-> [c \in Cameras |->
                      IF <<t, c>> \in PendingUploads THEN "listed" ELSE "idle"]]
  /\ UNCHANGED <<storeVars, mediaVars, startTask, finishTask, cameraTask,
                 backend, stored>>

\* Mutant of StorageAnswers: an object of another file counts as this one.
ConflictIsSuccess(t, c) ==
  /\ Running
  /\ uploadTask[t][c] = "listed"
  /\ stored' \in {stored, stored \cup {<<t, c>>}}
  /\ uploadTask' = [uploadTask EXCEPT ![t][c] = "completed"]
  /\ UNCHANGED <<storeVars, mediaVars, startTask, finishTask, cameraTask, backend>>

\* The object storage stores the file, or holds other contents under its key.
StorageAnswers(t, c) ==
  /\ Running
  /\ uploadTask[t][c] = "listed"
  /\ \/ /\ stored' = stored \cup {<<t, c>>}
        /\ uploadTask' = [uploadTask EXCEPT ![t][c] = "completed"]
     \/ /\ UNCHANGED stored
        /\ uploadTask' = [uploadTask EXCEPT ![t][c] = "conflict"]
  /\ UNCHANGED <<storeVars, mediaVars, startTask, finishTask, cameraTask, backend>>

\* The storage or the file is unavailable: the upload is left for a later pass.
\* The object may have been stored all the same.
UploadDeferred(t, c) ==
  /\ Running
  /\ uploadTask[t][c] = "listed"
  /\ uploadTask' = [uploadTask EXCEPT ![t][c] = "idle"]
  /\ stored' \in {stored, stored \cup {<<t, c>>}}
  /\ UNCHANGED <<storeVars, mediaVars, startTask, finishTask, cameraTask, backend>>

PersistUpload(t, c) ==
  /\ Running
  /\ \/ /\ uploadTask[t][c] = "completed"
        /\ PersistUploadResult(t, c, "completed")
     \/ /\ uploadTask[t][c] = "conflict"
        /\ PersistUploadResult(t, c, "storage")
  /\ uploadTask' = [uploadTask EXCEPT ![t][c] = "idle"]
  /\ UNCHANGED <<finalized, conn, deleting, mediaVars, startTask, finishTask,
                 cameraTask, backend, stored>>

-----------------------------------------------------------------------------
(* Cameras: the two use cases, and the passes of MediaCoordinator.         *)

CreateCamera(c) ==
  /\ backend = "up"
  /\ InsertCamera(c)
  /\ UNCHANGED <<takeRows, finalized, mediaVars, taskVars, backend, stored>>

DeleteCamera(c) ==
  /\ backend = "up"
  /\ \E force \in BOOLEAN : RequestDeletion(c, force)
  /\ UNCHANGED <<finalized, mediaVars, taskVars, backend, stored>>

\* Mutant of PassTask: provisioned cameras are skipped before the deletion.
PassTaskSkippingProvisioned(c, reprovisionAll) ==
  IF ~ HasConnection(c) \/ (~ reprovisionAll /\ conn[c] # "activating") THEN "idle"
  ELSE IF c \in deleting THEN "revoke"
  ELSE "provision"

\* The tasks of a pass: reprovision_all also takes the cameras that have an
\* endpoint already.
PassTask(c, reprovisionAll) ==
  IF ~ HasConnection(c) THEN "idle"
  ELSE IF c \in deleting THEN "revoke"
  ELSE IF reprovisionAll \/ conn[c] = "activating" THEN "provision"
  ELSE "idle"

ListCameras ==
  /\ backend = "up"
  /\ cameraTask = IdleCameras
  /\ cameraTask' = [c \in Cameras |-> PassTask(c, FALSE)]
  /\ UNCHANGED <<storeVars, mediaVars, startTask, finishTask, uploadTask,
                 backend, stored>>

Provision(c) ==
  /\ Running /\ cameraTask[c] = "provision"
  /\ ProvisionCamera(c)
  /\ cameraTask' = [cameraTask EXCEPT ![c] = "provisioned"]
  /\ UNCHANGED <<storeVars, startTask, finishTask, uploadTask, backend, stored>>

PersistProvision(c) ==
  /\ Running /\ cameraTask[c] = "provisioned"
  /\ SaveProvisioned(c)
  /\ cameraTask' = [cameraTask EXCEPT ![c] = "idle"]
  /\ UNCHANGED <<takeRows, finalized, mediaVars, startTask, finishTask,
                 uploadTask, backend, stored>>

Revoke(c) ==
  /\ Running /\ cameraTask[c] = "revoke"
  /\ RevokeCamera(c)
  /\ cameraTask' = [cameraTask EXCEPT ![c] = "revoked"]
  /\ UNCHANGED <<storeVars, startTask, finishTask, uploadTask, backend, stored>>

\* The media server fails: the camera is left for a later pass.
CameraDeferred(c) ==
  /\ Running /\ cameraTask[c] \in {"provision", "revoke"}
  /\ cameraTask' = [cameraTask EXCEPT ![c] = "idle"]
  /\ UNCHANGED <<storeVars, mediaVars, startTask, finishTask, uploadTask,
                 backend, stored>>

\* The foreign key of recording_cameras may refuse the deletion: a pass is
\* repeated, startup recovery fails.
PersistDeletion(c) ==
  /\ Running /\ cameraTask[c] = "revoked"
  /\ DeleteConnection(c)
  /\ backend' = IF backend = "recovering" /\ Referenced(c)
                THEN "aborting" ELSE backend
  /\ cameraTask' = [cameraTask EXCEPT ![c] = "idle"]
  /\ UNCHANGED <<takeRows, finalized, mediaVars, startTask, finishTask,
                 uploadTask, stored>>

-----------------------------------------------------------------------------
(* Camera inputs, and run_media_events, which ends with the first event    *)
(* that cannot be applied; the backend then stops.                         *)

WorkerInput(c) ==
  /\ Running
  /\ \/ Packet(c) \/ PacketAfterOverflow(c) \/ WriteFails(c)
     \/ Disconnected(c) \/ Shutdown(c)
  /\ UNCHANGED <<storeVars, taskVars, backend, stored>>

ProcessEvent ==
  /\ backend = "up"
  /\ events # <<>>
  /\ LET event == Head(events) IN
       \/ /\ AcceptsInputState(event.camera)
          /\ ApplyInputState(event.camera, event.state)
          /\ UNCHANGED backend
       \/ /\ ~ AcceptsInputState(event.camera)
          /\ backend' = "stopping"
          /\ UNCHANGED <<conn, deleting, takeRows>>
  /\ events' = Tail(events)
  /\ UNCHANGED <<finalized, provisioned, link, file, taskVars, stored>>

\* process_next_event reads the recording without a lock, and start_take fails
\* it before persist_recording_failure has locked it: the recording has another
\* error than the event brings, and the event cannot be applied.
EventConflicts(t, c) ==
  /\ backend = "up"
  /\ startTask[t][c] = "failed"
  /\ events # <<>> /\ Head(events).camera = c /\ Head(events).state # "connected"
  /\ AcceptsInputState(c)
  /\ take[t] = "ongoing" /\ row[t][c] = "recording"
  /\ PersistRecordingFailure(t, c, "media")
  /\ startTask' = [startTask EXCEPT ![t][c] = "idle"]
  /\ events' = Tail(events)
  /\ backend' = "stopping"
  /\ UNCHANGED <<finalized, conn, deleting, provisioned, link, file, finishTask,
                 uploadTask, cameraTask, stored>>

-----------------------------------------------------------------------------
(* The process.                                                            *)

\* The first half of recover_after_restart. Its second half is the camera pass
\* it lists; the tasks of a pass end in any order.
Startup ==
  /\ backend \in {"down", "failed"}
  /\ \/ /\ RecoveryConflicts
        /\ backend' = "failed"
        /\ UNCHANGED <<takeRows, cameraTask>>
     \/ /\ ~ RecoveryConflicts
        /\ InterruptRecordings
        /\ cameraTask' = [c \in Cameras |-> PassTask(c, TRUE)]
        /\ backend' = "recovering"
  /\ UNCHANGED <<finalized, conn, deleting, mediaVars, startTask, finishTask,
                 uploadTask, stored>>

Serve ==
  /\ backend = "recovering" /\ cameraTask = IdleCameras
  /\ backend' = "up"
  /\ UNCHANGED <<storeVars, mediaVars, taskVars, stored>>

\* A shutdown is requested: the event loop and the passes end, and the requests
\* being served are finished.
Stop ==
  /\ backend = "up"
  /\ backend' = "stopping"
  /\ UNCHANGED <<storeVars, mediaVars, taskVars, stored>>

Exit ==
  /\ backend \in {"stopping", "aborting"} /\ Quiescent
  /\ backend' = IF backend = "stopping" THEN "down" ELSE "failed"
  /\ MediaStops
  /\ UNCHANGED <<storeVars, taskVars, stored>>

Crash ==
  /\ Running
  /\ backend' = "down"
  /\ MediaStops
  /\ TasksStop
  /\ UNCHANGED <<storeVars, stored>>

\* Steps of the tasks of one take and camera, which the runtime schedules.
RecordingStep(t, c) ==
  \/ WorkerStart(t, c) \/ PersistStart(t, c)
  \/ WorkerFinish(t, c) \/ PersistFinish(t, c)
  \/ StorageAnswers(t, c) \/ UploadDeferred(t, c) \/ PersistUpload(t, c)

CameraStep(c) ==
  \/ Provision(c) \/ PersistProvision(c) \/ CameraDeferred(c)
  \/ Revoke(c) \/ PersistDeletion(c)

Request ==
  \/ \E t \in Takes, cs \in (SUBSET Cameras) \ {{}} : StartTake(t, cs)
  \/ \E t \in Takes : FinishTake(t)
  \/ \E c \in Cameras : CreateCamera(c) \/ DeleteCamera(c)

Step ==
  \/ Request
  \/ \E t \in Takes, c \in Cameras : RecordingStep(t, c) \/ EventConflicts(t, c)
  \/ \E c \in Cameras : CameraStep(c) \/ WorkerInput(c)
  \/ ListUploads \/ ListCameras \/ ProcessEvent
  \/ Startup \/ Serve \/ Exit

\* What may cut the work short: a client that goes away, a database that fails,
\* a shutdown, a crash.
Fault ==
  \/ \E t \in Takes : AbandonStart(t) \/ AbandonFinish(t)
  \/ \E t \in Takes, c \in Cameras : TransactionFails(t, c)
  \/ Stop \/ Crash

Next == Step \/ Fault

Spec == Init /\ [][Next]_vars

\* Fairness: the runtime polls every task that can make progress and the
\* tickers of the two passes fire again; a storage or a media server that is
\* asked again and again answers at last. Nothing makes users, cameras or
\* faults act.
Fairness ==
  /\ WF_vars(Startup) /\ WF_vars(Serve) /\ WF_vars(Exit)
  /\ WF_vars(ProcessEvent) /\ WF_vars(ListUploads) /\ WF_vars(ListCameras)
  /\ \A t \in Takes, c \in Cameras :
       /\ WF_vars(WorkerStart(t, c)) /\ WF_vars(PersistStart(t, c))
       /\ WF_vars(WorkerFinish(t, c)) /\ WF_vars(PersistFinish(t, c))
       /\ SF_vars(StorageAnswers(t, c)) /\ WF_vars(PersistUpload(t, c))
  /\ \A c \in Cameras :
       /\ SF_vars(Provision(c)) /\ WF_vars(PersistProvision(c))
       /\ SF_vars(Revoke(c)) /\ WF_vars(PersistDeletion(c))

\* The process may crash and start again; its database, and the clients, wait.
RestartingSpec == Init /\ [][Step \/ Crash]_vars /\ Fairness

-----------------------------------------------------------------------------
(* Safety.                                                                 *)

\* A finished take has videos and its state is what they say: it is uploading
\* exactly while one of them is, and completed only when all of them are. No
\* other take has any. (The uploads, failures, forced deletions and recovery
\* that settle a video each have to converge its take.)
TakeMatchesVideos ==
  \A t \in Takes :
    /\ Finished(t) <=> \E c \in Cameras : video[t][c] # "none"
    /\ take[t] = "uploading" <=> \E c \in Cameras : video[t][c] = "uploading"
    /\ take[t] = "completed" =>
         \A c \in Cameras : video[t][c] \in {"none", "completed"}

\* recording_cameras holds exactly the cameras of the takes that are not
\* settled: a row is not lost while its video uploads, and none is left behind
\* to pin the connection of a camera once its take is settled.
RowsUntilSettled ==
  \A t \in Takes :
    CASE take[t] = "ongoing"   -> \E c \in Cameras : row[t][c] # "none"
      [] take[t] = "uploading" ->
           \A c \in Cameras : row[t][c] = "none" <=> video[t][c] = "none"
      [] OTHER                 -> \A c \in Cameras : row[t][c] = "none"

\* Once a take is finished, a recording that failed has failed its video, for
\* the same reason, whichever of the start, finish, event and recovery
\* transactions came first.
FailedRecordingFailsVideo ==
  \A t \in Takes, c \in Cameras :
    Finished(t) /\ row[t][c] \in RowReason => video[t][c] = row[t][c]

\* The rows of a take agree with each other in every state a client or another
\* transaction can see, whichever transactions settled its videos.
TakeRowsAgree == TakeMatchesVideos /\ RowsUntilSettled /\ FailedRecordingFailsVideo

\* The lockfile lists every completed video, its join loses none, and nothing
\* that is not in the object storage (get_lockfile).
CompletedIsStored ==
  /\ \A t \in Takes, c \in Cameras : video[t][c] = "completed" => <<t, c>> \in Lockfile
  /\ Lockfile \subseteq stored

\* A recording pins the connection of its camera, and the cameras of the
\* ongoing take are not even asked to be deleted.
RecordingPinsConnection ==
  \A t \in Takes, c \in Cameras :
    row[t][c] # "none" =>
      HasConnection(c) /\ (take[t] = "ongoing" => c \notin deleting)

\* The first transaction of recovery leaves no recording active and no take
\* uploading, so that no foreign key stops the deletions that follow it.
RecoverySettles ==
  /\ backend = "recovering" =>
       \A t \in Takes : /\ take[t] # "uploading"
                        /\ \A c \in Cameras : ~ Active(t, c)
  /\ backend # "aborting"

\* No camera is served without a connection: neither a deletion that overtakes
\* a provisioning nor one that is repeated leaves an input behind.
ProvisionedHasConnection == \A c \in provisioned : HasConnection(c)

\* While the backend serves, somebody is left to settle each uploading video:
\* its finish_take, or, from the finalized row on, the upload passes.
UploadHasOwner ==
  backend = "up" =>
    \A t \in Takes, c \in Cameras :
      video[t][c] = "uploading" =>
        <<t, c>> \in finalized \/ finishTask[t][c] # "idle"

\* A file is open only on a connected input: no failure of an input leaves the
\* partial file of its recording to the next one.
OpenFileHasInput ==
  \A c \in Cameras : file[c] # NoTake => link[c] = "connected"

\* No change of the camera's input is among the events.
Silent(es, c) == \A i \in DOMAIN es : es[i].camera # c

\* The last change of the camera's input among the events is to that state.
LastReport(es, c, state) ==
  \E i \in DOMAIN es :
    /\ es[i].camera = c /\ es[i].state = state
    /\ \A j \in DOMAIN es : j > i => es[j].camera # c

\* The connection row follows the input: it shows the state of the worker as
\* soon as the events in the channel are processed, so that neither saving a
\* provisioned camera nor an event that is not sent loses a change.
ConnectionFollowsInput ==
  backend = "up" =>
    \A c \in provisioned :
      conn[c] # "activating" /\ c \notin deleting
        => IF Silent(events, c) THEN conn[c] = link[c]
           ELSE LastReport(events, c, link[c])

-----------------------------------------------------------------------------
(* Action properties.                                                      *)

\* A requested deletion is never taken back, and a deleted camera never
\* returns; a provisioning that is saved after the request must not clear it.
DeletionIsFinal ==
  [][\A c \in Cameras :
       /\ c \in deleting => c \in deleting' \/ conn'[c] = "deleted"
       /\ conn[c] = "deleted" => conn'[c] = "deleted"]_vars

\* While a take is ongoing, the failure of a camera neither ends the take nor
\* touches the recording of another camera.
FailureIsIsolated ==
  [][\A t \in Takes, c \in Cameras :
       backend = "up" /\ take[t] = "ongoing" /\ row'[t][c] # row[t][c]
         => \/ /\ take'[t] = "ongoing"
               /\ \A d \in Cameras \ {c} : row'[t][d] = row[t][d]
            \/ \A d \in Cameras : ~ Active(t, d)]_vars

\* The database implements the ledger of takes.
Ledger == INSTANCE TakeLedger WITH
  phase   <- take,
  outcome <- [t \in Takes |-> [c \in Cameras |->
                IF video[t][c] \in Reason THEN "errored" ELSE video[t][c]]]

LedgerSpec == Ledger!Spec

-----------------------------------------------------------------------------
(* Liveness, of a backend that keeps running.                              *)

StaysUp == <>[](backend = "up")

\* A finished take is settled at last: every finish_take ends in a staged or a
\* failed recording, and every staged recording is uploaded or refused.
TakesSettle ==
  StaysUp => \A t \in Takes : take[t] = "uploading" ~> take[t] \in {"completed", "errored"}

\* A requested deletion is carried out, even if the take of the camera is still
\* uploading, and refuses it, when it is first tried.
DeletionsComplete ==
  StaysUp => \A c \in Cameras : c \in deleting ~> conn[c] = "deleted"

-----------------------------------------------------------------------------
(* What the repository says and the code does not do.                      *)

\* "The startup use case marks every returned item errored" (repository.rs):
\* startup recovery gets through.
StartupSucceeds == backend # "failed"

\* An input change concerns its camera only, and the others go on: it does not
\* stop the backend.
InputChangeKeepsBackendUp ==
  [][backend = "up" /\ backend' = "stopping" => events' = events]_vars

\* finish_take ends the recording: once its requests are through, no worker
\* has a file of a finished take open.
FinishEndsRecording ==
  \A t \in Takes, c \in Cameras :
    file[c] = t /\ Finished(t) => startTask[t][c] # "idle" \/ finishTask[t][c] # "idle"
=============================================================================
