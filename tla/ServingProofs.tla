--------------------------- MODULE ServingProofs ---------------------------
(***************************************************************************)
(* What the media server serves and what recovery and the finished takes   *)
(* leave to do, for any sets of takes and cameras and any bound of the     *)
(* event channel.                                                          *)
(***************************************************************************)
EXTENDS BackendProofs

-----------------------------------------------------------------------------
(* The inputs of the cameras.                                              *)

\* The deletion of the camera is requested or done.
Leaving(c) == c \in deleting \/ conn[c] = "deleted"

\* What the registry, the worker and the pass of a camera say of its connection.
\* A worker outlives its registry entry only when its camera is leaving, so that
\* no provisioning replaces it.
CameraServed(c) ==
  /\ file[c] # NoTake => link[c] = "connected"
  /\ c \in provisioned \/ cameraTask[c] = "provision" => HasConnection(c)
  /\ cameraTask[c] \in {"revoke", "revoked"} => Leaving(c)
  /\ cameraTask[c] = "revoked" => c \notin provisioned
  /\ link[c] # "gone" /\ c \notin provisioned => Leaving(c) /\ cameraTask[c] # "provision"

ServedInv == \A c \in Cameras : CameraServed(c)

\* The connection of a camera stays until it has been revoked.
LEMMA ConnectionStays ==
  ASSUME TypeOK, [Next]_vars, NEW c \in Cameras, cameraTask[c] # "revoked", HasConnection(c)
  PROVE  HasConnection(c)'
<1>0. conn \in [Cameras -> ConnState]
  BY DEF TypeOK, StoreTypeOK
<1>1. ASSUME NEW d \in Cameras, InsertCamera(d) PROVE HasConnection(c)'
  BY <1>0, <1>1 DEF InsertCamera, HasConnection
<1>2. ASSUME NEW d \in Cameras, NEW force \in BOOLEAN, RequestDeletion(d, force)
      PROVE  HasConnection(c)'
  BY <1>2 DEF RequestDeletion, HasConnection
<1>3. ASSUME NEW d \in Cameras, SaveProvisioned(d) PROVE HasConnection(c)'
  BY <1>0, <1>3 DEF SaveProvisioned, HasConnection
<1>4. ASSUME NEW d \in Cameras, NEW state \in InputState, ApplyInputState(d, state)
      PROVE  HasConnection(c)'
  BY <1>0, <1>4 DEF ApplyInputState, HasConnection, InputState
<1>5. CASE UNCHANGED <<conn, deleting>>
  BY <1>5 DEF HasConnection
<1>6. ASSUME NEW d \in Cameras, DeletesConnection(d) PROVE HasConnection(c)'
  BY <1>0, <1>6 DEF DeletesConnection, DeleteConnection, HasConnection
<1> QED
  BY <1>1, <1>2, <1>3, <1>4, <1>5, <1>6, ConnectionTransactions

\* No step takes back a deletion, requested or done.
LEMMA LeavingStays ==
  ASSUME TypeOK, [Next]_vars, NEW c \in Cameras, Leaving(c)
  PROVE  Leaving(c)'
BY DeletionStep DEF Leaving

\* What the worker of a camera does on its own, or for a start or a finish.
WorkerStep(c) ==
  WorkerInput(c) \/ \E t \in Takes : WorkerStart(t, c) \/ WorkerFinish(t, c)

\* The worker of a camera opens no file on an input that is not connected, and
\* none comes back once it is gone.
LEMMA WorkerKeeps ==
  ASSUME MediaTypeOK, NEW d \in Cameras, WorkerStep(d), NEW c \in Cameras,
         file[c] # NoTake => link[c] = "connected"
  PROVE  /\ provisioned' = provisioned /\ cameraTask' = cameraTask
         /\ file'[c] # NoTake => link'[c] = "connected"
         /\ link'[c] # "gone" => link[c] # "gone"
<1> USE DEF MediaTypeOK, taskVars
<1>1. ASSUME NEW t \in Takes, WorkerStart(t, d)
      PROVE  /\ provisioned' = provisioned /\ cameraTask' = cameraTask
             /\ file'[c] # NoTake => link'[c] = "connected"
             /\ link'[c] # "gone" => link[c] # "gone"
  BY <1>1 DEF WorkerStart, StartsRecording, RefusesRecording, mediaVars
<1>2. ASSUME NEW t \in Takes, WorkerFinish(t, d)
      PROVE  /\ provisioned' = provisioned /\ cameraTask' = cameraTask
             /\ file'[c] # NoTake => link'[c] = "connected"
             /\ link'[c] # "gone" => link[c] # "gone"
  BY <1>2 DEF WorkerFinish, FinishesRecording, FinishAfterOverflow, HasNoRecording, mediaVars
<1>3. CASE WorkerInput(d)
  BY <1>3 DEF WorkerInput, Packet, PacketAfterOverflow, WriteFails, Disconnected, Shutdown
<1> QED
  BY <1>1, <1>2, <1>3 DEF WorkerStep

\* A step that is neither a camera step nor one of a worker, but the listing of a
\* pass, leaves the inputs as they are or all gone.
LEMMA OtherSteps ==
  ASSUME [Next]_vars,
         \A d \in Cameras : ~ CameraStep(d) /\ ~ WorkerStep(d)
  PROVE  /\ \/ UNCHANGED <<provisioned, link, file>>
            \/ MediaStops
         /\ \/ UNCHANGED cameraTask
            \/ \E all \in BOOLEAN : cameraTask' = [c \in Cameras |-> PassTask(c, all)]
            \/ cameraTask' = IdleCameras
<1> USE DEF storeVars, mediaVars, taskVars
<1>1. CASE Request
  BY <1>1 DEF Request, StartTake, FinishTake, CreateCamera, DeleteCamera
<1>2. ASSUME NEW t \in Takes, NEW d \in Cameras, RecordingStep(t, d) \/ EventConflicts(t, d)
      PROVE  WorkerStep(d) \/ UNCHANGED <<provisioned, link, file, cameraTask>>
  BY <1>2 DEF RecordingStep, PersistStart, PersistFinish, StorageAnswers, UploadDeferred,
              PersistUpload, EventConflicts, WorkerStep
<1>3. CASE ListUploads \/ ListCameras \/ ProcessEvent \/ Startup \/ Serve \/ Exit
  BY <1>3 DEF ListUploads, ListCameras, ProcessEvent, Startup, Serve, Exit
<1>4. CASE Fault \/ UNCHANGED vars
  BY <1>4 DEF Fault, AbandonStart, AbandonFinish, TransactionFails, Stop, Crash, TasksStop, vars
<1> QED
  BY <1>1, <1>2, <1>3, <1>4 DEF Next, Step, WorkerStep

\* Every step keeps what is said of the cameras.
LEMMA ServedStep == TypeOK /\ ServedInv /\ [Next]_vars => ServedInv'
<1> SUFFICES ASSUME TypeOK, ServedInv, [Next]_vars, NEW c \in Cameras
             PROVE  CameraServed(c)'
  BY DEF ServedInv
<1>0. /\ provisioned \subseteq Cameras
      /\ link \in [Cameras -> LinkState]
      /\ file \in [Cameras -> Takes \cup {NoTake}]
      /\ cameraTask \in [Cameras -> CameraState]
      /\ MediaTypeOK
  BY DEF TypeOK, MediaTypeOK
<1>1. CameraServed(c)
  BY DEF ServedInv
<1>2. /\ Leaving(c) => Leaving(c)'
      /\ cameraTask[c] # "revoked" /\ HasConnection(c) => HasConnection(c)'
  BY ConnectionStays, LeavingStays
<1>3. ASSUME NEW d \in Cameras, WorkerStep(d)
      PROVE  CameraServed(c)'
  <2>1. /\ provisioned' = provisioned /\ cameraTask' = cameraTask
        /\ file'[c] # NoTake => link'[c] = "connected"
        /\ link'[c] # "gone" => link[c] # "gone"
    BY <1>0, <1>1, <1>3, WorkerKeeps DEF CameraServed
  <2> QED
    BY <1>1, <1>2, <2>1 DEF CameraServed
<1>4. ASSUME NEW d \in Cameras, CameraStep(d)
      PROVE  CameraServed(c)'
  <2>1. CASE Provision(d)
    <3>1. CASE c = d
      BY <1>0, <1>1, <1>2, <2>1, <3>1 DEF CameraServed, Provision, ProvisionCamera
    <3>2. CASE c # d
      <4>1. /\ c \in provisioned' <=> c \in provisioned
            /\ link'[c] = link[c] /\ file' = file /\ cameraTask'[c] = cameraTask[c]
        BY <1>0, <2>1, <3>2 DEF Provision, ProvisionCamera
      <4> QED
        BY <1>1, <1>2, <4>1 DEF CameraServed
    <3> QED
      BY <3>1, <3>2
  <2>2. CASE Revoke(d)
    <3>1. link' = link /\ file' = file /\ provisioned' = provisioned \ {d}
      BY <2>2 DEF Revoke, RevokeCamera
    <3>2. cameraTask[d] = "revoke" /\ cameraTask' = [cameraTask EXCEPT ![d] = "revoked"]
      BY <2>2 DEF Revoke
    <3> QED
      BY <1>0, <1>1, <1>2, <3>1, <3>2 DEF CameraServed
  <2>3. CASE PersistProvision(d) \/ CameraDeferred(d) \/ PersistDeletion(d)
    <3>1. /\ UNCHANGED <<provisioned, link, file>>
          /\ cameraTask' = [cameraTask EXCEPT ![d] = "idle"]
      BY <2>3 DEF PersistProvision, CameraDeferred, PersistDeletion, mediaVars
    <3> QED
      BY <1>0, <1>1, <1>2, <3>1 DEF CameraServed
  <2> QED
    BY <1>4, <2>1, <2>2, <2>3 DEF CameraStep
<1>5. CASE \A d \in Cameras : ~ CameraStep(d) /\ ~ WorkerStep(d)
  <2>1. \A all \in BOOLEAN :
          /\ PassTask(c, all) = "provision" => HasConnection(c) /\ ~ Leaving(c)
          /\ PassTask(c, all) = "revoke" => Leaving(c)
          /\ PassTask(c, all) # "revoked"
    BY DEF PassTask, HasConnection, Leaving
  <2>2. QED
    BY <1>0, <1>1, <1>2, <1>5, <2>1, OtherSteps DEF CameraServed, MediaStops, IdleCameras
<1> QED
  BY <1>3, <1>4, <1>5
\* It holds in every reachable state.
LEMMA ServedInvariant == Spec => []ServedInv
<1>1. Init => ServedInv
  BY DEF Init, StoreInit, MediaInit, IdleCameras, ServedInv, CameraServed
<1> QED
  BY <1>1, ServedStep, TypeCorrect, PTL DEF Spec

\* However provisionings, deletions, passes and restarts interleave, a camera that
\* is served has a connection (MediaCoordinator, delete_camera).
THEOREM ServedCamerasConnected == Spec => []ProvisionedHasConnection
<1>1. TypeOK /\ ServedInv => ProvisionedHasConnection
  BY DEF TypeOK, MediaTypeOK, ServedInv, CameraServed, ProvisionedHasConnection
<1> QED
  BY <1>1, ServedInvariant, TypeCorrect, PTL

\* A file is open only on a connected input, also when the worker of a revoked
\* camera outlives its registry entry (CameraWorker in crates/kinugasa-media).
THEOREM OpenFilesConnected == Spec => []OpenFileHasInput
<1>1. ServedInv => OpenFileHasInput
  BY DEF ServedInv, CameraServed, OpenFileHasInput
<1> QED
  BY <1>1, ServedInvariant, PTL

-----------------------------------------------------------------------------
(* Recovery.                                                               *)

\* Nothing but the camera pass runs before the backend serves.
TasksWait ==
  backend \notin {"up", "stopping"} =>
    startTask = IdleRecordings /\ finishTask = IdleRecordings /\ uploadTask = IdleRecordings

\* No task of a take changes a row while the backend recovers.
LEMMA TasksWaitStep ==
  ASSUME TasksWait, [Next]_vars
  PROVE  /\ TasksWait'
         /\ backend = "recovering" => UNCHANGED takeRows
<1> USE DEF storeVars, takeRows, taskVars
<1>1. CASE Request
  BY <1>1 DEF Request, StartTake, FinishTake, CreateCamera, DeleteCamera, TasksWait
<1>2. ASSUME NEW t \in Takes, NEW c \in Cameras, RecordingStep(t, c)
      PROVE  backend \in {"up", "stopping"} /\ backend' = backend
  <2>1. startTask[t][c] # "idle" \/ finishTask[t][c] # "idle" \/ uploadTask[t][c] # "idle"
    BY <1>2 DEF RecordingStep, WorkerStart, PersistStart, WorkerFinish, PersistFinish,
                StorageAnswers, UploadDeferred, PersistUpload
  <2>2. backend \in {"up", "stopping"}
    BY <2>1 DEF TasksWait, IdleRecordings
  <2> QED
    BY <1>2, <2>2 DEF RecordingStep, WorkerStart, PersistStart, WorkerFinish, PersistFinish,
                      StorageAnswers, UploadDeferred, PersistUpload
<1>3. ASSUME NEW c \in Cameras, CameraStep(c) \/ WorkerInput(c)
      PROVE  /\ UNCHANGED <<takeRows, startTask, finishTask, uploadTask>>
             /\ backend' = backend \/ backend = "recovering"
  BY <1>3 DEF CameraStep, Provision, PersistProvision, CameraDeferred, Revoke,
              PersistDeletion, WorkerInput
<1>4. ASSUME NEW t \in Takes, NEW c \in Cameras, EventConflicts(t, c)
      PROVE  backend = "up" /\ backend' = "stopping"
  BY <1>4 DEF EventConflicts
<1>5. CASE ListUploads \/ ListCameras \/ ProcessEvent \/ Startup \/ Serve \/ Exit
  BY <1>5 DEF ListUploads, ListCameras, ProcessEvent, Startup, Serve, Exit, Quiescent, TasksWait
<1>6. CASE Fault \/ UNCHANGED vars
  <2>1. CASE Crash \/ Stop \/ UNCHANGED vars
    BY <2>1 DEF Crash, TasksStop, Stop, vars, TasksWait
  <2>2. ASSUME NEW t \in Takes, AbandonStart(t) \/ AbandonFinish(t)
        PROVE  backend \in {"up", "stopping"} /\ backend' = backend
    BY <2>2 DEF AbandonStart, AbandonFinish, TasksWait, IdleRecordings, IdleCameras
  <2>3. ASSUME NEW t \in Takes, NEW c \in Cameras, TransactionFails(t, c)
        PROVE  backend \in {"up", "stopping"} /\ backend' = backend
    BY <2>3 DEF TransactionFails, TasksWait, IdleRecordings
  <2> QED
    BY <1>6, <2>1, <2>2, <2>3 DEF Fault, TasksWait
<1> QED
  BY <1>1, <1>2, <1>3, <1>4, <1>5, <1>6 DEF Next, Step, TasksWait

\* The first transaction of recovery settles every take and ends every recording.
LEMMA RecoversSettles ==
  ASSUME TypeOK, TakesInv, TakesInv', Recovers, NEW t \in Takes
  PROVE  take'[t] # "uploading" /\ \A c \in Cameras : row'[t][c] # "recording"
<1>0. row \in [Takes -> [Cameras -> RowState]]
  BY DEF TypeOK, StoreTypeOK
<1>1. \A c \in Cameras : row'[t][c] # "recording"
  BY DEF Recovers, InterruptRecordings, SaveTakes, Active
<1>2. ASSUME NEW c \in Cameras, video'[t][c] = "uploading"
      PROVE  FALSE
  <2>1. video[t][c] = "uploading" /\ ~ (row[t][c] = "recording" /\ take[t] # "ongoing")
    BY <1>2 DEF Recovers, InterruptRecordings, SaveTakes, Active
  <2>2. take[t] = "uploading"
    BY <2>1 DEF TakesInv, TakeInv
  <2>3. row[t][c] # "none" /\ (row[t][c] \in RowReason => video[t][c] = row[t][c])
    BY <2>1, <2>2 DEF TakesInv, TakeInv
  <2> QED
    BY <1>0, <2>1, <2>2, <2>3 DEF RowState, RowReason
<1> QED
  BY <1>1, <1>2 DEF TakesInv, TakeInv

\* Recovery begins with its transaction and aborts at a referenced connection.
LEMMA RecoveryLife ==
  ASSUME [Next]_vars
  PROVE  /\ backend' = "recovering" => backend = "recovering" \/ Recovers
         /\ backend' = "aborting" =>
              \/ backend = "aborting"
              \/ \E c \in Cameras :
                   PersistDeletion(c) /\ backend = "recovering" /\ Referenced(c)
<1> USE DEF storeVars, takeRows, taskVars
<1>1. CASE Request
  BY <1>1 DEF Request, StartTake, FinishTake, CreateCamera, DeleteCamera
<1>2. ASSUME NEW t \in Takes, NEW c \in Cameras, RecordingStep(t, c) \/ EventConflicts(t, c)
      PROVE  backend' = backend \/ backend' = "stopping"
  BY <1>2 DEF RecordingStep, WorkerStart, PersistStart, WorkerFinish, PersistFinish,
              StorageAnswers, UploadDeferred, PersistUpload, EventConflicts
<1>3. ASSUME NEW c \in Cameras, CameraStep(c) \/ WorkerInput(c)
      PROVE  \/ backend' = backend
             \/ /\ backend' = "aborting" /\ PersistDeletion(c)
                /\ backend = "recovering" /\ Referenced(c)
  BY <1>3 DEF CameraStep, Provision, PersistProvision, CameraDeferred, Revoke,
              PersistDeletion, WorkerInput
<1>4. CASE ListUploads \/ ListCameras \/ ProcessEvent \/ Startup \/ Serve \/ Exit
  BY <1>4 DEF ListUploads, ListCameras, ProcessEvent, Startup, Serve, Exit, Recovers
<1>5. CASE Fault \/ UNCHANGED vars
  BY <1>5 DEF Fault, AbandonStart, AbandonFinish, TransactionFails, Stop, Crash, vars
<1> QED
  BY <1>1, <1>2, <1>3, <1>4, <1>5 DEF Next, Step

\* In every reachable state recovery has settled the takes and does not abort.
LEMMA RecoveryInvariant == Spec => [](TasksWait /\ RecoverySettles)
<1>1. Init => TasksWait /\ RecoverySettles
  BY DEF Init, TasksWait, RecoverySettles
<1>2. TypeOK /\ TakesInv /\ TakesInv' /\ ServedInv
      /\ RecordingPinsConnection /\ TasksWait /\ RecoverySettles /\ [Next]_vars
        => TasksWait' /\ RecoverySettles'
  <2> SUFFICES ASSUME TypeOK, TakesInv, TakesInv', ServedInv,
                      RecordingPinsConnection, TasksWait, RecoverySettles, [Next]_vars
               PROVE  TasksWait' /\ RecoverySettles'
    OBVIOUS
  <2>1. TasksWait'
    BY TasksWaitStep
  <2>2. backend' = "recovering" => (backend = "recovering" \/ Recovers)
    BY RecoveryLife
  <2>3. ASSUME NEW c \in Cameras, PersistDeletion(c), backend = "recovering"
        PROVE  ~ Referenced(c)
    <3> SUFFICES ASSUME NEW t \in Takes, row[t][c] # "none" PROVE FALSE
      BY DEF Referenced
    <3>1. Leaving(c)
      BY <2>3 DEF PersistDeletion, ServedInv, CameraServed
    <3>2. HasConnection(c) /\ (take[t] = "ongoing" => c \notin deleting)
      BY DEF RecordingPinsConnection
    <3>3. take[t] \in {"ongoing", "uploading"}
      BY DEF TakesInv, TakeInv
    <3> QED
      BY <2>3, <3>1, <3>2, <3>3 DEF Leaving, HasConnection, RecoverySettles
  <2>4. backend' # "aborting"
    BY <2>3, RecoveryLife DEF RecoverySettles
  <2>5. CASE backend' = "recovering" /\ backend = "recovering"
    BY <2>1, <2>4, <2>5, TasksWaitStep DEF takeRows, RecoverySettles, Active
  <2>6. CASE Recovers
    BY <2>1, <2>4, <2>6, RecoversSettles DEF RecoverySettles, Active
  <2> QED
    BY <2>1, <2>2, <2>4, <2>5, <2>6 DEF RecoverySettles
<1> QED
  BY <1>1, <1>2, TypeCorrect, TakesInvInit, TakesInvStep, ServedInvariant,
     RecordingsPinConnections, PTL DEF Spec

\* While the backend recovers no recording is active and no take is uploading, and
\* no foreign key refuses a deletion of its pass (recover_after_restart).
THEOREM RecoveryIsClean == Spec => []RecoverySettles
BY RecoveryInvariant, PTL

-----------------------------------------------------------------------------
(* The transaction of recovery, item by item.                              *)

\* What InterruptRecordings makes of the rows.
InterruptedVideos ==
  [t \in Takes |-> [c \in Cameras |->
     IF Active(t, c) /\ take[t] # "ongoing" THEN "interrupted" ELSE video[t][c]]]

Converges(t) ==
  InterruptedVideos[t] # video[t] /\ Verdict(InterruptedVideos[t]) # "uploading"

InterruptedTakes ==
  [t \in Takes |-> IF InterruptedVideos[t] = video[t] THEN take[t]
                   ELSE Verdict(InterruptedVideos[t])]

InterruptedRows ==
  [t \in Takes |-> [c \in Cameras |->
     IF Converges(t) THEN "none" ELSE IF Active(t, c) THEN "interrupted" ELSE row[t][c]]]

LEMMA InterruptedIsRecovered ==
  ASSUME takeRowsTypeOK, InterruptRecordings
  PROVE  take' = InterruptedTakes /\ video' = InterruptedVideos /\ row' = InterruptedRows
<1> DEFINE rows == [t \in Takes |-> [c \in Cameras |->
                      IF Active(t, c) THEN "interrupted" ELSE row[t][c]]]
<1>1. SaveTakes(rows, InterruptedVideos)
  BY DEF InterruptRecordings, InterruptedVideos
<1>2. ASSUME NEW t \in Takes
      PROVE  (IF InterruptedVideos[t] # video[t] /\ Verdict(InterruptedVideos[t]) # "uploading"
              THEN [c \in Cameras |-> "none"] ELSE rows[t]) = InterruptedRows[t]
  <2>1. CASE Converges(t)
    BY <2>1 DEF InterruptedRows, Converges
  <2>2. CASE ~ Converges(t)
    BY <2>2 DEF InterruptedRows, Converges
  <2> QED
    BY <2>1, <2>2
<1>3. row' = [t \in Takes |-> InterruptedRows[t]]
  <2> HIDE DEF rows
  <2> QED
    BY <1>1, <1>2 DEF SaveTakes
<1>4. InterruptedRows = [t \in Takes |-> InterruptedRows[t]]
  BY DEF InterruptedRows
<1>5. take' = InterruptedTakes /\ video' = InterruptedVideos
  BY <1>1 DEF SaveTakes, InterruptedTakes
<1> QED
  BY <1>3, <1>4, <1>5

\* With no recording left, all is done.
LEMMA NothingToInterrupt ==
  ASSUME takeRowsTypeOK, \A t \in Takes, c \in Cameras : ~ Active(t, c)
  PROVE  take = InterruptedTakes /\ video = InterruptedVideos /\ row = InterruptedRows
<1>1. InterruptedVideos = video
  BY DEF takeRowsTypeOK, InterruptedVideos
<1>2. InterruptedTakes = take
  BY <1>1 DEF takeRowsTypeOK, InterruptedTakes
<1>3. InterruptedRows = row
  BY <1>1 DEF takeRowsTypeOK, InterruptedRows, Converges
<1> QED
  BY <1>1, <1>2, <1>3

\* The item of recover_after_restart for one recording.
InterruptsOne(t, c) == Active(t, c) /\ PersistRecordingFailure(t, c, "interrupted")

\* What an item changes of its take.
LEMMA ItemChanges ==
  ASSUME takeRowsTypeOK, NEW t \in Takes, NEW c \in Cameras, InterruptsOne(t, c),
         ~ FailureConflicts(t, c, "interrupted")
  PROVE  /\ \A u \in Takes \ {t} :
              take'[u] = take[u] /\ video'[u] = video[u] /\ row'[u] = row[u]
         /\ take[t] = "ongoing" =>
              /\ take'[t] = "ongoing" /\ video'[t] = video[t]
              /\ row'[t] = [row[t] EXCEPT ![c] = "interrupted"]
         /\ take[t] # "ongoing" =>
              LET videos == [video[t] EXCEPT ![c] = "interrupted"]
              IN  /\ video'[t] = videos
                  /\ take'[t] = IF videos = video[t] THEN take[t] ELSE Verdict(videos)
                  /\ row'[t] = IF videos # video[t] /\ Verdict(videos) # "uploading"
                               THEN [d \in Cameras |-> "none"]
                               ELSE [row[t] EXCEPT ![c] = "interrupted"]
<1> DEFINE rows == [row EXCEPT ![t][c] = "interrupted"]
           videos == IF take[t] = "ongoing" THEN video
                     ELSE [video EXCEPT ![t][c] = "interrupted"]
<1>0. /\ row \in [Takes -> [Cameras -> RowState]]
      /\ video \in [Takes -> [Cameras -> VideoState]]
      /\ take \in [Takes -> Phase]
  BY DEF takeRowsTypeOK
<1>1. SaveTakes(rows, videos)
  BY DEF InterruptsOne, PersistRecordingFailure, Active
<1>2. /\ rows[t] = [row[t] EXCEPT ![c] = "interrupted"]
      /\ \A u \in Takes \ {t} : rows[u] = row[u] /\ videos[u] = video[u]
      /\ take[t] = "ongoing" => videos[t] = video[t]
      /\ take[t] # "ongoing" => videos[t] = [video[t] EXCEPT ![c] = "interrupted"]
  BY <1>0
<1> HIDE DEF rows, videos
<1> QED
  BY <1>1, <1>2 DEF SaveTakes

\* The item leaves what becomes of take u in the end as it was.
EndsAlike(u) ==
  /\ InterruptedTakes'[u] = InterruptedTakes[u]
  /\ InterruptedVideos'[u] = InterruptedVideos[u]
  /\ InterruptedRows'[u] = InterruptedRows[u]
  /\ \A d \in Cameras : ~ (Active(u, d) /\ FailureConflicts(u, d, "interrupted"))'

LEMMA OtherTakeEndsAlike ==
  ASSUME ~ RecoveryConflicts, NEW u \in Takes,
         take'[u] = take[u], video'[u] = video[u], row'[u] = row[u]
  PROVE  EndsAlike(u)
<1>1. InterruptedVideos'[u] = InterruptedVideos[u]
  BY DEF InterruptedVideos, Active
<1>2. Converges(u)' <=> Converges(u)
  BY <1>1 DEF Converges, Verdict
<1>3. InterruptedTakes'[u] = InterruptedTakes[u]
  BY <1>1 DEF InterruptedTakes, Verdict
<1>4. InterruptedRows'[u] = InterruptedRows[u]
  BY <1>2 DEF InterruptedRows, Active
<1>5. \A d \in Cameras : ~ (Active(u, d) /\ FailureConflicts(u, d, "interrupted"))'
  BY DEF RecoveryConflicts, Active, FailureConflicts
<1> QED
  BY <1>1, <1>3, <1>4, <1>5 DEF EndsAlike

LEMMA OngoingTakeEndsAlike ==
  ASSUME takeRowsTypeOK, NEW t \in Takes, NEW c \in Cameras,
         take[t] = "ongoing", take'[t] = "ongoing", video'[t] = video[t],
         row[t][c] = "recording", row'[t] = [row[t] EXCEPT ![c] = "interrupted"]
  PROVE  EndsAlike(t)
<1>0. row[t] \in [Cameras -> RowState] /\ video[t] \in [Cameras -> VideoState]
  BY DEF takeRowsTypeOK
<1>1. /\ InterruptedVideos[t] = [d \in Cameras |-> video[t][d]]
      /\ InterruptedVideos'[t] = [d \in Cameras |-> video'[t][d]]
  BY DEF InterruptedVideos
<1>2. InterruptedVideos[t] = video[t] /\ InterruptedVideos'[t] = video'[t]
  BY <1>0, <1>1
<1>3. ~ Converges(t) /\ ~ Converges(t)'
  BY <1>2 DEF Converges
<1>4. InterruptedRows'[t] = InterruptedRows[t]
  BY <1>0, <1>3 DEF InterruptedRows, Active
<1>5. \A d \in Cameras : ~ (Active(t, d) /\ FailureConflicts(t, d, "interrupted"))'
  BY DEF Active, FailureConflicts, RowReason
<1> QED
  BY <1>2, <1>4, <1>5 DEF EndsAlike, InterruptedTakes

LEMMA FinishedTakeEndsAlike ==
  ASSUME takeRowsTypeOK, ~ RecoveryConflicts, NEW t \in Takes, NEW c \in Cameras,
         take[t] = "uploading", TakeInv(take[t], row[t], video[t]), row[t][c] = "recording",
         NEW videos, videos = [video[t] EXCEPT ![c] = "interrupted"], video'[t] = videos,
         take'[t] = IF videos = video[t] THEN take[t] ELSE Verdict(videos),
         row'[t] = IF videos # video[t] /\ Verdict(videos) # "uploading"
                   THEN [d \in Cameras |-> "none"]
                   ELSE [row[t] EXCEPT ![c] = "interrupted"]
  PROVE  EndsAlike(t)
<1> DEFINE final == InterruptedVideos[t]
<1>0. row[t] \in [Cameras -> RowState] /\ video[t] \in [Cameras -> VideoState]
  BY DEF takeRowsTypeOK
<1>1. \A d \in Cameras :
        final[d] = IF row[t][d] = "recording" THEN "interrupted" ELSE video[t][d]
  BY DEF InterruptedVideos, Active
<1>2. ASSUME NEW d \in Cameras
      PROVE  /\ row[t][d] = "recording" => video[t][d] \in {"uploading", "interrupted"}
             /\ video[t][d] = "uploading" => row[t][d] = "recording"
             /\ videos[d] = IF d = c THEN "interrupted" ELSE video[t][d]
  <2>1. row[t][d] = "recording" => video[t][d] \in {"uploading", "interrupted"}
    BY DEF RecoveryConflicts, FailureConflicts, Active
  <2>2. video[t][d] = "uploading" => row[t][d] = "recording"
    BY <1>0 DEF TakeInv, RowState, RowReason
  <2> QED
    BY <1>0, <2>1, <2>2
<1>3. final \in [Cameras -> VideoState]
  BY <1>0, <1>1 DEF InterruptedVideos, Active, VideoState, Reason, RowReason
<1>4. \A d \in Cameras : final[d] # "uploading"
  BY <1>1, <1>2
<1>5. Verdict(final) # "uploading"
  BY <1>4 DEF Verdict
<1>6. PICK e \in Cameras : video[t][e] = "uploading"
  BY DEF TakeInv
<1>7. final # video[t]
  BY <1>4, <1>6
<1>8. /\ InterruptedTakes[t] = Verdict(final)
      /\ InterruptedRows[t] = [d \in Cameras |-> "none"]
  BY <1>5, <1>7 DEF InterruptedTakes, InterruptedRows, Converges
<1> HIDE DEF final
<1>9. CASE \E d \in Cameras \ {c} : video[t][d] = "uploading"
  <2>1. PICK d \in Cameras \ {c} : video[t][d] = "uploading"
    BY <1>9
  <2>2. Verdict(videos) = "uploading"
    BY <1>2, <2>1 DEF Verdict
  <2>3. take'[t] = "uploading" /\ row'[t] = [row[t] EXCEPT ![c] = "interrupted"]
    BY <2>2
  <2>4. \A x \in Cameras : InterruptedVideos'[t][x] = final[x]
    BY <1>0, <1>1, <1>2, <2>3 DEF InterruptedVideos, Active
  <2>5. InterruptedVideos'[t] = final
    <3>1. InterruptedVideos'[t] = [x \in Cameras |-> InterruptedVideos'[t][x]]
      BY DEF InterruptedVideos
    <3> QED
      BY <1>3, <2>4, <3>1
  <2>6. InterruptedVideos'[t] # video'[t]
    <3>1. videos[d] = "uploading" /\ final[d] # "uploading"
      BY <1>2, <1>4, <2>1
    <3> QED
      BY <2>5, <3>1
  <2>7. Converges(t)'
    BY <1>5, <2>5, <2>6 DEF Converges, Verdict
  <2>8. InterruptedTakes'[t] = Verdict(final) /\ InterruptedRows'[t] = [x \in Cameras |-> "none"]
    BY <2>5, <2>6, <2>7 DEF InterruptedTakes, InterruptedRows, Verdict
  <2>9. \A x \in Cameras : ~ (Active(t, x) /\ FailureConflicts(t, x, "interrupted"))'
    BY <1>0, <1>2, <2>3 DEF Active, FailureConflicts, RowReason
  <2> QED
    BY <1>8, <2>5, <2>8, <2>9 DEF EndsAlike, final
<1>10. CASE \A d \in Cameras \ {c} : video[t][d] # "uploading"
  <2>1. e = c
    BY <1>6, <1>10
  <2>2. \A d \in Cameras : videos[d] = final[d]
    BY <1>1, <1>2, <1>10
  <2>3. videos = final
    BY <1>0, <1>3, <2>2
  <2>4. take'[t] = Verdict(final) /\ row'[t] = [d \in Cameras |-> "none"]
    BY <1>5, <1>7, <2>3
  <2>5. \A d \in Cameras : ~ Active(t, d)'
    BY <2>4 DEF Active
  <2>6. InterruptedVideos'[t] = video'[t]
    <3>1. InterruptedVideos'[t] = [x \in Cameras |-> video'[t][x]]
      BY <2>5 DEF InterruptedVideos
    <3> QED
      BY <1>3, <2>3, <3>1
  <2>7. InterruptedTakes'[t] = Verdict(final) /\ InterruptedRows'[t] = [d \in Cameras |-> "none"]
    BY <2>4, <2>5, <2>6 DEF InterruptedTakes, InterruptedRows, Converges
  <2> QED
    BY <1>8, <2>3, <2>5, <2>6, <2>7 DEF EndsAlike, final
<1> QED
  BY <1>9, <1>10

\* An item that is no conflict leaves no other one in conflict, and what becomes of
\* the rows in the end is what became of them without it: whatever the order of the
\* items of recover_after_restart, they end as in InterruptRecordings.
THEOREM RecoveryItemsCommute ==
  ASSUME takeRowsTypeOK, TakesInv, ~ RecoveryConflicts,
         NEW t \in Takes, NEW c \in Cameras, InterruptsOne(t, c)
  PROVE  /\ ~ RecoveryConflicts'
         /\ UNCHANGED <<InterruptedTakes, InterruptedVideos, InterruptedRows>>
<1>1. /\ TakeInv(take[t], row[t], video[t]) /\ row[t][c] = "recording"
      /\ ~ FailureConflicts(t, c, "interrupted")
  BY DEF TakesInv, InterruptsOne, Active, RecoveryConflicts
<1>2. ASSUME take[t] = "ongoing" PROVE EndsAlike(t)
  <2>1. /\ take'[t] = "ongoing" /\ video'[t] = video[t]
        /\ row'[t] = [row[t] EXCEPT ![c] = "interrupted"]
    BY <1>1, <1>2, ItemChanges
  <2> QED
    BY <1>1, <1>2, <2>1, OngoingTakeEndsAlike
<1>3. ASSUME take[t] = "uploading" PROVE EndsAlike(t)
  <2> DEFINE videos == [video[t] EXCEPT ![c] = "interrupted"]
  <2>1. /\ video'[t] = videos
        /\ take'[t] = IF videos = video[t] THEN take[t] ELSE Verdict(videos)
        /\ row'[t] = IF videos # video[t] /\ Verdict(videos) # "uploading"
                     THEN [d \in Cameras |-> "none"]
                     ELSE [row[t] EXCEPT ![c] = "interrupted"]
    BY <1>1, <1>3, ItemChanges
  <2>2. videos = [video[t] EXCEPT ![c] = "interrupted"]
    OBVIOUS
  <2> HIDE DEF videos
  <2> QED
    BY <1>1, <1>3, <2>1, <2>2, FinishedTakeEndsAlike
<1>4. take[t] \in {"ongoing", "uploading"}
  BY <1>1 DEF TakeInv
<1>5. \A u \in Takes \ {t} : EndsAlike(u)
  BY ZenonT(60), <1>1, ItemChanges, OtherTakeEndsAlike
<1>6. ASSUME NEW u \in Takes PROVE EndsAlike(u)
  <2>1. CASE u = t
    BY <1>2, <1>3, <1>4, <2>1
  <2>2. CASE u # t
    BY <1>5, <2>2
  <2> QED
    BY <2>1, <2>2
<1>7. ~ RecoveryConflicts'
  BY <1>6 DEF EndsAlike, RecoveryConflicts
<1>8. /\ InterruptedTakes' = InterruptedTakes
      /\ InterruptedVideos' = InterruptedVideos
      /\ InterruptedRows' = InterruptedRows
  <2>1. /\ InterruptedTakes = [u \in Takes |-> InterruptedTakes[u]]
        /\ InterruptedVideos = [u \in Takes |-> InterruptedVideos[u]]
        /\ InterruptedRows = [u \in Takes |-> InterruptedRows[u]]
    BY DEF InterruptedTakes, InterruptedVideos, InterruptedRows
  <2>2. /\ InterruptedTakes' = [u \in Takes |-> InterruptedTakes'[u]]
        /\ InterruptedVideos' = [u \in Takes |-> InterruptedVideos'[u]]
        /\ InterruptedRows' = [u \in Takes |-> InterruptedRows'[u]]
    BY DEF InterruptedTakes, InterruptedVideos, InterruptedRows
  <2> QED
    BY <1>6, <2>1, <2>2 DEF EndsAlike
<1> QED
  BY <1>7, <1>8

\* One item after the other, as far as they have got.
RecoveryItem == \E t \in Takes, c \in Cameras : InterruptsOne(t, c)

\* Rows of whose recordings none is in conflict, and which are to become those of takes,
\* videos and rows.
EndsIn(takes, videos, rows) ==
  /\ takeRowsTypeOK /\ TakesInv /\ ~ RecoveryConflicts
  /\ InterruptedTakes = takes /\ InterruptedVideos = videos /\ InterruptedRows = rows

LEMMA EndsInStep ==
  ASSUME NEW takes, NEW videos, NEW rows,
         EndsIn(takes, videos, rows), [RecoveryItem]_takeRows
  PROVE  EndsIn(takes, videos, rows)'
<1>1. CASE UNCHANGED takeRows
  BY <1>1 DEF takeRows, EndsIn, takeRowsTypeOK, TakesInv, RecoveryConflicts, Active,
     FailureConflicts, InterruptedTakes, InterruptedVideos, InterruptedRows, Converges
<1>2. ASSUME NEW t \in Takes, NEW c \in Cameras, InterruptsOne(t, c)
      PROVE  EndsIn(takes, videos, rows)'
  <2>1. /\ ~ RecoveryConflicts'
        /\ UNCHANGED <<InterruptedTakes, InterruptedVideos, InterruptedRows>>
    BY <1>2, RecoveryItemsCommute DEF EndsIn
  <2>2. takeRowsTypeOK' /\ TakesInv'
    <3>1. PersistRecordingFailure(t, c, "interrupted") /\ "interrupted" \in RowReason
      BY <1>2 DEF InterruptsOne, RowReason
    <3> QED
      BY <3>1, PersistRecordingFailureType, PersistRecordingFailureInv DEF EndsIn
  <2> QED
    BY <2>1, <2>2 DEF EndsIn
<1> QED
  BY <1>1, <1>2 DEF RecoveryItem

\* However many recordings there are and in whatever order recover_after_restart goes
\* through them: when none is active any more, the rows are those InterruptRecordings
\* makes of the ones it found (InterruptedIsRecovered).
THEOREM RecoveryIsOneStep ==
  ASSUME NEW CONSTANT takes, NEW CONSTANT videos, NEW CONSTANT rows
  PROVE  EndsIn(takes, videos, rows) /\ [][RecoveryItem]_takeRows
           => []((\A t \in Takes, c \in Cameras : ~ Active(t, c))
                   => take = takes /\ video = videos /\ row = rows)
<1> DEFINE Done == (\A t \in Takes, c \in Cameras : ~ Active(t, c))
                     => take = takes /\ video = videos /\ row = rows
<1>1. EndsIn(takes, videos, rows) /\ [RecoveryItem]_takeRows => EndsIn(takes, videos, rows)'
  BY EndsInStep
<1>2. EndsIn(takes, videos, rows) => Done
  BY NothingToInterrupt DEF EndsIn
<1> QED
  BY <1>1, <1>2, PTL

\* An item in conflict stays in conflict whatever items come before it, also when its
\* row goes with the last of them: recovery fails in every order or in none.
THEOREM RecoveryConflictStays ==
  ASSUME takeRowsTypeOK, NEW t \in Takes, NEW c \in Cameras, InterruptsOne(t, c),
         NEW u \in Takes, NEW d \in Cameras,
         Active(u, d), FailureConflicts(u, d, "interrupted")
  PROVE  FailureConflicts(u, d, "interrupted")'
<1>0. video \in [Takes -> [Cameras -> VideoState]]
  BY DEF takeRowsTypeOK
<1>1. take[u] # "ongoing" /\ video[u][d] \notin {"uploading", "interrupted"}
  BY DEF Active, FailureConflicts, RowReason
<1>2. CASE FailureConflicts(t, c, "interrupted")
  <2>1. UNCHANGED takeRows
    BY <1>2 DEF InterruptsOne, PersistRecordingFailure
  <2> QED
    BY <1>1, <2>1 DEF takeRows, FailureConflicts
<1>3. CASE ~ FailureConflicts(t, c, "interrupted")
  <2>0. /\ \A w \in Takes \ {t} : take'[w] = take[w] /\ video'[w] = video[w]
        /\ take[t] # "ongoing" =>
             /\ video'[t] = [video[t] EXCEPT ![c] = "interrupted"]
             /\ take'[t] \in {take[t], Verdict(video'[t])}
    <3>1. \A w \in Takes \ {t} : take'[w] = take[w] /\ video'[w] = video[w]
      BY <1>3, ItemChanges
    <3>2. take[t] # "ongoing" => video'[t] = [video[t] EXCEPT ![c] = "interrupted"]
      BY <1>3, ItemChanges
    <3>3. take[t] # "ongoing" => take'[t] \in {take[t], Verdict(video'[t])}
      BY <1>3, ItemChanges
    <3> QED
      BY <3>1, <3>2, <3>3
  <2>1. CASE u # t
    <3>1. take'[u] = take[u] /\ video'[u] = video[u]
      BY <2>0, <2>1
    <3> QED
      BY <1>1, <3>1 DEF FailureConflicts
  <2>2. CASE u = t
    <3>1. d # c
      BY <1>3, <2>2
    <3>2. /\ video'[t] = [video[t] EXCEPT ![c] = "interrupted"]
          /\ take'[t] \in {take[t], Verdict(video'[t])}
      BY <1>1, <2>0, <2>2
    <3>3. take'[t] # "ongoing"
      BY <1>1, <2>2, <3>2 DEF Verdict
    <3>4. video'[t][d] = video[t][d]
      BY <1>0, <3>1, <3>2
    <3> QED
      BY <1>1, <2>2, <3>3, <3>4 DEF FailureConflicts
  <2> QED
    BY <2>1, <2>2
<1> QED
  BY <1>2, <1>3

-----------------------------------------------------------------------------
(* The uploading videos have an owner.                                     *)

\* Only finish_take adds an uploading video.
LEMMA OnlyFinishUploads ==
  ASSUME TypeOK, [Next]_vars, NEW t \in Takes, NEW c \in Cameras,
         video'[t][c] = "uploading"
  PROVE  video[t][c] = "uploading" \/ \E u \in Takes : FinishTake(u)
<1>0. video \in [Takes -> [Cameras -> VideoState]]
  BY DEF TypeOK, StoreTypeOK
<1>1. CASE UNCHANGED takeRows
  BY <1>1 DEF takeRows
<1>2. ASSUME NEW u \in Takes, NEW cs \in (SUBSET Cameras) \ {{}}, StartsTake(u, cs)
      PROVE  video' = video
  BY <1>2 DEF StartsTake, InsertOngoingTake
<1>3. ASSUME NEW u \in Takes, NEW d \in Cameras, NEW state \in VideoState \ {"uploading"},
             video' = [video EXCEPT ![u][d] = state]
      PROVE  video[t][c] = "uploading"
  <2>1. CASE u = t /\ d = c
    BY <1>0, <1>3, <2>1
  <2>2. CASE u # t \/ d # c
    BY <1>0, <1>3, <2>2
  <2> QED
    BY <2>1, <2>2
<1>4. ASSUME NEW u \in Takes, NEW d \in Cameras, NEW reason \in RowReason,
             PersistRecordingFailure(u, d, reason)
      PROVE  \/ UNCHANGED takeRows
             \/ video' = video
             \/ video' = [video EXCEPT ![u][d] = reason]
  BY <1>4 DEF PersistRecordingFailure, SaveTakes
<1>5. ASSUME NEW u \in Takes, NEW d \in Cameras, NEW outcome \in {"completed", "storage"},
             PersistsUpload(u, d, outcome)
      PROVE  UNCHANGED takeRows \/ video' = [video EXCEPT ![u][d] = outcome]
  BY <1>5 DEF PersistsUpload, PersistUploadResult, SaveTakes
<1>6. ASSUME NEW d \in Cameras, NEW force \in BOOLEAN, RequestDeletion(d, force)
      PROVE  video[t][c] = "uploading"
  BY <1>0, <1>6 DEF RequestDeletion, SaveTakes
<1>7. ASSUME Recovers
      PROVE  video[t][c] = "uploading"
  BY <1>0, <1>7 DEF Recovers, InterruptRecordings, SaveTakes
<1>8. RowReason \cup {"completed", "storage"} \subseteq VideoState \ {"uploading"}
  BY DEF RowReason, Reason, VideoState
<1> QED
  BY <1>1, <1>2, <1>3, <1>4, <1>5, <1>6, <1>7, <1>8, TakeTransactions

\* The finish of a recording has a task that nobody abandons.
NoneAbandoned == \A t \in Takes, c \in Cameras : finishTask[t][c] # "abandoned"

\* What becomes of the task of a finish while the backend serves.
LEMMA FinishTaskMoves ==
  ASSUME TypeOK, NoneAbandoned, [Step \/ Crash]_vars
  PROVE  /\ NoneAbandoned'
         /\ \A t \in Takes, c \in Cameras :
              backend' = "up" /\ finishTask[t][c] # "idle" =>
                \/ finishTask'[t][c] # "idle"
                \/ PersistFinish(t, c)
                \/ FinishTake(t)
<1> USE DEF storeVars, mediaVars, taskVars
<1>0. finishTask \in [Takes -> [Cameras -> FinishState]]
  BY DEF TypeOK, PerRecording
<1>1. CASE UNCHANGED finishTask
  BY <1>1 DEF NoneAbandoned
<1>2. ASSUME NEW t \in Takes, FinishTake(t)
      PROVE  /\ NoneAbandoned'
             /\ \A u \in Takes \ {t}, c \in Cameras : finishTask'[u][c] = finishTask[u][c]
  BY <1>0, <1>2 DEF FinishTake, NoneAbandoned
<1>3. ASSUME NEW t \in Takes, NEW c \in Cameras, WorkerFinish(t, c)
      PROVE  \E answer \in {"finalized", "failed"} :
               finishTask' = [finishTask EXCEPT ![t][c] = answer]
  BY <1>0, <1>3 DEF WorkerFinish, NoneAbandoned
<1>4. ASSUME NEW t \in Takes, NEW c \in Cameras, PersistFinish(t, c)
      PROVE  finishTask' = [finishTask EXCEPT ![t][c] = "idle"]
  BY <1>4 DEF PersistFinish
<1>5. CASE Crash
  BY <1>5 DEF Crash, TasksStop, IdleRecordings, NoneAbandoned
<1>6. CASE Request
  BY <1>1, <1>6, <1>2 DEF Request, StartTake, CreateCamera, DeleteCamera
<1>7. ASSUME NEW t \in Takes, NEW c \in Cameras, RecordingStep(t, c) \/ EventConflicts(t, c)
      PROVE  UNCHANGED finishTask \/ WorkerFinish(t, c) \/ PersistFinish(t, c)
  BY <1>7 DEF RecordingStep, WorkerStart, PersistStart, StorageAnswers, UploadDeferred,
              PersistUpload, EventConflicts
<1>8. ASSUME NEW c \in Cameras, CameraStep(c) \/ WorkerInput(c)
      PROVE  UNCHANGED finishTask
  BY <1>8 DEF CameraStep, Provision, PersistProvision, CameraDeferred, Revoke,
              PersistDeletion, WorkerInput
<1>9. ListUploads \/ ListCameras \/ ProcessEvent \/ Startup \/ Serve \/ Exit \/ UNCHANGED vars
        => UNCHANGED finishTask
  BY DEF ListUploads, ListCameras, ProcessEvent, Startup, Serve, Exit, vars
<1>10. ASSUME NEW t \in Takes, NEW c \in Cameras, NEW state \in FinishState \ {"abandoned"},
              finishTask' = [finishTask EXCEPT ![t][c] = state]
       PROVE  /\ NoneAbandoned'
              /\ \A u \in Takes, d \in Cameras :
                   u # t \/ d # c => finishTask'[u][d] = finishTask[u][d]
              /\ finishTask'[t][c] = state
  BY <1>0, <1>10 DEF NoneAbandoned
<1>11. ASSUME NEW t \in Takes, NEW c \in Cameras, WorkerFinish(t, c) \/ PersistFinish(t, c)
       PROVE  /\ NoneAbandoned'
              /\ \A u \in Takes, d \in Cameras :
                   finishTask[u][d] # "idle" => finishTask'[u][d] # "idle" \/ PersistFinish(u, d)
  BY <1>3, <1>4, <1>10, <1>11 DEF FinishState
<1> QED
  BY <1>1, <1>2, <1>5, <1>6, <1>7, <1>8, <1>9, <1>11 DEF Step

\* The end of a finish leaves its video staged, or not uploading any more.
LEMMA PersistFinishSettles ==
  ASSUME TypeOK, TakesInv, NEW t \in Takes, NEW c \in Cameras, PersistFinish(t, c),
         video[t][c] = "uploading"
  PROVE  <<t, c>> \in finalized' \/ video'[t][c] # "uploading"
<1>0. /\ video \in [Takes -> [Cameras -> VideoState]]
      /\ row \in [Takes -> [Cameras -> RowState]]
  BY DEF TypeOK, StoreTypeOK
<1>1. take[t] = "uploading" /\ row[t][c] = "recording"
  <2>1. take[t] = "uploading"
    BY DEF TakesInv, TakeInv
  <2>2. row[t][c] # "none" /\ (row[t][c] \in RowReason => video[t][c] = row[t][c])
    BY <2>1 DEF TakesInv, TakeInv
  <2> QED
    BY <1>0, <2>1, <2>2 DEF RowState, RowReason
<1>2. CASE StageFinalizedRecording(t, c)
  BY <1>1, <1>2 DEF StageFinalizedRecording, MayStage, Finished
<1>3. CASE PersistRecordingFailure(t, c, "media")
  <2>1. ~ FailureConflicts(t, c, "media")
    BY <1>1 DEF FailureConflicts, RowReason
  <2>2. video' = [video EXCEPT ![t][c] = "media"]
    BY <1>1, <1>3, <2>1 DEF PersistRecordingFailure, SaveTakes
  <2> QED
    BY <1>0, <2>2
<1> QED
  BY <1>2, <1>3 DEF PersistFinish

\* The backend serves only after recovery.
LEMMA ServingBegins ==
  ASSUME [Next]_vars, backend' = "up"
  PROVE  backend \in {"up", "recovering"}
<1> USE DEF storeVars, takeRows, taskVars
<1>1. CASE Request
  BY <1>1 DEF Request, StartTake, FinishTake, CreateCamera, DeleteCamera
<1>2. ASSUME NEW t \in Takes, NEW c \in Cameras, RecordingStep(t, c) \/ EventConflicts(t, c)
      PROVE  backend \in {"up", "recovering"}
  BY <1>2 DEF RecordingStep, WorkerStart, PersistStart, WorkerFinish, PersistFinish,
              StorageAnswers, UploadDeferred, PersistUpload, EventConflicts
<1>3. ASSUME NEW c \in Cameras, CameraStep(c) \/ WorkerInput(c)
      PROVE  backend \in {"up", "recovering"}
  BY <1>3 DEF CameraStep, Provision, PersistProvision, CameraDeferred, Revoke,
              PersistDeletion, WorkerInput
<1>4. CASE ListUploads \/ ListCameras \/ ProcessEvent \/ Startup \/ Serve \/ Exit
  BY <1>4 DEF ListUploads, ListCameras, ProcessEvent, Startup, Serve, Exit
<1>5. CASE Fault \/ UNCHANGED vars
  BY <1>5 DEF Fault, AbandonStart, AbandonFinish, TransactionFails, Stop, Crash, vars
<1> QED
  BY <1>1, <1>2, <1>3, <1>4, <1>5 DEF Next, Step

\* A step of a serving backend leaves every uploading video an owner.
LEMMA OwnerStep ==
  ASSUME TypeOK, TakesInv, NoneAbandoned, RecoverySettles, UploadHasOwner,
         [Step \/ Crash]_vars, [Next]_vars
  PROVE  UploadHasOwner'
<1> SUFFICES ASSUME NEW t \in Takes, NEW c \in Cameras,
                    backend' = "up", video'[t][c] = "uploading"
             PROVE  <<t, c>> \in finalized' \/ finishTask'[t][c] # "idle"
  BY DEF UploadHasOwner
<1>0. /\ video \in [Takes -> [Cameras -> VideoState]]
      /\ row \in [Takes -> [Cameras -> RowState]]
      /\ finishTask \in [Takes -> [Cameras -> FinishState]]
  BY DEF TypeOK, StoreTypeOK, PerRecording
<1>1. CASE FinishTake(t)
  <2>1. video' = [video EXCEPT ![t] = [d \in Cameras |->
                    IF row[t][d] = "recording" THEN "uploading" ELSE row[t][d]]]
    BY <1>1 DEF FinishTake, FinishOngoingTake, SaveTakes
  <2>2. row[t][c] = "recording"
    BY <1>0, <2>1 DEF RowState, RowReason
  <2>3. finishTask' = [finishTask EXCEPT ![t] = [d \in Cameras |->
                         IF row[t][d] = "recording" THEN "requested" ELSE "idle"]]
    BY <1>1 DEF FinishTake
  <2> QED
    BY <1>0, <2>2, <2>3
<1>2. CASE ~ FinishTake(t)
  <2>1. video[t][c] = "uploading"
    <3>1. ASSUME NEW u \in Takes, FinishTake(u) PROVE video'[t] = video[t]
      <4>1. u # t
        BY <1>2, <3>1
      <4>2. video' = [video EXCEPT ![u] = [d \in Cameras |->
                        IF row[u][d] = "recording" THEN "uploading" ELSE row[u][d]]]
        BY <3>1 DEF FinishTake, FinishOngoingTake, SaveTakes
      <4> QED
        BY <1>0, <4>1, <4>2
    <3> QED
      BY <3>1, OnlyFinishUploads
  <2>2. take[t] = "uploading"
    BY <2>1 DEF TakesInv, TakeInv
  <2>3. backend = "up"
    BY <2>2, ServingBegins DEF RecoverySettles
  <2>4. <<t, c>> \in finalized \/ finishTask[t][c] # "idle"
    BY <2>1, <2>3 DEF UploadHasOwner
  <2>5. finalized \subseteq finalized'
    BY StoredGrows
  <2> QED
    BY <1>2, <2>1, <2>4, <2>5, FinishTaskMoves, PersistFinishSettles
<1> QED
  BY <1>1, <1>2

\* A backend without clients that go away and without failing transactions is a
\* backend.
LEMMA RestartingIsSpec == RestartingSpec => Spec
<1>1. [Step \/ Crash]_vars => [Next]_vars
  BY DEF Next, Fault
<1> QED
  BY <1>1, PTL DEF RestartingSpec, Spec

\* While the backend serves, every uploading video is staged for the upload passes
\* or has a finish task that will stage or fail it (finish_take).
THEOREM UploadsHaveOwners == RestartingSpec => []UploadHasOwner
<1>1. Init => NoneAbandoned /\ UploadHasOwner
  BY DEF Init, IdleRecordings, NoneAbandoned, UploadHasOwner
<1>2. TypeOK /\ TakesInv /\ RecoverySettles /\ NoneAbandoned /\ UploadHasOwner
      /\ [Step \/ Crash]_vars /\ [Next]_vars
        => NoneAbandoned' /\ UploadHasOwner'
  BY FinishTaskMoves, OwnerStep
<1>3. Spec => [](TypeOK /\ TakesInv /\ RecoverySettles)
  BY TypeCorrect, TakesInvInit, TakesInvStep, RecoveryIsClean, PTL DEF Spec
<1> QED
  BY <1>1, <1>2, <1>3, RestartingIsSpec, PTL DEF RestartingSpec, Spec

-----------------------------------------------------------------------------
(* The connection rows follow the inputs.                                  *)

\* The input of a camera is what its last change in the channel says, or what has
\* been shown.
InputIs(c, shown) ==
  IF Silent(events, c) THEN link[c] = shown ELSE LastReport(events, c, link[c])

\* What a pass, the registry, the row and the channel say of the input of a camera.
\* A row that is saved as waiting waits for no change that has been processed: a
\* recovering backend processes none, and one that serves saves only rows that are
\* activating, which accept none.
InputFollowed(c) ==
  /\ backend = "up" /\ cameraTask[c] \in {"provision", "provisioned"} => conn[c] = "activating"
  /\ c \notin provisioned => Silent(events, c) /\ cameraTask[c] # "provisioned"
  /\ c \in provisioned =>
       /\ cameraTask[c] # "provision"
       /\ conn[c] = "activating" => cameraTask[c] = "provisioned"
       /\ InputIs(c, IF cameraTask[c] = "provisioned" THEN "waiting" ELSE conn[c])

FollowedInv ==
  /\ backend \in {"down", "failed"} =>
       provisioned = {} /\ events = <<>> /\ cameraTask = IdleCameras
  /\ backend \in {"recovering", "up"} => \A c \in Cameras : Leaving(c) \/ InputFollowed(c)

\* An event that is sent is the last of its camera, and of no other.
LEMMA SendsLast ==
  ASSUME NEW es \in Seq(InputEvent), NEW e \in InputEvent
  PROVE  /\ ~ Silent(Append(es, e), e.camera)
         /\ LastReport(Append(es, e), e.camera, e.state)
         /\ \A c \in Cameras \ {e.camera} :
              /\ Silent(Append(es, e), c) <=> Silent(es, c)
              /\ \A s : LastReport(es, c, s) => LastReport(Append(es, e), c, s)
<1> DEFINE fs == Append(es, e)
<1>1. /\ fs \in Seq(InputEvent)
      /\ DOMAIN es = 1 .. Len(es) /\ DOMAIN fs = 1 .. Len(es) + 1 /\ Len(es) \in Nat
      /\ \A i \in 1 .. Len(es) : fs[i] = es[i]
      /\ fs[Len(es) + 1] = e
  OBVIOUS
<1> HIDE DEF fs
<1>2. ~ Silent(fs, e.camera)
  BY <1>1 DEF Silent
<1>3. LastReport(fs, e.camera, e.state)
  <2>1. Len(es) + 1 \in DOMAIN fs /\ \A j \in DOMAIN fs : ~ j > Len(es) + 1
    BY <1>1
  <2> QED
    BY <1>1, <2>1 DEF LastReport
<1>4. ASSUME NEW c \in Cameras \ {e.camera}
      PROVE  Silent(fs, c) <=> Silent(es, c)
  BY <1>1, <1>4 DEF Silent
<1>5. ASSUME NEW c \in Cameras \ {e.camera}, NEW s, LastReport(es, c, s)
      PROVE  LastReport(fs, c, s)
  <2>1. PICK i \in DOMAIN es :
          /\ es[i].camera = c /\ es[i].state = s
          /\ \A j \in DOMAIN es : j > i => es[j].camera # c
    BY <1>5 DEF LastReport
  <2>2. i \in DOMAIN fs /\ fs[i] = es[i]
    BY <1>1
  <2>3. \A j \in DOMAIN fs : j > i => fs[j].camera # c
    BY <1>1, <2>1
  <2> QED
    BY <2>1, <2>2, <2>3 DEF LastReport
<1> QED
  BY <1>2, <1>3, <1>4, <1>5 DEF fs

\* An event that is taken leaves the last one of every camera, but its own.
LEMMA TakesFirst ==
  ASSUME NEW es \in Seq(InputEvent), es # <<>>, NEW c \in Cameras
  PROVE  /\ Silent(es, c) => Silent(Tail(es), c) /\ Head(es).camera # c
         /\ \A s : LastReport(es, c, s) =>
              IF Silent(Tail(es), c) THEN Head(es).camera = c /\ Head(es).state = s
              ELSE LastReport(Tail(es), c, s)
<1> DEFINE fs == Tail(es)
<1>1. /\ Len(es) \in Nat \ {0}
      /\ DOMAIN es = 1 .. Len(es) /\ DOMAIN fs = 1 .. Len(es) - 1
      /\ \A i \in 1 .. Len(es) - 1 : fs[i] = es[i + 1]
      /\ Head(es) = es[1]
  OBVIOUS
<1> HIDE DEF fs
<1>2. Silent(es, c) => Silent(fs, c) /\ Head(es).camera # c
  BY <1>1 DEF Silent
<1>3. ASSUME NEW s, LastReport(es, c, s)
      PROVE  IF Silent(fs, c) THEN Head(es).camera = c /\ Head(es).state = s
             ELSE LastReport(fs, c, s)
  <2>1. PICK i \in DOMAIN es :
          /\ es[i].camera = c /\ es[i].state = s
          /\ \A j \in DOMAIN es : j > i => es[j].camera # c
    BY <1>3 DEF LastReport
  <2>2. CASE i = 1
    <3>1. \A j \in DOMAIN fs : fs[j].camera # c
      BY <1>1, <2>1, <2>2
    <3> QED
      BY <1>1, <2>1, <2>2, <3>1 DEF Silent
  <2>3. CASE i # 1
    <3>1. i - 1 \in DOMAIN fs /\ fs[i - 1] = es[i]
      BY <1>1, <2>3
    <3>2. \A j \in DOMAIN fs : j > i - 1 => fs[j].camera # c
      BY SMTT(60), <1>1, <2>1
    <3>3. LastReport(fs, c, s)
      BY <2>1, <3>1, <3>2 DEF LastReport
    <3>4. ~ Silent(fs, c)
      BY <2>1, <3>1 DEF Silent
    <3> QED
      BY <3>3, <3>4
  <2> QED
    BY <2>2, <2>3
<1> QED
  BY <1>2, <1>3 DEF fs

\* A step of a worker leaves its input and the channel alone, ends the worker of a
\* revoked camera, or reports what its input becomes.
LEMMA WorkerReports ==
  ASSUME MediaTypeOK, NEW d \in Cameras, WorkerStep(d)
  PROVE  /\ UNCHANGED <<conn, deleting, backend, provisioned, cameraTask>>
         /\ backend \notin {"down", "failed"}
         /\ \/ UNCHANGED <<link, events>>
            \/ d \notin provisioned /\ link' = [link EXCEPT ![d] = "gone"] /\ UNCHANGED events
            \/ /\ link[d] # "gone"
               /\ \E s \in InputState :
                    /\ link' = [link EXCEPT ![d] = s]
                    /\ \/ events' = Append(events, Event(d, s))
                       \/ events' = Append(Append(events, Event(d, "errored")), Event(d, s))
<1> USE DEF storeVars, taskVars, Running
<1>0. link \in [Cameras -> LinkState] /\ events \in Seq(InputEvent)
  BY DEF MediaTypeOK
<1>1. UNCHANGED <<conn, deleting, backend, cameraTask>> /\ backend \notin {"down", "failed"}
  BY DEF WorkerStep, WorkerInput, WorkerStart, WorkerFinish
<1>2. \A s \in InputState :
        /\ events \o <<Event(d, s)>> = Append(events, Event(d, s))
        /\ events \o (<<>> \o <<Event(d, s)>>) = Append(events, Event(d, s))
        /\ events \o (<<Event(d, "errored")>> \o <<Event(d, s)>>)
             = Append(Append(events, Event(d, "errored")), Event(d, s))
        /\ events \o <<>> = events
  BY <1>0
<1>3. CASE Packet(d) \/ Disconnected(d)
  <2>1. PICK s \in InputState :
          link' = [link EXCEPT ![d] = s] /\ events' = events \o <<Event(d, s)>>
    BY <1>3 DEF Packet, Disconnected, Emit, InputState
  <2>2. link[d] # "gone" /\ provisioned' = provisioned
    BY <1>3 DEF Packet, Disconnected
  <2> QED
    BY <1>1, <1>2, <2>1, <2>2
<1>4. CASE PacketAfterOverflow(d)
  <2>1. /\ link[d] # "gone" /\ provisioned' = provisioned
        /\ link' = [link EXCEPT ![d] = "connected"]
        /\ \/ events' = events \o (<<>> \o <<Event(d, "connected")>>)
           \/ events' = events \o (<<Event(d, "errored")>> \o <<Event(d, "connected")>>)
    BY <1>4 DEF PacketAfterOverflow, Emit, Failure
  <2>2. "connected" \in InputState
    BY DEF InputState
  <2> QED
    BY <1>1, <1>2, <2>1, <2>2
<1>5. CASE WriteFails(d) \/ FinishAfterOverflow(d)
  <2>1. /\ link[d] # "gone" /\ provisioned' = provisioned
        /\ link' = [link EXCEPT ![d] = "errored"]
        /\ events' = events \o Failure(d)
    BY <1>5 DEF WriteFails, FinishAfterOverflow, Emit
  <2>2. "errored" \in InputState
    BY DEF InputState
  <2>3. CASE link[d] = "errored"
    <3>1. link' = link /\ events' = events
      BY <1>0, <1>2, <2>1, <2>2, <2>3 DEF Failure
    <3> QED
      BY <1>1, <2>1, <3>1
  <2>4. CASE link[d] # "errored"
    <3>1. events' = Append(events, Event(d, "errored"))
      BY <1>2, <2>1, <2>2, <2>4 DEF Failure
    <3> QED
      BY <1>1, <2>1, <2>2, <3>1
  <2> QED
    BY <2>3, <2>4
<1>6. CASE Shutdown(d)
  BY <1>1, <1>6 DEF Shutdown
<1>7. CASE \E t \in Takes : WorkerStart(t, d) \/ (WorkerFinish(t, d) /\ ~ FinishAfterOverflow(d))
  BY <1>1, <1>7 DEF WorkerStart, WorkerFinish, StartsRecording, RefusesRecording,
                    FinishesRecording, HasNoRecording, mediaVars
<1> QED
  BY <1>3, <1>4, <1>5, <1>6, <1>7 DEF WorkerStep, WorkerInput, WorkerFinish

\* What a worker reports keeps what is said of every camera.
LEMMA WorkerFollows ==
  ASSUME TypeOK, ServedInv, NEW d \in Cameras, WorkerStep(d), NEW c \in Cameras,
         ~ Leaving(c), InputFollowed(c)
  PROVE  InputFollowed(c)'
<1>0. /\ MediaTypeOK /\ link \in [Cameras -> LinkState] /\ events \in Seq(InputEvent)
      /\ "errored" \in InputState
  BY DEF TypeOK, MediaTypeOK, InputState
<1>1. /\ UNCHANGED <<conn, backend, provisioned, cameraTask>>
      /\ \/ UNCHANGED <<link, events>>
         \/ d \notin provisioned /\ link' = [link EXCEPT ![d] = "gone"] /\ UNCHANGED events
         \/ /\ link[d] # "gone"
            /\ \E s \in InputState :
                 /\ link' = [link EXCEPT ![d] = s]
                 /\ \/ events' = Append(events, Event(d, s))
                    \/ events' = Append(Append(events, Event(d, "errored")), Event(d, s))
  BY <1>0, WorkerReports
<1>2. CASE UNCHANGED <<link, events>>
  BY <1>1, <1>2 DEF InputFollowed, InputIs
<1>3. CASE d \notin provisioned /\ link' = [link EXCEPT ![d] = "gone"] /\ UNCHANGED events
  BY <1>0, <1>1, <1>3 DEF InputFollowed, InputIs
<1>4. ASSUME NEW s \in InputState, link[d] # "gone", link' = [link EXCEPT ![d] = s],
             \/ events' = Append(events, Event(d, s))
             \/ events' = Append(Append(events, Event(d, "errored")), Event(d, s))
      PROVE  InputFollowed(c)'
  <2>1. \A r \in InputState : Event(d, r) \in InputEvent /\ Event(d, r).camera = d /\ Event(d, r).state = r
    BY DEF Event, InputEvent
  <2>2. \A r \in InputState : Append(events, Event(d, r)) \in Seq(InputEvent)
    BY <1>0, <2>1
  <2>3. \A es \in Seq(InputEvent) :
          /\ ~ Silent(Append(es, Event(d, s)), d) /\ LastReport(Append(es, Event(d, s)), d, s)
          /\ c # d => \A r \in InputState :
               /\ Silent(Append(es, Event(d, r)), c) <=> Silent(es, c)
               /\ \A q : LastReport(es, c, q) => LastReport(Append(es, Event(d, r)), c, q)
    BY <2>1, SendsLast
  <2>4. ~ Silent(events', d) /\ LastReport(events', d, s)
    BY <1>0, <1>4, <2>2, <2>3
  <2>5. CASE c = d
    <3>1. c \in provisioned
      BY <1>4, <2>5 DEF ServedInv, CameraServed
    <3>2. link'[c] = s
      BY <1>0, <1>4, <2>5
    <3> QED
      BY <1>1, <2>4, <2>5, <3>1, <3>2 DEF InputFollowed, InputIs
  <2>6. CASE c # d
    <3> DEFINE es == Append(events, Event(d, "errored"))
    <3>1. link'[c] = link[c]
      BY <1>0, <1>4, <2>6
    <3>2. /\ es \in Seq(InputEvent) /\ (Silent(es, c) <=> Silent(events, c))
          /\ \A q : LastReport(events, c, q) => LastReport(es, c, q)
      BY <1>0, <2>2, <2>3, <2>6
    <3> HIDE DEF es
    <3>3. CASE events' = Append(events, Event(d, s))
      <4>1. /\ Silent(events', c) <=> Silent(events, c)
            /\ \A q : LastReport(events, c, q) => LastReport(events', c, q)
        BY <1>0, <2>3, <2>6, <3>3
      <4> QED
        BY <1>1, <3>1, <4>1 DEF InputFollowed, InputIs
    <3>4. CASE events' = Append(es, Event(d, s))
      <4>1. /\ Silent(events', c) <=> Silent(events, c)
            /\ \A q : LastReport(events, c, q) => LastReport(events', c, q)
        BY <2>3, <2>6, <3>2, <3>4
      <4> QED
        BY <1>1, <3>1, <4>1 DEF InputFollowed, InputIs
    <3> QED
      BY <1>4, <3>3, <3>4 DEF es
  <2> QED
    BY <2>5, <2>6
<1> QED
  BY <1>1, <1>2, <1>3, <1>4

\* The same of the steps of the passes.
LEMMA CameraFollows ==
  ASSUME TypeOK, ServedInv, NEW d \in Cameras, CameraStep(d), NEW c \in Cameras,
         ~ Leaving(c), InputFollowed(c)
  PROVE  Leaving(c)' \/ InputFollowed(c)'
<1> USE DEF InputFollowed, InputIs
<1>0. /\ conn \in [Cameras -> ConnState] /\ link \in [Cameras -> LinkState]
      /\ cameraTask \in [Cameras -> CameraState]
  BY DEF TypeOK, StoreTypeOK, MediaTypeOK
<1>1. CASE Provision(d)
  <2>1. /\ UNCHANGED <<conn, deleting, backend, events>>
        /\ provisioned' = provisioned \cup {d}
        /\ link' = IF d \in provisioned THEN link ELSE [link EXCEPT ![d] = "waiting"]
        /\ cameraTask[d] = "provision" /\ cameraTask' = [cameraTask EXCEPT ![d] = "provisioned"]
    BY <1>1 DEF Provision, ProvisionCamera, storeVars
  <2>2. CASE c = d
    BY <1>0, <2>1, <2>2
  <2>3. CASE c # d
    <3>1. link'[c] = link[c] /\ cameraTask'[c] = cameraTask[c] /\ (c \in provisioned' <=> c \in provisioned)
      BY <1>0, <2>1, <2>3
    <3> QED
      BY <2>1, <3>1
  <2> QED
    BY <2>2, <2>3
<1>2. CASE PersistProvision(d)
  <2>1. /\ UNCHANGED <<backend, provisioned, link, events>>
        /\ cameraTask[d] = "provisioned" /\ cameraTask' = [cameraTask EXCEPT ![d] = "idle"]
        /\ SaveProvisioned(d)
    BY <1>2 DEF PersistProvision, mediaVars
  <2>2. CASE c = d
    <3>1. c \in provisioned /\ HasConnection(c)
      BY <2>1, <2>2 DEF ServedInv, CameraServed
    <3>2. conn'[c] = "waiting"
      BY <1>0, <2>1, <2>2, <3>1 DEF SaveProvisioned
    <3>3. cameraTask'[c] = "idle"
      BY <1>0, <2>1, <2>2
    <3> QED
      BY <2>1, <2>2, <3>1, <3>2, <3>3
  <2>3. CASE c # d
    <3>1. conn'[c] = conn[c] /\ cameraTask'[c] = cameraTask[c]
      BY <1>0, <2>1, <2>3 DEF SaveProvisioned
    <3> QED
      BY <2>1, <3>1
  <2> QED
    BY <2>2, <2>3
<1>3. CASE Revoke(d)
  <2>1. /\ UNCHANGED <<conn, backend, link, events>>
        /\ provisioned' = provisioned \ {d} /\ cameraTask[d] = "revoke"
        /\ cameraTask' = [cameraTask EXCEPT ![d] = "revoked"]
    BY <1>3 DEF Revoke, RevokeCamera, storeVars
  <2>2. c # d
    BY <2>1 DEF ServedInv, CameraServed
  <2>3. cameraTask'[c] = cameraTask[c] /\ (c \in provisioned' <=> c \in provisioned)
    BY <1>0, <2>1, <2>2
  <2> QED
    BY <2>1, <2>3
<1>4. CASE CameraDeferred(d)
  <2>1. /\ UNCHANGED <<conn, backend, provisioned, link, events>>
        /\ cameraTask[d] \in {"provision", "revoke"}
        /\ cameraTask' = [cameraTask EXCEPT ![d] = "idle"]
    BY <1>4 DEF CameraDeferred, storeVars, mediaVars
  <2>2. c # d => cameraTask'[c] = cameraTask[c]
    BY <1>0, <2>1
  <2>3. c = d => cameraTask'[c] = "idle"
    BY <1>0, <2>1
  <2>4. c = d => c \notin provisioned
    BY <2>1 DEF ServedInv, CameraServed
  <2> QED
    BY <2>1, <2>2, <2>3, <2>4
<1>5. CASE PersistDeletion(d)
  <2>1. /\ UNCHANGED <<provisioned, link, events>>
        /\ backend' \in {backend, "aborting"}
        /\ cameraTask[d] = "revoked" /\ cameraTask' = [cameraTask EXCEPT ![d] = "idle"]
        /\ DeleteConnection(d)
    BY <1>5 DEF PersistDeletion, mediaVars
  <2>2. c # d
    BY <2>1 DEF ServedInv, CameraServed
  <2>3. cameraTask'[c] = cameraTask[c] /\ conn'[c] = conn[c]
    BY <1>0, <2>1, <2>2 DEF DeleteConnection
  <2> QED
    BY <2>1, <2>3
<1> QED
  BY <1>1, <1>2, <1>3, <1>4, <1>5 DEF CameraStep

\* The same of an event that is processed.
LEMMA EventFollows ==
  ASSUME TypeOK, ProcessEvent, backend' = "up", NEW c \in Cameras, InputFollowed(c)
  PROVE  InputFollowed(c)'
<1> DEFINE event == Head(events)
<1>0. /\ conn \in [Cameras -> ConnState] /\ events \in Seq(InputEvent) /\ events # <<>>
      /\ backend = "up" /\ UNCHANGED <<provisioned, link, cameraTask>> /\ events' = Tail(events)
      /\ AcceptsInputState(event.camera) /\ conn' = [conn EXCEPT ![event.camera] = event.state]
  BY DEF TypeOK, StoreTypeOK, MediaTypeOK, ProcessEvent, ApplyInputState, taskVars
<1>1. event \in InputEvent
  BY <1>0
<1>2. event.camera \in Cameras /\ event.state \in InputState
  BY <1>1 DEF InputEvent
<1>3. /\ Silent(events, c) => Silent(events', c) /\ event.camera # c
      /\ \A s : LastReport(events, c, s) =>
           IF Silent(events', c) THEN event.camera = c /\ event.state = s
           ELSE LastReport(events', c, s)
  BY <1>0, TakesFirst
<1> HIDE DEF event
<1>4. event.camera # c => conn'[c] = conn[c]
  BY <1>0, <1>2
<1>5. event.camera = c => conn'[c] = event.state /\ conn[c] # "activating" /\ conn'[c] # "activating"
  BY <1>0, <1>2 DEF AcceptsInputState, InputState
<1> QED
  BY <1>0, <1>3, <1>4, <1>5 DEF InputFollowed, InputIs

\* Every step keeps all of it.
LEMMA FollowedStep ==
  TypeOK /\ ServedInv /\ FollowedInv /\ [Next]_vars => FollowedInv'
<1> SUFFICES ASSUME TypeOK, ServedInv, FollowedInv, [Next]_vars
             PROVE  FollowedInv'
  OBVIOUS
<1> USE DEF storeVars, mediaVars, taskVars
<1>0. conn \in [Cameras -> ConnState] /\ cameraTask \in [Cameras -> CameraState]
  BY DEF TypeOK, StoreTypeOK
<1>1. \A c \in Cameras : Leaving(c) => Leaving(c)'
  BY LeavingStays
<1>2. ASSUME NEW d \in Cameras, WorkerStep(d)
      PROVE  FollowedInv'
  <2>1. backend' = backend /\ backend \notin {"down", "failed"}
    BY <1>2, WorkerReports DEF TypeOK
  <2> QED
    BY <1>1, <1>2, <2>1, WorkerFollows DEF FollowedInv
<1>3. ASSUME NEW d \in Cameras, CameraStep(d)
      PROVE  FollowedInv'
  <2>1. backend \notin {"down", "failed"} /\ backend' \in {backend, "aborting"}
    BY <1>3 DEF CameraStep, Provision, PersistProvision, CameraDeferred, Revoke,
                PersistDeletion, Running
  <2> QED
    BY <1>1, <1>3, <2>1, CameraFollows DEF FollowedInv
<1>4. CASE ProcessEvent
  <2>1. backend = "up" /\ backend' \in {"up", "stopping"}
    BY <1>4 DEF ProcessEvent
  <2> QED
    BY <1>1, <1>4, <2>1, EventFollows DEF FollowedInv
<1>5. ASSUME backend' \in {"stopping"}
      PROVE  FollowedInv'
  BY <1>5 DEF FollowedInv
<1>6. CASE Startup
  <2>1. /\ backend \in {"down", "failed"} /\ UNCHANGED <<conn, deleting, provisioned, link, events>>
        /\ \/ backend' = "failed" /\ UNCHANGED cameraTask
           \/ backend' = "recovering" /\ cameraTask' = [c \in Cameras |-> PassTask(c, TRUE)]
    BY <1>6 DEF Startup
  <2>2. provisioned = {} /\ events = <<>> /\ cameraTask = IdleCameras
    BY <2>1 DEF FollowedInv
  <2>3. \A c \in Cameras : Silent(events, c)
    BY <2>2 DEF Silent
  <2>4. \A c \in Cameras : PassTask(c, TRUE) # "provisioned"
    BY DEF PassTask
  <2> QED
    BY <2>1, <2>2, <2>3, <2>4 DEF FollowedInv, InputFollowed
<1>7. CASE Serve
  <2>1. /\ backend = "recovering" /\ backend' = "up" /\ cameraTask = IdleCameras
        /\ UNCHANGED <<conn, deleting, provisioned, link, events, cameraTask>>
    BY <1>7 DEF Serve
  <2>2. \A c \in Cameras : cameraTask[c] = "idle"
    BY <2>1 DEF IdleCameras
  <2> QED
    BY <2>1, <2>2 DEF FollowedInv, InputFollowed, InputIs, Leaving
<1>8. CASE ListCameras
  <2>1. /\ backend = "up" /\ cameraTask = IdleCameras
        /\ cameraTask' = [c \in Cameras |-> PassTask(c, FALSE)]
        /\ UNCHANGED <<conn, deleting, provisioned, link, events, backend>>
    BY <1>8 DEF ListCameras
  <2>2. \A c \in Cameras :
          /\ cameraTask[c] = "idle" /\ cameraTask'[c] = PassTask(c, FALSE)
          /\ PassTask(c, FALSE) # "provisioned"
          /\ PassTask(c, FALSE) = "provision" => conn[c] = "activating"
    BY <2>1 DEF IdleCameras, PassTask
  <2> QED
    BY <2>1, <2>2 DEF FollowedInv, InputFollowed, InputIs, Leaving
<1>9. CASE Exit \/ Crash
  <2>1. /\ provisioned' = {} /\ events' = <<>> /\ cameraTask' = IdleCameras
        /\ backend' \in {"down", "failed"}
    BY <1>9 DEF Exit, Crash, MediaStops, TasksStop, Quiescent
  <2> QED
    BY <2>1 DEF FollowedInv
<1>10. ASSUME NEW d \in Cameras, CreateCamera(d)
       PROVE  FollowedInv'
  <2>1. /\ backend = "up" /\ conn[d] = "absent" /\ conn' = [conn EXCEPT ![d] = "activating"]
        /\ UNCHANGED <<deleting, provisioned, link, events, backend, cameraTask>>
    BY <1>10 DEF CreateCamera, InsertCamera
  <2>2. d \notin provisioned /\ cameraTask[d] # "provision"
    BY <2>1 DEF ServedInv, CameraServed, HasConnection
  <2>3. ASSUME NEW c \in Cameras, Leaving(c) \/ InputFollowed(c)
        PROVE  Leaving(c)' \/ InputFollowed(c)'
    BY <1>0, <2>1, <2>2, <2>3 DEF InputFollowed, InputIs, Leaving
  <2> QED
    BY <2>1, <2>3 DEF FollowedInv
<1>11. ASSUME NEW d \in Cameras, DeleteCamera(d)
       PROVE  FollowedInv'
  <2>1. /\ backend = "up"
        /\ UNCHANGED <<conn, provisioned, link, events, backend, cameraTask>>
    BY <1>11 DEF DeleteCamera, RequestDeletion
  <2> QED
    BY <1>1, <2>1 DEF FollowedInv, InputFollowed, InputIs
<1>12. CASE UNCHANGED <<conn, deleting, provisioned, link, events, backend, cameraTask>>
  BY <1>12 DEF FollowedInv, InputFollowed, InputIs, Leaving
<1>13. CASE Request
  BY <1>10, <1>11, <1>12, <1>13 DEF Request, StartTake, FinishTake
<1>14. ASSUME NEW t \in Takes, NEW d \in Cameras, RecordingStep(t, d) \/ EventConflicts(t, d)
       PROVE  FollowedInv'
  <2>1. \/ WorkerStep(d) \/ backend' = "stopping"
        \/ UNCHANGED <<conn, deleting, provisioned, link, events, backend, cameraTask>>
    BY <1>14 DEF RecordingStep, WorkerStep, PersistStart, PersistFinish, StorageAnswers,
                 UploadDeferred, PersistUpload, EventConflicts
  <2> QED
    BY <1>2, <1>5, <1>12, <2>1
<1>15. CASE Fault
  BY <1>5, <1>9, <1>12, <1>15 DEF Fault, AbandonStart, AbandonFinish, TransactionFails, Stop
<1>16. CASE ListUploads \/ UNCHANGED vars
  BY <1>12, <1>16 DEF ListUploads, vars
<1> QED
  BY <1>2, <1>3, <1>4, <1>6, <1>7, <1>8, <1>9, <1>13, <1>14, <1>15, <1>16
     DEF Next, Step, WorkerStep

\* The connection row of a camera follows its input, whatever passes, events, crashes
\* and requests come between (MediaCoordinator, CameraWorker): no saved provisioning
\* overwrites a change, and no change goes unreported.
THEOREM ConnectionsFollowInputs == Spec => []ConnectionFollowsInput
<1>1. Init => FollowedInv
  BY DEF Init, MediaInit, FollowedInv
<1>2. Spec => []FollowedInv
  BY <1>1, FollowedStep, TypeCorrect, ServedInvariant, PTL DEF Spec
<1>3. TypeOK /\ ServedInv /\ FollowedInv => ConnectionFollowsInput
  <2> SUFFICES ASSUME TypeOK, ServedInv, FollowedInv, backend = "up",
                      NEW c \in provisioned, conn[c] # "activating", c \notin deleting
               PROVE  IF Silent(events, c) THEN conn[c] = link[c]
                      ELSE LastReport(events, c, link[c])
    BY DEF ConnectionFollowsInput
  <2>1. c \in Cameras
    BY DEF TypeOK, MediaTypeOK
  <2>2. ~ Leaving(c)
    BY <2>1 DEF ServedInv, CameraServed, HasConnection, Leaving
  <2> QED
    BY <2>1, <2>2 DEF FollowedInv, InputFollowed, InputIs
<1> QED
  BY <1>2, <1>3, TypeCorrect, ServedInvariant, PTL
=============================================================================
