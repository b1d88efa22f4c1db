--------------------------- MODULE BackendProofs ---------------------------
(***************************************************************************)
(* Theorems about module Backend, for any sets of takes and cameras and    *)
(* any bound of the event channel: its types, that the rows of a take      *)
(* agree, that a requested deletion is final, that every row loads, and    *)
(* that the database implements the ledger of takes.                       *)
(***************************************************************************)
EXTENDS Backend, Records, TLAPS

-----------------------------------------------------------------------------
(* The transactions keep the types of the rows they change.                *)

\* Whatever the states of its videos, a finished take is uploading, completed
\* or errored.
LEMMA VerdictType ==
  ASSUME NEW videos
  PROVE  Verdict(videos) \in {"uploading", "completed", "errored"}
BY DEF Verdict

takeRowsTypeOK ==
  /\ take \in [Takes -> Phase]
  /\ row \in [Takes -> [Cameras -> RowState]]
  /\ video \in [Takes -> [Cameras -> VideoState]]

\* Saving well-formed rows and videos leaves well-formed rows.
LEMMA SaveTakesType ==
  ASSUME takeRowsTypeOK,
         NEW STATE rows, rows \in [Takes -> [Cameras -> RowState]],
         NEW STATE videos, videos \in [Takes -> [Cameras -> VideoState]],
         SaveTakes(rows, videos)
  PROVE  takeRowsTypeOK'
<1>1. \A t \in Takes : Verdict(videos[t]) \in Phase
  BY VerdictType DEF Phase
<1>2. video' \in [Takes -> [Cameras -> VideoState]]
  BY DEF SaveTakes
<1>3. take' \in [Takes -> Phase]
  BY <1>1 DEF SaveTakes, takeRowsTypeOK
<1>4. row' \in [Takes -> [Cameras -> RowState]]
  BY DEF SaveTakes, takeRowsTypeOK, RowState
<1> QED
  BY <1>2, <1>3, <1>4 DEF takeRowsTypeOK

\* A failed recording keeps the types, whether the transaction commits or not.
LEMMA PersistRecordingFailureType ==
  ASSUME takeRowsTypeOK,
         NEW t \in Takes, NEW c \in Cameras, NEW reason \in RowReason,
         PersistRecordingFailure(t, c, reason)
  PROVE  takeRowsTypeOK'
<1>1. CASE UNCHANGED takeRows
  BY <1>1 DEF takeRows, takeRowsTypeOK
<1>2. CASE SaveTakes(
             IF row[t][c] = "recording" THEN [row EXCEPT ![t][c] = reason] ELSE row,
             IF take[t] = "ongoing" THEN video ELSE [video EXCEPT ![t][c] = reason])
  <2> DEFINE rows ==
        IF row[t][c] = "recording" THEN [row EXCEPT ![t][c] = reason] ELSE row
      videos ==
        IF take[t] = "ongoing" THEN video ELSE [video EXCEPT ![t][c] = reason]
  <2>1. rows \in [Takes -> [Cameras -> RowState]]
    BY DEF takeRowsTypeOK, RowState
  <2>2. videos \in [Takes -> [Cameras -> VideoState]]
    BY DEF takeRowsTypeOK, VideoState, Reason
  <2>3. SaveTakes(rows, videos)
    BY <1>2
  <2> HIDE DEF rows, videos
  <2> QED
    BY <2>1, <2>2, <2>3, SaveTakesType
<1> QED
  BY <1>1, <1>2 DEF PersistRecordingFailure

\* The result of an upload is an outcome of the video.
LEMMA PersistUploadResultType ==
  ASSUME takeRowsTypeOK,
         NEW t \in Takes, NEW c \in Cameras, NEW outcome \in {"completed", "storage"},
         PersistUploadResult(t, c, outcome)
  PROVE  takeRowsTypeOK'
<1>1. CASE UNCHANGED takeRows
  BY <1>1 DEF takeRows, takeRowsTypeOK
<1>2. CASE SaveTakes(row, [video EXCEPT ![t][c] = outcome])
  <2>1. row \in [Takes -> [Cameras -> RowState]]
    BY DEF takeRowsTypeOK
  <2>2. [video EXCEPT ![t][c] = outcome] \in [Takes -> [Cameras -> VideoState]]
    BY DEF takeRowsTypeOK, VideoState, Reason
  <2> QED
    BY <1>2, <2>1, <2>2, SaveTakesType
<1> QED
  BY <1>1, <1>2 DEF PersistUploadResult

-----------------------------------------------------------------------------
(* Type correctness.                                                       *)

\* The components of the type invariant, one for each part of the state.
TasksTypeOK ==
  /\ startTask \in PerRecording(StartState)
  /\ finishTask \in PerRecording(FinishState)
  /\ uploadTask \in PerRecording(UploadState)
  /\ cameraTask \in [Cameras -> CameraState]

CamerasTypeOK ==
  /\ conn \in [Cameras -> ConnState]
  /\ deleting \subseteq Cameras

LEMMA TypeParts ==
  TypeOK <=> /\ takeRowsTypeOK /\ CamerasTypeOK /\ finalized \subseteq Takes \X Cameras
             /\ MediaTypeOK /\ TasksTypeOK
             /\ backend \in Life /\ stored \subseteq Takes \X Cameras
BY DEF TypeOK, StoreTypeOK, takeRowsTypeOK, CamerasTypeOK, TasksTypeOK

LEMMA TypeInit == Init => TypeOK
<1> SUFFICES ASSUME Init PROVE TypeOK
  OBVIOUS
<1> USE DEF Init
<1>1. takeRowsTypeOK /\ CamerasTypeOK /\ finalized \subseteq Takes \X Cameras
  BY DEF StoreInit, takeRowsTypeOK, CamerasTypeOK, Phase, RowState, VideoState, ConnState
<1>2. MediaTypeOK
  BY DEF MediaInit, MediaTypeOK, LinkState
<1>3. TasksTypeOK
  BY DEF TasksTypeOK, PerRecording, IdleRecordings, IdleCameras,
         StartState, FinishState, UploadState, CameraState
<1>4. backend \in Life /\ stored \subseteq Takes \X Cameras
  BY DEF Life
<1> QED
  BY <1>1, <1>2, <1>3, <1>4, TypeParts

\* A change of an input adds at most two well-formed events.
LEMMA EmitType ==
  ASSUME MediaTypeOK, NEW new \in Seq(InputEvent), Emit(new)
  PROVE  events' \in Seq(InputEvent)
BY DEF MediaTypeOK, Emit

LEMMA EventType ==
  ASSUME NEW c \in Cameras, NEW state \in InputState
  PROVE  Event(c, state) \in InputEvent
BY DEF Event, InputEvent

LEMMA FailureType ==
  ASSUME NEW c \in Cameras
  PROVE  Failure(c) \in Seq(InputEvent)
<1>1. Event(c, "errored") \in InputEvent
  BY EventType DEF InputState
<1> QED
  BY <1>1 DEF Failure

\* No input of a camera's worker breaks the types of the media server.
LEMMA InputType ==
  ASSUME MediaTypeOK, NEW c \in Cameras,
         \/ Packet(c) \/ PacketAfterOverflow(c) \/ WriteFails(c) \/ Disconnected(c)
         \/ Shutdown(c) \/ FinishAfterOverflow(c)
  PROVE  MediaTypeOK'
<1> DEFINE connected == Event(c, "connected")
           waiting   == Event(c, "waiting")
<1>1. connected \in InputEvent /\ waiting \in InputEvent /\ Failure(c) \in Seq(InputEvent)
  BY EventType, FailureType DEF InputState
<1> HIDE DEF connected, waiting
<1>2. <<connected>> \in Seq(InputEvent) /\ <<waiting>> \in Seq(InputEvent)
  BY <1>1
<1>3. Failure(c) \o <<connected>> \in Seq(InputEvent)
  BY <1>1, <1>2
<1>4. CASE Packet(c)
  <2>1. events' \in Seq(InputEvent)
    BY <1>4, <1>2, EmitType DEF Packet, connected
  <2> QED
    BY <1>4, <2>1 DEF Packet, MediaTypeOK, LinkState, InputState
<1>5. CASE PacketAfterOverflow(c)
  <2>1. events' \in Seq(InputEvent)
    BY <1>5, <1>3, EmitType DEF PacketAfterOverflow, connected
  <2> QED
    BY <1>5, <2>1 DEF PacketAfterOverflow, MediaTypeOK, LinkState, InputState
<1>6. CASE WriteFails(c) \/ FinishAfterOverflow(c)
  <2>1. events' \in Seq(InputEvent)
    BY <1>6, <1>1, EmitType DEF WriteFails, FinishAfterOverflow
  <2> QED
    BY <1>6, <2>1 DEF WriteFails, FinishAfterOverflow, MediaTypeOK, LinkState, InputState
<1>7. CASE Disconnected(c)
  <2>1. events' \in Seq(InputEvent)
    BY <1>7, <1>2, EmitType DEF Disconnected, waiting
  <2> QED
    BY <1>7, <2>1 DEF Disconnected, MediaTypeOK, LinkState, InputState
<1>8. CASE Shutdown(c)
  BY <1>8 DEF Shutdown, MediaTypeOK, LinkState
<1> QED
  BY <1>4, <1>5, <1>6, <1>7, <1>8

\* Neither does its answer to a request.
LEMMA AnswerType ==
  ASSUME MediaTypeOK, NEW c \in Cameras, NEW t \in Takes,
         \/ StartsRecording(t, c) \/ RefusesRecording
         \/ FinishesRecording(t, c) \/ FinishAfterOverflow(c) \/ HasNoRecording(t, c)
  PROVE  MediaTypeOK'
<1>1. CASE StartsRecording(t, c) \/ FinishesRecording(t, c)
  BY <1>1 DEF StartsRecording, FinishesRecording, MediaTypeOK
<1>2. CASE RefusesRecording \/ HasNoRecording(t, c)
  BY <1>2 DEF RefusesRecording, HasNoRecording, MediaTypeOK, mediaVars
<1> QED
  BY <1>1, <1>2, InputType

\* A step of the tasks of a recording keeps the types.
LEMMA RecordingStepType ==
  ASSUME TypeOK, NEW t \in Takes, NEW c \in Cameras, RecordingStep(t, c)
  PROVE  TypeOK'
<1> USE DEF TypeOK, StoreTypeOK, takeRowsTypeOK, PerRecording, storeVars, takeRows
<1>1. CASE WorkerStart(t, c)
  <2>1. MediaTypeOK'
    BY <1>1, AnswerType DEF WorkerStart
  <2> QED
    BY <1>1, <2>1 DEF WorkerStart, StartState
<1>2. CASE PersistStart(t, c)
  <2>1. takeRowsTypeOK'
    <3>1. CASE UNCHANGED takeRows
      BY <3>1
    <3>2. CASE PersistRecordingFailure(t, c, "media")
      BY <3>2, PersistRecordingFailureType DEF RowReason
    <3> QED
      BY <1>2, <3>1, <3>2 DEF PersistStart
  <2> QED
    BY <1>2, <2>1 DEF PersistStart, StartState, MediaTypeOK, mediaVars
<1>3. CASE WorkerFinish(t, c)
  <2>1. MediaTypeOK'
    BY <1>3, AnswerType DEF WorkerFinish
  <2> QED
    BY <1>3, <2>1 DEF WorkerFinish, FinishState
<1>4. CASE PersistFinish(t, c)
  <2>1. takeRowsTypeOK'
    <3>1. CASE UNCHANGED takeRows
      BY <3>1
    <3>2. CASE PersistRecordingFailure(t, c, "media")
      BY <3>2, PersistRecordingFailureType DEF RowReason
    <3> QED
      BY <1>4, <3>1, <3>2 DEF PersistFinish
  <2>2. (finalized \subseteq Takes \X Cameras)'
    BY <1>4 DEF PersistFinish, StageFinalizedRecording
  <2> QED
    BY <1>4, <2>1, <2>2 DEF PersistFinish, FinishState, MediaTypeOK, mediaVars
<1>5. CASE StorageAnswers(t, c) \/ UploadDeferred(t, c)
  <2>1. (stored \subseteq Takes \X Cameras)'
    <3>1. <<t, c>> \in Takes \X Cameras
      OBVIOUS
    <3>2. stored' \in {stored, stored \cup {<<t, c>>}}
      BY <1>5 DEF StorageAnswers, UploadDeferred
    <3>3. stored \subseteq Takes \X Cameras
      BY DEF TypeOK
    <3> HIDE DEF TypeOK
    <3> QED
      BY <3>1, <3>2, <3>3
  <2>2. (uploadTask \in [Takes -> [Cameras -> UploadState]])'
    <3>1. \E x \in UploadState : uploadTask' = [uploadTask EXCEPT ![t][c] = x]
      BY <1>5 DEF StorageAnswers, UploadDeferred, UploadState
    <3>2. uploadTask \in [Takes -> [Cameras -> UploadState]]
      BY DEF TypeOK
    <3> HIDE DEF TypeOK
    <3> QED
      BY <3>1, <3>2
  <2> QED
    BY <1>5, <2>1, <2>2 DEF StorageAnswers, UploadDeferred, MediaTypeOK, mediaVars
<1>6. CASE PersistUpload(t, c)
  <2>1. takeRowsTypeOK'
    BY <1>6, PersistUploadResultType DEF PersistUpload
  <2> QED
    BY <1>6, <2>1 DEF PersistUpload, UploadState, MediaTypeOK, mediaVars
<1> QED
  BY <1>1, <1>2, <1>3, <1>4, <1>5, <1>6 DEF RecordingStep

\* A step of a camera pass keeps the types.
LEMMA CameraStepType ==
  ASSUME TypeOK, NEW c \in Cameras, CameraStep(c)
  PROVE  TypeOK'
<1> USE DEF TypeOK, StoreTypeOK, CamerasTypeOK, takeRowsTypeOK, storeVars, takeRows,
            mediaVars
<1>1. CASE Provision(c)
  BY <1>1 DEF Provision, ProvisionCamera, CameraState, MediaTypeOK, LinkState, InputState
<1>2. CASE PersistProvision(c)
  <2>1. CamerasTypeOK'
    BY <1>2 DEF PersistProvision, SaveProvisioned, ConnState, InputState
  <2> QED
    BY <1>2, <2>1 DEF PersistProvision, CameraState, MediaTypeOK
<1>3. CASE CameraDeferred(c)
  BY <1>3 DEF CameraDeferred, CameraState, MediaTypeOK
<1>4. CASE Revoke(c)
  BY <1>4 DEF Revoke, RevokeCamera, CameraState, MediaTypeOK
<1>5. CASE PersistDeletion(c)
  <2>1. CamerasTypeOK'
    BY <1>5 DEF PersistDeletion, DeleteConnection, ConnState
  <2> QED
    BY <1>5, <2>1 DEF PersistDeletion, CameraState, MediaTypeOK, Life
<1> QED
  BY <1>1, <1>2, <1>3, <1>4, <1>5 DEF CameraStep

\* A request of a user keeps the types.
LEMMA RequestType ==
  ASSUME TypeOK, Request
  PROVE  TypeOK'
<1> USE DEF TypeOK, StoreTypeOK, takeRowsTypeOK, PerRecording, storeVars, takeRows,
            mediaVars, taskVars
<1>1. ASSUME NEW t \in Takes, NEW cs \in SUBSET Cameras, StartTake(t, cs)
      PROVE  TypeOK'
  BY <1>1 DEF StartTake, InsertOngoingTake, Phase, RowState, StartState,
              MediaTypeOK
<1>2. ASSUME NEW t \in Takes, FinishTake(t)
      PROVE  TypeOK'
  <2> DEFINE videos ==
        [video EXCEPT ![t] = [c \in Cameras |->
           IF row[t][c] = "recording" THEN "uploading" ELSE row[t][c]]]
  <2>1. videos \in [Takes -> [Cameras -> VideoState]]
    BY DEF VideoState, RowState, Reason
  <2>2. SaveTakes(row, videos)
    BY <1>2 DEF FinishTake, FinishOngoingTake
  <2> HIDE DEF videos
  <2>3. takeRowsTypeOK'
    BY <2>1, <2>2, SaveTakesType
  <2> QED
    BY <1>2, <2>3 DEF FinishTake, FinishState, MediaTypeOK
<1>3. ASSUME NEW c \in Cameras, CreateCamera(c)
      PROVE  TypeOK'
  BY <1>3 DEF CreateCamera, InsertCamera, ConnState, MediaTypeOK
<1>4. ASSUME NEW c \in Cameras, DeleteCamera(c)
      PROVE  TypeOK'
  <2> DEFINE videos == [t \in Takes |-> [d \in Cameras |->
        IF d = c /\ video[t][d] = "uploading" THEN "forced" ELSE video[t][d]]]
  <2>1. videos \in [Takes -> [Cameras -> VideoState]]
    BY DEF VideoState, Reason
  <2>2. SaveTakes(row, videos)
    BY <1>4 DEF DeleteCamera, RequestDeletion
  <2> HIDE DEF videos
  <2>3. takeRowsTypeOK'
    BY <2>1, <2>2, SaveTakesType
  <2> QED
    BY <1>4, <2>3 DEF DeleteCamera, RequestDeletion, MediaTypeOK
<1> QED
  BY <1>1, <1>2, <1>3, <1>4 DEF Request

\* Startup interrupts recordings, or leaves the rows alone.
LEMMA StartupType ==
  ASSUME TypeOK, Startup
  PROVE  TypeOK'
<1> USE DEF TypeOK, StoreTypeOK, takeRowsTypeOK, takeRows, mediaVars
<1>1. backend' \in Life
  BY DEF Startup, Life
<1>2. cameraTask' \in [Cameras -> CameraState]
  BY DEF Startup, PassTask, CameraState
<1>3. takeRowsTypeOK'
  <2> DEFINE rows == [t \in Takes |-> [c \in Cameras |->
               IF Active(t, c) THEN "interrupted" ELSE row[t][c]]]
             videos == [t \in Takes |-> [c \in Cameras |->
               IF Active(t, c) /\ take[t] # "ongoing" THEN "interrupted" ELSE video[t][c]]]
  <2>1. CASE UNCHANGED takeRows
    BY <2>1
  <2>2. CASE InterruptRecordings
    <3>1. rows \in [Takes -> [Cameras -> RowState]]
      BY DEF RowState, RowReason
    <3>2. videos \in [Takes -> [Cameras -> VideoState]]
      BY DEF VideoState, Reason, RowReason
    <3>3. SaveTakes(rows, videos)
      BY <2>2 DEF InterruptRecordings
    <3> HIDE DEF rows, videos
    <3> QED
      BY <3>1, <3>2, <3>3, SaveTakesType
  <2> QED
    BY <2>1, <2>2 DEF Startup
<1> QED
  BY <1>1, <1>2, <1>3 DEF Startup, PerRecording, MediaTypeOK

\* The transaction of an event keeps the types.
LEMMA ApplyInputStateType ==
  ASSUME takeRowsTypeOK, CamerasTypeOK,
         NEW c \in Cameras, NEW state \in InputState,
         ApplyInputState(c, state)
  PROVE  takeRowsTypeOK' /\ CamerasTypeOK'
<1>1. CamerasTypeOK'
  BY DEF ApplyInputState, CamerasTypeOK, ConnState
<1>2. CASE UNCHANGED takeRows
  BY <1>1, <1>2 DEF takeRowsTypeOK, takeRows
<1>3. ASSUME NEW t \in Takes, NEW reason \in RowReason, PersistRecordingFailure(t, c, reason)
      PROVE  takeRowsTypeOK'
  BY <1>3, PersistRecordingFailureType
<1> QED
  BY <1>1, <1>2, <1>3 DEF ApplyInputState, RowReason

\* An event that is processed, or fails to be, leaves the channel.
LEMMA EventStepType ==
  ASSUME TypeOK, ProcessEvent \/ \E t \in Takes, c \in Cameras : EventConflicts(t, c)
  PROVE  TypeOK'
<1> USE DEF TypeOK, StoreTypeOK, takeRowsTypeOK, takeRows, storeVars, taskVars
<1>1. events # <<>>
  BY DEF ProcessEvent, EventConflicts
<1>2. Head(events) \in InputEvent /\ Tail(events) \in Seq(InputEvent)
  BY <1>1 DEF MediaTypeOK
<1>3. MediaTypeOK'
  BY <1>2 DEF ProcessEvent, EventConflicts, MediaTypeOK
<1>4. CASE ProcessEvent
  <2>1. Head(events).camera \in Cameras /\ Head(events).state \in InputState
    BY <1>2 DEF InputEvent
  <2>2. takeRowsTypeOK' /\ CamerasTypeOK'
    <3>1. CASE ApplyInputState(Head(events).camera, Head(events).state)
      BY <2>1, <3>1, ApplyInputStateType DEF CamerasTypeOK
    <3>2. CASE UNCHANGED <<conn, deleting, takeRows>>
      BY <3>2 DEF CamerasTypeOK
    <3> QED
      BY <1>4, <3>1, <3>2 DEF ProcessEvent
  <2> QED
    BY <1>3, <1>4, <2>2 DEF ProcessEvent, CamerasTypeOK, Life, PerRecording
<1>5. ASSUME NEW t \in Takes, NEW c \in Cameras, EventConflicts(t, c)
      PROVE  TypeOK'
  <2>1. takeRowsTypeOK'
    BY <1>5, PersistRecordingFailureType DEF EventConflicts, RowReason
  <2> QED
    BY <1>3, <1>5, <2>1 DEF EventConflicts, Life, PerRecording, StartState
<1> QED
  BY <1>4, <1>5

\* What cuts the work short keeps the types.
LEMMA FaultType ==
  ASSUME TypeOK, Fault
  PROVE  TypeOK'
<1> USE DEF TypeOK, StoreTypeOK, takeRows, storeVars, taskVars, PerRecording
<1>1. ASSUME NEW t \in Takes, AbandonStart(t)
      PROVE  TypeOK'
  BY <1>1 DEF AbandonStart, Abandon, StartState, MediaTypeOK, mediaVars
<1>2. ASSUME NEW t \in Takes, AbandonFinish(t)
      PROVE  TypeOK'
  BY <1>2 DEF AbandonFinish, Abandon, FinishState, MediaTypeOK, mediaVars
<1>3. ASSUME NEW t \in Takes, NEW c \in Cameras, TransactionFails(t, c)
      PROVE  TypeOK'
  <2>1. UNCHANGED <<storeVars, mediaVars, uploadTask, cameraTask, backend, stored>>
    BY <1>3 DEF TransactionFails
  <2>2. startTask' \in PerRecording(StartState) /\ finishTask' \in PerRecording(FinishState)
    <3>1. CASE /\ startTask' = [startTask EXCEPT ![t][c] = "idle"]
               /\ UNCHANGED finishTask
      BY <3>1 DEF StartState
    <3>2. CASE /\ finishTask' = [finishTask EXCEPT ![t][c] = "idle"]
               /\ UNCHANGED startTask
      BY <3>2 DEF FinishState
    <3> QED
      BY <1>3, <3>1, <3>2 DEF TransactionFails
  <2> QED
    BY <2>1, <2>2 DEF MediaTypeOK, mediaVars
<1>4. CASE Stop
  BY <1>4 DEF Stop, Life, MediaTypeOK, mediaVars
<1>5. CASE Crash
  BY <1>5 DEF Crash, Life, MediaStops, MediaTypeOK, LinkState, TasksStop, IdleRecordings,
              IdleCameras, StartState, FinishState, UploadState, CameraState
<1> QED
  BY <1>1, <1>2, <1>3, <1>4, <1>5 DEF Fault

LEMMA TypeStep == TypeOK /\ [Next]_vars => TypeOK'
<1> SUFFICES ASSUME TypeOK, [Next]_vars PROVE TypeOK'
  OBVIOUS
<1> USE DEF TypeOK, StoreTypeOK, takeRows, storeVars, taskVars, PerRecording
<1>1. CASE Request
  BY <1>1, RequestType
<1>2. ASSUME NEW t \in Takes, NEW c \in Cameras, RecordingStep(t, c)
      PROVE  TypeOK'
  BY <1>2, RecordingStepType
<1>3. ASSUME NEW c \in Cameras, CameraStep(c)
      PROVE  TypeOK'
  BY <1>3, CameraStepType
<1>4. ASSUME NEW c \in Cameras, WorkerInput(c)
      PROVE  TypeOK'
  <2>1. MediaTypeOK'
    BY <1>4, InputType DEF WorkerInput
  <2> QED
    BY <1>4, <2>1 DEF WorkerInput
<1>5. CASE ListUploads
  BY <1>5 DEF ListUploads, UploadState, MediaTypeOK, mediaVars
<1>6. CASE ListCameras
  BY <1>6 DEF ListCameras, PassTask, CameraState, MediaTypeOK, mediaVars
<1>7. CASE ProcessEvent \/ \E t \in Takes, c \in Cameras : EventConflicts(t, c)
  BY <1>7, EventStepType
<1>8. CASE Startup
  BY <1>8, StartupType
<1>9. CASE Serve
  BY <1>9 DEF Serve, Life, MediaTypeOK, mediaVars
<1>10. CASE Exit
  BY <1>10 DEF Exit, Life, MediaStops, MediaTypeOK, LinkState
<1>11. CASE Fault
  BY <1>11, FaultType
<1>12. CASE UNCHANGED vars
  BY <1>12 DEF vars, MediaTypeOK, mediaVars
<1> QED
  BY <1>1, <1>2, <1>3, <1>4, <1>5, <1>6, <1>7, <1>8, <1>9, <1>10, <1>11, <1>12
     DEF Next, Step

\* Every state the backend reaches is well formed, for any takes and cameras.
THEOREM TypeCorrect == Spec => []TypeOK
<1> QED
  BY TypeInit, TypeStep, PTL DEF Spec

-----------------------------------------------------------------------------
(* The invariant, take by take: phase p, recording rows r and videos v.    *)

TakeInv(p, r, v) ==
  /\ p \in {"uploading", "completed", "errored"} <=> \E c \in Cameras : v[c] # "none"
  /\ p = "uploading" <=> \E c \in Cameras : v[c] = "uploading"
  /\ p = "completed" => \A c \in Cameras : v[c] \in {"none", "completed"}
  /\ p = "ongoing" => \E c \in Cameras : r[c] # "none"
  /\ p = "uploading" => \A c \in Cameras : r[c] = "none" <=> v[c] = "none"
  /\ p \notin {"ongoing", "uploading"} => \A c \in Cameras : r[c] = "none"
  /\ p = "uploading" => \A c \in Cameras : r[c] \in RowReason => v[c] = r[c]

TakesInv == \A t \in Takes : TakeInv(take[t], row[t], video[t])

\* What SaveTakes needs of the rows r and videos v of a take it changes.
MayConverge(r, v) ==
  /\ \E c \in Cameras : v[c] # "none"
  /\ \A c \in Cameras : r[c] = "none" <=> v[c] = "none"
  /\ \A c \in Cameras : r[c] \in RowReason => v[c] = r[c]

\* The invariant is the conjunction of three of the properties.
LEMMA TakesInvParts ==
  ASSUME TypeOK
  PROVE  TakesInv <=> TakeMatchesVideos /\ RowsUntilSettled /\ FailedRecordingFailsVideo
<1>1. \A t \in Takes : take[t] \in Phase
  BY DEF TypeOK, StoreTypeOK
<1>2. \A t \in Takes, c \in Cameras : row[t][c] = "none" => row[t][c] \notin RowReason
  BY DEF RowReason
<1> QED
  BY <1>1, <1>2 DEF TakesInv, TakeInv, TakeMatchesVideos, RowsUntilSettled,
                    FailedRecordingFailsVideo, Finished, Phase

\* A take that converges satisfies the invariant.
LEMMA ConvergedTake ==
  ASSUME NEW r, NEW v \in [Cameras -> VideoState], MayConverge(r, v)
  PROVE  TakeInv(Verdict(v),
                 IF Verdict(v) # "uploading" THEN [c \in Cameras |-> "none"] ELSE r, v)
<1>1. CASE \E c \in Cameras : v[c] = "uploading"
  <2>1. Verdict(v) = "uploading"
    BY <1>1 DEF Verdict
  <2> QED
    BY <1>1, <2>1 DEF TakeInv, MayConverge
<1>2. CASE \A c \in Cameras : v[c] # "uploading"
  <2>1. Verdict(v) \in {"completed", "errored"}
    BY <1>2 DEF Verdict
  <2>2. Verdict(v) = "completed" => \A c \in Cameras : v[c] \in {"none", "completed"}
    BY <1>2 DEF Verdict, VideoState
  <2> QED
    BY <1>2, <2>1, <2>2 DEF TakeInv, MayConverge
<1> QED
  BY <1>1, <1>2

\* SaveTakes keeps the invariant if the takes whose videos it leaves alone
\* keep it, and the others may converge.
LEMMA SaveTakesInv ==
  ASSUME takeRowsTypeOK,
         NEW STATE rows, rows \in [Takes -> [Cameras -> RowState]],
         NEW STATE videos, videos \in [Takes -> [Cameras -> VideoState]],
         SaveTakes(rows, videos),
         \A t \in Takes : videos[t] = video[t] => TakeInv(take[t], rows[t], video[t]),
         \A t \in Takes : videos[t] # video[t] => MayConverge(rows[t], videos[t])
  PROVE  TakesInv'
<1> SUFFICES ASSUME NEW t \in Takes
             PROVE  TakeInv(take'[t], row'[t], video'[t])
  BY DEF TakesInv
<1>1. CASE videos[t] = video[t]
  BY <1>1 DEF SaveTakes
<1>2. CASE videos[t] # video[t]
  <2>1. /\ video'[t] = videos[t]
        /\ take'[t] = Verdict(videos[t])
        /\ row'[t] = IF Verdict(videos[t]) # "uploading"
                     THEN [c \in Cameras |-> "none"] ELSE rows[t]
    BY <1>2 DEF SaveTakes
  <2> QED
    BY <1>2, <2>1, ConvergedTake
<1> QED
  BY <1>1, <1>2

-----------------------------------------------------------------------------
(* Each transaction keeps the invariant.                                   *)

LEMMA InsertOngoingTakeInv ==
  ASSUME takeRowsTypeOK, TakesInv,
         NEW t \in Takes, NEW cs \in (SUBSET Cameras) \ {{}}, InsertOngoingTake(t, cs)
  PROVE  TakesInv'
<1> SUFFICES ASSUME NEW u \in Takes
             PROVE  TakeInv(take'[u], row'[u], video[u])
  BY DEF TakesInv, InsertOngoingTake
<1>1. TakeInv(take[u], row[u], video[u])
  BY DEF TakesInv
<1>2. CASE u = t
  <2>1. take[t] = "absent" /\ take'[t] = "ongoing"
    BY DEF InsertOngoingTake, takeRowsTypeOK
  <2>2. row'[t] = [c \in Cameras |-> IF c \in cs THEN "recording" ELSE "none"]
    BY DEF InsertOngoingTake, takeRowsTypeOK
  <2>3. \E c \in Cameras : row'[t][c] # "none"
    <3>1. PICK c \in cs : c \in Cameras
      OBVIOUS
    <3> QED
      BY <2>2, <3>1
  <2> QED
    BY <1>1, <1>2, <2>1, <2>3 DEF TakeInv
<1>3. CASE u # t
  BY <1>1, <1>3 DEF InsertOngoingTake, takeRowsTypeOK
<1> QED
  BY <1>2, <1>3

LEMMA FinishOngoingTakeInv ==
  ASSUME takeRowsTypeOK, TakesInv, NEW t \in Takes, FinishOngoingTake(t)
  PROVE  TakesInv'
<1> DEFINE videos == [video EXCEPT ![t] = [c \in Cameras |->
                        IF row[t][c] = "recording" THEN "uploading" ELSE row[t][c]]]
<1>1. TakeInv("ongoing", row[t], video[t]) /\ take[t] = "ongoing"
  BY DEF TakesInv, FinishOngoingTake
<1>2. \A c \in Cameras : row[t][c] \in RowState /\ video[t][c] = "none"
  BY <1>1 DEF TakeInv, takeRowsTypeOK
<1>3. videos \in [Takes -> [Cameras -> VideoState]]
  BY <1>2 DEF takeRowsTypeOK, RowState, VideoState, Reason
<1>4. videos[t] = [c \in Cameras |->
                    IF row[t][c] = "recording" THEN "uploading" ELSE row[t][c]]
  BY DEF takeRowsTypeOK
<1>5. MayConverge(row[t], videos[t])
  <2> HIDE DEF videos
  <2>1. \E c \in Cameras : row[t][c] # "none"
    BY <1>1 DEF TakeInv
  <2>2. \A c \in Cameras : row[t][c] = "none" <=> videos[t][c] = "none"
    BY <1>4
  <2>3. \A c \in Cameras : row[t][c] \in RowReason => videos[t][c] = row[t][c]
    BY <1>4 DEF RowReason
  <2> QED
    BY <2>1, <2>2, <2>3 DEF MayConverge
<1>6. videos[t] # video[t]
  BY <1>2, <1>5 DEF MayConverge
<1>7. \A u \in Takes \ {t} : videos[u] = video[u]
  BY DEF takeRowsTypeOK
<1>8. SaveTakes(row, videos)
  BY DEF FinishOngoingTake
<1>9. row \in [Takes -> [Cameras -> RowState]]
  BY DEF takeRowsTypeOK
<1> HIDE DEF videos
<1> QED
  BY ZenonT(60), <1>3, <1>5, <1>6, <1>7, <1>8, <1>9, SaveTakesInv DEF TakesInv

\* A recording fails with its video, or before it has one.
LEMMA PersistRecordingFailureInv ==
  ASSUME takeRowsTypeOK, TakesInv,
         NEW t \in Takes, NEW c \in Cameras, NEW reason \in RowReason,
         PersistRecordingFailure(t, c, reason)
  PROVE  TakesInv'
<1>1. CASE UNCHANGED takeRows
  BY <1>1 DEF takeRows, TakesInv
<1>2. CASE ~ FailureConflicts(t, c, reason)
  <2> DEFINE rows == IF row[t][c] = "recording"
                     THEN [row EXCEPT ![t][c] = reason] ELSE row
             videos == IF take[t] = "ongoing"
                       THEN video ELSE [video EXCEPT ![t][c] = reason]
  <2>1. SaveTakes(rows, videos)
    BY <1>2 DEF PersistRecordingFailure
  <2>2. rows \in [Takes -> [Cameras -> RowState]]
    BY DEF takeRowsTypeOK, RowState
  <2>3. videos \in [Takes -> [Cameras -> VideoState]]
    BY DEF takeRowsTypeOK, VideoState, Reason
  <2>4. \A u \in Takes \ {t} : rows[u] = row[u] /\ videos[u] = video[u]
    BY DEF takeRowsTypeOK
  <2>5. \A d \in Cameras \ {c} : rows[t][d] = row[t][d] /\ videos[t][d] = video[t][d]
    BY DEF takeRowsTypeOK
  <2>6. rows[t][c] = IF row[t][c] = "recording" THEN reason ELSE row[t][c]
    BY DEF takeRowsTypeOK
  <2>7. videos[t][c] = IF take[t] = "ongoing" THEN video[t][c] ELSE reason
    BY DEF takeRowsTypeOK
  <2>8. TakeInv(take[t], row[t], video[t])
    BY DEF TakesInv
  <2>9. take[t] \in Phase /\ row[t][c] \in RowState
    BY DEF takeRowsTypeOK
  <2>10. reason # "none" /\ reason # "uploading" /\ reason # "recording"
    BY DEF RowReason
  <2>11. videos[t] = video[t] => TakeInv(take[t], rows[t], video[t])
    <3> HIDE DEF rows, videos
    <3> SUFFICES ASSUME videos[t] = video[t] PROVE TakeInv(take[t], rows[t], video[t])
      OBVIOUS
    <3>1. CASE rows[t][c] = row[t][c]
      BY ZenonT(60), <3>1, <2>2, <2>5, <2>8 DEF TakeInv, takeRowsTypeOK
    <3>2. CASE row[t][c] = "recording" /\ rows[t][c] = reason
      BY ZenonT(60), <3>2, <2>5, <2>7, <2>8, <2>9, <2>10 DEF TakeInv, Phase
    <3> QED
      BY <2>6, <3>1, <3>2
  <2>12. videos[t] # video[t] => MayConverge(rows[t], videos[t])
    <3> HIDE DEF rows, videos
    <3> SUFFICES ASSUME videos[t] # video[t] PROVE MayConverge(rows[t], videos[t])
      OBVIOUS
    <3>1. take[t] # "ongoing" /\ video[t][c] = "uploading"
      <4>1. videos[t][c] # video[t][c]
        BY <2>3, <2>5 DEF takeRowsTypeOK
      <4> QED
        BY <1>2, <2>7, <4>1 DEF FailureConflicts
    <3>2. take[t] = "uploading" /\ row[t][c] = "recording"
      <4>1. take[t] = "uploading"
        BY <2>8, <3>1 DEF TakeInv
      <4>2. row[t][c] # "none" /\ row[t][c] \notin RowReason
        BY <2>8, <3>1, <4>1 DEF TakeInv, RowReason
      <4> QED
        BY <2>9, <4>1, <4>2 DEF RowState
    <3>3. rows[t][c] = reason /\ videos[t][c] = reason
      BY <2>6, <2>7, <3>2
    <3> QED
      BY <2>5, <2>8, <2>10, <3>2, <3>3 DEF TakeInv, MayConverge
  <2> HIDE DEF rows, videos
  <2>13. \A u \in Takes : videos[u] = video[u] => TakeInv(take[u], rows[u], video[u])
    BY <2>4, <2>11 DEF TakesInv
  <2>14. \A u \in Takes : videos[u] # video[u] => MayConverge(rows[u], videos[u])
    BY <2>4, <2>12
  <2> QED
    BY <2>1, <2>2, <2>3, <2>13, <2>14, SaveTakesInv
<1> QED
  BY <1>1, <1>2 DEF PersistRecordingFailure
LEMMA PersistUploadResultInv ==
  ASSUME takeRowsTypeOK, TakesInv,
         NEW t \in Takes, NEW c \in Cameras, NEW outcome \in {"completed", "storage"},
         PersistUploadResult(t, c, outcome)
  PROVE  TakesInv'
<1>1. CASE UNCHANGED takeRows
  BY <1>1 DEF takeRows, TakesInv
<1>2. CASE <<t, c>> \in PendingUploads
  <2> DEFINE videos == [video EXCEPT ![t][c] = outcome]
  <2>1. SaveTakes(row, videos)
    BY <1>2 DEF PersistUploadResult
  <2>2. row \in [Takes -> [Cameras -> RowState]]
    BY DEF takeRowsTypeOK
  <2>3. videos \in [Takes -> [Cameras -> VideoState]]
    BY DEF takeRowsTypeOK, VideoState, Reason
  <2>4. \A u \in Takes \ {t} : videos[u] = video[u]
    BY DEF takeRowsTypeOK
  <2>5. videos[t][c] = outcome /\ \A d \in Cameras \ {c} : videos[t][d] = video[t][d]
    BY DEF takeRowsTypeOK
  <2>6. video[t][c] = "uploading"
    BY <1>2 DEF PendingUploads
  <2>7. MayConverge(row[t], videos[t])
    <3> HIDE DEF videos
    <3>1. TakeInv(take[t], row[t], video[t]) /\ take[t] = "uploading"
      BY <2>6 DEF TakesInv, TakeInv
    <3>2. row[t][c] \notin RowReason
      BY <2>6, <3>1 DEF TakeInv, RowReason
    <3> QED
      BY <2>5, <2>6, <3>1, <3>2 DEF TakeInv, MayConverge
  <2>8. videos[t] # video[t]
    BY <2>5, <2>6
  <2> HIDE DEF videos
  <2> QED
    BY ZenonT(60), <2>1, <2>2, <2>3, <2>4, <2>7, <2>8, SaveTakesInv DEF TakesInv
<1> QED
  BY <1>1, <1>2 DEF PersistUploadResult

\* A forced deletion fails the uploading videos of a camera, whose rows are
\* still recording.
LEMMA RequestDeletionInv ==
  ASSUME takeRowsTypeOK, TakesInv,
         NEW c \in Cameras, NEW force \in BOOLEAN, RequestDeletion(c, force)
  PROVE  TakesInv'
<1> DEFINE videos == [t \in Takes |-> [d \in Cameras |->
              IF d = c /\ video[t][d] = "uploading" THEN "forced" ELSE video[t][d]]]
<1>1. SaveTakes(row, videos)
  BY DEF RequestDeletion
<1>2. row \in [Takes -> [Cameras -> RowState]]
  BY DEF takeRowsTypeOK
<1>3. videos \in [Takes -> [Cameras -> VideoState]]
  BY DEF takeRowsTypeOK, VideoState, Reason
<1>4. \A t \in Takes : videos[t] # video[t] => MayConverge(row[t], videos[t])
  <2> SUFFICES ASSUME NEW t \in Takes, videos[t] # video[t]
               PROVE  MayConverge(row[t], videos[t])
    OBVIOUS
  <2>1. video[t] \in [Cameras -> VideoState] /\ videos[t] \in [Cameras -> VideoState]
    BY <1>3 DEF takeRowsTypeOK
  <2>2. \A d \in Cameras :
          videos[t][d] = IF d = c /\ video[t][d] = "uploading"
                         THEN "forced" ELSE video[t][d]
    OBVIOUS
  <2>3. \E d \in Cameras : video[t][d] = "uploading"
    <3> HIDE DEF videos
    <3>1. PICK d \in Cameras : videos[t][d] # video[t][d]
      BY <2>1
    <3> QED
      BY <2>2, <3>1
  <2>4. TakeInv(take[t], row[t], video[t]) /\ take[t] = "uploading"
    BY <2>3 DEF TakesInv, TakeInv
  <2> HIDE DEF videos
  <2>5. \A d \in Cameras : row[t][d] \in RowReason => videos[t][d] = row[t][d]
    BY <2>2, <2>4 DEF TakeInv, RowReason
  <2>6. \A d \in Cameras : row[t][d] = "none" <=> videos[t][d] = "none"
    BY <2>2, <2>4 DEF TakeInv
  <2>7. \E d \in Cameras : videos[t][d] # "none"
    BY <2>2, <2>3
  <2> QED
    BY <2>5, <2>6, <2>7 DEF MayConverge
<1> HIDE DEF videos
<1> QED
  BY <1>1, <1>2, <1>3, <1>4, SaveTakesInv DEF TakesInv

\* Recovery fails every active recording, with its video or before it has one.
LEMMA InterruptRecordingsInv ==
  ASSUME takeRowsTypeOK, TakesInv, ~ RecoveryConflicts, InterruptRecordings
  PROVE  TakesInv'
<1> DEFINE rows   == [t \in Takes |-> [c \in Cameras |->
                        IF Active(t, c) THEN "interrupted" ELSE row[t][c]]]
           videos == [t \in Takes |-> [c \in Cameras |->
                        IF Active(t, c) /\ take[t] # "ongoing"
                        THEN "interrupted" ELSE video[t][c]]]
<1>1. SaveTakes(rows, videos)
  BY DEF InterruptRecordings
<1>2. rows \in [Takes -> [Cameras -> RowState]]
  BY DEF takeRowsTypeOK, RowState, RowReason
<1>3. videos \in [Takes -> [Cameras -> VideoState]]
  BY DEF takeRowsTypeOK, VideoState, Reason, RowReason
<1>4. \A t \in Takes, c \in Cameras :
        /\ rows[t][c] = IF row[t][c] = "recording" THEN "interrupted" ELSE row[t][c]
        /\ videos[t][c] = IF row[t][c] = "recording" /\ take[t] # "ongoing"
                          THEN "interrupted" ELSE video[t][c]
  BY DEF Active
<1>5. \A t \in Takes, c \in Cameras :
        row[t][c] = "recording" /\ take[t] # "ongoing"
          => video[t][c] \in {"uploading", "interrupted"}
  BY DEF RecoveryConflicts, Active, FailureConflicts
<1>6. row \in [Takes -> [Cameras -> RowState]] /\ video \in [Takes -> [Cameras -> VideoState]]
  BY DEF takeRowsTypeOK
<1> HIDE DEF rows, videos
<1>7. ASSUME NEW t \in Takes, videos[t] = video[t]
      PROVE  TakeInv(take[t], rows[t], video[t])
  <2>1. TakeInv(take[t], row[t], video[t])
    BY DEF TakesInv
  <2>2. \A c \in Cameras : row[t][c] = "recording" /\ take[t] # "ongoing"
                             => video[t][c] = "interrupted"
    BY <1>4, <1>7
  <2>3. \A c \in Cameras : rows[t][c] = "none" <=> row[t][c] = "none"
    BY <1>4
  <2>4. take[t] = "uploading" =>
          \A c \in Cameras : rows[t][c] \in RowReason => video[t][c] = rows[t][c]
    BY <1>4, <2>1, <2>2 DEF TakeInv
  <2> QED
    BY <2>1, <2>3, <2>4 DEF TakeInv
<1>8. ASSUME NEW t \in Takes, videos[t] # video[t]
      PROVE  MayConverge(rows[t], videos[t])
  <2>1. TakeInv(take[t], row[t], video[t])
    BY DEF TakesInv
  <2>2. PICK c \in Cameras : row[t][c] = "recording" /\ take[t] # "ongoing"
    <3>1. PICK c \in Cameras : videos[t][c] # video[t][c]
      BY <1>3, <1>6, <1>8
    <3> QED
      BY <1>4, <3>1
  <2>3. take[t] = "uploading"
    BY <2>1, <2>2 DEF TakeInv
  <2>4. \A d \in Cameras : rows[t][d] = "none" <=> videos[t][d] = "none"
    BY <1>4, <2>1, <2>3 DEF TakeInv
  <2>5. \A d \in Cameras : rows[t][d] \in RowReason => videos[t][d] = rows[t][d]
    BY <1>4, <2>1, <2>3 DEF TakeInv
  <2>6. \E d \in Cameras : videos[t][d] # "none"
    BY <1>4, <2>2
  <2> QED
    BY <2>4, <2>5, <2>6 DEF MayConverge
<1> QED
  BY <1>1, <1>2, <1>3, <1>7, <1>8, SaveTakesInv
-----------------------------------------------------------------------------
(* The theorems.                                                           *)

\* start_take changes no connection.
StartsTake(t, cs) == InsertOngoingTake(t, cs) /\ UNCHANGED <<conn, deleting>>

\* An upload is saved as completed by a task that the storage has answered so.
PersistsUpload(t, c, outcome) ==
  PersistUploadResult(t, c, outcome) /\ (outcome = "completed" => uploadTask[t][c] = "completed")

\* Recovery comes before the backend serves.
Recovers == backend # "up" /\ ~ RecoveryConflicts /\ InterruptRecordings

\* A step changes the rows of takes in one of six transactions, or not at all.
LEMMA TakeTransactions ==
  ASSUME TypeOK, [Next]_vars
  PROVE  \/ UNCHANGED takeRows
         \/ \E t \in Takes, cs \in (SUBSET Cameras) \ {{}} : StartsTake(t, cs)
         \/ \E t \in Takes : FinishTake(t)
         \/ \E t \in Takes, c \in Cameras, reason \in RowReason :
              PersistRecordingFailure(t, c, reason)
         \/ \E t \in Takes, c \in Cameras, outcome \in {"completed", "storage"} :
              PersistsUpload(t, c, outcome)
         \/ \E c \in Cameras, force \in BOOLEAN : RequestDeletion(c, force)
         \/ Recovers
<1> USE DEF storeVars, takeRows
<1>1. CASE Request
  <2>1. CASE \E c \in Cameras : CreateCamera(c)
    BY <2>1 DEF CreateCamera
  <2>2. CASE \E t \in Takes, cs \in (SUBSET Cameras) \ {{}} : StartTake(t, cs)
    BY <2>2 DEF StartTake, StartsTake
  <2>3. CASE \E t \in Takes : FinishTake(t)
    BY <2>3
  <2>4. CASE \E c \in Cameras : DeleteCamera(c)
    BY <2>4 DEF DeleteCamera
  <2> QED
    BY <1>1, <2>1, <2>2, <2>3, <2>4 DEF Request
<1>2. ASSUME NEW t \in Takes, NEW c \in Cameras, RecordingStep(t, c)
      PROVE  \/ UNCHANGED takeRows
             \/ PersistRecordingFailure(t, c, "media")
             \/ \E outcome \in {"completed", "storage"} : PersistsUpload(t, c, outcome)
  BY <1>2 DEF PersistsUpload, RecordingStep, WorkerStart, PersistStart, WorkerFinish, PersistFinish,
              StorageAnswers, UploadDeferred, PersistUpload
<1>3. ASSUME NEW c \in Cameras, CameraStep(c) \/ WorkerInput(c)
      PROVE  UNCHANGED takeRows
  BY <1>3 DEF CameraStep, Provision, PersistProvision, CameraDeferred, Revoke,
              PersistDeletion, WorkerInput
<1>4. CASE ListUploads \/ ListCameras \/ Serve \/ Exit \/ UNCHANGED vars
  BY <1>4 DEF ListUploads, ListCameras, Serve, Exit, vars
<1>5. CASE ProcessEvent
  <2>1. Head(events).camera \in Cameras
    <3>1. events \in Seq(InputEvent) /\ events # <<>>
      BY <1>5 DEF TypeOK, MediaTypeOK, ProcessEvent
    <3>2. Head(events) \in InputEvent
      BY <3>1
    <3> QED
      BY <3>2 DEF InputEvent
  <2>2. \/ UNCHANGED takeRows
        \/ \E t \in Takes, reason \in {"disconnected", "input"} :
             PersistRecordingFailure(t, Head(events).camera, reason)
    BY <1>5 DEF ProcessEvent, ApplyInputState
  <2> QED
    BY <2>1, <2>2 DEF RowReason
<1>6. ASSUME NEW t \in Takes, NEW c \in Cameras, EventConflicts(t, c)
      PROVE  PersistRecordingFailure(t, c, "media")
  BY <1>6 DEF EventConflicts
<1>7. CASE Startup
  BY <1>7 DEF Startup, Recovers
<1>8. CASE Fault
  BY <1>8 DEF Fault, AbandonStart, AbandonFinish, TransactionFails, Stop, Crash
<1>9. "media" \in RowReason
  BY DEF RowReason
<1> QED
  BY <1>1, <1>2, <1>3, <1>4, <1>5, <1>6, <1>7, <1>8, <1>9 DEF Next, Step

LEMMA TakesInvStep == TypeOK /\ TakesInv /\ [Next]_vars => TakesInv'
<1> SUFFICES ASSUME TypeOK, TakesInv, [Next]_vars PROVE TakesInv'
  OBVIOUS
<1>1. takeRowsTypeOK
  BY DEF TypeOK, StoreTypeOK, takeRowsTypeOK
<1>2. CASE UNCHANGED takeRows
  BY <1>2 DEF takeRows, TakesInv
<1> QED
  BY <1>1, <1>2, TakeTransactions, InsertOngoingTakeInv, FinishOngoingTakeInv,
     PersistRecordingFailureInv, PersistUploadResultInv, RequestDeletionInv,
     InterruptRecordingsInv DEF StartsTake, FinishTake, PersistsUpload, Recovers

LEMMA TakesInvInit == Init => TakesInv
<1> SUFFICES ASSUME Init, NEW t \in Takes
             PROVE  TakeInv(take[t], row[t], video[t])
  BY DEF TakesInv
<1>1. take[t] = "absent" /\ \A c \in Cameras : row[t][c] = "none" /\ video[t][c] = "none"
  BY DEF Init, StoreInit
<1> QED
  BY <1>1 DEF TakeInv, RowReason

\* In every reachable state the phase, the rows and the videos of every take
\* agree, whatever transactions settled its videos, in whatever order.
THEOREM TakesConsistent == Spec => []TakeRowsAgree
<1>1. Spec => []TypeOK
  BY TypeCorrect
<1>2. Spec => [](TypeOK /\ TakesInv)
  BY <1>1, TakesInvInit, TakesInvStep, PTL DEF Spec
<1>3. TypeOK /\ TakesInv => TakeRowsAgree
  BY TakesInvParts DEF TakeRowsAgree
<1> QED
  BY <1>2, <1>3, PTL

-----------------------------------------------------------------------------
\* A connection is deleted by the pass that has revoked its camera.
DeletesConnection(c) == DeleteConnection(c) /\ cameraTask[c] = "revoked"

\* A step that changes a connection is one of five transactions.
LEMMA ConnectionTransactions ==
  ASSUME TypeOK, [Next]_vars
  PROVE  \/ UNCHANGED <<conn, deleting>>
         \/ \E c \in Cameras : InsertCamera(c)
         \/ \E c \in Cameras, force \in BOOLEAN : RequestDeletion(c, force)
         \/ \E c \in Cameras : DeletesConnection(c)
         \/ \E c \in Cameras : SaveProvisioned(c)
         \/ \E c \in Cameras, state \in InputState :
              AcceptsInputState(c) /\ ApplyInputState(c, state)
<1> USE DEF storeVars
<1>1. CASE Request
  BY <1>1 DEF Request, CreateCamera, DeleteCamera, StartTake, FinishTake
<1>2. ASSUME NEW t \in Takes, NEW c \in Cameras, RecordingStep(t, c) \/ EventConflicts(t, c)
      PROVE  UNCHANGED <<conn, deleting>>
  BY <1>2 DEF RecordingStep, WorkerStart, PersistStart, WorkerFinish, PersistFinish,
              StorageAnswers, UploadDeferred, PersistUpload, EventConflicts
<1>3. ASSUME NEW c \in Cameras, CameraStep(c) \/ WorkerInput(c)
      PROVE  UNCHANGED <<conn, deleting>> \/ DeletesConnection(c) \/ SaveProvisioned(c)
  BY <1>3 DEF DeletesConnection, CameraStep, Provision, PersistProvision, CameraDeferred, Revoke,
              PersistDeletion, WorkerInput
<1>4. CASE ListUploads \/ ListCameras \/ Serve \/ Exit \/ Startup \/ UNCHANGED vars
  BY <1>4 DEF ListUploads, ListCameras, Serve, Exit, Startup, vars
<1>5. CASE ProcessEvent
  <2>1. Head(events) \in InputEvent
    BY <1>5 DEF TypeOK, MediaTypeOK, ProcessEvent
  <2>2. Head(events).camera \in Cameras /\ Head(events).state \in InputState
    BY <2>1 DEF InputEvent
  <2> QED
    BY <1>5, <2>2 DEF ProcessEvent
<1>6. CASE Fault
  BY <1>6 DEF Fault, AbandonStart, AbandonFinish, TransactionFails, Stop, Crash
<1> QED
  BY <1>1, <1>2, <1>3, <1>4, <1>5, <1>6 DEF Next, Step

\* Every step keeps a requested or done deletion.
LEMMA DeletionStep ==
  ASSUME TypeOK, [Next]_vars, NEW c \in Cameras
  PROVE  /\ c \in deleting => c \in deleting' \/ conn'[c] = "deleted"
         /\ conn[c] = "deleted" => conn'[c] = "deleted"
<1>1. conn \in [Cameras -> ConnState]
  BY DEF TypeOK, StoreTypeOK
<1>2. CASE UNCHANGED <<conn, deleting>>
  BY <1>2
<1>3. ASSUME NEW d \in Cameras, InsertCamera(d)
      PROVE  deleting' = deleting /\ (conn[c] = "deleted" => conn'[c] = "deleted")
  BY <1>1, <1>3 DEF InsertCamera
<1>4. ASSUME NEW d \in Cameras, NEW force \in BOOLEAN, RequestDeletion(d, force)
      PROVE  conn' = conn /\ deleting \subseteq deleting'
  BY <1>4 DEF RequestDeletion
<1>5. ASSUME NEW d \in Cameras, DeleteConnection(d)
      PROVE  /\ c \in deleting => c \in deleting' \/ conn'[c] = "deleted"
             /\ conn[c] = "deleted" => conn'[c] = "deleted"
  BY <1>1, <1>5 DEF DeleteConnection
<1>6. ASSUME NEW d \in Cameras, SaveProvisioned(d)
      PROVE  deleting' = deleting /\ (conn[c] = "deleted" => conn'[c] = "deleted")
  BY <1>1, <1>6 DEF SaveProvisioned, HasConnection
<1>7. ASSUME NEW d \in Cameras, NEW state \in InputState,
             AcceptsInputState(d) /\ ApplyInputState(d, state)
      PROVE  deleting' = deleting /\ (conn[c] = "deleted" => conn'[c] = "deleted")
  BY <1>1, <1>7 DEF ApplyInputState, AcceptsInputState, HasConnection
<1> QED
  BY <1>2, <1>3, <1>4, <1>5, <1>6, <1>7, ConnectionTransactions DEF DeletesConnection

\* A requested deletion is never taken back and a deleted camera never comes
\* back, whatever provisioning, event or request is applied after it.
THEOREM DeletionStaysFinal == Spec => DeletionIsFinal
<1>1. TypeOK /\ [Next]_vars
        => \A c \in Cameras :
             /\ c \in deleting => c \in deleting' \/ conn'[c] = "deleted"
             /\ conn[c] = "deleted" => conn'[c] = "deleted"
  BY DeletionStep
<1>2. Spec => []TypeOK
  BY TypeCorrect
<1> QED
  BY <1>1, <1>2, PTL DEF Spec, DeletionIsFinal

-----------------------------------------------------------------------------
(* Recordings pin connections.                                             *)

\* At most one take is ongoing (takes_one_ongoing_unique).
OneOngoing == \A t, u \in Takes : take[t] = "ongoing" /\ take[u] = "ongoing" => t = u

\* SaveTakes makes no take ongoing, and gives no take a row beyond rows.
LEMMA SaveTakesShrinks ==
  ASSUME NEW rows, NEW videos, SaveTakes(rows, videos), NEW t \in Takes
  PROVE  /\ take'[t] = "ongoing" => take[t] = "ongoing"
         /\ \A c \in Cameras : row'[t][c] # "none" => rows[t][c] # "none"
BY DEF SaveTakes, Verdict

\* Only start_take makes a take ongoing or adds a row to a take.
LEMMA OnlyStartAdds ==
  ASSUME TypeOK, [Next]_vars, NEW t \in Takes,
         \A u \in Takes, cs \in (SUBSET Cameras) \ {{}} : ~ StartsTake(u, cs)
  PROVE  /\ take'[t] = "ongoing" => take[t] = "ongoing"
         /\ \A c \in Cameras : row'[t][c] # "none" => row[t][c] # "none"
<1>0. row \in [Takes -> [Cameras -> RowState]]
  BY DEF TypeOK, StoreTypeOK
<1>1. CASE UNCHANGED takeRows
  BY <1>1 DEF takeRows
<1>2. ASSUME NEW u \in Takes, FinishOngoingTake(u)
      PROVE  /\ take'[t] = "ongoing" => take[t] = "ongoing"
             /\ \A c \in Cameras : row'[t][c] # "none" => row[t][c] # "none"
  BY <1>2, SaveTakesShrinks DEF FinishOngoingTake
<1>3. ASSUME NEW u \in Takes, NEW d \in Cameras, NEW reason \in RowReason,
             PersistRecordingFailure(u, d, reason)
      PROVE  /\ take'[t] = "ongoing" => take[t] = "ongoing"
             /\ \A c \in Cameras : row'[t][c] # "none" => row[t][c] # "none"
  <2> DEFINE rows == IF row[u][d] = "recording" THEN [row EXCEPT ![u][d] = reason] ELSE row
             videos == IF take[u] = "ongoing" THEN video ELSE [video EXCEPT ![u][d] = reason]
  <2>1. CASE UNCHANGED takeRows
    BY <2>1, <1>1
  <2>2. CASE SaveTakes(rows, videos)
    <3>1. \A c \in Cameras : rows[t][c] # "none" => row[t][c] # "none"
      BY <1>0
    <3> HIDE DEF rows, videos
    <3> QED
      BY <2>2, <3>1, SaveTakesShrinks
  <2> QED
    BY <1>3, <2>1, <2>2 DEF PersistRecordingFailure
<1>4. ASSUME NEW u \in Takes, NEW d \in Cameras, NEW outcome \in {"completed", "storage"},
             PersistUploadResult(u, d, outcome)
      PROVE  /\ take'[t] = "ongoing" => take[t] = "ongoing"
             /\ \A c \in Cameras : row'[t][c] # "none" => row[t][c] # "none"
  BY <1>1, <1>4, SaveTakesShrinks DEF PersistUploadResult
<1>5. ASSUME NEW d \in Cameras, NEW force \in BOOLEAN, RequestDeletion(d, force)
      PROVE  /\ take'[t] = "ongoing" => take[t] = "ongoing"
             /\ \A c \in Cameras : row'[t][c] # "none" => row[t][c] # "none"
  BY <1>5, SaveTakesShrinks DEF RequestDeletion
<1>6. ASSUME InterruptRecordings
      PROVE  /\ take'[t] = "ongoing" => take[t] = "ongoing"
             /\ \A c \in Cameras : row'[t][c] # "none" => row[t][c] # "none"
  <2> DEFINE rows == [u \in Takes |-> [d \in Cameras |->
                        IF Active(u, d) THEN "interrupted" ELSE row[u][d]]]
             videos == [u \in Takes |-> [d \in Cameras |->
                          IF Active(u, d) /\ take[u] # "ongoing" THEN "interrupted"
                          ELSE video[u][d]]]
  <2>1. \A c \in Cameras : rows[t][c] # "none" => row[t][c] # "none"
    BY DEF Active
  <2>2. SaveTakes(rows, videos)
    BY <1>6 DEF InterruptRecordings
  <2> HIDE DEF rows, videos
  <2> QED
    BY <2>1, <2>2, SaveTakesShrinks
<1> QED
  BY <1>1, <1>2, <1>3, <1>4, <1>5, <1>6, TakeTransactions
  DEF FinishTake, PersistsUpload, Recovers

\* The invariant holds in every reachable state, and with it at most one take is
\* ongoing.
LEMMA PinsInvariant == Spec => [](RecordingPinsConnection /\ OneOngoing)
<1>1. Init => RecordingPinsConnection /\ OneOngoing
  BY DEF Init, StoreInit, RecordingPinsConnection, OneOngoing
<1>2. TypeOK /\ RecordingPinsConnection /\ OneOngoing /\ [Next]_vars
        => RecordingPinsConnection' /\ OneOngoing'
  <2> SUFFICES ASSUME TypeOK, RecordingPinsConnection, OneOngoing, [Next]_vars
               PROVE  RecordingPinsConnection' /\ OneOngoing'
    OBVIOUS
  <2>0. conn \in [Cameras -> ConnState] /\ row \in [Takes -> [Cameras -> RowState]]
        /\ take \in [Takes -> Phase]
    BY DEF TypeOK, StoreTypeOK
  <2>1. ASSUME NEW u \in Takes, NEW cs \in (SUBSET Cameras) \ {{}}, StartsTake(u, cs)
        PROVE  RecordingPinsConnection' /\ OneOngoing'
    <3>1. conn' = conn /\ deleting' = deleting
      BY <2>1 DEF StartsTake
    <3>2. OneOngoing'
      BY <2>0, <2>1 DEF StartsTake, InsertOngoingTake, OneOngoing
    <3>3. RecordingPinsConnection'
      BY <2>0, <2>1, <3>1 DEF StartsTake, InsertOngoingTake, RecordingPinsConnection, HasConnection
    <3> QED
      BY <3>2, <3>3
  <2>2. CASE \A u \in Takes, cs \in (SUBSET Cameras) \ {{}} : ~ StartsTake(u, cs)
    <3>1. \A t \in Takes :
             /\ take'[t] = "ongoing" => take[t] = "ongoing"
             /\ \A c \in Cameras : row'[t][c] # "none" => row[t][c] # "none"
      BY <2>2, OnlyStartAdds
    <3>2. OneOngoing'
      BY <3>1 DEF OneOngoing
    <3>3. ASSUME NEW t \in Takes, NEW c \in Cameras, row'[t][c] # "none"
          PROVE  /\ HasConnection(c)'
                 /\ take'[t] = "ongoing" => c \notin deleting'
      <4>1. row[t][c] # "none" /\ HasConnection(c)
            /\ (take[t] = "ongoing" => c \notin deleting)
        BY <3>1, <3>3 DEF RecordingPinsConnection
      <4>2. ASSUME NEW d \in Cameras, InsertCamera(d)
            PROVE  HasConnection(c)' /\ deleting' = deleting
        BY <2>0, <4>1, <4>2 DEF InsertCamera, HasConnection
      <4>3. ASSUME NEW d \in Cameras, NEW force \in BOOLEAN, RequestDeletion(d, force)
            PROVE  /\ HasConnection(c)'
                   /\ take[t] = "ongoing" => c \notin deleting'
        BY <4>1, <4>3 DEF RequestDeletion, HasConnection
      <4>4. ASSUME NEW d \in Cameras, DeleteConnection(d)
            PROVE  HasConnection(c)' /\ deleting' \subseteq deleting
        BY <2>0, <4>1, <4>4 DEF DeleteConnection, Referenced, HasConnection
      <4>5. ASSUME NEW d \in Cameras, SaveProvisioned(d)
            PROVE  HasConnection(c)' /\ deleting' = deleting
        BY <2>0, <4>1, <4>5 DEF SaveProvisioned, HasConnection
      <4>6. ASSUME NEW d \in Cameras, NEW state \in InputState, ApplyInputState(d, state)
            PROVE  HasConnection(c)' /\ deleting' = deleting
        BY <2>0, <4>1, <4>6 DEF ApplyInputState, HasConnection, InputState
      <4>7. UNCHANGED <<conn, deleting>> => HasConnection(c)' /\ deleting' = deleting
        BY <4>1 DEF HasConnection
      <4> QED
        BY <3>1, <4>1, <4>2, <4>3, <4>4, <4>5, <4>6, <4>7, ConnectionTransactions
           DEF DeletesConnection
    <3> QED
      BY <3>2, <3>3 DEF RecordingPinsConnection
  <2> QED
    BY <2>1, <2>2
<1> QED
  BY <1>1, <1>2, TypeCorrect, PTL DEF Spec

\* A recording pins the connection of its camera in every reachable state: no
\* deletion removes the connection before the row, and none is even requested for
\* a camera of the ongoing take (delete_camera, delete_camera_connection).
THEOREM RecordingsPinConnections == Spec => []RecordingPinsConnection
BY PinsInvariant, PTL

-----------------------------------------------------------------------------
(* The rows load.                                                          *)

\* A state of a recording, a video or a connection is kept by its columns, which
\* satisfy the constraints of their table.
LEMMA ColumnsLoad ==
  /\ \A state \in RowState \ {"none"} :
       LET columns == RecordingColumns(state)
       IN ErrorValid(columns) /\ LoadRecording(columns) = state
  /\ \A state \in VideoState \ {"none"} :
       LET r == VideoColumns(state) IN VideoValid(r) /\ LoadVideo(r) = state
  /\ \A state \in ConnState \ {"absent", "deleted"} :
       LET r == ConnectionColumns(state)
       IN ConnectionValid(r) /\ LoadConnection(r) = state
<1> USE DEF WithError, ErrorValid, Null, Corrupt
<1>1. ASSUME NEW state \in RowState \ {"none"}
      PROVE  ErrorValid(RecordingColumns(state)) /\ LoadRecording(RecordingColumns(state)) = state
  BY <1>1 DEF RowState, RowReason, RecordingColumns, LoadRecording, RequiredError
<1>2. ASSUME NEW state \in VideoState \ {"none"}
      PROVE  VideoValid(VideoColumns(state)) /\ LoadVideo(VideoColumns(state)) = state
  BY <1>2 DEF VideoState, Reason, RowReason, VideoColumns, VideoValid, LoadVideo, RequiredError
<1>3. ASSUME NEW state \in ConnState \ {"absent", "deleted"}
      PROVE  /\ ConnectionValid(ConnectionColumns(state))
             /\ LoadConnection(ConnectionColumns(state)) = state
  BY <1>3 DEF ConnState, InputState, ConnectionColumns, ConnectionValid, LoadConnection,
              Url, InputError
<1> QED
  BY <1>1, <1>2, <1>3

\* Whatever the transactions commit loads again: no request and no recovery ever
\* meets a row it has to refuse as corrupt (kinugasa-mysql/src/model.rs).
THEOREM RowsLoad == Spec => []EveryRowLoads
<1>1. TypeOK /\ TakeMatchesVideos /\ RowsUntilSettled /\ RecordingPinsConnection /\ OneOngoing
        => EveryRowLoads
  <2> SUFFICES ASSUME TypeOK, TakeMatchesVideos, RowsUntilSettled, RecordingPinsConnection,
                      OneOngoing
               PROVE  EveryRowLoads
    OBVIOUS
  <2>0. /\ take \in [Takes -> Phase] /\ row \in [Takes -> [Cameras -> RowState]]
        /\ video \in [Takes -> [Cameras -> VideoState]] /\ conn \in [Cameras -> ConnState]
    BY DEF TypeOK, StoreTypeOK
  <2>1. ASSUME NEW c \in Cameras, HasConnection(c)
        PROVE  CameraLoads(c)
    BY <2>0, <2>1, ColumnsLoad DEF HasConnection, CameraLoads
  <2>2. ASSUME NEW t \in Takes, take[t] # "absent"
        PROVE  TakeValid(take[t], TakeColumns(t))
    BY <2>0, <2>2 DEF Phase, TakeValid, TakeColumns, WithError, ErrorValid, Null, UploadFailure
  <2>3. ASSUME NEW t \in Takes, NEW c \in RowsOf(t)
        PROVE  /\ ErrorValid(RecordingColumns(row[t][c]))
               /\ LoadRecording(RecordingColumns(row[t][c])) = row[t][c]
    BY <2>0, <2>3, ColumnsLoad DEF RowsOf
  <2>4. ASSUME NEW t \in Takes, NEW c \in VideosOf(t)
        PROVE  /\ VideoValid(VideoColumns(video[t][c]))
               /\ LoadVideo(VideoColumns(video[t][c])) = video[t][c]
    BY <2>0, <2>4, ColumnsLoad DEF VideosOf
  <2>5. ASSUME NEW t \in Takes, take[t] = "ongoing"
        PROVE  OngoingViewLoads(t)
    <3>1. OngoingTakeLoads(t)
      BY <2>3, <2>5 DEF OngoingTakeLoads, RowsUntilSettled, RowsOf
    <3>2. HasNames(t)
      BY <2>5 DEF RecordingPinsConnection, RowsOf, ListedCameras, HasNames
    <3> QED
      BY <3>1, <3>2 DEF OngoingViewLoads
  <2>6. ASSUME NEW t \in Takes, Finished(t)
        PROVE  FinishedTakeLoads(t)
    <3>1. take[t] \in {"uploading", "completed", "errored"}
      BY <2>6 DEF Finished
    <3>2. TakeLoads(t)
      BY <3>1 DEF TakeLoads, LoadTake, TakeColumns, WithError, Null, UploadFailure
    <3>3. {LoadVideo(VideoColumns(video[t][c])) : c \in VideosOf(t)}
            = {video[t][c] : c \in VideosOf(t)}
      BY <2>4
    <3>4. DetailFits(take[t], {video[t][c] : c \in VideosOf(t)})
      <4> DEFINE files == {video[t][c] : c \in VideosOf(t)}
      <4>1. "uploading" \in files <=> take[t] = "uploading"
        BY DEF TakeMatchesVideos, VideosOf
      <4>2. take[t] = "completed" => files = {"completed"}
        <5> SUFFICES ASSUME take[t] = "completed" PROVE files = {"completed"}
          OBVIOUS
        <5>1. PICK c \in Cameras : video[t][c] # "none"
          BY <2>6 DEF TakeMatchesVideos
        <5>2. \A d \in VideosOf(t) : video[t][d] = "completed"
          BY DEF TakeMatchesVideos, VideosOf
        <5>3. c \in VideosOf(t)
          BY <5>1 DEF VideosOf
        <5> QED
          BY <5>2, <5>3
      <4> QED
        BY <3>1, <4>1, <4>2 DEF DetailFits
    <3> QED
      BY <2>4, <3>2, <3>3, <3>4 DEF FinishedTakeLoads, DetailLoads
  <2>7. SessionLoads
    BY DEF OneOngoing, SessionLoads
  <2> QED
    BY <2>1, <2>2, <2>3, <2>4, <2>5, <2>6, <2>7 DEF EveryRowLoads
<1>2. TakeRowsAgree => TakeMatchesVideos /\ RowsUntilSettled
  BY DEF TakeRowsAgree
<1> QED
  BY <1>1, <1>2, TypeCorrect, TakesConsistent, PinsInvariant, PTL

-----------------------------------------------------------------------------
(* Outcomes.                                                               *)

OutcomeOf(state) == IF state \in Reason THEN "errored" ELSE state

OutcomesOf(videos) == [t \in Takes |-> [c \in Cameras |-> OutcomeOf(videos[t][c])]]

\* A video that changes is settled.
SettlesVideos(videos) ==
  \A t \in Takes, c \in Cameras :
    videos[t][c] # video[t][c] =>
      video[t][c] = "uploading" /\ videos[t][c] \in {"completed"} \cup Reason

LEMMA OutcomeType ==
  ASSUME NEW state \in VideoState
  PROVE  /\ OutcomeOf(state) \in Ledger!Outcome
         /\ OutcomeOf(state) = "uploading" <=> state = "uploading"
         /\ OutcomeOf(state) = "errored" <=> state \in Reason
         /\ OutcomeOf(state) = "none" <=> state = "none"
BY DEF VideoState, Reason, RowReason, OutcomeOf, Ledger!Outcome

\* The state of a take is decided by the outcomes of its videos.
LEMMA VerdictIsDecided ==
  ASSUME NEW videos \in [Cameras -> VideoState]
  PROVE  Verdict(videos) = Ledger!Decided([c \in Cameras |-> OutcomeOf(videos[c])])
<1>1. \A c \in Cameras : /\ OutcomeOf(videos[c]) = "uploading" <=> videos[c] = "uploading"
                         /\ OutcomeOf(videos[c]) = "errored" <=> videos[c] \in Reason
  BY OutcomeType
<1> QED
  BY <1>1 DEF Verdict, Ledger!Decided

\* Saving videos of which some were settled settles them in the ledger.
LEMMA SaveTakesSettles ==
  ASSUME takeRowsTypeOK,
         NEW rows,
         NEW videos \in [Takes -> [Cameras -> VideoState]],
         SaveTakes(rows, videos), SettlesVideos(videos)
  PROVE  Ledger!Settle
<1> DEFINE old == OutcomesOf(video)
           new == OutcomesOf(video)'
           changed == {x \in Takes \X Cameras : videos[x[1]][x[2]] # video[x[1]][x[2]]}
           result == [x \in changed |-> new[x[1]][x[2]]]
<1>0. video \in [Takes -> [Cameras -> VideoState]]
  BY DEF takeRowsTypeOK
<1>1. new = OutcomesOf(videos)
  BY DEF SaveTakes, OutcomesOf
<1>2. \A t \in Takes, c \in Cameras :
        /\ new[t][c] = OutcomeOf(videos[t][c])
        /\ old[t][c] = OutcomeOf(video[t][c])
  BY <1>1 DEF OutcomesOf
<1>3. ASSUME NEW t \in Takes, NEW c \in Cameras, videos[t][c] # video[t][c]
      PROVE  old[t][c] = "uploading" /\ new[t][c] \in {"completed", "errored"}
  BY <1>2, <1>3 DEF SettlesVideos, OutcomeOf, Reason, RowReason
<1>4. new = [t \in Takes |-> [c \in Cameras |->
               IF <<t, c>> \in changed THEN result[<<t, c>>] ELSE old[t][c]]]
  <2>1. \A t \in Takes, c \in Cameras :
          new[t][c] = IF <<t, c>> \in changed THEN result[<<t, c>>] ELSE old[t][c]
    BY <1>2
  <2>2. new = [t \in Takes |-> [c \in Cameras |-> new[t][c]]]
    BY <1>1 DEF OutcomesOf
  <2> HIDE DEF new, old, changed, result
  <2> QED
    BY <2>1, <2>2
<1>5. changed \in SUBSET {x \in Takes \X Cameras : old[x[1]][x[2]] = "uploading"}
  BY <1>3
<1>6. result \in [changed -> {"completed", "errored"}]
  BY <1>3
<1>7. \A t \in Takes : new[t] = old[t] <=> videos[t] = video[t]
  <2> SUFFICES ASSUME NEW t \in Takes, videos[t] # video[t] PROVE new[t] # old[t]
    BY <1>1 DEF OutcomesOf
  <2>1. PICK c \in Cameras : videos[t][c] # video[t][c]
    BY <1>0
  <2>2. new[t][c] # old[t][c]
    BY <1>3, <2>1
  <2> QED
    BY <2>2
<1>8. \A t \in Takes : Verdict(videos[t]) = Ledger!Decided(new[t])
  BY <1>1, VerdictIsDecided DEF OutcomesOf
<1>9. take' = [t \in Takes |-> IF new[t] = old[t] THEN take[t] ELSE Ledger!Decided(new[t])]
  BY <1>7, <1>8 DEF SaveTakes
<1> HIDE DEF old, new, changed, result
<1>10. \E S \in SUBSET {x \in Takes \X Cameras : old[x[1]][x[2]] = "uploading"} :
         \E f \in [S -> {"completed", "errored"}] :
           new = [t \in Takes |-> [c \in Cameras |->
                    IF <<t, c>> \in S THEN f[<<t, c>>] ELSE old[t][c]]]
  BY <1>4, <1>5, <1>6
<1> QED
  BY <1>9, <1>10, Zenon DEF old, new, Ledger!Settle, OutcomesOf, OutcomeOf
-----------------------------------------------------------------------------
(* Every transaction is a step of the ledger, or none.                     *)

LedgerStep == Ledger!Next \/ UNCHANGED Ledger!vars

LEMMA UnchangedIsStep ==
  ASSUME UNCHANGED takeRows
  PROVE  LedgerStep
<1>1. UNCHANGED <<take, video>>
  BY DEF takeRows
<1> QED
  BY <1>1 DEF LedgerStep, Ledger!vars

LEMMA SettlesIsStep ==
  ASSUME takeRowsTypeOK,
         NEW rows,
         NEW videos \in [Takes -> [Cameras -> VideoState]],
         SaveTakes(rows, videos), SettlesVideos(videos)
  PROVE  LedgerStep
BY SaveTakesSettles DEF LedgerStep, Ledger!Next

LEMMA StartIsStep ==
  ASSUME NEW t \in Takes, NEW cs \in (SUBSET Cameras) \ {{}}, InsertOngoingTake(t, cs)
  PROVE  LedgerStep
<1>1. Ledger!Start(t)
  BY DEF InsertOngoingTake, Ledger!Start
<1> QED
  BY <1>1 DEF LedgerStep, Ledger!Next

LEMMA FinishIsStep ==
  ASSUME takeRowsTypeOK, TakesInv, NEW t \in Takes, FinishOngoingTake(t)
  PROVE  LedgerStep
<1> DEFINE files == [c \in Cameras |->
                       IF row[t][c] = "recording" THEN "uploading" ELSE row[t][c]]
           videos == [video EXCEPT ![t] = files]
           outcomes == [c \in Cameras |-> OutcomeOf(files[c])]
<1>1. take[t] = "ongoing" /\ TakeInv("ongoing", row[t], video[t])
  BY DEF TakesInv, FinishOngoingTake
<1>2. /\ row \in [Takes -> [Cameras -> RowState]]
      /\ video \in [Takes -> [Cameras -> VideoState]]
      /\ take \in [Takes -> Phase]
  BY DEF takeRowsTypeOK
<1>3. files \in [Cameras -> VideoState]
  BY <1>2 DEF RowState, VideoState, Reason
<1>4. SaveTakes(row, videos)
  BY DEF FinishOngoingTake
<1>5. \A c \in Cameras : files[c] = "none" <=> row[t][c] = "none"
  BY DEF RowReason
<1>6. PICK c \in Cameras : files[c] # "none" /\ video[t][c] = "none"
  BY <1>1, <1>5 DEF TakeInv
<1>7. videos[t] = files /\ \A u \in Takes \ {t} : videos[u] = video[u]
  BY <1>2
<1>8. files # video[t]
  BY <1>6
<1>9. \A d \in Cameras : files[d] # "completed"
  BY <1>2 DEF RowState, RowReason
<1> HIDE DEF files
<1>10. video' = videos /\ take' = [take EXCEPT ![t] = Verdict(files)]
  BY <1>2, <1>4, <1>7, <1>8 DEF SaveTakes
<1>11. outcomes \in [Cameras -> {"none", "uploading", "errored"}]
  BY <1>3, <1>9 DEF OutcomeOf, VideoState
<1>12. outcomes # Ledger!NoVideos
  <2>1. outcomes[c] # "none"
    BY <1>6 DEF OutcomeOf
  <2> QED
    BY <2>1 DEF Ledger!NoVideos
<1>13. Verdict(files) = Ledger!Decided(outcomes)
  BY <1>3, VerdictIsDecided
<1>14. OutcomesOf(video)' = [OutcomesOf(video) EXCEPT ![t] = outcomes]
  <2>1. OutcomesOf(video)' = OutcomesOf(videos)
    BY <1>10 DEF OutcomesOf
  <2>2. OutcomesOf(videos)[t] = outcomes
    BY <1>7 DEF OutcomesOf
  <2>3. \A u \in Takes \ {t} : OutcomesOf(videos)[u] = OutcomesOf(video)[u]
    BY <1>7 DEF OutcomesOf
  <2>4. OutcomesOf(videos) = [OutcomesOf(video) EXCEPT ![t] = outcomes]
    <3>1. /\ OutcomesOf(videos) = [u \in Takes |-> OutcomesOf(videos)[u]]
          /\ OutcomesOf(video) = [u \in Takes |-> OutcomesOf(video)[u]]
      BY DEF OutcomesOf
    <3> QED
      BY <2>2, <2>3, <3>1
  <2> QED
    BY <2>1, <2>4
<1> HIDE DEF outcomes, videos
<1>15. take' = [take EXCEPT ![t] = Ledger!Decided(outcomes)]
  BY <1>10, <1>13
<1>16. Ledger!Finish(t)
  BY <1>1, <1>11, <1>12, <1>14, <1>15 DEF Ledger!Finish, OutcomesOf, OutcomeOf
<1> QED
  BY <1>16 DEF LedgerStep, Ledger!Next

LEMMA FailureIsStep ==
  ASSUME takeRowsTypeOK, TakesInv,
         NEW t \in Takes, NEW c \in Cameras, NEW reason \in RowReason,
         PersistRecordingFailure(t, c, reason)
  PROVE  LedgerStep
<1>1. CASE UNCHANGED takeRows
  BY <1>1, UnchangedIsStep
<1>2. CASE ~ FailureConflicts(t, c, reason)
  <2> DEFINE rows == IF row[t][c] = "recording"
                     THEN [row EXCEPT ![t][c] = reason] ELSE row
             videos == IF take[t] = "ongoing"
                       THEN video ELSE [video EXCEPT ![t][c] = reason]
  <2>1. SaveTakes(rows, videos)
    BY <1>2 DEF PersistRecordingFailure
  <2>2. videos \in [Takes -> [Cameras -> VideoState]]
    BY DEF takeRowsTypeOK, VideoState, Reason
  <2>3. SettlesVideos(videos)
    BY <1>2 DEF SettlesVideos, FailureConflicts, takeRowsTypeOK, Reason
  <2> HIDE DEF rows, videos
  <2> QED
    BY <2>1, <2>2, <2>3, SettlesIsStep
<1> QED
  BY <1>1, <1>2 DEF PersistRecordingFailure

LEMMA UploadIsStep ==
  ASSUME takeRowsTypeOK,
         NEW t \in Takes, NEW c \in Cameras, NEW outcome \in {"completed", "storage"},
         PersistUploadResult(t, c, outcome)
  PROVE  LedgerStep
<1>1. CASE UNCHANGED takeRows
  BY <1>1, UnchangedIsStep
<1>2. CASE <<t, c>> \in PendingUploads
  <2> DEFINE videos == [video EXCEPT ![t][c] = outcome]
  <2>1. SaveTakes(row, videos)
    BY <1>2 DEF PersistUploadResult
  <2>2. videos \in [Takes -> [Cameras -> VideoState]]
    BY DEF takeRowsTypeOK, VideoState, Reason
  <2>3. SettlesVideos(videos)
    BY <1>2 DEF SettlesVideos, PendingUploads, takeRowsTypeOK, Reason
  <2> HIDE DEF videos
  <2> QED
    BY <2>1, <2>2, <2>3, SettlesIsStep
<1> QED
  BY <1>1, <1>2 DEF PersistUploadResult

LEMMA DeletionIsStep ==
  ASSUME takeRowsTypeOK, NEW c \in Cameras, NEW force \in BOOLEAN, RequestDeletion(c, force)
  PROVE  LedgerStep
<1> DEFINE videos == [t \in Takes |-> [d \in Cameras |->
              IF d = c /\ video[t][d] = "uploading" THEN "forced" ELSE video[t][d]]]
<1>1. SaveTakes(row, videos)
  BY DEF RequestDeletion
<1>2. videos \in [Takes -> [Cameras -> VideoState]]
  BY DEF takeRowsTypeOK, VideoState, Reason
<1>3. SettlesVideos(videos)
  BY DEF SettlesVideos, Reason
<1> HIDE DEF videos
<1> QED
  BY <1>1, <1>2, <1>3, SettlesIsStep

LEMMA RecoveryIsStep ==
  ASSUME takeRowsTypeOK, ~ RecoveryConflicts, InterruptRecordings
  PROVE  LedgerStep
<1> DEFINE rows   == [t \in Takes |-> [c \in Cameras |->
                        IF Active(t, c) THEN "interrupted" ELSE row[t][c]]]
           videos == [t \in Takes |-> [c \in Cameras |->
                        IF Active(t, c) /\ take[t] # "ongoing"
                        THEN "interrupted" ELSE video[t][c]]]
<1>1. SaveTakes(rows, videos)
  BY DEF InterruptRecordings
<1>2. videos \in [Takes -> [Cameras -> VideoState]]
  BY DEF takeRowsTypeOK, VideoState, Reason, RowReason
<1>3. SettlesVideos(videos)
  BY DEF SettlesVideos, RecoveryConflicts, FailureConflicts, Reason, RowReason
<1> HIDE DEF rows, videos
<1> QED
  BY <1>1, <1>2, <1>3, SettlesIsStep

\* The database implements the ledger of takes: one take is ongoing at a time, a
\* video is settled once and for good, and its take with the last of them, whatever
\* requests, workers, uploads, deletions and restarts do (recording_state.rs).
THEOREM ImplementsLedger == Spec => LedgerSpec
<1>1. Init => Ledger!Init
  <2> SUFFICES ASSUME Init PROVE Ledger!Init
    OBVIOUS
  <2>1. /\ take = [t \in Takes |-> "absent"]
        /\ video = [t \in Takes |-> [c \in Cameras |-> "none"]]
    BY DEF Init, StoreInit
  <2>2. "none" \notin Reason
    BY DEF Reason, RowReason
  <2> QED
    BY <2>1, <2>2 DEF Ledger!Init, Ledger!NoVideos
<1>2. TypeOK /\ TakesInv /\ [Next]_vars => [Ledger!Next]_(Ledger!vars)
  <2> SUFFICES ASSUME TypeOK, TakesInv, [Next]_vars PROVE LedgerStep
    BY DEF LedgerStep
  <2>1. takeRowsTypeOK
    BY DEF TypeOK, StoreTypeOK, takeRowsTypeOK
  <2> QED
    BY <2>1, TakeTransactions, UnchangedIsStep, StartIsStep, FinishIsStep, FailureIsStep,
       UploadIsStep, DeletionIsStep, RecoveryIsStep
       DEF StartsTake, FinishTake, PersistsUpload, Recovers
<1>3. Spec => [](TypeOK /\ TakesInv)
  BY TypeCorrect, TakesInvInit, TakesInvStep, PTL DEF Spec
<1> QED
  BY <1>1, <1>2, <1>3, PTL DEF Spec, LedgerSpec, Ledger!Spec
-----------------------------------------------------------------------------
(* Failures are isolated.                                                  *)

\* While a take is ongoing only a failure of its own recording changes a row, and
\* finishing the take does when none is active any more.
LEMMA IsolatedStep ==
  ASSUME TypeOK, TakesInv, [Next]_vars, backend = "up",
         NEW t \in Takes, NEW c \in Cameras, take[t] = "ongoing", row'[t][c] # row[t][c]
  PROVE  \/ /\ take'[t] = "ongoing"
            /\ \A d \in Cameras \ {c} : row'[t][d] = row[t][d]
         \/ \A d \in Cameras : ~ Active(t, d)
<1>0. /\ take \in [Takes -> Phase] /\ row \in [Takes -> [Cameras -> RowState]]
      /\ video \in [Takes -> [Cameras -> VideoState]]
  BY DEF TypeOK, StoreTypeOK
<1>1. \A d \in Cameras : video[t][d] = "none"
  BY DEF TakesInv, TakeInv
<1>2. ASSUME NEW rows, NEW videos, SaveTakes(rows, videos), videos[t] = video[t]
      PROVE  row'[t] = rows[t] /\ take'[t] = take[t]
  BY <1>2 DEF SaveTakes
<1>3. CASE UNCHANGED takeRows
  BY <1>3 DEF takeRows
<1>4. ASSUME NEW u \in Takes, NEW cs \in (SUBSET Cameras) \ {{}}, StartsTake(u, cs)
      PROVE  FALSE
  BY <1>4 DEF StartsTake, InsertOngoingTake
<1>5. ASSUME NEW u \in Takes, FinishOngoingTake(u)
      PROVE  \A d \in Cameras : ~ Active(t, d)
  <2> DEFINE videos == [video EXCEPT ![u] = [d \in Cameras |->
                          IF row[u][d] = "recording" THEN "uploading" ELSE row[u][d]]]
  <2>1. SaveTakes(row, videos)
    BY <1>5 DEF FinishOngoingTake
  <2>2. videos[t] # video[t]
    <3> HIDE DEF videos
    <3> QED
      BY <1>2, <2>1
  <2>3. u = t
    BY <1>0, <2>2
  <2>4. Verdict(videos[t]) # "uploading"
    <3> HIDE DEF videos
    <3> QED
      BY <2>1, <2>2 DEF SaveTakes
  <2>5. \A d \in Cameras : row[t][d] = "recording" => videos[t][d] = "uploading"
    BY <1>0, <2>3
  <2> HIDE DEF videos
  <2> QED
    BY <2>4, <2>5 DEF Verdict, Active
<1>6. ASSUME NEW u \in Takes, NEW d \in Cameras, NEW reason \in RowReason,
             PersistRecordingFailure(u, d, reason)
      PROVE  take'[t] = "ongoing" /\ \A e \in Cameras \ {c} : row'[t][e] = row[t][e]
  <2> DEFINE rows   == IF row[u][d] = "recording" THEN [row EXCEPT ![u][d] = reason] ELSE row
             videos == IF take[u] = "ongoing" THEN video ELSE [video EXCEPT ![u][d] = reason]
  <2>1. SaveTakes(rows, videos)
    BY <1>3, <1>6 DEF PersistRecordingFailure, takeRows
  <2>2. videos[t] = video[t]
    BY <1>0
  <2>3. row'[t] = rows[t] /\ take'[t] = take[t]
    <3> HIDE DEF rows, videos
    <3> QED
      BY <1>2, <2>1, <2>2
  <2>4. \A e \in Cameras : rows[t][e] # row[t][e] => e = d
    BY <1>0
  <2> HIDE DEF rows, videos
  <2> QED
    BY <2>3, <2>4
<1>7. ASSUME NEW u \in Takes, NEW d \in Cameras, NEW outcome \in {"completed", "storage"},
             PersistsUpload(u, d, outcome)
      PROVE  FALSE
  <2> DEFINE videos == [video EXCEPT ![u][d] = outcome]
  <2>1. <<u, d>> \in PendingUploads /\ SaveTakes(row, videos)
    BY <1>3, <1>7 DEF PersistsUpload, PersistUploadResult, takeRows
  <2>2. u # t
    BY <2>1 DEF PendingUploads, Finished
  <2>3. videos[t] = video[t]
    BY <1>0, <2>2
  <2> HIDE DEF videos
  <2> QED
    BY <1>2, <2>1, <2>3
<1>8. ASSUME NEW e \in Cameras, NEW force \in BOOLEAN, RequestDeletion(e, force)
      PROVE  FALSE
  <2> DEFINE videos == [u \in Takes |-> [d \in Cameras |->
                IF d = e /\ video[u][d] = "uploading" THEN "forced" ELSE video[u][d]]]
  <2>1. SaveTakes(row, videos)
    BY <1>8 DEF RequestDeletion
  <2>2. videos[t] = video[t]
    BY <1>0, <1>1
  <2> HIDE DEF videos
  <2> QED
    BY <1>2, <2>1, <2>2
<1> QED
  BY <1>3, <1>4, <1>5, <1>6, <1>7, <1>8, TakeTransactions DEF FinishTake, Recovers

\* The failure of a camera neither ends the ongoing take nor touches the recording
\* of another camera, whoever reports it (persist_recording_failure).
THEOREM FailuresIsolated == Spec => FailureIsIsolated
<1>1. TypeOK /\ TakesInv /\ [Next]_vars =>
        \A t \in Takes, c \in Cameras :
          backend = "up" /\ take[t] = "ongoing" /\ row'[t][c] # row[t][c]
            => \/ /\ take'[t] = "ongoing"
                  /\ \A d \in Cameras \ {c} : row'[t][d] = row[t][d]
               \/ \A d \in Cameras : ~ Active(t, d)
  BY IsolatedStep
<1>2. Spec => [](TypeOK /\ TakesInv)
  BY TypeCorrect, TakesInvInit, TakesInvStep, PTL DEF Spec
<1> QED
  BY <1>1, <1>2, PTL DEF Spec, FailureIsIsolated

-----------------------------------------------------------------------------
(* What is completed is stored.                                            *)

\* A completed video was staged and is stored, and so is what a task is about to
\* save as completed.
StoredInv ==
  \A t \in Takes, c \in Cameras :
    /\ video[t][c] = "completed" => <<t, c>> \in finalized /\ <<t, c>> \in stored
    /\ uploadTask[t][c] = "completed" => <<t, c>> \in stored

\* Nothing is taken from the finalized recordings or from the storage, and an upload
\* is completed when its object is there.
LEMMA StoredGrows ==
  ASSUME TypeOK, [Next]_vars
  PROVE  /\ finalized \subseteq finalized' /\ stored \subseteq stored'
         /\ \A t \in Takes, c \in Cameras :
              uploadTask'[t][c] = "completed"
                => uploadTask[t][c] = "completed" \/ <<t, c>> \in stored'
<1> USE DEF storeVars, taskVars
<1>0. uploadTask \in [Takes -> [Cameras -> UploadState]]
  BY DEF TypeOK, PerRecording
<1>1. CASE UNCHANGED <<finalized, stored, uploadTask>>
  BY <1>1
<1>2. ASSUME NEW t \in Takes, NEW c \in Cameras, PersistFinish(t, c)
      PROVE  finalized \subseteq finalized' /\ UNCHANGED <<stored, uploadTask>>
  BY <1>2 DEF PersistFinish, StageFinalizedRecording
<1>3. ASSUME NEW t \in Takes, NEW c \in Cameras,
             StorageAnswers(t, c) \/ UploadDeferred(t, c) \/ PersistUpload(t, c)
      PROVE  /\ stored \subseteq stored' /\ finalized' = finalized
             /\ \A u \in Takes, d \in Cameras :
                  uploadTask'[u][d] = "completed"
                    => uploadTask[u][d] = "completed" \/ <<u, d>> \in stored'
  BY <1>0, <1>3 DEF StorageAnswers, UploadDeferred, PersistUpload
<1>4. CASE ListUploads
  BY <1>0, <1>4 DEF ListUploads
<1>5. CASE Crash
  BY <1>5 DEF Crash, TasksStop, IdleRecordings
<1>6. CASE Request \/ Fault \/ UNCHANGED vars
  BY <1>1, <1>5, <1>6 DEF Request, StartTake, FinishTake, CreateCamera, DeleteCamera,
     Fault, AbandonStart, AbandonFinish, TransactionFails, Stop, vars
<1>7. ASSUME NEW t \in Takes, NEW c \in Cameras,
             WorkerStart(t, c) \/ PersistStart(t, c) \/ WorkerFinish(t, c) \/ EventConflicts(t, c)
      PROVE  UNCHANGED <<finalized, stored, uploadTask>>
  BY <1>7 DEF WorkerStart, PersistStart, WorkerFinish, EventConflicts
<1>8. ASSUME NEW c \in Cameras, CameraStep(c) \/ WorkerInput(c)
      PROVE  UNCHANGED <<finalized, stored, uploadTask>>
  BY <1>8 DEF CameraStep, Provision, PersistProvision, CameraDeferred, Revoke,
              PersistDeletion, WorkerInput
<1>9. CASE ListCameras \/ ProcessEvent \/ Startup \/ Serve \/ Exit
  BY <1>1, <1>9 DEF ListCameras, ProcessEvent, Startup, Serve, Exit
<1> QED
  BY <1>1, <1>2, <1>3, <1>4, <1>6, <1>7, <1>8, <1>9 DEF Next, Step, RecordingStep

\* Only the transaction of an upload completes a video.
LEMMA OnlyUploadsComplete ==
  ASSUME TypeOK, [Next]_vars, NEW t \in Takes, NEW c \in Cameras,
         video'[t][c] = "completed"
  PROVE  \/ video[t][c] = "completed"
         \/ <<t, c>> \in PendingUploads /\ uploadTask[t][c] = "completed"
<1>0. /\ video \in [Takes -> [Cameras -> VideoState]]
      /\ row \in [Takes -> [Cameras -> RowState]]
  BY DEF TypeOK, StoreTypeOK
<1>1. "completed" \notin RowReason /\ "completed" \notin RowState
  BY DEF RowReason, RowState
<1>2. CASE UNCHANGED takeRows
  BY <1>2 DEF takeRows
<1>3. ASSUME NEW u \in Takes, NEW cs \in (SUBSET Cameras) \ {{}}, StartsTake(u, cs)
      PROVE  video' = video
  BY <1>3 DEF StartsTake, InsertOngoingTake
<1>4. ASSUME NEW u \in Takes, FinishOngoingTake(u)
      PROVE  video[t][c] = "completed"
  BY <1>0, <1>1, <1>4 DEF FinishOngoingTake, SaveTakes
<1>5. ASSUME NEW u \in Takes, NEW d \in Cameras, NEW reason \in RowReason,
             PersistRecordingFailure(u, d, reason)
      PROVE  video[t][c] = "completed"
  <2>1. \/ UNCHANGED takeRows
        \/ video' = IF take[u] = "ongoing" THEN video ELSE [video EXCEPT ![u][d] = reason]
    BY <1>5 DEF PersistRecordingFailure, SaveTakes
  <2>2. CASE UNCHANGED takeRows
    BY <2>2 DEF takeRows
  <2>3. CASE video' = video
    BY <2>3
  <2>4. CASE video' = [video EXCEPT ![u][d] = reason]
    <3>1. CASE u = t /\ d = c
      BY <1>0, <1>1, <2>4, <3>1
    <3>2. CASE u # t \/ d # c
      BY <1>0, <2>4, <3>2
    <3> QED
      BY <3>1, <3>2
  <2> QED
    BY <2>1, <2>2, <2>3, <2>4
<1>6. ASSUME NEW u \in Takes, NEW d \in Cameras, NEW outcome \in {"completed", "storage"},
             PersistsUpload(u, d, outcome)
      PROVE  \/ video[t][c] = "completed"
             \/ <<t, c>> \in PendingUploads /\ uploadTask[t][c] = "completed"
  <2>1. CASE <<u, d>> \in PendingUploads
    <3>1. video' = [video EXCEPT ![u][d] = outcome]
      BY <1>6, <2>1 DEF PersistsUpload, PersistUploadResult, SaveTakes
    <3>2. CASE u = t /\ d = c
      BY <1>0, <1>6, <2>1, <3>1, <3>2 DEF PersistsUpload
    <3>3. CASE u # t \/ d # c
      BY <1>0, <3>1, <3>3
    <3> QED
      BY <3>2, <3>3
  <2> QED
    BY <1>2, <1>6, <2>1 DEF PersistsUpload, PersistUploadResult
<1>7. ASSUME NEW d \in Cameras, NEW force \in BOOLEAN, RequestDeletion(d, force)
      PROVE  video[t][c] = "completed"
  BY <1>0, <1>7 DEF RequestDeletion, SaveTakes
<1>8. ASSUME Recovers
      PROVE  video[t][c] = "completed"
  BY <1>0, <1>8 DEF Recovers, InterruptRecordings, SaveTakes
<1> QED
  BY <1>2, <1>3, <1>4, <1>5, <1>6, <1>7, <1>8, TakeTransactions DEF FinishTake

\* The lockfile lists every completed video and nothing that is not stored, however
\* uploads, forced deletions and restarts interleave (persist_upload_result).
THEOREM CompletedStored == Spec => []CompletedIsStored
<1>1. Init => StoredInv
  BY DEF Init, StoreInit, StoredInv, IdleRecordings
<1>2. TypeOK /\ StoredInv /\ [Next]_vars => StoredInv'
  BY StoredGrows, OnlyUploadsComplete DEF StoredInv, PendingUploads
<1>3. TypeOK /\ StoredInv => CompletedIsStored
  BY DEF TypeOK, StoreTypeOK, StoredInv, CompletedIsStored, Lockfile
<1> QED
  BY <1>1, <1>2, <1>3, TypeCorrect, PTL DEF Spec
=============================================================================
