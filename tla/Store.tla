------------------------------- MODULE Store -------------------------------
(***************************************************************************)
(* The rows of the MySQL database of one session and the transactions that *)
(* crates/kinugasa-core/src/application runs on them.                      *)
(*                                                                         *)
(* Every transaction locks the rows it decides on (SELECT ... FOR UPDATE), *)
(* but for one read of process_next_event (Backend!EventConflicts), so it  *)
(* is one step here; a transaction that returns an error is dropped, which *)
(* rolls it back, and leaves every row as it was.                          *)
(***************************************************************************)
EXTENDS Domain

VARIABLES
  take,       \* takes.phase and takes.state
  row,        \* recording_cameras: "none", "recording" or the error it holds
  video,      \* video_files: "none", "uploading", "completed" or the error
  finalized,  \* finalized_recordings, as a set of <<take, camera>>
  conn,       \* camera_connections.status; "absent" before, "deleted" after
  deleting    \* the connections with a deletion_requested_at

takeRows == <<take, row, video>>

StoreTypeOK ==
  /\ take \in [Takes -> Phase]
  /\ row \in [Takes -> [Cameras -> RowState]]
  /\ video \in [Takes -> [Cameras -> VideoState]]
  /\ finalized \subseteq Takes \X Cameras
  /\ conn \in [Cameras -> ConnState]
  /\ deleting \subseteq Cameras

StoreInit ==
  /\ take = [t \in Takes |-> "absent"]
  /\ row = [t \in Takes |-> [c \in Cameras |-> "none"]]
  /\ video = [t \in Takes |-> [c \in Cameras |-> "none"]]
  /\ finalized = {}
  /\ conn = [c \in Cameras |-> "absent"]
  /\ deleting = {}

Finished(t) == take[t] \in {"uploading", "completed", "errored"}

HasConnection(c) == conn[c] \notin {"absent", "deleted"}

-----------------------------------------------------------------------------
(* The state of a finished take follows from the states of its videos.     *)

\* The state converge_finished_take and finish_ongoing_take give a take.
Verdict(videos) ==
  IF \E c \in Cameras : videos[c] = "uploading" THEN "uploading"
  ELSE IF \E c \in Cameras : videos[c] \in Reason THEN "errored"
  ELSE "completed"

\* Mutant of SaveTakes: the rows of a settled take are not deleted.
SaveTakesKeepingRows(rows, videos) ==
  /\ video' = videos
  /\ take' = [t \in Takes |->
                IF videos[t] = video[t] THEN take[t] ELSE Verdict(videos[t])]
  /\ row' = rows

\* The take whose videos change gets their verdict, and loses its
\* recording_cameras rows when none of its videos is uploading any more.
SaveTakes(rows, videos) ==
  /\ video' = videos
  /\ take' = [t \in Takes |->
                IF videos[t] = video[t] THEN take[t] ELSE Verdict(videos[t])]
  /\ row' = [t \in Takes |->
               IF videos[t] # video[t] /\ Verdict(videos[t]) # "uploading"
               THEN [c \in Cameras |-> "none"]
               ELSE rows[t]]

-----------------------------------------------------------------------------
(* Takes.                                                                  *)

\* The transaction of start_take.
InsertOngoingTake(t, cs) ==
  /\ take[t] = "absent"
  /\ \A u \in Takes : take[u] # "ongoing"
  /\ \A c \in cs : conn[c] = "connected" /\ c \notin deleting
  /\ take' = [take EXCEPT ![t] = "ongoing"]
  /\ row' = [row EXCEPT ![t] = [c \in Cameras |->
                                  IF c \in cs THEN "recording" ELSE "none"]]
  /\ UNCHANGED video

\* Mutant of FinishOngoingTake: a video gets the state of its row as it is.
FinishCopiesRows(t) ==
  /\ take[t] = "ongoing"
  /\ SaveTakes(row, [video EXCEPT ![t] = row[t]])

\* The transaction of finish_take: a row that failed becomes a failed video.
FinishOngoingTake(t) ==
  /\ take[t] = "ongoing"
  /\ SaveTakes(row,
       [video EXCEPT ![t] = [c \in Cameras |->
          IF row[t][c] = "recording" THEN "uploading" ELSE row[t][c]]])

\* persist_recording_failure returns a conflict.
FailureConflicts(t, c, reason) ==
  \/ row[t][c] \in RowReason \ {reason}
  \/ row[t][c] = "none" /\ take[t] = "ongoing"
  \/ take[t] # "ongoing" /\ video[t][c] \notin {"uploading", reason}

\* Mutant of PersistRecordingFailure: the video of a finished take is not failed.
FailRowOnly(t, c, reason) ==
  SaveTakes(
    IF row[t][c] = "recording" THEN [row EXCEPT ![t][c] = reason] ELSE row, video)

\* Mutant of PersistRecordingFailure: the update is not restricted to a camera.
FailEveryRow(t, c, reason) ==
  SaveTakes(
    [row EXCEPT ![t] = [d \in Cameras |->
       IF row[t][d] = "recording" THEN reason ELSE row[t][d]]],
    IF take[t] = "ongoing" THEN video ELSE [video EXCEPT ![t][c] = reason])

PersistRecordingFailure(t, c, reason) ==
  \/ /\ FailureConflicts(t, c, reason)
     /\ UNCHANGED takeRows
  \/ /\ ~ FailureConflicts(t, c, reason)
     /\ SaveTakes(
          IF row[t][c] = "recording" THEN [row EXCEPT ![t][c] = reason] ELSE row,
          IF take[t] = "ongoing" THEN video ELSE [video EXCEPT ![t][c] = reason])

\* stage_finalized_recording accepts the file: once its row is no longer
\* recording only a repetition of an earlier staging is accepted.
MayStage(t, c) ==
  /\ Finished(t)
  /\ <<t, c>> \in finalized \/ row[t][c] = "recording"
  /\ video[t][c] # "none"

StageFinalizedRecording(t, c) ==
  finalized' = IF MayStage(t, c) THEN finalized \cup {<<t, c>>} ELSE finalized

\* Mutant of PendingUploads: a take is uploaded when all its files are staged.
UploadsOfStagedTakes ==
  {x \in finalized : /\ Finished(x[1]) /\ video[x[1]][x[2]] = "uploading"
                     /\ \A c \in Cameras :
                          row[x[1]][c] # "none" => <<x[1], c>> \in finalized}

\* list_pending_uploads, without its limit.
PendingUploads ==
  {x \in finalized : Finished(x[1]) /\ video[x[1]][x[2]] = "uploading"}

\* get_lockfile: the objects of the completed videos, under the path of their file.
Lockfile == {x \in finalized : video[x[1]][x[2]] = "completed"}

\* Mutant of PersistUploadResult: the take does not converge.
UploadWithoutVerdict(t, c, outcome) ==
  /\ video' = IF <<t, c>> \in PendingUploads
              THEN [video EXCEPT ![t][c] = outcome] ELSE video
  /\ UNCHANGED <<take, row>>

\* Mutant of PersistUploadResult: the state of the video is not read again.
PersistLateUploadResult(t, c, outcome) ==
  SaveTakes(row, [video EXCEPT ![t][c] = outcome])

PersistUploadResult(t, c, outcome) ==
  IF <<t, c>> \in PendingUploads
  THEN SaveTakes(row, [video EXCEPT ![t][c] = outcome])
  ELSE UNCHANGED takeRows

\* list_active_recordings: every row that is recording, whatever its take.
Active(t, c) == row[t][c] = "recording"

RecoveryConflicts ==
  \E t \in Takes, c \in Cameras :
     Active(t, c) /\ FailureConflicts(t, c, "interrupted")

\* Mutant of InterruptRecordings: only the ongoing take is interrupted.
InterruptOngoingTake ==
  SaveTakes(
    [t \in Takes |-> [c \in Cameras |->
       IF Active(t, c) /\ take[t] = "ongoing" THEN "interrupted" ELSE row[t][c]]],
    video)

\* The transaction of recover_after_restart, when no item conflicts. The items
\* touch different rows and a take converges with the last of them, so their
\* order does not matter.
InterruptRecordings ==
  SaveTakes(
    [t \in Takes |-> [c \in Cameras |->
       IF Active(t, c) THEN "interrupted" ELSE row[t][c]]],
    [t \in Takes |-> [c \in Cameras |->
       IF Active(t, c) /\ take[t] # "ongoing" THEN "interrupted" ELSE video[t][c]]])

-----------------------------------------------------------------------------
(* Cameras.                                                                *)

InsertCamera(c) ==
  /\ conn[c] = "absent"
  /\ conn' = [conn EXCEPT ![c] = "activating"]
  /\ UNCHANGED deleting

\* Mutant of RequestDeletion: the ongoing take is not looked at.
RequestAnyDeletion(c, force) ==
  /\ HasConnection(c) /\ c \notin deleting
  /\ force \/ \A t \in Takes : video[t][c] # "uploading"
  /\ deleting' = deleting \cup {c}
  /\ UNCHANGED <<takeRows, conn>>

\* delete_camera: refused while the camera is in the ongoing take, and, unless
\* forced, while one of its videos is uploading.
RequestDeletion(c, force) ==
  /\ HasConnection(c) /\ c \notin deleting
  /\ \A t \in Takes : take[t] = "ongoing" => row[t][c] = "none"
  /\ force \/ \A t \in Takes : video[t][c] # "uploading"
  /\ SaveTakes(row, [t \in Takes |-> [d \in Cameras |->
       IF d = c /\ video[t][d] = "uploading" THEN "forced" ELSE video[t][d]]])
  /\ deleting' = deleting \cup {c}
  /\ UNCHANGED conn

\* recording_cameras references camera_connections.
Referenced(c) == \E t \in Takes : row[t][c] # "none"

DeleteConnection(c) ==
  IF HasConnection(c) /\ ~ Referenced(c)
  THEN conn' = [conn EXCEPT ![c] = "deleted"] /\ deleting' = deleting \ {c}
  ELSE UNCHANGED <<conn, deleting>>

\* Mutant of SaveProvisioned: the row is written as it was read by the pass.
SaveStaleProvisioned(c) ==
  IF HasConnection(c)
  THEN conn' = [conn EXCEPT ![c] = "waiting"] /\ deleting' = deleting \ {c}
  ELSE UNCHANGED <<conn, deleting>>

\* The endpoint got by provisioning is saved as a waiting connection, whatever
\* the connection was.
SaveProvisioned(c) ==
  IF HasConnection(c)
  THEN conn' = [conn EXCEPT ![c] = "waiting"] /\ UNCHANGED deleting
  ELSE UNCHANGED <<conn, deleting>>

\* apply_input_state needs an endpoint, which an activating connection lacks.
AcceptsInputState(c) == HasConnection(c) /\ conn[c] # "activating"

\* The transaction of process_next_event.
ApplyInputState(c, state) ==
  /\ conn' = [conn EXCEPT ![c] = state]
  /\ UNCHANGED deleting
  /\ \/ /\ state # "connected"
        /\ \E t \in Takes :
             /\ take[t] = "ongoing" /\ row[t][c] = "recording"
             /\ PersistRecordingFailure(t, c,
                  IF state = "waiting" THEN "disconnected" ELSE "input")
     \/ /\ \/ state = "connected"
           \/ \A t \in Takes : take[t] = "ongoing" => row[t][c] # "recording"
        /\ UNCHANGED takeRows
=============================================================================
