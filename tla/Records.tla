------------------------------ MODULE Records ------------------------------
(***************************************************************************)
(* The columns the states of module Store are kept in, the constraints of  *)
(* their tables (0001_domain.sql), and the way back: the conversions of    *)
(* kinugasa-mysql/src/model.rs, which refuse a row, or rows that do not    *)
(* fit together, as corrupt. A transaction that reads a corrupt row fails, *)
(* at every attempt, so the states that the transactions commit have to be *)
(* states that load. Times, names and identities are left out.             *)
(***************************************************************************)
EXTENDS Store

Null    == "null"     \* NULL in a column
Corrupt == "corrupt"  \* RepositoryError::CorruptData

Url           == "url"
UploadFailure == "upload failure"  \* the error of an errored take
InputError    == "input error"     \* the error of an errored connection

-----------------------------------------------------------------------------
(* From the domain to the columns.                                         *)

\* A state and its error: the columns shared by the four tables.
WithError(state, errored, reason) ==
  [state |-> IF errored THEN "errored" ELSE state, error |-> IF errored THEN reason ELSE Null]

RecordingColumns(state) == WithError(state, state \in RowReason, state)

\* A finished take; an ongoing one has no state and no error.
TakeColumns(t) ==
  IF take[t] = "ongoing" THEN WithError(Null, FALSE, Null)
  ELSE WithError(take[t], take[t] = "errored", UploadFailure)

\* object: object_key, hash and size, which are set together.
VideoColumns(state) ==
  [columns |-> WithError(state, state \in Reason, state),
   object  |-> IF state = "completed" THEN "object" ELSE Null]

ConnectionColumns(state) ==
  [columns |-> WithError(state, state = "errored", InputError),
   url     |-> IF state = "activating" THEN Null ELSE Url]

-----------------------------------------------------------------------------
(* The CHECK constraints.                                                  *)

ErrorValid(columns) == columns.state = "errored" <=> columns.error # Null

TakeValid(phase, columns) ==
  /\ phase = "ongoing" <=> columns.state = Null
  /\ phase = "ongoing" => columns.error = Null
  /\ ErrorValid(columns)

VideoValid(r) ==
  /\ r.columns.state = "completed" => r.object # Null
  /\ ErrorValid(r.columns)

ConnectionValid(r) ==
  /\ r.columns.state # "activating" => r.url # Null
  /\ ErrorValid(r.columns)

-----------------------------------------------------------------------------
(* From the columns to the domain.                                         *)

RequiredError(error) == IF error = Null THEN Corrupt ELSE error

LoadRecording(columns) ==
  CASE columns.state = "recording" -> "recording"
    [] columns.state = "errored"   -> RequiredError(columns.error)
    [] OTHER                       -> Corrupt

\* The error of a take that loads is not looked at any further.
LoadTake(columns) ==
  CASE columns.state \in {"uploading", "completed"} -> columns.state
    [] columns.state = "errored" /\ columns.error # Null -> "errored"
    [] OTHER -> Corrupt

LoadVideo(r) ==
  CASE r.columns.state = "uploading"                      -> "uploading"
    [] r.columns.state = "completed" /\ r.object # Null -> "completed"
    [] r.columns.state = "errored"                        -> RequiredError(r.columns.error)
    [] OTHER                                              -> Corrupt

LoadConnection(r) ==
  CASE r.columns.state = "activating" /\ r.url = Null /\ r.columns.error = Null -> "activating"
    [] /\ r.columns.state \in {"waiting", "connected"}
       /\ r.url # Null /\ r.columns.error = Null         -> r.columns.state
    [] r.columns.state = "errored" /\ r.url # Null /\ r.columns.error # Null -> "errored"
    [] OTHER                                                -> Corrupt

RowsOf(t)   == {c \in Cameras : row[t][c] # "none"}
VideosOf(t) == {c \in Cameras : video[t][c] # "none"}

CameraLoads(c) ==
  LET r == ConnectionColumns(conn[c]) IN ConnectionValid(r) /\ LoadConnection(r) = conn[c]

\* list_cameras: the cameras a client sees.
ListedCameras == {c \in Cameras : HasConnection(c) /\ c \notin deleting}

\* OngoingTake::new: an ongoing take has at least one camera.
OngoingTakeLoads(t) ==
  /\ RowsOf(t) # {}
  /\ \A c \in RowsOf(t) : LoadRecording(RecordingColumns(row[t][c])) = row[t][c]

\* The answer to a client needs a name for each camera of the take, and the names
\* come from list_cameras, read in the same transaction.
HasNames(t) == RowsOf(t) \subseteq ListedCameras

OngoingViewLoads(t) == OngoingTakeLoads(t) /\ HasNames(t)

\* The join of get_session with the ongoing take has one row.
SessionLoads == \A t, u \in Takes : take[t] = "ongoing" /\ take[u] = "ongoing" => t = u

\* FinishedTakeDetail::new: the state of a take is that of its files.
DetailFits(state, files) ==
  CASE state = "uploading" -> "uploading" \in files
    [] state = "completed" -> files = {"completed"}
    [] state = "errored"   -> "uploading" \notin files

\* A page of list_finished_takes loads its takes, or none of them.
TakeLoads(t) == LoadTake(TakeColumns(t)) = take[t]

DetailLoads(t) ==
  /\ \A c \in VideosOf(t) : LoadVideo(VideoColumns(video[t][c])) = video[t][c]
  /\ DetailFits(take[t], {LoadVideo(VideoColumns(video[t][c])) : c \in VideosOf(t)})

FinishedTakeLoads(t) == TakeLoads(t) /\ DetailLoads(t)

-----------------------------------------------------------------------------
\* Whatever the transactions have committed, in whatever order, satisfies the
\* constraints of the tables and loads as what was saved: no sequence of requests
\* ends in a take or a session that can be neither shown nor finished, and no save
\* meets a CHECK that would roll its transaction back.
EveryRowLoads ==
  /\ \A c \in Cameras : HasConnection(c) => CameraLoads(c)
  /\ SessionLoads
  /\ \A t \in Takes :
       /\ take[t] # "absent" => TakeValid(take[t], TakeColumns(t))
       /\ \A c \in RowsOf(t) : ErrorValid(RecordingColumns(row[t][c]))
       /\ \A c \in VideosOf(t) : VideoValid(VideoColumns(video[t][c]))
       /\ take[t] = "ongoing" => OngoingViewLoads(t)
       /\ Finished(t) => FinishedTakeLoads(t)
=============================================================================
