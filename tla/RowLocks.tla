------------------------------ MODULE RowLocks ------------------------------
(***************************************************************************)
(* The row locks of the transactions of module Store: which rows each      *)
(* query of kinugasa-mysql locks, in which order the use cases run the     *)
(* queries, and what comes of transactions that wait for each other.       *)
(*                                                                         *)
(* The rows are changed when a transaction commits: nobody else sees them  *)
(* before. InnoDB is modelled by what the isolation level the code leaves  *)
(* at its default, REPEATABLE READ, gives the queries: a locking read      *)
(* locks every row it meets, a row that is inserted locks the rows its     *)
(* foreign keys refer to, a locking read that finds nothing locks the gap, *)
(* and one transaction of a deadlock is rolled back, whichever.            *)
(***************************************************************************)
EXTENDS Store, Naturals, FiniteSets, Sequences, SequencesExt

CONSTANTS
  NoCamera,   \* no camera: in the name of a row that is about none
  MaxActive   \* bound: transactions that run at a time

ASSUME FinitenessAssumption == IsFiniteSet(Takes) /\ IsFiniteSet(Cameras)
ASSUME MaxActiveAssumption == MaxActive \in Nat \ {0}

VARIABLES
  held,       \* the running transactions, with the locks they hold
  seen        \* what the unlocked read of a transaction has returned

storeVars == <<take, row, video, finalized, conn, deleting>>
vars == <<storeVars, held, seen>>

Running == DOMAIN held

-----------------------------------------------------------------------------
(* Rows and locks.                                                         *)

\* A row, or a table with its gaps: its table, and the take and camera of its key.
Tables == {"session", "camera_identities", "camera_connections", "takes",
           "recording_cameras", "video_files", "finalized_recordings"}
Name == Tables \X (Takes \cup {NoTake}) \X (Cameras \cup {NoCamera})

SessionRow          == <<"session", NoTake, NoCamera>>
IdentityRow(c)      == <<"camera_identities", NoTake, c>>
ConnectionRow(c)    == <<"camera_connections", NoTake, c>>
TakeRow(t)          == <<"takes", t, NoCamera>>
RecordingRow(t, c)  == <<"recording_cameras", t, c>>
VideoRow(t, c)      == <<"video_files", t, c>>
FinalizedRow(t, c)  == <<"finalized_recordings", t, c>>
FinalizedTable      == <<"finalized_recordings", NoTake, NoCamera>>

RowLock == [on : Name, mode : {"X", "S", "gap", "insert"}]

Exclusive(name) == [on |-> name, mode |-> "X"]
Shared(name)    == [on |-> name, mode |-> "S"]
Gap(table)      == [on |-> table, mode |-> "gap"]
Insertion(table) == [on |-> table, mode |-> "insert"]

\* A lock that is asked for conflicts with one that is held. Gaps are locked by
\* anyone, but filled only by one who is alone with the lock.
Conflicts(asked, other) ==
  /\ asked.on = other.on
  /\ <<asked.mode, other.mode>> \in
       {<<"X", "X">>, <<"X", "S">>, <<"S", "X">>, <<"insert", "gap">>}

\* A lock that is held already, or a stronger one, is not asked for.
Covers(locks, lock) ==
  \E own \in locks : own.on = lock.on /\ own.mode \in {"X", lock.mode}

ExistingTakes  == {t \in Takes : take[t] # "absent"}
OngoingTakes   == {t \in Takes : take[t] = "ongoing"}
RowsOf(t)      == {c \in Cameras : row[t][c] # "none"}
VideosOf(t)    == {c \in Cameras : video[t][c] # "none"}

\* What a transaction with these locks is left to ask for of a set of locks.
Missing(own, locks) == {lock \in locks : ~ Covers(own, lock)}

-----------------------------------------------------------------------------
(* The queries. Each is a sequence of sets of locks: the order in which it *)
(* takes those of a set is up to the index it reads.                       *)

IsThrough(own, query) == \A i \in DOMAIN query : Missing(own, query[i]) = {}

\* The locks of the first set of which any is missing.
NextOf(own, query) ==
  UNION {Missing(own, query[i]) :
           i \in {j \in DOMAIN query : \A k \in 1 .. j - 1 : Missing(own, query[k]) = {}}}

\* The takes of the session are joined, and locked, to find the ongoing one.
GetSessionForUpdate ==
  <<{Exclusive(SessionRow)}, {Exclusive(TakeRow(t)) : t \in ExistingTakes}>>

GetCameraForUpdate(c) ==
  <<{Exclusive(SessionRow)}, {Exclusive(IdentityRow(c))}, {Exclusive(ConnectionRow(c))}>>

GetCameraByIdForUpdate(c) ==
  <<{Exclusive(IdentityRow(c))}, {Exclusive(ConnectionRow(c))}>>

CreateCameraRows(c) ==
  <<{Shared(SessionRow)}, {Exclusive(IdentityRow(c))}, {Exclusive(ConnectionRow(c))}>>

SaveCameraConnection(c) == <<{Exclusive(ConnectionRow(c))}>>

\* The foreign key of recording_cameras has their rows checked.
DeleteCameraConnection(c) ==
  <<{Exclusive(ConnectionRow(c))},
    {Shared(RecordingRow(t, c)) : t \in {u \in Takes : row[u][c] # "none"}}>>

LoadFinishedTake(t) == IF Finished(t) THEN <<{Exclusive(TakeRow(t))}>> ELSE <<>>

GetTakeForUpdate(t) == <<{Exclusive(TakeRow(t))}>> \o LoadFinishedTake(t)

LoadRecordingCameras(t) == <<{Exclusive(RecordingRow(t, c)) : c \in RowsOf(t)}>>

\* The ongoing take of the session, when there is one.
OngoingTake == CHOOSE t \in OngoingTakes : TRUE

\* It is looked for among all takes of the session.
GetOngoingTakeForUpdate ==
  <<{Exclusive(SessionRow)}, {Exclusive(TakeRow(t)) : t \in ExistingTakes}>>
    \o IF OngoingTakes = {} THEN <<>> ELSE LoadRecordingCameras(OngoingTake)

InsertOngoingTakeRows(t, cs) ==
  <<{Shared(SessionRow)}, {Exclusive(TakeRow(t))},
    UNION {{Shared(IdentityRow(c)), Shared(ConnectionRow(c))} : c \in cs},
    {Exclusive(RecordingRow(t, c)) : c \in cs}>>

\* The foreign keys of a video are its take, which is locked, and its camera.
InsertVideoFile(t, c) == {Shared(IdentityRow(c)), Exclusive(VideoRow(t, c))}

ReplaceOngoingWithFinished(t) ==
  <<{Exclusive(TakeRow(t))}, UNION {InsertVideoFile(t, c) : c \in RowsOf(t)}>>

SaveFinishedTake(t) == <<{Exclusive(TakeRow(t))}>>

DeleteRecordingCameras(t) == <<{Exclusive(RecordingRow(t, c)) : c \in RowsOf(t)}>>

GetRecordingCameraForUpdate(t, c) == <<{Exclusive(RecordingRow(t, c))}>>

SaveRecordingCamera(t, c) == <<{Exclusive(RecordingRow(t, c))}>>

GetVideoFileForUpdate(t, c) == <<{Exclusive(VideoRow(t, c))}>>

ListVideoFilesForTakeForUpdate(t) == <<{Exclusive(VideoRow(t, c)) : c \in VideosOf(t)}>>

SaveVideoFile(t, c) == <<{Exclusive(VideoRow(t, c))}>>

\* Identities of takes grow with time, so the rows of takes that are not staged
\* yet may fall into one gap.
GetFinalizedRecordingForUpdate(t, c) ==
  IF <<t, c>> \in finalized THEN <<{Exclusive(FinalizedRow(t, c))}>>
  ELSE <<{Gap(FinalizedTable)}>>

InsertFinalizedRecording(t, c) ==
  <<{Shared(TakeRow(t)), Shared(IdentityRow(c))}, {Insertion(FinalizedTable)},
    {Exclusive(FinalizedRow(t, c))}>>

\* get_ongoing_recording_for_camera, which locks nothing.
OngoingRecordings(c) == {t \in OngoingTakes : row[t][c] # "none"}

\* list_uploading_video_files_for_camera, which locks nothing.
UploadingVideos(c) == {t \in Takes : video[t][c] = "uploading"}

-----------------------------------------------------------------------------
(* The transactions: a kind, the take and the cameras they are about; each *)
(* is a sequence of queries. What is done on one take is one query here.   *)

Transaction(kind, t, cs) == [kind |-> kind, take |-> t, cameras |-> cs]

TakeKinds   == {"started", "failed", "stage", "upload"}
CameraKinds == {"create", "delete", "forced_delete", "connected", "lost",
                "provisioned", "deletion"}

Transactions ==
  {Transaction("start", t, cs) : t \in Takes, cs \in UNION {SetToSeqs(S) : S \in (SUBSET Cameras) \ {{}}}}
    \cup {Transaction("finish", NoTake, <<>>)}
    \cup {Transaction(kind, t, <<c>>) : kind \in TakeKinds, t \in Takes, c \in Cameras}
    \cup {Transaction(kind, NoTake, <<c>>) : kind \in CameraKinds, c \in Cameras}

\* converge_finished_take, after the video of a camera has been settled.
ConvergeFinishedTake(t, c) ==
  ListVideoFilesForTakeForUpdate(t)
    \o IF \E d \in Cameras \ {c} : video[t][d] = "uploading" THEN <<>>
       ELSE SaveFinishedTake(t) \o DeleteRecordingCameras(t)

FailVideoFile(t, c) ==
  GetVideoFileForUpdate(t, c)
    \o IF video[t][c] = "uploading"
       THEN SaveVideoFile(t, c) \o ConvergeFinishedTake(t, c) ELSE <<>>

FailUpload(t, c) == GetTakeForUpdate(t) \o FailVideoFile(t, c)

PersistRecordingStarted(t, c) ==
  GetTakeForUpdate(t) \o GetRecordingCameraForUpdate(t, c) \o SaveRecordingCamera(t, c)

\* Mutant of FailRecording: the recording is locked ahead of its take.
FailRecordingRowFirst(t, c) ==
  GetRecordingCameraForUpdate(t, c) \o GetTakeForUpdate(t)
    \o IF Finished(t) THEN FailVideoFile(t, c) ELSE <<>>

\* persist_recording_failure.
FailRecording(t, c) ==
  GetTakeForUpdate(t) \o GetRecordingCameraForUpdate(t, c)
    \o IF Finished(t) THEN FailVideoFile(t, c) ELSE <<>>

IsReady(c) == conn[c] = "connected" /\ c \notin deleting

\* start_take goes through its cameras up to the first that is not connected.
StartTake(t, cs) ==
  <<GetSessionForUpdate>>
    \o [i \in DOMAIN cs |->
          IF \A j \in 1 .. i - 1 : IsReady(cs[j]) THEN GetCameraForUpdate(cs[i]) ELSE <<>>]
    \o <<IF \A c \in ToSet(cs) : IsReady(c) THEN InsertOngoingTakeRows(t, ToSet(cs)) ELSE <<>>>>

ReplaceOngoing(t) ==
  ReplaceOngoingWithFinished(t)
    \o IF \E c \in Cameras : row[t][c] = "recording" THEN <<>> ELSE DeleteRecordingCameras(t)

FinishTake ==
  <<GetOngoingTakeForUpdate, IF OngoingTakes = {} THEN <<>> ELSE ReplaceOngoing(OngoingTake)>>

StageFinalized(t, c) ==
  GetTakeForUpdate(t) \o GetFinalizedRecordingForUpdate(t, c)
    \o IF <<t, c>> \in finalized THEN GetVideoFileForUpdate(t, c)
       ELSE GetRecordingCameraForUpdate(t, c)
              \o IF row[t][c] = "recording"
                 THEN InsertFinalizedRecording(t, c) \o GetVideoFileForUpdate(t, c)
                 ELSE <<>>

PersistUpload(t, c) ==
  GetTakeForUpdate(t) \o GetFinalizedRecordingForUpdate(t, c) \o FailVideoFile(t, c)

\* A query on each take that the unlocked read of the transaction has returned.
OnEachRead(x, Query(_)) ==
  IF x \in DOMAIN seen
  THEN LET takes == SetToSeq(seen[x]) IN [i \in DOMAIN takes |-> Query(takes[i])]
  ELSE <<>>

\* The recording to fail is read without a lock.
ProcessEvent(x, c) ==
  <<GetCameraByIdForUpdate(c), SaveCameraConnection(c)>>
    \o OnEachRead(x, LAMBDA t : FailRecording(t, c))

\* Mutant of DeleteCamera: the camera is not locked before its videos are read.
DeleteCameraRead(x, c) ==
  OnEachRead(x, LAMBDA t : FailUpload(t, c))
    \o IF x \in DOMAIN seen THEN <<SaveCameraConnection(c)>> ELSE <<>>

\* So are the recordings of a camera that is to be deleted.
DeleteCamera(x, c) ==
  <<GetCameraForUpdate(c)>>
    \o OnEachRead(x, LAMBDA t : FailUpload(t, c))
    \o IF x \in DOMAIN seen THEN <<SaveCameraConnection(c)>> ELSE <<>>

Queries(x) ==
  LET t == x.take
      c == x.cameras[1]
  IN CASE x.kind = "start"  -> StartTake(t, x.cameras)
       [] x.kind = "finish" -> FinishTake
       [] x.kind = "create" -> <<GetSessionForUpdate, CreateCameraRows(c)>>
       [] x.kind \in {"delete", "forced_delete"} -> DeleteCamera(x, c)
       [] x.kind \in {"connected", "lost"} -> ProcessEvent(x, c)
       [] x.kind = "provisioned" -> <<GetCameraByIdForUpdate(c), SaveCameraConnection(c)>>
       [] x.kind = "deletion" -> <<DeleteCameraConnection(c)>>
       [] x.kind = "started" -> <<PersistRecordingStarted(t, c)>>
       [] x.kind = "failed"  -> <<FailRecording(t, c)>>
       [] x.kind = "stage"   -> <<StageFinalized(t, c)>>
       [] x.kind = "upload"  -> <<PersistUpload(t, c)>>

\* The locks a transaction asks for next: those of the first query that misses any.
NextLocks(x) ==
  LET queries == Queries(x)
      own == held[x]
  IN UNION {NextOf(own, queries[i]) :
              i \in {j \in DOMAIN queries : \A k \in 1 .. j - 1 : IsThrough(own, queries[k])}}

HasAllLocks(x) ==
  LET queries == Queries(x) IN \A i \in DOMAIN queries : IsThrough(held[x], queries[i])

\* The transactions that keep x from a lock, and, when there is no lock it gets,
\* from going on.
Holders(x, lock) ==
  {y \in Running \ {x} : \E other \in held[y] : Conflicts(lock, other)}

Blockers(x) ==
  LET holders == {Holders(x, lock) : lock \in NextLocks(x)}
  IN IF {} \in holders THEN {} ELSE UNION holders

\* The sets of transactions of which each waits for another one of the set.
Deadlocks ==
  LET blockers == [x \in Running |-> Blockers(x)]
      waiting == {x \in Running : blockers[x] # {}}
      knots == {S \in (SUBSET waiting) \ {{}} : \A x \in S : blockers[x] \cap S # {}}
  IN {S \in knots : \A K \in knots : K \subseteq S => K = S}

-----------------------------------------------------------------------------
(* Their steps.                                                            *)

Init ==
  /\ StoreInit
  /\ held = <<>>
  /\ seen = <<>>

\* What has the backend begin a transaction: a request, an event of a worker, a
\* task of a pass, or one of start_take or finish_take.
MayBegin(x) ==
  LET t == x.take
      c == x.cameras[1]
  IN CASE x.kind = "start" -> take[t] = "absent"
       [] x.kind \in {"finish", "delete", "forced_delete"} -> TRUE
       [] x.kind = "create" -> conn[c] = "absent"
       [] x.kind \in {"connected", "lost", "provisioned"} -> HasConnection(c)
       [] x.kind = "deletion" -> c \in deleting
       [] x.kind \in {"started", "failed"} -> row[t][c] # "none" \/ video[t][c] # "none"
       [] x.kind = "stage"  -> video[t][c] # "none"
       [] x.kind = "upload" -> <<t, c>> \in PendingUploads

Begin(x) ==
  /\ x \notin Running /\ Cardinality(Running) < MaxActive
  /\ MayBegin(x)
  /\ held' = [y \in Running \cup {x} |-> IF y = x THEN {} ELSE held[y]]
  /\ UNCHANGED <<storeVars, seen>>

\* The next lock is granted.
Lock(x) ==
  /\ x \in Running
  /\ \E lock \in NextLocks(x) :
       /\ Holders(x, lock) = {}
       /\ held' = [held EXCEPT ![x] = @ \cup {lock}]
  /\ UNCHANGED <<storeVars, seen>>

\* Mutant of Ends: what it has read outlives it.
EndsKeepingRead(x) ==
  /\ held' = [y \in Running \ {x} |-> held[y]]
  /\ UNCHANGED seen

\* The transaction is over, and holds no lock any more.
Ends(x) ==
  /\ held' = [y \in Running \ {x} |-> held[y]]
  /\ seen' = [y \in DOMAIN seen \ {x} |-> seen[y]]

IsDeletion(x) == x.kind \in {"delete", "forced_delete"}

MustRead(x) ==
  /\ x \notin DOMAIN seen
  /\ x.kind = "lost" \/ IsDeletion(x)

\* delete_camera goes on to delete: what it has found does not refuse it.
MayDelete(x, c) ==
  /\ HasConnection(c) /\ c \notin deleting
  /\ OngoingRecordings(c) = {}
  /\ x.kind = "forced_delete" \/ UploadingVideos(c) = {}

\* A read without a lock.
Read(x) ==
  LET c == x.cameras[1] IN
  /\ x \in Running /\ HasAllLocks(x) /\ MustRead(x)
  /\ IF IsDeletion(x) /\ ~ MayDelete(x, c) THEN Ends(x)
     ELSE /\ seen' = [y \in DOMAIN seen \cup {x} |->
                       IF y # x THEN seen[y]
                       ELSE IF IsDeletion(x) THEN UploadingVideos(c)
                       ELSE {t \in OngoingRecordings(c) : row[t][c] = "recording"}]
          /\ UNCHANGED held
  /\ UNCHANGED storeVars

\* What a forced deletion does with the videos it has read.
CommitDeletion(x, c) ==
  /\ SaveTakes(row, [t \in Takes |-> [d \in Cameras |->
       IF d = c /\ t \in seen[x] /\ video[t][d] = "uploading" THEN "forced" ELSE video[t][d]]])
  /\ deleting' = deleting \cup {c}
  /\ UNCHANGED <<finalized, conn>>

\* Mutant of CommitInput: a camera that connects fails the recording it had, unlocked.
CommitInputAnew(x, c, state) ==
  LET reason == IF state = "waiting" THEN "disconnected" ELSE "input"
      failed == IF x \in DOMAIN seen THEN seen[x] ELSE {t \in Takes : row[t][c] = "recording"}
      applies == AcceptsInputState(c) /\ \A t \in failed : ~ FailureConflicts(t, c, reason)
  IN /\ conn' = IF applies THEN [conn EXCEPT ![c] = state] ELSE conn
     /\ IF applies /\ failed # {}
        THEN \E t \in failed : PersistRecordingFailure(t, c, reason)
        ELSE UNCHANGED takeRows
     /\ UNCHANGED <<finalized, deleting>>

\* What an event does with the recording it has read; if that conflicts, all is
\* rolled back.
CommitInput(x, c, state) ==
  LET reason == IF state = "waiting" THEN "disconnected" ELSE "input"
      failed == IF x \in DOMAIN seen THEN seen[x] ELSE {}
      applies == AcceptsInputState(c) /\ \A t \in failed : ~ FailureConflicts(t, c, reason)
  IN /\ conn' = IF applies THEN [conn EXCEPT ![c] = state] ELSE conn
     /\ IF applies /\ failed # {}
        THEN \E t \in failed : PersistRecordingFailure(t, c, reason)
        ELSE UNCHANGED takeRows
     /\ UNCHANGED <<finalized, deleting>>

\* What a transaction that has its locks and its reads commits, if it is not
\* refused.
Commits(x) ==
  LET t == x.take
      c == x.cameras[1]
  IN CASE x.kind = "start" ->
            InsertOngoingTake(t, ToSet(x.cameras)) /\ UNCHANGED <<finalized, conn, deleting>>
       [] x.kind = "finish" ->
            (\E u \in Takes : FinishOngoingTake(u)) /\ UNCHANGED <<finalized, conn, deleting>>
       [] x.kind = "create" -> InsertCamera(c) /\ UNCHANGED <<takeRows, finalized>>
       [] IsDeletion(x) -> CommitDeletion(x, c)
       [] x.kind = "connected" -> CommitInput(x, c, "connected")
       [] x.kind = "lost" -> CommitInput(x, c, "waiting")
       [] x.kind = "provisioned" -> SaveProvisioned(c) /\ UNCHANGED <<takeRows, finalized>>
       [] x.kind = "deletion" -> DeleteConnection(c) /\ UNCHANGED <<takeRows, finalized>>
       [] x.kind = "started" -> UNCHANGED storeVars
       [] x.kind = "failed" ->
            PersistRecordingFailure(t, c, "media") /\ UNCHANGED <<finalized, conn, deleting>>
       [] x.kind = "stage" ->
            StageFinalizedRecording(t, c) /\ UNCHANGED <<takeRows, conn, deleting>>
       [] x.kind = "upload" ->
            PersistUploadResult(t, c, "completed") /\ UNCHANGED <<finalized, conn, deleting>>

\* A request that finds nothing to do is refused.
IsRefused(x) ==
  LET cs == ToSet(x.cameras) IN
  \/ /\ x.kind = "start"
     /\ \/ OngoingTakes # {} \/ take[x.take] # "absent"
        \/ \E c \in cs : conn[c] # "connected" \/ c \in deleting
  \/ x.kind = "finish" /\ OngoingTakes = {}
  \/ x.kind = "create" /\ \A c \in cs : conn[c] # "absent"

Commit(x) ==
  /\ x \in Running /\ HasAllLocks(x) /\ ~ MustRead(x)
  /\ IF IsRefused(x) THEN UNCHANGED storeVars ELSE Commits(x)
  /\ Ends(x)

\* InnoDB breaks a deadlock: one transaction is rolled back, and its query
\* returns an error.
Abort(x) ==
  /\ x \in Running /\ \E S \in Deadlocks : x \in S
  /\ Ends(x)
  /\ UNCHANGED storeVars

Next ==
  \E x \in Transactions : Begin(x) \/ Lock(x) \/ Read(x) \/ Commit(x) \/ Abort(x)

Spec == Init /\ [][Next]_vars

-----------------------------------------------------------------------------
(* Properties.                                                             *)

TypeOK ==
  /\ StoreTypeOK
  /\ Running \subseteq Transactions /\ Cardinality(Running) <= MaxActive
  /\ \A x \in Running : held[x] \subseteq RowLock
  /\ DOMAIN seen \subseteq Running
  /\ \A x \in DOMAIN seen : seen[x] \subseteq Takes

\* What a transaction has locked rows for is decided: no commit of another one takes
\* it another way, on which it would not ask for a lock it holds.
DecisionsStand ==
  \A x \in Running :
    LET queries == Queries(x) IN
    \A lock \in held[x] :
      \E i \in DOMAIN queries : \E j \in DOMAIN queries[i] : lock \in queries[i][j]

\* Transactions may only deadlock where a loser is known: one is the event of an input
\* that was lost or the deletion of a connection, or all stage recordings or force a
\* deletion.
DeadlocksAreKnown ==
  \A S \in Deadlocks :
    \/ \E x \in S : x.kind \in {"lost", "deletion"}
    \/ \A x \in S : x.kind \in {"stage", "forced_delete"}

\* A transaction is one step of module Store, or none, although it reads some rows it does
\* not lock: what it has read still holds when it commits, or it is rolled back.
TransactionsAreAtomic ==
  [][\A x \in Running \ DOMAIN held' :
       \/ UNCHANGED storeVars
       \/ /\ IsDeletion(x) => RequestDeletion(x.cameras[1], x.kind = "forced_delete")
          /\ x.kind = "lost" => ApplyInputState(x.cameras[1], "waiting")]_vars
=============================================================================
