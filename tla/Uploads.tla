------------------------------- MODULE Uploads -------------------------------
(***************************************************************************)
(* The way of a recording from the disk to the object storage: the file of *)
(* the worker (kinugasa-media/src/recording.rs), which has to be on disk   *)
(* for good before it is staged, and its upload (upload_coordinator.rs,    *)
(* kinugasa-s3), a conditional put that is repeated when its answer is     *)
(* lost, while the first request may still be under way.                   *)
(*                                                                         *)
(* A recording is one camera of one take; no two have the same path.       *)
(* Its contents are abstracted to the number of packets in them.           *)
(***************************************************************************)
EXTENDS Naturals, FiniteSets

CONSTANTS
  Recordings,
  Limit,        \* of uploads in a pass
  MaxPackets,   \* bound: packets of a recording
  MaxMeddling   \* bound: operations of others on the bucket

ASSUME LimitAssumption == Limit \in Nat \ {0}
ASSUME BoundsAssumption == MaxPackets \in Nat /\ MaxMeddling \in Nat
ASSUME RecordingsAssumption == IsFiniteSet(Recordings)

VARIABLES
  file,       \* how far the recording file has got
  written,    \* packets written to it
  data,       \* packets in it
  synced,     \* packets that a power loss leaves in it
  names,      \* its directory entries
  durable,    \* the entries that a power loss may leave
  finishedAt, \* of the finalized recording, 0 for none
  video,      \* the row of the recording: of its camera, then of its video
  staged,     \* finalized_recordings
  task,       \* of the recording in the pass of uploads
  hash,       \* what the task has hashed
  requests,   \* the puts under way
  objects,    \* the bucket
  stored,     \* the objects this program has created
  foreign,    \* the objects others have created
  meddling    \* operations of others so far

diskVars   == <<written, data, synced, names, durable>>
fileVars   == <<file, diskVars, finishedAt>>
rowVars    == <<video, staged>>
taskVars   == <<task, hash>>
bucketVars == <<requests, objects, stored, foreign, meddling>>
vars == <<fileVars, rowVars, taskVars, bucketVars>>

Contents == 0 .. MaxPackets

\* content_addressed_key: the path, which names the recording, and the hash.
Key == [recording : Recordings, hash : Contents]

Entries == {"partial", "final"}

TypeOK ==
  /\ file \in [Recordings -> {"none", "open", "finishing", "synced", "linked", "removed",
                              "finished", "failed"}]
  /\ written \in [Recordings -> Contents]
  /\ data \in [Recordings -> Contents] /\ synced \in [Recordings -> Contents]
  /\ names \in [Recordings -> SUBSET Entries]
  /\ durable \in [Recordings -> SUBSET SUBSET Entries]
  /\ finishedAt \in [Recordings -> 0 .. Cardinality(Recordings)]
  /\ video \in [Recordings -> {"none", "recording", "uploading", "completed", "errored"}]
  /\ staged \subseteq Recordings
  /\ task \in [Recordings -> {"idle", "listed", "put", "head", "stored", "conflict"}]
  /\ hash \in [Recordings -> Contents]
  /\ requests \subseteq [key : Key, late : BOOLEAN]
  /\ objects \in [Key -> {"none", "ours", "foreign"}]
  /\ stored \subseteq Key /\ foreign \subseteq Key
  /\ meddling \in 0 .. MaxMeddling

Init ==
  /\ file = [r \in Recordings |-> "none"]
  /\ written = [r \in Recordings |-> 0]
  /\ data = [r \in Recordings |-> 0] /\ synced = [r \in Recordings |-> 0]
  /\ names = [r \in Recordings |-> {}] /\ durable = [r \in Recordings |-> {{}}]
  /\ finishedAt = [r \in Recordings |-> 0]
  /\ video = [r \in Recordings |-> "none"] /\ staged = {}
  /\ task = [r \in Recordings |-> "idle"] /\ hash = [r \in Recordings |-> 0]
  /\ requests = {} /\ objects = [k \in Key |-> "none"]
  /\ stored = {} /\ foreign = {} /\ meddling = 0

-----------------------------------------------------------------------------
(* The recording file.                                                     *)

\* A change of a directory reaches the disk some time later. Entries of the
\* directories above are taken to get there with it.
Names(r, entries) ==
  /\ names' = [names EXCEPT ![r] = entries]
  /\ durable' = [durable EXCEPT ![r] = @ \cup {entries}]

Becomes(r, step) == file' = [file EXCEPT ![r] = step]

Create(r) ==
  /\ video[r] = "none"
  /\ \/ /\ Becomes(r, "open")
        /\ Names(r, {"partial"})
        /\ video' = [video EXCEPT ![r] = "recording"]
     \/ /\ Becomes(r, "failed")
        /\ video' = [video EXCEPT ![r] = "errored"]
        /\ UNCHANGED <<names, durable>>
  /\ UNCHANGED <<written, data, synced, finishedAt, staged, taskVars, bucketVars>>

Write(r) ==
  /\ file[r] = "open" /\ written[r] < MaxPackets
  /\ written' = [written EXCEPT ![r] = @ + 1]
  /\ data' = [data EXCEPT ![r] = @ + 1]
  /\ UNCHANGED <<file, synced, names, durable, finishedAt, rowVars, taskVars, bucketVars>>

\* The input fails: the partial file is removed, or stays.
Abort(r) ==
  /\ file[r] = "open"
  /\ Becomes(r, "failed")
  /\ Names(r, {}) \/ UNCHANGED <<names, durable>>
  /\ video' = [video EXCEPT ![r] = "errored"]
  /\ UNCHANGED <<written, data, synced, finishedAt, staged, taskVars, bucketVars>>

\* finish_take makes the video, then asks the worker to finish the file.
FinishTake(r) ==
  /\ video[r] = "recording" /\ file[r] = "open"
  /\ video' = [video EXCEPT ![r] = "uploading"]
  /\ Becomes(r, "finishing")
  /\ UNCHANGED <<diskVars, finishedAt, staged, taskVars, bucketVars>>

\* Mutant of SyncFile: the file is flushed, but not synced.
SyncFileFlushing(r) ==
  /\ file[r] = "finishing"
  /\ Becomes(r, "synced")
  /\ UNCHANGED <<written, data, synced, names, durable, finishedAt, rowVars, taskVars,
                 bucketVars>>

SyncFile(r) ==
  /\ file[r] = "finishing"
  /\ Becomes(r, "synced")
  /\ synced' = [synced EXCEPT ![r] = data[r]]
  /\ UNCHANGED <<written, data, names, durable, finishedAt, rowVars, taskVars, bucketVars>>

LinkFinal(r) ==
  /\ file[r] = "synced"
  /\ Becomes(r, "linked")
  /\ Names(r, names[r] \cup {"final"})
  /\ UNCHANGED <<written, data, synced, finishedAt, rowVars, taskVars, bucketVars>>

RemovePartial(r) ==
  /\ file[r] = "linked"
  /\ Becomes(r, "removed")
  /\ Names(r, names[r] \ {"partial"})
  /\ UNCHANGED <<written, data, synced, finishedAt, rowVars, taskVars, bucketVars>>

SyncParent(r) ==
  /\ file[r] = "removed"
  /\ Becomes(r, "finished")
  /\ durable' = [durable EXCEPT ![r] = {names[r]}]
  /\ finishedAt' = [finishedAt EXCEPT ![r] =
                      Cardinality({s \in Recordings : finishedAt[s] # 0}) + 1]
  /\ UNCHANGED <<written, data, synced, names, rowVars, taskVars, bucketVars>>

\* A step of finish fails, and with it the video.
FinishFails(r) ==
  /\ file[r] \in {"finishing", "synced", "linked", "removed"}
  /\ Becomes(r, "failed")
  /\ video' = [video EXCEPT ![r] = "errored"]
  /\ UNCHANGED <<diskVars, finishedAt, staged, taskVars, bucketVars>>

\* stage_finalized_recording: of a video that was failed meanwhile too, if its
\* take still has one that uploads.
Stage(r) ==
  /\ file[r] = "finished" /\ r \notin staged
  /\ staged' = staged \cup {r}
  /\ UNCHANGED <<fileVars, video, taskVars, bucketVars>>

\* The camera is deleted by force.
ForceDelete(r) ==
  /\ video[r] = "uploading"
  /\ video' = [video EXCEPT ![r] = "errored"]
  /\ UNCHANGED <<fileVars, staged, taskVars, bucketVars>>

-----------------------------------------------------------------------------
(* Restarts.                                                               *)

\* What a restart leaves: files that are not staged are abandoned, videos that
\* upload are failed by recover_after_restart, requests are on their way.
Restarted ==
  /\ file' = [r \in Recordings |->
                IF file[r] = "none" \/ r \in staged THEN file[r] ELSE "failed"]
  /\ video' = [r \in Recordings |->
                 IF video[r] \in {"recording", "uploading"} THEN "errored" ELSE video[r]]
  /\ task' = [r \in Recordings |-> "idle"]
  /\ requests' = [key : {q.key : q \in requests}, late : {TRUE}]
  /\ UNCHANGED <<written, synced, finishedAt, staged, hash, objects, stored, foreign,
                 meddling>>

Kill == Restarted /\ UNCHANGED <<data, names, durable>>

\* The machine stops: files and directories fall back to what is on disk.
PowerLoss ==
  /\ Restarted
  /\ data' \in [Recordings -> Contents]
  /\ \A r \in Recordings : synced[r] <= data'[r] /\ data'[r] <= data[r]
  /\ names' \in [Recordings -> SUBSET Entries]
  /\ \A r \in Recordings : names'[r] \in durable[r]
  /\ durable' = [r \in Recordings |-> {names'[r]}]

-----------------------------------------------------------------------------
(* A pass of the uploads.                                                  *)

Pending == {r \in staged : video[r] = "uploading"}

\* The uploads that finished first, up to the limit.
IsBatch(batch) ==
  /\ batch = Pending \/ Cardinality(batch) = Limit
  /\ Cardinality(batch) <= Limit
  /\ \A r \in batch, s \in Pending \ batch : finishedAt[r] < finishedAt[s]

\* The tasks of a pass end before the next pass begins.
ListUploads ==
  /\ task = [r \in Recordings |-> "idle"]
  /\ \E batch \in (SUBSET Pending) \ {{}} :
       /\ IsBatch(batch)
       /\ task' = [r \in Recordings |-> IF r \in batch THEN "listed" ELSE "idle"]
  /\ UNCHANGED <<fileVars, rowVars, hash, bucketVars>>

Continues(r, step) == task' = [task EXCEPT ![r] = step]

KeyOf(r) == [recording |-> r, hash |-> hash[r]]

\* Mutant of Put: the whole buffer is hashed, with what an earlier read left in it.
PutHashingBuffer(r) ==
  /\ task[r] = "listed" /\ "final" \in names[r]
  /\ Continues(r, "put")
  /\ hash' = [hash EXCEPT ![r] = data[r] + 1]
  /\ requests' = requests
       \cup {[key |-> [recording |-> r, hash |-> data[r] + 1], late |-> FALSE]}
  /\ UNCHANGED <<fileVars, rowVars, objects, stored, foreign, meddling>>

\* prepare_upload, and the request.
Put(r) ==
  /\ task[r] = "listed" /\ "final" \in names[r]
  /\ Continues(r, "put")
  /\ hash' = [hash EXCEPT ![r] = data[r]]
  /\ requests' = requests
       \cup {[key |-> [recording |-> r, hash |-> data[r]], late |-> FALSE]}
  /\ UNCHANGED <<fileVars, rowVars, objects, stored, foreign, meddling>>

\* The bucket creates an object unless its key is taken.
Serves(k) ==
  IF objects[k] = "none"
  THEN objects' = [objects EXCEPT ![k] = "ours"] /\ stored' = stored \cup {k}
  ELSE UNCHANGED <<objects, stored>>

PutAnswered(r) ==
  LET put == [key |-> KeyOf(r), late |-> FALSE]
  IN /\ task[r] = "put" /\ put \in requests
     /\ requests' = requests \ {put}
     /\ Serves(put.key)
     /\ Continues(r, IF objects[put.key] = "none" THEN "stored" ELSE "head")
     /\ UNCHANGED <<fileVars, rowVars, hash, foreign, meddling>>

\* Mutant of PutUnanswered: the task waits on.
PutNeverAnswered(r) ==
  LET put == [key |-> KeyOf(r), late |-> FALSE]
  IN /\ task[r] = "put" /\ put \in requests
     /\ requests' = (requests \ {put}) \cup {[key |-> put.key, late |-> TRUE]}
     /\ UNCHANGED <<fileVars, rowVars, taskVars, objects, stored, foreign, meddling>>

\* No answer comes, and the request may be under way still.
PutUnanswered(r) ==
  LET put == [key |-> KeyOf(r), late |-> FALSE]
  IN /\ task[r] = "put" /\ put \in requests
     /\ requests' = (requests \ {put}) \cup {[key |-> put.key, late |-> TRUE]}
     /\ Continues(r, "idle")
     /\ UNCHANGED <<fileVars, rowVars, hash, objects, stored, foreign, meddling>>

\* A request that is not waited for is served, or lost.
LatePut ==
  \E q \in requests :
    /\ q.late
    /\ requests' = requests \ {q}
    /\ Serves(q.key) \/ UNCHANGED <<objects, stored>>
    /\ UNCHANGED <<fileVars, rowVars, taskVars, foreign, meddling>>

\* Mutant of Verdict: an object that is there already is a conflict.
VerdictUnseen(object) == IF object = "none" THEN "idle" ELSE "conflict"

\* What the head request of a put that was refused says: it is the same object,
\* another one, or gone already and left to the next pass.
Verdict(object) ==
  IF object = "ours" THEN "stored"
  ELSE IF object = "foreign" THEN "conflict" ELSE "idle"

HeadAnswered(r) ==
  /\ task[r] = "head"
  /\ Continues(r, Verdict(objects[KeyOf(r)]))
  /\ UNCHANGED <<fileVars, rowVars, hash, bucketVars>>

\* The recording is not read, or a request fails: left to the next pass.
Deferred(r) ==
  /\ task[r] \in {"listed", "head"}
  /\ Continues(r, "idle")
  /\ UNCHANGED <<fileVars, rowVars, hash, bucketVars>>

\* Mutant of PersistUpload: any answer of the bucket completes the video.
PersistAnyUpload(r) ==
  /\ task[r] \in {"stored", "conflict"}
  /\ Continues(r, "idle")
  /\ video' = [video EXCEPT ![r] = IF @ = "uploading" THEN "completed" ELSE @]
  /\ UNCHANGED <<fileVars, staged, hash, bucketVars>>

\* The transaction fails, or refuses a result that comes too late.
PersistUpload(r) ==
  /\ task[r] \in {"stored", "conflict"}
  /\ Continues(r, "idle")
  /\ \/ /\ video[r] = "uploading"
        /\ video' = [video EXCEPT ![r] = IF task[r] = "stored" THEN "completed" ELSE "errored"]
     \/ UNCHANGED video
  /\ UNCHANGED <<fileVars, staged, hash, bucketVars>>

\* Others create and delete objects in the bucket.
Meddle ==
  /\ meddling < MaxMeddling
  /\ meddling' = meddling + 1
  /\ \E k \in Key :
       \/ /\ objects[k] = "none"
          /\ objects' = [objects EXCEPT ![k] = "foreign"]
          /\ foreign' = foreign \cup {k}
       \/ /\ objects[k] # "none"
          /\ objects' = [objects EXCEPT ![k] = "none"]
          /\ UNCHANGED foreign
  /\ UNCHANGED <<fileVars, rowVars, taskVars, requests, stored>>

-----------------------------------------------------------------------------
FileStep(r) ==
  \/ Create(r) \/ Write(r) \/ Abort(r) \/ FinishTake(r) \/ SyncFile(r) \/ LinkFinal(r)
  \/ RemovePartial(r) \/ SyncParent(r) \/ FinishFails(r) \/ Stage(r) \/ ForceDelete(r)

UploadStep(r) ==
  \/ Put(r) \/ PutAnswered(r) \/ PutUnanswered(r) \/ HeadAnswered(r) \/ Deferred(r)
  \/ PersistUpload(r)

Next ==
  \/ \E r \in Recordings : FileStep(r) \/ UploadStep(r)
  \/ ListUploads \/ LatePut \/ Meddle \/ Kill \/ PowerLoss

\* Passes are repeated. A file, a bucket or a database that is asked again and
\* again answers at last, if not each recording then the first of the batch,
\* which is all of it when Limit is 1.
Settles(r) == PersistUpload(r) /\ (video[r] = "uploading" => video'[r] # "uploading")

Fairness ==
  /\ WF_vars(ListUploads)
  /\ SF_vars(\E r \in Recordings : Put(r))
  /\ SF_vars(\E r \in Recordings : PutAnswered(r))
  /\ SF_vars(\E r \in Recordings : HeadAnswered(r))
  /\ SF_vars(\E r \in Recordings : Settles(r))

Spec == Init /\ [][Next]_vars /\ Fairness

-----------------------------------------------------------------------------
\* "After a successful FinishRecording, file and directory are persistent"
\* (recording-migration-research.md): a staged recording has its file with all
\* that was written to it, whatever was lost with the power.
StagedIsDurable ==
  \A r \in staged : "final" \in names[r] /\ data[r] = written[r]

\* A completed video is an object this program has created with the whole
\* contents of the recording (S3ObjectStorage::upload, hash_file).
CompletedIsWhole ==
  \A r \in Recordings :
    video[r] = "completed" => [recording |-> r, hash |-> written[r]] \in stored

\* An upload is a conflict only with an object of somebody else, never with
\* its own earlier put, answered or not (RemoteObject::matches).
ConflictIsForeign ==
  \A r \in Recordings : task[r] = "conflict" => KeyOf(r) \in foreign

\* Every staged recording is settled at last, in spite of answers that are lost
\* and of uploads before it in the batch (UploadCoordinator::reconcile).
UploadsSettle ==
  \A r \in Recordings : r \in Pending ~> video[r] # "uploading"
=============================================================================
