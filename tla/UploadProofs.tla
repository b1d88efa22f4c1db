---------------------------- MODULE UploadProofs ----------------------------
(***************************************************************************)
(* Theorems about module Uploads, for any set of recordings, batch limit   *)
(* and bounds.                                                             *)
(***************************************************************************)
EXTENDS Uploads, FiniteSetTheorems, TLAPS

\* How the steps of a file stand to its end and to what a power loss leaves of it.
FileFits(r) ==
  /\ video[r] = "none" => file[r] = "none"
  /\ file[r] \notin {"finished", "failed"} => finishedAt[r] = 0
  /\ file[r] # "failed" => data[r] = written[r]
  /\ file[r] \in {"none", "synced", "linked", "removed", "finished"} => synced[r] = data[r]
  /\ file[r] \in {"linked", "removed", "finished"} => "final" \in names[r]
  /\ file[r] = "finished" => durable[r] = {names[r]}
  /\ r \in staged => file[r] = "finished"

FilesFit == \A r \in Recordings : FileFits(r)

\* What the task of a recording knows, and what history says of the bucket.
TaskFits(r) ==
  /\ task[r] # "idle" \/ video[r] = "completed" => r \in staged
  /\ task[r] \notin {"idle", "listed"} => hash[r] = written[r]
  /\ task[r] = "stored" => KeyOf(r) \in stored
  /\ task[r] = "conflict" => KeyOf(r) \in foreign
  /\ video[r] = "completed" => [recording |-> r, hash |-> written[r]] \in stored

TasksFit == \A r \in Recordings : TaskFits(r)

BucketFits ==
  \A k \in Key : /\ objects[k] = "ours" => k \in stored
                 /\ objects[k] = "foreign" => k \in foreign

-----------------------------------------------------------------------------
\* The recordings that have ended before another one are fewer than all.
LEMMA EndedBefore ==
  ASSUME NEW r \in Recordings, finishedAt[r] = 0
  PROVE  Cardinality({s \in Recordings : finishedAt[s] # 0}) + 1 \in
           0 .. Cardinality(Recordings)
<1> DEFINE ended == {s \in Recordings : finishedAt[s] # 0}
<1>1. IsFiniteSet(Recordings) /\ ended \in SUBSET Recordings /\ ended # Recordings
  BY RecordingsAssumption
<1>2. /\ IsFiniteSet(ended)
      /\ Cardinality(ended) <= Cardinality(Recordings)
      /\ Cardinality(Recordings) = Cardinality(ended) => Recordings = ended
  BY <1>1, FS_Subset
<1>3. Cardinality(ended) \in Nat /\ Cardinality(Recordings) \in Nat
  BY <1>1, <1>2, FS_CardinalityType
<1> QED
  BY <1>1, <1>2, <1>3

\* The types, and the times, under the steps of a file.
LEMMA FileStepTypes ==
  ASSUME TypeOK, FilesFit, NEW r \in Recordings, FileStep(r)
  PROVE  TypeOK'
<1> USE DEF TypeOK, fileVars, diskVars, rowVars, taskVars, bucketVars, Becomes
<1>n. ASSUME NEW entries \in SUBSET Entries, Names(r, entries)
      PROVE  /\ names' \in [Recordings -> SUBSET Entries]
             /\ durable' \in [Recordings -> SUBSET SUBSET Entries]
  BY <1>n DEF Names
<1>1. CASE Create(r)
  <2>1. {"partial"} \in SUBSET Entries
    BY DEF Entries
  <2>2. /\ names' \in [Recordings -> SUBSET Entries]
        /\ durable' \in [Recordings -> SUBSET SUBSET Entries]
    BY <1>1, <1>n, <2>1 DEF Create
  <2>3. /\ file' \in [Recordings -> {"none", "open", "finishing", "synced", "linked", "removed",
                                     "finished", "failed"}]
        /\ video' \in [Recordings -> {"none", "recording", "uploading", "completed", "errored"}]
    BY <1>1 DEF Create
  <2>4. UNCHANGED <<written, data, synced, finishedAt, staged, task, hash, requests, objects,
                    stored, foreign, meddling>>
    BY <1>1 DEF Create
  <2> QED
    BY <2>2, <2>3, <2>4
<1>2. CASE Write(r)
  <2>1. /\ written' \in [Recordings -> Contents] /\ data' \in [Recordings -> Contents]
    BY <1>2, BoundsAssumption DEF Write, Contents, FilesFit, FileFits
  <2> QED
    BY <1>2, <2>1 DEF Write
<1>3. CASE Abort(r)
  BY <1>3, <1>n DEF Abort
<1>4. CASE FinishTake(r)
  BY <1>4 DEF FinishTake
<1>5. CASE SyncFile(r)
  BY <1>5 DEF SyncFile
<1>6. CASE LinkFinal(r)
  <2>1. names[r] \cup {"final"} \in SUBSET Entries
    BY DEF Entries
  <2> QED
    BY <1>6, <1>n, <2>1 DEF LinkFinal
<1>7. CASE RemovePartial(r)
  BY <1>7, <1>n DEF RemovePartial
<1>8. CASE SyncParent(r)
  <2>1. finishedAt[r] = 0
    BY <1>8 DEF SyncParent, FilesFit, FileFits
  <2>2. finishedAt' \in [Recordings -> 0 .. Cardinality(Recordings)]
    BY <1>8, <2>1, EndedBefore DEF SyncParent
  <2>3. durable' \in [Recordings -> SUBSET SUBSET Entries]
    BY <1>8 DEF SyncParent
  <2> QED
    BY <1>8, <2>2, <2>3 DEF SyncParent
<1>9. CASE FinishFails(r)
  BY <1>9 DEF FinishFails
<1>10. CASE Stage(r) \/ ForceDelete(r)
  BY <1>10 DEF Stage, ForceDelete
<1> QED
  BY <1>1, <1>2, <1>3, <1>4, <1>5, <1>6, <1>7, <1>8, <1>9, <1>10 DEF FileStep

\* The key of a put is a key.
LEMMA KeyType ==
  ASSUME TypeOK, NEW r \in Recordings
  PROVE  KeyOf(r) \in Key /\ [recording |-> r, hash |-> data[r]] \in Key
BY DEF TypeOK, KeyOf, Key

\* What the bucket does with a put keeps its types.
LEMMA ServesType ==
  ASSUME TypeOK, NEW k \in Key, Serves(k)
  PROVE  objects' \in [Key -> {"none", "ours", "foreign"}] /\ stored' \subseteq Key
BY DEF TypeOK, Serves

\* The types under the steps of an upload.
LEMMA UploadStepTypes ==
  ASSUME TypeOK, FilesFit, NEW r \in Recordings, UploadStep(r)
  PROVE  TypeOK'
<1> USE DEF TypeOK, fileVars, diskVars, rowVars, taskVars, bucketVars, Continues
<1>1. CASE Put(r)
  <2>1. [key |-> [recording |-> r, hash |-> data[r]], late |-> FALSE]
          \in [key : Key, late : BOOLEAN]
    BY KeyType
  <2> QED
    BY <1>1, <2>1 DEF Put
<1>2. CASE PutAnswered(r)
  <2>1. objects' \in [Key -> {"none", "ours", "foreign"}] /\ stored' \subseteq Key
    BY <1>2, KeyType, ServesType DEF PutAnswered
  <2> QED
    BY <1>2, <2>1 DEF PutAnswered
<1>3. CASE PutUnanswered(r)
  <2>1. [key |-> [key |-> KeyOf(r), late |-> FALSE].key, late |-> TRUE]
          \in [key : Key, late : BOOLEAN]
    BY KeyType
  <2> QED
    BY <1>3, <2>1 DEF PutUnanswered
<1>4. CASE HeadAnswered(r)
  BY <1>4 DEF HeadAnswered, Verdict
<1>5. CASE Deferred(r)
  BY <1>5 DEF Deferred
<1>6. CASE PersistUpload(r)
  BY <1>6 DEF PersistUpload
<1> QED
  BY <1>1, <1>2, <1>3, <1>4, <1>5, <1>6 DEF UploadStep

\* The types after a restart.
LEMMA RestartTypes ==
  ASSUME TypeOK, FilesFit, Kill \/ PowerLoss
  PROVE  TypeOK'
<1> USE DEF TypeOK
<1>1. Restarted
  BY DEF Kill, PowerLoss
<1>2. /\ file' \in [Recordings -> {"none", "open", "finishing", "synced", "linked", "removed",
                                   "finished", "failed"}]
      /\ video' \in [Recordings -> {"none", "recording", "uploading", "completed", "errored"}]
      /\ task' \in [Recordings -> {"idle", "listed", "put", "head", "stored", "conflict"}]
  BY <1>1 DEF Restarted
<1>3. requests' \subseteq [key : Key, late : BOOLEAN]
  BY ZenonT(60), <1>1 DEF Restarted
<1>4. /\ data' \in [Recordings -> Contents]
      /\ names' \in [Recordings -> SUBSET Entries]
      /\ durable' \in [Recordings -> SUBSET SUBSET Entries]
  BY DEF Kill, PowerLoss
<1> QED
  BY <1>1, <1>2, <1>3, <1>4 DEF Restarted

\* The types after any step.
LEMMA TypeStep ==
  ASSUME TypeOK, FilesFit, [Next]_vars
  PROVE  TypeOK'
<1>1. CASE ListUploads
  BY <1>1 DEF TypeOK, ListUploads, fileVars, diskVars, rowVars, bucketVars
<1>2. CASE LatePut
  <2> PICK q \in requests : /\ requests' = requests \ {q}
                            /\ Serves(q.key) \/ UNCHANGED <<objects, stored>>
                            /\ UNCHANGED <<fileVars, rowVars, taskVars, foreign, meddling>>
    BY <1>2 DEF LatePut
  <2>1. objects' \in [Key -> {"none", "ours", "foreign"}] /\ stored' \subseteq Key
    <3>1. q.key \in Key
      BY DEF TypeOK
    <3> QED
      BY <3>1, ServesType DEF TypeOK
  <2> QED
    BY <2>1 DEF TypeOK, fileVars, diskVars, rowVars, taskVars
<1>3. CASE Meddle
  <2>1. meddling' \in 0 .. MaxMeddling
    BY <1>3, BoundsAssumption DEF TypeOK, Meddle
  <2>2. objects' \in [Key -> {"none", "ours", "foreign"}] /\ foreign' \subseteq Key
    BY <1>3 DEF TypeOK, Meddle
  <2> QED
    BY <1>3, <2>1, <2>2 DEF TypeOK, Meddle, fileVars, diskVars, rowVars, taskVars
<1>4. CASE UNCHANGED vars
  BY <1>4 DEF TypeOK, vars, fileVars, diskVars, rowVars, taskVars, bucketVars
<1> QED
  BY <1>1, <1>2, <1>3, <1>4, FileStepTypes, UploadStepTypes, RestartTypes DEF Next

\* The files after a step of one of them.
LEMMA FileStepFits ==
  ASSUME TypeOK, FilesFit, NEW r \in Recordings, FileStep(r)
  PROVE  FilesFit'
<1> USE DEF TypeOK, rowVars, diskVars, fileVars
<1> SUFFICES ASSUME NEW s \in Recordings
             PROVE  FileFits(s)'
  BY DEF FilesFit
<1>f. FileFits(r) /\ FileFits(s)
  BY DEF FilesFit
<1> USE DEF FileFits
<1>1. CASE Create(r)
  BY <1>1, <1>f DEF Create, Becomes, Names
<1>2. CASE Write(r)
  BY <1>2, <1>f DEF Write
<1>3. CASE Abort(r)
  BY <1>3, <1>f DEF Abort, Becomes, Names
<1>4. CASE FinishTake(r)
  BY <1>4, <1>f DEF FinishTake, Becomes
<1>5. CASE SyncFile(r)
  BY <1>5, <1>f DEF SyncFile, Becomes
<1>6. CASE LinkFinal(r)
  BY <1>6, <1>f DEF LinkFinal, Becomes, Names
<1>7. CASE RemovePartial(r)
  BY <1>7, <1>f DEF RemovePartial, Becomes, Names
<1>8. CASE SyncParent(r)
  BY <1>8, <1>f DEF SyncParent, Becomes
<1>9. CASE FinishFails(r)
  BY <1>9, <1>f DEF FinishFails, Becomes
<1>10. CASE Stage(r) \/ ForceDelete(r)
  BY <1>10, <1>f DEF Stage, ForceDelete
<1> QED
  BY <1>1, <1>2, <1>3, <1>4, <1>5, <1>6, <1>7, <1>8, <1>9, <1>10 DEF FileStep

\* The files after a restart: what a power loss leaves of a staged one is all of it.
LEMMA RestartFits ==
  ASSUME TypeOK, FilesFit, Kill \/ PowerLoss
  PROVE  FilesFit'
<1> SUFFICES ASSUME NEW r \in Recordings
             PROVE  FileFits(r)'
  BY DEF FilesFit
<1>1. FileFits(r) /\ Restarted
  BY DEF FilesFit, Kill, PowerLoss
<1>2. CASE Kill
  BY <1>1, <1>2 DEF FileFits, TypeOK, Restarted, Kill
<1>3. CASE PowerLoss
  <2>1. /\ names'[r] \in durable[r] /\ durable'[r] = {names'[r]}
        /\ synced[r] = data[r] => data'[r] = data[r]
    BY SMTT(60), <1>3, BoundsAssumption DEF PowerLoss, TypeOK, Contents
  <2> QED
    BY <1>1, <2>1 DEF FileFits, TypeOK, Restarted
<1> QED
  BY <1>2, <1>3

\* The files after any step.
LEMMA FilesStep ==
  ASSUME TypeOK, FilesFit, [Next]_vars
  PROVE  FilesFit'
<1>1. ASSUME UNCHANGED <<fileVars, staged>>,
             \A r \in Recordings : video'[r] = "none" => video[r] = "none"
      PROVE  FilesFit'
  BY <1>1 DEF FilesFit, FileFits, fileVars, diskVars
<1>2. ASSUME NEW r \in Recordings, UploadStep(r)
      PROVE  /\ UNCHANGED <<fileVars, staged>>
             /\ \A s \in Recordings : video'[s] = "none" => video[s] = "none"
  BY <1>2 DEF UploadStep, Put, PutAnswered, PutUnanswered, HeadAnswered, Deferred,
              PersistUpload, rowVars, TypeOK
<1>3. CASE ListUploads \/ LatePut \/ Meddle \/ UNCHANGED vars
  BY <1>1, <1>3 DEF ListUploads, LatePut, Meddle, vars, rowVars
<1> QED
  BY <1>1, <1>2, <1>3, FileStepFits, RestartFits DEF Next

\* TypeOK holds of every behaviour: in particular the times that order the
\* batch are those of the recordings that have ended (list_pending_uploads).
THEOREM UploadTypes == Spec => []TypeOK
<1>1. Init => TypeOK /\ FilesFit
  <2>1. Cardinality(Recordings) \in Nat
    BY RecordingsAssumption, FS_CardinalityType
  <2>2. 0 \in Contents /\ 0 \in 0 .. MaxMeddling /\ 0 \in 0 .. Cardinality(Recordings)
    BY <2>1, BoundsAssumption DEF Contents
  <2> QED
    BY <2>2 DEF Init, TypeOK, FilesFit, FileFits
<1>2. TypeOK /\ FilesFit /\ [Next]_vars => TypeOK' /\ FilesFit'
  BY TypeStep, FilesStep
<1> QED
  BY <1>1, <1>2, PTL DEF Spec

-----------------------------------------------------------------------------
\* What history says of the bucket, after a step.
LEMMA BucketStep ==
  ASSUME TypeOK, BucketFits, [Next]_vars
  PROVE  BucketFits' /\ stored \subseteq stored' /\ foreign \subseteq foreign'
<1>1. ASSUME UNCHANGED <<objects, stored, foreign>>
      PROVE  BucketFits' /\ stored \subseteq stored' /\ foreign \subseteq foreign'
  BY <1>1 DEF BucketFits
<1>2. ASSUME NEW k \in Key, Serves(k), foreign' = foreign
      PROVE  BucketFits' /\ stored \subseteq stored' /\ foreign \subseteq foreign'
  BY <1>2 DEF TypeOK, BucketFits, Serves
<1>3. CASE \E r \in Recordings : FileStep(r)
  <2> PICK r \in Recordings : FileStep(r)
    BY <1>3
  <2>1. UNCHANGED bucketVars
    BY DEF FileStep, Create, Write, Abort, FinishTake, SyncFile, LinkFinal, RemovePartial,
           SyncParent, FinishFails, Stage, ForceDelete
  <2> QED
    BY <1>1, <2>1 DEF bucketVars
<1>4. ASSUME NEW r \in Recordings, UploadStep(r)
      PROVE  BucketFits' /\ stored \subseteq stored' /\ foreign \subseteq foreign'
  <2>1. CASE PutAnswered(r)
    <3>1. KeyOf(r) \in Key
      BY KeyType
    <3>2. Serves(KeyOf(r)) /\ foreign' = foreign
      BY <2>1 DEF PutAnswered
    <3> QED
      BY <1>2, <3>1, <3>2
  <2>2. CASE Put(r) \/ PutUnanswered(r) \/ HeadAnswered(r) \/ Deferred(r) \/ PersistUpload(r)
    BY <1>1, <2>2 DEF Put, PutUnanswered, HeadAnswered, Deferred, PersistUpload, bucketVars
  <2> QED
    BY <1>4, <2>1, <2>2 DEF UploadStep
<1>5. CASE LatePut
  <2> PICK q \in requests : /\ Serves(q.key) \/ UNCHANGED <<objects, stored>>
                            /\ foreign' = foreign
    BY <1>5 DEF LatePut
  <2>1. q.key \in Key
    BY DEF TypeOK
  <2> QED
    BY <1>1, <1>2, <2>1
<1>6. CASE Meddle
  BY <1>6 DEF Meddle, TypeOK, BucketFits
<1>7. CASE ListUploads \/ Kill \/ PowerLoss \/ UNCHANGED vars
  BY <1>1, <1>7 DEF ListUploads, Kill, PowerLoss, Restarted, vars, bucketVars
<1> QED
  BY <1>3, <1>4, <1>5, <1>6, <1>7 DEF Next

\* The tasks beside a step of a file: a recording that is staged is not written.
LEMMA FileStepTasks ==
  ASSUME TypeOK, FilesFit, TasksFit, NEW r \in Recordings, FileStep(r)
  PROVE  TasksFit'
<1> SUFFICES ASSUME NEW s \in Recordings
             PROVE  TaskFits(s)'
  BY DEF TasksFit
<1>1. TaskFits(s) /\ (s \in staged => file[s] = "finished")
  BY DEF TasksFit, FilesFit, FileFits
<1>2. UNCHANGED <<task, hash, stored, foreign>> /\ staged \subseteq staged'
  BY DEF FileStep, Create, Write, Abort, FinishTake, SyncFile, LinkFinal, RemovePartial,
         SyncParent, FinishFails, Stage, ForceDelete, taskVars, bucketVars, rowVars
<1>3. video'[s] = "completed" => video[s] = "completed"
  BY DEF FileStep, Create, Write, Abort, FinishTake, SyncFile, LinkFinal, RemovePartial,
         SyncParent, FinishFails, Stage, ForceDelete, rowVars, TypeOK
<1>4. s \in staged => written'[s] = written[s]
  BY <1>1 DEF FileStep, Create, Write, Abort, FinishTake, SyncFile, LinkFinal, RemovePartial,
         SyncParent, FinishFails, Stage, ForceDelete, fileVars, diskVars, TypeOK
<1> QED
  BY <1>1, <1>2, <1>3, <1>4 DEF TaskFits, KeyOf

\* The tasks after a step of one of them.
LEMMA UploadStepTasks ==
  ASSUME TypeOK, FilesFit, TasksFit, BucketFits, NEW r \in Recordings, UploadStep(r),
         stored \subseteq stored', foreign \subseteq foreign'
  PROVE  TasksFit'
<1> SUFFICES ASSUME NEW s \in Recordings
             PROVE  TaskFits(s)'
  BY DEF TasksFit
<1>f. TaskFits(s) /\ TaskFits(r) /\ FileFits(r) /\ KeyOf(r) \in Key
  BY KeyType DEF TasksFit, FilesFit
<1>w. UNCHANGED <<written, staged>>
  BY DEF UploadStep, Put, PutAnswered, PutUnanswered, HeadAnswered, Deferred, PersistUpload,
         fileVars, diskVars, rowVars
<1>o. CASE s # r
  <2>1. task'[s] = task[s] /\ hash'[s] = hash[s] /\ video'[s] = video[s]
    BY <1>o DEF UploadStep, Put, PutAnswered, PutUnanswered, HeadAnswered, Deferred,
                PersistUpload, Continues, rowVars, TypeOK
  <2> QED
    BY <1>f, <1>w, <2>1 DEF TaskFits, KeyOf
<1>r. CASE s = r
  <2>1. CASE Put(r)
    <3>1. task'[r] = "put" /\ hash'[r] = data[r] /\ video' = video /\ r \in staged
      BY <1>f, <2>1 DEF Put, Continues, rowVars, TypeOK, TaskFits
    <3> QED
      BY <1>f, <1>r, <1>w, <3>1 DEF TaskFits, FileFits
  <2>2. CASE PutAnswered(r)
    <3>1. /\ task[r] = "put" /\ hash' = hash /\ video' = video
          /\ \/ task'[r] = "head"
             \/ task'[r] = "stored" /\ KeyOf(r) \in stored'
      BY <2>2 DEF PutAnswered, Serves, Continues, rowVars, TypeOK
    <3> QED
      BY <1>f, <1>r, <1>w, <3>1 DEF TaskFits, KeyOf
  <2>3. CASE PutUnanswered(r) \/ Deferred(r)
    <3>1. task'[r] = "idle" /\ hash' = hash /\ video' = video
      BY <2>3 DEF PutUnanswered, Deferred, Continues, rowVars, TypeOK
    <3> QED
      BY <1>f, <1>r, <1>w, <3>1 DEF TaskFits
  <2>4. CASE HeadAnswered(r)
    <3>1. /\ task[r] = "head" /\ hash' = hash /\ video' = video
          /\ \/ task'[r] = "stored" /\ objects[KeyOf(r)] = "ours"
             \/ task'[r] = "conflict" /\ objects[KeyOf(r)] = "foreign"
             \/ task'[r] = "idle"
      BY <2>4 DEF HeadAnswered, Verdict, Continues, rowVars, TypeOK
    <3>2. /\ task'[r] = "stored" => KeyOf(r) \in stored'
          /\ task'[r] = "conflict" => KeyOf(r) \in foreign'
      BY <1>f, <3>1 DEF BucketFits
    <3> QED
      BY <1>f, <1>r, <1>w, <3>1, <3>2 DEF TaskFits, KeyOf
  <2>5. CASE PersistUpload(r)
    <3>1. /\ task[r] \in {"stored", "conflict"} /\ task'[r] = "idle"
          /\ video'[r] = "completed" => video[r] = "completed" \/ task[r] = "stored"
      BY <2>5 DEF PersistUpload, Continues, TypeOK
    <3>2. task[r] = "stored" => [recording |-> r, hash |-> written[r]] \in stored
      BY <1>f DEF TaskFits, KeyOf
    <3> QED
      BY <1>f, <1>r, <1>w, <3>1, <3>2 DEF TaskFits
  <2> QED
    BY <2>1, <2>2, <2>3, <2>4, <2>5 DEF UploadStep
<1> QED
  BY <1>o, <1>r

\* The tasks after any step.
LEMMA TasksStep ==
  ASSUME TypeOK, FilesFit, TasksFit, BucketFits, [Next]_vars
  PROVE  TasksFit'
<1>b. stored \subseteq stored' /\ foreign \subseteq foreign'
  BY BucketStep
<1>1. CASE ListUploads
  <2> PICK batch \in SUBSET Pending :
         task' = [r \in Recordings |-> IF r \in batch THEN "listed" ELSE "idle"]
    BY <1>1 DEF ListUploads
  <2>1. UNCHANGED <<written, video, staged, stored>>
    BY <1>1 DEF ListUploads, fileVars, diskVars, rowVars, bucketVars
  <2> SUFFICES ASSUME NEW r \in Recordings
               PROVE  TaskFits(r)'
    BY DEF TasksFit
  <2>2. TaskFits(r) /\ (r \in batch => r \in staged)
    BY DEF TasksFit, Pending
  <2>3. task'[r] \in {"idle", "listed"} /\ (task'[r] # "idle" => r \in batch)
    OBVIOUS
  <2> QED
    BY <2>1, <2>2, <2>3 DEF TaskFits
<1>2. CASE Kill \/ PowerLoss
  <2> SUFFICES ASSUME NEW r \in Recordings
               PROVE  TaskFits(r)'
    BY DEF TasksFit
  <2>1. TaskFits(r)
    BY DEF TasksFit
  <2>2. /\ task'[r] = "idle" /\ UNCHANGED <<written, staged, stored>>
        /\ video'[r] = "completed" => video[r] = "completed"
    BY <1>2 DEF Kill, PowerLoss, Restarted
  <2> QED
    BY <2>1, <2>2 DEF TaskFits
<1>3. CASE LatePut \/ Meddle \/ UNCHANGED vars
  <2>1. UNCHANGED <<written, video, staged, task, hash>>
    BY <1>3 DEF LatePut, Meddle, vars, fileVars, diskVars, rowVars, taskVars
  <2> QED
    BY <1>b, <2>1 DEF TasksFit, TaskFits, KeyOf
<1> QED
  BY <1>b, <1>1, <1>2, <1>3, FileStepTasks, UploadStepTasks DEF Next

\* The three safety properties hold in every reachable state.
LEMMA UploadsConsistent ==
  Spec => [](StagedIsDurable /\ CompletedIsWhole /\ ConflictIsForeign)
<1> DEFINE Fits == TypeOK /\ FilesFit /\ TasksFit /\ BucketFits
<1>1. Init => Fits
  <2>1. Cardinality(Recordings) \in Nat
    BY RecordingsAssumption, FS_CardinalityType
  <2>2. 0 \in Contents /\ 0 \in 0 .. MaxMeddling /\ 0 \in 0 .. Cardinality(Recordings)
    BY <2>1, BoundsAssumption DEF Contents
  <2>3. Init => TypeOK /\ FilesFit
    BY <2>2 DEF Init, TypeOK, FilesFit, FileFits
  <2>4. Init => TasksFit /\ BucketFits
    BY DEF Init, TasksFit, TaskFits, BucketFits
  <2> QED
    BY <2>3, <2>4
<1>2. Fits /\ [Next]_vars => Fits'
  BY TypeStep, FilesStep, TasksStep, BucketStep
<1>3. Fits => StagedIsDurable /\ CompletedIsWhole /\ ConflictIsForeign
  <2>1. Fits => StagedIsDurable
    BY DEF FilesFit, FileFits, StagedIsDurable, TypeOK
  <2>2. Fits => CompletedIsWhole /\ ConflictIsForeign
    BY DEF TasksFit, TaskFits, CompletedIsWhole, ConflictIsForeign
  <2> QED
    BY <2>1, <2>2
<1> QED
  BY <1>1, <1>2, <1>3, PTL DEF Spec

\* Whenever the power is lost, a staged recording has its file with all its
\* packets under its final name (RecordingFile::finish).
THEOREM StagedDurable == Spec => []StagedIsDurable
BY UploadsConsistent, PTL

\* However often a put is repeated and its answer lost, a completed video is an
\* object with all that was written (UploadCoordinator::reconcile).
THEOREM CompletedWhole == Spec => []CompletedIsWhole
BY UploadsConsistent, PTL

\* A conflict is never with an object the program has put itself, although its
\* earlier puts may be served late (S3ObjectStorage::upload).
THEOREM ConflictsForeign == Spec => []ConflictIsForeign
BY UploadsConsistent, PTL
=============================================================================
