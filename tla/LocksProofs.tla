---------------------------- MODULE LocksProofs ----------------------------
(***************************************************************************)
(* What module RowLocks promises for every number of takes, cameras and    *)
(* transactions at a time.                                                 *)
(***************************************************************************)
EXTENDS RowLocks, FiniteSetTheorems, TLAPS

-----------------------------------------------------------------------------
(* Queries: what is asked for next.                                        *)

\* The row is locked for writing.
HoldsX(own, name) == \E lock \in own : lock.on = name /\ lock.mode = "X"

\* A sequence of queries, or a query, all of whose locks are among some.
Among(locks) == Seq(SUBSET locks)

\* An exclusive lock is covered by none but one of its kind.
LEMMA CoversExclusive ==
  ASSUME NEW own, NEW name
  PROVE  Covers(own, Exclusive(name)) <=> HoldsX(own, name)
BY DEF Covers, Exclusive, HoldsX

\* A row that is locked for writing is not asked for again.
LEMMA CoversAny ==
  ASSUME NEW own, NEW lock, HoldsX(own, lock.on)
  PROVE  Covers(own, lock)
BY DEF Covers, HoldsX

LEMMA NextMissing ==
  ASSUME NEW own, NEW locks, NEW query \in Among(locks), NEW lock \in NextOf(own, query)
  PROVE  /\ lock \in locks
         /\ ~ Covers(own, lock)
BY DEF NextOf, Missing, Among

\* What a query locks first is asked for, or held.
LEMMA NextFirst ==
  ASSUME NEW own, NEW locks, NEW query \in Among(locks), query # <<>>,
         NEW lock \in NextOf(own, query)
  PROVE  lock \in query[1] \/ Missing(own, query[1]) = {}
BY DEF NextOf, Missing, Among

LEMMA NextOfNone ==
  ASSUME NEW own
  PROVE  NextOf(own, <<>>) = {}
BY DEF NextOf

LEMMA NextOfOne ==
  ASSUME NEW own, NEW A, NEW lock \in NextOf(own, <<A>>)
  PROVE  lock \in Missing(own, A)
BY DEF NextOf

LEMMA NextOfTwo ==
  ASSUME NEW own, NEW A, NEW B, NEW lock \in NextOf(own, <<A, B>>)
  PROVE  \/ lock \in Missing(own, A)
         \/ Missing(own, A) = {} /\ lock \in Missing(own, B)
BY DEF NextOf

LEMMA NextOfThree ==
  ASSUME NEW own, NEW A, NEW B, NEW C, NEW lock \in NextOf(own, <<A, B, C>>)
  PROVE  \/ lock \in Missing(own, A)
         \/ Missing(own, A) = {} /\ lock \in Missing(own, B)
         \/ Missing(own, A) = {} /\ Missing(own, B) = {} /\ lock \in Missing(own, C)
<1> DEFINE q == <<A, B, C>>
<1>1. PICK i \in {1, 2, 3} : /\ lock \in Missing(own, q[i])
                             /\ \A k \in 1 .. i - 1 : Missing(own, q[k]) = {}
  BY DEF NextOf
<1>2. i = 2 => Missing(own, q[1]) = {}
  BY <1>1
<1>3. i = 3 => Missing(own, q[1]) = {} /\ Missing(own, q[2]) = {}
  BY <1>1
<1> QED
  BY <1>1, <1>2, <1>3

LEMMA ThroughTwo ==
  ASSUME NEW own, NEW A, NEW B
  PROVE  IsThrough(own, <<A, B>>) <=> Missing(own, A) = {} /\ Missing(own, B) = {}
BY DEF IsThrough

LEMMA Indices ==
  ASSUME NEW S, NEW p \in Seq(S), NEW q \in Seq(S)
  PROVE  /\ Len(p) \in Nat /\ Len(q) \in Nat
         /\ DOMAIN p = 1 .. Len(p) /\ DOMAIN q = 1 .. Len(q)
         /\ DOMAIN (p \o q) = 1 .. Len(p) + Len(q)
         /\ \A i \in 1 .. Len(p) : (p \o q)[i] = p[i]
         /\ \A i \in 1 .. Len(q) : (p \o q)[Len(p) + i] = q[i]
         /\ \A i \in 1 .. Len(p) + Len(q) :
              i \notin 1 .. Len(p) => i - Len(p) \in 1 .. Len(q) /\ (p \o q)[i] = q[i - Len(p)]
OBVIOUS

LEMMA ThroughBoth ==
  ASSUME NEW own, NEW locks, NEW p \in Among(locks), NEW q \in Among(locks)
  PROVE  IsThrough(own, p \o q) <=> IsThrough(own, p) /\ IsThrough(own, q)
<1> DEFINE m == Len(p)
           n == Len(q)
<1>1. /\ m \in Nat /\ n \in Nat
      /\ DOMAIN p = 1 .. m /\ DOMAIN q = 1 .. n /\ DOMAIN (p \o q) = 1 .. m + n
      /\ \A i \in 1 .. m : (p \o q)[i] = p[i]
      /\ \A i \in 1 .. n : (p \o q)[m + i] = q[i]
      /\ \A i \in 1 .. m + n : i \notin 1 .. m => i - m \in 1 .. n /\ (p \o q)[i] = q[i - m]
  BY Indices DEF Among
<1> DEFINE r == p \o q
<1> HIDE DEF m, n, r
<1>2. ASSUME IsThrough(own, r) PROVE IsThrough(own, p) /\ IsThrough(own, q)
  <2>1. \A i \in 1 .. m : i \in 1 .. m + n
    BY <1>1
  <2>2. \A i \in 1 .. n : m + i \in 1 .. m + n
    BY <1>1
  <2> QED
    BY <1>1, <1>2, <2>1, <2>2 DEF IsThrough, r
<1>3. ASSUME IsThrough(own, p), IsThrough(own, q) PROVE IsThrough(own, r)
  BY <1>1, <1>3 DEF IsThrough, r
<1> QED
  BY <1>2, <1>3 DEF r

LEMMA NextOfBoth ==
  ASSUME NEW own, NEW locks, NEW p \in Among(locks), NEW q \in Among(locks),
         NEW lock \in NextOf(own, p \o q)
  PROVE  \/ lock \in NextOf(own, p)
         \/ IsThrough(own, p) /\ lock \in NextOf(own, q)
<1> DEFINE m == Len(p)
           n == Len(q)
           r == p \o q
<1>1. /\ m \in Nat /\ n \in Nat
      /\ DOMAIN p = 1 .. m /\ DOMAIN q = 1 .. n /\ DOMAIN r = 1 .. m + n
      /\ \A i \in 1 .. m : r[i] = p[i]
      /\ \A i \in 1 .. n : r[m + i] = q[i]
      /\ \A i \in 1 .. m + n : i \notin 1 .. m => i - m \in 1 .. n /\ r[i] = q[i - m]
  BY Indices DEF Among
<1>2. PICK i \in DOMAIN r : /\ lock \in Missing(own, r[i])
                            /\ \A k \in 1 .. i - 1 : Missing(own, r[k]) = {}
  BY DEF NextOf
<1> HIDE DEF m, n, r
<1>3. CASE i \in 1 .. m
  <2>1. \A k \in 1 .. i - 1 : k \in 1 .. m
    BY <1>1, <1>3
  <2>2. lock \in Missing(own, p[i]) /\ \A k \in 1 .. i - 1 : Missing(own, p[k]) = {}
    BY <1>1, <1>2, <1>3, <2>1
  <2> QED
    BY <1>1, <1>3, <2>2 DEF NextOf
<1>4. CASE i \notin 1 .. m
  <2>1. i - m \in 1 .. n /\ lock \in Missing(own, q[i - m])
    BY <1>1, <1>2, <1>4
  <2>2. \A k \in 1 .. m : k \in 1 .. i - 1
    BY <1>1, <1>4
  <2>3. IsThrough(own, p)
    BY <1>1, <1>2, <2>2 DEF IsThrough
  <2>4. \A k \in 1 .. (i - m) - 1 : m + k \in 1 .. i - 1 /\ k \in 1 .. n
    BY <1>1, <2>1
  <2>5. \A k \in 1 .. (i - m) - 1 : Missing(own, q[k]) = {}
    BY <1>1, <1>2, <2>4
  <2> QED
    BY <1>1, <2>1, <2>3, <2>5 DEF NextOf
<1> QED
  BY <1>3, <1>4

LEMMA AmongBoth ==
  ASSUME NEW locks, NEW p \in Among(locks), NEW q \in Among(locks)
  PROVE  p \o q \in Among(locks)
BY DEF Among

LEMMA AmongMore ==
  ASSUME NEW locks, NEW more, locks \subseteq more, NEW p \in Among(locks)
  PROVE  p \in Among(more)
BY DEF Among

-----------------------------------------------------------------------------
(* Which rows the queries of a take lock.                                  *)

\* The rows of a take, locked for writing.
OfTake(t) ==
  {Exclusive(TakeRow(t))}
    \cup {Exclusive(RecordingRow(t, c)) : c \in Cameras}
    \cup {Exclusive(VideoRow(t, c)) : c \in Cameras}

\* With the gap a missing finalized recording leaves, or its row.
OfUpload(t) ==
  OfTake(t) \cup {Exclusive(FinalizedRow(t, c)) : c \in Cameras} \cup {Gap(FinalizedTable)}

\* With the foreign keys of a finalized recording, which is inserted.
OfStage(t, c) ==
  OfUpload(t) \cup {Shared(TakeRow(t)), Shared(IdentityRow(c)), Insertion(FinalizedTable)}

\* The queries that lock the row of the take ahead of everything else.
TakeFirst(t, locks) ==
  {query \in Among(locks) : query # <<>> /\ query[1] = {Exclusive(TakeRow(t))}}

LEMMA TakeFirstBoth ==
  ASSUME NEW t, NEW locks, NEW p \in TakeFirst(t, locks), NEW q \in Among(locks)
  PROVE  p \o q \in TakeFirst(t, locks)
<1>1. p \in Seq(SUBSET locks) /\ q \in Seq(SUBSET locks) /\ p # <<>>
  BY DEF TakeFirst, Among
<1>2. p \o q \in Seq(SUBSET locks) /\ p \o q # <<>> /\ (p \o q)[1] = p[1]
  BY <1>1
<1> QED
  BY <1>2 DEF TakeFirst, Among

LEMMA TakeFirstMore ==
  ASSUME NEW t, NEW locks, NEW more, locks \subseteq more, NEW p \in TakeFirst(t, locks)
  PROVE  p \in TakeFirst(t, more)
BY DEF TakeFirst, Among

LEMMA AmongOne ==
  ASSUME NEW locks, NEW A \in SUBSET locks
  PROVE  <<A>> \in Among(locks)
BY DEF Among

LEMMA AmongNone ==
  ASSUME NEW locks
  PROVE  <<>> \in Among(locks)
BY DEF Among

LEMMA GetTakeFirst ==
  ASSUME NEW t
  PROVE  GetTakeForUpdate(t) \in TakeFirst(t, OfTake(t))
<1>1. {Exclusive(TakeRow(t))} \in SUBSET OfTake(t)
  BY DEF OfTake
<1>2. <<{Exclusive(TakeRow(t))}>> \in TakeFirst(t, OfTake(t))
  BY <1>1, AmongOne DEF TakeFirst
<1>3. LoadFinishedTake(t) \in Among(OfTake(t))
  BY <1>1, AmongOne, AmongNone DEF LoadFinishedTake
<1> QED
  BY <1>2, <1>3, TakeFirstBoth DEF GetTakeForUpdate

\* The queries on the rows of one take.
LEMMA QueriesOfTake ==
  ASSUME NEW t, NEW c \in Cameras
  PROVE  /\ GetTakeForUpdate(t) \in Among(OfTake(t))
         /\ LoadRecordingCameras(t) \in Among(OfTake(t))
         /\ SaveFinishedTake(t) \in Among(OfTake(t))
         /\ DeleteRecordingCameras(t) \in Among(OfTake(t))
         /\ GetRecordingCameraForUpdate(t, c) \in Among(OfTake(t))
         /\ SaveRecordingCamera(t, c) \in Among(OfTake(t))
         /\ GetVideoFileForUpdate(t, c) \in Among(OfTake(t))
         /\ ListVideoFilesForTakeForUpdate(t) \in Among(OfTake(t))
         /\ SaveVideoFile(t, c) \in Among(OfTake(t))
         /\ ConvergeFinishedTake(t, c) \in Among(OfTake(t))
         /\ FailVideoFile(t, c) \in Among(OfTake(t))
<1>1. GetTakeForUpdate(t) \in Among(OfTake(t))
  BY GetTakeFirst DEF TakeFirst
<1>2. /\ {Exclusive(TakeRow(t))} \in SUBSET OfTake(t)
      /\ {Exclusive(RecordingRow(t, d)) : d \in RowsOf(t)} \in SUBSET OfTake(t)
      /\ {Exclusive(VideoRow(t, d)) : d \in VideosOf(t)} \in SUBSET OfTake(t)
      /\ {Exclusive(RecordingRow(t, c))} \in SUBSET OfTake(t)
      /\ {Exclusive(VideoRow(t, c))} \in SUBSET OfTake(t)
  BY DEF OfTake, RowsOf, VideosOf
<1>3. /\ LoadRecordingCameras(t) \in Among(OfTake(t))
      /\ SaveFinishedTake(t) \in Among(OfTake(t))
      /\ DeleteRecordingCameras(t) \in Among(OfTake(t))
      /\ GetRecordingCameraForUpdate(t, c) \in Among(OfTake(t))
      /\ SaveRecordingCamera(t, c) \in Among(OfTake(t))
      /\ GetVideoFileForUpdate(t, c) \in Among(OfTake(t))
      /\ ListVideoFilesForTakeForUpdate(t) \in Among(OfTake(t))
      /\ SaveVideoFile(t, c) \in Among(OfTake(t))
  BY <1>2, AmongOne DEF LoadRecordingCameras, SaveFinishedTake, DeleteRecordingCameras,
       GetRecordingCameraForUpdate, SaveRecordingCamera, GetVideoFileForUpdate,
       ListVideoFilesForTakeForUpdate, SaveVideoFile
<1>4. SaveFinishedTake(t) \o DeleteRecordingCameras(t) \in Among(OfTake(t))
  BY <1>3, AmongBoth
<1>5. ConvergeFinishedTake(t, c) \in Among(OfTake(t))
  BY <1>3, <1>4, AmongBoth, AmongNone DEF ConvergeFinishedTake
<1>6. SaveVideoFile(t, c) \o ConvergeFinishedTake(t, c) \in Among(OfTake(t))
  BY <1>3, <1>5, AmongBoth
<1>7. FailVideoFile(t, c) \in Among(OfTake(t))
  BY <1>3, <1>6, AmongBoth, AmongNone DEF FailVideoFile
<1> QED
  BY <1>1, <1>3, <1>5, <1>7

\* What is done on one take by an event, a deletion or a task.
LEMMA TransactionsOfTake ==
  ASSUME NEW t, NEW c \in Cameras
  PROVE  /\ FailUpload(t, c) \in TakeFirst(t, OfTake(t))
         /\ PersistRecordingStarted(t, c) \in TakeFirst(t, OfTake(t))
         /\ FailRecording(t, c) \in TakeFirst(t, OfTake(t))
<1>1. FailUpload(t, c) \in TakeFirst(t, OfTake(t))
  BY GetTakeFirst, QueriesOfTake, TakeFirstBoth DEF FailUpload
<1>2. GetTakeForUpdate(t) \o GetRecordingCameraForUpdate(t, c) \in TakeFirst(t, OfTake(t))
  BY GetTakeFirst, QueriesOfTake, TakeFirstBoth
<1>3. PersistRecordingStarted(t, c) \in TakeFirst(t, OfTake(t))
  BY <1>2, QueriesOfTake, TakeFirstBoth DEF PersistRecordingStarted
<1>4. FailRecording(t, c) \in TakeFirst(t, OfTake(t))
  BY <1>2, QueriesOfTake, TakeFirstBoth, AmongNone DEF FailRecording
<1> QED
  BY <1>1, <1>3, <1>4

LEMMA UploadOfTake ==
  ASSUME NEW t, NEW c \in Cameras
  PROVE  PersistUpload(t, c) \in TakeFirst(t, OfUpload(t))
<1>1. GetTakeForUpdate(t) \in TakeFirst(t, OfUpload(t))
  BY GetTakeFirst, TakeFirstMore DEF OfUpload
<1>2. GetFinalizedRecordingForUpdate(t, c) \in Among(OfUpload(t))
  <2>1. {Exclusive(FinalizedRow(t, c))} \in SUBSET OfUpload(t)
    BY DEF OfUpload
  <2>2. {Gap(FinalizedTable)} \in SUBSET OfUpload(t)
    BY DEF OfUpload
  <2> QED
    BY <2>1, <2>2, AmongOne DEF GetFinalizedRecordingForUpdate
<1>3. FailVideoFile(t, c) \in Among(OfUpload(t))
  BY QueriesOfTake, AmongMore DEF OfUpload
<1>4. GetTakeForUpdate(t) \o GetFinalizedRecordingForUpdate(t, c) \in TakeFirst(t, OfUpload(t))
  BY <1>1, <1>2, TakeFirstBoth
<1> QED
  BY <1>3, <1>4, TakeFirstBoth DEF PersistUpload

LEMMA StageOfTake ==
  ASSUME NEW t, NEW c \in Cameras
  PROVE  StageFinalized(t, c) \in TakeFirst(t, OfStage(t, c))
<1> DEFINE L == OfStage(t, c)
<1>1. OfTake(t) \subseteq L
  BY DEF OfStage, OfUpload
<1>2. GetTakeForUpdate(t) \in TakeFirst(t, L)
  BY <1>1, GetTakeFirst, TakeFirstMore
<1>3. GetFinalizedRecordingForUpdate(t, c) \in Among(L)
  <2>1. {Exclusive(FinalizedRow(t, c))} \in SUBSET L
    BY DEF OfStage, OfUpload
  <2>2. {Gap(FinalizedTable)} \in SUBSET L
    BY DEF OfStage, OfUpload
  <2> QED
    BY <2>1, <2>2, AmongOne DEF GetFinalizedRecordingForUpdate
<1>4. GetVideoFileForUpdate(t, c) \in Among(L) /\ GetRecordingCameraForUpdate(t, c) \in Among(L)
  BY <1>1, QueriesOfTake, AmongMore
<1>5. InsertFinalizedRecording(t, c) \in Among(L)
  <2>1. /\ {Shared(TakeRow(t)), Shared(IdentityRow(c))} \in SUBSET L
        /\ {Insertion(FinalizedTable)} \in SUBSET L
        /\ {Exclusive(FinalizedRow(t, c))} \in SUBSET L
    BY DEF OfStage, OfUpload
  <2> QED
    BY <2>1 DEF InsertFinalizedRecording, Among
<1> HIDE DEF L
<1>6. InsertFinalizedRecording(t, c) \o GetVideoFileForUpdate(t, c) \in Among(L)
  BY <1>4, <1>5, AmongBoth
<1> DEFINE insert == IF row[t][c] = "recording"
                     THEN InsertFinalizedRecording(t, c) \o GetVideoFileForUpdate(t, c) ELSE <<>>
           rest == IF <<t, c>> \in finalized THEN GetVideoFileForUpdate(t, c)
                   ELSE GetRecordingCameraForUpdate(t, c) \o insert
<1>7. insert \in Among(L)
  BY <1>6, AmongNone
<1>8. rest \in Among(L)
  <2> HIDE DEF insert
  <2> QED
    BY <1>4, <1>7, AmongBoth
<1>9. GetTakeForUpdate(t) \o GetFinalizedRecordingForUpdate(t, c) \in TakeFirst(t, L)
  BY <1>2, <1>3, TakeFirstBoth
<1>10. (GetTakeForUpdate(t) \o GetFinalizedRecordingForUpdate(t, c)) \o rest \in TakeFirst(t, L)
  <2> HIDE DEF rest
  <2> QED
    BY <1>8, <1>9, TakeFirstBoth
<1> QED
  BY <1>10 DEF StageFinalized, L

-----------------------------------------------------------------------------
(* The transactions and their queries.                                     *)

\* The transactions that lock the session first, the cameras' that lock the
\* identity of theirs.
SessionKinds == {"start", "finish", "create", "delete", "forced_delete"}
EventKinds   == {"connected", "lost", "provisioned"}

LEMMA TransactionShape ==
  ASSUME NEW x \in Transactions
  PROVE  /\ x.kind \in SessionKinds \cup EventKinds \cup TakeKinds \cup {"deletion"}
         /\ x.kind \in TakeKinds \cup {"start"} => x.take \in Takes
         /\ x.kind \in TakeKinds \cup CameraKinds =>
              x.cameras = <<x.cameras[1]>> /\ x.cameras[1] \in Cameras
         /\ x.kind = "start" => x.cameras \in Seq(Cameras)
<1>1. CASE x.kind = "start"
  <2> DEFINE orders == UNION {SetToSeqs(S) : S \in (SUBSET Cameras) \ {{}}}
  <2>1. PICK t \in Takes, cs \in orders : x = Transaction("start", t, cs)
    <3> HIDE DEF orders
    <3>1. x \in {Transaction("start", t, cs) : t \in Takes, cs \in orders}
      BY <1>1 DEF Transactions, Transaction, TakeKinds, CameraKinds, orders
    <3> QED
      BY <3>1
  <2> PICK S \in SUBSET Cameras : cs \in SetToSeqs(S)
    OBVIOUS
  <2>2. Cardinality(S) \in Nat
    BY FinitenessAssumption, FS_Subset, FS_CardinalityType
  <2>3. cs \in [1 .. Cardinality(S) -> Cameras]
    BY DEF SetToSeqs
  <2>4. cs \in Seq(Cameras)
    BY <2>2, <2>3
  <2> QED
    BY <2>1, <2>4 DEF Transaction, SessionKinds, TakeKinds, CameraKinds
<1>2. CASE x.kind # "start"
  BY <1>2 DEF Transactions, Transaction, SessionKinds, EventKinds, TakeKinds, CameraKinds
<1> QED
  BY <1>1, <1>2

\* What is asked for is the next of a query that all before have been run.
LEMMA AskedBy ==
  ASSUME NEW x, NEW lock \in NextLocks(x)
  PROVE  \E i \in DOMAIN Queries(x) :
           /\ lock \in NextOf(held[x], Queries(x)[i])
           /\ \A k \in 1 .. i - 1 : IsThrough(held[x], Queries(x)[k])
BY DEF NextLocks

\* A set in the order SetToSeq puts it.
LEMMA SetToSeqType ==
  ASSUME NEW S, IsFiniteSet(S)
  PROVE  SetToSeq(S) \in Seq(S) /\ \A e \in S : \E i \in DOMAIN SetToSeq(S) : SetToSeq(S)[i] = e
<1>1. Cardinality(S) \in Nat /\ ExistsBijection(1 .. Cardinality(S), S)
  BY FS_CardinalityType
<1>2. PICK f : f \in Bijection(1 .. Cardinality(S), S)
  BY <1>1 DEF ExistsBijection
<1>3. f \in [1 .. Cardinality(S) -> S] /\ IsInjective(f)
  BY <1>2 DEF Bijection, Injection, Surjection, IsInjective
<1>4. SetToSeq(S) \in [1 .. Cardinality(S) -> S] /\ IsInjective(SetToSeq(S))
  BY <1>3 DEF SetToSeq
<1> DEFINE s == SetToSeq(S)
           n == Cardinality(S)
<1>5. s \in Injection(1 .. n, S)
  BY <1>4 DEF Injection, IsInjective
<1>6. IsFiniteSet(1 .. n) /\ Cardinality(1 .. n) = n
  BY <1>1, FS_Interval
<1>7. s \in Surjection(1 .. n, S)
  BY <1>5, <1>6, FS_Injection
<1>8. \A e \in S : \E i \in 1 .. n : s[i] = e
  BY <1>7 DEF Surjection
<1> QED
  BY <1>1, <1>4, <1>8

-----------------------------------------------------------------------------
(* The queries that lock the session and the cameras.                      *)

LEMMA MissingOne ==
  ASSUME NEW own, NEW name
  PROVE  /\ Missing(own, {Exclusive(name)}) = {} <=> HoldsX(own, name)
         /\ Missing(own, {Exclusive(name)}) \subseteq {Exclusive(name)}
BY CoversExclusive DEF Missing

LEMMA GetSessionNext ==
  ASSUME NEW own, NEW lock \in NextOf(own, GetSessionForUpdate)
  PROVE  \/ lock = Exclusive(SessionRow)
         \/ /\ HoldsX(own, SessionRow)
            /\ \E u \in ExistingTakes : lock = Exclusive(TakeRow(u))
<1> DEFINE takes == {Exclusive(TakeRow(u)) : u \in ExistingTakes}
<1>1. \/ lock \in Missing(own, {Exclusive(SessionRow)})
      \/ Missing(own, {Exclusive(SessionRow)}) = {} /\ lock \in Missing(own, takes)
  BY NextOfTwo DEF GetSessionForUpdate
<1>2. lock \in Missing(own, takes) => \E u \in ExistingTakes : lock = Exclusive(TakeRow(u))
  BY DEF Missing
<1> QED
  BY <1>1, <1>2, MissingOne

LEMMA GetSessionThrough ==
  ASSUME NEW own, IsThrough(own, GetSessionForUpdate)
  PROVE  /\ HoldsX(own, SessionRow)
         /\ \A u \in ExistingTakes : HoldsX(own, TakeRow(u))
<1> DEFINE takes == {Exclusive(TakeRow(u)) : u \in ExistingTakes}
<1>1. Missing(own, {Exclusive(SessionRow)}) = {} /\ Missing(own, takes) = {}
  BY ThroughTwo DEF GetSessionForUpdate
<1>2. \A u \in ExistingTakes : Covers(own, Exclusive(TakeRow(u)))
  BY <1>1 DEF Missing
<1> QED
  BY <1>1, <1>2, MissingOne, CoversExclusive

LEMMA GetCameraNext ==
  ASSUME NEW own, NEW c, NEW lock \in NextOf(own, GetCameraForUpdate(c))
  PROVE  \/ lock = Exclusive(SessionRow)
         \/ HoldsX(own, SessionRow) /\ lock = Exclusive(IdentityRow(c))
         \/ /\ HoldsX(own, SessionRow) /\ HoldsX(own, IdentityRow(c))
            /\ lock = Exclusive(ConnectionRow(c))
<1> DEFINE A == {Exclusive(SessionRow)}
           B == {Exclusive(IdentityRow(c))}
           C == {Exclusive(ConnectionRow(c))}
<1>1. lock \in NextOf(own, <<A, B, C>>)
  BY DEF GetCameraForUpdate
<1>2. \/ lock \in Missing(own, A)
      \/ Missing(own, A) = {} /\ lock \in Missing(own, B)
      \/ Missing(own, A) = {} /\ Missing(own, B) = {} /\ lock \in Missing(own, C)
  <2> HIDE DEF A, B, C
  <2> QED
    BY <1>1, NextOfThree
<1> QED
  BY <1>2, MissingOne

LEMMA GetCameraThrough ==
  ASSUME NEW own, NEW c
  PROVE  IsThrough(own, GetCameraForUpdate(c)) <=>
           HoldsX(own, SessionRow) /\ HoldsX(own, IdentityRow(c)) /\ HoldsX(own, ConnectionRow(c))
<1>1. IsThrough(own, GetCameraForUpdate(c)) <=>
        /\ Missing(own, {Exclusive(SessionRow)}) = {}
        /\ Missing(own, {Exclusive(IdentityRow(c))}) = {}
        /\ Missing(own, {Exclusive(ConnectionRow(c))}) = {}
  BY DEF GetCameraForUpdate, IsThrough
<1> QED
  BY <1>1, MissingOne

LEMMA GetCameraByIdNext ==
  ASSUME NEW own, NEW c, NEW lock \in NextOf(own, GetCameraByIdForUpdate(c))
  PROVE  \/ lock = Exclusive(IdentityRow(c))
         \/ HoldsX(own, IdentityRow(c)) /\ lock = Exclusive(ConnectionRow(c))
BY NextOfTwo, MissingOne DEF GetCameraByIdForUpdate

LEMMA GetCameraByIdThrough ==
  ASSUME NEW own, NEW c
  PROVE  IsThrough(own, GetCameraByIdForUpdate(c)) <=>
           HoldsX(own, IdentityRow(c)) /\ HoldsX(own, ConnectionRow(c))
<1>1. IsThrough(own, GetCameraByIdForUpdate(c)) <=>
        /\ Missing(own, {Exclusive(IdentityRow(c))}) = {}
        /\ Missing(own, {Exclusive(ConnectionRow(c))}) = {}
  BY DEF GetCameraByIdForUpdate, IsThrough
<1> QED
  BY <1>1, MissingOne

LEMMA SaveConnectionNext ==
  ASSUME NEW own, NEW c, NEW lock \in NextOf(own, SaveCameraConnection(c))
  PROVE  lock = Exclusive(ConnectionRow(c)) /\ ~ HoldsX(own, ConnectionRow(c))
BY NextOfOne, MissingOne DEF SaveCameraConnection

LEMMA CreateNext ==
  ASSUME NEW own, NEW c, HoldsX(own, SessionRow), NEW lock \in NextOf(own, CreateCameraRows(c))
  PROVE  \/ lock = Exclusive(IdentityRow(c))
         \/ HoldsX(own, IdentityRow(c)) /\ lock = Exclusive(ConnectionRow(c))
<1>1. Missing(own, {Shared(SessionRow)}) = {}
  BY CoversAny DEF Missing, Shared
<1> QED
  BY <1>1, NextOfThree, MissingOne DEF CreateCameraRows

-----------------------------------------------------------------------------
(* The order in which locks are asked for.                                 *)

TakeTables == {"recording_cameras", "video_files", "finalized_recordings"}

\* What a transaction holds when it asks for a lock, and since.
InOrder(own, lock, x, existing) ==
  /\ x.kind \in SessionKinds => lock = Exclusive(SessionRow) \/ HoldsX(own, SessionRow)
  /\ x.kind \in TakeKinds =>
       lock = Exclusive(TakeRow(x.take)) \/ HoldsX(own, TakeRow(x.take))
  /\ x.kind \in EventKinds =>
       lock = Exclusive(IdentityRow(x.cameras[1])) \/ HoldsX(own, IdentityRow(x.cameras[1]))
  /\ x.kind # "deletion" /\ lock.on[1] = "camera_connections" =>
       HoldsX(own, IdentityRow(lock.on[3]))
  /\ x.kind # "deletion" /\ lock.on[1] \in TakeTables /\ lock.mode \in {"X", "S"} =>
       HoldsX(own, TakeRow(lock.on[2]))
  /\ x.kind = "finish" /\ lock.on[1] = "camera_identities" => lock.mode = "S"
  /\ x.kind \in {"start", "finish", "create"} /\ lock.on[1] = "camera_identities" =>
       \A u \in existing : HoldsX(own, TakeRow(u))
  /\ x.kind = "delete" /\ lock.on[1] = "camera_identities" => lock.on[3] = x.cameras[1]
  /\ lock.mode = "gap" => x.kind \in {"stage", "upload"}

LEMMA HoldsMore ==
  ASSUME NEW own, NEW more, own \subseteq more, NEW name, HoldsX(own, name)
  PROVE  HoldsX(more, name)
BY DEF HoldsX

LEMMA InOrderMore ==
  ASSUME NEW own, NEW more, own \subseteq more, NEW lock, NEW x, NEW existing, NEW fewer,
         fewer \subseteq existing, InOrder(own, lock, x, existing)
  PROVE  InOrder(more, lock, x, fewer)
BY HoldsMore DEF InOrder

\* What a lock of a row of a take is.
LEMMA OfTakeLock ==
  ASSUME NEW t, NEW lock \in OfTake(t)
  PROVE  /\ lock.mode = "X" /\ lock.on[2] = t
         /\ lock.on[1] \in {"takes"} \cup TakeTables
BY DEF OfTake, Exclusive, TakeRow, RecordingRow, VideoRow, TakeTables

LEMMA OfStageLock ==
  ASSUME NEW t, NEW c, NEW lock \in OfStage(t, c)
  PROVE  /\ lock.on[1] \in {"takes", "camera_identities"} \cup TakeTables
         /\ lock.mode \in {"X", "S"} /\ lock.on[1] \in TakeTables => lock.on[2] = t
BY DEF OfStage, OfUpload, OfTake, Exclusive, Shared, Gap, Insertion, TakeRow, RecordingRow,
     VideoRow, FinalizedRow, FinalizedTable, IdentityRow, TakeTables

LEMMA TakeFirstNext ==
  ASSUME NEW own, NEW t, NEW locks, NEW query \in TakeFirst(t, locks),
         NEW lock \in NextOf(own, query)
  PROVE  /\ lock \in locks /\ ~ Covers(own, lock)
         /\ lock = Exclusive(TakeRow(t)) \/ HoldsX(own, TakeRow(t))
<1>1. query \in Among(locks) /\ query # <<>> /\ query[1] = {Exclusive(TakeRow(t))}
  BY DEF TakeFirst
<1> QED
  BY <1>1, NextMissing, NextFirst, MissingOne

\* The transactions of a take.
LEMMA AskedOfTake ==
  ASSUME NEW x \in Transactions, x.kind \in TakeKinds, NEW lock \in NextLocks(x)
  PROVE  /\ lock \in OfStage(x.take, x.cameras[1]) /\ ~ Covers(held[x], lock)
         /\ x.kind \in {"started", "failed"} => lock \in OfTake(x.take)
         /\ x.kind = "upload" => lock \in OfUpload(x.take)
         /\ InOrder(held[x], lock, x, ExistingTakes)
<1> DEFINE t == x.take
           c == x.cameras[1]
           own == held[x]
<1>1. t \in Takes /\ c \in Cameras
  BY TransactionShape
<1>2. OfTake(t) \subseteq OfUpload(t) /\ OfUpload(t) \subseteq OfStage(t, c)
  BY DEF OfUpload, OfStage
<1>3. \E query \in TakeFirst(t, OfStage(t, c)) :
        /\ lock \in NextOf(own, query)
        /\ x.kind \in {"started", "failed"} => query \in TakeFirst(t, OfTake(t))
        /\ x.kind = "upload" => query \in TakeFirst(t, OfUpload(t))
  <2>1. CASE x.kind = "started"
    <3>1. Queries(x) = <<PersistRecordingStarted(t, c)>>
      BY <2>1 DEF Queries
    <3>2. lock \in NextOf(own, PersistRecordingStarted(t, c))
      BY <3>1, AskedBy
    <3> QED
      BY <1>1, <1>2, <2>1, <3>2, TransactionsOfTake, TakeFirstMore
  <2>2. CASE x.kind = "failed"
    <3>1. Queries(x) = <<FailRecording(t, c)>>
      BY <2>2 DEF Queries
    <3>2. lock \in NextOf(own, FailRecording(t, c))
      BY <3>1, AskedBy
    <3> QED
      BY <1>1, <1>2, <2>2, <3>2, TransactionsOfTake, TakeFirstMore
  <2>3. CASE x.kind = "upload"
    <3>1. Queries(x) = <<PersistUpload(t, c)>>
      BY <2>3 DEF Queries
    <3>2. lock \in NextOf(own, PersistUpload(t, c))
      BY <3>1, AskedBy
    <3> QED
      BY <1>1, <1>2, <2>3, <3>2, UploadOfTake, TakeFirstMore
  <2>4. CASE x.kind = "stage"
    <3>1. Queries(x) = <<StageFinalized(t, c)>>
      BY <2>4 DEF Queries
    <3>2. lock \in NextOf(own, StageFinalized(t, c))
      BY <3>1, AskedBy
    <3> QED
      BY <1>1, <2>4, <3>2, StageOfTake
  <2> QED
    BY <2>1, <2>2, <2>3, <2>4 DEF TakeKinds
<1>4. /\ lock \in OfStage(t, c) /\ ~ Covers(own, lock)
      /\ x.kind \in {"started", "failed"} => lock \in OfTake(t)
      /\ x.kind = "upload" => lock \in OfUpload(t)
      /\ lock = Exclusive(TakeRow(t)) \/ HoldsX(own, TakeRow(t))
  BY <1>3, TakeFirstNext
<1>5. InOrder(own, lock, x, ExistingTakes)
  <2>1. lock.on[1] \in TakeTables /\ lock.mode \in {"X", "S"} => HoldsX(own, TakeRow(lock.on[2]))
    <3>1. lock = Exclusive(TakeRow(t)) => lock.on[1] = "takes"
      BY DEF Exclusive, TakeRow
    <3> QED
      BY <1>4, <3>1, OfStageLock DEF TakeTables
  <2>2. lock.on[1] # "camera_connections"
    BY <1>4, OfStageLock DEF TakeTables
  <2>3. lock.mode = "gap" => x.kind \in {"stage", "upload"}
    BY <1>4, OfTakeLock DEF TakeKinds
  <2>4. x.kind \notin SessionKinds \cup EventKinds \cup {"finish", "start", "create", "delete"}
    BY DEF SessionKinds, EventKinds, TakeKinds
  <2> QED
    BY <1>4, <2>1, <2>2, <2>3, <2>4 DEF InOrder
<1> QED
  BY <1>4, <1>5

-----------------------------------------------------------------------------
(* Sequences of queries.                                                   *)

\* The lock is asked for by a query that all before have been run.
Asks(own, queries, lock) ==
  \E i \in DOMAIN queries : /\ lock \in NextOf(own, queries[i])
                            /\ \A k \in 1 .. i - 1 : IsThrough(own, queries[k])

AllThrough(own, queries) == \A i \in DOMAIN queries : IsThrough(own, queries[i])

\* A transaction that has all its locks is through with all its queries.
LEMMA AllLocksThrough ==
  ASSUME NEW x, HasAllLocks(x)
  PROVE  AllThrough(held[x], Queries(x))
BY DEF AllThrough, HasAllLocks

LEMMA AllThroughBoth ==
  ASSUME NEW own, NEW S, NEW p \in Seq(S), NEW q \in Seq(S)
  PROVE  AllThrough(own, p \o q) <=> AllThrough(own, p) /\ AllThrough(own, q)
<1> DEFINE m == Len(p)
           n == Len(q)
           r == p \o q
<1>1. /\ m \in Nat /\ n \in Nat
      /\ DOMAIN p = 1 .. m /\ DOMAIN q = 1 .. n /\ DOMAIN r = 1 .. m + n
      /\ \A i \in 1 .. m : r[i] = p[i]
      /\ \A i \in 1 .. n : r[m + i] = q[i]
      /\ \A i \in 1 .. m + n : i \notin 1 .. m => i - m \in 1 .. n /\ r[i] = q[i - m]
  BY Indices
<1> HIDE DEF m, n, r
<1>2. ASSUME AllThrough(own, r) PROVE AllThrough(own, p) /\ AllThrough(own, q)
  <2>1. \A i \in 1 .. m : i \in 1 .. m + n
    BY <1>1
  <2>2. \A i \in 1 .. n : m + i \in 1 .. m + n
    BY <1>1
  <2> QED
    BY <1>1, <1>2, <2>1, <2>2 DEF AllThrough
<1>3. ASSUME AllThrough(own, p), AllThrough(own, q) PROVE AllThrough(own, r)
  BY <1>1, <1>3 DEF AllThrough
<1> QED
  BY <1>2, <1>3 DEF r

LEMMA AsksBoth ==
  ASSUME NEW own, NEW S, NEW p \in Seq(S), NEW q \in Seq(S), NEW lock, Asks(own, p \o q, lock)
  PROVE  \/ Asks(own, p, lock)
         \/ AllThrough(own, p) /\ Asks(own, q, lock)
<1> DEFINE m == Len(p)
           n == Len(q)
           r == p \o q
<1>1. /\ m \in Nat /\ n \in Nat
      /\ DOMAIN p = 1 .. m /\ DOMAIN q = 1 .. n /\ DOMAIN r = 1 .. m + n
      /\ \A i \in 1 .. m : r[i] = p[i]
      /\ \A i \in 1 .. n : r[m + i] = q[i]
      /\ \A i \in 1 .. m + n : i \notin 1 .. m => i - m \in 1 .. n /\ r[i] = q[i - m]
  BY Indices
<1>2. PICK i \in DOMAIN r : /\ lock \in NextOf(own, r[i])
                            /\ \A k \in 1 .. i - 1 : IsThrough(own, r[k])
  BY DEF Asks
<1> HIDE DEF m, n, r
<1>3. CASE i \in 1 .. m
  <2>1. \A k \in 1 .. i - 1 : k \in 1 .. m
    BY <1>1, <1>3
  <2> QED
    BY <1>1, <1>2, <1>3, <2>1 DEF Asks
<1>4. CASE i \notin 1 .. m
  <2>1. i - m \in 1 .. n /\ lock \in NextOf(own, q[i - m])
    BY <1>1, <1>2, <1>4
  <2>2. \A k \in 1 .. m : k \in 1 .. i - 1
    BY <1>1, <1>4
  <2>3. AllThrough(own, p)
    BY <1>1, <1>2, <2>2 DEF AllThrough
  <2>4. \A k \in 1 .. (i - m) - 1 : m + k \in 1 .. i - 1 /\ k \in 1 .. n
    BY <1>1, <2>1
  <2>5. \A k \in 1 .. (i - m) - 1 : IsThrough(own, q[k])
    BY <1>1, <1>2, <2>4
  <2> QED
    BY <1>1, <2>1, <2>3, <2>5 DEF Asks
<1> QED
  BY <1>3, <1>4

LEMMA AsksOne ==
  ASSUME NEW own, NEW A, NEW lock
  PROVE  /\ Asks(own, <<A>>, lock) => lock \in NextOf(own, A)
         /\ AllThrough(own, <<A>>) <=> IsThrough(own, A)
BY DEF Asks, AllThrough

LEMMA AsksTwo ==
  ASSUME NEW own, NEW A, NEW B, NEW lock
  PROVE  /\ Asks(own, <<A, B>>, lock) =>
              \/ lock \in NextOf(own, A)
              \/ IsThrough(own, A) /\ lock \in NextOf(own, B)
         /\ AllThrough(own, <<A, B>>) <=> IsThrough(own, A) /\ IsThrough(own, B)
<1>1. ASSUME NEW i \in {1, 2}, lock \in NextOf(own, <<A, B>>[i]),
             \A k \in 1 .. i - 1 : IsThrough(own, <<A, B>>[k])
      PROVE  \/ lock \in NextOf(own, A)
             \/ IsThrough(own, A) /\ lock \in NextOf(own, B)
  BY <1>1
<1>2. AllThrough(own, <<A, B>>) <=> IsThrough(own, A) /\ IsThrough(own, B)
  BY DEF AllThrough
<1> QED
  BY <1>1, <1>2 DEF Asks

LEMMA AsksNone ==
  ASSUME NEW own, NEW lock
  PROVE  ~ Asks(own, <<>>, lock) /\ AllThrough(own, <<>>)
BY DEF Asks, AllThrough

-----------------------------------------------------------------------------
(* The types of the queries.                                               *)

Programs == Seq(Among(RowLock))

\* One program after another.
LEMMA ThroughEach ==
  ASSUME NEW own, NEW p \in Programs, NEW q \in Programs
  PROVE  AllThrough(own, p \o q) <=> AllThrough(own, p) /\ AllThrough(own, q)
BY AllThroughBoth DEF Programs

LEMMA AsksEither ==
  ASSUME NEW own, NEW p \in Programs, NEW q \in Programs, NEW lock, Asks(own, p \o q, lock)
  PROVE  \/ Asks(own, p, lock)
         \/ AllThrough(own, p) /\ Asks(own, q, lock)
BY AsksBoth DEF Programs

LEMMA OfStageType ==
  ASSUME NEW t \in Takes, NEW c \in Cameras
  PROVE  OfTake(t) \subseteq RowLock /\ OfStage(t, c) \subseteq RowLock
<1>1. /\ TakeRow(t) \in Name /\ FinalizedTable \in Name /\ IdentityRow(c) \in Name
      /\ \A d \in Cameras : /\ RecordingRow(t, d) \in Name /\ VideoRow(t, d) \in Name
                            /\ FinalizedRow(t, d) \in Name
  BY DEF Name, Tables, TakeRow, RecordingRow, VideoRow, FinalizedRow, FinalizedTable, IdentityRow
<1> QED
  BY <1>1 DEF OfStage, OfUpload, OfTake, RowLock, Exclusive, Shared, Gap, Insertion

LEMMA SessionQueryType == GetSessionForUpdate \in Among(RowLock)
<1>1. SessionRow \in Name /\ \A t \in Takes : TakeRow(t) \in Name
  BY DEF Name, Tables, SessionRow, TakeRow
<1>2. /\ {Exclusive(SessionRow)} \in SUBSET RowLock
      /\ {Exclusive(TakeRow(t)) : t \in ExistingTakes} \in SUBSET RowLock
  BY <1>1 DEF RowLock, Exclusive, ExistingTakes
<1> QED
  BY <1>2 DEF GetSessionForUpdate, Among

LEMMA CameraQueriesType ==
  ASSUME NEW c \in Cameras
  PROVE  /\ GetCameraForUpdate(c) \in Among(RowLock)
         /\ GetCameraByIdForUpdate(c) \in Among(RowLock)
         /\ CreateCameraRows(c) \in Among(RowLock)
         /\ SaveCameraConnection(c) \in Among(RowLock)
         /\ DeleteCameraConnection(c) \in Among(RowLock)
<1>1. /\ SessionRow \in Name /\ IdentityRow(c) \in Name /\ ConnectionRow(c) \in Name
      /\ \A t \in Takes : RecordingRow(t, c) \in Name
  BY DEF Name, Tables, SessionRow, IdentityRow, ConnectionRow, RecordingRow
<1>2. /\ {Exclusive(SessionRow)} \in SUBSET RowLock /\ {Shared(SessionRow)} \in SUBSET RowLock
      /\ {Exclusive(IdentityRow(c))} \in SUBSET RowLock
      /\ {Exclusive(ConnectionRow(c))} \in SUBSET RowLock
      /\ {Shared(RecordingRow(t, c)) : t \in {u \in Takes : row[u][c] # "none"}} \in SUBSET RowLock
  BY <1>1 DEF RowLock, Exclusive, Shared
<1> QED
  BY <1>2 DEF GetCameraForUpdate, GetCameraByIdForUpdate, CreateCameraRows,
       SaveCameraConnection, DeleteCameraConnection, Among

LEMMA TakeQueriesType ==
  ASSUME NEW t \in Takes, NEW c \in Cameras
  PROVE  /\ FailUpload(t, c) \in Among(RowLock)
         /\ FailRecording(t, c) \in Among(RowLock)
         /\ PersistRecordingStarted(t, c) \in Among(RowLock)
         /\ PersistUpload(t, c) \in Among(RowLock)
         /\ StageFinalized(t, c) \in Among(RowLock)
<1>1. OfTake(t) \subseteq RowLock /\ OfUpload(t) \subseteq RowLock /\ OfStage(t, c) \subseteq RowLock
  BY OfStageType DEF OfStage
<1>2. /\ FailUpload(t, c) \in Among(OfTake(t)) /\ FailRecording(t, c) \in Among(OfTake(t))
      /\ PersistRecordingStarted(t, c) \in Among(OfTake(t))
      /\ PersistUpload(t, c) \in Among(OfUpload(t))
      /\ StageFinalized(t, c) \in Among(OfStage(t, c))
  BY TransactionsOfTake, UploadOfTake, StageOfTake DEF TakeFirst
<1> QED
  BY <1>1, <1>2, AmongMore

LEMMA RowsOfTake ==
  ASSUME NEW t
  PROVE  /\ LoadRecordingCameras(t) \in Among(OfTake(t))
         /\ DeleteRecordingCameras(t) \in Among(OfTake(t))
<1>1. {Exclusive(RecordingRow(t, d)) : d \in RowsOf(t)} \in SUBSET OfTake(t)
  BY DEF OfTake, RowsOf
<1> QED
  BY <1>1, AmongOne DEF LoadRecordingCameras, DeleteRecordingCameras

\* What finish_take finds is a take.
LEMMA OngoingTakeType ==
  ASSUME OngoingTakes # {}
  PROVE  /\ OngoingTake \in Takes /\ take[OngoingTake] = "ongoing"
         /\ OngoingTake \in ExistingTakes
BY DEF OngoingTake, OngoingTakes, ExistingTakes

LEMMA OfTakeType ==
  ASSUME NEW t \in Takes
  PROVE  OfTake(t) \subseteq RowLock
<1>1. /\ TakeRow(t) \in Name
      /\ \A d \in Cameras : RecordingRow(t, d) \in Name /\ VideoRow(t, d) \in Name
  BY DEF Name, Tables, TakeRow, RecordingRow, VideoRow
<1> QED
  BY <1>1 DEF OfTake, RowLock, Exclusive

OngoingRows == IF OngoingTakes = {} THEN <<>> ELSE LoadRecordingCameras(OngoingTake)

SettledRows(t) ==
  IF \E c \in Cameras : row[t][c] = "recording" THEN <<>> ELSE DeleteRecordingCameras(t)

LEMMA FinishType ==
  /\ OngoingRows \in Among(RowLock)
  /\ GetOngoingTakeForUpdate \in Among(RowLock)
  /\ \A t \in Takes : /\ ReplaceOngoingWithFinished(t) \in Among(RowLock)
                      /\ SettledRows(t) \in Among(RowLock)
                      /\ ReplaceOngoing(t) \in Among(RowLock)
<1>1. OngoingRows \in Among(RowLock)
  BY OngoingTakeType, RowsOfTake, OfTakeType, AmongMore, AmongNone DEF OngoingRows
<1>2. GetOngoingTakeForUpdate \in Among(RowLock)
  BY <1>1, SessionQueryType, AmongBoth
     DEF GetOngoingTakeForUpdate, GetSessionForUpdate, OngoingRows
<1>3. ASSUME NEW t \in Takes
      PROVE  /\ ReplaceOngoingWithFinished(t) \in Among(RowLock)
             /\ SettledRows(t) \in Among(RowLock)
             /\ ReplaceOngoing(t) \in Among(RowLock)
  <2>1. {Exclusive(TakeRow(t))} \in SUBSET RowLock
    BY OfTakeType DEF OfTake
  <2>2. \A c \in Cameras : InsertVideoFile(t, c) \in SUBSET RowLock
    BY OfStageType DEF InsertVideoFile, OfStage, OfUpload, OfTake
  <2>3. UNION {InsertVideoFile(t, c) : c \in RowsOf(t)} \in SUBSET RowLock
    BY <2>2 DEF RowsOf
  <2>4. ReplaceOngoingWithFinished(t) \in Among(RowLock)
    BY <2>1, <2>3 DEF ReplaceOngoingWithFinished, Among
  <2>5. SettledRows(t) \in Among(RowLock)
    BY RowsOfTake, OfTakeType, AmongMore, AmongNone DEF SettledRows
  <2> QED
    BY <2>4, <2>5, AmongBoth DEF ReplaceOngoing, SettledRows
<1> QED
  BY <1>1, <1>2, <1>3

\* finish_take.
LEMMA AskedOfFinish ==
  ASSUME NEW x, x.kind = "finish", NEW lock \in NextLocks(x)
  PROVE  lock \in RowLock /\ InOrder(held[x], lock, x, ExistingTakes)
<1> DEFINE own == held[x]
           o == OngoingTake
           second == IF OngoingTakes = {} THEN <<>> ELSE ReplaceOngoing(o)
<1>1. Queries(x) = <<GetOngoingTakeForUpdate, second>>
  BY DEF Queries, FinishTake
<1>2. \/ lock \in NextOf(own, GetOngoingTakeForUpdate)
      \/ IsThrough(own, GetOngoingTakeForUpdate) /\ lock \in NextOf(own, second)
  BY <1>1, AskedBy, AsksTwo DEF Asks
<1>3. lock \in NextOf(own, GetOngoingTakeForUpdate) =>
        \/ lock \in NextOf(own, GetSessionForUpdate)
        \/ IsThrough(own, GetSessionForUpdate) /\ lock \in NextOf(own, OngoingRows)
  BY FinishType, SessionQueryType, NextOfBoth
     DEF GetOngoingTakeForUpdate, GetSessionForUpdate, OngoingRows
<1>4. IsThrough(own, GetOngoingTakeForUpdate) => IsThrough(own, GetSessionForUpdate)
  BY FinishType, SessionQueryType, ThroughBoth
     DEF GetOngoingTakeForUpdate, GetSessionForUpdate, OngoingRows
<1>5. CASE lock \in NextOf(own, GetSessionForUpdate)
  <2>1. \/ lock = Exclusive(SessionRow)
        \/ HoldsX(own, SessionRow) /\ \E u \in Takes : lock = Exclusive(TakeRow(u))
    BY <1>5, GetSessionNext DEF ExistingTakes
  <2>2. lock \in RowLock
    BY <1>5, SessionQueryType, NextMissing
  <2>3. lock.on[1] \in {"session", "takes"} /\ lock.mode = "X"
    BY <2>1 DEF Exclusive, SessionRow, TakeRow
  <2> QED
    BY <2>1, <2>2, <2>3 DEF InOrder, TakeTables, TakeKinds, EventKinds
<1>6. CASE IsThrough(own, GetSessionForUpdate) /\ lock \in NextOf(own, OngoingRows)
  <2>1. OngoingTakes # {} /\ lock \in NextOf(own, LoadRecordingCameras(o))
    BY <1>6, NextOfNone DEF OngoingRows
  <2>2. lock \in OfTake(o)
    BY <2>1, RowsOfTake, NextMissing
  <2>3. HoldsX(own, SessionRow) /\ HoldsX(own, TakeRow(o))
    BY <1>6, <2>1, GetSessionThrough, OngoingTakeType
  <2>4. lock \in RowLock
    BY <2>1, <2>2, OngoingTakeType, OfTakeType
  <2> QED
    BY <2>2, <2>3, <2>4, OfTakeLock DEF InOrder, TakeTables, TakeKinds, EventKinds
<1>7. CASE IsThrough(own, GetSessionForUpdate) /\ lock \in NextOf(own, second)
  <2>1. OngoingTakes # {} /\ lock \in NextOf(own, ReplaceOngoing(o))
    BY <1>7, NextOfNone
  <2>2. /\ HoldsX(own, SessionRow) /\ HoldsX(own, TakeRow(o))
        /\ \A u \in ExistingTakes : HoldsX(own, TakeRow(u))
    BY <1>7, <2>1, GetSessionThrough, OngoingTakeType
  <2>3. o \in Takes
    BY <2>1, OngoingTakeType
  <2>4. lock \in RowLock
    BY <2>1, <2>3, FinishType, NextMissing
  <2>5. lock \in NextOf(own, ReplaceOngoingWithFinished(o)) \/ lock \in NextOf(own, SettledRows(o))
    BY <2>1, <2>3, FinishType, NextOfBoth DEF ReplaceOngoing, SettledRows
  <2>6. CASE lock \in NextOf(own, SettledRows(o))
    <3>1. lock \in OfTake(o)
      BY <2>6, RowsOfTake, NextMissing, NextOfNone DEF SettledRows
    <3> QED
      BY <2>2, <2>4, <3>1, OfTakeLock DEF InOrder, TakeTables, TakeKinds, EventKinds
  <2>7. CASE lock \in NextOf(own, ReplaceOngoingWithFinished(o))
    <3> DEFINE videos == UNION {InsertVideoFile(o, c) : c \in RowsOf(o)}
    <3>1. lock = Exclusive(TakeRow(o)) \/ lock \in videos
      BY <2>7, NextOfTwo, MissingOne DEF ReplaceOngoingWithFinished, Missing
    <3>2. /\ lock.on[1] \in {"takes", "camera_identities", "video_files"}
          /\ lock.on[1] = "camera_identities" => lock.mode = "S"
          /\ lock.on[1] = "video_files" => lock.on[2] = o
          /\ lock.mode # "gap"
      BY <3>1 DEF InsertVideoFile, Exclusive, Shared, TakeRow, IdentityRow, VideoRow
    <3> QED
      BY <2>2, <2>4, <3>2 DEF InOrder, TakeTables, TakeKinds, EventKinds
  <2> QED
    BY <2>5, <2>6, <2>7
<1> QED
  BY <1>2, <1>3, <1>4, <1>5, <1>6, <1>7

\* create_camera.
LEMMA AskedOfCreate ==
  ASSUME NEW x \in Transactions, x.kind = "create", NEW lock \in NextLocks(x)
  PROVE  lock \in RowLock /\ InOrder(held[x], lock, x, ExistingTakes)
<1> DEFINE own == held[x]
           c == x.cameras[1]
<1>1. c \in Cameras
  BY TransactionShape DEF CameraKinds
<1>2. Queries(x) = <<GetSessionForUpdate, CreateCameraRows(c)>>
  BY DEF Queries
<1>3. \/ lock \in NextOf(own, GetSessionForUpdate)
      \/ IsThrough(own, GetSessionForUpdate) /\ lock \in NextOf(own, CreateCameraRows(c))
  BY <1>2, AskedBy, AsksTwo DEF Asks
<1>4. lock \in RowLock
  BY <1>1, <1>3, SessionQueryType, CameraQueriesType, NextMissing
<1>5. CASE lock \in NextOf(own, GetSessionForUpdate)
  <2>1. lock = Exclusive(SessionRow) \/ HoldsX(own, SessionRow)
    BY <1>5, GetSessionNext
  <2>2. lock.on[1] \in {"session", "takes"} /\ lock.mode = "X"
    BY <1>5, GetSessionNext DEF Exclusive, SessionRow, TakeRow
  <2> QED
    BY <1>4, <2>1, <2>2 DEF InOrder, TakeTables, TakeKinds, EventKinds
<1>6. CASE IsThrough(own, GetSessionForUpdate) /\ lock \in NextOf(own, CreateCameraRows(c))
  <2>1. HoldsX(own, SessionRow) /\ \A u \in ExistingTakes : HoldsX(own, TakeRow(u))
    BY <1>6, GetSessionThrough
  <2>2. \/ lock = Exclusive(IdentityRow(c))
        \/ HoldsX(own, IdentityRow(c)) /\ lock = Exclusive(ConnectionRow(c))
    BY <1>6, <2>1, CreateNext
  <2>3. /\ lock.mode = "X" /\ lock.on[1] \in {"camera_identities", "camera_connections"}
        /\ lock.on[1] = "camera_connections" => HoldsX(own, IdentityRow(lock.on[3]))
    BY <2>2 DEF Exclusive, IdentityRow, ConnectionRow
  <2> QED
    BY <1>4, <2>1, <2>3 DEF InOrder, TakeTables, TakeKinds, EventKinds
<1> QED
  BY <1>3, <1>5, <1>6

\* What is done on every take that the unlocked read has returned.
EachUpload(x, c)    == OnEachRead(x, LAMBDA t : FailUpload(t, c))
EachRecording(x, c) == OnEachRead(x, LAMBDA t : FailRecording(t, c))

LEMMA EachRead ==
  ASSUME NEW x, NEW c \in Cameras, x \in DOMAIN seen => seen[x] \subseteq Takes
  PROVE  /\ EachUpload(x, c) \in Programs /\ EachRecording(x, c) \in Programs
         /\ x \notin DOMAIN seen => EachUpload(x, c) = <<>> /\ EachRecording(x, c) = <<>>
         /\ \A i \in DOMAIN EachUpload(x, c) :
              x \in DOMAIN seen /\ \E t \in seen[x] : EachUpload(x, c)[i] = FailUpload(t, c)
         /\ \A i \in DOMAIN EachRecording(x, c) :
              x \in DOMAIN seen /\ \E t \in seen[x] : EachRecording(x, c)[i] = FailRecording(t, c)
<1>1. CASE x \in DOMAIN seen
  <2> DEFINE takes == SetToSeq(seen[x])
             ups == [i \in DOMAIN takes |-> FailUpload(takes[i], c)]
             recs == [i \in DOMAIN takes |-> FailRecording(takes[i], c)]
  <2>1. IsFiniteSet(seen[x])
    BY <1>1, FinitenessAssumption, FS_Subset
  <2>2. takes \in Seq(seen[x])
    BY <1>1, <2>1, SetToSeqType
  <2>3. EachUpload(x, c) = ups /\ EachRecording(x, c) = recs
    BY <1>1 DEF OnEachRead, EachUpload, EachRecording
  <2> HIDE DEF takes
  <2>4. /\ Len(takes) \in Nat /\ DOMAIN takes = 1 .. Len(takes)
        /\ \A i \in DOMAIN takes : takes[i] \in seen[x] /\ takes[i] \in Takes
    BY <1>1, <2>2
  <2>5. \A i \in DOMAIN takes : /\ FailUpload(takes[i], c) \in Among(RowLock)
                                /\ FailRecording(takes[i], c) \in Among(RowLock)
    BY <2>4, TakeQueriesType
  <2>6. ups \in Programs /\ recs \in Programs
    BY <2>4, <2>5 DEF Programs
  <2>7. /\ \A i \in DOMAIN ups : \E t \in seen[x] : ups[i] = FailUpload(t, c)
        /\ \A i \in DOMAIN recs : \E t \in seen[x] : recs[i] = FailRecording(t, c)
    BY <2>4
  <2> QED
    BY <1>1, <2>3, <2>6, <2>7
<1>2. CASE x \notin DOMAIN seen
  <2>1. EachUpload(x, c) = <<>> /\ EachRecording(x, c) = <<>>
    BY <1>2 DEF OnEachRead, EachUpload, EachRecording
  <2> QED
    BY <1>2, <2>1 DEF Programs
<1> QED
  BY <1>1, <1>2

LEMMA NextOfFour ==
  ASSUME NEW own, NEW A, NEW B, NEW C, NEW D, NEW lock \in NextOf(own, <<A, B, C, D>>)
  PROVE  \/ lock \in Missing(own, A)
         \/ lock \in Missing(own, B)
         \/ lock \in Missing(own, C)
         \/ Missing(own, B) = {} /\ lock \in Missing(own, D)
<1> DEFINE q == <<A, B, C, D>>
<1>1. PICK i \in DOMAIN q : /\ lock \in Missing(own, q[i])
                            /\ \A k \in 1 .. i - 1 : Missing(own, q[k]) = {}
  BY DEF NextOf
<1>2. i \in {1, 2, 3, 4}
  OBVIOUS
<1>3. q[1] = A /\ q[2] = B /\ q[3] = C /\ q[4] = D
  OBVIOUS
<1> HIDE DEF q
<1>4. i = 4 => Missing(own, q[2]) = {}
  BY <1>1
<1> QED
  BY <1>1, <1>2, <1>3, <1>4

\* The cameras of start_take, up to the first that is not connected.
CamerasForUpdate(cs) ==
  [i \in DOMAIN cs |->
     IF \A j \in 1 .. i - 1 : IsReady(cs[j]) THEN GetCameraForUpdate(cs[i]) ELSE <<>>]

TakeInserted(t, cs) ==
  IF \A c \in ToSet(cs) : IsReady(c) THEN InsertOngoingTakeRows(t, ToSet(cs)) ELSE <<>>

LEMMA StartType ==
  ASSUME NEW t \in Takes, NEW cs \in Seq(Cameras)
  PROVE  /\ CamerasForUpdate(cs) \in Programs
         /\ TakeInserted(t, cs) \in Among(RowLock)
         /\ <<GetSessionForUpdate>> \in Programs /\ <<TakeInserted(t, cs)>> \in Programs
<1>1. Len(cs) \in Nat /\ DOMAIN cs = 1 .. Len(cs) /\ \A i \in DOMAIN cs : cs[i] \in Cameras
  OBVIOUS
<1>2. \A i \in DOMAIN cs : GetCameraForUpdate(cs[i]) \in Among(RowLock)
  BY <1>1, CameraQueriesType
<1>3. CamerasForUpdate(cs) \in Programs
  BY <1>1, <1>2, AmongNone DEF CamerasForUpdate, Programs
<1>4. TakeInserted(t, cs) \in Among(RowLock)
  <2> DEFINE C == ToSet(cs)
  <2>1. C \subseteq Cameras
    BY <1>1 DEF ToSet
  <2> HIDE DEF C
  <2>2. /\ SessionRow \in Name /\ TakeRow(t) \in Name
        /\ \A c \in C : /\ IdentityRow(c) \in Name /\ ConnectionRow(c) \in Name
                        /\ RecordingRow(t, c) \in Name
    BY <2>1 DEF Name, Tables, SessionRow, TakeRow, IdentityRow, ConnectionRow, RecordingRow
  <2>3. /\ {Shared(SessionRow)} \in SUBSET RowLock
        /\ {Exclusive(TakeRow(t))} \in SUBSET RowLock
        /\ UNION {{Shared(IdentityRow(c)), Shared(ConnectionRow(c))} : c \in C} \in SUBSET RowLock
        /\ {Exclusive(RecordingRow(t, c)) : c \in C} \in SUBSET RowLock
    BY <2>2 DEF RowLock, Exclusive, Shared
  <2>4. InsertOngoingTakeRows(t, C) \in Among(RowLock)
    BY <2>3 DEF InsertOngoingTakeRows, Among
  <2> QED
    BY <2>4, AmongNone DEF TakeInserted, C
<1> QED
  BY <1>3, <1>4, SessionQueryType DEF Programs

\* Which query of start_take asks for a lock.
LEMMA StartAsks ==
  ASSUME NEW x \in Transactions, x.kind = "start", NEW lock \in NextLocks(x)
  PROVE  LET own == held[x]
             mid == CamerasForUpdate(x.cameras)
         IN \/ lock \in NextOf(own, GetSessionForUpdate)
            \/ IsThrough(own, GetSessionForUpdate) /\ Asks(own, mid, lock)
            \/ /\ IsThrough(own, GetSessionForUpdate) /\ AllThrough(own, mid)
               /\ lock \in NextOf(own, TakeInserted(x.take, x.cameras))
<1> DEFINE own == held[x]
           t == x.take
           cs == x.cameras
           mid == CamerasForUpdate(cs)
           last == TakeInserted(t, cs)
<1>1. t \in Takes /\ cs \in Seq(Cameras)
  BY TransactionShape
<1>2. /\ mid \in Programs
      /\ <<GetSessionForUpdate>> \in Programs /\ <<last>> \in Programs
  BY <1>1, StartType
<1>3. Queries(x) = (<<GetSessionForUpdate>> \o mid) \o <<last>>
  BY DEF Queries, StartTake, CamerasForUpdate, TakeInserted
<1>4. Asks(own, Queries(x), lock)
  BY AskedBy DEF Asks
<1> HIDE DEF mid, last
<1>5. <<GetSessionForUpdate>> \o mid \in Programs
  BY <1>2 DEF Programs
<1>6. \/ Asks(own, <<GetSessionForUpdate>> \o mid, lock)
      \/ AllThrough(own, <<GetSessionForUpdate>> \o mid) /\ Asks(own, <<last>>, lock)
  BY <1>2, <1>3, <1>4, <1>5, AsksEither
<1>7. Asks(own, <<GetSessionForUpdate>> \o mid, lock) =>
        \/ Asks(own, <<GetSessionForUpdate>>, lock)
        \/ AllThrough(own, <<GetSessionForUpdate>>) /\ Asks(own, mid, lock)
  BY <1>2, AsksEither
<1>8. AllThrough(own, <<GetSessionForUpdate>> \o mid) =>
        AllThrough(own, <<GetSessionForUpdate>>) /\ AllThrough(own, mid)
  BY <1>2, ThroughEach
<1> QED
  BY <1>6, <1>7, <1>8, AsksOne DEF mid, last

\* A camera of start_take that is ready, and locked.
Readied(own, cs, i) == IsReady(cs[i]) /\ HoldsX(own, ConnectionRow(cs[i]))

\* The insertion of a take finds its references locked.
LEMMA InsertionAsks ==
  ASSUME NEW own, NEW t, NEW cs \in Seq(Cameras), \A i \in DOMAIN cs : Readied(own, cs, i),
         \A i \in DOMAIN cs : HoldsX(own, IdentityRow(cs[i])), HoldsX(own, SessionRow),
         NEW lock \in NextOf(own, InsertOngoingTakeRows(t, ToSet(cs)))
  PROVE  \/ lock = Exclusive(TakeRow(t))
         \/ /\ HoldsX(own, TakeRow(t))
            /\ \E c \in ToSet(cs) : lock = Exclusive(RecordingRow(t, c))
<1> DEFINE C == ToSet(cs)
           refs == UNION {{Shared(IdentityRow(c)), Shared(ConnectionRow(c))} : c \in C}
           rows == {Exclusive(RecordingRow(t, c)) : c \in C}
<1>1. \A c \in C : HoldsX(own, IdentityRow(c)) /\ HoldsX(own, ConnectionRow(c))
  BY DEF ToSet, Readied
<1>2. Missing(own, {Shared(SessionRow)}) = {}
  BY CoversAny DEF Missing, Shared
<1>3. Missing(own, refs) = {}
  <2>1. \A ref \in refs : HoldsX(own, ref.on)
    BY <1>1 DEF Shared
  <2> QED
    BY <2>1, CoversAny DEF Missing
<1>4. \/ lock \in Missing(own, {Exclusive(TakeRow(t))})
      \/ Missing(own, {Exclusive(TakeRow(t))}) = {} /\ lock \in Missing(own, rows)
  <2>1. InsertOngoingTakeRows(t, C)
          = <<{Shared(SessionRow)}, {Exclusive(TakeRow(t))}, refs, rows>>
    BY DEF InsertOngoingTakeRows
  <2> HIDE DEF refs, rows
  <2> QED
    BY ZenonT(60), <1>2, <1>3, <2>1, NextOfFour
<1> QED
  BY <1>4, MissingOne DEF Missing

\* start_take.
LEMMA AskedOfStart ==
  ASSUME NEW x \in Transactions, x.kind = "start", NEW lock \in NextLocks(x)
  PROVE  lock \in RowLock /\ InOrder(held[x], lock, x, ExistingTakes)
<1> DEFINE own == held[x]
           t == x.take
           cs == x.cameras
           mid == CamerasForUpdate(cs)
           last == TakeInserted(t, cs)
<1>1. t \in Takes /\ cs \in Seq(Cameras)
  BY TransactionShape
<1>2. last \in Among(RowLock)
  BY <1>1, StartType
<1> HIDE DEF mid, last
<1>5. \/ lock \in NextOf(own, GetSessionForUpdate)
      \/ IsThrough(own, GetSessionForUpdate) /\ Asks(own, mid, lock)
      \/ /\ IsThrough(own, GetSessionForUpdate) /\ AllThrough(own, mid)
         /\ lock \in NextOf(own, last)
  BY StartAsks DEF mid, last
<1>6. \A i \in DOMAIN mid : \/ mid[i] = <<>>
                            \/ \E c \in ToSet(cs) : mid[i] = GetCameraForUpdate(c)
  BY DEF mid, CamerasForUpdate, ToSet
<1>7. CASE lock \in NextOf(own, GetSessionForUpdate)
  <2>1. lock = Exclusive(SessionRow) \/ HoldsX(own, SessionRow)
    BY <1>7, GetSessionNext
  <2>2. lock.on[1] \in {"session", "takes"} /\ lock.mode = "X"
    BY <1>7, GetSessionNext DEF Exclusive, SessionRow, TakeRow
  <2>3. lock \in RowLock
    BY <1>7, SessionQueryType, NextMissing
  <2> QED
    BY <2>1, <2>2, <2>3 DEF InOrder, TakeTables, TakeKinds, EventKinds
<1>8. CASE IsThrough(own, GetSessionForUpdate) /\ Asks(own, mid, lock)
  <2>1. HoldsX(own, SessionRow) /\ \A u \in ExistingTakes : HoldsX(own, TakeRow(u))
    BY <1>8, GetSessionThrough
  <2>2. PICK c \in ToSet(cs) : lock \in NextOf(own, GetCameraForUpdate(c))
    BY <1>6, <1>8, NextOfNone DEF Asks
  <2>3. c \in Cameras
    BY <1>1 DEF ToSet
  <2>4. lock \in RowLock
    BY <2>2, <2>3, CameraQueriesType, NextMissing
  <2>5. /\ lock.mode = "X"
        /\ lock.on[1] \in {"session", "camera_identities", "camera_connections"}
        /\ lock.on[1] = "camera_connections" => HoldsX(own, IdentityRow(lock.on[3]))
    <3>1. \/ lock = Exclusive(SessionRow)
          \/ lock = Exclusive(IdentityRow(c))
          \/ HoldsX(own, IdentityRow(c)) /\ lock = Exclusive(ConnectionRow(c))
      BY <2>2, GetCameraNext
    <3> QED
      BY <3>1 DEF Exclusive, SessionRow, IdentityRow, ConnectionRow
  <2> QED
    BY <2>1, <2>4, <2>5 DEF InOrder, TakeTables, TakeKinds, EventKinds
<1>9. CASE /\ IsThrough(own, GetSessionForUpdate) /\ AllThrough(own, mid)
           /\ lock \in NextOf(own, last)
  <2> DEFINE C == ToSet(cs)
  <2>1. HoldsX(own, SessionRow)
    BY <1>9, GetSessionThrough
  <2>2. (\A c \in C : IsReady(c)) /\ lock \in NextOf(own, InsertOngoingTakeRows(t, C))
    BY <1>9, NextOfNone DEF last, TakeInserted
  <2>3. \A c \in C : HoldsX(own, IdentityRow(c)) /\ HoldsX(own, ConnectionRow(c))
    <3> SUFFICES ASSUME NEW i \in DOMAIN cs
                 PROVE  HoldsX(own, IdentityRow(cs[i])) /\ HoldsX(own, ConnectionRow(cs[i]))
      BY DEF ToSet
    <3>1. \A j \in 1 .. i - 1 : cs[j] \in C
      BY <1>1 DEF ToSet
    <3>2. i \in DOMAIN mid /\ mid[i] = GetCameraForUpdate(cs[i])
      BY <2>2, <3>1 DEF mid, CamerasForUpdate
    <3> QED
      BY <1>9, <3>2, GetCameraThrough DEF AllThrough
  <2>4. \A i \in DOMAIN cs : Readied(own, cs, i) /\ HoldsX(own, IdentityRow(cs[i]))
    BY <2>2, <2>3 DEF ToSet, Readied
  <2>5. \/ lock = Exclusive(TakeRow(t))
        \/ HoldsX(own, TakeRow(t)) /\ \E c \in C : lock = Exclusive(RecordingRow(t, c))
    BY <1>1, <2>1, <2>2, <2>4, InsertionAsks
  <2>6. /\ lock.mode = "X" /\ lock.on[1] \in {"takes", "recording_cameras"}
        /\ lock.on[1] = "recording_cameras" => HoldsX(own, TakeRow(lock.on[2]))
    BY <2>5 DEF Exclusive, TakeRow, RecordingRow
  <2>7. lock \in RowLock
    BY <1>2, <1>9, NextMissing
  <2> QED
    BY <2>1, <2>6, <2>7 DEF InOrder, TakeTables, TakeKinds, EventKinds
<1> QED
  BY <1>5, <1>7, <1>8, <1>9

\* delete_camera.
LEMMA AskedOfDelete ==
  ASSUME NEW x \in Transactions, IsDeletion(x), NEW lock \in NextLocks(x),
         x \in DOMAIN seen => seen[x] \subseteq Takes
  PROVE  /\ lock \in RowLock /\ InOrder(held[x], lock, x, ExistingTakes) /\ ~ Covers(held[x], lock)
         /\ \/ \E name \in {SessionRow, IdentityRow(x.cameras[1]), ConnectionRow(x.cameras[1])} :
                 lock = Exclusive(name)
            \/ x \in DOMAIN seen /\ seen[x] # {}
<1> DEFINE own == held[x]
           c == x.cameras[1]
           mid == EachUpload(x, c)
           last == IF x \in DOMAIN seen THEN <<SaveCameraConnection(c)>> ELSE <<>>
<1>1. c \in Cameras /\ x.kind \in {"delete", "forced_delete"}
  BY TransactionShape DEF CameraKinds, IsDeletion
<1>2. /\ mid \in Programs /\ <<GetCameraForUpdate(c)>> \in Programs /\ last \in Programs
  BY SMTT(60), <1>1, EachRead, CameraQueriesType DEF Programs
<1>3. Queries(x) = (<<GetCameraForUpdate(c)>> \o mid) \o last
  BY <1>1 DEF Queries, DeleteCamera, EachUpload
<1>4. Asks(own, Queries(x), lock)
  BY AskedBy DEF Asks
<1> HIDE DEF mid
<1>5. \/ lock \in NextOf(own, GetCameraForUpdate(c))
      \/ IsThrough(own, GetCameraForUpdate(c)) /\ Asks(own, mid, lock)
      \/ IsThrough(own, GetCameraForUpdate(c)) /\ lock \in NextOf(own, SaveCameraConnection(c))
  <2>1. <<GetCameraForUpdate(c)>> \o mid \in Programs
    BY <1>2 DEF Programs
  <2>2. \/ Asks(own, <<GetCameraForUpdate(c)>> \o mid, lock)
        \/ AllThrough(own, <<GetCameraForUpdate(c)>> \o mid) /\ Asks(own, last, lock)
    <3> DEFINE p == <<GetCameraForUpdate(c)>> \o mid
    <3>1. p \in Programs /\ last \in Programs /\ Asks(own, p \o last, lock)
      BY <1>2, <1>3, <1>4, <2>1
    <3> HIDE DEF p, last
    <3>2. Asks(own, p, lock) \/ (AllThrough(own, p) /\ Asks(own, last, lock))
      BY <3>1, AsksEither
    <3> QED
      BY <3>2 DEF p
  <2>3. Asks(own, <<GetCameraForUpdate(c)>> \o mid, lock) =>
          \/ Asks(own, <<GetCameraForUpdate(c)>>, lock)
          \/ AllThrough(own, <<GetCameraForUpdate(c)>>) /\ Asks(own, mid, lock)
    BY <1>2, AsksEither
  <2>4. AllThrough(own, <<GetCameraForUpdate(c)>> \o mid) =>
          AllThrough(own, <<GetCameraForUpdate(c)>>)
    BY <1>2, ThroughEach
  <2>5. Asks(own, last, lock) => lock \in NextOf(own, SaveCameraConnection(c))
    BY AsksOne, AsksNone
  <2> QED
    BY <2>2, <2>3, <2>4, <2>5, AsksOne
<1>6. IsThrough(own, GetCameraForUpdate(c)) =>
        HoldsX(own, SessionRow) /\ HoldsX(own, IdentityRow(c)) /\ HoldsX(own, ConnectionRow(c))
  BY GetCameraThrough
<1>7. CASE lock \in NextOf(own, GetCameraForUpdate(c))
  <2>1. lock \in RowLock /\ ~ Covers(own, lock)
    BY <1>1, <1>7, CameraQueriesType, NextMissing
  <2>2. \/ lock = Exclusive(SessionRow)
        \/ HoldsX(own, SessionRow) /\ lock = Exclusive(IdentityRow(c))
        \/ /\ HoldsX(own, SessionRow) /\ HoldsX(own, IdentityRow(c))
           /\ lock = Exclusive(ConnectionRow(c))
    BY <1>7, GetCameraNext
  <2>3. /\ lock.mode = "X"
        /\ lock.on[1] \in {"session", "camera_identities", "camera_connections"}
        /\ lock.on[1] = "camera_identities" => lock.on[3] = c
        /\ lock.on[1] = "camera_connections" => HoldsX(own, IdentityRow(lock.on[3]))
        /\ lock = Exclusive(SessionRow) \/ HoldsX(own, SessionRow)
    BY <2>2 DEF Exclusive, SessionRow, IdentityRow, ConnectionRow
  <2>4. InOrder(own, lock, x, ExistingTakes)
    BY <1>1, <2>3 DEF InOrder, TakeTables, TakeKinds, EventKinds
  <2> QED
    BY <2>1, <2>2, <2>4
<1>8. CASE IsThrough(own, GetCameraForUpdate(c)) /\ Asks(own, mid, lock)
  <2>1. x \in DOMAIN seen /\ \E u \in seen[x] : lock \in NextOf(own, FailUpload(u, c))
    BY <1>1, <1>8, EachRead DEF Asks, mid
  <2>2. PICK u \in seen[x] : lock \in NextOf(own, FailUpload(u, c))
    BY <2>1
  <2>3. u \in Takes /\ seen[x] # {}
    BY <2>1, <2>2
  <2>4. /\ lock \in OfTake(u) /\ ~ Covers(own, lock)
        /\ lock = Exclusive(TakeRow(u)) \/ HoldsX(own, TakeRow(u))
    BY <1>1, <2>2, TransactionsOfTake, TakeFirstNext
  <2>5. lock \in RowLock
    BY <2>3, <2>4, OfTakeType
  <2>6. lock.on[1] \in TakeTables => HoldsX(own, TakeRow(lock.on[2]))
    <3>1. lock = Exclusive(TakeRow(u)) => lock.on[1] = "takes"
      BY DEF Exclusive, TakeRow
    <3> QED
      BY <2>4, <3>1, OfTakeLock DEF TakeTables
  <2>7. lock.mode = "X" /\ lock.on[1] \in {"takes"} \cup TakeTables
    BY <2>4, OfTakeLock
  <2>8. InOrder(own, lock, x, ExistingTakes)
    BY <1>1, <1>6, <1>8, <2>6, <2>7 DEF InOrder, TakeTables, TakeKinds, EventKinds
  <2> QED
    BY <2>1, <2>3, <2>4, <2>5, <2>8
<1>9. CASE IsThrough(own, GetCameraForUpdate(c)) /\ lock \in NextOf(own, SaveCameraConnection(c))
  BY <1>6, <1>9, SaveConnectionNext
<1> QED
  BY <1>5, <1>7, <1>8, <1>9

\* process_next_event.
LEMMA AskedOfEvent ==
  ASSUME NEW x \in Transactions, x.kind \in EventKinds, NEW lock \in NextLocks(x),
         x \in DOMAIN seen => seen[x] \subseteq Takes
  PROVE  /\ lock \in RowLock /\ InOrder(held[x], lock, x, ExistingTakes)
         /\ x \notin DOMAIN seen =>
              \/ lock = Exclusive(IdentityRow(x.cameras[1]))
              \/ /\ HoldsX(held[x], IdentityRow(x.cameras[1]))
                 /\ lock = Exclusive(ConnectionRow(x.cameras[1]))
<1> DEFINE own == held[x]
           c == x.cameras[1]
           first == <<GetCameraByIdForUpdate(c), SaveCameraConnection(c)>>
           mid == IF x.kind = "provisioned" THEN <<>> ELSE EachRecording(x, c)
<1>1. c \in Cameras /\ x.kind \in {"connected", "lost", "provisioned"}
  BY TransactionShape DEF CameraKinds, EventKinds
<1>2. mid \in Programs /\ first \in Programs
  BY <1>1, EachRead, CameraQueriesType DEF Programs
<1>3. Queries(x) = first \o mid
  <2>1. CASE x.kind = "provisioned"
    <3>1. Queries(x) = first
      BY <2>1 DEF Queries
    <3>2. first \o <<>> = first
      BY SMTT(60), <1>2 DEF Programs
    <3> QED
      BY <2>1, <3>1, <3>2
  <2>2. CASE x.kind # "provisioned"
    BY <1>1, <2>2 DEF Queries, ProcessEvent, EachRecording
  <2> QED
    BY <2>1, <2>2
<1>4. Asks(own, Queries(x), lock)
  BY AskedBy DEF Asks
<1>5. Asks(own, first, lock) \/ (AllThrough(own, first) /\ Asks(own, mid, lock))
  <2> HIDE DEF first, mid
  <2> QED
    BY <1>2, <1>3, <1>4, AsksEither
<1>6. IsThrough(own, GetCameraByIdForUpdate(c)) =>
        HoldsX(own, IdentityRow(c)) /\ HoldsX(own, ConnectionRow(c))
  BY GetCameraByIdThrough
<1>7. CASE Asks(own, first, lock)
  <2>1. lock \in NextOf(own, GetCameraByIdForUpdate(c))
    BY <1>6, <1>7, AsksTwo, SaveConnectionNext
  <2>2. lock \in RowLock
    BY <1>1, <2>1, CameraQueriesType, NextMissing
  <2>3. \/ lock = Exclusive(IdentityRow(c))
        \/ HoldsX(own, IdentityRow(c)) /\ lock = Exclusive(ConnectionRow(c))
    BY <2>1, GetCameraByIdNext
  <2>4. /\ lock.mode = "X" /\ lock.on[1] \in {"camera_identities", "camera_connections"}
        /\ lock.on[1] = "camera_connections" => HoldsX(own, IdentityRow(lock.on[3]))
    BY <2>3 DEF Exclusive, IdentityRow, ConnectionRow
  <2>5. InOrder(own, lock, x, ExistingTakes)
    BY <1>1, <2>3, <2>4 DEF InOrder, TakeTables, TakeKinds, SessionKinds
  <2> QED
    BY <2>2, <2>3, <2>5
<1>8. CASE AllThrough(own, first) /\ Asks(own, mid, lock)
  <2>1. x \in DOMAIN seen /\ \E u \in seen[x] : lock \in NextOf(own, FailRecording(u, c))
    BY <1>1, <1>8, EachRead, AsksNone DEF Asks
  <2>2. PICK u \in seen[x] : lock \in NextOf(own, FailRecording(u, c))
    BY <2>1
  <2>3. u \in Takes
    BY <2>1, <2>2
  <2>4. /\ lock \in OfTake(u)
        /\ lock = Exclusive(TakeRow(u)) \/ HoldsX(own, TakeRow(u))
    BY <1>1, <2>2, TransactionsOfTake, TakeFirstNext
  <2>5. lock \in RowLock
    BY <2>3, <2>4, OfTakeType
  <2>6. lock.on[1] \in TakeTables => HoldsX(own, TakeRow(lock.on[2]))
    <3>1. lock = Exclusive(TakeRow(u)) => lock.on[1] = "takes"
      BY DEF Exclusive, TakeRow
    <3> QED
      BY <2>4, <3>1, OfTakeLock DEF TakeTables
  <2>7. lock.mode = "X" /\ lock.on[1] \in {"takes"} \cup TakeTables
    BY <2>4, OfTakeLock
  <2>8. HoldsX(own, IdentityRow(c))
    BY <1>6, <1>8, AsksTwo
  <2>9. InOrder(own, lock, x, ExistingTakes)
    BY <1>1, <2>6, <2>7, <2>8 DEF InOrder, TakeTables, TakeKinds, SessionKinds
  <2> QED
    BY <2>1, <2>5, <2>9
<1> QED
  BY <1>5, <1>7, <1>8

\* The deletion of a connection.
LEMMA AskedOfDeletion ==
  ASSUME NEW x \in Transactions, x.kind = "deletion", NEW lock \in NextLocks(x)
  PROVE  lock \in RowLock /\ InOrder(held[x], lock, x, ExistingTakes)
<1> DEFINE c == x.cameras[1]
           refs == {Shared(RecordingRow(t, c)) : t \in {u \in Takes : row[u][c] # "none"}}
<1>1. c \in Cameras
  BY TransactionShape DEF CameraKinds
<1>2. Queries(x) = <<DeleteCameraConnection(c)>>
  BY DEF Queries
<1>3. lock \in NextOf(held[x], DeleteCameraConnection(c))
  BY <1>2, AskedBy, AsksOne DEF Asks
<1>4. lock \in RowLock
  BY <1>1, <1>3, CameraQueriesType, NextMissing
<1>5. lock = Exclusive(ConnectionRow(c)) \/ lock \in refs
  BY <1>3, NextOfTwo, MissingOne DEF DeleteCameraConnection, Missing
<1>6. lock.mode # "gap"
  BY <1>5 DEF Exclusive, Shared
<1> QED
  BY <1>4, <1>6 DEF InOrder, SessionKinds, TakeKinds, EventKinds

\* Every transaction locks what it must before it asks for more.
LEMMA Asked ==
  ASSUME NEW x \in Transactions, NEW lock \in NextLocks(x),
         x \in DOMAIN seen => seen[x] \subseteq Takes
  PROVE  lock \in RowLock /\ InOrder(held[x], lock, x, ExistingTakes)
<1>1. CASE x.kind \in TakeKinds
  <2>1. x.take \in Takes /\ x.cameras[1] \in Cameras
    BY <1>1, TransactionShape
  <2> QED
    BY <1>1, <2>1, AskedOfTake, OfStageType
<1>2. CASE x.kind \in SessionKinds
  BY <1>2, AskedOfStart, AskedOfFinish, AskedOfCreate, AskedOfDelete DEF SessionKinds, IsDeletion
<1>3. CASE x.kind \in EventKinds
  BY <1>3, AskedOfEvent
<1>4. CASE x.kind = "deletion"
  BY <1>4, AskedOfDeletion
<1> QED
  BY <1>1, <1>2, <1>3, <1>4, TransactionShape

-----------------------------------------------------------------------------
(* What the transactions do to the rows.                                   *)

\* A video only comes of a take that was finished, and one take is ongoing at a time.
RowsAreRegular ==
  /\ \A t \in Takes, c \in Cameras : video[t][c] # "none" => Finished(t)
  /\ \A t, u \in Takes : take[t] = "ongoing" /\ take[u] = "ongoing" => t = u

\* The rows of takes only settle: what start_take and finish_take do is excluded.
OnlySettles ==
  /\ \A t \in Takes : /\ take'[t] = "ongoing" <=> take[t] = "ongoing"
                      /\ take'[t] = "absent" <=> take[t] = "absent"
  /\ \A t \in Takes, c \in Cameras :
       /\ video'[t][c] = "uploading" => video[t][c] = "uploading"
       /\ row'[t][c] # "none" => row[t][c] # "none"
       /\ row'[t][c] = "recording" => row[t][c] = "recording"
       /\ take[t] = "ongoing" /\ row[t][c] # "none" => row'[t][c] # "none"

TakeRowsType ==
  /\ take \in [Takes -> Phase]
  /\ row \in [Takes -> [Cameras -> RowState]]
  /\ video \in [Takes -> [Cameras -> VideoState]]

LEMMA VerdictType ==
  ASSUME NEW videos
  PROVE  Verdict(videos) \in {"uploading", "completed", "errored"}
BY DEF Verdict

LEMMA SaveTakesType ==
  ASSUME TakeRowsType,
         NEW rows \in [Takes -> [Cameras -> RowState]],
         NEW videos \in [Takes -> [Cameras -> VideoState]],
         SaveTakes(rows, videos)
  PROVE  TakeRowsType'
<1>1. take' \in [Takes -> Phase]
  BY VerdictType DEF TakeRowsType, SaveTakes, Phase
<1>2. row' \in [Takes -> [Cameras -> RowState]]
  BY DEF TakeRowsType, SaveTakes, RowState
<1> QED
  BY <1>1, <1>2 DEF TakeRowsType, SaveTakes

\* Saving the takes leaves the rows regular, whatever videos it saves.
LEMMA SaveTakesRegular ==
  ASSUME TakeRowsType, RowsAreRegular,
         NEW rows, NEW videos \in [Takes -> [Cameras -> VideoState]],
         SaveTakes(rows, videos)
  PROVE  /\ RowsAreRegular'
         /\ \A t \in Takes : /\ take'[t] = "ongoing" => take[t] = "ongoing"
                             /\ take'[t] = "absent" => take[t] = "absent"
                             /\ videos[t] = video[t] => take'[t] = take[t]
<1>1. \A t \in Takes :
        /\ videos[t] = video[t] => take'[t] = take[t]
        /\ videos[t] # video[t] => take'[t] \in {"uploading", "completed", "errored"}
  BY VerdictType DEF SaveTakes
<1>2. video' = videos
  BY DEF SaveTakes
<1>3. \A t \in Takes, c \in Cameras : video'[t][c] # "none" => Finished(t)'
  BY <1>1, <1>2 DEF RowsAreRegular, Finished
<1>4. \A t \in Takes : /\ take'[t] = "ongoing" => take[t] = "ongoing"
                       /\ take'[t] = "absent" => take[t] = "absent"
  BY <1>1
<1>5. \A t, u \in Takes : take'[t] = "ongoing" /\ take'[u] = "ongoing" => t = u
  BY <1>4 DEF RowsAreRegular
<1> QED
  BY <1>1, <1>3, <1>4, <1>5 DEF RowsAreRegular

\* Recordings that fail and uploads that end only settle.
\* What is saved settles uploading videos and fails recordings, no more.
SettlesVideos(videos) ==
  \A t \in Takes, c \in Cameras :
    videos[t][c] # video[t][c] => video[t][c] = "uploading"

FailsRows(rows) ==
  \A t \in Takes, c \in Cameras :
    rows[t][c] # row[t][c] => row[t][c] = "recording" /\ rows[t][c] \in RowReason

LEMMA SaveTakesSettles ==
  ASSUME TakeRowsType, RowsAreRegular,
         NEW rows \in [Takes -> [Cameras -> RowState]],
         NEW videos \in [Takes -> [Cameras -> VideoState]],
         SaveTakes(rows, videos), SettlesVideos(videos), FailsRows(rows)
  PROVE  OnlySettles
<1> USE DEF SettlesVideos, FailsRows
<1>1. \A t \in Takes : videos[t] # video[t] => Finished(t)
  <2> SUFFICES ASSUME NEW t \in Takes, videos[t] # video[t]
               PROVE  Finished(t)
    OBVIOUS
  <2>1. PICK c \in Cameras : videos[t][c] # video[t][c]
    BY DEF TakeRowsType
  <2> QED
    BY <2>1 DEF RowsAreRegular
<1>2. \A t \in Takes :
        /\ videos[t] = video[t] => take'[t] = take[t]
        /\ videos[t] # video[t] => take'[t] \in {"uploading", "completed", "errored"}
  BY VerdictType DEF SaveTakes
<1>3. \A t \in Takes : /\ take'[t] = "ongoing" <=> take[t] = "ongoing"
                       /\ take'[t] = "absent" <=> take[t] = "absent"
  BY <1>1, <1>2 DEF Finished
<1>4. \A t \in Takes : \/ row'[t] = rows[t]
                       \/ take[t] # "ongoing" /\ row'[t] = [c \in Cameras |-> "none"]
  BY <1>1 DEF SaveTakes, Finished
<1>5. \A t \in Takes, c \in Cameras :
        /\ row'[t][c] # "none" => row[t][c] # "none"
        /\ row'[t][c] = "recording" => row[t][c] = "recording"
        /\ take[t] = "ongoing" /\ row[t][c] # "none" => row'[t][c] # "none"
  BY <1>4 DEF RowReason
<1>6. \A t \in Takes, c \in Cameras : video'[t][c] = "uploading" => video[t][c] = "uploading"
  BY DEF SaveTakes
<1> QED
  BY <1>3, <1>5, <1>6 DEF OnlySettles

LEMMA UnchangedSettles ==
  ASSUME UNCHANGED takeRows
  PROVE  OnlySettles
BY DEF OnlySettles, takeRows

\* What the rows are after a recording has failed.
LEMMA FailureSettles ==
  ASSUME TakeRowsType, RowsAreRegular, NEW t \in Takes, NEW c \in Cameras,
         NEW reason \in RowReason, PersistRecordingFailure(t, c, reason)
  PROVE  TakeRowsType' /\ RowsAreRegular' /\ OnlySettles
<1>1. CASE UNCHANGED takeRows
  BY <1>1, UnchangedSettles DEF takeRows, TakeRowsType, RowsAreRegular, Finished
<1>2. CASE ~ UNCHANGED takeRows
  <2> DEFINE rows == IF row[t][c] = "recording" THEN [row EXCEPT ![t][c] = reason] ELSE row
             videos == IF take[t] = "ongoing" THEN video ELSE [video EXCEPT ![t][c] = reason]
  <2>1. ~ FailureConflicts(t, c, reason) /\ SaveTakes(rows, videos)
    BY <1>2 DEF PersistRecordingFailure
  <2>2. rows \in [Takes -> [Cameras -> RowState]] /\ videos \in [Takes -> [Cameras -> VideoState]]
    BY DEF TakeRowsType, RowState, VideoState, Reason
  <2>3. SettlesVideos(videos)
    BY <2>1 DEF FailureConflicts, TakeRowsType, SettlesVideos
  <2>4. FailsRows(rows)
    BY DEF TakeRowsType, FailsRows
  <2> HIDE DEF rows, videos
  <2>5. TakeRowsType'
    BY <2>1, <2>2, SaveTakesType
  <2>6. RowsAreRegular'
    BY <2>1, <2>2, SaveTakesRegular
  <2>7. OnlySettles
    BY <2>1, <2>2, <2>3, <2>4, SaveTakesSettles
  <2> QED
    BY <2>5, <2>6, <2>7
<1> QED
  BY <1>1, <1>2

LEMMA UploadSettles ==
  ASSUME TakeRowsType, RowsAreRegular, NEW t \in Takes, NEW c \in Cameras,
         PersistUploadResult(t, c, "completed")
  PROVE  TakeRowsType' /\ RowsAreRegular' /\ OnlySettles
<1>1. CASE UNCHANGED takeRows
  BY <1>1, UnchangedSettles DEF takeRows, TakeRowsType, RowsAreRegular, Finished
<1>2. CASE ~ UNCHANGED takeRows
  <2> DEFINE videos == [video EXCEPT ![t][c] = "completed"]
  <2>1. <<t, c>> \in PendingUploads /\ SaveTakes(row, videos)
    BY <1>2 DEF PersistUploadResult
  <2>2. video[t][c] = "uploading"
    BY <2>1 DEF PendingUploads
  <2>3. row \in [Takes -> [Cameras -> RowState]] /\ videos \in [Takes -> [Cameras -> VideoState]]
    BY DEF TakeRowsType, VideoState
  <2>4. SettlesVideos(videos) /\ FailsRows(row)
    BY <2>2 DEF TakeRowsType, SettlesVideos, FailsRows
  <2> HIDE DEF videos
  <2>5. TakeRowsType' /\ RowsAreRegular'
    BY <2>1, <2>3, SaveTakesType, SaveTakesRegular
  <2>6. OnlySettles
    BY <2>1, <2>3, <2>4, SaveTakesSettles
  <2> QED
    BY <2>5, <2>6
<1> QED
  BY <1>1, <1>2

LEMMA DeletionSettles ==
  ASSUME TakeRowsType, RowsAreRegular, NEW x, NEW c \in Cameras, CommitDeletion(x, c)
  PROVE  TakeRowsType' /\ RowsAreRegular' /\ OnlySettles
<1> DEFINE videos == [t \in Takes |-> [d \in Cameras |->
             IF d = c /\ t \in seen[x] /\ video[t][d] = "uploading" THEN "forced" ELSE video[t][d]]]
<1>1. SaveTakes(row, videos)
  BY DEF CommitDeletion
<1>2. row \in [Takes -> [Cameras -> RowState]] /\ videos \in [Takes -> [Cameras -> VideoState]]
  BY DEF TakeRowsType, VideoState, Reason
<1>3. SettlesVideos(videos) /\ FailsRows(row)
  BY DEF SettlesVideos, FailsRows
<1> HIDE DEF videos
<1>4. TakeRowsType'
  BY <1>1, <1>2, SaveTakesType
<1>5. RowsAreRegular'
  BY <1>1, <1>2, SaveTakesRegular
<1>6. OnlySettles
  BY <1>1, <1>2, <1>3, SaveTakesSettles
<1> QED
  BY <1>4, <1>5, <1>6

LEMMA InputSettles ==
  ASSUME TakeRowsType, RowsAreRegular, NEW x, NEW c \in Cameras,
         NEW state \in {"waiting", "connected"},
         x \in DOMAIN seen => seen[x] \subseteq Takes, CommitInput(x, c, state)
  PROVE  TakeRowsType' /\ RowsAreRegular' /\ OnlySettles
<1> DEFINE reason == IF state = "waiting" THEN "disconnected" ELSE "input"
<1>1. CASE UNCHANGED takeRows
  BY <1>1, UnchangedSettles DEF takeRows, TakeRowsType, RowsAreRegular, Finished
<1>2. CASE ~ UNCHANGED takeRows
  <2>1. PICK t \in Takes : PersistRecordingFailure(t, c, reason)
    BY <1>2 DEF CommitInput
  <2>2. reason \in RowReason
    BY DEF RowReason
  <2> QED
    BY <2>1, <2>2, FailureSettles
<1> QED
  BY <1>1, <1>2

\* What a transaction commits, but for start_take and finish_take.
LEMMA CommitSettles ==
  ASSUME TakeRowsType, RowsAreRegular, NEW x \in Transactions, x.kind \notin {"start", "finish"},
         x \in DOMAIN seen => seen[x] \subseteq Takes, Commits(x)
  PROVE  TakeRowsType' /\ RowsAreRegular' /\ OnlySettles
<1>1. CASE UNCHANGED takeRows
  BY <1>1, UnchangedSettles DEF takeRows, TakeRowsType, RowsAreRegular, Finished
<1>2. CASE x.kind \in TakeKinds
  <2>1. x.take \in Takes /\ x.cameras[1] \in Cameras
    BY <1>2, TransactionShape
  <2>2. \/ UNCHANGED takeRows
        \/ PersistRecordingFailure(x.take, x.cameras[1], "media")
        \/ PersistUploadResult(x.take, x.cameras[1], "completed")
    BY <1>2 DEF Commits, TakeKinds, IsDeletion, storeVars, takeRows
  <2> QED
    BY <1>1, <2>1, <2>2, FailureSettles, UploadSettles DEF RowReason
<1>3. CASE IsDeletion(x)
  <2>1. x.cameras[1] \in Cameras /\ CommitDeletion(x, x.cameras[1])
    BY <1>3, TransactionShape DEF Commits, IsDeletion, CameraKinds
  <2> QED
    BY <2>1, DeletionSettles
<1>4. CASE x.kind \in {"connected", "lost"}
  <2>1. x.cameras[1] \in Cameras
    BY <1>4, TransactionShape DEF CameraKinds
  <2>2. PICK state \in {"waiting", "connected"} : CommitInput(x, x.cameras[1], state)
    BY <1>4 DEF Commits, IsDeletion
  <2> QED
    BY <2>1, <2>2, InputSettles
<1>5. CASE x.kind \in {"create", "provisioned", "deletion"}
  BY <1>1, <1>5 DEF Commits, IsDeletion
<1> QED
  BY <1>2, <1>3, <1>4, <1>5, TransactionShape DEF SessionKinds, EventKinds, IsDeletion

LEMMA StartRows ==
  ASSUME TakeRowsType, RowsAreRegular, NEW t \in Takes, NEW cs, InsertOngoingTake(t, cs)
  PROVE  TakeRowsType' /\ RowsAreRegular'
<1>1. TakeRowsType'
  BY DEF TakeRowsType, InsertOngoingTake, Phase, RowState
<1>2. RowsAreRegular'
  BY DEF RowsAreRegular, TakeRowsType, InsertOngoingTake, Finished
<1> QED
  BY <1>1, <1>2

LEMMA FinishRows ==
  ASSUME TakeRowsType, RowsAreRegular, NEW t \in Takes, FinishOngoingTake(t)
  PROVE  /\ TakeRowsType' /\ RowsAreRegular' /\ take[t] = "ongoing"
         /\ \A u \in Takes : /\ take'[u] = "ongoing" => take[u] = "ongoing"
                             /\ take'[u] = "absent" <=> take[u] = "absent"
                             /\ u # t => take'[u] = take[u]
         /\ \A u \in Takes, c \in Cameras : row'[u][c] # "none" => row'[u][c] = row[u][c]
<1> DEFINE videos == [video EXCEPT ![t] = [c \in Cameras |->
             IF row[t][c] = "recording" THEN "uploading" ELSE row[t][c]]]
<1>1. take[t] = "ongoing" /\ SaveTakes(row, videos)
  BY DEF FinishOngoingTake
<1>2. row \in [Takes -> [Cameras -> RowState]] /\ videos \in [Takes -> [Cameras -> VideoState]]
  BY DEF TakeRowsType, VideoState, RowState, Reason, RowReason
<1>3. \A u \in Takes : u # t => videos[u] = video[u]
  BY DEF TakeRowsType
<1> HIDE DEF videos
<1>4. TakeRowsType'
  BY <1>1, <1>2, SaveTakesType
<1>5. /\ RowsAreRegular'
      /\ \A u \in Takes : /\ take'[u] = "ongoing" => take[u] = "ongoing"
                          /\ take'[u] = "absent" => take[u] = "absent"
                          /\ videos[u] = video[u] => take'[u] = take[u]
  BY <1>1, <1>2, SaveTakesRegular
<1>6. \A u \in Takes : take[u] = "absent" => take'[u] = "absent"
  BY <1>1, <1>3, <1>5
<1>7. \A u \in Takes, c \in Cameras : row'[u][c] # "none" => row'[u][c] = row[u][c]
  BY <1>1 DEF SaveTakes
<1> QED
  BY <1>1, <1>3, <1>4, <1>5, <1>6, <1>7

\* The rows of cameras.
LEMMA CommitCameras ==
  ASSUME StoreTypeOK, NEW x \in Transactions, Commits(x)
  PROVE  /\ finalized' \subseteq Takes \X Cameras
         /\ conn' \in [Cameras -> ConnState]
         /\ deleting' \subseteq Cameras
<1> DEFINE c == x.cameras[1]
<1>1. CASE x.kind \in TakeKinds
  <2>1. <<x.take, c>> \in Takes \X Cameras
    BY <1>1, TransactionShape
  <2>2. UNCHANGED <<conn, deleting>>
    BY <1>1 DEF Commits, TakeKinds, IsDeletion, storeVars
  <2>3. UNCHANGED finalized \/ StageFinalizedRecording(x.take, c)
    BY <1>1 DEF Commits, TakeKinds, IsDeletion, storeVars
  <2>4. finalized' \subseteq finalized \cup {<<x.take, c>>}
    BY <2>3 DEF StageFinalizedRecording
  <2> QED
    BY <2>1, <2>2, <2>4 DEF StoreTypeOK
<1>2. CASE x.kind \in CameraKinds
  <2>1. c \in Cameras
    BY <1>2, TransactionShape
  <2>2. finalized' = finalized
    BY <1>2 DEF Commits, CameraKinds, IsDeletion, CommitDeletion, CommitInput
  <2>3. \/ CommitDeletion(x, c)
        \/ InsertCamera(c)
        \/ CommitInput(x, c, "connected")
        \/ CommitInput(x, c, "waiting")
        \/ SaveProvisioned(c)
        \/ DeleteConnection(c)
    BY <1>2 DEF Commits, CameraKinds, IsDeletion
  <2>4. \/ UNCHANGED conn
        \/ \E state \in ConnState : conn' = [conn EXCEPT ![c] = state]
    BY <2>3 DEF CommitDeletion, CommitInput, InsertCamera, SaveProvisioned, DeleteConnection,
         ConnState, InputState
  <2>5. deleting' \subseteq deleting \cup {c}
    BY <2>3 DEF CommitDeletion, CommitInput, InsertCamera, SaveProvisioned, DeleteConnection
  <2> QED
    BY <2>1, <2>2, <2>4, <2>5 DEF StoreTypeOK
<1>3. CASE x.kind \in {"start", "finish"}
  BY <1>3 DEF Commits, IsDeletion, StoreTypeOK
<1> QED
  BY <1>1, <1>2, <1>3, TransactionShape DEF SessionKinds, EventKinds, CameraKinds

-----------------------------------------------------------------------------
(* What a transaction has locked when it reads or commits.                 *)

LEMMA AllOfStart ==
  ASSUME NEW x \in Transactions, x.kind = "start", HasAllLocks(x)
  PROVE  /\ HoldsX(held[x], SessionRow)
         /\ (\A c \in ToSet(x.cameras) : IsReady(c)) =>
              \A c \in ToSet(x.cameras) : HoldsX(held[x], IdentityRow(c))
<1> DEFINE own == held[x]
           t == x.take
           cs == x.cameras
           mid == CamerasForUpdate(cs)
           last == TakeInserted(t, cs)
<1>1. t \in Takes /\ cs \in Seq(Cameras)
  BY TransactionShape
<1>2. /\ mid \in Programs
      /\ <<GetSessionForUpdate>> \in Programs /\ <<last>> \in Programs
  BY <1>1, StartType
<1>3. Queries(x) = (<<GetSessionForUpdate>> \o mid) \o <<last>>
  BY DEF Queries, StartTake, CamerasForUpdate, TakeInserted
<1>4. AllThrough(own, Queries(x))
  BY AllLocksThrough
<1> HIDE DEF mid, last
<1>5. IsThrough(own, GetSessionForUpdate) /\ AllThrough(own, mid)
  <2>1. <<GetSessionForUpdate>> \o mid \in Programs
    BY <1>2 DEF Programs
  <2>2. AllThrough(own, <<GetSessionForUpdate>> \o mid)
    BY <1>2, <1>3, <1>4, <2>1, ThroughEach
  <2>3. AllThrough(own, <<GetSessionForUpdate>>) /\ AllThrough(own, mid)
    BY <1>2, <2>2, ThroughEach
  <2> QED
    BY <2>3, AsksOne
<1>6. ASSUME \A c \in ToSet(cs) : IsReady(c), NEW i \in DOMAIN cs
      PROVE  HoldsX(own, IdentityRow(cs[i]))
  <2>1. \A j \in 1 .. i - 1 : cs[j] \in ToSet(cs)
    BY <1>1 DEF ToSet
  <2>2. i \in DOMAIN mid /\ mid[i] = GetCameraForUpdate(cs[i])
    BY <1>6, <2>1 DEF mid, CamerasForUpdate
  <2> QED
    BY <1>5, <2>2, GetCameraThrough DEF AllThrough
<1> QED
  BY <1>5, <1>6, GetSessionThrough DEF ToSet

LEMMA AllOfFinish ==
  ASSUME NEW x, x.kind = "finish", HasAllLocks(x)
  PROVE  /\ HoldsX(held[x], SessionRow)
         /\ OngoingTakes # {} =>
              \A c \in RowsOf(OngoingTake) :
                \E lock \in held[x] : lock.on = IdentityRow(c) /\ lock.mode \in {"X", "S"}
<1> DEFINE own == held[x]
           o == OngoingTake
           second == IF OngoingTakes = {} THEN <<>> ELSE ReplaceOngoing(o)
<1>1. Queries(x) = <<GetOngoingTakeForUpdate, second>>
  BY DEF Queries, FinishTake
<1>2. AllThrough(own, Queries(x))
  BY AllLocksThrough
<1>3. IsThrough(own, GetOngoingTakeForUpdate) /\ IsThrough(own, second)
  <2> HIDE DEF second
  <2> QED
    BY <1>1, <1>2, AsksTwo
<1>4. IsThrough(own, GetOngoingTakeForUpdate) => IsThrough(own, GetSessionForUpdate)
  BY FinishType, SessionQueryType, ThroughBoth
     DEF GetOngoingTakeForUpdate, GetSessionForUpdate, OngoingRows
<1>5. ASSUME OngoingTakes # {}, NEW c \in RowsOf(o)
      PROVE  \E lock \in own : lock.on = IdentityRow(c) /\ lock.mode \in {"X", "S"}
  <2> DEFINE videos == UNION {InsertVideoFile(o, d) : d \in RowsOf(o)}
  <2>1. o \in Takes
    BY <1>5, OngoingTakeType
  <2>2. IsThrough(own, ReplaceOngoingWithFinished(o))
    BY <1>3, <1>5, <2>1, FinishType, ThroughBoth DEF ReplaceOngoing, SettledRows
  <2>3. Missing(own, videos) = {}
    BY <2>2, ThroughTwo DEF ReplaceOngoingWithFinished
  <2>4. Shared(IdentityRow(c)) \in videos
    BY DEF InsertVideoFile
  <2>5. Covers(own, Shared(IdentityRow(c)))
    BY <2>3, <2>4 DEF Missing
  <2> QED
    BY <2>5 DEF Covers, Shared
<1> QED
  BY <1>3, <1>4, <1>5, GetSessionThrough

LEMMA AllOfDelete ==
  ASSUME NEW x \in Transactions, IsDeletion(x), HasAllLocks(x),
         x \in DOMAIN seen => seen[x] \subseteq Takes
  PROVE  /\ HoldsX(held[x], SessionRow)
         /\ HoldsX(held[x], IdentityRow(x.cameras[1]))
         /\ HoldsX(held[x], ConnectionRow(x.cameras[1]))
<1> DEFINE own == held[x]
           c == x.cameras[1]
           mid == EachUpload(x, c)
           p == <<GetCameraForUpdate(c)>> \o mid
           last == IF x \in DOMAIN seen THEN <<SaveCameraConnection(c)>> ELSE <<>>
<1>1. c \in Cameras /\ x.kind \in {"delete", "forced_delete"}
  BY TransactionShape DEF CameraKinds, IsDeletion
<1>2. /\ mid \in Programs /\ <<GetCameraForUpdate(c)>> \in Programs /\ last \in Programs
  BY <1>1, EachRead, CameraQueriesType DEF Programs
<1>3. Queries(x) = p \o last
  BY <1>1 DEF Queries, DeleteCamera, EachUpload
<1>4. AllThrough(own, Queries(x))
  BY AllLocksThrough
<1> HIDE DEF mid, last
<1>5. p \in Programs
  BY <1>2 DEF Programs
<1> HIDE DEF p
<1>6. AllThrough(own, p)
  BY <1>2, <1>3, <1>4, <1>5, ThroughEach
<1>7. AllThrough(own, <<GetCameraForUpdate(c)>>)
  BY <1>2, <1>6, ThroughEach DEF p
<1> QED
  BY <1>7, AsksOne, GetCameraThrough

LEMMA AllOfEvent ==
  ASSUME NEW x \in Transactions, x.kind \in EventKinds, HasAllLocks(x),
         x \in DOMAIN seen => seen[x] \subseteq Takes
  PROVE  /\ HoldsX(held[x], IdentityRow(x.cameras[1]))
         /\ HoldsX(held[x], ConnectionRow(x.cameras[1]))
<1> DEFINE own == held[x]
           c == x.cameras[1]
           first == <<GetCameraByIdForUpdate(c), SaveCameraConnection(c)>>
           mid == EachRecording(x, c)
<1>1. c \in Cameras /\ x.kind \in {"connected", "lost", "provisioned"}
  BY TransactionShape DEF CameraKinds, EventKinds
<1>2. mid \in Programs /\ first \in Programs
  <2>1. mid \in Programs
    BY <1>1, EachRead
  <2>2. first \in Programs
    BY SMTT(60), <1>1, CameraQueriesType DEF Programs
  <2> QED
    BY <2>1, <2>2
<1>3. Queries(x) = first \/ Queries(x) = first \o mid
  BY <1>1 DEF Queries, ProcessEvent, EachRecording, IsDeletion
<1>4. AllThrough(own, Queries(x))
  BY AllLocksThrough
<1>5. AllThrough(own, first)
  <2> HIDE DEF first, mid
  <2> QED
    BY <1>2, <1>3, <1>4, ThroughEach
<1> QED
  BY <1>5, AsksTwo, GetCameraByIdThrough

LEMMA AllOfDeletion ==
  ASSUME NEW x, x.kind = "deletion", HasAllLocks(x)
  PROVE  HoldsX(held[x], ConnectionRow(x.cameras[1]))
<1> DEFINE own == held[x]
           c == x.cameras[1]
<1>1. Queries(x) = <<DeleteCameraConnection(c)>>
  BY DEF Queries
<1>2. AllThrough(own, Queries(x))
  BY AllLocksThrough
<1>3. IsThrough(own, DeleteCameraConnection(c))
  BY <1>1, <1>2, AsksOne
<1>4. Missing(own, {Exclusive(ConnectionRow(c))}) = {}
  BY <1>3, ThroughTwo DEF DeleteCameraConnection
<1> QED
  BY <1>4, MissingOne

LEMMA AllOfCreate ==
  ASSUME NEW x, x.kind = "create", HasAllLocks(x)
  PROVE  HoldsX(held[x], SessionRow)
<1> DEFINE c == x.cameras[1]
<1>1. Queries(x) = <<GetSessionForUpdate, CreateCameraRows(c)>>
  BY DEF Queries
<1>2. AllThrough(held[x], Queries(x))
  BY AllLocksThrough
<1>3. IsThrough(held[x], GetSessionForUpdate)
  BY <1>1, <1>2, AsksTwo
<1> QED
  BY <1>3, GetSessionThrough

LEMMA AllOfSession ==
  ASSUME NEW x \in Transactions, x.kind \in SessionKinds, HasAllLocks(x),
         x \in DOMAIN seen => seen[x] \subseteq Takes
  PROVE  HoldsX(held[x], SessionRow)
BY AllOfStart, AllOfFinish, AllOfCreate, AllOfDelete DEF SessionKinds, IsDeletion

-----------------------------------------------------------------------------
(* The invariant.                                                          *)

\* No two transactions hold locks of one row that exclude each other.
LocksExclude ==
  \A x, y \in Running : x # y =>
    \A lock \in held[x], other \in held[y] :
      lock.on = other.on /\ lock.mode = "X" => other.mode \notin {"X", "S"}

LocksInOrder ==
  \A x \in Running : \A lock \in held[x] : InOrder(held[x], lock, x, ExistingTakes)

\* A recording is only staged in a take that has begun.
StagedTakesExist == \A x \in Running : x.kind = "stage" => x.take \in ExistingTakes

\* What delete_camera has read without a lock still holds.
DeletionReadHolds(x, c) ==
  /\ HoldsX(held[x], SessionRow)
  /\ HasConnection(c) /\ c \notin deleting
  /\ OngoingRecordings(c) = {} /\ UploadingVideos(c) \subseteq seen[x]
  /\ x.kind = "delete" => seen[x] = {}

\* What the event of a lost input has read.
EventReadHolds(x, c) ==
  /\ \A t \in seen[x] : take[t] = "ongoing" /\ row[t][c] # "none"
  /\ \A t \in OngoingTakes : row[t][c] = "recording" => t \in seen[x]

ReadsHold ==
  \A x \in DOMAIN seen :
    LET c == x.cameras[1] IN
    /\ HoldsX(held[x], IdentityRow(c)) /\ HoldsX(held[x], ConnectionRow(c))
    /\ \/ IsDeletion(x) /\ DeletionReadHolds(x, c)
       \/ x.kind = "lost" /\ EventReadHolds(x, c)

Inv ==
  /\ TypeOK /\ IsFiniteSet(Running)
  /\ RowsAreRegular
  /\ LocksExclude
  /\ LocksInOrder
  /\ StagedTakesExist
  /\ ReadsHold

LEMMA Initially == Init => Inv
<1> SUFFICES ASSUME Init PROVE Inv
  OBVIOUS
<1>1. Running = {} /\ DOMAIN seen = {}
  BY DEF Init, Running
<1>2. IsFiniteSet(Running) /\ Cardinality(Running) <= MaxActive
  BY <1>1, FS_EmptySet, MaxActiveAssumption
<1>3. StoreTypeOK
  BY DEF Init, StoreInit, StoreTypeOK, Phase, RowState, VideoState, ConnState
<1>4. RowsAreRegular
  BY DEF Init, StoreInit, RowsAreRegular
<1> QED
  BY <1>1, <1>2, <1>3, <1>4
     DEF Inv, TypeOK, LocksExclude, LocksInOrder, StagedTakesExist, ReadsHold

\* Who holds the row of the session, or of a camera, excludes another one.
LEMMA OneHolder ==
  ASSUME LocksExclude, NEW x \in Running, NEW y \in Running, NEW name,
         HoldsX(held[x], name), HoldsX(held[y], name)
  PROVE  x = y
BY DEF LocksExclude, HoldsX

LEMMA BeginStep ==
  ASSUME Inv, NEW x \in Transactions, Begin(x)
  PROVE  Inv'
<1>1. /\ x \notin Running /\ Running' = Running \cup {x}
      /\ held'[x] = {} /\ \A y \in Running : held'[y] = held[y]
      /\ UNCHANGED <<storeVars, seen>>
  BY DEF Begin, Running
<1>2. TypeOK' /\ IsFiniteSet(Running)'
  <2>1. /\ Cardinality(Running) \in Nat /\ Cardinality(Running) < MaxActive
        /\ IsFiniteSet(Running') /\ Cardinality(Running') = Cardinality(Running) + 1
    BY <1>1, FS_AddElement, FS_CardinalityType DEF Inv, Begin
  <2>2. Cardinality(Running') <= MaxActive
    BY <2>1, MaxActiveAssumption
  <2> QED
    BY <1>1, <2>1, <2>2 DEF Inv, TypeOK, StoreTypeOK, storeVars
<1>3. RowsAreRegular'
  BY <1>1 DEF Inv, RowsAreRegular, storeVars, Finished
<1>4. LocksExclude'
  BY <1>1 DEF Inv, LocksExclude
<1>5. LocksInOrder'
  BY <1>1 DEF Inv, LocksInOrder, ExistingTakes, storeVars
<1>6. StagedTakesExist'
  <2>1. x.kind = "stage" => x.take \in Takes /\ x.cameras[1] \in Cameras
    BY TransactionShape DEF TakeKinds
  <2>2. x.kind = "stage" => take[x.take] # "absent"
    <3>1. x.kind = "stage" => video[x.take][x.cameras[1]] # "none"
      BY DEF Begin, MayBegin
    <3> QED
      BY <2>1, <3>1 DEF Inv, RowsAreRegular, Finished
  <2> QED
    BY <1>1, <2>1, <2>2 DEF Inv, StagedTakesExist, ExistingTakes, storeVars
<1>7. ReadsHold'
  <2>1. \A y \in DOMAIN seen : y \in Running
    BY DEF Inv, TypeOK
  <2> QED
    BY <1>1, <2>1 DEF Inv, ReadsHold, DeletionReadHolds, EventReadHolds, storeVars, HasConnection,
         OngoingRecordings, OngoingTakes, UploadingVideos
<1> QED
  BY <1>2, <1>3, <1>4, <1>5, <1>6, <1>7 DEF Inv

LEMMA LockStep ==
  ASSUME Inv, NEW x \in Transactions, Lock(x)
  PROVE  Inv'
<1>1. PICK lock \in NextLocks(x) : /\ Holders(x, lock) = {}
                                   /\ held' = [held EXCEPT ![x] = @ \cup {lock}]
  BY DEF Lock
<1>2. /\ x \in Running /\ Running' = Running
      /\ held'[x] = held[x] \cup {lock} /\ \A y \in Running : y # x => held'[y] = held[y]
      /\ UNCHANGED <<storeVars, seen>>
  BY <1>1 DEF Lock, Running
<1>3. \A y \in Running : held[y] \subseteq held'[y]
  BY <1>2
<1>4. lock \in RowLock /\ InOrder(held[x], lock, x, ExistingTakes)
  BY Asked DEF Inv, TypeOK
<1>5. TypeOK' /\ IsFiniteSet(Running)'
  BY <1>2, <1>4 DEF Inv, TypeOK, StoreTypeOK, storeVars
<1>6. RowsAreRegular'
  BY <1>2 DEF Inv, RowsAreRegular, storeVars, Finished
<1>7. LocksExclude'
  <2>1. \A y \in Running \ {x} : \A other \in held[y] : ~ Conflicts(lock, other)
    BY <1>1 DEF Holders
  <2>2. \A y \in Running \ {x} : \A other \in held[y] :
          lock.on = other.on =>
            /\ lock.mode = "X" => other.mode \notin {"X", "S"}
            /\ other.mode = "X" => lock.mode \notin {"X", "S"}
    BY <2>1 DEF Conflicts
  <2> QED
    BY <1>2, <2>2 DEF Inv, LocksExclude
<1>8. LocksInOrder'
  <2>1. ExistingTakes' = ExistingTakes
    BY <1>2 DEF ExistingTakes, storeVars
  <2>2. \A y \in Running : \A own \in held'[y] : InOrder(held[y], own, y, ExistingTakes)
    BY <1>2, <1>4 DEF Inv, LocksInOrder
  <2>3. \A y \in Running : \A own \in held'[y] : InOrder(held'[y], own, y, ExistingTakes)
    BY <1>3, <2>2, InOrderMore
  <2> QED
    BY <1>2, <2>1, <2>3 DEF LocksInOrder
<1>9. StagedTakesExist'
  BY <1>2 DEF Inv, StagedTakesExist, ExistingTakes, storeVars
<1>10. ReadsHold'
  <2>1. \A y \in DOMAIN seen : y \in Running
    BY DEF Inv, TypeOK
  <2>2. \A y \in DOMAIN seen : \A name : HoldsX(held[y], name) => HoldsX(held'[y], name)
    BY <1>3, <2>1, HoldsMore
  <2>3. UNCHANGED <<seen, storeVars>>
    BY <1>2
  <2>4. ASSUME NEW y \in DOMAIN seen, NEW c, DeletionReadHolds(y, c) PROVE DeletionReadHolds(y, c)'
    BY <2>2, <2>3, <2>4 DEF DeletionReadHolds, storeVars, HasConnection, OngoingRecordings,
         OngoingTakes, UploadingVideos
  <2>5. ASSUME NEW y \in DOMAIN seen, NEW c, EventReadHolds(y, c) PROVE EventReadHolds(y, c)'
    BY <2>3, <2>5 DEF EventReadHolds, storeVars, OngoingTakes
  <2> QED
    BY <2>2, <2>3, <2>4, <2>5 DEF Inv, ReadsHold
<1> QED
  BY <1>5, <1>6, <1>7, <1>8, <1>9, <1>10 DEF Inv

\* A transaction that is over leaves the others as they are.
LEMMA EndsRunning ==
  ASSUME Inv, NEW x \in Running, Ends(x)
  PROVE  /\ Running' = Running \ {x} /\ DOMAIN seen' = DOMAIN seen \ {x}
         /\ \A y \in Running' : held'[y] = held[y]
         /\ \A y \in DOMAIN seen' : seen'[y] = seen[y] /\ y \in Running'
         /\ IsFiniteSet(Running') /\ Cardinality(Running') <= MaxActive
<1>1. /\ Running' = Running \ {x} /\ DOMAIN seen' = DOMAIN seen \ {x}
      /\ \A y \in Running' : held'[y] = held[y]
      /\ \A y \in DOMAIN seen' : seen'[y] = seen[y]
  BY DEF Ends, Running
<1>2. /\ IsFiniteSet(Running') /\ Cardinality(Running') = Cardinality(Running) - 1
      /\ Cardinality(Running) \in Nat /\ Cardinality(Running) <= MaxActive
  BY <1>1, FS_RemoveElement, FS_CardinalityType DEF Inv, TypeOK
<1>3. Cardinality(Running') <= MaxActive
  BY <1>2, MaxActiveAssumption
<1> QED
  BY <1>1, <1>2, <1>3 DEF Inv, TypeOK

\* What is left to show of a step that ends a transaction: what it has done to the rows.
LEMMA EndsStep ==
  ASSUME Inv, NEW x \in Running, Ends(x), StoreTypeOK', RowsAreRegular',
         \A y \in Running \ {x} :
           /\ y.kind \in {"start", "finish", "create"} /\ held[y] # {} =>
                ExistingTakes' \subseteq ExistingTakes
           /\ y.kind = "stage" => y.take \in ExistingTakes',
         \A y \in DOMAIN seen \ {x} :
           LET c == y.cameras[1] IN
           /\ IsDeletion(y) /\ DeletionReadHolds(y, c) =>
                /\ HasConnection(c)' /\ c \notin deleting'
                /\ OngoingRecordings(c)' = {} /\ UploadingVideos(c)' \subseteq seen[y]
           /\ y.kind = "lost" /\ EventReadHolds(y, c) =>
                /\ \A t \in seen[y] : take'[t] = "ongoing" /\ row'[t][c] # "none"
                /\ \A t \in OngoingTakes' : row'[t][c] = "recording" => t \in seen[y]
  PROVE  Inv'
<1>1. /\ Running' = Running \ {x} /\ DOMAIN seen' = DOMAIN seen \ {x}
      /\ \A y \in Running' : held'[y] = held[y]
      /\ \A y \in DOMAIN seen' : seen'[y] = seen[y] /\ y \in Running'
      /\ IsFiniteSet(Running') /\ Cardinality(Running') <= MaxActive
  BY EndsRunning
<1>2. TypeOK' /\ IsFiniteSet(Running)'
  BY <1>1 DEF Inv, TypeOK
<1>3. LocksExclude'
  BY <1>1 DEF Inv, LocksExclude
<1>4. LocksInOrder'
  <2> SUFFICES ASSUME NEW y \in Running \ {x}, NEW lock \in held[y]
               PROVE  InOrder(held[y], lock, y, ExistingTakes')
    BY <1>1 DEF LocksInOrder
  <2>1. InOrder(held[y], lock, y, ExistingTakes)
    BY DEF Inv, LocksInOrder
  <2>2. CASE y.kind \in {"start", "finish", "create"}
    <3>1. ExistingTakes' \subseteq ExistingTakes
      BY <2>2
    <3> QED
      BY <2>1, <3>1, InOrderMore
  <2>3. CASE y.kind \notin {"start", "finish", "create"}
    BY <2>1, <2>3 DEF InOrder
  <2> QED
    BY <2>2, <2>3
<1>5. StagedTakesExist'
  BY <1>1 DEF StagedTakesExist
<1>6. ReadsHold'
  <2> SUFFICES ASSUME NEW y \in DOMAIN seen \ {x}
               PROVE  LET c == y.cameras[1] IN
                      /\ HoldsX(held'[y], IdentityRow(c)) /\ HoldsX(held'[y], ConnectionRow(c))
                      /\ \/ IsDeletion(y) /\ DeletionReadHolds(y, c)'
                         \/ y.kind = "lost" /\ EventReadHolds(y, c)'
    BY <1>1 DEF ReadsHold
  <2> DEFINE c == y.cameras[1]
  <2>1. seen'[y] = seen[y] /\ held'[y] = held[y]
    BY <1>1
  <2>2. /\ HoldsX(held[y], IdentityRow(c)) /\ HoldsX(held[y], ConnectionRow(c))
        /\ \/ IsDeletion(y) /\ DeletionReadHolds(y, c)
           \/ y.kind = "lost" /\ EventReadHolds(y, c)
    BY DEF Inv, ReadsHold
  <2>3. CASE IsDeletion(y) /\ DeletionReadHolds(y, c)
    <3>1. /\ HasConnection(c)' /\ c \notin deleting'
          /\ OngoingRecordings(c)' = {} /\ UploadingVideos(c)' \subseteq seen[y]
      BY <2>3
    <3>2. HoldsX(held[y], SessionRow) /\ (y.kind = "delete" => seen[y] = {})
      BY <2>3 DEF DeletionReadHolds
    <3>3. DeletionReadHolds(y, c)'
      BY <2>1, <3>1, <3>2 DEF DeletionReadHolds
    <3> QED
      BY <2>1, <2>2, <2>3, <3>3
  <2>4. CASE y.kind = "lost" /\ EventReadHolds(y, c)
    <3>1. /\ \A t \in seen[y] : take'[t] = "ongoing" /\ row'[t][c] # "none"
          /\ \A t \in OngoingTakes' : row'[t][c] = "recording" => t \in seen[y]
      BY <2>4
    <3>2. EventReadHolds(y, c)'
      BY <2>1, <3>1 DEF EventReadHolds
    <3> QED
      BY <2>1, <2>2, <2>4, <3>2
  <2> QED
    BY <2>2, <2>3, <2>4
<1> QED
  BY <1>2, <1>3, <1>4, <1>5, <1>6 DEF Inv

\* A transaction that is refused, or rolled back.
LEMMA EndsUnchanged ==
  ASSUME Inv, NEW x \in Running, Ends(x), UNCHANGED storeVars
  PROVE  Inv'
<1>1. UNCHANGED <<take, row, video, finalized, conn, deleting>>
  BY DEF storeVars
<1>2. StoreTypeOK' /\ RowsAreRegular'
  BY <1>1 DEF Inv, TypeOK, StoreTypeOK, RowsAreRegular, Finished
<1>3. ExistingTakes' = ExistingTakes /\ OngoingTakes' = OngoingTakes
  BY <1>1 DEF ExistingTakes, OngoingTakes
<1>4. \A y \in Running : y.kind = "stage" => y.take \in ExistingTakes
  BY DEF Inv, StagedTakesExist
<1>5. ASSUME NEW y \in DOMAIN seen \ {x}, NEW c
      PROVE  /\ DeletionReadHolds(y, c) =>
                  /\ HasConnection(c)' /\ c \notin deleting'
                  /\ OngoingRecordings(c)' = {} /\ UploadingVideos(c)' \subseteq seen[y]
             /\ EventReadHolds(y, c) =>
                  /\ \A t \in seen[y] : take'[t] = "ongoing" /\ row'[t][c] # "none"
                  /\ \A t \in OngoingTakes' : row'[t][c] = "recording" => t \in seen[y]
  BY <1>1, <1>3
     DEF DeletionReadHolds, EventReadHolds, HasConnection, OngoingRecordings, UploadingVideos
<1> QED
  BY <1>2, <1>3, <1>4, <1>5, EndsStep

LEMMA ReadStep ==
  ASSUME Inv, NEW x \in Transactions, Read(x)
  PROVE  Inv'
<1> DEFINE c == x.cameras[1]
<1>1. x \in Running /\ HasAllLocks(x) /\ MustRead(x) /\ UNCHANGED storeVars
  BY DEF Read
<1>2. CASE Ends(x)
  BY <1>1, <1>2, EndsUnchanged
<1>3. CASE ~ Ends(x)
  <2>1. IsDeletion(x) => MayDelete(x, c)
    BY <1>3 DEF Read
  <2>2. /\ DOMAIN seen' = DOMAIN seen \cup {x} /\ \A y \in DOMAIN seen : seen'[y] = seen[y]
        /\ seen'[x] = IF IsDeletion(x) THEN UploadingVideos(c)
                      ELSE {t \in OngoingRecordings(c) : row[t][c] = "recording"}
        /\ held' = held /\ x \notin DOMAIN seen
    BY <1>3 DEF Read, MustRead
  <2>3. UNCHANGED <<take, row, video, finalized, conn, deleting>>
    BY <1>1 DEF storeVars
  <2>4. Running' = Running
    BY <2>2 DEF Running
  <2>5. TypeOK' /\ IsFiniteSet(Running)'
    <3>1. seen'[x] \subseteq Takes
      BY <2>2 DEF UploadingVideos, OngoingRecordings, OngoingTakes
    <3> QED
      BY <1>1, <2>2, <2>3, <2>4, <3>1 DEF Inv, TypeOK, StoreTypeOK
  <2>6. RowsAreRegular'
    BY <2>3 DEF Inv, RowsAreRegular, Finished
  <2>7. LocksExclude'
    BY <2>2, <2>4 DEF Inv, LocksExclude
  <2>8. LocksInOrder'
    BY <2>2, <2>3, <2>4 DEF Inv, LocksInOrder, ExistingTakes
  <2>9. StagedTakesExist'
    BY <2>3, <2>4 DEF Inv, StagedTakesExist, ExistingTakes
  <2>10. ReadsHold'
    <3>1. ASSUME NEW y \in DOMAIN seen, NEW d
          PROVE  /\ DeletionReadHolds(y, d) => DeletionReadHolds(y, d)'
                 /\ EventReadHolds(y, d) => EventReadHolds(y, d)'
      BY <2>2, <2>3 DEF DeletionReadHolds, EventReadHolds, HasConnection, OngoingRecordings,
           OngoingTakes, UploadingVideos
    <3>2. ASSUME NEW y \in DOMAIN seen
          PROVE  LET d == y.cameras[1] IN
                 /\ HoldsX(held[y], IdentityRow(d)) /\ HoldsX(held[y], ConnectionRow(d))
                 /\ \/ IsDeletion(y) /\ DeletionReadHolds(y, d)'
                    \/ y.kind = "lost" /\ EventReadHolds(y, d)'
      BY <3>1 DEF Inv, ReadsHold
    <3>3. CASE IsDeletion(x)
      <4>1. /\ HoldsX(held[x], SessionRow)
            /\ HoldsX(held[x], IdentityRow(c)) /\ HoldsX(held[x], ConnectionRow(c))
        BY <1>1, <2>2, <3>3, AllOfDelete
      <4>2. /\ HasConnection(c) /\ c \notin deleting /\ OngoingRecordings(c) = {}
            /\ x.kind = "delete" => UploadingVideos(c) = {}
        BY <2>1, <3>3 DEF MayDelete
      <4>3. DeletionReadHolds(x, c)'
        BY <2>2, <2>3, <3>3, <4>1, <4>2
           DEF DeletionReadHolds, HasConnection, OngoingRecordings, OngoingTakes, UploadingVideos
      <4> QED
        BY <2>2, <3>2, <3>3, <4>1, <4>3 DEF ReadsHold
    <3>4. CASE ~ IsDeletion(x)
      <4>1. x.kind = "lost"
        BY <1>1, <3>4 DEF MustRead
      <4>2. HoldsX(held[x], IdentityRow(c)) /\ HoldsX(held[x], ConnectionRow(c))
        BY <1>1, <2>2, <4>1, AllOfEvent DEF EventKinds
      <4>3. EventReadHolds(x, c)'
        BY <2>2, <2>3, <3>4 DEF EventReadHolds, OngoingRecordings, OngoingTakes
      <4> QED
        BY <2>2, <3>2, <4>1, <4>2, <4>3 DEF ReadsHold
    <3> QED
      BY <3>3, <3>4
  <2> QED
    BY <2>5, <2>6, <2>7, <2>8, <2>9, <2>10 DEF Inv
<1> QED
  BY <1>2, <1>3

-----------------------------------------------------------------------------
(* A commit, and what the others have read.                                *)

\* What a commit of none that has locked the session does to a camera.
LEMMA CommitElsewhere ==
  ASSUME NEW x \in Transactions, x.kind \notin SessionKinds, Commits(x),
         StoreTypeOK, NEW c \in Cameras,
         x.kind = "deletion" => x.cameras[1] # c
  PROVE  /\ HasConnection(c) => HasConnection(c)'
         /\ deleting' \subseteq deleting
<1> DEFINE d == x.cameras[1]
<1>1. CASE x.kind \in TakeKinds
  <2>1. UNCHANGED <<conn, deleting>>
    BY <1>1 DEF Commits, TakeKinds, IsDeletion, storeVars
  <2> QED
    BY <2>1 DEF HasConnection
<1>2. CASE x.kind \notin TakeKinds
  <2>1. d \in Cameras /\ x.kind \in {"connected", "lost", "provisioned", "deletion"}
    BY <1>2, TransactionShape DEF CameraKinds, EventKinds, SessionKinds
  <2>2. \/ \E state \in {"connected", "waiting"} : CommitInput(x, d, state)
        \/ SaveProvisioned(d)
        \/ d # c /\ DeleteConnection(d)
    BY <2>1 DEF Commits, IsDeletion
  <2> QED
    BY <2>1, <2>2
       DEF CommitInput, SaveProvisioned, DeleteConnection, HasConnection, StoreTypeOK
<1> QED
  BY <1>1, <1>2

LEMMA StoreRowsType == StoreTypeOK => TakeRowsType
BY DEF StoreTypeOK, TakeRowsType

\* A commit leaves what another deletion has read.
LEMMA CommitKeepsDeletion ==
  ASSUME Inv, NEW x \in Running, HasAllLocks(x), Commits(x), NEW y \in DOMAIN seen \ {x},
         IsDeletion(y), DeletionReadHolds(y, y.cameras[1])
  PROVE  LET c == y.cameras[1] IN
         /\ HasConnection(c)' /\ c \notin deleting'
         /\ OngoingRecordings(c)' = {} /\ UploadingVideos(c)' \subseteq seen[y]
<1> DEFINE c == y.cameras[1]
<1>1. /\ x \in Transactions /\ y \in Transactions /\ y \in Running /\ StoreTypeOK
      /\ x \in DOMAIN seen => seen[x] \subseteq Takes
  BY DEF Inv, TypeOK
<1>2. c \in Cameras
  BY <1>1, TransactionShape DEF IsDeletion, CameraKinds
<1>3. HoldsX(held[y], SessionRow) /\ HoldsX(held[y], ConnectionRow(c))
  BY DEF Inv, ReadsHold, DeletionReadHolds
<1>4. x.kind \notin SessionKinds
  <2>1. ~ HoldsX(held[x], SessionRow)
    BY <1>1, <1>3, OneHolder DEF Inv
  <2> QED
    BY <1>1, <2>1, AllOfSession
<1>5. x.kind = "deletion" => x.cameras[1] # c
  <2>1. ~ HoldsX(held[x], ConnectionRow(c))
    BY <1>1, <1>3, OneHolder DEF Inv
  <2> QED
    BY <1>1, <2>1, AllOfDeletion
<1>6. (HasConnection(c) => HasConnection(c)') /\ deleting' \subseteq deleting
  BY <1>1, <1>2, <1>4, <1>5, CommitElsewhere
<1>7. OnlySettles
  BY <1>1, <1>4, CommitSettles, StoreRowsType DEF Inv, SessionKinds
<1>8. /\ HasConnection(c) /\ c \notin deleting
      /\ OngoingRecordings(c) = {} /\ UploadingVideos(c) \subseteq seen[y]
  BY DEF DeletionReadHolds
<1>9. OngoingRecordings(c)' = {}
  BY <1>2, <1>7, <1>8 DEF OnlySettles, OngoingRecordings, OngoingTakes
<1>10. UploadingVideos(c)' \subseteq seen[y]
  BY <1>2, <1>7, <1>8 DEF OnlySettles, UploadingVideos
<1> QED
  BY <1>6, <1>8, <1>9, <1>10

\* A commit leaves what the event of another camera, or of another transaction, has read.
LEMMA CommitKeepsEvent ==
  ASSUME Inv, NEW x \in Running, HasAllLocks(x), ~ IsRefused(x), Commits(x),
         NEW y \in DOMAIN seen \ {x}, y.kind = "lost", EventReadHolds(y, y.cameras[1])
  PROVE  LET c == y.cameras[1] IN
         /\ \A t \in seen[y] : take'[t] = "ongoing" /\ row'[t][c] # "none"
         /\ \A t \in OngoingTakes' : row'[t][c] = "recording" => t \in seen[y]
<1> DEFINE c == y.cameras[1]
<1>1. /\ x \in Transactions /\ y \in Transactions /\ y \in Running /\ StoreTypeOK
      /\ x \in DOMAIN seen => seen[x] \subseteq Takes
      /\ seen[y] \subseteq Takes
  BY DEF Inv, TypeOK
<1>2. c \in Cameras
  BY <1>1, TransactionShape DEF CameraKinds
<1>3. HoldsX(held[y], IdentityRow(c))
  BY DEF Inv, ReadsHold
<1>4. /\ \A t \in seen[y] : take[t] = "ongoing" /\ row[t][c] # "none"
      /\ \A t \in OngoingTakes : row[t][c] = "recording" => t \in seen[y]
  BY DEF EventReadHolds
<1>5. CASE x.kind \notin {"start", "finish"}
  <2>1. OnlySettles
    BY <1>1, <1>5, CommitSettles, StoreRowsType DEF Inv
  <2> QED
    BY <1>1, <1>2, <1>4, <2>1 DEF OnlySettles, OngoingTakes
<1>6. CASE x.kind = "start"
  <2> DEFINE cs == ToSet(x.cameras)
             t == x.take
  <2>1. InsertOngoingTake(t, cs) /\ t \in Takes
    BY <1>1, <1>6, TransactionShape DEF Commits, IsDeletion
  <2>2. \A d \in cs : IsReady(d)
    BY <2>1 DEF InsertOngoingTake, IsReady
  <2>3. \A d \in cs : HoldsX(held[x], IdentityRow(d))
    BY <1>1, <1>6, <2>2, AllOfStart
  <2>4. c \notin cs
    BY <1>1, <1>3, <2>3, OneHolder DEF Inv
  <2>5. \A u \in Takes : take[u] # "ongoing"
    BY <2>1 DEF InsertOngoingTake
  <2>6. seen[y] = {}
    BY <1>1, <1>4, <2>5
  <2>7. \A u \in Takes : take'[u] = "ongoing" => row'[u][c] = "none"
    BY <1>1, <1>2, <2>1, <2>4, <2>5 DEF InsertOngoingTake, StoreTypeOK
  <2> QED
    BY <2>6, <2>7 DEF OngoingTakes
<1>7. CASE x.kind = "finish"
  <2>1. PICK u \in Takes : FinishOngoingTake(u)
    BY <1>7 DEF Commits, IsDeletion
  <2>2. /\ take[u] = "ongoing"
        /\ \A t \in Takes : take'[t] = "ongoing" => take[t] = "ongoing"
        /\ \A t \in Takes, d \in Cameras : row'[t][d] # "none" => row'[t][d] = row[t][d]
    BY <1>1, <2>1, FinishRows, StoreRowsType DEF Inv
  <2>3. OngoingTakes # {} /\ OngoingTake = u
    <3>1. u \in OngoingTakes
      BY <2>2 DEF OngoingTakes
    <3>2. OngoingTake \in Takes /\ take[OngoingTake] = "ongoing"
      BY <3>1, OngoingTakeType
    <3> QED
      BY <2>2, <3>1, <3>2 DEF Inv, RowsAreRegular
  <2>4. \A d \in RowsOf(u) :
          \E lock \in held[x] : lock.on = IdentityRow(d) /\ lock.mode \in {"X", "S"}
    BY <1>7, <2>3, AllOfFinish
  <2>5. c \notin RowsOf(u)
    BY <1>1, <1>3, <2>4 DEF Inv, LocksExclude, HoldsX
  <2>6. seen[y] = {}
    <3>1. \A t \in seen[y] : t = u
      BY <1>1, <1>4, <2>2 DEF Inv, RowsAreRegular
    <3>2. row[u][c] = "none"
      BY <1>2, <2>5 DEF RowsOf
    <3> QED
      BY <1>4, <3>1, <3>2
  <2>7. \A t \in OngoingTakes' : row'[t][c] # "recording"
    BY <1>2, <1>4, <2>2, <2>6 DEF OngoingTakes
  <2> QED
    BY <2>6, <2>7
<1> QED
  BY <1>5, <1>6, <1>7

LEMMA CommitStep ==
  ASSUME Inv, NEW x \in Transactions, Commit(x)
  PROVE  Inv'
<1>1. x \in Running /\ HasAllLocks(x) /\ Ends(x)
  BY DEF Commit
<1>2. CASE IsRefused(x)
  <2>1. UNCHANGED storeVars
    BY <1>2 DEF Commit
  <2> QED
    BY <1>1, <2>1, EndsUnchanged
<1>3. CASE ~ IsRefused(x)
  <2>1. Commits(x)
    BY <1>3 DEF Commit
  <2>2. StoreTypeOK /\ TakeRowsType /\ RowsAreRegular /\ (x \in DOMAIN seen => seen[x] \subseteq Takes)
    BY StoreRowsType DEF Inv, TypeOK
  <2>3. /\ TakeRowsType' /\ RowsAreRegular'
        /\ x.kind # "start" => ExistingTakes' = ExistingTakes
        /\ ExistingTakes \subseteq ExistingTakes'
    <3>1. CASE x.kind = "start"
      <4>1. x.take \in Takes /\ InsertOngoingTake(x.take, ToSet(x.cameras))
        BY <2>1, <3>1, TransactionShape DEF Commits, IsDeletion
      <4>2. ExistingTakes \subseteq ExistingTakes'
        BY <2>2, <4>1 DEF InsertOngoingTake, ExistingTakes, TakeRowsType
      <4> QED
        BY <2>2, <3>1, <4>1, <4>2, StartRows
    <3>2. CASE x.kind = "finish"
      <4>1. PICK u \in Takes : FinishOngoingTake(u)
        BY <2>1, <3>2 DEF Commits, IsDeletion
      <4>2. \A t \in Takes : take'[t] = "absent" <=> take[t] = "absent"
        BY <2>2, <4>1, FinishRows
      <4> QED
        BY <2>2, <4>1, <4>2, FinishRows DEF ExistingTakes
    <3>3. CASE x.kind \notin {"start", "finish"}
      <4>1. TakeRowsType' /\ RowsAreRegular' /\ OnlySettles
        BY <2>1, <2>2, <3>3, CommitSettles
      <4> QED
        BY <4>1 DEF OnlySettles, ExistingTakes
    <3> QED
      BY <3>1, <3>2, <3>3
  <2>4. StoreTypeOK'
    BY <2>1, <2>2, <2>3, CommitCameras DEF StoreTypeOK, TakeRowsType
  <2>5. ASSUME NEW y \in Running \ {x}, y.kind \in {"start", "finish", "create"}, held[y] # {}
        PROVE  ExistingTakes' \subseteq ExistingTakes
    <3>1. HoldsX(held[y], SessionRow)
      <4>1. PICK lock \in held[y] : InOrder(held[y], lock, y, ExistingTakes)
        BY <2>5 DEF Inv, LocksInOrder
      <4> QED
        BY <2>5, <4>1 DEF InOrder, SessionKinds, HoldsX, Exclusive
    <3>2. ~ HoldsX(held[x], SessionRow)
      BY <1>1, <3>1, OneHolder DEF Inv
    <3>3. x.kind # "start"
      BY <1>1, <3>2, AllOfStart
    <3> QED
      BY <2>3, <3>3
  <2>6. ASSUME NEW y \in Running \ {x}, y.kind = "stage"
        PROVE  y.take \in ExistingTakes'
    BY <2>3, <2>6 DEF Inv, StagedTakesExist
  <2>7. ASSUME NEW y \in DOMAIN seen \ {x}, IsDeletion(y), DeletionReadHolds(y, y.cameras[1])
        PROVE  LET c == y.cameras[1] IN
               /\ HasConnection(c)' /\ c \notin deleting'
               /\ OngoingRecordings(c)' = {} /\ UploadingVideos(c)' \subseteq seen[y]
    BY <1>1, <2>1, <2>7, CommitKeepsDeletion
  <2>8. ASSUME NEW y \in DOMAIN seen \ {x}, y.kind = "lost", EventReadHolds(y, y.cameras[1])
        PROVE  LET c == y.cameras[1] IN
               /\ \A t \in seen[y] : take'[t] = "ongoing" /\ row'[t][c] # "none"
               /\ \A t \in OngoingTakes' : row'[t][c] = "recording" => t \in seen[y]
    BY <1>1, <1>3, <2>1, <2>8, CommitKeepsEvent
  <2> QED
    BY <1>1, <2>3, <2>4, <2>5, <2>6, <2>7, <2>8, EndsStep
<1> QED
  BY <1>2, <1>3

LEMMA AbortStep ==
  ASSUME Inv, NEW x \in Transactions, Abort(x)
  PROVE  Inv'
BY EndsUnchanged DEF Abort

LEMMA StutterStep == ASSUME Inv, UNCHANGED vars PROVE Inv'
<1>1. UNCHANGED <<take, row, video, finalized, conn, deleting, held, seen>>
  BY DEF vars, storeVars
<1>2. TypeOK' /\ IsFiniteSet(Running)' /\ RowsAreRegular' /\ LocksExclude'
  BY <1>1 DEF Inv, TypeOK, StoreTypeOK, RowsAreRegular, Finished, LocksExclude, Running
<1>3. LocksInOrder' /\ StagedTakesExist'
  BY <1>1 DEF Inv, LocksInOrder, StagedTakesExist, Running, ExistingTakes
<1>4. ReadsHold'
  BY <1>1 DEF Inv, ReadsHold, DeletionReadHolds, EventReadHolds, HasConnection,
       OngoingRecordings, OngoingTakes, UploadingVideos
<1> QED
  BY <1>2, <1>3, <1>4 DEF Inv

LEMMA Invariant == Spec => []Inv
<1>1. Inv /\ [Next]_vars => Inv'
  BY BeginStep, LockStep, ReadStep, CommitStep, AbortStep, StutterStep DEF Next
<1> QED
  BY Initially, <1>1, PTL DEF Spec

\* Every variable keeps its type, and no more transactions run than may.
THEOREM LocksTypes == Spec => []TypeOK
<1>1. Inv => TypeOK
  BY DEF Inv
<1> QED
  BY <1>1, Invariant, PTL

-----------------------------------------------------------------------------
(* A transaction is one step.                                              *)

\* What a deletion commits.
LEMMA DeletionCommits ==
  ASSUME Inv, NEW x \in Running, IsDeletion(x), ~ MustRead(x), Commits(x)
  PROVE  RequestDeletion(x.cameras[1], x.kind = "forced_delete")
<1> DEFINE c == x.cameras[1]
           failed == [t \in Takes |-> [d \in Cameras |->
             IF d = c /\ t \in seen[x] /\ video[t][d] = "uploading" THEN "forced" ELSE video[t][d]]]
           forced == [t \in Takes |-> [d \in Cameras |->
             IF d = c /\ video[t][d] = "uploading" THEN "forced" ELSE video[t][d]]]
<1>1. x \in DOMAIN seen /\ DeletionReadHolds(x, c)
  BY DEF MustRead, Inv, ReadsHold, IsDeletion
<1>2. CommitDeletion(x, c)
  BY DEF Commits, IsDeletion
<1>3. /\ HasConnection(c) /\ c \notin deleting
      /\ OngoingRecordings(c) = {} /\ UploadingVideos(c) \subseteq seen[x]
      /\ x.kind = "delete" => seen[x] = {}
  BY <1>1 DEF DeletionReadHolds
<1>4. \A t \in Takes : take[t] = "ongoing" => row[t][c] = "none"
  BY <1>3 DEF OngoingRecordings, OngoingTakes
<1>5. x.kind = "forced_delete" \/ \A t \in Takes : video[t][c] # "uploading"
  BY <1>3 DEF UploadingVideos, IsDeletion
<1>6. failed = forced
  BY <1>3 DEF UploadingVideos
<1>7. SaveTakes(row, failed) /\ deleting' = deleting \cup {c} /\ UNCHANGED conn
  BY <1>2 DEF CommitDeletion
<1>8. SaveTakes(row, forced)
  <2> HIDE DEF failed, forced
  <2> QED
    BY <1>6, <1>7
<1> HIDE DEF failed
<1> QED
  BY <1>3, <1>4, <1>5, <1>7, <1>8 DEF RequestDeletion

\* Saving what is there changes nothing.
LEMMA SaveNothing ==
  ASSUME TakeRowsType, SaveTakes(row, video)
  PROVE  UNCHANGED takeRows
BY DEF TakeRowsType, SaveTakes, takeRows

\* What the event of a lost input commits.
LEMMA EventCommits ==
  ASSUME Inv, NEW x \in Running, x.kind = "lost", ~ MustRead(x), Commits(x),
         ~ UNCHANGED storeVars
  PROVE  ApplyInputState(x.cameras[1], "waiting")
<1> DEFINE c == x.cameras[1]
           reason == "disconnected"
<1>1. x \in DOMAIN seen /\ EventReadHolds(x, c) /\ seen[x] \subseteq Takes /\ StoreTypeOK
  BY DEF MustRead, Inv, TypeOK, ReadsHold, IsDeletion
<1>2. c \in Cameras
  BY TransactionShape DEF Inv, TypeOK, CameraKinds
<1>3. CommitInput(x, c, "waiting")
  BY DEF Commits, IsDeletion
<1> DEFINE applies == AcceptsInputState(c) /\ \A t \in seen[x] : ~ FailureConflicts(t, c, reason)
<1>4. /\ conn' = IF applies THEN [conn EXCEPT ![c] = "waiting"] ELSE conn
      /\ IF applies /\ seen[x] # {}
         THEN \E t \in seen[x] : PersistRecordingFailure(t, c, reason)
         ELSE UNCHANGED takeRows
      /\ UNCHANGED <<finalized, deleting>>
  BY <1>1, <1>3 DEF CommitInput
<1>5. applies
  BY <1>4 DEF storeVars, takeRows
<1>6. /\ \A t \in seen[x] : take[t] = "ongoing" /\ row[t][c] # "none"
      /\ \A t \in OngoingTakes : row[t][c] = "recording" => t \in seen[x]
  BY <1>1 DEF EventReadHolds
<1>7. CASE seen[x] = {}
  <2>1. \A t \in Takes : take[t] = "ongoing" => row[t][c] # "recording"
    BY <1>6, <1>7 DEF OngoingTakes
  <2> QED
    BY <1>4, <1>5, <1>7, <2>1 DEF ApplyInputState
<1>8. CASE seen[x] # {}
  <2>1. PICK t \in seen[x] : PersistRecordingFailure(t, c, reason)
    BY <1>4, <1>5, <1>8
  <2>2. t \in Takes /\ take[t] = "ongoing" /\ row[t][c] # "none"
    BY <1>1, <1>6
  <2>3. CASE row[t][c] = "recording"
    BY <1>4, <1>5, <2>1, <2>2, <2>3 DEF ApplyInputState
  <2>4. CASE row[t][c] # "recording"
    <3>1. ~ FailureConflicts(t, c, reason)
      BY <1>5
    <3>2. SaveTakes(row, video)
      BY <2>1, <2>2, <2>4, <3>1 DEF PersistRecordingFailure
    <3>3. UNCHANGED takeRows
      BY <1>1, <3>2, SaveNothing, StoreRowsType
    <3>4. \A u \in Takes : take[u] = "ongoing" => u = t
      BY <2>2 DEF Inv, RowsAreRegular
    <3>5. \A u \in Takes : take[u] = "ongoing" => row[u][c] # "recording"
      BY <2>4, <3>4
    <3> QED
      BY <1>4, <1>5, <3>3, <3>5 DEF ApplyInputState
  <2> QED
    BY <2>3, <2>4
<1> QED
  BY <1>7, <1>8

LEMMA AtomicStep ==
  ASSUME Inv, NEW y \in Transactions, Begin(y) \/ Lock(y) \/ Read(y) \/ Commit(y) \/ Abort(y),
         NEW x \in Running \ DOMAIN held', ~ UNCHANGED storeVars
  PROVE  /\ IsDeletion(x) => RequestDeletion(x.cameras[1], x.kind = "forced_delete")
         /\ x.kind = "lost" => ApplyInputState(x.cameras[1], "waiting")
<1>1. Commit(y)
  BY DEF Begin, Lock, Read, Abort
<1>2. x = y
  BY <1>1 DEF Commit, Ends
<1>3. ~ IsRefused(x) /\ ~ MustRead(x) /\ Commits(x)
  BY <1>1, <1>2 DEF Commit
<1> QED
  BY <1>3, DeletionCommits, EventCommits

\* A deletion of a camera and the event of a lost input commit what one step would have
\* done, although each reads rows that it does not lock: what it has read still holds, or
\* the transaction is rolled back.
THEOREM TransactionsAtomic == Spec => TransactionsAreAtomic
<1> DEFINE A == \A x \in Running \ DOMAIN held' :
                  \/ UNCHANGED storeVars
                  \/ /\ IsDeletion(x) =>
                          RequestDeletion(x.cameras[1], x.kind = "forced_delete")
                     /\ x.kind = "lost" => ApplyInputState(x.cameras[1], "waiting")
<1>1. Inv /\ [Next]_vars => [A]_vars
  <2> SUFFICES ASSUME Inv, Next PROVE A
    OBVIOUS
  <2> QED
    BY AtomicStep DEF Next
<1> QED
  BY <1>1, Invariant, PTL DEF Spec, TransactionsAreAtomic

-----------------------------------------------------------------------------
(* Who waits for whom.                                                     *)

\* A transaction asks for a lock that another one keeps from it.
Waits(x, y) == \E lock \in NextLocks(x) : \E other \in held[y] : Conflicts(lock, other)

\* In a deadlock everyone waits for one of the others, and keeps one of them waiting:
\* without one who does not, the rest would be a deadlock already.
LEMMA Knots ==
  ASSUME NEW S \in Deadlocks
  PROVE  /\ S \subseteq Running
         /\ \A x \in S : \E y \in S \ {x} : Waits(x, y)
         /\ \A y \in S : \E x \in S \ {y} : Waits(x, y)
<1> DEFINE blockers == [x \in Running |-> Blockers(x)]
           waiting == {x \in Running : blockers[x] # {}}
           knots == {K \in (SUBSET waiting) \ {{}} : \A x \in K : blockers[x] \cap K # {}}
<1>0. Deadlocks = {L \in knots : \A K \in knots : K \subseteq L => K = L}
  BY Zenon DEF Deadlocks
<1>1. /\ S \in SUBSET waiting /\ S # {} /\ \A x \in S : blockers[x] \cap S # {}
      /\ \A K \in knots : K \subseteq S => K = S
  <2> HIDE DEF knots
  <2>1. S \in knots /\ \A K \in knots : K \subseteq S => K = S
    BY <1>0
  <2>2. S \in SUBSET waiting /\ S # {} /\ \A x \in S : blockers[x] \cap S # {}
    <3> HIDE DEF waiting
    <3> QED
      BY <2>1 DEF knots
  <2> QED
    BY <2>1, <2>2
<1>2. ASSUME NEW x \in Running, NEW y \in blockers[x]
      PROVE  y # x /\ Waits(x, y)
  <2>1. y \in Blockers(x)
    BY <1>2
  <2>2. PICK lock \in NextLocks(x) : y \in Holders(x, lock)
    BY Zenon, <2>1 DEF Blockers
  <2>3. y # x /\ \E other \in held[y] : Conflicts(lock, other)
    BY <2>2 DEF Holders
  <2> QED
    BY <2>2, <2>3 DEF Waits
<1>3. \A x \in S : \E y \in S \ {x} : Waits(x, y)
  <2> SUFFICES ASSUME NEW x \in S PROVE \E y \in S \ {x} : Waits(x, y)
    OBVIOUS
  <2>1. x \in Running
    BY <1>1
  <2> HIDE DEF blockers, waiting
  <2>2. PICK y \in blockers[x] \cap S : TRUE
    BY <1>1
  <2> QED
    BY <1>2, <2>1, <2>2
<1>4. ASSUME NEW y \in S, \A x \in S \ {y} : ~ Waits(x, y)
      PROVE  FALSE
  <2>1. \A x \in S \ {y} : blockers[x] \cap (S \ {y}) # {}
    BY <1>1, <1>2, <1>4
  <2>2. S \ {y} # {}
    BY <1>3
  <2> HIDE DEF blockers
  <2>3. S \ {y} \in knots
    BY <1>1, <2>1, <2>2
  <2> QED
    BY <1>1, <2>3
<1> QED
  BY <1>1, <1>3, <1>4

\* Who holds anything holds what it locks first.
LEMMA HoldsFirst ==
  ASSUME LocksInOrder, NEW x \in Running, held[x] # {}
  PROVE  /\ x.kind \in SessionKinds => HoldsX(held[x], SessionRow)
         /\ x.kind \in TakeKinds => HoldsX(held[x], TakeRow(x.take))
         /\ x.kind \in EventKinds => HoldsX(held[x], IdentityRow(x.cameras[1]))
<1>1. PICK lock \in held[x] : InOrder(held[x], lock, x, ExistingTakes)
  BY DEF LocksInOrder
<1> QED
  BY <1>1 DEF InOrder, HoldsX, Exclusive

\* Only the deletion of a connection locks one without its camera.
LEMMA ConnectionHolder ==
  ASSUME LocksInOrder, NEW y \in Running, y.kind # "deletion", NEW c,
         NEW other \in held[y], other.on = ConnectionRow(c)
  PROVE  HoldsX(held[y], IdentityRow(c))
BY DEF LocksInOrder, InOrder, ConnectionRow

\* Or rows of a take without the take.
LEMMA TakeHolder ==
  ASSUME LocksInOrder, NEW y \in Running, y.kind # "deletion", NEW t,
         NEW other \in held[y], other.on[1] \in TakeTables, other.on[2] = t,
         other.mode \in {"X", "S"}
  PROVE  HoldsX(held[y], TakeRow(t))
BY DEF LocksInOrder, InOrder

\* A camera that is connected, or has been provisioned, keeps nobody waiting while it
\* waits, unless its connection is being deleted.
LEMMA EventsWaitFirst ==
  ASSUME Inv, NEW x \in Running, x.kind \in {"connected", "provisioned"}, held[x] # {},
         NEW y \in Running \ {x}, y.kind # "deletion", Waits(x, y)
  PROVE  FALSE
<1> DEFINE c == x.cameras[1]
<1>1. x \in Transactions /\ (x \in DOMAIN seen => seen[x] \subseteq Takes) /\ x \notin DOMAIN seen
  BY DEF Inv, TypeOK, ReadsHold, IsDeletion
<1>2. HoldsX(held[x], IdentityRow(c))
  BY HoldsFirst DEF Inv, EventKinds
<1>3. PICK lock \in NextLocks(x), other \in held[y] : Conflicts(lock, other)
  BY DEF Waits
<1>4. lock = Exclusive(IdentityRow(c)) \/ lock = Exclusive(ConnectionRow(c))
  BY <1>1, AskedOfEvent DEF EventKinds
<1>5. CASE lock = Exclusive(IdentityRow(c))
  BY <1>2, <1>3, <1>5 DEF Inv, LocksExclude, HoldsX, Conflicts, Exclusive
<1>6. CASE lock = Exclusive(ConnectionRow(c))
  <2>1. other.on = ConnectionRow(c)
    BY <1>3, <1>6 DEF Conflicts, Exclusive
  <2>2. HoldsX(held[y], IdentityRow(c))
    BY <2>1, ConnectionHolder DEF Inv
  <2> QED
    BY <1>2, <2>2, OneHolder DEF Inv
<1> QED
  BY <1>4, <1>5, <1>6

\* So do the transactions of a take, but for the staging of a recording.
LEMMA TakesWaitFirst ==
  ASSUME Inv, NEW x \in Running, x.kind \in {"started", "failed", "upload"}, held[x] # {},
         NEW y \in Running \ {x}, y.kind # "deletion", Waits(x, y)
  PROVE  FALSE
<1> DEFINE t == x.take
<1>1. x \in Transactions
  BY DEF Inv, TypeOK
<1>2. HoldsX(held[x], TakeRow(t))
  BY HoldsFirst DEF Inv, TakeKinds
<1>3. PICK lock \in NextLocks(x), other \in held[y] : Conflicts(lock, other)
  BY DEF Waits
<1>4. lock \in OfUpload(t) /\ lock.mode # "gap"
  <2>1. lock \in OfUpload(t)
    BY <1>1, AskedOfTake DEF TakeKinds, OfUpload
  <2> QED
    BY <1>3, <2>1 DEF Conflicts
<1>5. /\ lock.mode = "X"
      /\ lock.on = TakeRow(t) \/ (lock.on[1] \in TakeTables /\ lock.on[2] = t)
  BY <1>4 DEF OfUpload, OfTake, Exclusive, Gap, TakeRow, RecordingRow, VideoRow, FinalizedRow,
       TakeTables
<1>6. other.on = lock.on /\ other.mode \in {"X", "S"}
  BY <1>3, <1>5 DEF Conflicts
<1>7. CASE lock.on = TakeRow(t)
  BY <1>2, <1>6, <1>7 DEF Inv, LocksExclude, HoldsX
<1>8. CASE lock.on[1] \in TakeTables /\ lock.on[2] = t
  <2>1. HoldsX(held[y], TakeRow(t))
    BY <1>6, <1>8, TakeHolder DEF Inv
  <2> QED
    BY <1>2, <2>1, OneHolder DEF Inv
<1> QED
  BY <1>5, <1>7, <1>8

\* The staging of a recording waits for one that has locked the session only when that
\* has locked the identity of its camera for writing.
LEMMA StageWaits ==
  ASSUME Inv, NEW x \in Running, x.kind = "stage", held[x] # {},
         NEW y \in Running \ {x}, y.kind \in SessionKinds, Waits(x, y)
  PROVE  \E other \in held[y] : other.on = IdentityRow(x.cameras[1]) /\ other.mode = "X"
<1> DEFINE t == x.take
           c == x.cameras[1]
<1>1. x \in Transactions /\ y.kind # "deletion"
  BY DEF Inv, TypeOK, SessionKinds
<1>2. HoldsX(held[x], TakeRow(t))
  BY HoldsFirst DEF Inv, TakeKinds
<1>3. PICK lock \in NextLocks(x), other \in held[y] : Conflicts(lock, other)
  BY DEF Waits
<1>4. lock \in OfStage(t, c) /\ ~ Covers(held[x], lock)
  BY <1>1, AskedOfTake DEF TakeKinds
<1>5. lock.on # TakeRow(t)
  BY <1>2, <1>4, CoversAny
<1>6. other.on = lock.on /\ <<lock.mode, other.mode>> \in
        {<<"X", "X">>, <<"X", "S">>, <<"S", "X">>, <<"insert", "gap">>}
  BY <1>3 DEF Conflicts
<1>7. other.mode # "gap"
  BY DEF Inv, LocksInOrder, InOrder, SessionKinds
<1>8. ~ (lock.on[1] \in TakeTables /\ lock.on[2] = t /\ lock.mode = "X")
  <2> SUFFICES ASSUME lock.on[1] \in TakeTables, lock.on[2] = t, lock.mode = "X" PROVE FALSE
    OBVIOUS
  <2>1. HoldsX(held[y], TakeRow(t))
    BY <1>1, <1>6, TakeHolder DEF Inv
  <2> QED
    BY <1>2, <2>1, OneHolder DEF Inv
<1>9. lock = Shared(IdentityRow(c))
  <2>1. \/ lock.on = TakeRow(t)
        \/ lock = Shared(IdentityRow(c))
        \/ lock.mode \in {"gap", "insert"}
        \/ lock.on[1] \in TakeTables /\ lock.on[2] = t /\ lock.mode = "X"
    BY <1>4 DEF OfStage, OfUpload, OfTake, Exclusive, Shared, Gap, Insertion, RecordingRow,
         VideoRow, FinalizedRow, TakeTables
  <2> QED
    BY <1>5, <1>6, <1>7, <1>8, <2>1
<1> QED
  BY <1>6, <1>9 DEF Shared

\* In a deadlock without the event of a lost input and the deletion of a connection all
\* stage recordings or force a deletion.
LEMMA KnownDeadlocks ==
  ASSUME Inv, NEW S \in Deadlocks, \A x \in S : x.kind \notin {"lost", "deletion"}
  PROVE  \A x \in S : x.kind \in {"stage", "forced_delete"}
<1>1. /\ S \subseteq Running
      /\ \A x \in S : \E y \in S \ {x} : Waits(x, y)
      /\ \A y \in S : \E x \in S \ {y} : Waits(x, y)
  BY Knots
<1>2. \A x \in S : x \in Running /\ x \in Transactions /\ held[x] # {}
  BY <1>1 DEF Waits, Inv, TypeOK
<1>3. \A x \in S : x.kind \notin {"connected", "provisioned", "started", "failed", "upload"}
  BY <1>1, <1>2, EventsWaitFirst, TakesWaitFirst
<1>4. \A x \in S : x.kind = "stage" \/ x.kind \in SessionKinds
  BY <1>2, <1>3, TransactionShape DEF EventKinds, TakeKinds
<1>5. \A x, y \in S : x.kind \in SessionKinds /\ y.kind \in SessionKinds => x = y
  BY <1>2, HoldsFirst, OneHolder DEF Inv
<1>6. ASSUME NEW y \in S, y.kind \in SessionKinds
      PROVE  y.kind = "forced_delete"
  <2>1. PICK x \in S \ {y} : Waits(x, y)
    BY <1>1
  <2> DEFINE c == x.cameras[1]
  <2>2. x.kind = "stage" /\ c \in Cameras
    BY <1>2, <1>4, <1>5, <1>6, TransactionShape DEF TakeKinds
  <2>3. PICK other \in held[y] : other.on = IdentityRow(c) /\ other.mode = "X"
    BY <1>2, <1>6, <2>1, <2>2, StageWaits
  <2>4. InOrder(held[y], other, y, ExistingTakes) /\ other.on[1] = "camera_identities"
        /\ other.on[3] = c
    BY <1>2, <2>3 DEF Inv, LocksInOrder, IdentityRow
  <2>5. y.kind # "finish"
    BY <2>3, <2>4 DEF InOrder
  <2>6. y.kind \notin {"start", "create"}
    <3>1. x.take \in ExistingTakes /\ HoldsX(held[x], TakeRow(x.take))
      BY <1>2, <2>2, HoldsFirst DEF Inv, StagedTakesExist, TakeKinds
    <3>2. ~ HoldsX(held[y], TakeRow(x.take))
      BY <1>2, <2>1, <3>1, OneHolder DEF Inv
    <3> QED
      BY <2>4, <3>1, <3>2 DEF InOrder
  <2>7. y.kind # "delete"
    <3> SUFFICES ASSUME y.kind = "delete" PROVE FALSE
      OBVIOUS
    <3>1. y.cameras[1] = c
      BY <2>4 DEF InOrder
    <3>2. HoldsX(held[y], IdentityRow(c)) /\ HoldsX(held[y], SessionRow)
      BY <1>2, <1>6, <2>3, HoldsFirst DEF Inv, HoldsX
    <3>3. PICK z \in S \ {y} : Waits(y, z)
      BY <1>1
    <3>4. PICK lock \in NextLocks(y), kept \in held[z] : Conflicts(lock, kept)
      BY <3>3 DEF Waits
    <3>5. ~ (y \in DOMAIN seen /\ seen[y] # {})
      BY DEF Inv, ReadsHold, DeletionReadHolds
    <3>6. /\ ~ Covers(held[y], lock)
          /\ \E name \in {SessionRow, IdentityRow(c), ConnectionRow(c)} : lock = Exclusive(name)
      BY <1>2, <3>1, <3>5, AskedOfDelete DEF IsDeletion
    <3>7. lock = Exclusive(ConnectionRow(c))
      BY <3>2, <3>6, CoversExclusive
    <3>8. kept.on = ConnectionRow(c)
      BY <3>4, <3>7 DEF Conflicts, Exclusive
    <3>9. HoldsX(held[z], IdentityRow(c))
      BY <1>2, <3>8, ConnectionHolder DEF Inv
    <3> QED
      BY <1>2, <3>2, <3>3, <3>9, OneHolder DEF Inv
  <2> QED
    BY <1>6, <2>5, <2>6, <2>7 DEF SessionKinds
<1> QED
  BY <1>4, <1>6

\* Whatever the takes, the cameras and the number of transactions, a deadlock is among
\* those whose loser is known: it has an event of a lost input or the deletion of a
\* connection in it, or all that stage recordings or force a deletion.
THEOREM DeadlocksKnown == Spec => []DeadlocksAreKnown
<1>1. Inv => DeadlocksAreKnown
  BY KnownDeadlocks DEF DeadlocksAreKnown
<1> QED
  BY <1>1, Invariant, PTL

-----------------------------------------------------------------------------
(* Someone gets on.                                                        *)

\* Numbers have a least one: it is one less than the number of their lower bounds.
LEMMA LeastNumber ==
  ASSUME NEW T \in SUBSET Nat, T # {}
  PROVE  \E n \in T : \A m \in T : n <= m
<1>0. PICK t \in T : t \in Nat
  OBVIOUS
<1> DEFINE B == {n \in 0 .. t : \A m \in T : n <= m}
           k == Cardinality(B)
<1>1. IsFiniteSet(B) /\ k \in Nat
  <2>1. B \in SUBSET (0 .. t) /\ IsFiniteSet(0 .. t)
    BY <1>0, FS_Interval
  <2> HIDE DEF B
  <2> QED
    BY <2>1, FS_Subset, FS_CardinalityType
<1>2. ASSUME NEW i \in Nat, i \notin B PROVE k <= i
  <2>1. \A n \in B : n <= i - 1
    BY <1>0, <1>2
  <2>2. B \subseteq 0 .. i - 1
    BY <1>0, <2>1
  <2>3. IsFiniteSet(0 .. i - 1) /\ Cardinality(0 .. i - 1) = i
    BY FS_Interval
  <2> HIDE DEF B
  <2> QED
    BY <2>2, <2>3, FS_Subset
<1>3. ASSUME NEW i \in B PROVE i < k
  <2>1. 0 .. i \subseteq B
    BY <1>0
  <2>2. IsFiniteSet(0 .. i) /\ Cardinality(0 .. i) = i + 1 /\ i \in Nat
    BY <1>0, FS_Interval
  <2> HIDE DEF B
  <2> QED
    BY <1>1, <2>1, <2>2, FS_Subset
<1>4. 0 \in B
  BY <1>0
<1>5. k - 1 \in Nat /\ k - 1 \in B /\ k \notin B
  <2> HIDE DEF B
  <2>1. k \in Nat /\ k - 1 \in Nat
    BY <1>1, <1>3, <1>4
  <2> HIDE DEF k
  <2> QED
    BY <2>1, <1>2, <1>3
<1>6. PICK m \in T : ~ (k <= m)
  <2> HIDE DEF k
  <2>1. k - 1 <= t
    BY <1>5
  <2> QED
    BY <1>0, <1>1, <1>5, <2>1
<1>7. m = k - 1
  <2> HIDE DEF k
  <2> QED
    BY <1>0, <1>1, <1>5, <1>6
<1> HIDE DEF k
<1> QED
  BY <1>0, <1>1, <1>5, <1>7

\* A family of finite sets has one that contains no other.
LEMMA MinimalSet ==
  ASSUME NEW S, IsFiniteSet(S), NEW F, F \subseteq SUBSET S, F # {}
  PROVE  \E K \in F : \A L \in F : L \subseteq K => L = K
<1> DEFINE sizes == {Cardinality(K) : K \in F}
<1>1. \A K \in F : IsFiniteSet(K) /\ Cardinality(K) \in Nat
  BY FS_Subset, FS_CardinalityType
<1>2. sizes \in SUBSET Nat /\ sizes # {}
  BY <1>1
<1>3. PICK n \in sizes : \A m \in sizes : n <= m
  <2> HIDE DEF sizes
  <2> QED
    BY <1>2, LeastNumber
<1>4. PICK K \in F : n = Cardinality(K)
  BY <1>3
<1>5. ASSUME NEW L \in F, L \subseteq K, L # K PROVE FALSE
  <2>1. Cardinality(L) < Cardinality(K)
    BY <1>1, <1>5, FS_Subset
  <2> QED
    BY <1>1, <1>3, <1>4, <2>1
<1> QED
  BY <1>5

LEMMA QueriesType ==
  ASSUME NEW x \in Transactions, x \in DOMAIN seen => seen[x] \subseteq Takes
  PROVE  Queries(x) \in Programs
<1> DEFINE t == x.take
           c == x.cameras[1]
<1>1. CASE x.kind = "start"
  <2>1. t \in Takes /\ x.cameras \in Seq(Cameras)
    BY <1>1, TransactionShape
  <2>2. Queries(x) = (<<GetSessionForUpdate>> \o CamerasForUpdate(x.cameras))
                       \o <<TakeInserted(t, x.cameras)>>
    BY <1>1 DEF Queries, StartTake, CamerasForUpdate, TakeInserted
  <2> QED
    BY <2>1, <2>2, StartType DEF Programs
<1>2. CASE x.kind = "finish"
  <2>1. (IF OngoingTakes = {} THEN <<>> ELSE ReplaceOngoing(OngoingTake)) \in Among(RowLock)
    BY FinishType, OngoingTakeType, AmongNone
  <2> QED
    BY <1>2, <2>1, FinishType DEF Queries, FinishTake, Programs
<1>3. CASE x.kind \in CameraKinds
  <2>1. c \in Cameras
    BY <1>3, TransactionShape
  <2>2. /\ EachUpload(x, c) \in Programs /\ EachRecording(x, c) \in Programs
        /\ (IF x \in DOMAIN seen THEN <<SaveCameraConnection(c)>> ELSE <<>>) \in Programs
    BY <2>1, EachRead, CameraQueriesType DEF Programs
  <2>3. CASE x.kind \in {"delete", "forced_delete"}
    <3>1. Queries(x) = (<<GetCameraForUpdate(c)>> \o EachUpload(x, c))
                         \o (IF x \in DOMAIN seen THEN <<SaveCameraConnection(c)>> ELSE <<>>)
      BY <2>3 DEF Queries, DeleteCamera, EachUpload
    <3> QED
      BY <2>1, <2>2, <3>1, CameraQueriesType DEF Programs
  <2>4. CASE x.kind \in {"connected", "lost"}
    <3>1. Queries(x) = <<GetCameraByIdForUpdate(c), SaveCameraConnection(c)>> \o EachRecording(x, c)
      BY <2>4 DEF Queries, ProcessEvent, EachRecording
    <3> QED
      BY <2>1, <2>2, <3>1, CameraQueriesType DEF Programs
  <2>5. CASE x.kind \in {"create", "provisioned", "deletion"}
    BY <2>1, <2>5, CameraQueriesType, SessionQueryType DEF Queries, Programs
  <2> QED
    BY <1>3, <2>3, <2>4, <2>5 DEF CameraKinds
<1>4. CASE x.kind \in TakeKinds
  <2>1. t \in Takes /\ c \in Cameras
    BY <1>4, TransactionShape
  <2> QED
    BY <1>4, <2>1, TakeQueriesType DEF Queries, TakeKinds, Programs
<1> QED
  BY <1>1, <1>2, <1>3, <1>4, TransactionShape DEF SessionKinds, EventKinds, TakeKinds, CameraKinds

\* A query that is not through asks for a lock.
LEMMA UnlessThrough ==
  ASSUME NEW own, NEW S, NEW query \in Seq(S), ~ IsThrough(own, query)
  PROVE  NextOf(own, query) # {}
<1> DEFINE T == {i \in DOMAIN query : Missing(own, query[i]) # {}}
<1>1. Len(query) \in Nat /\ DOMAIN query = 1 .. Len(query)
  OBVIOUS
<1>2. T \in SUBSET Nat /\ T # {}
  <2>1. \E i \in DOMAIN query : Missing(own, query[i]) # {}
    BY DEF IsThrough
  <2>2. T # {}
    BY <2>1
  <2>3. T \subseteq DOMAIN query
    OBVIOUS
  <2>4. DOMAIN query \subseteq Nat
    BY <1>1
  <2> HIDE DEF T
  <2> QED
    BY <2>2, <2>3, <2>4
<1>3. PICK i \in T : \A j \in T : i <= j
  <2> HIDE DEF T
  <2> QED
    BY <1>2, LeastNumber
<1>4. \A k \in 1 .. i - 1 : Missing(own, query[k]) = {}
  BY <1>1, <1>3
<1> QED
  BY <1>3, <1>4 DEF NextOf

\* A transaction that has not all its locks asks for one.
LEMMA AsksUnlessAll ==
  ASSUME NEW x \in Transactions, x \in DOMAIN seen => seen[x] \subseteq Takes, ~ HasAllLocks(x)
  PROVE  NextLocks(x) # {}
<1> DEFINE queries == Queries(x)
           own == held[x]
           T == {i \in DOMAIN queries : ~ IsThrough(own, queries[i])}
<1>1. queries \in Programs
  BY QueriesType
<1> HIDE DEF queries
<1>2. /\ Len(queries) \in Nat /\ DOMAIN queries = 1 .. Len(queries)
      /\ \A i \in DOMAIN queries : queries[i] \in Seq(SUBSET RowLock)
  BY <1>1 DEF Programs, Among
<1>3. T \in SUBSET Nat /\ T # {}
  BY <1>2 DEF HasAllLocks, queries
<1>4. PICK i \in T : \A j \in T : i <= j
  <2> HIDE DEF T
  <2> QED
    BY <1>3, LeastNumber
<1>5. \A k \in 1 .. i - 1 : IsThrough(own, queries[k])
  BY <1>2, <1>4
<1>6. NextOf(own, queries[i]) # {}
  BY <1>2, <1>4, UnlessThrough
<1> QED
  BY <1>4, <1>5, <1>6 DEF NextLocks, queries

\* The transaction gets its next lock, or has all it asks for.
GetsOn(x) ==
  \/ HasAllLocks(x)
  \/ \E lock \in NextLocks(x) : Holders(x, lock) = {}

\* Where everyone waits for someone, the smallest set that waits for itself is a deadlock.
LEMMA AllWait ==
  ASSUME Inv, Running # {}, \A x \in Running : Blockers(x) # {}
  PROVE  Deadlocks # {}
<1> DEFINE blockers == [x \in Running |-> Blockers(x)]
           waiting == {x \in Running : blockers[x] # {}}
           knots == {K \in (SUBSET waiting) \ {{}} : \A x \in K : blockers[x] \cap K # {}}
<1>0. Deadlocks = {L \in knots : \A K \in knots : K \subseteq L => K = L}
  BY Zenon DEF Deadlocks
<1>1. waiting = Running
  OBVIOUS
<1>2. \A x \in Running : Blockers(x) \subseteq Running
  BY DEF Blockers, Holders
<1>3. Running \in knots
  BY <1>1, <1>2
<1>4. IsFiniteSet(Running) /\ knots \subseteq SUBSET Running /\ knots # {}
  BY <1>1, <1>3 DEF Inv
<1>5. PICK K \in knots : \A L \in knots : L \subseteq K => L = K
  <2> HIDE DEF knots
  <2> QED
    BY <1>4, MinimalSet
<1> HIDE DEF knots
<1> QED
  BY <1>0, <1>5

LEMMA SomeoneGetsOn ==
  ASSUME Inv, Running # {}
  PROVE  (\E x \in Running : GetsOn(x)) \/ Deadlocks # {}
<1>1. ASSUME NEW x \in Running, ~ GetsOn(x) PROVE Blockers(x) # {}
  <2>1. x \in Transactions /\ (x \in DOMAIN seen => seen[x] \subseteq Takes)
    BY DEF Inv, TypeOK
  <2>2. NextLocks(x) # {}
    BY <1>1, <2>1, AsksUnlessAll DEF GetsOn
  <2>3. \A lock \in NextLocks(x) : Holders(x, lock) # {}
    BY <1>1 DEF GetsOn
  <2> QED
    BY <2>2, <2>3 DEF Blockers
<1> QED
  BY <1>1, AllWait

\* While transactions run, one gets on, or a deadlock is there for InnoDB to break.
WaitsEnd == Running # {} => (\E x \in Running : GetsOn(x)) \/ Deadlocks # {}

\* Among transactions none of which is an event of a lost input, the deletion of a
\* connection or one that stages or forces, one gets on.
PlainGetOn ==
  Running # {} /\ (\A x \in Running : x.kind \notin {"lost", "deletion", "stage", "forced_delete"})
    => \E x \in Running : GetsOn(x)

\* Transactions never wait for each other without InnoDB having one to roll back: what
\* the queries of kinugasa-mysql lock, in the order the use cases run them, leaves one
\* that gets its next lock, or has all, or a deadlock.
THEOREM WaitsAlwaysEnd == Spec => []WaitsEnd
<1>1. Inv => WaitsEnd
  BY SomeoneGetsOn DEF WaitsEnd
<1> QED
  BY <1>1, Invariant, PTL

\* Creating, starting, finishing, failing, completing and deleting unforced never stop
\* each other (start_take, finish_take, persist_recording_failure, persist_upload_result):
\* however many of these transactions run, one gets on without any being rolled back.
THEOREM PlainAlwaysGetOn == Spec => []PlainGetOn
<1>1. Inv => PlainGetOn
  <2> SUFFICES ASSUME Inv, Running # {}, NEW S \in Deadlocks,
                      \A x \in Running : x.kind \notin {"lost", "deletion", "stage", "forced_delete"}
               PROVE  FALSE
    BY SomeoneGetsOn DEF PlainGetOn
  <2>1. S \subseteq Running /\ S # {}
    <3> DEFINE blockers == [x \in Running |-> Blockers(x)]
               waiting == {x \in Running : blockers[x] # {}}
               knots == {K \in (SUBSET waiting) \ {{}} : \A x \in K : blockers[x] \cap K # {}}
    <3>1. Deadlocks \subseteq knots
      BY Zenon DEF Deadlocks
    <3> QED
      BY <3>1
  <2>2. DeadlocksAreKnown
    BY KnownDeadlocks DEF DeadlocksAreKnown
  <2> QED
    BY <2>1, <2>2 DEF DeadlocksAreKnown
<1> QED
  BY <1>1, Invariant, PTL

-----------------------------------------------------------------------------
(* What is planned: the locks that the queries of a transaction take.      *)

\* A lock that a query, or one of a sequence of queries, takes at some time.
Mentions(query, lock) == \E j \in DOMAIN query : lock \in query[j]
Plans(queries, lock)  == \E i \in DOMAIN queries : Mentions(queries[i], lock)

LEMMA MentionsBoth ==
  ASSUME NEW S, NEW p \in Seq(S), NEW q \in Seq(S), NEW lock
  PROVE  Mentions(p \o q, lock) <=> Mentions(p, lock) \/ Mentions(q, lock)
<1> DEFINE m == Len(p)
           n == Len(q)
           r == p \o q
<1>1. /\ m \in Nat /\ n \in Nat
      /\ DOMAIN p = 1 .. m /\ DOMAIN q = 1 .. n /\ DOMAIN r = 1 .. m + n
      /\ \A i \in 1 .. m : r[i] = p[i]
      /\ \A i \in 1 .. n : r[m + i] = q[i]
      /\ \A i \in 1 .. m + n : i \notin 1 .. m => i - m \in 1 .. n /\ r[i] = q[i - m]
  BY Indices
<1> HIDE DEF m, n, r
<1>2. Mentions(p, lock) => Mentions(r, lock)
  BY <1>1 DEF Mentions
<1>3. Mentions(q, lock) => Mentions(r, lock)
  <2>1. \A i \in 1 .. n : m + i \in 1 .. m + n
    BY <1>1
  <2> QED
    BY <1>1, <2>1 DEF Mentions
<1>4. Mentions(r, lock) => Mentions(p, lock) \/ Mentions(q, lock)
  BY <1>1 DEF Mentions
<1> QED
  BY <1>2, <1>3, <1>4 DEF r

LEMMA PlansBoth ==
  ASSUME NEW S, NEW p \in Seq(S), NEW q \in Seq(S), NEW lock
  PROVE  Plans(p \o q, lock) <=> Plans(p, lock) \/ Plans(q, lock)
<1> DEFINE m == Len(p)
           n == Len(q)
           r == p \o q
<1>1. /\ m \in Nat /\ n \in Nat
      /\ DOMAIN p = 1 .. m /\ DOMAIN q = 1 .. n /\ DOMAIN r = 1 .. m + n
      /\ \A i \in 1 .. m : r[i] = p[i]
      /\ \A i \in 1 .. n : r[m + i] = q[i]
      /\ \A i \in 1 .. m + n : i \notin 1 .. m => i - m \in 1 .. n /\ r[i] = q[i - m]
  BY Indices
<1> HIDE DEF m, n, r
<1>2. Plans(p, lock) => Plans(r, lock)
  BY <1>1 DEF Plans
<1>3. Plans(q, lock) => Plans(r, lock)
  <2>1. \A i \in 1 .. n : m + i \in 1 .. m + n
    BY <1>1
  <2> QED
    BY <1>1, <2>1 DEF Plans
<1>4. Plans(r, lock) => Plans(p, lock) \/ Plans(q, lock)
  BY <1>1 DEF Plans
<1> QED
  BY <1>2, <1>3, <1>4 DEF r

LEMMA PlansFew ==
  ASSUME NEW A, NEW B, NEW lock
  PROVE  /\ ~ Plans(<<>>, lock) /\ ~ Mentions(<<>>, lock)
         /\ Plans(<<A>>, lock) <=> Mentions(A, lock)
         /\ Plans(<<A, B>>, lock) <=> Mentions(A, lock) \/ Mentions(B, lock)
         /\ Mentions(<<A>>, lock) <=> lock \in A
         /\ Mentions(<<A, B>>, lock) <=> lock \in A \/ lock \in B
BY DEF Plans, Mentions

LEMMA PlansPair ==
  ASSUME NEW A, NEW B, NEW lock
  PROVE  Plans(<<<<A, B>>>>, lock) <=> lock \in A \/ lock \in B
<1> DEFINE Q == <<A, B>>
<1>1. Mentions(Q, lock) <=> lock \in A \/ lock \in B
  BY PlansFew
<1> HIDE DEF Q
<1>2. Plans(<<Q>>, lock) <=> Mentions(Q, lock)
  BY PlansFew
<1> QED
  BY <1>1, <1>2 DEF Q

\* What is asked for is planned.
LEMMA AskedIsPlanned ==
  ASSUME NEW x, NEW lock \in NextLocks(x)
  PROVE  Plans(Queries(x), lock)
<1>1. PICK i \in DOMAIN Queries(x) : lock \in NextOf(held[x], Queries(x)[i])
  BY AskedBy
<1> DEFINE query == Queries(x)[i]
<1>2. PICK j \in DOMAIN query : lock \in Missing(held[x], query[j])
  BY <1>1 DEF NextOf
<1> QED
  BY <1>2 DEF Missing, Plans, Mentions

-----------------------------------------------------------------------------
(* What the others leave to a transaction by its locks.                    *)

\* The rows of a take are left as they are.
TakeStays(t) ==
  /\ take'[t] = take[t] /\ row'[t] = row[t] /\ video'[t] = video[t]
  /\ \A c \in Cameras : <<t, c>> \in finalized' <=> <<t, c>> \in finalized

ConnectionStays(c) == conn'[c] = conn[c] /\ (c \in deleting' <=> c \in deleting)

LEMMA SaveTakesElsewhere ==
  ASSUME TakeRowsType, NEW rows, NEW videos, SaveTakes(rows, videos),
         NEW t \in Takes, rows[t] = row[t], videos[t] = video[t]
  PROVE  take'[t] = take[t] /\ row'[t] = row[t] /\ video'[t] = video[t]
BY DEF SaveTakes, TakeRowsType

LEMMA FailureElsewhere ==
  ASSUME TakeRowsType, NEW t \in Takes, NEW c, NEW reason, PersistRecordingFailure(t, c, reason),
         NEW u \in Takes, u # t
  PROVE  take'[u] = take[u] /\ row'[u] = row[u] /\ video'[u] = video[u]
<1> DEFINE rows == IF row[t][c] = "recording" THEN [row EXCEPT ![t][c] = reason] ELSE row
           videos == IF take[t] = "ongoing" THEN video ELSE [video EXCEPT ![t][c] = reason]
<1>1. CASE UNCHANGED takeRows
  BY <1>1 DEF takeRows
<1>2. CASE SaveTakes(rows, videos)
  <2>1. rows[u] = row[u] /\ videos[u] = video[u]
    BY DEF TakeRowsType
  <2> HIDE DEF rows, videos
  <2> QED
    BY <1>2, <2>1, SaveTakesElsewhere
<1> QED
  BY <1>1, <1>2 DEF PersistRecordingFailure

LEMMA UploadElsewhere ==
  ASSUME TakeRowsType, NEW t \in Takes, NEW c, NEW outcome, PersistUploadResult(t, c, outcome),
         NEW u \in Takes, u # t
  PROVE  take'[u] = take[u] /\ row'[u] = row[u] /\ video'[u] = video[u]
<1> DEFINE videos == [video EXCEPT ![t][c] = outcome]
<1>1. CASE UNCHANGED takeRows
  BY <1>1 DEF takeRows
<1>2. CASE SaveTakes(row, videos)
  <2>1. videos[u] = video[u]
    BY DEF TakeRowsType
  <2> HIDE DEF videos
  <2> QED
    BY <1>2, <2>1, SaveTakesElsewhere
<1> QED
  BY <1>1, <1>2 DEF PersistUploadResult

\* A query that is through has locked the take it locks first.
LEMMA ThroughTake ==
  ASSUME NEW own, NEW t, NEW locks, NEW query \in TakeFirst(t, locks), IsThrough(own, query)
  PROVE  HoldsX(own, TakeRow(t))
<1>1. query \in Seq(SUBSET locks) /\ query # <<>> /\ query[1] = {Exclusive(TakeRow(t))}
  BY DEF TakeFirst, Among
<1>2. 1 \in DOMAIN query
  BY <1>1
<1>3. Missing(own, {Exclusive(TakeRow(t))}) = {}
  BY <1>1, <1>2 DEF IsThrough
<1> QED
  BY <1>3, MissingOne

LEMMA AllOfTake ==
  ASSUME NEW x \in Transactions, x.kind \in TakeKinds, HasAllLocks(x)
  PROVE  HoldsX(held[x], TakeRow(x.take))
<1> DEFINE t == x.take
           c == x.cameras[1]
<1>1. c \in Cameras
  BY TransactionShape
<1>2. PICK query : /\ Queries(x) = <<query>>
                   /\ query \in TakeFirst(t, OfStage(t, c))
  <2>1. /\ OfTake(t) \subseteq OfStage(t, c) /\ OfUpload(t) \subseteq OfStage(t, c)
    BY DEF OfStage, OfUpload
  <2>2. /\ PersistRecordingStarted(t, c) \in TakeFirst(t, OfStage(t, c))
        /\ FailRecording(t, c) \in TakeFirst(t, OfStage(t, c))
        /\ StageFinalized(t, c) \in TakeFirst(t, OfStage(t, c))
        /\ PersistUpload(t, c) \in TakeFirst(t, OfStage(t, c))
    BY <1>1, <2>1, TransactionsOfTake, UploadOfTake, StageOfTake, TakeFirstMore
  <2> QED
    BY <2>2 DEF Queries, TakeKinds, IsDeletion
<1>3. IsThrough(held[x], query)
  BY <1>2 DEF HasAllLocks
<1> QED
  BY <1>2, <1>3, ThroughTake

LEMMA EachIsThere ==
  ASSUME NEW x \in DOMAIN seen, NEW c \in Cameras, seen[x] \subseteq Takes, NEW t \in seen[x]
  PROVE  /\ \E i \in DOMAIN EachUpload(x, c) : EachUpload(x, c)[i] = FailUpload(t, c)
         /\ \E i \in DOMAIN EachRecording(x, c) : EachRecording(x, c)[i] = FailRecording(t, c)
<1> DEFINE takes == SetToSeq(seen[x])
<1>1. IsFiniteSet(seen[x])
  BY FinitenessAssumption, FS_Subset
<1>2. PICK i \in DOMAIN takes : takes[i] = t
  BY <1>1, SetToSeqType
<1>3. /\ EachUpload(x, c) = [k \in DOMAIN takes |-> FailUpload(takes[k], c)]
      /\ EachRecording(x, c) = [k \in DOMAIN takes |-> FailRecording(takes[k], c)]
  BY DEF OnEachRead, EachUpload, EachRecording
<1> HIDE DEF takes
<1> QED
  BY <1>2, <1>3

LEMMA ThroughOne ==
  ASSUME NEW own, NEW A
  PROVE  IsThrough(own, <<A>>) <=> Missing(own, A) = {}
BY DEF IsThrough

\* A deletion, or an event, that has all its locks is through with each take it has read.
LEMMA AllOfReads ==
  ASSUME NEW x \in Transactions, IsDeletion(x) \/ x.kind = "lost", HasAllLocks(x),
         x \in DOMAIN seen, seen[x] \subseteq Takes, NEW t \in seen[x]
  PROVE  LET c == x.cameras[1] IN
         /\ IsDeletion(x) => IsThrough(held[x], FailUpload(t, c))
         /\ x.kind = "lost" => IsThrough(held[x], FailRecording(t, c))
         /\ HoldsX(held[x], TakeRow(t))
<1> DEFINE own == held[x]
           c == x.cameras[1]
           ups == EachUpload(x, c)
           recs == EachRecording(x, c)
           p == <<GetCameraForUpdate(c)>>
           q == <<GetCameraByIdForUpdate(c), SaveCameraConnection(c)>>
           last == <<SaveCameraConnection(c)>>
<1>1. c \in Cameras
  BY TransactionShape DEF CameraKinds, IsDeletion
<1>2. ups \in Programs /\ recs \in Programs
  BY <1>1, EachRead
<1>3. p \in Programs /\ q \in Programs /\ last \in Programs
  BY <1>1, CameraQueriesType DEF Programs
<1>4. AllThrough(own, Queries(x))
  <2> HIDE DEF ups, recs, p, q, last, c
  <2> QED
    BY ZenonT(60), AllLocksThrough
<1>5. /\ IsDeletion(x) => Queries(x) = (p \o ups) \o last
      /\ x.kind = "lost" => Queries(x) = q \o recs
  BY ZenonT(60) DEF Queries, DeleteCamera, ProcessEvent, IsDeletion, EachUpload, EachRecording
<1> HIDE DEF ups, recs, p, q, last, own
<1>6. ASSUME IsDeletion(x) PROVE AllThrough(own, ups)
  <2>1. p \o ups \in Programs
    BY <1>2, <1>3 DEF Programs
  <2>2. AllThrough(own, (p \o ups) \o last)
    BY <1>4, <1>5, <1>6
  <2>3. AllThrough(own, p \o ups)
    BY <1>3, <2>1, <2>2, ThroughEach
  <2> QED
    BY <1>2, <1>3, <2>3, ThroughEach
<1>7. ASSUME x.kind = "lost" PROVE AllThrough(own, recs)
  <2>1. AllThrough(own, q \o recs)
    BY <1>4, <1>5, <1>7
  <2> QED
    BY <1>2, <1>3, <2>1, ThroughEach
<1>8. /\ IsDeletion(x) => IsThrough(own, FailUpload(t, c))
      /\ x.kind = "lost" => IsThrough(own, FailRecording(t, c))
  BY <1>1, <1>6, <1>7, EachIsThere DEF AllThrough, own, ups, recs
<1>9. HoldsX(own, TakeRow(t))
  BY <1>1, <1>8, TransactionsOfTake, ThroughTake DEF own
<1> QED
  BY <1>8, <1>9 DEF own

LEMMA AllOfInsertion ==
  ASSUME NEW x \in Transactions, x.kind = "start", HasAllLocks(x),
         \A c \in ToSet(x.cameras) : IsReady(c)
  PROVE  HoldsX(held[x], TakeRow(x.take))
<1> DEFINE own == held[x]
           t == x.take
           cs == x.cameras
           C == ToSet(cs)
           first == <<GetSessionForUpdate>> \o CamerasForUpdate(cs)
           last == <<TakeInserted(t, cs)>>
<1>1. t \in Takes /\ cs \in Seq(Cameras)
  BY TransactionShape
<1>2. first \in Programs /\ last \in Programs
  <2>1. /\ CamerasForUpdate(cs) \in Programs /\ <<GetSessionForUpdate>> \in Programs
        /\ last \in Programs
    BY <1>1, StartType
  <2> QED
    BY <2>1 DEF Programs
<1>3. Queries(x) = first \o last
  BY DEF Queries, StartTake, CamerasForUpdate, TakeInserted
<1>4. AllThrough(own, Queries(x))
  BY AllLocksThrough
<1> HIDE DEF first
<1>5. AllThrough(own, last)
  <2> HIDE DEF last, own
  <2>1. AllThrough(own, first \o last)
    BY <1>3, <1>4
  <2> QED
    BY <1>2, <2>1, ThroughEach
<1>6. IsThrough(own, InsertOngoingTakeRows(t, C))
  BY <1>5, AsksOne DEF TakeInserted
<1>7. Missing(own, {Exclusive(TakeRow(t))}) = {}
  <2> DEFINE A == {Shared(SessionRow)}
             B == {Exclusive(TakeRow(t))}
             D == UNION {{Shared(IdentityRow(c)), Shared(ConnectionRow(c))} : c \in C}
             F == {Exclusive(RecordingRow(t, c)) : c \in C}
  <2>1. IsThrough(own, <<A, B, D, F>>)
    BY <1>6 DEF InsertOngoingTakeRows
  <2> HIDE DEF A, B, D, F
  <2>2. Missing(own, B) = {}
    BY <2>1 DEF IsThrough
  <2> QED
    BY <2>2 DEF B
<1> QED
  BY <1>7, MissingOne

LEMMA AllOfCreation ==
  ASSUME NEW x, x.kind = "create", HasAllLocks(x)
  PROVE  HoldsX(held[x], ConnectionRow(x.cameras[1]))
<1> DEFINE own == held[x]
           c == x.cameras[1]
<1>1. Queries(x) = <<GetSessionForUpdate, CreateCameraRows(c)>>
  BY DEF Queries
<1>2. AllThrough(own, Queries(x))
  BY AllLocksThrough
<1>3. IsThrough(own, CreateCameraRows(c))
  BY <1>1, <1>2, AsksTwo
<1>4. Missing(own, {Exclusive(ConnectionRow(c))}) = {}
  <2> DEFINE A == {Shared(SessionRow)}
             B == {Exclusive(IdentityRow(c))}
             D == {Exclusive(ConnectionRow(c))}
  <2>1. IsThrough(own, <<A, B, D>>)
    BY <1>3 DEF CreateCameraRows
  <2> HIDE DEF A, B, D
  <2>2. Missing(own, D) = {}
    BY <2>1 DEF IsThrough
  <2> QED
    BY <2>2 DEF D
<1> QED
  BY <1>4, MissingOne

\* finish_take has locked every take, and the rows of the ongoing one.
LEMMA AllOfEnding ==
  ASSUME NEW x, x.kind = "finish", HasAllLocks(x)
  PROVE  /\ \A u \in ExistingTakes : HoldsX(held[x], TakeRow(u))
         /\ OngoingTakes # {} =>
              \A c \in RowsOf(OngoingTake) : HoldsX(held[x], RecordingRow(OngoingTake, c))
<1> DEFINE own == held[x]
           o == OngoingTake
           second == IF OngoingTakes = {} THEN <<>> ELSE ReplaceOngoing(o)
<1>1. Queries(x) = <<GetOngoingTakeForUpdate, second>>
  BY DEF Queries, FinishTake
<1>2. AllThrough(own, Queries(x))
  BY AllLocksThrough
<1>3. IsThrough(own, GetOngoingTakeForUpdate) /\ IsThrough(own, second)
  <2> HIDE DEF second
  <2> QED
    BY <1>1, <1>2, AsksTwo
<1>4. IsThrough(own, GetSessionForUpdate) /\ IsThrough(own, OngoingRows)
  BY <1>3, FinishType, SessionQueryType, ThroughBoth
     DEF GetOngoingTakeForUpdate, GetSessionForUpdate, OngoingRows
<1>5. ASSUME OngoingTakes # {}
      PROVE  \A c \in RowsOf(o) : HoldsX(own, RecordingRow(o, c))
  <2>1. IsThrough(own, LoadRecordingCameras(o))
    BY <1>4, <1>5 DEF OngoingRows
  <2>2. Missing(own, {Exclusive(RecordingRow(o, c)) : c \in RowsOf(o)}) = {}
    BY <2>1, ThroughOne DEF LoadRecordingCameras
  <2> QED
    BY <2>2, CoversExclusive DEF Missing
<1> QED
  BY <1>4, <1>5, GetSessionThrough

\* A commit changes a take only by who has locked its row.
LEMMA CommitKeepsTake ==
  ASSUME Inv, NEW y \in Running, HasAllLocks(y), ~ MustRead(y), Commits(y),
         NEW t \in Takes, ~ HoldsX(held[y], TakeRow(t))
  PROVE  TakeStays(t)
<1> DEFINE c == y.cameras[1]
           u == y.take
<1>1. /\ y \in Transactions /\ TakeRowsType /\ RowsAreRegular
      /\ y \in DOMAIN seen => seen[y] \subseteq Takes
  BY StoreRowsType DEF Inv, TypeOK
<1>2. CASE y.kind \in TakeKinds
  <2>1. u \in Takes /\ c \in Cameras /\ u # t
    BY <1>1, <1>2, TransactionShape, AllOfTake
  <2>2. CASE y.kind = "stage"
    <3>1. StageFinalizedRecording(u, c) /\ UNCHANGED takeRows
      BY <2>2 DEF Commits, IsDeletion
    <3> QED
      BY <2>1, <3>1 DEF StageFinalizedRecording, TakeStays, takeRows
  <2>3. CASE y.kind # "stage"
    <3>1. /\ UNCHANGED finalized
          /\ \/ UNCHANGED takeRows
             \/ PersistRecordingFailure(u, c, "media")
             \/ PersistUploadResult(u, c, "completed")
      BY <1>2, <2>3 DEF Commits, TakeKinds, IsDeletion, storeVars, takeRows
    <3>2. take'[t] = take[t] /\ row'[t] = row[t] /\ video'[t] = video[t]
      BY <1>1, <2>1, <3>1, FailureElsewhere, UploadElsewhere DEF takeRows
    <3> QED
      BY <3>1, <3>2 DEF TakeStays
  <2> QED
    BY <2>2, <2>3
<1>3. CASE y.kind = "start"
  <2>1. InsertOngoingTake(u, ToSet(y.cameras)) /\ UNCHANGED finalized /\ u \in Takes
    BY <1>1, <1>3, TransactionShape DEF Commits, IsDeletion
  <2>2. u # t
    BY <1>1, <1>3, <2>1, AllOfInsertion DEF InsertOngoingTake, IsReady
  <2> QED
    BY <1>1, <2>1, <2>2 DEF InsertOngoingTake, TakeStays, TakeRowsType
<1>4. CASE y.kind = "finish"
  <2>1. PICK o \in Takes : FinishOngoingTake(o) /\ UNCHANGED finalized
    BY <1>4 DEF Commits, IsDeletion
  <2> DEFINE videos == [video EXCEPT ![o] = [d \in Cameras |->
               IF row[o][d] = "recording" THEN "uploading" ELSE row[o][d]]]
  <2>2. take[o] = "ongoing" /\ SaveTakes(row, videos)
    BY <2>1 DEF FinishOngoingTake
  <2>3. o # t
    BY <1>4, <2>2, AllOfEnding DEF ExistingTakes
  <2>4. videos[t] = video[t]
    BY <1>1, <2>3 DEF TakeRowsType
  <2> HIDE DEF videos
  <2> QED
    BY <1>1, <2>1, <2>2, <2>4, SaveTakesElsewhere DEF TakeStays
<1>5. CASE IsDeletion(y)
  <2>1. y \in DOMAIN seen /\ CommitDeletion(y, c)
    BY <1>5 DEF MustRead, Commits, IsDeletion
  <2>2. t \notin seen[y]
    BY <1>1, <1>5, <2>1, AllOfReads
  <2> DEFINE videos == [v \in Takes |-> [d \in Cameras |->
               IF d = c /\ v \in seen[y] /\ video[v][d] = "uploading" THEN "forced" ELSE video[v][d]]]
  <2>3. SaveTakes(row, videos) /\ UNCHANGED finalized
    BY <2>1 DEF CommitDeletion
  <2>4. videos[t] = video[t]
    BY <1>1, <2>2 DEF TakeRowsType
  <2> HIDE DEF videos
  <2> QED
    BY <1>1, <2>3, <2>4, SaveTakesElsewhere DEF TakeStays
<1>6. CASE y.kind \in {"connected", "lost"}
  <2> DEFINE state == IF y.kind = "lost" THEN "waiting" ELSE "connected"
  <2>1. CommitInput(y, c, state)
    BY <1>6 DEF Commits, IsDeletion
  <2>2. UNCHANGED finalized
    BY <2>1 DEF CommitInput
  <2>3. CASE UNCHANGED takeRows
    BY <2>2, <2>3 DEF TakeStays, takeRows
  <2>4. CASE ~ UNCHANGED takeRows
    <3> DEFINE reason == IF state = "waiting" THEN "disconnected" ELSE "input"
    <3>1. y \in DOMAIN seen /\ \E v \in seen[y] : PersistRecordingFailure(v, c, reason)
      BY <2>1, <2>4 DEF CommitInput
    <3>2. PICK v \in seen[y] : PersistRecordingFailure(v, c, reason)
      BY <3>1
    <3>3. y.kind = "lost"
      BY <1>6, <3>1 DEF Inv, ReadsHold, IsDeletion
    <3>4. v \in Takes /\ v # t
      BY <1>1, <3>1, <3>3, AllOfReads
    <3> QED
      BY <1>1, <2>2, <3>2, <3>4, FailureElsewhere DEF TakeStays
  <2> QED
    BY <2>3, <2>4
<1>7. CASE y.kind \in {"create", "provisioned", "deletion"}
  BY <1>7 DEF Commits, IsDeletion, TakeStays, takeRows
<1> QED
  BY <1>1, <1>2, <1>3, <1>4, <1>5, <1>6, <1>7, TransactionShape
     DEF SessionKinds, EventKinds, IsDeletion

\* It changes the connection of a camera only by who has locked it.
LEMMA CommitKeepsConnection ==
  ASSUME Inv, NEW y \in Running, HasAllLocks(y), Commits(y),
         NEW c \in Cameras, ~ HoldsX(held[y], ConnectionRow(c))
  PROVE  ConnectionStays(c)
<1> DEFINE d == y.cameras[1]
<1>1. /\ y \in Transactions /\ StoreTypeOK
      /\ y \in DOMAIN seen => seen[y] \subseteq Takes
  BY DEF Inv, TypeOK
<1>2. CASE y.kind \in TakeKinds \cup {"start", "finish"}
  BY <1>2 DEF Commits, TakeKinds, IsDeletion, storeVars, ConnectionStays
<1>3. CASE y.kind \in CameraKinds
  <2>1. HoldsX(held[y], ConnectionRow(d))
    BY <1>1, <1>3, AllOfCreation, AllOfDelete, AllOfEvent, AllOfDeletion
       DEF CameraKinds, EventKinds, IsDeletion
  <2>2. d \in Cameras /\ d # c
    BY <1>1, <1>3, <2>1, TransactionShape
  <2>3. \/ CommitDeletion(y, d)
        \/ InsertCamera(d)
        \/ CommitInput(y, d, "connected")
        \/ CommitInput(y, d, "waiting")
        \/ SaveProvisioned(d)
        \/ DeleteConnection(d)
    BY <1>3 DEF Commits, CameraKinds, IsDeletion
  <2> QED
    BY <1>1, <2>2, <2>3
       DEF CommitDeletion, CommitInput, InsertCamera, SaveProvisioned, DeleteConnection,
           ConnectionStays, StoreTypeOK
<1> QED
  BY <1>1, <1>2, <1>3, TransactionShape DEF SessionKinds, EventKinds, CameraKinds

\* A take that has not begun has no recordings.
RowsHaveTakes == \A t \in Takes, c \in Cameras : take[t] = "absent" => row[t][c] = "none"

LEMMA SaveRemoves ==
  ASSUME NEW t \in Takes, NEW c \in Cameras, NEW rows, NEW videos, SaveTakes(rows, videos),
         rows[t][c] # "none", row'[t][c] = "none"
  PROVE  videos[t] # video[t] /\ \A d \in Cameras : videos[t][d] # "uploading"
BY DEF SaveTakes, Verdict

\* Who settles the last video of a take has locked the recordings that are deleted with it.
LEMMA SettlesLocked ==
  ASSUME NEW own, NEW t, NEW d \in Cameras, IsThrough(own, FailVideoFile(t, d)),
         video[t][d] = "uploading", \A e \in Cameras \ {d} : video[t][e] # "uploading",
         NEW c \in RowsOf(t)
  PROVE  HoldsX(own, RecordingRow(t, c))
<1> DEFINE settled == SaveFinishedTake(t) \o DeleteRecordingCameras(t)
           converged == ListVideoFilesForTakeForUpdate(t) \o settled
           saved == SaveVideoFile(t, d) \o converged
<1>1. /\ SaveFinishedTake(t) \in Among(OfTake(t)) /\ DeleteRecordingCameras(t) \in Among(OfTake(t))
      /\ ListVideoFilesForTakeForUpdate(t) \in Among(OfTake(t))
      /\ SaveVideoFile(t, d) \in Among(OfTake(t)) /\ GetVideoFileForUpdate(t, d) \in Among(OfTake(t))
  BY QueriesOfTake
<1>2. FailVideoFile(t, d) = GetVideoFileForUpdate(t, d) \o saved
  BY DEF FailVideoFile, ConvergeFinishedTake
<1> HIDE DEF settled, converged, saved
<1>3. settled \in Among(OfTake(t)) /\ converged \in Among(OfTake(t)) /\ saved \in Among(OfTake(t))
  BY <1>1, AmongBoth DEF settled, converged, saved
<1>4. IsThrough(own, saved)
  BY ZenonT(60), <1>1, <1>2, <1>3, ThroughBoth
<1>5. IsThrough(own, converged)
  BY <1>1, <1>3, <1>4, ThroughBoth DEF saved
<1>6. IsThrough(own, settled)
  BY <1>1, <1>3, <1>5, ThroughBoth DEF converged
<1>7. IsThrough(own, DeleteRecordingCameras(t))
  BY <1>1, <1>6, ThroughBoth DEF settled
<1>8. Missing(own, {Exclusive(RecordingRow(t, e)) : e \in RowsOf(t)}) = {}
  BY <1>7, ThroughOne DEF DeleteRecordingCameras
<1> QED
  BY <1>8, CoversExclusive DEF Missing

\* Each of the queries that settle a video has what FailVideoFile locks.
LEMMA ThroughVideo ==
  ASSUME NEW own, NEW t, NEW c \in Cameras
  PROVE  /\ IsThrough(own, FailUpload(t, c)) => IsThrough(own, FailVideoFile(t, c))
         /\ Finished(t) /\ IsThrough(own, FailRecording(t, c)) => IsThrough(own, FailVideoFile(t, c))
         /\ IsThrough(own, PersistUpload(t, c)) => IsThrough(own, FailVideoFile(t, c))
<1> DEFINE found == GetTakeForUpdate(t) \o GetRecordingCameraForUpdate(t, c)
           file == GetFinalizedRecordingForUpdate(t, c)
<1>1. /\ GetTakeForUpdate(t) \in Among(OfTake(t)) /\ FailVideoFile(t, c) \in Among(OfTake(t))
      /\ GetRecordingCameraForUpdate(t, c) \in Among(OfTake(t))
  BY QueriesOfTake
<1>2. found \in Among(OfTake(t))
  BY <1>1, AmongBoth
<1>3. /\ GetTakeForUpdate(t) \in Among(OfUpload(t)) /\ FailVideoFile(t, c) \in Among(OfUpload(t))
      /\ file \in Among(OfUpload(t))
  <2>1. OfTake(t) \subseteq OfUpload(t)
    BY DEF OfUpload
  <2>2. {Exclusive(FinalizedRow(t, c))} \in SUBSET OfUpload(t) /\ {Gap(FinalizedTable)} \in SUBSET OfUpload(t)
    BY DEF OfUpload
  <2> QED
    BY <1>1, <2>1, <2>2, AmongMore, AmongOne DEF GetFinalizedRecordingForUpdate
<1>4. GetTakeForUpdate(t) \o file \in Among(OfUpload(t))
  BY <1>3, AmongBoth
<1>5. IsThrough(own, FailUpload(t, c)) => IsThrough(own, FailVideoFile(t, c))
  BY <1>1, ThroughBoth DEF FailUpload
<1>6. Finished(t) /\ IsThrough(own, FailRecording(t, c)) => IsThrough(own, FailVideoFile(t, c))
  BY <1>1, <1>2, ThroughBoth DEF FailRecording
<1>7. IsThrough(own, PersistUpload(t, c)) => IsThrough(own, FailVideoFile(t, c))
  BY <1>3, <1>4, ThroughBoth DEF PersistUpload
<1> QED
  BY <1>5, <1>6, <1>7

\* A recording is deleted only by who has locked its row.
LEMMA CommitKeepsRow ==
  ASSUME Inv, RowsHaveTakes, NEW y \in Running, HasAllLocks(y), ~ MustRead(y), Commits(y),
         NEW t \in Takes, NEW c \in Cameras, row[t][c] # "none", row'[t][c] = "none"
  PROVE  HoldsX(held[y], RecordingRow(t, c))
<1> DEFINE d == y.cameras[1]
           u == y.take
           own == held[y]
<1>1. /\ y \in Transactions /\ TakeRowsType /\ RowsAreRegular
      /\ y \in DOMAIN seen => seen[y] \subseteq Takes
      /\ c \in RowsOf(t)
  BY StoreRowsType DEF Inv, TypeOK, RowsOf
\* What is left to show when it settles the video of its camera.
<1>2. ASSUME d \in Cameras, NEW videos, videos[t] # video[t],
             \A e \in Cameras : videos[t][e] # "uploading",
             \A e \in Cameras \ {d} : videos[t][e] = video[t][e],
             video[t][d] = "uploading", IsThrough(own, FailVideoFile(t, d))
      PROVE  HoldsX(own, RecordingRow(t, c))
  BY <1>1, <1>2, SettlesLocked
<1>3. ASSUME d \in Cameras, NEW reason \in RowReason, PersistRecordingFailure(t, d, reason),
             IsThrough(own, FailRecording(t, d))
      PROVE  HoldsX(own, RecordingRow(t, c))
  <2> DEFINE rows == IF row[t][d] = "recording" THEN [row EXCEPT ![t][d] = reason] ELSE row
             videos == IF take[t] = "ongoing" THEN video ELSE [video EXCEPT ![t][d] = reason]
  <2>1. ~ FailureConflicts(t, d, reason) /\ SaveTakes(rows, videos)
    BY <1>3 DEF PersistRecordingFailure, takeRows
  <2>2. rows[t][c] # "none"
    BY <1>1, <1>3 DEF TakeRowsType, RowReason
  <2>3. videos[t] # video[t] /\ \A e \in Cameras : videos[t][e] # "uploading"
    <3> HIDE DEF rows, videos
    <3> QED
      BY <2>1, <2>2, SaveRemoves
  <2>4. take[t] # "ongoing" /\ video[t][d] # reason
    BY <1>1, <2>3 DEF TakeRowsType
  <2>5. video[t][d] = "uploading"
    BY <2>1, <2>4 DEF FailureConflicts
  <2>6. Finished(t)
    BY <1>1, <1>3, <2>5 DEF RowsAreRegular
  <2>7. \A e \in Cameras \ {d} : videos[t][e] = video[t][e]
    BY <1>1, <1>3 DEF TakeRowsType
  <2> HIDE DEF videos
  <2> QED
    BY <1>2, <1>3, <2>3, <2>5, <2>6, <2>7, ThroughVideo
<1>4. CASE y.kind \in TakeKinds
  <2>1. u \in Takes /\ d \in Cameras
    BY <1>1, <1>4, TransactionShape
  <2>2. CASE y.kind = "failed"
    <3>1. PersistRecordingFailure(u, d, "media") /\ IsThrough(own, FailRecording(u, d))
      BY <2>2, AsksOne DEF Commits, IsDeletion, Queries, HasAllLocks
    <3>2. u = t
      BY <1>1, <2>1, <3>1, FailureElsewhere
    <3> QED
      BY <1>3, <2>1, <3>1, <3>2 DEF RowReason
  <2>3. CASE y.kind = "upload"
    <3> DEFINE videos == [video EXCEPT ![u][d] = "completed"]
    <3>1. PersistUploadResult(u, d, "completed") /\ IsThrough(own, PersistUpload(u, d))
      BY <2>3 DEF Commits, IsDeletion, Queries, HasAllLocks
    <3>2. u = t
      BY <1>1, <2>1, <3>1, UploadElsewhere
    <3>3. <<t, d>> \in PendingUploads /\ SaveTakes(row, videos)
      BY <3>1, <3>2 DEF PersistUploadResult, takeRows
    <3>4. video[t][d] = "uploading"
      BY <3>3 DEF PendingUploads
    <3>5. \A e \in Cameras \ {d} : videos[t][e] = video[t][e]
      BY <1>1, <2>1, <3>2 DEF TakeRowsType
    <3> HIDE DEF videos
    <3>6. videos[t] # video[t] /\ \A e \in Cameras : videos[t][e] # "uploading"
      BY <3>3, SaveRemoves
    <3> QED
      BY <1>2, <2>1, <3>1, <3>2, <3>4, <3>5, <3>6, ThroughVideo
  <2>4. CASE y.kind \in {"started", "stage"}
    BY <2>4 DEF Commits, IsDeletion, storeVars, takeRows
  <2> QED
    BY <1>4, <2>2, <2>3, <2>4 DEF TakeKinds
<1>5. CASE y.kind = "start"
  <2>1. InsertOngoingTake(u, ToSet(y.cameras)) /\ u \in Takes
    BY <1>1, <1>5, TransactionShape DEF Commits, IsDeletion
  <2> QED
    BY <1>1, <2>1 DEF InsertOngoingTake, RowsHaveTakes, TakeRowsType
<1>6. CASE y.kind = "finish"
  <2>1. PICK o \in Takes : FinishOngoingTake(o)
    BY <1>6 DEF Commits, IsDeletion
  <2> DEFINE videos == [video EXCEPT ![o] = [e \in Cameras |->
               IF row[o][e] = "recording" THEN "uploading" ELSE row[o][e]]]
  <2>2. take[o] = "ongoing" /\ SaveTakes(row, videos)
    BY <2>1 DEF FinishOngoingTake
  <2>3. t # o => videos[t] = video[t]
    BY <1>1 DEF TakeRowsType
  <2> HIDE DEF videos
  <2>4. t = o
    BY <2>2, <2>3, SaveRemoves
  <2>5. OngoingTakes # {} /\ OngoingTake = t
    <3>1. t \in OngoingTakes
      BY <2>2, <2>4 DEF OngoingTakes
    <3> QED
      BY <1>1, <3>1, OngoingTakeType DEF RowsAreRegular, OngoingTakes
  <2> QED
    BY <1>1, <1>6, <2>5, AllOfEnding
<1>7. CASE IsDeletion(y)
  <2>1. y \in DOMAIN seen /\ CommitDeletion(y, d) /\ d \in Cameras
    BY <1>1, <1>7, TransactionShape DEF MustRead, Commits, IsDeletion, CameraKinds
  <2> DEFINE videos == [v \in Takes |-> [e \in Cameras |->
               IF e = d /\ v \in seen[y] /\ video[v][e] = "uploading" THEN "forced" ELSE video[v][e]]]
  <2>2. SaveTakes(row, videos)
    BY <2>1 DEF CommitDeletion
  <2>3. \A e \in Cameras \ {d} : videos[t][e] = video[t][e]
    OBVIOUS
  <2>4. t \notin seen[y] \/ video[t][d] # "uploading" => videos[t] = video[t]
    BY <1>1 DEF TakeRowsType
  <2> HIDE DEF videos
  <2>5. videos[t] # video[t] /\ \A e \in Cameras : videos[t][e] # "uploading"
    BY <2>2, SaveRemoves
  <2>6. IsThrough(own, FailUpload(t, d))
    BY <1>1, <1>7, <2>1, <2>4, <2>5, AllOfReads
  <2> QED
    BY <1>2, <2>1, <2>3, <2>4, <2>5, <2>6, ThroughVideo
<1>8. CASE y.kind \in {"connected", "lost"}
  <2>1. PICK state \in {"waiting", "connected"} : CommitInput(y, d, state)
    BY <1>8 DEF Commits, IsDeletion
  <2> DEFINE reason == IF state = "waiting" THEN "disconnected" ELSE "input"
  <2>2. y \in DOMAIN seen /\ \E v \in seen[y] : PersistRecordingFailure(v, d, reason)
    BY <2>1 DEF CommitInput, takeRows
  <2>3. PICK v \in seen[y] : PersistRecordingFailure(v, d, reason)
    BY <2>2
  <2>4. y.kind = "lost" /\ d \in Cameras
    BY <1>1, <1>8, <2>2, TransactionShape DEF Inv, ReadsHold, IsDeletion, CameraKinds
  <2>5. v = t
    BY <1>1, <2>2, <2>3, FailureElsewhere
  <2>6. IsThrough(own, FailRecording(t, d))
    BY <1>1, <2>2, <2>4, <2>5, AllOfReads
  <2> QED
    BY <1>3, <2>3, <2>4, <2>5, <2>6 DEF RowReason
<1>9. CASE y.kind \in {"create", "provisioned", "deletion"}
  BY <1>9 DEF Commits, IsDeletion, takeRows
<1> QED
  BY <1>1, <1>4, <1>5, <1>6, <1>7, <1>8, <1>9, TransactionShape
     DEF SessionKinds, EventKinds, IsDeletion

-----------------------------------------------------------------------------
(* The queries of a transaction depend on the rows it has locked.          *)

\* The queries on a take depend on the rows of the take.
LEMMA TakeQueriesStay ==
  ASSUME NEW t \in Takes, NEW c \in Cameras, TakeStays(t)
  PROVE  /\ FailUpload(t, c)' = FailUpload(t, c)
         /\ PersistRecordingStarted(t, c)' = PersistRecordingStarted(t, c)
         /\ FailRecording(t, c)' = FailRecording(t, c)
         /\ StageFinalized(t, c)' = StageFinalized(t, c)
         /\ PersistUpload(t, c)' = PersistUpload(t, c)
         /\ LoadRecordingCameras(t)' = LoadRecordingCameras(t)
         /\ ReplaceOngoing(t)' = ReplaceOngoing(t)
<1>1. /\ Finished(t)' = Finished(t) /\ RowsOf(t)' = RowsOf(t) /\ VideosOf(t)' = VideosOf(t)
      /\ row'[t] = row[t] /\ video'[t] = video[t]
      /\ (<<t, c>> \in finalized)' = (<<t, c>> \in finalized)
  BY DEF TakeStays, Finished, RowsOf, VideosOf
<1>2. /\ GetTakeForUpdate(t)' = GetTakeForUpdate(t)
      /\ LoadRecordingCameras(t)' = LoadRecordingCameras(t)
      /\ DeleteRecordingCameras(t)' = DeleteRecordingCameras(t)
      /\ ListVideoFilesForTakeForUpdate(t)' = ListVideoFilesForTakeForUpdate(t)
      /\ GetFinalizedRecordingForUpdate(t, c)' = GetFinalizedRecordingForUpdate(t, c)
      /\ ReplaceOngoingWithFinished(t)' = ReplaceOngoingWithFinished(t)
  BY <1>1 DEF GetTakeForUpdate, LoadFinishedTake, LoadRecordingCameras, DeleteRecordingCameras,
       ListVideoFilesForTakeForUpdate, GetFinalizedRecordingForUpdate, ReplaceOngoingWithFinished
<1>3. ConvergeFinishedTake(t, c)' = ConvergeFinishedTake(t, c)
  BY <1>1, <1>2 DEF ConvergeFinishedTake
<1>4. FailVideoFile(t, c)' = FailVideoFile(t, c)
  BY <1>1, <1>3 DEF FailVideoFile
<1>5. /\ FailUpload(t, c)' = FailUpload(t, c)
      /\ PersistRecordingStarted(t, c)' = PersistRecordingStarted(t, c)
      /\ FailRecording(t, c)' = FailRecording(t, c)
      /\ PersistUpload(t, c)' = PersistUpload(t, c)
  BY <1>1, <1>2, <1>4 DEF FailUpload, PersistRecordingStarted, FailRecording, PersistUpload
<1>6. StageFinalized(t, c)' = StageFinalized(t, c)
  BY <1>1, <1>2 DEF StageFinalized
<1>7. ReplaceOngoing(t)' = ReplaceOngoing(t)
  BY <1>1, <1>2 DEF ReplaceOngoing
<1> QED
  BY <1>2, <1>5, <1>6, <1>7

LEMMA OngoingTakeStays ==
  ASSUME OngoingTakes' = OngoingTakes
  PROVE  OngoingTake' = OngoingTake
BY DEF OngoingTake

LEMMA FinishStays ==
  ASSUME OngoingTakes' = OngoingTakes, ExistingTakes' = ExistingTakes,
         OngoingTakes # {} => OngoingTake \in Takes /\ TakeStays(OngoingTake)
  PROVE  FinishTake' = FinishTake
<1>1. OngoingTake' = OngoingTake
  BY OngoingTakeStays
<1>2. CASE OngoingTakes = {}
  BY <1>2 DEF FinishTake, GetOngoingTakeForUpdate
<1>3. CASE OngoingTakes # {}
  <2>1. RowsOf(OngoingTake)' = RowsOf(OngoingTake) /\ row'[OngoingTake] = row[OngoingTake]
    BY <1>1, <1>3 DEF RowsOf, TakeStays
  <2>2. LoadRecordingCameras(OngoingTake)' = LoadRecordingCameras(OngoingTake)
    BY <1>1, <2>1 DEF LoadRecordingCameras, RecordingRow
  <2>3. DeleteRecordingCameras(OngoingTake)' = DeleteRecordingCameras(OngoingTake)
    BY <1>1, <2>1 DEF DeleteRecordingCameras, RecordingRow
  <2>4. ReplaceOngoingWithFinished(OngoingTake)' = ReplaceOngoingWithFinished(OngoingTake)
    BY <1>1, <2>1 DEF ReplaceOngoingWithFinished, InsertVideoFile, VideoRow, TakeRow
  <2>5. ReplaceOngoing(OngoingTake)' = ReplaceOngoing(OngoingTake)
    BY <1>1, <2>1, <2>3, <2>4 DEF ReplaceOngoing
  <2> QED
    BY <1>3, <2>2, <2>5 DEF FinishTake, GetOngoingTakeForUpdate
<1> QED
  BY <1>2, <1>3

LEMMA EachStays ==
  ASSUME NEW x, NEW c \in Cameras, x \in DOMAIN seen, x \in DOMAIN seen', seen'[x] = seen[x],
         seen[x] \subseteq Takes, \A u \in seen[x] : TakeStays(u)
  PROVE  EachUpload(x, c)' = EachUpload(x, c) /\ EachRecording(x, c)' = EachRecording(x, c)
<1> DEFINE takes == SetToSeq(seen[x])
<1>1. /\ EachUpload(x, c) = [k \in DOMAIN takes |-> FailUpload(takes[k], c)]
      /\ EachRecording(x, c) = [k \in DOMAIN takes |-> FailRecording(takes[k], c)]
  BY DEF OnEachRead, EachUpload, EachRecording
<1>2. EachUpload(x, c)' = [k \in DOMAIN takes |-> FailUpload(takes[k], c)']
  BY DEF OnEachRead, EachUpload
<1>3. EachRecording(x, c)' = [k \in DOMAIN takes |-> FailRecording(takes[k], c)']
  BY DEF OnEachRead, EachRecording
<1>4. \A u \in seen[x] : FailUpload(u, c)' = FailUpload(u, c) /\ FailRecording(u, c)' = FailRecording(u, c)
  BY TakeQueriesStay
<1>5. \A k \in DOMAIN takes : takes[k] \in seen[x]
  BY SMTT(60), FinitenessAssumption, FS_Subset, SetToSeqType
<1>7. takes' = takes
  OBVIOUS
<1> HIDE DEF takes
<1>6. \A k \in DOMAIN takes : /\ FailUpload(takes[k], c)' = FailUpload(takes[k], c)
                              /\ FailRecording(takes[k], c)' = FailRecording(takes[k], c)
  BY <1>4, <1>5, <1>7
<1> QED
  BY <1>1, <1>2, <1>3, <1>6

LEMMA StartStays ==
  ASSUME NEW t, NEW cs \in Seq(Cameras), ExistingTakes' = ExistingTakes,
         \A i \in DOMAIN cs : ConnectionStays(cs[i])
  PROVE  StartTake(t, cs)' = StartTake(t, cs)
<1> DEFINE Before(i) == \A j \in 1 .. i - 1 : IsReady(cs[j])
           ready == \A c \in ToSet(cs) : IsReady(c)
<1>1. GetSessionForUpdate' = GetSessionForUpdate
  BY DEF GetSessionForUpdate
<1>2. \A i \in DOMAIN cs : IsReady(cs[i])' <=> IsReady(cs[i])
  BY DEF IsReady, ConnectionStays
<1>3. \A i \in DOMAIN cs : Before(i)' <=> Before(i)
  <2>1. \A i \in DOMAIN cs : \A j \in 1 .. i - 1 : j \in DOMAIN cs
    OBVIOUS
  <2> QED
    BY <1>2, <2>1
<1>4. ready' <=> ready
  BY <1>2 DEF ToSet
<1>5. \A c : GetCameraForUpdate(c)' = GetCameraForUpdate(c)
  BY DEF GetCameraForUpdate, IdentityRow, ConnectionRow
<1>6. InsertOngoingTakeRows(t, ToSet(cs))' = InsertOngoingTakeRows(t, ToSet(cs))
  BY DEF InsertOngoingTakeRows
<1>7. /\ StartTake(t, cs) =
           <<GetSessionForUpdate>>
             \o [i \in DOMAIN cs |-> IF Before(i) THEN GetCameraForUpdate(cs[i]) ELSE <<>>]
             \o <<IF ready THEN InsertOngoingTakeRows(t, ToSet(cs)) ELSE <<>>>>
  BY DEF StartTake
<1>8. /\ StartTake(t, cs)' =
           <<GetSessionForUpdate'>>
             \o [i \in DOMAIN cs |-> IF Before(i)' THEN GetCameraForUpdate(cs[i])' ELSE <<>>]
             \o <<IF ready' THEN InsertOngoingTakeRows(t, ToSet(cs))' ELSE <<>>>>
  BY DEF StartTake
<1> HIDE DEF Before, ready
<1>9. [i \in DOMAIN cs |-> IF Before(i)' THEN GetCameraForUpdate(cs[i])' ELSE <<>>]
        = [i \in DOMAIN cs |-> IF Before(i) THEN GetCameraForUpdate(cs[i]) ELSE <<>>]
  BY <1>3, <1>5
<1> QED
  BY <1>1, <1>4, <1>6, <1>7, <1>8, <1>9

\* The queries of a transaction other than the deletion of a connection depend on the rows
\* it has locked, the session it holds, and what it has read.
LEMMA QueriesKept ==
  ASSUME NEW x \in Transactions, x.kind # "deletion",
         x \in DOMAIN seen' <=> x \in DOMAIN seen,
         x \in DOMAIN seen => /\ seen'[x] = seen[x] /\ seen[x] \subseteq Takes
                              /\ \A u \in seen[x] : TakeStays(u),
         x.kind \in TakeKinds => TakeStays(x.take),
         x.kind \in {"start", "finish", "create"} => ExistingTakes' = ExistingTakes,
         x.kind = "start" => \A i \in DOMAIN x.cameras : ConnectionStays(x.cameras[i]),
         x.kind = "finish" => /\ OngoingTakes' = OngoingTakes
                              /\ OngoingTakes # {} => /\ OngoingTake \in Takes
                                                      /\ TakeStays(OngoingTake)
  PROVE  Queries(x)' = Queries(x)
<1> DEFINE t == x.take
           c == x.cameras[1]
<1>1. CASE x.kind = "start"
  BY <1>1, StartStays, TransactionShape DEF Queries
<1>2. CASE x.kind = "finish"
  BY <1>2, FinishStays DEF Queries
<1>3. CASE x.kind = "create"
  <2>1. GetSessionForUpdate' = GetSessionForUpdate
    BY <1>3 DEF GetSessionForUpdate
  <2> QED
    BY <1>3, <2>1 DEF Queries, CreateCameraRows
<1>4. CASE IsDeletion(x) \/ x.kind \in {"connected", "lost"}
  <2>1. c \in Cameras
    BY <1>4, TransactionShape DEF IsDeletion, CameraKinds
  <2>2. EachUpload(x, c)' = EachUpload(x, c) /\ EachRecording(x, c)' = EachRecording(x, c)
    <3>1. CASE x \in DOMAIN seen
      BY <2>1, <3>1, EachStays
    <3>2. CASE x \notin DOMAIN seen
      BY <3>2 DEF EachUpload, EachRecording, OnEachRead
    <3> QED
      BY <3>1, <3>2
  <2>3. /\ DeleteCamera(x, c) = <<GetCameraForUpdate(c)>> \o EachUpload(x, c)
              \o IF x \in DOMAIN seen THEN <<SaveCameraConnection(c)>> ELSE <<>>
        /\ ProcessEvent(x, c) = <<GetCameraByIdForUpdate(c), SaveCameraConnection(c)>>
              \o EachRecording(x, c)
    BY DEF DeleteCamera, ProcessEvent, EachUpload, EachRecording
  <2>4. /\ DeleteCamera(x, c)' = <<GetCameraForUpdate(c)>> \o EachUpload(x, c)'
              \o IF x \in DOMAIN seen' THEN <<SaveCameraConnection(c)>> ELSE <<>>
        /\ ProcessEvent(x, c)' = <<GetCameraByIdForUpdate(c), SaveCameraConnection(c)>>
              \o EachRecording(x, c)'
    BY SMTT(60) DEF DeleteCamera, ProcessEvent, EachUpload, EachRecording
  <2>5. DeleteCamera(x, c)' = DeleteCamera(x, c) /\ ProcessEvent(x, c)' = ProcessEvent(x, c)
    BY <2>2, <2>3, <2>4
  <2>6. CASE IsDeletion(x)
    BY <2>5, <2>6 DEF Queries, IsDeletion
  <2>7. CASE x.kind \in {"connected", "lost"}
    BY <2>5, <2>7 DEF Queries
  <2> QED
    BY <1>4, <2>6, <2>7
<1>5. CASE x.kind = "provisioned"
  BY <1>5 DEF Queries, GetCameraByIdForUpdate, SaveCameraConnection
<1>6. CASE x.kind \in TakeKinds
  <2>1. t \in Takes /\ c \in Cameras
    BY <1>6, TransactionShape
  <2>2. /\ PersistRecordingStarted(t, c)' = PersistRecordingStarted(t, c)
        /\ FailRecording(t, c)' = FailRecording(t, c)
        /\ StageFinalized(t, c)' = StageFinalized(t, c)
        /\ PersistUpload(t, c)' = PersistUpload(t, c)
    BY <1>6, <2>1, TakeQueriesStay
  <2> QED
    BY <1>6, <2>2 DEF Queries, TakeKinds
<1> QED
  BY <1>1, <1>2, <1>3, <1>4, <1>5, <1>6, TransactionShape
     DEF SessionKinds, EventKinds, IsDeletion, TakeKinds

\* So none changes as long as the rows and its read do not.
LEMMA QueriesStay ==
  ASSUME NEW x \in Transactions, UNCHANGED storeVars,
         x \in DOMAIN seen' <=> x \in DOMAIN seen,
         x \in DOMAIN seen => seen'[x] = seen[x] /\ seen[x] \subseteq Takes
  PROVE  Queries(x)' = Queries(x)
<1>1. UNCHANGED <<take, row, video, finalized, conn, deleting>>
  BY DEF storeVars
<1>2. /\ ExistingTakes' = ExistingTakes /\ OngoingTakes' = OngoingTakes
      /\ \A u : TakeStays(u)
      /\ \A c : ConnectionStays(c)
  BY <1>1 DEF ExistingTakes, OngoingTakes, TakeStays, ConnectionStays
<1>3. CASE x.kind = "deletion"
  BY <1>1, <1>3 DEF Queries, DeleteCameraConnection, IsDeletion
<1>4. CASE x.kind # "deletion"
  BY <1>2, <1>4, OngoingTakeType, QueriesKept
<1> QED
  BY <1>3, <1>4

-----------------------------------------------------------------------------
(* The decisions of start_take.                                            *)

\* start_take has locked a camera because all before it are ready, and the rows of the take
\* because all of them are; those cameras are locked.
StartDecided(own, lock, t, cs) ==
  \/ lock = Exclusive(SessionRow)
  \/ \E u \in ExistingTakes : lock = Exclusive(TakeRow(u))
  \/ \E i \in DOMAIN cs :
       /\ \A j \in 1 .. i - 1 : Readied(own, cs, j)
       /\ lock = Exclusive(IdentityRow(cs[i])) \/ lock = Exclusive(ConnectionRow(cs[i]))
  \/ /\ \A i \in DOMAIN cs : Readied(own, cs, i)
     /\ lock = Exclusive(TakeRow(t)) \/ \E c \in ToSet(cs) : lock = Exclusive(RecordingRow(t, c))

StartsDecided ==
  \A x \in Running : x.kind = "start" =>
    \A lock \in held[x] : StartDecided(held[x], lock, x.take, x.cameras)

\* What start_take asks for is decided.
LEMMA AskedIsDecided ==
  ASSUME NEW x \in Transactions, x.kind = "start", NEW lock \in NextLocks(x)
  PROVE  StartDecided(held[x], lock, x.take, x.cameras)
<1> DEFINE own == held[x]
           t == x.take
           cs == x.cameras
           mid == CamerasForUpdate(cs)
<1>1. cs \in Seq(Cameras) /\ Len(cs) \in Nat /\ DOMAIN cs = 1 .. Len(cs)
  BY TransactionShape
<1>2. \A i \in DOMAIN cs :
        mid[i] = IF \A j \in 1 .. i - 1 : IsReady(cs[j]) THEN GetCameraForUpdate(cs[i]) ELSE <<>>
  BY DEF CamerasForUpdate
<1>3. DOMAIN mid = DOMAIN cs
  BY DEF CamerasForUpdate
<1> HIDE DEF mid
<1>4. CASE lock \in NextOf(own, GetSessionForUpdate)
  BY <1>4, GetSessionNext DEF StartDecided
<1>5. CASE IsThrough(own, GetSessionForUpdate) /\ Asks(own, mid, lock)
  <2>1. PICK i \in DOMAIN cs : /\ lock \in NextOf(own, mid[i])
                               /\ \A k \in 1 .. i - 1 : IsThrough(own, mid[k])
    BY <1>3, <1>5 DEF Asks
  <2>2. /\ \A j \in 1 .. i - 1 : IsReady(cs[j])
        /\ lock \in NextOf(own, GetCameraForUpdate(cs[i]))
    BY <1>2, <2>1, NextOfNone
  <2>3. ASSUME NEW j \in 1 .. i - 1 PROVE Readied(own, cs, j)
    <3>1. j \in DOMAIN cs /\ \A k \in 1 .. j - 1 : k \in 1 .. i - 1
      BY <1>1
    <3>2. mid[j] = GetCameraForUpdate(cs[j])
      BY <1>2, <2>2, <3>1
    <3> QED
      BY <2>1, <2>2, <3>2, GetCameraThrough DEF Readied
  <2>4. \/ lock = Exclusive(SessionRow) \/ lock = Exclusive(IdentityRow(cs[i]))
        \/ lock = Exclusive(ConnectionRow(cs[i]))
    BY <2>2, GetCameraNext
  <2> QED
    BY <2>3, <2>4 DEF StartDecided
<1>6. CASE /\ IsThrough(own, GetSessionForUpdate) /\ AllThrough(own, mid)
           /\ lock \in NextOf(own, TakeInserted(t, cs))
  <2>1. (\A c \in ToSet(cs) : IsReady(c)) /\ lock \in NextOf(own, InsertOngoingTakeRows(t, ToSet(cs)))
    BY <1>6, NextOfNone DEF TakeInserted
  <2>2. ASSUME NEW i \in DOMAIN cs
        PROVE  Readied(own, cs, i) /\ HoldsX(own, IdentityRow(cs[i]))
    <3>1. cs[i] \in ToSet(cs) /\ \A j \in 1 .. i - 1 : cs[j] \in ToSet(cs)
      BY <1>1 DEF ToSet
    <3>2. mid[i] = GetCameraForUpdate(cs[i])
      BY <1>2, <2>1, <3>1
    <3> QED
      BY <1>3, <1>6, <2>1, <3>1, <3>2, GetCameraThrough DEF AllThrough, Readied
  <2>3. HoldsX(own, SessionRow)
    BY <1>6, GetSessionThrough
  <2> QED
    BY <1>1, <2>1, <2>2, <2>3, InsertionAsks DEF StartDecided
<1> QED
  BY <1>4, <1>5, <1>6, StartAsks DEF mid

\* What is decided is planned.
LEMMA DecidedIsPlanned ==
  ASSUME NEW x \in Transactions, x.kind = "start", NEW own, NEW lock,
         StartDecided(own, lock, x.take, x.cameras)
  PROVE  Plans(Queries(x), lock)
<1> DEFINE t == x.take
           cs == x.cameras
           mid == CamerasForUpdate(cs)
           last == TakeInserted(t, cs)
           first == <<GetSessionForUpdate>>
<1>1. t \in Takes /\ cs \in Seq(Cameras) /\ Len(cs) \in Nat /\ DOMAIN cs = 1 .. Len(cs)
  BY TransactionShape
<1>2. mid \in Programs /\ first \in Programs /\ <<last>> \in Programs
  BY <1>1, StartType
<1>3. Queries(x) = (first \o mid) \o <<last>>
  BY DEF Queries, StartTake, CamerasForUpdate, TakeInserted
<1>4. /\ Plans(first, lock) => Plans(Queries(x), lock)
      /\ Plans(mid, lock) => Plans(Queries(x), lock)
      /\ Plans(<<last>>, lock) => Plans(Queries(x), lock)
  <2> HIDE DEF mid, last, first
  <2>1. first \o mid \in Programs
    BY <1>2 DEF Programs
  <2>2. Plans((first \o mid) \o <<last>>, lock) <=>
          Plans(first \o mid, lock) \/ Plans(<<last>>, lock)
    BY <1>2, <2>1, PlansBoth DEF Programs
  <2>3. Plans(first \o mid, lock) <=> Plans(first, lock) \/ Plans(mid, lock)
    BY <1>2, PlansBoth DEF Programs
  <2> QED
    BY <1>3, <2>2, <2>3
<1>5. CASE lock = Exclusive(SessionRow) \/ \E u \in ExistingTakes : lock = Exclusive(TakeRow(u))
  <2> DEFINE A == {Exclusive(SessionRow)}
             B == {Exclusive(TakeRow(u)) : u \in ExistingTakes}
  <2>2. GetSessionForUpdate = <<A, B>> /\ (lock \in A \/ lock \in B)
    BY <1>5 DEF GetSessionForUpdate
  <2> HIDE DEF A, B
  <2>1. Mentions(GetSessionForUpdate, lock)
    BY <2>2, PlansFew
  <2> QED
    BY <1>4, <2>1, PlansFew
<1>6. ASSUME NEW i \in DOMAIN cs, \A j \in 1 .. i - 1 : Readied(own, cs, j),
             lock = Exclusive(IdentityRow(cs[i])) \/ lock = Exclusive(ConnectionRow(cs[i]))
      PROVE  Plans(Queries(x), lock)
  <2>1. i \in DOMAIN mid /\ mid[i] = GetCameraForUpdate(cs[i])
    BY <1>6 DEF CamerasForUpdate, Readied
  <2>2. Mentions(GetCameraForUpdate(cs[i]), lock)
    BY <1>6 DEF GetCameraForUpdate, Mentions
  <2> QED
    BY <1>4, <2>1, <2>2 DEF Plans
<1>7. CASE /\ \A i \in DOMAIN cs : Readied(own, cs, i)
           /\ lock = Exclusive(TakeRow(t)) \/ \E c \in ToSet(cs) : lock = Exclusive(RecordingRow(t, c))
  <2>1. last = InsertOngoingTakeRows(t, ToSet(cs))
    BY <1>7 DEF TakeInserted, ToSet, Readied
  <2> DEFINE A == {Shared(SessionRow)}
             B == {Exclusive(TakeRow(t))}
             D == UNION {{Shared(IdentityRow(c)), Shared(ConnectionRow(c))} : c \in ToSet(cs)}
             F == {Exclusive(RecordingRow(t, c)) : c \in ToSet(cs)}
  <2>2. last = <<A, B, D, F>> /\ (lock \in B \/ lock \in F)
    BY <1>7, <2>1 DEF InsertOngoingTakeRows
  <2> HIDE DEF A, B, D, F, last
  <2>3. Mentions(last, lock)
    BY <2>2 DEF Mentions
  <2> QED
    BY <1>4, <2>3, PlansFew
<1> QED
  BY <1>5, <1>6, <1>7 DEF StartDecided

-----------------------------------------------------------------------------
(* What is planned when another transaction commits.                       *)

LEMMA PlansAny ==
  ASSUME NEW S, NEW T, NEW p \in Seq(S), NEW q \in Seq(T), NEW lock
  PROVE  /\ p \o q \in Seq(S \cup T)
         /\ Plans(p \o q, lock) <=> Plans(p, lock) \/ Plans(q, lock)
<1>1. p \in Seq(S \cup T) /\ q \in Seq(S \cup T)
  OBVIOUS
<1> QED
  BY <1>1, PlansBoth

\* What a deletion, or an event, plans, as long as it has read nothing and from then on.
LEMMA DeletionPlans ==
  ASSUME NEW c, NEW S, NEW T, NEW each \in Seq(S), NEW last \in Seq(T), NEW lock
  PROVE  Plans(<<GetCameraForUpdate(c)>> \o each \o last, lock) <=>
           \/ Mentions(GetCameraForUpdate(c), lock)
           \/ Plans(each, lock) \/ Plans(last, lock)
<1> DEFINE A == GetCameraForUpdate(c)
<1> HIDE DEF A
<1>1. <<A>> \in Seq({A})
  OBVIOUS
<1>2. /\ <<A>> \o each \in Seq({A} \cup S)
      /\ Plans(<<A>> \o each, lock) <=> Plans(<<A>>, lock) \/ Plans(each, lock)
  BY <1>1, PlansAny
<1>3. Plans((<<A>> \o each) \o last, lock) <=> Plans(<<A>> \o each, lock) \/ Plans(last, lock)
  BY <1>2, PlansAny
<1>4. Plans(<<A>>, lock) <=> Mentions(A, lock)
  BY PlansFew
<1> QED
  BY <1>2, <1>3, <1>4 DEF A

LEMMA EventPlans ==
  ASSUME NEW c, NEW S, NEW each \in Seq(S), NEW lock
  PROVE  Plans(<<GetCameraByIdForUpdate(c), SaveCameraConnection(c)>> \o each, lock) <=>
           \/ Mentions(GetCameraByIdForUpdate(c), lock)
           \/ Mentions(SaveCameraConnection(c), lock)
           \/ Plans(each, lock)
<1> DEFINE A == GetCameraByIdForUpdate(c)
           B == SaveCameraConnection(c)
<1> HIDE DEF A, B
<1>1. <<A, B>> \in Seq({A, B})
  OBVIOUS
<1>2. Plans(<<A, B>> \o each, lock) <=> Plans(<<A, B>>, lock) \/ Plans(each, lock)
  BY <1>1, PlansAny
<1>3. Plans(<<A, B>>, lock) <=> Mentions(A, lock) \/ Mentions(B, lock)
  BY PlansFew
<1> QED
  BY <1>2, <1>3 DEF A, B

\* The locks of what is done on a take it has read.
LEMMA EachPlans ==
  ASSUME NEW x, NEW c \in Cameras, x \in DOMAIN seen => seen[x] \subseteq Takes, NEW lock
  PROVE  /\ Plans(EachUpload(x, c), lock) => x \in DOMAIN seen /\ \E t \in seen[x] :
              lock \in OfTake(t) /\ Mentions(FailUpload(t, c), lock)
         /\ Plans(EachRecording(x, c), lock) => x \in DOMAIN seen /\ \E t \in seen[x] :
              lock \in OfTake(t) /\ Mentions(FailRecording(t, c), lock)
<1>1. /\ Plans(EachUpload(x, c), lock) =>
           x \in DOMAIN seen /\ \E t \in seen[x] : Mentions(FailUpload(t, c), lock)
      /\ Plans(EachRecording(x, c), lock) =>
           x \in DOMAIN seen /\ \E t \in seen[x] : Mentions(FailRecording(t, c), lock)
  BY EachRead DEF Plans
<1>2. ASSUME NEW t, Mentions(FailUpload(t, c), lock) \/ Mentions(FailRecording(t, c), lock)
      PROVE  lock \in OfTake(t)
  <2>1. FailUpload(t, c) \in Seq(SUBSET OfTake(t)) /\ FailRecording(t, c) \in Seq(SUBSET OfTake(t))
    BY TransactionsOfTake DEF TakeFirst, Among
  <2> QED
    BY <1>2, <2>1 DEF Mentions
<1> QED
  BY <1>1, <1>2

\* What is planned on a take whose rows stay is still planned.
LEMMA EachStillPlans ==
  ASSUME NEW x, NEW c \in Cameras, x \in DOMAIN seen, x \in DOMAIN seen', seen'[x] = seen[x],
         seen[x] \subseteq Takes, NEW t \in seen[x], TakeStays(t), NEW lock
  PROVE  /\ Mentions(FailUpload(t, c), lock) => Plans(EachUpload(x, c)', lock)
         /\ Mentions(FailRecording(t, c), lock) => Plans(EachRecording(x, c)', lock)
<1> DEFINE takes == SetToSeq(seen[x])
<1>1. EachUpload(x, c)' = [k \in DOMAIN takes |-> FailUpload(takes[k], c)']
  BY DEF OnEachRead, EachUpload
<1>2. EachRecording(x, c)' = [k \in DOMAIN takes |-> FailRecording(takes[k], c)']
  BY DEF OnEachRead, EachRecording
<1>3. FailUpload(t, c)' = FailUpload(t, c) /\ FailRecording(t, c)' = FailRecording(t, c)
  BY TakeQueriesStay
<1>4. PICK k \in DOMAIN takes : takes[k] = t
  BY FinitenessAssumption, FS_Subset, SetToSeqType
<1>5. takes' = takes
  OBVIOUS
<1> HIDE DEF takes
<1>6. EachUpload(x, c)'[k] = FailUpload(t, c) /\ EachRecording(x, c)'[k] = FailRecording(t, c)
  BY <1>1, <1>2, <1>3, <1>4, <1>5
<1>7. k \in DOMAIN (EachUpload(x, c)') /\ k \in DOMAIN (EachRecording(x, c)')
  BY <1>1, <1>2, <1>4
<1> QED
  BY <1>6, <1>7 DEF Plans

LEMMA EachSequence ==
  ASSUME NEW x, NEW c, x \in DOMAIN seen', NEW read \in SUBSET Takes, seen'[x] = read
  PROVE  (\E S : EachUpload(x, c)' \in Seq(S)) /\ (\E S : EachRecording(x, c)' \in Seq(S))
<1> DEFINE takes == SetToSeq(read)
<1>1. /\ EachUpload(x, c)' = [k \in DOMAIN takes |-> FailUpload(takes[k], c)']
      /\ EachRecording(x, c)' = [k \in DOMAIN takes |-> FailRecording(takes[k], c)']
  BY DEF OnEachRead, EachUpload, EachRecording
<1>2. Len(takes) \in Nat /\ DOMAIN takes = 1 .. Len(takes)
  BY FinitenessAssumption, FS_Subset, SetToSeqType
<1> DEFINE n == Len(takes)
<1> HIDE DEF takes
<1>3. ASSUME NEW f, DOMAIN f = 1 .. n, f = [k \in 1 .. n |-> f[k]]
      PROVE  f \in Seq({f[k] : k \in 1 .. n})
  BY <1>2, <1>3
<1>4. EachUpload(x, c)' \in Seq({EachUpload(x, c)'[k] : k \in 1 .. n})
  BY <1>1, <1>2, <1>3
<1>5. EachRecording(x, c)' \in Seq({EachRecording(x, c)'[k] : k \in 1 .. n})
  BY <1>1, <1>2, <1>3
<1> QED
  BY <1>4, <1>5

\* What a deletion, or an event, has planned and still plans after a step.
LEMMA ReadStillPlans ==
  ASSUME NEW x \in Transactions, IsDeletion(x) \/ x.kind \in {"connected", "lost"},
         x \in DOMAIN seen => x \in DOMAIN seen' /\ seen'[x] = seen[x] /\ seen[x] \subseteq Takes,
         x \in DOMAIN seen' => seen'[x] \subseteq Takes,
         NEW lock, Plans(Queries(x), lock),
         \A t \in Takes : lock \in OfTake(t) => TakeStays(t)
  PROVE  Plans(Queries(x)', lock)
<1> DEFINE c == x.cameras[1]
           last == IF x \in DOMAIN seen THEN <<SaveCameraConnection(c)>> ELSE <<>>
           later == IF x \in DOMAIN seen' THEN <<SaveCameraConnection(c)>> ELSE <<>>
           ups == EachUpload(x, c)
           recs == EachRecording(x, c)
<1>1. c \in Cameras
  BY TransactionShape DEF IsDeletion, CameraKinds
<1>2. last \in Seq({SaveCameraConnection(c)}) /\ later \in Seq({SaveCameraConnection(c)})
  <2> DEFINE A == SaveCameraConnection(c)
  <2> HIDE DEF A
  <2>1. <<A>> \in Seq({A}) /\ <<>> \in Seq({A})
    OBVIOUS
  <2> QED
    BY <2>1 DEF A
<1>3. ups \in Seq(Among(RowLock)) /\ recs \in Seq(Among(RowLock))
  BY <1>1, EachRead DEF Programs
<1>4. (\E S : ups' \in Seq(S)) /\ (\E S : recs' \in Seq(S))
  <2>1. CASE x \in DOMAIN seen'
    BY <2>1, EachSequence
  <2>2. CASE x \notin DOMAIN seen'
    <3>1. ups' = <<>> /\ recs' = <<>>
      BY <2>2 DEF EachUpload, EachRecording, OnEachRead
    <3>2. <<>> \in Seq({})
      OBVIOUS
    <3> QED
      BY <3>1, <3>2
  <2> QED
    BY <2>1, <2>2
<1>5. /\ DeleteCamera(x, c) = <<GetCameraForUpdate(c)>> \o ups \o last
      /\ DeleteCamera(x, c)' = <<GetCameraForUpdate(c)>> \o ups' \o later
      /\ ProcessEvent(x, c) = <<GetCameraByIdForUpdate(c), SaveCameraConnection(c)>> \o recs
      /\ ProcessEvent(x, c)' = <<GetCameraByIdForUpdate(c), SaveCameraConnection(c)>> \o recs'
  BY DEF DeleteCamera, ProcessEvent, EachUpload, EachRecording, GetCameraForUpdate,
       GetCameraByIdForUpdate, SaveCameraConnection, SessionRow, IdentityRow, ConnectionRow
<1>6. Plans(last, lock) => Plans(later, lock)
  BY PlansFew
<1>7. /\ Plans(ups, lock) => Plans(ups', lock)
      /\ Plans(recs, lock) => Plans(recs', lock)
  <2>1. ASSUME Plans(ups, lock) PROVE Plans(ups', lock)
    <3>1. PICK t \in seen[x] : lock \in OfTake(t) /\ Mentions(FailUpload(t, c), lock)
      BY <1>1, <2>1, EachPlans
    <3>2. x \in DOMAIN seen
      BY <1>1, <2>1, EachPlans
    <3> QED
      BY <1>1, <3>1, <3>2, EachStillPlans
  <2>2. ASSUME Plans(recs, lock) PROVE Plans(recs', lock)
    <3>1. PICK t \in seen[x] : lock \in OfTake(t) /\ Mentions(FailRecording(t, c), lock)
      BY <1>1, <2>2, EachPlans
    <3>2. x \in DOMAIN seen
      BY <1>1, <2>2, EachPlans
    <3> QED
      BY <1>1, <3>1, <3>2, EachStillPlans
  <2> QED
    BY <2>1, <2>2
<1> HIDE DEF last, later, ups, recs
<1>8. CASE IsDeletion(x)
  <2>1. Queries(x) = DeleteCamera(x, c) /\ Queries(x)' = DeleteCamera(x, c)'
    BY <1>8 DEF Queries, IsDeletion
  <2>2. \/ Mentions(GetCameraForUpdate(c), lock)
        \/ Plans(ups, lock) \/ Plans(last, lock)
    BY <1>2, <1>3, <1>5, <2>1, DeletionPlans
  <2>3. PICK S : ups' \in Seq(S)
    BY <1>4
  <2>4. Mentions(GetCameraForUpdate(c), lock) \/ Plans(ups', lock) \/ Plans(later, lock)
    BY <1>6, <1>7, <2>2
  <2>5. Plans(<<GetCameraForUpdate(c)>> \o ups' \o later, lock)
    BY <1>2, <2>3, <2>4, DeletionPlans
  <2> QED
    BY <1>5, <2>1, <2>5
<1>9. CASE x.kind \in {"connected", "lost"}
  <2>1. Queries(x) = ProcessEvent(x, c) /\ Queries(x)' = ProcessEvent(x, c)'
    BY <1>9 DEF Queries
  <2>2. \/ Mentions(GetCameraByIdForUpdate(c), lock)
        \/ Mentions(SaveCameraConnection(c), lock)
        \/ Plans(recs, lock)
    BY <1>3, <1>5, <2>1, EventPlans
  <2>3. PICK S : recs' \in Seq(S)
    BY <1>4
  <2>4. Plans(<<GetCameraByIdForUpdate(c), SaveCameraConnection(c)>> \o recs', lock)
    BY <1>7, <2>2, <2>3, EventPlans
  <2> QED
    BY <1>5, <2>1, <2>4
<1> QED
  BY <1>8, <1>9

\* A lock of finish_take is of the session or a take, or it has locked the ongoing take.
LEMMA FinishPlans ==
  ASSUME NEW x, x.kind = "finish", NEW own, NEW lock,
         InOrder(own, lock, x, ExistingTakes), lock \in own, Plans(Queries(x), lock)
  PROVE  \/ Mentions(GetSessionForUpdate, lock)
         \/ OngoingTakes # {} /\ HoldsX(own, TakeRow(OngoingTake))
<1> DEFINE o == OngoingTake
           second == IF OngoingTakes = {} THEN <<>> ELSE ReplaceOngoing(o)
<1>1. Queries(x) = <<GetOngoingTakeForUpdate, second>>
  BY DEF Queries, FinishTake
<1>2. Mentions(GetOngoingTakeForUpdate, lock) \/ Mentions(second, lock)
  <2> HIDE DEF second
  <2>1. Plans(<<GetOngoingTakeForUpdate, second>>, lock)
    BY <1>1
  <2> QED
    BY <2>1, PlansFew
<1>3. Mentions(GetOngoingTakeForUpdate, lock) =>
        Mentions(GetSessionForUpdate, lock) \/ Mentions(OngoingRows, lock)
  <2>1. GetOngoingTakeForUpdate = GetSessionForUpdate \o OngoingRows
    BY DEF GetOngoingTakeForUpdate, GetSessionForUpdate, OngoingRows
  <2> QED
    BY <2>1, FinishType, SessionQueryType, MentionsBoth DEF Among
<1>4. ASSUME NEW locks, NEW query \in Among(locks), Mentions(query, lock)
      PROVE  lock \in locks
  BY <1>4 DEF Mentions, Among
<1>5. ASSUME lock \in OfTake(o)
      PROVE  HoldsX(own, TakeRow(o))
  <2>1. CASE lock = Exclusive(TakeRow(o))
    BY <2>1 DEF HoldsX, Exclusive
  <2>2. CASE lock # Exclusive(TakeRow(o))
    <3>1. /\ lock.on[1] \in TakeTables /\ lock.on[2] = o /\ lock.mode = "X"
      BY <1>5, <2>2 DEF OfTake, TakeTables, Exclusive, RecordingRow, VideoRow
    <3> QED
      BY <3>1 DEF InOrder
  <2> QED
    BY <2>1, <2>2
<1>6. CASE Mentions(OngoingRows, lock)
  <2>1. OngoingTakes # {} /\ Mentions(LoadRecordingCameras(o), lock)
    BY <1>6, PlansFew DEF OngoingRows
  <2> QED
    BY <1>4, <1>5, <2>1, RowsOfTake
<1>7. CASE Mentions(second, lock)
  <2>1. OngoingTakes # {} /\ Mentions(ReplaceOngoing(o), lock)
    BY <1>7, PlansFew
  <2>2. o \in Takes /\ o \in ExistingTakes
    BY <2>1, OngoingTakeType
  <2>3. Mentions(ReplaceOngoingWithFinished(o), lock) \/ Mentions(SettledRows(o), lock)
    BY <2>1, <2>2, FinishType, MentionsBoth DEF ReplaceOngoing, SettledRows, Among
  <2>4. CASE Mentions(SettledRows(o), lock)
    <3>1. Mentions(DeleteRecordingCameras(o), lock)
      BY <2>4, PlansFew DEF SettledRows
    <3> QED
      BY <1>4, <1>5, <2>1, <3>1, RowsOfTake
  <2>5. CASE Mentions(ReplaceOngoingWithFinished(o), lock)
    <3> DEFINE A == {Exclusive(TakeRow(o))}
               B == UNION {InsertVideoFile(o, c) : c \in RowsOf(o)}
    <3>1. Mentions(<<A, B>>, lock)
      BY <2>5 DEF ReplaceOngoingWithFinished
    <3>2. lock \in A \/ lock \in B
      <4> HIDE DEF A, B
      <4> QED
        BY <3>1, PlansFew
    <3>3. \/ lock \in OfTake(o)
          \/ \E c \in RowsOf(o) : lock = Shared(IdentityRow(c))
      BY <3>2 DEF InsertVideoFile, OfTake, RowsOf
    <3>4. (\E c \in RowsOf(o) : lock = Shared(IdentityRow(c))) => HoldsX(own, TakeRow(o))
      BY <2>2 DEF InOrder, Shared, IdentityRow
    <3> QED
      BY <1>5, <2>1, <3>3, <3>4
  <2> QED
    BY <2>3, <2>4, <2>5
<1> QED
  BY <1>2, <1>3, <1>6, <1>7

LEMMA FinishStillPlans ==
  ASSUME NEW x, x.kind = "finish", NEW lock, Mentions(GetSessionForUpdate, lock),
         ExistingTakes' = ExistingTakes
  PROVE  Plans(Queries(x)', lock)
<1> DEFINE o == OngoingTake
           rows == IF OngoingTakes = {} THEN <<>> ELSE LoadRecordingCameras(o)
           second == IF OngoingTakes = {} THEN <<>> ELSE ReplaceOngoing(o)
<1>1. GetSessionForUpdate' = GetSessionForUpdate
  BY DEF GetSessionForUpdate
<1>2. GetOngoingTakeForUpdate' = GetSessionForUpdate' \o rows'
  BY DEF GetOngoingTakeForUpdate, GetSessionForUpdate
<1>3. \E S : rows' \in Seq(S)
  <2>1. \E S : rows' = <<>> \/ rows' = <<S>>
    BY DEF LoadRecordingCameras
  <2> HIDE DEF rows
  <2>2. PICK S : rows' = <<>> \/ rows' = <<S>>
    BY <2>1
  <2>3. <<>> \in Seq({S}) /\ <<S>> \in Seq({S})
    OBVIOUS
  <2> QED
    BY <2>2, <2>3
<1>4. Mentions(GetSessionForUpdate \o rows', lock)
  <2> HIDE DEF rows
  <2>1. PICK S : rows' \in Seq(S)
    BY <1>3
  <2> DEFINE T == (SUBSET RowLock) \cup S
  <2>2. GetSessionForUpdate \in Seq(T) /\ rows' \in Seq(T)
    BY <2>1, SessionQueryType DEF Among
  <2> HIDE DEF T
  <2> QED
    BY <2>2, MentionsBoth
<1>5. Queries(x)' = <<GetOngoingTakeForUpdate', second'>>
  BY DEF Queries, FinishTake
<1>6. Mentions(GetOngoingTakeForUpdate', lock)
  BY <1>1, <1>2, <1>4
<1>7. Plans(<<GetOngoingTakeForUpdate', second'>>, lock)
  <2> HIDE DEF second
  <2> QED
    BY <1>6, PlansFew
<1> HIDE DEF rows, second
<1> QED
  BY <1>5, <1>7

\* The locks of the deletion of a connection are of recordings that are still there.
LEMMA DeletionStillPlans ==
  ASSUME NEW x, x.kind = "deletion", NEW lock, Plans(Queries(x), lock),
         \A t \in Takes : lock = Shared(RecordingRow(t, x.cameras[1])) /\ row[t][x.cameras[1]] # "none" =>
           row'[t][x.cameras[1]] # "none"
  PROVE  Plans(Queries(x)', lock)
<1> DEFINE c == x.cameras[1]
           A == {Exclusive(ConnectionRow(c))}
           B == {Shared(RecordingRow(t, c)) : t \in {u \in Takes : row[u][c] # "none"}}
<1>1. Queries(x) = <<<<A, B>>>>
  BY DEF Queries, DeleteCameraConnection, IsDeletion
<1>2. Queries(x)' = <<<<A, B'>>>>
  BY DEF Queries, DeleteCameraConnection, IsDeletion
<1>3. lock \in A \/ lock \in B
  <2> HIDE DEF A, B
  <2>1. Plans(<<<<A, B>>>>, lock)
    BY <1>1
  <2> QED
    BY <2>1, PlansPair
<1>4. lock \in B => lock \in B'
  OBVIOUS
<1>5. Plans(<<<<A, B'>>>>, lock)
  <2> HIDE DEF A, B
  <2> QED
    BY <1>3, <1>4, PlansPair
<1> QED
  BY <1>2, <1>5

-----------------------------------------------------------------------------
(* No decision is taken another way.                                       *)

OthersPlanned ==
  \A x \in Running : x.kind # "start" => \A lock \in held[x] : Plans(Queries(x), lock)

DecisionsInv == Inv /\ RowsHaveTakes /\ StartsDecided /\ OthersPlanned

LEMMA AllPlanned ==
  ASSUME DecisionsInv
  PROVE  \A x \in Running : \A lock \in held[x] : Plans(Queries(x), lock)
<1> SUFFICES ASSUME NEW x \in Running, NEW lock \in held[x]
             PROVE  Plans(Queries(x), lock)
  OBVIOUS
<1>1. x \in Transactions
  BY DEF DecisionsInv, Inv, TypeOK
<1>2. x.kind = "start" => StartDecided(held[x], lock, x.take, x.cameras)
  BY DEF DecisionsInv, StartsDecided
<1> QED
  BY <1>1, <1>2, DecidedIsPlanned DEF DecisionsInv, OthersPlanned

\* A decision is kept when the session and the connections it has locked are.
LEMMA StartDecidedStays ==
  ASSUME NEW own, NEW more, own \subseteq more, NEW lock, NEW t, NEW cs \in Seq(Cameras),
         ExistingTakes' = ExistingTakes,
         \A c \in Cameras : HoldsX(own, ConnectionRow(c)) => ConnectionStays(c),
         StartDecided(own, lock, t, cs)
  PROVE  StartDecided(more, lock, t, cs)'
<1>1. \A i \in DOMAIN cs : Readied(own, cs, i) => Readied(more, cs, i)'
  <2> SUFFICES ASSUME NEW i \in DOMAIN cs, Readied(own, cs, i)
               PROVE  Readied(more, cs, i)'
    OBVIOUS
  <2>1. cs[i] \in Cameras /\ HoldsX(more, ConnectionRow(cs[i])) /\ ConnectionStays(cs[i])
    BY HoldsMore DEF Readied
  <2> QED
    BY <2>1 DEF Readied, IsReady, ConnectionStays
<1>2. \A i \in DOMAIN cs : \A j \in 1 .. i - 1 : j \in DOMAIN cs
  OBVIOUS
<1> QED
  BY <1>1, <1>2 DEF StartDecided

LEMMA DecisionsInitially == Init => RowsHaveTakes /\ StartsDecided /\ OthersPlanned
BY DEF Init, StoreInit, Running, RowsHaveTakes, StartsDecided, OthersPlanned

\* A step of one transaction that leaves the rows and the reads of the others.
LEMMA OthersStay ==
  ASSUME DecisionsInv, UNCHANGED storeVars, NEW y \in Running, held'[y] = held[y],
         y \in DOMAIN seen' <=> y \in DOMAIN seen, y \in DOMAIN seen => seen'[y] = seen[y]
  PROVE  /\ \A lock \in held'[y] : Plans(Queries(y)', lock)
         /\ y.kind = "start" =>
              \A lock \in held'[y] : StartDecided(held[y], lock, y.take, y.cameras)'
<1>1. y \in Transactions /\ (y \in DOMAIN seen => seen[y] \subseteq Takes)
  BY DEF DecisionsInv, Inv, TypeOK
<1>2. Queries(y)' = Queries(y)
  BY <1>1, QueriesStay
<1>3. \A lock \in held'[y] : Plans(Queries(y)', lock)
  BY <1>2, AllPlanned
<1>4. /\ ExistingTakes' = ExistingTakes
      /\ \A c \in Cameras : ConnectionStays(c)
  BY DEF storeVars, ExistingTakes, ConnectionStays
<1>5. y.kind = "start" => \A lock \in held'[y] : StartDecided(held[y], lock, y.take, y.cameras)'
  BY <1>1, <1>4, StartDecidedStays, TransactionShape DEF DecisionsInv, StartsDecided
<1> QED
  BY <1>3, <1>5

LEMMA RowsUnchanged == ASSUME RowsHaveTakes, UNCHANGED storeVars PROVE RowsHaveTakes'
BY DEF RowsHaveTakes, storeVars

\* What is left to show of a step.
LEMMA DecisionsStep ==
  ASSUME RowsHaveTakes',
         \A y \in Running' :
           /\ y.kind # "start" => \A lock \in held'[y] : Plans(Queries(y)', lock)
           /\ y.kind = "start" =>
                \A lock \in held'[y] : StartDecided(held[y], lock, y.take, y.cameras)'
  PROVE  RowsHaveTakes' /\ StartsDecided' /\ OthersPlanned'
BY DEF StartsDecided, OthersPlanned

LEMMA BeginDecides ==
  ASSUME DecisionsInv, NEW x \in Transactions, Begin(x)
  PROVE  RowsHaveTakes' /\ StartsDecided' /\ OthersPlanned'
<1>1. /\ x \notin Running /\ Running' = Running \cup {x}
      /\ held'[x] = {} /\ \A y \in Running : held'[y] = held[y]
      /\ UNCHANGED storeVars /\ UNCHANGED seen
  BY DEF Begin, Running
<1> QED
  BY <1>1, OthersStay, RowsUnchanged, DecisionsStep DEF DecisionsInv

LEMMA LockDecides ==
  ASSUME DecisionsInv, NEW x \in Transactions, Lock(x)
  PROVE  RowsHaveTakes' /\ StartsDecided' /\ OthersPlanned'
<1>1. PICK lock \in NextLocks(x) : held' = [held EXCEPT ![x] = @ \cup {lock}]
  BY DEF Lock
<1>2. /\ x \in Running /\ Running' = Running
      /\ held'[x] = held[x] \cup {lock} /\ \A y \in Running : y # x => held'[y] = held[y]
      /\ UNCHANGED storeVars /\ UNCHANGED seen
  BY <1>1 DEF Lock, Running
<1>3. x \in DOMAIN seen => seen[x] \subseteq Takes
  BY DEF DecisionsInv, Inv, TypeOK
<1>4. \A own \in held'[x] : Plans(Queries(x)', own)
  <2>1. Queries(x)' = Queries(x)
    BY <1>2, <1>3, QueriesStay
  <2>2. Plans(Queries(x), lock)
    BY AskedIsPlanned
  <2>3. \A own \in held[x] : Plans(Queries(x), own)
    BY <1>2, AllPlanned
  <2> QED
    BY <1>2, <2>1, <2>2, <2>3
<1>5. ASSUME x.kind = "start", NEW own \in held'[x]
      PROVE  StartDecided(held[x], own, x.take, x.cameras)'
  <2>1. StartDecided(held[x], own, x.take, x.cameras)
    BY <1>2, <1>5, AskedIsDecided DEF DecisionsInv, StartsDecided
  <2>2. /\ ExistingTakes' = ExistingTakes
        /\ \A c \in Cameras : ConnectionStays(c)
    BY <1>2 DEF storeVars, ExistingTakes, ConnectionStays
  <2> QED
    BY <1>2, <1>5, <2>1, <2>2, StartDecidedStays, TransactionShape
<1> QED
  BY <1>2, <1>4, <1>5, OthersStay, RowsUnchanged, DecisionsStep DEF DecisionsInv

LEMMA EndsDecides ==
  ASSUME DecisionsInv, NEW x \in Running, Ends(x), UNCHANGED storeVars
  PROVE  RowsHaveTakes' /\ StartsDecided' /\ OthersPlanned'
<1>1. /\ Running' = Running \ {x} /\ DOMAIN seen' = DOMAIN seen \ {x}
      /\ \A y \in Running' : held'[y] = held[y]
      /\ \A y \in DOMAIN seen' : seen'[y] = seen[y]
  BY EndsRunning DEF DecisionsInv
<1> QED
  BY <1>1, OthersStay, RowsUnchanged, DecisionsStep DEF DecisionsInv

LEMMA ReadDecides ==
  ASSUME DecisionsInv, NEW x \in Transactions, Read(x)
  PROVE  RowsHaveTakes' /\ StartsDecided' /\ OthersPlanned'
<1> DEFINE c == x.cameras[1]
<1>1. x \in Running /\ UNCHANGED storeVars /\ x \notin DOMAIN seen /\ (x.kind = "lost" \/ IsDeletion(x))
  BY DEF Read, MustRead
<1>2. CASE Ends(x)
  BY <1>1, <1>2, EndsDecides
<1>3. CASE ~ Ends(x)
  <2>1. /\ DOMAIN seen' = DOMAIN seen \cup {x} /\ \A y \in DOMAIN seen : seen'[y] = seen[y]
        /\ seen'[x] = IF IsDeletion(x) THEN UploadingVideos(c)
                      ELSE {t \in OngoingRecordings(c) : row[t][c] = "recording"}
        /\ held' = held
    BY <1>3 DEF Read, MustRead
  <2>2. Running' = Running
    BY <2>1 DEF Running
  <2>3. seen'[x] \subseteq Takes
    BY <2>1 DEF UploadingVideos, OngoingRecordings, OngoingTakes
  <2>4. \A t \in Takes : TakeStays(t)
    BY <1>1 DEF storeVars, TakeStays
  <2>5. ASSUME NEW lock \in held'[x]
        PROVE  Plans(Queries(x)', lock)
    <3>1. Plans(Queries(x), lock)
      BY <1>1, <2>1, AllPlanned
    <3> QED
      BY <1>1, <2>3, <2>4, <3>1, ReadStillPlans
  <2>6. x.kind # "start"
    BY <1>1 DEF IsDeletion
  <2> QED
    BY <1>1, <2>1, <2>2, <2>5, <2>6, OthersStay, RowsUnchanged, DecisionsStep DEF DecisionsInv
<1> QED
  BY <1>2, <1>3

LEMMA CommitHasTakes ==
  ASSUME TakeRowsType, RowsAreRegular, RowsHaveTakes, NEW y \in Transactions,
         y \in DOMAIN seen => seen[y] \subseteq Takes, Commits(y)
  PROVE  RowsHaveTakes'
<1>1. CASE y.kind = "start"
  <2>1. y.take \in Takes /\ InsertOngoingTake(y.take, ToSet(y.cameras))
    BY <1>1, TransactionShape DEF Commits, IsDeletion
  <2> QED
    BY <2>1 DEF InsertOngoingTake, RowsHaveTakes, TakeRowsType
<1>2. CASE y.kind = "finish"
  <2>1. PICK u \in Takes : FinishOngoingTake(u)
    BY <1>2 DEF Commits, IsDeletion
  <2>2. \A t \in Takes : /\ take'[t] = "absent" <=> take[t] = "absent"
                         /\ \A c \in Cameras : row'[t][c] # "none" => row'[t][c] = row[t][c]
    BY <2>1, FinishRows
  <2> QED
    BY <2>2 DEF RowsHaveTakes
<1>3. CASE y.kind \notin {"start", "finish"}
  <2>1. OnlySettles
    BY <1>3, CommitSettles
  <2> QED
    BY <2>1 DEF OnlySettles, RowsHaveTakes
<1> QED
  BY <1>1, <1>2, <1>3

\* Who has locked the session keeps the takes from beginning and ending.
LEMMA CommitKeepsTakes ==
  ASSUME Inv, NEW y \in Running, HasAllLocks(y), Commits(y), ~ HoldsX(held[y], SessionRow)
  PROVE  ExistingTakes' = ExistingTakes /\ OngoingTakes' = OngoingTakes
<1>1. /\ y \in Transactions /\ TakeRowsType /\ RowsAreRegular
      /\ y \in DOMAIN seen => seen[y] \subseteq Takes
  BY StoreRowsType DEF Inv, TypeOK
<1>2. y.kind \notin {"start", "finish"}
  BY <1>1, AllOfSession DEF SessionKinds
<1>3. OnlySettles
  BY <1>1, <1>2, CommitSettles
<1> QED
  BY <1>3 DEF OnlySettles, ExistingTakes, OngoingTakes

\* What is planned when another transaction commits is planned from then on.
LEMMA CommitKeepsPlans ==
  ASSUME DecisionsInv, NEW y \in Running, HasAllLocks(y), ~ MustRead(y), Commits(y),
         NEW x \in Running \ {y}, held'[x] = held[x],
         x \in DOMAIN seen' <=> x \in DOMAIN seen, x \in DOMAIN seen => seen'[x] = seen[x],
         NEW lock \in held[x]
  PROVE  /\ x.kind # "start" => Plans(Queries(x)', lock)
         /\ x.kind = "start" => StartDecided(held[x], lock, x.take, x.cameras)'
<1> DEFINE own == held[x]
           c == x.cameras[1]
<1>1. /\ Inv /\ LocksExclude /\ LocksInOrder
      /\ x \in Transactions /\ (x \in DOMAIN seen => seen[x] \subseteq Takes)
      /\ own # {} /\ InOrder(own, lock, x, ExistingTakes) /\ Plans(Queries(x), lock)
  BY AllPlanned DEF DecisionsInv, Inv, TypeOK, LocksInOrder
<1>2. \A name : HoldsX(own, name) => ~ HoldsX(held[y], name)
  BY <1>1, OneHolder
<1>3. \A t \in Takes : HoldsX(own, TakeRow(t)) => TakeStays(t)
  BY <1>1, <1>2, CommitKeepsTake
<1>4. HoldsX(own, SessionRow) => ExistingTakes' = ExistingTakes /\ OngoingTakes' = OngoingTakes
  BY <1>1, <1>2, CommitKeepsTakes
<1>5. /\ x \in DOMAIN seen => IsDeletion(x) \/ x.kind = "lost"
      /\ x.kind \in {"start", "finish", "create"} => HoldsX(own, SessionRow)
  BY <1>1, HoldsFirst DEF Inv, ReadsHold, SessionKinds
<1>6. CASE x.kind \in TakeKinds
  <2>1. x.take \in Takes /\ TakeStays(x.take)
    BY <1>1, <1>3, <1>6, HoldsFirst, TransactionShape
  <2>2. x \notin DOMAIN seen
    BY <1>5, <1>6 DEF TakeKinds, IsDeletion
  <2>3. Queries(x)' = Queries(x)
    BY <1>1, <1>6, <2>1, <2>2, QueriesKept DEF TakeKinds
  <2> QED
    BY <1>1, <1>6, <2>3 DEF TakeKinds
<1>7. CASE x.kind = "start"
  <2>1. \A d \in Cameras : HoldsX(own, ConnectionRow(d)) => ConnectionStays(d)
    BY <1>1, <1>2, CommitKeepsConnection
  <2>2. StartDecided(own, lock, x.take, x.cameras)
    BY <1>7 DEF DecisionsInv, StartsDecided
  <2>3. StartDecided(held[x], lock, x.take, x.cameras)'
    BY <1>1, <1>4, <1>5, <1>7, <2>1, <2>2, StartDecidedStays, TransactionShape
  <2> QED
    BY <1>7, <2>3
<1>8. CASE x.kind = "finish"
  <2>1. ExistingTakes' = ExistingTakes /\ OngoingTakes' = OngoingTakes /\ x \notin DOMAIN seen
    BY <1>4, <1>5, <1>8 DEF IsDeletion
  <2>2. CASE OngoingTakes # {} /\ ~ HoldsX(own, TakeRow(OngoingTake))
    <3>1. Mentions(GetSessionForUpdate, lock)
      BY <1>1, <1>8, <2>2, FinishPlans
    <3> QED
      BY <1>8, <2>1, <3>1, FinishStillPlans
  <2>3. CASE OngoingTakes # {} => HoldsX(own, TakeRow(OngoingTake))
    <3>1. OngoingTakes # {} => OngoingTake \in Takes /\ TakeStays(OngoingTake)
      BY <1>3, <2>3, OngoingTakeType
    <3>2. Queries(x)' = Queries(x)
      BY <1>1, <1>8, <2>1, <3>1, QueriesKept DEF TakeKinds
    <3> QED
      BY <1>1, <1>8, <3>2
  <2> QED
    BY <2>2, <2>3
<1>9. CASE x.kind \in {"create", "provisioned"}
  <2>1. x \notin DOMAIN seen /\ (x.kind = "create" => ExistingTakes' = ExistingTakes)
    BY <1>4, <1>5, <1>9 DEF IsDeletion
  <2>2. Queries(x)' = Queries(x)
    BY <1>1, <1>9, <2>1, QueriesKept DEF TakeKinds
  <2> QED
    BY <1>1, <1>9, <2>2
<1>10. CASE IsDeletion(x) \/ x.kind \in {"connected", "lost"}
  <2>1. ASSUME NEW t \in Takes, lock \in OfTake(t) PROVE TakeStays(t)
    <3>1. CASE lock = Exclusive(TakeRow(t))
      BY <1>3, <3>1 DEF HoldsX, Exclusive
    <3>2. CASE lock # Exclusive(TakeRow(t))
      <4>1. lock.on[1] \in TakeTables /\ lock.on[2] = t /\ lock.mode = "X"
        BY <2>1, <3>2 DEF OfTake, TakeTables, Exclusive, RecordingRow, VideoRow
      <4> QED
        BY <1>1, <1>3, <1>10, <4>1 DEF InOrder, IsDeletion
    <3> QED
      BY <3>1, <3>2
  <2>2. Plans(Queries(x)', lock)
    BY <1>1, <1>10, <2>1, ReadStillPlans
  <2> QED
    BY <1>10, <2>2 DEF IsDeletion
<1>11. CASE x.kind = "deletion"
  <2>1. c \in Cameras
    BY <1>1, <1>11, TransactionShape DEF CameraKinds
  <2>2. ASSUME NEW t \in Takes, lock = Shared(RecordingRow(t, c)), row[t][c] # "none",
               row'[t][c] = "none"
        PROVE  FALSE
    <3>1. HoldsX(held[y], RecordingRow(t, c))
      BY <1>1, <2>1, <2>2, CommitKeepsRow DEF DecisionsInv
    <3>2. PICK other \in held[y] : other.on = RecordingRow(t, c) /\ other.mode = "X"
      BY <3>1 DEF HoldsX
    <3>3. lock.on = other.on /\ lock.mode = "S"
      BY <2>2, <3>2 DEF Shared
    <3> QED
      BY <1>1, <3>2, <3>3 DEF LocksExclude
  <2>3. Plans(Queries(x)', lock)
    BY <1>1, <1>11, <2>2, DeletionStillPlans
  <2> QED
    BY <1>11, <2>3
<1> QED
  BY <1>1, <1>6, <1>7, <1>8, <1>9, <1>10, <1>11, TransactionShape
     DEF SessionKinds, EventKinds, IsDeletion

LEMMA CommitDecides ==
  ASSUME DecisionsInv, NEW y \in Transactions, Commit(y)
  PROVE  RowsHaveTakes' /\ StartsDecided' /\ OthersPlanned'
<1>1. y \in Running /\ HasAllLocks(y) /\ ~ MustRead(y) /\ Ends(y)
  BY DEF Commit
<1>2. CASE IsRefused(y)
  <2>1. UNCHANGED storeVars
    BY <1>2 DEF Commit
  <2> QED
    BY <1>1, <2>1, EndsDecides
<1>3. CASE ~ IsRefused(y)
  <2>1. Commits(y)
    BY <1>3 DEF Commit
  <2>2. /\ Running' = Running \ {y} /\ DOMAIN seen' = DOMAIN seen \ {y}
        /\ \A x \in Running' : held'[x] = held[x]
        /\ \A x \in DOMAIN seen' : seen'[x] = seen[x]
    BY <1>1, EndsRunning DEF DecisionsInv
  <2>3. RowsHaveTakes'
    BY <2>1, CommitHasTakes, StoreRowsType DEF DecisionsInv, Inv, TypeOK
  <2>4. ASSUME NEW x \in Running'
        PROVE  /\ x.kind # "start" => \A lock \in held'[x] : Plans(Queries(x)', lock)
               /\ x.kind = "start" =>
                    \A lock \in held'[x] : StartDecided(held[x], lock, x.take, x.cameras)'
    BY <1>1, <2>1, <2>2, CommitKeepsPlans
  <2> QED
    BY <2>3, <2>4, DecisionsStep
<1> QED
  BY <1>2, <1>3

LEMMA StutterDecides ==
  ASSUME DecisionsInv, UNCHANGED vars
  PROVE  RowsHaveTakes' /\ StartsDecided' /\ OthersPlanned'
<1>1. UNCHANGED storeVars /\ UNCHANGED held /\ UNCHANGED seen /\ Running' = Running
  BY DEF vars, Running
<1> QED
  BY <1>1, OthersStay, RowsUnchanged, DecisionsStep DEF DecisionsInv

\* What a transaction has locked rows for is decided.
THEOREM DecisionsKept == Spec => []DecisionsStand
<1>1. Init => DecisionsInv
  BY Initially, DecisionsInitially DEF DecisionsInv
<1>2. DecisionsInv /\ [Next]_vars => DecisionsInv'
  <2>1. Inv /\ [Next]_vars => Inv'
    BY BeginStep, LockStep, ReadStep, CommitStep, AbortStep, StutterStep DEF Next
  <2>2. ASSUME DecisionsInv, NEW x \in Transactions, Abort(x)
        PROVE  RowsHaveTakes' /\ StartsDecided' /\ OthersPlanned'
    BY <2>2, EndsDecides DEF Abort
  <2>3. DecisionsInv /\ [Next]_vars => RowsHaveTakes' /\ StartsDecided' /\ OthersPlanned'
    BY <2>2, BeginDecides, LockDecides, ReadDecides, CommitDecides, StutterDecides DEF Next
  <2> QED
    BY <2>1, <2>3 DEF DecisionsInv
<1>3. DecisionsInv => DecisionsStand
  BY AllPlanned DEF DecisionsStand, Plans, Mentions
<1> QED
  BY <1>1, <1>2, <1>3, PTL DEF Spec
=============================================================================
