---------------------------- MODULE WorkerProofs ----------------------------
(***************************************************************************)
(* Theorems about module CameraWorker, for any set of takes, any capacity  *)
(* of the queue and any bound of the event channel.                        *)
(***************************************************************************)
EXTENDS CameraWorker, FiniteSetTheorems, SequenceTheorems, TLAPS

-----------------------------------------------------------------------------
(* Types.                                                                  *)

\* The number of waiting calls is a number.
LEMMA WaitingCallsType == WaitingCalls \in Nat
<1>1. /\ IsFiniteSet({t \in Takes : start[t] = "waiting"})
      /\ IsFiniteSet({t \in Takes : finish[t] = "waiting"})
  BY TakesAssumption, FS_Subset
<1> QED
  BY <1>1, FS_CardinalityType DEF WaitingCalls

\* A queue with room, or with a free slot, takes one more command.
LEMMA AppendFits ==
  ASSUME queue \in Seq(Command), NEW STATE command, command \in Command,
         HasRoom \/ Len(queue) < Capacity
  PROVE  /\ Append(queue, command) \in Seq(Command)
         /\ Len(Append(queue, command)) <= Capacity
<1>1. Len(queue) < Capacity
  BY WaitingCallsType, CapacityAssumption DEF HasRoom
<1> QED
  BY <1>1, CapacityAssumption

InputEvent == [camera : {Camera}, state : {"waiting", "connected", "errored"}]

\* What the worker sends to the event channel are changes of its input.
LEMMA ReportType ==
  ASSUME NEW STATE known, known \in BOOLEAN, NEW state \in {"waiting", "connected", "errored"}
  PROVE  /\ Report(state) \in Seq(InputEvent)
         /\ ReportUnless(known, state) \in Seq(InputEvent)
<1>1. [camera |-> Camera, state |-> state] \in InputEvent
  BY DEF InputEvent
<1>2. Report(state) \in Seq(InputEvent)
  BY <1>1 DEF Report
<1>3. ReportUnless(known, state) \in Seq(InputEvent)
  BY <1>2 DEF ReportUnless
<1> QED
  BY <1>2, <1>3

\* The event channel holds nothing else.
LEMMA EmitType ==
  ASSUME events \in Seq(InputEvent), NEW STATE new, new \in Seq(InputEvent), Emit(new)
  PROVE  events' \in Seq(InputEvent)
BY DEF Emit

\* A written packet leaves a well-formed file of the same take.
LEMMA WrittenType ==
  ASSUME file \in File, NEW STATE packet, packet \in [op : {"packet"}, afterLoss : BOOLEAN]
  PROVE  /\ Written(packet) \in File
         /\ Written(packet).overflow = file.overflow
         /\ Written(packet).take = file.take
BY DEF Written, File

\* Every operation of registry, librist thread and calls keeps the types.
LEMMA OutsideTypeStep ==
  ASSUME TypeOK,
         \/ Provision \/ Revoke \/ Ingest \/ SetFlag \/ Timeout \/ DropHandle
         \/ \E t \in Takes : \/ CallStart(t) \/ CallFinish(t) \/ Abandon(t)
                             \/ EnqueueStart(t) \/ EnqueueFinish(t)
  PROVE  TypeOK'
<1> USE DEF TypeOK, ingressVars, callVars, inputVars
<1>1. CASE Provision
  BY <1>1 DEF Provision
<1>2. CASE Revoke
  BY ZenonT(60), <1>2 DEF Revoke
<1>3. CASE Ingest
  <2>1. CASE HasRoom /\ queue' = Append(queue, [op |-> "packet", afterLoss |-> lossSince])
    <3>1. [op |-> "packet", afterLoss |-> lossSince] \in Command
      BY DEF Command
    <3>2. queue' \in Seq(Command) /\ Len(queue') <= Capacity
      BY <2>1, <3>1, AppendFits
    <3> QED
      BY ZenonT(60), <1>3, <3>2 DEF Ingest
  <2>2. CASE UNCHANGED queue
    BY ZenonT(60), <1>3, <2>2 DEF Ingest
  <2> QED
    BY <1>3, <2>1, <2>2 DEF Ingest
<1>4. CASE SetFlag
  <2>1. file' \in File \cup {NoFile}
    BY <1>4 DEF SetFlag, File
  <2> QED
    BY ZenonT(60), <1>4, <2>1 DEF SetFlag
<1>5. CASE Timeout
  <2>1. [op |-> "disconnected"] \in Command
    BY DEF Command
  <2>2. queue' \in Seq(Command) /\ Len(queue') <= Capacity
    BY <1>5, <2>1, AppendFits DEF Timeout
  <2> QED
    BY <1>5, <2>2 DEF Timeout
<1>6. CASE DropHandle
  <2>1. [op |-> "shutdown"] \in Command
    BY DEF Command
  <2>2. queue' \in Seq(Command) /\ Len(queue') <= Capacity
    BY <1>6, <2>1, AppendFits DEF DropHandle
  <2> QED
    BY <1>6, <2>2 DEF DropHandle
<1>7. ASSUME NEW t \in Takes, CallStart(t) PROVE TypeOK'
  BY <1>7 DEF CallStart
<1>8. ASSUME NEW t \in Takes, CallFinish(t) PROVE TypeOK'
  BY SMTT(60), <1>8 DEF CallFinish
<1>9. ASSUME NEW t \in Takes, Abandon(t) PROVE TypeOK'
  BY <1>9 DEF Abandon
<1>10. ASSUME NEW t \in Takes, EnqueueStart(t) PROVE TypeOK'
  <2>1. [op |-> "start", take |-> t] \in Command
    BY DEF Command
  <2>2. queue' \in Seq(Command) /\ Len(queue') <= Capacity
    BY <1>10, <2>1, AppendFits DEF EnqueueStart
  <2> QED
    BY <1>10, <2>2 DEF EnqueueStart
<1>11. ASSUME NEW t \in Takes, EnqueueFinish(t) PROVE TypeOK'
  <2>1. [op |-> "finish", take |-> t] \in Command
    BY DEF Command
  <2>2. queue' \in Seq(Command) /\ Len(queue') <= Capacity
    BY <1>11, <2>1, AppendFits DEF EnqueueFinish
  <2> QED
    BY <1>11, <2>2 DEF EnqueueFinish
<1> QED
  BY <1>1, <1>2, <1>3, <1>4, <1>5, <1>6, <1>7, <1>8, <1>9, <1>10, <1>11

\* A command that is handled is the one of its operation.
LEMMA CurrentType ==
  ASSUME TypeOK
  PROVE  /\ current.op = "packet" => current \in [op : {"packet"}, afterLoss : BOOLEAN]
         /\ current.op = "shutdown" => current \in Command
BY DEF TypeOK, Command, NoCommand

\* Every step of the worker keeps the types.
LEMMA WorkerTypeStep ==
  ASSUME TypeOK, Receive \/ Handle \/ ReadEvent
  PROVE  TypeOK'
<1> USE DEF TypeOK, ingressVars, callVars, inputVars, Handles
<1>e. events \in Seq(InputEvent)
  BY DEF InputEvent
<1>1. CASE Receive
  <2>1. Head(queue) \in Command /\ Tail(queue) \in Seq(Command)
        /\ Len(Tail(queue)) <= Capacity
    BY <1>1, CapacityAssumption DEF Receive
  <2> QED
    BY <1>1, <1>e, <2>1 DEF Receive, InputEvent
<1>2. CASE HandlePacket
  <2>1. file' \in File \cup {NoFile}
    BY <1>2, WrittenType, CurrentType DEF HandlePacket
  <2>2. events' \in Seq(InputEvent)
    <3>1. CASE Emit(ReportUnless(connected, "connected"))
      BY <3>1, <1>e, ReportType, EmitType
    <3>2. CASE Emit(ReportUnless(connected, "connected") \o Report("errored"))
      <4>1. ReportUnless(connected, "connected") \o Report("errored") \in Seq(InputEvent)
        BY ReportType, ConcatProperties
      <4> QED
        BY <3>2, <4>1, <1>e, EmitType
    <3> QED
      BY <1>2, <3>1, <3>2 DEF HandlePacket
  <2> QED
    BY <1>2, <2>1, <2>2 DEF HandlePacket, InputEvent
<1>3. CASE HandlePacketAfterOverflow
  <2>1. ReportUnless(errored, "errored") \o Report("connected") \in Seq(InputEvent)
    BY ReportType, ConcatProperties
  <2>2. events' \in Seq(InputEvent)
    BY <1>3, <1>e, <2>1, EmitType DEF HandlePacketAfterOverflow
  <2> QED
    BY <1>3, <2>2 DEF HandlePacketAfterOverflow, InputEvent
<1>4. CASE HandleDisconnected
  <2>1. events' \in Seq(InputEvent)
    BY <1>4, <1>e, ReportType, EmitType DEF HandleDisconnected
  <2> QED
    BY <1>4, <2>1 DEF HandleDisconnected, InputEvent
<1>5. CASE End
  BY <1>5, <1>e DEF End, InputEvent
<1>6. ASSUME NEW t \in Takes, HandleStart(t) PROVE TypeOK'
  <2>1. [take |-> t, written |-> FALSE, gap |-> FALSE, overflow |-> FALSE] \in File
    BY DEF File
  <2>2. file' \in File \cup {NoFile}
    BY <1>6, <2>1 DEF HandleStart
  <2> QED
    BY <1>6, <2>2 DEF HandleStart, Answer
<1>7. ASSUME NEW t \in Takes, HandleFinish(t) PROVE TypeOK'
  <2>1. file.take = t => file \in File
    BY TakesAssumption DEF NoFile
  <2>2. file' \in File \cup {NoFile} /\ final' \subseteq File
    BY <1>7, <2>1 DEF HandleFinish, Finishes
  <2>3. finish' \in [Takes -> {"idle", "waiting", "queued", "finalized", "failed", "skipped"}]
    BY <1>7 DEF HandleFinish, Finishes, Answer
  <2> QED
    BY <1>7, <2>2, <2>3 DEF HandleFinish
<1>8. ASSUME NEW t \in Takes, HandleFinishAfterOverflow(t) PROVE TypeOK'
  <2>1. events' \in Seq(InputEvent)
    BY <1>8, <1>e, ReportType, EmitType DEF HandleFinishAfterOverflow
  <2> QED
    BY <1>8, <2>1 DEF HandleFinishAfterOverflow, Answer, InputEvent
<1>9. CASE ReadEvent
  <2>1. events' \in Seq(InputEvent)
    BY <1>9, <1>e DEF ReadEvent
  <2> QED
    BY <1>9, <2>1 DEF ReadEvent, InputEvent
<1> QED
  BY <1>1, <1>2, <1>3, <1>4, <1>5, <1>6, <1>7, <1>8, <1>9 DEF Handle

\* The types hold in every reachable state.
THEOREM WorkerTypeCorrect == Spec => []TypeOK
<1>1. ASSUME Init PROVE TypeOK
  <2>1. queue \in Seq(Command) /\ Len(queue) <= Capacity /\ events \in Seq(InputEvent)
    BY <1>1, CapacityAssumption DEF Init
  <2>2. /\ start \in [Takes -> {"idle", "waiting", "queued", "started", "failed"}]
        /\ finish \in [Takes -> {"idle", "waiting", "queued", "finalized", "failed", "skipped"}]
    BY <1>1 DEF Init
  <2> QED
    BY <1>1, <2>1, <2>2 DEF Init, TypeOK, InputEvent
<1>2. TypeOK /\ [Next]_vars => TypeOK'
  <2>1. ASSUME TypeOK, Next PROVE TypeOK'
    BY <2>1, OutsideTypeStep, WorkerTypeStep DEF Next
  <2>2. ASSUME TypeOK, UNCHANGED vars PROVE TypeOK'
    BY <2>2 DEF TypeOK, vars, ingressVars, callVars, inputVars
  <2> QED
    BY <2>1, <2>2
<1> QED
  BY <1>1, <1>2, PTL DEF Spec

-----------------------------------------------------------------------------
(* A recording with a refused packet is not finished.                      *)

\* The flag stays set until it fails the file it was set on.
FlagInv == (file.overflow => overflowed) /\ OverflowFailsRecording

\* No step finishes a file with the flag, or clears the flag under a file.
LEMMA FlagInvStep ==
  ASSUME TypeOK, FlagInv, Next
  PROVE  FlagInv'
<1> USE DEF FlagInv, OverflowFailsRecording
<1>1. ASSUME UNCHANGED <<overflowed, file, final>> PROVE FlagInv'
  BY <1>1
<1>2. ASSUME file' = NoFile, UNCHANGED final PROVE FlagInv'
  BY <1>2 DEF NoFile
<1>3. CASE SetFlag
  BY <1>3 DEF SetFlag
<1>4. CASE HandlePacket
  <2>1. CASE file' = Written(current) /\ file # NoFile
    BY <1>4, <2>1, WrittenType, CurrentType DEF HandlePacket, Handles, TypeOK
  <2> QED
    BY <1>1, <1>2, <1>4, <2>1 DEF HandlePacket
<1>5. ASSUME NEW t \in Takes, HandleStart(t) PROVE FlagInv'
  BY <1>5 DEF HandleStart
<1>6. ASSUME NEW t \in Takes, HandleFinish(t) PROVE FlagInv'
  <2>1. CASE file' = NoFile /\ final' = final \cup {file}
    BY <1>6, <2>1 DEF HandleFinish, NoFile
  <2> QED
    BY <1>1, <1>2, <1>6, <2>1 DEF HandleFinish, Finishes
<1>7. CASE HandlePacketAfterOverflow \/ HandleDisconnected \/ End
  BY <1>2, <1>7 DEF HandlePacketAfterOverflow, HandleDisconnected, End
<1>8. ASSUME NEW t \in Takes, HandleFinishAfterOverflow(t) PROVE FlagInv'
  BY <1>2, <1>8 DEF HandleFinishAfterOverflow
<1>9. ASSUME \/ Provision \/ Revoke \/ Ingest \/ Timeout \/ DropHandle
             \/ \E t \in Takes : \/ CallStart(t) \/ CallFinish(t) \/ Abandon(t)
                                 \/ EnqueueStart(t) \/ EnqueueFinish(t)
             \/ Receive \/ ReadEvent
      PROVE  FlagInv'
  BY <1>1, <1>9 DEF Provision, Revoke, Ingest, Timeout, DropHandle, CallStart, CallFinish,
       Abandon, EnqueueStart, EnqueueFinish, Receive, ReadEvent
<1> QED
  BY <1>3, <1>4, <1>5, <1>6, <1>7, <1>8, <1>9 DEF Next, Handle

\* A file that is open when the flag is set is never finished as a recording
\* (OverflowFailsRecording), for any capacity of the queue.
THEOREM OverflowNeverFinalizes == Spec => []OverflowFailsRecording
<1>1. Init => FlagInv
  BY DEF Init, FlagInv, OverflowFailsRecording, NoFile
<1>2. TypeOK /\ FlagInv /\ [Next]_vars => FlagInv'
  <2>1. ASSUME FlagInv, UNCHANGED vars PROVE FlagInv'
    BY <2>1 DEF FlagInv, OverflowFailsRecording, vars
  <2> QED
    BY <2>1, FlagInvStep
<1>3. FlagInv => OverflowFailsRecording
  BY DEF FlagInv
<1> QED
  BY <1>1, <1>2, <1>3, WorkerTypeCorrect, PTL DEF Spec

-----------------------------------------------------------------------------
(* The worker implements MediaServer.                                      *)

\* How the flags of the worker, its file and the registry fit together.
LinkInv ==
  /\ worker \in {"unborn", "ended"} => current = NoCommand /\ file = NoFile
  /\ worker = "unborn" => ~ connected /\ ~ errored
  /\ registered => worker = "running"
  /\ connected => ~ errored
  /\ file # NoFile => connected

\* What the operations of registry, librist thread and calls leave of it.
LEMMA OutsideLinkStep ==
  ASSUME TypeOK, LinkInv,
         \/ Provision \/ Revoke \/ Ingest \/ SetFlag \/ Timeout \/ DropHandle
         \/ \E t \in Takes : \/ CallStart(t) \/ CallFinish(t) \/ Abandon(t)
                             \/ EnqueueStart(t) \/ EnqueueFinish(t)
  PROVE  LinkInv'
<1> USE DEF LinkInv, ingressVars, callVars, inputVars
<1>1. CASE Provision \/ Revoke \/ Ingest \/ Timeout
  BY <1>1 DEF Provision, Revoke, Ingest, Timeout
<1>2. CASE SetFlag
  BY <1>2 DEF SetFlag
<1>3. CASE DropHandle
  BY <1>3 DEF DropHandle, Held
<1>4. ASSUME NEW t \in Takes,
             CallStart(t) \/ CallFinish(t) \/ Abandon(t) \/ EnqueueStart(t) \/ EnqueueFinish(t)
      PROVE  LinkInv'
  BY <1>4 DEF CallStart, CallFinish, Abandon, EnqueueStart, EnqueueFinish
<1> QED
  BY <1>1, <1>2, <1>3, <1>4

\* A command is handled only by a worker that runs.
LEMMA WorkerLinkStep ==
  ASSUME TypeOK, LinkInv, Receive \/ Handle \/ ReadEvent
  PROVE  LinkInv'
<1> USE DEF LinkInv, ingressVars, callVars, inputVars
<1>0. NoCommand.op = "none"
  BY DEF NoCommand
<1>1. CASE Receive \/ ReadEvent \/ End
  BY <1>1 DEF Receive, ReadEvent, End
<1>2. CASE HandlePacket \/ HandlePacketAfterOverflow \/ HandleDisconnected
  BY <1>0, <1>2 DEF HandlePacket, HandlePacketAfterOverflow, HandleDisconnected, Handles
<1>3. ASSUME NEW t \in Takes, HandleStart(t) \/ HandleFinish(t) \/ HandleFinishAfterOverflow(t)
      PROVE  LinkInv'
  BY <1>0, <1>3 DEF HandleStart, HandleFinish, Finishes, HandleFinishAfterOverflow, Handles
<1> QED
  BY <1>1, <1>2, <1>3 DEF Handle

\* The invariant holds in every reachable state.
LEMMA LinkInvariant == Spec => []LinkInv
<1>1. Init => LinkInv
  BY DEF Init, LinkInv
<1>2. TypeOK /\ LinkInv /\ [Next]_vars => LinkInv'
  <2>1. ASSUME LinkInv, UNCHANGED vars PROVE LinkInv'
    BY <2>1 DEF LinkInv, vars, inputVars
  <2> QED
    BY <2>1, OutsideLinkStep, WorkerLinkStep DEF Next
<1> QED
  BY <1>1, <1>2, WorkerTypeCorrect, PTL DEF Spec

\* The take of a file tells whether there is one.
LEMMA FileTake ==
  ASSUME NEW f \in File \cup {NoFile}
  PROVE  f.take = NoTake <=> f = NoFile
BY TakesAssumption DEF File, NoFile

\* What the registry, the librist thread and the calls do is a registry
\* operation of MediaServer, or invisible there.
LEMMA OutsideImplements ==
  ASSUME TypeOK, LinkInv,
         \/ Provision \/ Revoke \/ Ingest \/ SetFlag \/ Timeout \/ DropHandle
         \/ \E t \in Takes : \/ CallStart(t) \/ CallFinish(t) \/ Abandon(t)
                             \/ EnqueueStart(t) \/ EnqueueFinish(t)
  PROVE  [Media!MediaNext]_Media!mediaVars
<1> USE DEF LinkInv, ingressVars, callVars, inputVars, Media!mediaVars
<1>1. CASE Provision
  <2>1. Media!ProvisionCamera(Camera)
    BY <1>1 DEF Provision, Media!ProvisionCamera, Link
  <2> QED
    BY <2>1 DEF Media!MediaNext
<1>2. CASE Revoke
  <2>1. Media!RevokeCamera(Camera)
    BY <1>2 DEF Revoke, Media!RevokeCamera, Link
  <2> QED
    BY <2>1 DEF Media!MediaNext
<1>3. CASE Ingest \/ Timeout
  BY <1>3 DEF Ingest, Timeout, Link
<1>4. CASE SetFlag
  <2>1. file'.take = file.take
    BY <1>4 DEF SetFlag, TypeOK, File
  <2> QED
    BY <1>4, <2>1 DEF SetFlag, Link
<1>5. CASE DropHandle
  BY <1>5 DEF DropHandle, Link
<1>6. ASSUME NEW t \in Takes,
             CallStart(t) \/ CallFinish(t) \/ Abandon(t) \/ EnqueueStart(t) \/ EnqueueFinish(t)
      PROVE  UNCHANGED Media!mediaVars
  BY <1>6 DEF CallStart, CallFinish, Abandon, EnqueueStart, EnqueueFinish, Link
<1> QED
  BY <1>1, <1>2, <1>3, <1>4, <1>5, <1>6

\* A worker that handles a command runs.
LEMMA HandlesLink ==
  ASSUME TypeOK, LinkInv, NEW op, op # "none", Handles(op)
  PROVE  /\ Link # "gone"
         /\ Link = IF connected THEN "connected" ELSE IF errored THEN "errored" ELSE "waiting"
         /\ Link' = IF connected' THEN "connected"
                    ELSE IF errored' THEN "errored" ELSE "waiting"
<1>1. worker \notin {"unborn", "ended"} /\ worker' = worker
  BY DEF Handles, LinkInv, NoCommand
<1> QED
  BY <1>1 DEF Link

\* What the worker handles is an operation of the worker of MediaServer, or
\* invisible there.
LEMMA HandleImplements ==
  ASSUME TypeOK, TypeOK', LinkInv, LinkInv', Handle
  PROVE  [Media!MediaNext]_Media!mediaVars
<1> USE DEF inputVars, Media!mediaVars
<1>f. /\ file.take = NoTake <=> file = NoFile
      /\ file'.take = NoTake <=> file' = NoFile
  BY FileTake DEF TypeOK
<1>r. NoFile.take = NoTake
  BY DEF NoFile
<1>1. CASE HandlePacket
  <2>1. CASE connected /\ Emit(ReportUnless(connected, "connected")) /\ connected'
             /\ file' = IF file = NoFile THEN file ELSE Written(current)
    <3>1. file'.take = file.take
      BY <1>1, <2>1, WrittenType, CurrentType DEF HandlePacket, Handles, TypeOK
    <3>2. events' = events
      BY <2>1, ConcatEmptySeq DEF Emit, ReportUnless, TypeOK
    <3>3. Link' = Link /\ registered' = registered
      BY <1>1, <2>1, HandlesLink DEF HandlePacket, Handles
    <3> QED
      BY <3>1, <3>2, <3>3
  <2>2. CASE ~ connected /\ Emit(ReportUnless(connected, "connected"))
             /\ connected' /\ ~ errored'
    <3>1. file = NoFile /\ file' = NoFile
      BY <1>1, <2>2 DEF HandlePacket, LinkInv
    <3>2. Media!Packet(Camera)
      BY <1>1, <1>r, <2>2, <3>1, HandlesLink
      DEF HandlePacket, Handles, Media!Packet, Media!Emit, Media!Event, Emit, ReportUnless,
          Report
    <3> QED
      BY <3>2 DEF Media!MediaNext
  <2>3. CASE file # NoFile /\ file' = NoFile /\ ~ connected' /\ errored'
             /\ Emit(ReportUnless(connected, "connected") \o Report("errored"))
    <3>1. connected
      BY <2>3 DEF LinkInv
    <3>2. Emit(Report("errored"))
      BY <2>3, <3>1, ReportType, ConcatEmptySeq DEF ReportUnless
    <3>3. Media!WriteFails(Camera)
      BY <1>1, <1>f, <1>r, <2>3, <3>1, <3>2, HandlesLink
      DEF HandlePacket, Handles, Media!WriteFails, Media!Failure, Media!Emit, Media!Event,
          Emit, Report
    <3> QED
      BY <3>3 DEF Media!MediaNext
  <2> QED
    BY <1>1, <2>1, <2>2, <2>3 DEF HandlePacket
<1>2. CASE HandlePacketAfterOverflow
  <2>1. Media!PacketAfterOverflow(Camera)
    BY <1>2, <1>r, HandlesLink
    DEF HandlePacketAfterOverflow, Handles, LinkInv, Media!PacketAfterOverflow,
        Media!Failure, Media!Emit, Media!Event, Emit, ReportUnless, Report
  <2> QED
    BY <2>1 DEF Media!MediaNext
<1>3. CASE HandleDisconnected
  <2>1. CASE ~ connected /\ ~ errored
    <3>1. events' = events
      BY <1>3, <2>1, ConcatEmptySeq DEF HandleDisconnected, Emit, ReportUnless, TypeOK
    <3>2. file = NoFile /\ file' = NoFile
      BY <1>3, <2>1 DEF HandleDisconnected, LinkInv
    <3> QED
      BY <1>3, <2>1, <3>1, <3>2, HandlesLink DEF HandleDisconnected, Handles
  <2>2. CASE connected \/ errored
    <3>1. Media!Disconnected(Camera)
      BY <1>3, <1>r, <2>2, HandlesLink
      DEF HandleDisconnected, Handles, Media!Disconnected, Media!Emit, Media!Event, Emit,
          ReportUnless, Report
    <3> QED
      BY <3>1 DEF Media!MediaNext
  <2> QED
    BY <2>1, <2>2
<1>4. CASE End
  <2>1. Media!Shutdown(Camera)
    BY <1>4, <1>r DEF End, LinkInv, Link, Media!Shutdown
  <2> QED
    BY <2>1 DEF Media!MediaNext
<1>5. ASSUME NEW t \in Takes, HandleStart(t) PROVE [Media!MediaNext]_Media!mediaVars
  <2>1. Link' = Link /\ registered' = registered /\ events' = events
    BY <1>5, HandlesLink DEF HandleStart, Handles
  <2>2. CASE connected /\ file = NoFile /\ file'.take = t
    <3>1. Media!StartsRecording(t, Camera)
      BY <1>5, <1>r, <2>1, <2>2, HandlesLink DEF HandleStart, Media!StartsRecording
    <3> QED
      BY <3>1 DEF Media!MediaNext
  <2>3. CASE UNCHANGED file
    BY <2>1, <2>3
  <2> QED
    BY <1>5, <2>2, <2>3 DEF HandleStart
<1>6. ASSUME NEW t \in Takes, HandleFinish(t) PROVE [Media!MediaNext]_Media!mediaVars
  <2>1. Link' = Link /\ registered' = registered /\ events' = events
    BY <1>6, HandlesLink DEF HandleFinish, Handles
  <2>2. CASE file.take = t /\ file' = NoFile
    <3>1. Media!FinishesRecording(t, Camera)
      BY <1>r, <2>1, <2>2 DEF Media!FinishesRecording
    <3> QED
      BY <3>1 DEF Media!MediaNext
  <2>3. CASE UNCHANGED file
    BY <2>1, <2>3
  <2> QED
    BY <1>6, <2>2, <2>3 DEF HandleFinish, Finishes
<1>7. ASSUME NEW t \in Takes, HandleFinishAfterOverflow(t)
      PROVE  [Media!MediaNext]_Media!mediaVars
  <2>1. Media!FinishAfterOverflow(Camera)
    BY <1>7, <1>r, HandlesLink
    DEF HandleFinishAfterOverflow, Handles, LinkInv, Media!FinishAfterOverflow,
        Media!Failure, Media!Emit, Media!Event, Emit, ReportUnless, Report
  <2> QED
    BY <2>1 DEF Media!MediaNext
<1> QED
  BY <1>1, <1>2, <1>3, <1>4, <1>5, <1>6, <1>7 DEF Handle

\* The worker with its bounded queue and its flag implements the worker of
\* MediaServer (ImplementsMediaServer), for any capacity of the queue: what the
\* backend observes of a camera does not depend on what the queue drops.
THEOREM WorkerImplements == Spec => ImplementsMediaServer
<1>1. Init => Media!MediaInit
  BY DEF Init, Media!MediaInit, Link, NoFile
<1>2. TypeOK /\ TypeOK' /\ LinkInv /\ LinkInv' /\ [Next]_vars
        => [Media!MediaNext]_Media!mediaVars
  <2>1. ASSUME UNCHANGED vars PROVE UNCHANGED Media!mediaVars
    BY <2>1 DEF vars, inputVars, Media!mediaVars, Link
  <2>2. ASSUME Receive PROVE UNCHANGED Media!mediaVars
    BY <2>2 DEF Receive, inputVars, Media!mediaVars, Link
  <2>3. ASSUME ReadEvent PROVE Media!MediaNext
    <3>1. Media!TakeEvent
      BY <2>3 DEF ReadEvent, Media!TakeEvent, inputVars, Link
    <3> QED
      BY <3>1 DEF Media!MediaNext
  <2> QED
    BY <2>1, <2>2, <2>3, OutsideImplements, HandleImplements DEF Next
<1> QED
  BY <1>1, <1>2, WorkerTypeCorrect, LinkInvariant, PTL
  DEF Spec, ImplementsMediaServer, Media!MediaSpec
=============================================================================
