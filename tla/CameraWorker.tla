---------------------------- MODULE CameraWorker ----------------------------
(***************************************************************************)
(* The worker task of one camera (kinugasa-media/src/camera.rs) with the   *)
(* bounded queue it takes its commands from. The librist thread tries to   *)
(* send packets and disconnections and drops them when the queue is full;  *)
(* the calls that start and finish a recording wait for room. A dropped    *)
(* packet sets a flag, which the worker reads with a later command.        *)
(*                                                                         *)
(* MediaServer is the same worker without the queue, which this module     *)
(* implements. Nothing sends the commands input_error and AbortRecording.  *)
(***************************************************************************)
EXTENDS Naturals, Sequences, FiniteSets

CONSTANTS
  Takes, NoTake, Camera,
  Capacity,   \* of the queue
  MaxEvents   \* bound: events in the channel, which the code leaves unbounded

ASSUME CapacityAssumption == Capacity \in Nat \ {0}
ASSUME MaxEventsAssumption == MaxEvents \in Nat
ASSUME TakesAssumption == IsFiniteSet(Takes) /\ NoTake \notin Takes

VARIABLES
  registered,  \* the registry has the handle of the camera
  source,      \* the sender of the stream: "on" or "off"
  refused,     \* the librist thread has met a full queue, the flag is not set
  lossSince,   \* a packet was dropped since the last one that was queued
  queue,       \* the command queue
  current,     \* the command the worker has received, or NoCommand
  overflowed,  \* the flag
  start,       \* the call that starts the recording of a take
  finish,      \* the call that finishes it
  worker,      \* "unborn", "running", "closing" (its handle is gone), "ended"
  connected, errored,  \* flags of the worker
  file,        \* the open recording file, or NoFile
  final,       \* the finished recording files
  events       \* the event channel

ingressVars == <<source, refused, lossSince>>
callVars    == <<start, finish>>
inputVars   == <<connected, errored>>
vars == <<registered, ingressVars, queue, current, overflowed, callVars, worker,
          inputVars, file, final, events>>

\* afterLoss: a packet between this one and the one queued before was dropped.
Command ==
       [op : {"packet"}, afterLoss : BOOLEAN]
  \cup [op : {"disconnected", "shutdown"}]
  \cup [op : {"start", "finish"}, take : Takes]
NoCommand == [op |-> "none"]

\* written: it holds a packet; gap: a packet is missing between two of it;
\* overflow: the flag was set while it was open.
File   == [take : Takes, written : BOOLEAN, gap : BOOLEAN, overflow : BOOLEAN]
NoFile == [take |-> NoTake, written |-> FALSE, gap |-> FALSE, overflow |-> FALSE]

TypeOK ==
  /\ registered \in BOOLEAN
  /\ source \in {"on", "off"} /\ refused \in BOOLEAN /\ lossSince \in BOOLEAN
  /\ queue \in Seq(Command) /\ Len(queue) <= Capacity
  /\ current \in Command \cup {NoCommand}
  /\ overflowed \in BOOLEAN
  /\ start \in [Takes -> {"idle", "waiting", "queued", "started", "failed"}]
  /\ finish \in [Takes -> {"idle", "waiting", "queued", "finalized", "failed", "skipped"}]
  /\ worker \in {"unborn", "running", "closing", "ended"}
  /\ connected \in BOOLEAN /\ errored \in BOOLEAN
  /\ file \in File \cup {NoFile} /\ final \subseteq File
  /\ events \in Seq([camera : {Camera}, state : {"waiting", "connected", "errored"}])

Init ==
  /\ registered = FALSE
  /\ source = "off" /\ refused = FALSE /\ lossSince = FALSE
  /\ queue = <<>> /\ current = NoCommand /\ overflowed = FALSE
  /\ start = [t \in Takes |-> "idle"]
  /\ finish = [t \in Takes |-> "idle"]
  /\ worker = "unborn"
  /\ connected = FALSE /\ errored = FALSE
  /\ file = NoFile /\ final = {}
  /\ events = <<>>

-----------------------------------------------------------------------------
(* The registry and the librist thread.                                    *)

WaitingCalls ==
  Cardinality({t \in Takes : start[t] = "waiting"})
    + Cardinality({t \in Takes : finish[t] = "waiting"})

\* Mutant of HasRoom: a free slot is anybody's.
HasAnyRoom == Len(queue) < Capacity

\* A slot that is freed goes to a waiting call first: what is left for
\* try_send is the room that no call waits for.
HasRoom == Len(queue) + WaitingCalls < Capacity

\* CameraHandle::spawn
Provision ==
  /\ worker = "unborn"
  /\ worker' = "running" /\ registered' = TRUE
  /\ UNCHANGED <<ingressVars, queue, current, overflowed, callVars, inputVars, file,
                 final, events>>

Revoke ==
  /\ registered
  /\ registered' = FALSE
  /\ UNCHANGED <<ingressVars, queue, current, overflowed, callVars, worker, inputVars,
                 file, final, events>>

Ingest ==
  /\ registered /\ ~ refused
  /\ source' = "on"
  /\ \/ /\ HasRoom
        /\ queue' = Append(queue, [op |-> "packet", afterLoss |-> lossSince])
        /\ lossSince' = FALSE
        /\ UNCHANGED refused
     \/ /\ ~ HasRoom
        /\ refused' = TRUE /\ lossSince' = TRUE
        /\ UNCHANGED queue
  /\ UNCHANGED <<registered, current, overflowed, callVars, worker, inputVars, file,
                 final, events>>

\* The store that follows the refusal; the worker may have run in between.
SetFlag ==
  /\ refused
  /\ refused' = FALSE
  /\ overflowed' = TRUE
  /\ file' = IF file = NoFile THEN file ELSE [file EXCEPT !.overflow = TRUE]
  /\ UNCHANGED <<registered, source, lossSince, queue, current, callVars, worker,
                 inputVars, final, events>>

\* Mutant of Timeout: the disconnection is queued in any case.
TimeoutAlwaysQueued ==
  /\ registered /\ ~ refused /\ source = "on"
  /\ source' = "off"
  /\ queue' = Append(queue, [op |-> "disconnected"])
  /\ UNCHANGED <<registered, refused, lossSince, current, overflowed, callVars, worker,
                 inputVars, file, final, events>>

\* The stream times out: the disconnection is dropped when the queue is full.
Timeout ==
  /\ registered /\ ~ refused /\ source = "on"
  /\ source' = "off"
  /\ queue' = IF HasRoom THEN Append(queue, [op |-> "disconnected"]) ELSE queue
  /\ UNCHANGED <<registered, refused, lossSince, current, overflowed, callVars, worker,
                 inputVars, file, final, events>>

-----------------------------------------------------------------------------
(* The calls of start_take and finish_take.                                *)

\* A take starts when the take before it has ended.
CallStart(t) ==
  /\ registered /\ start[t] = "idle"
  /\ \A u \in Takes : start[u] # "idle" => finish[u] # "idle"
  /\ start' = [start EXCEPT ![t] = "waiting"]
  /\ UNCHANGED <<registered, ingressVars, queue, current, overflowed, finish, worker,
                 inputVars, file, final, events>>

\* finish_take calls only the cameras it still finds recording, and the
\* registry may not know the camera.
CallFinish(t) ==
  /\ start[t] # "idle" /\ finish[t] = "idle"
  /\ \/ registered /\ finish' = [finish EXCEPT ![t] = "waiting"]
     \/ finish' = [finish EXCEPT ![t] = "skipped"]
  /\ UNCHANGED <<registered, ingressVars, queue, current, overflowed, start, worker,
                 inputVars, file, final, events>>

EnqueueStart(t) ==
  /\ start[t] = "waiting" /\ Len(queue) < Capacity
  /\ start' = [start EXCEPT ![t] = "queued"]
  /\ queue' = Append(queue, [op |-> "start", take |-> t])
  /\ UNCHANGED <<registered, ingressVars, current, overflowed, finish, worker, inputVars,
                 file, final, events>>

EnqueueFinish(t) ==
  /\ finish[t] = "waiting" /\ Len(queue) < Capacity
  /\ finish' = [finish EXCEPT ![t] = "queued"]
  /\ queue' = Append(queue, [op |-> "finish", take |-> t])
  /\ UNCHANGED <<registered, ingressVars, current, overflowed, start, worker, inputVars,
                 file, final, events>>

\* The caller goes away; what it has queued stays.
Abandon(t) ==
  /\ \/ /\ start[t] \in {"waiting", "queued"}
        /\ start' = [start EXCEPT ![t] = "failed"]
        /\ UNCHANGED finish
     \/ /\ finish[t] \in {"waiting", "queued"}
        /\ finish' = [finish EXCEPT ![t] = "failed"]
        /\ UNCHANGED start
  /\ UNCHANGED <<registered, ingressVars, queue, current, overflowed, worker, inputVars,
                 file, final, events>>

\* The registry, a call or the librist thread holds the handle.
Held ==
  registered \/ refused
    \/ \E t \in Takes : {start[t], finish[t]} \cap {"waiting", "queued"} # {}

\* CameraHandle::drop closes the channel.
DropHandle ==
  /\ worker = "running" /\ ~ Held
  /\ worker' = "closing"
  /\ queue' = IF HasRoom THEN Append(queue, [op |-> "shutdown"]) ELSE queue
  /\ UNCHANGED <<registered, ingressVars, current, overflowed, callVars, inputVars, file,
                 final, events>>

-----------------------------------------------------------------------------
(* The worker.                                                             *)

Report(state) == <<[camera |-> Camera, state |-> state]>>

ReportUnless(known, state) == IF known THEN <<>> ELSE Report(state)

Emit(new) ==
  /\ Len(events) + Len(new) <= MaxEvents
  /\ events' = events \o new

\* The answer to a call that was abandoned has no receiver.
Answer(call, t, answer) == [call EXCEPT ![t] = IF @ = "queued" THEN answer ELSE @]

Receive ==
  /\ worker \in {"running", "closing"} /\ current = NoCommand /\ queue # <<>>
  /\ current' = Head(queue) /\ queue' = Tail(queue)
  /\ UNCHANGED <<registered, ingressVars, overflowed, callVars, worker, inputVars, file,
                 final, events>>

\* What every command but shutdown leaves alone.
Handles(op) ==
  /\ current.op = op /\ current' = NoCommand
  /\ UNCHANGED <<registered, ingressVars, queue, worker>>

Written(packet) ==
  [file EXCEPT !.written = TRUE, !.gap = @ \/ (file.written /\ packet.afterLoss)]

HandlePacket ==
  /\ Handles("packet") /\ ~ overflowed
  /\ \/ /\ connected' = TRUE /\ errored' = FALSE
        /\ file' = IF file = NoFile THEN file ELSE Written(current)
        /\ Emit(ReportUnless(connected, "connected"))
     \/ /\ file # NoFile  \* the write fails
        /\ connected' = FALSE /\ errored' = TRUE
        /\ file' = NoFile
        /\ Emit(ReportUnless(connected, "connected") \o Report("errored"))
  /\ UNCHANGED <<overflowed, callVars, final>>

HandlePacketAfterOverflow ==
  /\ Handles("packet") /\ overflowed
  /\ overflowed' = FALSE
  /\ connected' = TRUE /\ errored' = FALSE
  /\ file' = NoFile
  /\ Emit(ReportUnless(errored, "errored") \o Report("connected"))
  /\ UNCHANGED <<callVars, final>>

\* Mutant of HandleDisconnected: the file stays open for the next connection.
HandleDisconnectedKeepingFile ==
  /\ Handles("disconnected")
  /\ connected' = FALSE /\ errored' = FALSE
  /\ Emit(ReportUnless(~ connected /\ ~ errored, "waiting"))
  /\ UNCHANGED <<overflowed, callVars, file, final>>

HandleDisconnected ==
  /\ Handles("disconnected")
  /\ connected' = FALSE /\ errored' = FALSE
  /\ file' = NoFile
  /\ Emit(ReportUnless(~ connected /\ ~ errored, "waiting"))
  /\ UNCHANGED <<overflowed, callVars, final>>

HandleStart(t) ==
  /\ Handles("start") /\ current.take = t
  /\ \/ /\ connected /\ file = NoFile
        /\ file' = [take |-> t, written |-> FALSE, gap |-> FALSE, overflow |-> FALSE]
        /\ start' = Answer(start, t, "started")
     \/ /\ start' = Answer(start, t, "failed")  \* refused, or the file not created
        /\ UNCHANGED file
  /\ UNCHANGED <<overflowed, finish, inputVars, final, events>>

Finishes(t) ==
  \/ /\ file.take = t
     /\ file' = NoFile
     /\ \/ /\ final' = final \cup {file}
           /\ finish' = Answer(finish, t, "finalized")
        \/ /\ finish' = Answer(finish, t, "failed")  \* the file system fails
           /\ UNCHANGED final
  \/ /\ file.take # t
     /\ finish' = Answer(finish, t, "failed")
     /\ UNCHANGED <<file, final>>

\* Mutant of HandleFinish: the flag is left to the next packet.
HandleFinishUnchecked(t) ==
  /\ Handles("finish") /\ current.take = t
  /\ Finishes(t)
  /\ UNCHANGED <<overflowed, start, inputVars, events>>

HandleFinish(t) ==
  /\ Handles("finish") /\ current.take = t /\ ~ overflowed
  /\ Finishes(t)
  /\ UNCHANGED <<overflowed, start, inputVars, events>>

HandleFinishAfterOverflow(t) ==
  /\ Handles("finish") /\ current.take = t /\ overflowed
  /\ overflowed' = FALSE
  /\ connected' = FALSE /\ errored' = TRUE
  /\ file' = NoFile
  /\ finish' = Answer(finish, t, "failed")
  /\ Emit(ReportUnless(errored, "errored"))
  /\ UNCHANGED <<start, final>>

\* The shutdown command, or the end of the closed queue.
End ==
  /\ worker = "closing"
  /\ current.op = "shutdown" \/ (current = NoCommand /\ queue = <<>>)
  /\ worker' = "ended" /\ current' = NoCommand
  /\ file' = NoFile
  /\ UNCHANGED <<registered, ingressVars, queue, overflowed, callVars, inputVars, final,
                 events>>

Handle ==
  \/ HandlePacket \/ HandlePacketAfterOverflow \/ HandleDisconnected \/ End
  \/ \E t \in Takes : HandleStart(t) \/ HandleFinish(t) \/ HandleFinishAfterOverflow(t)

\* The event loop of the backend.
ReadEvent ==
  /\ events # <<>>
  /\ events' = Tail(events)
  /\ UNCHANGED <<registered, ingressVars, queue, current, overflowed, callVars, worker,
                 inputVars, file, final>>

-----------------------------------------------------------------------------
Next ==
  \/ Provision \/ Revoke \/ Ingest \/ SetFlag \/ Timeout \/ DropHandle
  \/ \E t \in Takes : \/ CallStart(t) \/ CallFinish(t) \/ Abandon(t)
                      \/ EnqueueStart(t) \/ EnqueueFinish(t)
  \/ Receive \/ Handle \/ ReadEvent

\* The worker, the event loop and the calls that a slot is reserved for run on;
\* nothing makes the sender, the registry or the console do anything.
Fairness ==
  /\ WF_vars(Receive) /\ WF_vars(Handle) /\ WF_vars(ReadEvent)
  /\ WF_vars(SetFlag) /\ WF_vars(DropHandle)
  /\ \A t \in Takes : WF_vars(EnqueueStart(t)) /\ WF_vars(EnqueueFinish(t))

Spec == Init /\ [][Next]_vars /\ Fairness

-----------------------------------------------------------------------------
(* A file that is open while a packet is refused is never finished as a    *)
(* recording, whatever was queued before, and whichever command reads the  *)
(* flag (the swaps of the flag in run_camera).                             *)
OverflowFailsRecording == \A f \in final : ~ f.overflow

\* The queue never keeps a call waiting for good, however fast packets
\* arrive, and the worker answers every call (start_recording,
\* finish_recording and the fair semaphore of the channel).
AnswersCome ==
  \A t \in Takes : /\ start[t] = "waiting" ~> start[t] \in {"started", "failed"}
                  /\ finish[t] = "waiting" ~> finish[t] \in {"finalized", "failed"}

(* The worker without its queue, as the backend sees it.                   *)
Link ==
  IF worker \in {"unborn", "ended"} THEN "gone"
  ELSE IF connected THEN "connected"
  ELSE IF errored THEN "errored"
  ELSE "waiting"

Media ==
  INSTANCE MediaServer WITH
    Cameras <- {Camera},
    provisioned <- IF registered THEN {Camera} ELSE {},
    link <- [c \in {Camera} |-> Link],
    file <- [c \in {Camera} |-> file.take]

\* The worker with its queue and flag does only what MediaServer lets it do:
\* its input is reported and its file closed as there, whatever the queue
\* drops or delays.
ImplementsMediaServer == Media!MediaSpec

\* "When the queue overflows, packets are not dropped silently: the take
\* becomes a recording error" (docs/rust-rewrite/recording-migration-research.md):
\* no finished recording lacks a packet between two of its packets.
NoSilentGap == \A f \in final : ~ f.gap
=============================================================================
