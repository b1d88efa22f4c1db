---------------------------- MODULE MediaServer ----------------------------
(***************************************************************************)
(* The media server of the process (crates/kinugasa-media): a registry of  *)
(* provisioned cameras and one worker task per camera, which owns the      *)
(* state of the camera's input and the recording file it writes, and sends *)
(* every change of its input to one event channel.                         *)
(***************************************************************************)
EXTENDS Domain, Naturals, Sequences

CONSTANT
  MaxEvents   \* bound: events in the channel, which the code leaves unbounded

VARIABLES
  provisioned,  \* the cameras in the registry
  link,         \* the worker: "gone", or the state of its input
  file,         \* the take whose file the worker has open
  events        \* the event channel: input changes not processed yet

mediaVars == <<provisioned, link, file, events>>

LinkState  == {"gone"} \cup InputState
InputEvent == [camera : Cameras, state : InputState]

MediaTypeOK ==
  /\ provisioned \subseteq Cameras
  /\ link \in [Cameras -> LinkState]
  /\ file \in [Cameras -> Takes \cup {NoTake}]
  /\ events \in Seq(InputEvent)

MediaInit ==
  /\ provisioned = {}
  /\ link = [c \in Cameras |-> "gone"]
  /\ file = [c \in Cameras |-> NoTake]
  /\ events = <<>>

\* The process is gone, and with it all the media server holds.
MediaStops ==
  /\ provisioned' = {}
  /\ link' = [c \in Cameras |-> "gone"]
  /\ file' = [c \in Cameras |-> NoTake]
  /\ events' = <<>>

Event(c, state) == [camera |-> c, state |-> state]

\* Mutant of Failure: only the failure of a recording is reported.
RecordingFailure(c) ==
  IF link[c] = "errored" \/ file[c] = NoTake THEN <<>> ELSE <<Event(c, "errored")>>

\* An input failure is reported once, until the input is connected again.
Failure(c) == IF link[c] = "errored" THEN <<>> ELSE <<Event(c, "errored")>>

Emit(new) ==
  /\ Len(events) + Len(new) <= MaxEvents
  /\ events' = events \o new

-----------------------------------------------------------------------------
(* The registry.                                                           *)

\* A camera that is provisioned already keeps its worker.
ProvisionCamera(c) ==
  /\ provisioned' = provisioned \cup {c}
  /\ link' = IF c \in provisioned THEN link ELSE [link EXCEPT ![c] = "waiting"]
  /\ UNCHANGED <<file, events>>

\* Mutant of RevokeCamera: the entry stays in the registry.
RevokeKeepingEntry(c) == UNCHANGED mediaVars

\* The worker outlives its registry entry until it gets to the shutdown
\* command, or the end, of its queue.
RevokeCamera(c) ==
  /\ provisioned' = provisioned \ {c}
  /\ UNCHANGED <<link, file, events>>

-----------------------------------------------------------------------------
(* The worker: one action per command of its queue.                        *)

Packet(c) ==
  /\ link[c] \in {"waiting", "errored"}
  /\ link' = [link EXCEPT ![c] = "connected"]
  /\ Emit(<<Event(c, "connected")>>)
  /\ UNCHANGED <<provisioned, file>>

\* A packet that follows one the full queue refused: the recording fails, and
\* the packet connects the input again.
PacketAfterOverflow(c) ==
  /\ link[c] # "gone"
  /\ link' = [link EXCEPT ![c] = "connected"]
  /\ file' = [file EXCEPT ![c] = NoTake]
  /\ Emit(Failure(c) \o <<Event(c, "connected")>>)
  /\ UNCHANGED provisioned

WriteFails(c) ==
  /\ link[c] = "connected" /\ file[c] # NoTake
  /\ link' = [link EXCEPT ![c] = "errored"]
  /\ file' = [file EXCEPT ![c] = NoTake]
  /\ Emit(Failure(c))
  /\ UNCHANGED provisioned

\* Mutant of Disconnected: the file stays open for the next connection.
DisconnectedKeepingFile(c) ==
  /\ link[c] \in {"connected", "errored"}
  /\ link' = [link EXCEPT ![c] = "waiting"]
  /\ Emit(<<Event(c, "waiting")>>)
  /\ UNCHANGED <<provisioned, file>>

Disconnected(c) ==
  /\ link[c] \in {"connected", "errored"}
  /\ link' = [link EXCEPT ![c] = "waiting"]
  /\ file' = [file EXCEPT ![c] = NoTake]
  /\ Emit(<<Event(c, "waiting")>>)
  /\ UNCHANGED provisioned

\* The end of the worker of a revoked camera.
Shutdown(c) ==
  /\ link[c] # "gone" /\ c \notin provisioned
  /\ link' = [link EXCEPT ![c] = "gone"]
  /\ file' = [file EXCEPT ![c] = NoTake]
  /\ UNCHANGED <<provisioned, events>>

\* StartRecording succeeds only on a connected input without an open file.
StartsRecording(t, c) ==
  /\ link[c] = "connected" /\ file[c] = NoTake
  /\ file' = [file EXCEPT ![c] = t]
  /\ UNCHANGED <<provisioned, link, events>>

\* StartRecording fails: another file is open, the input is not connected, the
\* camera is not provisioned, or the file cannot be created.
RefusesRecording == UNCHANGED mediaVars

\* FinishRecording closes the file of that take.
FinishesRecording(t, c) ==
  /\ file[c] = t
  /\ file' = [file EXCEPT ![c] = NoTake]
  /\ UNCHANGED <<provisioned, link, events>>

\* FinishRecording finds that the queue overflowed since the last packet.
FinishAfterOverflow(c) ==
  /\ link[c] # "gone"
  /\ link' = [link EXCEPT ![c] = "errored"]
  /\ file' = [file EXCEPT ![c] = NoTake]
  /\ Emit(Failure(c))
  /\ UNCHANGED provisioned

\* Mutant of HasNoRecording: a worker without that file does not answer.
NoAnswerWithoutRecording(t, c) ==
  /\ file[c] # t /\ c \notin provisioned
  /\ UNCHANGED mediaVars

\* FinishRecording finds no file of that take, or the camera is gone.
HasNoRecording(t, c) ==
  /\ file[c] # t \/ c \notin provisioned
  /\ UNCHANGED mediaVars

-----------------------------------------------------------------------------
(* The media server on its own, whatever the backend asks of it.           *)

TakeEvent ==
  /\ events # <<>>
  /\ events' = Tail(events)
  /\ UNCHANGED <<provisioned, link, file>>

MediaNext ==
  \/ \E c \in Cameras :
       \/ ProvisionCamera(c) \/ RevokeCamera(c)
       \/ Packet(c) \/ PacketAfterOverflow(c) \/ WriteFails(c)
       \/ Disconnected(c) \/ Shutdown(c) \/ FinishAfterOverflow(c)
       \/ \E t \in Takes : StartsRecording(t, c) \/ FinishesRecording(t, c)
  \/ TakeEvent

MediaSpec == MediaInit /\ [][MediaNext]_mediaVars
=============================================================================
