------------------------------- MODULE Domain -------------------------------
(***************************************************************************)
(* Identities and states of kinugasa-core/src/domain, shared by the store, *)
(* the media server and the backend. An errored state is represented by    *)
(* the reason it holds.                                                    *)
(***************************************************************************)
CONSTANTS
  Takes,    \* identities a take may get; a name is never used twice
  Cameras,  \* camera identities; they are never deleted
  NoTake    \* no take: a camera worker that writes no file

ASSUME NoTakeAssumption == NoTake \notin Takes

\* Reasons a recording fails with: the input closed, the input failed (queue
\* overflow, write error), a call to the media server returned an error, the
\* process restarted.
RowReason == {"disconnected", "input", "media", "interrupted"}

\* A video may also fail in storage or by a forced deletion of its camera.
Reason == RowReason \cup {"storage", "forced"}

Phase      == {"absent", "ongoing", "uploading", "completed", "errored"}
RowState   == {"none", "recording"} \cup RowReason
VideoState == {"none", "uploading", "completed"} \cup Reason

\* What a camera worker observes of its input.
InputState == {"waiting", "connected", "errored"}
ConnState  == {"absent", "activating", "deleted"} \cup InputState
=============================================================================
