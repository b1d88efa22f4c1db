----------------------------- MODULE TakeLedger -----------------------------
(***************************************************************************)
(* What the takes of a session promise to their readers, the console API   *)
(* and the pipeline behind the lockfile: one take is ongoing at a time; a  *)
(* finished take has a video per camera it recorded; a video is settled    *)
(* once, for good; and the state of the take is decided by its videos.     *)
(***************************************************************************)
CONSTANTS Takes, Cameras

VARIABLES
  phase,   \* of a take
  outcome  \* of the video of a camera in a take

vars == <<phase, outcome>>

Outcome == {"none", "uploading", "completed", "errored"}
NoVideos == [c \in Cameras |-> "none"]

Decided(outcomes) ==
  IF \E c \in Cameras : outcomes[c] = "uploading" THEN "uploading"
  ELSE IF \E c \in Cameras : outcomes[c] = "errored" THEN "errored"
  ELSE "completed"

Init ==
  /\ phase = [t \in Takes |-> "absent"]
  /\ outcome = [t \in Takes |-> NoVideos]

Start(t) ==
  /\ phase[t] = "absent"
  /\ \A u \in Takes : phase[u] # "ongoing"
  /\ phase' = [phase EXCEPT ![t] = "ongoing"]
  /\ UNCHANGED outcome

\* No video is complete when its recording ends.
Finish(t) ==
  /\ phase[t] = "ongoing"
  /\ \E outcomes \in [Cameras -> {"none", "uploading", "errored"}] :
       /\ outcomes # NoVideos
       /\ outcome' = [outcome EXCEPT ![t] = outcomes]
       /\ phase' = [phase EXCEPT ![t] = Decided(outcomes)]

\* Uploads end, one at a time or, when a camera is removed by force or the
\* process restarts, several of them at once.
Settle ==
  /\ \E videos \in SUBSET {x \in Takes \X Cameras : outcome[x[1]][x[2]] = "uploading"} :
       \E result \in [videos -> {"completed", "errored"}] :
         outcome' = [t \in Takes |-> [c \in Cameras |->
                       IF <<t, c>> \in videos THEN result[<<t, c>>]
                       ELSE outcome[t][c]]]
  /\ phase' = [t \in Takes |->
                 IF outcome'[t] = outcome[t] THEN phase[t] ELSE Decided(outcome'[t])]

Next ==
  \/ \E t \in Takes : Start(t) \/ Finish(t)
  \/ Settle

Spec == Init /\ [][Next]_vars
=============================================================================
