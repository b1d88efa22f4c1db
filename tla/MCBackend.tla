----------------------------- MODULE MCBackend -----------------------------
(***************************************************************************)
(* Instances of Backend for TLC. The environment is bounded here: without  *)
(* a bound two takes on two cameras reach more states than a run should    *)
(* explore. The bounds are written so that TLC does not come to one step   *)
(* more than once.                                                         *)
(***************************************************************************)
EXTENDS Backend, Records, FiniteSets, TLC

Symmetry == Permutations(Takes) \cup Permutations(Cameras)

OneTake == Cardinality({t \in Takes : take'[t] # "absent"}) <= 1

\* Bound: one camera, with two takes or with two events in the channel.
OneCamera ==
  /\ Len(events') <= IF OneTake THEN MaxEvents ELSE 1
  /\ Cardinality({c \in Cameras : conn'[c] # "absent"}) <= 1

\* Bound: two cameras in one take, and no camera is deleted.
KeptCameras ==
  /\ OneTake /\ Len(events') <= 1 /\ deleting' = {}
  /\ \A c \in Cameras : conn'[c] # "deleted"

\* Bound: two cameras in one take, one of which may be deleted while no input
\* changes.
OneCameraStays ==
  /\ OneTake /\ events' = <<>>
  /\ {c \in Cameras : c \notin deleting' /\ conn'[c] # "deleted"} # {}

\* Deletions of one of two cameras meet crashes, but not the other faults.
BoundedSpec ==
  Init /\ [][\/ (Step \/ Crash) /\ TRUE \in {OneCamera, KeptCameras, OneCameraStays}
             \/ Fault /\ TRUE \in {OneCamera, KeptCameras}]_vars
=============================================================================
