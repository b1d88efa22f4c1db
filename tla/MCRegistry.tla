----------------------------- MODULE MCRegistry -----------------------------
(* Values of the constants of CameraRegistry for TLC.                      *)
EXTENDS CameraRegistry, TLC

CONSTANTS c1, c2, c3, c4, s1, s2

\* Three cameras share a session, the fourth is alone in its own.
MCSessionOf == [c \in {c1, c2, c3, c4} |-> IF c = c4 THEN s2 ELSE s1]

\* The three cameras of one session are interchangeable.
MCSymmetry == Permutations({c1, c2, c3})
=============================================================================
