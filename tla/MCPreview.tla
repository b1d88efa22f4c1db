----------------------------- MODULE MCPreview -----------------------------
(* An instance of Preview for TLC.                                         *)
EXTENDS Preview

MCSessionOf == [c \in Cameras |-> CHOOSE s \in Sessions : TRUE]

\* The packets of one camera are watched.
CONSTANT c1
MCMaxPackets == [c \in Cameras |-> IF c = c1 THEN 3 ELSE 0]

\* A packet that fills a group with the next one, one that does not, and one
\* that is too large for any.
MCSize(p) == CASE p = 1 -> 2 [] p = 2 -> 1 [] OTHER -> 4
=============================================================================
