------------------------------ MODULE MCLocks ------------------------------
(* Instances of RowLocks for TLC.                                          *)
EXTENDS RowLocks

Symmetry == Permutations(Takes)

\* Bound: a third transaction begins only while a take is ongoing, one of two waits
\* and none is about to commit. That loses no deadlock of three: the first to wait
\* may do so before the third begins, and one that has all its locks waits for nobody.
ThirdWhileWaiting ==
  Cardinality(Running) = 2 /\ Cardinality(DOMAIN held') = 3
    => /\ OngoingTakes # {}
       /\ \E x \in Running : Blockers(x) # {}
       /\ \A x \in Running : MustRead(x) \/ ~ HasAllLocks(x)

ContendedSpec == Init /\ [][Next /\ ThirdWhileWaiting]_vars
=============================================================================
