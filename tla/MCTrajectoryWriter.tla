------------------------- MODULE MCTrajectoryWriter -------------------------
(* TrajectoryWriter on small instances. *)
EXTENDS TrajectoryWriter, TLC

CONSTANTS w1, w2, w3, t1, t2

TwoWriters == {w1, w2}
ThreeWriters == {w1, w2, w3}
TwoThreads == {t1, t2}

\* Sound for the safety runs only.
Symmetry == Permutations(Writers) \cup Permutations(Threads)
=============================================================================
