------------------------------ MODULE MCReaper ------------------------------
(* Reaper on small instances. *)
EXTENDS Reaper, TLC

CONSTANTS p1, s1, c1, c2, n1

OneServer == {p1}
OneSession == {s1}
TwoContainers == {c1, c2}
OneSnapshot == {n1}

\* Sound because no session is restricted, for the safety runs.
Symmetry == Permutations(Sids) \cup Permutations(Cids) \cup Permutations(Snaps)
=============================================================================
