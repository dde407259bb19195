-------------------------- MODULE MCSessionServer --------------------------
(* SessionServer on small instances. *)
EXTENDS SessionServer, TLC

CONSTANTS p1, s1, s2, c1, c2, c3, n1

OneServer == {p1}
OneSession == {s1}
TwoSessions == {s1, s2}
SecondRestricted == {s2}
TwoContainers == {c1, c2}
ThreeContainers == {c1, c2, c3}
OneSnapshot == {n1}

\* Sound for the safety runs only; sessions differ when one is restricted.
Symmetry == Permutations(Cids) \cup Permutations(Snaps)
=============================================================================
