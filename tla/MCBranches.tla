----------------------------- MODULE MCBranches -----------------------------
(* Branches on small instances. *)
EXTENDS Branches, TLC

CONSTANTS n1, n2, n3

ThreeSnapshots == {n1, n2, n3}

Symmetry == Permutations(Snaps)
=============================================================================
