----------------------------- MODULE MCOverflow -----------------------------
(* Overflow on small instances. *)
EXTENDS Overflow, TLC

CONSTANTS a1, a2

TwoCallers == {a1, a2}

\* With three bytes: one text that fits, and cuts at 0, 1, 2 and 3 bytes.
SomeTexts == {<<3>>, <<4>>, <<1, 3>>, <<2, 2>>, <<1, 2, 4>>}

Symmetry == Permutations(Callers)
=============================================================================
