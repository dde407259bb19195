------------------------------ MODULE MCRunner ------------------------------
(* Runner on small instances. *)
EXTENDS Runner
=============================================================================
