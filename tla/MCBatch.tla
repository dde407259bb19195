------------------------------- MODULE MCBatch -------------------------------
(* Batch on small instances. *)
EXTENDS Batch, TLC

OneTask == <<"t1">>
\* A sandbox that does not start gives "error".
Judgements == {"passed", "failed"}
=============================================================================
