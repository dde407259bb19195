---------------------------- MODULE NumberedLog ----------------------------
(***************************************************************************)
(* What a trajectory file promises its readers, whatever happens to the     *)
(* processes that write it: a log that only grows, one entry at a time,     *)
(* whose entry number i carries the number i - 1, and that keeps every      *)
(* entry whose writer was told so.  TrajectoryWriter implements it until a  *)
(* kill tears a line or two writers are open on the file at once.           *)
(***************************************************************************)
EXTENDS Naturals, Sequences

CONSTANT Authors

VARIABLES log, acked

Entry == [seq : Nat, by : Authors]

Init ==
  /\ log = <<>>
  /\ acked = {}

\* An entry that is still being written may be lost to a kill before it is in
\* the log, and its author to a kill (or a close) before it is acknowledged.
Add(a) ==
  LET e == [seq |-> Len(log), by |-> a] IN
  /\ log' = Append(log, e)
  /\ acked' \in {acked, acked \cup {e}}

Next == \E a \in Authors : Add(a)

Spec == Init /\ [][Next]_<<log, acked>>
=============================================================================
