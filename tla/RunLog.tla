------------------------------- MODULE RunLog -------------------------------
(***************************************************************************)
(* What the reader of a trajectory may rely on (stats, compare, inspect and  *)
(* batch do): the events of a run come in the order of its phases -- start,  *)
(* setup, work, verify -- and close with at most one verdict, the one that   *)
(* the events before it deserve.  The attempts of an egress proxy may come    *)
(* between any two of them, before the first and after the last.             *)
(***************************************************************************)
EXTENDS Naturals, Sequences, FiniteSets

CONSTANTS Runs, NSetup, NVerify

VARIABLE log

Work == {"agent", "thought", "forked", "reverted"}

Verdicts == {"passed", "failed", "noact", "error"}

Number(l, E) == Cardinality({i \in DOMAIN l : l[i] \in E})

Begun(l) == \E i \in DOMAIN l : l[i] = "run_started"

SetUp(l) == Begun(l) /\ Number(l, {"setup_ok"}) = NSetup

Verified(l) == SetUp(l) /\ Number(l, {"verify_ok", "verify_bad"}) = NVerify

\* The event e of the run itself may be the next one of the log l.
MayFollow(l, e) ==
  /\ Number(l, Verdicts) = 0
  /\ Number(l, {"setup_bad"}) > 0 => e = "error"
  /\ CASE e = "run_started" -> ~Begun(l)
       [] e \in {"setup_ok", "setup_bad"} -> Begun(l) /\ ~SetUp(l)
       [] e \in Work -> SetUp(l) /\ Number(l, {"verify_ok", "verify_bad"}) = 0
       [] e \in {"verify_ok", "verify_bad"} -> SetUp(l) /\ ~Verified(l)
       [] e = "passed" -> Verified(l) /\ Number(l, {"verify_bad"}) = 0
       [] e = "failed" -> Verified(l) /\ Number(l, {"verify_bad"}) > 0
                                      /\ Number(l, {"agent"}) > 0
       [] e = "noact" -> Verified(l) /\ Number(l, {"verify_bad"}) > 0
                                     /\ Number(l, {"agent"}) = 0
       [] e = "error" -> TRUE

Attempt == "egress_attempt"

Events == Work \cup Verdicts
            \cup {"run_started", "setup_ok", "setup_bad", "verify_ok", "verify_bad"}
            \cup {Attempt}

Init == log = [r \in Runs |-> <<>>]

Next ==
  \E r \in Runs, e \in Events :
    /\ e = Attempt \/ MayFollow(log[r], e)
    /\ log' = [log EXCEPT ![r] = Append(@, e)]

Spec == Init /\ [][Next]_log
=============================================================================
