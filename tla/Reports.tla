------------------------------- MODULE Reports -------------------------------
(***************************************************************************)
(* `prehnite stats` and `prehnite compare` (cli.py): trajectories become     *)
(* summaries, summaries one row per task, and two sets of rows a verdict on  *)
(* each task and an exit code.  A trajectory is what the readers tell apart: *)
(*   task     the task it was started for                                    *)
(*   begun    it has a run_started event, which names the task               *)
(*   verdict  the result of its last run_finished event, or "none"           *)
(*   last     "finish" if that is its last event, "work" if not, "torn" if a  *)
(*            line cannot be parsed (the rest is then of no use to anybody),   *)
(*            "absent" if there is no file yet                                 *)
(***************************************************************************)
EXTENDS Naturals, Integers, FiniteSets

\* Files that read_trajectory raises on are skipped with a warning.
Readable(t) == t.last \notin {"absent", "torn"}

\* Broken variant: only the last event is looked at.
SummarizeLast(t) ==
  [task |-> IF t.begun THEN t.task ELSE "(unknown)",
   outcome |-> IF t.last = "finish" THEN t.verdict ELSE "incomplete"]

\* _summarize goes through all events: what follows the verdict does not hide it.
Summarize(t) ==
  [task |-> IF t.begun THEN t.task ELSE "(unknown)",
   outcome |-> IF t.verdict # "none" THEN t.verdict ELSE "incomplete"]

\* Broken variant: the rate is taken of the runs that came to a verdict.
RateOfJudged(n) ==
  LET judged == n.passed + n.failed + n.error
  IN IF judged = 0 THEN 0 ELSE (n.passed * 100) \div judged

Total(n) == n.passed + n.failed + n.error + n.incomplete

\* Per cent of all runs of a task, rounded down; n counts them by outcome.
Rate(n) == IF Total(n) = 0 THEN 0 ELSE (n.passed * 100) \div Total(n)

\* _per_task_rows of the trajectories in a directory: a function from the tasks
\* that are found there to rows.
Rows(Trajs) ==
  LET sums == [i \in {j \in DOMAIN Trajs : Readable(Trajs[j])} |-> Summarize(Trajs[i])]
      Row(task) ==
        LET n == [o \in {"passed", "failed", "error", "incomplete"} |->
                   Cardinality({i \in DOMAIN sums : sums[i] = [task |-> task, outcome |-> o]})]
        IN [runs |-> Total(n), pass |-> n.passed, fail |-> n.failed, error |-> n.error,
            rate |-> Rate(n)]
  IN [task \in {sums[i].task : i \in DOMAIN sums} |-> Row(task)]

\* _diff_snapshots, for a task of either snapshot
Diff(a, b, task) ==
  CASE task \notin DOMAIN a -> "new"
    [] task \notin DOMAIN b -> "dropped"
    [] task \in DOMAIN a \cap DOMAIN b ->
         LET delta == b[task].rate - a[task].rate
         IN IF delta < 0 THEN "regression" ELSE IF delta > 0 THEN "improvement"
            ELSE "unchanged"

\* _cmd_compare: what CI looks at
CompareExit(a, b) ==
  IF \E task \in DOMAIN a \cup DOMAIN b : Diff(a, b, task) = "regression" THEN 1 ELSE 0
=============================================================================
