-------------------------------- MODULE Batch --------------------------------
(***************************************************************************)
(* `prehnite batch` (cli.py): the tasks one after the other, for each a      *)
(* command whose agent drives a session of the MCP server, and a verdict     *)
(* read from the trajectory that is found afterwards by its modification     *)
(* time.  Nothing ties that file to the agent that was started: the timeout  *)
(* kills the shell, the agent below it may go on writing, and people start   *)
(* runs by hand.  What is left is read by stats and compare (Reports).       *)
(*                                                                           *)
(* Time is counted in seconds and only differences matter: the age of each   *)
(* file, up to MaxAge, and the seconds since the agent was started.          *)
(***************************************************************************)
EXTENDS Reports, Sequences, SequencesExt

CONSTANTS
  Tasks,       \* ids of the tasks, in the order of discover_tasks: a sequence
  PerTask,     \* --per-task-timeout
  Window,      \* --skip-if-passed-within, 0 for no skipping
  Verdicts,    \* results that finish_task and abort_task give
  MaxAge,      \* bound: ages above are not told apart
  MaxRuns      \* bound: runs, each with one session at most

ASSUME BatchAssumption ==
  /\ Tasks \in Seq(STRING) /\ IsInjective(Tasks)
  /\ {PerTask, Window, MaxAge, MaxRuns} \subseteq Nat
  /\ Verdicts \subseteq {"passed", "failed", "error"}
  /\ MaxAge > PerTask + 1 /\ MaxAge > Window   \* 1 is Slop

VARIABLES
  runs,    \* every run so far: can it be written to, the age of its file, its trajectory
           \* (see Reports), its session and, as history, the verdicts in its file
  pc,      \* batch: "off", "next" task, "wait" for the agent
  todo,    \* tasks still to do
  cur,     \* the run that the command in progress started
  elapsed, \* seconds since the agent was started (started_at), 0 without one
  alone,   \* history: at the start nobody else could be writing for the task
  results, \* for each task: the status and the run whose trajectory was taken
  exit     \* the exit code of the last batch, "none" before it ends

vars == <<runs, pc, todo, cur, elapsed, alone, results, exit>>
batch == <<pc, todo, cur, elapsed, alone, results, exit>>

NoResult == [status |-> "none", run |-> 0]

\* The session of a run: "none" before start_task, "live", "over" once finish_task or
\* abort_task took it out of the dict, "closed" once its descriptor is deleted.
NewRun(task) ==
  [task |-> task, alive |-> TRUE, age |-> MaxAge, begun |-> FALSE,
   verdict |-> "none", last |-> "absent", session |-> "none", judged |-> {}]

Init ==
  /\ runs = <<>> /\ pc = "off" /\ todo = <<>>
  /\ cur = 0 /\ elapsed = 0 /\ alone = FALSE
  /\ results = [t \in ToSet(Tasks) |-> NoResult]
  /\ exit = "none"

Files(task) == {k \in DOMAIN runs : runs[k].task = task /\ runs[k].last # "absent"}

\* The mtime is compared with a second of slop.
Slop == 1

\* Broken variant: every trajectory of the task counts.
LatestOfAll(task) ==
  IF Files(task) = {} THEN {0}
  ELSE {k \in Files(task) : \A j \in Files(task) : runs[k].age <= runs[j].age}

\* _latest_new_trajectory: any of the newest files, 0 if there is none
Latest(task) ==
  LET new == {k \in Files(task) : runs[k].age <= elapsed + Slop}
  IN IF new = {} THEN {0} ELSE {k \in new : \A j \in new : runs[k].age <= runs[j].age}

\* _recent_passed_trajectory: only the newest file counts
RecentPassed(task) ==
  {k \in Files(task) :
     /\ \A j \in Files(task) : runs[k].age <= runs[j].age
     /\ Window > 0 /\ runs[k].age <= Window
     /\ runs[k].last = "finish" /\ runs[k].verdict = "passed"}

\* _outcome_from_trajectory
Outcome(k) == IF runs[k].last = "finish" THEN runs[k].verdict ELSE "incomplete"

-----------------------------------------------------------------------------
(* Agents and their sessions.                                                *)

Set(k, r) == runs' = [runs EXCEPT ![k] = r] /\ UNCHANGED batch

\* write() makes the run look like r; a torn line in the file keeps all readers away.
Write(k, r) ==
  Set(k, IF runs[k].last = "torn" THEN [runs[k] EXCEPT !.age = 0, !.session = r.session]
         ELSE [r EXCEPT !.age = 0])

\* start_task: a run_started event, or a final error if the sandbox does not start
StartTask(k) ==
  /\ runs[k].alive /\ runs[k].last = "absent"
  /\ \/ Write(k, [runs[k] EXCEPT !.last = "work", !.begun = TRUE, !.session = "live"])
     \/ Write(k, [runs[k] EXCEPT !.last = "finish", !.verdict = "error",
                                 !.judged = {"error"}, !.session = "closed"])

\* A tool call, or an egress attempt that is logged late, after the verdict.
Work(k) ==
  /\ runs[k].alive /\ runs[k].session \in {"live", "over"}
  /\ Write(k, [runs[k] EXCEPT !.last = "work"])

\* finish_task or abort_task; a verify command that raises leaves no verdict.
Finish(k) ==
  /\ runs[k].alive /\ runs[k].session = "live"
  /\ \/ \E v \in Verdicts :
          Write(k, [runs[k] EXCEPT !.last = "finish", !.verdict = v,
                                   !.judged = @ \cup {v}, !.session = "over"])
     \/ Set(k, [runs[k] EXCEPT !.session = "over"])

\* The end of both: the writer is closed and the descriptor deleted.
Delete(k) ==
  /\ runs[k].alive /\ runs[k].session = "over"
  /\ Set(k, [runs[k] EXCEPT !.session = "closed"])

\* The agent and its server end, or are killed, which may tear the last line.
Gone(k) ==
  /\ runs[k].alive
  /\ \/ Set(k, [runs[k] EXCEPT !.alive = FALSE])
     \/ /\ runs[k].session # "closed"
        /\ Set(k, [runs[k] EXCEPT !.alive = FALSE, !.age = 0, !.last = "torn",
                                  !.begun = FALSE, !.verdict = "none", !.judged = {}])

\* A server that starts takes up the session of a descriptor that is left, also of one
\* that was judged before the kill; an agent may then use it, and have it judged again.
Resume(k) ==
  /\ ~runs[k].alive /\ runs[k].session \in {"live", "over"}
  /\ runs' = [runs EXCEPT ![k].alive = TRUE, ![k].session = "live"]
  /\ alone' = (pc = "wait" /\ alone /\ (Head(todo) = runs[k].task => k = cur))
  /\ UNCHANGED <<pc, todo, cur, elapsed, results, exit>>

\* `prehnite run`, or an agent that somebody starts, for a task of the batch
ByHand(task) ==
  /\ Len(runs) + Len(todo) < MaxRuns
  /\ runs' = Append(runs, NewRun(task))
  /\ alone' = (pc = "wait" /\ alone /\ Head(todo) # task)
  /\ UNCHANGED <<pc, todo, cur, elapsed, results, exit>>

\* A second goes by.  The timeout comes within the second in which it is due.
Tick ==
  /\ pc = "wait" => elapsed < PerTask
  /\ runs' = [k \in DOMAIN runs |-> [runs[k] EXCEPT !.age = IF @ < MaxAge THEN @ + 1 ELSE @]]
  /\ elapsed' = IF pc = "wait" THEN elapsed + 1 ELSE elapsed
  /\ UNCHANGED <<pc, todo, cur, alone, results, exit>>

-----------------------------------------------------------------------------
(* The command.                                                              *)

\* Broken variant: subprocess.run is called without a timeout.
NeverTimesOut == FALSE

TimesOut == elapsed >= PerTask

\* No agent is waited for any more.
Forget == cur' = 0 /\ elapsed' = 0 /\ alone' = FALSE

\* The row of a task that is through.
Report(status, k) ==
  /\ results' = [results EXCEPT ![Head(todo)] = [status |-> status, run |-> k]]
  /\ todo' = Tail(todo)
  /\ pc' = "next" /\ Forget
  /\ UNCHANGED exit

Begin ==
  /\ pc = "off" /\ Len(runs) + Len(Tasks) <= MaxRuns
  /\ pc' = "next" /\ todo' = Tasks /\ exit' = "none"
  /\ results' = [t \in ToSet(Tasks) |-> NoResult]
  /\ UNCHANGED <<runs, cur, elapsed, alone>>

Skip ==
  /\ pc = "next" /\ todo # <<>>
  /\ \E k \in RecentPassed(Head(todo)) : Report("skipped", k)
  /\ UNCHANGED runs

Launch ==
  /\ pc = "next" /\ todo # <<>> /\ RecentPassed(Head(todo)) = {}
  /\ runs' = Append(runs, NewRun(Head(todo)))
  /\ cur' = Len(runs) + 1 /\ elapsed' = 0
  /\ alone' = \A k \in DOMAIN runs : runs[k].task = Head(todo) =>
                ~runs[k].alive /\ runs[k].age > Slop
  /\ pc' = "wait"
  /\ UNCHANGED <<todo, results, exit>>

\* The command returns, with any exit status; what it started may be running still.
Collect ==
  /\ pc = "wait"
  /\ \E k \in Latest(Head(todo)) :
       Report(IF k = 0 THEN "no-trajectory" ELSE Outcome(k), k)
  /\ UNCHANGED runs

\* The shell is killed; the agent below it is not, and may end at any time.
Timeout ==
  /\ pc = "wait" /\ TimesOut
  /\ \E k \in Latest(Head(todo)) : Report("timeout", k)
  /\ UNCHANGED runs

End ==
  /\ pc = "next" /\ todo = <<>>
  /\ pc' = "off"
  /\ exit' = IF \A t \in DOMAIN results : results[t].status \in {"passed", "skipped"}
             THEN "0" ELSE "1"
  /\ UNCHANGED <<runs, todo, cur, elapsed, alone, results>>

\* Ctrl-C: subprocess.run kills the shell and passes the exception on.
Interrupt ==
  /\ pc # "off"
  /\ pc' = "off" /\ todo' = <<>> /\ Forget
  /\ UNCHANGED <<runs, results, exit>>

Command == Skip \/ Launch \/ Timeout \/ End

Agent(k) == StartTask(k) \/ Work(k) \/ Finish(k) \/ Delete(k) \/ Gone(k)

Next ==
  \/ Begin \/ Command \/ Collect \/ Interrupt \/ Tick
  \/ \E t \in ToSet(Tasks) : ByHand(t)
  \/ \E k \in DOMAIN runs : Agent(k) \/ Resume(k)

Spec == Init /\ [][Next]_vars

\* Time goes on and batch takes its steps; no agent need ever do anything, and no
\* command need return.
FairSpec == Spec /\ WF_vars(Tick) /\ WF_vars(Command)

-----------------------------------------------------------------------------
\* Exit code 0 means that batch found for every task a run of it that a run_finished
\* event calls passed, and stats counts it so whatever is logged after that event
\* (_cmd_batch "Exit 0 iff every task either passed or was skipped", _summarize), but
\* for a kill that makes the file unreadable, or a session that is taken up again and
\* gets another verdict.
ExitZeroIsEarned ==
  exit = "0" =>
    \A t \in DOMAIN results :
      LET k == results[t].run IN
        /\ k # 0 /\ runs[k].task = t
        /\ Readable(runs[k]) =>
             /\ "passed" \in runs[k].judged
             /\ runs[k].judged = {"passed"} =>
                  Summarize(runs[k]) = [task |-> t, outcome |-> "passed"]

\* tests/test_cli_batch.py:211 "A trajectory written before the batch starts must
\* NOT be counted as this run's outcome".  It holds if, when the agent was started,
\* no other agent of the task was alive or had written within the slop, and nobody has
\* started one or taken up a session of one since: then the trajectory reported is the agent's own, or none.
OwnWhenAlone ==
  [][\A t \in DOMAIN results :
       pc = "wait" /\ alone /\ results'[t] # results[t] => results'[t].run \in {0, cur}]_vars

\* A batch comes to its end with agents that hang.
BatchEnds == pc # "off" ~> pc = "off"

\* CI may trust compare (exit 1 iff a task regressed), whatever two directories
\* hold: a regression is a lower rate, an improvement a higher one, and a change of
\* a point or more is never "unchanged", although both rates are rounded down.  Here
\* A holds the first runs and B the others or all; looked at when all is quiet.
CompareHonest ==
  (pc = "off" /\ \A k \in DOMAIN runs : ~runs[k].alive /\ runs[k].age = MaxAge) =>
    \A i \in DOMAIN runs : \A j \in {1, i + 1} :
      LET a == Rows(SubSeq(runs, 1, i))
          b == Rows(SubSeq(runs, j, Len(runs)))
      IN \A t \in DOMAIN a \cap DOMAIN b :
           LET change == b[t].pass * a[t].runs - a[t].pass * b[t].runs
               point == a[t].runs * b[t].runs
           IN CASE Diff(a, b, t) = "regression" -> change < 0 /\ CompareExit(a, b) = 1
                [] Diff(a, b, t) = "improvement" -> change > 0
                [] OTHER -> 100 * change < point /\ -100 * change < point
=============================================================================
