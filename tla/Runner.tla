------------------------------- MODULE Runner -------------------------------
(***************************************************************************)
(* runner.run(): one headless or embedded run of a task, from start to        *)
(* verdict, with its try / except / finally.  The agent is a fixed list of    *)
(* commands (a failing Docker call ends the run) or a function, which may     *)
(* catch the error and go on, or raise one of its own.  KeyboardInterrupt and *)
(* SystemExit may come at any time.  The egress proxy of a restricted task     *)
(* logs in threads of its own as long as the writer is open.                 *)
(***************************************************************************)
EXTENDS Naturals, Sequences

CONSTANTS
  NSetup,       \* setup commands of the task
  NVerify,      \* verify commands of the task
  MaxCommands,  \* bound: commands of the agent
  MaxAttempts   \* bound: egress attempts

ASSUME ConstantsAssumption ==
  /\ NSetup \in Nat /\ NVerify \in Nat
  /\ MaxCommands \in Nat /\ MaxAttempts \in Nat

VARIABLES
  pc,      \* the next step
  cont,    \* the container: "none", "created", "running", "exited", "removed"
  box,     \* does the sandbox hold it? (sandbox._container)
  traj,    \* the events of the trajectory
  n,       \* commands done in this phase
  count,   \* agent_command_count
  ok,      \* no verify command has failed
  result,  \* what run() returns: "none" yet, a status, or "raised"; "interrupted"
           \* once a KeyboardInterrupt or SystemExit has come
  interactive, restricted,  \* parameters: is the agent a function, the task restricted?
  failed   \* history: a Docker call has raised, or start() or stop() was interrupted

params == <<interactive, restricted>>
vars == <<pc, cont, box, traj, n, count, ok, result, params, failed>>

Verdicts == {"passed", "failed", "noact", "error"}

Init ==
  /\ pc = "start"
  /\ cont = "none" /\ box = FALSE
  /\ traj = <<>>
  /\ n = 0 /\ count = 0 /\ ok = TRUE
  /\ result = "none"
  /\ interactive \in BOOLEAN /\ restricted \in BOOLEAN
  /\ failed = FALSE

\* The trajectory of the file, for the readers of logs.
Log == INSTANCE RunLog WITH Runs <- {"run"}, log <- [r \in {"run"} |-> traj]

Record(e) == traj' = Append(traj, e)

-----------------------------------------------------------------------------
(* Broken variants of the steps below; no specification uses them.           *)

\* the verify loop ends with the first command that fails
VerifyStopsEarly ==
  /\ pc = "verify"
  /\ n < NVerify
  /\ \E good \in BOOLEAN :
       /\ Record(IF good THEN "verify_ok" ELSE "verify_bad")
       /\ ok' = (ok /\ good)
       /\ n' = IF good THEN n + 1 ELSE NVerify
  /\ UNCHANGED <<pc, cont, box, count, result, params, failed>>

\* the handler of unexpected errors only raises them again
ExceptSilent ==
  /\ pc = "except"
  /\ result' = "raised"
  /\ pc' = "finally"
  /\ UNCHANGED <<cont, box, traj, n, count, ok, params, failed>>

\* a run that raised is not torn down
FinallyIfReturned ==
  /\ pc = "finally"
  /\ cont' \in IF box /\ result # "raised" THEN {"removed"} ELSE {cont}
  /\ box' = FALSE
  /\ pc' = "done"
  /\ UNCHANGED <<traj, n, count, ok, result, params, failed>>

\* a setup command that fails starts the setup over, with a fresh log
SetupStartsOver ==
  /\ pc = "setup"
  /\ n < NSetup
  /\ \/ Record("setup_ok") /\ n' = n + 1
     \/ traj' = <<"run_started">> /\ n' = 0
  /\ UNCHANGED <<pc, cont, box, count, ok, result, params, failed>>

-----------------------------------------------------------------------------
\* exec() in a phase: it raises when Docker does.
Raises ==
  /\ failed' = TRUE
  /\ pc' = "except"
  /\ UNCHANGED <<traj, n, ok, count>>

\* sandbox.start(): a SandboxError is the run's verdict (a create that failed may
\* have left a container); an error of the cleanup inside start() is an unexpected
\* one and leaves the container, and so is an error that is not an APIError.
Start ==
  /\ pc = "start"
  /\ \/ /\ cont' = "running" /\ box' = TRUE
        /\ pc' = "announce"
        /\ UNCHANGED <<traj, result, failed>>
     \/ /\ failed' = TRUE
        /\ Record("error") /\ result' = "error"
        /\ pc' = "finally"
        /\ cont' \in {"none", "created", "removed"}
        /\ UNCHANGED box
     \/ /\ failed' = TRUE
        /\ cont' \in {"none", "created", "running"}
        /\ pc' = "except"
        /\ UNCHANGED <<box, traj, result>>
  /\ UNCHANGED <<n, count, ok, params>>

Announce ==
  /\ pc = "announce"
  /\ Record("run_started")
  /\ pc' = "setup"
  /\ UNCHANGED <<cont, box, n, count, ok, result, params, failed>>

Setup ==
  /\ pc = "setup"
  /\ n < NSetup
  /\ \/ /\ Record("setup_ok") /\ n' = n + 1
        /\ UNCHANGED <<pc, ok, count, failed>>
     \/ /\ Record("setup_bad")
        /\ pc' = "broken"
        /\ UNCHANGED <<n, ok, count, failed>>
     \/ Raises
  /\ UNCHANGED <<cont, box, result, params>>

\* "setup command failed"
Broken ==
  /\ pc = "broken"
  /\ Record("error") /\ result' = "error"
  /\ pc' = "finally"
  /\ UNCHANGED <<cont, box, n, count, ok, params, failed>>

\* One command of the agent: _exec_and_record, then the counter.
Agent ==
  /\ \/ pc = "agent"
     \/ pc = "setup" /\ n = NSetup
  /\ \/ /\ count < MaxCommands
        /\ Record("agent")
        /\ count' = count + 1
        /\ pc' = "agent"
        /\ UNCHANGED <<n, ok, failed>>
     \/ count < MaxCommands /\ Raises
     \/ /\ interactive              \* a command raised, and the agent caught it
        /\ failed' = TRUE
        /\ pc' = "agent"
        /\ UNCHANGED <<traj, n, ok, count>>
     \/ /\ interactive              \* the agent raises an error of its own
        /\ pc' = "except"
        /\ UNCHANGED <<traj, n, ok, count, failed>>
     \/ /\ pc' = "verify" /\ n' = 0
        /\ UNCHANGED <<traj, ok, count, failed>>
  /\ UNCHANGED <<cont, box, result, params>>

Verify ==
  /\ pc = "verify"
  /\ n < NVerify
  /\ \/ \E good \in BOOLEAN :
          /\ Record(IF good THEN "verify_ok" ELSE "verify_bad")
          /\ ok' = (ok /\ good)
          /\ n' = n + 1
          /\ UNCHANGED <<pc, count, failed>>
     \/ Raises
  /\ UNCHANGED <<cont, box, result, params>>

Verdict ==
  /\ pc = "verify"
  /\ n = NVerify
  /\ Record(IF ok THEN "passed" ELSE IF count = 0 THEN "noact" ELSE "failed")
  /\ result' = IF ok THEN "passed" ELSE "failed"
  /\ pc' = "finally"
  /\ UNCHANGED <<cont, box, n, count, ok, params, failed>>

\* except Exception: "unhandled", then raise
Except ==
  /\ pc = "except"
  /\ Record("error")
  /\ result' = "raised"
  /\ pc' = "finally"
  /\ UNCHANGED <<cont, box, n, count, ok, params, failed>>

\* finally: sandbox.stop(), which swallows an APIError, and writer.close()
Finally ==
  /\ pc = "finally"
  /\ \/ /\ cont' = IF box THEN "removed" ELSE cont
        /\ UNCHANGED failed
     \/ /\ box
        /\ failed' = TRUE
        /\ cont' \in {"running", "exited"}
  /\ box' = FALSE
  /\ pc' = "done"
  /\ UNCHANGED <<traj, n, count, ok, result, params>>

\* Any other exception leaves stop(), in place of what run() would have returned or
\* raised, and the writer stays open.
CutShort ==
  /\ pc = "finally"
  /\ \/ box /\ result' = IF result = "interrupted" THEN result ELSE "raised"
     \/ result' = "interrupted"
  /\ cont' \in IF box THEN {"running", "exited", "removed"} ELSE {cont}
  /\ box' = FALSE /\ failed' = TRUE
  /\ pc' = "cut"
  /\ UNCHANGED <<traj, n, count, ok, params>>

\* A KeyboardInterrupt or SystemExit is no Exception: it goes to the finally block.
Interrupt ==
  /\ pc \notin {"done", "cut", "killed"}
  /\ result' = "interrupted"
  /\ pc' = "finally"
  /\ IF pc = "start"
     THEN cont' \in {"none", "created", "running"} /\ failed' = TRUE
     ELSE UNCHANGED <<cont, failed>>
  /\ UNCHANGED <<box, traj, n, count, ok, params>>

\* _record_egress in a thread of the proxy, which start() runs first and stop() stops
\* last; handler threads go on until the writer is closed.
EgressAttempt ==
  /\ restricted
  /\ pc \notin {"done", "killed"}
  /\ Log!Number(traj, {Log!Attempt}) < MaxAttempts
  /\ Record(Log!Attempt)
  /\ UNCHANGED <<pc, cont, box, n, count, ok, result, params, failed>>

\* The process is killed.
Kill ==
  /\ pc \notin {"done", "killed"}
  /\ pc' = "killed"
  /\ UNCHANGED <<cont, box, traj, n, count, ok, result, params, failed>>

Step ==
  \/ Start \/ Announce \/ Setup \/ Broken \/ Agent \/ Verify \/ Verdict
  \/ Except \/ Finally \/ CutShort

Next == Step \/ Interrupt \/ EgressAttempt \/ Kill

Spec == Init /\ [][Next]_vars

\* run() waits for a command or for the agent.  `timeout` without -k sends SIGTERM and
\* no SIGKILL: nothing bounds a command that ignores it (Sandbox.exec).
Waiting ==
  \/ pc = "setup" /\ n < NSetup
  \/ /\ pc = "agent" \/ (pc = "setup" /\ n = NSetup)
     /\ interactive \/ count < MaxCommands
  \/ pc = "verify" /\ n < NVerify

\* run() goes on, as its other Docker calls return or raise.
FairSpec == Spec /\ WF_vars(Step /\ ~Waiting)

-----------------------------------------------------------------------------
\* What the caller of run() is told of the verdict v.
Told(v) ==
  \/ v \in {"passed", "failed"} /\ result = v
  \/ v = "noact" /\ result = "failed"
  \/ v = "error" /\ result \in {"error", "raised"}

\* Whichever Exception is raised where, a run that is neither killed nor interrupted
\* logs a verdict, and only egress attempts come after it; if the writer is closed too,
\* the caller is told the same (try / except / finally of run()).
ResultIsLogged ==
  (pc \in {"done", "cut"} /\ result # "interrupted") =>
    \E i \in DOMAIN traj :
      /\ traj[i] \in Verdicts
      /\ \A j \in DOMAIN traj : j > i => traj[j] = Log!Attempt
      /\ pc = "done" => Told(traj[i])

\* If no Docker call fails the container is gone when run() ends, even if it ends
\* with an exception of the agent or with an interrupt in one of its phases.
NoContainerLeft == (pc = "done" /\ ~failed) => cont \in {"none", "removed"}

\* The trajectory is the log of one run; killed and interrupted runs only lack the
\* end of it (run()).
ImplementsRunLog == Log!Spec

\* Whichever call fails, the run of a list of commands ends, or is for ever in one
\* and the same command: no phase waits for something else or starts over (run()).
Ends ==
  ~interactive =>
    \/ <>(pc \in {"done", "cut", "killed"})
    \/ <>[]Waiting /\ <>[][FALSE]_<<pc, n, count>>
=============================================================================
