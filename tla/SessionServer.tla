---------------------------- MODULE SessionServer ----------------------------
(***************************************************************************)
(* The MCP server of src/prehnite/mcp_server.py with the sandboxes of        *)
(* sandbox.py: the tool handlers, what they keep in memory, on disk and in   *)
(* the Docker daemon, and rehydration after a restart.                       *)
(*                                                                          *)
(* FastMCP runs the (synchronous) handlers of one server on its event loop,  *)
(* one at a time; every client process has a server of its own on the same   *)
(* root, and a server can be killed between any two steps.  A handler is     *)
(* therefore split at each call that leaves the process: a Docker call, an   *)
(* event written to the trajectory, a step of writing the descriptor.  pc[p] *)
(* is the next step of server p's handler, call[p] its local variables.      *)
(*                                                                          *)
(* A session is named by its index in Sids from start_task on (the uuid is   *)
(* drawn when setup is over).  traj[s] is the sequence of the types of the    *)
(* events that the handlers write; TrajectoryWriter models how they reach the *)
(* disk, and the events of the egress proxy's threads, which may come between *)
(* any two of them and after the last, are Egress's.                          *)
(***************************************************************************)
EXTENDS Naturals, Sequences

CONSTANTS
  Servers, Sids, Cids, Snaps,  \* server processes, sessions, containers, snapshots
  None,         \* no container, session, snapshot or descriptor
  Restricted,   \* the sessions of tasks with network mode "restricted"
  NSetup,       \* setup commands of a task
  NVerify,      \* verify commands of a task
  Flaky,        \* may a Docker call fail: APIError, which the code handles, or a
                \* timeout or connection error of requests, which it does not?
  MaxEvents,    \* bound: a tool that writes an event needs a shorter trajectory
  MaxCrashes    \* bound: kills of server processes

ASSUME ConstantsAssumption ==
  /\ Restricted \subseteq Sids
  /\ NSetup \in Nat /\ NVerify \in Nat /\ MaxEvents \in Nat /\ MaxCrashes \in Nat
  /\ Flaky \in BOOLEAN
  /\ None \notin Servers \cup Sids \cup Cids \cup Snaps
  (* the markers of an image and of a descriptor are no ids *)
  /\ Sids \cap {"unused", "removed"} = {}
  /\ "torn" \notin Cids \cup {None}

VARIABLES
  (* the Docker daemon *)
  cont,     \* cont[c]: state of container c
  image,    \* image[n]: "unused", "removed", or the session snapshot n is labelled with
  (* the disk *)
  desc,     \* desc[s]: <root>/sessions/s.json: None, "torn", or the container it pins
  traj,     \* traj[s]: the events of the trajectory that handlers wrote
  damage,   \* damage[s]: the file has a line that a kill has "torn", or one cut inside
            \* a character, which makes it "undecodable"; or "none"
  (* each server's memory *)
  live,     \* live[p]: the keys of the sessions dict
  box,      \* box[p][s]: sandbox._container
  ids,      \* ids[p][s]: sandbox._snapshot_ids
  count,    \* count[p][s]: agent_command_count
  proxy,    \* proxy[p]: the sessions whose egress proxy runs in p, sandbox._proxy
  pc, call, \* the running handler
  (* history *)
  ran,      \* ran[s]: a command of the agent has run in the session's container
  cut,      \* the sessions whose last teardown was cut short by an exception
  crashes   \* kills so far

docker == <<cont, image>>
disk == <<desc, traj>>
memory == <<live, box, ids, count, proxy>>
handler == <<pc, call>>
vars == <<docker, disk, memory, handler, ran, damage, cut, crashes>>

\* What the readers of a trajectory rely on.
Log == INSTANCE RunLog WITH Runs <- Sids, log <- traj

Verdicts == {"passed", "failed", "noact", "error"}

\* No handler runs.
NoCall == [op |-> "none", sid |-> None, cid |-> None, snap |-> None,
           n |-> 0, ok |-> TRUE, todo |-> {}]

Init ==
  /\ cont = [c \in Cids |-> "unused"]
  /\ image = [n \in Snaps |-> "unused"]
  /\ desc = [s \in Sids |-> None]
  /\ traj = [s \in Sids |-> <<>>]
  /\ live = [p \in Servers |-> {}]
  /\ box = [p \in Servers |-> [s \in Sids |-> None]]
  /\ ids = [p \in Servers |-> [s \in Sids |-> {}]]
  /\ count = [p \in Servers |-> [s \in Sids |-> 0]]
  /\ proxy = [p \in Servers |-> {}]
  /\ pc = [p \in Servers |-> "down"]
  /\ call = [p \in Servers |-> NoCall]
  /\ ran = [s \in Sids |-> FALSE]
  /\ damage = [s \in Sids |-> "none"]
  /\ cut = {}
  /\ crashes = 0

-----------------------------------------------------------------------------
\* A handler calls writer.write.
Record(s, e) == traj' = [traj EXCEPT ![s] = Append(@, e)]

StopProxy(p, s) == proxy' = [proxy EXCEPT ![p] = @ \ {s}]

Goto(p, step) == pc' = [pc EXCEPT ![p] = step]

\* The handler of a tool starts, returns or raises.
Enter(p, op, s, step) ==
  /\ Goto(p, step)
  /\ call' = [call EXCEPT ![p] = [NoCall EXCEPT !.op = op, !.sid = s]]

Return(p) ==
  /\ Goto(p, "idle")
  /\ call' = [call EXCEPT ![p] = NoCall]

\* A broken variant of Require, for a server that keeps the sessions it finished.
RequireStarted(p, s) ==
  /\ pc[p] = "idle"
  /\ traj[s] # <<>>
  /\ Len(traj[s]) < MaxEvents

\* _require: the tools that take a session id, between two handlers of p; the
\* bound keeps the trajectory short.
Require(p, s) ==
  /\ pc[p] = "idle"
  /\ s \in live[p]
  /\ Len(traj[s]) < MaxEvents

\* exec_run succeeds only in a container that runs.
IsUp(c) == c # None /\ cont[c] = "running"

\* The result of run_finished: a failed setup and an abort are errors; "noact"
\* is "failed" with the reason "no agent activity".
Outcome(p) ==
  IF call[p].op # "finish" THEN "error"
  ELSE IF call[p].ok THEN "passed"
  ELSE IF count[p][call[p].sid] = 0 THEN "noact"
  ELSE "failed"

-----------------------------------------------------------------------------
(* Broken variants of the definitions below, each what a plausible slip in   *)
(* the code would make of one of them.  No specification uses them; they     *)
(* show that the properties at the end can fail.                             *)

\* a revert that does not rewrite the descriptor
AnnounceOnly(p) ==
  /\ pc[p] = "announce"
  /\ IF call[p].op = "start"
     THEN Record(call[p].sid, "run_started") /\ Goto(p, "setup") /\ UNCHANGED call
     ELSE Record(call[p].sid, "reverted") /\ Return(p)
  /\ UNCHANGED <<docker, desc, memory, ran, damage, cut, crashes>>

\* the session is handed out before its setup commands
SetupDoneEarly(p) ==
  /\ pc[p] = "setup"
  /\ live' = [live EXCEPT ![p] = @ \cup {call[p].sid}]
  /\ Goto(p, "persist")
  /\ UNCHANGED <<docker, disk, box, ids, count, proxy, call, ran, damage, cut, crashes>>

\* the command is recorded and not counted
RecordUncounted(p) ==
  LET s == call[p].sid IN
  /\ pc[p] = "record"
  /\ Record(s, "agent")
  /\ Return(p)
  /\ UNCHANGED <<docker, desc, memory, ran, damage, cut, crashes>>

\* the ids of the snapshots are kept per class instead of per sandbox
ForkShared(p, s) ==
  /\ Require(p, s)
  /\ box[p][s] # None /\ cont[box[p][s]] # "removed"
  /\ \E n \in Snaps :
       /\ image[n] = "unused"
       /\ image' = [image EXCEPT ![n] = s]
       /\ ids' = [ids EXCEPT ![p] = [r \in Sids |-> @[r] \cup {n}]]
       /\ Enter(p, "fork", s, "forked")
  /\ UNCHANGED <<cont, disk, live, box, count, proxy, ran, damage, cut, crashes>>

\* the last verify command decides alone
VerifyForgets(p) ==
  LET s == call[p].sid IN
  /\ pc[p] = "verify"
  /\ call[p].n < NVerify
  /\ \/ /\ IsUp(box[p][s])
        /\ \E ok \in BOOLEAN :
             /\ Record(s, IF ok THEN "verify_ok" ELSE "verify_bad")
             /\ call' = [call EXCEPT ![p].n = @ + 1, ![p].ok = ok]
        /\ UNCHANGED pc
     \/ /\ Flaky \/ ~IsUp(box[p][s])
        /\ Goto(p, "stop")
        /\ UNCHANGED <<traj, call>>
  /\ UNCHANGED <<docker, desc, memory, ran, damage, cut, crashes>>

\* a verify command that raises is tried again
VerifyRetries(p) ==
  LET s == call[p].sid IN
  /\ pc[p] = "verify"
  /\ call[p].n < NVerify
  /\ IsUp(box[p][s])
  /\ \E ok \in BOOLEAN :
       /\ Record(s, IF ok THEN "verify_ok" ELSE "verify_bad")
       /\ call' = [call EXCEPT ![p].n = @ + 1, ![p].ok = @ /\ ok]
  /\ UNCHANGED <<docker, desc, memory, pc, ran, damage, cut, crashes>>

\* the verdict is given before the verify commands are through
VerdictEarly(p) ==
  /\ pc[p] \in {"verdict", "verify"}
  /\ Record(call[p].sid, Outcome(p))
  /\ Goto(p, "stop")
  /\ UNCHANGED <<docker, desc, memory, call, ran, damage, cut, crashes>>

\* the session is looked up and stays in the dict
FinishKeeps(p, s) ==
  /\ pc[p] = "idle"
  /\ s \in live[p]
  /\ Enter(p, "finish", s, "verify")
  /\ UNCHANGED <<docker, disk, memory, ran, damage, cut, crashes>>

\* the snapshots are not deleted
StoppedWithImages(p) ==
  LET s == call[p].sid IN
  /\ pc[p] = "images"
  /\ ids' = [ids EXCEPT ![p][s] = {}]
  /\ count' = [count EXCEPT ![p][s] = 0]
  /\ StopProxy(p, s)
  /\ IF call[p].op = "start" THEN Return(p) ELSE Goto(p, "unlink") /\ UNCHANGED call
  /\ UNCHANGED <<docker, disk, live, box, ran, damage, cut, crashes>>

\* the descriptor is not deleted
StoppedKeepsFile(p) ==
  LET s == call[p].sid IN
  /\ pc[p] = "images"
  /\ ids[p][s] = {}
  /\ count' = [count EXCEPT ![p][s] = 0]
  /\ StopProxy(p, s)
  /\ Return(p)
  /\ UNCHANGED <<docker, disk, live, box, ids, ran, damage, cut, crashes>>

\* restricted sessions are resumed like the others
ReadAnyDescriptor(p) ==
  /\ pc[p] = "boot"
  /\ \E s \in call[p].todo :
       IF desc[s] \in {None, "torn"}
       THEN /\ desc' = [desc EXCEPT ![s] = None]
            /\ call' = [call EXCEPT ![p].todo = @ \ {s}]
            /\ UNCHANGED pc
       ELSE /\ call' = [call EXCEPT ![p].todo = @ \ {s}, ![p].sid = s, ![p].cid = desc[s]]
            /\ Goto(p, "attach")
            /\ UNCHANGED desc
  /\ UNCHANGED <<docker, traj, memory, ran, damage, cut, crashes>>

\* the counter restarts at 0
AttachUncounted(p) ==
  LET s == call[p].sid  c == call[p].cid IN
  /\ pc[p] = "attach"
  /\ \/ /\ cont[c] # "removed" /\ damage[s] # "undecodable"
        /\ live' = [live EXCEPT ![p] = @ \cup {s}]
        /\ box' = [box EXCEPT ![p][s] = c]
        /\ UNCHANGED desc
     \/ /\ Flaky \/ cont[c] = "removed"
        /\ desc' = [desc EXCEPT ![s] = None]
        /\ UNCHANGED <<live, box>>
  /\ Goto(p, "boot")
  /\ call' = [call EXCEPT ![p].sid = None, ![p].cid = None]
  /\ UNCHANGED <<docker, traj, ids, count, proxy, ran, damage, cut, crashes>>

\* the container is not looked up
AttachUnchecked(p) ==
  LET s == call[p].sid IN
  /\ pc[p] = "attach"
  /\ live' = [live EXCEPT ![p] = @ \cup {s}]
  /\ box' = [box EXCEPT ![p][s] = call[p].cid]
  /\ count' = [count EXCEPT ![p][s] = Log!Number(traj[s], {"agent"})]
  /\ Goto(p, "boot")
  /\ call' = [call EXCEPT ![p].sid = None, ![p].cid = None]
  /\ UNCHANGED <<docker, disk, ids, proxy, ran, damage, cut, crashes>>

-----------------------------------------------------------------------------
Commands(s) == Log!Number(traj[s], {"agent"})

\* _count_agent_commands: any exception of read_trajectory counts as no commands.
CountCommands(s) == IF damage[s] = "none" THEN Commands(s) ELSE 0

(* start_task; start() runs the egress proxy of a restricted session first *)
StartTask(p, s) ==
  /\ pc[p] = "idle"
  /\ traj[s] = <<>> /\ damage[s] = "none"
  /\ \A q \in Servers : call[q].sid # s /\ s \notin proxy[q]
  /\ \E c \in Cids : cont[c] = "unused"
  /\ proxy' = [proxy EXCEPT ![p] = @ \cup ({s} \cap Restricted)]
  /\ Enter(p, "start", s, "create")
  /\ UNCHANGED <<docker, disk, live, box, ids, count, ran, damage, cut, crashes>>

\* containers.create, in start() and in revert().  A failed call may have
\* created the container all the same.  start() turns APIError into the final event
\* of a session that did not start; any other exception leaves start_task as it is.
Create(p) ==
  LET s == call[p].sid
      reverting == call[p].op = "revert"
      haveImage == reverting => image[call[p].snap] = s
  IN
  /\ pc[p] = "create"
  /\ \/ /\ haveImage
        /\ \E c \in Cids :
             /\ cont[c] = "unused"
             /\ cont' = [cont EXCEPT ![c] = "created"]
             /\ call' = [call EXCEPT ![p].cid = c]
        /\ Goto(p, "launch")
        /\ UNCHANGED <<traj, proxy>>
     \/ /\ Flaky \/ ~haveImage
        /\ \/ UNCHANGED cont
           \/ \E c \in Cids : /\ haveImage /\ cont[c] = "unused"
                              /\ cont' = [cont EXCEPT ![c] = "created"]
        /\ \/ ~reverting /\ Record(s, "error") /\ StopProxy(p, s)
           \/ (reverting \/ Flaky) /\ UNCHANGED <<traj, proxy>>
        /\ Return(p)
  /\ UNCHANGED <<image, desc, live, box, ids, count, ran, damage, cut, crashes>>

\* container.start().  If it raises APIError, the container is removed; a failure of
\* that is swallowed in revert() and escapes as it is from start(), like any other
\* exception of the call.  Both fail if somebody else has removed the container.
Launch(p) ==
  LET s == call[p].sid  c == call[p].cid IN
  /\ pc[p] = "launch"
  /\ \/ /\ cont[c] # "removed"
        /\ cont' = [cont EXCEPT ![c] = "running"]
        /\ box' = [box EXCEPT ![p][s] = c]
        /\ Goto(p, "announce")
        /\ UNCHANGED <<traj, proxy, call>>
     \/ /\ cont[c] = "removed"
        /\ Return(p)
        /\ UNCHANGED <<cont, traj, box, proxy>>
     \/ /\ Flaky /\ cont[c] # "removed"
        /\ \E left \in {"created", "running", "removed"} :
             /\ cont' = [cont EXCEPT ![c] = left]
             /\ IF call[p].op = "start" /\ left = "removed"
                THEN Record(s, "error") /\ StopProxy(p, s)
                ELSE UNCHANGED <<traj, proxy>>
        /\ Return(p)
        /\ UNCHANGED box
  /\ UNCHANGED <<image, desc, live, ids, count, ran, damage, cut, crashes>>

\* writer.write("run_started") or writer.write("session_reverted")
Announce(p) ==
  /\ pc[p] = "announce"
  /\ IF call[p].op = "start"
     THEN Record(call[p].sid, "run_started") /\ Goto(p, "setup")
     ELSE Record(call[p].sid, "reverted") /\ Goto(p, "persist")
  /\ UNCHANGED <<docker, desc, memory, call, ran, damage, cut, crashes>>

\* One setup command.  The SandboxError of exec() is not caught: the handler is
\* left with the container running and no final event.
Setup(p) ==
  LET s == call[p].sid IN
  /\ pc[p] = "setup"
  /\ call[p].n < NSetup
  /\ \/ /\ IsUp(box[p][s])
        /\ \/ /\ Record(s, "setup_ok")
              /\ call' = [call EXCEPT ![p].n = @ + 1]
              /\ UNCHANGED pc
           \/ /\ Record(s, "setup_bad")
              /\ Goto(p, "verdict")
              /\ UNCHANGED call
        /\ UNCHANGED box
     \/ /\ Flaky \/ ~IsUp(box[p][s])
        /\ box' = [box EXCEPT ![p][s] = None]
        /\ Return(p)
        /\ UNCHANGED traj
  /\ UNCHANGED <<docker, desc, live, ids, count, proxy, ran, damage, cut, crashes>>

\* sessions[sid] = sess
SetupDone(p) ==
  /\ pc[p] = "setup"
  /\ call[p].n = NSetup
  /\ live' = [live EXCEPT ![p] = @ \cup {call[p].sid}]
  /\ Goto(p, "persist")
  /\ UNCHANGED <<docker, disk, box, ids, count, proxy, call, ran, damage, cut, crashes>>

\* _persist_session: write_text empties the file, then fills it.
Persist(p) ==
  /\ pc[p] = "persist"
  /\ desc' = [desc EXCEPT ![call[p].sid] = "torn"]
  /\ Goto(p, "fill")
  /\ UNCHANGED <<docker, traj, memory, call, ran, damage, cut, crashes>>

\* A file unlinked meanwhile by another server's rehydration stays unlinked.
Fill(p) ==
  LET s == call[p].sid IN
  /\ pc[p] = "fill"
  /\ desc' = [desc EXCEPT ![s] = IF @ = None THEN None ELSE box[p][s]]
  /\ Return(p)
  /\ UNCHANGED <<docker, traj, memory, ran, damage, cut, crashes>>

-----------------------------------------------------------------------------
(* exec: the command runs, then its event is written and counted.  A call    *)
(* that raises leaves no event, and may have run the command all the same.   *)
Exec(p, s) ==
  /\ Require(p, s)
  /\ IsUp(box[p][s])
  /\ \/ /\ ran' = [ran EXCEPT ![s] = TRUE]
        /\ Enter(p, "exec", s, "record")
     \/ /\ Flaky
        /\ ran' = [ran EXCEPT ![s] = TRUE]
        /\ UNCHANGED handler
  /\ UNCHANGED <<docker, disk, memory, damage, cut, crashes>>

RecordCommand(p) ==
  LET s == call[p].sid IN
  /\ pc[p] = "record"
  /\ Record(s, "agent")
  /\ count' = [count EXCEPT ![p][s] = @ + 1]
  /\ Return(p)
  /\ UNCHANGED <<docker, desc, live, box, ids, proxy, ran, damage, cut, crashes>>

(* note *)
Note(p, s) ==
  /\ Require(p, s)
  /\ Record(s, "thought")
  /\ UNCHANGED <<docker, desc, memory, handler, ran, damage, cut, crashes>>

(* fork: docker commit, then the event; a commit that raises may have left    *)
(* the image, and its id is not remembered.                                  *)
Fork(p, s) ==
  /\ Require(p, s)
  /\ box[p][s] # None /\ cont[box[p][s]] # "removed"
  /\ \E n \in Snaps :
       /\ image[n] = "unused"
       /\ image' = [image EXCEPT ![n] = s]
       /\ \/ /\ ids' = [ids EXCEPT ![p][s] = @ \cup {n}]
             /\ Enter(p, "fork", s, "forked")
          \/ /\ Flaky
             /\ UNCHANGED <<ids, handler>>
  /\ UNCHANGED <<cont, disk, live, box, count, proxy, ran, damage, cut, crashes>>

ForkRecord(p) ==
  /\ pc[p] = "forked"
  /\ Record(call[p].sid, "forked")
  /\ Return(p)
  /\ UNCHANGED <<docker, desc, memory, ran, damage, cut, crashes>>

(* revert: unknown snapshots are refused; then the old container goes, by    *)
(* Stop and Remove, and Create, Launch, Announce, Persist follow.            *)
Revert(p, s, n) ==
  /\ Require(p, s)
  /\ n \in ids[p][s]
  /\ \E c \in Cids : cont[c] = "unused"
  /\ box' = [box EXCEPT ![p][s] = None]
  /\ call' = [call EXCEPT ![p] = [NoCall EXCEPT !.op = "revert", !.sid = s,
                                                !.cid = box[p][s], !.snap = n]]
  /\ Goto(p, IF box[p][s] = None THEN "create" ELSE "stop")
  /\ UNCHANGED <<docker, disk, live, ids, count, proxy, ran, damage, cut, crashes>>

-----------------------------------------------------------------------------
(* finish_task and abort_task take the session out of the dict first.        *)
Finish(p, s) ==
  /\ pc[p] = "idle"
  /\ s \in live[p]
  /\ live' = [live EXCEPT ![p] = @ \ {s}]
  /\ Enter(p, "finish", s, "verify")
  /\ cut' = cut \ {s}
  /\ UNCHANGED <<docker, disk, box, ids, count, proxy, ran, damage, crashes>>

Abort(p, s) ==
  /\ pc[p] = "idle"
  /\ s \in live[p]
  /\ live' = [live EXCEPT ![p] = @ \ {s}]
  /\ Enter(p, "abort", s, "verdict")
  /\ cut' = cut \ {s}
  /\ UNCHANGED <<docker, disk, box, ids, count, proxy, ran, damage, crashes>>

\* One verify command; a SandboxError goes to the teardown of the finally block.
Verify(p) ==
  LET s == call[p].sid IN
  /\ pc[p] = "verify"
  /\ call[p].n < NVerify
  /\ \/ /\ IsUp(box[p][s])
        /\ \E ok \in BOOLEAN :
             /\ Record(s, IF ok THEN "verify_ok" ELSE "verify_bad")
             /\ call' = [call EXCEPT ![p].n = @ + 1, ![p].ok = @ /\ ok]
        /\ UNCHANGED pc
     \/ /\ Flaky \/ ~IsUp(box[p][s])
        /\ Goto(p, "stop")
        /\ UNCHANGED <<traj, call>>
  /\ UNCHANGED <<docker, desc, memory, ran, damage, cut, crashes>>

\* writer.write("run_finished")
Verdict(p) ==
  /\ \/ pc[p] = "verdict"
     \/ pc[p] = "verify" /\ call[p].n = NVerify
  /\ Record(call[p].sid, Outcome(p))
  /\ Goto(p, "stop")
  /\ UNCHANGED <<docker, desc, memory, call, ran, damage, cut, crashes>>

\* container.stop(), in Sandbox.stop() and in revert(); APIError is swallowed.
Stop(p) ==
  LET s == call[p].sid
      c == IF call[p].op = "revert" THEN call[p].cid ELSE box[p][s]
  IN
  /\ pc[p] = "stop"
  /\ box' = [box EXCEPT ![p][s] = None]
  /\ call' = [call EXCEPT ![p].cid = c]
  /\ IF c = None THEN Goto(p, "images") ELSE Goto(p, "remove")
  /\ \/ /\ IsUp(c)
        /\ cont' = [cont EXCEPT ![c] = "exited"]
     \/ /\ Flaky \/ ~IsUp(c)
        /\ UNCHANGED cont
  /\ UNCHANGED <<image, disk, live, ids, count, proxy, ran, damage, cut, crashes>>

\* container.remove(force=True); APIError is swallowed.
Remove(p) ==
  LET c == call[p].cid IN
  /\ pc[p] = "remove"
  /\ \/ cont' = [cont EXCEPT ![c] = "removed"]
     \/ Flaky /\ UNCHANGED cont
  /\ Goto(p, IF call[p].op = "revert" THEN "create" ELSE "images")
  /\ UNCHANGED <<image, disk, memory, call, ran, damage, cut, crashes>>

\* delete_snapshots: one image; APIError is swallowed.
DeleteSnapshot(p) ==
  LET s == call[p].sid IN
  /\ pc[p] = "images"
  /\ \E n \in ids[p][s] :
       /\ ids' = [ids EXCEPT ![p][s] = @ \ {n}]
       /\ \/ image' = [image EXCEPT ![n] = "removed"]
          \/ Flaky /\ UNCHANGED image
  /\ UNCHANGED <<cont, disk, live, box, count, proxy, handler, ran, damage, cut, crashes>>

\* One of these three calls raises another exception, after having taken effect or
\* not: the rest of stop() is skipped, and in finish_task and abort_task the writer is
\* not closed and the descriptor not deleted, although the dict has no session any more.
TeardownRaises(p) ==
  LET s == call[p].sid
      reverting == call[p].op = "revert"
      c == IF pc[p] = "stop" /\ ~reverting THEN box[p][s] ELSE call[p].cid
  IN
  /\ Flaky
  /\ \/ /\ pc[p] = "stop" /\ c # None
        /\ \/ IsUp(c) /\ cont' = [cont EXCEPT ![c] = "exited"]
           \/ UNCHANGED cont
        /\ UNCHANGED image
     \/ /\ pc[p] = "remove"
        /\ \/ cont' = [cont EXCEPT ![c] = "removed"]
           \/ UNCHANGED cont
        /\ UNCHANGED image
     \/ /\ pc[p] = "images"
        /\ \E n \in ids[p][s] : image' \in {image, [image EXCEPT ![n] = "removed"]}
        /\ UNCHANGED cont
  /\ box' = [box EXCEPT ![p][s] = None]
  /\ IF reverting
     THEN UNCHANGED <<ids, count, cut>>
     ELSE /\ ids' = [ids EXCEPT ![p][s] = {}]
          /\ count' = [count EXCEPT ![p][s] = 0]
          /\ cut' = cut \cup {s}
  /\ Return(p)
  /\ UNCHANGED <<disk, live, proxy, ran, damage, crashes>>

\* writer.close(), and the session object is gone.
Stopped(p) ==
  LET s == call[p].sid IN
  /\ pc[p] = "images"
  /\ ids[p][s] = {}
  /\ count' = [count EXCEPT ![p][s] = 0]
  /\ StopProxy(p, s)
  /\ IF call[p].op = "start" THEN Return(p) ELSE Goto(p, "unlink") /\ UNCHANGED call
  /\ UNCHANGED <<docker, disk, live, box, ids, ran, damage, cut, crashes>>

\* _delete_session_file
Unlink(p) ==
  /\ pc[p] = "unlink"
  /\ desc' = [desc EXCEPT ![call[p].sid] = None]
  /\ Return(p)
  /\ UNCHANGED <<docker, traj, memory, ran, damage, cut, crashes>>

-----------------------------------------------------------------------------
(* The server process ends, by a kill or before it has served: its memory is   *)
(* lost.  Containers are detached and live on.                               *)
Down(p) ==
  /\ Goto(p, "down")
  /\ call' = [call EXCEPT ![p] = NoCall]
  /\ live' = [live EXCEPT ![p] = {}]
  /\ box' = [box EXCEPT ![p] = [s \in Sids |-> None]]
  /\ ids' = [ids EXCEPT ![p] = [s \in Sids |-> {}]]
  /\ count' = [count EXCEPT ![p] = [s \in Sids |-> 0]]
  /\ proxy' = [proxy EXCEPT ![p] = {}]

\* The trajectory that p may be writing to.
Writing(p) ==
  CASE pc[p] = "idle" -> live[p]       \* note
    [] pc[p] \in {"announce", "record", "forked", "verify", "verdict"} -> {call[p].sid}
    [] pc[p] = "setup" /\ call[p].n < NSetup -> {call[p].sid}
    [] pc[p] \in {"create", "launch"} /\ call[p].op = "start" -> {call[p].sid}
    [] OTHER -> {}

Crash(p) ==
  /\ pc[p] # "down"
  /\ crashes < MaxCrashes
  /\ crashes' = crashes + 1
  /\ Down(p)
  /\ \/ UNCHANGED damage
     \/ \E s \in Writing(p) : damage' = [damage EXCEPT ![s] = "undecodable"]
     \/ \E s \in Writing(p) : damage[s] = "none" /\ damage' = [damage EXCEPT ![s] = "torn"]
  /\ UNCHANGED <<docker, disk, ran, cut>>

(* build_server: _rehydrate_sessions goes through the descriptors it found.   *)
Boot(p) ==
  /\ pc[p] = "down"
  /\ Goto(p, "boot")
  /\ call' = [call EXCEPT ![p].todo = {s \in Sids : desc[s] # None}]
  /\ UNCHANGED <<docker, disk, memory, ran, damage, cut, crashes>>

\* Malformed and restricted descriptors are unlinked.
ReadDescriptor(p) ==
  /\ pc[p] = "boot"
  /\ \E s \in call[p].todo :
       IF desc[s] \in {None, "torn"} \/ s \in Restricted
       THEN /\ desc' = [desc EXCEPT ![s] = None]
            /\ call' = [call EXCEPT ![p].todo = @ \ {s}]
            /\ UNCHANGED pc
       ELSE /\ call' = [call EXCEPT ![p].todo = @ \ {s}, ![p].sid = s, ![p].cid = desc[s]]
            /\ Goto(p, "attach")
            /\ UNCHANGED desc
  /\ UNCHANGED <<docker, traj, memory, ran, damage, cut, crashes>>

\* Sandbox.attach, and TrajectoryWriter.open: a container that exited is found too; any
\* APIError counts as a container that is gone.
Attach(p) ==
  LET s == call[p].sid  c == call[p].cid IN
  /\ pc[p] = "attach"
  /\ \/ /\ cont[c] # "removed"
        /\ live' = [live EXCEPT ![p] = @ \cup {s}]
        /\ box' = [box EXCEPT ![p][s] = c]
        /\ count' = [count EXCEPT ![p][s] = CountCommands(s)]
        /\ damage[s] # "undecodable"
        /\ UNCHANGED desc
     \/ /\ Flaky \/ cont[c] = "removed"
        /\ desc' = [desc EXCEPT ![s] = None]
        /\ UNCHANGED <<live, box, count>>
  /\ Goto(p, "boot")
  /\ call' = [call EXCEPT ![p].sid = None, ![p].cid = None]
  /\ UNCHANGED <<docker, traj, ids, proxy, ran, damage, cut, crashes>>

\* An exception that _rehydrate_sessions does not catch is the end of the process:
\* one of the Docker client, or the UnicodeDecodeError of _recover_next_seq.
BootFails(p) ==
  /\ pc[p] = "attach"
  /\ Flaky \/ (cont[call[p].cid] # "removed" /\ damage[call[p].sid] = "undecodable")
  /\ Down(p)
  /\ UNCHANGED <<docker, disk, ran, damage, cut, crashes>>

Serve(p) ==
  /\ pc[p] = "boot"
  /\ call[p].todo = {}
  /\ Return(p)
  /\ UNCHANGED <<docker, disk, memory, ran, damage, cut, crashes>>

-----------------------------------------------------------------------------
\* What the client and the operator decide.
Request(p) ==
  \/ Boot(p)
  \/ \E s \in Sids :
       \/ StartTask(p, s) \/ Exec(p, s) \/ Note(p, s) \/ Fork(p, s)
       \/ Finish(p, s) \/ Abort(p, s)
       \/ \E n \in Snaps : Revert(p, s, n)

\* What a server does by itself once a handler or the rehydration has begun.
Step(p) ==
  \/ Create(p) \/ Launch(p) \/ Announce(p) \/ Setup(p) \/ SetupDone(p)
  \/ Persist(p) \/ Fill(p) \/ RecordCommand(p) \/ ForkRecord(p)
  \/ Verify(p) \/ Verdict(p) \/ Stop(p) \/ Remove(p) \/ DeleteSnapshot(p)
  \/ TeardownRaises(p) \/ Stopped(p) \/ Unlink(p)
  \/ ReadDescriptor(p) \/ Attach(p) \/ Serve(p)

\* The process ends.
Exit(p) == Crash(p) \/ BootFails(p)

Next == \E p \in Servers : Request(p) \/ Step(p) \/ Exit(p)

Spec == Init /\ [][Next]_vars

\* p waits for a command of the task.  `timeout` without -k sends SIGTERM and no
\* SIGKILL: nothing bounds a command that ignores it (Sandbox.exec).
Waiting(p) ==
  /\ \/ pc[p] = "setup" /\ call[p].n < NSetup
     \/ pc[p] = "verify" /\ call[p].n < NVerify
  /\ IsUp(box[p][call[p].sid])

\* A handler runs on, as each Docker call other than exec_run returns or raises; it
\* need not come out of a command.
FairSpec ==
  Spec /\ \A p \in Servers : WF_vars((Step(p) \/ BootFails(p)) /\ ~Waiting(p))

-----------------------------------------------------------------------------
Idle(p) == pc[p] = "idle"

\* Between handlers, and after any number of kills and restarts, the number that
\* tells "no agent activity" from "verify failed" is the number of commands in
\* the trajectory (exec, _count_agent_commands), unless a kill has torn a line of it:
\* then the commands before the restart are forgotten.
CountAgrees ==
  \A p \in Servers : \A s \in live[p] :
    pc[p] # "down" /\ damage[s] = "none" => count[p][s] = Commands(s)

\* Between handlers, the descriptor pins the container the session works in, so
\* that a restart attaches to the current workspace and not to one that a revert
\* replaced (_persist_session in start_task and in revert).
PinnedIsCurrent ==
  \A p \in Servers : Idle(p) =>
    \A s \in live[p] : box[p][s] # None => desc[s] = box[p][s]

\* A live session never works in a container that was removed (Sandbox.revert
\* forgets the old one first, stop() too).
BoxExists ==
  \A p \in Servers : \A s \in live[p] :
    box[p][s] # None => cont[box[p][s]] \notin {"unused", "removed"}

\* "passed" is earned: right before it stand NVerify verify commands, all ok,
\* whatever was interrupted and verified before (finish_task).
VerdictEarned ==
  \A s \in Sids : \A i \in DOMAIN traj[s] :
    traj[s][i] = "passed" =>
      /\ i > NVerify
      /\ \A j \in i - NVerify .. i - 1 : traj[s][j] = "verify_ok"

\* A session is judged once, and once more at most for every kill: one between the
\* verdict and the deletion of the descriptor brings the session back
\* (mcp_server.py:482 "write the final event", :515 _delete_session_file).
JudgedOncePerLife ==
  \A s \in Sids : Log!Number(traj[s], Verdicts) <= 1 + crashes

\* A restricted session is live only in the server that runs its egress proxy: a
\* restart, which loses the proxy, drops it (_rehydrate_sessions, attach).
ProxyWhileLive ==
  \A p \in Servers : live[p] \cap Restricted \subseteq proxy[p]

\* Two live sessions never share a container or a snapshot, and a session reverts
\* only to snapshots of its own (Sandbox.revert, attach).
SessionsApart ==
  \A p \in Servers : \A s, r \in live[p] : s # r =>
    /\ box[p][s] = box[p][r] => box[p][s] = None
    /\ ids[p][s] \cap ids[p][r] = {}

\* A descriptor means a session whose setup succeeded (start_task persists it
\* last): its trajectory begins with run_started and all setup commands, ok.
PersistedAfterSetup ==
  \A s \in Sids : desc[s] # None =>
    /\ Len(traj[s]) > NSetup
    /\ traj[s][1] = "run_started"
    /\ \A i \in 2 .. NSetup + 1 : traj[s][i] = "setup_ok"

\* A session that was given a verdict, and that no server holds, works on or can
\* find on disk, is over for good: nothing is ever added to its trajectory.
Over(s) ==
  /\ \E i \in DOMAIN traj[s] : traj[s][i] \in Verdicts
  /\ desc[s] = None
  /\ \A p \in Servers : s \notin live[p] /\ call[p].sid # s

OverForGood == [][\A s \in Sids : Over(s) => Over(s)' /\ UNCHANGED traj[s]]_vars

\* Without kills and failing Docker calls nothing is left behind: between
\* handlers, every container, snapshot and proxy belongs to a live session
\* (Sandbox.stop, delete_snapshots, revert).
NothingLeaks ==
  (~Flaky /\ crashes = 0 /\ \A p \in Servers : Idle(p)) =>
    /\ \A c \in Cids : cont[c] \in {"created", "running", "exited"} =>
         \E p \in Servers : \E s \in live[p] : box[p][s] = c
    /\ \A n \in Snaps : image[n] \in Sids =>
         \E p \in Servers : image[n] \in live[p] /\ n \in ids[p][image[n]]
    /\ \A p \in Servers : proxy[p] = live[p] \cap Restricted

\* The reason "no agent activity (verify ran on untouched workspace)" is given
\* only if no command of the agent has run (mcp_server.py:499), provided that no
\* server was killed and no Docker call failed right after a command.
NoactMeansUntouched ==
  (~Flaky /\ crashes = 0) =>
    \A s \in Sids : (\E i \in DOMAIN traj[s] : traj[s][i] = "noact") => ~ran[s]

\* As long as no server was killed, what is written is the log of one run: setup,
\* work, verify, one verdict, in this order and nothing after.  This is said of the
\* events that handlers write; an egress_attempt may come anywhere (Egress).
ImplementsRunLog == Log!Init /\ [][crashes = 0 => Log!Next]_traj

\* Whatever fails, a handler or a rehydration that does not come to its end waits for
\* one command of the task for ever (start_task, revert, finish_task, abort_task).
HandlerReturns ==
  \A p \in Servers : []<>(pc[p] \in {"idle", "down"}) \/ <>[]Waiting(p)

\* A session that is finished or aborted while its server lives does end: no
\* descriptor is left that could bring it back, unless an exception cut its teardown
\* short, or a verify command never returns (finally of finish_task).
TearsDown ==
  \A p \in Servers :
    \/ <>[]Waiting(p)
    \/ \A s \in Sids :
         (call[p].sid = s /\ call[p].op \in {"finish", "abort"}) ~>
           \/ desc[s] = None /\ call[p].sid # s /\ s \notin live[p]
           \/ pc[p] = "down"
           \/ s \in cut
=============================================================================
