# Prehnite in TLA+

Prehnite runs an agent on a task inside a Docker container, writes everything
that happens to a trajectory file, runs the task's verify commands and gives a
verdict.  This directory holds TLA+ modules for the parts of it that keep state
across calls, processes and crashes, TLC runs over small instances, and TLAPS
proofs for all instances of them.  `PROJECT.json` gives, for each definition,
the lines of the source that it stands for.

    tlc -workers 2 -config Writer.cfg MCTrajectoryWriter
    tlapm TrajectoryWriterProofs.tla

Paths below are relative to the repository; `prehnite/` is `src/prehnite/`.

## 1. The system and its parts

| part | state | operations | module |
|---|---|---|---|
| trajectory writer, `prehnite/trajectory.py` | the file; per writer `_seq`, `_closed`, `_lock`, the file object's buffer | `open`, `write`, `close`, `_recover_next_seq`; `read_trajectory` | `TrajectoryWriter` |
| MCP session server, `prehnite/mcp_server.py` | per process the `sessions` dict; on disk one descriptor per session and the trajectories | `start_task`, `exec`, `note`, `fork`, `revert`, `finish_task`, `abort_task`, rehydration at start-up; the read-only `list_tasks`, `describe_task`, `read_trajectory` | `SessionServer` |
| sandbox, `prehnite/sandbox.py` | `_container`, `_snapshot_ids`, `_proxy`; the daemon's containers and images | `start`, `exec`, `snapshot`, `revert`, `attach`, `delete_snapshots`, `stop` | `SessionServer`, `Runner` |
| branch-aware reads, `_filter_branch` | none | the views `current` and one per snapshot | `Branches` |
| headless and embedded runner, `prehnite/runner.py` | the locals of `run()` | `run` | `Runner` |
| reaper, `prehnite reap` in `prehnite/cli.py` | none of its own | reads descriptors, lists containers and images, removes | `Reaper` (not the log files) |
| egress proxy, `prehnite/egress_proxy.py` | listening socket, accepting thread, a handler thread per connection | `start`, `stop`; allow or deny an attempt, log it, answer, forward | `Egress` |
| output truncation, `prehnite/overflow.py` | spill files named by content, shared by all servers on a root | cut to a head, spill | `Overflow` |
| batch runner, `prehnite batch` in `cli.py` | results per task; the trajectories it finds | skip, run with a timeout, choose a trajectory, exit code | `Batch` |
| stats and compare in `cli.py` | none | summaries, rates, regressions between two snapshots | `Reports`, checked on the states of `Batch` (not medians, counts and reasons) |
| inspect and reports, task loader, schemas, image and sample tasks | none | parsing, formatting, data | not modelled |

How they interact.  A client process starts an MCP server of its own; FastMCP
runs the synchronous tool handlers of one server one at a time.  Several servers
share `<root>`, the Docker daemon and the descriptors, with no lock between them.
The threads of the egress proxy share the session's writer with the handlers: the
writer's lock is the only lock of the system.  `prehnite reap` and `prehnite batch`
are separate processes that only see the disk and the daemon.  Nothing is
transactional: every handler is a sequence of Docker calls, appended events and
descriptor writes, and the process can be killed between any two.

What is hard here, and the property that makes each part correct:

* *writer* -- two threads and `close()` interleave in `write()`, a kill may tear
  the line, a resumed session continues the numbering from the file.  Lines are
  numbered without gap or repetition, and what was acknowledged stays on disk.
* *server* -- a kill or a failing Docker call between two steps of a handler;
  memory, descriptor, container and trajectory must agree afterwards, a session
  that is over must stay over, and the verdict must be the one the log earns.
* *sandbox* -- `revert` replaces the container under a live session; nothing may
  be left behind, and no two sessions may share a container or a snapshot.
* *reads* -- forks and reverts nest and repeat in any order; the current view must
  show no rolled-back work and hide no other.
* *runner* -- whichever exception is raised, one verdict is logged and the sandbox is stopped.
* *reaper* -- descriptors and containers are read at different times.
* *egress proxy* -- its handler threads are not waited for: they may log after the verdict, or
  after the writer was closed.  Who gets a decision must find it logged, `stop()` must return,
  and every thread must end.
* *overflow* -- two servers look for, empty and fill one spill file at a time, and may be killed while they do.
  A hash in an event must lead to the whole output.
* *batch* -- nothing ties a trajectory to the agent that was started: an agent outlives its timeout, and
  people start runs by hand; a session that was judged may come back and be judged again.  Exit code 0 must be earned, and nobody else's run be taken for the agent's.
* *stats, compare* -- rates are rounded, files are unreadable or go on after their verdict; a
  regression must not be missed.

## 2. The modules

    NumberedLog (abstract) <- TrajectoryWriter <- TrajectoryWriterProofs
    RunLog      (abstract) <- SessionServer <- SessionServerProofs
                                            <- Reaper
                           <- Runner <- RunnerProofs
    Reaper, SessionServerProofs <- OneServerProofs
    Egress   <- EgressProofs
    Overflow <- OverflowProofs
    Reports  <- Batch <- BatchProofs
    Branches <- BranchesProofs

`MC...` modules instantiate them for TLC.

**`NumberedLog`** is what a trajectory file promises its readers: a log that grows by
one entry at a time, entry *i* numbered *i* - 1.

**`TrajectoryWriter`** has the writers opened over time on *one* file.  `write()` is
split into `Call`, `Enter` (take the lock, check `_closed`), `Put` (into the file
object's buffer) and `Flush` (the system call, `_seq += 1`, lock released), because
`close()` does not take the lock and a kill can come anywhere.  A line is an event,
garbage that does not parse, or bytes that are no UTF-8 (`undecodable`: cut inside a character), with or without
its newline: `AppendBytes` says what an append makes of a
file that ends inside a line.  `KillTorn` leaves a proper prefix of the line.  A file that does not decode cannot be
opened: `_recover_next_seq` reads it outside its `try`, and `open()` raises.  Two
writers may be open on the file, as `trajectory_path()` names files by the second.
`intact` records that neither has happened yet.

**`RunLog`** is what readers of a trajectory take for granted: phases in order and at
most one verdict, the one that the events before it deserve.  The attempts of an egress proxy may come between any two
events, and before the first and after the last.

**`SessionServer`** has every tool of the server that changes state.  `pc[p]` is the
next step of the handler that server `p` runs and `call[p]` its locals; a handler is split at
every call that leaves the process.  `start_task` is `StartTask`, `Create`, `Launch`,
`Announce`, `Setup`..., `SetupDone`, `Persist`, `Fill`; `revert` is `Revert`, `Stop`,
`Remove`, `Create`, `Launch`, `Announce`, `Persist`, `Fill`; `finish_task` is `Finish`,
`Verify`..., `Verdict`, `Stop`, `Remove`, `DeleteSnapshot`..., `Stopped`, `Unlink`;
rehydration is `Boot`, `ReadDescriptor`/`Attach`..., `Serve`.  `write_text` of the descriptor
is two steps, as it empties the file first.  With `Flaky` each Docker call may raise, after
having taken effect or not: an `APIError`, which the code handles, or an error of `requests` (the daemon does not answer), which it
does not.  The second kind ends a handler where it is: `TeardownRaises` for the calls of `stop()`, `delete_snapshots()` and
`revert()` (the history variable `cut` has the sessions whose end it cut short), and `BootFails` for rehydration, which ends
the process.  `Crash` loses a server's memory and may tear the line that is being written, which `damage` tells; containers are
detached and live on.  A trajectory with a torn line does not parse, and the counter that `CountCommands` recovers from it is 0; one
that does not decode makes `Attach` impossible and `BootFails` the only way on.  `traj` has the events that the handlers write: the
`egress_attempt` events of a restricted session come from threads of the proxy and are modelled in `Egress` and `Runner`, so that
what `ImplementsRunLog`, `VerdictEarned` and `OverForGood` say of the server is said of the handlers.  A container that dies by itself is not modelled; one that was
stopped and not removed is, and one that somebody else removed cannot be started any more.

**`Reaper`** puts `prehnite reap` next to the server, one step per listing and per
removal.  The reading of all descriptors is one step, and there are two, as in the code.  A listing that Docker refuses is empty, a
removal that it refuses is a warning, and any other exception ends the command (`BreakOff`); the history variable `whole`
tells whether none of this has happened to the last reap.

**`Branches`** has the histories of work, forks and reverts of a session, and the
views that `_filter_branch` computes.  `now` and `at` are history: the events that
led to the workspace as it is, and as it was when a snapshot was taken.

**`Runner`** is `run()` with its `try / except / finally`, for a list of commands
and for an agent that is a function, which may catch errors or raise its own.  `except` takes an `Exception`; a
`KeyboardInterrupt` or `SystemExit` (`Interrupt`) goes past it to `finally`, where `stop()` may raise in its turn (`CutShort`).
The threads of the proxy log through the same writer as long as it is open (`EgressAttempt`).

**`Egress`** composes the proxy with the tool handler that owns it.  `todo` is what the handler has
still to do: `start_task` up to the setup, then one of the four ways in which the code tears a session down
(`Finish`, `SetupFailed`, `StartFailed`, and `Left`, where `start_task`, or `Sandbox.stop` in the middle of a teardown
(`StopRaises`), raises and leaves the proxy running).  The order of
verdict, container, `stop()` and `writer.close()` is the code's and differs between them.  The accepting
thread is that of `socketserver`, with the shutdown request it resets and the event it sets when it ends;
a connection goes through `_Handler.handle` step by step (`Accept`, then `GiveUp` without an answer, `Reject` with a 405
or a 400, or `Decide`; `Dial`, `OnAttempt`, `Reply`, the two directions of `_pump`).  Connections hang up on either side at any time.

**`Overflow`** has `write()` of a command event with long outputs: for `stdout` and `stderr` a look
for the file (`Check`), `write_bytes` in its system calls (`OpenSpill`, `Fill`...), and the event itself
(`WriteEvent`).  A text is a sequence of characters, each given by its width in bytes, and
stands for its hash.  `BreakOff` is a kill or a failing write.  `hit` records the texts whose file a fault
has left half written.

**`Reports`** has the readers as operators: `Summarize`, `Rows`, `Diff`, `CompareExit`.

**`Batch`** has the command (`Begin`, `Skip`, `Launch`, `Collect`, `Timeout`, `End`, `Interrupt`) next to the
runs whose trajectories it finds: those of its own agents, those that outlived a timeout and those started
`ByHand`.  A run is the age of its file, its trajectory in the eyes of the readers, whether its agent is alive and what is left of its
session: a server that starts takes up a session whose descriptor is still there (`Resume`), also one that has been
judged, and it can be judged again into the same file (`judged` is the set of verdicts there).  The sessions of
`prehnite run`, which have no descriptor, are taken up as well in the model, which only adds behaviours.
Time passes in seconds (`Tick`); only ages and the time since the agent was started matter.

Next to a definition some modules have *broken variants* of it (`RecoverOffByOne`,
`AttachUnchecked`, ...).  No specification uses them: each is a plausible slip that makes one
of the properties fail, and `PROJECT.json` says which.

## 3. The runs

All passing runs explore their whole state space.  Every run sets `CHECK_DEADLOCK FALSE`: when the
bounds are used up (trajectories full, writers opened, containers used), or a run has
ended, the system rightly stops.

| run | instance | distinct states | shows |
|---|---|---|---|
| `Writer` | 3 openings, 2 threads, calls while the file has fewer than 2 lines | 739 323 | `Numbered`, `AckedOnDisk`, `WriterInv`, `KillCostsOneLine`, `NoLateLines`, refinement of `NumberedLog` (`ImplementsLog`) |
| `Server_faulty` | 1 server, 1 session, 2 containers, 1 snapshot, Docker fails in both ways, 1 kill that may tear a line | 667 102 | counter, descriptor, container and verdict agree; `JudgedOncePerLife`, `OverForGood`; refinement of `RunLog`; `HandlerReturns`, `TearsDown` |
| `Server_sessions` | 1 server, 2 sessions, one of them restricted, 3 containers, 2 kills | 5 659 957 | `SessionsApart`, `ProxyWhileLive`, `NothingLeaks`, `NoactMeansUntouched` |
| `Reaper_quiet` | the server with 1 session, 2 containers, 1 snapshot, Docker fails in both ways, 1 kill, one reap that may fail | 6 547 351 | `CleansUp`, `SparesIdleSessions` |
| `Branches` | 3 snapshots, 8 events | 14 822 | `NothingRolledBack`, `AllOfTimeline`, `AbandonedIsShown` |
| `Runner` | 2 setup, 3 verify, at most 3 agent commands, 2 egress attempts | 260 233 | `ResultIsLogged`, `NoContainerLeft`, refinement of `RunLog`, `Ends` |
| `Egress` | 2 connections to an allowed name, a subdomain of it and a name that only begins like it | 509 866 | `AnsweredIsLogged`, `StoppedForGood`, `StopReturns`, `NoHandlerLeft` |
| `Overflow` | 2 writers, 3 events, 5 texts, budget of 3 bytes, 2 system calls per file, 1 fault | 2 487 059 | `RefsWhole`, `HeadIsLongest`, `SettledStays` |
| `Batch` | 1 task, 2 runs, timeout and skip window of 1 s, ages up to 3 s | 1 916 426 | `ExitZeroIsEarned`, `OwnWhenAlone`, `BatchEnds`, `CompareHonest` |
| `Writer_torn_reopen` | 2 openings, one after the other | violated | `NoSeqRestart` |
| `Reaper_active` | a reap during a tool call | violated | `ActiveIsSpared` |
| `Egress_late` | 2 connections | violated | `VerdictLast` |

Why the bounds are enough.  Three openings give a writer whose predecessor was killed, one that
follows a resumed one, and two that overlap; two threads are what it takes to race, and more
only wait for the same lock.  A call is admitted while the file has fewer than `MaxLines`
lines, so threads already inside push the file beyond it.  Two containers give one revert (the
second container replaces the first); three
with two sessions give both a container and one of them a revert.  A second kill would add to `Server_faulty` a
kill during rehydration of what an earlier kill left; `Server_sessions` has it, without
failing Docker calls.  `Reaper_quiet` has one session, so that it can have everything that fails: what two sessions add is that
they are told apart, which the reaper does by descriptors that are one per session.  In `Runner`, one attempt can come before the
verdict and one after it.  `MaxEvents` bounds the tools that a client may call, not the
handlers that run: `finish_task` always completes.  In `Branches`, 8 events are enough for three nested forks
with work between them and two reverts, in every order.  In `Egress`, connections only meet in the proxy's
socket and in the log, so that two show every order of their events.  In `Overflow`, the texts fit
into the budget, or cut it at each offset of a character of two, three and four bytes; two writers
and two system calls are what it takes to empty a file that another is filling, and the third event
comes after a fault.  In `Batch`, two runs are one by hand next to a batch, or two batches one after the other, the first
of whose agents may still write, be killed and be taken up again; the tasks of a
batch share nothing but the clock, so that one task shows them all; the theorems are for any number of runs and tasks; an age of 3 s is beyond the timeout, the window and the second
of slop, and greater ages are not told apart.

Some properties are conditional because the code promises them only so far: `Numbered`
and `AckedOnDisk` hold until a kill tears a line or two writers overlap, `NothingLeaks`
and `NoactMeansUntouched` without kills and failing Docker calls, `CountAgrees` for trajectories without a torn line,
`ResultIsLogged` for runs that are not interrupted, `TearsDown` unless an exception cut the teardown short, `CleansUp` of a
reap whose own calls succeed (whatever failed in the server), `ImplementsRunLog`
of the server until it is killed (a kill in `finish_task` leaves verify events that the
resumed session then adds to), and `AllOfTimeline` and `AbandonedIsShown` as long as no revert goes to a
snapshot of a branch that was rolled back.  What survives beyond the condition is a property
of its own: `KillCostsOneLine`, `NoLateLines`, `CleansUp`, `OverForGood`, `JudgedOncePerLife`, `NothingRolledBack`.

Symmetry is used in the runs with invariants (and, in `Writer`, action properties of permutable
openings and threads) only, never with liveness.

**Fairness.**  `Server_faulty` and `Runner` assume weak fairness of the steps that a
handler makes by itself, with one exception: a handler is straight-line Python and a Docker call other than `exec_run` returns
or raises, but nothing is assumed of a command of the task.  `exec` runs it under `timeout` without `-k`
(`sandbox.py:318`), which sends a SIGTERM and no SIGKILL; `Waiting` names the states in which a handler waits for a command, and
`HandlerReturns`, `TearsDown` and `Ends` say what is true then: a handler that does not end waits in one of these states for
ever.  Nothing is assumed of
clients (`Request`), of kills, or of an agent that is a function, which may compute for ever;
`Ends` is stated for lists of commands only.  `Egress` assumes fairness of the accepting thread, of each
handler thread (each of its waits has a timeout, or ends when the container has been stopped and hangs up), and of
the tool handler once it tears the session down (after the verify commands); nobody has to connect, to hang up or to call
a tool, and setup commands need not return.  `Batch` assumes
that time passes and that `batch` takes the steps that are its own (`Skip`, `Launch`, `Timeout`, `End`), and nothing of agents, nor that
the command it has started returns (`Collect`): `BatchEnds` holds because of the timeout.

## 4. The proofs

Eight modules hold proofs, each for all values of the constants and from the named
`ASSUME` of the module it is about.  The assumptions say that numbers are naturals, that ids are
not confused with the markers that stand beside them in a variable (`None`, `"unused"`, `"torn"`), that
tasks of a batch have names of their own, and that verdicts are the three of `RunStatus` (`schemas.py:80`).
Every safety property of a passing run is a theorem.

**`TrajectoryWriterProofs`**, for any sets of openings and threads and any bound:

* `TypeCorrect`: `Spec => []TypeOK`;
* `WriterInvariant`: `Spec => []WriterInv`;
* `NumberedAlways` and `AckedDurable`: `Spec => []Numbered`, `Spec => []AckedOnDisk`;
* `WriterImplementsLog`: `Spec => ImplementsLog`;
* `NoLateLinesAlways`: `Spec => NoLateLines`;
* `KillCostsOneLineAlways`: `Spec => []KillCostsOneLine`.

Neither `Numbered` nor `AckedOnDisk` is inductive.  `Flush` keeps the numbering only if
the buffer holds exactly one line and that line carries the length of the file, and two
threads could break that if both were between check and flush.  `WriterInv` adds what is missing:

* always: the lock is held by exactly the thread that is between its check and its flush
  (`LockHeld`), and nobody is inside `write()` of a writer that was never opened (`Unopened`);
* while `intact`: one writer at most is open, its counter is the length of the file, each
  line is whole, and the buffer is empty or holds the line of the thread about to flush (`Exact`).

`TypeStep` and `LockStep` are proved for all steps; `ExactStep` has one lemma per action.
Since `intact` never becomes true again (`IntactStep`), `Exact` is needed only before
steps that keep it.  The facts about data are in four lemmas: `AppendWhole` (an append to whole lines
is a concatenation), `RecoverIsLen` (`_recover_next_seq` of a numbered file is its length),
`ExtendFile` and `FileUnchanged`.  The refinement maps the file to the sequence
of its numbers and authors: `Flush`, and a `Close` that finds a line in the buffer, append the
entry that `Exact` says is next, and every other step stutters.  `NoLateLines` does not need `intact`: its
invariant is that a buffer holds lines of its own writer only (`BufferedOwn`), and `AppendedIsFromBuffer` says that
every line that an append adds is one of those, also when the first of them runs into a fragment.

`KillCostsOneLine` holds without `intact` as well, and is no invariant by itself either: a kill does the damage, and a later append
takes the line.  `Costs` keeps the account.  An append overwrites only a line without a newline, which is
none of the acknowledged ones, so what is acknowledged and in the file stays in it (`WholeLinesStay`); a new line is lost only if
it runs into a fragment at the end of the file, and only the first that is appended does (`AppendLosesNone`,
`OneMoreLine`).  So (`Paid`) the acknowledged lines that are missing, and one more if the file ends in a fragment, are no more
than the killed writers.

**`RunnerProofs`**, for any number of setup, verify and agent commands: `RunnerInvariant`,
`ResultIsLoggedAlways`, `NoContainerLeftAlways` and the refinement `RunnerImplementsRunLog`.
The log of a run is judged by counting its events, and `run()` counts nothing but the commands of the agent, so
the invariant says for each phase what its local variables tell of the counts (`Phases`: in `verify`, `n` verify events
are logged and `ok` says that none is bad), that a verdict with nothing but egress attempts behind it is in the log once `run()` has
come to its `finally` without an interrupt (`Closed`), and that the
sandbox holds the container unless Docker failed (`Held`).  `NumberAppend` is the one fact about data: one more event
is one more of each kind that it is of, so that an attempt changes none of the counts.  A step maps to a step of `RunLog` because the
counts make the event one that may follow (`LogAdd`); an attempt may always follow (`LogAttempt`).

**`EgressProofs`**, for any number of connections, hosts and any allowlist: `AnsweredIsLoggedAlways`.
The invariant `Accounted` is about one connection and the log: before `on_attempt` there is no attempt of it and no answer,
afterwards exactly one that agrees with the answer, a 405 or 400 comes without one, and `dialling` and what follows it are reached by allowed names only.
Nobody else's event is an attempt of the connection (`AttemptsAfter`), which is why verdict,
`close()` and the other threads may come anywhere.  `SuffixIsEnd` shows that the allowlist matches ends of names.
`StoppedForGoodAlways` has an invariant of its own, on the owner, the accepting thread and the socket: the socket is closed only after
that thread has ended, and then no shutdown request is left that could end another one.

**`OverflowProofs`**, for any callers, texts, budget, number of system calls and faults: `OverflowInvariant`,
`RefsWholeAlways`, `SettledAlways` and `HeadIsLongestAlways`.  `RefsWhole` is not inductive: two callers may find the file
missing, and the second empties what the first has filled and named.  `Covered` says why no reader is left with less
than the whole output: of a file that no fault hit, every chunk is in place, or somebody who fills the file has it still before
him (who empties it has all of them before him).  `Busy` and `Created` tie the callers and the names to files that exist.

`HeadIsLongestAlways` is about data: the walk back of `cap_stream` from the budget to the nearest boundary of a character, for any text.
The walk and `FlattenSeq`, with which the encoding is put together, are recursive functions, that is, the `CHOOSE` of a function that solves an
equation.  For `FlattenSeq` a solution is built up to each length (`JoinExists`) and all of them agree (`JoinUnique`), so that one more character of a text puts
its bytes at the end (`UptoStep`); hence the bytes that continue a character are those at which none starts (`EncodedAs`).  For
the walk the solution is named outright, the start of the character that a byte belongs to, and every other one agrees with it (`CutIs`).  Starts are in order, so the one where the walk
stops is the last that is within the budget (`CutIsLongest`).  The library's theorems on induction take a predicate as a parameter and
cannot be used; `Least` says instead that a set of numbers has a least element, and each induction is about the set of
the numbers for which a claim holds, or fails (`Induct`).

**`SessionServerProofs`**, for any number of servers on the root, sessions, containers, snapshots, kills and
failing Docker calls: `ServerPersistedAfterSetup`, `ServerProxyWhileLive`, `ServerOverForGood`, `ServerSessionsApart`,
`ServerNothingLeaks`.  Some thirty kinds of step touch a dozen variables, so the invariants are layers, each proved with
those before it:

* `Typed`: the types, and what the next step of a handler says of its operation and its locals;
* `Owned`: a session that `start_task` still sets up is known to no other server and has no descriptor, and its log is exactly as long
  as `n` says; who holds a session after setup, in memory, in a handler or on disk, finds the whole setup in its log;
* `Proxied`: the proxy outlives the container of a restricted session;
* `Apart`: a container that a descriptor, a sandbox or a handler names was used and is named for one session only; a snapshot is in
  one server's list and labelled with the session it is listed for;
* `Tied`: what a server has of a session that it does not serve belongs to the handler it is running;
* `InCharge`, as long as nothing was killed and Docker does not fail: whatever container, image or proxy exists is in a sandbox or
  in the hands of a running handler that is going to use or remove it.

The proofs do not go through all actions for each of these.  `Changes` says which steps change each variable,
`Others` that a step leaves the other servers alone, `Leads` which steps lead to each step of a handler; `Written` and
`Described` say who appends to a trajectory and who writes a descriptor.  `OverForGood` then follows from `Owned`: who appends knows
the session.

**`OneServerProofs`** has what needs `OneServer` (there is one server on the root, killed and restarted at any
point): `OneServerCountAgrees`, `OneServerPinnedIsCurrent`, `OneServerBoxExists`, `OneServerVerdictEarned`,
`OneServerJudgedOncePerLife`, `OneServerNoactMeansUntouched` and the refinement `OneServerImplementsRunLog`.  The hypothesis is the code's own: a
second server takes over the sessions of the first (section 5), appends to their logs behind its back and stops their containers,
and nothing keeps these seven true then.  The invariants say that the counter is right wherever it will still be used, but for trajectories with a torn line (`Counted`), that the
descriptor names the container of the sandbox unless a handler is just replacing it (`Pinned`), that a sandbox in use has
a container that exists (`Backed`), and that the last `n` events of a log in `verify` are good verify events as long as
`ok` is true (`Verified`), also where an interrupted verify left events of its own before them.
`Judged` counts the verdicts of a session: no more than the kills as long as anybody may still come to judge it (a server that is down or
rehydrates, the dict, a handler before its verdict), and one more at most afterwards; a verdict leaves nobody who could give another
(`VerdictIsLast`) until the next kill.  Until the first kill, `Running` reads the
phase of the log off the step of the handler, which is what `RunLog` asks of the next event, and `Untouched` finds every
command that ran in the log or in the handler that is about to record it.

The same module puts the reaper next to the server.  `ReaperCleansUp` needs no hypothesis on the servers: unless one of them
makes a step meanwhile, which the history variable `quiet` tells, what the reaper has read remains what the descriptors pin (`Reading`), and once it
has listed, whatever still exists is pinned or on its lists, as long as Docker has refused it nothing (`Covered`, `whole`).  `ReaperSparesIdleSessions` is about one server: a reap only removes containers and images, so
`Typed`, `Owned`, `Tied` and `Pinned` survive every step of it (`ReapRemoves`), while `Backed` does not
(`Reaper_active`).  Between two tool calls they say that the descriptor of each live session is whole and names its container (`Saved`), and that its
snapshots are labelled with it (`Labelled`), which is what the reaper goes by.

**`BranchesProofs`**, for logs of any length and any snapshots: `NothingRolledBackAlways`,
`AllOfTimelineAlways`, `AbandonedIsShownAlways`.  The views are computed from the positions of forks and reverts; the workspace follows the
copies that snapshots took.  `Seen` ties the two for each piece of work: it lies between a fork and its revert, and always
will, or it is in the workspace and in every snapshot that was taken after it.  `Timeline` is the converse as long as reverts go back along the
timeline: a snapshot on it is its beginning, and nothing on it was rolled back; hence a revert takes away what
came after the fork, which is what the view of the snapshot shows from then on.

**`BatchProofs`**, for any tasks, timeout, window and number of runs: `BatchExitZeroIsEarned`, `BatchOwnWhenAlone`,
`BatchCompareHonest`.  The agents are processes that the batch does not control, and even a dead run may be taken up
again; what is certain is that a verdict is lost by nothing but a torn line, though another may follow it (`WellFormed`, `Grows`).  `Earned` says of
each task reported as passed or skipped that the run it was judged by has that verdict.  `Lonely` adds the clock: nobody else's file is as young as
the agent's.  `RatesCompare` is the arithmetic of `compare`: rates rounded down keep their order, and differ if they were a point apart.

Only model-checked, and why:

* liveness, out of the provers' reach: `HandlerReturns` and `TearsDown` of the server, `Ends` of the runner, `StopReturns` and
  `NoHandlerLeft` of the proxy, `BatchEnds`.

## 5. Where the code and its documentation differ

Three differences have a run:

* after a torn line `_recover_next_seq` returns 0 (`trajectory.py:141`) and the next writer, alone on the file, restarts the numbering,
  which `tests/test_trajectory.py:60` says must not happen (`Writer_torn_reopen`);
* the reaper reads the descriptors before it lists the containers and can remove the container of a
  session that starts or reverts; `docs/devlog/0018-container-reaper.md:46-48` says it is safe
  alongside active sessions (`Reaper_active`);
* `finish_task` writes `run_finished`, which `mcp_server.py:482` calls the final event, while the container and the proxy still
  run: a connection of the container that is denied before the stop is logged after it (`Egress_late`).  `batch`, which
  looks at the last event only (`cli.py:945-949`), calls such a run incomplete.

The models reach these too, and no run is spent on them:

* a kill between the swap of the containers in `revert` and the rewriting of the descriptor loses the
  session; `mcp_server.py:18` says sessions survive a restart;
* a second server resumes sessions that are live in the first, and writes to their trajectories
  after the verdict; `docs/devlog/0020-fork-revert.md:118-121` says the trajectory is sealed;
* snapshot ids are only in memory, so that snapshots taken before a restart outlive a
  session finished after it (`mcp_server.py:398-399` says they do not);
* a kill after the verdict and before the unlink brings a session back, and it can be judged twice (once more per kill, no
  more: `JudgedOncePerLife`);
* any Docker error during `attach` deletes the descriptor, not only a missing container
  (`mcp_server.py:103`), and a container that exited is resumed as if it ran
  (`docs/devlog/0017-session-persistence.md:119-122`);
* `finish_task` writes no final event when a verify command raises (`mcp_server.py:482`);
* "no agent activity (verify ran on untouched workspace)" (`mcp_server.py:499`) can be wrong after a kill between
  a command and its event;
* forks and reverts inside a rolled-back range are not in `current` (`mcp_server.py:196-198`), and
  neither is work that a revert to a snapshot of a rolled-back branch has restored
  (`docs/devlog/0021-branch-aware-reads.md:32`);
* two runs of one task in the same second share a file, each with a counter of its own
  (`runner.py:70`; `README.md:146` calls `seq` monotonic);
* a file that ends in a torn line cannot be read at all by `read_trajectory()`, where
  `trajectory.py:7-8` speaks of a usable partial trajectory: `stats` skips it and `batch` calls it incomplete;
* a handler that waits for a command that ignores SIGTERM waits for ever: `sandbox.py:318` has no `-k`, while
  `docs/devlog/0012-per-exec-timeout.md:56` speaks of a SIGKILL after 10 s;
* a timeout or connection error of `requests` is no `APIError` and escapes `Sandbox.stop()` (`sandbox.py:343-350`): `finish_task`
  then neither closes the writer nor deletes the descriptor of a session that it has taken out of the dict, and a failed
  `start_task` or `run()` raises that error in place of its own;
* a line torn inside a character makes `_recover_next_seq` raise (`trajectory.py:131`), which `_rehydrate_sessions` does not
  catch: no server starts on the root as long as the descriptor is there;
* a torn line makes `_count_agent_commands` return 0 (`mcp_server.py:182-183`), so that a resumed session that worked before can be told
  "no agent activity";
* a kill in the middle of `write_text` leaves a descriptor that does not parse, and the session and its workspace are lost (`mcp_server.py:88`);
* a `KeyboardInterrupt` or `SystemExit` in `run()` leaves a trajectory without a verdict (`runner.py:179` takes `Exception` only);
* a session that is judged twice makes `batch` and `stats` disagree: `batch` has reported the first verdict, `stats` takes the last;
* 405 and 400 are answered without an event (`egress_proxy.py:79` and `:87`), where `egress_proxy.py:7` and `README.md:16` speak of every
  connection attempt;
* an attempt after `writer.close()` is not logged, and the client gets no answer (`README.md:16` says that every attempt is);
* a tunnel ends when its client is silent for 30 s or the upstream host for 10 s, as the timeouts of the set-up stay on the sockets
  (`egress_proxy.py:61` and `:118`; `:148` says "until either side closes");
* a spill file that a kill left incomplete is not "self-healing" (`overflow.py:89-91`): it exists, and so it is never rewritten;
* a run whose sandbox fails has no `run_started`, and `stats` counts it under "(unknown)" (`cli.py:541`): `compare`
  shows a task all of whose runs failed so as dropped, and not as a regression;
* within the second of slop, and as long as an agent outlives its timeout, `batch` can take the trajectory of another
  run for its own (`tests/test_cli_batch.py:211` says that earlier ones are not counted).

## 6. What is not modelled, and why

* Event payloads, timestamps, limits on memory and CPUs, environment variables, wording: no
  property is about them.
* `list_tasks`, `describe_task`, inspect, the printing of reports, the loader and the
  schemas: they change no state.  What tasks may look like enters as `NSetup`, `NVerify`, `Restricted`.
* `--dry-run` and the deletion of old batch logs in `reap`: independent of everything else.
* The contents of a container: a command succeeds or fails.  The daemon keeps no
  promise except that a removed container does not come back.
* `flush()` that raises (`trajectory.py:102`): the line stays in the buffer, and the next event gets the same number.  How much of
  the line is on disk then depends on the file system.
* Two servers on one root: `SessionServer` allows for them, but every run has one, as the states of two
  are too many; what a second one does is described above.
* In `SessionServer`, a torn line that lacks only its newline counts as one that does not parse, and the events of the egress
  proxy are not in `traj` (above).
* A container that Docker fails to stop while the proxy is torn down (`Egress`): its connections stay open, and the
  timeouts of the tunnel end them.
* Medians, counts of commands, the tables per reason, tag and task filters and JSON snapshots of `stats` and `compare`: arithmetic on
  the rows that `Reports` has.  A shell that cannot be started in `batch` counts as a timeout and touches nothing.

## 7. What is left

1. A `flush()` that raises, with the part of the line that reaches the disk as a choice.
2. Two servers on one root, with properties of the sessions that both hold: which of the theorems with `OneServer` remain for a session that
   only one of them touches.
3. Two runs of the runner that share a file, each with a counter of its own.
4. The log of a session across kills: what `RunLog` would have to allow so that `ImplementsRunLog` holds for
   resumed sessions too.
