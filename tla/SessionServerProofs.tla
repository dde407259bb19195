------------------------- MODULE SessionServerProofs -------------------------
(***************************************************************************)
(* Proofs about SessionServer, for any number of servers, sessions,          *)
(* containers, snapshots, setup and verify commands, kills and restarts.     *)
(*                                                                          *)
(* The invariants come in layers, each proved with the help of those before: *)
(* the types and what the step of a handler says of its local variables; who *)
(* owns a session; which session a container or a snapshot belongs to.       *)
(***************************************************************************)
EXTENDS SessionServer, FiniteSets, FiniteSetTheorems, SequenceTheorems, TLAPS

Steps == {"down", "idle", "create", "launch", "announce", "setup", "persist", "fill",
          "record", "forked", "verify", "verdict", "stop", "remove", "images", "unlink",
          "boot", "attach"}

Ops == {"none", "start", "exec", "fork", "revert", "finish", "abort"}

Calls == [op : Ops, sid : Sids \cup {None}, cid : Cids \cup {None},
          snap : Snaps \cup {None}, n : Nat, ok : BOOLEAN, todo : SUBSET Sids]

ServerTypes ==
  /\ cont \in [Cids -> {"unused", "created", "running", "exited", "removed"}]
  /\ image \in [Snaps -> Sids \cup {"unused", "removed"}]
  /\ desc \in [Sids -> Cids \cup {None, "torn"}]
  /\ traj \in [Sids -> Seq(Log!Events)]
  /\ live \in [Servers -> SUBSET Sids]
  /\ box \in [Servers -> [Sids -> Cids \cup {None}]]
  /\ ids \in [Servers -> [Sids -> SUBSET Snaps]]
  /\ count \in [Servers -> [Sids -> Nat]]
  /\ proxy \in [Servers -> SUBSET Sids]
  /\ pc \in [Servers -> Steps]
  /\ call \in [Servers -> Calls]
  /\ ran \in [Sids -> BOOLEAN]
  /\ damage \in [Sids -> {"none", "torn", "undecodable"}]
  /\ crashes \in Nat

\* The handlers that take a step.
OpsAt(step) ==
  CASE step \in {"create", "launch", "announce", "persist", "fill"} -> {"start", "revert"}
    [] step = "setup" -> {"start"}
    [] step = "record" -> {"exec"}
    [] step = "forked" -> {"fork"}
    [] step = "verify" -> {"finish"}
    [] step = "verdict" -> {"start", "abort"}
    [] step \in {"stop", "remove"} -> {"start", "revert", "finish", "abort"}
    [] step = "images" -> {"start", "finish", "abort"}
    [] step = "unlink" -> {"finish", "abort"}
    [] OTHER -> {"none"}

\* What the next step of a handler says of its local variables.
InStep(step, c) ==
  /\ c.op \in OpsAt(step)
  /\ step \in {"down", "idle", "boot"} => c.sid = None /\ c.cid = None
  /\ step \in {"down", "idle"} => c.todo = {}
  /\ step \notin {"down", "idle", "boot"} => c.sid \in Sids
  /\ step = "attach" => c.sid \notin Restricted
  /\ step \in {"launch", "remove", "attach"} => c.cid \in Cids
  /\ step = "stop" /\ c.op = "revert" => c.cid \in Cids
  /\ c.op = "start" /\ step \in {"create", "launch", "announce"} => c.n = 0

Typed ==
  /\ ServerTypes
  /\ \A p \in Servers : InStep(pc[p], call[p])
  /\ crashes = 0 => \A s \in Sids : damage[s] = "none"  \* only a kill damages a file

-----------------------------------------------------------------------------
\* A server has the session s in memory, or in its running handler.
Knows(p, s) == s \in live[p] \/ call[p].sid = s

\* start_task works on its session up to here before anybody else can know it.
IsStarting(p) == call[p].op = "start" /\ pc[p] \notin {"persist", "fill"}

Fresh(p) ==
  LET s == call[p].sid IN
  /\ desc[s] = None
  /\ s \notin live[p]
  /\ \A q \in Servers : q # p => ~Knows(q, s)

\* The first n setup commands are in the log, and succeeded.
SetUpTo(l, n) ==
  /\ Len(l) > n
  /\ l[1] = "run_started"
  /\ \A i \in 2 .. n + 1 : l[i] = "setup_ok"

\* What setup has logged so far.
Logged(p) ==
  LET s == call[p].sid IN
  /\ pc[p] \in {"create", "launch", "announce"} => traj[s] = <<>>
  /\ pc[p] = "setup" => SetUpTo(traj[s], call[p].n) /\ Len(traj[s]) = call[p].n + 1

\* A session that a descriptor, a server or a handler after setup has.
IsReady(s) ==
  \/ desc[s] # None
  \/ \E p \in Servers : s \in live[p] \/ (call[p].sid = s /\ ~IsStarting(p))

Owned ==
  /\ \A p \in Servers :
       /\ IsStarting(p) => Fresh(p) /\ Logged(p)
       /\ call[p].op \in {"exec", "fork", "revert"} \/ pc[p] \in {"persist", "fill"} =>
            call[p].sid \in live[p]
       /\ call[p].op \in {"finish", "abort"} => call[p].sid \notin live[p]
       /\ pc[p] = "down" => live[p] = {}
  /\ \A s \in Sids : IsReady(s) => SetUpTo(traj[s], NSetup)

\* The proxy runs from before the container of the session to after its end.
Proxied ==
  \A p \in Servers :
    /\ live[p] \cap Restricted \subseteq proxy[p]
    /\ (pc[p] \in {"create", "launch", "announce", "setup"} /\ call[p].op = "start"
          /\ call[p].sid \in Restricted) => call[p].sid \in proxy[p]

-----------------------------------------------------------------------------
\* The session s has the container c: on disk, in a sandbox or in a handler.
Holds(s, c) ==
  \/ desc[s] = c
  \/ \E p \in Servers : box[p][s] = c \/ (call[p].sid = s /\ call[p].cid = c)

Apart ==
  /\ \A s \in Sids, c \in Cids : Holds(s, c) =>
       /\ cont[c] # "unused"
       /\ \A r \in Sids : Holds(r, c) => r = s
  /\ \A p \in Servers, s \in Sids : \A n \in ids[p][s] :
       /\ image[n] = s
       /\ \A q \in Servers : n \in ids[q][s] => q = p
-----------------------------------------------------------------------------
(* The types.                                                               *)

\* Counts are numbers.
LEMMA NumberType ==
  ASSUME NEW l \in Seq(Log!Events), NEW E
  PROVE  Log!Number(l, E) \in Nat
<1> DEFINE I == {i \in DOMAIN l : l[i] \in E}
<1>1. Log!Number(l, E) = Cardinality(I)
  BY DEF Log!Number, Log!Cardinality, Cardinality
<1>2. Len(l) \in Nat /\ DOMAIN l = 1 .. Len(l)
  BY LenProperties
<1>3. IsFiniteSet(1 .. Len(l)) /\ I \in SUBSET (1 .. Len(l))
  BY <1>2, FS_Interval
<1>4. Cardinality(I) \in Nat
  BY <1>3, FS_Subset, FS_CardinalityType
<1> QED
  BY <1>1, <1>4

\* The events that the server writes are events of the log.
LEMMA EventsOfServer ==
  /\ {"run_started", "setup_ok", "setup_bad", "agent", "thought", "forked", "reverted",
      "verify_ok", "verify_bad"} \subseteq Log!Events
  /\ Verdicts \subseteq Log!Events /\ Verdicts = Log!Verdicts
  /\ \A p \in Servers : Outcome(p) \in Verdicts
BY DEF Log!Events, Log!Work, Log!Verdicts, Verdicts, Outcome

\* One more event in one trajectory.
LEMMA RecordType ==
  ASSUME traj \in [Sids -> Seq(Log!Events)], NEW s \in Sids, NEW e \in Log!Events,
         Record(s, e)
  PROVE  /\ traj' \in [Sids -> Seq(Log!Events)]
         /\ traj'[s] = Append(traj[s], e)
         /\ \A r \in Sids : r # s => traj'[r] = traj[r]
<1>1. Append(traj[s], e) \in Seq(Log!Events)
  BY AppendProperties
<1> QED
  BY <1>1 DEF Record

\* The local variables of a handler that was just entered.
NewCall(op, s) == [NoCall EXCEPT !.op = op, !.sid = s]

\* What is known of the local variables at the start of a handler.
LEMMA EntryCall ==
  /\ NoCall \in Calls
  /\ \A op \in Ops, s \in Sids :
       /\ NewCall(op, s) \in Calls
       /\ NewCall(op, s).op = op /\ NewCall(op, s).sid = s
       /\ NewCall(op, s).cid = None /\ NewCall(op, s).todo = {}
       /\ NewCall(op, s).n = 0 /\ NewCall(op, s).ok
<1>1. NoCall \in Calls
  BY DEF NoCall, Calls, Ops
<1>2. ASSUME NEW op \in Ops, NEW s \in Sids
      PROVE  NewCall(op, s) \in Calls
  BY <1>1, <1>2 DEF NewCall, Calls
<1>3. ASSUME NEW op \in Ops, NEW s \in Sids
      PROVE  /\ NewCall(op, s).op = op /\ NewCall(op, s).sid = s
             /\ NewCall(op, s).cid = None /\ NewCall(op, s).todo = {}
             /\ NewCall(op, s).n = 0 /\ NewCall(op, s).ok
  BY <1>3 DEF NewCall, NoCall
<1> QED
  BY <1>1, <1>2, <1>3

LEMMA TypedInit == Init => Typed
<1> SUFFICES ASSUME Init PROVE Typed
  OBVIOUS
<1>1. ServerTypes
  BY EmptySeq, EntryCall DEF Init, ServerTypes, Steps
<1>2. \A p \in Servers : InStep(pc[p], call[p])
  BY DEF Init, InStep, OpsAt, NoCall
<1> QED
  BY <1>1, <1>2 DEF Typed, Init

HandlersTyped ==
  /\ pc \in [Servers -> Steps] /\ call \in [Servers -> Calls]
  /\ \A p \in Servers : InStep(pc[p], call[p])

\* What a step of server p may rely on.
LEMMA CallFacts ==
  ASSUME Typed, NEW p \in Servers
  PROVE  /\ pc[p] \in Steps /\ call[p] \in Calls
         /\ pc[p] \notin {"down", "idle", "boot"} => call[p].sid \in Sids
         /\ call[p].cid \in Cids \cup {None}
         /\ pc[p] \in {"launch", "remove", "attach"} => call[p].cid \in Cids
         /\ \A s \in Sids : box[p][s] \in Cids \cup {None}
BY DEF Typed, ServerTypes, InStep, Calls

\* Server p goes to a step, with the local variables c; the others stay.
LEMMA Moving ==
  ASSUME Typed, NEW p \in Servers, NEW step \in Steps, NEW c \in Calls, InStep(step, c),
         pc' = [pc EXCEPT ![p] = step], call' = [call EXCEPT ![p] = c]
  PROVE  HandlersTyped'
BY DEF Typed, ServerTypes, HandlersTyped

\* Server p goes to a step with the local variables that it has.
LEMMA Going ==
  ASSUME Typed, NEW p \in Servers, NEW step \in Steps, InStep(step, call[p]),
         Goto(p, step), UNCHANGED call
  PROVE  HandlersTyped'
BY DEF Typed, ServerTypes, HandlersTyped, Goto

\* A handler starts at its first step.
LEMMA Entering ==
  ASSUME Typed, NEW p \in Servers, NEW op \in Ops, NEW s \in Sids, NEW step \in Steps,
         Enter(p, op, s, step),
         <<step, op>> \in {<<"create", "start">>, <<"record", "exec">>, <<"forked", "fork">>,
                          <<"verify", "finish">>, <<"verdict", "abort">>}
  PROVE  HandlersTyped'
<1>1. NewCall(op, s) \in Calls /\ call' = [call EXCEPT ![p] = NewCall(op, s)]
  BY EntryCall DEF Enter, NewCall
<1>2. InStep(step, NewCall(op, s))
  BY EntryCall DEF InStep, OpsAt
<1> QED
  BY <1>1, <1>2, Moving DEF Enter, Goto

\* A handler returns.
LEMMA Returning ==
  ASSUME Typed, NEW p \in Servers, Return(p)
  PROVE  HandlersTyped'
<1>1. "idle" \in Steps /\ NoCall \in Calls /\ InStep("idle", NoCall)
  BY DEF Steps, Calls, NoCall, Ops, InStep, OpsAt
<1> QED
  BY <1>1, Moving DEF Return, Goto


\* Which steps of a server change what; no other step does.
LEMMA Changes ==
  ASSUME NEW p \in Servers, Request(p) \/ Step(p) \/ Exit(p)
  PROVE  /\ UNCHANGED cont \/ Create(p) \/ Launch(p) \/ Stop(p) \/ Remove(p)
                           \/ TeardownRaises(p)
         /\ UNCHANGED image \/ (\E s \in Sids : Fork(p, s)) \/ DeleteSnapshot(p)
                            \/ TeardownRaises(p)
         /\ UNCHANGED desc \/ Persist(p) \/ Fill(p) \/ Unlink(p)
                           \/ ReadDescriptor(p) \/ Attach(p)
         /\ UNCHANGED traj \/ (\E s \in Sids : Note(p, s))
                           \/ Create(p) \/ Launch(p) \/ Announce(p) \/ Setup(p)
                           \/ RecordCommand(p) \/ ForkRecord(p) \/ Verify(p) \/ Verdict(p)
         /\ UNCHANGED live \/ (\E s \in Sids : Finish(p, s) \/ Abort(p, s))
                           \/ SetupDone(p) \/ Attach(p) \/ Exit(p)
         /\ UNCHANGED box \/ (\E s \in Sids, n \in Snaps : Revert(p, s, n))
                          \/ Launch(p) \/ Setup(p) \/ Stop(p) \/ Attach(p) \/ Exit(p)
                          \/ TeardownRaises(p)
         /\ UNCHANGED ids \/ (\E s \in Sids : Fork(p, s)) \/ DeleteSnapshot(p) \/ Exit(p)
                          \/ TeardownRaises(p)
         /\ UNCHANGED count \/ RecordCommand(p) \/ Stopped(p) \/ Attach(p) \/ Exit(p)
                            \/ TeardownRaises(p)
         /\ UNCHANGED proxy \/ (\E s \in Sids : StartTask(p, s))
                            \/ Create(p) \/ Launch(p) \/ Stopped(p) \/ Exit(p)
         /\ UNCHANGED ran \/ (\E s \in Sids : Exec(p, s))
         /\ UNCHANGED <<damage, crashes>> \/ Exit(p)
<1>1. CASE Request(p)
  BY <1>1 DEF Request, Boot, StartTask, Exec, Note, Fork, Finish, Abort, Revert, docker, disk, memory
<1>2. CASE Step(p) /\ ~TeardownRaises(p)
  BY <1>2 DEF Step, Create, Launch, Announce, Setup, SetupDone, Persist, Fill,
     RecordCommand, ForkRecord, Verify, Verdict, Stop, Remove, DeleteSnapshot, Stopped,
     Unlink, ReadDescriptor, Attach, Serve, docker, disk, memory
<1>3. CASE Exit(p)
  BY <1>3 DEF Exit, Crash, BootFails, Down, docker, disk
<1>4. CASE TeardownRaises(p)
  BY <1>4 DEF TeardownRaises, docker, disk
<1> QED
  BY <1>1, <1>2, <1>3, <1>4


\* A handler begins.
LEMMA RequestHandlers ==
  ASSUME Typed, NEW p \in Servers, Request(p)
  PROVE  HandlersTyped'
<1> USE DEF Steps, Ops
<1>1. CASE Boot(p)
  <2> DEFINE c == [call[p] EXCEPT !.todo = {s \in Sids : desc[s] # None}]
  <2>1. call[p] \in Calls /\ InStep("down", call[p])
    BY <1>1 DEF Boot, Typed, ServerTypes
  <2>2. c \in Calls /\ InStep("boot", c)
    BY <2>1 DEF Calls, InStep, OpsAt
  <2> QED
    BY <1>1, <2>2, Moving DEF Boot, Goto
<1>2. ASSUME NEW s \in Sids, StartTask(p, s)
      PROVE  HandlersTyped'
  BY <1>2, Entering DEF StartTask
<1>3. ASSUME NEW s \in Sids, Exec(p, s)
      PROVE  HandlersTyped'
  BY <1>3, Entering DEF Exec, handler, Typed, ServerTypes, HandlersTyped
<1>4. ASSUME NEW s \in Sids, Note(p, s)
      PROVE  HandlersTyped'
  BY <1>4 DEF Note, handler, Typed, ServerTypes, HandlersTyped
<1>5. ASSUME NEW s \in Sids, Fork(p, s)
      PROVE  HandlersTyped'
  BY <1>5, Entering DEF Fork, handler, Typed, ServerTypes, HandlersTyped
<1>6. ASSUME NEW s \in Sids, Finish(p, s)
      PROVE  HandlersTyped'
  BY <1>6, Entering DEF Finish
<1>7. ASSUME NEW s \in Sids, Abort(p, s)
      PROVE  HandlersTyped'
  BY <1>7, Entering DEF Abort
<1>8. ASSUME NEW s \in Sids, NEW n \in Snaps, Revert(p, s, n)
      PROVE  HandlersTyped'
  <2> DEFINE c == [NoCall EXCEPT !.op = "revert", !.sid = s, !.cid = box[p][s], !.snap = n]
             step == IF box[p][s] = None THEN "create" ELSE "stop"
  <2>1. box[p][s] \in Cids \cup {None} /\ NoCall \in Calls
    BY CallFacts, EntryCall
  <2>2. /\ c \in Calls /\ c.op = "revert" /\ c.sid = s /\ c.cid = box[p][s]
        /\ c.n = 0
    BY <2>1 DEF Calls, NoCall
  <2>3. step \in Steps /\ InStep(step, c)
    BY <2>1, <2>2 DEF InStep, OpsAt
  <2> QED
    BY <1>8, <2>2, <2>3, Moving DEF Revert, Goto
<1> QED
  BY <1>1, <1>2, <1>3, <1>4, <1>5, <1>6, <1>7, <1>8 DEF Request


\* The next step of a running handler.
LEMMA StepHandlers ==
  ASSUME Typed, NEW p \in Servers, Step(p)
  PROVE  HandlersTyped'
<1> USE DEF Steps
<1>0. call[p] \in Calls /\ InStep(pc[p], call[p])
  BY DEF Typed, ServerTypes
<1>a. pc \in [Servers -> Steps] /\ call \in [Servers -> Calls]
  BY DEF Typed, ServerTypes
<1>1. CASE Create(p)
  <2>1. CASE Return(p)
    BY <2>1, Returning
  <2>2. CASE Goto(p, "launch") /\ \E c \in Cids : call' = [call EXCEPT ![p].cid = c]
    <3> PICK c \in Cids : call' = [call EXCEPT ![p].cid = c]
      BY <2>2
    <3> DEFINE r == [call[p] EXCEPT !.cid = c]
    <3>1. /\ r \in Calls /\ r.op = call[p].op /\ r.sid = call[p].sid
          /\ r.cid = c /\ r.n = call[p].n
      BY <1>0 DEF Calls
    <3>2. InStep("launch", r)
      BY <1>0, <1>1, <3>1 DEF Create, InStep, OpsAt
    <3> QED
      BY <2>2, <3>1, <3>2, Moving DEF Goto
  <2> QED
    BY <1>1, <2>1, <2>2 DEF Create
<1>2. CASE Launch(p)
  <2>1. CASE Goto(p, "announce") /\ UNCHANGED call
    BY <1>0, <1>2, <2>1, Going DEF Launch, InStep, OpsAt
  <2> QED
    BY <1>2, <2>1, Returning DEF Launch
<1>3. CASE Announce(p)
  BY <1>0, <1>3, Going DEF Announce, InStep, OpsAt
<1>4. CASE Setup(p)
  <2>1. CASE call' = [call EXCEPT ![p].n = @ + 1] /\ UNCHANGED pc
    <3> DEFINE r == [call[p] EXCEPT !.n = @ + 1]
    <3>1. /\ r \in Calls /\ r.op = call[p].op /\ r.sid = call[p].sid
          /\ r.cid = call[p].cid
      BY <1>0 DEF Calls
    <3>2. InStep("setup", r) /\ pc' = [pc EXCEPT ![p] = "setup"]
      BY <1>0, <1>4, <2>1, <3>1 DEF Setup, InStep, OpsAt, Typed, ServerTypes
    <3> QED
      BY <2>1, <3>1, <3>2, Moving
  <2>2. CASE Goto(p, "verdict") /\ UNCHANGED call
    BY <1>0, <1>4, <2>2, Going DEF Setup, InStep, OpsAt
  <2> QED
    BY <1>4, <2>1, <2>2, Returning DEF Setup
<1>5. CASE SetupDone(p) \/ Persist(p)
  BY <1>0, <1>5, Going DEF SetupDone, Persist, InStep, OpsAt
<1>6. CASE Fill(p) \/ RecordCommand(p) \/ ForkRecord(p) \/ Unlink(p) \/ Serve(p)
  BY <1>6, Returning DEF Fill, RecordCommand, ForkRecord, Unlink, Serve
<1>7. CASE Verify(p)
  <2>1. ASSUME NEW ok \in BOOLEAN, UNCHANGED pc,
               call' = [call EXCEPT ![p].n = @ + 1, ![p].ok = @ /\ ok]
        PROVE  HandlersTyped'
    <3>0. PICK b \in BOOLEAN : b = (call[p].ok /\ ok)
      OBVIOUS
    <3> DEFINE r == [call[p] EXCEPT !.n = @ + 1, !.ok = b]
    <3>1. /\ r \in Calls /\ r.op = call[p].op /\ r.sid = call[p].sid
          /\ r.cid = call[p].cid
      <4>1. call[p].n + 1 \in Nat
        BY <1>0 DEF Calls
      <4>2. r \in Calls
        BY <1>0, <3>0, <4>1 DEF Calls
      <4>3. r.op = call[p].op /\ r.sid = call[p].sid /\ r.cid = call[p].cid
        BY <1>0 DEF Calls
      <4> QED
        BY <4>2, <4>3
    <3>2. pc[p] = "verify" /\ pc' = [pc EXCEPT ![p] = "verify"]
      BY <1>7, <1>a, <2>1 DEF Verify
    <3>3. call' = [call EXCEPT ![p] = r]
      BY <1>a, <2>1, <3>0
    <3> HIDE DEF r
    <3>4. InStep("verify", r)
      BY <1>0, <3>1, <3>2 DEF InStep, OpsAt
    <3> QED
      BY <3>1, <3>2, <3>3, <3>4, Moving
  <2>2. CASE Goto(p, "stop") /\ UNCHANGED call
    BY <1>0, <1>7, <2>2, Going DEF Verify, InStep, OpsAt
  <2> QED
    BY <1>7, <2>1, <2>2 DEF Verify
<1>8. CASE Verdict(p)
  BY <1>0, <1>8, Going DEF Verdict, InStep, OpsAt
<1>9. CASE Stop(p)
  <2> DEFINE c == IF call[p].op = "revert" THEN call[p].cid ELSE box[p][call[p].sid]
             r == [call[p] EXCEPT !.cid = c]
             step == IF c = None THEN "images" ELSE "remove"
  <2>1. call[p].sid \in Sids /\ c \in Cids \cup {None}
    BY <1>9, CallFacts DEF Stop
  <2>2. /\ r \in Calls /\ r.op = call[p].op /\ r.sid = call[p].sid /\ r.cid = c
    BY <1>0, <2>1 DEF Calls
  <2>3. InStep(step, r)
    BY <1>0, <1>9, <2>1, <2>2, ConstantsAssumption DEF Stop, InStep, OpsAt
  <2> QED
    BY <1>9, <2>2, <2>3, Moving DEF Stop, Goto
<1>10. CASE Remove(p)
  <2> DEFINE step == IF call[p].op = "revert" THEN "create" ELSE "images"
  <2>1. step \in Steps /\ InStep(step, call[p])
    BY <1>0, <1>10 DEF Remove, InStep, OpsAt
  <2> QED
    BY <1>10, <2>1, Going DEF Remove
<1>11. CASE DeleteSnapshot(p)
  BY <1>11 DEF DeleteSnapshot, handler, Typed, ServerTypes, HandlersTyped
<1>12. CASE Stopped(p)
  <2>1. CASE call[p].op = "start"
    BY <1>12, <2>1, Returning DEF Stopped
  <2>2. CASE call[p].op # "start"
    BY <1>0, <1>12, <2>2, Going DEF Stopped, InStep, OpsAt
  <2> QED
    BY <2>1, <2>2
<1>13. CASE ReadDescriptor(p)
  <2> PICK s \in call[p].todo :
        IF desc[s] \in {None, "torn"} \/ s \in Restricted
        THEN call' = [call EXCEPT ![p].todo = @ \ {s}] /\ UNCHANGED pc
        ELSE /\ call' = [call EXCEPT ![p].todo = @ \ {s}, ![p].sid = s, ![p].cid = desc[s]]
             /\ Goto(p, "attach")
    BY <1>13 DEF ReadDescriptor
  <2>1. s \in Sids /\ pc[p] = "boot"
    BY <1>0, <1>13 DEF ReadDescriptor, Calls
  <2>2. CASE desc[s] \in {None, "torn"} \/ s \in Restricted
    <3> DEFINE r == [call[p] EXCEPT !.todo = @ \ {s}]
    <3>1. /\ r \in Calls /\ r.op = call[p].op /\ r.sid = call[p].sid
          /\ r.cid = call[p].cid
      BY <1>0 DEF Calls
    <3>2. InStep("boot", r) /\ pc' = [pc EXCEPT ![p] = "boot"]
      BY <1>0, <2>1, <2>2, <3>1 DEF InStep, OpsAt, Typed, ServerTypes
    <3> QED
      BY <2>2, <3>1, <3>2, Moving
  <2>3. CASE ~(desc[s] \in {None, "torn"} \/ s \in Restricted)
    <3> DEFINE r == [call[p] EXCEPT !.todo = @ \ {s}, !.sid = s, !.cid = desc[s]]
    <3>1. desc[s] \in Cids
      BY <2>1, <2>3 DEF Typed, ServerTypes
    <3>2. /\ r \in Calls /\ r.op = call[p].op /\ r.sid = s /\ r.cid = desc[s]
      BY <1>0, <2>1, <3>1 DEF Calls
    <3>3. InStep("attach", r)
      BY <1>0, <2>1, <2>3, <3>1, <3>2 DEF InStep, OpsAt
    <3>4. call' = [call EXCEPT ![p] = r]
      BY <2>3, <1>0
    <3> QED
      BY <2>3, <3>2, <3>3, <3>4, Moving DEF Goto
  <2> QED
    BY <2>2, <2>3
<1>14. CASE Attach(p)
  <2> DEFINE r == [call[p] EXCEPT !.sid = None, !.cid = None]
  <2>1. /\ r \in Calls /\ r.op = call[p].op /\ r.sid = None /\ r.cid = None
    BY <1>0 DEF Calls
  <2>2. InStep("boot", r)
    BY <1>0, <1>14, <2>1 DEF Attach, InStep, OpsAt
  <2>3. call' = [call EXCEPT ![p] = r]
    BY <1>14 DEF Attach, Typed, ServerTypes
  <2> QED
    BY <1>14, <2>1, <2>2, <2>3, Moving DEF Attach, Goto
<1>15. CASE TeardownRaises(p)
  BY <1>15, Returning DEF TeardownRaises
<1> QED
  BY <1>1, <1>2, <1>3, <1>4, <1>5, <1>6, <1>7, <1>8, <1>9, <1>10, <1>11, <1>12,
     <1>13, <1>14, <1>15 DEF Step


\* What a step of a server does to the rest of the state is of the right type.
LEMMA DockerTyped ==
  ASSUME Typed, NEW p \in Servers, Request(p) \/ Step(p) \/ Exit(p)
  PROVE  /\ cont' \in [Cids -> {"unused", "created", "running", "exited", "removed"}]
         /\ image' \in [Snaps -> Sids \cup {"unused", "removed"}]
<1>1. /\ cont \in [Cids -> {"unused", "created", "running", "exited", "removed"}]
      /\ image \in [Snaps -> Sids \cup {"unused", "removed"}]
  BY DEF Typed, ServerTypes
<1>2. CASE Create(p) \/ Launch(p)
  BY <1>1, <1>2 DEF Create, Launch
<1>3. CASE Stop(p) \/ Remove(p)
  BY <1>1, <1>3 DEF Stop, Remove
<1>4. CASE (\E s \in Sids : Fork(p, s)) \/ DeleteSnapshot(p)
  BY <1>1, <1>4 DEF Fork, DeleteSnapshot
<1>5. CASE TeardownRaises(p)
  <2>1. \/ cont' = cont \/ \E c, x : x \in {"exited", "removed"} /\ cont' = [cont EXCEPT ![c] = x]
    BY <1>5 DEF TeardownRaises
  <2>2. \/ image' = image \/ \E n : image' = [image EXCEPT ![n] = "removed"]
    BY <1>5 DEF TeardownRaises
  <2> QED
    BY <1>1, <2>1, <2>2
<1> QED
  BY <1>1, <1>2, <1>3, <1>4, <1>5, Changes

\* The types of what is on disk.
LEMMA DiskTyped ==
  ASSUME Typed, NEW p \in Servers, Request(p) \/ Step(p) \/ Exit(p)
  PROVE  /\ desc' \in [Sids -> Cids \cup {None, "torn"}]
         /\ traj' \in [Sids -> Seq(Log!Events)]
<1>1. desc' \in [Sids -> Cids \cup {None, "torn"}]
  <2>1. CASE Fill(p)
    <3>1. PICK s : desc' = [desc EXCEPT ![s] = IF @ = None THEN None ELSE box[p][s]]
      BY <2>1 DEF Fill
    <3>2. /\ desc \in [Sids -> Cids \cup {None, "torn"}]
          /\ \A r \in Sids : box[p][r] \in Cids \cup {None}
      BY DEF Typed, ServerTypes
    <3> QED
      BY <3>1, <3>2
  <2>2. CASE Persist(p) \/ Unlink(p) \/ ReadDescriptor(p) \/ Attach(p)
    BY <2>2 DEF Persist, Unlink, ReadDescriptor, Attach, Typed, ServerTypes
  <2> QED
    BY <2>1, <2>2, Changes DEF Typed, ServerTypes
<1>2. traj' \in [Sids -> Seq(Log!Events)]
  <2>1. \A s \in Sids, e \in Log!Events :
          Record(s, e) => traj' \in [Sids -> Seq(Log!Events)]
    BY RecordType DEF Typed, ServerTypes
  <2>2. ASSUME NEW s \in Sids, Note(p, s)
        PROVE  traj' \in [Sids -> Seq(Log!Events)]
    BY <2>1, <2>2, EventsOfServer DEF Note
  <2>3. CASE Create(p) \/ Launch(p) \/ Announce(p) \/ Setup(p)
    BY <2>1, <2>3, CallFacts, EventsOfServer
       DEF Create, Launch, Announce, Setup, Verdicts, Typed, ServerTypes
  <2>4. CASE RecordCommand(p) \/ ForkRecord(p) \/ Verify(p) \/ Verdict(p)
    BY <2>1, <2>4, CallFacts, EventsOfServer
       DEF RecordCommand, ForkRecord, Verify, Verdict, Typed, ServerTypes
  <2> QED
    BY <2>2, <2>3, <2>4, Changes DEF Typed, ServerTypes
<1> QED
  BY <1>1, <1>2

\* The types of what a server has in memory.
LEMMA MemoryTyped ==
  ASSUME Typed, NEW p \in Servers, Request(p) \/ Step(p) \/ Exit(p)
  PROVE  /\ live' \in [Servers -> SUBSET Sids]
         /\ box' \in [Servers -> [Sids -> Cids \cup {None}]]
         /\ ids' \in [Servers -> [Sids -> SUBSET Snaps]]
         /\ count' \in [Servers -> [Sids -> Nat]]
         /\ proxy' \in [Servers -> SUBSET Sids]
<1>1. live' \in [Servers -> SUBSET Sids]
  <2>1. live \in [Servers -> SUBSET Sids]
    BY DEF Typed, ServerTypes
  <2>2. CASE SetupDone(p)
    <3>1. call[p].sid \in Sids
      BY <2>2, CallFacts DEF SetupDone
    <3> QED
      BY <2>1, <2>2, <3>1 DEF SetupDone
  <2>3. CASE Attach(p)
    <3>1. call[p].sid \in Sids
      BY <2>3, CallFacts DEF Attach
    <3> QED
      BY <2>1, <2>3, <3>1 DEF Attach
  <2>4. ASSUME NEW s \in Sids, Finish(p, s) \/ Abort(p, s)
        PROVE  live' \in [Servers -> SUBSET Sids]
    BY <2>1, <2>4 DEF Finish, Abort
  <2>5. CASE Exit(p)
    BY <2>1, <2>5 DEF Exit, Crash, BootFails, Down
  <2> QED
    BY <2>1, <2>2, <2>3, <2>4, <2>5, Changes
<1>2. box' \in [Servers -> [Sids -> Cids \cup {None}]]
  <2>1. box \in [Servers -> [Sids -> Cids \cup {None}]]
    BY DEF Typed, ServerTypes
  <2>2. CASE Launch(p)
    <3>1. call[p].sid \in Sids /\ call[p].cid \in Cids
      BY <2>2, CallFacts DEF Launch
    <3> QED
      BY <2>1, <2>2, <3>1 DEF Launch
  <2>3. CASE Attach(p)
    <3>1. call[p].sid \in Sids /\ call[p].cid \in Cids
      BY <2>3, CallFacts DEF Attach
    <3>2. box' = box \/ box' = [box EXCEPT ![p][call[p].sid] = call[p].cid]
      BY <2>3 DEF Attach
    <3> QED
      BY <2>1, <3>1, <3>2
  <2>4. ASSUME NEW s \in Sids, NEW n \in Snaps, Revert(p, s, n)
        PROVE  box' \in [Servers -> [Sids -> Cids \cup {None}]]
    BY <2>1, <2>4 DEF Revert
  <2>5. CASE Setup(p) \/ Stop(p)
    BY <2>1, <2>5 DEF Setup, Stop
  <2>6. CASE Exit(p)
    BY <2>1, <2>6 DEF Exit, Crash, BootFails, Down
  <2>7. CASE TeardownRaises(p)
    <3>1. box' = [box EXCEPT ![p][call[p].sid] = None]
      BY <2>7 DEF TeardownRaises
    <3> QED
      BY <2>1, <3>1
  <2> QED
    BY <2>1, <2>2, <2>3, <2>4, <2>5, <2>6, <2>7, Changes
<1>3. ids' \in [Servers -> [Sids -> SUBSET Snaps]]
  <2>1. ids \in [Servers -> [Sids -> SUBSET Snaps]]
    BY DEF Typed, ServerTypes
  <2>2. ASSUME NEW s \in Sids, Fork(p, s)
        PROVE  ids' \in [Servers -> [Sids -> SUBSET Snaps]]
    <3>1. ids' = ids \/ \E n \in Snaps : ids' = [ids EXCEPT ![p][s] = @ \cup {n}]
      BY <2>2 DEF Fork
    <3> QED
      BY <2>1, <3>1
  <2>3. CASE DeleteSnapshot(p)
    <3>1. PICK n : ids' = [ids EXCEPT ![p][call[p].sid] = @ \ {n}]
      BY <2>3 DEF DeleteSnapshot
    <3>2. call[p].sid \in Sids
      BY <2>3, CallFacts DEF DeleteSnapshot
    <3> QED
      BY <2>1, <3>1, <3>2
  <2>4. CASE Exit(p)
    BY <2>1, <2>4 DEF Exit, Crash, BootFails, Down
  <2>5. CASE TeardownRaises(p)
    <3>1. ids' = ids \/ ids' = [ids EXCEPT ![p][call[p].sid] = {}]
      BY <2>5 DEF TeardownRaises
    <3> QED
      BY <2>1, <3>1
  <2> QED
    BY <2>1, <2>2, <2>3, <2>4, <2>5, Changes
<1>4. count' \in [Servers -> [Sids -> Nat]]
  <2>1. count \in [Servers -> [Sids -> Nat]]
    BY DEF Typed, ServerTypes
  <2>2. CASE Attach(p)
    <3>1. call[p].sid \in Sids /\ traj[call[p].sid] \in Seq(Log!Events)
      BY <2>2, CallFacts DEF Attach, Typed, ServerTypes
    <3>2. CountCommands(call[p].sid) \in Nat
      BY <3>1, NumberType DEF CountCommands, Commands
    <3>3. PICK k \in Nat : \/ count' = [count EXCEPT ![p][call[p].sid] = k]
                           \/ count' = count
      BY <2>2, <3>2 DEF Attach
    <3> QED
      BY <2>1, <3>3
  <2>3. CASE RecordCommand(p)
    <3>1. call[p].sid \in Sids
      BY <2>3, CallFacts DEF RecordCommand
    <3>2. count[p][call[p].sid] + 1 \in Nat
      BY <2>1, <3>1
    <3> QED
      BY <2>1, <2>3, <3>2 DEF RecordCommand
  <2>4. CASE Stopped(p)
    BY <2>1, <2>4 DEF Stopped
  <2>5. CASE Exit(p)
    BY <2>1, <2>5 DEF Exit, Crash, BootFails, Down
  <2>6. CASE TeardownRaises(p)
    <3>1. count' = count \/ count' = [count EXCEPT ![p][call[p].sid] = 0]
      BY <2>6 DEF TeardownRaises
    <3> QED
      BY <2>1, <3>1
  <2> QED
    BY <2>1, <2>2, <2>3, <2>4, <2>5, <2>6, Changes
<1>5. proxy' \in [Servers -> SUBSET Sids]
  <2>1. proxy \in [Servers -> SUBSET Sids]
    BY DEF Typed, ServerTypes
  <2>2. ASSUME NEW s \in Sids, StartTask(p, s)
        PROVE  proxy' \in [Servers -> SUBSET Sids]
    BY <2>1, <2>2 DEF StartTask
  <2>3. CASE Create(p) \/ Launch(p) \/ Stopped(p)
    <3>1. StopProxy(p, call[p].sid) \/ UNCHANGED proxy
      BY <2>3 DEF Create, Launch, Stopped
    <3> QED
      BY <2>1, <3>1 DEF StopProxy
  <2>4. CASE Exit(p)
    BY <2>1, <2>4 DEF Exit, Crash, BootFails, Down
  <2> QED
    BY <2>1, <2>2, <2>3, <2>4, Changes
<1> QED
  BY <1>1, <1>2, <1>3, <1>4, <1>5

LEMMA TypedNext ==
  ASSUME Typed, [Next]_vars
  PROVE  Typed'
<1>1. ASSUME NEW p \in Servers, Request(p) \/ Step(p) \/ Exit(p)
      PROVE  Typed'
  <2>1. HandlersTyped'
    <3>1. CASE Exit(p)
      <4>1. "down" \in Steps /\ NoCall \in Calls /\ InStep("down", NoCall)
        BY EntryCall DEF Steps, NoCall, InStep, OpsAt
      <4> QED
        BY <3>1, <4>1, Moving DEF Exit, Crash, BootFails, Down, Goto
    <3> QED
      BY <1>1, <3>1, RequestHandlers, StepHandlers
  <2>2. ran' \in [Sids -> BOOLEAN] /\ crashes' \in Nat
    <3>1. ran' \in [Sids -> BOOLEAN]
      BY <1>1, Changes DEF Exec, Typed, ServerTypes
    <3>2. crashes' \in Nat
      BY <1>1, Changes DEF Exit, Crash, BootFails, Down, Typed, ServerTypes
    <3> QED
      BY <3>1, <3>2
  <2>3. /\ damage' \in [Sids -> {"none", "torn", "undecodable"}]
        /\ crashes' = 0 => \A s \in Sids : damage'[s] = "none"
    <3>1. CASE UNCHANGED <<damage, crashes>>
      BY <3>1 DEF Typed, ServerTypes
    <3>2. CASE Crash(p)
      <4>1. damage' \in [Sids -> {"none", "torn", "undecodable"}]
        BY <3>2 DEF Crash, Typed, ServerTypes
      <4>2. crashes' # 0
        BY <3>2 DEF Crash, Typed, ServerTypes
      <4> QED
        BY <4>1, <4>2
    <3>3. CASE BootFails(p)
      BY <3>1, <3>3 DEF BootFails
    <3> QED
      BY <1>1, <3>1, <3>2, <3>3, Changes DEF Exit
  <2> QED
    BY <1>1, <2>1, <2>2, <2>3, DockerTyped, DiskTyped, MemoryTyped
       DEF Typed, ServerTypes, HandlersTyped
<1>2. CASE UNCHANGED vars
  BY <1>2 DEF vars, docker, disk, memory, handler, Typed, ServerTypes
<1> QED
  BY <1>1, <1>2 DEF Next

\* The state keeps its types, and a handler only takes the steps of its tool.
THEOREM ServerTyped == Spec => []Typed
BY TypedInit, TypedNext, PTL DEF Spec


-----------------------------------------------------------------------------
(* What a step of one server means for the others, and for a session.        *)

\* A server changes nothing in the memory and the handlers of the others.
LEMMA Others ==
  ASSUME Typed, NEW p \in Servers, Request(p) \/ Step(p) \/ Exit(p),
         NEW q \in Servers, q # p
  PROVE  /\ pc'[q] = pc[q] /\ call'[q] = call[q] /\ live'[q] = live[q]
         /\ box'[q] = box[q] /\ ids'[q] = ids[q] /\ count'[q] = count[q]
         /\ proxy'[q] = proxy[q]
<1>1. pc'[q] = pc[q] /\ call'[q] = call[q]
  <2>1. pc \in [Servers -> Steps] /\ call \in [Servers -> Calls]
    BY DEF Typed, ServerTypes
  <2>2. CASE Request(p)
    BY <2>1, <2>2 DEF Request, Boot, StartTask, Exec, Note, Fork, Finish, Abort, Revert,
       Enter, Goto, handler
  <2>3. CASE Step(p) /\ ~TeardownRaises(p)
    BY <2>1, <2>3 DEF Step, Create, Launch, Announce, Setup, SetupDone, Persist, Fill,
       RecordCommand, ForkRecord, Verify, Verdict, Stop, Remove, DeleteSnapshot, Stopped,
       Unlink, ReadDescriptor, Attach, Serve, Return, Goto, handler
  <2>4. CASE Exit(p)
    BY <2>1, <2>4 DEF Exit, Crash, BootFails, Down, Goto
  <2>5. CASE TeardownRaises(p)
    BY <2>1, <2>5 DEF TeardownRaises, Return, Goto
  <2> QED
    BY <2>2, <2>3, <2>4, <2>5
<1>2. live'[q] = live[q] /\ proxy'[q] = proxy[q]
  <2>1. live \in [Servers -> SUBSET Sids] /\ proxy \in [Servers -> SUBSET Sids]
    BY DEF Typed, ServerTypes
  <2>2. live'[q] = live[q]
    BY <2>1, Changes DEF Finish, Abort, SetupDone, Attach, Exit, Crash, BootFails, Down
  <2>3. proxy'[q] = proxy[q]
    BY <2>1, Changes DEF Exit, Crash, BootFails, Down, StartTask, Create, Launch, Stopped, StopProxy
  <2> QED
    BY <2>2, <2>3
<1>3. box'[q] = box[q] /\ ids'[q] = ids[q] /\ count'[q] = count[q]
  <2>1. /\ box \in [Servers -> [Sids -> Cids \cup {None}]]
        /\ ids \in [Servers -> [Sids -> SUBSET Snaps]]
        /\ count \in [Servers -> [Sids -> Nat]]
    BY DEF Typed, ServerTypes
  <2>2. box'[q] = box[q]
    <3>1. CASE TeardownRaises(p)
      BY <2>1, <3>1 DEF TeardownRaises
    <3> QED
      BY <2>1, <3>1, Changes
         DEF Revert, Launch, Setup, Stop, Attach, Exit, Crash, BootFails, Down
  <2>3. ids'[q] = ids[q] /\ count'[q] = count[q]
    <3>1. CASE TeardownRaises(p)
      BY <2>1, <3>1 DEF TeardownRaises
    <3> QED
      BY <2>1, <3>1, Changes DEF Exit, Crash, BootFails, Down, Fork, DeleteSnapshot,
         RecordCommand, Stopped, Attach
  <2> QED
    BY <2>2, <2>3
<1> QED
  BY <1>1, <1>2, <1>3

\* An exception that leaves the teardown: what it leaves behind.
LEMMA Raising ==
  ASSUME Typed, NEW p \in Servers, TeardownRaises(p)
  PROVE  LET s == call[p].sid IN
         /\ Flaky /\ s \in Sids /\ Return(p) /\ pc[p] \in {"stop", "remove", "images"}
         /\ UNCHANGED <<desc, traj, live, proxy, ran, damage, crashes>>
         /\ \A q \in Servers, r \in Sids :
              /\ box'[q][r] = IF q = p /\ r = s THEN None ELSE box[q][r]
              /\ ids'[q][r] \subseteq ids[q][r]
              /\ ids'[q][r] = ids[q][r]
                   \/ (q = p /\ r = s /\ call[p].op # "revert" /\ ids'[q][r] = {})
         /\ \A c \in Cids : cont'[c] = cont[c] \/ cont'[c] \in {"exited", "removed"}
         /\ \A n \in Snaps :
              image'[n] = image[n]
                \/ (image'[n] = "removed" /\ n \in ids[p][s] /\ ids'[p][s] = {})
<1>1. /\ cont \in [Cids -> {"unused", "created", "running", "exited", "removed"}]
      /\ image \in [Snaps -> Sids \cup {"unused", "removed"}]
      /\ box \in [Servers -> [Sids -> Cids \cup {None}]]
      /\ ids \in [Servers -> [Sids -> SUBSET Snaps]]
  BY DEF Typed, ServerTypes
<1>2. /\ Flaky /\ Return(p) /\ pc[p] \in {"stop", "remove", "images"}
      /\ UNCHANGED <<desc, traj, live, proxy, ran, damage, crashes>>
  BY DEF TeardownRaises, disk
<1>3. call[p].sid \in Sids
  BY <1>2, CallFacts
<1>4. \A q \in Servers, r \in Sids :
        box'[q][r] = IF q = p /\ r = call[p].sid THEN None ELSE box[q][r]
  BY <1>1, <1>3 DEF TeardownRaises
<1>5. \A q \in Servers, r \in Sids :
        ids'[q][r] = ids[q][r]
          \/ (q = p /\ r = call[p].sid /\ call[p].op # "revert" /\ ids'[q][r] = {})
  BY <1>1, <1>3 DEF TeardownRaises
<1>6. \A c \in Cids : cont'[c] = cont[c] \/ cont'[c] \in {"exited", "removed"}
  BY <1>1 DEF TeardownRaises
<1>7. ASSUME NEW n \in Snaps, image'[n] # image[n]
      PROVE  image'[n] = "removed" /\ n \in ids[p][call[p].sid] /\ ids'[p][call[p].sid] = {}
  <2>1. pc[p] = "images" /\ image'[n] = "removed" /\ n \in ids[p][call[p].sid]
    BY <1>1, <1>7 DEF TeardownRaises
  <2>2. call[p].op # "revert"
    BY <2>1 DEF Typed, InStep, OpsAt
  <2>3. ids' = [ids EXCEPT ![p][call[p].sid] = {}]
    BY <2>2 DEF TeardownRaises
  <2> QED
    BY <1>1, <1>3, <2>1, <2>3
<1> QED
  BY <1>2, <1>3, <1>4, <1>5, <1>6, <1>7

\* What server p writes goes to the trajectory of a session that it knows.
LEMMA Written ==
  ASSUME Typed, NEW p \in Servers, Request(p) \/ Step(p) \/ Exit(p), NEW s \in Sids
  PROVE  \/ traj'[s] = traj[s]
         \/ Knows(p, s) /\ \E e \in Log!Events : traj'[s] = Append(traj[s], e)
<1>1. ASSUME NEW r \in Sids, Knows(p, r), NEW e \in Log!Events, Record(r, e)
      PROVE  \/ traj'[s] = traj[s]
             \/ Knows(p, s) /\ \E x \in Log!Events : traj'[s] = Append(traj[s], x)
  BY <1>1, RecordType DEF Typed, ServerTypes
<1>2. ASSUME NEW r \in Sids, Note(p, r)
      PROVE  Knows(p, r) /\ Record(r, "thought")
  BY <1>2 DEF Note, Require, Knows
<1>3. CASE Create(p) \/ Launch(p) \/ Announce(p) \/ Setup(p) \/ RecordCommand(p)
           \/ ForkRecord(p) \/ Verify(p) \/ Verdict(p)
  <2>1. call[p].sid \in Sids /\ Knows(p, call[p].sid)
    BY <1>3, CallFacts DEF Create, Launch, Announce, Setup, RecordCommand, ForkRecord,
       Verify, Verdict, Knows
  <2>2. UNCHANGED traj \/ \E e \in Log!Events : Record(call[p].sid, e)
    BY <1>3, EventsOfServer DEF Create, Launch, Announce, Setup, RecordCommand, ForkRecord,
       Verify, Verdict, Verdicts
  <2> QED
    BY <1>1, <2>1, <2>2
<1> QED
  BY <1>1, <1>2, <1>3, Changes, EventsOfServer

\* Server p fills the descriptors of the sessions that it knows, and may unlink any.
LEMMA Described ==
  ASSUME Typed, NEW p \in Servers, Request(p) \/ Step(p) \/ Exit(p), NEW s \in Sids
  PROVE  \/ desc'[s] = desc[s]
         \/ desc'[s] = None
         \/ call[p].sid = s /\ pc[p] \in {"persist", "fill"}
<1>1. desc \in [Sids -> Cids \cup {None, "torn"}]
  BY DEF Typed, ServerTypes
<1> QED
  BY <1>1, Changes DEF Persist, Fill, Unlink, ReadDescriptor, Attach


\* The local variables after Enter.
LEMMA Entered ==
  ASSUME Typed, NEW p \in Servers, NEW s \in Sids, NEW op \in Ops, NEW step,
         Enter(p, op, s, step)
  PROVE  /\ call'[p].sid = s /\ call'[p].op = op /\ call'[p].n = 0 /\ call'[p].ok
         /\ call'[p].cid = None /\ pc'[p] = step
<1>1. pc'[p] = step /\ call'[p] = NewCall(op, s)
  BY DEF Enter, Goto, NewCall, Typed, ServerTypes
<1> QED
  BY <1>1, EntryCall

\* How the running handler of server p comes to work on the session s.
LEMMA Handled ==
  ASSUME Typed, NEW p \in Servers, Request(p) \/ Step(p) \/ Exit(p),
         NEW s \in Sids, call'[p].sid = s
  PROVE  \/ call[p].sid = s /\ call'[p].op = call[p].op
         \/ StartTask(p, s) /\ call'[p].op = "start"
         \/ /\ call'[p].op \in {"exec", "fork", "revert"}
            /\ s \in live[p] /\ UNCHANGED live
         \/ /\ call'[p].op \in {"finish", "abort"}
            /\ s \in live[p] /\ live' = [live EXCEPT ![p] = @ \ {s}]
         \/ /\ call'[p].op = "none" /\ desc[s] # None /\ UNCHANGED live
<1>1. /\ pc \in [Servers -> Steps] /\ call \in [Servers -> Calls]
      /\ call[p] \in Calls /\ call[p].op \in OpsAt(pc[p])
      /\ pc[p] = "boot" => call[p].op = "none"
      /\ pc[p] \in {"down", "idle"} => call[p] \in Calls
      /\ None \notin Sids
  BY ConstantsAssumption DEF Typed, ServerTypes, InStep, OpsAt
<1>2. CASE Request(p)
  <2>1. CASE Boot(p)
    BY <1>1, <2>1 DEF Boot, Calls
  <2>3. ASSUME NEW r \in Sids, StartTask(p, r) \/ Exec(p, r) \/ Note(p, r) \/ Fork(p, r)
        PROVE  \/ call'[p] = call[p]
               \/ call'[p].sid = r /\ StartTask(p, r) /\ call'[p].op = "start"
               \/ /\ call'[p].sid = r /\ call'[p].op \in {"exec", "fork"}
                  /\ r \in live[p] /\ UNCHANGED live
    BY Entered, <2>3 DEF StartTask, Exec, Note, Fork, Require, handler, memory, Ops
  <2>4. ASSUME NEW r \in Sids, Finish(p, r) \/ Abort(p, r)
        PROVE  /\ call'[p].sid = r /\ call'[p].op \in {"finish", "abort"}
               /\ r \in live[p] /\ live' = [live EXCEPT ![p] = @ \ {r}]
    BY Entered, <2>4 DEF Finish, Abort, Ops
  <2>5. ASSUME NEW r \in Sids, NEW n \in Snaps, Revert(p, r, n)
        PROVE  /\ call'[p].sid = r /\ call'[p].op = "revert"
               /\ r \in live[p] /\ UNCHANGED live
    BY <1>1, <2>5 DEF Revert, Require, NoCall
  <2> QED
    BY <1>2, <2>1, <2>3, <2>4, <2>5 DEF Request
<1>3. CASE Step(p)
  <2>1. CASE Create(p) \/ Setup(p) \/ Verify(p) \/ Stop(p)
    <3>1. CASE Return(p)
      BY <1>1, <3>1 DEF Return, NoCall
    <3>2. CASE ~Return(p)
      BY <1>1, <2>1, <3>2 DEF Create, Setup, Verify, Stop, Calls
    <3> QED
      BY <3>1, <3>2
  <2>2. CASE Launch(p) \/ Announce(p) \/ SetupDone(p) \/ Persist(p) \/ Fill(p)
             \/ RecordCommand(p) \/ ForkRecord(p) \/ Verdict(p) \/ Remove(p)
             \/ DeleteSnapshot(p) \/ Stopped(p) \/ Unlink(p) \/ Serve(p)
    BY <1>1, <2>2 DEF Launch, Announce, SetupDone, Persist, Fill, RecordCommand, ForkRecord,
       Verdict, Remove, DeleteSnapshot, Stopped, Unlink, Serve, Return, NoCall, handler
  <2>3. CASE ReadDescriptor(p)
    BY <1>1, <2>3 DEF ReadDescriptor, memory, Calls
  <2>4. CASE Attach(p)
    BY <1>1, <2>4 DEF Attach, Calls
  <2>5. CASE TeardownRaises(p)
    BY <1>1, <2>5, Raising DEF Return, NoCall
  <2> QED
    BY <1>3, <2>1, <2>2, <2>3, <2>4, <2>5 DEF Step
<1>4. CASE Exit(p)
  BY <1>1, <1>4 DEF Exit, Crash, BootFails, Down, NoCall
<1> QED
  BY <1>2, <1>3, <1>4

\* How server p comes to have the session s in its dict.
LEMMA Held ==
  ASSUME Typed, NEW p \in Servers, Request(p) \/ Step(p) \/ Exit(p),
         NEW s \in Sids, s \in live'[p]
  PROVE  \/ s \in live[p]
         \/ call[p].sid = s /\ (SetupDone(p) \/ Attach(p))
<1>1. live \in [Servers -> SUBSET Sids]
  BY DEF Typed, ServerTypes
<1> QED
  BY <1>1, Changes DEF Finish, Abort, SetupDone, Attach, Exit, Crash, BootFails, Down


\* Which step leads to which.
LEMMA Leads ==
  ASSUME Typed, NEW p \in Servers, Request(p) \/ Step(p) \/ Exit(p)
  PROVE  /\ pc'[p] = "down" => Exit(p)
         /\ pc'[p] = "create" => \/ \E s \in Sids : StartTask(p, s)
                                 \/ \E s \in Sids, n \in Snaps : Revert(p, s, n)
                                 \/ Remove(p)
         /\ pc'[p] = "launch" => Create(p)
         /\ pc'[p] = "announce" => Launch(p)
         /\ pc'[p] = "setup" => Announce(p) \/ Setup(p)
         /\ pc'[p] = "persist" => SetupDone(p) \/ Announce(p)
         /\ pc'[p] = "fill" => Persist(p)
         /\ pc'[p] = "record" => \E s \in Sids : Exec(p, s)
         /\ pc'[p] = "verify" => Verify(p) \/ \E s \in Sids : Finish(p, s)
         /\ pc'[p] = "verdict" => Setup(p) \/ \E s \in Sids : Abort(p, s)
         /\ pc'[p] = "stop" => \/ Verify(p) \/ Verdict(p)
                               \/ \E s \in Sids, n \in Snaps : Revert(p, s, n)
         /\ pc'[p] = "remove" => Stop(p)
         /\ pc'[p] = "images" => Stop(p) \/ Remove(p) \/ DeleteSnapshot(p)
         /\ pc'[p] = "unlink" => Stopped(p)
         /\ pc'[p] = "boot" => Boot(p) \/ ReadDescriptor(p) \/ Attach(p)
         /\ pc'[p] = "attach" => ReadDescriptor(p)
<1>1. pc \in [Servers -> Steps]
  BY DEF Typed, ServerTypes
<1>2. CASE Request(p)
  <2>1. CASE Boot(p)
    BY <1>1, <2>1 DEF Boot, Goto
  <2>2. CASE \E s \in Sids : StartTask(p, s) \/ Finish(p, s) \/ Abort(p, s)
    BY <1>1, <2>2 DEF StartTask, Finish, Abort, Require, Enter, Goto
  <2>3. CASE \E s \in Sids : Exec(p, s) \/ Note(p, s) \/ Fork(p, s)
    BY <1>1, <2>3 DEF Exec, Note, Fork, Require, Enter, Goto, handler
  <2>4. CASE \E s \in Sids, n \in Snaps : Revert(p, s, n)
    BY <1>1, <2>4 DEF Revert, Require, Goto
  <2> QED
    BY <1>2, <2>1, <2>2, <2>3, <2>4 DEF Request
<1>3. CASE Step(p)
  <2>1. CASE Create(p) \/ Launch(p) \/ Announce(p)
    BY <1>1, <2>1 DEF Create, Launch, Announce, Return, Goto, handler
  <2>2. CASE Setup(p) \/ SetupDone(p) \/ Persist(p) \/ Fill(p)
    BY <1>1, <2>2 DEF Setup, SetupDone, Persist, Fill, Return, Goto, handler
  <2>3. CASE RecordCommand(p) \/ ForkRecord(p) \/ Verify(p) \/ Verdict(p)
    BY <1>1, <2>3 DEF RecordCommand, ForkRecord, Verify, Verdict, Return, Goto, handler
  <2>4. CASE Stop(p) \/ Remove(p)
    BY <1>1, <2>4 DEF Stop, Remove, Return, Goto, handler
  <2>5. CASE DeleteSnapshot(p) \/ Stopped(p) \/ Unlink(p)
    BY <1>1, <2>5 DEF DeleteSnapshot, Stopped, Unlink, Return, Goto, handler
  <2>6. CASE ReadDescriptor(p) \/ Attach(p) \/ Serve(p)
    BY <1>1, <2>6 DEF ReadDescriptor, Attach, Serve, Return, Goto, handler
  <2>7. CASE TeardownRaises(p)
    BY <1>1, <2>7, Raising DEF Return, Goto
  <2> QED
    BY <1>3, <2>1, <2>2, <2>3, <2>4, <2>5, <2>6, <2>7 DEF Step
<1>4. CASE Exit(p)
  BY <1>1, <1>4 DEF Exit, Crash, BootFails, Down, Goto
<1> QED
  BY <1>2, <1>3, <1>4

-----------------------------------------------------------------------------
(* Who owns a session.                                                      *)

\* The log of a setup, and one more event.
LEMMA SetUpToAppend ==
  ASSUME NEW l \in Seq(Log!Events), NEW e \in Log!Events, NEW n \in Nat, SetUpTo(l, n)
  PROVE  /\ SetUpTo(Append(l, e), n)
         /\ Len(l) = n + 1 /\ e = "setup_ok" =>
              SetUpTo(Append(l, e), n + 1) /\ Len(Append(l, e)) = n + 2
<1>0. PICK m : m = Append(l, e)
  OBVIOUS
<1>1. /\ Len(l) \in Nat /\ Len(m) = Len(l) + 1
      /\ \A i \in 1 .. Len(l) : m[i] = l[i]
      /\ m[Len(l) + 1] = e
  BY <1>0, AppendProperties, LenProperties
<1>2. SetUpTo(m, n)
  BY <1>1 DEF SetUpTo
<1>3. ASSUME Len(l) = n + 1, e = "setup_ok"
      PROVE  SetUpTo(m, n + 1) /\ Len(m) = n + 2
  BY <1>1, <1>3 DEF SetUpTo
<1> QED
  BY <1>0, <1>2, <1>3

\* An empty log is that of no setup.
LEMMA SetUpToEmpty ==
  ASSUME NEW n \in Nat
  PROVE  ~SetUpTo(<<>>, n)
BY EmptySeq DEF SetUpTo

\* run_started alone is a setup of no commands.
LEMMA SetUpToStart ==
  ASSUME NEW e \in Log!Events, e = "run_started"
  PROVE  SetUpTo(Append(<<>>, e), 0) /\ Len(Append(<<>>, e)) = 1
<1>0. PICK m : m = Append(<<>>, e)
  OBVIOUS
<1>1. Len(m) = 1 /\ m[1] = e
  BY <1>0, EmptySeq, AppendProperties
<1> QED
  BY <1>0, <1>1 DEF SetUpTo


LEMMA OwnedInit == Init => Owned
<1> SUFFICES ASSUME Init PROVE Owned
  OBVIOUS
<1>1. \A p \in Servers : /\ pc[p] = "down" /\ live[p] = {}
                         /\ call[p].op = "none" /\ call[p].sid = None
  BY DEF Init, NoCall
<1>2. \A s \in Sids : ~IsReady(s)
  BY <1>1, ConstantsAssumption DEF Init, IsReady
<1> QED
  BY <1>1, <1>2 DEF Owned, IsStarting

\* A session that another server is starting is out of reach for server p.
LEMMA StartsApart ==
  ASSUME Typed, Owned, NEW p \in Servers, Request(p) \/ Step(p) \/ Exit(p),
         NEW q \in Servers, q # p, IsStarting(q)
  PROVE  /\ call'[q] = call[q] /\ pc'[q] = pc[q]
         /\ Fresh(q)' /\ Logged(q)'
<1>0. PICK s \in Sids : s = call[q].sid
  BY DEF IsStarting, Typed, InStep, OpsAt
<1>1. Fresh(q) /\ Logged(q)
  BY DEF Owned
<1>2. pc'[q] = pc[q] /\ call'[q] = call[q] /\ live'[q] = live[q]
  BY Others
<1>3. desc[s] = None /\ s \notin live[q] /\ \A r \in Servers : r # q => ~Knows(r, s)
  BY <1>0, <1>1 DEF Fresh
<1>4. ~Knows(p, s)
  BY <1>3
<1>5. desc'[s] = None
  BY <1>3, <1>4, Described DEF Knows
<1>6. traj'[s] = traj[s]
  BY <1>4, Written
<1>7. ~Knows(p, s)'
  <2>1. s \notin live'[p]
    BY <1>4, Held DEF Knows
  <2>2. call'[p].sid # s
    BY <1>0, <1>3, <1>4, Handled DEF Knows, StartTask
  <2> QED
    BY <2>1, <2>2 DEF Knows
<1>8. \A r \in Servers : r # q => ~Knows(r, s)'
  BY <1>3, <1>7, Others DEF Knows
<1> QED
  BY <1>0, <1>1, <1>2, <1>3, <1>5, <1>6, <1>8 DEF Fresh, Logged

\* start_task, up to the point where the session is handed out.
LEMMA StartsFresh ==
  ASSUME Typed, Typed', Owned, NEW p \in Servers, Request(p) \/ Step(p) \/ Exit(p),
         IsStarting(p)'
  PROVE  Fresh(p)' /\ Logged(p)'
<1>0. PICK s \in Sids : s = call'[p].sid
  BY DEF IsStarting, Typed, InStep, OpsAt
<1>1. s \in Sids /\ call'[p].op = "start" /\ pc'[p] \notin {"persist", "fill"}
  BY DEF IsStarting
<1>2. CASE StartTask(p, s)
  <2>1. /\ UNCHANGED <<desc, traj, live>> /\ traj[s] = <<>> /\ pc'[p] = "create"
        /\ \A q \in Servers : call[q].sid # s
    BY <1>2 DEF StartTask, disk, Enter, Goto, Typed, ServerTypes
  <2>2. ~IsReady(s)
    BY <1>1, <2>1, SetUpToEmpty, ConstantsAssumption DEF Owned
  <2>3. Fresh(p)'
    BY <1>0, <2>1, <2>2, Others DEF IsReady, Fresh, Knows
  <2> QED
    BY <1>0, <2>1, <2>3 DEF Logged
<1>3. CASE call[p].sid = s /\ call[p].op = "start"
  <2>1. IsStarting(p)
    <3>1. CASE pc[p] \in {"persist", "fill"}
      <4>1. Persist(p) \/ Fill(p) \/ Exit(p)
        BY <3>1 DEF Request, Boot, StartTask, Exec, Note, Fork, Finish, Abort, Revert, Require,
           Step, Create, Launch, Announce, Setup, SetupDone, RecordCommand, ForkRecord,
           Verify, Verdict, Stop, Remove, DeleteSnapshot, Stopped, Unlink, ReadDescriptor,
           Attach, Serve, TeardownRaises
      <4> QED
        BY <1>1, <4>1 DEF Persist, Fill, Exit, Crash, BootFails, Down, Return, Goto, NoCall, Typed, ServerTypes
    <3> QED
      BY <1>3, <3>1 DEF IsStarting
  <2>2. /\ Fresh(p) /\ Logged(p) /\ desc[s] = None /\ s \notin live[p]
        /\ \A q \in Servers : q # p => ~Knows(q, s)
    BY <1>3, <2>1 DEF Owned, Fresh
  <2>3. desc'[s] = None
    BY <1>1, <2>1, <2>2, Described DEF IsStarting
  <2>4. s \notin live'[p]
    <3>1. SetupDone(p) => pc'[p] = "persist"
      BY DEF SetupDone, Goto, Typed, ServerTypes
    <3>2. ~Attach(p)
      BY <1>3 DEF Attach, Typed, InStep, OpsAt
    <3> QED
      BY <1>1, <2>2, <3>1, <3>2, Held
  <2>5. Fresh(p)'
    BY <1>0, <2>2, <2>3, <2>4, Others DEF Fresh, Knows
  <2>6. pc'[p] \in {"create", "launch", "announce"} => traj'[s] = <<>>
    <3>1. CASE pc'[p] = "create"
      <4>1. pc[p] # "idle"
        BY <1>3 DEF Typed, InStep, OpsAt
      <4>2. Remove(p)
        BY <3>1, <4>1, Leads DEF Revert, Require, StartTask
      <4> QED
        BY <1>3, <3>1, <4>2 DEF Remove, Goto, Typed, ServerTypes
    <3>2. CASE pc'[p] = "launch"
      <4>1. Create(p) /\ pc[p] = "create"
        BY <3>2, Leads DEF Create
      <4>2. ~Return(p)
        BY <3>2 DEF Return, Goto, Typed, ServerTypes
      <4>3. UNCHANGED traj
        BY <4>1, <4>2 DEF Create
      <4> QED
        BY <1>3, <2>2, <4>1, <4>3 DEF Logged
    <3>3. CASE pc'[p] = "announce"
      <4>1. Launch(p) /\ pc[p] = "launch"
        BY <3>3, Leads DEF Launch
      <4>2. ~Return(p)
        BY <3>3 DEF Return, Goto, Typed, ServerTypes
      <4>3. UNCHANGED traj
        BY <4>1, <4>2 DEF Launch
      <4> QED
        BY <1>3, <2>2, <4>1, <4>3 DEF Logged
    <3> QED
      BY <3>1, <3>2, <3>3
  <2>7. pc'[p] = "setup" => SetUpTo(traj'[s], call'[p].n) /\ Len(traj'[s]) = call'[p].n + 1
    <3>1. CASE Announce(p) /\ pc'[p] = "setup"
      <4>1. /\ call'[p].n = 0 /\ traj[s] = <<>> /\ Record(s, "run_started")
        BY <1>3, <2>2, <3>1 DEF Announce, Logged, Typed, InStep, OpsAt
      <4>2. traj'[s] = Append(traj[s], "run_started")
        BY <1>1, <4>1, RecordType, EventsOfServer DEF Typed, ServerTypes
      <4> QED
        BY <4>1, <4>2, SetUpToStart, EventsOfServer
    <3>2. CASE Setup(p) /\ pc'[p] = "setup"
      <4>1. /\ call'[p].n = call[p].n + 1 /\ Record(s, "setup_ok")
            /\ SetUpTo(traj[s], call[p].n) /\ Len(traj[s]) = call[p].n + 1
        BY <1>3, <2>2, <3>2 DEF Setup, Return, Goto, Logged, Typed, ServerTypes, Calls
      <4>2. traj'[s] = Append(traj[s], "setup_ok") /\ call[p].n \in Nat
        BY <1>1, <4>1, RecordType, EventsOfServer DEF Typed, ServerTypes, Calls
      <4>3. Len(traj'[s]) = call[p].n + 2 /\ SetUpTo(traj'[s], call[p].n + 1)
        BY <1>1, <4>1, <4>2, SetUpToAppend, EventsOfServer DEF Typed, ServerTypes
      <4> QED
        BY <4>1, <4>2, <4>3
    <3> QED
      BY <3>1, <3>2, Leads
  <2> QED
    BY <1>0, <2>5, <2>6, <2>7 DEF Logged
<1> QED
  BY <1>1, <1>2, <1>3, <1>0, Handled


\* What a handler may rely on about the dict of its server.
LEMMA DictKept ==
  ASSUME Typed, Typed', Owned, NEW p \in Servers, Request(p) \/ Step(p) \/ Exit(p)
  PROVE  /\ call'[p].op \in {"exec", "fork", "revert"} \/ pc'[p] \in {"persist", "fill"} =>
              call'[p].sid \in live'[p]
         /\ call'[p].op \in {"finish", "abort"} => call'[p].sid \notin live'[p]
         /\ pc'[p] = "down" => live'[p] = {}
<1>1. /\ live \in [Servers -> SUBSET Sids] /\ pc \in [Servers -> Steps]
      /\ call \in [Servers -> Calls]
  BY DEF Typed, ServerTypes
<1>2. CASE pc'[p] = "down"
  BY <1>1, <1>2, Leads DEF Exit, Crash, BootFails, Down, NoCall
<1>3. ASSUME call'[p].op \in {"exec", "fork", "revert"}
      PROVE  call'[p].sid \in live'[p]
  <2>1. PICK s \in Sids : call'[p].sid = s
    BY <1>3 DEF Typed, InStep, OpsAt
  <2>2. s \in live[p]
    BY <1>3, <2>1, Handled DEF Owned
  <2>3. s \in live'[p]
    <3>1. ASSUME NEW r \in Sids, Finish(p, r) \/ Abort(p, r)
          PROVE  call'[p].op \in {"finish", "abort"}
      BY <3>1, Entered DEF Finish, Abort, Ops
    <3>2. ~Exit(p)
      BY <1>1, <1>3 DEF Exit, Crash, BootFails, Down, NoCall
    <3>3. CASE SetupDone(p) \/ Attach(p)
      BY <1>1, <2>2, <3>3 DEF SetupDone, Attach
    <3> QED
      BY <1>3, <2>2, <3>1, <3>2, <3>3, Changes
  <2> QED
    BY <2>1, <2>3
<1>4. ASSUME pc'[p] \in {"persist", "fill"}, call'[p].op \notin {"exec", "fork", "revert"}
      PROVE  call'[p].sid \in live'[p]
  <2>1. CASE SetupDone(p)
    BY <1>1, <2>1 DEF SetupDone
  <2>2. CASE Announce(p)
    BY <1>1, <1>4, <2>2 DEF Announce, Goto, Typed, InStep, OpsAt
  <2>3. CASE Persist(p)
    BY <2>3 DEF Persist, memory, Owned
  <2> QED
    BY <1>4, <2>1, <2>2, <2>3, Leads
<1>5. ASSUME call'[p].op \in {"finish", "abort"}
      PROVE  call'[p].sid \notin live'[p]
  <2>1. PICK s \in Sids : call'[p].sid = s
    BY <1>5 DEF Typed, InStep, OpsAt
  <2>2. CASE call[p].sid = s /\ call[p].op = call'[p].op
    <3>1. s \notin live[p] /\ pc[p] \notin {"setup", "attach"}
      BY <1>5, <2>2 DEF Owned, Typed, InStep, OpsAt
    <3> QED
      BY <2>1, <3>1, Held DEF SetupDone, Attach
  <2>3. CASE live' = [live EXCEPT ![p] = @ \ {s}]
    BY <1>1, <2>1, <2>3
  <2> QED
    BY <1>5, <2>1, <2>2, <2>3, Handled
<1> QED
  BY <1>2, <1>3, <1>4, <1>5

\* A session is handed out when its setup is through.
LEMMA BecomesReady ==
  ASSUME Typed, Typed', NEW p \in Servers, Request(p) \/ Step(p) \/ Exit(p),
         NEW s \in Sids, IsReady(s)'
  PROVE  IsReady(s) \/ (SetupDone(p) /\ call[p].sid = s)
<1>1. pc[p] \in {"persist", "fill"} => ~IsStarting(p)
  BY DEF IsStarting
<1>2. CASE desc'[s] # None
  BY <1>1, <1>2, Described DEF IsReady
<1>3. ASSUME NEW q \in Servers, s \in live'[q] \/ (call'[q].sid = s /\ ~IsStarting(q)'), q # p
      PROVE  IsReady(s)
  BY <1>3, Others DEF IsReady, IsStarting
<1>4. CASE s \in live'[p]
  <2>1. CASE Attach(p) /\ call[p].sid = s
    <3>1. ~IsStarting(p)
      BY <2>1 DEF Attach, IsStarting, Typed, InStep, OpsAt
    <3> QED
      BY <2>1, <3>1 DEF IsReady
  <2> QED
    BY <1>4, <2>1, Held DEF IsReady
<1>5. CASE call'[p].sid = s /\ ~IsStarting(p)'
  <2>1. CASE call[p].sid = s /\ call'[p].op = call[p].op
    <3>1. CASE pc'[p] = "persist" /\ Announce(p) /\ call[p].op = "start"
      BY <3>1 DEF Announce, Goto, Typed, ServerTypes
    <3>2. CASE pc'[p] = "fill" /\ Persist(p)
      BY <1>1, <2>1, <3>2 DEF Persist, IsReady
    <3>3. CASE call[p].op # "start"
      BY <2>1, <3>3 DEF IsStarting, IsReady
    <3> QED
      BY <1>5, <2>1, <3>1, <3>2, <3>3, Leads DEF IsStarting
  <2>2. ~(StartTask(p, s) /\ call'[p].op = "start")
    BY <1>5 DEF StartTask, Enter, Goto, IsStarting, Typed, ServerTypes
  <2> QED
    BY <1>5, <2>1, <2>2, Handled DEF IsReady
<1> QED
  BY <1>2, <1>3, <1>4, <1>5 DEF IsReady

LEMMA OwnedNext ==
  ASSUME Typed, Typed', Owned, [Next]_vars
  PROVE  Owned'
<1>1. ASSUME NEW p \in Servers, Request(p) \/ Step(p) \/ Exit(p)
      PROVE  Owned'
  <2>1. ASSUME NEW q \in Servers, IsStarting(q)'
        PROVE  Fresh(q)' /\ Logged(q)'
    <3>1. CASE q = p
      BY <1>1, <2>1, <3>1, StartsFresh
    <3>2. CASE q # p
      <4>1. IsStarting(q)
        BY <1>1, <2>1, <3>2, Others DEF IsStarting
      <4> QED
        BY <1>1, <3>2, <4>1, StartsApart
    <3> QED
      BY <3>1, <3>2
  <2>2. ASSUME NEW q \in Servers
        PROVE  /\ call'[q].op \in {"exec", "fork", "revert"} \/ pc'[q] \in {"persist", "fill"} =>
                    call'[q].sid \in live'[q]
               /\ call'[q].op \in {"finish", "abort"} => call'[q].sid \notin live'[q]
               /\ pc'[q] = "down" => live'[q] = {}
    <3>1. CASE q = p
      BY <1>1, <3>1, DictKept
    <3>2. CASE q # p
      BY <1>1, <3>2, Others DEF Owned
    <3> QED
      BY <3>1, <3>2
  <2>3. ASSUME NEW s \in Sids, IsReady(s)'
        PROVE  SetUpTo(traj'[s], NSetup)
    <3>1. SetUpTo(traj[s], NSetup)
      <4>1. CASE SetupDone(p) /\ call[p].sid = s
        BY <4>1 DEF SetupDone, IsStarting, Owned, Logged, Typed, InStep, OpsAt
      <4> QED
        BY <1>1, <2>3, <4>1, BecomesReady DEF Owned
    <3>2. traj[s] \in Seq(Log!Events)
      BY DEF Typed, ServerTypes
    <3>3. \A e \in Log!Events : SetUpTo(Append(traj[s], e), NSetup)
      BY <3>1, <3>2, SetUpToAppend, ConstantsAssumption
    <3> QED
      BY <1>1, <3>1, <3>3, Written
  <2> QED
    BY <2>1, <2>2, <2>3 DEF Owned
<1>2. CASE UNCHANGED vars
  BY <1>2 DEF vars, docker, disk, memory, handler, Owned, IsStarting, Fresh, Knows, Logged,
     IsReady
<1> QED
  BY <1>1, <1>2 DEF Next

\* A session belongs to the server that starts it until it is handed out, and is
\* handed out, or persisted, only after its setup.
THEOREM ServerOwned == Spec => []Owned
BY ServerTyped, OwnedInit, OwnedNext, PTL DEF Spec

\* A descriptor means a session whose setup succeeded (start_task persists it
\* last), whatever is killed and however many servers there are.
THEOREM ServerPersistedAfterSetup == Spec => []PersistedAfterSetup
<1>1. Owned => PersistedAfterSetup
  BY DEF Owned, IsReady, SetUpTo, PersistedAfterSetup
<1> QED
  BY <1>1, ServerOwned, PTL


-----------------------------------------------------------------------------
(* The egress proxy.                                                        *)

\* The proxy of a session is stopped by the server that starts or ends it only.
LEMMA ProxyStops ==
  ASSUME Typed, Owned, NEW p \in Servers, Request(p) \/ Step(p) \/ Exit(p), NEW s \in Sids,
         s \in proxy[p], s \notin proxy'[p]
  PROVE  /\ pc'[p] \notin {"create", "launch", "announce", "setup"}
         /\ Exit(p) \/ (s \notin live[p] /\ ~SetupDone(p))
<1>1. proxy \in [Servers -> SUBSET Sids] /\ pc \in [Servers -> Steps]
  BY DEF Typed, ServerTypes
<1>2. CASE Create(p) \/ Launch(p)
  <2>1. StopProxy(p, call[p].sid) /\ call[p].op = "start" /\ Return(p)
    BY <1>2 DEF Create, Launch, Typed, InStep, OpsAt
  <2>2. call[p].sid = s
    BY <1>1, <2>1 DEF StopProxy
  <2>3. IsStarting(p) /\ ~SetupDone(p)
    BY <1>2, <2>1 DEF Create, Launch, SetupDone, IsStarting
  <2> QED
    BY <1>1, <2>1, <2>2, <2>3 DEF Return, Goto, Owned, Fresh
<1>3. CASE Stopped(p)
  <2>1. call[p].sid = s /\ pc[p] = "images"
    BY <1>1, <1>3 DEF Stopped, StopProxy
  <2>2. call[p].op \in {"start", "finish", "abort"} /\ ~SetupDone(p)
    BY <2>1 DEF Typed, InStep, OpsAt, SetupDone
  <2>3. s \notin live[p]
    BY <2>1, <2>2 DEF Owned, Fresh, IsStarting
  <2>4. pc'[p] \in {"idle", "unlink"}
    BY <1>1, <1>3 DEF Stopped, Return, Goto
  <2> QED
    BY <2>2, <2>3, <2>4
<1>4. CASE Exit(p)
  <2>1. pc'[p] = "down"
    BY <1>1, <1>4 DEF Exit, Crash, BootFails, Down, Goto
  <2>2. pc'[p] \notin {"create", "launch", "announce", "setup"}
    BY <2>1
  <2> QED
    BY <1>4, <2>2
<1>5. ASSUME NEW r \in Sids, StartTask(p, r)
      PROVE  FALSE
  BY <1>1, <1>5 DEF StartTask
<1> QED
  BY <1>2, <1>3, <1>4, <1>5, Changes

LEMMA ProxiedNext ==
  ASSUME Typed, Typed', Owned, Proxied, [Next]_vars
  PROVE  Proxied'
<1>1. ASSUME NEW p \in Servers, Request(p) \/ Step(p) \/ Exit(p)
      PROVE  Proxied'
  <2>1. /\ proxy \in [Servers -> SUBSET Sids] /\ pc \in [Servers -> Steps]
        /\ live \in [Servers -> SUBSET Sids]
        /\ live' \in [Servers -> SUBSET Sids]
    BY DEF Typed, ServerTypes
  <2>2. ASSUME NEW s \in live'[p] \cap Restricted
        PROVE  s \in proxy'[p]
    <3>1. s \in Sids /\ ~Exit(p)
      BY <2>1 DEF Exit, Crash, BootFails, Down
    <3>2. s \in proxy[p] /\ (s \in live[p] \/ SetupDone(p))
      <4>1. CASE s \in live[p]
        BY <4>1 DEF Proxied
      <4>2. CASE SetupDone(p) /\ call[p].sid = s
        BY <4>2 DEF SetupDone, Proxied, Typed, InStep, OpsAt
      <4>3. CASE Attach(p) /\ call[p].sid = s
        BY <4>3 DEF Attach, Typed, InStep
      <4> QED
        BY <1>1, <3>1, <4>1, <4>2, <4>3, Held
    <3> QED
      BY <1>1, <3>1, <3>2, ProxyStops
  <2>3. ASSUME pc'[p] \in {"create", "launch", "announce", "setup"}, call'[p].op = "start",
               call'[p].sid \in Restricted
        PROVE  call'[p].sid \in proxy'[p]
    <3>0. PICK s \in Sids : s = call'[p].sid
      BY <2>3, ConstantsAssumption
    <3>1. CASE StartTask(p, s)
      BY <2>1, <2>3, <3>0, <3>1 DEF StartTask
    <3>2. CASE call[p].sid = s /\ call[p].op = "start"
      <4>1. pc[p] \in {"create", "launch", "announce", "setup"}
        <5>1. pc[p] # "idle" /\ ~Remove(p)
          <6>1. Remove(p) => pc'[p] = "images"
            BY <2>1, <3>2 DEF Remove, Goto
          <6> QED
            BY <2>3, <3>2, <6>1 DEF Typed, InStep, OpsAt
        <5> QED
          BY <1>1, <2>3, <5>1, Leads DEF StartTask, Revert, Require, Create, Launch, Announce, Setup
      <4> QED
        BY <1>1, <2>3, <3>0, <3>2, <4>1, ProxyStops DEF Proxied
    <3> QED
      BY <1>1, <2>3, <3>0, <3>1, <3>2, Handled
  <2> QED
    BY <1>1, <2>2, <2>3, Others DEF Proxied
<1>2. CASE UNCHANGED vars
  BY <1>2 DEF vars, memory, handler, Proxied
<1> QED
  BY <1>1, <1>2 DEF Next

\* A restricted session is live only in the server that runs its egress proxy
\* (start, _rehydrate_sessions, attach).
THEOREM ServerProxyWhileLive == Spec => []ProxyWhileLive
<1>1. Init => Proxied
  BY DEF Init, Proxied
<1>2. Proxied => ProxyWhileLive
  BY DEF Proxied, ProxyWhileLive
<1> QED
  BY <1>1, <1>2, ServerTyped, ServerOwned, ProxiedNext, PTL DEF Spec

-----------------------------------------------------------------------------
\* A session that was given a verdict, and that no server holds, works on or can
\* find on disk, is over for good: nothing is ever added to its trajectory.
THEOREM ServerOverForGood == Spec => OverForGood
<1>1. ASSUME Typed, [Next]_vars
      PROVE  \A s \in Sids : Over(s) => Over(s)' /\ UNCHANGED traj[s]
  <2>1. ASSUME NEW s \in Sids, Over(s), NEW p \in Servers, Request(p) \/ Step(p) \/ Exit(p)
        PROVE  Over(s)' /\ UNCHANGED traj[s]
    <3>1. /\ desc[s] = None /\ traj[s] # <<>>
          /\ \A q \in Servers : s \notin live[q] /\ call[q].sid # s
      BY <2>1 DEF Over
    <3>2. traj'[s] = traj[s] /\ desc'[s] = None
      BY <1>1, <2>1, <3>1, Written, Described DEF Knows
    <3>3. s \notin live'[p] /\ call'[p].sid # s
      BY <1>1, <2>1, <3>1, Held, Handled DEF StartTask
    <3>4. \A q \in Servers : s \notin live'[q] /\ call'[q].sid # s
      BY <1>1, <2>1, <3>1, <3>3, Others
    <3> QED
      BY <2>1, <3>2, <3>4 DEF Over
  <2>2. CASE UNCHANGED vars
    BY <2>2 DEF vars, disk, memory, handler, Over
  <2> QED
    BY <1>1, <2>1, <2>2 DEF Next
<1>2. Typed /\ [Next]_vars => [\A s \in Sids : Over(s) => Over(s)' /\ UNCHANGED traj[s]]_vars
  BY <1>1
<1> QED
  BY <1>2, ServerTyped, PTL DEF Spec, OverForGood


-----------------------------------------------------------------------------
(* Which session a container or a snapshot belongs to.                      *)

\* A container that was created once is never unused again.
LEMMA StaysUsed ==
  ASSUME Typed, NEW p \in Servers, Request(p) \/ Step(p) \/ Exit(p),
         NEW c \in Cids, cont[c] # "unused"
  PROVE  cont'[c] # "unused"
<1>1. cont \in [Cids -> {"unused", "created", "running", "exited", "removed"}]
  BY DEF Typed, ServerTypes
<1>2. CASE TeardownRaises(p)
  BY <1>2, Raising
<1> QED
  BY <1>1, <1>2, Changes DEF Create, Launch, Stop, Remove

\* The container that a handler works on is one that its session had, or a new one.
LEMMA HandlerHolds ==
  ASSUME Typed, NEW p \in Servers, Request(p) \/ Step(p) \/ Exit(p), NEW s \in Sids,
         NEW c \in Cids, call'[p].sid = s, call'[p].cid = c
  PROVE  \/ Holds(s, c)
         \/ /\ call[p].sid = s /\ call'[p].cid = c
            /\ cont[c] = "unused" /\ cont'[c] # "unused"
<1>1. /\ call \in [Servers -> Calls] /\ call[p] \in Calls /\ None \notin Cids /\ None \notin Sids
      /\ cont \in [Cids -> {"unused", "created", "running", "exited", "removed"}]
  BY ConstantsAssumption DEF Typed, ServerTypes
<1>2. \A r \in Sids, op \in Ops, step \in Steps : ~Enter(p, op, r, step)
  BY <1>1, Entered
<1>3. ~Return(p) /\ ~Exit(p)
  BY <1>1 DEF Return, Exit, Crash, BootFails, Down, NoCall
<1>4. CASE Request(p)
  <2>1. ASSUME NEW r \in Sids, NEW n \in Snaps, Revert(p, r, n)
        PROVE  call'[p].sid = r /\ call'[p].cid = box[p][r]
    BY <1>1, <2>1 DEF Revert, NoCall
  <2>2. CASE Boot(p)
    BY <1>1, <2>2 DEF Boot, Calls, Holds
  <2>3. ASSUME NEW r \in Sids, \/ StartTask(p, r) \/ Exec(p, r) \/ Note(p, r) \/ Fork(p, r)
                               \/ Finish(p, r) \/ Abort(p, r)
        PROVE  call' = call
    BY <1>2, <2>3 DEF StartTask, Exec, Note, Fork, Finish, Abort, handler, Ops, Steps
  <2> QED
    BY <1>4, <2>1, <2>2, <2>3 DEF Request, Holds
<1>5. CASE Step(p)
  <2>1. CASE Create(p)
    <3>1. PICK d \in Cids : /\ cont[d] = "unused" /\ cont' = [cont EXCEPT ![d] = "created"]
                            /\ call' = [call EXCEPT ![p].cid = d]
      BY <1>3, <2>1 DEF Create
    <3>2. call'[p].cid = d /\ call'[p].sid = call[p].sid
      BY <1>1, <3>1 DEF Calls
    <3> QED
      BY <1>1, <3>1, <3>2
  <2>2. CASE Stop(p)
    <3>1. /\ call'[p].sid = call[p].sid
          /\ call'[p].cid = IF call[p].op = "revert" THEN call[p].cid ELSE box[p][call[p].sid]
      BY <1>1, <2>2 DEF Stop, Calls
    <3> QED
      BY <3>1 DEF Holds
  <2>3. CASE ReadDescriptor(p)
    <3>1. \/ call'[p].sid = call[p].sid /\ call'[p].cid = call[p].cid
          \/ call'[p].cid = desc[call'[p].sid]
      BY <1>1, <2>3 DEF ReadDescriptor, Calls
    <3> QED
      BY <3>1 DEF Holds
  <2>4. CASE Attach(p)
    BY <1>1, <2>4 DEF Attach, Calls
  <2>5. CASE Setup(p) \/ Verify(p)
    <3>1. call'[p].sid = call[p].sid /\ call'[p].cid = call[p].cid
      BY <1>1, <1>3, <2>5 DEF Setup, Verify, Calls
    <3> QED
      BY <3>1 DEF Holds
  <2>6. CASE Launch(p) \/ Announce(p) \/ SetupDone(p) \/ Persist(p) \/ Fill(p)
             \/ RecordCommand(p) \/ ForkRecord(p) \/ Verdict(p) \/ Remove(p)
             \/ DeleteSnapshot(p) \/ Stopped(p) \/ Unlink(p) \/ Serve(p)
    BY <1>3, <2>6 DEF Launch, Announce, SetupDone, Persist, Fill, RecordCommand, ForkRecord,
       Verdict, Remove, DeleteSnapshot, Stopped, Unlink, Serve, handler, Holds
  <2>7. ~TeardownRaises(p)
    BY <1>3, Raising
  <2> QED
    BY <1>5, <2>1, <2>2, <2>3, <2>4, <2>5, <2>6, <2>7 DEF Step
<1> QED
  BY <1>3, <1>4, <1>5

\* A session comes to a container only by creating it.
LEMMA HoldsAfter ==
  ASSUME Typed, NEW p \in Servers, Request(p) \/ Step(p) \/ Exit(p), NEW s \in Sids,
         NEW c \in Cids, Holds(s, c)'
  PROVE  \/ Holds(s, c)
         \/ /\ call[p].sid = s /\ call'[p].cid = c
            /\ cont[c] = "unused" /\ cont'[c] # "unused"
<1>1. /\ desc \in [Sids -> Cids \cup {None, "torn"}]
      /\ box \in [Servers -> [Sids -> Cids \cup {None}]]
      /\ None \notin Cids /\ "torn" \notin Cids
  BY ConstantsAssumption DEF Typed, ServerTypes
<1>2. CASE desc'[s] = c
  <2>1. desc[s] = c \/ (Fill(p) /\ box[p][s] = c)
    <3>1. CASE Persist(p) \/ Fill(p)
      BY <1>1, <1>2, <3>1 DEF Persist, Fill
    <3>2. CASE Unlink(p) \/ ReadDescriptor(p) \/ Attach(p)
      BY <1>1, <1>2, <3>2 DEF Unlink, ReadDescriptor, Attach
    <3> QED
      BY <1>2, <3>1, <3>2, Changes
  <2> QED
    BY <2>1 DEF Holds
<1>3. ASSUME NEW q \in Servers, q # p,
             box'[q][s] = c \/ (call'[q].sid = s /\ call'[q].cid = c)
      PROVE  Holds(s, c)
  BY <1>3, Others DEF Holds
<1>4. CASE box'[p][s] = c
  <2>1. box[p][s] = c \/ (call[p].sid = s /\ call[p].cid = c)
    <3>1. CASE Launch(p) \/ Attach(p)
      BY <1>1, <1>4, <3>1 DEF Launch, Attach
    <3>2. CASE Setup(p) \/ Stop(p)
      BY <1>1, <1>4, <3>2 DEF Setup, Stop
    <3>3. ASSUME NEW r \in Sids, NEW n \in Snaps, Revert(p, r, n)
          PROVE  box[p][s] = c
      BY <1>1, <1>4, <3>3 DEF Revert
    <3>4. ~Exit(p)
      BY <1>1, <1>4 DEF Exit, Crash, BootFails, Down
    <3>5. CASE TeardownRaises(p)
      BY <1>1, <1>4, <3>5, Raising
    <3> QED
      BY <1>4, <3>1, <3>2, <3>3, <3>4, <3>5, Changes
  <2> QED
    BY <2>1 DEF Holds
<1>5. CASE call'[p].sid = s /\ call'[p].cid = c
  BY <1>5, HandlerHolds
<1> QED
  BY <1>2, <1>3, <1>4, <1>5 DEF Holds

\* A server remembers a snapshot from the commit to the deletion of the image.
LEMMA SnapshotsAfter ==
  ASSUME Typed, Apart, NEW p \in Servers, Request(p) \/ Step(p) \/ Exit(p),
         NEW q \in Servers, NEW s \in Sids, NEW n \in ids'[q][s]
  PROVE  /\ image'[n] = s
         /\ \/ n \in ids[q][s]
            \/ p = q /\ \A r \in Servers, t \in Sids : n \notin ids[r][t]
<1>1. /\ ids \in [Servers -> [Sids -> SUBSET Snaps]]
      /\ ids' \in [Servers -> [Sids -> SUBSET Snaps]]
      /\ image \in [Snaps -> Sids \cup {"unused", "removed"}]
      /\ "unused" \notin Sids
  BY MemoryTyped, ConstantsAssumption DEF Typed, ServerTypes
<1>2. n \in Snaps /\ \A r \in Servers, t \in Sids : n \in ids[r][t] => image[n] = t
  BY <1>1 DEF Apart
<1>3. ASSUME NEW r \in Sids, Fork(p, r)
      PROVE  /\ image'[n] = s
             /\ \/ n \in ids[q][s]
                \/ p = q /\ \A x \in Servers, t \in Sids : n \notin ids[x][t]
  <2>1. PICK m \in Snaps : /\ image[m] = "unused" /\ image' = [image EXCEPT ![m] = r]
                           /\ ids' \in {ids, [ids EXCEPT ![p][r] = @ \cup {m}]}
    BY <1>3 DEF Fork
  <2>2. \A x \in Servers, t \in Sids : m \notin ids[x][t]
    BY <1>1, <2>1 DEF Apart
  <2> QED
    BY <1>1, <1>2, <2>1, <2>2
<1>4. CASE DeleteSnapshot(p)
  <2>1. PICK m \in ids[p][call[p].sid] :
          /\ ids' = [ids EXCEPT ![p][call[p].sid] = @ \ {m}]
          /\ image' \in {image, [image EXCEPT ![m] = "removed"]}
    BY <1>4 DEF DeleteSnapshot
  <2>2. call[p].sid \in Sids
    BY <1>4, CallFacts DEF DeleteSnapshot
  <2>3. n \in ids[q][s]
    BY <1>1, <2>1, <2>2
  <2>4. n # m
    BY <1>1, <2>1, <2>2, <2>3 DEF Apart
  <2> QED
    BY <1>1, <1>2, <2>1, <2>3, <2>4
<1>5. CASE Exit(p)
  BY <1>1, <1>2, <1>5 DEF Exit, Crash, BootFails, Down, docker
<1>6. CASE UNCHANGED <<ids, image>>
  BY <1>1, <1>2, <1>6
<1>7. CASE TeardownRaises(p)
  <2>1. n \in ids[q][s] /\ image[n] = s
    BY <1>2, <1>7, Raising
  <2>2. image'[n] = image[n]
    <3>1. CASE n \in ids[p][call[p].sid] /\ ids'[p][call[p].sid] = {}
      <4>1. call[p].sid \in Sids
        BY <1>7, Raising
      <4>2. image[n] = call[p].sid /\ q = p
        BY <1>2, <2>1, <3>1, <4>1 DEF Apart
      <4> QED
        BY <2>1, <3>1, <4>2
    <3> QED
      BY <1>2, <1>7, <3>1, Raising
  <2> QED
    BY <2>1, <2>2
<1> QED
  BY <1>3, <1>4, <1>5, <1>6, <1>7, Changes

LEMMA ApartNext ==
  ASSUME Typed, Typed', Apart, [Next]_vars
  PROVE  Apart'
<1>1. ASSUME NEW p \in Servers, Request(p) \/ Step(p) \/ Exit(p)
      PROVE  Apart'
  <2>1. ASSUME NEW s \in Sids, NEW c \in Cids, Holds(s, c)'
        PROVE  cont'[c] # "unused" /\ \A r \in Sids : Holds(r, c)' => r = s
    <3>1. CASE Holds(s, c)
      <4>1. cont[c] # "unused" /\ \A r \in Sids : Holds(r, c) => r = s
        BY <3>1 DEF Apart
      <4> QED
        BY <1>1, <4>1, StaysUsed, HoldsAfter
    <3>2. CASE call[p].sid = s /\ cont[c] = "unused" /\ cont'[c] # "unused"
      <4>1. \A r \in Sids : ~Holds(r, c)
        BY <3>2 DEF Apart
      <4> QED
        BY <1>1, <3>2, <4>1, HoldsAfter
    <3> QED
      BY <1>1, <2>1, <3>1, <3>2, HoldsAfter
  <2>2. ASSUME NEW q \in Servers, NEW s \in Sids, NEW n \in ids'[q][s]
        PROVE  image'[n] = s /\ \A r \in Servers : n \in ids'[r][s] => r = q
    BY <1>1, SnapshotsAfter DEF Apart
  <2> QED
    BY <2>1, <2>2 DEF Apart
<1>2. CASE UNCHANGED vars
  BY <1>2 DEF vars, docker, disk, memory, handler, Apart, Holds
<1> QED
  BY <1>1, <1>2 DEF Next

\* No container and no snapshot is held for two sessions (Sandbox.start, revert, attach, snapshot).
THEOREM ServerApart == Spec => []Apart
<1>1. Init => Apart
  <2> SUFFICES ASSUME Init PROVE Apart
    OBVIOUS
  <2>1. \A s \in Sids, c \in Cids : ~Holds(s, c)
    BY ConstantsAssumption DEF Init, Holds, NoCall
  <2> QED
    BY <2>1 DEF Init, Apart
<1> QED
  BY <1>1, ServerTyped, ApartNext, PTL DEF Spec

\* Two live sessions never share a container or a snapshot, and a session reverts
\* only to snapshots of its own (Sandbox.revert, attach).
THEOREM ServerSessionsApart == Spec => []SessionsApart
<1>1. Typed /\ Apart => SessionsApart
  <2> SUFFICES ASSUME Typed, Apart, NEW p \in Servers, NEW s \in live[p], NEW r \in live[p],
                      s # r
               PROVE  /\ box[p][s] = box[p][r] => box[p][s] = None
                      /\ ids[p][s] \cap ids[p][r] = {}
    BY DEF SessionsApart
  <2>1. s \in Sids /\ r \in Sids /\ box[p][s] \in Cids \cup {None}
    BY DEF Typed, ServerTypes
  <2>2. box[p][s] = box[p][r] => box[p][s] = None
    BY <2>1 DEF Apart, Holds
  <2>3. ids[p][s] \cap ids[p][r] = {}
    BY <2>1 DEF Apart
  <2> QED
    BY <2>2, <2>3
<1> QED
  BY <1>1, ServerTyped, ServerApart, PTL


-----------------------------------------------------------------------------
(* What is left behind.                                                     *)

\* What server p has of a session that it does not serve belongs to its handler.
Tied(p) ==
  LET c == call[p] IN
  /\ \A s \in Sids :
       /\ box[p][s] # None =>
            \/ s \in live[p]
            \/ c.sid = s /\ pc[p] \in {"announce", "setup", "verify", "verdict", "stop"}
       /\ ids[p][s] # {} =>
            \/ s \in live[p]
            \/ c.sid = s /\ c.op \in {"finish", "abort"} /\ pc[p] # "unlink"
  /\ c.op = "revert" /\ pc[p] \in {"stop", "remove", "create", "launch"} =>
       box[p][c.sid] = None
  /\ pc[p] \in {"boot", "attach"} => c.todo \cap live[p] = {}
  /\ pc[p] = "attach" => c.sid \notin live[p] \cup c.todo

\* The container that the handler of server p is about to start or to remove.
InHand(p, c) ==
  /\ call[p].cid = c
  /\ \/ pc[p] \in {"launch", "remove"}
     \/ pc[p] = "stop" /\ call[p].op = "revert"

\* As long as nothing fails, somebody is in charge of whatever there is.
InCharge ==
  /\ \A p \in Servers : call[p].op = "start" =>
       /\ pc[p] = "launch" => cont[call[p].cid] = "created"
       /\ pc[p] \in {"announce", "setup"} => IsUp(box[p][call[p].sid])
  /\ \A c \in Cids : cont[c] \in {"created", "running", "exited"} =>
       \E p \in Servers : InHand(p, c) \/ \E s \in Sids : box[p][s] = c
  /\ \A n \in Snaps : image[n] \in Sids => \E p \in Servers : n \in ids[p][image[n]]
  /\ \A p \in Servers : \A s \in proxy[p] :
       /\ s \in Restricted
       /\ \/ s \in live[p]
          \/ /\ call[p].sid = s /\ pc[p] # "unlink"
             /\ call[p].op \in {"start", "finish", "abort"}

Smooth == ~Flaky /\ crashes = 0


\* A handler that works on a session goes on with it, returns or is killed.
LEMMA GoesOn ==
  ASSUME Typed, NEW p \in Servers, Request(p) \/ Step(p) \/ Exit(p),
         pc[p] \notin {"down", "idle", "boot", "attach"}
  PROVE  \/ call'[p].sid = call[p].sid /\ call'[p].op = call[p].op
         \/ Return(p)
         \/ Exit(p)
<1>1. call \in [Servers -> Calls] /\ call[p] \in Calls
  BY DEF Typed, ServerTypes
<1>2. CASE Create(p) \/ Setup(p) \/ Verify(p) \/ Stop(p)
  BY <1>1, <1>2 DEF Create, Setup, Verify, Stop, Calls
<1>3. CASE Launch(p) \/ Announce(p) \/ SetupDone(p) \/ Persist(p) \/ Fill(p)
           \/ RecordCommand(p) \/ ForkRecord(p) \/ Verdict(p) \/ Remove(p)
           \/ DeleteSnapshot(p) \/ Stopped(p) \/ Unlink(p)
  BY <1>3 DEF Launch, Announce, SetupDone, Persist, Fill, RecordCommand, ForkRecord,
     Verdict, Remove, DeleteSnapshot, Stopped, Unlink, handler
<1>4. ~Request(p)
  BY DEF Request, Boot, StartTask, Exec, Note, Fork, Finish, Abort, Revert, Require
<1>5. ~ReadDescriptor(p) /\ ~Attach(p) /\ ~Serve(p)
  BY DEF ReadDescriptor, Attach, Serve
<1>6. CASE TeardownRaises(p)
  BY <1>6 DEF TeardownRaises
<1> QED
  BY <1>2, <1>3, <1>4, <1>5, <1>6 DEF Step

\* A session leaves the dict by finish_task and abort_task, or with the server.
LEMMA Leaves ==
  ASSUME Typed, NEW p \in Servers, Request(p) \/ Step(p) \/ Exit(p), NEW s \in Sids,
         s \in live[p]
  PROVE  \/ s \in live'[p]
         \/ /\ Finish(p, s) \/ Abort(p, s)
            /\ call'[p].sid = s /\ call'[p].op \in {"finish", "abort"}
            /\ pc'[p] \in {"verify", "verdict"}
         \/ Exit(p)
<1>1. live \in [Servers -> SUBSET Sids]
  BY DEF Typed, ServerTypes
<1>2. ASSUME NEW r \in Sids, Finish(p, r) \/ Abort(p, r)
      PROVE  \/ s \in live'[p]
             \/ /\ r = s /\ call'[p].sid = s /\ call'[p].op \in {"finish", "abort"}
                /\ pc'[p] \in {"verify", "verdict"}
  BY <1>1, <1>2, Entered DEF Finish, Abort, Ops
<1>3. CASE SetupDone(p) \/ Attach(p)
  BY <1>1, <1>3 DEF SetupDone, Attach
<1> QED
  BY <1>2, <1>3, Changes

\* A sandbox with a container is that of a live session or of the running handler.
LEMMA BoxTied ==
  ASSUME Typed, Typed', Owned, NEW p \in Servers, Tied(p),
         Request(p) \/ Step(p) \/ Exit(p), NEW s \in Sids, box'[p][s] # None
  PROVE  \/ s \in live'[p]
         \/ /\ call'[p].sid = s
            /\ pc'[p] \in {"announce", "setup", "verify", "verdict", "stop"}
<1>1. /\ box \in [Servers -> [Sids -> Cids \cup {None}]]
      /\ live \in [Servers -> SUBSET Sids] /\ pc \in [Servers -> Steps]
  BY DEF Typed, ServerTypes
<1>2. ~Exit(p)
  BY <1>1 DEF Exit, Crash, BootFails, Down
<1>3. CASE s \in live[p]
  BY <1>2, <1>3, Leaves
<1>4. CASE box[p][s] = None
  <2>1. CASE Launch(p)
    BY <1>1, <1>4, <2>1 DEF Launch, Goto
  <2>2. CASE Attach(p)
    BY <1>1, <1>4, <2>2 DEF Attach
  <2>3. CASE Setup(p) \/ Stop(p)
    BY <1>1, <1>4, <2>3 DEF Setup, Stop
  <2>4. ASSUME NEW r \in Sids, NEW n \in Snaps, Revert(p, r, n)
        PROVE  FALSE
    BY <1>1, <1>4, <2>4 DEF Revert
  <2>5. ~TeardownRaises(p)
    BY <1>4, Raising
  <2> QED
    BY <1>2, <1>4, <2>1, <2>2, <2>3, <2>4, <2>5, Changes
<1>5. CASE call[p].sid = s /\ pc[p] \in {"announce", "setup", "verify", "verdict", "stop"}
  <2>1. ~Request(p)
    BY <1>5 DEF Request, Boot, StartTask, Exec, Note, Fork, Finish, Abort, Revert, Require
  <2>2. CASE Announce(p)
    <3>1. CASE call[p].op = "start"
      BY <1>1, <1>5, <2>2, <3>1 DEF Announce, Goto
    <3>2. CASE call[p].op = "revert"
      BY <1>3, <1>5, <3>2 DEF Owned
    <3> QED
      BY <2>2, <3>1, <3>2 DEF Announce, Typed, InStep, OpsAt
  <2>3. CASE Setup(p)
    <3>1. ~Return(p)
      BY <1>1, <1>5, <2>3 DEF Setup, Return, Goto
    <3>2. pc'[p] \in {"setup", "verdict"}
      BY <1>1, <2>3, <3>1 DEF Setup, Goto
    <3> QED
      BY <1>2, <1>5, <3>1, <3>2, GoesOn
  <2>4. CASE SetupDone(p)
    BY <1>1, <1>5, <2>4 DEF SetupDone
  <2>5. CASE Verify(p) \/ Verdict(p)
    <3>1. pc'[p] \in {"verify", "stop"}
      BY <1>1, <2>5 DEF Verify, Verdict, Goto
    <3> QED
      BY <1>1, <1>2, <1>5, <3>1, GoesOn DEF Return, Goto
  <2>6. ~Stop(p)
    BY <1>1, <1>5 DEF Stop
  <2>7. ~TeardownRaises(p)
    BY <1>5, Raising
  <2> QED
    BY <1>2, <1>5, <2>1, <2>2, <2>3, <2>4, <2>5, <2>6, <2>7 DEF Step, Create, Launch, Persist, Fill,
       RecordCommand, ForkRecord, Remove, DeleteSnapshot, Stopped, Unlink, ReadDescriptor,
       Attach, Serve
<1> QED
  BY <1>3, <1>4, <1>5 DEF Tied

\* A list of snapshots is that of a live session or of one that is being torn down.
LEMMA SnapshotsTied ==
  ASSUME Typed, Typed', NEW p \in Servers, Tied(p),
         Request(p) \/ Step(p) \/ Exit(p), NEW s \in Sids, ids'[p][s] # {}
  PROVE  \/ s \in live'[p]
         \/ /\ call'[p].sid = s /\ call'[p].op \in {"finish", "abort"}
            /\ pc'[p] # "unlink"
<1>1. ids \in [Servers -> [Sids -> SUBSET Snaps]] /\ pc \in [Servers -> Steps]
  BY DEF Typed, ServerTypes
<1>2. ~Exit(p)
  BY <1>1 DEF Exit, Crash, BootFails, Down
<1>3. CASE s \in live[p]
  BY <1>2, <1>3, Leaves
<1>4. CASE call[p].sid = s /\ call[p].op \in {"finish", "abort"} /\ ids[p][s] # {}
           /\ pc[p] # "unlink"
  <2>1. pc[p] \in {"verify", "verdict", "stop", "remove", "images"}
    BY <1>4 DEF Typed, ServerTypes, InStep, OpsAt, Steps
  <2>2. ~Stopped(p)
    BY <1>4 DEF Stopped
  <2>3. ~Return(p)
    <3>1. ~Request(p)
      BY <2>1 DEF Request, Boot, StartTask, Exec, Note, Fork, Finish, Abort, Revert, Require
    <3>2. CASE Verify(p) \/ Verdict(p) \/ Stop(p) \/ Remove(p) \/ DeleteSnapshot(p)
      BY <1>1, <2>1, <3>2 DEF Verify, Verdict, Stop, Remove, DeleteSnapshot, Return, Goto, handler
    <3>3. ~TeardownRaises(p)
      BY <1>1, <1>4 DEF TeardownRaises
    <3> QED
      BY <1>2, <2>1, <2>2, <3>1, <3>2, <3>3 DEF Step, Create, Launch, Announce, Setup, SetupDone,
         Persist, Fill, RecordCommand, ForkRecord, Unlink, ReadDescriptor, Attach, Serve
  <2>4. pc'[p] # "unlink"
    BY <2>2, Leads
  <2> QED
    BY <1>2, <1>4, <2>1, <2>3, <2>4, GoesOn
<1>5. CASE ids[p][s] = {}
  <2>1. ASSUME NEW r \in Sids, Fork(p, r)
        PROVE  s \in live'[p]
    BY <1>1, <1>5, <2>1 DEF Fork, Require
  <2>2. ~DeleteSnapshot(p)
    BY <1>1, <1>5 DEF DeleteSnapshot
  <2>3. ~TeardownRaises(p)
    BY <1>1, <1>5 DEF TeardownRaises
  <2> QED
    BY <1>2, <1>5, <2>1, <2>2, <2>3, Changes
<1> QED
  BY <1>3, <1>4, <1>5 DEF Tied

\* What a server has of a session that it does not serve belongs to the handler it is running.
LEMMA TiedStep ==
  ASSUME Typed, Typed', Owned, NEW p \in Servers, Tied(p), Request(p) \/ Step(p) \/ Exit(p)
  PROVE  Tied(p)'
<1>1. /\ box \in [Servers -> [Sids -> Cids \cup {None}]] /\ call \in [Servers -> Calls]
      /\ live \in [Servers -> SUBSET Sids] /\ pc \in [Servers -> Steps] /\ call[p] \in Calls
  BY DEF Typed, ServerTypes
<1>2. ASSUME call'[p].op = "revert", pc'[p] \in {"stop", "remove", "create", "launch"}
      PROVE  box'[p][call'[p].sid] = None
  <2>1. ASSUME NEW s \in Sids, NEW n \in Snaps, Revert(p, s, n)
        PROVE  box'[p][call'[p].sid] = None
    BY <1>1, <2>1 DEF Revert, NoCall
  <2>2. ASSUME NEW s \in Sids
        PROVE  ~StartTask(p, s)
    BY <1>2, Entered DEF StartTask, Ops
  <2>3. CASE Verify(p) \/ Verdict(p) \/ Stop(p) \/ Remove(p) \/ Create(p)
    <3>1. ~Return(p) /\ ~Exit(p)
      BY <1>1, <1>2 DEF Return, Exit, Crash, BootFails, Down, NoCall
    <3>2. call[p].op = "revert" /\ call'[p].sid = call[p].sid
      BY <1>2, <2>3, <3>1, GoesOn DEF Verify, Verdict, Stop, Remove, Create
    <3>3. CASE Stop(p)
      BY <1>1, <3>2, <3>3, CallFacts DEF Stop
    <3>4. CASE Remove(p) \/ Create(p)
      BY <3>2, <3>4 DEF Remove, Create, memory, Tied
    <3>5. ~Verify(p) /\ ~Verdict(p)
      BY <3>2 DEF Verify, Verdict, Typed, InStep, OpsAt
    <3> QED
      BY <2>3, <3>3, <3>4, <3>5
  <2> QED
    BY <1>2, <2>1, <2>2, <2>3, Leads
<1>3. ASSUME pc'[p] \in {"boot", "attach"}
      PROVE  /\ call'[p].todo \cap live'[p] = {}
             /\ pc'[p] = "attach" => call'[p].sid \notin live'[p] \cup call'[p].todo
  <2>1. CASE Boot(p)
    BY <1>1, <1>3, <2>1 DEF Boot, Goto, memory, Owned
  <2>2. CASE ReadDescriptor(p)
    <3>1. PICK s \in call[p].todo :
            \/ call' = [call EXCEPT ![p].todo = @ \ {s}] /\ UNCHANGED pc
            \/ call' = [call EXCEPT ![p].todo = @ \ {s}, ![p].sid = s, ![p].cid = desc[s]]
      BY <2>2 DEF ReadDescriptor
    <3>2. UNCHANGED live /\ pc[p] = "boot" /\ call[p].todo \cap live[p] = {}
      BY <2>2 DEF ReadDescriptor, memory, Tied
    <3>3. call'[p].todo = call[p].todo \ {s} /\ (pc'[p] = "boot" \/ call'[p].sid = s)
      BY <1>1, <3>1, <3>2 DEF Calls
    <3> QED
      BY <3>2, <3>3
  <2>3. CASE Attach(p)
    <3>1. /\ pc'[p] = "boot" /\ call'[p].todo = call[p].todo
          /\ live'[p] \subseteq live[p] \cup {call[p].sid}
      BY <1>1, <2>3 DEF Attach, Goto, Calls
    <3>2. call[p].todo \cap live[p] = {} /\ call[p].sid \notin call[p].todo
      BY <2>3 DEF Attach, Tied
    <3> QED
      BY <3>1, <3>2
  <2> QED
    BY <1>3, <2>1, <2>2, <2>3, Leads
<1> QED
  BY <1>2, <1>3, BoxTied, SnapshotsTied DEF Tied


\* A step changes a container that was unused, or one of the session it works on.
LEMMA Touches ==
  ASSUME Typed, NEW p \in Servers, Request(p) \/ Step(p) \/ Exit(p),
         NEW c \in Cids, cont'[c] # cont[c]
  PROVE  \/ cont[c] = "unused"
         \/ call[p].sid \in Sids /\ Holds(call[p].sid, c)
<1>1. cont \in [Cids -> {"unused", "created", "running", "exited", "removed"}]
  BY DEF Typed, ServerTypes
<1>2. CASE Create(p)
  BY <1>1, <1>2 DEF Create
<1>3. CASE Launch(p) \/ Remove(p)
  <2>1. call[p].cid = c
    BY <1>1, <1>3 DEF Launch, Remove
  <2> QED
    BY <1>3, <2>1, CallFacts DEF Launch, Remove, Holds
<1>4. CASE Stop(p)
  <2>1. call[p].cid = c \/ box[p][call[p].sid] = c
    BY <1>1, <1>4 DEF Stop
  <2> QED
    BY <1>4, <2>1, CallFacts DEF Stop, Holds
<1>5. CASE TeardownRaises(p)
  <2>1. pc[p] \in {"stop", "remove"}
    BY <1>5 DEF TeardownRaises
  <2>2. call[p].cid = c \/ box[p][call[p].sid] = c
    BY <1>1, <1>5 DEF TeardownRaises
  <2> QED
    BY <2>1, <2>2, CallFacts DEF Holds
<1> QED
  BY <1>2, <1>3, <1>4, <1>5, Changes

\* The container in which start_task sets its session up runs.
LEMMA SetupRuns ==
  ASSUME Typed, Typed', Owned, Apart, InCharge, ~Flaky,
         NEW p \in Servers, Request(p) \/ Step(p) \/ Exit(p),
         NEW q \in Servers, call'[q].op = "start", pc'[q] \in {"announce", "setup"}
  PROVE  IsUp(box[q][call[q].sid])' \/ (p = q /\ Exit(p))
<1>1. /\ box \in [Servers -> [Sids -> Cids \cup {None}]] /\ call \in [Servers -> Calls]
      /\ pc \in [Servers -> Steps] /\ call[p] \in Calls
      /\ cont \in [Cids -> {"unused", "created", "running", "exited", "removed"}]
      /\ None \notin Cids
  BY ConstantsAssumption DEF Typed, ServerTypes
<1>2. CASE q = p
  <2>1. CASE Launch(p)
    BY <1>1, <1>2, <2>1, CallFacts DEF Launch, Goto, Return, NoCall, IsUp
  <2>2. CASE Announce(p) \/ Setup(p)
    <3>1. ~Return(p)
      BY <1>1, <1>2 DEF Return, NoCall
    <3>2. ~Exit(p)
      BY <2>2, <1>1, <1>2 DEF Exit, Crash, BootFails, Down, NoCall
    <3>3. call'[p].sid = call[p].sid /\ call[p].op = "start"
      BY <1>2, <2>2, <3>1, <3>2, GoesOn DEF Announce, Setup
    <3>4. IsUp(box[p][call[p].sid]) /\ UNCHANGED <<cont, box>>
      BY <2>2, <3>1, <3>3 DEF Announce, Setup, InCharge, docker, memory
    <3> QED
      BY <1>2, <3>3, <3>4 DEF IsUp
  <2> QED
    BY <1>2, <2>1, <2>2, Leads
<1>3. CASE q # p
  <2>1. /\ call'[q] = call[q] /\ box'[q] = box[q] /\ IsStarting(q)
        /\ IsUp(box[q][call[q].sid])
    BY <1>3, Others DEF InCharge, IsStarting
  <2>2. PICK s \in Sids, c \in Cids : s = call[q].sid /\ c = box[q][s] /\ cont[c] = "running"
    BY <1>1, <2>1 DEF IsUp, IsStarting, Typed, InStep, OpsAt
  <2>3. Holds(s, c) /\ ~Knows(p, s)
    BY <1>3, <2>1, <2>2 DEF Holds, Owned, Fresh
  <2>4. cont'[c] = "running"
    BY <2>2, <2>3, Touches DEF Apart, Knows
  <2> QED
    BY <1>1, <2>1, <2>2, <2>4 DEF IsUp
<1> QED
  BY <1>2, <1>3

\* Nobody else takes the container that start_task is about to start.
LEMMA LaunchFinds ==
  ASSUME Typed, Typed', Owned, Apart, InCharge,
         NEW p \in Servers, Request(p) \/ Step(p) \/ Exit(p),
         NEW q \in Servers, call'[q].op = "start", pc'[q] = "launch"
  PROVE  cont'[call'[q].cid] = "created"
<1>1. /\ call \in [Servers -> Calls] /\ pc \in [Servers -> Steps] /\ call[p] \in Calls
      /\ cont \in [Cids -> {"unused", "created", "running", "exited", "removed"}]
  BY DEF Typed, ServerTypes
<1>2. CASE q = p
  <2>1. Create(p)
    BY <1>2, Leads
  <2>2. PICK c \in Cids : /\ cont' = [cont EXCEPT ![c] = "created"]
                          /\ call' = [call EXCEPT ![p].cid = c]
    BY <1>1, <1>2, <2>1 DEF Create, Return, Goto
  <2>3. call'[p].cid = c
    BY <1>1, <2>2 DEF Calls
  <2> QED
    BY <1>1, <1>2, <2>2, <2>3
<1>3. CASE q # p
  <2>1. /\ call'[q] = call[q] /\ IsStarting(q) /\ pc[q] = "launch"
        /\ cont[call[q].cid] = "created"
    BY <1>3, Others DEF InCharge, IsStarting
  <2>2. PICK s \in Sids, c \in Cids : s = call[q].sid /\ c = call[q].cid
    BY <2>1, CallFacts
  <2>3. Holds(s, c) /\ ~Knows(p, s)
    BY <1>3, <2>1, <2>2 DEF Holds, Owned, Fresh
  <2>4. cont'[c] = cont[c]
    BY <2>1, <2>2, <2>3, Touches DEF Apart, Knows
  <2> QED
    BY <2>1, <2>2, <2>4
<1> QED
  BY <1>2, <1>3

\* Every container is somewhere in a server.
LEMMA ContainersInCharge ==
  ASSUME Typed, Typed', Owned, InCharge, ~Flaky, NEW p \in Servers, Tied(p),
         Request(p) \/ Step(p) \/ Exit(p), ~Exit(p),
         NEW c \in Cids, cont'[c] \in {"created", "running", "exited"}
  PROVE  \E q \in Servers : InHand(q, c)' \/ \E s \in Sids : box'[q][s] = c
<1>0. ~TeardownRaises(p)
  BY DEF TeardownRaises
<1>1. /\ box \in [Servers -> [Sids -> Cids \cup {None}]] /\ call \in [Servers -> Calls]
      /\ pc \in [Servers -> Steps] /\ call[p] \in Calls /\ live \in [Servers -> SUBSET Sids]
      /\ cont \in [Cids -> {"unused", "created", "running", "exited", "removed"}]
      /\ None \notin Cids
  BY ConstantsAssumption DEF Typed, ServerTypes
<1>2. CASE Create(p) /\ cont[c] = "unused"
  <2>1. cont' = [cont EXCEPT ![c] = "created"] /\ call' = [call EXCEPT ![p].cid = c]
        /\ Goto(p, "launch")
    BY <1>1, <1>2 DEF Create
  <2>2. call'[p].cid = c /\ pc'[p] = "launch"
    BY <1>1, <2>1 DEF Calls, Goto
  <2> QED
    BY <2>2 DEF InHand
<1>3. CASE Launch(p) /\ call[p].cid = c
  <2>1. box'[p][call[p].sid] = c /\ call[p].sid \in Sids
    BY <1>1, <1>3, CallFacts DEF Launch
  <2> QED
    BY <2>1
<1>4. CASE cont[c] \in {"created", "running", "exited"}
  <2>1. PICK q \in Servers : InHand(q, c) \/ \E s \in Sids : box[q][s] = c
    BY <1>4 DEF InCharge
  <2>2. CASE q # p
    BY <2>1, <2>2, Others DEF InHand
  <2>3. CASE q = p /\ InHand(q, c)
    <3>1. CASE pc[p] = "stop"
      <4>1. Stop(p)
        BY <1>0, <3>1 DEF Request, Step, Boot, StartTask, Exec, Note, Fork, Finish, Abort, Revert,
           Require, Create, Launch, Announce, Setup, SetupDone, Persist, Fill, RecordCommand,
           ForkRecord, Verify, Verdict, Remove, DeleteSnapshot, Stopped, Unlink,
           ReadDescriptor, Attach, Serve
      <4>2. call'[p].cid = c /\ pc'[p] = "remove"
        BY <1>1, <2>3, <3>1, <4>1 DEF Stop, Goto, InHand, Calls
      <4> QED
        BY <4>2 DEF InHand
    <3>2. CASE pc[p] \in {"launch", "remove"}
      <4>1. Launch(p) \/ Remove(p)
        BY <1>0, <3>2 DEF Request, Step, Boot, StartTask, Exec, Note, Fork, Finish, Abort, Revert,
           Require, Create, Announce, Setup, SetupDone, Persist, Fill, RecordCommand,
           ForkRecord, Verify, Verdict, Stop, DeleteSnapshot, Stopped, Unlink,
           ReadDescriptor, Attach, Serve
      <4>2. ~Remove(p)
        BY <1>1, <2>3 DEF Remove, InHand
      <4> QED
        BY <1>3, <2>3, <4>1, <4>2 DEF InHand
    <3> QED
      BY <2>3, <3>1, <3>2 DEF InHand
  <2>4. ASSUME NEW s \in Sids, box[p][s] = c
        PROVE  InHand(p, c)' \/ box'[p][s] = c
    <3>1. \/ s \in live[p]
          \/ call[p].sid = s /\ pc[p] \in {"announce", "setup", "verify", "verdict", "stop"}
      BY <1>1, <2>4 DEF Tied
    <3>2. CASE Launch(p)
      <4>1. call[p].sid # s
        <5>1. pc[p] = "launch" /\ call[p].op \in {"start", "revert"}
          BY <3>2 DEF Launch, Typed, InStep, OpsAt
        <5> QED
          BY <1>1, <2>4, <3>1, <5>1 DEF Owned, IsStarting, Fresh, Tied
      <4> QED
        BY <1>1, <2>4, <3>2, <4>1 DEF Launch
    <3>3. CASE Setup(p)
      <4>1. IsUp(box[p][call[p].sid])
        BY <3>3 DEF Setup, InCharge, Typed, InStep, OpsAt
      <4> QED
        BY <2>4, <3>3, <4>1 DEF Setup
    <3>4. CASE Stop(p)
      <4>1. CASE call[p].sid = s
        <5>1. call[p].op # "revert"
          BY <1>1, <2>4, <3>4, <4>1 DEF Stop, Tied
        <5>2. call'[p].cid = c /\ pc'[p] = "remove"
          BY <1>1, <2>4, <3>4, <4>1, <5>1 DEF Stop, Goto, Calls
        <5> QED
          BY <5>2 DEF InHand
      <4>2. CASE call[p].sid # s
        BY <1>1, <2>4, <3>4, <4>2 DEF Stop
      <4> QED
        BY <4>1, <4>2
    <3>5. CASE Attach(p)
      <4>1. call[p].sid # s
        BY <3>1, <3>5 DEF Attach, Tied
      <4> QED
        BY <1>1, <2>4, <3>5, <4>1 DEF Attach
    <3>6. ASSUME NEW r \in Sids, NEW n \in Snaps, Revert(p, r, n)
          PROVE  InHand(p, c)' \/ box'[p][s] = c
      <4>1. CASE r = s
        <5>1. call'[p].cid = c /\ call'[p].op = "revert" /\ pc'[p] = "stop"
          BY <1>1, <2>4, <3>6, <4>1 DEF Revert, Goto, NoCall
        <5> QED
          BY <5>1 DEF InHand
      <4>2. CASE r # s
        BY <1>1, <2>4, <3>6, <4>2 DEF Revert
      <4> QED
        BY <4>1, <4>2
    <3> QED
      BY <1>0, <2>4, <3>2, <3>3, <3>4, <3>5, <3>6, Changes
  <2> QED
    BY <2>1, <2>2, <2>3, <2>4
<1>5. CASE cont[c] \in {"unused", "removed"}
  <2>1. CASE Create(p)
    BY <1>1, <1>2, <1>5, <2>1 DEF Create
  <2>2. CASE Launch(p)
    BY <1>1, <1>3, <1>5, <2>2 DEF Launch
  <2>3. ~Stop(p) /\ ~Remove(p)
    BY <1>1, <1>5 DEF Stop, Remove, IsUp
  <2> QED
    BY <1>0, <1>5, <2>1, <2>2, <2>3, Changes
<1> QED
  BY <1>1, <1>4, <1>5

\* Every snapshot is remembered by the server that took it.
LEMMA SnapshotsInCharge ==
  ASSUME Typed, InCharge, ~Flaky, NEW p \in Servers,
         Request(p) \/ Step(p) \/ Exit(p), ~Exit(p), NEW n \in Snaps, image'[n] \in Sids
  PROVE  \E q \in Servers : n \in ids'[q][image'[n]]
<1>0. ~TeardownRaises(p)
  BY DEF TeardownRaises
<1>1. /\ ids \in [Servers -> [Sids -> SUBSET Snaps]]
      /\ image \in [Snaps -> Sids \cup {"unused", "removed"}]
      /\ "unused" \notin Sids /\ "removed" \notin Sids
  BY ConstantsAssumption DEF Typed, ServerTypes
<1>2. ASSUME NEW r \in Sids, Fork(p, r)
      PROVE  \E q \in Servers : n \in ids'[q][image'[n]]
  <2>1. PICK m \in Snaps : /\ image[m] = "unused" /\ image' = [image EXCEPT ![m] = r]
                           /\ ids' = [ids EXCEPT ![p][r] = @ \cup {m}]
    BY <1>2 DEF Fork
  <2>2. CASE n = m
    BY <1>1, <2>1, <2>2
  <2>3. CASE n # m
    <3>1. image'[n] = image[n] /\ image[n] \in Sids
      BY <1>1, <2>1, <2>3
    <3>2. PICK q \in Servers : n \in ids[q][image[n]]
      BY <3>1 DEF InCharge
    <3>3. n \in ids'[q][image[n]]
      BY <1>1, <2>1, <3>1, <3>2
    <3> QED
      BY <3>1, <3>3
  <2> QED
    BY <2>2, <2>3
<1>3. CASE DeleteSnapshot(p)
  <2>1. PICK m \in ids[p][call[p].sid] :
          /\ ids' = [ids EXCEPT ![p][call[p].sid] = @ \ {m}]
          /\ image' = [image EXCEPT ![m] = "removed"]
    BY <1>3 DEF DeleteSnapshot
  <2>2. n # m /\ image'[n] = image[n] /\ image[n] \in Sids
    BY <1>1, <2>1
  <2>3. PICK q \in Servers : n \in ids[q][image[n]]
    BY <2>2 DEF InCharge
  <2>4. n \in ids'[q][image[n]]
    BY <1>1, <2>1, <2>2, <2>3
  <2> QED
    BY <2>2, <2>4
<1>4. CASE UNCHANGED <<ids, image>>
  BY <1>4 DEF InCharge
<1> QED
  BY <1>0, <1>2, <1>3, <1>4, Changes

\* The egress proxy runs for a session that is live, starts or ends.
LEMMA ProxiesInCharge ==
  ASSUME Typed, Typed', Owned, InCharge, ~Flaky, NEW p \in Servers,
         Request(p) \/ Step(p) \/ Exit(p), ~Exit(p), NEW s \in proxy'[p]
  PROVE  /\ s \in Restricted
         /\ \/ s \in live'[p]
            \/ /\ call'[p].sid = s /\ pc'[p] # "unlink"
               /\ call'[p].op \in {"start", "finish", "abort"}
<1>0. ~TeardownRaises(p)
  BY DEF TeardownRaises
<1>1. /\ proxy \in [Servers -> SUBSET Sids] /\ pc \in [Servers -> Steps]
      /\ proxy' \in [Servers -> SUBSET Sids] /\ s \in Sids
  BY DEF Typed, ServerTypes
<1>2. CASE s \notin proxy[p]
  <2>1. ASSUME NEW r \in Sids, StartTask(p, r)
        PROVE  r = s /\ s \in Restricted /\ call'[p].sid = s /\ call'[p].op = "start"
               /\ pc'[p] = "create"
    <3>1. r = s /\ s \in Restricted
      BY <1>1, <1>2, <2>1 DEF StartTask
    <3>2. call'[p].sid = r /\ call'[p].op = "start" /\ pc'[p] = "create"
      BY <2>1, Entered DEF StartTask, Ops
    <3> QED
      BY <3>1, <3>2
  <2>2. StopProxy(p, call[p].sid) => proxy'[p] \subseteq proxy[p]
    BY <1>1 DEF StopProxy
  <2>3. ~Create(p) /\ ~Launch(p) /\ ~Stopped(p)
    BY <1>2, <2>2 DEF Create, Launch, Stopped
  <2> QED
    BY <1>2, <2>1, <2>3, Changes
<1>3. CASE s \in proxy[p] /\ s \in live[p]
  BY <1>1, <1>3, Leaves DEF InCharge
<1>4. CASE s \in proxy[p] /\ s \notin live[p]
  <2>1. /\ s \in Restricted /\ call[p].sid = s /\ pc[p] # "unlink"
        /\ call[p].op \in {"start", "finish", "abort"}
    BY <1>4 DEF InCharge
  <2>2. pc[p] \notin {"down", "idle", "boot", "attach", "record", "forked", "unlink"}
    BY <2>1 DEF Typed, InStep, OpsAt
  <2>3. StopProxy(p, call[p].sid) => s \notin proxy'[p]
    BY <1>1, <2>1 DEF StopProxy
  <2>4. ~Stopped(p)
    BY <2>3 DEF Stopped
  <2>5. ~Return(p)
    <3>1. CASE Create(p) \/ Launch(p)
      <4>1. CASE Create(p)
        BY <1>1, <2>1, <2>3, <4>1 DEF Create, Return, Goto
      <4>2. CASE Launch(p)
        <5>1. cont[call[p].cid] = "created"
          BY <2>1, <4>2 DEF Launch, InCharge, Typed, InStep, OpsAt
        <5> QED
          BY <1>1, <4>2, <5>1 DEF Launch, Return, Goto
      <4> QED
        BY <3>1, <4>1, <4>2
    <3>2. CASE Setup(p)
      <4>1. IsUp(box[p][call[p].sid])
        BY <3>2 DEF Setup, InCharge, Typed, InStep, OpsAt
      <4> QED
        BY <1>1, <3>2, <4>1 DEF Setup, Return, Goto
    <3>3. pc[p] \notin {"persist", "fill"}
      BY <1>4, <2>1 DEF Owned
    <3>4. CASE Announce(p) \/ SetupDone(p) \/ Verify(p) \/ Verdict(p) \/ Stop(p) \/ Remove(p)
               \/ DeleteSnapshot(p)
      BY <1>1, <2>2, <3>4 DEF Announce, SetupDone, Verify, Verdict, Stop, Remove,
         DeleteSnapshot, Return, Goto, handler
    <3> QED
      BY <1>0, <2>2, <2>4, <3>1, <3>2, <3>3, <3>4 DEF Request, Boot, StartTask, Exec, Note, Fork,
         Finish, Abort, Revert, Require, Step, Persist, Fill, RecordCommand, ForkRecord, Unlink,
         ReadDescriptor, Attach, Serve
  <2>6. pc'[p] # "unlink"
    BY <2>4, Leads
  <2> QED
    BY <1>0, <2>1, <2>2, <2>5, <2>6, GoesOn
<1> QED
  BY <1>2, <1>3, <1>4

\* Smooth is about the whole history: a kill ends it.
Leakless ==
  /\ \A p \in Servers : Tied(p)
  /\ Smooth => InCharge

LEMMA LeaklessNext ==
  ASSUME Typed, Typed', Owned, Apart, Leakless, [Next]_vars
  PROVE  Leakless'
<1>1. ASSUME NEW p \in Servers, Request(p) \/ Step(p) \/ Exit(p)
      PROVE  Leakless'
  <2>1. \A q \in Servers : Tied(q)'
    <3>1. ASSUME NEW q \in Servers, q # p
          PROVE  Tied(q)'
      BY <1>1, <3>1, Others DEF Leakless, Tied
    <3> QED
      BY <1>1, <3>1, TiedStep DEF Leakless
  <2>2. ASSUME Smooth'
        PROVE  InCharge'
    <3>1. ~Exit(p) /\ Smooth
      <4>1. crashes \in Nat /\ ~Flaky /\ crashes' = 0
        BY <2>2 DEF Smooth, Typed, ServerTypes
      <4>2. ~Crash(p)
        BY <4>1 DEF Crash
      <4>3. crashes = 0
        BY <1>1, <4>1, <4>2, Changes DEF Exit, BootFails
      <4>4. ~BootFails(p)
        <5>1. pc[p] = "attach" => damage[call[p].sid] = "none"
          BY <4>3, CallFacts DEF Typed
        <5> QED
          BY <4>1, <5>1 DEF BootFails
      <4> QED
        BY <4>1, <4>2, <4>3, <4>4 DEF Exit, Smooth
    <3>2. InCharge /\ ~Flaky
      BY <3>1 DEF Leakless, Smooth
    <3>3. \A q \in Servers : call'[q].op = "start" =>
            /\ pc'[q] = "launch" => cont'[call'[q].cid] = "created"
            /\ pc'[q] \in {"announce", "setup"} => IsUp(box[q][call[q].sid])'
      BY <1>1, <3>1, <3>2, SetupRuns, LaunchFinds
    <3>4. \A c \in Cids : cont'[c] \in {"created", "running", "exited"} =>
            \E q \in Servers : InHand(q, c)' \/ \E s \in Sids : box'[q][s] = c
      BY <1>1, <3>1, <3>2, ContainersInCharge DEF Leakless
    <3>5. \A n \in Snaps : image'[n] \in Sids => \E q \in Servers : n \in ids'[q][image'[n]]
      BY <1>1, <3>1, <3>2, SnapshotsInCharge
    <3>6. ASSUME NEW q \in Servers, NEW s \in proxy'[q]
          PROVE  /\ s \in Restricted
                 /\ \/ s \in live'[q]
                    \/ /\ call'[q].sid = s /\ pc'[q] # "unlink"
                       /\ call'[q].op \in {"start", "finish", "abort"}
      <4>1. CASE q = p
        BY <1>1, <3>1, <3>2, <4>1, ProxiesInCharge
      <4>2. CASE q # p
        BY <1>1, <3>2, <4>2, Others DEF InCharge
      <4> QED
        BY <4>1, <4>2
    <3> QED
      BY <3>3, <3>4, <3>5, <3>6 DEF InCharge
  <2> QED
    BY <2>1, <2>2 DEF Leakless
<1>2. CASE UNCHANGED vars
  BY <1>2 DEF vars, docker, disk, memory, handler, Leakless, Tied, Smooth, InCharge, InHand, IsUp
<1> QED
  BY <1>1, <1>2 DEF Next

\* As long as nothing was killed and Docker does not fail, whatever exists is in the charge of
\* somebody (Sandbox.stop, delete_snapshots, revert).
THEOREM ServerLeakless == Spec => []Leakless
<1>1. Init => Leakless
  <2> SUFFICES ASSUME Init PROVE Leakless
    OBVIOUS
  <2>1. \A p \in Servers : Tied(p)
    BY DEF Init, Tied, NoCall
  <2>2. InCharge
    BY ConstantsAssumption DEF Init, InCharge, NoCall
  <2> QED
    BY <2>1, <2>2 DEF Leakless
<1> QED
  BY <1>1, ServerTyped, ServerOwned, ServerApart, LeaklessNext, PTL DEF Spec

\* Without kills and failing Docker calls nothing is left behind: between
\* handlers, every container, snapshot and proxy belongs to a live session
\* (Sandbox.stop, delete_snapshots, revert).
THEOREM ServerNothingLeaks == Spec => []NothingLeaks
<1>1. Typed /\ Leakless /\ ProxyWhileLive => NothingLeaks
  <2> SUFFICES ASSUME Typed, Leakless, ProxyWhileLive, Smooth, \A p \in Servers : Idle(p)
               PROVE  /\ \A c \in Cids : cont[c] \in {"created", "running", "exited"} =>
                           \E p \in Servers : \E s \in live[p] : box[p][s] = c
                      /\ \A n \in Snaps : image[n] \in Sids =>
                           \E p \in Servers : image[n] \in live[p] /\ n \in ids[p][image[n]]
                      /\ \A p \in Servers : proxy[p] = live[p] \cap Restricted
    BY DEF NothingLeaks, Smooth
  <2>1. InCharge /\ None \notin Cids /\ None \notin Sids
    BY ConstantsAssumption DEF Leakless
  <2>2. \A p \in Servers : pc[p] = "idle" /\ call[p].sid = None /\ Tied(p)
    BY DEF Idle, Typed, InStep, Leakless
  <2>3. ASSUME NEW c \in Cids, cont[c] \in {"created", "running", "exited"}
        PROVE  \E p \in Servers : \E s \in live[p] : box[p][s] = c
    BY <2>1, <2>2, <2>3 DEF InCharge, InHand, Tied
  <2>4. ASSUME NEW n \in Snaps, image[n] \in Sids
        PROVE  \E p \in Servers : image[n] \in live[p] /\ n \in ids[p][image[n]]
    BY <2>1, <2>2, <2>4 DEF InCharge, Tied
  <2>5. ASSUME NEW p \in Servers
        PROVE  proxy[p] = live[p] \cap Restricted
    <3>1. \A s \in proxy[p] : s \in Restricted /\ s \in Sids
      BY <2>1 DEF InCharge, Typed, ServerTypes
    <3>2. \A s \in proxy[p] : s \in live[p]
      BY <2>1, <2>2, <3>1 DEF InCharge
    <3> QED
      BY <3>1, <3>2 DEF ProxyWhileLive
  <2> QED
    BY <2>3, <2>4, <2>5
<1> QED
  BY <1>1, ServerTyped, ServerLeakless, ServerProxyWhileLive, PTL

=============================================================================
