--------------------------- MODULE OneServerProofs ---------------------------
(***************************************************************************)
(* Proofs about SessionServer with one server on the root, killed and        *)
(* restarted any number of times: what session persistence is made for       *)
(* (mcp_server.py:18).  A second server on the same root takes over the      *)
(* sessions of the first, and then none of the theorems that assume          *)
(* OneServer need hold.  At the end, the same server next to the reaper.     *)
(***************************************************************************)
EXTENDS Reaper, SessionServerProofs

OneServer == \A p, q \in Servers : p = q

\* The counter is the number of commands in the log wherever it is going to be used, and
\* the log can be read back.
Counted ==
  \A p \in Servers :
    /\ \A s \in Sids : traj[s] = <<>> => count[p][s] = 0
    /\ \A s \in live[p] : damage[s] = "none" => count[p][s] = Commands(s)
    /\ \A s \in Sids :
         (/\ call[p].sid = s /\ call[p].op # "revert" /\ damage[s] = "none"
          /\ pc[p] \in {"create", "launch", "announce", "setup", "verify"}) =>
           count[p][s] = Commands(s)

\* The handlers that change which container a session has.
Changing(p, s) == call[p].sid = s /\ call[p].op \in {"start", "revert"}

\* The descriptor names the container of the sandbox, but while that is replaced.
Pinned ==
  \A p \in Servers :
    /\ \A s \in live[p] : box[p][s] # None /\ ~Changing(p, s) => desc[s] = box[p][s]
    /\ pc[p] = "attach" => desc[call[p].sid] = call[p].cid
    /\ pc[p] = "fill" => desc[call[p].sid] = "torn"

\* The sandbox of a session that is live, or about to be, has a container that exists.
InUse(p, s) == s \in live[p] \/ (Changing(p, s) /\ pc[p] \in {"announce", "setup"})

Backed ==
  \A p \in Servers, s \in Sids :
    InUse(p, s) /\ box[p][s] # None => cont[box[p][s]] # "removed"

-----------------------------------------------------------------------------
\* The last n events of the log are verify commands that succeeded.
LastOk(l, n) ==
  /\ n <= Len(l)
  /\ \A j \in Len(l) - n + 1 .. Len(l) : l[j] = "verify_ok"

Earned(l) ==
  \A i \in DOMAIN l : l[i] = "passed" =>
    /\ i > NVerify
    /\ \A j \in i - NVerify .. i - 1 : l[j] = "verify_ok"

Verified ==
  /\ \A s \in Sids : Earned(traj[s])
  /\ \A p \in Servers : pc[p] = "verify" /\ call[p].ok => LastOk(traj[call[p].sid], call[p].n)

-----------------------------------------------------------------------------
\* The log of a run in which n setup commands have succeeded, and no more.
InSetup(l, n) ==
  /\ Log!Begun(l) /\ Log!Number(l, {"setup_ok"}) = n
  /\ Log!Number(l, {"setup_bad"}) = 0
  /\ Log!Number(l, {"verify_ok", "verify_bad"}) = 0
  /\ Log!Number(l, {"verify_bad"}) = 0
  /\ Log!Number(l, Log!Verdicts) = 0

\* The log of a run in which n verify commands have been executed, well or not.
InVerify(l, n, ok) ==
  /\ Log!Begun(l) /\ Log!Number(l, {"setup_ok"}) = NSetup
  /\ Log!Number(l, {"setup_bad"}) = 0
  /\ Log!Number(l, {"verify_ok", "verify_bad"}) = n
  /\ ok <=> Log!Number(l, {"verify_bad"}) = 0
  /\ Log!Number(l, Log!Verdicts) = 0

\* Without a kill, what the server has in memory tells where the log of a run is.
Running ==
  \A p \in Servers :
    /\ pc[p] \in {"down", "boot"} =>
         call[p].todo = {} /\ \A s \in Sids : desc[s] = None /\ traj[s] = <<>> /\ ~ran[s]
    /\ pc[p] # "attach"
    /\ \A s \in live[p] : InSetup(traj[s], NSetup)
    /\ pc[p] = "setup" => InSetup(traj[call[p].sid], call[p].n)
    /\ pc[p] = "verify" => InVerify(traj[call[p].sid], call[p].n, call[p].ok)
    /\ pc[p] = "verdict" => Log!Number(traj[call[p].sid], Log!Verdicts) = 0

\* ... and a command that ran is in the log, or about to be.
Untouched ==
  \A s \in Sids :
    /\ ran[s] => \/ Commands(s) > 0
                 \/ \E p \in Servers : pc[p] = "record" /\ call[p].sid = s
    /\ (\E i \in DOMAIN traj[s] : traj[s][i] = "noact") => ~ran[s]

Ran == /\ crashes = 0 => Running
       /\ Smooth => Untouched
-----------------------------------------------------------------------------
(* Counting events.                                                         *)

\* One more event in a log is one more of each kind that it is of.
LEMMA NumberAppend ==
  ASSUME NEW l \in Seq(Log!Events), NEW e \in Log!Events, NEW E
  PROVE  Log!Number(Append(l, e), E)
           = IF e \in E THEN Log!Number(l, E) + 1 ELSE Log!Number(l, E)
<1>0. PICK m : m = Append(l, e)
  OBVIOUS
<1>1. /\ m \in Seq(Log!Events) /\ Len(m) = Len(l) + 1
      /\ \A i \in 1 .. Len(l) : m[i] = l[i]
      /\ m[Len(l) + 1] = e
  BY <1>0, AppendProperties
<1> DEFINE I == {i \in DOMAIN l : l[i] \in E}
           J == {i \in DOMAIN m : m[i] \in E}
<1>2. Len(l) \in Nat /\ DOMAIN l = 1 .. Len(l) /\ DOMAIN m = 1 .. Len(l) + 1
  BY <1>1, LenProperties
<1>3. IsFiniteSet(1 .. Len(l)) /\ I \in SUBSET (1 .. Len(l))
  BY <1>2, FS_Interval
<1>4. IsFiniteSet(I) /\ Len(l) + 1 \notin I
  BY <1>2, <1>3, FS_Subset
<1>5. Log!Number(l, E) = Cardinality(I) /\ Log!Number(m, E) = Cardinality(J)
  BY DEF Log!Number, Log!Cardinality, Cardinality
<1>6. J = IF e \in E THEN I \cup {Len(l) + 1} ELSE I
  <2>1. \A i : i \in 1 .. Len(l) + 1 <=> i \in 1 .. Len(l) \/ i = Len(l) + 1
    BY <1>2
  <2>2. \A i : i \in J <=> i \in I \/ (i = Len(l) + 1 /\ e \in E)
    BY <1>1, <1>2, <2>1
  <2> HIDE DEF I, J
  <2> QED
    BY <2>2
<1> HIDE DEF I, J
<1>7. Cardinality(J) = IF e \in E THEN Cardinality(I) + 1 ELSE Cardinality(I)
  BY <1>4, <1>6, FS_AddElement
<1> QED
  BY <1>0, <1>5, <1>7

\* An empty log has no events of any kind, and a log without some events has none.
LEMMA NumberEmpty ==
  ASSUME NEW E
  PROVE  Log!Number(<<>>, E) = 0
<1> DEFINE I == {i \in DOMAIN <<>> : <<>>[i] \in E}
<1>1. Log!Number(<<>>, E) = Cardinality(I)
  BY DEF Log!Number, Log!Cardinality, Cardinality
<1>2. I = {}
  OBVIOUS
<1> QED
  BY <1>1, <1>2, FS_EmptySet

\* If a log has none of some events, none of its entries is one.
LEMMA NumberZero ==
  ASSUME NEW l \in Seq(Log!Events), NEW E, Log!Number(l, E) = 0
  PROVE  \A i \in DOMAIN l : l[i] \notin E
<1> DEFINE I == {i \in DOMAIN l : l[i] \in E}
<1>1. Log!Number(l, E) = Cardinality(I)
  BY DEF Log!Number, Log!Cardinality, Cardinality
<1>2. Len(l) \in Nat /\ DOMAIN l = 1 .. Len(l)
  BY LenProperties
<1>3. IsFiniteSet(1 .. Len(l)) /\ I \in SUBSET (1 .. Len(l))
  BY <1>2, FS_Interval
<1>4. I = {}
  BY <1>1, <1>3, FS_Subset, FS_EmptySet
<1> QED
  BY <1>4

\* A run that has begun has; the event that begins it does.
LEMMA BegunAppend ==
  ASSUME NEW l \in Seq(Log!Events), NEW e \in Log!Events
  PROVE  /\ Log!Begun(l) => Log!Begun(Append(l, e))
         /\ e = "run_started" => Log!Begun(Append(l, e))
<1>0. PICK m : m = Append(l, e)
  OBVIOUS
<1>1. /\ Len(l) \in Nat /\ DOMAIN l = 1 .. Len(l)
      /\ m \in Seq(Log!Events) /\ Len(m) = Len(l) + 1
      /\ \A i \in 1 .. Len(l) : m[i] = l[i]
      /\ m[Len(l) + 1] = e
  BY <1>0, AppendProperties, LenProperties
<1>2. DOMAIN m = 1 .. Len(l) + 1
  BY <1>1, LenProperties
<1>3. ASSUME Log!Begun(l)
      PROVE  Log!Begun(m)
  <2>1. PICK i \in 1 .. Len(l) : l[i] = "run_started"
    BY <1>1, <1>3 DEF Log!Begun
  <2>2. i \in DOMAIN m /\ m[i] = "run_started"
    BY <1>1, <1>2, <2>1
  <2> QED
    BY <2>2 DEF Log!Begun
<1>4. ASSUME e = "run_started"
      PROVE  Log!Begun(m)
  <2>1. Len(l) + 1 \in DOMAIN m /\ m[Len(l) + 1] = "run_started"
    BY <1>1, <1>2, <1>4
  <2> QED
    BY <2>1 DEF Log!Begun
<1> QED
  BY <1>0, <1>3, <1>4

-----------------------------------------------------------------------------
(* Which step writes which event.                                           *)

Writes(p, s, e) ==
  \/ e = "thought" /\ Note(p, s)
  \/ /\ call[p].sid = s
     /\ \/ e = "error" /\ call[p].op = "start" /\ (Create(p) \/ Launch(p)) /\ Return(p)
        \/ e = "run_started" /\ call[p].op = "start" /\ Announce(p)
        \/ e = "reverted" /\ call[p].op = "revert" /\ Announce(p)
        \/ e = "setup_ok" /\ Setup(p) /\ call' = [call EXCEPT ![p].n = @ + 1] /\ UNCHANGED pc
        \/ e = "setup_bad" /\ Setup(p) /\ Goto(p, "verdict") /\ UNCHANGED call
        \/ e = "agent" /\ RecordCommand(p)
        \/ e = "forked" /\ ForkRecord(p)
        \/ /\ e \in {"verify_ok", "verify_bad"} /\ Verify(p) /\ UNCHANGED pc
           /\ call' = [call EXCEPT ![p].n = @ + 1, ![p].ok = @ /\ e = "verify_ok"]
        \/ e = Outcome(p) /\ Verdict(p)

\* A trajectory changes by one event, and Writes says by which.
LEMMA WritesRecord ==
  ASSUME Typed, NEW p \in Servers, Request(p) \/ Step(p) \/ Exit(p),
         NEW s \in Sids, traj'[s] # traj[s]
  PROVE  \E e \in Log!Events :
           /\ Writes(p, s, e)
           /\ traj'[s] = Append(traj[s], e)
           /\ \A r \in Sids : r # s => traj'[r] = traj[r]
           /\ traj' = [traj EXCEPT ![s] = Append(@, e)]
<1>0. traj \in [Sids -> Seq(Log!Events)] /\ {"verify_ok", "verify_bad", "error"} \subseteq Log!Events
  BY EventsOfServer DEF Typed, ServerTypes, Verdicts
<1>1. ASSUME NEW r \in Sids, NEW e \in Log!Events, Record(r, e), Writes(p, r, e)
      PROVE  \E x \in Log!Events :
           /\ Writes(p, s, x)
           /\ traj'[s] = Append(traj[s], x)
           /\ \A t \in Sids : t # s => traj'[t] = traj[t]
           /\ traj' = [traj EXCEPT ![s] = Append(@, x)]
  <2>1. r = s
    BY <1>0, <1>1, RecordType
  <2> QED
    BY <1>0, <1>1, <2>1, RecordType DEF Record
<1>2. ASSUME NEW r \in Sids, Note(p, r)
      PROVE  Record(r, "thought") /\ Writes(p, r, "thought")
  BY <1>2 DEF Note, Writes
<1>3. CASE Create(p) \/ Launch(p) \/ Announce(p) \/ Setup(p) \/ RecordCommand(p)
           \/ ForkRecord(p) \/ Verify(p) \/ Verdict(p)
  <2>1. call[p].sid \in Sids /\ call[p].op \in OpsAt(pc[p])
    BY <1>3, CallFacts DEF Create, Launch, Announce, Setup, RecordCommand, ForkRecord,
       Verify, Verdict, Typed, InStep
  <2>2. UNCHANGED traj \/ \E e \in Log!Events : Record(call[p].sid, e) /\ Writes(p, call[p].sid, e)
    <3>1. CASE Create(p) \/ Launch(p)
      BY <1>0, <2>1, <3>1 DEF Create, Launch, OpsAt, Writes
    <3>2. CASE Announce(p)
      BY <2>1, <3>2, EventsOfServer DEF Announce, OpsAt, Writes
    <3>3. CASE Setup(p)
      BY <2>1, <3>3, EventsOfServer DEF Setup, Writes
    <3>4. CASE RecordCommand(p)
      BY <2>1, <3>4, EventsOfServer DEF RecordCommand, Writes
    <3>5. CASE ForkRecord(p)
      BY <2>1, <3>5, EventsOfServer DEF ForkRecord, Writes
    <3>6. CASE Verify(p)
      <4>1. CASE UNCHANGED traj
        BY <4>1
      <4>2. ASSUME NEW ok \in BOOLEAN, Record(call[p].sid, IF ok THEN "verify_ok" ELSE "verify_bad"),
                   call' = [call EXCEPT ![p].n = @ + 1, ![p].ok = @ /\ ok], UNCHANGED pc
            PROVE  \E e \in Log!Events : Record(call[p].sid, e) /\ Writes(p, call[p].sid, e)
        <5>1. PICK e \in {"verify_ok", "verify_bad"} : e = IF ok THEN "verify_ok" ELSE "verify_bad"
          OBVIOUS
        <5>2. ok = (e = "verify_ok")
          BY <5>1
        <5>3. call' = [call EXCEPT ![p].n = @ + 1, ![p].ok = @ /\ e = "verify_ok"]
          BY <4>2, <5>2
        <5>4. Writes(p, call[p].sid, e)
          BY <3>6, <4>2, <5>3 DEF Writes
        <5> QED
          BY <1>0, <4>2, <5>1, <5>4
      <4> QED
        BY <3>6, <4>1, <4>2 DEF Verify
    <3>7. CASE Verdict(p)
      BY <2>1, <3>7, EventsOfServer DEF Verdict, Writes
    <3> QED
      BY <1>3, <3>1, <3>2, <3>3, <3>4, <3>5, <3>6, <3>7
  <2> QED
    BY <1>1, <2>1, <2>2
<1> QED
  BY <1>1, <1>2, <1>3, Changes, EventsOfServer


-----------------------------------------------------------------------------
(* The counter of the agent's commands.                                     *)

\* Only exec adds a command to a log.
LEMMA CommandsStep ==
  ASSUME Typed, NEW p \in Servers, Request(p) \/ Step(p) \/ Exit(p), NEW s \in Sids
  PROVE  /\ Commands(s)' \in Nat
         /\ IF RecordCommand(p) /\ call[p].sid = s
            THEN Commands(s)' = Commands(s) + 1
            ELSE Commands(s)' = Commands(s)
<1>0. traj[s] \in Seq(Log!Events) /\ traj \in [Sids -> Seq(Log!Events)]
      /\ Commands(s) \in Nat
  BY NumberType DEF Typed, ServerTypes, Commands
<1>1. ASSUME NEW e \in Log!Events, Writes(p, s, e), e # "agent"
      PROVE  ~RecordCommand(p)
  BY <1>1 DEF Writes, RecordCommand, Note, Require, Create, Launch, Announce, Setup,
     ForkRecord, Verify, Verdict
<1>2. ASSUME NEW e \in Log!Events, Writes(p, s, e), e = "agent"
      PROVE  RecordCommand(p) /\ call[p].sid = s
  BY <1>2, EventsOfServer DEF Writes, Verdicts
<1>3. CASE traj'[s] = traj[s]
  <2>1. ~(RecordCommand(p) /\ call[p].sid = s)
    <3>1. ASSUME RecordCommand(p), call[p].sid = s PROVE FALSE
      <4>1. traj'[s] = Append(traj[s], "agent")
        BY <1>0, <3>1 DEF RecordCommand, Record
      <4>2. "agent" \in Log!Events
        BY EventsOfServer
      <4>3. Len(traj'[s]) = Len(traj[s]) + 1 /\ Len(traj[s]) \in Nat
        BY <1>0, <4>1, <4>2, AppendProperties, LenProperties
      <4> QED
        BY <1>3, <4>3
    <3> QED
      BY <3>1
  <2> QED
    BY <1>0, <1>3, <2>1 DEF Commands
<1>4. CASE traj'[s] # traj[s]
  <2>1. PICK e \in Log!Events : Writes(p, s, e) /\ traj'[s] = Append(traj[s], e)
    BY <1>4, WritesRecord
  <2>2. Commands(s)' = IF e \in {"agent"} THEN Commands(s) + 1 ELSE Commands(s)
    BY <1>0, <2>1, NumberAppend DEF Commands
  <2> QED
    BY <1>0, <1>1, <1>2, <2>1, <2>2
<1> QED
  BY <1>3, <1>4

\* A log that is empty was empty before.
LEMMA StillEmpty ==
  ASSUME Typed, NEW p \in Servers, Request(p) \/ Step(p) \/ Exit(p), NEW s \in Sids,
         traj'[s] = <<>>
  PROVE  traj[s] = <<>> /\ ~(RecordCommand(p) /\ call[p].sid = s)
<1>1. traj[s] \in Seq(Log!Events) /\ traj \in [Sids -> Seq(Log!Events)]
  BY DEF Typed, ServerTypes
<1>2. \A e \in Log!Events : Append(traj[s], e) # <<>>
  BY <1>1, AppendProperties
<1>3. traj[s] = <<>>
  BY <1>2, Written
<1>4. RecordCommand(p) /\ call[p].sid = s => traj'[s] = Append(traj[s], "agent")
  BY <1>1 DEF RecordCommand, Record
<1> QED
  BY <1>2, <1>3, <1>4, EventsOfServer

LEMMA CountedNext ==
  ASSUME OneServer, Typed, Typed', Owned, Counted, [Next]_vars
  PROVE  Counted'
<1>1. ASSUME NEW p \in Servers, Request(p) \/ Step(p) \/ Exit(p)
      PROVE  Counted'
  <2>0. /\ count \in [Servers -> [Sids -> Nat]] /\ live \in [Servers -> SUBSET Sids]
        /\ live[p] \subseteq Sids /\ live'[p] \subseteq Sids
    BY DEF Typed, ServerTypes
  <2>1. ASSUME NEW s \in Sids, traj'[s] = <<>>
        PROVE  count'[p][s] = 0
    <3>1. count[p][s] = 0 /\ ~(RecordCommand(p) /\ call[p].sid = s) /\ Commands(s) = 0
      BY <1>1, <2>1, StillEmpty, NumberEmpty DEF Counted, Commands
    <3>2. CASE RecordCommand(p)
      BY <2>0, <3>1, <3>2 DEF RecordCommand
    <3>3. CASE Stopped(p)
      BY <2>0, <3>1, <3>3 DEF Stopped
    <3>4. CASE Attach(p)
      BY <2>0, <3>1, <3>4 DEF Attach, CountCommands
    <3>5. CASE Exit(p)
      BY <2>0, <3>5 DEF Exit, Crash, BootFails, Down
    <3>6. CASE TeardownRaises(p)
      BY <2>0, <3>1, <3>6 DEF TeardownRaises
    <3> QED
      BY <1>1, <3>1, <3>2, <3>3, <3>4, <3>5, <3>6, Changes
  <2>2. ASSUME NEW s \in live'[p], damage'[s] = "none"
        PROVE  count'[p][s] = Commands(s)'
    <3>0. s \in Sids /\ ~Exit(p) /\ damage[s] = "none"
      <4>1. ~Exit(p)
        BY <2>0, <2>2 DEF Exit, Crash, BootFails, Down
      <4> QED
        BY <1>1, <2>0, <2>2, <4>1, Changes
    <3>1. s \in live[p] => count[p][s] = Commands(s)
      BY <3>0 DEF Counted
    <3>2. CASE RecordCommand(p)
      <4>1. s \in live[p]
        BY <3>2, <2>2 DEF RecordCommand
      <4>2. count'[p][s] = IF s = call[p].sid THEN count[p][s] + 1 ELSE count[p][s]
        BY <2>0, <3>0, <3>2 DEF RecordCommand
      <4> QED
        BY <1>1, <3>0, <3>1, <3>2, <4>1, <4>2, CommandsStep
    <3>3. CASE Stopped(p)
      <4>1. s \in live[p] /\ Commands(s)' = Commands(s)
        BY <3>3, <2>2 DEF Stopped, disk, Commands
      <4>2. call[p].sid \notin live[p]
        BY <3>3 DEF Stopped, Typed, InStep, OpsAt, Owned, IsStarting, Fresh
      <4> QED
        BY <2>0, <3>0, <3>1, <3>3, <4>1, <4>2 DEF Stopped
    <3>4. CASE Attach(p)
      <4>1. Commands(s)' = Commands(s)
        BY <3>4 DEF Attach, Commands
      <4>2. \/ s \in live[p] /\ count'[p][s] = count[p][s]
            \/ count'[p][s] = Commands(s)
        BY <2>0, <2>2, <3>0, <3>4 DEF Attach, CountCommands
      <4> QED
        BY <3>1, <4>1, <4>2
    <3>5. CASE TeardownRaises(p)
      <4>1. s \in live[p] /\ Commands(s)' = Commands(s)
        BY <3>5, <2>2 DEF TeardownRaises, disk, Commands
      <4>2. call[p].op # "revert" => call[p].sid \notin live[p]
        BY <3>5 DEF TeardownRaises, Typed, InStep, OpsAt, Owned, IsStarting, Fresh
      <4>3. count'[p][s] = count[p][s]
        BY <2>0, <3>5, <4>1, <4>2 DEF TeardownRaises
      <4> QED
        BY <3>1, <4>1, <4>3
    <3>6. CASE UNCHANGED count /\ ~RecordCommand(p) /\ ~Attach(p)
      <4>1. CASE s \in live[p]
        BY <1>1, <3>0, <3>1, <3>6, <4>1, CommandsStep
      <4>2. CASE SetupDone(p) /\ call[p].sid = s
        <5>1. count[p][s] = Commands(s)
          BY <3>0, <4>2 DEF SetupDone, Counted, Typed, InStep, OpsAt
        <5> QED
          BY <1>1, <3>0, <3>6, <5>1, CommandsStep
      <4> QED
        BY <1>1, <2>2, <3>0, <3>6, <4>1, <4>2, Held
    <3> QED
      BY <1>1, <3>0, <3>2, <3>3, <3>4, <3>5, <3>6, Changes
  <2>3. ASSUME NEW s \in Sids, call'[p].sid = s, call'[p].op # "revert", damage'[s] = "none",
               pc'[p] \in {"create", "launch", "announce", "setup", "verify"}
        PROVE  count'[p][s] = Commands(s)'
    <3>1. \/ \E r \in Sids : StartTask(p, r) \/ Finish(p, r)
          \/ Create(p) \/ Launch(p) \/ Announce(p) \/ Setup(p) \/ Verify(p)
      <4>1. CASE \E r \in Sids, n \in Snaps : Revert(p, r, n)
        BY <2>3, <4>1 DEF Revert, NoCall, Typed, ServerTypes
      <4>2. CASE Remove(p)
        BY <2>3, <4>2 DEF Remove, Goto, Typed, ServerTypes
      <4> QED
        BY <1>1, <2>3, <4>1, <4>2, Leads
    <3>2. UNCHANGED <<count, damage>> /\ ~RecordCommand(p)
      BY <3>1 DEF StartTask, Finish, Create, Launch, Announce, Setup, Verify, RecordCommand,
         memory
    <3>3. Commands(s)' = Commands(s)
      BY <1>1, <3>2, CommandsStep
    <3>4. count[p][s] = Commands(s)
      <4>1. ASSUME NEW r \in Sids, StartTask(p, r)
            PROVE  r = s /\ traj[s] = <<>>
        BY <2>3, <4>1, Entered DEF StartTask, Ops
      <4>2. ASSUME NEW r \in Sids, Finish(p, r)
            PROVE  s \in live[p]
        BY <2>3, <4>2, Entered DEF Finish, Ops
      <4>3. traj[s] = <<>> => count[p][s] = 0 /\ Commands(s) = 0
        BY NumberEmpty DEF Counted, Commands
      <4>4. CASE Create(p) \/ Launch(p) \/ Announce(p) \/ Setup(p) \/ Verify(p)
        <5>1. pc[p] \in {"create", "launch", "announce", "setup", "verify"}
          BY <4>4 DEF Create, Launch, Announce, Setup, Verify
        <5>2. ~Return(p) /\ ~Exit(p)
          BY <2>3, <4>4 DEF Return, Goto, Exit, Crash, BootFails, Down, Typed, ServerTypes
        <5>3. call[p].sid = s /\ call[p].op # "revert"
          BY <1>1, <2>3, <5>1, <5>2, GoesOn
        <5> QED
          BY <2>3, <3>2, <5>1, <5>3 DEF Counted
      <4> QED
        BY <2>3, <3>1, <3>2, <4>1, <4>2, <4>3, <4>4 DEF Counted
    <3> QED
      BY <3>2, <3>3, <3>4
  <2>4. \A q \in Servers : q = p
    BY DEF OneServer
  <2> QED
    BY <2>1, <2>2, <2>3, <2>4 DEF Counted
<1>2. CASE UNCHANGED vars
  BY <1>2 DEF vars, disk, memory, handler, Counted, Commands
<1> QED
  BY <1>1, <1>2 DEF Next

\* Between handlers, and after any number of kills and restarts, the number that
\* tells "no agent activity" from "verify failed" is the number of commands in
\* the trajectory (exec, _count_agent_commands), unless a kill has torn a line of it.
THEOREM OneServerCountAgrees ==
  ASSUME OneServer
  PROVE  Spec => [](Counted /\ CountAgrees)
<1>1. Init => Counted
  <2>1. ASSUME Init, NEW p \in Servers
        PROVE  live[p] = {} /\ pc[p] = "down" /\ \A s \in Sids : count[p][s] = 0
    BY <2>1 DEF Init
  <2> QED
    BY <2>1 DEF Counted
<1>2. Typed /\ Typed' /\ Owned /\ Counted /\ [Next]_vars => Counted'
  BY CountedNext
<1>3. Counted => CountAgrees
  BY DEF Counted, CountAgrees
<1> QED
  BY <1>1, <1>2, <1>3, ServerTyped, ServerOwned, PTL DEF Spec


-----------------------------------------------------------------------------
(* The descriptor.                                                          *)

\* A handler that replaces a container and comes to its end has written the
\* descriptor, or the session has no container or is not in the dict.
LEMMA ChangeEnds ==
  ASSUME Typed, Typed', Owned, NEW p \in Servers, Tied(p), Pinned,
         Request(p) \/ Step(p) \/ Exit(p),
         NEW s \in live'[p], box'[p][s] # None, Changing(p, s), ~Changing(p, s)'
  PROVE  desc'[s] = box'[p][s]
<1>0. /\ s \in Sids /\ live' \in [Servers -> SUBSET Sids]
      /\ desc \in [Sids -> Cids \cup {None, "torn"}]
      /\ call[p].sid = s /\ call[p].op \in {"start", "revert"}
      /\ pc[p] \notin {"down", "idle", "boot", "attach"}
  BY DEF Typed, ServerTypes, InStep, OpsAt, Changing
<1>1. ~Exit(p)
  BY DEF Exit, Crash, BootFails, Down, Typed, ServerTypes
<1>2. Return(p) /\ ~TeardownRaises(p)
  BY <1>0, <1>1, GoesOn, Raising DEF Changing
<1>3. CASE Fill(p)
  <2>1. desc[s] = "torn" /\ "torn" # None
    BY <1>0, <1>3, ConstantsAssumption DEF Fill, Pinned
  <2> QED
    BY <1>0, <1>3, <2>1 DEF Fill, memory
<1>4. CASE ~Fill(p)
  <2>1. /\ ~SetupDone(p) /\ ~Attach(p)
    BY <1>0, <1>2 DEF SetupDone, Attach, Return, Goto, Typed, ServerTypes
  <2>2. s \in live[p]
    BY <1>0, <2>1, Held
  <2>3. pc'[p] = "idle" /\ ~Persist(p)
    BY <1>2 DEF Return, Goto, Typed, ServerTypes, Persist
  <2>4. call[p].op = "revert"
    <3>1. pc[p] \notin {"persist", "fill"}
      <4>1. ASSUME pc[p] \in {"persist", "fill"} PROVE FALSE
        <5>1. ~Request(p)
          BY <4>1 DEF Request, Boot, StartTask, Exec, Note, Fork, Finish, Abort, Revert, Require
        <5>2. ~Step(p)
          BY <1>2, <1>4, <2>3, <4>1 DEF Step, Create, Launch, Announce, Setup, SetupDone,
             RecordCommand, ForkRecord, Verify, Verdict, Stop, Remove, DeleteSnapshot, Stopped,
             Unlink, ReadDescriptor, Attach, Serve
        <5> QED
          BY <1>1, <5>1, <5>2
      <4> QED
        BY <4>1
    <3>2. ~IsStarting(p)
      BY <1>0, <2>2 DEF Owned, Fresh
    <3> QED
      BY <1>0, <3>1, <3>2 DEF IsStarting
  <2>5. Create(p) \/ Launch(p)
    <3>1. ~Request(p)
      BY <1>0 DEF Request, Boot, StartTask, Exec, Note, Fork, Finish, Abort, Revert, Require
    <3>2. pc[p] \in {"create", "launch", "announce", "persist", "fill", "stop", "remove"}
      BY <1>0, <2>4 DEF Typed, InStep, OpsAt, ServerTypes, Steps
    <3>3. ~Announce(p) /\ ~Stop(p) /\ ~Remove(p)
      BY <2>3 DEF Announce, Stop, Remove, Goto, Typed, ServerTypes
    <3> QED
      BY <1>1, <1>2, <1>4, <2>3, <3>1, <3>2, <3>3 DEF Step, Setup, SetupDone, RecordCommand,
         ForkRecord, Verify, Verdict, DeleteSnapshot, Stopped, Unlink, ReadDescriptor,
         Attach, Serve
  <2>6. box[p][s] = None /\ UNCHANGED box
    <3>1. pc'[p] # "announce"
      BY <2>3
    <3>2. UNCHANGED box
      BY <2>5, <3>1 DEF Create, Launch, Goto, Typed, ServerTypes
    <3> QED
      BY <1>0, <2>4, <2>5, <3>2 DEF Create, Launch, Tied
  <2> QED
    BY <2>6
<1> QED
  BY <1>3, <1>4

\* Other handlers leave the container and the descriptor of a live session alone.
LEMMA NoChange ==
  ASSUME Typed, Typed', Owned, NEW p \in Servers, Tied(p), Request(p) \/ Step(p) \/ Exit(p),
         NEW s \in live'[p], s \in live[p], ~Changing(p, s), ~Changing(p, s)'
  PROVE  desc'[s] = desc[s] /\ box'[p][s] = box[p][s]
<1>0. /\ s \in Sids /\ live \in [Servers -> SUBSET Sids]
      /\ desc \in [Sids -> Cids \cup {None, "torn"}]
      /\ box \in [Servers -> [Sids -> Cids \cup {None}]]
      /\ call[p].op \in OpsAt(pc[p])
      /\ call \in [Servers -> Calls] /\ call[p] \in Calls
  BY DEF Typed, ServerTypes, InStep
<1>1. ~Exit(p)
  BY DEF Exit, Crash, BootFails, Down, Typed, ServerTypes
<1>2. pc[p] \in {"launch", "setup", "persist", "fill", "stop", "remove", "images", "unlink", "attach"}
        => call[p].sid # s
  BY <1>0 DEF OpsAt, Changing, Owned, Tied
<1>3. box'[p][s] = box[p][s]
  <2>1. ASSUME NEW r \in Sids, NEW n \in Snaps, Revert(p, r, n)
        PROVE  box'[p][s] = box[p][s]
    <3>1. call'[p].sid = r /\ call'[p].op = "revert"
      BY <1>0, <2>1 DEF Revert, NoCall
    <3> QED
      BY <1>0, <2>1, <3>1 DEF Revert, Changing
  <2>2. CASE Launch(p) \/ Setup(p) \/ Stop(p) \/ Attach(p)
    BY <1>0, <1>2, <2>2 DEF Launch, Setup, Stop, Attach
  <2>3. CASE TeardownRaises(p)
    BY <1>0, <1>2, <2>3, Raising
  <2> QED
    BY <1>1, <2>1, <2>2, <2>3, Changes
<1>4. desc'[s] = desc[s]
  <2>1. CASE Persist(p) \/ Fill(p) \/ Unlink(p) \/ Attach(p)
    BY <1>0, <1>2, <2>1 DEF Persist, Fill, Unlink, Attach
  <2>2. CASE ReadDescriptor(p)
    <3>1. s \notin call[p].todo
      BY <2>2 DEF ReadDescriptor, Tied
    <3> QED
      BY <1>0, <2>2, <3>1 DEF ReadDescriptor
  <2> QED
    BY <2>1, <2>2, Changes
<1> QED
  BY <1>3, <1>4

LEMMA PinnedNext ==
  ASSUME OneServer, Typed, Typed', Owned, \A p \in Servers : Tied(p), Pinned, [Next]_vars
  PROVE  Pinned'
<1>1. ASSUME NEW p \in Servers, Request(p) \/ Step(p) \/ Exit(p)
      PROVE  Pinned'
  <2>0. Tied(p) /\ desc \in [Sids -> Cids \cup {None, "torn"}] /\ call \in [Servers -> Calls]
        /\ call[p] \in Calls /\ live'[p] \subseteq Sids
        /\ box \in [Servers -> [Sids -> Cids \cup {None}]]
    BY DEF Typed, ServerTypes
  <2>1. ASSUME NEW s \in live'[p], box'[p][s] # None, ~Changing(p, s)'
        PROVE  desc'[s] = box'[p][s]
    <3>1. CASE Changing(p, s)
      BY <1>1, <2>0, <2>1, <3>1, ChangeEnds
    <3>2. CASE ~Changing(p, s) /\ s \in live[p]
      BY <1>1, <2>0, <2>1, <3>2, NoChange DEF Pinned
    <3>3. CASE ~Changing(p, s) /\ s \notin live[p]
      <4>1. Attach(p) /\ call[p].sid = s
        BY <1>1, <2>0, <2>1, <3>3, Held DEF SetupDone, Changing, Typed, InStep, OpsAt
      <4>2. UNCHANGED desc /\ box'[p][s] = call[p].cid
        BY <2>0, <2>1, <3>3, <4>1 DEF Attach
      <4> QED
        BY <4>1, <4>2 DEF Attach, Pinned
    <3> QED
      BY <3>1, <3>2, <3>3
  <2>2. ASSUME pc'[p] = "attach"
        PROVE  desc'[call'[p].sid] = call'[p].cid
    <3>1. ReadDescriptor(p)
      BY <1>1, <2>2, Leads
    <3>2. pc'[p] # pc[p]
      BY <2>2, <3>1 DEF ReadDescriptor
    <3>3. PICK s \in call[p].todo :
            /\ call' = [call EXCEPT ![p].todo = @ \ {s}, ![p].sid = s, ![p].cid = desc[s]]
            /\ UNCHANGED desc
      BY <3>1, <3>2 DEF ReadDescriptor
    <3>4. call'[p].sid = s /\ call'[p].cid = desc[s]
      BY <2>0, <3>3 DEF Calls
    <3> QED
      BY <3>3, <3>4
  <2>3. ASSUME pc'[p] = "fill"
        PROVE  desc'[call'[p].sid] = "torn"
    <3>1. Persist(p)
      BY <1>1, <2>3, Leads
    <3>2. call[p].sid \in Sids
      BY <3>1, CallFacts DEF Persist
    <3> QED
      BY <2>0, <3>1, <3>2 DEF Persist
  <2>4. \A q \in Servers : q = p
    BY DEF OneServer
  <2> QED
    BY <2>1, <2>2, <2>3, <2>4 DEF Pinned
<1>2. CASE UNCHANGED vars
  BY <1>2 DEF vars, disk, memory, handler, Pinned, Changing
<1> QED
  BY <1>1, <1>2 DEF Next

\* Between handlers, the descriptor pins the container the session works in, so
\* that a restart attaches to the current workspace and not to one that a revert
\* replaced (_persist_session in start_task and in revert).
THEOREM OneServerPinnedIsCurrent ==
  ASSUME OneServer
  PROVE  Spec => []PinnedIsCurrent
<1>1. Init => Pinned
  <2>1. ASSUME Init, NEW p \in Servers
        PROVE  live[p] = {} /\ pc[p] = "down"
    BY <2>1 DEF Init
  <2> QED
    BY <2>1 DEF Pinned
<1>2. Typed /\ Typed' /\ Owned /\ Leakless /\ Pinned /\ [Next]_vars => Pinned'
  BY PinnedNext DEF Leakless
<1>3. Typed /\ Pinned => PinnedIsCurrent
  BY DEF Pinned, PinnedIsCurrent, Changing, Idle, Typed, InStep, OpsAt
<1> QED
  BY <1>1, <1>2, <1>3, ServerTyped, ServerOwned, ServerLeakless, PTL DEF Spec


-----------------------------------------------------------------------------
(* The container.                                                           *)

\* A sandbox comes into use when its container was launched or attached to.
LEMMA UsedBefore ==
  ASSUME Typed, Typed', NEW p \in Servers, Request(p) \/ Step(p) \/ Exit(p),
         ~Launch(p), ~Attach(p), NEW s \in Sids, InUse(p, s)'
  PROVE  InUse(p, s)
<1>1. CASE s \in live'[p]
  BY <1>1, Held DEF SetupDone, InUse, Changing, Typed, InStep, OpsAt
<1>2. CASE Changing(p, s)' /\ pc'[p] \in {"announce", "setup"}
  <2>1. Announce(p) \/ Setup(p)
    BY <1>2, Leads
  <2>2. ~Return(p) /\ ~Exit(p)
    BY <1>2 DEF Return, Goto, Exit, Crash, BootFails, Down, Typed, ServerTypes
  <2>3. pc[p] \in {"announce", "setup"}
    BY <2>1 DEF Announce, Setup
  <2>4. call'[p].sid = call[p].sid /\ call'[p].op = call[p].op
    BY <2>2, <2>3, GoesOn
  <2> QED
    BY <1>2, <2>3, <2>4 DEF Changing, InUse
<1> QED
  BY <1>1, <1>2 DEF InUse

\* A sandbox in use keeps a container that exists.
LEMMA BackedStep ==
  ASSUME Typed, Typed', Owned, Apart, Backed, NEW p \in Servers, Tied(p),
         Request(p) \/ Step(p) \/ Exit(p),
         NEW s \in Sids, InUse(p, s)', box'[p][s] # None
  PROVE  cont'[box'[p][s]] # "removed"
<1>0. /\ cont \in [Cids -> {"unused", "created", "running", "exited", "removed"}]
      /\ box \in [Servers -> [Sids -> Cids \cup {None}]]
      /\ box' \in [Servers -> [Sids -> Cids \cup {None}]]
      /\ live \in [Servers -> SUBSET Sids]
  BY DEF Typed, ServerTypes
<1>1. PICK c \in Cids : c = box'[p][s]
  BY <1>0
<1>2. box[p][s] = c => /\ cont[c] # "unused"
                       /\ \A r \in Sids : Holds(r, c) => r = s
  BY DEF Apart, Holds
<1>3. CASE Launch(p)
  <2>1. call[p].sid \in Sids /\ call[p].cid \in Cids
    BY <1>3, CallFacts DEF Launch
  <2>2. CASE ~Return(p)
    <3>1. cont' = [cont EXCEPT ![call[p].cid] = "running"]
          /\ box' = [box EXCEPT ![p][call[p].sid] = call[p].cid] /\ UNCHANGED live
          /\ UNCHANGED call
      BY <1>3, <2>2 DEF Launch
    <3>2. CASE call[p].sid = s
      BY <1>0, <1>1, <2>1, <3>1, <3>2
    <3>3. CASE call[p].sid # s
      <4>1. box[p][s] = c
        BY <1>0, <1>1, <2>1, <3>1, <3>3
      <4>2. s \in live[p]
        <5>1. s \in live'[p] /\ live' = live
          BY <3>1, <3>3 DEF InUse, Changing
        <5> QED
          BY <5>1
      <4>3. cont[c] # "removed"
        BY <4>1, <4>2, <1>1, <1>0, ConstantsAssumption DEF Backed, InUse
      <4> QED
        BY <1>0, <1>1, <2>1, <3>1, <4>3
    <3> QED
      BY <3>2, <3>3
  <2>3. CASE Return(p)
    <3>1. pc'[p] = "idle" /\ pc[p] = "launch" /\ call[p].op \in {"start", "revert"}
      <4>1. pc[p] = "launch"
        BY <1>3 DEF Launch
      <4>2. pc'[p] = "idle"
        BY <2>3 DEF Return, Goto, Typed, ServerTypes
      <4>3. call[p].op \in {"start", "revert"}
        BY <4>1 DEF Typed, InStep, OpsAt
      <4> QED
        BY <4>1, <4>2, <4>3
    <3>2. UNCHANGED box /\ UNCHANGED live
      BY <1>3, <3>1 DEF Launch, Goto, Typed, ServerTypes
    <3>3. s \in live[p]
      BY <3>1, <3>2 DEF InUse
    <3>4. box[p][s] = c /\ cont[c] # "removed"
      BY <1>1, <3>2, <3>3, <1>0, ConstantsAssumption DEF Backed, InUse
    <3>5. call[p].sid # s
      BY <1>1, <3>1, <3>2, <3>3, <1>0, ConstantsAssumption
         DEF Tied, Owned, IsStarting, Fresh
    <3>6. ~Holds(call[p].sid, c)
      BY <1>2, <2>1, <3>4, <3>5
    <3> QED
      BY <1>1, <1>2, <3>4, <3>6, Touches
  <2> QED
    BY <2>2, <2>3
<1>4. CASE Attach(p)
  <2>1. CASE s \in live[p] /\ call[p].sid # s
    <3>1. box[p][s] = c /\ UNCHANGED cont
      BY <1>0, <1>1, <1>4, <2>1 DEF Attach, docker
    <3> QED
      BY <1>1, <2>1, <3>1 DEF Backed, InUse
  <2>2. CASE call[p].sid = s
    <3>1. s \notin live[p] /\ pc'[p] = "boot"
      BY <1>4, <2>2 DEF Attach, Tied, Goto, Typed, ServerTypes
    <3>2. s \in live'[p]
      BY <3>1 DEF InUse
    <3>3. cont[call[p].cid] # "removed" /\ box' = [box EXCEPT ![p][s] = call[p].cid]
          /\ UNCHANGED cont
      BY <1>4, <2>2, <3>1, <3>2 DEF Attach, docker
    <3> QED
      BY <1>0, <3>3
  <2>3. s \in live'[p]
    BY <1>4 DEF Attach, Goto, InUse, Typed, ServerTypes
  <2> QED
    BY <1>4, <2>1, <2>2, <2>3, Held DEF Attach, SetupDone
<1>5. CASE ~Launch(p) /\ ~Attach(p)
  <2>1. InUse(p, s)
    BY <1>5, UsedBefore
  <2>2. box[p][s] = c
    <3>1. ASSUME NEW r \in Sids, NEW n \in Snaps, Revert(p, r, n)
          PROVE  box[p][s] = c
      BY <1>0, <1>1, <3>1, ConstantsAssumption DEF Revert
    <3>2. CASE Setup(p) \/ Stop(p) \/ Exit(p)
      <4>1. box'[p][s] \in {None, box[p][s]}
        BY <1>0, <3>2 DEF Setup, Stop, Exit, Crash, BootFails, Down
      <4> QED
        BY <1>1, <4>1
    <3>3. CASE TeardownRaises(p)
      BY <1>1, <3>3, Raising
    <3> QED
      BY <1>1, <1>5, <3>1, <3>2, <3>3, Changes
  <2>3. cont[c] # "removed"
    BY <1>1, <2>1, <2>2 DEF Backed
  <2>4. CASE call[p].sid # s
    BY <1>1, <1>2, <2>2, <2>3, <2>4, Touches
  <2>5. CASE call[p].sid = s
    <3>1. CASE Create(p)
      BY <1>0, <1>1, <1>2, <2>2, <2>3, <3>1 DEF Create
    <3>2. CASE Stop(p)
      BY <1>0, <2>5, <3>2 DEF Stop
    <3>3. ~Remove(p)
      <4>1. ASSUME Remove(p) PROVE FALSE
        <5>1. pc'[p] \notin {"announce", "setup"} /\ UNCHANGED live
          BY <4>1 DEF Remove, Goto, memory, Typed, ServerTypes
        <5>2. s \in live[p]
          BY <5>1 DEF InUse
        <5>3. call[p].op = "revert"
          BY <2>5, <4>1, <5>2 DEF Remove, Typed, InStep, OpsAt, Owned, IsStarting, Fresh
        <5> QED
          BY <1>1, <2>2, <2>5, <4>1, <5>3 DEF Remove, Tied
      <4> QED
        BY <4>1
    <3>4. ~TeardownRaises(p)
      BY <2>5, Raising
    <3> QED
      BY <1>1, <1>5, <2>3, <3>1, <3>2, <3>3, <3>4, Changes
  <2> QED
    BY <2>4, <2>5
<1> QED
  BY <1>3, <1>4, <1>5

LEMMA BackedNext ==
  ASSUME OneServer, Typed, Typed', Owned, Apart, Leakless, Backed, [Next]_vars
  PROVE  Backed'
<1>1. ASSUME NEW p \in Servers, Request(p) \/ Step(p) \/ Exit(p)
      PROVE  Backed'
  <2>1. Tied(p) /\ \A q \in Servers : q = p
    BY DEF Leakless, OneServer
  <2> QED
    BY <1>1, <2>1, BackedStep DEF Backed
<1>2. CASE UNCHANGED vars
  BY <1>2 DEF vars, docker, memory, handler, Backed, InUse, Changing
<1> QED
  BY <1>1, <1>2 DEF Next

\* A live session never works in a container that was removed (Sandbox.revert
\* forgets the old one first, stop() too), nor in one that was never created.
THEOREM OneServerBoxExists ==
  ASSUME OneServer
  PROVE  Spec => []BoxExists
<1>1. Init => Backed
  <2>1. ASSUME Init, NEW p \in Servers
        PROVE  live[p] = {} /\ pc[p] = "down"
    BY <2>1 DEF Init
  <2> QED
    BY <2>1 DEF Backed, InUse
<1>2. Typed /\ Typed' /\ Owned /\ Apart /\ Leakless /\ Backed /\ [Next]_vars => Backed'
  BY BackedNext
<1>3. Typed /\ Apart /\ Backed => BoxExists
  <2> SUFFICES ASSUME Typed, Apart, Backed, NEW p \in Servers, NEW s \in live[p],
                      box[p][s] # None
               PROVE  cont[box[p][s]] \notin {"unused", "removed"}
    BY DEF BoxExists
  <2>1. s \in Sids /\ box[p][s] \in Cids \cup {None}
    BY DEF Typed, ServerTypes
  <2>2. cont[box[p][s]] # "unused"
    BY <2>1 DEF Apart, Holds
  <2> QED
    BY <2>1, <2>2 DEF Backed, InUse
<1> QED
  BY <1>1, <1>2, <1>3, ServerTyped, ServerOwned, ServerApart, ServerLeakless, PTL DEF Spec


-----------------------------------------------------------------------------
(* The verdict "passed".                                                    *)

LEMMA LastOkAppend ==
  ASSUME NEW l \in Seq(Log!Events), NEW n \in Nat, "verify_ok" \in Log!Events
  PROVE  /\ LastOk(l, 0)
         /\ LastOk(l, n) => LastOk(Append(l, "verify_ok"), n + 1)
<1>0. PICK m : m = Append(l, "verify_ok")
  OBVIOUS
<1>1. /\ Len(l) \in Nat /\ Len(m) = Len(l) + 1
      /\ \A i \in 1 .. Len(l) : m[i] = l[i]
      /\ m[Len(l) + 1] = "verify_ok"
  BY <1>0, AppendProperties, LenProperties
<1>2. LastOk(l, 0)
  BY <1>1 DEF LastOk
<1>3. ASSUME LastOk(l, n)
      PROVE  LastOk(m, n + 1)
  <2>1. ASSUME NEW j \in Len(l) + 1 - (n + 1) + 1 .. Len(l) + 1
        PROVE  m[j] = "verify_ok"
    <3>1. CASE j = Len(l) + 1
      BY <1>1, <3>1
    <3>2. CASE j # Len(l) + 1
      <4>1. j \in Len(l) - n + 1 .. Len(l) /\ j \in 1 .. Len(l)
        BY <1>1, <1>3, <3>2 DEF LastOk
      <4> QED
        BY <1>1, <1>3, <4>1 DEF LastOk
    <3> QED
      BY <3>1, <3>2
  <2> QED
    BY <1>1, <1>3, <2>1 DEF LastOk
<1> QED
  BY <1>0, <1>2, <1>3

\* A "passed" after enough good verify commands is earned, and what is earned stays so.
LEMMA EarnedAppend ==
  ASSUME NEW l \in Seq(Log!Events), NEW e \in Log!Events, Earned(l),
         e = "passed" => LastOk(l, NVerify)
  PROVE  Earned(Append(l, e))
<1>0. PICK m : m = Append(l, e)
  OBVIOUS
<1>1. /\ Len(l) \in Nat /\ DOMAIN l = 1 .. Len(l) /\ DOMAIN m = 1 .. Len(l) + 1
      /\ \A i \in 1 .. Len(l) : m[i] = l[i]
      /\ m[Len(l) + 1] = e
      /\ NVerify \in Nat
  BY <1>0, AppendProperties, LenProperties, ConstantsAssumption
<1>2. ASSUME NEW i \in 1 .. Len(l), m[i] = "passed"
      PROVE  i > NVerify /\ \A j \in i - NVerify .. i - 1 : m[j] = "verify_ok"
  <2>1. i > NVerify /\ \A j \in i - NVerify .. i - 1 : l[j] = "verify_ok"
    BY <1>1, <1>2 DEF Earned
  <2>2. \A j \in i - NVerify .. i - 1 : j \in 1 .. Len(l)
    BY <1>1, <2>1
  <2> QED
    BY <1>1, <2>1, <2>2
<1>3. ASSUME e = "passed"
      PROVE  /\ Len(l) + 1 > NVerify
             /\ \A j \in Len(l) + 1 - NVerify .. Len(l) : m[j] = "verify_ok"
  <2>1. NVerify <= Len(l) /\ \A j \in Len(l) - NVerify + 1 .. Len(l) : l[j] = "verify_ok"
    BY <1>3 DEF LastOk
  <2>2. \A j \in Len(l) + 1 - NVerify .. Len(l) : j \in 1 .. Len(l) /\ j \in Len(l) - NVerify + 1 .. Len(l)
    BY <1>1, <2>1
  <2> QED
    BY <1>1, <2>1, <2>2
<1>4. ASSUME NEW i \in DOMAIN m, m[i] = "passed"
      PROVE  i > NVerify /\ \A j \in i - NVerify .. i - 1 : m[j] = "verify_ok"
  <2>1. CASE i \in 1 .. Len(l)
    BY <1>2, <1>4, <2>1
  <2>2. CASE i = Len(l) + 1
    <3>1. e = "passed" /\ i - NVerify = Len(l) + 1 - NVerify /\ i - 1 = Len(l)
      BY <1>1, <1>4, <2>2
    <3> QED
      BY <1>3, <2>2, <3>1
  <2> QED
    BY <1>1, <2>1, <2>2
<1> QED
  BY <1>0, <1>4 DEF Earned

\* Only finish_task writes "passed", when the verify commands are through, all well.
LEMMA Passes ==
  ASSUME Typed, NEW p \in Servers, NEW s \in Sids, Writes(p, s, "passed")
  PROVE  /\ Verdict(p) /\ call[p].sid = s
         /\ pc[p] = "verify" /\ call[p].ok /\ call[p].n = NVerify
<1>1. Verdict(p) /\ call[p].sid = s /\ Outcome(p) = "passed"
  BY DEF Writes
<1>2. call[p].op = "finish" /\ call[p].ok
  BY <1>1 DEF Outcome
<1>3. pc[p] # "verdict"
  BY <1>2 DEF Typed, InStep, OpsAt
<1> QED
  BY <1>1, <1>2, <1>3 DEF Verdict

LEMMA VerifiedNext ==
  ASSUME OneServer, Typed, Typed', Verified, [Next]_vars
  PROVE  Verified'
<1>1. ASSUME NEW p \in Servers, Request(p) \/ Step(p) \/ Exit(p)
      PROVE  Verified'
  <2>0. /\ traj \in [Sids -> Seq(Log!Events)] /\ call \in [Servers -> Calls]
        /\ call[p] \in Calls
        /\ {"verify_ok", "verify_bad"} \subseteq Log!Events
    BY EventsOfServer DEF Typed, ServerTypes
  <2>1. ASSUME NEW s \in Sids
        PROVE  Earned(traj'[s])
    <3>1. CASE traj'[s] = traj[s]
      BY <3>1 DEF Verified
    <3>2. CASE traj'[s] # traj[s]
      <4>1. PICK e \in Log!Events : Writes(p, s, e) /\ traj'[s] = Append(traj[s], e)
        BY <1>1, <3>2, WritesRecord
      <4>2. e = "passed" => LastOk(traj[s], NVerify)
        BY <4>1, Passes DEF Verified
      <4>3. Earned(traj[s]) /\ traj[s] \in Seq(Log!Events)
        BY <2>0 DEF Verified
      <4> QED
        BY <4>1, <4>2, <4>3, EarnedAppend
    <3> QED
      BY <3>1, <3>2
  <2>2. ASSUME pc'[p] = "verify", call'[p].ok
        PROVE  LastOk(traj'[call'[p].sid], call'[p].n)
    <3>1. ASSUME NEW s \in Sids, Finish(p, s)
          PROVE  LastOk(traj'[call'[p].sid], call'[p].n)
      <4>1. call'[p].sid = s /\ call'[p].n = 0
        BY <3>1, Entered DEF Finish, Ops
      <4>2. traj'[s] \in Seq(Log!Events)
        BY <2>0, <3>1 DEF Finish, disk
      <4> QED
        BY <2>0, <4>1, <4>2, LastOkAppend
    <3>2. CASE Verify(p)
      <4>0. PICK s \in Sids : s = call[p].sid
        BY <3>2, CallFacts DEF Verify
      <4>1. PICK ok \in BOOLEAN :
              /\ Record(s, IF ok THEN "verify_ok" ELSE "verify_bad")
              /\ call' = [call EXCEPT ![p].n = @ + 1, ![p].ok = @ /\ ok]
        <5>1. pc \in [Servers -> Steps]
          BY DEF Typed, ServerTypes
        <5>2. ~Goto(p, "stop")
          BY <2>2, <5>1 DEF Goto
        <5> QED
          BY <3>2, <4>0, <5>2 DEF Verify
      <4>2. /\ call'[p].sid = s /\ call'[p].n = call[p].n + 1
            /\ call'[p].ok = (call[p].ok /\ ok)
        BY <2>0, <4>0, <4>1 DEF Calls
      <4>3. ok /\ call[p].ok
        BY <2>2, <4>2
      <4>4. traj'[s] = Append(traj[s], "verify_ok")
        BY <2>0, <4>1, <4>3 DEF Record
      <4>5. LastOk(traj[s], call[p].n) /\ call[p].n \in Nat /\ traj[s] \in Seq(Log!Events)
        BY <2>0, <3>2, <4>0, <4>3 DEF Verify, Verified, Calls
      <4> QED
        BY <2>0, <4>2, <4>4, <4>5, LastOkAppend
    <3> QED
      BY <1>1, <2>2, <3>1, <3>2, Leads
  <2>3. \A q \in Servers : q = p
    BY DEF OneServer
  <2> QED
    BY <2>1, <2>2, <2>3 DEF Verified
<1>2. CASE UNCHANGED vars
  BY <1>2 DEF vars, disk, handler, Verified
<1> QED
  BY <1>1, <1>2 DEF Next

\* "passed" is earned: right before it stand NVerify verify commands, all ok,
\* whatever was interrupted and verified before (finish_task).
THEOREM OneServerVerdictEarned ==
  ASSUME OneServer
  PROVE  Spec => []VerdictEarned
<1>1. Init => Verified
  <2> SUFFICES ASSUME Init PROVE Verified
    OBVIOUS
  <2>1. \A s \in Sids : traj[s] = <<>>
    BY DEF Init
  <2>2. DOMAIN <<>> = {}
    OBVIOUS
  <2>3. \A p \in Servers : pc[p] = "down"
    BY DEF Init
  <2> QED
    BY <2>1, <2>2, <2>3 DEF Verified, Earned
<1>2. Typed /\ Typed' /\ Verified /\ [Next]_vars => Verified'
  BY VerifiedNext
<1>3. Verified => VerdictEarned
  BY DEF Verified, Earned, VerdictEarned
<1> QED
  BY <1>1, <1>2, <1>3, ServerTyped, PTL DEF Spec


-----------------------------------------------------------------------------
(* The verdicts.                                                            *)

Judgements(s) == Log!Number(traj[s], Verdicts)

\* The handler of server p is going to judge the session s.
Judging(p, s) ==
  /\ call[p].sid = s /\ call[p].op # "revert"
  /\ pc[p] \in {"create", "launch", "announce", "setup", "verify", "verdict"}

\* Server p may yet come to judge the session s.
ToJudge(p, s) == pc[p] \in {"down", "boot", "attach"} \/ s \in live[p] \/ Judging(p, s)

\* A session that is yet to be judged has no verdict for the present life of the server.
Judged ==
  \A s \in Sids :
    /\ Judgements(s) <= 1 + crashes
    /\ \A p \in Servers : ToJudge(p, s) => Judgements(s) <= crashes

\* Which step writes a verdict; it leaves nobody who could write another.
LEMMA VerdictIsLast ==
  ASSUME Typed, Typed', Owned, NEW p \in Servers, Request(p) \/ Step(p) \/ Exit(p),
         NEW s \in Sids
  PROVE  /\ Judgements(s) \in Nat
         /\ \/ Judgements(s)' = Judgements(s)
            \/ /\ Judgements(s)' = Judgements(s) + 1
               /\ ~Exit(p) /\ Judging(p, s) /\ ~ToJudge(p, s)'
<1>0. traj[s] \in Seq(Log!Events) /\ Judgements(s) \in Nat /\ live \in [Servers -> SUBSET Sids]
  BY NumberType DEF Typed, ServerTypes, Judgements
<1>1. CASE traj'[s] = traj[s]
  BY <1>0, <1>1 DEF Judgements
<1>2. CASE traj'[s] # traj[s]
  <2>1. PICK e \in Log!Events : Writes(p, s, e) /\ traj'[s] = Append(traj[s], e)
    BY <1>2, WritesRecord
  <2>2. Judgements(s)' = IF e \in Verdicts THEN Judgements(s) + 1 ELSE Judgements(s)
    BY <1>0, <2>1, NumberAppend DEF Judgements
  <2>3. ASSUME e \in Verdicts
        PROVE  ~Exit(p) /\ Judging(p, s) /\ ~ToJudge(p, s)'
    <3>1. \/ call[p].op = "start" /\ (Create(p) \/ Launch(p)) /\ Return(p)
          \/ Verdict(p)
      BY <2>1, <2>3 DEF Writes, Verdicts
    <3>2. call[p].sid = s
      BY <2>1, <2>3 DEF Writes, Verdicts
    <3>3. call[p].op \in OpsAt(pc[p]) /\ pc \in [Servers -> Steps] /\ call \in [Servers -> Calls]
      BY DEF Typed, ServerTypes, InStep
    <3>4. s \notin live[p] /\ live' = live
      <4>1. CASE Verdict(p)
        BY <3>2, <3>3, <4>1 DEF Verdict, OpsAt, Owned, Fresh, IsStarting, memory
      <4>2. CASE call[p].op = "start" /\ (Create(p) \/ Launch(p))
        BY <3>2, <4>2 DEF Create, Launch, Owned, Fresh, IsStarting
      <4> QED
        BY <3>1, <4>1, <4>2
    <3>5. pc'[p] \in {"idle", "stop"}
      BY <3>1, <3>3 DEF Return, Verdict, Goto
    <3>6. Judging(p, s)
      BY <3>1, <3>2, <3>3 DEF Verdict, Create, Launch, OpsAt, Judging
    <3>7. ~Exit(p)
      BY <3>3, <3>5 DEF Exit, Crash, BootFails, Down, Goto
    <3> QED
      BY <3>4, <3>5, <3>6, <3>7 DEF ToJudge, Judging
  <2> QED
    BY <1>0, <2>2, <2>3
<1> QED
  BY <1>1, <1>2

\* How server p comes to judge a session.
LEMMA ComesToJudge ==
  ASSUME Typed, Typed', NEW p \in Servers, Request(p) \/ Step(p) \/ Exit(p),
         NEW s \in Sids, ToJudge(p, s)'
  PROVE  ToJudge(p, s) \/ StartTask(p, s) \/ Exit(p)
<1>0. /\ pc \in [Servers -> Steps] /\ call \in [Servers -> Calls]
      /\ call[p].op \in OpsAt(pc[p])
  BY DEF Typed, ServerTypes, InStep
<1>1. CASE pc'[p] \in {"down", "boot", "attach"}
  BY <1>1, Leads DEF Boot, ReadDescriptor, Attach, ToJudge
<1>2. CASE s \in live'[p]
  <2>1. ASSUME SetupDone(p), call[p].sid = s
        PROVE  Judging(p, s)
    BY <1>0, <2>1 DEF SetupDone, OpsAt, Judging
  <2> QED
    BY <1>2, <2>1, Held DEF Attach, ToJudge
<1>3. CASE Judging(p, s)'
  <2>1. call'[p].sid = s /\ call'[p].op # "revert"
        /\ pc'[p] \in {"create", "launch", "announce", "setup", "verify", "verdict"}
    BY <1>3 DEF Judging
  <2>2. ASSUME NEW r \in Sids, StartTask(p, r) PROVE StartTask(p, s)
    <3>1. Enter(p, "start", r, "create") /\ "start" \in Ops
      BY <2>2 DEF StartTask, Ops
    <3>2. call'[p].sid = r
      BY <3>1, Entered
    <3> QED
      BY <2>1, <2>2, <3>2
  <2>3. ASSUME NEW r \in Sids, Finish(p, r) \/ Abort(p, r) PROVE s \in live[p]
    <3>1. \E op \in Ops, step \in Steps : Enter(p, op, r, step)
      BY <2>3 DEF Finish, Abort, Ops, Steps
    <3>2. call'[p].sid = r
      BY <3>1, Entered
    <3> QED
      BY <2>1, <2>3, <3>2 DEF Finish, Abort
  <2>4. ASSUME NEW r \in Sids, NEW n \in Snaps, Revert(p, r, n) PROVE FALSE
    BY <1>0, <2>1, <2>4 DEF Revert, NoCall
  <2>5. ~(Remove(p) /\ pc'[p] = "create")
    BY <1>0, <2>1 DEF Remove, Goto
  <2>6. CASE Create(p) \/ Launch(p) \/ Announce(p) \/ Setup(p) \/ Verify(p)
    <3>1. pc[p] \in {"create", "launch", "announce", "setup", "verify"}
      BY <2>6 DEF Create, Launch, Announce, Setup, Verify
    <3>2. ~Return(p) /\ ~Exit(p)
      BY <1>0, <2>1 DEF Return, Exit, Crash, BootFails, Down, Goto
    <3>3. call[p].sid = s /\ call[p].op # "revert"
      BY <2>1, <3>1, <3>2, GoesOn
    <3> QED
      BY <3>1, <3>3 DEF Judging, ToJudge
  <2> QED
    BY <2>1, <2>2, <2>3, <2>4, <2>5, <2>6, Leads DEF ToJudge
<1> QED
  BY <1>1, <1>2, <1>3 DEF ToJudge

LEMMA JudgedNext ==
  ASSUME OneServer, Typed, Typed', Owned, Judged, [Next]_vars
  PROVE  Judged'
<1>1. ASSUME NEW p \in Servers, Request(p) \/ Step(p) \/ Exit(p), NEW s \in Sids
      PROVE  /\ Judgements(s)' <= 1 + crashes'
             /\ \A q \in Servers : ToJudge(q, s)' => Judgements(s)' <= crashes'
  <2>0. crashes \in Nat /\ Judgements(s) \in Nat /\ Judgements(s) <= 1 + crashes
    BY <1>1, VerdictIsLast DEF Typed, ServerTypes, Judged
  <2>1. ToJudge(p, s) => Judgements(s) <= crashes
    BY DEF Judged
  <2>2. \A q \in Servers : q = p
    BY DEF OneServer
  <2>3. CASE Exit(p)
    <3>0. Judgements(s)' = Judgements(s)
      BY <2>3 DEF Exit, Crash, BootFails, Judgements, disk
    <3>1. CASE Crash(p)
      <4>1. crashes' = crashes + 1
        BY <3>1 DEF Crash
      <4> QED
        BY <2>0, <3>0, <4>1
    <3>2. CASE BootFails(p)
      <4>1. crashes' = crashes /\ ToJudge(p, s)
        BY <3>2 DEF BootFails, ToJudge
      <4> QED
        BY <2>0, <2>1, <2>2, <3>0, <4>1
    <3> QED
      BY <2>3, <3>1, <3>2 DEF Exit
  <2>4. CASE ~Exit(p)
    <3>0. crashes' = crashes
      BY <1>1, <2>4, Changes
    <3>1. CASE Judgements(s)' = Judgements(s)
      <4>1. ASSUME StartTask(p, s) PROVE Judgements(s) = 0
        BY <4>1, NumberEmpty DEF StartTask, Judgements
      <4>2. ToJudge(p, s)' => Judgements(s) <= crashes
        BY <1>1, <2>0, <2>1, <2>4, <4>1, ComesToJudge
      <4> QED
        BY <2>0, <2>2, <3>0, <3>1, <4>2
    <3>2. CASE Judgements(s)' # Judgements(s)
      <4>1. Judgements(s)' = Judgements(s) + 1 /\ Judging(p, s) /\ ~ToJudge(p, s)'
        BY <1>1, <3>2, VerdictIsLast
      <4> QED
        BY <2>0, <2>1, <2>2, <3>0, <4>1 DEF ToJudge
    <3> QED
      BY <3>1, <3>2
  <2> QED
    BY <2>3, <2>4
<1>2. CASE UNCHANGED vars
  BY <1>2 DEF vars, disk, memory, handler, Judged, Judgements, ToJudge, Judging
<1> QED
  BY <1>1, <1>2 DEF Next, Judged

\* A session is judged once, and once more at most for every kill: one between the
\* verdict and the deletion of the descriptor brings the session back
\* (mcp_server.py:482 "write the final event", :515 _delete_session_file).
THEOREM OneServerJudgedOncePerLife ==
  ASSUME OneServer
  PROVE  Spec => [](Judged /\ JudgedOncePerLife)
<1>1. Init => Judged
  <2> SUFFICES ASSUME Init, NEW s \in Sids PROVE Judgements(s) = 0 /\ crashes = 0
    BY DEF Judged
  <2>1. traj[s] = <<>> /\ crashes = 0
    BY DEF Init
  <2> QED
    BY <2>1, NumberEmpty DEF Judgements
<1>2. Typed /\ Typed' /\ Owned /\ Judged /\ [Next]_vars => Judged'
  BY JudgedNext
<1>3. Judged => JudgedOncePerLife
  BY DEF Judged, Judgements, JudgedOncePerLife
<1> QED
  BY <1>1, <1>2, <1>3, ServerTyped, ServerOwned, PTL DEF Spec


-----------------------------------------------------------------------------
(* The log of one run.                                                      *)

\* The phases of a run, from one event to the next.
LEMMA PhasesAppend ==
  ASSUME NEW l \in Seq(Log!Events), NEW n \in Nat, NEW e \in Log!Events
  PROVE  /\ l = <<>> /\ e = "run_started" => InSetup(Append(l, e), 0)
         /\ InSetup(l, n) /\ e \in Log!Work => InSetup(Append(l, e), n)
         /\ InSetup(l, n) /\ e = "setup_ok" => InSetup(Append(l, e), n + 1)
         /\ InSetup(l, n) /\ e = "setup_bad" => Log!Number(Append(l, e), Log!Verdicts) = 0
         /\ InSetup(l, NSetup) => InVerify(l, 0, TRUE)
<1>0. /\ Log!Verdicts = {"passed", "failed", "noact", "error"}
      /\ Log!Work = {"agent", "thought", "forked", "reverted"}
  BY DEF Log!Verdicts, Log!Work
<1>1. \A E : Log!Number(Append(l, e), E)
               = IF e \in E THEN Log!Number(l, E) + 1 ELSE Log!Number(l, E)
  BY NumberAppend
<1>2. ASSUME l = <<>>, e = "run_started"
      PROVE  InSetup(Append(l, e), 0)
  <2>1. Log!Begun(Append(l, e)) /\ \A E : Log!Number(l, E) = 0
    BY <1>2, BegunAppend, NumberEmpty
  <2> QED
    BY <1>0, <1>1, <1>2, <2>1 DEF InSetup
<1>3. ASSUME InSetup(l, n), e \in Log!Work
      PROVE  InSetup(Append(l, e), n)
  BY <1>0, <1>1, <1>3, BegunAppend DEF InSetup
<1>4. ASSUME InSetup(l, n), e = "setup_ok"
      PROVE  InSetup(Append(l, e), n + 1)
  BY <1>0, <1>1, <1>4, BegunAppend DEF InSetup
<1>5. ASSUME InSetup(l, n), e = "setup_bad"
      PROVE  Log!Number(Append(l, e), Log!Verdicts) = 0
  BY <1>0, <1>1, <1>5 DEF InSetup
<1>6. InSetup(l, NSetup) => InVerify(l, 0, TRUE)
  BY DEF InSetup, InVerify
<1> QED
  BY <1>2, <1>3, <1>4, <1>5, <1>6

\* One more verify command in the log.
LEMMA VerifyAppend ==
  ASSUME NEW l \in Seq(Log!Events), NEW n \in Nat, NEW ok \in BOOLEAN,
         NEW e \in {"verify_ok", "verify_bad"}, InVerify(l, n, ok)
  PROVE  InVerify(Append(l, e), n + 1, ok /\ e = "verify_ok")
<1>0. e \in Log!Events /\ Log!Verdicts = {"passed", "failed", "noact", "error"}
  BY EventsOfServer DEF Log!Verdicts
<1>1. \A E : Log!Number(Append(l, e), E)
               = IF e \in E THEN Log!Number(l, E) + 1 ELSE Log!Number(l, E)
  BY <1>0, NumberAppend
<1>2. Log!Begun(Append(l, e)) /\ Log!Number(l, {"verify_bad"}) \in Nat
  BY <1>0, BegunAppend, NumberType DEF InVerify
<1> QED
  BY <1>0, <1>1, <1>2 DEF InVerify

\* Which events RunLog lets follow in each phase.
LEMMA Follows ==
  ASSUME NEW l \in Seq(Log!Events), NEW n \in Nat, NEW ok \in BOOLEAN
  PROVE  /\ l = <<>> => Log!MayFollow(l, "run_started")
         /\ Log!Number(l, Log!Verdicts) = 0 => Log!MayFollow(l, "error")
         /\ InSetup(l, n) /\ n < NSetup =>
              Log!MayFollow(l, "setup_ok") /\ Log!MayFollow(l, "setup_bad")
         /\ InSetup(l, NSetup) => \A e \in Log!Work : Log!MayFollow(l, e)
         /\ InVerify(l, n, ok) /\ n < NVerify =>
              Log!MayFollow(l, "verify_ok") /\ Log!MayFollow(l, "verify_bad")
         /\ InVerify(l, NVerify, ok) =>
              /\ ok => Log!MayFollow(l, "passed")
              /\ ~ok => IF Log!Number(l, {"agent"}) = 0 THEN Log!MayFollow(l, "noact")
                                                        ELSE Log!MayFollow(l, "failed")
<1>0. /\ Log!Work = {"agent", "thought", "forked", "reverted"}
      /\ \A E : Log!Number(l, E) \in Nat
      /\ NSetup \in Nat /\ NVerify \in Nat
  BY NumberType, ConstantsAssumption DEF Log!Work
<1>1. l = <<>> => Log!MayFollow(l, "run_started")
  <2>1. ASSUME l = <<>>
        PROVE  Log!Number(l, Log!Verdicts) = 0 /\ Log!Number(l, {"setup_bad"}) = 0
    BY <2>1, NumberEmpty
  <2>2. ASSUME l = <<>>
        PROVE  ~Log!Begun(l)
    BY <2>2 DEF Log!Begun
  <2> QED
    BY <2>1, <2>2 DEF Log!MayFollow, Log!Work
<1>2. Log!Number(l, Log!Verdicts) = 0 => Log!MayFollow(l, "error")
  BY <1>0 DEF Log!MayFollow, Log!Work
<1>3. InSetup(l, n) /\ n < NSetup =>
        Log!MayFollow(l, "setup_ok") /\ Log!MayFollow(l, "setup_bad")
  BY <1>0 DEF Log!MayFollow, Log!SetUp, InSetup
<1>4. InSetup(l, NSetup) => \A e \in Log!Work : Log!MayFollow(l, e)
  <2>1. ASSUME InSetup(l, NSetup), NEW e \in Log!Work
        PROVE  Log!MayFollow(l, e)
    <3>1. /\ Log!SetUp(l) /\ Log!Number(l, Log!Verdicts) = 0
          /\ Log!Number(l, {"setup_bad"}) = 0
          /\ Log!Number(l, {"verify_ok", "verify_bad"}) = 0
      BY <2>1 DEF Log!SetUp, InSetup
    <3>2. Log!MayFollow(l, "agent")
      BY <3>1 DEF Log!MayFollow, Log!Work
    <3>3. Log!MayFollow(l, "thought")
      BY <3>1 DEF Log!MayFollow, Log!Work
    <3>4. Log!MayFollow(l, "forked")
      BY <3>1 DEF Log!MayFollow, Log!Work
    <3>5. Log!MayFollow(l, "reverted")
      BY <3>1 DEF Log!MayFollow, Log!Work
    <3> QED
      BY <1>0, <2>1, <3>2, <3>3, <3>4, <3>5
  <2> QED
    BY <2>1
<1>5. InVerify(l, n, ok) /\ n < NVerify =>
        Log!MayFollow(l, "verify_ok") /\ Log!MayFollow(l, "verify_bad")
  BY <1>0 DEF Log!MayFollow, Log!SetUp, Log!Verified, InVerify
<1>6. ASSUME InVerify(l, NVerify, ok)
      PROVE  /\ ok => Log!MayFollow(l, "passed")
             /\ ~ok => IF Log!Number(l, {"agent"}) = 0 THEN Log!MayFollow(l, "noact")
                                                       ELSE Log!MayFollow(l, "failed")
  <2>1. /\ Log!Verified(l) /\ Log!Number(l, Log!Verdicts) = 0
        /\ Log!Number(l, {"setup_bad"}) = 0
        /\ ok <=> Log!Number(l, {"verify_bad"}) = 0
    BY <1>6 DEF Log!SetUp, Log!Verified, InVerify
  <2>2. ASSUME ok
        PROVE  Log!MayFollow(l, "passed")
    <3>1. Log!Number(l, {"verify_bad"}) = 0
      BY <2>1, <2>2
    <3> QED
      BY <2>1, <3>1 DEF Log!MayFollow, Log!Work
  <2>3. ASSUME ~ok
        PROVE  Log!Number(l, {"verify_bad"}) > 0
    BY <1>0, <2>1, <2>3
  <2>4. ASSUME ~ok, Log!Number(l, {"agent"}) = 0
        PROVE  Log!MayFollow(l, "noact")
    <3>1. Log!Number(l, {"verify_bad"}) > 0
      BY <2>3, <2>4
    <3> QED
      BY <2>1, <2>4, <3>1 DEF Log!MayFollow, Log!Work
  <2>5. ASSUME ~ok, Log!Number(l, {"agent"}) # 0
        PROVE  Log!MayFollow(l, "failed")
    <3>1. Log!Number(l, {"verify_bad"}) > 0
      BY <2>3, <2>5
    <3>2. Log!Number(l, {"agent"}) > 0
      BY <1>0, <2>5
    <3> QED
      BY <2>1, <3>1, <3>2 DEF Log!MayFollow, Log!Work
  <2> QED
    BY <2>2, <2>4, <2>5
<1> QED
  BY <1>1, <1>2, <1>3, <1>4, <1>5, <1>6


-----------------------------------------------------------------------------
(* What is written without a kill.                                          *)

\* What a step of the handler relies on while no server was killed.
LEMMA WhileRunning ==
  ASSUME Typed, Owned, Running, NEW p \in Servers, NEW s \in Sids, call[p].sid = s
  PROVE  /\ pc[p] \in {"create", "launch", "announce"} /\ call[p].op = "start" => traj[s] = <<>>
         /\ pc[p] = "announce" /\ call[p].op = "revert" => InSetup(traj[s], NSetup)
         /\ pc[p] \in {"record", "forked"} => InSetup(traj[s], NSetup)
         /\ pc[p] = "setup" => InSetup(traj[s], call[p].n)
         /\ pc[p] = "verify" => InVerify(traj[s], call[p].n, call[p].ok)
         /\ pc[p] = "verdict" => Log!Number(traj[s], Log!Verdicts) = 0
<1>1. call[p].op = "start" /\ pc[p] \in {"create", "launch", "announce"} => traj[s] = <<>>
  BY DEF Owned, IsStarting, Logged
<1>2. call[p].op = "revert" \/ pc[p] \in {"record", "forked"} => s \in live[p]
  BY DEF Owned, Typed, InStep, OpsAt
<1> QED
  BY <1>1, <1>2 DEF Running

\* The events written while a session is live, or before it is, keep the log in its phase.
LEMMA LiveLog ==
  ASSUME Typed, Owned, Running, NEW p \in Servers, Request(p) \/ Step(p) \/ Exit(p), ~Exit(p),
         NEW s \in live'[p]
  PROVE  InSetup(traj'[s], NSetup)
<1>0. /\ s \in Sids /\ traj[s] \in Seq(Log!Events) /\ NSetup \in Nat
      /\ call[p].op \in OpsAt(pc[p]) /\ live \in [Servers -> SUBSET Sids]
  BY MemoryTyped, ConstantsAssumption DEF Typed, ServerTypes, InStep
<1>1. CASE SetupDone(p) /\ call[p].sid = s
  BY <1>0, <1>1, WhileRunning DEF SetupDone, disk
<1>2. CASE s \in live[p] /\ ~SetupDone(p)
  <2>1. InSetup(traj[s], NSetup)
    BY <1>2 DEF Running
  <2>2. CASE traj'[s] # traj[s]
    <3>1. PICK e \in Log!Events : Writes(p, s, e) /\ traj'[s] = Append(traj[s], e)
      BY <1>0, <2>2, WritesRecord
    <3>2. e \in Log!Work
      <4>1. CASE Note(p, s) /\ e = "thought"
        BY <4>1 DEF Log!Work
      <4>2. ASSUME call[p].sid = s, call[p].op = "start",
                   Create(p) \/ Launch(p) \/ Announce(p) \/ Setup(p)
            PROVE  FALSE
        BY <1>2, <4>2 DEF Create, Launch, Announce, Setup, Owned, IsStarting, Fresh
      <4>3. Setup(p) => call[p].op = "start"
        BY <1>0 DEF Setup, OpsAt
      <4>4. ASSUME call[p].sid = s, Verify(p) \/ Verdict(p)
            PROVE  FALSE
        BY <1>0, <1>2, <4>4 DEF Verify, Verdict, OpsAt, Owned, IsStarting, Fresh
      <4> QED
        BY <3>1, <4>1, <4>2, <4>3, <4>4 DEF Writes, Log!Work
    <3>3. InSetup(Append(traj[s], e), NSetup)
      BY <1>0, <2>1, <3>2, PhasesAppend
    <3> QED
      BY <3>1, <3>3
  <2> QED
    BY <2>1, <2>2
<1>3. ~Attach(p)
  BY DEF Attach, Running
<1>4. CASE SetupDone(p) /\ call[p].sid # s
  BY <1>0, <1>3, <1>4, Held DEF SetupDone, disk, Running
<1> QED
  BY <1>0, <1>1, <1>2, <1>3, <1>4, Held

LEMMA RunningStep ==
  ASSUME OneServer, Typed, Typed', Owned, Running, NEW p \in Servers,
         Request(p) \/ Step(p) \/ Exit(p), ~Exit(p)
  PROVE  Running'
<1>0. /\ traj \in [Sids -> Seq(Log!Events)] /\ call \in [Servers -> Calls]
      /\ pc \in [Servers -> Steps]
      /\ call[p] \in Calls /\ NSetup \in Nat
      /\ pc[p] # "attach" /\ {"verify_ok", "verify_bad", "setup_ok", "setup_bad", "run_started"} \subseteq Log!Events
      /\ call[p].n \in Nat /\ call[p].ok \in BOOLEAN
  BY EventsOfServer, ConstantsAssumption DEF Typed, ServerTypes, Running, Calls
<1>1. ASSUME pc'[p] \in {"down", "boot"}
      PROVE  call'[p].todo = {} /\ \A s \in Sids : desc'[s] = None /\ traj'[s] = <<>> /\ ~ran'[s]
  <2>1. ~ReadDescriptor(p) /\ ~Attach(p)
    BY <1>0 DEF ReadDescriptor, Attach, Running
  <2>2. Boot(p)
    BY <1>1, <2>1, Leads
  <2>3. \A s \in Sids : desc[s] = None /\ traj[s] = <<>> /\ ~ran[s]
    BY <2>2 DEF Boot, Running
  <2>4. call'[p].todo = {s \in Sids : desc[s] # None}
    BY <1>0, <2>2 DEF Boot, Calls
  <2> QED
    BY <2>2, <2>3, <2>4 DEF Boot, disk
<1>2. pc'[p] # "attach"
  BY Leads DEF ReadDescriptor, Running
<1>3. ASSUME pc'[p] = "setup"
      PROVE  InSetup(traj'[call'[p].sid], call'[p].n)
  <2>0. PICK s \in Sids : s = call[p].sid
    BY <1>3, Leads, CallFacts DEF Announce, Setup
  <2>1. CASE Announce(p)
    <3>1. call[p].op = "start" /\ traj' = [traj EXCEPT ![s] = Append(@, "run_started")] /\ UNCHANGED call
      BY <1>0, <1>3, <2>0, <2>1 DEF Announce, Record, Goto
    <3>2. traj[s] = <<>> /\ call[p].n = 0
      BY <2>0, <2>1, <3>1, WhileRunning DEF Announce, Typed, InStep
    <3>3. traj'[s] = Append(traj[s], "run_started") /\ traj[s] \in Seq(Log!Events)
      BY <1>0, <3>1
    <3>4. InSetup(Append(traj[s], "run_started"), 0)
      BY <1>0, <3>2, <3>3, PhasesAppend
    <3> QED
      BY <2>0, <3>1, <3>2, <3>3, <3>4
  <2>2. CASE Setup(p)
    <3>1. /\ Record(s, "setup_ok")
          /\ call' = [call EXCEPT ![p].n = @ + 1]
      BY <1>0, <1>3, <2>0, <2>2 DEF Setup, Goto, Return
    <3>2. call'[p].sid = s /\ call'[p].n = call[p].n + 1
      BY <1>0, <2>0, <3>1 DEF Calls
    <3>3. traj'[s] = Append(traj[s], "setup_ok") /\ traj[s] \in Seq(Log!Events)
      BY <1>0, <3>1 DEF Record
    <3>4. InSetup(traj[s], call[p].n)
      BY <2>0, <2>2, WhileRunning DEF Setup
    <3>5. InSetup(Append(traj[s], "setup_ok"), call[p].n + 1)
      BY <1>0, <3>3, <3>4, PhasesAppend
    <3> QED
      BY <3>2, <3>3, <3>5
  <2> QED
    BY <1>3, <2>1, <2>2, Leads
<1>4. ASSUME pc'[p] = "verify"
      PROVE  InVerify(traj'[call'[p].sid], call'[p].n, call'[p].ok)
  <2>1. ASSUME NEW s \in Sids, Finish(p, s)
        PROVE  InVerify(traj'[call'[p].sid], call'[p].n, call'[p].ok)
    <3>1. call'[p].sid = s /\ call'[p].n = 0 /\ call'[p].ok
      BY <2>1, Entered DEF Finish, Ops
    <3>2. InSetup(traj[s], NSetup) /\ UNCHANGED traj
      BY <2>1 DEF Finish, Running, disk
    <3>3. InVerify(traj[s], 0, TRUE)
      BY <1>0, <3>2, PhasesAppend
    <3> QED
      BY <3>1, <3>2, <3>3 DEF InVerify
  <2>2. CASE Verify(p)
    <3>0. PICK s \in Sids : s = call[p].sid
      BY <2>2, CallFacts DEF Verify
    <3>1. PICK b \in BOOLEAN :
            /\ Record(s, IF b THEN "verify_ok" ELSE "verify_bad")
            /\ call' = [call EXCEPT ![p].n = @ + 1, ![p].ok = @ /\ b]
      BY <1>0, <1>4, <2>2, <3>0 DEF Verify, Goto
    <3>2. /\ call'[p].sid = s /\ call'[p].n = call[p].n + 1
          /\ call'[p].ok = (call[p].ok /\ b)
      BY <1>0, <3>0, <3>1 DEF Calls
    <3>3. PICK e \in {"verify_ok", "verify_bad"} : e = IF b THEN "verify_ok" ELSE "verify_bad"
      OBVIOUS
    <3>4. traj'[s] = Append(traj[s], e) /\ traj[s] \in Seq(Log!Events)
      BY <1>0, <3>1, <3>3 DEF Record
    <3>5. InVerify(traj[s], call[p].n, call[p].ok)
      BY <2>2, <3>0, WhileRunning DEF Verify
    <3>6. InVerify(Append(traj[s], e), call[p].n + 1, call[p].ok /\ e = "verify_ok")
      BY <1>0, <3>4, <3>5, VerifyAppend
    <3>7. b <=> e = "verify_ok"
      BY <3>3
    <3>8. InVerify(Append(traj[s], e), call[p].n + 1, call[p].ok /\ b)
      BY <3>6, <3>7 DEF InVerify
    <3> QED
      BY <3>2, <3>4, <3>8
  <2> QED
    BY <1>4, <2>1, <2>2, Leads
<1>5. ASSUME pc'[p] = "verdict"
      PROVE  Log!Number(traj'[call'[p].sid], Log!Verdicts) = 0
  <2>1. ASSUME NEW s \in Sids, Abort(p, s)
        PROVE  Log!Number(traj'[call'[p].sid], Log!Verdicts) = 0
    <3>1. call'[p].sid = s
      BY <2>1, Entered DEF Abort, Ops
    <3> QED
      BY <2>1, <3>1 DEF Abort, Running, disk, InSetup
  <2>2. CASE Setup(p)
    <3>0. PICK s \in Sids : s = call[p].sid
      BY <2>2, CallFacts DEF Setup
    <3>1. Record(s, "setup_bad") /\ UNCHANGED call
      BY <1>0, <1>5, <2>2, <3>0 DEF Setup, Goto, Return
    <3>2. traj'[s] = Append(traj[s], "setup_bad") /\ traj[s] \in Seq(Log!Events)
      BY <1>0, <3>1 DEF Record
    <3>3. InSetup(traj[s], call[p].n)
      BY <2>2, <3>0, WhileRunning DEF Setup
    <3>4. Log!Number(Append(traj[s], "setup_bad"), Log!Verdicts) = 0
      BY <1>0, <3>2, <3>3, PhasesAppend
    <3> QED
      BY <3>0, <3>1, <3>2, <3>4
  <2> QED
    BY <1>5, <2>1, <2>2, Leads
<1>6. \A q \in Servers : q = p
  BY DEF OneServer
<1>7. \A s \in live'[p] : InSetup(traj'[s], NSetup)
  BY LiveLog
<1> QED
  BY <1>1, <1>2, <1>3, <1>4, <1>5, <1>6, <1>7 DEF Running

\* Every event that is written is one that may follow.
LEMMA WritesFollow ==
  ASSUME Typed, Owned, Counted, Running, crashes = 0, NEW p \in Servers, NEW s \in Sids,
         NEW e \in Log!Events, Writes(p, s, e)
  PROVE  Log!MayFollow(traj[s], e)
<1>0. /\ traj[s] \in Seq(Log!Events) /\ call[p].op \in OpsAt(pc[p])
      /\ call[p].n \in Nat /\ call[p].ok \in BOOLEAN /\ NSetup \in Nat
      /\ {"thought", "reverted", "agent", "forked"} \subseteq Log!Work
  BY ConstantsAssumption DEF Typed, ServerTypes, InStep, Calls, Log!Work
<1>1. CASE e = "thought" /\ Note(p, s)
  <2>1. InSetup(traj[s], NSetup)
    BY <1>1 DEF Note, Require, Running
  <2> QED
    BY <1>0, <1>1, <2>1, Follows
<1>2. CASE call[p].sid = s /\ e = "error" /\ call[p].op = "start" /\ (Create(p) \/ Launch(p))
  <2>1. traj[s] = <<>>
    BY <1>2, WhileRunning DEF Create, Launch
  <2>2. Log!Number(traj[s], Log!Verdicts) = 0
    BY <2>1, NumberEmpty
  <2> QED
    BY <1>0, <1>2, <2>2, Follows
<1>3. CASE call[p].sid = s /\ e = "run_started" /\ call[p].op = "start" /\ Announce(p)
  <2>1. traj[s] = <<>>
    BY <1>3, WhileRunning DEF Announce
  <2> QED
    BY <1>0, <1>3, <2>1, Follows
<1>4. CASE /\ call[p].sid = s
           /\ \/ e = "reverted" /\ call[p].op = "revert" /\ Announce(p)
              \/ e = "agent" /\ RecordCommand(p)
              \/ e = "forked" /\ ForkRecord(p)
  <2>1. InSetup(traj[s], NSetup)
    BY <1>4, WhileRunning DEF Announce, RecordCommand, ForkRecord
  <2> QED
    BY <1>0, <1>4, <2>1, Follows
<1>5. CASE call[p].sid = s /\ e \in {"setup_ok", "setup_bad"} /\ Setup(p)
  <2>1. InSetup(traj[s], call[p].n) /\ call[p].n < NSetup
    BY <1>5, WhileRunning DEF Setup
  <2> QED
    BY <1>0, <1>5, <2>1, Follows
<1>6. CASE call[p].sid = s /\ e \in {"verify_ok", "verify_bad"} /\ Verify(p)
  <2>1. InVerify(traj[s], call[p].n, call[p].ok) /\ call[p].n < NVerify
    BY <1>6, WhileRunning DEF Verify
  <2> QED
    BY <1>0, <1>6, <2>1, Follows
<1>7. CASE call[p].sid = s /\ e = Outcome(p) /\ Verdict(p)
  <2>1. CASE pc[p] = "verdict"
    <3>1. e = "error"
      BY <1>0, <1>7, <2>1 DEF Outcome, OpsAt
    <3>2. Log!Number(traj[s], Log!Verdicts) = 0
      BY <1>7, <2>1, WhileRunning
    <3> QED
      BY <1>0, <3>1, <3>2, Follows
  <2>2. CASE pc[p] = "verify" /\ call[p].n = NVerify
    <3>1. call[p].op = "finish"
      BY <1>0, <2>2 DEF OpsAt
    <3>2. InVerify(traj[s], NVerify, call[p].ok)
      BY <1>7, <2>2, WhileRunning
    <3>3. count[p][s] = Log!Number(traj[s], {"agent"})
      <4>1. damage[s] = "none"
        BY DEF Typed
      <4> QED
        BY <1>7, <2>2, <3>1, <4>1 DEF Counted, Commands
    <3>4. /\ call[p].ok => Log!MayFollow(traj[s], "passed")
          /\ ~call[p].ok => IF Log!Number(traj[s], {"agent"}) = 0
                            THEN Log!MayFollow(traj[s], "noact")
                            ELSE Log!MayFollow(traj[s], "failed")
      BY <1>0, <3>2, Follows
    <3> QED
      BY <1>7, <3>1, <3>3, <3>4 DEF Outcome
  <2> QED
    BY <1>7, <2>1, <2>2 DEF Verdict
<1> QED
  BY <1>1, <1>2, <1>3, <1>4, <1>5, <1>6, <1>7 DEF Writes


\* Without kills and failing calls, a command that ran is counted.
LEMMA UntouchedStep ==
  ASSUME OneServer, Typed, Typed', Owned, Counted, Running, Untouched, Smooth,
         NEW p \in Servers, Request(p) \/ Step(p) \/ Exit(p), ~Exit(p)
  PROVE  Untouched'
<1>0. /\ traj \in [Sids -> Seq(Log!Events)] /\ ran \in [Sids -> BOOLEAN]
      /\ \A q \in Servers : q = p
  BY DEF Typed, ServerTypes, OneServer
<1>1. ASSUME NEW s \in Sids, ran'[s]
      PROVE  Commands(s)' > 0 \/ (pc'[p] = "record" /\ call'[p].sid = s)
  <2>0. Commands(s) \in Nat /\ Commands(s)' \in Nat /\ Commands(s)' >= Commands(s)
    BY CommandsStep, NumberType, <1>0 DEF Commands
  <2>1. CASE Commands(s) > 0
    BY <2>0, <2>1
  <2>2. CASE RecordCommand(p) /\ call[p].sid = s
    <3>1. Commands(s)' = Commands(s) + 1
      BY <2>2, CommandsStep
    <3> QED
      BY <2>0, <3>1
  <2>3. CASE ran[s] /\ Commands(s) = 0 /\ ~(RecordCommand(p) /\ call[p].sid = s)
    <3>1. pc[p] = "record" /\ call[p].sid = s
      BY <1>0, <2>3 DEF Untouched
    <3>2. ~Request(p)
      BY <3>1 DEF Request, Boot, StartTask, Exec, Note, Fork, Finish, Abort, Revert, Require
    <3>3. ~Step(p)
      BY <2>3, <3>1 DEF Step, Create, Launch, Announce, Setup, SetupDone, Persist, Fill,
         ForkRecord, Verify, Verdict, Stop, Remove, DeleteSnapshot, TeardownRaises, Stopped,
         Unlink, ReadDescriptor, Attach, Serve
    <3>4. ~Exit(p)
      OBVIOUS
    <3> QED
      BY <3>2, <3>3, <3>4
  <2>4. CASE ~ran[s]
    <3>1. PICK r \in Sids : Exec(p, r)
      BY <1>1, <2>4, Changes
    <3>2. r = s
      BY <1>0, <1>1, <2>4, <3>1 DEF Exec
    <3>3. Enter(p, "exec", r, "record") /\ "exec" \in Ops
      BY <3>1 DEF Exec, Smooth, Ops
    <3> QED
      BY <3>2, <3>3, Entered
  <2> QED
    BY <2>0, <2>1, <2>2, <2>3, <2>4
<1>2. ASSUME NEW s \in Sids, NEW i \in DOMAIN traj'[s], traj'[s][i] = "noact"
      PROVE  ~ran'[s]
  <2>0. traj[s] \in Seq(Log!Events) /\ DOMAIN traj[s] = 1 .. Len(traj[s])
        /\ Commands(s) \in Nat
    BY <1>0, LenProperties, NumberType DEF Commands
  <2>1. CASE i \in DOMAIN traj[s] /\ traj[s][i] = "noact"
    <3>1. ~ran[s]
      BY <2>1 DEF Untouched
    <3>2. ASSUME NEW r \in Sids, Exec(p, r)
          PROVE  r # s
      <4>1. r = s => Log!Number(traj[s], Log!Verdicts) = 0
        BY <3>2 DEF Exec, Require, Running, InSetup
      <4>2. r = s => traj[s][i] \notin Log!Verdicts
        BY <2>0, <2>1, <4>1, NumberZero
      <4> QED
        BY <2>1, <4>2 DEF Log!Verdicts
    <3> QED
      BY <1>0, <3>1, <3>2, Changes DEF Exec
  <2>2. CASE ~(i \in DOMAIN traj[s] /\ traj[s][i] = "noact")
    <3>1. traj'[s] # traj[s]
      BY <1>2, <2>2
    <3>2. PICK e \in Log!Events : Writes(p, s, e) /\ traj'[s] = Append(traj[s], e)
      BY <3>1, WritesRecord
    <3>3. e = "noact"
      <4>1. PICK m : m = traj'[s]
        OBVIOUS
      <4>2. /\ DOMAIN m = 1 .. Len(traj[s]) + 1 /\ Len(traj[s]) \in Nat
            /\ \A j \in 1 .. Len(traj[s]) : m[j] = traj[s][j]
            /\ m[Len(traj[s]) + 1] = e
        BY <2>0, <3>2, <4>1, AppendProperties, LenProperties
      <4> QED
        BY <1>2, <2>0, <2>2, <4>1, <4>2
    <3>4. Verdict(p) /\ call[p].sid = s /\ Outcome(p) = "noact"
      BY <3>2, <3>3 DEF Writes
    <3>5. call[p].op = "finish" /\ count[p][s] = 0
      BY <3>4 DEF Outcome
    <3>6. pc[p] = "verify"
      BY <3>4, <3>5 DEF Verdict, Typed, InStep, OpsAt
    <3>7. Commands(s) = 0
      <4>1. damage[s] = "none"
        BY DEF Typed, Smooth
      <4> QED
        BY <3>4, <3>5, <3>6, <4>1 DEF Counted
    <3>8. ~ran[s]
      BY <1>0, <2>0, <3>6, <3>7 DEF Untouched
    <3> QED
      BY <3>4, <3>8 DEF Verdict
  <2> QED
    BY <2>1, <2>2
<1> QED
  BY <1>0, <1>1, <1>2 DEF Untouched

LEMMA RanNext ==
  ASSUME OneServer, Typed, Typed', Owned, Counted, Ran, [Next]_vars
  PROVE  Ran'
<1>1. ASSUME NEW p \in Servers, Request(p) \/ Step(p) \/ Exit(p), crashes' = 0
      PROVE  Running' /\ (Smooth' => Untouched')
  <2>1. ~Crash(p)
    BY <1>1 DEF Crash, Typed, ServerTypes
  <2>2. crashes = 0
    BY <1>1, <2>1, Changes DEF Exit, BootFails
  <2>3. Running
    BY <2>2 DEF Ran
  <2>4. Smooth' => Smooth
    BY <2>2 DEF Smooth
  <2>5. ~Exit(p)
    BY <2>1, <2>3 DEF Exit, BootFails, Running
  <2> QED
    BY <1>1, <2>3, <2>4, <2>5, RunningStep, UntouchedStep DEF Ran
<1>2. CASE UNCHANGED vars
  <2>1. Running => Running'
    BY <1>2 DEF vars, disk, memory, handler, Running
  <2>2. Untouched => Untouched'
    BY <1>2 DEF vars, disk, handler, Untouched, Commands
  <2>3. crashes' = crashes
    BY <1>2 DEF vars
  <2> QED
    BY <2>1, <2>2, <2>3 DEF Ran, Smooth
<1> QED
  BY <1>1, <1>2 DEF Next, Ran, Smooth

LEMMA RanInit == Init => Ran
<1> SUFFICES ASSUME Init PROVE Running /\ Untouched
  BY DEF Ran
<1>1. ASSUME NEW p \in Servers
      PROVE  pc[p] = "down" /\ live[p] = {} /\ call[p].todo = {}
  BY DEF Init, NoCall
<1>2. ASSUME NEW s \in Sids
      PROVE  desc[s] = None /\ traj[s] = <<>> /\ ~ran[s]
  BY DEF Init
<1>3. DOMAIN <<>> = {}
  OBVIOUS
<1> QED
  BY <1>1, <1>2, <1>3 DEF Running, Untouched

\* What a server without kills keeps, for the two theorems below.
THEOREM OneServerRan ==
  ASSUME OneServer
  PROVE  Spec => []Ran
<1>1. Typed /\ Typed' /\ Owned /\ Counted /\ Ran /\ [Next]_vars => Ran'
  BY RanNext
<1> QED
  BY <1>1, RanInit, ServerTyped, ServerOwned, OneServerCountAgrees, PTL DEF Spec

\* The reason "no agent activity (verify ran on untouched workspace)" is given
\* only if no command of the agent has run (mcp_server.py:499), provided that no
\* server was killed and no Docker call failed right after a command.
THEOREM OneServerNoactMeansUntouched ==
  ASSUME OneServer
  PROVE  Spec => []NoactMeansUntouched
<1>1. Ran => NoactMeansUntouched
  BY DEF Ran, Smooth, Untouched, NoactMeansUntouched
<1> QED
  BY <1>1, OneServerRan, PTL

\* As long as no server was killed, the events that the handlers write are the log of
\* one run: setup, work, verify, one verdict, in this order and none of them after it.
THEOREM OneServerImplementsRunLog ==
  ASSUME OneServer
  PROVE  Spec => ImplementsRunLog
<1>1. Init => Log!Init
  BY DEF Init, Log!Init
<1>2. ASSUME Typed, Typed', Owned, Counted, Ran, [Next]_vars, traj' # traj, crashes = 0
      PROVE  Log!Next
  <2>1. PICK s \in Sids : traj'[s] # traj[s]
    BY <1>2 DEF Typed, ServerTypes
  <2>2. PICK p \in Servers : Request(p) \/ Step(p) \/ Exit(p)
    BY <1>2 DEF Next, vars, disk
  <2>3. PICK e \in Log!Events : /\ Writes(p, s, e)
                                /\ traj' = [traj EXCEPT ![s] = Append(@, e)]
    BY <1>2, <2>1, <2>2, WritesRecord
  <2>4. Log!MayFollow(traj[s], e)
    BY <1>2, <2>3, WritesFollow DEF Ran
  <2> QED
    BY <2>3, <2>4 DEF Log!Next
<1>3. Typed /\ Typed' /\ Owned /\ Counted /\ Ran /\ [Next]_vars => [crashes = 0 => Log!Next]_traj
  BY <1>2
<1> QED
  BY <1>1, <1>3, ServerTyped, ServerOwned, OneServerCountAgrees, OneServerRan, PTL
     DEF Spec, ImplementsRunLog


-----------------------------------------------------------------------------
(* The reaper.                                                              *)

\* A live session has a descriptor that parses, but while it is being written.
Saved ==
  \A p \in Servers :
    /\ \A s \in live[p] :
         ~(call[p].sid = s /\ pc[p] \in {"persist", "fill"}) => Parses(s)
    /\ pc[p] \in {"announce", "setup", "persist", "fill"} => box[p][call[p].sid] # None

\* A snapshot that a sandbox remembers is labelled with its session, or gone.
Labelled ==
  \A p \in Servers, s \in Sids : \A n \in ids[p][s] : image[n] \in {s, "removed"}

AllTied == \A p \in Servers : Tied(p)

ReaperTypes ==
  /\ rpc \in {"off", "cids", "list", "images", "remove"}
  /\ kept \in [sids : SUBSET Sids, cids : SUBSET Cids]
  /\ victims \in SUBSET Cids
  /\ vimages \in SUBSET Snaps

\* What the descriptors pin.
Found == {desc[s] : s \in {r \in Sids : Parses(r)}}

\* What the command has read holds as long as no server makes a step.
Reading ==
  /\ rpc \in {"off", "cids", "list"} => victims = {} /\ vimages = {}
  /\ rpc = "images" => vimages = {}
  /\ quiet =>
       /\ rpc # "off" => kept.sids = {s \in Sids : Parses(s)}
       /\ rpc \in {"list", "images", "remove"} => kept.cids = Found
       /\ victims \cap Found = {}
       /\ \A n \in vimages : image[n] \in Sids /\ ~Parses(image[n])

\* What no descriptor has and is still there, is on the lists.
Covered ==
  (quiet /\ whole) =>
    /\ (rpc \in {"images", "remove"} \/ (rpc = "off" /\ reaps > 0)) =>
         \A c \in Cids : Exists(c) => c \in Found \cup victims
    /\ (rpc = "remove" \/ (rpc = "off" /\ reaps > 0)) =>
         \A n \in Snaps : image[n] \in Sids => Parses(image[n]) \/ n \in vimages

-----------------------------------------------------------------------------
LEMMA TiedNext ==
  ASSUME Typed, Typed', Owned, AllTied, [Next]_vars
  PROVE  AllTied'
<1>1. ASSUME NEW p \in Servers, Request(p) \/ Step(p) \/ Exit(p), NEW q \in Servers
      PROVE  Tied(q)'
  <2>1. CASE q = p
    BY <1>1, <2>1, TiedStep DEF AllTied
  <2>2. CASE q # p
    BY <1>1, <2>2, Others DEF AllTied, Tied
  <2> QED
    BY <2>1, <2>2
<1>2. CASE UNCHANGED vars
  BY <1>2 DEF vars, memory, handler, AllTied, Tied
<1> QED
  BY <1>1, <1>2 DEF Next, AllTied

\* The descriptor of a live session is only touched to write it anew.
LEMMA SavedStays ==
  ASSUME Typed, Owned, NEW p \in Servers, Tied(p), Request(p) \/ Step(p) \/ Exit(p),
         NEW s \in live[p], ~(call[p].sid = s /\ pc[p] \in {"persist", "fill"})
  PROVE  desc'[s] = desc[s]
<1>1. /\ desc \in [Sids -> Cids \cup {None, "torn"}] /\ s \in Sids
      /\ call[p].op \in OpsAt(pc[p])
  BY DEF Typed, ServerTypes, InStep
<1>2. CASE Persist(p) \/ Fill(p)
  BY <1>1, <1>2 DEF Persist, Fill
<1>3. CASE Unlink(p)
  <2>1. call[p].sid # s
    BY <1>1, <1>3 DEF Unlink, OpsAt, Owned
  <2> QED
    BY <1>1, <1>3, <2>1 DEF Unlink
<1>4. CASE ReadDescriptor(p)
  <2>1. s \notin call[p].todo
    BY <1>4 DEF ReadDescriptor, Tied
  <2> QED
    BY <1>1, <1>4, <2>1 DEF ReadDescriptor
<1>5. CASE Attach(p)
  <2>1. call[p].sid # s
    BY <1>5 DEF Attach, Tied
  <2> QED
    BY <1>1, <1>5, <2>1 DEF Attach
<1> QED
  BY <1>2, <1>3, <1>4, <1>5, Changes

LEMMA SavedNext ==
  ASSUME OneServer, Typed, Typed', Owned, AllTied, Pinned, Saved, [Next]_vars
  PROVE  Saved'
<1>1. ASSUME NEW p \in Servers, Request(p) \/ Step(p) \/ Exit(p)
      PROVE  Saved'
  <2>0. /\ Tied(p) /\ desc \in [Sids -> Cids \cup {None, "torn"}] /\ call[p] \in Calls
        /\ live \in [Servers -> SUBSET Sids] /\ live'[p] \subseteq Sids
        /\ box \in [Servers -> [Sids -> Cids \cup {None}]] /\ pc \in [Servers -> Steps]
        /\ call \in [Servers -> Calls]
        /\ None \notin Cids /\ "torn" \notin Cids /\ "torn" # None
    BY ConstantsAssumption DEF AllTied, Typed, ServerTypes
  <2>1. ASSUME NEW s \in live'[p], ~(call'[p].sid = s /\ pc'[p] \in {"persist", "fill"})
        PROVE  desc'[s] \notin {None, "torn"}
    <3>1. ~Exit(p)
      BY <2>0 DEF Exit, Crash, BootFails, Down
    <3>2. CASE s \in live[p] /\ ~(call[p].sid = s /\ pc[p] \in {"persist", "fill"})
      BY <1>1, <2>0, <3>2, SavedStays DEF Saved, Parses
    <3>3. CASE s \in live[p] /\ call[p].sid = s /\ pc[p] \in {"persist", "fill"}
      <4>1. ~Request(p)
        BY <3>3 DEF Request, Boot, StartTask, Exec, Note, Fork, Finish, Abort, Revert, Require
      <4>2. Persist(p) \/ Fill(p)
        BY <1>1, <3>1, <3>3, <4>1 DEF Step, Create, Launch, Announce, Setup, SetupDone,
           RecordCommand, ForkRecord, Verify, Verdict, Stop, Remove, DeleteSnapshot,
           TeardownRaises, Stopped, Unlink, ReadDescriptor, Attach, Serve
      <4>3. ~Persist(p)
        BY <2>0, <2>1, <3>3 DEF Persist, Goto
      <4>4. desc[s] = "torn" /\ box[p][s] \in Cids
        BY <2>0, <2>1, <3>3, <4>2, <4>3 DEF Fill, Pinned, Saved
      <4> QED
        BY <2>0, <2>1, <3>3, <4>2, <4>3, <4>4 DEF Fill
    <3>4. CASE s \notin live[p]
      <4>1. call[p].sid = s /\ (SetupDone(p) \/ Attach(p))
        BY <1>1, <2>0, <2>1, <3>4, Held
      <4>2. ~SetupDone(p)
        BY <2>0, <2>1, <4>1 DEF SetupDone, Goto
      <4>3. UNCHANGED desc /\ desc[s] = call[p].cid /\ call[p].cid \in Cids
        BY <2>0, <2>1, <3>4, <4>1, <4>2, CallFacts DEF Attach, Pinned
      <4> QED
        BY <2>0, <4>3
    <3> QED
      BY <3>2, <3>3, <3>4
  <2>2. ASSUME pc'[p] \in {"announce", "setup", "persist", "fill"}
        PROVE  box'[p][call'[p].sid] # None
    <3>1. CASE Launch(p)
      BY <2>0, <2>2, <3>1, CallFacts DEF Launch, Return, Goto
    <3>2. CASE Announce(p) \/ SetupDone(p) \/ Persist(p)
      BY <3>2 DEF Announce, SetupDone, Persist, Saved, memory
    <3>3. CASE Setup(p)
      <4>1. ~Return(p)
        BY <2>0, <2>2 DEF Return, Goto
      <4>2. UNCHANGED box /\ call'[p].sid = call[p].sid
        BY <2>0, <3>3, <4>1 DEF Setup, Calls
      <4> QED
        BY <3>3, <4>2 DEF Setup, Saved
    <3> QED
      BY <1>1, <2>2, <3>1, <3>2, <3>3, Leads
  <2> QED
    BY <2>1, <2>2 DEF Saved, Parses, OneServer
<1>2. CASE UNCHANGED vars
  BY <1>2 DEF vars, disk, memory, handler, Saved, Parses
<1> QED
  BY <1>1, <1>2 DEF Next

LEMMA LabelledNext ==
  ASSUME OneServer, Typed, Typed', Labelled, [Next]_vars
  PROVE  Labelled'
<1>1. /\ ids \in [Servers -> [Sids -> SUBSET Snaps]]
      /\ ids' \in [Servers -> [Sids -> SUBSET Snaps]]
      /\ image \in [Snaps -> Sids \cup {"unused", "removed"}]
      /\ "unused" \notin Sids
  BY ConstantsAssumption DEF Typed, ServerTypes
<1>2. ASSUME NEW p \in Servers, Request(p) \/ Step(p) \/ Exit(p),
             NEW s \in Sids, NEW n \in ids'[p][s]
      PROVE  image'[n] \in {s, "removed"}
  <2>1. ASSUME NEW r \in Sids, Fork(p, r)
        PROVE  image'[n] \in {s, "removed"}
    <3>1. PICK m \in Snaps : /\ image[m] = "unused" /\ image' = [image EXCEPT ![m] = r]
                             /\ ids' \in {ids, [ids EXCEPT ![p][r] = @ \cup {m}]}
      BY <2>1 DEF Fork
    <3>2. CASE n = m
      <4>1. m \notin ids[p][s]
        BY <1>1, <3>1 DEF Labelled
      <4> QED
        BY <1>1, <1>2, <3>1, <3>2, <4>1
    <3>3. CASE n # m
      <4>1. n \in ids[p][s] /\ image'[n] = image[n]
        BY <1>1, <1>2, <3>1, <3>3
      <4> QED
        BY <4>1 DEF Labelled
    <3> QED
      BY <3>2, <3>3
  <2>2. CASE DeleteSnapshot(p)
    <3>1. PICK m \in ids[p][call[p].sid] :
            /\ ids' = [ids EXCEPT ![p][call[p].sid] = @ \ {m}]
            /\ image' \in {image, [image EXCEPT ![m] = "removed"]}
      BY <2>2 DEF DeleteSnapshot
    <3>2. n \in ids[p][s] /\ n \in Snaps
      BY <1>1, <1>2, <3>1
    <3>3. image'[n] \in {image[n], "removed"}
      BY <1>1, <3>1, <3>2
    <3> QED
      BY <3>2, <3>3 DEF Labelled
  <2>3. CASE Exit(p)
    BY <1>1, <1>2, <2>3 DEF Exit, Crash, BootFails, Down
  <2>4. CASE UNCHANGED <<ids, image>>
    BY <1>2, <2>4 DEF Labelled
  <2>5. CASE TeardownRaises(p)
    <3>1. n \in ids[p][s] /\ n \in Snaps /\ image'[n] \in {image[n], "removed"}
      BY <1>1, <1>2, <2>5, Raising DEF OneServer
    <3> QED
      BY <3>1 DEF Labelled
  <2> QED
    BY <1>2, <2>1, <2>2, <2>3, <2>4, <2>5, Changes
<1>3. CASE UNCHANGED vars
  BY <1>3 DEF vars, docker, memory, Labelled
<1> QED
  BY <1>2, <1>3 DEF Next, Labelled, OneServer

-----------------------------------------------------------------------------
\* The command makes a step, a server does, or nobody.
LEMMA ReaperMoves ==
  ASSUME [ReaperNext]_<<vars, reaper>>
  PROVE  \/ Reap
         \/ [Next]_vars /\ UNCHANGED <<rpc, kept, victims, vimages, reaps, whole>> /\ quiet' = FALSE
         \/ UNCHANGED vars /\ UNCHANGED reaper
BY DEF ReaperNext, ServerStep

\* The command touches the daemon alone, and there it only removes.
LEMMA ReapRemoves ==
  ASSUME Typed, ReaperTypes, Reap
  PROVE  /\ UNCHANGED <<desc, traj, live, box, ids, count, proxy, pc, call, ran, damage, cut, crashes>>
         /\ cont' \in [Cids -> {"unused", "created", "running", "exited", "removed"}]
         /\ \A c \in Cids : cont'[c] \in {cont[c], "removed"}
         /\ image' \in [Snaps -> Sids \cup {"unused", "removed"}]
         /\ \A n \in Snaps : image'[n] \in {image[n], "removed"}
<1>1. /\ cont \in [Cids -> {"unused", "created", "running", "exited", "removed"}]
      /\ image \in [Snaps -> Sids \cup {"unused", "removed"}]
      /\ victims \subseteq Cids /\ vimages \subseteq Snaps
  BY DEF Typed, ServerTypes, ReaperTypes
<1>2. UNCHANGED <<desc, traj, live, box, ids, count, proxy, pc, call, ran, damage, cut, crashes>>
  BY DEF Reap, disk, memory, handler
<1>3. CASE RemoveContainer
  BY <1>1, <1>2, <1>3 DEF RemoveContainer
<1>4. CASE RemoveImage
  BY <1>1, <1>2, <1>4 DEF RemoveImage
<1>5. CASE UNCHANGED docker
  BY <1>1, <1>2, <1>5 DEF docker
<1> QED
  BY <1>3, <1>4, <1>5 DEF Reap

\* The reaper keeps the types of the server and of the daemon.
LEMMA ReapKeepsTyped ==
  ASSUME Typed, ReaperTypes, Reap
  PROVE  Typed'
<1>1. UNCHANGED <<desc, traj, live, box, ids, count, proxy, pc, call, ran, damage, cut, crashes>>
  BY ReapRemoves
<1>2. /\ cont' \in [Cids -> {"unused", "created", "running", "exited", "removed"}]
      /\ image' \in [Snaps -> Sids \cup {"unused", "removed"}]
  BY ReapRemoves
<1>3. ServerTypes'
  BY <1>1, <1>2 DEF Typed, ServerTypes
<1>4. /\ \A p \in Servers : InStep(pc[p], call[p])'
      /\ (crashes = 0 => \A s \in Sids : damage[s] = "none")'
  BY <1>1 DEF Typed
<1> QED
  BY <1>3, <1>4 DEF Typed

LEMMA ReaperTypesNext ==
  ASSUME Typed, ReaperTypes, [ReaperNext]_<<vars, reaper>>
  PROVE  ReaperTypes'
<1>1. desc \in [Sids -> Cids \cup {None, "torn"}]
  BY DEF Typed, ServerTypes
<1>2. CASE ReadSessions
  BY <1>2 DEF ReadSessions, ReaperTypes
<1>3. CASE ReadContainers
  <2>1. {desc[s] : s \in {r \in Sids : Parses(r)}} \in SUBSET Cids
    BY <1>1 DEF Parses
  <2> QED
    BY <1>3, <2>1 DEF ReadContainers, ReaperTypes
<1>4. CASE ListContainers \/ ListImages
  BY <1>4 DEF ListContainers, ListImages, ReaperTypes
<1>5. CASE RemoveContainer \/ RemoveImage \/ BreakOff \/ Done
  BY <1>5 DEF RemoveContainer, RemoveImage, BreakOff, Done, ReaperTypes
<1>6. CASE UNCHANGED <<rpc, kept, victims, vimages>>
  BY <1>6 DEF ReaperTypes
<1> QED
  BY <1>2, <1>3, <1>4, <1>5, <1>6, ReaperMoves DEF Reap, reaper

\* What the command has read, and what it still has to remove, is right as long as
\* no server makes a step.
LEMMA ReadingNext ==
  ASSUME Typed, ReaperTypes, Reading, [ReaperNext]_<<vars, reaper>>
  PROVE  Reading'
<1>1. CASE Reap
  <2>1. /\ desc' = desc /\ kept \in [sids : SUBSET Sids, cids : SUBSET Cids]
        /\ \A n \in Snaps : image'[n] \in {image[n], "removed"}
        /\ vimages \subseteq Snaps
        /\ image \in [Snaps -> Sids \cup {"unused", "removed"}]
    BY <1>1, ReapRemoves DEF ReaperTypes, Typed, ServerTypes
  <2>2. Found' = Found /\ \A s \in Sids : Parses(s)' <=> Parses(s)
    BY <2>1 DEF Found, Parses
  <2>3. CASE ReadSessions
    BY <2>1, <2>2, <2>3 DEF ReadSessions, Reading
  <2>4. CASE ReadContainers
    <3>1. kept'.cids = Found /\ kept'.sids = kept.sids
      BY <2>1, <2>4 DEF ReadContainers, Found
    <3> QED
      BY <2>1, <2>2, <2>4, <3>1 DEF ReadContainers, Reading
  <2>5. CASE ListContainers /\ UNCHANGED docker
    BY <2>1, <2>2, <2>5 DEF ListContainers, Reading, docker
  <2>6. CASE ListImages /\ UNCHANGED docker
    BY <2>1, <2>2, <2>6 DEF ListImages, Reading, docker
  <2>7. CASE RemoveContainer
    BY <2>1, <2>2, <2>7 DEF RemoveContainer, Reading
  <2>8. CASE RemoveImage
    <3>1. PICK n \in vimages : /\ vimages' = vimages \ {n}
                               /\ image' \in {image, [image EXCEPT ![n] = "removed"]}
      BY <2>8 DEF RemoveImage
    <3>2. \A m \in vimages' : m \in vimages /\ image'[m] = image[m]
      BY <2>1, <3>1
    <3> QED
      BY <2>1, <2>2, <2>8, <3>2 DEF RemoveImage, Reading
  <2>9. CASE BreakOff \/ Done
    BY <2>1, <2>2, <2>9 DEF BreakOff, Done, Reading
  <2> QED
    BY <1>1, <2>3, <2>4, <2>5, <2>6, <2>7, <2>8, <2>9 DEF Reap
<1>2. CASE UNCHANGED <<rpc, kept, victims, vimages, reaps>> /\ quiet' = FALSE
  BY <1>2 DEF Reading
<1>3. CASE UNCHANGED vars /\ UNCHANGED reaper
  BY <1>3 DEF vars, docker, disk, reaper, Reading, Found, Parses
<1> QED
  BY <1>1, <1>2, <1>3, ReaperMoves

LEMMA CoveredNext ==
  ASSUME Typed, ReaperTypes, Reading, Covered, [ReaperNext]_<<vars, reaper>>
  PROVE  Covered'
<1>1. CASE Reap
  <2>1. /\ desc' = desc
        /\ \A n \in Snaps : image'[n] \in {image[n], "removed"}
        /\ cont \in [Cids -> {"unused", "created", "running", "exited", "removed"}]
        /\ image \in [Snaps -> Sids \cup {"unused", "removed"}]
        /\ victims \subseteq Cids /\ vimages \subseteq Snaps
        /\ "removed" \notin Sids
    BY <1>1, ReapRemoves, ConstantsAssumption DEF ReaperTypes, Typed, ServerTypes
  <2>2. Found' = Found /\ \A s \in Sids : Parses(s)' <=> Parses(s)
    BY <2>1 DEF Found, Parses
  <2>3. CASE ReadSessions \/ ReadContainers
    BY <2>3 DEF ReadSessions, ReadContainers, Covered
  <2>4. CASE ListContainers /\ UNCHANGED docker
    <3>1. quiet /\ whole' => \A c \in Cids : Exists(c) => c \in Found \cup victims'
      BY <2>4 DEF ListContainers, Reading
    <3>2. rpc' = "images" /\ quiet' = quiet /\ cont' = cont
      BY <2>4 DEF ListContainers, docker
    <3> QED
      BY <2>2, <3>1, <3>2 DEF Covered, Exists
  <2>5. CASE ListImages /\ UNCHANGED docker
    <3>1. quiet /\ whole' =>
            \A n \in Snaps : image[n] \in Sids => Parses(image[n]) \/ n \in vimages'
      BY <2>5 DEF ListImages, Reading
    <3>2. /\ rpc = "images" /\ rpc' = "remove"
          /\ quiet' = quiet /\ cont' = cont /\ image' = image /\ victims' = victims
          /\ whole' => whole
      BY <2>5 DEF ListImages, docker
    <3>3. (quiet /\ whole) => \A c \in Cids : Exists(c)' => c \in Found \cup victims
      BY <3>2 DEF Covered, Exists
    <3> QED
      BY <2>2, <3>1, <3>2, <3>3 DEF Covered
  <2>6. CASE RemoveContainer
    <3>1. PICK c \in victims : /\ victims' = victims \ {c}
                               /\ whole' => whole /\ cont' = [cont EXCEPT ![c] = "removed"]
      BY <2>6 DEF RemoveContainer
    <3>2. rpc = "remove" /\ rpc' = "remove" /\ quiet' = quiet /\ image' = image /\ vimages' = vimages
      BY <2>6 DEF RemoveContainer
    <3>3. ASSUME whole', quiet, NEW d \in Cids, Exists(d)'
          PROVE  d \in Found \cup victims'
      <4>1. d # c /\ Exists(d)
        BY <2>1, <3>1, <3>3 DEF Exists
      <4> QED
        BY <3>1, <3>2, <3>3, <4>1 DEF Covered
    <3>4. whole' => whole
      BY <3>1
    <3> QED
      BY <2>2, <3>2, <3>3, <3>4 DEF Covered
  <2>7. CASE RemoveImage
    <3>1. PICK n \in vimages : /\ vimages' = vimages \ {n}
                               /\ whole' => whole /\ image' = [image EXCEPT ![n] = "removed"]
      BY <2>7 DEF RemoveImage
    <3>2. rpc = "remove" /\ rpc' = "remove" /\ quiet' = quiet /\ cont' = cont /\ victims' = victims
      BY <2>7 DEF RemoveImage
    <3>3. ASSUME whole', quiet, NEW m \in Snaps, image'[m] \in Sids
          PROVE  Parses(image[m]) \/ m \in vimages'
      <4>1. m # n /\ image'[m] = image[m]
        BY <2>1, <3>1, <3>3
      <4> QED
        BY <3>1, <3>2, <3>3, <4>1 DEF Covered
    <3>4. \A m \in Snaps : image'[m] \in Sids => image'[m] = image[m]
      BY <2>1
    <3>5. (quiet /\ whole') => \A c \in Cids : Exists(c)' => c \in Found \cup victims
      BY <3>1, <3>2 DEF Covered, Exists
    <3>6. (quiet /\ whole') =>
            \A m \in Snaps : image'[m] \in Sids => desc'[image'[m]] \notin {None, "torn"} \/ m \in vimages'
      BY <2>1, <3>3, <3>4 DEF Parses
    <3> QED
      BY <2>2, <3>2, <3>5, <3>6 DEF Covered, Parses
  <2>8. CASE Done /\ UNCHANGED docker
    <3>1. /\ rpc = "remove" /\ quiet' = quiet /\ cont' = cont /\ image' = image
          /\ victims' = victims /\ vimages' = vimages /\ whole' = whole
      BY <2>8 DEF Done, docker
    <3> QED
      BY <2>1, <2>2, <3>1 DEF Covered, Exists, Parses
  <2>9. CASE BreakOff
    BY <2>9 DEF BreakOff, Covered
  <2> QED
    BY <1>1, <2>3, <2>4, <2>5, <2>6, <2>7, <2>8, <2>9 DEF Reap
<1>2. CASE UNCHANGED <<rpc, kept, victims, vimages, reaps>> /\ quiet' = FALSE
  BY <1>2 DEF Covered
<1>3. CASE UNCHANGED vars /\ UNCHANGED reaper
  BY <1>3 DEF vars, docker, disk, reaper, Covered, Found, Parses, Exists
<1> QED
  BY <1>1, <1>2, <1>3, ReaperMoves

LEMMA ReaperFirst == ReaperInit => Typed /\ ReaperTypes /\ Reading /\ Covered
<1> SUFFICES ASSUME ReaperInit PROVE Typed /\ ReaperTypes /\ Reading /\ Covered
  OBVIOUS
<1>1. Typed
  BY TypedInit DEF ReaperInit
<1>2. rpc = "off" /\ victims = {} /\ vimages = {} /\ reaps = 0
      /\ kept = [sids |-> {}, cids |-> {}]
  BY DEF ReaperInit
<1>3. ReaperTypes /\ Reading /\ Covered
  BY <1>2 DEF ReaperTypes, Reading, Covered
<1> QED
  BY <1>1, <1>3

\* The types of the server next to the reaper.
THEOREM ReaperTyped == ReaperSpec => [](Typed /\ ReaperTypes)
<1>1. ASSUME Typed, ReaperTypes, [ReaperNext]_<<vars, reaper>>
      PROVE  (Typed /\ ReaperTypes)'
  <2>1. Typed'
    BY <1>1, ReaperMoves, TypedNext, ReapKeepsTyped
  <2> QED
    BY <1>1, <2>1, ReaperTypesNext
<1> QED
  BY <1>1, ReaperFirst, PTL DEF ReaperSpec

\* A reap that no server step disturbs, and whose own Docker calls succeed, leaves
\* exactly what descriptors pin, whatever was killed or failed before, and however
\* many servers there are (_cmd_reap).
THEOREM ReaperCleansUp == ReaperSpec => []CleansUp
<1>1. Reading /\ Covered => CleansUp
  BY DEF Reading, Covered, CleansUp, Found
<1> QED
  BY <1>1, ReaperFirst, ReaperTyped, ReadingNext, CoveredNext, PTL DEF ReaperSpec

-----------------------------------------------------------------------------
\* What the servers rely on, with somebody about who removes containers and images.
ServerInv == Typed /\ Owned /\ AllTied /\ Pinned /\ Saved /\ Labelled

LEMMA ServerInvReap ==
  ASSUME ServerInv, ReaperTypes, Reap
  PROVE  ServerInv'
<1>1. UNCHANGED <<desc, traj, live, box, ids, count, proxy, pc, call, ran, damage, cut, crashes>>
  BY ReapRemoves DEF ServerInv
<1>2. Typed'
  BY ReapKeepsTyped DEF ServerInv
<1>3. Owned'
  BY <1>1 DEF ServerInv, Owned, IsStarting, Fresh, Logged, Knows, IsReady
<1>4. AllTied'
  BY <1>1 DEF ServerInv, AllTied, Tied
<1>5. Pinned'
  BY <1>1 DEF ServerInv, Pinned, Changing
<1>6. Saved'
  BY <1>1 DEF ServerInv, Saved, Parses
<1>7. Labelled'
  <2>1. ids \in [Servers -> [Sids -> SUBSET Snaps]]
    BY DEF ServerInv, Typed, ServerTypes
  <2>2. \A n \in Snaps : image'[n] \in {image[n], "removed"}
    BY ReapRemoves DEF ServerInv
  <2> QED
    BY <1>1, <2>1, <2>2 DEF ServerInv, Labelled
<1> QED
  BY <1>2, <1>3, <1>4, <1>5, <1>6, <1>7 DEF ServerInv

LEMMA ServerInvNext ==
  ASSUME OneServer, ServerInv, ReaperTypes, [ReaperNext]_<<vars, reaper>>
  PROVE  ServerInv'
<1>1. CASE Reap
  BY <1>1, ServerInvReap
<1>2. CASE [Next]_vars
  <2>1. Typed'
    BY <1>2, TypedNext DEF ServerInv
  <2>2. Owned' /\ AllTied'
    BY <1>2, <2>1, OwnedNext, TiedNext DEF ServerInv
  <2>3. Pinned'
    BY <1>2, <2>1, PinnedNext DEF ServerInv, AllTied
  <2>4. Saved' /\ Labelled'
    BY <1>2, <2>1, SavedNext, LabelledNext DEF ServerInv
  <2> QED
    BY <2>1, <2>2, <2>3, <2>4 DEF ServerInv
<1> QED
  BY <1>1, <1>2, ReaperMoves

LEMMA ServerInvFirst == ReaperInit => ServerInv
<1> SUFFICES ASSUME Init PROVE ServerInv
  BY DEF ReaperInit
<1>1. Typed /\ Owned
  BY TypedInit, OwnedInit
<1>2. \A p \in Servers : /\ live[p] = {} /\ pc[p] = "down"
                         /\ \A s \in Sids : box[p][s] = None /\ ids[p][s] = {}
  BY DEF Init
<1>3. AllTied
  BY <1>2 DEF Init, AllTied, Tied, NoCall
<1>4. Pinned /\ Saved /\ Labelled
  BY <1>2 DEF Pinned, Saved, Labelled
<1> QED
  BY <1>1, <1>3, <1>4 DEF ServerInv

\* A reap between two tool calls takes nothing that a live session needs: not its
\* container, not the snapshots it can revert to (_live_session_ids, _cmd_reap).
THEOREM ReaperSparesIdleSessions ==
  ASSUME OneServer
  PROVE  ReaperSpec => []SparesIdleSessions
<1>1. ServerInv /\ Reading => SparesIdleSessions
  <2> SUFFICES ASSUME ServerInv, Reading, quiet, rpc # "off",
                      NEW p \in Servers, pc[p] \in {"idle", "down"}, NEW s \in live[p]
               PROVE  /\ box[p][s] # None => box[p][s] \notin victims
                      /\ ids[p][s] \cap vimages = {}
    BY DEF SparesIdleSessions
  <2>1. /\ s \in Sids /\ box[p][s] \in Cids \cup {None} /\ "removed" \notin Sids
        /\ None \notin Cids /\ "torn" \notin Cids
    BY ConstantsAssumption DEF ServerInv, Typed, ServerTypes
  <2>2. pc[p] = "idle" /\ call[p].op = "none"
    BY DEF ServerInv, Owned, Typed, InStep, OpsAt
  <2>3. Parses(s)
    BY <2>2 DEF ServerInv, Saved
  <2>4. box[p][s] # None => box[p][s] \in Found
    BY <2>1, <2>2, <2>3 DEF ServerInv, Pinned, Changing, Found
  <2>5. ASSUME NEW n \in ids[p][s], n \in vimages
        PROVE  FALSE
    <3>1. image[n] = s
      BY <2>1, <2>5 DEF ServerInv, Labelled, Reading
    <3> QED
      BY <2>3, <2>5, <3>1 DEF Reading
  <2> QED
    BY <2>4, <2>5 DEF Reading
<1>2. ServerInv /\ ReaperTypes /\ [ReaperNext]_<<vars, reaper>> => ServerInv'
  BY ServerInvNext
<1> QED
  BY <1>1, <1>2, ServerInvFirst, ReaperFirst, ReaperTyped, ReadingNext, PTL DEF ReaperSpec

=============================================================================
