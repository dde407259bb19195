---------------------------- MODULE RunnerProofs ----------------------------
(***************************************************************************)
(* Proofs about Runner, for any number of setup, verify and agent commands:  *)
(* the trajectory is the log of one run, the verdict that run() returns is   *)
(* the logged one, and a run without Docker failures leaves no container.     *)
(* Egress attempts are logged anywhere between, and change no count.         *)
(***************************************************************************)
EXTENDS Runner, FiniteSets, FiniteSetTheorems, SequenceTheorems, TLAPS

\* The events of each kind that the trajectory has.
SetupOk == Log!Number(traj, {"setup_ok"})
SetupBad == Log!Number(traj, {"setup_bad"})
Agents == Log!Number(traj, {"agent"})
Verifies == Log!Number(traj, {"verify_ok", "verify_bad"})
VerifyBad == Log!Number(traj, {"verify_bad"})
Judged == Log!Number(traj, Log!Verdicts)
Started == Log!Begun(traj)

RunnerType ==
  /\ pc \in {"start", "announce", "setup", "broken", "agent", "verify", "except",
             "finally", "done", "cut", "killed"}
  /\ cont \in {"none", "created", "running", "exited", "removed"}
  /\ box \in BOOLEAN
  /\ traj \in Seq(Log!Events)
  /\ n \in Nat /\ count \in Nat
  /\ ok \in BOOLEAN
  /\ failed \in BOOLEAN

\* What each phase may rely on: the local variables of run() tell what is logged.
Phases ==
  /\ pc \in {"start", "announce"} =>
       /\ ~Started /\ SetupOk = 0 /\ SetupBad = 0 /\ Agents = 0 /\ Verifies = 0
       /\ VerifyBad = 0 /\ n = 0 /\ count = 0 /\ ok
  /\ pc \in {"start", "announce", "setup", "broken", "agent", "verify", "except"} => Judged = 0
  /\ pc \in {"setup", "broken", "agent", "verify"} => Started
  /\ pc \in {"setup", "agent", "verify"} => SetupBad = 0 /\ Agents = count
  /\ pc \in {"setup", "agent"} => Verifies = 0 /\ VerifyBad = 0 /\ ok
  /\ pc = "setup" => SetupOk = n /\ n <= NSetup
  /\ pc \in {"agent", "verify"} => SetupOk = NSetup
  /\ pc = "verify" => Verifies = n /\ n <= NVerify /\ (ok <=> VerifyBad = 0)

\* The verdict v is the last event that run() itself wrote.
Ending(l, v) ==
  \E i \in DOMAIN l :
    /\ l[i] = v
    /\ \A j \in DOMAIN l : j > i => l[j] = Log!Attempt

\* There is such a verdict, and it is what the caller is told.
Closed == \E v \in Verdicts : Ending(traj, v) /\ (pc # "cut" => Told(v))

\* The sandbox holds the container from start() to stop() unless Docker fails.
Held ==
  /\ pc = "start" => cont = "none"
  /\ ~failed =>
       /\ pc \in {"announce", "setup", "broken", "agent", "verify", "except", "finally"} => box
       /\ pc = "done" => cont \in {"none", "removed"}

RunnerInv ==
  /\ RunnerType /\ Phases /\ Held
  /\ (pc \in {"finally", "done", "cut"} /\ result # "interrupted") => Closed

-----------------------------------------------------------------------------
(* Counting events.                                                         *)

\* Number counts with the Cardinality of FiniteSets, and counts to a number.
LEMMA NumberType ==
  ASSUME NEW l \in Seq(Log!Events), NEW E
  PROVE  /\ Log!Number(l, E) = Cardinality({i \in DOMAIN l : l[i] \in E})
         /\ IsFiniteSet({i \in DOMAIN l : l[i] \in E})
         /\ Log!Number(l, E) \in Nat
<1> DEFINE I == {i \in DOMAIN l : l[i] \in E}
<1>1. Log!Number(l, E) = Cardinality(I)
  BY DEF Log!Number, Log!Cardinality, Cardinality
<1>2. Len(l) \in Nat /\ DOMAIN l = 1 .. Len(l)
  BY LenProperties
<1>3. IsFiniteSet(1 .. Len(l)) /\ I \in SUBSET (1 .. Len(l))
  BY <1>2, FS_Interval
<1>4. IsFiniteSet(I) /\ Cardinality(I) \in Nat
  BY <1>3, FS_Subset, FS_CardinalityType
<1> QED
  BY <1>1, <1>4

\* What Append does, for the provers.
LEMMA AppendFacts ==
  ASSUME NEW S, NEW l \in Seq(S), NEW e \in S
  PROVE  /\ Append(l, e) \in Seq(S) /\ Append(l, e) # <<>>
         /\ Len(Append(l, e)) = Len(l) + 1
         /\ \A i \in 1 .. Len(l) : Append(l, e)[i] = l[i]
         /\ Append(l, e)[Len(l) + 1] = e
BY AppendProperties

\* One more event in a log is one more of each kind that it is of.
LEMMA NumberAppend ==
  ASSUME NEW l \in Seq(Log!Events), NEW e \in Log!Events, NEW E
  PROVE  Log!Number(Append(l, e), E)
           = IF e \in E THEN Log!Number(l, E) + 1 ELSE Log!Number(l, E)
<1>0. PICK l2 : l2 = Append(l, e)
  OBVIOUS
<1>1. /\ l2 \in Seq(Log!Events) /\ Len(l2) = Len(l) + 1
      /\ \A i \in 1 .. Len(l) : l2[i] = l[i]
      /\ l2[Len(l) + 1] = e
  BY <1>0, AppendFacts
<1> DEFINE I == {i \in DOMAIN l : l[i] \in E}
           J == {i \in DOMAIN l2 : l2[i] \in E}
<1>2. Len(l) \in Nat /\ DOMAIN l = 1 .. Len(l) /\ DOMAIN l2 = 1 .. Len(l) + 1
  BY <1>1, LenProperties
<1>3. IsFiniteSet(I) /\ Log!Number(l, E) = Cardinality(I) /\ Log!Number(l2, E) = Cardinality(J)
  BY <1>1, NumberType
<1>4. Len(l) + 1 \notin I
  BY <1>2
<1>5. J = IF e \in E THEN I \cup {Len(l) + 1} ELSE I
  <2>1. \A i : i \in 1 .. Len(l) + 1 <=> i \in 1 .. Len(l) \/ i = Len(l) + 1
    BY <1>2
  <2>2. \A i : i \in J <=> i \in I \/ (i = Len(l) + 1 /\ e \in E)
    BY <1>1, <1>2, <2>1
  <2> HIDE DEF I, J
  <2> QED
    BY <2>2
<1> HIDE DEF I, J
<1>6. Cardinality(J) = IF e \in E THEN Cardinality(I) + 1 ELSE Cardinality(I)
  BY <1>3, <1>4, <1>5, FS_AddElement
<1> QED
  BY <1>0, <1>3, <1>6

\* An empty log has no events of any kind.
LEMMA NumberEmpty ==
  ASSUME NEW E
  PROVE  Log!Number(<<>>, E) = 0
<1>1. <<>> \in Seq(Log!Events)
  BY EmptySeq
<1>2. {i \in DOMAIN <<>> : <<>>[i] \in E} = {}
  OBVIOUS
<1> QED
  BY <1>1, <1>2, NumberType, FS_EmptySet

\* The events of run() are events of the log.
LEMMA EventsOfRun ==
  /\ {"run_started", "setup_ok", "setup_bad", "agent", "verify_ok", "verify_bad"}
       \subseteq Log!Events
  /\ Verdicts \subseteq Log!Events /\ Verdicts = Log!Verdicts
  /\ Log!Attempt \in Log!Events
  /\ Log!Attempt \notin Verdicts \cup
       {"run_started", "setup_ok", "setup_bad", "agent", "verify_ok", "verify_bad"}
BY DEF Log!Attempt, Log!Events, Log!Work, Log!Verdicts, Verdicts

\* The counts of events are numbers.
LEMMA CountsAreNat ==
  ASSUME RunnerType
  PROVE  {SetupOk, SetupBad, Agents, Verifies, VerifyBad, Judged} \subseteq Nat
BY NumberType DEF RunnerType, SetupOk, SetupBad, Agents, Verifies, VerifyBad, Judged

\* How an event that is recorded changes the counts.
LEMMA RecordCounts ==
  ASSUME RunnerType, NEW e \in Log!Events, traj' = Append(traj, e)
  PROVE  /\ traj' \in Seq(Log!Events)
         /\ Started' <=> Started \/ e = "run_started"
         /\ e # Log!Attempt => Ending(traj', e)
         /\ \A v : e = Log!Attempt /\ Ending(traj, v) => Ending(traj', v)
         /\ SetupOk' = IF e = "setup_ok" THEN SetupOk + 1 ELSE SetupOk
         /\ SetupBad' = IF e = "setup_bad" THEN SetupBad + 1 ELSE SetupBad
         /\ Agents' = IF e = "agent" THEN Agents + 1 ELSE Agents
         /\ Verifies' = IF e \in {"verify_ok", "verify_bad"} THEN Verifies + 1 ELSE Verifies
         /\ VerifyBad' = IF e = "verify_bad" THEN VerifyBad + 1 ELSE VerifyBad
         /\ Judged' = IF e \in Log!Verdicts THEN Judged + 1 ELSE Judged
<1>1. traj \in Seq(Log!Events) /\ traj' = Append(traj, e)
  BY DEF RunnerType
<1>2. /\ traj' \in Seq(Log!Events) /\ traj' # <<>>
      /\ Len(traj') = Len(traj) + 1
      /\ \A i \in 1 .. Len(traj) : traj'[i] = traj[i]
      /\ traj'[Len(traj) + 1] = e
  BY <1>1, AppendFacts
<1>a. /\ Len(traj) \in Nat /\ DOMAIN traj = 1 .. Len(traj)
      /\ DOMAIN traj' = 1 .. Len(traj) + 1
  BY <1>1, <1>2, LenProperties
<1>b. \A i : i \in 1 .. Len(traj) + 1 <=> i \in 1 .. Len(traj) \/ i = Len(traj) + 1
  BY <1>a
<1>3. Started' <=> Started \/ e = "run_started"
  BY <1>2, <1>a, <1>b DEF Started, Log!Begun
<1>c. e # Log!Attempt => Ending(traj', e)
  <2>1. Len(traj) + 1 \in DOMAIN traj' /\ \A j \in DOMAIN traj' : ~(j > Len(traj) + 1)
    BY <1>a
  <2> QED
    BY <1>2, <2>1 DEF Ending
<1>d. ASSUME NEW v, e = Log!Attempt, Ending(traj, v)
      PROVE  Ending(traj', v)
  <2>1. PICK i \in DOMAIN traj : /\ traj[i] = v
                                /\ \A j \in DOMAIN traj : j > i => traj[j] = Log!Attempt
    BY <1>d DEF Ending
  <2>2. i \in DOMAIN traj' /\ traj'[i] = v
    BY <1>2, <1>a, <1>b, <2>1
  <2>3. \A j \in DOMAIN traj' : j > i => traj'[j] = Log!Attempt
    BY <1>2, <1>a, <1>b, <1>d, <2>1
  <2> QED
    BY <2>2, <2>3 DEF Ending
<1>4. \A E : Log!Number(traj', E)
               = IF e \in E THEN Log!Number(traj, E) + 1 ELSE Log!Number(traj, E)
  BY <1>1, NumberAppend
<1>5. /\ SetupOk' = Log!Number(traj', {"setup_ok"})
      /\ SetupBad' = Log!Number(traj', {"setup_bad"})
      /\ Agents' = Log!Number(traj', {"agent"})
      /\ Verifies' = Log!Number(traj', {"verify_ok", "verify_bad"})
      /\ VerifyBad' = Log!Number(traj', {"verify_bad"})
      /\ Judged' = Log!Number(traj', Log!Verdicts)
  BY DEF SetupOk, SetupBad, Agents, Verifies, VerifyBad, Judged, Log!Number, Log!Verdicts
<1> QED
  BY <1>2, <1>3, <1>c, <1>d, <1>4, <1>5 DEF SetupOk, SetupBad, Agents, Verifies, VerifyBad, Judged

\* ... and that nothing changes without one.
LEMMA SameCounts ==
  ASSUME UNCHANGED traj
  PROVE  UNCHANGED <<SetupOk, SetupBad, Agents, Verifies, VerifyBad, Judged, Started>>
BY DEF SetupOk, SetupBad, Agents, Verifies, VerifyBad, Judged, Log!Number, Log!Verdicts,
       Log!Begun, Started

-----------------------------------------------------------------------------
(* The inductive invariant, one lemma per step of run().                     *)

LEMMA RunnerInit == Init => RunnerInv
<1> SUFFICES ASSUME Init PROVE RunnerInv
  OBVIOUS
<1>1. RunnerType
  BY EmptySeq DEF Init, RunnerType
<1>2. traj = <<>> /\ \A E : Log!Number(traj, E) = 0
  BY NumberEmpty DEF Init
<1>3. /\ ~Started /\ SetupOk = 0 /\ SetupBad = 0 /\ Agents = 0 /\ Verifies = 0
      /\ VerifyBad = 0 /\ Judged = 0
  BY <1>2 DEF Started, Log!Begun, SetupOk, SetupBad, Agents, Verifies, VerifyBad, Judged
<1> QED
  BY <1>1, <1>3 DEF Init, RunnerInv, Phases, Held

\* The three ways to close the trajectory, and a start that fails.
LEMMA ClosingStep ==
  ASSUME RunnerInv, NEW e \in Verdicts, traj' = Append(traj, e), pc' = "finally", Told(e)',
         pc \in {"start", "broken", "verify", "except"},
         cont' \in {"none", "created", "running", "exited", "removed"},
         UNCHANGED <<box, n, count, ok>>, failed' \in BOOLEAN,
         failed' \/ (pc # "start" /\ UNCHANGED <<cont, failed>>)
  PROVE  RunnerInv'
<1>1. RunnerType /\ e \in Log!Events /\ e # Log!Attempt
  BY EventsOfRun DEF RunnerInv
<1>2. traj' \in Seq(Log!Events) /\ Ending(traj', e)
  BY <1>1, RecordCounts
<1>3. Closed'
  BY <1>2 DEF Closed, Ending
<1>4. RunnerType'
  BY <1>1, <1>2 DEF RunnerType
<1>5. Held'
  BY DEF RunnerInv, Held
<1>6. Phases'
  BY DEF Phases
<1> QED
  BY <1>3, <1>4, <1>5, <1>6 DEF RunnerInv

\* sandbox.start(): the log still has no event of run(), unless Docker fails.
LEMMA StartStep ==
  ASSUME RunnerInv, Start
  PROVE  RunnerInv'
<1>1. RunnerType /\ pc = "start" /\ cont = "none"
  BY DEF Start, RunnerInv, Held
<1>2. CASE pc' = "announce"
  <2>1. UNCHANGED <<traj, failed, n, count, ok>> /\ box' /\ cont' = "running"
    BY <1>2 DEF Start
  <2> QED
    BY <1>1, <1>2, <2>1, SameCounts DEF RunnerInv, RunnerType, Phases, Held
<1>3. CASE pc' = "finally"
  <2>1. /\ Record("error") /\ result' = "error" /\ failed' = TRUE
        /\ cont' \in {"none", "created", "removed"} /\ UNCHANGED <<box, n, count, ok>>
    BY <1>3 DEF Start
  <2>2. Told("error")' /\ "error" \in Verdicts
    BY <2>1 DEF Told, Verdicts
  <2> QED
    BY <1>1, <1>3, <2>1, <2>2, ClosingStep DEF Record
<1>4. CASE pc' = "except"
  <2>1. /\ UNCHANGED <<traj, box, n, count, ok>> /\ failed' = TRUE
        /\ cont' \in {"none", "created", "running"}
    BY <1>4 DEF Start
  <2>2. Judged' = 0
    BY <1>1, <2>1, SameCounts DEF RunnerInv, Phases
  <2> QED
    BY <1>1, <1>4, <2>1, <2>2 DEF RunnerInv, RunnerType, Phases, Held
<1> QED
  BY <1>2, <1>3, <1>4 DEF Start

LEMMA AnnounceStep ==
  ASSUME RunnerInv, Announce
  PROVE  RunnerInv'
<1>1. RunnerType /\ pc = "announce" /\ n = 0 /\ count = 0 /\ ok
  BY DEF Announce, RunnerInv, Phases
<1>2. /\ SetupOk = 0 /\ SetupBad = 0 /\ Agents = 0
      /\ Verifies = 0 /\ VerifyBad = 0 /\ Judged = 0
  BY <1>1 DEF RunnerInv, Phases
<1>3. /\ traj' \in Seq(Log!Events) /\ Started'
      /\ SetupOk' = 0 /\ SetupBad' = 0 /\ Agents' = 0
      /\ Verifies' = 0 /\ VerifyBad' = 0 /\ Judged' = 0
  BY <1>1, <1>2, RecordCounts, EventsOfRun DEF Announce, Record, Log!Verdicts
<1> QED
  BY <1>1, <1>3, ConstantsAssumption DEF Announce, RunnerInv, RunnerType, Phases, Held

\* An exception in a phase: nothing is logged yet, the handler will do that.
LEMMA RaisesStep ==
  ASSUME RunnerInv, UNCHANGED <<cont, box, traj, n, ok, count>>, pc' = "except",
         failed' \in BOOLEAN, failed => failed',
         pc \in {"setup", "agent", "verify"}
  PROVE  RunnerInv'
<1>1. Judged' = 0
  BY SameCounts DEF RunnerInv, Phases
<1> QED
  BY <1>1 DEF RunnerInv, RunnerType, Phases, Held

LEMMA SetupStep ==
  ASSUME RunnerInv, Setup
  PROVE  RunnerInv'
<1>1. /\ RunnerType /\ pc = "setup" /\ Started /\ Judged = 0 /\ SetupBad = 0
      /\ Agents = count /\ Verifies = 0 /\ VerifyBad = 0 /\ ok /\ SetupOk = n
      /\ n < NSetup /\ UNCHANGED <<cont, box, result, params>>
  BY DEF Setup, RunnerInv, Phases
<1>2. CASE Record("setup_ok") /\ n' = n + 1 /\ UNCHANGED <<pc, ok, count, failed>>
  <2>1. /\ traj' \in Seq(Log!Events) /\ Started' /\ Judged' = 0 /\ SetupBad' = 0
        /\ Agents' = count /\ Verifies' = 0 /\ VerifyBad' = 0 /\ SetupOk' = n + 1
    BY <1>1, <1>2, RecordCounts, EventsOfRun DEF Record, Log!Verdicts
  <2>2. n + 1 \in Nat /\ n + 1 <= NSetup
    BY <1>1, ConstantsAssumption DEF RunnerType
  <2> QED
    BY <1>1, <1>2, <2>1, <2>2 DEF RunnerInv, RunnerType, Phases, Held
<1>3. CASE Record("setup_bad") /\ pc' = "broken" /\ UNCHANGED <<n, ok, count, failed>>
  <2>1. traj' \in Seq(Log!Events) /\ Started' /\ Judged' = 0
    BY <1>1, <1>3, RecordCounts, EventsOfRun DEF Record, Log!Verdicts
  <2> QED
    BY <1>1, <1>3, <2>1 DEF RunnerInv, RunnerType, Phases, Held
<1>4. CASE Raises
  BY <1>1, <1>4, RaisesStep DEF Raises
<1> QED
  BY <1>2, <1>3, <1>4 DEF Setup

LEMMA AgentStep ==
  ASSUME RunnerInv, Agent
  PROVE  RunnerInv'
<1>1. /\ RunnerType /\ pc \in {"setup", "agent"} /\ Started /\ Judged = 0
      /\ SetupBad = 0 /\ Agents = count /\ Verifies = 0 /\ VerifyBad = 0 /\ ok
      /\ SetupOk = NSetup /\ UNCHANGED <<cont, box, result, params>>
  BY DEF Agent, RunnerInv, Phases
<1>2. CASE Record("agent") /\ count' = count + 1 /\ pc' = "agent" /\ UNCHANGED <<n, ok, failed>>
  <2>1. /\ traj' \in Seq(Log!Events) /\ Started' /\ Judged' = 0 /\ SetupBad' = 0
        /\ Agents' = count + 1 /\ Verifies' = 0 /\ VerifyBad' = 0 /\ SetupOk' = NSetup
    BY <1>1, <1>2, RecordCounts, EventsOfRun DEF Record, Log!Verdicts
  <2>2. count + 1 \in Nat
    BY <1>1 DEF RunnerType
  <2> QED
    BY <1>1, <1>2, <2>1, <2>2 DEF RunnerInv, RunnerType, Phases, Held
<1>3. CASE pc' = "except" /\ UNCHANGED <<traj, n, ok, count>> /\ failed' \in {TRUE, failed}
  BY <1>1, <1>3, RaisesStep DEF RunnerType
<1>4. CASE failed' /\ failed' \in BOOLEAN /\ pc' = "agent" /\ UNCHANGED <<traj, n, ok, count>>
  BY <1>1, <1>4, SameCounts DEF RunnerInv, RunnerType, Phases, Held
<1>5. CASE pc' = "verify" /\ n' = 0 /\ UNCHANGED <<traj, ok, count, failed>>
  BY <1>1, <1>5, SameCounts, ConstantsAssumption DEF RunnerInv, RunnerType, Phases, Held
<1> QED
  BY <1>2, <1>3, <1>4, <1>5 DEF Agent, Raises

LEMMA VerifyStep ==
  ASSUME RunnerInv, Verify
  PROVE  RunnerInv'
<1>1. /\ RunnerType /\ pc = "verify" /\ Started /\ Judged = 0
      /\ SetupBad = 0 /\ Agents = count /\ Verifies = n /\ (ok <=> VerifyBad = 0)
      /\ SetupOk = NSetup /\ n < NVerify /\ UNCHANGED <<cont, box, result, params>>
  BY DEF Verify, RunnerInv, Phases
<1>2. ASSUME NEW good \in BOOLEAN,
             Record(IF good THEN "verify_ok" ELSE "verify_bad"),
             ok' = (ok /\ good), n' = n + 1, UNCHANGED <<pc, count, failed>>
      PROVE  RunnerInv'
  <2>1. n + 1 \in Nat /\ n + 1 <= NVerify
    BY <1>1, ConstantsAssumption DEF RunnerType
  <2>2. VerifyBad \in Nat
    BY <1>1, CountsAreNat
  <2>3. /\ traj' \in Seq(Log!Events) /\ Started' /\ Judged' = 0 /\ SetupBad' = 0
        /\ Agents' = count /\ Verifies' = n + 1 /\ SetupOk' = NSetup
        /\ VerifyBad' = IF good THEN VerifyBad ELSE VerifyBad + 1
    <3>1. CASE good
      BY <1>1, <1>2, <3>1, RecordCounts, EventsOfRun DEF Record, Log!Verdicts
    <3>2. CASE ~good
      BY <1>1, <1>2, <3>2, RecordCounts, EventsOfRun DEF Record, Log!Verdicts
    <3> QED
      BY <3>1, <3>2
  <2>4. (ok' <=> VerifyBad' = 0) /\ ok' \in BOOLEAN
    <3>1. CASE good
      BY <1>1, <1>2, <2>3, <3>1 DEF RunnerType
    <3>2. CASE ~good
      BY <1>2, <2>2, <2>3, <3>2
    <3> QED
      BY <3>1, <3>2
  <2> QED
    BY <1>1, <1>2, <2>1, <2>3, <2>4 DEF RunnerInv, RunnerType, Phases, Held
<1>3. CASE Raises
  BY <1>1, <1>3, RaisesStep DEF Raises
<1> QED
  BY <1>2, <1>3 DEF Verify

LEMMA FinallyStep ==
  ASSUME RunnerInv, Finally
  PROVE  RunnerInv'
<1>1. RunnerType /\ pc = "finally" /\ pc' = "done" /\ UNCHANGED <<traj, n, count, ok, result>>
  BY DEF Finally, RunnerInv
<1>2. Closed => Closed'
  BY <1>1 DEF Closed, Told
<1>3. ~failed' => cont' = "removed"
  BY DEF Finally, RunnerInv, RunnerType, Held
<1>4. RunnerType'
  BY DEF Finally, RunnerInv, RunnerType
<1> QED
  BY <1>1, <1>2, <1>3, <1>4 DEF RunnerInv, Phases, Held

LEMMA CutShortStep ==
  ASSUME RunnerInv, CutShort
  PROVE  RunnerInv'
<1>1. /\ RunnerType /\ pc = "finally" /\ pc' = "cut" /\ failed' = TRUE
      /\ UNCHANGED <<traj, n, count, ok>>
      /\ result = "interrupted" => result' = "interrupted"
  BY DEF CutShort, RunnerInv
<1>2. Closed => Closed'
  BY <1>1 DEF Closed
<1>3. RunnerType'
  BY DEF CutShort, RunnerInv, RunnerType
<1> QED
  BY <1>1, <1>2, <1>3 DEF RunnerInv, Phases, Held

LEMMA InterruptStep ==
  ASSUME RunnerInv, Interrupt
  PROVE  RunnerInv'
<1>1. RunnerType'
  BY DEF Interrupt, RunnerInv, RunnerType
<1>2. pc' = "finally" /\ result' = "interrupted" /\ UNCHANGED box
  BY DEF Interrupt
<1>3. ~failed' => ~failed /\ pc \notin {"start", "done", "cut", "killed"}
  BY DEF Interrupt
<1>4. ~failed' => box'
  BY <1>2, <1>3 DEF RunnerInv, RunnerType, Held
<1> QED
  BY <1>1, <1>2, <1>4 DEF RunnerInv, Phases, Held

LEMMA AttemptStep ==
  ASSUME RunnerInv, EgressAttempt
  PROVE  RunnerInv'
<1>1. /\ RunnerType /\ traj' = Append(traj, Log!Attempt)
      /\ UNCHANGED <<pc, cont, box, n, count, ok, result, failed>>
  BY DEF EgressAttempt, Record, RunnerInv
<1>2. /\ traj' \in Seq(Log!Events) /\ (Started' <=> Started)
      /\ UNCHANGED <<SetupOk, SetupBad, Agents, Verifies, VerifyBad, Judged>>
  BY <1>1, RecordCounts, EventsOfRun
<1>3. Closed => Closed'
  <2>1. \A v : Ending(traj, v) => Ending(traj', v)
    BY <1>1, RecordCounts, EventsOfRun
  <2>2. \A v : Ending(traj, v)' <=> Ending(traj', v)
    BY DEF Ending
  <2> QED
    BY <1>1, <2>1, <2>2 DEF Closed, Told
<1>4. RunnerType' /\ Held'
  BY <1>1, <1>2 DEF RunnerInv, RunnerType, Held
<1>5. Phases'
  BY <1>1, <1>2 DEF RunnerInv, Phases
<1> QED
  BY <1>1, <1>3, <1>4, <1>5 DEF RunnerInv

LEMMA RunnerInvStep ==
  ASSUME RunnerInv, [Next]_vars
  PROVE  RunnerInv'
<1>1. CASE Broken
  <2>1. /\ Told("error")' /\ "error" \in Verdicts
    BY <1>1 DEF Broken, Told, Verdicts
  <2> QED
    BY <1>1, <2>1, ClosingStep DEF Broken, Record, RunnerInv, RunnerType
<1>2. CASE Verdict
  <2>0. PICK e : e = IF ok THEN "passed" ELSE IF count = 0 THEN "noact" ELSE "failed"
    OBVIOUS
  <2>1. /\ Told(e)' /\ e \in Verdicts
    BY <1>2, <2>0 DEF Verdict, Told, Verdicts
  <2>2. /\ traj' = Append(traj, e) /\ pc = "verify" /\ pc' = "finally"
        /\ UNCHANGED <<cont, box, n, count, ok, failed>>
    BY <1>2, <2>0 DEF Verdict, Record
  <2>3. cont \in {"none", "created", "running", "exited", "removed"} /\ failed \in BOOLEAN
    BY DEF RunnerInv, RunnerType
  <2> QED
    BY <2>1, <2>2, <2>3, ClosingStep
<1>3. CASE Except
  <2>1. /\ Told("error")' /\ "error" \in Verdicts
    BY <1>3 DEF Except, Told, Verdicts
  <2> QED
    BY <1>3, <2>1, ClosingStep DEF Except, Record, RunnerInv, RunnerType
<1>4. CASE Kill
  BY <1>4 DEF Kill, RunnerInv, RunnerType, Phases, Held
<1>5. CASE UNCHANGED vars
  <2>1. Closed' <=> Closed
    BY <1>5 DEF vars, Closed, Told, Ending
  <2> QED
    BY <1>5, <2>1, SameCounts DEF vars, RunnerInv, RunnerType, Phases, Held
<1> QED
  BY <1>1, <1>2, <1>3, <1>4, <1>5, StartStep, AnnounceStep, SetupStep, AgentStep,
     VerifyStep, FinallyStep, CutShortStep, InterruptStep, AttemptStep DEF Next, Step

\* The inductive invariant of run(): its local variables say what is logged.
THEOREM RunnerInvariant == Spec => []RunnerInv
<1>1. RunnerInv /\ [Next]_vars => RunnerInv'
  BY RunnerInvStep
<1> QED
  BY <1>1, RunnerInit, PTL DEF Spec

\* Whichever Exception is raised where, a run that is neither killed nor interrupted
\* has logged one verdict when it ends, with nothing but egress attempts after it, and
\* it reports that one (try / except / finally of run()).
THEOREM ResultIsLoggedAlways == Spec => []ResultIsLogged
<1>1. RunnerInv => ResultIsLogged
  BY DEF RunnerInv, Closed, Ending, ResultIsLogged
<1> QED
  BY <1>1, RunnerInvariant, PTL

\* If no Docker call fails the container is gone when run() ends, interrupted in one of
\* its phases or not (finally of run()).
THEOREM NoContainerLeftAlways == Spec => []NoContainerLeft
<1>1. RunnerInv => NoContainerLeft
  BY DEF RunnerInv, Held, NoContainerLeft
<1> QED
  BY <1>1, RunnerInvariant, PTL
-----------------------------------------------------------------------------
(* Refinement of RunLog.                                                    *)

\* When an event may follow, in terms of the counts.
May(e) ==
  \/ e = "run_started" /\ ~Started
  \/ e = "error"
  \/ e \in {"setup_ok", "setup_bad"} /\ Started /\ SetupOk # NSetup
  \/ e = "agent" /\ Started /\ SetupOk = NSetup /\ Verifies = 0
  \/ /\ e \in {"verify_ok", "verify_bad"}
     /\ Started /\ SetupOk = NSetup /\ Verifies # NVerify
  \/ /\ Started /\ SetupOk = NSetup /\ Verifies = NVerify
     /\ \/ e = "passed" /\ VerifyBad = 0
        \/ e = "failed" /\ VerifyBad > 0 /\ Agents > 0
        \/ e = "noact" /\ VerifyBad > 0 /\ Agents = 0

\* Recording an event that may follow is a step of the log.
LEMMA LogAdd ==
  ASSUME NEW e, traj' = Append(traj, e), May(e), Judged = 0, SetupBad = 0 \/ e = "error"
  PROVE  Log!Next
<1> DEFINE f == [r \in {"run"} |-> traj]
<1>1. f["run"] = traj /\ [r \in {"run"} |-> traj'] = [f EXCEPT !["run"] = Append(@, e)]
  BY Zenon
<1>2. e \in Log!Events
  BY DEF May, Log!Events, Log!Work, Log!Verdicts
<1>3. Log!MayFollow(traj, e)
  <2>1. /\ Log!SetUp(traj) <=> Started /\ SetupOk = NSetup
        /\ Log!Verified(traj) <=> Started /\ SetupOk = NSetup /\ Verifies = NVerify
        /\ Log!Begun(traj) <=> Started
    BY DEF Log!SetUp, Log!Verified, Started, SetupOk, Verifies
  <2>2. /\ Log!Number(traj, Log!Verdicts) = 0
        /\ Log!Number(traj, {"setup_bad"}) = SetupBad
        /\ Log!Number(traj, {"verify_ok", "verify_bad"}) = Verifies
        /\ Log!Number(traj, {"verify_bad"}) = VerifyBad
        /\ Log!Number(traj, {"agent"}) = Agents
    BY DEF SetupBad, Verifies, VerifyBad, Agents, Judged
  <2>3. Log!Number(traj, {"setup_bad"}) > 0 => e = "error"
    BY <2>2
  <2>4. CASE e \in {"run_started", "error", "setup_ok", "setup_bad"}
    BY <2>1, <2>2, <2>3, <2>4 DEF May, Log!MayFollow, Log!Work
  <2>5. CASE e \in {"agent", "verify_ok", "verify_bad"}
    BY <2>1, <2>2, <2>3, <2>5 DEF May, Log!MayFollow, Log!Work
  <2>6. CASE e \in {"passed", "failed", "noact"}
    BY <2>1, <2>2, <2>3, <2>6 DEF May, Log!MayFollow, Log!Work
  <2> QED
    BY <2>4, <2>5, <2>6 DEF May
<1> QED
  BY <1>1, <1>2, <1>3 DEF Log!Next

\* So is an egress attempt, at any time.
LEMMA LogAttempt ==
  ASSUME traj' = Append(traj, Log!Attempt)
  PROVE  Log!Next
<1> DEFINE f == [r \in {"run"} |-> traj]
<1>1. f["run"] = traj /\ [r \in {"run"} |-> traj'] = [f EXCEPT !["run"] = Append(@, Log!Attempt)]
  BY Zenon
<1> QED
  BY <1>1, EventsOfRun DEF Log!Next

\* Every step of run() records an event that may follow, or none.
LEMMA LogStep ==
  ASSUME RunnerInv, [Next]_vars
  PROVE  Log!Next \/ UNCHANGED traj
<1>1. VerifyBad \in Nat /\ count \in Nat /\ n \in Nat
  BY CountsAreNat DEF RunnerInv, RunnerType
<1>2. CASE Start
  <2>1. Judged = 0
    BY <1>2 DEF Start, RunnerInv, Phases
  <2> QED
    BY <1>2, <2>1, LogAdd DEF Start, Record, May
<1>3. CASE Announce
  <2>1. ~Started /\ Judged = 0 /\ SetupBad = 0
    BY <1>3 DEF Announce, RunnerInv, Phases
  <2> QED
    BY <1>3, <2>1, LogAdd DEF Announce, Record, May
<1>4. CASE Setup
  <2>1. Started /\ Judged = 0 /\ SetupBad = 0 /\ SetupOk # NSetup
    BY <1>1, <1>4, ConstantsAssumption DEF Setup, RunnerInv, Phases
  <2> QED
    BY <1>4, <2>1, LogAdd DEF Setup, Raises, Record, May
<1>5. CASE Agent
  <2>1. (Started /\ Judged = 0 /\ SetupBad = 0 /\ SetupOk = NSetup) \/ UNCHANGED traj
    BY <1>5 DEF Agent, RunnerInv, Phases
  <2>2. Verifies = 0 \/ UNCHANGED traj
    BY <1>5 DEF Agent, RunnerInv, Phases
  <2> QED
    BY <1>5, <2>1, <2>2, LogAdd DEF Agent, Raises, Record, May
<1>6. CASE Verify
  <2>1. Started /\ Judged = 0 /\ SetupBad = 0 /\ SetupOk = NSetup /\ Verifies # NVerify
    BY <1>1, <1>6, ConstantsAssumption DEF Verify, RunnerInv, Phases
  <2> QED
    BY <1>6, <2>1, LogAdd DEF Verify, Raises, Record, May
<1>7. CASE Verdict
  <2>1. /\ Started /\ Judged = 0 /\ SetupBad = 0 /\ SetupOk = NSetup /\ Verifies = NVerify
        /\ Agents = count /\ (ok <=> VerifyBad = 0)
    BY <1>7 DEF Verdict, RunnerInv, Phases
  <2>2. VerifyBad = 0 \/ VerifyBad > 0
    BY <1>1
  <2>3. count = 0 \/ count > 0
    BY <1>1
  <2> QED
    BY <1>7, <2>1, <2>2, <2>3, LogAdd DEF Verdict, Record, May
<1>8. CASE Broken
  BY <1>8, LogAdd DEF Broken, Record, May, RunnerInv, Phases
<1>9. CASE Except
  BY <1>9, LogAdd DEF Except, Record, May, RunnerInv, Phases
<1> QED
  BY <1>2, <1>3, <1>4, <1>5, <1>6, <1>7, <1>8, <1>9,
     LogAttempt DEF Next, Step, Finally, CutShort, Interrupt, EgressAttempt, Record, Kill, vars

\* The trajectory of a run is the log of one run: its events come in the order of the
\* phases and close with at most one verdict, the one they deserve (run()).
THEOREM RunnerImplementsRunLog == Spec => ImplementsRunLog
<1>1. Init => Log!Init
  BY DEF Init, Log!Init
<1>2. RunnerInv /\ [Next]_vars => [Log!Next]_[r \in {"run"} |-> traj]
  BY LogStep
<1> QED
  BY <1>1, <1>2, RunnerInvariant, PTL DEF Spec, ImplementsRunLog, Log!Spec
=============================================================================
