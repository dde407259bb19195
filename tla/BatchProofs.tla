----------------------------- MODULE BatchProofs -----------------------------
(***************************************************************************)
(* Proofs about Batch and Reports, for any tasks, timeout, window and number *)
(* of runs.  A trajectory is a chain of choices of other processes; what is   *)
(* certain of it (WellFormed, Grows) is that a verdict in it is lost by        *)
(* nothing but a torn line, though another may follow.  The exit code stands   *)
(* on that (Earned), the choice of a trajectory on the clock (Lonely), and     *)
(* compare on the arithmetic of rates that are rounded down (RatesCompare).    *)
(***************************************************************************)
EXTENDS Batch, FiniteSetTheorems, SequenceTheorems, TLAPS

Outcomes == {"passed", "failed", "error"}

Statuses == Outcomes \cup {"none", "incomplete", "no-trajectory", "timeout", "skipped"}

Ages == 0 .. MaxAge

Waits == 0 .. PerTask

Run == [task : ToSet(Tasks), alive : BOOLEAN, age : Ages, begun : BOOLEAN,
        verdict : Outcomes \cup {"none"}, last : {"absent", "work", "finish", "torn"},
        session : {"none", "live", "over", "closed"}, judged : SUBSET Outcomes]

\* What a trajectory can look like.
WellFormed(r) ==
  /\ r.last = "absent" =>
       ~r.begun /\ r.verdict = "none" /\ r.age = MaxAge /\ r.session = "none"
  /\ r.last = "work" => r.begun
  /\ r.last = "finish" => r.verdict # "none"
  /\ r.verdict \in {"passed", "failed"} => r.begun
  /\ IF r.verdict = "none" THEN r.judged = {} ELSE r.verdict \in r.judged
  /\ r.session \in {"live", "over"} => r.begun \/ r.last = "torn"

Typed ==
  /\ runs \in Seq(Run)
  /\ \A k \in DOMAIN runs : WellFormed(runs[k])
  /\ pc \in {"off", "next", "wait"}
  /\ todo \in Seq(ToSet(Tasks))
  /\ pc = "wait" => todo # <<>>
  /\ cur \in Nat
  /\ elapsed \in Waits
  /\ alone \in BOOLEAN
  /\ results \in [ToSet(Tasks) -> [status : Statuses, run : Nat]]
  /\ exit \in {"none", "0", "1"}

-----------------------------------------------------------------------------
(* Sequences of runs.                                                        *)

LEMMA TasksFacts ==
  /\ Tasks \in Seq(ToSet(Tasks))
  /\ ToSet(Tasks) = {Tasks[i] : i \in DOMAIN Tasks}
<1>1. Tasks \in Seq(STRING)
  BY BatchAssumption
<1>2. ToSet(Tasks) = {Tasks[i] : i \in DOMAIN Tasks}
  BY DEF ToSet
<1>3. DOMAIN Tasks = 1 .. Len(Tasks) /\ Len(Tasks) \in Nat
  BY <1>1
<1>4. Tasks \in [1 .. Len(Tasks) -> ToSet(Tasks)]
  BY <1>1, <1>2, <1>3
<1> QED
  BY <1>2, <1>3, <1>4

\* What the assumptions say of the constants.
LEMMA Numbers ==
  /\ PerTask \in Nat /\ MaxAge \in Nat /\ Window \in Nat /\ MaxRuns \in Nat
  /\ MaxAge > PerTask + 1 /\ MaxAge > Window
  /\ Verdicts \subseteq Outcomes
BY BatchAssumption DEF Outcomes

\* What may become of a run: a verdict is lost by nothing but a torn line, which stays.
Grows(r, q) ==
  /\ q.task = r.task
  /\ r.last # "absent" => q.last # "absent"
  /\ r.last = "torn" => q.last = "torn"
  /\ r.begun /\ "passed" \in r.judged => q.last = "torn" \/ (q.begun /\ "passed" \in q.judged)

\* write() of a run whose file a torn line made unreadable, or not.
LEMMA WriteMoves ==
  ASSUME Typed, NEW k \in DOMAIN runs, NEW q \in Run, Write(k, q), q.last # "absent",
         runs[k].last # "torn" => WellFormed(q) /\ Grows(runs[k], q)
  PROVE  \E r \in Run : /\ WellFormed(r) /\ Grows(runs[k], r)
                        /\ runs' = [runs EXCEPT ![k] = r] /\ UNCHANGED batch
<1>1. runs[k] \in Run /\ WellFormed(runs[k])
  BY DEF Typed
<1>2. 0 \in Ages
  BY Numbers DEF Ages
<1>3. CASE runs[k].last # "torn"
  <2>1. PICK r : r = [q EXCEPT !.age = 0]
    OBVIOUS
  <2>2. r \in Run
    BY <1>2, <2>1 DEF Run
  <2>3. /\ r.task = q.task /\ r.last = q.last /\ r.begun = q.begun /\ r.verdict = q.verdict
        /\ r.judged = q.judged /\ r.session = q.session
    BY <2>1 DEF Run
  <2>4. WellFormed(r) /\ Grows(runs[k], r)
    BY <1>3, <2>3 DEF WellFormed, Grows
  <2>5. runs' = [runs EXCEPT ![k] = r] /\ UNCHANGED batch
    BY <1>3, <2>1 DEF Write, Set
  <2> QED
    BY <2>2, <2>4, <2>5
<1>4. CASE runs[k].last = "torn"
  <2>1. PICK r : r = [runs[k] EXCEPT !.age = 0, !.session = q.session]
    OBVIOUS
  <2>2. r \in Run
    <3>1. q.session \in {"none", "live", "over", "closed"}
      BY DEF Run
    <3> QED
      BY <1>1, <1>2, <2>1, <3>1 DEF Run
  <2>3. /\ r.task = runs[k].task /\ r.last = "torn" /\ r.begun = runs[k].begun
        /\ r.verdict = runs[k].verdict /\ r.judged = runs[k].judged
    BY <1>1, <1>4, <2>1 DEF Run
  <2>4. WellFormed(r) /\ Grows(runs[k], r)
    BY <1>1, <1>4, <2>3 DEF WellFormed, Grows
  <2>5. runs' = [runs EXCEPT ![k] = r] /\ UNCHANGED batch
    BY <1>4, <2>1 DEF Write, Set
  <2> QED
    BY <2>2, <2>4, <2>5
<1> QED
  BY <1>3, <1>4

\* An agent changes its own run only, and nothing that was decided in it.
LEMMA AgentMoves ==
  ASSUME Typed, NEW k \in DOMAIN runs, Agent(k)
  PROVE  /\ runs[k].alive
         /\ \E r \in Run : /\ WellFormed(r) /\ Grows(runs[k], r)
                           /\ runs' = [runs EXCEPT ![k] = r] /\ UNCHANGED batch
<1>a. runs[k].alive
  BY DEF Agent, StartTask, Work, Finish, Delete, Gone
<1>1. PICK r : r = runs[k]
  OBVIOUS
<1>2. r \in Run /\ WellFormed(r)
  BY <1>1 DEF Typed
<1>3. ASSUME NEW q \in Run, WellFormed(q) /\ Grows(r, q), Set(k, q)
      PROVE  \E x \in Run : /\ WellFormed(x) /\ Grows(runs[k], x)
                            /\ runs' = [runs EXCEPT ![k] = x] /\ UNCHANGED batch
  BY <1>1, <1>3 DEF Set
<1>4. CASE StartTask(k)
  <2>1. r.last = "absent"
    BY <1>1, <1>4 DEF StartTask
  <2>2. CASE Write(k, [runs[k] EXCEPT !.last = "work", !.begun = TRUE, !.session = "live"])
    <3>1. PICK q : q = [r EXCEPT !.last = "work", !.begun = TRUE, !.session = "live"]
      OBVIOUS
    <3>2. q \in Run
      BY <1>2, <3>1 DEF Run
    <3>3. /\ q.task = r.task /\ q.last = "work" /\ q.begun = TRUE /\ q.verdict = r.verdict
          /\ q.session = "live" /\ q.judged = r.judged
      BY <1>2, <3>1 DEF Run
    <3>4. WellFormed(q) /\ Grows(r, q)
      BY <1>2, <2>1, <3>3 DEF WellFormed, Grows
    <3> QED
      BY <1>1, <1>a, <2>2, <3>1, <3>2, <3>3, <3>4, WriteMoves
  <2>3. CASE Write(k, [runs[k] EXCEPT !.last = "finish", !.verdict = "error",
                                     !.judged = {"error"}, !.session = "closed"])
    <3>1. PICK q : q = [r EXCEPT !.last = "finish", !.verdict = "error",
                                 !.judged = {"error"}, !.session = "closed"]
      OBVIOUS
    <3>2. q \in Run
      <4>1. "error" \in Outcomes \cup {"none"} /\ {"error"} \in SUBSET Outcomes
        BY DEF Outcomes
      <4> QED
        BY <1>2, <3>1, <4>1 DEF Run
    <3>3. /\ q.task = r.task /\ q.last = "finish" /\ q.begun = r.begun /\ q.verdict = "error"
          /\ q.session = "closed" /\ q.judged = {"error"}
      BY <1>2, <3>1 DEF Run
    <3>4. WellFormed(q) /\ Grows(r, q)
      BY <1>2, <2>1, <3>3 DEF WellFormed, Grows
    <3> QED
      BY <1>1, <1>a, <2>3, <3>1, <3>2, <3>3, <3>4, WriteMoves
  <2> QED
    BY <1>4, <1>a, <2>2, <2>3 DEF StartTask
<1>5. CASE Work(k)
  <2>1. r.session \in {"live", "over"}
    BY <1>1, <1>5 DEF Work
  <2>2. PICK q : q = [r EXCEPT !.last = "work"]
    OBVIOUS
  <2>3. q \in Run
    BY <1>2, <2>2 DEF Run
  <2>4. /\ q.task = r.task /\ q.last = "work" /\ q.begun = r.begun /\ q.verdict = r.verdict
        /\ q.session = r.session /\ q.judged = r.judged
    BY <1>2, <2>2 DEF Run
  <2>5. r.last # "torn" => WellFormed(q) /\ Grows(r, q)
    BY <1>2, <2>1, <2>4 DEF WellFormed, Grows
  <2>6. Write(k, q)
    BY <1>1, <1>5, <2>2 DEF Work
  <2> QED
    BY <1>1, <1>a, <2>3, <2>4, <2>5, <2>6, WriteMoves
<1>6. CASE Finish(k)
  <2>1. r.session = "live"
    BY <1>1, <1>6 DEF Finish
  <2>2. ASSUME NEW v \in Verdicts,
               Write(k, [runs[k] EXCEPT !.last = "finish", !.verdict = v,
                                        !.judged = @ \cup {v}, !.session = "over"])
        PROVE  \E x \in Run : /\ WellFormed(x) /\ Grows(runs[k], x)
                              /\ runs' = [runs EXCEPT ![k] = x] /\ UNCHANGED batch
    <3>1. PICK j : j = r.judged \cup {v}
      OBVIOUS
    <3>2. v \in Outcomes /\ v # "none" /\ j \in SUBSET Outcomes
      <4>1. v \in Outcomes /\ r.judged \in SUBSET Outcomes
        BY <1>2, Numbers DEF Run
      <4> QED
        BY <3>1, <4>1 DEF Outcomes
    <3>3. PICK q : q = [r EXCEPT !.last = "finish", !.verdict = v, !.judged = j, !.session = "over"]
      OBVIOUS
    <3>4. q \in Run
      BY <1>2, <3>2, <3>3 DEF Run
    <3>5. /\ q.task = r.task /\ q.last = "finish" /\ q.begun = r.begun /\ q.verdict = v
          /\ q.session = "over" /\ q.judged = j
      BY <1>2, <3>3 DEF Run
    <3>6. r.last # "torn" => WellFormed(q) /\ Grows(r, q)
      BY <1>2, <2>1, <3>1, <3>2, <3>5 DEF WellFormed, Grows
    <3>7. Write(k, q)
      BY <1>1, <2>2, <3>1, <3>3
    <3> QED
      BY <1>1, <3>4, <3>5, <3>6, <3>7, WriteMoves
  <2>3. CASE Set(k, [runs[k] EXCEPT !.session = "over"])
    <3>1. PICK q : q = [r EXCEPT !.session = "over"]
      OBVIOUS
    <3>2. q \in Run /\ WellFormed(q) /\ Grows(r, q)
      BY <1>2, <2>1, <3>1 DEF Run, WellFormed, Grows
    <3> QED
      BY <1>1, <1>3, <1>a, <2>3, <3>1, <3>2
  <2> QED
    BY <1>6, <1>a, <2>2, <2>3 DEF Finish
<1>7. CASE Delete(k)
  <2>1. r.session = "over" /\ Set(k, [runs[k] EXCEPT !.session = "closed"])
    BY <1>1, <1>7 DEF Delete
  <2>2. PICK q : q = [r EXCEPT !.session = "closed"]
    OBVIOUS
  <2>3. q \in Run /\ WellFormed(q) /\ Grows(r, q)
    BY <1>2, <2>1, <2>2 DEF Run, WellFormed, Grows
  <2> QED
    BY <1>1, <1>3, <1>a, <2>1, <2>2, <2>3
<1>8. CASE Gone(k)
  <2>1. CASE Set(k, [runs[k] EXCEPT !.alive = FALSE])
    <3>1. PICK q : q = [r EXCEPT !.alive = FALSE]
      OBVIOUS
    <3>2. q \in Run /\ WellFormed(q) /\ Grows(r, q)
      BY <1>2, <3>1 DEF Run, WellFormed, Grows
    <3> QED
      BY <1>1, <1>3, <1>a, <2>1, <3>1, <3>2
  <2>2. CASE Set(k, [runs[k] EXCEPT !.alive = FALSE, !.age = 0, !.last = "torn",
                                   !.begun = FALSE, !.verdict = "none", !.judged = {}])
    <3>1. PICK q : q = [r EXCEPT !.alive = FALSE, !.age = 0, !.last = "torn",
                                 !.begun = FALSE, !.verdict = "none", !.judged = {}]
      OBVIOUS
    <3>2. q \in Run
      <4>1. 0 \in Ages
        BY Numbers DEF Ages
      <4> QED
        BY <1>2, <3>1, <4>1 DEF Run
    <3>3. q.task = r.task /\ q.last = "torn" /\ q.verdict = "none" /\ q.judged = {}
      BY <1>2, <3>1 DEF Run
    <3>4. WellFormed(q) /\ Grows(r, q)
      BY <3>3 DEF WellFormed, Grows
    <3> QED
      BY <1>1, <1>3, <1>a, <2>2, <3>1, <3>2, <3>4
  <2> QED
    BY <1>8, <1>a, <2>1, <2>2 DEF Gone
<1> QED
  BY <1>4, <1>5, <1>6, <1>7, <1>8, <1>a DEF Agent

\* A session that is taken up again loses nothing of its file.
LEMMA ResumeMoves ==
  ASSUME Typed, NEW k \in DOMAIN runs, Resume(k)
  PROVE  \E r \in Run : /\ WellFormed(r) /\ Grows(runs[k], r) /\ r.task = runs[k].task
                        /\ runs' = [runs EXCEPT ![k] = r]
<1>1. runs \in Seq(Run) /\ runs[k] \in Run /\ WellFormed(runs[k])
  BY DEF Typed
<1>2. PICK r : r = [runs[k] EXCEPT !.alive = TRUE, !.session = "live"]
  OBVIOUS
<1>3. runs[k].session \in {"live", "over"}
  BY DEF Resume
<1>4. r \in Run
  BY <1>1, <1>2 DEF Run
<1>5. /\ r.task = runs[k].task /\ r.last = runs[k].last /\ r.begun = runs[k].begun
      /\ r.verdict = runs[k].verdict /\ r.judged = runs[k].judged /\ r.age = runs[k].age
  BY <1>1, <1>2 DEF Run
<1>6. WellFormed(r) /\ Grows(runs[k], r)
  BY <1>1, <1>3, <1>5 DEF WellFormed, Grows
<1>7. runs' = [runs EXCEPT ![k] = r]
  BY <1>1, <1>2 DEF Resume
<1> QED
  BY <1>4, <1>5, <1>6, <1>7

\* Time changes ages only, and the greatest age stands for all beyond it.
LEMMA TickMoves ==
  ASSUME Typed, Tick
  PROVE  /\ DOMAIN runs' = DOMAIN runs /\ runs' \in Seq(Run)
         /\ \A k \in DOMAIN runs :
              /\ WellFormed(runs'[k]) /\ runs'[k].task = runs[k].task
              /\ runs'[k].alive = runs[k].alive /\ runs'[k].last = runs[k].last
              /\ runs'[k].begun = runs[k].begun /\ runs'[k].verdict = runs[k].verdict
              /\ runs'[k].judged = runs[k].judged
              /\ runs'[k].age = IF runs[k].age < MaxAge THEN runs[k].age + 1 ELSE runs[k].age
<1>1. MaxAge \in Nat /\ runs \in Seq(Run)
  BY Numbers DEF Typed
<1>2. ASSUME NEW r \in Run, WellFormed(r), NEW q,
             q = [r EXCEPT !.age = IF @ < MaxAge THEN @ + 1 ELSE @]
      PROVE  /\ q \in Run /\ WellFormed(q) /\ q.task = r.task /\ q.alive = r.alive /\ q.last = r.last
             /\ q.begun = r.begun /\ q.verdict = r.verdict /\ q.judged = r.judged
             /\ q.age = IF r.age < MaxAge THEN r.age + 1 ELSE r.age
  <2>1. PICK a : a = IF r.age < MaxAge THEN r.age + 1 ELSE r.age
    OBVIOUS
  <2>2. q = [r EXCEPT !.age = a]
    BY <1>2, <2>1
  <2>3. r.age \in Ages
    BY DEF Run
  <2>4. a \in Ages /\ (r.age = MaxAge => a = MaxAge)
    BY <1>1, <2>1, <2>3 DEF Ages
  <2>5. q \in Run
    BY <2>2, <2>4 DEF Run
  <2>6. /\ q.task = r.task /\ q.alive = r.alive /\ q.last = r.last /\ q.age = a
        /\ q.begun = r.begun /\ q.verdict = r.verdict
        /\ q.session = r.session /\ q.judged = r.judged
    BY <2>2 DEF Run
  <2>7. WellFormed(q)
    BY <1>2, <2>4, <2>6 DEF WellFormed
  <2> QED
    BY <2>1, <2>5, <2>6, <2>7
<1>3. runs' = [k \in DOMAIN runs |-> [runs[k] EXCEPT !.age = IF @ < MaxAge THEN @ + 1 ELSE @]]
  BY DEF Tick
<1>4. \A k \in DOMAIN runs : runs[k] \in Run /\ WellFormed(runs[k])
  BY DEF Typed
<1>5. \A k \in DOMAIN runs :
        runs'[k] = [runs[k] EXCEPT !.age = IF @ < MaxAge THEN @ + 1 ELSE @]
  BY <1>3
<1>6. DOMAIN runs' = DOMAIN runs /\ DOMAIN runs = 1 .. Len(runs) /\ Len(runs) \in Nat
  BY <1>1, <1>3
<1>7. \A k \in DOMAIN runs : runs'[k] \in Run
  BY <1>2, <1>4, <1>5
<1>8. runs' \in Seq(Run)
  BY <1>3, <1>6, <1>7
<1> QED
  BY <1>2, <1>4, <1>5, <1>6, <1>8

\* A new run comes last; the others stay as they are.
LEMMA NewRunMoves ==
  ASSUME Typed, NEW t \in ToSet(Tasks), runs' = Append(runs, NewRun(t))
  PROVE  /\ runs' \in Seq(Run) /\ DOMAIN runs \subseteq DOMAIN runs'
         /\ DOMAIN runs' = DOMAIN runs \cup {Len(runs) + 1}
         /\ Len(runs) + 1 \in Nat /\ Len(runs) + 1 \notin DOMAIN runs
         /\ \A k \in DOMAIN runs : runs'[k] = runs[k]
         /\ runs'[Len(runs) + 1] = NewRun(t)
         /\ NewRun(t) \in Run /\ WellFormed(NewRun(t)) /\ NewRun(t).task = t
<1>1. NewRun(t) \in Run /\ WellFormed(NewRun(t)) /\ NewRun(t).task = t
  <2>1. MaxAge \in Ages
    BY Numbers DEF Ages
  <2>2. NewRun(t) \in Run
    BY <2>1 DEF NewRun, Run
  <2>3. WellFormed(NewRun(t)) /\ NewRun(t).task = t
    BY DEF NewRun, WellFormed
  <2> QED
    BY <2>2, <2>3
<1>2. runs \in Seq(Run)
  BY DEF Typed
<1> QED
  BY <1>1, <1>2

\* Whatever happens, each run goes on as it was.
LEMMA RunsGrow ==
  ASSUME Typed, [Next]_vars
  PROVE  /\ runs' \in Seq(Run)
         /\ DOMAIN runs \subseteq DOMAIN runs'
         /\ \A k \in DOMAIN runs' : WellFormed(runs'[k])
         /\ \A k \in DOMAIN runs :
              \/ Grows(runs[k], runs'[k])
              \/ Tick
<1>1. runs \in Seq(Run) /\ \A k \in DOMAIN runs : WellFormed(runs[k])
  BY DEF Typed
<1>2. \A k \in DOMAIN runs : Grows(runs[k], runs[k])
  BY DEF Grows
<1>3. CASE UNCHANGED runs
  BY <1>1, <1>2, <1>3
<1>4. ASSUME NEW t \in ToSet(Tasks), runs' = Append(runs, NewRun(t))
      PROVE  /\ runs' \in Seq(Run)
             /\ DOMAIN runs \subseteq DOMAIN runs'
             /\ \A k \in DOMAIN runs' : WellFormed(runs'[k])
             /\ \A k \in DOMAIN runs : Grows(runs[k], runs'[k])
  <2>1. PICK n : n = Len(runs) + 1
    OBVIOUS
  <2>2. /\ runs' \in Seq(Run) /\ DOMAIN runs' = DOMAIN runs \cup {n}
        /\ \A k \in DOMAIN runs : runs'[k] = runs[k]
        /\ WellFormed(runs'[n])
    BY <1>4, <2>1, NewRunMoves
  <2> QED
    BY <1>1, <1>2, <2>2
<1>5. CASE Tick
  BY <1>5, TickMoves
<1>6. ASSUME NEW k \in DOMAIN runs, Agent(k) \/ Resume(k)
      PROVE  /\ runs' \in Seq(Run)
             /\ DOMAIN runs \subseteq DOMAIN runs'
             /\ \A j \in DOMAIN runs' : WellFormed(runs'[j])
             /\ \A j \in DOMAIN runs : Grows(runs[j], runs'[j])
  <2>1. PICK r \in Run : WellFormed(r) /\ Grows(runs[k], r) /\ runs' = [runs EXCEPT ![k] = r]
    BY <1>6, AgentMoves, ResumeMoves
  <2>2. runs' \in Seq(Run) /\ DOMAIN runs' = DOMAIN runs
    BY <1>1, <2>1
  <2>3. runs'[k] = r /\ \A j \in DOMAIN runs : j # k => runs'[j] = runs[j]
    BY <1>1, <2>1
  <2> QED
    BY <1>1, <1>2, <2>1, <2>2, <2>3
<1>7. ASSUME NEW t \in ToSet(Tasks), ByHand(t)
      PROVE  runs' = Append(runs, NewRun(t))
  BY <1>7 DEF ByHand
<1>8. CASE Launch
  <2>1. runs' = Append(runs, NewRun(Head(todo))) /\ Head(todo) \in ToSet(Tasks)
    BY <1>8 DEF Launch, Typed
  <2> QED
    BY <1>4, <2>1
<1>9. Begin \/ Skip \/ Collect \/ Timeout \/ End \/ Interrupt => UNCHANGED runs
  BY DEF Begin, Skip, Collect, Timeout, End, Interrupt
<1>a. UNCHANGED vars => UNCHANGED runs
  BY DEF vars
<1> QED
  BY <1>3, <1>4, <1>5, <1>6, <1>7, <1>8, <1>9, <1>a DEF Next, Command

-----------------------------------------------------------------------------
LEMMA TypedInit == Init => Typed
<1> SUFFICES ASSUME Init PROVE Typed
  OBVIOUS
<1>1. NoResult \in [status : Statuses, run : Nat]
  BY DEF NoResult, Statuses
<1>2. results \in [ToSet(Tasks) -> [status : Statuses, run : Nat]]
  BY <1>1 DEF Init
<1>3. runs \in Seq(Run) /\ DOMAIN runs = {} /\ todo \in Seq(ToSet(Tasks))
  BY DEF Init
<1>4. cur \in Nat /\ elapsed \in Waits
  BY Numbers DEF Init, Waits
<1> QED
  BY <1>2, <1>3, <1>4 DEF Init, Typed

\* The row of a task that is through.
LEMMA Reported ==
  ASSUME Typed, NEW status \in Statuses, NEW k \in Nat, todo # <<>>, Report(status, k)
  PROVE  /\ pc' = "next" /\ todo' \in Seq(ToSet(Tasks)) /\ cur' = 0 /\ elapsed' = 0
         /\ alone' = FALSE /\ exit' = exit
         /\ Head(todo) \in ToSet(Tasks)
         /\ results' = [results EXCEPT ![Head(todo)] = [status |-> status, run |-> k]]
         /\ results' \in [ToSet(Tasks) -> [status : Statuses, run : Nat]]
<1>1. todo \in Seq(ToSet(Tasks)) /\ results \in [ToSet(Tasks) -> [status : Statuses, run : Nat]]
  BY DEF Typed
<1>2. Head(todo) \in ToSet(Tasks) /\ Tail(todo) \in Seq(ToSet(Tasks))
  BY <1>1
<1>3. [status |-> status, run |-> k] \in [status : Statuses, run : Nat]
  OBVIOUS
<1> QED
  BY <1>1, <1>2, <1>3 DEF Report, Forget

\* The result of a task is put on record.
LEMMA ReportTyped ==
  ASSUME Typed, runs' \in Seq(Run), \A k \in DOMAIN runs' : WellFormed(runs'[k]),
         NEW status \in Statuses, NEW k \in Nat, todo # <<>>, Report(status, k)
  PROVE  Typed'
<1>1. /\ pc' = "next" /\ todo' \in Seq(ToSet(Tasks)) /\ cur' = 0 /\ elapsed' = 0
      /\ alone' = FALSE /\ exit' = exit
      /\ results' \in [ToSet(Tasks) -> [status : Statuses, run : Nat]]
  BY Reported
<1>2. elapsed' \in Waits /\ cur' \in Nat
  BY <1>1, Numbers DEF Waits
<1>3. exit' \in {"none", "0", "1"}
  BY <1>1 DEF Typed
<1> QED
  BY <1>1, <1>2, <1>3 DEF Typed

\* The files that batch looks at are trajectories of runs; the latest one is of the task and young enough.
LEMMA FilesAreRuns ==
  ASSUME Typed, NEW t
  PROVE  /\ RecentPassed(t) \subseteq DOMAIN runs
         /\ Latest(t) \subseteq DOMAIN runs \cup {0}
         /\ DOMAIN runs \subseteq Nat /\ 0 \notin DOMAIN runs
         /\ \A k \in Latest(t) : k # 0 =>
              runs[k].task = t /\ runs[k].last # "absent" /\ runs[k].age <= elapsed + Slop
<1>1. runs \in Seq(Run)
  BY DEF Typed
<1>2. DOMAIN runs \subseteq Nat /\ 0 \notin DOMAIN runs
  BY <1>1
<1> QED
  BY <1>2 DEF RecentPassed, Latest, Files

\* A run that batch takes for passed has begun, and its last verdict is "passed".
LEMMA OutcomeIs ==
  ASSUME Typed, NEW k \in DOMAIN runs
  PROVE  /\ Outcome(k) \in Outcomes \cup {"incomplete"}
         /\ Outcome(k) = "passed" => runs[k].begun /\ runs[k].verdict = "passed"
<1>1. runs[k] \in Run /\ WellFormed(runs[k])
  BY DEF Typed
<1>2. runs[k].verdict \in Outcomes \cup {"none"}
  BY <1>1 DEF Run
<1> QED
  BY <1>1, <1>2 DEF Outcome, WellFormed, Outcomes

LEMMA TypedNext ==
  ASSUME Typed, [Next]_vars
  PROVE  Typed'
<1>0. runs' \in Seq(Run) /\ \A k \in DOMAIN runs' : WellFormed(runs'[k])
  BY RunsGrow
<1>1. CASE UNCHANGED batch
  BY <1>0, <1>1 DEF Typed, batch
<1>2. CASE Begin
  <2>1. \A t \in ToSet(Tasks) : NoResult \in [status : Statuses, run : Nat]
    BY DEF NoResult, Statuses
  <2>2. /\ pc' = "next" /\ todo' = Tasks /\ exit' = "none" /\ UNCHANGED <<cur, elapsed, alone>>
        /\ results' = [t \in ToSet(Tasks) |-> NoResult]
    BY <1>2 DEF Begin
  <2> QED
    BY <1>0, <2>1, <2>2, TasksFacts DEF Typed
<1>3. CASE Skip
  <2>1. PICK k \in RecentPassed(Head(todo)) : Report("skipped", k)
    BY <1>3 DEF Skip
  <2>2. k \in Nat /\ "skipped" \in Statuses /\ todo # <<>>
    BY <1>3, FilesAreRuns DEF Statuses, Skip
  <2> QED
    BY <1>0, <2>1, <2>2, ReportTyped
<1>4. CASE Launch
  <2>1. /\ pc' = "wait" /\ elapsed' = 0 /\ cur' = Len(runs) + 1
        /\ UNCHANGED <<todo, results, exit>> /\ todo # <<>>
    BY <1>4 DEF Launch
  <2>2. alone' \in BOOLEAN
    BY <1>4 DEF Launch
  <2>3. elapsed' \in Waits
    BY <2>1, Numbers DEF Waits
  <2>4. cur' \in Nat
    BY <2>1 DEF Typed
  <2> QED
    BY <1>0, <2>1, <2>2, <2>3, <2>4 DEF Typed
<1>5. CASE Collect
  <2>1. PICK k \in Latest(Head(todo)) :
               Report(IF k = 0 THEN "no-trajectory" ELSE Outcome(k), k)
    BY <1>5 DEF Collect
  <2>2. k \in DOMAIN runs \cup {0} /\ k \in Nat /\ todo # <<>>
    BY <1>5, FilesAreRuns DEF Collect, Typed
  <2>3. (IF k = 0 THEN "no-trajectory" ELSE Outcome(k)) \in Statuses
    BY <2>2, OutcomeIs DEF Statuses
  <2> QED
    BY <1>0, <2>1, <2>2, <2>3, ReportTyped
<1>6. CASE Timeout
  <2>1. PICK k \in Latest(Head(todo)) : Report("timeout", k)
    BY <1>6 DEF Timeout
  <2>2. k \in Nat /\ "timeout" \in Statuses /\ todo # <<>>
    BY <1>6, FilesAreRuns DEF Statuses, Timeout, Typed
  <2> QED
    BY <1>0, <2>1, <2>2, ReportTyped
<1>7. CASE End
  BY <1>0, <1>7 DEF End, Typed
<1>8. CASE Interrupt
  <2>1. /\ pc' = "off" /\ todo' = <<>> /\ cur' = 0 /\ elapsed' = 0 /\ alone' = FALSE
        /\ results' = results /\ exit' = exit
    BY <1>8 DEF Interrupt, Forget
  <2>2. elapsed' \in Waits /\ todo' \in Seq(ToSet(Tasks)) /\ cur' \in Nat
    BY <2>1, Numbers DEF Waits
  <2> QED
    BY <1>0, <2>1, <2>2 DEF Typed
<1>9. CASE Tick
  <2>1. elapsed' \in Waits
    BY <1>9, Numbers DEF Tick, Typed, Waits
  <2>2. UNCHANGED <<pc, todo, cur, alone, results, exit>>
    BY <1>9 DEF Tick
  <2> QED
    BY <1>0, <2>1, <2>2 DEF Typed
<1>a. ASSUME NEW t \in ToSet(Tasks), ByHand(t)
      PROVE  Typed'
  <2>1. UNCHANGED <<pc, todo, cur, elapsed, results, exit>> /\ alone' \in BOOLEAN
    BY <1>a DEF ByHand
  <2> QED
    BY <1>0, <2>1 DEF Typed
<1>b. ASSUME NEW k \in DOMAIN runs, Agent(k)
      PROVE  Typed'
  BY <1>1, <1>b, AgentMoves
<1>d. ASSUME NEW k \in DOMAIN runs, Resume(k)
      PROVE  Typed'
  <2>1. UNCHANGED <<pc, todo, cur, elapsed, results, exit>> /\ alone' \in BOOLEAN
    BY <1>d DEF Resume
  <2> QED
    BY <1>0, <2>1 DEF Typed
<1>c. UNCHANGED vars => UNCHANGED batch
  BY DEF vars, batch
<1> QED
  BY <1>1, <1>2, <1>3, <1>4, <1>5, <1>6, <1>7, <1>8, <1>9, <1>a, <1>b, <1>c, <1>d
     DEF Next, Command

\* Types, and what a trajectory can look like.
THEOREM BatchTyped == Spec => []Typed
BY TypedInit, TypedNext, PTL DEF Spec

-----------------------------------------------------------------------------
(* The exit code.                                                            *)

\* What a row that counts as a success stands on.
Good(r, t) == r.task = t /\ (r.last = "torn" \/ (r.begun /\ "passed" \in r.judged))

Succeeded(t) == results[t].status \in {"passed", "skipped"}

Earned ==
  /\ pc # "off" => exit = "none"
  /\ exit = "0" => \A t \in ToSet(Tasks) : Succeeded(t)
  /\ \A t \in ToSet(Tasks) : Succeeded(t) =>
       results[t].run \in DOMAIN runs /\ Good(runs[results[t].run], t)

\* A run that was once good for a pass remains so.
LEMMA GoodStays ==
  ASSUME Typed, [Next]_vars, NEW k \in DOMAIN runs, NEW t, Good(runs[k], t)
  PROVE  k \in DOMAIN runs' /\ Good(runs'[k], t)
<1>1. k \in DOMAIN runs' /\ (Grows(runs[k], runs'[k]) \/ Tick)
  BY RunsGrow
<1>2. CASE Tick
  BY <1>1, <1>2, TickMoves DEF Good
<1>3. CASE Grows(runs[k], runs'[k])
  BY <1>1, <1>3 DEF Grows, Good
<1> QED
  BY <1>1, <1>2, <1>3

\* A row is added on the strength of a run as it is now.
LEMMA EarnedReport ==
  ASSUME Typed, Earned, NEW status \in Statuses, NEW k \in Nat, todo # <<>>, Report(status, k),
         exit = "none", UNCHANGED runs,
         status \in {"passed", "skipped"} => k \in DOMAIN runs /\ Good(runs[k], Head(todo))
  PROVE  Earned'
<1>1. /\ Head(todo) \in ToSet(Tasks) /\ exit' = exit
      /\ results' = [results EXCEPT ![Head(todo)] = [status |-> status, run |-> k]]
      /\ results \in [ToSet(Tasks) -> [status : Statuses, run : Nat]]
  BY Reported DEF Typed
<1>2. PICK h : h = Head(todo)
  OBVIOUS
<1>3. /\ results'[h].status = status /\ results'[h].run = k
      /\ \A t \in ToSet(Tasks) : t # h => results'[t] = results[t]
  BY <1>1, <1>2
<1>4. \A t \in ToSet(Tasks) : t # h => (Succeeded(t)' <=> Succeeded(t))
  BY <1>3 DEF Succeeded
<1>5. ASSUME NEW t \in ToSet(Tasks), Succeeded(t)'
      PROVE  results'[t].run \in DOMAIN runs /\ Good(runs[results'[t].run], t)
  <2>1. CASE t = h
    BY <1>2, <1>3, <1>5, <2>1 DEF Succeeded
  <2>2. CASE t # h
    BY <1>3, <1>4, <1>5, <2>2 DEF Earned
  <2> QED
    BY <2>1, <2>2
<1> QED
  BY <1>1, <1>5 DEF Earned

LEMMA EarnedNext ==
  ASSUME Typed, Earned, [Next]_vars
  PROVE  Earned'
<1>1. \A k \in DOMAIN runs : \A t : Good(runs[k], t) => k \in DOMAIN runs' /\ Good(runs'[k], t)
  BY GoodStays
<1>2. ASSUME UNCHANGED results, exit' = exit, pc' # "off" => pc # "off"
      PROVE  Earned'
  <2>1. \A t \in ToSet(Tasks) : Succeeded(t)' <=> Succeeded(t)
    BY <1>2 DEF Succeeded
  <2> QED
    BY <1>1, <1>2, <2>1 DEF Earned
<1>3. CASE Begin
  <2>1. /\ exit' = "none" /\ results' = [t \in ToSet(Tasks) |-> NoResult]
    BY <1>3 DEF Begin
  <2>2. \A t \in ToSet(Tasks) : ~Succeeded(t)'
    BY <2>1 DEF Succeeded, NoResult
  <2> QED
    BY <2>1, <2>2 DEF Earned
<1>4. CASE Skip
  <2>1. PICK k \in RecentPassed(Head(todo)) : Report("skipped", k)
    BY <1>4 DEF Skip
  <2>2. k \in Nat /\ k \in DOMAIN runs /\ "skipped" \in Statuses
    BY FilesAreRuns DEF Statuses
  <2>3. todo # <<>> /\ exit = "none" /\ UNCHANGED runs
    BY <1>4 DEF Skip, Earned
  <2>4. runs[k].task = Head(todo) /\ runs[k].verdict = "passed"
    BY DEF RecentPassed, Files
  <2>5. Good(runs[k], Head(todo))
    BY <2>2, <2>4 DEF Good, Typed, WellFormed
  <2> QED
    BY <2>1, <2>2, <2>3, <2>5, EarnedReport
<1>5. CASE Collect
  <2>1. PICK k \in Latest(Head(todo)) :
               Report(IF k = 0 THEN "no-trajectory" ELSE Outcome(k), k)
    BY <1>5 DEF Collect
  <2>2. PICK status : status = IF k = 0 THEN "no-trajectory" ELSE Outcome(k)
    OBVIOUS
  <2>3. /\ k \in DOMAIN runs \cup {0} /\ k \in Nat
        /\ k # 0 => runs[k].task = Head(todo)
    BY FilesAreRuns
  <2>4. todo # <<>> /\ exit = "none" /\ UNCHANGED runs
    BY <1>5 DEF Collect, Earned, Typed
  <2>5. status \in Statuses
    BY <2>2, <2>3, OutcomeIs DEF Statuses
  <2>6. status = "passed" => k \in DOMAIN runs /\ runs[k].begun /\ "passed" \in runs[k].judged
    BY <2>2, <2>3, OutcomeIs DEF Typed, WellFormed
  <2>7. status # "skipped"
    BY <2>2, <2>3, OutcomeIs DEF Outcomes
  <2>8. status \in {"passed", "skipped"} => k \in DOMAIN runs /\ Good(runs[k], Head(todo))
    BY <2>3, <2>6, <2>7, FilesAreRuns DEF Good
  <2> QED
    BY <2>1, <2>2, <2>3, <2>4, <2>5, <2>8, EarnedReport
<1>6. CASE Timeout
  <2>1. PICK k \in Latest(Head(todo)) : Report("timeout", k)
    BY <1>6 DEF Timeout
  <2>2. k \in Nat /\ "timeout" \in Statuses
    BY FilesAreRuns DEF Statuses
  <2>3. todo # <<>> /\ exit = "none" /\ UNCHANGED runs
    BY <1>6 DEF Timeout, Earned, Typed
  <2> QED
    BY <2>1, <2>2, <2>3, EarnedReport
<1>7. CASE End
  <2>1. /\ UNCHANGED <<runs, results>> /\ pc' = "off"
        /\ exit' = "0" => \A t \in DOMAIN results : results[t].status \in {"passed", "skipped"}
    BY <1>7 DEF End
  <2>2. DOMAIN results = ToSet(Tasks)
    BY DEF Typed
  <2>3. \A t \in ToSet(Tasks) : Succeeded(t)' <=> Succeeded(t)
    BY <2>1 DEF Succeeded
  <2>4. exit' = "0" => \A t \in ToSet(Tasks) : Succeeded(t)
    BY <2>1, <2>2 DEF Succeeded
  <2> QED
    BY <2>1, <2>3, <2>4 DEF Earned
<1>8. ASSUME Launch \/ Interrupt \/ Tick \/ (\E t \in ToSet(Tasks) : ByHand(t)) \/ UNCHANGED vars
      PROVE  UNCHANGED results /\ exit' = exit /\ (pc' # "off" => pc # "off")
  BY <1>8 DEF Launch, Interrupt, Tick, ByHand, vars
<1>9. ASSUME NEW k \in DOMAIN runs, Agent(k) \/ Resume(k)
      PROVE  UNCHANGED results /\ exit' = exit /\ (pc' # "off" => pc # "off")
  <2>1. CASE Agent(k)
    BY <2>1, AgentMoves DEF batch
  <2>2. CASE Resume(k)
    BY <2>2 DEF Resume
  <2> QED
    BY <1>9, <2>1, <2>2
<1> QED
  BY <1>2, <1>3, <1>4, <1>5, <1>6, <1>7, <1>8, <1>9 DEF Next, Command

\* Exit code 0 means that batch found for every task a run of it that a run_finished
\* event calls passed, and stats counts it so whatever is logged after that event, but
\* for a kill that makes the file unreadable, or a session that gets another verdict.
THEOREM BatchExitZeroIsEarned == Spec => []ExitZeroIsEarned
<1>1. Init => Earned
  BY DEF Init, Earned, Succeeded, NoResult
<1>2. Typed /\ Earned => ExitZeroIsEarned
  <2> SUFFICES ASSUME Typed, Earned, exit = "0", NEW t \in DOMAIN results
               PROVE  LET k == results[t].run IN
                        /\ k # 0 /\ runs[k].task = t
                        /\ Readable(runs[k]) =>
                             /\ "passed" \in runs[k].judged
                             /\ runs[k].judged = {"passed"} =>
                                  Summarize(runs[k]) = [task |-> t, outcome |-> "passed"]
    BY DEF ExitZeroIsEarned
  <2>1. PICK k : k = results[t].run
    OBVIOUS
  <2>2. t \in ToSet(Tasks)
    BY DEF Typed
  <2>3. k \in DOMAIN runs /\ Good(runs[k], t)
    BY <2>1, <2>2 DEF Earned
  <2>4. k # 0
    BY <2>3, FilesAreRuns
  <2>5. ASSUME Readable(runs[k])
        PROVE  /\ "passed" \in runs[k].judged
               /\ runs[k].judged = {"passed"} =>
                    Summarize(runs[k]) = [task |-> t, outcome |-> "passed"]
    <3>1. runs[k].task = t /\ runs[k].begun /\ "passed" \in runs[k].judged
      BY <2>3, <2>5 DEF Good, Readable
    <3>2. runs[k].judged = {"passed"} => runs[k].verdict = "passed"
      BY <2>3, <3>1 DEF Typed, WellFormed
    <3> QED
      BY <3>1, <3>2 DEF Summarize
  <2> QED
    BY <2>1, <2>3, <2>4, <2>5 DEF Good
<1> QED
  BY <1>1, <1>2, BatchTyped, EarnedNext, PTL DEF Spec

-----------------------------------------------------------------------------
(* Whose trajectory is taken.                                                *)

\* While the agent was alone from the start, no other run of its task is alive or has
\* written since.
Lonely ==
  pc = "wait" =>
    /\ cur \in DOMAIN runs
    /\ alone => \A k \in DOMAIN runs : k # cur /\ runs[k].task = Head(todo) =>
         ~runs[k].alive /\ runs[k].age > elapsed + Slop

LEMMA LonelyNext ==
  ASSUME Typed, Lonely, [Next]_vars
  PROVE  Lonely'
<1>1. ASSUME pc' # "wait"
      PROVE  Lonely'
  BY <1>1 DEF Lonely
<1>8. ASSUME NEW k \in DOMAIN runs, Resume(k)
      PROVE  Lonely'
  <2>1. PICK r \in Run : r.task = runs[k].task /\ runs' = [runs EXCEPT ![k] = r]
    BY <1>8, ResumeMoves
  <2>2. DOMAIN runs' = DOMAIN runs /\ runs'[k] = r /\ \A j \in DOMAIN runs : j # k => runs'[j] = runs[j]
    BY <2>1
  <2>3. /\ UNCHANGED <<pc, todo, cur, elapsed>>
        /\ alone' = (pc = "wait" /\ alone /\ (Head(todo) = runs[k].task => k = cur))
    BY <1>8 DEF Resume
  <2> QED
    BY <2>1, <2>2, <2>3 DEF Lonely
<1>2. ASSUME NEW k \in DOMAIN runs, Agent(k)
      PROVE  Lonely'
  <2>1. PICK r \in Run : /\ Grows(runs[k], r) /\ runs' = [runs EXCEPT ![k] = r]
                         /\ UNCHANGED batch
    BY <1>2, AgentMoves
  <2>2. DOMAIN runs' = DOMAIN runs /\ runs'[k] = r /\ \A j \in DOMAIN runs : j # k => runs'[j] = runs[j]
    BY <2>1
  <2>3. runs[k].task = r.task /\ runs[k].alive
    BY <1>2, <2>1, AgentMoves DEF Grows
  <2>4. UNCHANGED <<pc, todo, cur, elapsed, alone>>
    BY <2>1 DEF batch
  <2>5. \A j \in DOMAIN runs :
          /\ runs'[j].task = runs[j].task
          /\ ~runs[j].alive => runs'[j] = runs[j]
    BY <2>2, <2>3
  <2> QED
    BY <2>2, <2>4, <2>5 DEF Lonely
<1>3. CASE Tick
  <2> SUFFICES ASSUME pc = "wait"
               PROVE  Lonely'
    BY <1>3 DEF Tick, Lonely
  <2>1. /\ elapsed' = elapsed + 1 /\ elapsed < PerTask
        /\ UNCHANGED <<pc, todo, cur, alone>>
    BY <1>3 DEF Tick
  <2>2. /\ elapsed \in Nat /\ PerTask \in Nat /\ MaxAge \in Nat /\ MaxAge > PerTask + 1
    BY Numbers DEF Typed, Waits
  <2>3. ASSUME NEW k \in DOMAIN runs
        PROVE  /\ runs'[k].task = runs[k].task /\ runs'[k].alive = runs[k].alive
               /\ runs[k].age > elapsed + Slop => runs'[k].age > elapsed' + Slop
    <3>1. /\ runs'[k].task = runs[k].task /\ runs'[k].alive = runs[k].alive
          /\ runs'[k].age = IF runs[k].age < MaxAge THEN runs[k].age + 1 ELSE runs[k].age
      BY <1>3, TickMoves
    <3>2. runs[k] \in Run
      BY DEF Typed
    <3>3. runs[k].age \in Ages
      BY <3>2 DEF Run
    <3>4. runs[k].age > elapsed + Slop => runs'[k].age > elapsed' + Slop
      BY <2>1, <2>2, <3>1, <3>3 DEF Ages, Slop
    <3> QED
      BY <3>1, <3>4
  <2>4. DOMAIN runs' = DOMAIN runs
    BY <1>3, TickMoves
  <2> QED
    BY <2>1, <2>3, <2>4 DEF Lonely
<1>4. CASE Launch
  <2>1. /\ runs' = Append(runs, NewRun(Head(todo))) /\ Head(todo) \in ToSet(Tasks)
        /\ cur' = Len(runs) + 1 /\ elapsed' = 0 /\ todo' = todo
        /\ alone' => \A k \in DOMAIN runs : runs[k].task = Head(todo) =>
                       ~runs[k].alive /\ runs[k].age > Slop
    BY <1>4 DEF Launch, Typed
  <2>2. /\ DOMAIN runs' = DOMAIN runs \cup {cur'}
        /\ \A k \in DOMAIN runs : runs'[k] = runs[k]
    BY <2>1, NewRunMoves
  <2>3. \A x : x > Slop <=> x > elapsed' + Slop
    BY <2>1 DEF Slop
  <2> QED
    BY <2>1, <2>2, <2>3 DEF Lonely
<1>5. ASSUME NEW t \in ToSet(Tasks), ByHand(t)
      PROVE  Lonely'
  <2>1. /\ runs' = Append(runs, NewRun(t))
        /\ alone' = (pc = "wait" /\ alone /\ Head(todo) # t)
        /\ UNCHANGED <<pc, todo, cur, elapsed>>
    BY <1>5 DEF ByHand
  <2>2. PICK n : n = Len(runs) + 1
    OBVIOUS
  <2>3. /\ DOMAIN runs' = DOMAIN runs \cup {n}
        /\ \A k \in DOMAIN runs : runs'[k] = runs[k]
        /\ runs'[n].task = t
    BY <2>1, <2>2, NewRunMoves
  <2> QED
    BY <2>1, <2>3 DEF Lonely
<1>6. Begin \/ Skip \/ Collect \/ Timeout \/ End \/ Interrupt => pc' # "wait"
  BY DEF Begin, Skip, Collect, Timeout, End, Interrupt, Report
<1>7. CASE UNCHANGED vars
  BY <1>7 DEF vars, Lonely
<1> QED
  BY <1>1, <1>2, <1>3, <1>4, <1>5, <1>6, <1>7, <1>8 DEF Next, Command

\* If nobody else could be writing for the task when its agent was started, and nobody
\* has been started for it or has taken up a session of it since, the trajectory reported is the agent's own, or none.
THEOREM BatchOwnWhenAlone == Spec => OwnWhenAlone
<1>1. Init => Lonely
  BY DEF Init, Lonely
<1>2. ASSUME Typed, Lonely, [Next]_vars
      PROVE  [\A t \in DOMAIN results :
                pc = "wait" /\ alone /\ results'[t] # results[t] => results'[t].run \in {0, cur}]_vars
  <2> SUFFICES ASSUME Next, NEW t \in DOMAIN results, pc = "wait", alone, results'[t] # results[t]
               PROVE  results'[t].run \in {0, cur}
    BY <1>2
  <2>1. ASSUME NEW k \in Latest(Head(todo))
        PROVE  k \in {0, cur}
    <3> SUFFICES ASSUME k # 0, k # cur
                 PROVE  FALSE
      OBVIOUS
    <3>1. /\ runs[k].task = Head(todo) /\ runs[k].age <= elapsed + Slop /\ k \in DOMAIN runs
      BY <1>2, FilesAreRuns
    <3>2. runs[k].age > elapsed + Slop
      BY <1>2, <3>1 DEF Lonely
    <3>3. runs[k] \in Run
      BY <1>2, <3>1 DEF Typed
    <3>4. runs[k].age \in Nat /\ elapsed \in Nat
      BY <1>2, <3>3, Numbers DEF Typed, Run, Ages, Waits
    <3> QED
      BY <3>1, <3>2, <3>4 DEF Slop
  <2>2. ASSUME NEW status \in Statuses, NEW k \in Nat, Report(status, k), k \in Latest(Head(todo))
        PROVE  results'[t].run \in {0, cur}
    <3>1. /\ results' = [results EXCEPT ![Head(todo)] = [status |-> status, run |-> k]]
          /\ results \in [ToSet(Tasks) -> [status : Statuses, run : Nat]]
      BY <1>2, <2>2 DEF Report, Typed
    <3>2. t = Head(todo) /\ results'[t].run = k
      BY <3>1
    <3> QED
      BY <2>1, <2>2, <3>2
  <2>3. CASE Collect
    <3>1. PICK k \in Latest(Head(todo)) :
                 Report(IF k = 0 THEN "no-trajectory" ELSE Outcome(k), k)
      BY <2>3 DEF Collect
    <3>2. k \in DOMAIN runs \cup {0} /\ k \in Nat
      BY <1>2, FilesAreRuns
    <3>3. (IF k = 0 THEN "no-trajectory" ELSE Outcome(k)) \in Statuses
      BY <1>2, <3>2, OutcomeIs DEF Statuses
    <3> QED
      BY <2>2, <3>1, <3>2, <3>3
  <2>4. CASE Timeout
    <3>1. PICK k \in Latest(Head(todo)) : Report("timeout", k)
      BY <2>4 DEF Timeout
    <3>2. k \in Nat /\ "timeout" \in Statuses
      BY <1>2, FilesAreRuns DEF Statuses
    <3> QED
      BY <2>2, <3>1, <3>2
  <2>5. Begin \/ Skip \/ Launch => pc # "wait"
    BY DEF Begin, Skip, Launch
  <2>6. End \/ Interrupt \/ Tick \/ (\E u \in ToSet(Tasks) : ByHand(u)) => UNCHANGED results
    BY DEF End, Interrupt, Tick, ByHand
  <2>7. ASSUME NEW k \in DOMAIN runs, Agent(k) \/ Resume(k)
        PROVE  UNCHANGED results
    <3>1. CASE Agent(k)
      BY <1>2, <3>1, AgentMoves DEF batch
    <3>2. CASE Resume(k)
      BY <3>2 DEF Resume
    <3> QED
      BY <2>7, <3>1, <3>2
  <2> QED
    BY <2>3, <2>4, <2>5, <2>6, <2>7 DEF Next, Command
<1> QED
  BY <1>1, <1>2, BatchTyped, LonelyNext, PTL DEF Spec, OwnWhenAlone

-----------------------------------------------------------------------------
(* Rates.                                                                    *)

LEMMA DivIs ==
  ASSUME NEW x \in Nat, NEW d \in Nat, d > 0
  PROVE  /\ x \div d \in Nat
         /\ (x \div d) * d <= x /\ x < (x \div d) * d + d
OBVIOUS

\* Rates that are rounded down still tell regressions from improvements: p of t runs
\* against q of u.
LEMMA RatesCompare ==
  ASSUME NEW p \in Nat, NEW t \in Nat, NEW q \in Nat, NEW u \in Nat, t > 0, u > 0,
         NEW r \in Nat, NEW s \in Nat,
         r * t <= p * 100, p * 100 < r * t + t,
         s * u <= q * 100, q * 100 < s * u + u
  PROVE  /\ s < r => q * t < p * u
         /\ r < s => p * u < q * t
         /\ r = s => /\ 100 * (q * t - p * u) < t * u
                     /\ -100 * (q * t - p * u) < t * u
<1>1. /\ r * t * u <= p * 100 * u /\ p * 100 * u < (r * t + t) * u
      /\ s * u * t <= q * 100 * t /\ q * 100 * t < (s * u + u) * t
  OBVIOUS
<1>2. PICK A, B, C, D \in Int : A = p * u /\ B = q * t /\ C = t * u /\ D = r * t * u
  OBVIOUS
<1>3. /\ p * 100 * u = 100 * A /\ q * 100 * t = 100 * B
      /\ (r * t + t) * u = D + C
  BY <1>2
<1>4. PICK E \in Int : E = s * u * t
  OBVIOUS
<1>5. (s * u + u) * t = E + C
  BY <1>2, <1>4
<1>6. D <= 100 * A /\ 100 * A < D + C /\ E <= 100 * B /\ 100 * B < E + C
  BY <1>1, <1>2, <1>3, <1>4, <1>5
<1>7. D = r * C /\ E = s * C /\ C > 0
  BY <1>2, <1>4
<1>8. s < r => E + C <= D
  <2>1. s < r => (s + 1) * C <= r * C
    BY <1>7
  <2>2. (s + 1) * C = E + C
    BY <1>7
  <2> QED
    BY <1>7, <2>1, <2>2
<1>9. r < s => D + C <= E
  <2>1. r < s => (r + 1) * C <= s * C
    BY <1>7
  <2>2. (r + 1) * C = D + C
    BY <1>7
  <2> QED
    BY <1>7, <2>1, <2>2
<1>10. r = s => D = E
  BY <1>7
<1>11. /\ s < r => B < A
       /\ r < s => A < B
       /\ r = s => 100 * (B - A) < C /\ -100 * (B - A) < C
  BY <1>6, <1>8, <1>9, <1>10
<1> QED
  BY <1>2, <1>11

-----------------------------------------------------------------------------
(* Rows.                                                                     *)

Trajectory == {r \in Run : WellFormed(r)}

Tallied == {"passed", "failed", "error", "incomplete"}

Sums(T) == [i \in {j \in DOMAIN T : Readable(T[j])} |-> Summarize(T[i])]

Counts(T, task) ==
  [o \in Tallied |-> Cardinality({i \in DOMAIN Sums(T) : Sums(T)[i] = [task |-> task, outcome |-> o]})]

\* The row of a task counts the outcomes of its runs.
LEMMA RowAt ==
  ASSUME NEW T, NEW task \in DOMAIN Rows(T)
  PROVE  /\ \E i \in DOMAIN Sums(T) : Sums(T)[i].task = task
         /\ Rows(T)[task].runs = Total(Counts(T, task))
         /\ Rows(T)[task].pass = Counts(T, task).passed
         /\ Rows(T)[task].rate = Rate(Counts(T, task))
<1>1. Rows(T) = [k \in {Sums(T)[i].task : i \in DOMAIN Sums(T)} |->
                  [runs |-> Total(Counts(T, k)), pass |-> Counts(T, k).passed,
                   fail |-> Counts(T, k).failed, error |-> Counts(T, k).error,
                   rate |-> Rate(Counts(T, k))]]
  BY DEF Rows, Sums, Counts, Tallied
<1>2. task \in {Sums(T)[i].task : i \in DOMAIN Sums(T)}
  BY <1>1
<1>3. Rows(T)[task] = [runs |-> Total(Counts(T, task)), pass |-> Counts(T, task).passed,
                       fail |-> Counts(T, task).failed, error |-> Counts(T, task).error,
                       rate |-> Rate(Counts(T, task))]
  BY <1>1, <1>2
<1> QED
  BY <1>2, <1>3

\* Each count is a number, and not 0 if there is a run of the kind.
LEMMA CountsAre ==
  ASSUME NEW T \in Seq(Trajectory), NEW task
  PROVE  \A o \in Tallied :
           LET S == {i \in DOMAIN Sums(T) : Sums(T)[i] = [task |-> task, outcome |-> o]}
           IN /\ Counts(T, task)[o] = Cardinality(S) /\ Cardinality(S) \in Nat
              /\ S # {} => Cardinality(S) > 0
<1>1. IsFiniteSet(DOMAIN T)
  <2>1. DOMAIN T = 1 .. Len(T) /\ Len(T) \in Int /\ 1 \in Int
    OBVIOUS
  <2> QED
    BY <2>1, FS_Interval
<1>2. DOMAIN Sums(T) \subseteq DOMAIN T
  BY DEF Sums
<1>3. ASSUME NEW S, S \subseteq DOMAIN Sums(T)
      PROVE  Cardinality(S) \in Nat /\ (S # {} => Cardinality(S) > 0)
  <2>1. IsFiniteSet(S)
    BY <1>1, <1>2, <1>3, FS_Subset
  <2> QED
    BY <2>1, FS_CardinalityType, FS_EmptySet
<1> QED
  BY <1>3 DEF Counts

\* The numbers in a row, and the rate that they give.
LEMMA RowFacts ==
  ASSUME NEW T \in Seq(Trajectory), NEW task \in DOMAIN Rows(T)
  PROVE  /\ Rows(T)[task].runs \in Nat /\ Rows(T)[task].runs > 0
         /\ Rows(T)[task].pass \in Nat /\ Rows(T)[task].rate \in Nat
         /\ Rows(T)[task].rate = (Rows(T)[task].pass * 100) \div Rows(T)[task].runs
<1>1. PICK n : n = Counts(T, task)
  OBVIOUS
<1>2. /\ Rows(T)[task].runs = Total(n) /\ Rows(T)[task].pass = n.passed
      /\ Rows(T)[task].rate = Rate(n)
  BY <1>1, RowAt
<1>3. n.passed \in Nat /\ n.failed \in Nat /\ n.error \in Nat /\ n.incomplete \in Nat
  BY <1>1, CountsAre DEF Tallied
<1>4. PICK i \in DOMAIN Sums(T) : Sums(T)[i].task = task
  BY RowAt
<1>5. T[i] \in Run /\ WellFormed(T[i]) /\ i \in DOMAIN T /\ Sums(T)[i] = Summarize(T[i])
  BY DEF Sums, Trajectory
<1>6. PICK o \in Tallied : Sums(T)[i] = [task |-> task, outcome |-> o]
  <2>1. T[i].verdict \in Outcomes \cup {"none"}
    BY <1>5 DEF Run
  <2>2. PICK o : o = IF T[i].verdict # "none" THEN T[i].verdict ELSE "incomplete"
    OBVIOUS
  <2>3. o \in Tallied
    BY <2>1, <2>2 DEF Outcomes, Tallied
  <2>4. PICK k : Summarize(T[i]) = [task |-> k, outcome |-> o]
    BY <2>2 DEF Summarize
  <2>5. Sums(T)[i] = [task |-> task, outcome |-> o]
    BY <1>4, <1>5, <2>4
  <2> QED
    BY <2>3, <2>5
<1>7. n[o] > 0
  <2>1. i \in {k \in DOMAIN Sums(T) : Sums(T)[k] = [task |-> task, outcome |-> o]}
    BY <1>6
  <2>2. PICK S : S = {k \in DOMAIN Sums(T) : Sums(T)[k] = [task |-> task, outcome |-> o]}
    OBVIOUS
  <2>3. n[o] = Cardinality(S) /\ (S # {} => Cardinality(S) > 0)
    BY <1>1, <2>2, CountsAre
  <2> QED
    BY <2>1, <2>2, <2>3
<1>8. Total(n) \in Nat /\ Total(n) > 0
  <2>1. n.passed > 0 \/ n.failed > 0 \/ n.error > 0 \/ n.incomplete > 0
    BY <1>7 DEF Tallied
  <2>2. PICK w, x, y, z \in Nat : w = n.passed /\ x = n.failed /\ y = n.error /\ z = n.incomplete
    BY <1>3
  <2>3. w > 0 \/ x > 0 \/ y > 0 \/ z > 0
    BY <2>1, <2>2
  <2>4. w + x + y + z \in Nat /\ w + x + y + z > 0
    BY <2>3
  <2>5. Total(n) = w + x + y + z
    BY <2>2 DEF Total
  <2> QED
    BY <2>4, <2>5
<1>9. Rate(n) = (n.passed * 100) \div Total(n)
  BY <1>8 DEF Rate
<1>10. (n.passed * 100) \div Total(n) \in Nat
  <2>1. n.passed * 100 \in Nat
    BY <1>3
  <2> QED
    BY <1>8, <2>1, DivIs
<1> QED
  BY <1>2, <1>3, <1>8, <1>9, <1>10

\* What compare says of a task that both snapshots have, against the exact change of its rate.
LEMMA DiffHonest ==
  ASSUME NEW A \in Seq(Trajectory), NEW B \in Seq(Trajectory),
         NEW task \in DOMAIN Rows(A) \cap DOMAIN Rows(B),
         NEW a, NEW b, a = Rows(A), b = Rows(B),
         NEW change, change = b[task].pass * a[task].runs - a[task].pass * b[task].runs,
         NEW point, point = a[task].runs * b[task].runs
  PROVE  /\ Diff(a, b, task) = "regression" => change < 0 /\ CompareExit(a, b) = 1
         /\ Diff(a, b, task) = "improvement" => change > 0
         /\ Diff(a, b, task) \notin {"regression", "improvement"} =>
              100 * change < point /\ -100 * change < point
<1>1. PICK p, t, r : p = a[task].pass /\ t = a[task].runs /\ r = a[task].rate
  OBVIOUS
<1>2. PICK q, u, s : q = b[task].pass /\ u = b[task].runs /\ s = b[task].rate
  OBVIOUS
<1>3. /\ p \in Nat /\ t \in Nat /\ t > 0 /\ r \in Nat /\ r = (p * 100) \div t
      /\ q \in Nat /\ u \in Nat /\ u > 0 /\ s \in Nat /\ s = (q * 100) \div u
  BY <1>1, <1>2, RowFacts
<1>4. p * 100 \in Nat /\ q * 100 \in Nat
  BY <1>3
<1>5. /\ r * t <= p * 100 /\ p * 100 < r * t + t
      /\ s * u <= q * 100 /\ q * 100 < s * u + u
  BY <1>3, <1>4, DivIs
<1>6. /\ s < r => q * t < p * u
      /\ r < s => p * u < q * t
      /\ r = s => /\ 100 * (q * t - p * u) < t * u
                  /\ -100 * (q * t - p * u) < t * u
  BY <1>3, <1>5, RatesCompare
<1>7. task \in DOMAIN a /\ task \in DOMAIN b
  OBVIOUS
<1>8. /\ Diff(a, b, task) = "regression" <=> s - r < 0
      /\ Diff(a, b, task) = "improvement" <=> s - r > 0
  BY <1>1, <1>2, <1>3, <1>7 DEF Diff
<1>9. Diff(a, b, task) = "regression" => CompareExit(a, b) = 1
  BY <1>7 DEF CompareExit
<1>10. change = q * t - p * u /\ point = t * u /\ q * t \in Int /\ p * u \in Int
  <2>1. change = q * t - p * u /\ point = t * u
    BY <1>1, <1>2
  <2> QED
    BY <1>3, <2>1
<1>11. r \in Int /\ s \in Int
  BY <1>3
<1>12. CASE s < r
  BY <1>6, <1>8, <1>9, <1>10, <1>11, <1>12
<1>13. CASE r < s
  BY <1>6, <1>8, <1>10, <1>11, <1>13
<1>14. CASE r = s
  BY <1>6, <1>8, <1>10, <1>11, <1>14
<1> QED
  BY <1>11, <1>12, <1>13, <1>14

\* Both parts of the runs that CompareHonest tells apart are sequences of trajectories.
LEMMA PartsOfRuns ==
  ASSUME Typed, NEW i \in DOMAIN runs, NEW j \in {1, i + 1}
  PROVE  /\ SubSeq(runs, 1, i) \in Seq(Trajectory)
         /\ SubSeq(runs, j, Len(runs)) \in Seq(Trajectory)
<1>1. \A k \in DOMAIN runs : runs[k] \in Trajectory
  BY DEF Typed, Trajectory
<1>2. DOMAIN runs = 1 .. Len(runs) /\ Len(runs) \in Int /\ i \in Int /\ j \in Int /\ 1 <= j /\ 1 \in Int
  BY DEF Typed
<1>3. (\A k \in 1 .. i : runs[k] \in Trajectory) /\ \A k \in j .. Len(runs) : runs[k] \in Trajectory
  BY <1>1, <1>2
<1> QED
  BY <1>2, <1>3, SubSeqProperties

\* CI may trust compare, whatever two directories hold: a regression is a lower rate
\* and gives exit code 1, an improvement a higher one, and a change of a point or more
\* is never "unchanged".
THEOREM BatchCompareHonest == Spec => []CompareHonest
<1>1. Typed => CompareHonest
  <2> SUFFICES ASSUME Typed, NEW i \in DOMAIN runs, NEW j \in {1, i + 1},
                      NEW a, a = Rows(SubSeq(runs, 1, i)),
                      NEW b, b = Rows(SubSeq(runs, j, Len(runs))),
                      NEW t \in DOMAIN a \cap DOMAIN b,
                      NEW change, change = b[t].pass * a[t].runs - a[t].pass * b[t].runs,
                      NEW point, point = a[t].runs * b[t].runs
               PROVE  CASE Diff(a, b, t) = "regression" -> change < 0 /\ CompareExit(a, b) = 1
                        [] Diff(a, b, t) = "improvement" -> change > 0
                        [] OTHER -> 100 * change < point /\ -100 * change < point
    BY DEF CompareHonest
  <2>1. /\ Diff(a, b, t) = "regression" => change < 0 /\ CompareExit(a, b) = 1
        /\ Diff(a, b, t) = "improvement" => change > 0
        /\ Diff(a, b, t) \notin {"regression", "improvement"} =>
             100 * change < point /\ -100 * change < point
    <3>1. PICK A, B \in Seq(Trajectory) : A = SubSeq(runs, 1, i) /\ B = SubSeq(runs, j, Len(runs))
      BY PartsOfRuns
    <3>2. a = Rows(A) /\ b = Rows(B) /\ t \in DOMAIN Rows(A) \cap DOMAIN Rows(B)
      BY <3>1
    <3> QED
      BY <3>2, DiffHonest
  <2> QED
    BY <2>1
<1> QED
  BY <1>1, BatchTyped, PTL
=============================================================================
