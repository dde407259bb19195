----------------------- MODULE TrajectoryWriterProofs -----------------------
(***************************************************************************)
(* Proofs about TrajectoryWriter, for any number of writers and threads:    *)
(* the numbering and what is on disk as long as no line was torn and no two  *)
(* writers were open at once, and at the end what kills can cost otherwise.  *)
(***************************************************************************)
EXTENDS TrajectoryWriter, FiniteSetTheorems, SequenceTheorems, TLAPS

\* What append mode does to a file keeps it a sequence of lines.
LEMMA AppendBytesType ==
  ASSUME NEW f \in Seq(Line), NEW b \in Seq(Line)
  PROVE  AppendBytes(f, b) \in Seq(Line)
<1>1. CASE f # <<>> /\ b # <<>> /\ ~f[Len(f)].nl
  <2> DEFINE last == [f[Len(f)] EXCEPT !.kind = Joined(f[Len(f)].kind, b[1].kind), !.nl = b[1].nl]
  <2>1. Len(f) \in 1..Len(f) /\ 1 \in 1..Len(b)
    BY <1>1, EmptySeq, LenProperties
  <2>2. f[Len(f)] \in Line /\ b[1] \in Line
    BY <2>1, ElementOfSeq
  <2>3. last \in Line
    BY <2>2 DEF Line, Joined
  <2>4. [f EXCEPT ![Len(f)] = last] \in Seq(Line)
    BY <2>1, <2>3, ExceptSeq
  <2>5. Tail(b) \in Seq(Line)
    BY <1>1, HeadTailProperties
  <2>6. AppendBytes(f, b) = [f EXCEPT ![Len(f)] = last] \o Tail(b)
    BY <1>1 DEF AppendBytes
  <2> QED
    BY <2>4, <2>5, <2>6, ConcatProperties
<1>2. CASE ~(f # <<>> /\ b # <<>> /\ ~f[Len(f)].nl)
  BY <1>2, ConcatProperties DEF AppendBytes
<1> QED
  BY <1>1, <1>2

\* The number a reopened writer continues with is a natural number.
LEMMA RecoverType ==
  ASSUME NEW f \in Seq(Line)
  PROVE  RecoverNextSeq(f) \in Nat
<1>1. CASE f = <<>> \/ f[Len(f)].kind = "garbage"
  BY <1>1 DEF RecoverNextSeq
<1>2. CASE ~(f = <<>> \/ f[Len(f)].kind = "garbage")
  <2>1. Len(f) \in 1..Len(f)
    BY <1>2, EmptySeq, LenProperties
  <2>2. f[Len(f)] \in Line
    BY <2>1, ElementOfSeq
  <2>3. f[Len(f)].seq \in Nat
    BY <2>2 DEF Line
  <2> QED
    BY <1>2, <2>3 DEF RecoverNextSeq
<1> QED
  BY <1>1, <1>2

\* The next event of a writer is a line.
LEMMA EventType ==
  ASSUME TypeOK, NEW w \in Writers
  PROVE  Event(w) \in Line
BY DEF TypeOK, Event, Line

\* A thread moves inside write().
LEMMA MoveType ==
  ASSUME TypeOK, NEW w \in Writers, NEW t \in Threads,
         NEW v \in {"idle", "waiting", "checked", "put"},
         pc' = [pc EXCEPT ![w][t] = v]
  PROVE  pc' \in [Writers -> [Threads -> {"idle", "waiting", "checked", "put"}]]
<1>1. [pc[w] EXCEPT ![t] = v] \in [Threads -> {"idle", "waiting", "checked", "put"}]
  BY DEF TypeOK
<1>2. pc' = [pc EXCEPT ![w] = [pc[w] EXCEPT ![t] = v]]
  OBVIOUS
<1> QED
  BY <1>1, <1>2 DEF TypeOK

\* Every way out of write() keeps pc and lock well typed.
LEMMA LeaveType ==
  ASSUME TypeOK, NEW w \in Writers, NEW t \in Threads, Leave(w, t)
  PROVE  /\ pc' \in [Writers -> [Threads -> {"idle", "waiting", "checked", "put"}]]
         /\ lock' \in [Writers -> Threads \cup {NoThread}]
<1>1. lock' \in [Writers -> Threads \cup {NoThread}]
  BY DEF Leave, TypeOK
<1> QED
  BY <1>1, MoveType DEF Leave

\* TypeOK is inductive on its own: every step of every thread, close, kill and
\* torn kill keeps the state well typed.
LEMMA TypeStep ==
  ASSUME TypeOK, [Next]_vars
  PROVE  TypeOK'
<1> USE DEF TypeOK
<1>1. ASSUME NEW w \in Writers, Open(w) PROVE TypeOK'
  BY <1>1, RecoverType DEF Open
<1>2. ASSUME NEW w \in Writers, Close(w) PROVE TypeOK'
  <2>1. file' \in Seq(Line)
    BY <1>2, AppendBytesType DEF Close
  <2>2. buf' \in [Writers -> Seq(Line)]
    BY <1>2 DEF Close
  <2> QED
    BY <1>2, <2>1, <2>2 DEF Close
<1>3. ASSUME NEW w \in Writers, Kill(w) PROVE TypeOK'
  BY <1>3 DEF Kill, Die
<1>4. ASSUME NEW w \in Writers, KillTorn(w) PROVE TypeOK'
  <2>1. PICK k \in {"event", "garbage", "undecodable"} :
          file' = AppendBytes(file, <<[buf[w][1] EXCEPT !.kind = k, !.nl = FALSE]>>)
    BY <1>4 DEF KillTorn
  <2>2. buf[w][1] \in Line
    <3>1. buf[w] \in Seq(Line) /\ buf[w] # <<>>
      BY <1>4 DEF KillTorn
    <3>2. 1 \in 1..Len(buf[w])
      BY <3>1, EmptySeq, LenProperties
    <3> QED
      BY <3>1, <3>2, ElementOfSeq
  <2>3. [buf[w][1] EXCEPT !.kind = k, !.nl = FALSE] \in Line
    BY <2>2 DEF Line
  <2>4. <<[buf[w][1] EXCEPT !.kind = k, !.nl = FALSE]>> \in Seq(Line)
    BY <2>3
  <2>5. file' \in Seq(Line)
    BY <2>1, <2>4, AppendBytesType
  <2>6. Die(w) /\ intact' \in BOOLEAN
    BY <1>4 DEF KillTorn
  <2> QED
    BY <2>5, <2>6 DEF Die
<1>5. ASSUME NEW w \in Writers, NEW t \in Threads, Call(w, t) PROVE TypeOK'
  BY <1>5 DEF Call
<1>6. ASSUME NEW w \in Writers, NEW t \in Threads, Enter(w, t) PROVE TypeOK'
  <2>1. CASE state[w] = "open"
    <3>1. pc' \in [Writers -> [Threads -> {"idle", "waiting", "checked", "put"}]]
      BY <1>6, <2>1, MoveType DEF Enter
    <3>2. lock' \in [Writers -> Threads \cup {NoThread}]
      BY <1>6, <2>1 DEF Enter
    <3> QED
      BY <1>6, <3>1, <3>2 DEF Enter
  <2>2. CASE state[w] # "open"
    BY <1>6, <2>2, LeaveType DEF Enter
  <2> QED
    BY <2>1, <2>2
<1>7. ASSUME NEW w \in Writers, NEW t \in Threads, Put(w, t) PROVE TypeOK'
  <2>1. CASE state[w] = "open"
    <3>1. pc' \in [Writers -> [Threads -> {"idle", "waiting", "checked", "put"}]]
      BY <1>7, <2>1, MoveType DEF Put
    <3>2. Append(buf[w], Event(w)) \in Seq(Line)
      BY EventType, AppendProperties
    <3>3. buf' \in [Writers -> Seq(Line)]
      BY <1>7, <2>1, <3>2 DEF Put
    <3> QED
      BY <1>7, <2>1, <3>1, <3>3 DEF Put
  <2>2. CASE state[w] # "open"
    BY <1>7, <2>2, LeaveType DEF Put
  <2> QED
    BY <2>1, <2>2
<1>8. ASSUME NEW w \in Writers, NEW t \in Threads, Flush(w, t) PROVE TypeOK'
  <2>1. CASE state[w] = "open"
    <3>1. file' \in Seq(Line)
      BY <1>8, <2>1, AppendBytesType DEF Flush
    <3>2. buf' \in [Writers -> Seq(Line)]
      <4>1. buf' = [buf EXCEPT ![w] = <<>>]
        BY <1>8, <2>1 DEF Flush
      <4>2. <<>> \in Seq(Line)
        BY EmptySeq
      <4> QED
        BY <4>1, <4>2
    <3>3. acked' \in SUBSET Line
      BY <1>8, <2>1, EventType DEF Flush
    <3>4. seq' \in [Writers -> Nat]
      <4>1. seq' = [seq EXCEPT ![w] = @ + 1]
        BY <1>8, <2>1 DEF Flush
      <4> QED
        BY <4>1
    <3> QED
      BY <1>8, <2>1, <3>1, <3>2, <3>3, <3>4, LeaveType DEF Flush
  <2>2. CASE state[w] # "open"
    BY <1>8, <2>2, LeaveType DEF Flush
  <2> QED
    BY <2>1, <2>2
<1>9. CASE UNCHANGED vars
  BY <1>9 DEF vars
<1> QED
  BY <1>1, <1>2, <1>3, <1>4, <1>5, <1>6, <1>7, <1>8, <1>9 DEF Next

\* Type correctness: file, counters, locks and buffers keep their types through
\* all of open(), write(), close() and kills.
THEOREM TypeCorrect == Spec => []TypeOK
<1>1. Init => TypeOK
  BY EmptySeq DEF Init, TypeOK
<1> QED
  BY <1>1, TypeStep, PTL DEF Spec
-----------------------------------------------------------------------------
(* The lock.                                                                *)

\* A thread moves to v inside write() and takes, keeps or gives back the lock.
LEMMA MoveLock ==
  ASSUME TypeOK, Unopened, LockHeld, NEW w \in Writers, NEW t \in Threads,
         NEW v \in {"idle", "waiting", "checked", "put"},
         NEW l \in {t, lock[w], NoThread},
         state[w] # "new",
         lock[w] \in {t, NoThread} \/ (l = lock[w] /\ pc[w][t] \notin {"checked", "put"}),
         v \in {"checked", "put"} <=> l = t,
         pc' = [pc EXCEPT ![w][t] = v], lock' = [lock EXCEPT ![w] = l],
         UNCHANGED state
  PROVE  Unopened' /\ LockHeld'
<1>1. \A x \in Writers, u \in Threads :
        pc'[x][u] = IF x = w /\ u = t THEN v ELSE pc[x][u]
  BY DEF TypeOK
<1>2. \A x \in Writers : lock'[x] = IF x = w THEN l ELSE lock[x]
  BY DEF TypeOK
<1>3. Unopened'
  BY <1>1 DEF Unopened
<1>4. LockHeld'
  BY <1>1, <1>2, ConstantsAssumption DEF LockHeld
<1> QED
  BY <1>3, <1>4

\* Mutual exclusion in write(), whatever is killed, closed or torn.
LEMMA LockStep ==
  ASSUME TypeOK, Unopened, LockHeld, [Next]_vars
  PROVE  Unopened' /\ LockHeld'
<1>1. ASSUME NEW w \in Writers, Open(w) \/ Close(w) PROVE Unopened' /\ LockHeld'
  BY <1>1 DEF Open, Close, Unopened, LockHeld, TypeOK
<1>2. ASSUME NEW w \in Writers, Die(w) PROVE Unopened' /\ LockHeld'
  <2>1. \A v \in Writers : state'[v] = IF v = w THEN "dead" ELSE state[v]
    BY <1>2 DEF Die, TypeOK
  <2>2. \A v \in Writers, t \in Threads :
          pc'[v][t] = IF v = w THEN "idle" ELSE pc[v][t]
    BY <1>2 DEF Die, TypeOK
  <2>3. \A v \in Writers : lock'[v] = IF v = w THEN NoThread ELSE lock[v]
    BY <1>2 DEF Die, TypeOK
  <2> QED
    BY <2>1, <2>2, <2>3, ConstantsAssumption DEF Unopened, LockHeld
<1>3. ASSUME NEW w \in Writers, NEW t \in Threads, Call(w, t)
      PROVE  Unopened' /\ LockHeld'
  <2>1. \A v \in Writers, u \in Threads :
          pc'[v][u] = IF v = w /\ u = t THEN "waiting" ELSE pc[v][u]
    BY <1>3 DEF Call, TypeOK
  <2> QED
    BY <1>3, <2>1 DEF Call, Unopened, LockHeld
<1>4. ASSUME NEW w \in Writers, NEW t \in Threads, Leave(w, t), UNCHANGED state,
             lock[w] \in {t, NoThread}, pc[w][t] # "idle"
      PROVE  Unopened' /\ LockHeld'
  <2>1. state[w] # "new"
    BY <1>4 DEF Unopened
  <2> QED
    BY <1>4, <2>1, MoveLock, ConstantsAssumption DEF Leave
<1>5. ASSUME NEW w \in Writers, NEW t \in Threads, Enter(w, t)
      PROVE  Unopened' /\ LockHeld'
  <2>1. CASE state[w] = "open"
    BY <1>5, <2>1, MoveLock DEF Enter
  <2>2. CASE state[w] # "open"
    BY <1>4, <1>5, <2>2 DEF Enter
  <2> QED
    BY <2>1, <2>2
<1>6. ASSUME NEW w \in Writers, NEW t \in Threads, Put(w, t)
      PROVE  Unopened' /\ LockHeld'
  <2>1. lock[w] = t
    BY <1>6 DEF Put, LockHeld
  <2>2. CASE state[w] = "open"
    <3>1. \A v \in Writers, u \in Threads :
            pc'[v][u] = IF v = w /\ u = t THEN "put" ELSE pc[v][u]
      BY <1>6, <2>2 DEF Put, TypeOK
    <3> QED
      BY <1>6, <2>1, <2>2, <3>1 DEF Put, Unopened, LockHeld
  <2>3. CASE state[w] # "open"
    BY <1>4, <1>6, <2>1, <2>3 DEF Put
  <2> QED
    BY <2>2, <2>3
<1>7. ASSUME NEW w \in Writers, NEW t \in Threads, Flush(w, t)
      PROVE  Unopened' /\ LockHeld'
  <2>1. lock[w] = t
    BY <1>7 DEF Flush, LockHeld
  <2> QED
    BY <1>4, <1>7, <2>1 DEF Flush
<1>8. ASSUME UNCHANGED vars PROVE Unopened' /\ LockHeld'
  BY <1>8 DEF vars, Unopened, LockHeld
<1> QED
  BY <1>1, <1>2, <1>3, <1>5, <1>6, <1>7, <1>8 DEF Next, Kill, KillTorn
-----------------------------------------------------------------------------
(* Numbering and durability, as long as no kill has torn a line and no two  *)
(* writers were open at once.                                               *)

\* When every line is whole, append mode adds the buffered lines and no more.
LEMMA AppendWhole ==
  ASSUME TypeOK, Whole, NEW b
  PROVE  AppendBytes(file, b) = file \o b
<1>1. file = <<>> \/ file[Len(file)].nl
  <2>1. file # <<>> => Len(file) \in DOMAIN file
    BY EmptySeq, LenProperties DEF TypeOK
  <2> QED
    BY <2>1 DEF Whole
<1> QED
  BY <1>1 DEF AppendBytes

\* A writer opened on a whole, numbered file continues the numbering.
LEMMA RecoverIsLen ==
  ASSUME TypeOK, FromZero
  PROVE  RecoverNextSeq(file) = Len(file)
<1>1. CASE file = <<>>
  BY <1>1 DEF RecoverNextSeq
<1>2. CASE file # <<>>
  <2>1. Len(file) \in Nat /\ Len(file) \in DOMAIN file
    BY <1>2, EmptySeq, LenProperties DEF TypeOK
  <2>2. file[Len(file)].kind = "event" /\ file[Len(file)].seq = Len(file) - 1
    BY <2>1 DEF FromZero
  <2> QED
    BY <1>2, <2>1, <2>2 DEF RecoverNextSeq
<1> QED
  BY <1>1, <1>2

\* The event of a writer whose counter is at the end extends the numbering and
\* leaves every acknowledged line where it is.
LEMMA ExtendFile ==
  ASSUME TypeOK, FromZero, Whole, OnDisk, NEW w \in Writers,
         seq[w] = Len(file), file' = file \o <<Event(w)>>,
         acked' \subseteq acked \cup {Event(w)}
  PROVE  /\ Len(file') = Len(file) + 1
         /\ FromZero' /\ Whole' /\ OnDisk'
<1>1. /\ file \in Seq(Line) /\ <<Event(w)>> \in Seq(Line)
      /\ Len(<<Event(w)>>) = 1 /\ <<Event(w)>>[1] = Event(w)
  BY EventType DEF TypeOK
<1>2. /\ file' \in Seq(Line) /\ Len(file) \in Nat
      /\ Len(file') = Len(file) + 1
      /\ \A i \in 1..Len(file) + 1 :
           file'[i] = IF i <= Len(file) THEN file[i] ELSE <<Event(w)>>[i - Len(file)]
  BY <1>1, ConcatProperties, LenProperties
<1>3. DOMAIN file = 1..Len(file) /\ DOMAIN file' = 1..Len(file) + 1
  BY <1>1, <1>2, LenProperties
<1>4. /\ \A i \in DOMAIN file : file'[i] = file[i]
      /\ file'[Len(file) + 1] = Event(w)
  <2>1. \A i \in 1..Len(file) : i \in 1..Len(file) + 1 /\ i <= Len(file)
    BY <1>2
  <2>2. Len(file) + 1 \in 1..Len(file) + 1 /\ ~(Len(file) + 1 <= Len(file))
        /\ Len(file) + 1 - Len(file) = 1
    BY <1>2
  <2>3. file'[Len(file) + 1] = <<Event(w)>>[1]
    BY <1>2, <2>2
  <2> QED
    BY <1>1, <1>2, <1>3, <2>1, <2>3
<1>5. \A i \in DOMAIN file' : i \in DOMAIN file \/ i = Len(file) + 1
  BY <1>2, <1>3
<1>6. Event(w).kind = "event" /\ Event(w).seq = Len(file) + 1 - 1 /\ Event(w).nl
  BY <1>2 DEF Event
<1>7. FromZero'
  BY <1>4, <1>5, <1>6 DEF FromZero
<1>8. Whole'
  BY <1>4, <1>5, <1>6 DEF Whole
<1>9. OnDisk'
  <2>1. \A i \in DOMAIN file : i \in DOMAIN file'
    BY <1>2, <1>3
  <2>2. Len(file) + 1 \in DOMAIN file'
    BY <1>2, <1>3
  <2> QED
    BY <1>4, <2>1, <2>2 DEF OnDisk
<1> QED
  BY <1>2, <1>7, <1>8, <1>9

\* An append of nothing.
LEMMA AppendNothing ==
  ASSUME TypeOK
  PROVE  file \o <<>> = file
BY ConcatEmptySeq DEF TypeOK

\* No step but a write or a close touches the file: the rest of the invariant
\* about the file is then a matter of FromZero, Whole and acked only.
LEMMA FileUnchanged ==
  ASSUME FromZero, Whole, OnDisk, UNCHANGED <<file, acked>>
  PROVE  FromZero' /\ Whole' /\ OnDisk'
BY DEF FromZero, Whole, OnDisk

\* The invariant of an intact file.
Good == TypeOK /\ Unopened /\ LockHeld /\ Exact

LEMMA OpenStep ==
  ASSUME Good, NEW w \in Writers, Open(w), intact'
  PROVE  Exact'
<1>1. FromZero' /\ Whole' /\ OnDisk'
  BY FileUnchanged DEF Good, Exact, Open
<1>2. \A v \in Writers : state[v] # "open"
  BY DEF Open, Good, Exact, TypeOK
<1>3. \A v \in Writers : state'[v] = IF v = w THEN "open" ELSE state[v]
  BY DEF Open, Good, Exact, TypeOK
<1>4. OneWriter'
  BY <1>2, <1>3 DEF OneWriter
<1>5. SeqAtEnd'
  <2>1. seq'[w] = Len(file)
    BY RecoverIsLen DEF Open, Good, Exact, TypeOK
  <2> QED
    BY <1>2, <1>3, <2>1 DEF Open, SeqAtEnd
<1>7. Buffered'
  <2>1. \A v \in Writers : buf[v] = <<>>
    BY <1>2 DEF Buffered, Good, Exact
  <2>2. \A t \in Threads : pc[w][t] = "idle"
    BY DEF Open, Unopened, Good, Exact
  <2> QED
    BY <1>2, <1>3, <2>1, <2>2 DEF Open, Buffered
<1> QED
  BY <1>1, <1>4, <1>5, <1>7 DEF Exact

LEMMA CloseStep ==
  ASSUME Good, NEW w \in Writers, Close(w)
  PROVE  Exact'
<1>1. \A v \in Writers : state'[v] = IF v = w THEN "closed" ELSE state[v]
  BY DEF Close, Good, Exact, TypeOK
<1>2. \A v \in Writers : v # w => state[v] # "open"
  BY DEF Close, OneWriter, Good, Exact
<1>3. \A v \in Writers : state'[v] # "open"
  BY <1>1, <1>2
<1>4. \A v \in Writers : buf'[v] = <<>>
  BY <1>2 DEF Close, Buffered, Good, Exact, TypeOK
<1>5. file' = file \o buf[w]
  BY AppendWhole DEF Close, Good, Exact
<1>6. buf[w] = <<>> \/ buf[w] = <<Event(w)>>
  BY DEF Close, Buffered, Good, Exact
<1>7. FromZero' /\ Whole' /\ OnDisk'
  <2>1. CASE buf[w] = <<>>
    BY <1>5, <2>1, AppendNothing, FileUnchanged DEF Close, Good, Exact
  <2>2. CASE buf[w] = <<Event(w)>>
    BY <1>5, <2>2, ExtendFile DEF Close, Good, Exact, SeqAtEnd
  <2> QED
    BY <1>6, <2>1, <2>2
<1>8. OneWriter' /\ SeqAtEnd' /\ Buffered'
  BY <1>3, <1>4 DEF OneWriter, SeqAtEnd, Buffered
<1> QED
  BY <1>7, <1>8 DEF Exact

LEMMA KillStep ==
  ASSUME Good, NEW w \in Writers, Kill(w)
  PROVE  Exact'
<1>1. FromZero' /\ Whole' /\ OnDisk'
  BY FileUnchanged DEF Good, Exact, Kill, Die
<1>2. \A v \in Writers : state'[v] = IF v = w THEN "dead" ELSE state[v]
  BY DEF Kill, Die, Good, Exact, TypeOK
<1>3. OneWriter' /\ SeqAtEnd'
  BY <1>2 DEF Kill, Die, OneWriter, SeqAtEnd, Good, Exact
<1>4. \A v \in Writers, t \in Threads :
        pc'[v][t] = IF v = w THEN "idle" ELSE pc[v][t]
  BY DEF Kill, Die, Good, Exact, TypeOK
<1>6. \A v \in Writers : buf'[v] = IF v = w THEN <<>> ELSE buf[v]
  BY DEF Kill, Die, Good, Exact, TypeOK
<1>8. Buffered'
  BY <1>2, <1>4, <1>6 DEF Kill, Die, Buffered, Event, Good, Exact
<1> QED
  BY <1>1, <1>3, <1>8 DEF Exact

LEMMA CallStep ==
  ASSUME Good, NEW w \in Writers, NEW t \in Threads, Call(w, t)
  PROVE  Exact'
<1>1. FromZero' /\ Whole' /\ OnDisk'
  BY FileUnchanged DEF Good, Exact, Call
<1>2. \A v \in Writers, u \in Threads :
        pc'[v][u] = IF v = w /\ u = t THEN "waiting" ELSE pc[v][u]
  BY DEF Call, Good, Exact, TypeOK
<1>3. OneWriter' /\ SeqAtEnd'
  BY DEF Call, OneWriter, SeqAtEnd, Good, Exact
<1>5. Buffered'
  BY <1>2 DEF Call, Buffered, Event, Good, Exact
<1> QED
  BY <1>1, <1>3, <1>5 DEF Exact

\* A thread leaves write() without having put its line in the buffer.
LEMMA LeaveStep ==
  ASSUME Good, NEW w \in Writers, NEW t \in Threads, Leave(w, t),
         state[w] # "open", lock[w] \in {t, NoThread},
         UNCHANGED <<file, state, seq, buf, acked>>
  PROVE  Exact'
<1>1. FromZero' /\ Whole' /\ OnDisk'
  BY FileUnchanged DEF Good, Exact
<1>2. \A v \in Writers, u \in Threads :
        pc'[v][u] = IF v = w /\ u = t THEN "idle" ELSE pc[v][u]
  BY DEF Leave, Good, Exact, TypeOK
<1>4. OneWriter' /\ SeqAtEnd'
  BY <1>2 DEF OneWriter, SeqAtEnd, Good, Exact
<1>6. Buffered'
  BY <1>2 DEF Buffered, Event, Good, Exact
<1> QED
  BY <1>1, <1>4, <1>6 DEF Exact

LEMMA EnterStep ==
  ASSUME Good, NEW w \in Writers, NEW t \in Threads, Enter(w, t)
  PROVE  Exact'
<1>1. CASE state[w] # "open"
  BY <1>1, LeaveStep DEF Enter
<1>2. CASE state[w] = "open"
  <2>1. FromZero' /\ Whole' /\ OnDisk'
    BY FileUnchanged DEF Good, Exact, Enter
  <2>2. \A v \in Writers, u \in Threads :
          pc'[v][u] = IF v = w /\ u = t THEN "checked" ELSE pc[v][u]
    BY <1>2 DEF Enter, Good, Exact, TypeOK
  <2>4. OneWriter' /\ SeqAtEnd'
    BY DEF Enter, OneWriter, SeqAtEnd, Good, Exact
  <2>7. Buffered'
    BY <2>2 DEF Enter, Buffered, Event, Good, Exact
  <2> QED
    BY <2>1, <2>4, <2>7 DEF Exact
<1> QED
  BY <1>1, <1>2

LEMMA PutStep ==
  ASSUME Good, NEW w \in Writers, NEW t \in Threads, Put(w, t)
  PROVE  Exact'
<1>1. lock[w] = t
  BY DEF Put, LockHeld, Good, Exact
<1>2. CASE state[w] # "open"
  BY <1>1, <1>2, LeaveStep DEF Put
<1>3. CASE state[w] = "open"
  <2>1. FromZero' /\ Whole' /\ OnDisk'
    BY FileUnchanged DEF Good, Exact, Put
  <2>2. \A v \in Writers, u \in Threads :
          pc'[v][u] = IF v = w /\ u = t THEN "put" ELSE pc[v][u]
    BY <1>3 DEF Put, Good, Exact, TypeOK
  <2>3. OneWriter' /\ SeqAtEnd'
    BY DEF Put, OneWriter, SeqAtEnd, Good, Exact
  <2>5. \A u \in Threads : pc[w][u] # "put"
    BY <1>1 DEF Put, LockHeld, Good, Exact
  <2>6. buf[w] = <<>>
    BY <2>5 DEF Buffered, Good, Exact
  <2>7. \A v \in Writers : buf'[v] = IF v = w THEN <<Event(w)>> ELSE buf[v]
    BY <1>3, <2>6 DEF Put, Good, Exact, TypeOK
  <2>8. Buffered'
    <3>1. \A v \in Writers : state'[v] = state[v] /\ Event(v)' = Event(v)
      BY DEF Put, Event
    <3>2. \A v \in Writers, u \in Threads :
            state[v] = "open" /\ pc'[v][u] = "put" => buf'[v] = <<Event(v)>>
      BY <2>2, <2>7 DEF Buffered, Good, Exact
    <3>3. \A v \in Writers : buf'[v] # <<>> =>
            state[v] = "open" /\ \E u \in Threads : pc'[v][u] = "put"
      BY <1>3, <2>2, <2>7 DEF Buffered, Good, Exact
    <3> QED
      BY <3>1, <3>2, <3>3 DEF Buffered
  <2> QED
    BY <2>1, <2>3, <2>8 DEF Exact
<1> QED
  BY <1>2, <1>3

LEMMA FlushStep ==
  ASSUME Good, NEW w \in Writers, NEW t \in Threads, Flush(w, t)
  PROVE  Exact'
<1>1. lock[w] = t
  BY DEF Flush, LockHeld, Good, Exact
<1>2. CASE state[w] # "open"
  BY <1>1, <1>2, LeaveStep DEF Flush
<1>3. CASE state[w] = "open"
  <2>1. buf[w] = <<Event(w)>>
    BY <1>3 DEF Flush, Buffered, Good, Exact
  <2>2. seq[w] = Len(file)
    BY <1>3 DEF SeqAtEnd, Good, Exact
  <2>3. file' = file \o <<Event(w)>> /\ acked' = acked \cup {Event(w)}
    BY <1>3, <2>1, AppendWhole DEF Flush, Good, Exact
  <2>4. Len(file') = Len(file) + 1 /\ FromZero' /\ Whole' /\ OnDisk'
    BY <2>2, <2>3, ExtendFile DEF Good, Exact
  <2>5. \A v \in Writers, u \in Threads :
          pc'[v][u] = IF v = w /\ u = t THEN "idle" ELSE pc[v][u]
    BY DEF Flush, Leave, Good, Exact, TypeOK
  <2>7. \A v \in Writers : seq'[v] = IF v = w THEN seq[w] + 1 ELSE seq[v]
    BY <1>3 DEF Flush, Good, Exact, TypeOK
  <2>8. \A v \in Writers : buf'[v] = IF v = w THEN <<>> ELSE buf[v]
    BY <1>3 DEF Flush, Good, Exact, TypeOK
  <2>9. \A v \in Writers : state[v] = "open" => v = w
    BY <1>3 DEF OneWriter, Good, Exact
  <2>10. OneWriter' /\ SeqAtEnd'
    BY <2>2, <2>4, <2>7, <2>9 DEF Flush, OneWriter, SeqAtEnd, Good, Exact
  <2>12. Buffered'
    <3>1. \A u \in Threads : pc'[w][u] # "put"
      BY <1>1, <2>5 DEF LockHeld, Good, Exact
    <3>2. \A v \in Writers : buf'[v] = <<>>
      BY <2>8, <2>9 DEF Buffered, Good, Exact
    <3> QED
      BY <2>9, <3>1, <3>2 DEF Flush, Buffered
  <2> QED
    BY <2>4, <2>10, <2>12 DEF Exact
<1> QED
  BY <1>2, <1>3

\* What WriterInv says of an intact file survives every step that leaves it intact.
LEMMA ExactStep ==
  ASSUME Good, Next, intact'
  PROVE  Exact'
<1>1. ASSUME NEW w \in Writers,
             Open(w) \/ Close(w) \/ Kill(w) \/ KillTorn(w)
      PROVE  Exact'
  <2>1. ~KillTorn(w)
    BY DEF KillTorn
  <2> QED
    BY <1>1, <2>1, OpenStep, CloseStep, KillStep
<1>2. ASSUME NEW w \in Writers, NEW t \in Threads,
             Call(w, t) \/ Enter(w, t) \/ Put(w, t) \/ Flush(w, t)
      PROVE  Exact'
  BY <1>2, CallStep, EnterStep, PutStep, FlushStep
<1> QED
  BY <1>1, <1>2 DEF Next

\* Nothing makes a damaged file intact again.
LEMMA IntactStep ==
  ASSUME TypeOK, Next
  PROVE  intact' => intact
BY DEF Next, Open, Close, Kill, KillTorn, Call, Enter, Put, Flush, TypeOK

LEMMA WriterInvStep ==
  ASSUME WriterInv, [Next]_vars
  PROVE  WriterInv'
<1>1. TypeOK' /\ Unopened' /\ LockHeld'
  BY TypeStep, LockStep DEF WriterInv
<1>2. ASSUME Next, intact' PROVE Exact'
  BY <1>2, IntactStep, ExactStep DEF WriterInv, Good
<1>3. ASSUME UNCHANGED vars PROVE intact' => Exact'
  BY <1>3 DEF vars, WriterInv, Exact, OneWriter, FromZero, Whole, SeqAtEnd, Buffered,
     Event, OnDisk
<1> QED
  BY <1>1, <1>2, <1>3 DEF WriterInv

LEMMA WriterInvInit == Init => WriterInv
<1> SUFFICES ASSUME Init PROVE WriterInv
  OBVIOUS
<1>1. TypeOK
  BY EmptySeq DEF Init, TypeOK
<1>2. DOMAIN file = {}
  BY DEF Init
<1> QED
  BY <1>1, <1>2, ConstantsAssumption DEF Init, WriterInv, Exact, OneWriter, FromZero,
     Whole, SeqAtEnd, Unopened, LockHeld, Buffered, OnDisk

\* The inductive invariant: mutual exclusion in write() and, for an intact file,
\* what numbering and durability rest on.
THEOREM WriterInvariant == Spec => []WriterInv
<1>1. Init => WriterInv
  BY WriterInvInit
<1>2. WriterInv /\ [Next]_vars => WriterInv'
  BY WriterInvStep
<1> QED
  BY <1>1, <1>2, PTL DEF Spec

\* Line i of an intact file is the event numbered i - 1, whatever the number of
\* threads, kills and reopenings (_lock in write(), _recover_next_seq in open()).
THEOREM NumberedAlways == Spec => []Numbered
<1>1. WriterInv => Numbered
  BY DEF WriterInv, Exact, Numbered
<1> QED
  BY <1>1, WriterInvariant, PTL

\* An event whose write() returned is and stays in an intact file (flush in write()).
THEOREM AckedDurable == Spec => []AckedOnDisk
<1>1. WriterInv => AckedOnDisk
  BY DEF WriterInv, Exact, AckedOnDisk
<1> QED
  BY <1>1, WriterInvariant, PTL
-----------------------------------------------------------------------------
(* Refinement: an intact file is the abstract NumberedLog.                  *)

\* One more line in the file is one more entry of the log.
LEMMA LogOfAppend ==
  ASSUME NEW f \in Seq(Line), NEW l \in Line
  PROVE  /\ LogOf(f \o <<l>>) = Append(LogOf(f), Entry(l))
         /\ Len(LogOf(f)) = Len(f)
<1>1. /\ <<l>> \in Seq(Line) /\ Len(<<l>>) = 1 /\ <<l>>[1] = l
  OBVIOUS
<1>2. /\ Len(f) \in Nat /\ DOMAIN f = 1..Len(f)
      /\ f \o <<l>> \in Seq(Line) /\ Len(f \o <<l>>) = Len(f) + 1
      /\ DOMAIN (f \o <<l>>) = 1..Len(f) + 1
      /\ \A i \in 1..Len(f) + 1 :
           (f \o <<l>>)[i] = IF i <= Len(f) THEN f[i] ELSE <<l>>[i - Len(f)]
  BY <1>1, ConcatProperties, LenProperties
<1>3. \A i \in 1..Len(f) + 1 : (f \o <<l>>)[i] = IF i = Len(f) + 1 THEN l ELSE f[i]
  <2> TAKE i \in 1..Len(f) + 1
  <2>1. CASE i = Len(f) + 1
    <3>1. ~(i <= Len(f)) /\ i - Len(f) = 1
      BY <1>2, <2>1
    <3> QED
      BY <1>1, <1>2, <2>1, <3>1
  <2>2. CASE i # Len(f) + 1
    <3>1. i <= Len(f)
      BY <1>2, <2>2
    <3> QED
      BY <1>2, <2>2, <3>1
  <2> QED
    BY <2>1, <2>2
<1>4. LogOf(f) = [i \in 1..Len(f) |-> Entry(f[i])]
  BY <1>2 DEF LogOf
<1>5. LogOf(f) \in Seq({Entry(f[i]) : i \in 1..Len(f)})
  BY <1>2, <1>4, SeqDef
<1>6. Len(LogOf(f)) = Len(f)
  BY <1>2, <1>4, <1>5, LenProperties
<1> QED
  BY <1>2, <1>3, <1>4, <1>6 DEF LogOf

\* The event that is put at the end of an intact file is the entry that the
\* abstract log adds.
LEMMA AddEntry ==
  ASSUME TypeOK, SeqAtEnd, NEW w \in Writers, state[w] = "open",
         file' = file \o <<Event(w)>>,
         acked' = acked \/ acked' = acked \cup {Event(w)}
  PROVE  Log!Next
<1> DEFINE e == [seq |-> Len(LogOf(file)), by |-> w]
<1>1. Entry(Event(w)) = e
  <2>1. Len(LogOf(file)) = seq[w]
    BY LogOfAppend, EventType DEF TypeOK, SeqAtEnd
  <2> QED
    BY <2>1 DEF Entry, Event
<1>2. LogOf(file') = Append(LogOf(file), e)
  BY <1>1, LogOfAppend, EventType DEF TypeOK
<1>3. {Entry(a) : a \in acked'} \in {{Entry(a) : a \in acked},
                                    {Entry(a) : a \in acked} \cup {e}}
  BY <1>1
<1>4. LogOf(file)' = LogOf(file')
  BY DEF LogOf, Entry
<1> QED
  BY <1>2, <1>3, <1>4 DEF Log!Next, Log!Add

\* Every step that leaves the file intact and changes it adds one entry.
LEMMA LogStep ==
  ASSUME WriterInv, [Next]_vars, intact', ~UNCHANGED <<file, acked>>
  PROVE  Log!Next
<1>1. Next /\ Good
  BY IntactStep DEF vars, WriterInv, Good
<1>2. ASSUME NEW w \in Writers, Close(w) PROVE Log!Next
  <2>1. file' = file \o buf[w] /\ acked' = acked
    BY <1>1, <1>2, AppendWhole DEF Close, Good, Exact
  <2>2. buf[w] = <<Event(w)>>
    <3>1. buf[w] = <<>> \/ buf[w] = <<Event(w)>>
      BY <1>1, <1>2 DEF Close, Buffered, Good, Exact
    <3> QED
      BY <1>1, <2>1, <3>1, AppendNothing DEF Good
  <2> QED
    BY <1>1, <1>2, <2>1, <2>2, AddEntry DEF Close, Good, Exact
<1>3. ASSUME NEW w \in Writers, NEW t \in Threads, Flush(w, t) PROVE Log!Next
  <2>1. state[w] = "open"
    BY <1>3 DEF Flush
  <2>2. buf[w] = <<Event(w)>>
    BY <1>1, <1>3, <2>1 DEF Flush, Buffered, Good, Exact
  <2>3. file' = file \o <<Event(w)>> /\ acked' = acked \cup {Event(w)}
    BY <1>1, <1>3, <2>1, <2>2, AppendWhole DEF Flush, Good, Exact
  <2> QED
    BY <1>1, <2>1, <2>3, AddEntry DEF Good, Exact
<1> QED
  BY <1>1, <1>2, <1>3 DEF Next, Open, Kill, KillTorn, Die, Call, Enter, Put

\* The writer implements the abstract log until its file is damaged: no
\* interleaving of threads, close(), kills and reopenings does anything to it but
\* add one entry with the next number.
THEOREM WriterImplementsLog == Spec => ImplementsLog
<1>1. Init => Log!Init
  <2> SUFFICES ASSUME Init PROVE Log!Init
    OBVIOUS
  <2>1. LogOf(file) = <<>>
    BY DEF Init, LogOf
  <2> QED
    BY <2>1 DEF Init, Log!Init
<1>2. WriterInv /\ [Next]_vars => [intact' => Log!Next]_<<file, acked>>
  BY LogStep
<1> QED
  BY <1>1, <1>2, WriterInvariant, PTL DEF Spec, ImplementsLog
-----------------------------------------------------------------------------
(* Late lines: what is appended comes from the writer's own buffer.          *)

\* The buffer of a writer holds lines of that writer only.
BufferedOwn == \A w \in Writers : \A i \in DOMAIN buf[w] : buf[w][i].by = w

\* What a concatenation is made of.
LEMMA ConcatFacts ==
  ASSUME NEW S, NEW f \in Seq(S), NEW b \in Seq(S)
  PROVE  /\ DOMAIN (f \o b) = 1..Len(f) + Len(b)
         /\ \A k \in 1..Len(f) + Len(b) :
              (f \o b)[k] = IF k <= Len(f) THEN f[k] ELSE b[k - Len(f)]
BY ConcatProperties, LenProperties

\* Every line that an append adds to the file is one of the lines appended.
LEMMA AppendedIsFromBuffer ==
  ASSUME NEW f \in Seq(Line), NEW b \in Seq(Line),
         NEW i \in DOMAIN AppendBytes(f, b) \ DOMAIN f
  PROVE  \E j \in DOMAIN b : AppendBytes(f, b)[i] = b[j]
<1>1. Len(f) \in Nat /\ Len(b) \in Nat /\ DOMAIN f = 1..Len(f) /\ DOMAIN b = 1..Len(b)
  BY LenProperties
<1>2. CASE f # <<>> /\ b # <<>> /\ ~f[Len(f)].nl
  <2> DEFINE g == [f EXCEPT ![Len(f)] = [f[Len(f)] EXCEPT !.kind = Joined(f[Len(f)].kind, b[1].kind),
                                                       !.nl = b[1].nl]]
  <2>1. Len(f) \in 1..Len(f) /\ 1 \in 1..Len(b)
    BY <1>2, EmptySeq, LenProperties
  <2>2. f[Len(f)] \in Line /\ b[1] \in Line
    BY <2>1, ElementOfSeq
  <2>3. [f[Len(f)] EXCEPT !.kind = Joined(f[Len(f)].kind, b[1].kind), !.nl = b[1].nl] \in Line
    BY <2>2 DEF Line, Joined
  <2>4. g \in Seq(Line) /\ Len(g) = Len(f)
    BY <2>1, <2>3, ExceptSeq
  <2>5. /\ Tail(b) \in Seq(Line) /\ Len(Tail(b)) = Len(b) - 1
        /\ \A j \in 1..Len(b) - 1 : Tail(b)[j] = b[j + 1]
    BY <1>2, HeadTailProperties
  <2>6. AppendBytes(f, b) = g \o Tail(b)
    BY <1>2 DEF AppendBytes
  <2> HIDE DEF g
  <2>r. PICK r : r = Tail(b)
    OBVIOUS
  <2>7. /\ DOMAIN (g \o r) = 1..Len(f) + (Len(b) - 1)
        /\ \A k \in 1..Len(f) + (Len(b) - 1) :
             (g \o r)[k] = IF k <= Len(f) THEN g[k] ELSE r[k - Len(f)]
    <3>1. r \in Seq(Line) /\ Len(r) = Len(b) - 1
      BY <2>5, <2>r
    <3> QED
      BY <2>4, <3>1, ConcatFacts
  <2>8. i \in 1..Len(f) + (Len(b) - 1) /\ ~(i <= Len(f))
    BY <1>1, <2>6, <2>7, <2>r
  <2>9. i - Len(f) \in 1..Len(b) - 1 /\ (i - Len(f)) + 1 \in 1..Len(b)
    BY <1>1, <2>8
  <2>10. (g \o r)[i] = r[i - Len(f)]
    BY <2>7, <2>8
  <2>11. r[i - Len(f)] = b[(i - Len(f)) + 1]
    BY <2>5, <2>9, <2>r
  <2> QED
    BY <1>1, <2>6, <2>9, <2>10, <2>11, <2>r
<1>3. CASE ~(f # <<>> /\ b # <<>> /\ ~f[Len(f)].nl)
  <2>1. AppendBytes(f, b) = f \o b
    BY <1>3 DEF AppendBytes
  <2>2. /\ DOMAIN (f \o b) = 1..Len(f) + Len(b)
        /\ \A k \in 1..Len(f) + Len(b) :
             (f \o b)[k] = IF k <= Len(f) THEN f[k] ELSE b[k - Len(f)]
    BY <1>1, ConcatProperties, LenProperties
  <2>3. i \in 1..Len(f) + Len(b) /\ ~(i <= Len(f))
    BY <1>1, <2>1, <2>2
  <2>4. i - Len(f) \in 1..Len(b)
    BY <1>1, <2>3
  <2> QED
    BY <1>1, <2>1, <2>2, <2>3, <2>4
<1> QED
  BY <1>2, <1>3

LEMMA BufferedOwnStep ==
  ASSUME TypeOK, BufferedOwn, [Next]_vars
  PROVE  BufferedOwn'
<1>1. ASSUME NEW w \in Writers, NEW t \in Threads, Put(w, t) PROVE BufferedOwn'
  <2>1. CASE state[w] = "open"
    <3>1. buf[w] \in Seq(Line) /\ Event(w) \in Line /\ Event(w).by = w
      BY EventType DEF TypeOK, Event
    <3>2. /\ DOMAIN buf[w] = 1..Len(buf[w]) /\ Len(buf[w]) \in Nat
          /\ DOMAIN Append(buf[w], Event(w)) = 1..Len(buf[w]) + 1
          /\ \A i \in 1..Len(buf[w]) : Append(buf[w], Event(w))[i] = buf[w][i]
          /\ Append(buf[w], Event(w))[Len(buf[w]) + 1] = Event(w)
      BY <3>1, AppendProperties, LenProperties
    <3>3. \A i \in DOMAIN Append(buf[w], Event(w)) : Append(buf[w], Event(w))[i].by = w
      <4> TAKE i \in DOMAIN Append(buf[w], Event(w))
      <4>1. i \in 1..Len(buf[w]) \/ i = Len(buf[w]) + 1
        BY <3>2
      <4> QED
        BY <3>1, <3>2, <4>1 DEF BufferedOwn
    <3>4. /\ buf'[w] = Append(buf[w], Event(w))
          /\ \A v \in Writers : v # w => buf'[v] = buf[v]
      BY <1>1, <2>1 DEF Put, TypeOK
    <3> HIDE DEF Event
    <3> QED
      BY <3>3, <3>4 DEF BufferedOwn
  <2>2. CASE state[w] # "open"
    BY <1>1, <2>2 DEF Put, BufferedOwn
  <2> QED
    BY <2>1, <2>2
<1>2. ASSUME NEW w \in Writers, buf' = [buf EXCEPT ![w] = <<>>] PROVE BufferedOwn'
  <2>1. DOMAIN buf'[w] = {} /\ \A v \in Writers : v # w => buf'[v] = buf[v]
    BY <1>2 DEF TypeOK
  <2> QED
    BY <2>1 DEF BufferedOwn
<1>3. CASE UNCHANGED buf
  BY <1>3 DEF BufferedOwn
<1> QED
  BY <1>1, <1>2, <1>3
     DEF Next, vars, Open, Close, Kill, KillTorn, Die, Call, Enter, Flush

\* A step that changes the file appends lines of a writer that is open.
LEMMA LateStep ==
  ASSUME TypeOK, BufferedOwn, Next, NEW i \in DOMAIN file' \ DOMAIN file
  PROVE  state[file'[i].by] = "open"
<1>1. ASSUME NEW w \in Writers, state[w] = "open", file' = AppendBytes(file, buf[w])
      PROVE  state[file'[i].by] = "open"
  <2>1. PICK j \in DOMAIN buf[w] : file'[i] = buf[w][j]
    BY <1>1, AppendedIsFromBuffer DEF TypeOK
  <2> QED
    BY <1>1, <2>1 DEF BufferedOwn
<1>2. ASSUME NEW w \in Writers, KillTorn(w) PROVE state[file'[i].by] = "open"
  <2>1. PICK k \in {"event", "garbage", "undecodable"} :
          file' = AppendBytes(file, <<[buf[w][1] EXCEPT !.kind = k, !.nl = FALSE]>>)
    BY <1>2 DEF KillTorn
  <2> DEFINE l == [buf[w][1] EXCEPT !.kind = k, !.nl = FALSE]
  <2>2. 1 \in DOMAIN buf[w] /\ buf[w][1] \in Line
    <3>1. buf[w] \in Seq(Line) /\ buf[w] # <<>>
      BY <1>2 DEF KillTorn, TypeOK
    <3>2. 1 \in 1..Len(buf[w])
      BY <3>1, EmptySeq, LenProperties
    <3> QED
      BY <3>1, <3>2, ElementOfSeq, LenProperties
  <2>3. l \in Line /\ l.by = w
    BY <2>2 DEF Line, BufferedOwn
  <2>4. file' = AppendBytes(file, <<l>>) /\ state[w] = "open"
    BY <1>2, <2>1 DEF KillTorn, Die
  <2> HIDE DEF l
  <2>5. <<l>> \in Seq(Line) /\ DOMAIN <<l>> = {1} /\ <<l>>[1] = l
    BY <2>3
  <2>6. file \in Seq(Line) /\ i \in DOMAIN AppendBytes(file, <<l>>) \ DOMAIN file
    BY <2>4 DEF TypeOK
  <2>7. PICK j \in DOMAIN <<l>> : AppendBytes(file, <<l>>)[i] = <<l>>[j]
    BY <2>5, <2>6, AppendedIsFromBuffer
  <2>8. file'[i] = l
    BY <2>4, <2>5, <2>7
  <2> QED
    BY <2>3, <2>4, <2>8
<1>3. CASE UNCHANGED file
  BY <1>3
<1> QED
  BY <1>1, <1>2, <1>3 DEF Next, Open, Close, Kill, Call, Enter, Put, Flush

\* A write() that races with close() reaches the disk before it or not at all: no line
\* is ever added by a writer that is closed, dead or not yet opened (the check of _closed).
THEOREM NoLateLinesAlways == Spec => NoLateLines
<1>1. Init => TypeOK /\ BufferedOwn
  BY EmptySeq DEF Init, TypeOK, BufferedOwn
<1>2. TypeOK /\ BufferedOwn /\ [Next]_vars => (TypeOK /\ BufferedOwn)'
  BY TypeStep, BufferedOwnStep
<1>3. TypeOK /\ BufferedOwn /\ [Next]_vars
        => [\A i \in DOMAIN file' \ DOMAIN file : state[file'[i].by] = "open"]_file
  BY LateStep DEF vars
<1> QED
  BY <1>1, <1>2, <1>3, PTL DEF Spec, NoLateLines

-----------------------------------------------------------------------------
(* What kills cost: the invariant of a file that need not be intact.        *)

\* Acknowledged, and not in the file.
Lost == {a \in acked : \A i \in DOMAIN file : file[i] # a}

Dead == {w \in Writers : state[w] = "dead"}

\* The file ends with a line that a kill has torn: whatever comes next is lost.
Torn == file # <<>> /\ ~file[Len(file)].nl

\* Each kill has cost a line, or will.
Paid ==
  /\ IsFiniteSet(Lost) /\ IsFiniteSet(Dead)
  /\ Cardinality(Lost) + (IF Torn THEN 1 ELSE 0) <= Cardinality(Dead)

Costs ==
  /\ TypeOK /\ Unopened /\ LockHeld /\ Buffered
  /\ \A a \in acked : a.nl
  /\ Paid

\* The buffer of an open writer holds the line of the thread that is about to flush,
\* also in a damaged file with several writers.
LEMMA BufferedStep ==
  ASSUME TypeOK, Unopened, LockHeld, Buffered, [Next]_vars
  PROVE  Buffered'
<1>1. /\ state \in [Writers -> {"new", "open", "closed", "dead"}]
      /\ pc \in [Writers -> [Threads -> {"idle", "waiting", "checked", "put"}]]
      /\ buf \in [Writers -> Seq(Line)]
      /\ lock \in [Writers -> Threads \cup {NoThread}]
      /\ seq \in [Writers -> Nat]
  BY DEF TypeOK
<1>2. ASSUME NEW w \in Writers, Open(w) PROVE Buffered'
  <2>1. \A t \in Threads : pc[w][t] = "idle"
    BY <1>2 DEF Open, Unopened
  <2>2. /\ \A v \in Writers : state'[v] = IF v = w THEN "open" ELSE state[v]
        /\ \A v \in Writers : seq'[v] = IF v = w THEN seq'[w] ELSE seq[v]
        /\ UNCHANGED <<pc, buf>> /\ state[w] = "new"
    BY <1>1, <1>2 DEF Open
  <2>3. buf[w] = <<>>
    BY <2>2 DEF Buffered
  <2>4. \A v \in Writers : v # w => state'[v] = state[v] /\ Event(v)' = Event(v)
    BY <2>2 DEF Event
  <2> QED
    BY <2>1, <2>2, <2>3, <2>4 DEF Buffered
<1>3. ASSUME NEW w \in Writers, state'[w] # "open", buf' = [buf EXCEPT ![w] = <<>>],
             \A v \in Writers : v # w => state'[v] = state[v] /\ pc'[v] = pc[v],
             UNCHANGED seq
      PROVE  Buffered'
  <2>1. \A v \in Writers : buf'[v] = IF v = w THEN <<>> ELSE buf[v]
    BY <1>1, <1>3
  <2> QED
    BY <1>3, <2>1 DEF Buffered, Event
<1>4. ASSUME NEW w \in Writers, Close(w) PROVE Buffered'
  BY <1>1, <1>3, <1>4 DEF Close
<1>5. ASSUME NEW w \in Writers, Die(w) PROVE Buffered'
  BY <1>1, <1>3, <1>5 DEF Die
<1>6. ASSUME NEW w \in Writers, NEW t \in Threads, Call(w, t) PROVE Buffered'
  <2>1. \A v \in Writers, u \in Threads :
          pc'[v][u] = IF v = w /\ u = t THEN "waiting" ELSE pc[v][u]
    BY <1>1, <1>6 DEF Call
  <2> QED
    BY <1>6, <2>1 DEF Call, Buffered, Event
<1>7. ASSUME NEW w \in Writers, NEW t \in Threads, Leave(w, t), state[w] # "open",
             UNCHANGED <<state, seq, buf>>
      PROVE  Buffered'
  <2>1. \A v \in Writers, u \in Threads :
          pc'[v][u] = IF v = w /\ u = t THEN "idle" ELSE pc[v][u]
    BY <1>1, <1>7 DEF Leave
  <2> QED
    BY <1>7, <2>1 DEF Buffered, Event
<1>8. ASSUME NEW w \in Writers, NEW t \in Threads, Enter(w, t) PROVE Buffered'
  <2>1. CASE state[w] = "open"
    <3>1. \A v \in Writers, u \in Threads :
            pc'[v][u] = IF v = w /\ u = t THEN "checked" ELSE pc[v][u]
      BY <1>1, <1>8, <2>1 DEF Enter
    <3> QED
      BY <1>8, <3>1 DEF Enter, Buffered, Event
  <2> QED
    BY <1>7, <1>8, <2>1 DEF Enter
<1>9. ASSUME NEW w \in Writers, NEW t \in Threads, Put(w, t) PROVE Buffered'
  <2>1. CASE state[w] = "open"
    <3>1. \A u \in Threads : pc[w][u] # "put"
      BY <1>9 DEF Put, LockHeld
    <3>2. buf[w] = <<>>
      BY <3>1 DEF Buffered
    <3>3. \A v \in Writers : buf'[v] = IF v = w THEN <<Event(w)>> ELSE buf[v]
      BY <1>1, <1>9, <2>1, <3>2 DEF Put
    <3>4. \A v \in Writers, u \in Threads :
            pc'[v][u] = IF v = w /\ u = t THEN "put" ELSE pc[v][u]
      BY <1>1, <1>9, <2>1 DEF Put
    <3>5. \A v \in Writers : state'[v] = state[v] /\ Event(v)' = Event(v)
      BY <1>9 DEF Put, Event
    <3>6. \A v \in Writers, u \in Threads :
            state[v] = "open" /\ pc'[v][u] = "put" => buf'[v] = <<Event(v)>>
      BY <3>3, <3>4 DEF Buffered
    <3>7. \A v \in Writers : buf'[v] # <<>> =>
            state[v] = "open" /\ \E u \in Threads : pc'[v][u] = "put"
      BY <2>1, <3>3, <3>4 DEF Buffered
    <3> QED
      BY <3>5, <3>6, <3>7 DEF Buffered
  <2> QED
    BY <1>7, <1>9, <2>1 DEF Put
<1>10. ASSUME NEW w \in Writers, NEW t \in Threads, Flush(w, t) PROVE Buffered'
  <2>1. CASE state[w] = "open"
    <3>1. \A u \in Threads : u # t => pc[w][u] # "put"
      BY <1>10 DEF Flush, LockHeld
    <3>2. \A v \in Writers, u \in Threads :
            pc'[v][u] = IF v = w /\ u = t THEN "idle" ELSE pc[v][u]
      BY <1>1, <1>10 DEF Flush, Leave
    <3>3. \A v \in Writers : /\ buf'[v] = IF v = w THEN <<>> ELSE buf[v]
                             /\ v # w => seq'[v] = seq[v]
      BY <1>1, <1>10, <2>1 DEF Flush
    <3>4. \A u \in Threads : pc'[w][u] # "put"
      BY <3>1, <3>2
    <3> QED
      BY <1>10, <3>2, <3>3, <3>4 DEF Flush, Buffered, Event
  <2> QED
    BY <1>7, <1>10, <2>1 DEF Flush
<1>11. CASE UNCHANGED vars
  BY <1>11 DEF vars, Buffered, Event
<1> QED
  BY <1>2, <1>4, <1>5, <1>6, <1>8, <1>9, <1>10, <1>11 DEF Next, Kill, KillTorn

\* Append mode leaves a line alone whose newline is on disk.
LEMMA WholeLinesStay ==
  ASSUME NEW f \in Seq(Line), NEW b \in Seq(Line), NEW i \in DOMAIN f, f[i].nl
  PROVE  i \in DOMAIN AppendBytes(f, b) /\ AppendBytes(f, b)[i] = f[i]
<1>1. Len(f) \in Nat /\ Len(b) \in Nat /\ i \in 1..Len(f)
  BY LenProperties
<1>2. CASE f # <<>> /\ b # <<>> /\ ~f[Len(f)].nl
  <2> DEFINE g == [f EXCEPT ![Len(f)] = [f[Len(f)] EXCEPT !.kind = Joined(f[Len(f)].kind, b[1].kind),
                                                       !.nl = b[1].nl]]
  <2>1. Len(f) \in 1..Len(f) /\ 1 \in 1..Len(b) /\ i # Len(f)
    BY <1>2, EmptySeq, LenProperties
  <2>2. f[Len(f)] \in Line /\ b[1] \in Line
    BY <2>1, ElementOfSeq
  <2>3. [f[Len(f)] EXCEPT !.kind = Joined(f[Len(f)].kind, b[1].kind), !.nl = b[1].nl] \in Line
    BY <2>2 DEF Line, Joined
  <2>4. g \in Seq(Line) /\ Len(g) = Len(f) /\ g[i] = f[i]
    BY <1>1, <2>1, <2>3, ExceptSeq
  <2>5. Tail(b) \in Seq(Line) /\ Len(Tail(b)) \in Nat
    BY <1>2, HeadTailProperties, LenProperties
  <2>6. AppendBytes(f, b) = g \o Tail(b)
    BY <1>2 DEF AppendBytes
  <2> HIDE DEF g
  <2>7. PICK r \in Seq(Line) : r = Tail(b) /\ Len(r) \in Nat
    BY <2>5
  <2>8. i \in DOMAIN (g \o r) /\ (g \o r)[i] = g[i]
    BY <1>1, <2>4, <2>7, ConcatFacts
  <2> QED
    BY <2>4, <2>6, <2>7, <2>8
<1>3. CASE ~(f # <<>> /\ b # <<>> /\ ~f[Len(f)].nl)
  <2>1. AppendBytes(f, b) = f \o b
    BY <1>3 DEF AppendBytes
  <2> QED
    BY <1>1, <2>1, ConcatFacts
<1> QED
  BY <1>2, <1>3

\* One more line: at the end of the file, and not for itself if the last was torn.
LEMMA OneMoreLine ==
  ASSUME NEW f \in Seq(Line), NEW l \in Line
  PROVE  LET g == AppendBytes(f, <<l>>)
             torn == f # <<>> /\ ~f[Len(f)].nl
         IN  /\ g # <<>> /\ g[Len(g)].nl = l.nl
             /\ ~torn => \E i \in DOMAIN g : g[i] = l
<1>1. /\ <<l>> \in Seq(Line) /\ <<l>> # <<>> /\ Len(<<l>>) = 1 /\ <<l>>[1] = l
      /\ Tail(<<l>>) = <<>>
  OBVIOUS
<1>2. Len(f) \in Nat /\ DOMAIN f = 1..Len(f)
  BY LenProperties
<1>3. CASE f # <<>> /\ ~f[Len(f)].nl
  <2> DEFINE last == [f[Len(f)] EXCEPT !.kind = Joined(f[Len(f)].kind, l.kind), !.nl = l.nl]
  <2>1. Len(f) \in 1..Len(f)
    BY <1>3, EmptySeq, LenProperties
  <2>2. f[Len(f)] \in Line
    BY <2>1, ElementOfSeq
  <2>3. last \in Line /\ last.nl = l.nl
    BY <2>2 DEF Line, Joined
  <2> HIDE DEF last
  <2>4. PICK g : g = [f EXCEPT ![Len(f)] = last]
    OBVIOUS
  <2>5. g \in Seq(Line) /\ Len(g) = Len(f) /\ g[Len(f)] = last
    BY <1>2, <2>1, <2>3, <2>4, ExceptSeq
  <2>6. AppendBytes(f, <<l>>) = g \o <<>>
    BY <1>1, <1>3, <2>4 DEF AppendBytes, last
  <2>7. AppendBytes(f, <<l>>) = g
    BY <2>5, <2>6, ConcatEmptySeq
  <2>8. g # <<>>
    BY <2>1, <2>5, EmptySeq
  <2> QED
    BY <1>3, <2>3, <2>5, <2>7, <2>8
<1>4. CASE ~(f # <<>> /\ ~f[Len(f)].nl)
  <2>1. AppendBytes(f, <<l>>) = f \o <<l>>
    BY <1>4 DEF AppendBytes
  <2>2. PICK g : g = f \o <<l>>
    OBVIOUS
  <2>3. g \in Seq(Line) /\ Len(g) = Len(f) + 1 /\ DOMAIN g = 1..Len(f) + 1
    BY <1>1, <2>2, ConcatProperties, LenProperties
  <2>4. g[Len(f) + 1] = l
    <3>1. Len(f) + 1 \in 1..Len(f) + 1 /\ ~(Len(f) + 1 <= Len(f)) /\ Len(f) + 1 - Len(f) = 1
      BY <1>2
    <3> QED
      BY <1>1, <2>2, <3>1, ConcatFacts
  <2>5. Len(f) + 1 \in DOMAIN g
    BY <1>2, <2>3
  <2>6. g # <<>>
    BY <1>2, <2>3, EmptySeq
  <2> QED
    BY <2>1, <2>2, <2>3, <2>4, <2>5, <2>6
<1> QED
  BY <1>3, <1>4

\* Nothing that was on disk and acknowledged is lost by an append.
LEMMA AppendLosesNone ==
  ASSUME TypeOK, \A a \in acked : a.nl, NEW b \in Seq(Line), file' = AppendBytes(file, b),
         NEW A, acked' \subseteq acked \cup A
  PROVE  Lost' \subseteq Lost \cup A
<1>1. file \in Seq(Line)
  BY DEF TypeOK
<1>2. ASSUME NEW a \in acked, NEW i \in DOMAIN file, file[i] = a
      PROVE  i \in DOMAIN file' /\ file'[i] = a
  BY <1>1, <1>2, WholeLinesStay
<1> QED
  BY <1>2 DEF Lost

\* What is lost and who is dead are finite sets that grow by one at a time.
LEMMA OneMore ==
  ASSUME NEW S, IsFiniteSet(S), NEW x, NEW T \in SUBSET (S \cup {x})
  PROVE  /\ IsFiniteSet(T) /\ Cardinality(T) <= Cardinality(S) + 1
         /\ Cardinality(T) \in Nat /\ Cardinality(S) \in Nat
<1>1. IsFiniteSet(S \cup {x}) /\ Cardinality(S) \in Nat
      /\ Cardinality(S \cup {x}) \in {Cardinality(S), Cardinality(S) + 1}
  BY FS_AddElement, FS_CardinalityType
<1>2. IsFiniteSet(T) /\ Cardinality(T) <= Cardinality(S \cup {x}) /\ Cardinality(T) \in Nat
  BY <1>1, FS_Subset, FS_CardinalityType
<1> QED
  BY <1>1, <1>2

\* A subset has no more elements.
LEMMA NoMore ==
  ASSUME NEW S, IsFiniteSet(S), NEW T \in SUBSET S
  PROVE  /\ IsFiniteSet(T) /\ Cardinality(T) <= Cardinality(S)
         /\ Cardinality(T) \in Nat /\ Cardinality(S) \in Nat
BY FS_Subset, FS_CardinalityType

\* A kill pays for one line.
LEMMA DeathCounts ==
  ASSUME TypeOK, Paid, NEW w \in Writers, Die(w)
  PROVE  /\ IsFiniteSet(Dead') /\ Cardinality(Dead') = Cardinality(Dead) + 1
         /\ Cardinality(Dead) \in Nat
<1>1. Dead' = Dead \cup {w} /\ w \notin Dead
  BY DEF Die, Dead, TypeOK
<1> QED
  BY <1>1, FS_AddElement, FS_CardinalityType DEF Paid

LEMMA PaidStep ==
  ASSUME Costs, [Next]_vars
  PROVE  Paid' /\ \A a \in acked' : a.nl
<1>0. /\ TypeOK /\ Unopened /\ LockHeld /\ Buffered /\ Paid /\ \A a \in acked : a.nl
      /\ IsFiniteSet(Lost) /\ IsFiniteSet(Dead)
      /\ Cardinality(Lost) \in Nat /\ Cardinality(Dead) \in Nat
  BY FS_CardinalityType DEF Costs, Paid
<1>1. file \in Seq(Line) /\ buf \in [Writers -> Seq(Line)] /\ state \in
        [Writers -> {"new", "open", "closed", "dead"}]
  BY <1>0 DEF TypeOK
<1>2. ASSUME UNCHANGED <<file, acked>>, Dead' = Dead
      PROVE  Paid' /\ \A a \in acked' : a.nl
  BY <1>0, <1>2 DEF Paid, Lost, Torn
<1>3. ASSUME NEW w \in Writers, Kill(w)
      PROVE  Paid' /\ \A a \in acked' : a.nl
  <2>1. /\ IsFiniteSet(Dead') /\ Cardinality(Dead') = Cardinality(Dead) + 1
    BY <1>0, <1>3, DeathCounts DEF Kill
  <2>2. Lost' = Lost /\ Torn' = Torn /\ acked' = acked
    BY <1>3 DEF Kill, Die, Lost, Torn
  <2> QED
    BY <1>0, <2>1, <2>2 DEF Paid
<1>4. ASSUME NEW w \in Writers, KillTorn(w)
      PROVE  Paid' /\ \A a \in acked' : a.nl
  <2>1. /\ IsFiniteSet(Dead') /\ Cardinality(Dead') = Cardinality(Dead) + 1
    BY <1>0, <1>4, DeathCounts DEF KillTorn
  <2>2. acked' = acked
    BY <1>4 DEF KillTorn, Die
  <2>3. PICK b \in Seq(Line) : file' = AppendBytes(file, b)
    <3>1. PICK k \in {"event", "garbage", "undecodable"} :
            file' = AppendBytes(file, <<[buf[w][1] EXCEPT !.kind = k, !.nl = FALSE]>>)
      BY <1>4 DEF KillTorn
    <3>2. 1 \in 1..Len(buf[w])
      BY <1>1, <1>4, EmptySeq, LenProperties DEF KillTorn
    <3>3. buf[w][1] \in Line
      BY <1>1, <3>2, ElementOfSeq
    <3> DEFINE l == [buf[w][1] EXCEPT !.kind = k, !.nl = FALSE]
    <3>4. l \in Line
      BY <3>3 DEF Line
    <3>5. file' = AppendBytes(file, <<l>>)
      BY <3>1
    <3> HIDE DEF l
    <3>6. <<l>> \in Seq(Line)
      BY <3>4
    <3> QED
      BY <3>5, <3>6
  <2>4. Lost' \subseteq Lost
    <3>1. acked' \subseteq acked \cup {}
      BY <2>2
    <3>2. Lost' \subseteq Lost \cup {}
      BY <1>0, <2>3, <3>1, AppendLosesNone
    <3> QED
      BY <3>2
  <2>5. IsFiniteSet(Lost') /\ Cardinality(Lost') <= Cardinality(Lost)
        /\ Cardinality(Lost') \in Nat
    BY <1>0, <2>4, NoMore
  <2> QED
    BY <1>0, <2>1, <2>2, <2>5 DEF Paid
\* the line in the buffer reaches the disk, and perhaps the caller hears of it
<1>5. ASSUME NEW w \in Writers, file' = AppendBytes(file, <<Event(w)>>), Dead' = Dead,
             acked' = acked \/ acked' = acked \cup {Event(w)}
      PROVE  Paid' /\ \A a \in acked' : a.nl
  <2>1. Event(w) \in Line /\ Event(w).nl /\ <<Event(w)>> \in Seq(Line)
    <3>1. Event(w) \in Line
      BY <1>0, EventType
    <3> QED
      BY <3>1 DEF Event
  <2>2. \A a \in acked' : a.nl
    BY <1>0, <1>5, <2>1
  <2>3. Lost' \subseteq Lost \cup {Event(w)}
    <3>1. acked' \subseteq acked \cup {Event(w)}
      BY <1>5
    <3> QED
      BY <1>0, <1>5, <2>1, <3>1, AppendLosesNone
  <2>4. /\ file' # <<>> /\ file'[Len(file')].nl
        /\ ~Torn => \E i \in DOMAIN file' : file'[i] = Event(w)
    BY <1>1, <1>5, <2>1, OneMoreLine DEF Torn
  <2>5. ~Torn'
    BY <2>4 DEF Torn
  <2>6. CASE Torn
    <3>1. IsFiniteSet(Lost') /\ Cardinality(Lost') <= Cardinality(Lost) + 1
          /\ Cardinality(Lost') \in Nat
      BY <1>0, <2>3, OneMore
    <3> QED
      BY <1>0, <1>5, <2>2, <2>5, <2>6, <3>1 DEF Paid
  <2>7. CASE ~Torn
    <3>1. Event(w) \notin Lost'
      <4>1. PICK i \in DOMAIN file' : file'[i] = Event(w)
        BY <2>4, <2>7
      <4> QED
        BY <4>1 DEF Lost
    <3>2. Lost' \subseteq Lost
      BY <2>3, <3>1
    <3>3. IsFiniteSet(Lost') /\ Cardinality(Lost') <= Cardinality(Lost)
          /\ Cardinality(Lost') \in Nat
      BY <1>0, <3>2, NoMore
    <3> QED
      BY <1>0, <1>5, <2>2, <2>5, <2>7, <3>3 DEF Paid
  <2> QED
    BY <2>6, <2>7
<1>6. ASSUME NEW w \in Writers, Close(w)
      PROVE  Paid' /\ \A a \in acked' : a.nl
  <2>1. Dead' = Dead
    BY <1>1, <1>6 DEF Close, Dead
  <2>2. buf[w] = <<>> \/ buf[w] = <<Event(w)>>
    BY <1>0, <1>6 DEF Close, Buffered
  <2>3. CASE buf[w] = <<>>
    <3>1. file' = file \o <<>>
      BY <1>6, <2>3 DEF Close, AppendBytes
    <3>2. UNCHANGED <<file, acked>>
      BY <1>0, <1>6, <3>1, AppendNothing DEF Close
    <3> QED
      BY <1>2, <2>1, <3>2
  <2>4. CASE buf[w] = <<Event(w)>>
    BY <1>5, <1>6, <2>1, <2>4 DEF Close
  <2> QED
    BY <2>2, <2>3, <2>4
<1>7. ASSUME NEW w \in Writers, NEW t \in Threads, Flush(w, t)
      PROVE  Paid' /\ \A a \in acked' : a.nl
  <2>1. Dead' = Dead
    BY <1>7 DEF Flush, Dead
  <2>2. CASE state[w] = "open"
    <3>1. buf[w] = <<Event(w)>>
      BY <1>0, <1>7, <2>2 DEF Flush, Buffered
    <3> QED
      BY <1>5, <1>7, <2>1, <2>2, <3>1 DEF Flush
  <2>3. CASE state[w] # "open"
    BY <1>2, <1>7, <2>1, <2>3 DEF Flush
  <2> QED
    BY <2>2, <2>3
<1>8. ASSUME NEW w \in Writers, Open(w)
      PROVE  Paid' /\ \A a \in acked' : a.nl
  <2>1. Dead' = Dead
    BY <1>1, <1>8 DEF Open, Dead
  <2> QED
    BY <1>2, <1>8, <2>1 DEF Open
<1>9. ASSUME NEW w \in Writers, NEW t \in Threads, Call(w, t) \/ Enter(w, t) \/ Put(w, t)
      PROVE  Paid' /\ \A a \in acked' : a.nl
  BY <1>2, <1>9 DEF Call, Enter, Put, Dead
<1>10. CASE UNCHANGED vars
  BY <1>2, <1>10 DEF vars, Dead
<1> QED
  BY <1>3, <1>4, <1>6, <1>7, <1>8, <1>9, <1>10 DEF Next

\* Each kill costs at most one acknowledged event, however many writers append to the
\* file afterwards, or at the same time (the flush per write, the append mode of open()).
THEOREM KillCostsOneLineAlways == Spec => []KillCostsOneLine
<1>1. Init => Costs
  <2> SUFFICES ASSUME Init PROVE Costs
    OBVIOUS
  <2>1. TypeOK /\ Unopened /\ LockHeld
    BY WriterInvInit DEF WriterInv
  <2>2. Lost = {} /\ Dead = {} /\ ~Torn
    BY DEF Init, Lost, Dead, Torn
  <2>3. Paid
    BY <2>2, FS_EmptySet DEF Paid
  <2>4. Buffered /\ \A a \in acked : a.nl
    BY DEF Init, Buffered
  <2> QED
    BY <2>1, <2>3, <2>4 DEF Costs
<1>2. ASSUME Costs, [Next]_vars PROVE Costs'
  <2>1. TypeOK' /\ Unopened' /\ LockHeld'
    BY <1>2, TypeStep, LockStep DEF Costs
  <2>2. Buffered'
    BY <1>2, BufferedStep DEF Costs
  <2> QED
    BY <1>2, <2>1, <2>2, PaidStep DEF Costs
<1>3. Costs => KillCostsOneLine
  <2> SUFFICES ASSUME Costs PROVE Cardinality(Lost) <= Cardinality(Dead)
    BY DEF KillCostsOneLine, Lost, Dead
  <2>1. Cardinality(Lost) \in Nat /\ Cardinality(Dead) \in Nat
    BY FS_CardinalityType DEF Costs, Paid
  <2> QED
    BY <2>1 DEF Costs, Paid
<1> QED
  BY <1>1, <1>2, <1>3, PTL DEF Spec

=============================================================================
