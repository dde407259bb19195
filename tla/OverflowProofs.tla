--------------------------- MODULE OverflowProofs ---------------------------
(***************************************************************************)
(* What Overflow promises of the spill files, for any callers, texts, number *)
(* of chunks and bounds.  The argument: of a file that no fault has hit every *)
(* chunk is in place, or some caller is filling the file and has that chunk   *)
(* still before it.  A caller that empties the file has all chunks before it. *)
(*                                                                          *)
(* And what it promises of the heads: Cut walks back over continuation bytes, *)
(* and those are the bytes of a text at which no character starts.  Both the  *)
(* walk and the encoding are recursive functions over the bytes; what they    *)
(* compute is shown by induction, in the form "the set of the numbers where   *)
(* it fails has no least element" (Least, Induct).                            *)
(***************************************************************************)
EXTENDS Overflow, SequenceTheorems, WellFoundedInduction, TLAPS

\* The types of the variables that the argument needs.
OverflowType ==
  /\ pc \in [Callers -> {"idle", "check", "open", "fill"}]
  /\ left \in [Callers -> Seq(Texts)]
  /\ pos \in [Callers -> 0 .. Chunks]
  /\ named = [c \in Callers |-> named[c]]
  /\ content \in [Texts -> SUBSET (1 .. Chunks)]
  /\ exists \subseteq Texts /\ hit \subseteq Texts

\* A caller opens and fills the file of a text, and fills it after it was created.
Busy ==
  \A c \in Callers :
    /\ pc[c] \in {"open", "fill"} => left[c] # <<>>
    /\ pc[c] = "fill" => Current(c) \in exists

\* Only files that exist have content, or are named.
Created ==
  /\ \A t \in Texts : content[t] # {} => t \in exists
  /\ \A c \in Callers : \A e \in named[c] : e.sha \in exists
  /\ \A e \in refs : e.sha \in exists

\* No chunk is missing that nobody is going to write.
Covered ==
  \A t \in exists : t \notin hit =>
    \A k \in 1 .. Chunks :
      k \in content[t] \/ \E c \in Callers : Filling(c, t) /\ pos[c] < k

OverflowInv == OverflowType /\ Busy /\ Created /\ Covered

-----------------------------------------------------------------------------
\* The first text of a caller that is in the middle of one is a text.
LEMMA CurrentIsText ==
  ASSUME OverflowType, NEW c \in Callers, left[c] # <<>>
  PROVE  Current(c) \in Texts /\ Tail(left[c]) \in Seq(Texts)
BY DEF OverflowType, Current

\* Initially there is no file.
LEMMA OverflowInit == Init => OverflowInv
<1> SUFFICES ASSUME Init PROVE OverflowInv
  OBVIOUS
<1>1. OverflowType
  BY OverflowAssumption DEF Init, OverflowType
<1>2. Busy /\ Created /\ Covered
  BY DEF Init, Busy, Created, Covered
<1> QED BY <1>1, <1>2 DEF OverflowInv

\* A step that does not touch files or the callers that fill them keeps the chunks
\* covered (every action but OpenSpill, Fill, Filled and BreakOff).
LEMMA CoveredStays ==
  ASSUME Covered, UNCHANGED <<disk, hit>>,
         \A c \in Callers : pc[c] = "fill" =>
           pc'[c] = "fill" /\ pos'[c] = pos[c] /\ left'[c] = left[c]
  PROVE  Covered'
<1> SUFFICES ASSUME NEW t \in exists, t \notin hit, NEW k \in 1 .. Chunks,
                    k \notin content[t]
             PROVE  \E c \in Callers : Filling(c, t)' /\ pos'[c] < k
  BY DEF Covered, disk
<1>1. PICK c \in Callers : Filling(c, t) /\ pos[c] < k
  BY DEF Covered
<1> QED BY <1>1 DEF Filling, Current

\* cap_stream returns for a file that exists.
LEMMA ReturnStep ==
  ASSUME OverflowInv, NEW c \in Callers, NEW long \in BOOLEAN, left[c] # <<>>,
         long => Current(c) \in exists, Return(c, long), UNCHANGED <<pos, disk, done>>
  PROVE  OverflowType' /\ Busy' /\ Created'
<1>1. Current(c) \in Texts /\ Tail(left[c]) \in Seq(Texts)
  BY CurrentIsText DEF OverflowInv
<1>2. OverflowType'
  BY <1>1 DEF OverflowInv, OverflowType, Return, disk, done
<1>3. Busy'
  BY DEF OverflowInv, OverflowType, Busy, Return, Current, disk
<1>4. \A d \in Callers : \A e \in named'[d] : e.sha \in exists'
  BY DEF OverflowInv, OverflowType, Created, Return, disk
<1>5. Created'
  BY <1>4 DEF OverflowInv, Created, disk, done
<1> QED BY <1>2, <1>3, <1>5

\* Every step keeps the invariant.
LEMMA OverflowStep == OverflowInv /\ [Next]_vars => OverflowInv'
<1> SUFFICES ASSUME OverflowInv, [Next]_vars PROVE OverflowInv'
  OBVIOUS
<1> USE DEF OverflowInv
<1>1. ASSUME NEW c \in Callers, Call(c) PROVE OverflowInv'
  <2> USE <1>1
  <2>1. OverflowType'
    <3>1. PICK t \in Texts, u \in Texts : left' = [left EXCEPT ![c] = <<t, u>>]
      BY DEF Call
    <3>2. left' \in [Callers -> Seq(Texts)]
      <4>1. <<t, u>> \in Seq(Texts)
        OBVIOUS
      <4> QED BY <3>1, <4>1 DEF OverflowType
    <3>3. named' = [d \in Callers |-> named'[d]]
      BY DEF OverflowType, Call
    <3> QED BY <3>2, <3>3 DEF OverflowType, Call, At, disk
  <2>2. Busy' /\ Created'
    BY DEF OverflowType, Busy, Created, Call, At, Current, disk
  <2>3. Covered'
    <3>1. UNCHANGED <<disk, hit>>
      BY DEF Call
    <3>2. \A d \in Callers : pc[d] = "fill" =>
            pc'[d] = "fill" /\ pos'[d] = pos[d] /\ left'[d] = left[d]
      BY DEF OverflowType, Call, At
    <3> QED BY <3>1, <3>2, CoveredStays
  <2> QED BY <2>1, <2>2, <2>3
<1>2. ASSUME NEW c \in Callers, Check(c) PROVE OverflowInv'
  <2>1. Covered'
    <3>1. UNCHANGED <<disk, hit>>
      BY <1>2 DEF Check, done
    <3>2. \A d \in Callers : pc[d] = "fill" =>
            pc'[d] = "fill" /\ pos'[d] = pos[d] /\ left'[d] = left[d]
      BY <1>2 DEF OverflowType, Check, At, Return
    <3> QED BY <3>1, <3>2, CoveredStays
  <2>2. ASSUME NEW long \in BOOLEAN, long => Current(c) \in exists, Return(c, long)
        PROVE  OverflowType' /\ Busy' /\ Created'
    BY <1>2, <2>2, ReturnStep DEF Check, At
  <2>3. ASSUME pc' = [pc EXCEPT ![c] = "open"], UNCHANGED <<left, named>>
        PROVE  OverflowType' /\ Busy' /\ Created'
    BY <1>2, <2>3 DEF OverflowType, Busy, Created, Check, At, Current, disk, done
  <2> QED BY <1>2, <2>1, <2>2, <2>3 DEF Check
<1>3. ASSUME NEW c \in Callers, OpenSpill(c) PROVE OverflowInv'
  <2> USE <1>3
  <2>1. left[c] # <<>> /\ Current(c) \in Texts
    BY CurrentIsText DEF OpenSpill, At
  <2>2. OverflowType'
    BY <2>1, OverflowAssumption DEF OverflowType, OpenSpill, done
  <2>3. Busy'
    BY <2>1 DEF OverflowType, Busy, OpenSpill, Current
  <2>4. Created'
    BY <2>1 DEF OverflowType, Created, OpenSpill, done
  <2>5. Covered'
    <3> SUFFICES ASSUME NEW t \in exists', t \notin hit, NEW k \in 1 .. Chunks
                 PROVE  k \in content'[t] \/ \E d \in Callers : Filling(d, t)' /\ pos'[d] < k
      BY DEF Covered, OpenSpill, done
    <3>1. CASE t = Current(c)
      <4>1. Filling(c, t)' /\ pos'[c] = 0
        BY <3>1 DEF OverflowType, OpenSpill, Filling, Current
      <4> QED BY <4>1
    <3>2. CASE t # Current(c)
      <4>1. t \in exists /\ content'[t] = content[t]
        BY <3>2, <2>1 DEF OverflowType, OpenSpill
      <4>2. k \in content[t] \/ \E d \in Callers : Filling(d, t) /\ pos[d] < k
        BY <4>1 DEF Covered
      <4>3. ASSUME NEW d \in Callers, Filling(d, t), pos[d] < k
            PROVE  Filling(d, t)' /\ pos'[d] < k
        BY <4>3 DEF OverflowType, OpenSpill, At, Filling, Current
      <4> QED BY <4>1, <4>2, <4>3
    <3> QED BY <3>1, <3>2
  <2> QED BY <2>2, <2>3, <2>4, <2>5
<1>4. ASSUME NEW c \in Callers, Fill(c) PROVE OverflowInv'
  <2> USE <1>4
  <2>1. left[c] # <<>> /\ Current(c) \in Texts /\ pos[c] \in 0 .. Chunks
    BY CurrentIsText DEF Fill, At, OverflowType
  <2>2. pos[c] + 1 \in 1 .. Chunks
    BY <2>1, OverflowAssumption DEF Fill
  <2>3. OverflowType'
    BY <2>1, <2>2 DEF OverflowType, Fill, done
  <2>4. Busy'
    BY DEF OverflowType, Busy, Fill, Current
  <2>5. Created'
    BY <2>1 DEF OverflowType, Busy, Created, Fill, At, done
  <2>6. Covered'
    <3> SUFFICES ASSUME NEW t \in exists, t \notin hit, NEW k \in 1 .. Chunks,
                        k \notin content'[t]
                 PROVE  \E d \in Callers : Filling(d, t)' /\ pos'[d] < k
      BY DEF Covered, Fill, done
    <3>1. k \notin content[t] /\ (t = Current(c) => k # pos[c] + 1)
      BY <2>1, <2>2 DEF OverflowType, Fill
    <3>2. PICK d \in Callers : Filling(d, t) /\ pos[d] < k
      BY <3>1 DEF Covered
    <3>3. pos'[d] < k
      BY <3>1, <3>2, <2>1, OverflowAssumption DEF OverflowType, Fill, Filling
    <3> QED BY <3>2, <3>3 DEF Fill, Filling, Current
  <2> QED BY <2>3, <2>4, <2>5, <2>6
<1>5. ASSUME NEW c \in Callers, Filled(c) PROVE OverflowInv'
  <2> USE <1>5
  <2>1. left[c] # <<>> /\ Current(c) \in exists /\ Return(c, TRUE)
        /\ UNCHANGED <<pos, disk, done>>
    BY DEF Filled, At, Busy
  <2>2. OverflowType' /\ Busy' /\ Created'
    BY <2>1, ReturnStep
  <2>3. Covered'
    <3> SUFFICES ASSUME NEW t \in exists, t \notin hit, NEW k \in 1 .. Chunks,
                        k \notin content[t]
                 PROVE  \E d \in Callers : Filling(d, t)' /\ pos'[d] < k
      BY <2>1 DEF Covered, disk, done
    <3>1. PICK d \in Callers : Filling(d, t) /\ pos[d] < k
      BY DEF Covered
    <3>2. d # c
      BY <3>1, OverflowAssumption DEF Filled
    <3> QED BY <3>1, <3>2, <2>1 DEF OverflowType, Filling, Return, Current
  <2> QED BY <2>2, <2>3
<1>6. ASSUME NEW c \in Callers, WriteEvent(c) PROVE OverflowInv'
  <2> USE <1>6
  <2>1. OverflowType' /\ Busy'
    BY DEF OverflowType, Busy, WriteEvent, Current, disk
  <2>2. Created'
    BY DEF Created, WriteEvent, disk
  <2>3. Covered'
    <3>1. UNCHANGED <<disk, hit>>
      BY DEF WriteEvent
    <3>2. \A d \in Callers : pc[d] = "fill" =>
            pc'[d] = "fill" /\ pos'[d] = pos[d] /\ left'[d] = left[d]
      BY DEF OverflowType, WriteEvent
    <3> QED BY <3>1, <3>2, CoveredStays
  <2> QED BY <2>1, <2>2, <2>3
<1>7. ASSUME NEW c \in Callers, BreakOff(c) PROVE OverflowInv'
  <2> USE <1>7
  <2>1. OverflowType'
    <3>1. pc[c] = "fill" => Current(c) \in Texts
      BY CurrentIsText DEF Busy
    <3> QED BY <3>1 DEF OverflowType, BreakOff, disk
  <2>2. Busy' /\ Created'
    BY DEF OverflowType, Busy, Created, BreakOff, Current, disk
  <2>3. Covered'
    <3> SUFFICES ASSUME NEW t \in exists, t \notin hit', NEW k \in 1 .. Chunks,
                        k \notin content[t]
                 PROVE  \E d \in Callers : Filling(d, t)' /\ pos'[d] < k
      BY DEF Covered, BreakOff, disk
    <3>1. t \notin hit
      BY DEF BreakOff
    <3>2. PICK d \in Callers : Filling(d, t) /\ pos[d] < k
      BY <3>1 DEF Covered
    <3>3. d # c
      BY <3>2, OverflowAssumption DEF OverflowType, BreakOff, Filling
    <3> QED BY <3>2, <3>3 DEF OverflowType, BreakOff, Filling, Current
  <2> QED BY <2>1, <2>2, <2>3
<1>8. CASE UNCHANGED vars
  BY <1>8 DEF vars, OverflowType, Busy, Created, Covered, Filling, Current
<1> QED BY <1>1, <1>2, <1>3, <1>4, <1>5, <1>6, <1>7, <1>8 DEF Next

\* The inductive invariant of the spill files.
THEOREM OverflowInvariant == Spec => []OverflowInv
BY OverflowInit, OverflowStep, PTL DEF Spec

-----------------------------------------------------------------------------
\* The hash in an event leads to the whole text, unless a fault hit a write of it
\* (cap_stream: "The full output is never lost").
THEOREM RefsWholeAlways == Spec => []RefsWhole
<1>1. OverflowInv => RefsWhole
  <2> SUFFICES ASSUME OverflowInv, NEW e \in refs, e.sha \notin hit
               PROVE  e.sha \in exists /\ (Whole(e.sha) \/ \E c \in Callers : Filling(c, e.sha))
    BY DEF RefsWhole
  <2>1. e.sha \in exists /\ e.sha \in Texts
    BY DEF OverflowInv, OverflowType, Created
  <2>2. CASE \A c \in Callers : ~Filling(c, e.sha)
    <3>1. \A k \in 1 .. Chunks : k \in content[e.sha]
      BY <2>1, <2>2 DEF OverflowInv, Covered
    <3> QED BY <3>1, <2>1 DEF OverflowInv, OverflowType, Whole
  <2> QED BY <2>1, <2>2
<1> QED BY <1>1, OverflowInvariant, PTL

\* A whole file that no caller missed is never emptied (cap_stream's exists()).
THEOREM SettledAlways == Spec => SettledStays
<1>1. OverflowInv /\ [Next]_vars => [\A t \in Texts : Settled(t) => Settled(t)']_vars
  <2> SUFFICES ASSUME OverflowInv, Next, NEW t \in Texts, Settled(t)
               PROVE  Settled(t)'
    BY DEF Settled
  <2> USE DEF OverflowInv
  <2>1. t \in exists
    <3>1. 1 \in content[t]
      BY OverflowAssumption DEF Settled, Whole
    <3> QED BY <3>1 DEF Created
  <2>2. PICK c \in Callers :
          Call(c) \/ Check(c) \/ OpenSpill(c) \/ Fill(c) \/ Filled(c) \/ WriteEvent(c)
          \/ BreakOff(c)
    BY DEF Next
  <2>3. content'[t] = content[t]
    <3>1. CASE OpenSpill(c)
      <4>1. Current(c) # t /\ Current(c) \in Texts
        BY <3>1, CurrentIsText DEF OpenSpill, At, Settled
      <4> QED BY <3>1, <4>1 DEF OverflowType, OpenSpill
    <3>2. CASE Fill(c)
      <4>1. pos[c] + 1 \in 1 .. Chunks
        BY <3>2, OverflowAssumption DEF OverflowType, Fill
      <4> QED BY <3>2, <4>1 DEF OverflowType, Fill, Settled, Whole
    <3>3. CASE ~OpenSpill(c) /\ ~Fill(c)
      BY <3>3, <2>2 DEF Call, Check, Filled, WriteEvent, BreakOff, disk
    <3> QED BY <3>1, <3>2, <3>3
  <2>4. \A d \in Callers : pc'[d] = "open" => Current(d)' # t
    <3> SUFFICES ASSUME NEW d \in Callers, pc'[d] = "open" PROVE Head(left'[d]) # t
      BY DEF Current
    <3>1. CASE pc[d] = "open"
      <4>1. left'[d] = left[d]
        BY <2>2, <3>1 DEF OverflowType, Call, Check, OpenSpill, Fill, Filled, WriteEvent,
              BreakOff, At, Return
      <4> QED BY <3>1, <4>1 DEF Settled, Current
    <3>2. CASE pc[d] # "open"
      <4>1. Check(c) /\ d = c /\ Current(c) \notin exists /\ left' = left
        BY <2>2, <3>2 DEF OverflowType, Call, Check, OpenSpill, Fill, Filled, WriteEvent,
              BreakOff, Return
      <4> QED BY <4>1, <2>1 DEF Current
    <3> QED BY <3>1, <3>2
  <2> QED BY <2>3, <2>4 DEF Settled, Whole
<1> QED BY <1>1, OverflowInvariant, PTL DEF Spec, SettledStays

-----------------------------------------------------------------------------
(* The cut.                                                                  *)

\* "Less than" as a relation, as the theorems on well-founded induction take it.
Below == {p \in Nat \X Nat : p[1] < p[2]}

\* A set of numbers that is not empty has a least element.
LEMMA Least ==
  ASSUME NEW T \in SUBSET Nat, T # {}
  PROVE  \E x \in T : \A y \in T : x <= y
<1>1. IsWellFoundedOn(Below, Nat)
  BY NatLessThanWellFounded DEF OpToRel, Below
<1>2. \A x, y \in Nat : <<x, y>> \in Below <=> x < y
  BY DEF Below
<1>3. PICK x \in T : \A y \in T : <<y, x>> \notin Below
  BY <1>1, WFMin
<1>4. \A y \in T : ~(y < x)
  BY <1>2, <1>3
<1> QED
  BY <1>4

\* Induction, for a set instead of a predicate.
LEMMA Induct ==
  ASSUME NEW n \in Nat, NEW S, 0 \in S, \A k \in 1 .. n : k - 1 \in S => k \in S
  PROVE  \A k \in 0 .. n : k \in S
<1> DEFINE T == {k \in 0 .. n : k \notin S}
<1> SUFFICES ASSUME T # {} PROVE FALSE
  OBVIOUS
<1>1. T \in SUBSET Nat
  OBVIOUS
<1>2. PICK k \in T : \A j \in T : k <= j
  BY <1>1, Least
<1>3. k \in 1 .. n /\ k - 1 \in 0 .. n /\ ~(k <= k - 1)
  BY <1>2
<1>4. k - 1 \in S
  BY <1>2, <1>3
<1> QED
  BY <1>2, <1>3, <1>4

\* Positions that grow from one to the next are in order.
LEMMA Ordered ==
  ASSUME NEW n \in Nat, NEW off \in [0 .. n -> Nat],
         \A k \in 1 .. n : off[k - 1] < off[k]
  PROVE  \A j, k \in 0 .. n : j <= k => off[j] <= off[k]
<1> SUFFICES ASSUME NEW j \in 0 .. n PROVE \A k \in 0 .. n : j <= k => off[j] <= off[k]
  OBVIOUS
<1> DEFINE S == {k \in 0 .. n : j <= k => off[j] <= off[k]}
<1>1. 0 \in S
  OBVIOUS
<1>2. ASSUME NEW k \in 1 .. n, k - 1 \in S PROVE k \in S
  <2>1. k \in 0 .. n /\ k - 1 \in 0 .. n /\ (j <= k => j <= k - 1 \/ j = k)
    OBVIOUS
  <2>2. off[k - 1] < off[k] /\ off[k] \in Nat /\ off[k - 1] \in Nat /\ off[j] \in Nat
    BY <2>1
  <2>3. j <= k - 1 => off[j] <= off[k - 1]
    BY <1>2
  <2> QED
    BY <2>1, <2>2, <2>3
<1> HIDE DEF S
<1>3. \A k \in 0 .. n : k \in S
  BY <1>1, <1>2, Induct
<1> QED
  BY <1>3 DEF S

\* The character that a byte belongs to.
LEMMA Within ==
  ASSUME NEW n \in Nat, NEW off \in [0 .. n -> Nat], off[0] = 0,
         \A k \in 1 .. n : off[k - 1] < off[k],
         NEW i \in Nat, i < off[n]
  PROVE  \E k \in 1 .. n : off[k - 1] <= i /\ i < off[k]
<1> DEFINE T == {k \in 0 .. n : i < off[k]}
<1>1. T \in SUBSET Nat /\ T # {}
  OBVIOUS
<1>2. PICK k \in T : \A j \in T : k <= j
  BY <1>1, Least
<1>3. k \in 1 .. n /\ k - 1 \in 0 .. n /\ ~(k <= k - 1)
  BY <1>2
<1>4. k - 1 \notin T
  BY <1>2, <1>3
<1>5. off[k - 1] \in Nat
  BY <1>3
<1> QED
  BY <1>2, <1>3, <1>4, <1>5

\* The walk back from the budget stops where the character begins that the budget cuts:
\* b tells the continuation bytes, off the ends of the first k characters.
LEMMA CutIs ==
  ASSUME NEW b, NEW n \in Nat, NEW off \in [0 .. n -> Nat], off[0] = 0,
         \A k \in 1 .. n : off[k - 1] < off[k],
         \A k \in 1 .. n : \A i \in off[k - 1] + 1 .. off[k] : b[i] <=> i > off[k - 1] + 1,
         MaxBytes < off[n]
  PROVE  \E k \in 1 .. n : /\ Cut(b) = off[k - 1]
                           /\ off[k - 1] <= MaxBytes /\ MaxBytes < off[k]
<1>0. MaxBytes \in Nat
  BY OverflowAssumption
<1> DEFINE Of(i) == CHOOSE k \in 1 .. n : off[k - 1] <= i /\ i < off[k]
           start == [i \in 0 .. MaxBytes |-> off[Of(i) - 1]]
           Walks(f) == f = [i \in 0 .. MaxBytes |-> IF i > 0 /\ b[i + 1] THEN f[i - 1] ELSE i]
           back == CHOOSE f : Walks(f)
<1>1. ASSUME NEW i \in 0 .. MaxBytes
      PROVE  Of(i) \in 1 .. n /\ off[Of(i) - 1] <= i /\ i < off[Of(i)]
  <2>1. i \in Nat /\ i < off[n]
    BY <1>0
  <2>2. \E k \in 1 .. n : off[k - 1] <= i /\ i < off[k]
    BY <2>1, Within
  <2> QED
    BY <2>2
<1>2. ASSUME NEW i \in 0 .. MaxBytes, NEW k \in 1 .. n, off[k - 1] <= i, i < off[k]
      PROVE  Of(i) = k
  <2> DEFINE j == Of(i)
  <2>1. j \in 1 .. n /\ off[j - 1] <= i /\ i < off[j]
    BY <1>1
  <2> HIDE DEF j
  <2>2. /\ i \in Nat /\ k \in 0 .. n /\ k - 1 \in 0 .. n
        /\ j \in 0 .. n /\ j - 1 \in 0 .. n
    BY <1>0, <2>1
  <2>5. /\ off[j] \in Nat /\ off[k] \in Nat
        /\ off[k - 1] \in Nat /\ off[j - 1] \in Nat
    BY <2>2
  <2>3. j <= k - 1 => off[j] <= off[k - 1]
    BY <2>2, Ordered
  <2>4. k <= j - 1 => off[k] <= off[j - 1]
    BY <2>2, Ordered
  <2> QED
    BY <1>2, <2>1, <2>2, <2>3, <2>4, <2>5 DEF j
<1> HIDE DEF Of
<1>3. \A i \in 0 .. MaxBytes : start[i] = IF i > 0 /\ b[i + 1] THEN start[i - 1] ELSE i
  <2> SUFFICES ASSUME NEW i \in 0 .. MaxBytes
               PROVE  start[i] = IF i > 0 /\ b[i + 1] THEN start[i - 1] ELSE i
    OBVIOUS
  <2> DEFINE k == Of(i)
  <2>1. k \in 1 .. n /\ off[k - 1] <= i /\ i < off[k]
    BY <1>1
  <2> HIDE DEF k
  <2>2. /\ i \in Nat /\ off[k] \in Nat /\ off[k - 1] \in Nat
        /\ i + 1 \in off[k - 1] + 1 .. off[k]
    BY <1>0, <2>1
  <2>3. b[i + 1] <=> i + 1 > off[k - 1] + 1
    BY <2>1, <2>2
  <2>4. CASE i = off[k - 1]
    BY <2>2, <2>3, <2>4 DEF k
  <2>5. CASE i # off[k - 1]
    <3>1. b[i + 1] /\ i > 0 /\ i - 1 \in 0 .. MaxBytes /\ off[k - 1] <= i - 1 /\ i - 1 < off[k]
      BY <1>0, <2>1, <2>2, <2>3, <2>5
    <3>2. Of(i - 1) = k
      BY <1>2, <2>1, <3>1
    <3> QED
      BY <3>1, <3>2 DEF k
  <2> QED
    BY <2>4, <2>5
<1>4. Walks(start)
  <2>1. start = [i \in 0 .. MaxBytes |-> start[i]]
    OBVIOUS
  <2> HIDE DEF start
  <2> QED
    BY <1>3, <2>1
<1>5. Walks(back)
  BY <1>4
<1> HIDE DEF back
<1>6. \A i \in 0 .. MaxBytes : back[i] = IF i > 0 /\ b[i + 1] THEN back[i - 1] ELSE i
  BY <1>5
<1>7. back[MaxBytes] = start[MaxBytes]
  <2> DEFINE S == {i \in 0 .. MaxBytes : back[i] = start[i]}
  <2> HIDE DEF start
  <2>1. 0 \in S
    BY <1>0, <1>3, <1>6
  <2>2. ASSUME NEW i \in 1 .. MaxBytes, i - 1 \in S PROVE i \in S
    <3>1. i \in 0 .. MaxBytes /\ i - 1 \in 0 .. MaxBytes /\ back[i - 1] = start[i - 1]
      BY <1>0, <2>2
    <3> QED
      BY <1>3, <1>6, <3>1
  <2> HIDE DEF S
  <2>3. \A i \in 0 .. MaxBytes : i \in S
    BY <1>0, <2>1, <2>2, Induct
  <2> QED
    BY <1>0, <2>3 DEF S
<1>8. Cut(b) = back[MaxBytes]
  BY DEF Cut, back
<1>9. MaxBytes \in 0 .. MaxBytes
  BY <1>0
<1> QED
  BY <1>1, <1>7, <1>8, <1>9
-----------------------------------------------------------------------------
\* What FlattenSeq computes: concatenation from the left.
Joins(f, s, n) == f = [i \in 1 .. n |-> IF i = 1 THEN s[i] ELSE f[i - 1] \o s[i]]

\* There is such a function, one concatenation after the other.
LEMMA JoinExists ==
  ASSUME NEW s, NEW n \in Nat
  PROVE  \E f : Joins(f, s, n)
<1> DEFINE S == {m \in 0 .. n : \E f : Joins(f, s, m)}
<1>1. 0 \in S
  <2>1. Joins([i \in 1 .. 0 |-> 0], s, 0)
    BY DEF Joins
  <2> QED
    BY <2>1
<1>2. ASSUME NEW m \in 1 .. n, m - 1 \in S PROVE m \in S
  <2>1. PICK g : Joins(g, s, m - 1)
    BY <1>2
  <2> DEFINE f == [i \in 1 .. m |-> IF i = 1 THEN s[i] ELSE g[i - 1] \o s[i]]
  <2>2. \A i \in 1 .. m - 1 : f[i] = g[i]
    <3>1. \A i \in 1 .. m - 1 : g[i] = IF i = 1 THEN s[i] ELSE g[i - 1] \o s[i]
      BY <2>1 DEF Joins
    <3>2. \A i \in 1 .. m - 1 : i \in 1 .. m
      OBVIOUS
    <3> QED
      BY <3>1, <3>2
  <2>3. \A i \in 1 .. m : i # 1 => i - 1 \in 1 .. m - 1
    OBVIOUS
  <2>4. \A i \in 1 .. m : f[i] = IF i = 1 THEN s[i] ELSE f[i - 1] \o s[i]
    BY <2>2, <2>3
  <2>5. f = [i \in 1 .. m |-> f[i]]
    OBVIOUS
  <2> HIDE DEF f
  <2>6. Joins(f, s, m)
    BY <2>4, <2>5 DEF Joins
  <2> QED
    BY <2>6
<1> HIDE DEF S
<1>3. n \in S
  BY <1>1, <1>2, Induct
<1> QED
  BY <1>3 DEF S

\* On the first entries, which two sequences share, it is the same.
LEMMA JoinUnique ==
  ASSUME NEW s, NEW t, NEW m \in Nat, NEW n \in Nat, NEW f, NEW g,
         Joins(f, s, m), Joins(g, t, n), m <= n, \A i \in 1 .. m : s[i] = t[i]
  PROVE  \A i \in 1 .. m : f[i] = g[i]
<1> DEFINE S == {i \in 0 .. m : i > 0 => f[i] = g[i]}
<1>1. 0 \in S
  OBVIOUS
<1>2. ASSUME NEW i \in 1 .. m, i - 1 \in S PROVE i \in S
  <2>1. i \in 1 .. n /\ s[i] = t[i]
    OBVIOUS
  <2>2. f[i] = IF i = 1 THEN s[i] ELSE f[i - 1] \o s[i]
    BY DEF Joins
  <2>3. g[i] = IF i = 1 THEN t[i] ELSE g[i - 1] \o t[i]
    BY <2>1 DEF Joins
  <2>4. i # 1 => f[i - 1] = g[i - 1]
    BY <1>2
  <2> QED
    BY <2>1, <2>2, <2>3, <2>4
<1> HIDE DEF S
<1>3. \A i \in 0 .. m : i \in S
  BY <1>1, <1>2, Induct
<1> QED
  BY <1>3 DEF S

\* FlattenSeq of a sequence is the last of its concatenations.
LEMMA FlattenIs ==
  ASSUME NEW S, NEW s \in Seq(S), s # <<>>
  PROVE  \E f : Joins(f, s, Len(s)) /\ FlattenSeq(s) = f[Len(s)]
<1> DEFINE f == CHOOSE f : f = [i \in 1 .. Len(s) |-> IF i = 1 THEN s[i] ELSE f[i - 1] \o s[i]]
<1>1. Len(s) \in Nat /\ Len(s) # 0
  BY EmptySeq
<1>2. f = [i \in 1 .. Len(s) |-> IF i = 1 THEN s[i] ELSE f[i - 1] \o s[i]]
  BY <1>1, JoinExists DEF Joins
<1>3. FlattenSeq(s) = f[Len(s)]
  BY <1>1 DEF FlattenSeq
<1> HIDE DEF f
<1>4. Joins(f, s, Len(s))
  BY <1>2 DEF Joins
<1> QED
  BY <1>3, <1>4

\* One more sequence to join.
LEMMA FlattenAppend ==
  ASSUME NEW S, NEW s \in Seq(S), NEW x \in S
  PROVE  FlattenSeq(Append(s, x)) = IF s = <<>> THEN x ELSE FlattenSeq(s) \o x
<1> DEFINE n == Len(s)
<1>0. PICK t : t = Append(s, x)
  OBVIOUS
<1>1. /\ n \in Nat /\ t \in Seq(S) /\ Len(t) = n + 1 /\ t # <<>>
      /\ \A i \in 1 .. n : t[i] = s[i]
      /\ t[n + 1] = x
  BY <1>0, AppendProperties, LenProperties, EmptySeq
<1>2. PICK f : Joins(f, t, n + 1) /\ FlattenSeq(t) = f[n + 1]
  BY <1>1, FlattenIs
<1>3. f[n + 1] = IF n + 1 = 1 THEN x ELSE f[n] \o x
  <2>1. n + 1 \in 1 .. n + 1 /\ (n + 1) - 1 = n
    BY <1>1
  <2>2. f[n + 1] = IF n + 1 = 1 THEN t[n + 1] ELSE f[(n + 1) - 1] \o t[n + 1]
    BY <1>2, <2>1 DEF Joins
  <2> QED
    BY <1>1, <2>1, <2>2
<1>4. CASE s = <<>>
  BY <1>0, <1>2, <1>3, <1>4, EmptySeq
<1>5. CASE s # <<>>
  <2>1. n # 0
    BY <1>5, EmptySeq
  <2>2. PICK g : Joins(g, s, n) /\ FlattenSeq(s) = g[n]
    BY <1>5, FlattenIs
  <2>3. \A i \in 1 .. n : g[i] = f[i]
    <3>1. n + 1 \in Nat /\ n <= n + 1 /\ \A i \in 1 .. n : s[i] = t[i]
      BY <1>1
    <3> HIDE DEF n
    <3> QED
      BY <1>1, <1>2, <2>2, <3>1, JoinUnique
  <2>4. f[n] = g[n]
    BY <1>1, <2>1, <2>3
  <2> QED
    BY <1>0, <1>1, <1>2, <1>3, <1>5, <2>1, <2>2, <2>4
<1> QED
  BY <1>4, <1>5
-----------------------------------------------------------------------------
\* One character, and the texts up to the k-th.
Char(w) == [j \in 1 .. w |-> j > 1]

Upto(t, k) == Encode(SubSeq(t, 1, k))

\* The bytes of a character of width w: all but the first continue it.
LEMMA CharBytes ==
  ASSUME NEW w \in 1 .. 4
  PROVE  /\ Char(w) \in Seq(BOOLEAN) /\ Len(Char(w)) = w
         /\ \A j \in 1 .. w : Char(w)[j] <=> j > 1
<1>1. w \in Nat /\ Char(w) \in [1 .. w -> BOOLEAN]
  BY DEF Char
<1>2. Char(w) \in Seq(BOOLEAN)
  BY <1>1, SeqDef
<1>3. PICK c : c = Char(w)
  OBVIOUS
<1>4. Len(c) \in Nat /\ DOMAIN c = 1 .. Len(c)
  BY <1>2, <1>3, LenProperties
<1>5. DOMAIN c = 1 .. w
  BY <1>3 DEF Char
<1>6. Len(c) = w
  <2>1. 1 .. Len(c) = 1 .. w
    BY <1>4, <1>5
  <2>2. w \in 1 .. Len(c)
    BY <1>1, <2>1
  <2>3. Len(c) \in 1 .. Len(c)
    BY <1>1, <1>4, <2>2
  <2>4. Len(c) \in 1 .. w
    BY <2>1, <2>3
  <2>5. ASSUME NEW l \in Nat, l \in 1 .. w, w \in 1 .. l PROVE l = w
    BY <2>5
  <2> QED
    BY <1>4, <2>2, <2>4, <2>5
<1>7. \A j \in 1 .. w : Char(w)[j] <=> j > 1
  BY DEF Char
<1> QED
  BY <1>2, <1>3, <1>6, <1>7

\* One more character of a text puts its bytes at the end.
LEMMA UptoStep ==
  ASSUME NEW t \in Seq(1 .. 4), NEW k \in 1 .. Len(t)
  PROVE  Upto(t, k) = Upto(t, k - 1) \o Char(t[k])
<1> DEFINE B == Seq(BOOLEAN)
           Chars(s) == [i \in DOMAIN s |-> Char(s[i])]
<1>0. PICK u, v : u = SubSeq(t, 1, k) /\ v = SubSeq(t, 1, k - 1)
  OBVIOUS
<1>1. Len(t) \in Nat /\ \A i \in 1 .. Len(t) : t[i] \in 1 .. 4
  BY LenProperties, ElementOfSeq
<1>2. /\ u \in Seq(1 .. 4) /\ Len(u) = k /\ DOMAIN u = 1 .. k
      /\ \A i \in 1 .. k : u[i] = t[i]
  <2>1. 1 \in Int /\ k \in Int /\ \A i \in 1 .. k : t[i] \in 1 .. 4
    BY <1>1
  <2> QED
    BY <1>0, <2>1, SubSeqProperties, LenProperties
<1>3. /\ v \in Seq(1 .. 4) /\ Len(v) = k - 1 /\ DOMAIN v = 1 .. k - 1
      /\ \A i \in 1 .. k - 1 : v[i] = t[i]
  <2>1. 1 \in Int /\ k - 1 \in Int /\ \A i \in 1 .. k - 1 : t[i] \in 1 .. 4
    BY <1>1
  <2> QED
    BY <1>0, <2>1, SubSeqProperties, LenProperties
<1>4. Chars(u) \in Seq(B) /\ Len(Chars(u)) = k
  <2>1. Chars(u) \in [1 .. k -> B]
    <3>1. \A i \in 1 .. k : u[i] \in 1 .. 4
      BY <1>1, <1>2
    <3>2. \A i \in 1 .. k : Char(u[i]) \in B
      BY <3>1, CharBytes
    <3> HIDE DEF B
    <3> QED
      BY <1>2, <3>2
  <2>2. k \in Nat
    BY <1>1
  <2> HIDE DEF Chars, B
  <2>3. Chars(u) \in Seq(B)
    BY <2>1, <2>2, SeqDef
  <2> QED
    BY <2>1, <2>2, <2>3, LenProperties
<1>5. Chars(v) \in Seq(B) /\ Len(Chars(v)) = k - 1
  <2>1. Chars(v) \in [1 .. k - 1 -> B]
    <3>1. \A i \in 1 .. k - 1 : v[i] \in 1 .. 4
      BY <1>1, <1>3
    <3>2. \A i \in 1 .. k - 1 : Char(v[i]) \in B
      BY <3>1, CharBytes
    <3> HIDE DEF B
    <3> QED
      BY <1>3, <3>2
  <2>2. k - 1 \in Nat
    BY <1>1
  <2> HIDE DEF Chars, B
  <2>3. Chars(v) \in Seq(B)
    BY <2>1, <2>2, SeqDef
  <2> QED
    BY <2>1, <2>2, <2>3, LenProperties
<1>6. Char(t[k]) \in B
  BY <1>1, CharBytes
<1>7. Chars(u) = Append(Chars(v), Char(t[k]))
  <2>1. \A i \in 1 .. k : Chars(u)[i] = Char(t[i])
    BY <1>2
  <2>2. \A i \in 1 .. k - 1 : Chars(v)[i] = Char(t[i])
    BY <1>3
  <2> HIDE DEF Chars, B
  <2>3. PICK a : a = Append(Chars(v), Char(t[k]))
    OBVIOUS
  <2>4. /\ a \in Seq(B) /\ Len(a) = k
        /\ \A i \in 1 .. k - 1 : a[i] = Char(t[i])
        /\ a[k] = Char(t[k])
    BY <1>1, <1>5, <1>6, <2>2, <2>3, AppendProperties
  <2>5. \A i \in 1 .. k : Chars(u)[i] = a[i]
    BY <1>1, <2>1, <2>4
  <2>6. Chars(u) = a
    BY <1>4, <2>4, <2>5, SeqEqual
  <2> QED
    BY <2>3, <2>6
<1>8. Upto(t, k) = FlattenSeq(Chars(u)) /\ Upto(t, k - 1) = FlattenSeq(Chars(v))
  BY <1>0 DEF Upto, Encode, Char
<1> HIDE DEF Chars
<1>9. FlattenSeq(Chars(u)) = IF Chars(v) = <<>> THEN Char(t[k])
                             ELSE FlattenSeq(Chars(v)) \o Char(t[k])
  BY <1>5, <1>6, <1>7, FlattenAppend
<1>10. CASE Chars(v) = <<>>
  <2>1. Len(Chars(v)) = 0
    BY <1>10, EmptySeq
  <2>2. FlattenSeq(Chars(v)) = <<>>
    BY <1>10, <2>1 DEF FlattenSeq
  <2>3. <<>> \o Char(t[k]) = Char(t[k])
    BY <1>6, ConcatEmptySeq
  <2> QED
    BY <1>8, <1>9, <1>10, <2>2, <2>3
<1> QED
  BY <1>8, <1>9, <1>10

\* No characters, no bytes.
LEMMA UptoNothing ==
  ASSUME NEW t \in Seq(1 .. 4)
  PROVE  Upto(t, 0) = <<>>
<1>1. SubSeq(t, 1, 0) = <<>>
  BY SubSeqEmpty
<1> DEFINE chars == [i \in DOMAIN <<>> |-> Char(<<>>[i])]
<1>2. chars = <<>>
  OBVIOUS
<1>3. Upto(t, 0) = FlattenSeq(chars)
  BY <1>1 DEF Upto, Encode, Char
<1> HIDE DEF chars
<1>4. Len(chars) = 0
  BY <1>2, EmptySeq
<1> QED
  BY <1>2, <1>3, <1>4 DEF FlattenSeq

\* Which bytes one more character adds.
LEMMA UptoBytes ==
  ASSUME NEW t \in Seq(1 .. 4)
  PROVE  /\ \A k \in 0 .. Len(t) : Upto(t, k) \in Seq(BOOLEAN)
         /\ \A k \in 1 .. Len(t) :
              /\ Len(Upto(t, k)) = Len(Upto(t, k - 1)) + t[k]
              /\ \A i \in 1 .. Len(Upto(t, k)) :
                   Upto(t, k)[i] = IF i <= Len(Upto(t, k - 1)) THEN Upto(t, k - 1)[i]
                                   ELSE i > Len(Upto(t, k - 1)) + 1
<1>0. Len(t) \in Nat /\ \A k \in 1 .. Len(t) : t[k] \in 1 .. 4
  BY LenProperties, ElementOfSeq
<1> DEFINE S == {k \in 0 .. Len(t) : Upto(t, k) \in Seq(BOOLEAN)}
<1>1. 0 \in S
  <2>1. Upto(t, 0) \in Seq(BOOLEAN)
    BY UptoNothing, EmptySeq
  <2> QED
    BY <1>0, <2>1
<1>2. ASSUME NEW k \in 1 .. Len(t), k - 1 \in S PROVE k \in S
  <2>1. Upto(t, k) = Upto(t, k - 1) \o Char(t[k])
    BY <1>2, UptoStep
  <2>2. Char(t[k]) \in Seq(BOOLEAN)
    BY <1>0, CharBytes
  <2>3. Upto(t, k) \in Seq(BOOLEAN)
    BY <1>2, <2>1, <2>2, ConcatProperties
  <2> QED
    BY <1>0, <2>3
<1> HIDE DEF S
<1>3. \A k \in 0 .. Len(t) : k \in S
  BY <1>0, <1>1, <1>2, Induct
<1>4. \A k \in 0 .. Len(t) : Upto(t, k) \in Seq(BOOLEAN)
  BY <1>3 DEF S
<1>5. ASSUME NEW k \in 1 .. Len(t)
      PROVE  /\ Len(Upto(t, k)) = Len(Upto(t, k - 1)) + t[k]
             /\ \A i \in 1 .. Len(Upto(t, k)) :
                  Upto(t, k)[i] = IF i <= Len(Upto(t, k - 1)) THEN Upto(t, k - 1)[i]
                                  ELSE i > Len(Upto(t, k - 1)) + 1
  <2>1. k - 1 \in 0 .. Len(t) /\ t[k] \in 1 .. 4
    BY <1>0
  <2>2. Upto(t, k - 1) \in Seq(BOOLEAN)
    BY <1>4, <2>1
  <2>3. PICK p, c, q : p = Upto(t, k - 1) /\ c = Char(t[k]) /\ q = p \o c
    OBVIOUS
  <2>4. q = Upto(t, k)
    BY <2>2, <2>3, UptoStep
  <2>5. /\ p \in Seq(BOOLEAN) /\ c \in Seq(BOOLEAN) /\ Len(c) = t[k] /\ Len(p) \in Nat
        /\ \A j \in 1 .. t[k] : c[j] <=> j > 1
        /\ c \in [1 .. t[k] -> BOOLEAN]
    BY <2>1, <2>2, <2>3, CharBytes, LenProperties
  <2>6. /\ Len(q) = Len(p) + t[k]
        /\ \A i \in 1 .. Len(p) + t[k] : q[i] = IF i <= Len(p) THEN p[i] ELSE c[i - Len(p)]
    BY <2>3, <2>5, ConcatProperties
  <2>7. ASSUME NEW i \in 1 .. Len(p) + t[k], ~(i <= Len(p))
        PROVE  c[i - Len(p)] = (i > Len(p) + 1)
    <3>1. i - Len(p) \in 1 .. t[k] /\ (i - Len(p) > 1 <=> i > Len(p) + 1)
      BY <2>1, <2>5, <2>7
    <3>2. c[i - Len(p)] \in BOOLEAN
      BY <2>5, <3>1
    <3> QED
      BY <2>5, <3>1, <3>2
  <2>8. \A i \in 1 .. Len(q) : q[i] = IF i <= Len(p) THEN p[i] ELSE i > Len(p) + 1
    BY <2>6, <2>7
  <2> QED
    BY <2>3, <2>4, <2>6, <2>8
<1> QED
  BY <1>4, <1>5

\* Where the characters of a text begin.
Starts(t) == [k \in 0 .. Len(t) |-> Len(Upto(t, k))]

\* A character begins where the one before it ends, and its first byte is the only one
\* that is no continuation byte.
LEMMA EncodedAs ==
  ASSUME NEW t \in Seq(1 .. 4), NEW off, off = Starts(t)
  PROVE  /\ Len(t) \in Nat /\ off \in [0 .. Len(t) -> Nat]
         /\ off[0] = 0 /\ off[Len(t)] = Len(Encode(t))
         /\ \A k \in 1 .. Len(t) : off[k - 1] < off[k]
         /\ \A k \in 1 .. Len(t) : \A i \in off[k - 1] + 1 .. off[k] :
              Encode(t)[i] <=> i > off[k - 1] + 1
<1>0. Len(t) \in Nat /\ \A k \in 1 .. Len(t) : t[k] \in 1 .. 4
  BY LenProperties, ElementOfSeq
<1> DEFINE n == Len(t)
<1>1. \A k \in 0 .. n : Upto(t, k) \in Seq(BOOLEAN) /\ off[k] = Len(Upto(t, k)) /\ off[k] \in Nat
  BY UptoBytes, LenProperties DEF Starts
<1>2. off \in [0 .. n -> Nat]
  <2>1. off = [k \in 0 .. n |-> off[k]]
    BY DEF Starts
  <2> QED
    BY <1>1, <2>1
<1>3. off[0] = 0
  BY <1>0, <1>1, UptoNothing, EmptySeq
<1>4. Upto(t, n) = Encode(t)
  BY SubSeqFull DEF Upto
<1>5. off[n] = Len(Encode(t))
  BY <1>0, <1>1, <1>4
<1>6. ASSUME NEW k \in 1 .. n
      PROVE  /\ k \in 0 .. n /\ k - 1 \in 0 .. n /\ off[k] \in Nat /\ off[k - 1] \in Nat
             /\ off[k - 1] < off[k]
             /\ \A i \in 1 .. off[k] :
                  Upto(t, k)[i] = IF i <= off[k - 1] THEN Upto(t, k - 1)[i]
                                  ELSE i > off[k - 1] + 1
  <2>1. k \in 0 .. n /\ k - 1 \in 0 .. n /\ t[k] \in 1 .. 4
    BY <1>0
  <2>2. /\ off[k] = Len(Upto(t, k)) /\ off[k] \in Nat
        /\ off[k - 1] = Len(Upto(t, k - 1)) /\ off[k - 1] \in Nat
    BY <1>1, <2>1
  <2>3. off[k] = off[k - 1] + t[k]
    BY <2>2, UptoBytes
  <2>4. off[k - 1] < off[k]
    BY <2>1, <2>2, <2>3
  <2>5. \A i \in 1 .. off[k] :
          Upto(t, k)[i] = IF i <= off[k - 1] THEN Upto(t, k - 1)[i] ELSE i > off[k - 1] + 1
    BY <2>2, UptoBytes
  <2> QED
    BY <2>1, <2>2, <2>4, <2>5
<1>7. ASSUME NEW k \in 0 .. n
      PROVE  \A i \in 1 .. off[k] : Encode(t)[i] = Upto(t, k)[i]
  <2> DEFINE S == {m \in 0 .. n : k <= m => \A i \in 1 .. off[k] : Upto(t, m)[i] = Upto(t, k)[i]}
  <2>1. 0 \in S
    <3>1. k <= 0 => k = 0
      BY <1>0
    <3> QED
      BY <1>0, <3>1
  <2>2. ASSUME NEW m \in 1 .. n, m - 1 \in S PROVE m \in S
    <3>1. m \in 0 .. n /\ m - 1 \in 0 .. n
      BY <1>0
    <3>2. CASE k <= m - 1
      <4>1. off[k] <= off[m - 1] /\ off[k] \in Nat /\ off[m - 1] \in Nat /\ off[m] \in Nat
            /\ off[m - 1] < off[m]
        BY <1>0, <1>1, <1>2, <1>6, <3>1, <3>2, Ordered
      <4>2. ASSUME NEW i \in 1 .. off[k] PROVE Upto(t, m)[i] = Upto(t, k)[i]
        <5>1. i \in 1 .. off[m] /\ i <= off[m - 1]
          BY <4>1
        <5>2. Upto(t, m)[i] = Upto(t, m - 1)[i]
          BY <1>6, <5>1
        <5>3. Upto(t, m - 1)[i] = Upto(t, k)[i]
          BY <2>2, <3>2
        <5> QED
          BY <5>2, <5>3
      <4> QED
        BY <3>1, <4>2
    <3>3. CASE ~(k <= m - 1)
      <4>1. k <= m => k = m
        BY <1>0, <3>3
      <4> QED
        BY <3>1, <4>1
    <3> QED
      BY <3>2, <3>3
  <2> HIDE DEF S
  <2>3. \A m \in 0 .. n : m \in S
    BY <1>0, <2>1, <2>2, Induct
  <2>4. n \in S /\ k <= n
    BY <1>0, <2>3
  <2> QED
    BY <1>4, <2>4 DEF S
<1>8. ASSUME NEW k \in 1 .. n, NEW i \in off[k - 1] + 1 .. off[k]
      PROVE  Encode(t)[i] <=> i > off[k - 1] + 1
  <2>1. off[k - 1] \in Nat /\ off[k] \in Nat /\ k \in 0 .. n
    BY <1>6
  <2>2. i \in 1 .. off[k] /\ ~(i <= off[k - 1])
    BY <2>1
  <2>3. Upto(t, k)[i] = (i > off[k - 1] + 1)
    BY <1>6, <2>2
  <2>4. Encode(t)[i] = Upto(t, k)[i]
    BY <1>7, <2>1, <2>2
  <2> QED
    BY <2>3, <2>4
<1> QED
  BY <1>0, <1>2, <1>3, <1>5, <1>6, <1>8

\* The cut of a long text is behind the longest run of whole characters that fits.
LEMMA CutIsLongest ==
  ASSUME NEW t \in Texts, Long(t)
  PROVE  LET fitting == {k \in 0 .. Len(t) : Len(Encode(SubSeq(t, 1, k))) <= MaxBytes}
         IN  Cut(Encode(t)) = Len(Encode(SubSeq(t, 1, Max(fitting))))
<1> DEFINE n == Len(t)
           fitting == {k \in 0 .. n : Len(Encode(SubSeq(t, 1, k))) <= MaxBytes}
<1>0. t \in Seq(1 .. 4) /\ MaxBytes \in Nat
  BY OverflowAssumption
<1>1. PICK off : off = Starts(t)
  OBVIOUS
<1>2. /\ n \in Nat /\ off \in [0 .. n -> Nat] /\ off[0] = 0 /\ off[n] = Len(Encode(t))
      /\ \A k \in 1 .. n : off[k - 1] < off[k]
      /\ \A k \in 1 .. n : \A i \in off[k - 1] + 1 .. off[k] :
           Encode(t)[i] <=> i > off[k - 1] + 1
  BY <1>0, <1>1, EncodedAs
<1>3. MaxBytes < off[n]
  BY <1>0, <1>2 DEF Long
<1>4. PICK k \in 1 .. n : /\ Cut(Encode(t)) = off[k - 1]
                         /\ off[k - 1] <= MaxBytes /\ MaxBytes < off[k]
  BY <1>2, <1>3, CutIs
<1>5. \A j \in 0 .. n : off[j] = Len(Encode(SubSeq(t, 1, j)))
  BY <1>1 DEF Starts, Upto
<1>6. fitting = {j \in 0 .. n : off[j] <= MaxBytes}
  BY <1>5
<1> HIDE DEF fitting
<1>7. k - 1 \in fitting /\ \A j \in fitting : k - 1 >= j
  <2>1. k \in 0 .. n /\ k - 1 \in 0 .. n /\ off[k] \in Nat
    BY <1>2
  <2>2. ASSUME NEW j \in fitting PROVE k - 1 >= j
    <3>1. j \in 0 .. n /\ off[j] <= MaxBytes /\ off[j] \in Nat
      BY <1>2, <1>6
    <3>2. k <= j => off[k] <= off[j]
      BY <1>2, <2>1, <3>1, Ordered
    <3> QED
      BY <1>0, <1>2, <1>4, <2>1, <3>1, <3>2
  <2> QED
    BY <1>4, <1>6, <2>1, <2>2
<1>8. Max(fitting) = k - 1
  <2>1. fitting \subseteq Nat
    BY <1>2, <1>6
  <2>2. \E x \in fitting : \A j \in fitting : x >= j
    BY <1>7
  <2>3. Max(fitting) \in fitting /\ \A j \in fitting : Max(fitting) >= j
    BY <2>2 DEF Max
  <2>4. ASSUME NEW a \in Nat, NEW c \in Nat, a >= c, c >= a PROVE a = c
    BY <2>4
  <2>5. Max(fitting) \in Nat /\ k - 1 \in Nat
    BY <1>7, <2>1, <2>3
  <2>6. Max(fitting) >= k - 1 /\ k - 1 >= Max(fitting)
    BY <1>7, <2>3
  <2> QED
    BY <2>4, <2>5, <2>6
<1>9. k - 1 \in 0 .. n
  BY <1>2
<1> QED
  BY <1>4, <1>5, <1>8, <1>9 DEF fitting

-----------------------------------------------------------------------------
\* Only long texts are spilled, and only their cut is recorded.
IsCut(e) == e.sha \in Texts /\ Long(e.sha) /\ e.head = Cut(Encode(e.sha))

Heads ==
  /\ \A c \in Callers :
       /\ \A e \in named[c] : IsCut(e)
       /\ pc[c] \in {"open", "fill"} => Long(Current(c))
  /\ \A e \in refs : IsCut(e)

\* A caller is done with one text.
LEMMA HeadsReturn ==
  ASSUME OverflowInv, Heads, NEW c \in Callers, NEW long \in BOOLEAN, left[c] # <<>>,
         long => Long(Current(c)), Return(c, long), UNCHANGED refs
  PROVE  Heads'
<1>1. Current(c) \in Texts
  BY CurrentIsText DEF OverflowInv
<1>2. \A d \in Callers : \A e \in named'[d] : IsCut(e)
  <2> DEFINE r == [sha |-> Current(c), head |-> Cut(Encode(Current(c)))]
  <2>1. long => IsCut(r)
    BY <1>1 DEF IsCut
  <2>2. \A d \in Callers : \A e \in named'[d] : e \in named[d] \/ (long /\ e = r)
    BY DEF OverflowInv, OverflowType, Return
  <2> HIDE DEF r
  <2> QED
    BY <2>1, <2>2 DEF Heads
<1>3. \A d \in Callers : pc'[d] \in {"open", "fill"} => pc'[d] = pc[d] /\ left'[d] = left[d]
  BY DEF OverflowInv, OverflowType, Return
<1> QED
  BY <1>2, <1>3 DEF Heads, Current, IsCut

\* Every step names cuts of long texts only.
LEMMA HeadsStep == OverflowInv /\ Heads /\ [Next]_vars => Heads'
<1> SUFFICES ASSUME OverflowInv, Heads, [Next]_vars PROVE Heads'
  OBVIOUS
<1>0. /\ pc \in [Callers -> {"idle", "check", "open", "fill"}]
      /\ left \in [Callers -> Seq(Texts)]
      /\ named = [c \in Callers |-> named[c]]
  BY DEF OverflowInv, OverflowType
<1>1. ASSUME NEW c \in Callers, Call(c) PROVE Heads'
  BY <1>0, <1>1 DEF Heads, Call, Current, IsCut, disk
<1>2. ASSUME NEW c \in Callers, Check(c) PROVE Heads'
  <2>1. left[c] # <<>> /\ UNCHANGED refs
    BY <1>2 DEF Check, At, done
  <2>2. CASE ~Long(Current(c)) /\ Return(c, FALSE)
    BY <2>1, <2>2, HeadsReturn
  <2>3. CASE Long(Current(c)) /\ Return(c, TRUE)
    BY <2>1, <2>3, HeadsReturn
  <2>4. CASE Long(Current(c)) /\ pc' = [pc EXCEPT ![c] = "open"] /\ UNCHANGED <<left, named>>
    BY <1>0, <2>1, <2>4 DEF Heads, Current, IsCut
  <2> QED
    BY <1>2, <2>2, <2>3, <2>4 DEF Check
<1>3. ASSUME NEW c \in Callers, OpenSpill(c) PROVE Heads'
  BY <1>0, <1>3 DEF Heads, OpenSpill, At, Current, IsCut, done
<1>4. ASSUME NEW c \in Callers, Fill(c) PROVE Heads'
  BY <1>4 DEF Heads, Fill, Current, IsCut, done
<1>5. ASSUME NEW c \in Callers, Filled(c) PROVE Heads'
  <2>1. left[c] # <<>> /\ Long(Current(c)) /\ Return(c, TRUE) /\ UNCHANGED refs
    BY <1>5 DEF Filled, At, Heads, done
  <2> QED
    BY <2>1, HeadsReturn
<1>6. ASSUME NEW c \in Callers, WriteEvent(c) PROVE Heads'
  BY <1>0, <1>6 DEF Heads, WriteEvent, Current, IsCut, disk
<1>7. ASSUME NEW c \in Callers, BreakOff(c) PROVE Heads'
  BY <1>0, <1>7 DEF Heads, BreakOff, Current, IsCut, disk
<1>8. CASE UNCHANGED vars
  BY <1>8 DEF vars, Heads, Current, IsCut
<1> QED
  BY <1>1, <1>2, <1>3, <1>4, <1>5, <1>6, <1>7, <1>8 DEF Next

\* The head that an event keeps is the longest one of whole characters that fits into the
\* budget (cap_stream: "trimmed back to the nearest valid UTF-8 boundary"), for any text
\* and any budget.
THEOREM HeadIsLongestAlways == Spec => []HeadIsLongest
<1>1. Init => Heads
  BY DEF Init, Heads
<1>2. OverflowInv /\ Heads => HeadIsLongest
  <2> SUFFICES ASSUME Heads, NEW e \in refs
               PROVE  LET fitting == {k \in 0 .. Len(e.sha) :
                                        Len(Encode(SubSeq(e.sha, 1, k))) <= MaxBytes}
                      IN  e.head = Len(Encode(SubSeq(e.sha, 1, Max(fitting))))
    BY DEF HeadIsLongest
  <2>1. IsCut(e)
    BY DEF Heads
  <2> QED
    BY <2>1, CutIsLongest DEF IsCut
<1> QED
  BY <1>1, <1>2, OverflowInvariant, HeadsStep, PTL DEF Spec
=============================================================================
