--------------------------- MODULE BranchesProofs ---------------------------
(***************************************************************************)
(* Proofs about Branches, for any snapshots and any length of the            *)
(* trajectory.  The views are computed from positions of forks and reverts    *)
(* alone; the workspace follows the copies that snapshots took.  What ties     *)
(* the two is said for each piece of work (Seen): it is on a branch that was   *)
(* rolled back, for good, or it is in the workspace and in every snapshot     *)
(* that was taken after it.                                                  *)
(***************************************************************************)
EXTENDS Branches, TLAPS

Event == [type : {"work", "forked", "reverted"}, snap : Snaps \cup {None}]

Positions == DOMAIN events

Typed ==
  /\ events \in Seq(Event)
  /\ now \subseteq Positions
  /\ at \in [Snaps -> SUBSET Nat]
  /\ straight \in BOOLEAN
  /\ \A n \in Snaps : \A f, g \in Forks(n) : f = g
  /\ \A n \in Snaps : \A f \in Forks(n) : at[n] \subseteq 1 .. f

\* Work i was rolled back once: it is after the fork and before a revert of one.
Rolled(i) == \E n \in Snaps : i \in Between(n)

Seen ==
  \A i \in Works :
    \/ Rolled(i)
    \/ /\ i \in now
       /\ \A n \in Snaps : \A f \in Forks(n) : i < f => i \in at[n]

\* While reverts go back along the timeline, a snapshot on the timeline is its
\* beginning, and nothing on the timeline was ever rolled back.
Timeline ==
  straight =>
    /\ \A n \in Snaps : \A f \in Forks(n) :
         f \in now => at[n] = {i \in now : i <= f}
    /\ \A i \in now : ~Rolled(i)

-----------------------------------------------------------------------------
(* What one more event does to the positions.                                *)

LEMMA Added ==
  ASSUME Typed, NEW t \in {"work", "forked", "reverted"}, NEW n \in Snaps \cup {None}, Add(t, n)
  PROVE  /\ events' \in Seq(Event)
         /\ Positions = 1 .. Len(events) /\ New = Len(events) + 1 /\ New \in Nat
         /\ Positions' = Positions \cup {New} /\ New \notin Positions
         /\ \A i \in Positions : events'[i] = events[i]
         /\ events'[New] = [type |-> t, snap |-> n]
<1>1. events \in Seq(Event) /\ [type |-> t, snap |-> n] \in Event
  BY DEF Typed, Event
<1>2. events' = Append(events, [type |-> t, snap |-> n]) /\ New = Len(events) + 1
  BY DEF Add, New
<1> QED
  BY <1>1, <1>2 DEF Positions

\* The next event comes after all others.
LEMMA FewerThanNew ==
  ASSUME Typed
  PROVE  /\ Positions = 1 .. Len(events) /\ New = Len(events) + 1 /\ Len(events) \in Nat
         /\ \A i \in Positions : i \in Nat /\ i < New
<1>1. events \in Seq(Event)
  BY DEF Typed
<1> QED
  BY <1>1 DEF Positions, New

\* A piece of work adds no fork and no revert.
LEMMA WorkMoves ==
  ASSUME Typed, Work
  PROVE  /\ \A n \in Snaps : Forks(n)' = Forks(n) /\ Reverts(n)' = Reverts(n)
         /\ Works' = Works \cup {New}
<1>1. /\ Positions' = Positions \cup {New} /\ New \notin Positions
      /\ \A i \in Positions : events'[i] = events[i]
      /\ events'[New] = [type |-> "work", snap |-> None]
  BY Added DEF Work
<1> QED
  BY <1>1 DEF Positions, Forks, Reverts, Works

\* A fork changes where the forks are, by one.
LEMMA ForkMoves ==
  ASSUME Typed, NEW n \in Snaps, Fork(n)
  PROVE  /\ \A m \in Snaps : Reverts(m)' = Reverts(m) /\ (m # n => Forks(m)' = Forks(m))
         /\ Forks(n) = {} /\ Forks(n)' = {New}
         /\ Works' = Works
<1>1. /\ Positions' = Positions \cup {New} /\ New \notin Positions
      /\ \A i \in Positions : events'[i] = events[i]
      /\ events'[New] = [type |-> "forked", snap |-> n]
  BY Added DEF Fork
<1>2. Forks(n) = {}
  BY DEF Fork
<1> QED
  BY <1>1, <1>2 DEF Positions, Forks, Reverts, Works

\* A revert changes where the reverts are, by one.
LEMMA RevertMoves ==
  ASSUME Typed, NEW n \in Snaps, Revert(n)
  PROVE  /\ \A m \in Snaps : Forks(m)' = Forks(m) /\ (m # n => Reverts(m)' = Reverts(m))
         /\ Reverts(n)' = Reverts(n) \cup {New}
         /\ Works' = Works
<1>1. /\ Positions' = Positions \cup {New} /\ New \notin Positions
      /\ \A i \in Positions : events'[i] = events[i]
      /\ events'[New] = [type |-> "reverted", snap |-> n]
  BY Added DEF Revert
<1> QED
  BY <1>1 DEF Positions, Forks, Reverts, Works

\* Forks, reverts and work are events of the log, and the filter hides what is between two of them.
LEMMA Places ==
  ASSUME Typed, NEW n \in Snaps
  PROVE  /\ Forks(n) \subseteq Positions /\ Reverts(n) \subseteq Positions
         /\ Works \subseteq Positions
         /\ \A i : i \in Between(n) <=>
              i \in Positions /\ \E f \in Forks(n), r \in Reverts(n) : f < i /\ i < r
BY DEF Forks, Reverts, Works, Between, Positions

\* What was rolled back stays so: positions are only added.
LEMMA RolledStays ==
  ASSUME Typed, NEW i \in Positions, Rolled(i), Next
  PROVE  Rolled(i)'
<1>1. PICK n \in Snaps : \E f \in Forks(n), r \in Reverts(n) : f < i /\ i < r
  BY Places DEF Rolled
<1>2. CASE Work
  <2>1. Forks(n)' = Forks(n) /\ Reverts(n)' = Reverts(n) /\ i \in Positions'
    BY <1>2, WorkMoves, Added DEF Work
  <2> QED
    BY <1>1, <2>1 DEF Rolled, Between, Positions
<1>3. CASE \E m \in Snaps : Fork(m)
  <2>1. PICK m \in Snaps : Fork(m)
    BY <1>3
  <2>2. Forks(n)' = Forks(n) /\ Reverts(n)' = Reverts(n) /\ i \in Positions'
    BY <1>1, <2>1, ForkMoves, Added DEF Fork
  <2> QED
    BY <1>1, <2>2 DEF Rolled, Between, Positions
<1>4. CASE \E m \in Snaps : Revert(m)
  <2>1. PICK m \in Snaps : Revert(m)
    BY <1>4
  <2>2. Forks(n)' = Forks(n) /\ Reverts(n) \subseteq Reverts(n)' /\ i \in Positions'
    BY <2>1, RevertMoves, Added DEF Revert
  <2> QED
    BY <1>1, <2>2 DEF Rolled, Between, Positions
<1> QED
  BY <1>2, <1>3, <1>4 DEF Next

\* A revert rolls back what lies after the fork, and nothing else.
LEMMA RolledBy ==
  ASSUME Typed, NEW n \in Snaps, Revert(n), NEW i \in Positions
  PROVE  Rolled(i)' <=> (Rolled(i) \/ \E f \in Forks(n) : f < i)
<1>1. /\ \A m \in Snaps : Forks(m)' = Forks(m) /\ (m # n => Reverts(m)' = Reverts(m))
      /\ Reverts(n)' = Reverts(n) \cup {New}
  BY RevertMoves
<1>2. i < New /\ i \in Positions'
  BY FewerThanNew, Added DEF Revert
<1>3. ASSUME NEW m \in Snaps
      PROVE  (i \in Between(m))' <=>
               (i \in Between(m) \/ (m = n /\ \E f \in Forks(n) : f < i))
  BY <1>1, <1>2 DEF Between, Positions
<1> QED
  BY <1>3 DEF Rolled

\* The other steps roll back nothing.
LEMMA RolledByNone ==
  ASSUME Typed, Work \/ \E n \in Snaps : Fork(n), NEW i \in Positions'
  PROVE  /\ i \in Positions => (Rolled(i)' <=> Rolled(i))
         /\ ~ (i \in Positions) => ~ Rolled(i)'
<1>1. \A m \in Snaps : Reverts(m)' = Reverts(m) /\ Reverts(m) \subseteq Positions
  BY WorkMoves, ForkMoves, Places
<1>2. /\ i = New \/ i \in Positions
      /\ \A r \in Positions : r \in Nat /\ r < New
      /\ New \in Nat
  BY Added, FewerThanNew DEF Work, Fork
<1>3. ASSUME NEW m \in Snaps, NEW f \in Forks(m)', i \in Positions, NEW r \in Reverts(m), f < i, i < r
      PROVE  f \in Forks(m)
  <2>1. CASE Work
    BY <2>1, WorkMoves
  <2>2. CASE \E n \in Snaps : Fork(n)
    <3>1. PICK n \in Snaps : Fork(n)
      BY <2>2
    <3>2. m = n => f = New
      BY <3>1, ForkMoves
    <3>3. m # n => f \in Forks(m)
      BY <3>1, ForkMoves
    <3>4. i < New /\ New \in Nat /\ i \in Nat
      BY <1>2, <1>3
    <3> QED
      BY <3>2, <3>3, <3>4, <1>3
  <2> QED
    BY <2>1, <2>2
<1>4. \A m \in Snaps : Forks(m) \subseteq Forks(m)'
  BY WorkMoves, ForkMoves
<1>5. ASSUME i \in Positions, NEW m \in Snaps
      PROVE  (i \in Between(m))' <=> i \in Between(m)
  BY <1>1, <1>3, <1>4, <1>5 DEF Between, Positions
<1>6. ASSUME ~ (i \in Positions), NEW m \in Snaps
      PROVE  ~ (i \in Between(m))'
  <2>1. i = New
    BY <1>2, <1>6
  <2>2. \A r \in Reverts(m)' : r \in Nat /\ r < New
    BY <1>1, <1>2
  <2>3. \A r \in Reverts(m)' : ~ (i < r)
    BY <2>1, <2>2, <1>2
  <2> QED
    BY <2>3 DEF Between
<1> QED
  BY <1>5, <1>6 DEF Rolled

-----------------------------------------------------------------------------
LEMMA TypedInit == Init => Typed
BY DEF Init, Typed, Event, Forks, Positions

LEMMA TypedNext ==
  ASSUME Typed, [Next]_vars
  PROVE  Typed'
<1>1. CASE Work
  <2>1. /\ events' \in Seq(Event) /\ New \in Nat /\ New \in Positions' /\ Positions \subseteq Positions'
    BY <1>1, Added DEF Work
  <2>2. now' = now \cup {New} /\ at' = at /\ straight' = straight
    BY <1>1 DEF Work
  <2>3. \A n \in Snaps : Forks(n)' = Forks(n)
    BY <1>1, WorkMoves
  <2> QED
    BY <2>1, <2>2, <2>3 DEF Typed
<1>2. ASSUME NEW n \in Snaps, Fork(n)
      PROVE  Typed'
  <2>1. /\ events' \in Seq(Event) /\ New \in Nat /\ New \in Positions' /\ Positions \subseteq Positions'
    BY <1>2, Added DEF Fork
  <2>2. now' = now \cup {New} /\ at' = [at EXCEPT ![n] = now'] /\ straight' = straight
    BY <1>2 DEF Fork
  <2>3. /\ \A m \in Snaps : m # n => Forks(m)' = Forks(m)
        /\ Forks(n)' = {New}
    BY <1>2, ForkMoves
  <2>4. now' \subseteq 1 .. New /\ now' \subseteq Nat /\ now' \subseteq Positions'
    BY <2>1, <2>2, FewerThanNew DEF Typed
  <2>5. at' \in [Snaps -> SUBSET Nat] /\ at'[n] = now' /\ \A m \in Snaps : m # n => at'[m] = at[m]
    BY <2>2, <2>4 DEF Typed
  <2>6. \A m \in Snaps : \A f, g \in Forks(m)' : f = g
    BY <2>3 DEF Typed
  <2>7. \A m \in Snaps : \A f \in Forks(m)' : at'[m] \subseteq 1 .. f
    BY <2>3, <2>4, <2>5 DEF Typed
  <2> QED
    BY <2>1, <2>2, <2>4, <2>5, <2>6, <2>7 DEF Typed
<1>3. ASSUME NEW n \in Snaps, Revert(n)
      PROVE  Typed'
  <2>1. /\ events' \in Seq(Event) /\ New \in Positions' /\ Positions \subseteq Positions'
    BY <1>3, Added DEF Revert
  <2>2. /\ now' = at[n] \cup {New} /\ at' = at /\ Forks(n) # {}
        /\ straight' = (straight /\ Forks(n) \subseteq now)
    BY <1>3 DEF Revert
  <2>3. \A m \in Snaps : Forks(m)' = Forks(m)
    BY <1>3, RevertMoves
  <2>4. at[n] \subseteq Positions
    <3>1. PICK f \in Forks(n) : at[n] \subseteq 1 .. f
      BY <2>2 DEF Typed
    <3>2. f \in Positions /\ Positions = 1 .. Len(events) /\ Len(events) \in Nat
      BY Places, FewerThanNew
    <3> QED
      BY <3>1, <3>2
  <2>5. now' \subseteq Positions' /\ straight' \in BOOLEAN
    BY <2>1, <2>2, <2>4
  <2> QED
    BY <2>1, <2>2, <2>3, <2>5 DEF Typed
<1>4. CASE UNCHANGED vars
  BY <1>4 DEF vars, Typed, Forks, Positions
<1> QED
  BY <1>1, <1>2, <1>3, <1>4 DEF Next

-----------------------------------------------------------------------------
LEMMA SeenNext ==
  ASSUME Typed, Seen, [Next]_vars
  PROVE  Seen'
<1>0. \A i \in Works : i \in Positions /\ i \in Nat /\ i < New
  BY FewerThanNew DEF Works, Positions
<1>1. CASE Work
  <2>1. /\ Works' = Works \cup {New} /\ now' = now \cup {New} /\ at' = at
        /\ \A n \in Snaps : Forks(n)' = Forks(n) /\ Forks(n) \subseteq Positions
    BY <1>1, WorkMoves, Places DEF Work
  <2>2. \A i \in Works : Rolled(i) => Rolled(i)'
    BY <1>0, <1>1, RolledStays DEF Next
  <2>3. \A n \in Snaps : \A f \in Forks(n)' : ~ (New < f)
    BY <2>1, FewerThanNew
  <2> QED
    BY <2>1, <2>2, <2>3 DEF Seen
<1>2. ASSUME NEW n \in Snaps, Fork(n)
      PROVE  Seen'
  <2>1. /\ Works' = Works /\ now' = now \cup {New}
        /\ \A m \in Snaps : m # n => Forks(m)' = Forks(m)
    BY <1>2, ForkMoves DEF Fork
  <2>2. at'[n] = now' /\ \A m \in Snaps : m # n => at'[m] = at[m]
    BY <1>2 DEF Fork, Typed
  <2>3. \A i \in Works : Rolled(i) => Rolled(i)'
    BY <1>0, <1>2, RolledStays DEF Next
  <2> QED
    BY <2>1, <2>2, <2>3 DEF Seen
<1>3. ASSUME NEW n \in Snaps, Revert(n)
      PROVE  Seen'
  <2>1. /\ Works' = Works /\ now' = at[n] \cup {New} /\ at' = at /\ Forks(n) # {}
        /\ \A m \in Snaps : Forks(m)' = Forks(m)
    BY <1>3, RevertMoves DEF Revert
  <2>2. ASSUME NEW i \in Works
        PROVE  \/ Rolled(i)'
               \/ /\ i \in now'
                  /\ \A m \in Snaps : \A f \in Forks(m)' : i < f => i \in at'[m]
    <3>1. CASE Rolled(i) \/ \E f \in Forks(n) : f < i
      BY <1>0, <1>3, <3>1, RolledBy
    <3>2. CASE ~ Rolled(i) /\ ~ \E f \in Forks(n) : f < i
      <4>1. i \in now /\ \A m \in Snaps : \A f \in Forks(m) : i < f => i \in at[m]
        BY <3>2 DEF Seen
      <4>2. PICK f \in Forks(n) : TRUE
        BY <2>1
      <4>3. f # i
        BY DEF Forks, Works
      <4>4. f \in Nat /\ i \in Nat /\ ~ (f < i)
        BY <1>0, <3>2, Places, FewerThanNew
      <4>5. i \in at[n]
        BY <4>1, <4>2, <4>3, <4>4
      <4> QED
        BY <2>1, <4>1, <4>5
    <3> QED
      BY <3>1, <3>2
  <2> QED
    BY <2>1, <2>2 DEF Seen
<1>4. CASE UNCHANGED vars
  BY <1>4 DEF vars, Seen, Works, Forks, Rolled, Between, Reverts
<1> QED
  BY <1>1, <1>2, <1>3, <1>4 DEF Next

\* The filter and the workspace agree on every piece of work (_filter_branch).
THEOREM BranchesSeen == Spec => [](Typed /\ Seen)
<1>1. Init => Typed /\ Seen
  BY TypedInit DEF Init, Seen, Works
<1>2. Typed /\ Seen /\ [Next]_vars => (Typed /\ Seen)'
  BY TypedNext, SeenNext
<1> QED
  BY <1>1, <1>2, PTL DEF Spec

\* The view "current" shows no work that the workspace has lost, with any nesting
\* and repetition of forks and reverts, also onto rolled-back branches.
THEOREM NothingRolledBackAlways == Spec => []NothingRolledBack
<1>1. Typed /\ Seen => NothingRolledBack
  BY DEF Seen, NothingRolledBack, Current, Rolled
<1> QED
  BY <1>1, BranchesSeen, PTL

\* As long as reverts go back along the timeline, "current" shows all of it: what a
\* revert keeps is older than the fork, and was never rolled back before.
LEMMA TimelineNext ==
  ASSUME Typed, Timeline, [Next]_vars
  PROVE  Timeline'
<1>0. \A i \in now : i \in Positions /\ i \in Nat /\ i < New
  BY FewerThanNew DEF Typed
<1>a. \A n \in Snaps : \A f \in Forks(n) : f \in Positions /\ f \in Nat /\ f < New
  BY Places, FewerThanNew
<1>1. CASE Work
  <2>1. /\ now' = now \cup {New} /\ at' = at /\ straight' = straight
        /\ \A n \in Snaps : Forks(n)' = Forks(n)
        /\ New \in Positions' /\ New \in Nat /\ New \notin Positions
    BY <1>1, WorkMoves, Added DEF Work
  <2>2. \A i \in now : ~Rolled(i) => ~Rolled(i)'
    BY <1>0, <1>1, RolledByNone, Added DEF Work
  <2>3. \A i : i = New => ~Rolled(i)'
    BY <1>1, <2>1, RolledByNone
  <2>4. ASSUME straight, NEW n \in Snaps, NEW f \in Forks(n)', f \in now'
        PROVE  at'[n] = {i \in now' : i <= f}
    <3>1. f \in Forks(n) /\ f \in now /\ f \in Nat /\ f < New
      BY <1>a, <2>1, <2>4
    <3>2. at[n] = {i \in now : i <= f}
      BY <2>4, <3>1 DEF Timeline
    <3>3. ~ (New <= f)
      BY <3>1, <2>1
    <3> QED
      BY <2>1, <3>2, <3>3
  <2> QED
    BY <2>1, <2>2, <2>3, <2>4 DEF Timeline
<1>2. ASSUME NEW n \in Snaps, Fork(n)
      PROVE  Timeline'
  <2>1. /\ now' = now \cup {New} /\ straight' = straight
        /\ \A m \in Snaps : m # n => Forks(m)' = Forks(m)
        /\ Forks(n)' = {New}
        /\ New \in Positions' /\ New \in Nat /\ New \notin Positions
    BY <1>2, ForkMoves, Added DEF Fork
  <2>2. at'[n] = now' /\ \A m \in Snaps : m # n => at'[m] = at[m]
    BY <1>2 DEF Fork, Typed
  <2>3. \A i \in now : ~Rolled(i) => ~Rolled(i)'
    BY <1>0, <1>2, RolledByNone, Added DEF Fork
  <2>4. \A i : i = New => ~Rolled(i)'
    BY <1>2, <2>1, RolledByNone
  <2>5. ASSUME straight, NEW m \in Snaps, NEW f \in Forks(m)', f \in now', m # n
        PROVE  at'[m] = {i \in now' : i <= f}
    <3>1. f \in Forks(m) /\ f \in now /\ f \in Nat /\ f < New
      BY <1>a, <2>1, <2>5
    <3>2. at[m] = {i \in now : i <= f}
      BY <2>5, <3>1 DEF Timeline
    <3>3. ~ (New <= f)
      BY <3>1, <2>1
    <3> QED
      BY <2>1, <2>2, <2>5, <3>2, <3>3
  <2>6. \A i \in now' : i \in Nat /\ i <= New
    BY <1>0, <2>1
  <2>7. at'[n] = {i \in now' : i <= New}
    BY <2>2, <2>6
  <2> QED
    BY <2>1, <2>3, <2>4, <2>5, <2>7 DEF Timeline
<1>3. ASSUME NEW n \in Snaps, Revert(n)
      PROVE  Timeline'
  <2>1. /\ now' = at[n] \cup {New} /\ at' = at
        /\ straight' = (straight /\ Forks(n) \subseteq now)
        /\ \A m \in Snaps : Forks(m)' = Forks(m)
        /\ New \in Positions' /\ New \in Nat /\ New \notin Positions
    BY <1>3, RevertMoves, Added DEF Revert
  <2> SUFFICES ASSUME straight, Forks(n) \subseteq now
               PROVE  Timeline'
    BY <2>1 DEF Timeline, Typed
  <2>2. PICK f \in Forks(n) : f \in now /\ f \in Nat /\ f < New
    BY <1>3, <1>a DEF Revert
  <2>3. at[n] = {i \in now : i <= f}
    BY <2>2 DEF Timeline
  <2>4. ASSUME NEW i \in at[n]
        PROVE  ~Rolled(i)'
    <3>1. i \in now /\ i <= f /\ i \in Nat /\ i \in Positions
      BY <1>0, <2>3
    <3>2. ~Rolled(i)
      BY <3>1 DEF Timeline
    <3>3. \A g \in Forks(n) : g = f
      BY DEF Typed
    <3>4. \A g \in Forks(n) : ~ (g < i)
      BY <2>2, <3>1, <3>3
    <3> QED
      BY <1>3, <3>1, <3>2, <3>4, RolledBy
  <2>5. \A i : i = New => ~Rolled(i)'
    <3>0. New \in Nat
      BY <2>1
    <3>1. \A m \in Snaps : \A r \in Reverts(m)' : r \in Nat /\ r <= New
      BY <1>3, RevertMoves, Places, FewerThanNew, <2>1
    <3>2. \A m \in Snaps : \A r \in Reverts(m)' : ~ (New < r)
      BY <2>1, <3>1
    <3> QED
      BY <3>2 DEF Rolled, Between
  <2>6. ASSUME NEW m \in Snaps, NEW g \in Forks(m)', g \in now'
        PROVE  at'[m] = {i \in now' : i <= g}
    <3>1. g \in Forks(m) /\ g \in Nat /\ g < New
      BY <1>a, <2>1
    <3>2. g \in at[n]
      BY <2>1, <2>6, <3>1
    <3>3. g \in now /\ g <= f
      BY <2>3, <3>2
    <3>4. at[m] = {i \in now : i <= g}
      BY <3>1, <3>3 DEF Timeline
    <3>5. \A i \in now : i <= g => i <= f
      BY <1>0, <2>2, <3>1, <3>3
    <3>6. ~ (New <= g)
      BY <2>1, <3>1
    <3> QED
      BY <2>1, <2>3, <3>4, <3>5, <3>6
  <2> QED
    BY <2>1, <2>4, <2>5, <2>6 DEF Timeline
<1>4. CASE UNCHANGED vars
  BY <1>4 DEF vars, Timeline, Forks, Rolled, Between, Reverts
<1> QED
  BY <1>1, <1>2, <1>3, <1>4 DEF Next

\* Work that no revert has undone is in the current view, as long as reverts go back along
\* the timeline (_filter_branch, "current").
THEOREM AllOfTimelineAlways == Spec => []AllOfTimeline
<1>1. Init => Timeline
  BY DEF Init, Timeline
<1>2. Typed /\ Timeline /\ [Next]_vars => Timeline'
  BY TimelineNext
<1>3. Typed /\ Seen /\ Timeline => AllOfTimeline
  <2> SUFFICES ASSUME Typed, Seen, Timeline, straight
               PROVE  Current \cap Works = now \cap Works
    BY DEF AllOfTimeline
  <2>1. \A i \in Works : i \in Positions /\ (Rolled(i) \/ i \in now)
    BY DEF Seen, Works, Positions
  <2>2. \A i \in now : ~Rolled(i)
    BY DEF Timeline
  <2> QED
    BY <2>1, <2>2 DEF Current, Rolled, Positions
<1> QED
  BY <1>1, <1>2, <1>3, BranchesSeen, PTL DEF Spec

\* What a revert to a snapshot takes away is in the view of that snapshot, as long as
\* reverts go back along the timeline: all of it was done after the fork.
THEOREM AbandonedIsShownAlways == Spec => AbandonedIsShown
<1>1. Init => Timeline
  BY DEF Init, Timeline
<1>2. Typed /\ Timeline /\ [Next]_vars => Timeline'
  BY TimelineNext
<1>3. ASSUME Typed, Timeline, [Next]_vars
      PROVE  [\A n \in Snaps :
                Revert(n) /\ straight' => (Works \cap now) \ now' \subseteq Branch(n)']_vars
  <2> SUFFICES ASSUME NEW n \in Snaps, Revert(n), straight', NEW i \in now, i \notin now'
               PROVE  i \in Branch(n)'
    OBVIOUS
  <2>1. /\ now' = at[n] \cup {New} /\ straight /\ Forks(n) \subseteq now /\ Forks(n) # {}
        /\ Forks(n)' = Forks(n) /\ New \in Reverts(n)'
    BY <1>3, RevertMoves DEF Revert
  <2>2. PICK f \in Forks(n) : f \in now /\ f \in Nat
    BY <1>3, <2>1, Places, FewerThanNew
  <2>3. at[n] = {j \in now : j <= f}
    BY <1>3, <2>1, <2>2 DEF Timeline
  <2>4. i \in Positions /\ i \in Nat /\ i < New
    BY <1>3, FewerThanNew DEF Typed
  <2>5. f < i
    BY <2>1, <2>2, <2>3, <2>4
  <2>6. i \in Positions'
    BY <1>3, <2>4, Added DEF Revert
  <2>7. (i \in Between(n))'
    BY <2>1, <2>4, <2>5, <2>6 DEF Between, Positions
  <2> QED
    BY <2>1, <2>7 DEF Branch
<1> QED
  BY <1>1, <1>2, <1>3, BranchesSeen, PTL DEF Spec, AbandonedIsShown
=============================================================================
