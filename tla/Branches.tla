------------------------------ MODULE Branches ------------------------------
(***************************************************************************)
(* read_trajectory(branch=...): the events of a session with forks and       *)
(* reverts, the views that _filter_branch (mcp_server.py) computes of them,  *)
(* and the timeline they are views of.                                      *)
(*                                                                          *)
(* Every snapshot of a session can be reverted to, also one taken on a       *)
(* branch that has been rolled back since (Sandbox.revert asks only whether  *)
(* it knows the id).  An event's seq is its index minus one.                 *)
(***************************************************************************)
EXTENDS Naturals, Sequences, FiniteSets

CONSTANTS
  Snaps,      \* snapshots, each forked at most once
  None,       \* the snapshot of an event that has none
  MaxEvents   \* bound: length of the trajectory

ASSUME ConstantsAssumption == None \notin Snaps /\ MaxEvents \in Nat

VARIABLES
  events,   \* the trajectory
  now,      \* history: the events that led to the workspace as it is
  at,       \* history: at[n] is now, when snapshot n was taken
  straight  \* history: no revert went to a snapshot of a rolled-back branch

vars == <<events, now, at, straight>>

Init ==
  /\ events = <<>>
  /\ now = {}
  /\ at = [n \in Snaps |-> {}]
  /\ straight = TRUE

New == Len(events) + 1

Add(t, n) ==
  /\ New <= MaxEvents
  /\ events' = Append(events, [type |-> t, snap |-> n])

Forks(n) == {i \in DOMAIN events : events[i] = [type |-> "forked", snap |-> n]}

Reverts(n) == {i \in DOMAIN events : events[i] = [type |-> "reverted", snap |-> n]}

\* exec, note, an egress attempt
Work ==
  /\ Add("work", None)
  /\ now' = now \cup {New}
  /\ UNCHANGED <<at, straight>>

Fork(n) ==
  /\ Forks(n) = {}
  /\ Add("forked", n)
  /\ now' = now \cup {New}
  /\ at' = [at EXCEPT ![n] = now']
  /\ UNCHANGED straight

Revert(n) ==
  /\ Forks(n) # {}
  /\ Add("reverted", n)
  /\ now' = at[n] \cup {New}
  /\ straight' = (straight /\ Forks(n) \subseteq now)
  /\ UNCHANGED at

Next == Work \/ \E n \in Snaps : Fork(n) \/ Revert(n)

Spec == Init /\ [][Next]_vars

-----------------------------------------------------------------------------
(* _filter_branch *)

\* Broken variant of Between: only the first revert to a snapshot counts.
BetweenFirst(n) ==
  {i \in DOMAIN events :
     (\E f \in Forks(n) : f < i) /\ \E r \in Reverts(n) : \A q \in Reverts(n) : r <= q /\ i < r}

\* Broken variant of Between: a branch that was reverted never ends.
BetweenOpenEnded(n) ==
  {i \in DOMAIN events : Reverts(n) # {} /\ \E f \in Forks(n) : f < i}

\* fork_seq and discarded: strictly after the fork of n and strictly before the
\* last revert to it.
Between(n) ==
  {i \in DOMAIN events : \E f \in Forks(n), r \in Reverts(n) : f < i /\ i < r}

\* branch = "current"
Current == DOMAIN events \ UNION {Between(n) : n \in Snaps}

\* branch = n; nothing if the snapshot is unknown
Branch(n) ==
  IF Reverts(n) # {} THEN Between(n)
  ELSE {i \in DOMAIN events : \E f \in Forks(n) : f < i}

-----------------------------------------------------------------------------
Works == {i \in DOMAIN events : events[i].type = "work"}

\* The view "current" shows no work that the workspace has lost, with any nesting
\* and repetition of forks and reverts.
NothingRolledBack == Current \cap Works \subseteq now

\* As long as reverts go back along the timeline, it shows all the work there is.
AllOfTimeline == straight => Current \cap Works = now \cap Works

\* mcp_server.py:465 "what did I try on the branch I abandoned?": the view of a snapshot
\* shows all the work that a revert to it takes away, each time, as long as reverts go
\* back along the timeline.  (Work of a branch that was taken up again through one of
\* its own snapshots is shown under the snapshot that it was first lost to.)
AbandonedIsShown ==
  [][\A n \in Snaps :
       Revert(n) /\ straight' => (Works \cap now) \ now' \subseteq Branch(n)']_vars
=============================================================================
