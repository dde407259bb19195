---------------------------- MODULE EgressProofs ----------------------------
(***************************************************************************)
(* AnsweredIsLogged and StoppedForGood of Egress, for any number of           *)
(* connections, any hosts and any allowlist.  The first goes connection by   *)
(* connection: what its handler thread has still to do tells whether its     *)
(* attempt is in the log, and nothing that the other threads or the tool     *)
(* handler append is an attempt of this connection.  For the second, what    *)
(* the tool handler has still to do tells what the accepting thread and the  *)
(* socket do.                                                                *)
(***************************************************************************)
EXTENDS Egress, FiniteSetTheorems, SequenceTheorems, TLAPS

Entries == {<<"finish">>} \cup ({"allowed", "denied"} \X Conns)

\* The handler has not called on_attempt yet.
Before == {"none", "queued", "reading", "denied", "dialling", "dialled", "unreachable"}

Connections ==
  [pc : Before \cup {"405", "400", "403", "502", "200", "pump", "over"},
   host : Hosts \cup {<<>>},
   ans : {"none", "405", "400", "403", "502", "200"},
   fwd : SUBSET {"client", "upstream"},
   closed : SUBSET {"client", "upstream"}]

AttemptsIn(l, c) == {i \in DOMAIN l : Len(l[i]) = 2 /\ l[i][2] = c}

\* The log l has an attempt of c that says whether c was denied.
Logged(l, c, denied) == \E i \in AttemptsIn(l, c) : (l[i][1] = "denied") <=> denied

\* What the record r of the connection c and the log l have to do with each other.
Accounted(r, l, c) ==
  /\ r.pc \in Before \cup {"405", "400"} => AttemptsIn(l, c) = {} /\ r.ans = "none"
  /\ r.pc \in {"403", "502", "200"} => r.ans = "none" /\ Logged(l, c, r.pc = "403")
  /\ r.ans \in {"405", "400"} => AttemptsIn(l, c) = {} /\ r.pc = "over"
  /\ r.ans \in {"403", "502", "200"} => Logged(l, c, r.ans = "403")
  /\ r.pc \in {"dialling", "dialled", "200"} \/ r.ans = "200" => Matches(r.host, Allow)
  /\ \E k : AttemptsIn(l, c) \subseteq {k}

EgressInv ==
  /\ log \in Seq(Entries)
  /\ conn \in [Conns -> Connections]
  /\ \A c \in Conns : Accounted(conn[c], log, c)

-----------------------------------------------------------------------------
(* Appending to the log.                                                    *)

LEMMA AppendFacts ==
  ASSUME NEW S, NEW l \in Seq(S), NEW e \in S
  PROVE  /\ Append(l, e) \in Seq(S)
         /\ DOMAIN l = 1 .. Len(l) /\ Len(l) \in Nat
         /\ DOMAIN Append(l, e) = 1 .. Len(l) + 1
         /\ \A i \in 1 .. Len(l) : Append(l, e)[i] = l[i]
         /\ Append(l, e)[Len(l) + 1] = e
BY AppendProperties, LenProperties

\* The verdict is nobody's attempt, and an attempt is that of one connection.
LEMMA AttemptsAfter ==
  ASSUME NEW l \in Seq(Entries), NEW e \in Entries, NEW c
  PROVE  /\ AttemptsIn(Append(l, e), c) =
              IF Len(e) = 2 /\ e[2] = c THEN AttemptsIn(l, c) \cup {Len(l) + 1}
              ELSE AttemptsIn(l, c)
         /\ \A denied \in BOOLEAN : Logged(l, c, denied) => Logged(Append(l, e), c, denied)
<1>1. PICK m : m = Append(l, e)
  OBVIOUS
<1>2. /\ m \in Seq(Entries)
      /\ DOMAIN l = 1 .. Len(l) /\ Len(l) \in Nat
      /\ DOMAIN m = 1 .. Len(l) + 1
      /\ \A i \in 1 .. Len(l) : m[i] = l[i]
      /\ m[Len(l) + 1] = e
  BY <1>1, AppendFacts
<1>3. \A i : i \in DOMAIN m <=> i \in DOMAIN l \/ i = Len(l) + 1
  BY <1>2
<1>4. \A i \in DOMAIN l : m[i] = l[i]
  BY <1>2
<1>5. AttemptsIn(m, c) = IF Len(e) = 2 /\ e[2] = c THEN AttemptsIn(l, c) \cup {Len(l) + 1}
                         ELSE AttemptsIn(l, c)
  <2>1. \A i : i \in AttemptsIn(m, c)
                 <=> i \in AttemptsIn(l, c) \/ (i = Len(l) + 1 /\ Len(e) = 2 /\ e[2] = c)
    BY <1>2, <1>3, <1>4 DEF AttemptsIn
  <2> QED
    BY <2>1
<1>6. \A i \in AttemptsIn(l, c) : i \in AttemptsIn(m, c) /\ m[i] = l[i]
  BY <1>3, <1>4 DEF AttemptsIn
<1> QED
  BY <1>1, <1>5, <1>6 DEF Logged

-----------------------------------------------------------------------------
(* The steps.                                                               *)

LEMMA EgressInit == Init => EgressInv
<1> SUFFICES ASSUME Init PROVE EgressInv
  OBVIOUS
<1>1. log \in Seq(Entries) /\ \A c : AttemptsIn(log, c) = {}
  BY EmptySeq DEF Init, AttemptsIn
<1>2. conn \in [Conns -> Connections]
  BY DEF Init, Blank, Connections, Before
<1>3. ASSUME NEW c \in Conns PROVE Accounted(conn[c], log, c)
  BY <1>1 DEF Init, Blank, Accounted, Before
<1> QED
  BY <1>1, <1>2, <1>3 DEF EgressInv

\* A connection that moves on without an event.
LEMMA QuietStep ==
  ASSUME EgressInv, UNCHANGED log, conn' \in [Conns -> Connections],
         \A c \in Conns :
           \/ /\ conn'[c].pc = conn[c].pc /\ conn'[c].ans = conn[c].ans
              /\ conn'[c].host = conn[c].host
           \/ /\ conn[c].pc \in {"none", "queued"} /\ conn'[c].pc \in {"queued", "over"}
              /\ conn'[c].ans = conn[c].ans
           \/ /\ conn[c].pc \in Before /\ conn'[c].pc \in Before \cup {"405", "400", "over"}
              /\ conn'[c].ans = conn[c].ans /\ conn'[c].host = conn[c].host
              /\ conn'[c].pc \in {"dialling", "dialled"} => Matches(conn[c].host, Allow)
           \/ /\ conn'[c].pc = "over" /\ conn'[c].ans = conn[c].ans
              /\ conn'[c].host = conn[c].host
           \/ /\ conn[c].pc \in {"405", "400", "403", "502", "200"}
              /\ conn'[c].ans = conn[c].pc
              /\ conn'[c].pc = IF conn[c].pc = "200" THEN "pump" ELSE "over"
              /\ conn'[c].host = conn[c].host
  PROVE  EgressInv'
<1>1. ASSUME NEW c \in Conns PROVE Accounted(conn'[c], log, c)
  <2>1. Accounted(conn[c], log, c)
    BY DEF EgressInv
  <2> QED
    BY <2>1 DEF Accounted, Before
<1> QED
  BY <1>1 DEF EgressInv

\* A record of a connection with one field changed.
LEMMA ConnType ==
  ASSUME conn \in [Conns -> Connections], NEW c \in Conns
  PROVE  /\ \A p \in Before \cup {"405", "400", "403", "502", "200", "pump", "over"} :
              [conn EXCEPT ![c].pc = p] \in [Conns -> Connections]
         /\ \A s \in SUBSET {"client", "upstream"} :
              /\ [conn EXCEPT ![c].closed = s] \in [Conns -> Connections]
              /\ [conn EXCEPT ![c].fwd = s] \in [Conns -> Connections]
BY DEF Connections

\* A connection whose handler goes to its next step, or ends.
LEMMA GoesStep ==
  ASSUME EgressInv, NEW c \in Conns, NEW to \in Before \cup {"405", "400", "over"},
         UNCHANGED log,
         conn' = [conn EXCEPT ![c].pc = to],
         to = "over" \/ conn[c].pc \in Before,
         to \in {"dialling", "dialled"} => Matches(conn[c].host, Allow)
  PROVE  EgressInv'
<1>1. conn \in [Conns -> Connections] /\ conn' \in [Conns -> Connections]
  BY ConnType DEF EgressInv
<1>2. /\ conn'[c].pc = to /\ conn'[c].ans = conn[c].ans /\ conn'[c].host = conn[c].host
      /\ \A d \in Conns : d # c => conn'[d] = conn[d]
  BY <1>1 DEF Connections
<1>3. \A d \in Conns : Accounted(conn'[d], log, d)
  BY <1>2 DEF EgressInv, Accounted, Before
<1> QED
  BY <1>1, <1>3 DEF EgressInv

\* The steps of a handler thread, of the accepting thread for it, and of both sides
\* of its connection that log nothing.
LEMMA ConnStep ==
  ASSUME EgressInv, NEW c \in Conns,
         \/ Connect(c) \/ HangUp(c) \/ Accept(c) \/ GiveUp(c) \/ Reject(c) \/ Decide(c)
         \/ Dial(c) \/ Reply(c) \/ PumpEnds(c)
         \/ \E src \in {"client", "upstream"} : ForwardEnds(c, src) \/ SendFails(c, src)
  PROVE  EgressInv'
<1>1. conn \in [Conns -> Connections] /\ Accounted(conn[c], log, c)
  BY DEF EgressInv
<1>2. CASE Connect(c)
  <2>1. PICK h \in Hosts : conn' = [conn EXCEPT ![c].pc = "queued", ![c].host = h]
    BY <1>2 DEF Connect
  <2>2. conn' \in [Conns -> Connections]
    <3>1. [conn[c] EXCEPT !.pc = "queued", !.host = h] \in Connections
      BY <1>1 DEF Connections, Before
    <3>2. conn' = [conn EXCEPT ![c] = [conn[c] EXCEPT !.pc = "queued", !.host = h]]
      BY <2>1
    <3> QED
      BY <1>1, <3>1, <3>2
  <2>3. UNCHANGED log /\ conn[c].pc = "none"
    BY <1>2 DEF Connect
  <2>4. \A d \in Conns :
          IF d = c THEN conn'[d].pc = "queued" /\ conn'[d].ans = conn[d].ans
                   ELSE conn'[d] = conn[d]
    BY <1>1, <2>1 DEF Connections
  <2> QED
    BY <2>2, <2>3, <2>4, QuietStep
<1>3. CASE HangUp(c)
  <2>1. PICK s \in SUBSET {"client", "upstream"} : conn' = [conn EXCEPT ![c].closed = s]
    BY <1>1, <1>3 DEF HangUp, Connections
  <2>2. \A d \in Conns :
          /\ conn'[d].pc = conn[d].pc /\ conn'[d].ans = conn[d].ans
          /\ conn'[d].host = conn[d].host
    BY <1>1, <2>1 DEF Connections
  <2>3. conn' \in [Conns -> Connections] /\ UNCHANGED log
    BY <1>1, <1>3, <2>1, ConnType DEF HangUp
  <2> QED
    BY <2>2, <2>3, QuietStep
<1>4. CASE Accept(c)
  BY <1>4, GoesStep DEF Accept, Goes, Before
<1>5. CASE GiveUp(c)
  BY <1>5, GoesStep DEF GiveUp, Goes
<1>11. CASE Reject(c)
  <2>1. PICK answer \in {"405", "400"} : Goes(c, {"reading"}, answer)
    BY <1>11 DEF Reject
  <2>2. UNCHANGED log
    BY <1>11 DEF Reject
  <2> QED
    BY <2>1, <2>2, GoesStep DEF Goes, Before
<1>6. CASE Decide(c)
  <2>1. PICK p \in {"dialling", "denied"} :
          /\ conn' = [conn EXCEPT ![c].pc = p]
          /\ p = "dialling" => Matches(conn[c].host, Allow)
    BY <1>6 DEF Decide, Goes
  <2>2. p \in Before /\ conn[c].pc \in Before /\ UNCHANGED log
    BY <1>6 DEF Decide, Goes, Before
  <2> QED
    BY <2>1, <2>2, GoesStep
<1>7. CASE Dial(c)
  <2>1. PICK to \in {"dialled", "unreachable", "over"} : Goes(c, {"dialling"}, to)
    BY <1>7 DEF Dial
  <2>2. UNCHANGED log
    BY <1>7 DEF Dial
  <2>3. Matches(conn[c].host, Allow)
    BY <1>1, <2>1 DEF Goes, Accounted
  <2> QED
    BY <2>1, <2>2, <2>3, GoesStep DEF Goes, Before
<1>8. CASE Reply(c)
  <2>1. conn' \in [Conns -> Connections]
    BY <1>1, <1>8 DEF Reply, Connections, Before
  <2> QED
    BY <1>1, <1>8, <2>1, QuietStep DEF Reply, Connections, Before
<1>9. CASE PumpEnds(c)
  BY <1>9, GoesStep DEF PumpEnds, Goes
<1>10. ASSUME NEW src \in {"client", "upstream"}, ForwardEnds(c, src) \/ SendFails(c, src)
       PROVE  EgressInv'
  <2>1. PICK s \in SUBSET {"client", "upstream"} : conn' = [conn EXCEPT ![c].fwd = s]
    BY <1>1, <1>10 DEF ForwardEnds, SendFails, Connections
  <2>2. conn' \in [Conns -> Connections]
    BY <1>1, <2>1, ConnType
  <2>3. \A d \in Conns :
          /\ conn'[d].pc = conn[d].pc /\ conn'[d].ans = conn[d].ans
          /\ conn'[d].host = conn[d].host
    BY <1>1, <2>1 DEF Connections
  <2>4. UNCHANGED log
    BY <1>10 DEF ForwardEnds, SendFails
  <2> QED
    BY <2>2, <2>3, <2>4, QuietStep
<1> QED
  BY <1>2, <1>3, <1>4, <1>5, <1>6, <1>7, <1>8, <1>9, <1>10, <1>11

\* The steps of the tool handler and of the accepting thread.
LEMMA OwnerStep ==
  ASSUME EgressInv, Owner \/ LoopStarts \/ LoopEnds
  PROVE  EgressInv'
<1>1. conn \in [Conns -> Connections] /\ log \in Seq(Entries)
  BY DEF EgressInv
<1>2. CASE Verdict
  <2>1. <<"finish">> \in Entries /\ Len(<<"finish">>) # 2
    BY DEF Entries
  <2>2. log' \in Seq(Entries)
    BY <1>1, <1>2, <2>1, AppendFacts DEF Verdict
  <2>3. ASSUME NEW c \in Conns PROVE Accounted(conn[c], log', c)
    <3>1. AttemptsIn(log', c) = AttemptsIn(log, c)
      BY <1>1, <1>2, <2>1, AttemptsAfter DEF Verdict
    <3>2. \A denied \in BOOLEAN : Logged(log, c, denied) => Logged(log', c, denied)
      BY <1>1, <1>2, <2>1, AttemptsAfter DEF Verdict
    <3> QED
      BY <3>1, <3>2 DEF EgressInv, Accounted
  <2> QED
    BY <1>1, <1>2, <2>2, <2>3 DEF Verdict, EgressInv
<1>3. CASE StopBox \/ StopRaises
  <2>0. \/ conn' = [c \in Conns |-> [conn[c] EXCEPT !.closed = @ \cup {"client"}]]
        \/ UNCHANGED conn
    BY <1>3 DEF StopBox, StopRaises
  <2>1. conn' \in [Conns -> Connections]
    <3>1. ASSUME NEW c \in Conns
          PROVE  [conn[c] EXCEPT !.closed = @ \cup {"client"}] \in Connections
      BY <1>1 DEF Connections
    <3> QED
      BY <1>1, <2>0, <3>1
  <2>2. \A c \in Conns : /\ conn'[c].pc = conn[c].pc /\ conn'[c].ans = conn[c].ans
                         /\ conn'[c].host = conn[c].host
    BY <1>1, <2>0 DEF Connections
  <2> QED
    BY <1>3, <2>1, <2>2, QuietStep DEF StopBox, StopRaises
<1>4. CASE Unbind
  <2>1. conn' \in [Conns -> Connections]
    <3>1. ASSUME NEW c \in Conns
          PROVE  [conn[c] EXCEPT !.pc = "over"] \in Connections
      BY <1>1 DEF Connections
    <3> QED
      BY <1>1, <1>4, <3>1 DEF Unbind
  <2>2. \A c \in Conns :
          \/ conn'[c] = conn[c]
          \/ conn[c].pc = "queued" /\ conn'[c].pc = "over" /\ conn'[c].ans = conn[c].ans
    BY <1>1, <1>4 DEF Unbind, Connections
  <2> QED
    BY <1>4, <2>1, <2>2, QuietStep DEF Unbind
<1>5. CASE UNCHANGED <<log, conn>>
  BY <1>5 DEF EgressInv
<1> QED
  BY <1>2, <1>3, <1>4, <1>5
     DEF Owner, Start, Create, Setup, End, Ask, Await, Close, LoopStarts, LoopEnds

\* on_attempt: the one event of the connection, if the writer is still open.
LEMMA AttemptStep ==
  ASSUME EgressInv, NEW c \in Conns, OnAttempt(c)
  PROVE  EgressInv'
<1>1. /\ conn \in [Conns -> Connections] /\ log \in Seq(Entries)
      /\ AttemptsIn(log, c) = {} /\ conn[c].ans = "none"
      /\ conn[c].pc = "dialled" => Matches(conn[c].host, Allow)
  BY DEF OnAttempt, EgressInv, Accounted, Before
<1>2. PICK kind \in {"allowed", "denied"}, answer \in {"403", "502", "200"} :
        /\ Report(c, kind, answer)
        /\ kind = "denied" <=> answer = "403"
        /\ answer = "200" => conn[c].pc = "dialled"
        /\ conn[c].pc \in Before
  BY DEF OnAttempt, Before
<1>3. CASE writer # "open"
  BY <1>2, <1>3, GoesStep DEF Report
<1>4. CASE writer = "open"
  <2>1. /\ conn' = [conn EXCEPT ![c].pc = answer]
        /\ log' = Append(log, <<kind, c>>)
    BY <1>2, <1>4 DEF Report
  <2>2. /\ <<kind, c>> \in Entries /\ Len(<<kind, c>>) = 2
        /\ <<kind, c>>[1] = kind /\ <<kind, c>>[2] = c
    BY DEF Entries
  <2>3. conn' \in [Conns -> Connections] /\ log' \in Seq(Entries)
    BY <1>1, <2>1, <2>2, ConnType, AppendFacts
  <2>4. ASSUME NEW d \in Conns, d # c PROVE Accounted(conn'[d], log', d)
    <3>1. conn'[d] = conn[d]
      BY <1>1, <2>1, <2>4
    <3>2. AttemptsIn(log', d) = AttemptsIn(log, d)
      BY <1>1, <2>1, <2>2, <2>4, AttemptsAfter
    <3>3. \A denied \in BOOLEAN : Logged(log, d, denied) => Logged(log', d, denied)
      BY <1>1, <2>1, <2>2, AttemptsAfter
    <3> QED
      BY <3>1, <3>2, <3>3 DEF EgressInv, Accounted
  <2>5. Accounted(conn'[c], log', c)
    <3>1. AttemptsIn(log', c) = {Len(log) + 1}
      BY <1>1, <2>1, <2>2, AttemptsAfter
    <3>2. log'[Len(log) + 1] = <<kind, c>>
      BY <1>1, <2>1, <2>2, AppendFacts
    <3>3. Logged(log', c, answer = "403")
      BY <1>2, <2>2, <3>1, <3>2 DEF Logged
    <3>4. /\ conn'[c].pc = answer /\ conn'[c].ans = "none"
          /\ conn'[c].host = conn[c].host
      BY <1>1, <2>1 DEF Connections
    <3> QED
      BY <1>1, <1>2, <3>1, <3>3, <3>4 DEF Accounted, Before
  <2> QED
    BY <2>3, <2>4, <2>5 DEF EgressInv
<1> QED
  BY <1>3, <1>4

LEMMA EgressStep ==
  ASSUME EgressInv, [Next]_vars
  PROVE  EgressInv'
<1>1. CASE UNCHANGED vars
  BY <1>1 DEF vars, EgressInv
<1> QED
  BY <1>1, OwnerStep, ConnStep, AttemptStep DEF Next, Handle

\* The inductive invariant: each connection's place in its handler tells what is logged.
THEOREM EgressInvariant == Spec => []EgressInv
BY EgressInit, EgressStep, PTL DEF Spec

\* A strict suffix of a name is the end of it.
LEMMA SuffixIsEnd ==
  ASSUME NEW h \in Seq(STRING), NEW a \in Seq(STRING), IsStrictSuffix(a, h)
  PROVE  SubSeq(h, Len(h) - Len(a) + 1, Len(h)) = a
<1>1. Len(h) \in Nat /\ Len(a) \in Nat
  BY LenProperties
<1>2. PICK rh, ra : rh = Reverse(h) /\ ra = Reverse(a)
  OBVIOUS
<1>3. /\ rh = [i \in 1 .. Len(h) |-> h[(Len(h) - i) + 1]]
      /\ ra = [i \in 1 .. Len(a) |-> a[(Len(a) - i) + 1]]
  BY <1>2 DEF Reverse
<1>4. Len(rh) = Len(h) /\ Len(ra) = Len(a)
  BY <1>1, <1>3
<1>5. Len(a) <= Len(h) /\ SubSeq(ra, 1, Len(a)) = SubSeq(rh, 1, Len(a))
  BY <1>2, <1>4 DEF IsStrictSuffix, IsSuffix, IsPrefix
<1>6. \A i \in 1 .. Len(a) : ra[i] = rh[i]
  BY <1>1, <1>4, <1>5
<1>7. \A k \in 1 .. Len(a) : a[k] = h[Len(h) - Len(a) + k]
  <2> TAKE k \in 1 .. Len(a)
  <2>1. (Len(a) - k) + 1 \in 1 .. Len(a) /\ (Len(a) - k) + 1 \in 1 .. Len(h)
    BY <1>1, <1>5
  <2>2. ra[(Len(a) - k) + 1] = a[k] /\ rh[(Len(a) - k) + 1] = h[Len(h) - Len(a) + k]
    BY <1>1, <1>3, <2>1
  <2> QED
    BY <1>6, <2>1, <2>2
<1> QED
  BY <1>1, <1>5, <1>7

\* A CONNECT with a port: whoever got an answer finds one event that says what happened,
\* and a tunnel leads to a host of the allowlist, in any order of the handler threads,
\* the verdict and the end of the writer; the answers 405 and 400 have no event.
THEOREM AnsweredIsLoggedAlways == Spec => []AnsweredIsLogged
<1>1. EgressInv => AnsweredIsLogged
  <2> SUFFICES ASSUME EgressInv, NEW c \in Conns
               PROVE  /\ Cardinality(Attempts(c)) <= 1
                      /\ conn[c].ans \in {"403", "502", "200"} =>
                           \E i \in Attempts(c) : (log[i][1] = "denied") = (conn[c].ans = "403")
                      /\ conn[c].ans \in {"405", "400"} => Attempts(c) = {}
                      /\ conn[c].ans = "200" =>
                           \E a \in Allow :
                             SubSeq(conn[c].host, Len(conn[c].host) - Len(a) + 1,
                                    Len(conn[c].host)) = a
    BY DEF AnsweredIsLogged
  <2>1. Attempts(c) = AttemptsIn(log, c) /\ Accounted(conn[c], log, c)
    BY DEF Attempts, AttemptsIn, EgressInv
  <2>2. Cardinality(Attempts(c)) <= 1
    <3>1. PICK k : Attempts(c) \subseteq {k}
      BY <2>1 DEF Accounted
    <3>2. Attempts(c) = {} \/ Attempts(c) = {k}
      BY <3>1
    <3>3. Cardinality({}) = 0
      BY FS_EmptySet
    <3>4. Cardinality({k}) = 1
      BY FS_Singleton
    <3>5. Cardinality(Attempts(c)) \in {0, 1}
      BY <3>2, <3>3, <3>4
    <3> QED
      BY <3>5
  <2>3. conn[c].ans \in {"403", "502", "200"} =>
          \E i \in Attempts(c) : (log[i][1] = "denied") = (conn[c].ans = "403")
    BY <2>1 DEF Accounted, Logged
  <2>5. conn[c].ans \in {"405", "400"} => Attempts(c) = {}
    BY <2>1 DEF Accounted
  <2>4. ASSUME conn[c].ans = "200"
        PROVE  \E a \in Allow :
                 SubSeq(conn[c].host, Len(conn[c].host) - Len(a) + 1, Len(conn[c].host)) = a
    <3>1. PICK a \in Allow : conn[c].host = a \/ IsStrictSuffix(a, conn[c].host)
      BY <2>1, <2>4 DEF Accounted, Matches
    <3>2. a \in Seq(STRING) /\ conn[c].host \in Seq(STRING)
      BY EgressAssumption, EmptySeq DEF EgressInv, Connections
    <3>3. CASE conn[c].host = a
      <4>1. SubSeq(a, 1, Len(a)) = a
        BY <3>2
      <4>2. Len(a) - Len(a) + 1 = 1
        BY <3>2, LenProperties
      <4> QED
        BY <3>3, <4>1, <4>2
    <3>4. CASE IsStrictSuffix(a, conn[c].host)
      BY <3>2, <3>4, SuffixIsEnd
    <3> QED
      BY <3>1, <3>3, <3>4
  <2> QED
    BY <2>2, <2>3, <2>4, <2>5
<1> QED
  BY <1>1, EgressInvariant, PTL

-----------------------------------------------------------------------------
(* How far stop() is.                                                       *)

\* What the tool handler has still to do: before shutdown() is called, from there
\* on, while it waits, before server_close(), and after it.
Leading ==
  {<<"create">>, <<"setup">>, <<"live">>, Left,
   Finish, <<"box", "ask", "await", "unbind", "close">>,
   SetupFailed, <<"close", "box", "ask", "await", "unbind">>,
   <<"box", "ask", "await", "unbind">>}
Asking == {StopProxy, <<"ask", "await", "unbind", "close">>, StartFailed}
Awaiting == {<<"await", "unbind">>, <<"await", "unbind", "close">>,
             <<"await", "unbind", "finish", "close">>}
Unbinding == {<<"unbind">>, <<"unbind", "close">>, <<"unbind", "finish", "close">>}
Ended == {<<>>, <<"close">>, <<"finish", "close">>}

\* Where the tool handler is tells what the accepting thread and the socket do.
StopInv ==
  \/ todo = <<"start", "create">> /\ loop = "unborn" /\ ~bound /\ ~asked
  \/ todo \in Leading \cup Asking /\ loop \in {"spawned", "serving"} /\ bound /\ ~asked
  \/ /\ todo \in Awaiting /\ bound
     /\ (loop \in {"spawned", "serving"} /\ asked) \/ (loop = "ended" /\ ~asked)
  \/ todo \in Unbinding /\ loop = "ended" /\ bound /\ ~asked
  \/ /\ todo \in Ended /\ loop = "ended" /\ ~bound /\ ~asked
     /\ \A c \in Conns : conn[c].pc # "queued"

\* A sequence that begins with s and goes on with t.
LEMMA Joined ==
  ASSUME NEW S, NEW s \in Seq(S), NEW t \in Seq(S), NEW u \in Seq(S),
         Len(u) = Len(s) + Len(t),
         \A i \in 1 .. Len(s) : u[i] = s[i],
         \A i \in 1 .. Len(t) : u[Len(s) + i] = t[i]
  PROVE  s \o t = u
<1>1. Len(s) \in Nat /\ Len(t) \in Nat
  BY LenProperties
<1>2. PICK v : v = s \o t
  OBVIOUS
<1>3. /\ v \in Seq(S) /\ Len(v) = Len(s) + Len(t)
      /\ \A i \in 1 .. Len(s) + Len(t) : v[i] = IF i <= Len(s) THEN s[i] ELSE t[i - Len(s)]
  BY <1>2, ConcatProperties
<1>4. ASSUME NEW i \in 1 .. Len(v)
      PROVE  v[i] = u[i]
  <2>1. CASE i <= Len(s)
    BY <1>1, <1>3, <2>1
  <2>2. CASE i > Len(s)
    <3>1. i - Len(s) \in 1 .. Len(t) /\ Len(s) + (i - Len(s)) = i /\ v[i] = t[i - Len(s)]
      BY <1>1, <1>3, <2>2
    <3>2. u[Len(s) + (i - Len(s))] = t[i - Len(s)]
      BY <3>1
    <3> QED
      BY <3>1, <3>2
  <2> QED
    BY <1>1, <1>3, <2>1, <2>2
<1>5. v = u
  BY <1>1, <1>3, <1>4, SeqEqual
<1> QED
  BY <1>2, <1>5

Words == {"ask", "await", "unbind", "finish", "box", "close"}

\* The plans, written out.
LEMMA Plans ==
  /\ Finish = <<"finish", "box", "ask", "await", "unbind", "close">>
  /\ SetupFailed = <<"finish", "close", "box", "ask", "await", "unbind">>
  /\ StartFailed = <<"ask", "await", "unbind", "finish", "close">>
<1>1. <<"finish", "box">> \o <<"ask", "await", "unbind">>
        = <<"finish", "box", "ask", "await", "unbind">>
  <2> DEFINE s == <<"finish", "box">>
             t == <<"ask", "await", "unbind">>
             u == <<"finish", "box", "ask", "await", "unbind">>
  <2>1. s \in Seq(Words) /\ t \in Seq(Words) /\ u \in Seq(Words)
    BY DEF Words
  <2>2. Len(s) = 2 /\ Len(t) = 3 /\ Len(u) = 5
    OBVIOUS
  <2>3. (\A i \in 1 .. 2 : u[i] = s[i]) /\ \A i \in 1 .. 3 : u[2 + i] = t[i]
    OBVIOUS
  <2> HIDE DEF s, t, u
  <2>4. /\ Len(u) = Len(s) + Len(t)
        /\ \A i \in 1 .. Len(s) : u[i] = s[i]
        /\ \A i \in 1 .. Len(t) : u[Len(s) + i] = t[i]
    BY <2>2, <2>3
  <2>5. s \o t = u
    BY <2>1, <2>4, Joined
  <2> QED
    BY <2>5 DEF s, t, u
<1>2. <<"finish", "box", "ask", "await", "unbind">> \o <<"close">>
        = <<"finish", "box", "ask", "await", "unbind", "close">>
  <2> DEFINE s == <<"finish", "box", "ask", "await", "unbind">>
             t == <<"close">>
             u == <<"finish", "box", "ask", "await", "unbind", "close">>
  <2>1. s \in Seq(Words) /\ t \in Seq(Words) /\ u \in Seq(Words)
    BY DEF Words
  <2>2. Len(s) = 5 /\ Len(t) = 1 /\ Len(u) = 6
    OBVIOUS
  <2>3. (\A i \in 1 .. 5 : u[i] = s[i]) /\ \A i \in 1 .. 1 : u[5 + i] = t[i]
    OBVIOUS
  <2> HIDE DEF s, t, u
  <2>4. /\ Len(u) = Len(s) + Len(t)
        /\ \A i \in 1 .. Len(s) : u[i] = s[i]
        /\ \A i \in 1 .. Len(t) : u[Len(s) + i] = t[i]
    BY <2>2, <2>3
  <2>5. s \o t = u
    BY <2>1, <2>4, Joined
  <2> QED
    BY <2>5 DEF s, t, u
<1>3. <<"finish", "close", "box">> \o <<"ask", "await", "unbind">>
        = <<"finish", "close", "box", "ask", "await", "unbind">>
  <2> DEFINE s == <<"finish", "close", "box">>
             t == <<"ask", "await", "unbind">>
             u == <<"finish", "close", "box", "ask", "await", "unbind">>
  <2>1. s \in Seq(Words) /\ t \in Seq(Words) /\ u \in Seq(Words)
    BY DEF Words
  <2>2. Len(s) = 3 /\ Len(t) = 3 /\ Len(u) = 6
    OBVIOUS
  <2>3. (\A i \in 1 .. 3 : u[i] = s[i]) /\ \A i \in 1 .. 3 : u[3 + i] = t[i]
    OBVIOUS
  <2> HIDE DEF s, t, u
  <2>4. /\ Len(u) = Len(s) + Len(t)
        /\ \A i \in 1 .. Len(s) : u[i] = s[i]
        /\ \A i \in 1 .. Len(t) : u[Len(s) + i] = t[i]
    BY <2>2, <2>3
  <2>5. s \o t = u
    BY <2>1, <2>4, Joined
  <2> QED
    BY <2>5 DEF s, t, u
<1>4. <<"ask", "await", "unbind">> \o <<"finish", "close">>
        = <<"ask", "await", "unbind", "finish", "close">>
  <2> DEFINE s == <<"ask", "await", "unbind">>
             t == <<"finish", "close">>
             u == <<"ask", "await", "unbind", "finish", "close">>
  <2>1. s \in Seq(Words) /\ t \in Seq(Words) /\ u \in Seq(Words)
    BY DEF Words
  <2>2. Len(s) = 3 /\ Len(t) = 2 /\ Len(u) = 5
    OBVIOUS
  <2>3. (\A i \in 1 .. 3 : u[i] = s[i]) /\ \A i \in 1 .. 2 : u[3 + i] = t[i]
    OBVIOUS
  <2> HIDE DEF s, t, u
  <2>4. /\ Len(u) = Len(s) + Len(t)
        /\ \A i \in 1 .. Len(s) : u[i] = s[i]
        /\ \A i \in 1 .. Len(t) : u[Len(s) + i] = t[i]
    BY <2>2, <2>3
  <2>5. s \o t = u
    BY <2>1, <2>4, Joined
  <2> QED
    BY <2>5 DEF s, t, u
<1> QED
  BY <1>1, <1>2, <1>3, <1>4 DEF Finish, SetupFailed, StartFailed, StopProxy

\* What comes after the next step.
LEMMA Leads ==
  /\ Head(<<"start", "create">>) = "start" /\ Tail(<<"start", "create">>) = <<"create">>
  /\ \A t \in Leading :
       /\ Head(t) \notin {"start", "ask", "await", "unbind"}
       /\ Head(t) \in {"finish", "box", "close"} => Tail(t) \in Leading \cup Asking
  /\ \A t \in Asking : Head(t) = "ask" /\ Tail(t) \in Awaiting
  /\ \A t \in Awaiting : Head(t) = "await" /\ Tail(t) \in Unbinding
  /\ \A t \in Unbinding : Head(t) = "unbind" /\ Tail(t) \in Ended
  /\ \A t \in Ended : t # <<>> => Head(t) \in {"finish", "close"} /\ Tail(t) \in Ended
<1>1. Head(<<"start", "create">>) = "start" /\ Tail(<<"start", "create">>) = <<"create">>
  OBVIOUS
<1>2. ASSUME NEW t \in Leading
      PROVE  /\ Head(t) \notin {"start", "ask", "await", "unbind"}
             /\ Head(t) \in {"finish", "box", "close"} => Tail(t) \in Leading \cup Asking
  <2>1. CASE t \in {<<"create">>, <<"setup">>, <<"live">>, <<"left">>}
    BY <2>1
  <2>2. CASE t = Finish
    BY <2>2, Plans DEF Leading
  <2>3. CASE t = SetupFailed
    BY <2>3, Plans DEF Leading
  <2>4. CASE t = <<"close", "box", "ask", "await", "unbind">>
    BY <2>4 DEF Leading
  <2>5. CASE t = <<"box", "ask", "await", "unbind", "close">>
    BY <2>5 DEF Asking
  <2>6. CASE t = <<"box", "ask", "await", "unbind">>
    BY <2>6 DEF Asking, StopProxy
  <2> QED
    BY <1>2, <2>1, <2>2, <2>3, <2>4, <2>5, <2>6 DEF Leading, Left
<1>3. ASSUME NEW t \in Asking
      PROVE  Head(t) = "ask" /\ Tail(t) \in Awaiting
  <2>1. CASE t = <<"ask", "await", "unbind">>
    BY <2>1 DEF Awaiting
  <2>2. CASE t = <<"ask", "await", "unbind", "close">>
    BY <2>2 DEF Awaiting
  <2>3. CASE t = <<"ask", "await", "unbind", "finish", "close">>
    BY <2>3 DEF Awaiting
  <2> QED
    BY <1>3, <2>1, <2>2, <2>3, Plans DEF Asking, StopProxy
<1>4. ASSUME NEW t \in Awaiting
      PROVE  Head(t) = "await" /\ Tail(t) \in Unbinding
  <2>1. CASE t = <<"await", "unbind">>
    BY <2>1 DEF Unbinding
  <2>2. CASE t = <<"await", "unbind", "close">>
    BY <2>2 DEF Unbinding
  <2>3. CASE t = <<"await", "unbind", "finish", "close">>
    BY <2>3 DEF Unbinding
  <2> QED
    BY <1>4, <2>1, <2>2, <2>3 DEF Awaiting
<1>5. ASSUME NEW t \in Unbinding
      PROVE  Head(t) = "unbind" /\ Tail(t) \in Ended
  <2>1. CASE t = <<"unbind">>
    BY <2>1 DEF Ended
  <2>2. CASE t = <<"unbind", "close">>
    BY <2>2 DEF Ended
  <2>3. CASE t = <<"unbind", "finish", "close">>
    BY <2>3 DEF Ended
  <2> QED
    BY <1>5, <2>1, <2>2, <2>3 DEF Unbinding
<1>6. ASSUME NEW t \in Ended, t # <<>>
      PROVE  Head(t) \in {"finish", "close"} /\ Tail(t) \in Ended
  <2>1. CASE t = <<"close">>
    BY <2>1 DEF Ended
  <2>2. CASE t = <<"finish", "close">>
    BY <2>2 DEF Ended
  <2> QED
    BY <1>6, <2>1, <2>2 DEF Ended
<1> QED
  BY <1>1, <1>2, <1>3, <1>4, <1>5, <1>6

LEMMA StopInit == Init => StopInv
BY DEF Init, StopInv

\* The steps that let the tool handler, the accepting thread and the socket be, and
\* make no connection wait that did not.
LEMMA ConnKeeps ==
  ASSUME StopInv, UNCHANGED <<todo, loop, bound, asked>>,
         ~bound => \A c \in Conns : conn[c].pc # "queued" => conn'[c].pc # "queued"
  PROVE  StopInv'
BY DEF StopInv

\* Once the socket is closed no connection gets into its queue.
LEMMA NotQueued ==
  ASSUME EgressInv, NEW c \in Conns, ~bound,
         \/ Connect(c) \/ HangUp(c) \/ Accept(c) \/ Handle(c)
         \/ \E src \in {"client", "upstream"} : SendFails(c, src),
         NEW d \in Conns, conn[d].pc # "queued"
  PROVE  conn'[d].pc # "queued"
<1>1. conn \in [Conns -> Connections] /\ conn[c] \in Connections
  BY DEF EgressInv
<1>2. CASE HangUp(c)
  BY <1>1, <1>2 DEF HangUp, Connections
<1>3. CASE Connect(c) \/ Accept(c)
  BY <1>3 DEF Connect, Accept
<1>4. CASE GiveUp(c) \/ Reject(c) \/ Decide(c) \/ Dial(c) \/ PumpEnds(c)
  BY <1>1, <1>4 DEF GiveUp, Reject, Decide, Dial, PumpEnds, Goes, Connections
<1>5. CASE OnAttempt(c)
  BY <1>1, <1>5 DEF OnAttempt, Report, Connections
<1>6. CASE Reply(c)
  BY <1>1, <1>6 DEF Reply, Connections
<1>7. ASSUME NEW src \in {"client", "upstream"}, ForwardEnds(c, src) \/ SendFails(c, src)
      PROVE  conn'[d].pc # "queued"
  BY <1>1, <1>7 DEF ForwardEnds, SendFails, Connections
<1> QED
  BY <1>2, <1>3, <1>4, <1>5, <1>6, <1>7 DEF Handle

\* The tool handler, which starts and stops the proxy, keeps the order of the shutdown.
LEMMA StopOwner ==
  ASSUME EgressInv, StopInv, Owner
  PROVE  StopInv'
<1>1. CASE Start
  <2>1. todo = <<"start", "create">>
    BY <1>1, Leads DEF Start, Does, StopInv
  <2>2. todo' = <<"create">> /\ loop' = "spawned" /\ bound' /\ ~asked'
    BY <1>1, <2>1, Leads DEF Start, Does, StopInv
  <2>3. todo' \in Leading
    BY <2>2 DEF Leading
  <2> QED
    BY <2>2, <2>3 DEF StopInv
<1>2. CASE Create \/ Setup \/ End
  <2>1. todo' \in Leading \cup Asking
    <3>1. CASE Create
      BY <3>1 DEF Create, Leading, Asking
    <3>2. CASE Setup
      BY <3>2 DEF Setup, Leading
    <3>3. CASE End
      <4>1. Tail(Finish) = <<"box", "ask", "await", "unbind", "close">>
        BY Plans
      <4> QED
        BY <3>3, <4>1 DEF End, Leading
    <3> QED
      BY <1>2, <3>1, <3>2, <3>3
  <2>2. todo \in {<<"create">>, <<"setup">>, <<"live">>}
    BY <1>2 DEF Create, Setup, End
  <2>3. todo # <<"start", "create">> /\ todo \notin Awaiting \cup Unbinding \cup Ended
    BY <2>2 DEF Awaiting, Unbinding, Ended
  <2> QED
    BY <1>2, <2>1, <2>3 DEF Create, Setup, End, StopInv
<1>7. CASE StopRaises
  <2>1. todo # <<>> /\ Head(todo) = "box" /\ todo' = Left
    BY <1>7 DEF StopRaises
  <2>2. UNCHANGED <<loop, asked, bound>>
    BY <1>7 DEF StopRaises
  <2>3. todo # <<"start", "create">> /\ todo \notin Asking \cup Awaiting \cup Unbinding \cup Ended
    BY <2>1, Leads
  <2>4. todo' \in Leading
    BY <2>1 DEF Leading
  <2> QED
    BY <2>2, <2>3, <2>4 DEF StopInv
<1>3. CASE Verdict \/ Close \/ StopBox
  <2>1. Head(todo) \in {"finish", "close", "box"} /\ todo' = Tail(todo) /\ todo # <<>>
    BY <1>3 DEF Verdict, Close, StopBox, Does
  <2>2. UNCHANGED <<loop, asked, bound>>
    BY <1>3 DEF Verdict, Close, StopBox
  <2>3. \A c \in Conns : conn'[c].pc = conn[c].pc
    BY <1>3 DEF Verdict, Close, StopBox, EgressInv, Connections
  <2>4. todo # <<"start", "create">> /\ todo \notin Asking \cup Awaiting \cup Unbinding
    BY <2>1, Leads
  <2>5. CASE todo \in Leading /\ loop \in {"spawned", "serving"} /\ bound /\ ~asked
    <3>1. todo' \in Leading \cup Asking
      BY <2>1, <2>5, Leads
    <3> QED
      BY <2>2, <2>5, <3>1 DEF StopInv
  <2>6. CASE /\ todo \in Ended /\ loop = "ended" /\ ~bound /\ ~asked
             /\ \A c \in Conns : conn[c].pc # "queued"
    <3>1. todo' \in Ended
      BY <2>1, <2>6, Leads
    <3> QED
      BY <2>2, <2>3, <2>6, <3>1 DEF StopInv
  <2> QED
    BY <2>4, <2>5, <2>6 DEF StopInv
<1>4. CASE Ask
  <2>1. todo \in Asking /\ todo' \in Awaiting
    BY <1>4, Leads DEF Ask, Does, StopInv
  <2>2. loop \in {"spawned", "serving"} /\ bound
    BY <1>4, <2>1, Leads DEF Ask, Does, StopInv
  <2> QED
    BY <1>4, <2>1, <2>2 DEF Ask, StopInv
<1>5. CASE Await
  <2>1. todo \in Awaiting /\ todo' \in Unbinding
    BY <1>5, Leads DEF Await, Does, StopInv
  <2> QED
    BY <1>5, <2>1, Leads DEF Await, Does, StopInv
<1>6. CASE Unbind
  <2>1. todo \in Unbinding /\ todo' \in Ended
    BY <1>6, Leads DEF Unbind, Does, StopInv
  <2>2. loop = "ended" /\ ~asked
    BY <1>6, <2>1, Leads DEF Unbind, Does, StopInv
  <2>3. \A c \in Conns : conn'[c].pc # "queued"
    BY <1>6 DEF Unbind, EgressInv, Connections
  <2> QED
    BY <1>6, <2>1, <2>2, <2>3 DEF Unbind, StopInv
<1> QED
  BY <1>1, <1>2, <1>3, <1>4, <1>5, <1>6, <1>7 DEF Owner

LEMMA StopNext ==
  ASSUME EgressInv, StopInv, [Next]_vars
  PROVE  StopInv'
<1>1. CASE LoopStarts
  BY <1>1 DEF LoopStarts, StopInv
<1>2. CASE LoopEnds
  BY <1>2 DEF LoopEnds, StopInv
<1>3. ASSUME NEW c \in Conns,
             \/ Connect(c) \/ HangUp(c) \/ Accept(c) \/ Handle(c)
             \/ \E src \in {"client", "upstream"} : SendFails(c, src)
      PROVE  StopInv'
  <2>1. UNCHANGED <<todo, loop, bound, asked>>
    BY <1>3 DEF Connect, HangUp, Accept, Handle, GiveUp, Reject, Decide, Dial, OnAttempt, Reply,
       PumpEnds, ForwardEnds, SendFails, owner
  <2> QED
    BY <1>3, <2>1, NotQueued, ConnKeeps
<1>4. CASE UNCHANGED vars
  BY <1>4 DEF vars, StopInv
<1> QED
  BY <1>1, <1>2, <1>3, <1>4, StopOwner DEF Next

\* Once the socket is closed nobody accepts on it, no connection waits and no
\* shutdown request is left over (EgressProxy.stop, also right after start).
THEOREM StoppedForGoodAlways == Spec => []StoppedForGood
<1>1. StopInv => StoppedForGood
  BY DEF StopInv, StoppedForGood
<1> QED
  BY <1>1, StopInit, StopNext, EgressInvariant, PTL DEF Spec
=============================================================================
