------------------------------- MODULE Egress -------------------------------
(***************************************************************************)
(* The egress proxy of a restricted session (egress_proxy.py) and the tool   *)
(* handler that owns it (start_task, finish_task, Sandbox.start and stop).   *)
(* The proxy accepts in one thread and serves each connection in another.    *)
(* stop() waits for the accepting thread only: a handler thread that has     *)
(* begun goes on, and may call the trajectory writer after the verdict was   *)
(* written, or after the writer was closed.                                  *)
(***************************************************************************)
EXTENDS Naturals, Sequences, SequencesExt, FiniteSets

CONSTANTS
  Conns,  \* bound: connections that the container opens
  Hosts,  \* the hosts it asks for, each a sequence of labels
  Allow   \* DEFAULT_ALLOWLIST and the extra_allow of the task, likewise

ASSUME EgressAssumption == Hosts \cup Allow \subseteq Seq(STRING) \ {<<>>}

VARIABLES
  todo,   \* the steps that the tool handler has still to do
  writer, \* the trajectory writer: "open" or "closed"
  log,    \* the trajectory: <<"finish">> and <<"allowed" or "denied", conn>>
  loop,   \* the thread of serve_forever
  asked,  \* __shutdown_request
  bound,  \* the listening socket is open
  conn    \* the connections

vars == <<todo, writer, log, loop, asked, bound, conn>>
owner == <<todo, writer, loop, asked, bound>>

\* Broken variant: the socket is closed without waiting for the loop.
StopAtOnce == <<"ask", "unbind">>

\* What EgressProxy.stop does; what follows the verdict in finish_task and
\* abort_task, a setup command that fails, a container that does not start.
StopProxy == <<"ask", "await", "unbind">>
Finish == <<"finish", "box">> \o StopProxy \o <<"close">>
SetupFailed == <<"finish", "close", "box">> \o StopProxy
StartFailed == StopProxy \o <<"finish", "close">>

\* start_task raises and stops nothing, or Sandbox.stop raises: no server knows the
\* session, and its proxy goes on.
Left == <<"left">>

\* `closed` holds the sides that have hung up, `fwd` the sides whose bytes are
\* still forwarded to the other, `ans` the answer that was sent.
Blank == [pc |-> "none", host |-> <<>>, ans |-> "none", fwd |-> {}, closed |-> {}]

Init ==
  /\ todo = <<"start", "create">>
  /\ writer = "open" /\ log = <<>>
  /\ loop = "unborn" /\ asked = FALSE /\ bound = FALSE
  /\ conn = [c \in Conns |-> Blank]

Does(step) == todo # <<>> /\ Head(todo) = step /\ todo' = Tail(todo)

\* Commands, and what they leave in the background, run in the container.
BoxUp == \E i \in DOMAIN todo : todo[i] \in {"setup", "live", "box", "left"}

\* matches_allowlist: the name itself or a subdomain of it
Matches(host, allow) == \E a \in allow : host = a \/ IsStrictSuffix(a, host)

-----------------------------------------------------------------------------
(* Broken variants of definitions of this module; no specification uses them. *)

\* the sockets wait forever
NoTimeout == [client |-> 0, upstream |-> 0]

\* an error of on_attempt is swallowed
ReportAnyway(c, kind, answer) ==
  /\ log' = IF writer = "open" THEN Append(log, <<kind, c>>) ELSE log
  /\ conn' = [conn EXCEPT ![c].pc = answer]

\* serve_forever forgets a request that came before it began
LoopForgets ==
  /\ loop = "spawned" /\ loop' = "serving" /\ asked' = FALSE
  /\ UNCHANGED <<todo, writer, log, bound, conn>>

\* settimeout(30) for reading the request and timeout=10 for connecting: both
\* stay on the sockets while the tunnel is open.
SocketTimeout == [client |-> 30, upstream |-> 10]

-----------------------------------------------------------------------------
(* The tool handler.                                                         *)

\* The socket is bound in the constructor, the thread started in start().
Start ==
  /\ Does("start")
  /\ bound' = TRUE /\ loop' = "spawned"
  /\ UNCHANGED <<writer, log, asked, conn>>

\* containers.create and container.start, which may fail; removing the container
\* that did not start may fail too
Create ==
  /\ todo = <<"create">>
  /\ todo' \in {<<"setup">>, StartFailed, Left}
  /\ UNCHANGED <<writer, log, loop, asked, bound, conn>>

\* The setup commands succeed, one fails, or Docker does.
Setup ==
  /\ todo = <<"setup">>
  /\ todo' \in {<<"live">>, SetupFailed, Left}
  /\ UNCHANGED <<writer, log, loop, asked, bound, conn>>

\* finish_task or abort_task; there is no verdict if a verify command raises.
End ==
  /\ todo = <<"live">>
  /\ todo' \in {Finish, Tail(Finish)}
  /\ UNCHANGED <<writer, log, loop, asked, bound, conn>>

Verdict ==
  /\ Does("finish")
  /\ log' = Append(log, <<"finish">>)
  /\ UNCHANGED <<writer, loop, asked, bound, conn>>

\* container.stop and remove: its sides of all connections are closed
StopBox ==
  /\ Does("box")
  /\ conn' = [c \in Conns |-> [conn[c] EXCEPT !.closed = @ \cup {"client"}]]
  /\ UNCHANGED <<writer, log, loop, asked, bound>>

\* One of them, or removing a snapshot, raises what is no error of Docker's (the daemon
\* is gone): the proxy is not stopped, and finish_task does not close the writer.
StopRaises ==
  /\ todo # <<>> /\ Head(todo) = "box"
  /\ todo' = Left
  /\ \/ conn' = [c \in Conns |-> [conn[c] EXCEPT !.closed = @ \cup {"client"}]]
     \/ UNCHANGED conn
  /\ UNCHANGED <<writer, log, loop, asked, bound>>

\* shutdown(): ask, then wait for __is_shut_down
Ask ==
  /\ Does("ask")
  /\ asked' = TRUE
  /\ UNCHANGED <<writer, log, loop, bound, conn>>

Await ==
  /\ Does("await")
  /\ loop = "ended"
  /\ UNCHANGED <<writer, log, loop, asked, bound, conn>>

\* server_close(): connections that nobody accepted are reset; the handlers
\* are daemon threads and not waited for
Unbind ==
  /\ Does("unbind")
  /\ bound' = FALSE
  /\ conn' = [c \in Conns |->
       IF conn[c].pc = "queued" THEN [conn[c] EXCEPT !.pc = "over"] ELSE conn[c]]
  /\ UNCHANGED <<writer, log, loop, asked>>

Close ==
  /\ Does("close")
  /\ writer' = "closed"
  /\ UNCHANGED <<log, loop, asked, bound, conn>>

Owner == Start \/ Create \/ Setup \/ End \/ Verdict \/ StopBox \/ StopRaises \/ Ask
         \/ Await \/ Unbind \/ Close

-----------------------------------------------------------------------------
(* The accepting thread.                                                     *)

LoopStarts ==
  /\ loop = "spawned" /\ loop' = "serving"
  /\ UNCHANGED <<todo, writer, log, asked, bound, conn>>

\* It ends when it sees the request, which it then takes back.
LoopEnds ==
  /\ loop = "serving" /\ asked
  /\ loop' = "ended" /\ asked' = FALSE
  /\ UNCHANGED <<todo, writer, log, bound, conn>>

Goes(c, from, to) == conn[c].pc \in from /\ conn' = [conn EXCEPT ![c].pc = to]

\* Also once after the request, if it was checked just before.
Accept(c) ==
  /\ loop = "serving" /\ bound
  /\ Goes(c, {"queued"}, "reading")
  /\ UNCHANGED <<log, owner>>

-----------------------------------------------------------------------------
(* Clients in the container, upstream hosts.                                 *)

Connect(c) ==
  /\ BoxUp /\ bound
  /\ conn[c].pc = "none"
  /\ \E h \in Hosts : conn' = [conn EXCEPT ![c].pc = "queued", ![c].host = h]
  /\ UNCHANGED <<log, owner>>

HangUp(c) ==
  /\ \/ /\ conn[c].pc \notin {"none", "over"}
        /\ conn' = [conn EXCEPT ![c].closed = @ \cup {"client"}]
     \/ /\ conn[c].pc \in {"dialled", "200", "pump"}
        /\ conn' = [conn EXCEPT ![c].closed = @ \cup {"upstream"}]
  /\ UNCHANGED <<log, owner>>

-----------------------------------------------------------------------------
(* A handler thread: _Handler.handle and _pump.                              *)

\* The client goes away, is silent for 30 s, or sends too much.
GiveUp(c) == Goes(c, {"reading"}, "over") /\ UNCHANGED <<log, owner>>

\* Another method than CONNECT, or an address without a port: on_attempt is not called.
Reject(c) ==
  /\ \E answer \in {"405", "400"} : Goes(c, {"reading"}, answer)
  /\ UNCHANGED <<log, owner>>

Decide(c) ==
  /\ Goes(c, {"reading"}, IF Matches(conn[c].host, Allow) THEN "dialling" ELSE "denied")
  /\ UNCHANGED <<log, owner>>

\* socket.create_connection, which takes up to 10 s; a port above 65535 or a name that
\* is none raises another exception than OSError, which ends the handler
Dial(c) ==
  /\ \E to \in {"dialled", "unreachable", "over"} : Goes(c, {"dialling"}, to)
  /\ UNCHANGED <<log, owner>>

\* on_attempt writes to the trajectory.  A closed writer raises, and that is the
\* end of the handler: the client gets no answer.
Report(c, kind, answer) ==
  /\ log' = IF writer = "open" THEN Append(log, <<kind, c>>) ELSE log
  /\ conn' = [conn EXCEPT ![c].pc = IF writer = "open" THEN answer ELSE "over"]

OnAttempt(c) ==
  /\ \/ conn[c].pc = "denied" /\ Report(c, "denied", "403")
     \/ conn[c].pc = "unreachable" /\ Report(c, "allowed", "502")
     \/ conn[c].pc = "dialled" /\ Report(c, "allowed", "200")
  /\ UNCHANGED owner

\* sendall fails if the client is gone; 200 opens the tunnel.
Reply(c) ==
  /\ conn[c].pc \in {"405", "400", "403", "502", "200"}
  /\ \/ /\ "client" \in conn[c].closed
        /\ conn' = [conn EXCEPT ![c].pc = "over"]
     \/ conn' = [conn EXCEPT ![c].ans = conn[c].pc,
                             ![c].pc = IF @ = "200" THEN "pump" ELSE "over",
                             ![c].fwd = IF conn[c].pc = "200" THEN {"client", "upstream"} ELSE {}]
  /\ UNCHANGED <<log, owner>>

\* recv returns nothing, or raises because nothing came in time
ForwardEnds(c, src) ==
  /\ src \in conn[c].fwd
  /\ src \in conn[c].closed \/ SocketTimeout[src] > 0
  /\ conn' = [conn EXCEPT ![c].fwd = @ \ {src}]
  /\ UNCHANGED <<log, owner>>

\* sendall raises because the other side is gone
SendFails(c, src) ==
  /\ src \in conn[c].fwd
  /\ conn[c].closed \ {src} # {}
  /\ conn' = [conn EXCEPT ![c].fwd = @ \ {src}]
  /\ UNCHANGED <<log, owner>>

PumpEnds(c) ==
  /\ conn[c].fwd = {}
  /\ Goes(c, {"pump"}, "over")
  /\ UNCHANGED <<log, owner>>

Handle(c) ==
  \/ GiveUp(c) \/ Reject(c) \/ Decide(c) \/ Dial(c) \/ OnAttempt(c) \/ Reply(c) \/ PumpEnds(c)
  \/ \E src \in {"client", "upstream"} : ForwardEnds(c, src)

Next ==
  \/ Owner \/ LoopStarts \/ LoopEnds
  \/ \E c \in Conns :
       \/ Connect(c) \/ HangUp(c) \/ Accept(c) \/ Handle(c)
       \/ \E src \in {"client", "upstream"} : SendFails(c, src)

Spec == Init /\ [][Next]_vars

\* Threads that can run do run: the tool handler once it tears the session down
\* (it need not be called before, and a setup command may never end), the accepting
\* thread, and each handler, every wait of which has a timeout.  Nobody has to
\* connect, to hang up or to send.
TearsDown == Owner /\ todo \notin {<<"setup">>, <<"live">>}

FairSpec ==
  /\ Spec
  /\ WF_vars(TearsDown) /\ WF_vars(LoopStarts) /\ WF_vars(LoopEnds)
  /\ \A c \in Conns : WF_vars(Handle(c))

-----------------------------------------------------------------------------
Attempts(c) == {i \in DOMAIN log : Len(log[i]) = 2 /\ log[i][2] = c}

\* The handler decided about the host: 403, 502 and 200 are the answers to a CONNECT
\* with a port.  Whoever got one finds exactly one event that says what happened,
\* written before the answer, and a tunnel leads to a host of the allowlist.  The
\* other two answers, 405 and 400, are never logged, although README.md:16 and
\* egress_proxy.py:7 speak of every connection attempt.
AnsweredIsLogged ==
  \A c \in Conns :
    /\ Cardinality(Attempts(c)) <= 1
    /\ conn[c].ans \in {"403", "502", "200"} =>
         \E i \in Attempts(c) : (log[i][1] = "denied") = (conn[c].ans = "403")
    /\ conn[c].ans \in {"405", "400"} => Attempts(c) = {}
    /\ conn[c].ans = "200" =>
         \E a \in Allow : SubSeq(conn[c].host, Len(conn[c].host) - Len(a) + 1,
                                 Len(conn[c].host)) = a

\* Once the socket is closed nobody accepts on it, no connection waits and no
\* shutdown request is left over (EgressProxy.stop, also right after start).
StoppedForGood ==
  (loop # "unborn" /\ ~bound) =>
    /\ loop = "ended" /\ ~asked
    /\ \A c \in Conns : conn[c].pc # "queued"

\* stop() returns, and with it the tool that tears the session down, also when it
\* comes before the accepting thread has entered its loop, unless Sandbox.stop raises
\* before.
StopReturns ==
  (todo # <<>> /\ Last(todo) \in {"unbind", "close"}) ~> todo \in {<<>>, Left}

\* After the end of the session every handler thread ends, although nobody waits
\* for it and the upstream host may never hang up.
NoHandlerLeft == todo = <<>> ~> \A c \in Conns : conn[c].pc \in {"none", "over"}

\* mcp_server.py:482 "Run verify, write the final event, tear down the sandbox": while
\* finish_task tears the session down, which it does to the end with the writer's
\* close(), its verdict is the last event.  Refuted by the run Egress_late.
VerdictLast ==
  (todo # <<>> /\ Last(todo) = "close") =>
    \A i \in DOMAIN log : log[i] = <<"finish">> => i = Len(log)
=============================================================================
