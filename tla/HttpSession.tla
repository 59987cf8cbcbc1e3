---------------------------- MODULE HttpSession -----------------------------
(***************************************************************************)
(* The sessions of the server: HttpSession and TlsHttpSession with the     *)
(* ConnectionManager they are registered in, the gauges of MetricsRegistry *)
(* and the worker pool they hand their requests to (src/http/              *)
(* http_session.cpp, src/http/tls_http_session.cpp,                        *)
(* src/net/connection_manager.cpp, src/observability/metrics_registry.cpp).*)
(*                                                                         *)
(* All handlers of a session run on its strand, so a handler is one step,  *)
(* except that handle_disconnect removes the session from the manager,     *)
(* which other threads look at, in a step of its own.  A completed         *)
(* operation is queued on the strand and its handler runs some time later, *)
(* perhaps after the session was stopped.  What the server posts (start,   *)
(* drain, stop) runs in the order it was posted.                           *)
(*                                                                         *)
(* The server is the environment here: it registers sessions and drains    *)
(* and stops all of them when it likes.  The worker pool is the            *)
(* TaskExecutor it was shown to implement; the task of a session's n-th    *)
(* request is <<s, n>>.                                                    *)
(***************************************************************************)
EXTENDS Integers, Sequences, FiniteSets

CONSTANTS
    Sessions,           \* the connections that are ever accepted
    Tls,                \* TlsHttpSession rather than HttpSession
    MaxConnections,     \* limits_.max_connections
    PoolLimit,          \* queue capacity and threads of the worker pool
    MaxRequests         \* bound: requests on one connection

ASSUME SessionsAssumption == IsFiniteSet(Sessions)
ASSUME TlsAssumption == Tls \in BOOLEAN
ASSUME LimitsAssumption ==
    MaxConnections \in Nat /\ PoolLimit \in Nat /\ MaxRequests \in Nat

VARIABLES
    session,        \* the members of each session, and what is posted to it
    leaving,        \* the sessions between do_stop and remove
    connections,    \* connections_ of the manager
    gauges,         \* http_connections_active_, http_requests_in_flight_
    open, pending, executed, refused, stopped       \* the worker pool

poolVars == <<open, pending, executed, refused, stopped>>
sessionVars == <<session, leaving, connections, gauges, poolVars>>

Tasks == Sessions \X (1 .. MaxRequests)

Pool == INSTANCE TaskExecutor WITH Limit <- PoolLimit

Phases == {"none", "created", "handshaking", "reading", "processing",
           "writing", "shutting_down", "stopped"}
Operations == {"handshake", "read", "write", "shutdown"}
Posts == {"start", "drain", "stop", "complete"}

Members == [phase : Phases, draining : BOOLEAN, active : BOOLEAN,
            close : BOOLEAN, requests : Nat, op : Seq(Operations),
            posted : SUBSET Posts, drainedAt : Nat]

(* "none" is a connection that was not accepted yet.  drainedAt is history *)
(* (how many requests had been read when draining_ was set).               *)
NoSession == [phase |-> "none", draining |-> FALSE, active |-> FALSE,
              close |-> FALSE, requests |-> 0, op |-> <<>>,
              posted |-> {}, drainedAt |-> 0]

SessionInit ==
    /\ session = [s \in Sessions |-> NoSession]
    /\ leaving = {}
    /\ connections = {}
    /\ gauges = [connections |-> 0, requests |-> 0]
    /\ Pool!AbsInit

Open(s) == session[s].phase \notin {"none", "stopped"}

-----------------------------------------------------------------------------
(* MetricsRegistry: the gauges are not decremented below zero.             *)

Decrement(n) == IF n = 0 THEN 0 ELSE n - 1

connection_opened(g) == [g EXCEPT !.connections = @ + 1]
connection_closed(g) == [g EXCEPT !.connections = Decrement(@)]
request_started(g) == [g EXCEPT !.requests = @ + 1]
request_finished(g) == [g EXCEPT !.requests = Decrement(@)]

-----------------------------------------------------------------------------
(* What handlers do to the members x of a session.                         *)

Initiate(x, phase, op) == [x EXCEPT !.phase = phase, !.op = Append(@, op)]

do_handshake(x) == Initiate(x, "handshaking", "handshake")
do_read(x) == Initiate(x, "reading", "read")
do_tls_shutdown(x) == Initiate(x, "shutting_down", "shutdown")

(* Mutant: draining_ is not looked at when the response is sent.           *)
SendKeepsAlive(x, close) ==
    [Initiate(x, "writing", "write") EXCEPT !.close = close]

(* need_eof() of the response, after keep_alive(false) while draining.     *)
send_response(x, close) ==
    [Initiate(x, "writing", "write") EXCEPT !.close = close \/ x.draining]

finish_request(x, g) == IF x.active THEN request_finished(g) ELSE g

Put(s, x) == session' = [session EXCEPT ![s] = x]

(* A handler ends with the members x and the gauges g.                     *)
Continue(s, x, g) ==
    /\ Put(s, x)
    /\ gauges' = g
    /\ UNCHANGED <<leaving, connections>>

(* Mutant: a request that is being processed stays counted.                *)
DisconnectForgetsRequest(s, x, g) ==
    /\ Put(s, [x EXCEPT !.phase = "stopped", !.active = FALSE])
    /\ gauges' = connection_closed(g)
    /\ leaving' = leaving \cup {s}
    /\ UNCHANGED connections

(* handle_disconnect up to the call of remove.                             *)
handle_disconnect(s, x, g) ==
    /\ Put(s, [x EXCEPT !.phase = "stopped", !.active = FALSE])
    /\ gauges' = connection_closed(finish_request(x, g))
    /\ leaving' = leaving \cup {s}
    /\ UNCHANGED connections

(* ConnectionManager::remove                                               *)
Remove(s) ==
    /\ s \in leaving
    /\ leaving' = leaving \ {s}
    /\ connections' = connections \ {s}
    /\ UNCHANGED <<session, gauges, poolVars>>

-----------------------------------------------------------------------------
(* ConnectionManager::start, drain_all and stop_all, called by the server. *)

(* The session is constructed, registered and told to start.               *)
Register(s) ==
    /\ session[s].phase = "none"
    /\ Cardinality(connections) < MaxConnections
    /\ Put(s, [session[s] EXCEPT !.phase = "created", !.posted = {"start"}])
    /\ connections' = connections \cup {s}
    /\ gauges' = connection_opened(gauges)
    /\ UNCHANGED <<leaving, poolVars>>

PostToAll(post) ==
    /\ session' = [s \in Sessions |->
                     IF s \in connections
                     THEN [session[s] EXCEPT !.posted = @ \cup {post}]
                     ELSE session[s]]
    /\ UNCHANGED <<leaving, connections, gauges, poolVars>>

drain_all == PostToAll("drain")
stop_all == PostToAll("stop")

-----------------------------------------------------------------------------
(* The posted handlers.                                                    *)

(* The members when the handler of a post begins.                          *)
Taken(s, post) == [session[s] EXCEPT !.posted = @ \ {post}]

(* The handler finds stopped_ set and returns.                             *)
TooLate(s, post) ==
    /\ post \in session[s].posted
    /\ session[s].phase = "stopped"
    /\ Continue(s, Taken(s, post), gauges)
    /\ UNCHANGED poolVars

do_start(s) ==
    /\ "start" \in session[s].posted
    /\ session[s].phase # "stopped"
    /\ LET x == Taken(s, "start") IN
       Continue(s, IF Tls THEN do_handshake(x) ELSE do_read(x), gauges)
    /\ UNCHANGED poolVars

do_drain(s) ==
    /\ "drain" \in session[s].posted
    /\ "start" \notin session[s].posted
    /\ session[s].phase # "stopped"
    /\ LET x == Taken(s, "drain")
           y == [x EXCEPT !.draining = TRUE, !.drainedAt = x.requests]
       IN IF x.draining THEN Continue(s, x, gauges)
          ELSE IF x.phase \in {"created", "handshaking"}
          THEN handle_disconnect(s, y, gauges)
          ELSE Continue(s, y, gauges)
    /\ UNCHANGED poolVars

do_stop(s) ==
    /\ "stop" \in session[s].posted
    /\ session[s].posted \cap {"start", "drain"} = {}
    /\ session[s].phase # "stopped"
    /\ handle_disconnect(s, Taken(s, "stop"), gauges)
    /\ UNCHANGED poolVars

complete_request(s, keep) ==
    /\ "complete" \in session[s].posted
    /\ session[s].phase # "stopped"
    /\ Continue(s, send_response(Taken(s, "complete"), ~keep), gauges)
    /\ UNCHANGED poolVars

-----------------------------------------------------------------------------
(* The handlers of operations.                                             *)

Completes(s, op) ==
    /\ session[s].op # <<>>
    /\ Head(session[s].op) = op
    /\ session[s].phase # "stopped"

(* The members when the handler of the operation begins.                   *)
Done(s) == [session[s] EXCEPT !.op = Tail(@)]

(* The handler finds stopped_ set and returns.                             *)
Aborted(s) ==
    /\ session[s].op # <<>>
    /\ session[s].phase = "stopped"
    /\ Continue(s, Done(s), gauges)
    /\ UNCHANGED poolVars

HandshakeSucceeds(s) ==
    /\ Completes(s, "handshake")
    /\ Continue(s, do_read(Done(s)), gauges)
    /\ UNCHANGED poolVars

(* The peer closes, a timeout or another error: in the handshake, a read   *)
(* or the shutdown.                                                        *)
OperationFails(s) ==
    /\ \E op \in {"handshake", "read", "shutdown"} : Completes(s, op)
    /\ handle_disconnect(s, Done(s), gauges)
    /\ UNCHANGED poolVars

(* A request was read: request_ is the next one of this connection.        *)
Received(s) == [Done(s) EXCEPT !.requests = @ + 1, !.active = TRUE,
                               !.phase = "processing"]

Reads(s) == Completes(s, "read") /\ session[s].requests < MaxRequests

(* While draining only /ready and /metrics get as far as the pool.         *)
ReadRejected(s) ==
    /\ Reads(s)
    /\ session[s].draining
    /\ Continue(s, send_response(Received(s), TRUE), request_started(gauges))
    /\ UNCHANGED poolVars

(* Mutant: no return after the pool has accepted the task.                 *)
HandleRequestFallsThrough(s) ==
    /\ Reads(s)
    /\ Continue(s, send_response(Received(s), TRUE), request_started(gauges))
    /\ Pool!Accept(<<s, session[s].requests + 1>>)

handle_request(s) ==
    /\ Reads(s)
    /\ Continue(s, Received(s), request_started(gauges))
    /\ Pool!Accept(<<s, session[s].requests + 1>>)

(* The queue is full or the pool is stopping.                              *)
RequestRefused(s) ==
    /\ Reads(s)
    /\ Continue(s, send_response(Received(s), TRUE), request_started(gauges))
    /\ Pool!Refuse(<<s, session[s].requests + 1>>)

(* send_protocol_error: a header or a body beyond its limit.               *)
ReadTooLarge(s) ==
    /\ Completes(s, "read")
    /\ Continue(s, send_response(Done(s), TRUE), gauges)
    /\ UNCHANGED poolVars

WriteSucceeds(s) ==
    LET x == [Done(s) EXCEPT !.active = FALSE]
        g == finish_request(session[s], gauges)
    IN
    /\ Completes(s, "write")
    /\ IF ~x.close THEN Continue(s, do_read(x), g)
       ELSE IF Tls THEN Continue(s, do_tls_shutdown(x), g)
       ELSE handle_disconnect(s, x, g)
    /\ UNCHANGED poolVars

WriteFails(s) ==
    /\ Completes(s, "write")
    /\ handle_disconnect(s, [Done(s) EXCEPT !.active = FALSE],
                         finish_request(session[s], gauges))
    /\ UNCHANGED poolVars

-----------------------------------------------------------------------------
(* Mutant: a task that fails posts no response.                            *)
TaskPostsNothing(s) ==
    /\ \E n \in 1 .. MaxRequests : Pool!Execute(<<s, n>>)
    /\ UNCHANGED <<session, leaving, connections, gauges>>

(* A worker has run the handler of a request; the task ends by posting the *)
(* response to the strand.                                                 *)
RunTask(s) ==
    /\ \E n \in 1 .. MaxRequests : Pool!Execute(<<s, n>>)
    /\ Put(s, [session[s] EXCEPT !.posted = @ \cup {"complete"}])
    /\ UNCHANGED <<leaving, connections, gauges>>

-----------------------------------------------------------------------------
PostedStep(s) ==
    \/ do_start(s) \/ do_drain(s) \/ do_stop(s)
    \/ \E keep \in BOOLEAN : complete_request(s, keep)
    \/ \E post \in Posts : TooLate(s, post)

OperationStep(s) ==
    \/ HandshakeSucceeds(s) \/ OperationFails(s)
    \/ ReadRejected(s) \/ handle_request(s) \/ RequestRefused(s)
    \/ ReadTooLarge(s)
    \/ WriteSucceeds(s) \/ WriteFails(s) \/ Aborted(s)

(* What runs on the threads of the io_context.                             *)
HandlerStep(s) == PostedStep(s) \/ OperationStep(s) \/ Remove(s)

PoolStep ==
    /\ Pool!Close \/ Pool!Stop
    /\ UNCHANGED <<session, leaving, connections, gauges>>

SessionNext ==
    \/ \E s \in Sessions : Register(s) \/ HandlerStep(s) \/ RunTask(s)
    \/ drain_all \/ stop_all \/ PoolStep

SessionSpec == SessionInit /\ [][SessionNext]_sessionVars

-----------------------------------------------------------------------------
(* Every variable has its type.                                            *)
SessionTypeOK ==
    /\ session \in [Sessions -> Members]
    /\ leaving \subseteq Sessions
    /\ connections \subseteq Sessions
    /\ gauges \in [connections : Nat, requests : Nat]
    /\ open \in BOOLEAN
    /\ pending \subseteq Tasks
    /\ executed \subseteq Tasks
    /\ refused \subseteq Tasks
    /\ stopped \in BOOLEAN

(* The work that is out for a session: operations of its stream, tasks in  *)
(* the pool, and a response on its way back.                               *)
Outstanding(s) ==
    Len(session[s].op) + Cardinality({t \in pending : t[1] = s})
      + (IF "complete" \in session[s].posted THEN 1 ELSE 0)

(* A session waits for one thing at a time, and a task is for the request  *)
(* that was read last.  Two operations on a stream at once are undefined   *)
(* behaviour, a response for which no request waits answers the wrong one, *)
(* and a session with nothing outstanding never ends.  This must hold      *)
(* across timeouts, disconnects, draining, and responses that come back to *)
(* a session that was stopped meanwhile.                                   *)
OneThingOutstanding ==
    \A s \in Sessions :
        /\ Outstanding(s) <= 1
        /\ Open(s) /\ session[s].phase # "created" => Outstanding(s) = 1
        /\ \A n \in 1 .. MaxRequests :
             <<s, n>> \in pending => n = session[s].requests

(* The gauges are exact, so that the guards against a decrement below zero *)
(* hide nothing: a connection counts from its construction to its stop, a  *)
(* request until its response is written or its session stops.             *)
GaugesAgree ==
    /\ gauges.connections = Cardinality({s \in Sessions : Open(s)})
    /\ gauges.requests = Cardinality({s \in Sessions : session[s].active})
    /\ \A s \in Sessions : session[s].active => Open(s)

(* The manager knows every session that is open or about to be removed, no *)
(* other, and never more than the limit: what the shutdown waits for is    *)
(* what is there.                                                          *)
RegistryAgrees ==
    /\ connections = {s \in Sessions : Open(s)} \cup leaving
    /\ \A s \in leaving : ~Open(s)
    /\ Cardinality(connections) <= MaxConnections

(* The gauges and the registry describe the same sessions, exactly.        *)
BookkeepingAgrees == GaugesAgree /\ RegistryAgrees

(* A draining session reads at most one more request: the response that is *)
(* being written when the drain begins may say keep-alive, any later one   *)
(* closes.  A busy client cannot hold up the shutdown.                     *)
DrainServesOneMore ==
    \A s \in Sessions :
        session[s].draining => session[s].requests <= session[s].drainedAt + 1
=============================================================================
