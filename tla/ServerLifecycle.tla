-------------------------- MODULE ServerLifecycle ---------------------------
(***************************************************************************)
(* The life of the server: HttpServer and ServerApplication around the     *)
(* sessions of HttpSession (src/http/http_server.cpp,                      *)
(* src/runtime/server_application.cpp, src/runtime/service_state.cpp).     *)
(*                                                                         *)
(* Actors: the strand of the server, on which connections are accepted and *)
(* draining and stopping take effect; the strands of the sessions; the     *)
(* threads of the io_context that run them; the shutdown thread; the main  *)
(* thread, which joins the others.  A signal, or an exception that escapes *)
(* a handler and ends its thread, begins the shutdown.                     *)
(***************************************************************************)
EXTENDS HttpSession

CONSTANT
    IoThreads       \* config_.io_threads()

ASSUME IoThreadsAssumption == IoThreads \in Nat \ {0}

VARIABLES
    server,         \* draining_ and stopped_, async_accept, and the strand
    phase,          \* service_state_
    threads,        \* the io threads inside io_context_.run()
    ioStopped,      \* io_context_.stop() was called
    shutdown,       \* where run_shutdown_sequence is
    drained,        \* what wait_until_idle returned
    forced,         \* what force_stop_and_wait returned
    returned        \* run() has returned

appVars == <<phase, threads, ioStopped, shutdown, drained, forced, returned>>
vars == <<sessionVars, server, appVars>>

(* The strand of the server is the queue of its handlers, the one that is  *)
(* running included.                                                       *)
ServerHandlers == {"start", "accept", "drain", "stop"}
ShutdownSteps == {"none", "drain", "force", "pool", "join", "finish", "done"}

(* run() up to the first handler: service_state_.mark_running() and        *)
(* http_server_.start().                                                   *)
Init ==
    /\ SessionInit
    /\ server = [draining |-> FALSE, stopped |-> FALSE, accepting |-> FALSE,
                 strand |-> <<"start">>]
    /\ phase = "running"
    /\ threads = IoThreads
    /\ ioStopped = FALSE
    /\ shutdown = "none"
    /\ drained = FALSE
    /\ forced = FALSE
    /\ returned = FALSE

(* Handlers run.                                                           *)
IoRuns == threads > 0 /\ ~ioStopped

-----------------------------------------------------------------------------
(* HttpServer, on its strand.                                              *)

Runs(handler) ==
    IoRuns /\ server.strand # <<>> /\ Head(server.strand) = handler

(* The server when the handler has run.                                    *)
Ran == [server EXCEPT !.strand = Tail(@)]

Enqueue(handler) == server' = [server EXCEPT !.strand = Append(@, handler)]

ServerStart ==
    /\ Runs("start")
    /\ server' = [Ran EXCEPT !.accepting = TRUE]
    /\ UNCHANGED <<sessionVars, appVars>>

(* A connection, an error, or the acceptor was closed: the handler of      *)
(* async_accept is queued.                                                 *)
AcceptCompletes ==
    /\ IoRuns
    /\ server.accepting
    /\ server' = [server EXCEPT !.accepting = FALSE,
                                !.strand = Append(@, "accept")]
    /\ UNCHANGED <<sessionVars, appVars>>

(* A session is opened, and do_accept is called again.  That start()       *)
(* cannot refuse what full() has let through follows from the strand: only *)
(* removals can come between.                                              *)
Accept(s) ==
    /\ Runs("accept")
    /\ ~server.draining
    /\ Register(s)
    /\ server' = [Ran EXCEPT !.accepting = TRUE]
    /\ UNCHANGED appVars

(* The limit is reached (the client gets a 503 or is disconnected), or     *)
(* async_accept has failed.                                                *)
AcceptRejected ==
    /\ Runs("accept")
    /\ ~server.draining
    /\ server' = [Ran EXCEPT !.accepting = TRUE]
    /\ UNCHANGED <<sessionVars, appVars>>

(* The server is draining: do_accept is not called again.                  *)
AcceptEnds ==
    /\ Runs("accept")
    /\ server.draining
    /\ server' = Ran
    /\ UNCHANGED <<sessionVars, appVars>>

(* Mutant: the sessions are not told.                                      *)
DrainTellsNobody(x) ==
    /\ server' = [x EXCEPT !.draining = TRUE]
    /\ UNCHANGED sessionVars

do_begin_draining(x) ==
    /\ server' = [x EXCEPT !.draining = TRUE]
    /\ IF x.draining THEN UNCHANGED sessionVars ELSE drain_all

ServerDrain ==
    /\ Runs("drain")
    /\ do_begin_draining(Ran)
    /\ UNCHANGED appVars

(* Mutant: stop_all takes the connections out of the set.                  *)
StopForgets ==
    /\ Runs("stop")
    /\ server' = [Ran EXCEPT !.stopped = TRUE, !.draining = TRUE]
    /\ connections' = {}
    /\ UNCHANGED <<session, leaving, gauges, poolVars, appVars>>

(* do_stop, and the promise that force_stop_and_wait waits for.            *)
ServerStop ==
    /\ Runs("stop")
    /\ server' = [Ran EXCEPT !.stopped = TRUE, !.draining = TRUE]
    /\ stop_all
    /\ UNCHANGED appVars

-----------------------------------------------------------------------------
(* ServerApplication::stop: the first call dispatches the drain to the     *)
(* strand of the server and starts the shutdown thread.                    *)

(* dispatch, on a thread of the io_context, runs the handler before it     *)
(* returns if the strand is idle, and queues it if the strand is busy on   *)
(* another thread.                                                         *)
Signal ==
    /\ IoRuns
    /\ shutdown = "none"
    /\ IF server.strand = <<>> THEN do_begin_draining(server)
       ELSE Enqueue("drain") /\ UNCHANGED sessionVars
    /\ phase' = "draining"
    /\ shutdown' = "drain"
    /\ UNCHANGED <<threads, ioStopped, drained, forced, returned>>

(* An exception leaves io_context_.run(); the thread calls stop(), from    *)
(* where dispatch queues the handler, and is gone.                         *)
ThreadDies ==
    /\ IoRuns
    /\ threads' = threads - 1
    /\ IF shutdown = "none"
       THEN Enqueue("drain") /\ phase' = "draining" /\ shutdown' = "drain"
       ELSE UNCHANGED <<server, phase, shutdown>>
    /\ UNCHANGED <<sessionVars, ioStopped, drained, forced, returned>>

-----------------------------------------------------------------------------
(* run_shutdown_sequence                                                   *)

WaitUntilIdle ==
    /\ shutdown = "drain"
    /\ connections = {}
    /\ shutdown' = "pool"
    /\ drained' = TRUE
    /\ UNCHANGED <<sessionVars, server, phase, threads, ioStopped, forced,
                   returned>>

(* Mutant: the grace period begins again.                                  *)
GraceAgain ==
    /\ shutdown = "drain"
    /\ connections # {}
    /\ UNCHANGED vars

(* force_stop_and_wait queues do_stop.                                     *)
GraceExpires ==
    /\ shutdown = "drain"
    /\ connections # {}
    /\ shutdown' = "force"
    /\ Enqueue("stop")
    /\ UNCHANGED <<sessionVars, phase, threads, ioStopped, drained, forced,
                   returned>>

(* Mutant: the set of connections is looked at before do_stop has run.     *)
ForceWithoutPromise ==
    /\ shutdown = "force"
    /\ connections = {}
    /\ shutdown' = "pool"
    /\ forced' = TRUE
    /\ UNCHANGED <<sessionVars, server, phase, threads, ioStopped, drained,
                   returned>>

ForceCompletes ==
    /\ shutdown = "force"
    /\ server.stopped
    /\ connections = {}
    /\ shutdown' = "pool"
    /\ forced' = TRUE
    /\ UNCHANGED <<sessionVars, server, phase, threads, ioStopped, drained,
                   returned>>

(* Two seconds later, do_stop has not run or sessions remain.              *)
ForceTimesOut ==
    /\ shutdown = "force"
    /\ ~server.stopped \/ connections # {}
    /\ shutdown' = "pool"
    /\ UNCHANGED <<sessionVars, server, phase, threads, ioStopped, drained,
                   forced, returned>>

PoolCloses ==
    /\ shutdown = "pool"
    /\ Pool!Close
    /\ shutdown' = "join"
    /\ UNCHANGED <<session, leaving, connections, gauges, server, phase,
                   threads, ioStopped, drained, forced, returned>>

(* Mutant: the worker threads are not joined.                              *)
PoolIsLeft ==
    /\ shutdown = "join"
    /\ shutdown' = "finish"
    /\ UNCHANGED <<sessionVars, server, phase, threads, ioStopped, drained,
                   forced, returned>>

(* worker_pool_.stop() has run what was accepted and joined the workers.   *)
PoolStops ==
    /\ shutdown = "join"
    /\ Pool!Stop
    /\ shutdown' = "finish"
    /\ UNCHANGED <<session, leaving, connections, gauges, server, phase,
                   threads, ioStopped, drained, forced, returned>>

ShutdownFinishes ==
    /\ shutdown = "finish"
    /\ phase' = "stopped"
    /\ ioStopped' = TRUE
    /\ shutdown' = "done"
    /\ UNCHANGED <<sessionVars, server, threads, drained, forced, returned>>

(* io_context_.run() returns in a thread.                                  *)
ThreadReturns ==
    /\ ioStopped
    /\ threads > 0
    /\ threads' = threads - 1
    /\ UNCHANGED <<sessionVars, server, phase, ioStopped, shutdown, drained,
                   forced, returned>>

(* run() has joined the io threads and the shutdown thread.                *)
RunReturns ==
    /\ threads = 0
    /\ shutdown = "done"
    /\ ~returned
    /\ returned' = TRUE
    /\ UNCHANGED <<sessionVars, server, phase, threads, ioStopped, shutdown,
                   drained, forced>>

(* The program ends.                                                       *)
Exit == returned /\ UNCHANGED vars

-----------------------------------------------------------------------------
(* The handlers of a session, on a thread of the io_context; a task, on a  *)
(* worker thread.                                                          *)
Handle(s) == IoRuns /\ HandlerStep(s) /\ UNCHANGED <<server, appVars>>

Work(s) == RunTask(s) /\ UNCHANGED <<server, appVars>>

(* What runs on the strand of the server.                                  *)
ServerStep ==
    \/ ServerStart \/ AcceptRejected \/ AcceptEnds
    \/ \E s \in Sessions : Accept(s)
    \/ ServerDrain \/ ServerStop

ShutdownStep ==
    \/ WaitUntilIdle \/ ForceCompletes \/ PoolCloses \/ PoolStops
    \/ ShutdownFinishes

Next ==
    \/ \E s \in Sessions : Handle(s) \/ Work(s)
    \/ AcceptCompletes \/ ServerStep
    \/ Signal \/ ThreadDies
    \/ ShutdownStep \/ GraceExpires \/ ForceTimesOut
    \/ ThreadReturns \/ RunReturns \/ Exit

Spec == Init /\ [][Next]_vars

(* A session that has read MaxRequests requests stands for one whose       *)
(* client goes on sending them, in time, for as long as it is answered.    *)
BusyClient(s) ==
    session[s].phase = "reading" /\ ~session[s].draining
      /\ session[s].requests = MaxRequests

(* While threads run the io_context, every strand gets its turn, and every *)
(* operation ends: the streams have a timeout on reads, writes, the        *)
(* handshake and the shutdown.  Tasks end.  Nobody has to connect, to send *)
(* a request, to send a signal or to throw, and a busy client never has to *)
(* stop.  Threads that can be joined are.                                  *)
Fairness ==
    /\ \A s \in Sessions :
         /\ WF_vars(IoRuns /\ PostedStep(s) /\ UNCHANGED <<server, appVars>>)
         /\ WF_vars(IoRuns /\ ~BusyClient(s) /\ OperationStep(s)
                     /\ UNCHANGED <<server, appVars>>)
         /\ WF_vars(IoRuns /\ Remove(s) /\ UNCHANGED <<server, appVars>>)
         /\ WF_vars(Work(s))
    /\ WF_vars(ServerStep)
    /\ WF_vars(ThreadReturns)
    /\ WF_vars(RunReturns)

(* The grace period may be as long as one likes.                           *)
FairSpec == Spec /\ Fairness

(* The shutdown thread goes on when what it waits for happens or its       *)
(* deadline passes.                                                        *)
DeadlinesPass == WF_vars(ShutdownStep \/ GraceExpires \/ ForceTimesOut)

-----------------------------------------------------------------------------
(* Every variable has its type.                                            *)
TypeOK ==
    /\ SessionTypeOK
    /\ server \in [draining : BOOLEAN, stopped : BOOLEAN,
                   accepting : BOOLEAN, strand : Seq(ServerHandlers)]
    /\ phase \in {"running", "draining", "stopped"}
    /\ threads \in 0 .. IoThreads
    /\ ioStopped \in BOOLEAN
    /\ shutdown \in ShutdownSteps
    /\ drained \in BOOLEAN
    /\ forced \in BOOLEAN
    /\ returned \in BOOLEAN

(* When force_stop_and_wait reports success, no session is open, and none  *)
(* is opened any more: do_stop has closed the acceptor on the strand       *)
(* before the set of connections is looked at.                             *)
ForcedMeansClosed ==
    forced => connections = {} /\ \A s \in Sessions : ~Open(s)

(* run() returns only when nothing can touch the services any more, which  *)
(* are destroyed after it: no handler runs, no task is queued or running   *)
(* and none can be accepted.  This holds however the shutdown went: with   *)
(* a drain, by force, or with all io threads gone.                         *)
NothingAfterReturn ==
    returned =>
        /\ ~IoRuns /\ threads = 0
        /\ stopped /\ pending = {} /\ ~open
        /\ phase = "stopped"

(* What "All HTTP connections drained within the grace period." says: once *)
(* wait_until_idle has returned true, no session is open.                  *)
DrainedMeansIdle ==
    drained => \A s \in Sessions : ~Open(s)

(* The sessions see nothing of the server but what HttpSession allows: its *)
(* invariants hold here too.                                               *)
SessionsUndisturbed == SessionSpec

(* A shutdown that has begun ends, whatever the clients do, and although   *)
(* io threads may die, because its waits have deadlines.                   *)
ShutdownEnds == DeadlinesPass => ((shutdown # "none") ~> returned)

(* Every request that was read is answered or its connection is closed, as *)
(* long as the io_context runs.                                            *)
RequestsEnd ==
    \A s \in Sessions : session[s].active ~> (~session[s].active \/ ~IoRuns)

(* A drain empties the server by itself, without the grace period's        *)
(* expiry, as long as the io_context runs, although clients keep sending   *)
(* requests: every session is closed.                                      *)
DrainEmpties == server.draining ~> (connections = {} \/ ~IoRuns)
=============================================================================
