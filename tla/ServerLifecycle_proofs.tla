----------------------- MODULE ServerLifecycle_proofs -----------------------
(***************************************************************************)
(* The safety of the sessions and of the server that runs them, for every  *)
(* number of connections, requests, io threads and places in the worker    *)
(* pool, with and without TLS.  The first part is about HttpSession alone; *)
(* the second carries its invariant over to ServerLifecycle by refinement. *)
(***************************************************************************)
EXTENDS ServerLifecycle, FiniteSetTheorems, TLAPS

-----------------------------------------------------------------------------
(* The sessions.                                                           *)

(* The request of s is in the worker pool, or its response on its way back *)
(* to the strand.                                                          *)
InPool(s, P) == \E n \in 1 .. MaxRequests : <<s, n>> \in P
Answered(x) == "complete" \in x.posted

(* The operation on the stream that a phase waits for.                     *)
OperationOf(p) ==
    CASE p = "handshaking" -> <<"handshake">>
      [] p = "reading" -> <<"read">>
      [] p = "writing" -> <<"write">>
      [] p = "shutting_down" -> <<"shutdown">>
      [] OTHER -> <<>>

(* What the phase says about the other members x of session s, when the    *)
(* tasks P are pending.                                                    *)
PhaseOK(s, x, P) ==
    /\ \A n \in 1 .. MaxRequests : <<s, n>> \in P => n = x.requests
    /\ x.phase = "none" => x = NoSession
    /\ "start" \in x.posted => x.phase \in {"created", "stopped"}
    /\ x.active => x.phase \in {"processing", "writing"}
    /\ x.phase # "stopped" => x.op = OperationOf(x.phase)
    /\ x.phase = "processing" => (InPool(s, P) <=> ~Answered(x))
    /\ x.phase \notin {"processing", "stopped"} => ~InPool(s, P) /\ ~Answered(x)
    /\ x.phase = "stopped" =>
         /\ x.op = <<>> \/ \E o \in Operations : x.op = <<o>>
         /\ InPool(s, P) => x.op = <<>> /\ ~Answered(x)
         /\ Answered(x) => x.op = <<>>

(* A draining session that waits for a request, or will wait for one, has  *)
(* read none since the drain began.                                        *)
DrainOK(x) ==
    x.draining =>
        /\ x.phase \notin {"none", "created", "handshaking"}
        /\ x.drainedAt <= x.requests
        /\ x.requests <= x.drainedAt + 1
        /\ x.phase = "reading" => x.requests = x.drainedAt
        /\ x.phase = "writing" /\ ~x.close => x.requests = x.drainedAt

LocalOK(s, x, P) == x \in Members /\ PhaseOK(s, x, P) /\ DrainOK(x)

LocalInv == \A s \in Sessions : LocalOK(s, session[s], pending)

(* A session that is about to be removed has stopped.                      *)
LeavingStopped == \A s \in leaving : session[s].phase = "stopped"

(* The inductive invariant.                                                *)
IInv ==
    /\ SessionTypeOK
    /\ LocalInv
    /\ GaugesAgree
    /\ RegistryAgrees
    /\ LeavingStopped

-----------------------------------------------------------------------------
(* A step of one session that leaves the tasks of the others alone.        *)
LEMMA OneSession ==
    ASSUME SessionTypeOK, LocalInv, NEW s \in Sessions, NEW x, Put(s, x),
           LocalOK(s, x, pending'),
           \A r \in Sessions \ {s}, n \in 1 .. MaxRequests :
               <<r, n>> \in pending' <=> <<r, n>> \in pending
    PROVE  LocalInv' /\ session' \in [Sessions -> Members]
<1>1. \A r \in Sessions : session'[r] = IF r = s THEN x ELSE session[r]
  BY DEF Put, SessionTypeOK
<1>2. ASSUME NEW r \in Sessions PROVE LocalOK(r, session'[r], pending')
  <2>1. CASE r = s
    BY <1>1, <2>1
  <2>2. CASE r # s
    <3>1. LocalOK(r, session[r], pending) /\ session'[r] = session[r]
      BY <1>1, <2>2 DEF LocalInv
    <3>2. \A n \in 1 .. MaxRequests : <<r, n>> \in pending' <=> <<r, n>> \in pending
      BY <2>2
    <3> QED
      BY <3>1, <3>2 DEF LocalOK, PhaseOK, InPool
  <2> QED
    BY <2>1, <2>2
<1> QED
  BY <1>2 DEF LocalInv, Put, SessionTypeOK, LocalOK

(* The members after an operation was begun with none outstanding.         *)
LEMMA Initiated ==
    ASSUME NEW x \in Members, NEW p \in Phases, NEW o \in Operations,
           x.op = <<>>
    PROVE  Initiate(x, p, o) = [x EXCEPT !.phase = p, !.op = <<o>>]
BY DEF Initiate, Members

(* The members when the handler of an operation begins.                    *)
LEMMA OperationDone ==
    ASSUME SessionTypeOK, LocalInv, NEW s \in Sessions, NEW o \in Operations,
           Completes(s, o)
    PROVE  /\ session[s].op = <<o>>
           /\ session[s].phase = CASE o = "handshake" -> "handshaking"
                                   [] o = "read" -> "reading"
                                   [] o = "write" -> "writing"
                                   [] o = "shutdown" -> "shutting_down"
           /\ Done(s) = [session[s] EXCEPT !.op = <<>>]
           /\ Done(s) \in Members
           /\ ~InPool(s, pending) /\ ~Answered(session[s])
<1>1. LocalOK(s, session[s], pending) /\ session[s] \in Members
  BY DEF LocalInv, LocalOK
<1>2. session[s].op = OperationOf(session[s].phase) /\ session[s].phase \in Phases
  BY <1>1 DEF LocalOK, PhaseOK, Completes, Members
<1>3. session[s].op = <<o>>
  BY <1>2 DEF Completes, OperationOf, Operations
<1>4. session[s].phase = CASE o = "handshake" -> "handshaking"
                           [] o = "read" -> "reading"
                           [] o = "write" -> "writing"
                           [] o = "shutdown" -> "shutting_down"
  BY <1>2, <1>3 DEF OperationOf, Operations, Phases
<1>5. Done(s) = [session[s] EXCEPT !.op = <<>>]
  BY <1>1, <1>3 DEF Done, Members
<1>6. Done(s) \in Members
  <2>1. <<>> \in Seq(Operations)
    OBVIOUS
  <2> QED
    BY <1>1, <1>5, <2>1 DEF Members
<1>7. ~InPool(s, pending) /\ ~Answered(session[s])
  BY <1>1, <1>4 DEF LocalOK, PhaseOK, Operations
<1> QED
  BY <1>3, <1>4, <1>5, <1>6, <1>7

-----------------------------------------------------------------------------
(* The gauges and the registry.                                            *)

OpenIn(f) == {s \in Sessions : f[s].phase \notin {"none", "stopped"}}
ActiveIn(f) == {s \in Sessions : f[s].active}
One(b) == IF b THEN 1 ELSE 0

(* A set of sessions changes by one member.                                *)
LEMMA CountOne ==
    ASSUME NEW A \in SUBSET Sessions, NEW s \in Sessions
    PROVE  /\ IsFiniteSet(A)
           /\ Cardinality(A) \in Nat
           /\ s \in A => Cardinality(A) > 0
           /\ s \notin A => Cardinality(A \cup {s}) = Cardinality(A) + 1
           /\ s \in A => Cardinality(A \ {s}) = Cardinality(A) - 1
<1>1. IsFiniteSet(A)
  BY SessionsAssumption, FS_Subset
<1>2. Cardinality(A) \in Nat
  BY <1>1, FS_CardinalityType
<1>3. s \in A => Cardinality(A \ {s}) = Cardinality(A) - 1
  BY <1>1, FS_RemoveElement
<1>4. s \in A => Cardinality(A) > 0
  <2>1. A # {} => Cardinality(A) # 0
    BY <1>1, FS_EmptySet
  <2> QED
    BY <1>2, <2>1
<1>5. s \notin A => Cardinality(A \cup {s}) = Cardinality(A) + 1
  BY <1>1, FS_AddElement
<1> QED
  BY <1>1, <1>2, <1>3, <1>4, <1>5

(* The gauges in terms of these sets.                                      *)
LEMMA Gauged ==
    GaugesAgree <=> /\ gauges.connections = Cardinality(OpenIn(session))
                    /\ gauges.requests = Cardinality(ActiveIn(session))
                    /\ ActiveIn(session) \subseteq OpenIn(session)
BY DEF GaugesAgree, OpenIn, ActiveIn, Open

LEMMA GaugedAfter ==
    /\ gauges'.connections = Cardinality(OpenIn(session'))
    /\ gauges'.requests = Cardinality(ActiveIn(session'))
    /\ ActiveIn(session') \subseteq OpenIn(session')
    => GaugesAgree'
BY DEF GaugesAgree, OpenIn, ActiveIn, Open

(* A handler that leaves its session as open or as stopped as it was, and  *)
(* counts the request it begins or ends.                                   *)
LEMMA Continues ==
    ASSUME IInv, NEW s \in Sessions, NEW x \in Members, NEW g, Continue(s, x, g),
           Open(s) <=> x.phase \notin {"none", "stopped"},
           x.active => Open(s),
           g \in [connections : Nat, requests : Nat],
           g.connections = gauges.connections,
           g.requests = gauges.requests + One(x.active) - One(session[s].active)
    PROVE  GaugesAgree' /\ RegistryAgrees'
<1> USE DEF IInv, SessionTypeOK
<1>1. /\ session' = [session EXCEPT ![s] = x]
      /\ gauges' = g
      /\ leaving' = leaving /\ connections' = connections
  BY DEF Continue, Put
<1>2. OpenIn(session') = OpenIn(session)
  BY <1>1 DEF OpenIn, Open
<1>3. ActiveIn(session') = IF x.active THEN ActiveIn(session) \cup {s}
                                       ELSE ActiveIn(session) \ {s}
  BY <1>1 DEF ActiveIn
<1>4. s \in ActiveIn(session) <=> session[s].active
  BY DEF ActiveIn
<1>5. Cardinality(ActiveIn(session')) = g.requests
  <2> DEFINE A == ActiveIn(session)
  <2>1. A \in SUBSET Sessions
    BY DEF ActiveIn
  <2>2. gauges.requests = Cardinality(A)
    BY Gauged
  <2> HIDE DEF A
  <2>3. /\ Cardinality(A) \in Nat
        /\ s \notin A => Cardinality(A \cup {s}) = Cardinality(A) + 1
        /\ s \in A => Cardinality(A \ {s}) = Cardinality(A) - 1
    BY <2>1, CountOne
  <2>4. CASE x.active /\ s \in A
    <3>1. A \cup {s} = A
      BY <2>4
    <3>2. ActiveIn(session') = A
      BY <1>3, <2>4, <3>1 DEF A
    <3>3. session[s].active = x.active
      BY <1>4, <2>4 DEF A, Members
    <3> QED
      BY <2>2, <2>3, <3>2, <3>3 DEF One
  <2>5. CASE ~x.active /\ s \notin A
    <3>1. A \ {s} = A
      BY <2>5
    <3>2. ActiveIn(session') = A
      BY <1>3, <2>5, <3>1 DEF A
    <3>3. session[s].active = x.active
      BY <1>4, <2>5 DEF A, Members
    <3> QED
      BY <2>2, <2>3, <3>2, <3>3 DEF One
  <2>6. CASE x.active /\ s \notin A
    BY <1>3, <1>4, <2>2, <2>3, <2>6 DEF One, A
  <2>7. CASE ~x.active /\ s \in A
    BY <1>3, <1>4, <2>2, <2>3, <2>7 DEF One, A
  <2> QED
    BY <2>4, <2>5, <2>6, <2>7
<1>6. ActiveIn(session') \subseteq OpenIn(session')
  BY <1>2, <1>3, Gauged DEF OpenIn, Open
<1>7. GaugesAgree'
  BY <1>1, <1>2, <1>5, <1>6, Gauged, GaugedAfter
<1>8. \A r \in Sessions : Open(r)' <=> Open(r)
  BY <1>1 DEF Open
<1>9. RegistryAgrees'
  BY <1>1, <1>8 DEF RegistryAgrees
<1> QED
  BY <1>7, <1>9

(* A handler that ends its session.                                        *)
LEMMA Disconnects ==
    ASSUME IInv, NEW s \in Sessions, NEW x \in Members, NEW g,
           handle_disconnect(s, x, g), Open(s),
           g \in [connections : Nat, requests : Nat],
           g.connections = gauges.connections,
           g.requests = gauges.requests + One(x.active) - One(session[s].active)
    PROVE  /\ GaugesAgree' /\ RegistryAgrees'
           /\ gauges' \in [connections : Nat, requests : Nat]
           /\ leaving' \subseteq Sessions
<1> USE DEF IInv, SessionTypeOK
<1>1. /\ session' = [session EXCEPT ![s] =
                       [x EXCEPT !.phase = "stopped", !.active = FALSE]]
      /\ gauges' = connection_closed(finish_request(x, g))
      /\ leaving' = leaving \cup {s} /\ connections' = connections
  BY DEF handle_disconnect, Put
<1>2. OpenIn(session') = OpenIn(session) \ {s}
  BY <1>1 DEF OpenIn, Members
<1>3. ActiveIn(session') = ActiveIn(session) \ {s}
  BY <1>1 DEF ActiveIn, Members
<1>4. /\ s \in OpenIn(session)
      /\ s \in ActiveIn(session) <=> session[s].active
      /\ OpenIn(session) \in SUBSET Sessions
      /\ ActiveIn(session) \in SUBSET Sessions
  BY DEF OpenIn, ActiveIn, Open
<1>5. /\ gauges.connections = Cardinality(OpenIn(session))
      /\ gauges.requests = Cardinality(ActiveIn(session))
      /\ gauges.connections \in Nat /\ gauges.requests \in Nat
  BY Gauged
<1>6. /\ gauges.connections > 0
      /\ Cardinality(OpenIn(session')) = gauges.connections - 1
  BY <1>2, <1>4, <1>5, CountOne
<1>7. /\ session[s].active => gauges.requests > 0
      /\ Cardinality(ActiveIn(session')) =
           gauges.requests - One(session[s].active)
  <2>1. CASE session[s].active
    BY <1>3, <1>4, <1>5, <2>1, CountOne DEF One
  <2>2. CASE ~session[s].active
    <3>1. ActiveIn(session') = ActiveIn(session)
      BY <1>3, <1>4, <2>2
    <3> QED
      BY <1>5, <2>2, <3>1 DEF One
  <2> QED
    BY <2>1, <2>2
<1>8. /\ gauges'.connections = gauges.connections - 1
      /\ gauges'.requests = gauges.requests - One(session[s].active)
      /\ gauges' \in [connections : Nat, requests : Nat]
  <2>1. x.active \in BOOLEAN /\ session[s].active \in BOOLEAN
    BY DEF Members
  <2> QED
    BY <1>1, <1>5, <1>6, <1>7, <2>1 DEF connection_closed, finish_request, request_finished, Decrement,
       One
<1>9. GaugesAgree'
  BY <1>2, <1>3, <1>6, <1>7, <1>8, Gauged, GaugedAfter
<1>10. \A r \in Sessions : Open(r)' <=> Open(r) /\ r # s
  BY <1>1 DEF Open, Members
<1>11. RegistryAgrees'
  BY <1>1, <1>10 DEF RegistryAgrees
<1> QED
  BY <1>1, <1>8, <1>9, <1>11

-----------------------------------------------------------------------------
(* The shapes of a step.                                                   *)

PoolOK ==
    /\ open \in BOOLEAN
    /\ pending \subseteq Tasks
    /\ executed \subseteq Tasks
    /\ refused \subseteq Tasks
    /\ stopped \in BOOLEAN

(* A step that leaves the pool alone.                                      *)
LEMMA PoolLeft ==
    ASSUME SessionTypeOK, UNCHANGED poolVars
    PROVE  PoolOK' /\ pending' = pending
BY DEF SessionTypeOK, poolVars, PoolOK

LEMMA ContinueStep ==
    ASSUME IInv, NEW s \in Sessions, NEW x, NEW g, Continue(s, x, g),
           Open(s) <=> x.phase \notin {"none", "stopped"},
           ~Open(s) => x.phase = "stopped",
           LocalOK(s, x, pending'),
           g \in [connections : Nat, requests : Nat],
           g.connections = gauges.connections,
           g.requests = gauges.requests + One(x.active) - One(session[s].active),
           PoolOK',
           \A r \in Sessions \ {s}, n \in 1 .. MaxRequests :
               <<r, n>> \in pending' <=> <<r, n>> \in pending
    PROVE  IInv'
<1>1. LocalInv' /\ session' \in [Sessions -> Members]
  BY OneSession DEF IInv, Continue
<1>2. x \in Members /\ (x.active => Open(s))
  BY DEF LocalOK, PhaseOK
<1>3. GaugesAgree' /\ RegistryAgrees'
  BY <1>2, Continues
<1>4. SessionTypeOK'
  BY <1>1 DEF IInv, SessionTypeOK, Continue, PoolOK
<1>5. LeavingStopped'
  BY DEF IInv, LeavingStopped, SessionTypeOK, RegistryAgrees, Continue, Put
<1> QED
  BY <1>1, <1>3, <1>4, <1>5 DEF IInv

(* The members x when a session ends.                                      *)
StopOK(s, x) ==
    /\ x \in Members
    /\ \A n \in 1 .. MaxRequests : <<s, n>> \in pending => n = x.requests
    /\ x.op = <<>> \/ \E o \in Operations : x.op = <<o>>
    /\ InPool(s, pending) => x.op = <<>> /\ ~Answered(x)
    /\ Answered(x) => x.op = <<>>
    /\ x.draining => x.drainedAt <= x.requests /\ x.requests <= x.drainedAt + 1

LEMMA DisconnectStep ==
    ASSUME IInv, NEW s \in Sessions, NEW x, NEW g, handle_disconnect(s, x, g),
           Open(s), StopOK(s, x), UNCHANGED poolVars,
           g \in [connections : Nat, requests : Nat],
           g.connections = gauges.connections,
           g.requests = gauges.requests + One(x.active) - One(session[s].active)
    PROVE  IInv'
<1> DEFINE y == [x EXCEPT !.phase = "stopped", !.active = FALSE]
<1>1. PoolOK' /\ pending' = pending
  BY PoolLeft DEF IInv
<1>2. LocalOK(s, y, pending')
  <2>1. /\ y \in Members /\ y.phase = "stopped" /\ y.active = FALSE
        /\ y.op = x.op /\ y.posted = x.posted /\ y.requests = x.requests
        /\ y.draining = x.draining /\ y.drainedAt = x.drainedAt
    BY DEF StopOK, Members, Phases
  <2> HIDE DEF y
  <2> QED
    BY <1>1, <2>1 DEF StopOK, LocalOK, PhaseOK, DrainOK, Answered
<1>3. Put(s, y)
  BY DEF handle_disconnect
<1>4. LocalInv' /\ session' \in [Sessions -> Members]
  BY <1>1, <1>2, <1>3, OneSession DEF IInv
<1>5. /\ GaugesAgree' /\ RegistryAgrees'
      /\ gauges' \in [connections : Nat, requests : Nat]
      /\ leaving' \subseteq Sessions
  BY Disconnects DEF StopOK
<1>6. SessionTypeOK'
  BY <1>1, <1>4, <1>5 DEF IInv, SessionTypeOK, PoolOK, handle_disconnect
<1>7. LeavingStopped'
  <2>1. y.phase = "stopped"
    BY DEF StopOK, Members
  <2> HIDE DEF y
  <2> QED
    BY <1>3, <2>1 DEF IInv, LeavingStopped, SessionTypeOK, handle_disconnect, Put
<1> QED
  BY <1>4, <1>5, <1>6, <1>7 DEF IInv

(* The gauges a handler ends with.                                         *)
LEMMA GaugeValues ==
    ASSUME IInv, NEW s \in Sessions
    PROVE  /\ gauges \in [connections : Nat, requests : Nat]
           /\ request_started(gauges) \in [connections : Nat, requests : Nat]
           /\ request_started(gauges).connections = gauges.connections
           /\ request_started(gauges).requests = gauges.requests + 1
           /\ finish_request(session[s], gauges)
                \in [connections : Nat, requests : Nat]
           /\ finish_request(session[s], gauges).connections = gauges.connections
           /\ finish_request(session[s], gauges).requests =
                gauges.requests - One(session[s].active)
<1>1. gauges \in [connections : Nat, requests : Nat]
  BY DEF IInv, SessionTypeOK
<1>2. session[s].active => gauges.requests > 0
  <2>1. ActiveIn(session) \in SUBSET Sessions
    BY DEF ActiveIn
  <2>2. session[s].active => s \in ActiveIn(session)
    BY DEF ActiveIn
  <2>3. gauges.requests = Cardinality(ActiveIn(session))
    BY Gauged DEF IInv
  <2> QED
    BY <2>1, <2>2, <2>3, CountOne
<1>3. session[s].active \in BOOLEAN
  BY DEF IInv, SessionTypeOK, Members
<1> QED
  BY <1>1, <1>2, <1>3 DEF request_started, finish_request, request_finished,
     Decrement, One

-----------------------------------------------------------------------------
(* One lemma per kind of handler.                                          *)

(* What the invariant says of the session that takes a step.               *)
LEMMA Here ==
    ASSUME IInv, NEW s \in Sessions
    PROVE  /\ session[s] \in Members
           /\ PhaseOK(s, session[s], pending)
           /\ DrainOK(session[s])
           /\ SessionTypeOK /\ LocalInv
           /\ gauges \in [connections : Nat, requests : Nat]
BY DEF IInv, LocalInv, LocalOK, SessionTypeOK

LEMMA TooLateStep ==
    ASSUME IInv, NEW s \in Sessions, NEW post \in Posts, TooLate(s, post)
    PROVE  IInv'
<1> DEFINE x == Taken(s, post)
<1>1. /\ session[s].phase = "stopped" /\ UNCHANGED poolVars
      /\ Continue(s, x, gauges)
  BY DEF TooLate
<1>2. PoolOK' /\ pending' = pending
  BY <1>1, PoolLeft DEF IInv
<1>3. /\ x \in Members /\ x.phase = "stopped"
      /\ x.active = session[s].active /\ x.op = session[s].op
      /\ x.posted \subseteq session[s].posted /\ x.requests = session[s].requests
      /\ x.draining = session[s].draining /\ x.drainedAt = session[s].drainedAt
  BY <1>1, Here DEF Taken, Members
<1> HIDE DEF x
<1>4. LocalOK(s, x, pending')
  BY <1>1, <1>2, <1>3, Here DEF LocalOK, PhaseOK, DrainOK, Answered
<1>5. gauges.requests = gauges.requests + One(x.active) - One(session[s].active)
  BY <1>3, Here DEF One
<1> QED
  BY <1>1, <1>2, <1>3, <1>4, <1>5, ContinueStep, Here DEF Open

LEMMA AbortedStep ==
    ASSUME IInv, NEW s \in Sessions, Aborted(s)
    PROVE  IInv'
<1> DEFINE x == Done(s)
<1>1. /\ session[s].phase = "stopped" /\ UNCHANGED poolVars
      /\ session[s].op # <<>> /\ Continue(s, x, gauges)
  BY DEF Aborted
<1>2. PoolOK' /\ pending' = pending
  BY <1>1, PoolLeft DEF IInv
<1>3. PICK o \in Operations : session[s].op = <<o>>
  BY <1>1, Here DEF PhaseOK
<1>4. x = [session[s] EXCEPT !.op = <<>>]
  BY <1>3, Here DEF Done, Members
<1>5. <<>> \in Seq(Operations)
  OBVIOUS
<1>6. /\ x \in Members /\ x.phase = "stopped"
      /\ x.active = session[s].active /\ x.op = <<>>
      /\ x.posted = session[s].posted /\ x.requests = session[s].requests
      /\ x.draining = session[s].draining /\ x.drainedAt = session[s].drainedAt
  BY <1>1, <1>4, <1>5, Here DEF Members
<1> HIDE DEF x
<1>7. LocalOK(s, x, pending')
  BY <1>1, <1>2, <1>3, <1>6, Here DEF LocalOK, PhaseOK, DrainOK, Answered
<1>8. gauges.requests = gauges.requests + One(x.active) - One(session[s].active)
  BY <1>6, Here DEF One
<1> QED
  BY <1>1, <1>2, <1>6, <1>7, <1>8, ContinueStep, Here DEF Open

LEMMA StartStep ==
    ASSUME IInv, NEW s \in Sessions, do_start(s)
    PROVE  IInv'
<1> DEFINE y == IF Tls THEN do_handshake(Taken(s, "start"))
                       ELSE do_read(Taken(s, "start"))
           p == IF Tls THEN "handshaking" ELSE "reading"
           o == IF Tls THEN "handshake" ELSE "read"
<1>1. /\ "start" \in session[s].posted /\ session[s].phase # "stopped"
      /\ Continue(s, y, gauges) /\ UNCHANGED poolVars
  BY DEF do_start
<1>2. PoolOK' /\ pending' = pending
  BY <1>1, PoolLeft DEF IInv
<1>3. session[s].phase = "created" /\ session[s].op = <<>>
  BY <1>1, Here DEF PhaseOK, OperationOf
<1>4. /\ Taken(s, "start") \in Members
      /\ Taken(s, "start").op = <<>>
      /\ Taken(s, "start") =
           [session[s] EXCEPT !.posted = session[s].posted \ {"start"}]
  BY <1>3, Here DEF Taken, Members
<1>5. y = [Taken(s, "start") EXCEPT !.phase = p, !.op = <<o>>]
  BY <1>4, Initiated, TlsAssumption DEF do_handshake, do_read, Phases, Operations
<1>6. <<o>> \in Seq(Operations) /\ o \in Operations /\ p \in Phases
  BY DEF Operations, Phases
<1>7. /\ y \in Members /\ y.phase = p /\ y.op = <<o>>
      /\ y.active = session[s].active
      /\ y.posted = session[s].posted \ {"start"}
      /\ y.requests = session[s].requests
      /\ y.draining = session[s].draining
  BY <1>4, <1>5, <1>6, Here DEF Members
<1>8. p \in {"handshaking", "reading"} /\ <<o>> = OperationOf(p)
  BY DEF OperationOf
<1> HIDE DEF y, p, o
<1>9. LocalOK(s, y, pending')
  BY <1>2, <1>3, <1>7, <1>8, Here DEF LocalOK, PhaseOK, DrainOK, Answered
<1>10. gauges.requests = gauges.requests + One(y.active) - One(session[s].active)
  BY <1>7, Here DEF One
<1> QED
  BY <1>1, <1>2, <1>3, <1>7, <1>8, <1>9, <1>10, ContinueStep, Here DEF Open

(* Open sessions.                                                          *)
LEMMA EndsOK ==
    ASSUME IInv, NEW s \in Sessions, Open(s) PROVE StopOK(s, session[s])
<1>1. /\ session[s].phase \in Phases
      /\ session[s].op = OperationOf(session[s].phase)
  BY Here DEF PhaseOK, Open, Members
<1>2. session[s].op = <<>> \/ \E o \in Operations : session[s].op = <<o>>
  BY <1>1 DEF OperationOf, Operations
<1>3. /\ InPool(s, pending) => session[s].phase = "processing"
      /\ Answered(session[s]) => session[s].phase = "processing"
  BY Here DEF PhaseOK, Open
<1>4. session[s].phase = "processing" => session[s].op = <<>>
  BY <1>1 DEF OperationOf
<1> QED
  BY <1>2, <1>3, <1>4, Here DEF StopOK, PhaseOK, DrainOK

LEMMA DrainStep ==
    ASSUME IInv, NEW s \in Sessions, do_drain(s)
    PROVE  IInv'
<1> DEFINE x == Taken(s, "drain")
           y == [x EXCEPT !.draining = TRUE, !.drainedAt = x.requests]
<1>1. /\ "drain" \in session[s].posted /\ "start" \notin session[s].posted
      /\ session[s].phase # "stopped" /\ UNCHANGED poolVars
      /\ IF x.draining THEN Continue(s, x, gauges)
         ELSE IF x.phase \in {"created", "handshaking"}
         THEN handle_disconnect(s, y, gauges)
         ELSE Continue(s, y, gauges)
  BY DEF do_drain
<1>2. PoolOK' /\ pending' = pending
  BY <1>1, PoolLeft DEF IInv
<1>3. session[s].phase # "none"
  <2>1. session[s].phase = "none" => session[s].posted = {}
    BY Here DEF PhaseOK, NoSession
  <2> QED
    BY <1>1, <2>1
<1>4. Open(s)
  BY <1>1, <1>3 DEF Open
<1>5. /\ x \in Members /\ x.phase = session[s].phase
      /\ x.active = session[s].active /\ x.op = session[s].op
      /\ x.posted = session[s].posted \ {"drain"} /\ x.close = session[s].close
      /\ x.requests = session[s].requests
      /\ x.draining = session[s].draining /\ x.drainedAt = session[s].drainedAt
  BY Here DEF Taken, Members
<1>6. /\ y \in Members /\ y.phase = session[s].phase
      /\ y.active = session[s].active /\ y.op = session[s].op
      /\ y.posted = session[s].posted \ {"drain"}
      /\ y.requests = session[s].requests
      /\ y.draining = TRUE /\ y.drainedAt = session[s].requests
  BY <1>5 DEF Members
<1> HIDE DEF x, y
<1>7. /\ gauges.requests = gauges.requests + One(x.active) - One(session[s].active)
      /\ gauges.requests = gauges.requests + One(y.active) - One(session[s].active)
  BY <1>5, <1>6, Here DEF One
<1>8. CASE x.draining
  <2>1. LocalOK(s, x, pending')
    BY <1>2, <1>3, <1>4, <1>5, Here DEF LocalOK, PhaseOK, DrainOK, Answered, Open
  <2> QED
    BY <1>1, <1>2, <1>4, <1>5, <1>7, <1>8, <2>1, ContinueStep, Here DEF Open
<1>9. CASE ~x.draining /\ x.phase \in {"created", "handshaking"}
  <2>1. StopOK(s, y)
    BY <1>4, <1>6, EndsOK DEF StopOK, Answered, Members
  <2> QED
    BY <1>1, <1>4, <1>7, <1>9, <2>1, DisconnectStep, Here
<1>10. CASE ~x.draining /\ x.phase \notin {"created", "handshaking"}
  <2>1. PhaseOK(s, y, pending')
    BY <1>2, <1>3, <1>4, <1>6, Here DEF PhaseOK, Answered, Open
  <2>2. DrainOK(y)
    BY <1>3, <1>5, <1>6, <1>10, Here DEF DrainOK, Members
  <2> QED
    BY <1>1, <1>2, <1>4, <1>6, <1>7, <1>10, <2>1, <2>2, ContinueStep, Here
    DEF Open, LocalOK
<1> QED
  BY <1>8, <1>9, <1>10

LEMMA StopStep ==
    ASSUME IInv, NEW s \in Sessions, do_stop(s)
    PROVE  IInv'
<1> DEFINE x == Taken(s, "stop")
<1>1. /\ "stop" \in session[s].posted /\ session[s].phase # "stopped"
      /\ UNCHANGED poolVars /\ handle_disconnect(s, x, gauges)
  BY DEF do_stop
<1>2. Open(s)
  <2>1. session[s].phase = "none" => session[s].posted = {}
    BY Here DEF PhaseOK, NoSession
  <2> QED
    BY <1>1, <2>1 DEF Open
<1>3. /\ x \in Members /\ x.active = session[s].active /\ x.op = session[s].op
      /\ x.posted = session[s].posted \ {"stop"}
      /\ x.requests = session[s].requests
      /\ x.draining = session[s].draining /\ x.drainedAt = session[s].drainedAt
  BY Here DEF Taken, Members
<1> HIDE DEF x
<1>4. StopOK(s, x)
  BY <1>2, <1>3, EndsOK DEF StopOK, Answered
<1>5. gauges.requests = gauges.requests + One(x.active) - One(session[s].active)
  BY <1>3, Here DEF One
<1> QED
  BY <1>1, <1>2, <1>4, <1>5, DisconnectStep, Here

(* The end of every handler that sends a response.                         *)
LEMMA SendStep ==
    ASSUME IInv, NEW s \in Sessions, NEW x \in Members, NEW c \in BOOLEAN,
           NEW g, Continue(s, send_response(x, c), g),
           Open(s), x.op = <<>>, "start" \notin x.posted,
           ~InPool(s, pending'), ~Answered(x),
           x.draining => x.drainedAt <= x.requests /\ x.requests <= x.drainedAt + 1,
           g \in [connections : Nat, requests : Nat],
           g.connections = gauges.connections,
           g.requests = gauges.requests + One(x.active) - One(session[s].active),
           PoolOK',
           \A r \in Sessions \ {s}, n \in 1 .. MaxRequests :
               <<r, n>> \in pending' <=> <<r, n>> \in pending
    PROVE  IInv'
<1> DEFINE y == send_response(x, c)
<1>1. y = [x EXCEPT !.phase = "writing", !.op = <<"write">>,
                    !.close = c \/ x.draining]
  BY Initiated DEF send_response, Phases, Operations, Members
<1>2. <<"write">> \in Seq(Operations) /\ (c \/ x.draining) \in BOOLEAN
  BY DEF Operations
<1>3. /\ y \in Members /\ y.phase = "writing" /\ y.op = <<"write">>
      /\ y.close = (c \/ x.draining)
      /\ y.active = x.active /\ y.posted = x.posted
      /\ y.requests = x.requests
      /\ y.draining = x.draining /\ y.drainedAt = x.drainedAt
  BY <1>1, <1>2 DEF Members, Phases
<1> HIDE DEF y
<1>4. PhaseOK(s, y, pending')
  BY <1>3 DEF PhaseOK, Answered, OperationOf, InPool
<1>5. DrainOK(y)
  BY <1>3 DEF DrainOK
<1> QED
  BY <1>3, <1>4, <1>5, ContinueStep DEF LocalOK, y

(* The end of every handler that waits for the next request.               *)
LEMMA ReadStep ==
    ASSUME IInv, NEW s \in Sessions, NEW x \in Members, NEW g,
           Continue(s, do_read(x), g), UNCHANGED poolVars,
           Open(s), x.op = <<>>, x.active = FALSE, "start" \notin x.posted,
           ~InPool(s, pending), ~Answered(x),
           x.draining => x.requests = x.drainedAt,
           g \in [connections : Nat, requests : Nat],
           g.connections = gauges.connections,
           g.requests = gauges.requests - One(session[s].active)
    PROVE  IInv'
<1> DEFINE y == do_read(x)
<1>1. y = [x EXCEPT !.phase = "reading", !.op = <<"read">>]
  BY Initiated DEF do_read, Phases, Operations
<1>2. <<"read">> \in Seq(Operations)
  BY DEF Operations
<1>3. /\ y \in Members /\ y.phase = "reading" /\ y.op = <<"read">>
      /\ y.active = FALSE /\ y.posted = x.posted
      /\ y.requests = x.requests
      /\ y.draining = x.draining /\ y.drainedAt = x.drainedAt
      /\ y.requests \in Nat /\ y.drainedAt \in Nat
  BY <1>1, <1>2 DEF Members, Phases
<1> HIDE DEF y
<1>4. PoolOK' /\ pending' = pending
  BY PoolLeft DEF IInv
<1>5. PhaseOK(s, y, pending')
  BY <1>3, <1>4 DEF PhaseOK, Answered, OperationOf, InPool
<1>6. DrainOK(y)
  BY <1>3 DEF DrainOK
<1>7. g.requests = gauges.requests + One(y.active) - One(session[s].active)
  BY <1>3, Here DEF One
<1> QED
  BY <1>3, <1>4, <1>5, <1>6, <1>7, ContinueStep DEF LocalOK, y

LEMMA CompleteStep ==
    ASSUME IInv, NEW s \in Sessions, NEW keep \in BOOLEAN,
           complete_request(s, keep)
    PROVE  IInv'
<1> DEFINE x == Taken(s, "complete")
<1>1. /\ Answered(session[s]) /\ session[s].phase # "stopped"
      /\ Continue(s, send_response(x, ~keep), gauges) /\ UNCHANGED poolVars
  BY DEF complete_request, Answered
<1>2. PoolOK' /\ pending' = pending
  BY <1>1, PoolLeft DEF IInv
<1>3. session[s].phase = "processing" /\ Open(s)
  BY <1>1, Here DEF PhaseOK, Open
<1>4. /\ ~InPool(s, pending) /\ session[s].op = <<>>
      /\ "start" \notin session[s].posted
  BY <1>1, <1>3, Here DEF PhaseOK, OperationOf
<1>5. /\ x \in Members /\ x.active = session[s].active /\ x.op = session[s].op
      /\ x.posted = session[s].posted \ {"complete"}
      /\ x.requests = session[s].requests
      /\ x.draining = session[s].draining /\ x.drainedAt = session[s].drainedAt
  BY Here DEF Taken, Members
<1> HIDE DEF x
<1>6. gauges.requests = gauges.requests + One(x.active) - One(session[s].active)
  BY <1>5, Here DEF One
<1>7. x.draining => x.drainedAt <= x.requests /\ x.requests <= x.drainedAt + 1
  BY <1>5, Here DEF DrainOK
<1>8. "start" \notin x.posted /\ ~Answered(x)
  BY <1>4, <1>5 DEF Answered
<1> QED
  BY <1>1, <1>2, <1>3, <1>4, <1>5, <1>6, <1>7, <1>8, SendStep, Here

(* The members when the handler of a read or a write begins.               *)
LEMMA DoneIs ==
    ASSUME IInv, NEW s \in Sessions, NEW o \in Operations, Completes(s, o)
    PROVE  /\ Done(s) \in Members /\ Done(s).op = <<>>
           /\ Done(s).active = session[s].active
           /\ Done(s).posted = session[s].posted
           /\ Done(s).requests = session[s].requests
           /\ Done(s).close = session[s].close
           /\ Done(s).draining = session[s].draining
           /\ Done(s).drainedAt = session[s].drainedAt
           /\ ~InPool(s, pending) /\ ~Answered(Done(s))
           /\ "start" \notin Done(s).posted
           /\ Open(s)
           /\ o = "read" => session[s].phase = "reading"
           /\ o = "write" => session[s].phase = "writing"
           /\ o = "handshake" => session[s].phase = "handshaking"
           /\ o \in {"handshake", "read", "shutdown"} => ~session[s].active
<1>1. /\ Done(s) = [session[s] EXCEPT !.op = <<>>]
      /\ Done(s) \in Members
      /\ ~InPool(s, pending) /\ ~Answered(session[s])
      /\ session[s].phase = CASE o = "handshake" -> "handshaking"
                               [] o = "read" -> "reading"
                               [] o = "write" -> "writing"
                               [] o = "shutdown" -> "shutting_down"
  BY OperationDone, Here
<1>2. /\ o = "read" => session[s].phase = "reading"
      /\ o = "write" => session[s].phase = "writing"
      /\ o = "handshake" => session[s].phase = "handshaking"
      /\ o = "shutdown" => session[s].phase = "shutting_down"
  BY <1>1 DEF Operations
<1>3. /\ Done(s).op = <<>>
      /\ Done(s).active = session[s].active
      /\ Done(s).posted = session[s].posted
      /\ Done(s).requests = session[s].requests
      /\ Done(s).close = session[s].close
      /\ Done(s).draining = session[s].draining
      /\ Done(s).drainedAt = session[s].drainedAt
  BY <1>1, Here DEF Members
<1>4. Open(s) /\ "start" \notin session[s].posted
  BY <1>2, Here DEF Open, PhaseOK, Operations
<1>5. o \in {"handshake", "read", "shutdown"} => ~session[s].active
  BY <1>2, Here DEF PhaseOK
<1> QED
  BY <1>1, <1>2, <1>3, <1>4, <1>5 DEF Answered

LEMMA HandshakeStep ==
    ASSUME IInv, NEW s \in Sessions, HandshakeSucceeds(s)
    PROVE  IInv'
<1>1. /\ Completes(s, "handshake") /\ UNCHANGED poolVars
      /\ Continue(s, do_read(Done(s)), gauges)
  BY DEF HandshakeSucceeds
<1>2. /\ Done(s) \in Members /\ Done(s).op = <<>>
      /\ Done(s).active = session[s].active
      /\ Done(s).draining = session[s].draining
      /\ ~InPool(s, pending) /\ ~Answered(Done(s))
      /\ "start" \notin Done(s).posted
      /\ Open(s) /\ ~session[s].active
      /\ session[s].phase = "handshaking"
  BY <1>1, DoneIs DEF Operations
<1>3. ~Done(s).draining
  BY <1>2, Here DEF DrainOK
<1>4. Done(s).active = FALSE
  BY <1>2, Here DEF Members
<1>5. gauges.requests = gauges.requests - One(session[s].active)
  BY <1>2, Here DEF One
<1> QED
  BY <1>1, <1>2, <1>3, <1>4, <1>5, ReadStep, Here

LEMMA FailStep ==
    ASSUME IInv, NEW s \in Sessions, OperationFails(s)
    PROVE  IInv'
<1>1. PICK o \in {"handshake", "read", "shutdown"} : Completes(s, o)
  BY DEF OperationFails
<1>2. handle_disconnect(s, Done(s), gauges) /\ UNCHANGED poolVars
  BY DEF OperationFails
<1>3. /\ Done(s) \in Members /\ Done(s).op = <<>>
      /\ Done(s).active = session[s].active
      /\ Done(s).requests = session[s].requests
      /\ Done(s).draining = session[s].draining
      /\ Done(s).drainedAt = session[s].drainedAt
      /\ ~InPool(s, pending) /\ ~Answered(Done(s)) /\ Open(s)
  BY <1>1, DoneIs DEF Operations
<1>4. StopOK(s, Done(s))
  BY <1>3, Here DEF StopOK, DrainOK, PhaseOK
<1>5. gauges.requests = gauges.requests + One(Done(s).active) - One(session[s].active)
  BY <1>3, Here DEF One
<1> QED
  BY <1>2, <1>3, <1>4, <1>5, DisconnectStep, Here

(* The members after a request was read.                                   *)
LEMMA ReceivedIs ==
    ASSUME IInv, NEW s \in Sessions, Reads(s)
    PROVE  /\ Received(s) \in Members /\ Received(s).op = <<>>
           /\ Received(s).phase = "processing" /\ Received(s).active = TRUE
           /\ Received(s).posted = session[s].posted
           /\ Received(s).requests = session[s].requests + 1
           /\ Received(s).requests \in 1 .. MaxRequests
           /\ Received(s).draining = session[s].draining
           /\ Received(s).drainedAt = session[s].drainedAt
           /\ Received(s).draining =>
                /\ Received(s).drainedAt <= Received(s).requests
                /\ Received(s).requests <= Received(s).drainedAt + 1
           /\ ~InPool(s, pending) /\ ~Answered(Received(s))
           /\ "start" \notin Received(s).posted
           /\ Open(s) /\ ~session[s].active
           /\ session[s].phase = "reading"
<1>1. Completes(s, "read") /\ session[s].requests < MaxRequests
  BY DEF Reads
<1>2. /\ Done(s) \in Members /\ Done(s).op = <<>>
      /\ Done(s).posted = session[s].posted
      /\ Done(s).requests = session[s].requests
      /\ Done(s).draining = session[s].draining
      /\ Done(s).drainedAt = session[s].drainedAt
      /\ ~InPool(s, pending) /\ ~Answered(Done(s))
      /\ "start" \notin Done(s).posted
      /\ Open(s) /\ ~session[s].active
      /\ session[s].phase = "reading"
  BY <1>1, DoneIs DEF Operations
<1>3. /\ Received(s) \in Members /\ Received(s).op = <<>>
      /\ Received(s).phase = "processing" /\ Received(s).active = TRUE
      /\ Received(s).posted = session[s].posted
      /\ Received(s).requests = session[s].requests + 1
      /\ Received(s).draining = session[s].draining
      /\ Received(s).drainedAt = session[s].drainedAt
  <2>1. Received(s) = [Done(s) EXCEPT !.requests = session[s].requests + 1,
                                      !.active = TRUE, !.phase = "processing"]
    BY <1>2 DEF Received, Members
  <2>2. session[s].requests + 1 \in Nat /\ "processing" \in Phases
    BY Here DEF Members, Phases
  <2> QED
    BY <1>2, <2>1, <2>2 DEF Members
<1>4. session[s].requests \in Nat /\ session[s].drainedAt \in Nat
  BY Here DEF Members
<1>5. session[s].draining => session[s].requests = session[s].drainedAt
  BY <1>2, Here DEF DrainOK
<1> QED
  BY <1>1, <1>2, <1>3, <1>4, <1>5, LimitsAssumption DEF Answered

LEMMA RefuseStep ==
    ASSUME IInv, NEW s \in Sessions, ReadRejected(s) \/ RequestRefused(s)
    PROVE  IInv'
<1>1. /\ Reads(s)
      /\ Continue(s, send_response(Received(s), TRUE), request_started(gauges))
  BY DEF ReadRejected, RequestRefused
<1>2. /\ Received(s) \in Members /\ Received(s).op = <<>>
      /\ Received(s).active = TRUE
      /\ Received(s).requests = session[s].requests + 1
      /\ Received(s).requests \in 1 .. MaxRequests
      /\ Received(s).draining =>
           /\ Received(s).drainedAt <= Received(s).requests
           /\ Received(s).requests <= Received(s).drainedAt + 1
      /\ ~InPool(s, pending) /\ ~Answered(Received(s))
      /\ "start" \notin Received(s).posted
      /\ Open(s) /\ ~session[s].active
  BY <1>1, ReceivedIs
<1>3. PoolOK' /\ pending' = pending
  <2>1. CASE ReadRejected(s)
    BY <2>1, PoolLeft, Here DEF ReadRejected
  <2>2. CASE RequestRefused(s)
    <3>1. <<s, session[s].requests + 1>> \in Tasks
      BY <1>2 DEF Tasks
    <3> QED
      BY <2>2, <3>1, Here DEF RequestRefused, Pool!Refuse, PoolOK, SessionTypeOK
  <2> QED
    BY <2>1, <2>2
<1>4. request_started(gauges).requests =
        gauges.requests + One(Received(s).active) - One(session[s].active)
  BY <1>2, GaugeValues, Here DEF One
<1> QED
  BY <1>1, <1>2, <1>3, <1>4, GaugeValues, SendStep

LEMMA RequestStep ==
    ASSUME IInv, NEW s \in Sessions, handle_request(s)
    PROVE  IInv'
<1> DEFINE x == Received(s)
<1>1. /\ Reads(s)
      /\ Continue(s, x, request_started(gauges))
      /\ Pool!Accept(<<s, session[s].requests + 1>>)
  BY DEF handle_request
<1>2. /\ x \in Members /\ x.op = <<>> /\ x.phase = "processing"
      /\ x.active = TRUE
      /\ x.requests = session[s].requests + 1
      /\ x.requests \in 1 .. MaxRequests
      /\ x.draining => x.drainedAt <= x.requests /\ x.requests <= x.drainedAt + 1
      /\ ~InPool(s, pending) /\ ~Answered(x) /\ "start" \notin x.posted
      /\ Open(s) /\ ~session[s].active
  BY <1>1, ReceivedIs
<1> HIDE DEF x
<1>3. pending' = pending \cup {<<s, x.requests>>}
  BY <1>1, <1>2 DEF Pool!Accept
<1>4. PoolOK'
  <2>1. <<s, x.requests>> \in Tasks
    BY <1>2 DEF Tasks
  <2> QED
    BY <1>1, <1>3, <2>1, Here DEF Pool!Accept, PoolOK, SessionTypeOK
<1>5. \A n \in 1 .. MaxRequests : <<s, n>> \in pending' <=> n = x.requests
  BY <1>2, <1>3 DEF InPool
<1>6. InPool(s, pending')
  BY <1>2, <1>5 DEF InPool
<1>7. PhaseOK(s, x, pending')
  BY <1>2, <1>5, <1>6 DEF PhaseOK, OperationOf
<1>8. LocalOK(s, x, pending')
  BY <1>2, <1>7 DEF LocalOK, DrainOK
<1>9. \A r \in Sessions \ {s}, n \in 1 .. MaxRequests :
        <<r, n>> \in pending' <=> <<r, n>> \in pending
  BY <1>3
<1>10. request_started(gauges).requests =
        gauges.requests + One(x.active) - One(session[s].active)
  BY <1>2, GaugeValues, Here DEF One
<1> QED
  BY <1>1, <1>2, <1>4, <1>8, <1>9, <1>10, GaugeValues, ContinueStep

LEMMA TooLargeStep ==
    ASSUME IInv, NEW s \in Sessions, ReadTooLarge(s)
    PROVE  IInv'
<1>1. /\ Completes(s, "read") /\ UNCHANGED poolVars
      /\ Continue(s, send_response(Done(s), TRUE), gauges)
  BY DEF ReadTooLarge
<1>2. PoolOK' /\ pending' = pending
  BY <1>1, PoolLeft DEF IInv
<1>3. /\ Done(s) \in Members /\ Done(s).op = <<>>
      /\ Done(s).active = session[s].active
      /\ Done(s).requests = session[s].requests
      /\ Done(s).draining = session[s].draining
      /\ Done(s).drainedAt = session[s].drainedAt
      /\ ~InPool(s, pending) /\ ~Answered(Done(s))
      /\ "start" \notin Done(s).posted /\ Open(s)
  BY <1>1, DoneIs DEF Operations
<1>4. gauges.requests = gauges.requests + One(Done(s).active) - One(session[s].active)
  BY <1>3, Here DEF One
<1>5. Done(s).draining => /\ Done(s).drainedAt <= Done(s).requests
                          /\ Done(s).requests <= Done(s).drainedAt + 1
  BY <1>3, Here DEF DrainOK
<1> QED
  BY <1>1, <1>2, <1>3, <1>4, <1>5, SendStep, Here

LEMMA WriteStep ==
    ASSUME IInv, NEW s \in Sessions, WriteSucceeds(s) \/ WriteFails(s)
    PROVE  IInv'
<1> DEFINE x == [Done(s) EXCEPT !.active = FALSE]
           g == finish_request(session[s], gauges)
<1>1. /\ Completes(s, "write") /\ UNCHANGED poolVars
      /\ \/ ~x.close /\ Continue(s, do_read(x), g)
         \/ x.close /\ Continue(s, do_tls_shutdown(x), g)
         \/ handle_disconnect(s, x, g)
  BY DEF WriteSucceeds, WriteFails
<1>2. /\ Done(s) \in Members /\ Done(s).op = <<>>
      /\ Done(s).posted = session[s].posted
      /\ Done(s).requests = session[s].requests
      /\ Done(s).close = session[s].close
      /\ Done(s).draining = session[s].draining
      /\ Done(s).drainedAt = session[s].drainedAt
      /\ ~InPool(s, pending) /\ ~Answered(Done(s))
      /\ "start" \notin Done(s).posted
      /\ Open(s) /\ session[s].phase = "writing"
  BY <1>1, DoneIs DEF Operations
<1>3. /\ x \in Members /\ x.op = <<>> /\ x.active = FALSE
      /\ x.posted = session[s].posted
      /\ x.requests = session[s].requests
      /\ x.close = session[s].close
      /\ x.draining = session[s].draining
      /\ x.drainedAt = session[s].drainedAt
      /\ ~Answered(x) /\ "start" \notin x.posted
  BY <1>2 DEF Members, Answered
<1>4. /\ g \in [connections : Nat, requests : Nat]
      /\ g.connections = gauges.connections
      /\ g.requests = gauges.requests - One(session[s].active)
  BY GaugeValues
<1>5. gauges.requests \in Nat /\ One(session[s].active) \in Nat
  BY Here DEF One
<1>6. g.requests = gauges.requests + One(x.active) - One(session[s].active)
  BY <1>3, <1>4, <1>5 DEF One
<1>7. /\ x.draining => x.drainedAt <= x.requests /\ x.requests <= x.drainedAt + 1
      /\ x.draining /\ ~x.close => x.requests = x.drainedAt
  BY <1>2, <1>3, Here DEF DrainOK
<1> HIDE DEF x, g
<1>8. CASE ~x.close /\ Continue(s, do_read(x), g)
  BY <1>1, <1>2, <1>3, <1>4, <1>7, <1>8, ReadStep
<1>9. CASE Continue(s, do_tls_shutdown(x), g)
  <2> DEFINE y == do_tls_shutdown(x)
  <2>1. y = [x EXCEPT !.phase = "shutting_down", !.op = <<"shutdown">>]
    BY <1>3, Initiated DEF do_tls_shutdown, Phases, Operations
  <2>2. <<"shutdown">> \in Seq(Operations)
    BY DEF Operations
  <2>3. /\ y \in Members /\ y.phase = "shutting_down" /\ y.op = <<"shutdown">>
        /\ y.active = FALSE /\ y.posted = x.posted
        /\ y.requests = x.requests
        /\ y.draining = x.draining /\ y.drainedAt = x.drainedAt
    BY <1>3, <2>1, <2>2 DEF Members, Phases
  <2>4. PoolOK' /\ pending' = pending
    BY <1>1, PoolLeft DEF IInv
  <2>5. Continue(s, y, g)
    BY <1>9
  <2> HIDE DEF y
  <2>6. PhaseOK(s, y, pending')
    BY <1>2, <1>3, <2>3, <2>4 DEF PhaseOK, Answered, OperationOf, InPool
  <2>7. LocalOK(s, y, pending')
    BY <1>7, <2>3, <2>6 DEF LocalOK, DrainOK
  <2>8. g.requests = gauges.requests + One(y.active) - One(session[s].active)
    BY <1>3, <1>6, <2>3
  <2> QED
    BY <1>2, <1>4, <2>3, <2>4, <2>5, <2>7, <2>8, ContinueStep
<1>10. CASE handle_disconnect(s, x, g)
  <2>1. StopOK(s, x)
    BY <1>2, <1>3, <1>7 DEF StopOK, InPool
  <2> QED
    BY <1>1, <1>2, <1>4, <1>6, <1>10, <2>1, DisconnectStep
<1> QED
  BY <1>1, <1>8, <1>9, <1>10

LEMMA TaskStep ==
    ASSUME IInv, NEW s \in Sessions, RunTask(s)
    PROVE  IInv'
<1>1. PICK n \in 1 .. MaxRequests : Pool!Execute(<<s, n>>)
  BY DEF RunTask
<1> DEFINE x == [session[s] EXCEPT !.posted = @ \cup {"complete"}]
<1>2. Continue(s, x, gauges)
  BY DEF RunTask, Continue
<1>3. /\ <<s, n>> \in pending /\ pending' = pending \ {<<s, n>>}
      /\ n = session[s].requests
  BY <1>1, Here DEF Pool!Execute, PhaseOK
<1>4. PoolOK'
  BY <1>1, Here DEF Pool!Execute, PoolOK, SessionTypeOK
<1>5. InPool(s, pending) /\ ~InPool(s, pending')
  <2>1. \A m \in 1 .. MaxRequests : <<s, m>> \in pending => m = n
    BY <1>3, Here DEF PhaseOK
  <2> QED
    BY <1>3, <2>1 DEF InPool
<1>6. session[s].phase \in {"processing", "stopped"} /\ session[s].op = <<>>
  BY <1>5, Here DEF PhaseOK, OperationOf
<1>7. /\ x \in Members /\ x.phase = session[s].phase
      /\ x.active = session[s].active /\ x.op = <<>> /\ x.close = session[s].close
      /\ x.posted = session[s].posted \cup {"complete"}
      /\ x.requests = session[s].requests
      /\ x.draining = session[s].draining /\ x.drainedAt = session[s].drainedAt
  BY <1>6, Here DEF Members, Posts
<1> HIDE DEF x
<1>8. PhaseOK(s, x, pending')
  <2>1. /\ x.phase = "none" => x = NoSession
        /\ x.phase # "stopped" => x.op = OperationOf(x.phase)
        /\ Answered(x)
        /\ \A m \in 1 .. MaxRequests : <<s, m>> \notin pending'
    BY <1>5, <1>6, <1>7 DEF OperationOf, Answered, InPool
  <2> QED
    BY <1>5, <1>6, <1>7, <2>1, Here DEF PhaseOK
<1>9. LocalOK(s, x, pending')
  BY <1>6, <1>7, <1>8, Here DEF LocalOK, DrainOK
<1>10. \A r \in Sessions \ {s}, m \in 1 .. MaxRequests :
        <<r, m>> \in pending' <=> <<r, m>> \in pending
  BY <1>3
<1>11. gauges.requests = gauges.requests + One(x.active) - One(session[s].active)
  BY <1>7, Here DEF One
<1>12. (Open(s) <=> x.phase \notin {"none", "stopped"}) /\ (~Open(s) => x.phase = "stopped")
  BY <1>6, <1>7 DEF Open
<1> QED
  BY <1>2, <1>4, <1>9, <1>10, <1>11, <1>12, ContinueStep, Here

LEMMA RegisterStep ==
    ASSUME IInv, NEW s \in Sessions, Register(s)
    PROVE  IInv'
<1> DEFINE x == [session[s] EXCEPT !.phase = "created", !.posted = {"start"}]
<1>1. /\ session[s].phase = "none" /\ Put(s, x)
      /\ Cardinality(connections) < MaxConnections
      /\ connections' = connections \cup {s}
      /\ gauges' = connection_opened(gauges)
      /\ leaving' = leaving /\ UNCHANGED poolVars
  BY DEF Register
<1>2. PoolOK' /\ pending' = pending
  BY <1>1, PoolLeft DEF IInv
<1>3. session[s] = NoSession /\ ~InPool(s, pending)
  BY <1>1, Here DEF PhaseOK
<1>4. /\ x \in Members /\ x.phase = "created" /\ x.posted = {"start"}
      /\ x.op = <<>> /\ x.active = FALSE /\ x.draining = FALSE
  <2>1. /\ session[s].op = <<>> /\ session[s].active = FALSE
        /\ session[s].draining = FALSE
    BY <1>3 DEF NoSession
  <2>2. "created" \in Phases /\ {"start"} \in SUBSET Posts
    BY DEF Phases, Posts
  <2> QED
    BY <2>1, <2>2, Here DEF Members
<1>5. session' = [session EXCEPT ![s] = x]
  BY <1>1 DEF Put
<1> HIDE DEF x
<1>6. LocalOK(s, x, pending')
  BY <1>2, <1>3, <1>4 DEF LocalOK, PhaseOK, DrainOK, OperationOf, Answered, InPool
<1>7. LocalInv' /\ session' \in [Sessions -> Members]
  BY <1>1, <1>2, <1>6, OneSession, Here
<1>8. /\ OpenIn(session') = OpenIn(session) \cup {s} /\ s \notin OpenIn(session)
      /\ ActiveIn(session') = ActiveIn(session)
      /\ OpenIn(session) \in SUBSET Sessions
  <2>1. ~session[s].active
    BY <1>3 DEF NoSession
  <2>2. \A r \in Sessions : session'[r] = IF r = s THEN x ELSE session[r]
    BY <1>5, Here DEF SessionTypeOK
  <2> QED
    BY <1>1, <1>4, <2>1, <2>2 DEF OpenIn, ActiveIn
<1>9. Cardinality(OpenIn(session')) = gauges.connections + 1
  BY <1>8, CountOne, Gauged DEF IInv
<1>10. /\ gauges'.connections = gauges.connections + 1
       /\ gauges'.requests = gauges.requests
       /\ gauges' \in [connections : Nat, requests : Nat]
  BY <1>1, Here DEF connection_opened
<1>11. GaugesAgree'
  BY <1>8, <1>9, <1>10, Gauged, GaugedAfter DEF IInv
<1>12. \A r \in Sessions : Open(r)' <=> Open(r) \/ r = s
  BY <1>4, <1>5, Here DEF Open, SessionTypeOK
<1>13. ~Open(s) /\ s \notin leaving
  BY <1>1 DEF Open, IInv, LeavingStopped
<1>14. RegistryAgrees'
  <2>1. s \notin connections
    BY <1>13 DEF IInv, RegistryAgrees
  <2>2. connections \in SUBSET Sessions
    BY Here DEF SessionTypeOK
  <2>3. Cardinality(connections) \in Nat
        /\ Cardinality(connections \cup {s}) = Cardinality(connections) + 1
    BY <2>1, <2>2, CountOne
  <2>4. Cardinality(connections') <= MaxConnections
    BY <1>1, <2>3, LimitsAssumption
  <2>5. /\ connections = {r \in Sessions : Open(r)} \cup leaving
        /\ \A r \in leaving : r \in Sessions /\ ~Open(r)
    BY Here DEF IInv, RegistryAgrees, SessionTypeOK
  <2>6. {r \in Sessions : Open(r)'} = {r \in Sessions : Open(r)} \cup {s}
    BY <1>12
  <2> QED
    BY <1>1, <1>12, <1>13, <2>4, <2>5, <2>6 DEF RegistryAgrees
<1>15. LeavingStopped'
  BY <1>1, <1>5, <1>13, Here DEF IInv, LeavingStopped, SessionTypeOK
<1>16. SessionTypeOK'
  BY <1>1, <1>2, <1>7, <1>10, Here DEF SessionTypeOK, PoolOK
<1> QED
  BY <1>7, <1>11, <1>14, <1>15, <1>16 DEF IInv

LEMMA PostStep ==
    ASSUME IInv, NEW post \in {"drain", "stop"}, PostToAll(post)
    PROVE  IInv'
<1>1. /\ leaving' = leaving /\ connections' = connections /\ gauges' = gauges
      /\ UNCHANGED poolVars
  BY DEF PostToAll
<1>2. PoolOK' /\ pending' = pending
  BY <1>1, PoolLeft DEF IInv
<1>3. ASSUME NEW s \in Sessions
      PROVE  /\ LocalOK(s, session'[s], pending')
             /\ session'[s].phase = session[s].phase
             /\ session'[s].active = session[s].active
  <2> DEFINE x == [session[s] EXCEPT !.posted = @ \cup {post}]
  <2>1. CASE s \notin connections
    BY <1>2, <2>1, Here DEF PostToAll, LocalOK
  <2>2. CASE s \in connections
    <3>1. session'[s] = x
      BY <2>2 DEF PostToAll
    <3>2. session[s].phase # "none"
      BY <2>2 DEF IInv, RegistryAgrees, LeavingStopped, Open
    <3>3. /\ x \in Members /\ x.phase = session[s].phase
          /\ x.active = session[s].active /\ x.op = session[s].op
          /\ x.close = session[s].close
          /\ x.posted = session[s].posted \cup {post}
          /\ x.requests = session[s].requests
          /\ x.draining = session[s].draining
          /\ x.drainedAt = session[s].drainedAt
      BY Here DEF Members, Posts
    <3> HIDE DEF x
    <3>4. /\ Answered(x) <=> Answered(session[s])
          /\ "start" \in x.posted <=> "start" \in session[s].posted
      BY <3>3 DEF Answered
    <3>5. PhaseOK(s, x, pending')
      BY <1>2, <3>2, <3>3, <3>4, Here DEF PhaseOK
    <3>6. DrainOK(x)
      BY <3>3, Here DEF DrainOK
    <3> QED
      BY <3>1, <3>3, <3>5, <3>6 DEF LocalOK
  <2> QED
    BY <2>1, <2>2
<1>4. LocalInv'
  BY <1>3 DEF LocalInv
<1>5. session' \in [Sessions -> Members]
  <2>1. \A s \in Sessions : session'[s] \in Members
    BY <1>3 DEF LocalOK
  <2> QED
    BY <2>1 DEF PostToAll
<1>6. GaugesAgree'
  <2>1. OpenIn(session') = OpenIn(session) /\ ActiveIn(session') = ActiveIn(session)
    BY <1>3 DEF OpenIn, ActiveIn
  <2> QED
    BY <1>1, <2>1, Gauged, GaugedAfter DEF IInv
<1>7. \A s \in Sessions : Open(s)' <=> Open(s)
  BY <1>3 DEF Open
<1>8. RegistryAgrees' /\ LeavingStopped'
  BY <1>1, <1>3, <1>7 DEF IInv, RegistryAgrees, LeavingStopped, SessionTypeOK
<1>9. SessionTypeOK'
  BY <1>1, <1>2, <1>5 DEF IInv, SessionTypeOK, PoolOK
<1> QED
  BY <1>4, <1>6, <1>8, <1>9 DEF IInv

(* The members and the gauges stay as they are.                            *)
LEMMA OthersKept ==
    ASSUME IInv, UNCHANGED <<session, gauges>>, pending' = pending
    PROVE  LocalInv' /\ GaugesAgree'
<1>1. LocalInv'
  BY DEF IInv, LocalInv
<1>2. GaugesAgree'
  BY Gauged, GaugedAfter DEF IInv
<1> QED
  BY <1>1, <1>2

LEMMA RemoveStep ==
    ASSUME IInv, NEW s \in Sessions, Remove(s)
    PROVE  IInv'
<1>1. /\ s \in leaving /\ leaving' = leaving \ {s}
      /\ connections' = connections \ {s}
      /\ UNCHANGED <<session, gauges>> /\ UNCHANGED poolVars
  BY DEF Remove
<1>2. PoolOK' /\ pending' = pending
  BY <1>1, PoolLeft DEF IInv
<1>3. LocalInv' /\ GaugesAgree'
  BY <1>1, <1>2, OthersKept
<1>4. \A r \in Sessions : Open(r)' <=> Open(r)
  BY <1>1 DEF Open
<1>5. Cardinality(connections') <= MaxConnections
  <2>1. connections \in SUBSET Sessions
    BY DEF IInv, SessionTypeOK
  <2>2. IsFiniteSet(connections) /\ Cardinality(connections) \in Nat
    BY <2>1, CountOne
  <2>3. Cardinality(connections') \in Nat
        /\ Cardinality(connections') <= Cardinality(connections)
    BY <1>1, <2>2, FS_Subset, FS_CardinalityType
  <2> QED
    BY <2>2, <2>3, LimitsAssumption DEF IInv, RegistryAgrees
<1>6. RegistryAgrees'
  <2>1. /\ connections = {r \in Sessions : Open(r)} \cup leaving
        /\ \A r \in leaving : r \in Sessions /\ ~Open(r)
    BY DEF IInv, RegistryAgrees, SessionTypeOK
  <2> QED
    BY <1>1, <1>4, <1>5, <2>1 DEF RegistryAgrees
<1>7. LeavingStopped'
  BY <1>1 DEF IInv, LeavingStopped
<1>8. SessionTypeOK'
  BY <1>1, <1>2 DEF IInv, SessionTypeOK, PoolOK
<1> QED
  BY <1>3, <1>6, <1>7, <1>8 DEF IInv

(* The pool is closed or stopped, or nothing happens.                      *)
LEMMA QuietStep ==
    ASSUME IInv, PoolStep \/ UNCHANGED sessionVars
    PROVE  IInv'
<1>1. /\ UNCHANGED <<session, leaving, connections, gauges>>
      /\ pending' = pending /\ PoolOK'
  BY DEF PoolStep, Pool!Close, Pool!Stop, PoolOK, IInv, SessionTypeOK,
         sessionVars, poolVars
<1>2. LocalInv' /\ GaugesAgree'
  BY <1>1, OthersKept
<1>3. RegistryAgrees' /\ LeavingStopped'
  BY <1>1 DEF IInv, RegistryAgrees, LeavingStopped, Open
<1>4. SessionTypeOK'
  BY <1>1 DEF IInv, SessionTypeOK, PoolOK
<1> QED
  BY <1>2, <1>3, <1>4 DEF IInv

-----------------------------------------------------------------------------
LEMMA InvInit == SessionInit => IInv
<1> SUFFICES ASSUME SessionInit PROVE IInv
  OBVIOUS
<1>1. /\ session = [s \in Sessions |-> NoSession]
      /\ leaving = {} /\ connections = {}
      /\ gauges = [connections |-> 0, requests |-> 0]
      /\ open = TRUE /\ pending = {} /\ executed = {} /\ refused = {}
      /\ stopped = FALSE
  BY DEF SessionInit, Pool!AbsInit
<1>2. NoSession \in Members
  <2>1. <<>> \in Seq(Operations)
    OBVIOUS
  <2> QED
    BY <2>1 DEF NoSession, Members, Phases
<1>3. SessionTypeOK
  BY <1>1, <1>2 DEF SessionTypeOK
<1>4. LocalInv
  <2>1. ASSUME NEW s \in Sessions PROVE LocalOK(s, NoSession, {})
    BY <1>2 DEF LocalOK, PhaseOK, DrainOK, InPool, Answered, OperationOf, NoSession
  <2> QED
    BY <1>1, <2>1 DEF LocalInv
<1>5. OpenIn(session) = {} /\ ActiveIn(session) = {} /\ Cardinality({}) = 0
  BY <1>1, FS_EmptySet DEF OpenIn, ActiveIn, NoSession
<1>6. GaugesAgree
  BY <1>1, <1>5, Gauged
<1>7. \A s \in Sessions : ~Open(s)
  BY <1>1 DEF Open, NoSession
<1>8. RegistryAgrees /\ LeavingStopped
  BY <1>1, <1>5, <1>7, LimitsAssumption DEF RegistryAgrees, LeavingStopped
<1> QED
  BY <1>3, <1>4, <1>6, <1>8 DEF IInv

LEMMA InvNext == IInv /\ [SessionNext]_sessionVars => IInv'
<1> SUFFICES ASSUME IInv, [SessionNext]_sessionVars PROVE IInv'
  OBVIOUS
<1>1. ASSUME NEW s \in Sessions, PostedStep(s) PROVE IInv'
  BY <1>1, StartStep, DrainStep, StopStep, CompleteStep, TooLateStep
  DEF PostedStep
<1>2. ASSUME NEW s \in Sessions, OperationStep(s) PROVE IInv'
  BY <1>2, HandshakeStep, FailStep, RefuseStep, RequestStep, TooLargeStep,
     WriteStep, AbortedStep
  DEF OperationStep
<1>3. ASSUME NEW s \in Sessions, Register(s) \/ RunTask(s) \/ Remove(s)
      PROVE  IInv'
  BY <1>3, RegisterStep, TaskStep, RemoveStep
<1>4. CASE drain_all \/ stop_all
  BY <1>4, PostStep DEF drain_all, stop_all
<1>5. CASE PoolStep \/ UNCHANGED sessionVars
  BY <1>5, QuietStep
<1> QED
  BY <1>1, <1>2, <1>3, <1>4, <1>5 DEF SessionNext, HandlerStep

(* The invariant holds.                                                    *)
THEOREM Invariance == SessionSpec => []IInv
BY InvInit, InvNext, PTL DEF SessionSpec

(* Types: the gauges never wrap, and a task is of a request that was read. *)
THEOREM TypeCorrect == SessionSpec => []SessionTypeOK
<1>1. IInv => SessionTypeOK
  BY DEF IInv
<1> QED
  BY <1>1, Invariance, PTL

(* A session waits for exactly one thing: an operation on its stream, a    *)
(* task in the pool, or a response on its way back.                        *)
THEOREM OneOutstanding == SessionSpec => []OneThingOutstanding
<1>1. ASSUME IInv, NEW s \in Sessions
      PROVE  /\ Outstanding(s) <= 1
             /\ Open(s) /\ session[s].phase # "created" => Outstanding(s) = 1
             /\ \A n \in 1 .. MaxRequests :
                  <<s, n>> \in pending => n = session[s].requests
  <2> DEFINE T == {t \in pending : t[1] = s}
  <2>1. /\ PhaseOK(s, session[s], pending) /\ session[s] \in Members
        /\ pending \subseteq Tasks
    BY <1>1, Here DEF SessionTypeOK
  <2>2. Cardinality(T) = One(InPool(s, pending))
    <3>1. CASE InPool(s, pending)
      <4>1. T = {<<s, session[s].requests>>}
        BY <2>1, <3>1 DEF PhaseOK, InPool, Tasks
      <4> QED
        BY <3>1, <4>1, FS_Singleton DEF One
    <3>2. CASE ~InPool(s, pending)
      <4>1. T = {}
        BY <2>1, <3>2 DEF InPool, Tasks
      <4> QED
        BY <3>2, <4>1, FS_EmptySet DEF One
    <3> QED
      BY <3>1, <3>2
  <2>3. Outstanding(s) =
          Len(session[s].op) + One(InPool(s, pending)) + One(Answered(session[s]))
    BY <2>2 DEF Outstanding, One, Answered
  <2>4. Len(<<>>) = 0 /\ \A o \in Operations : Len(<<o>>) = 1
    OBVIOUS
  <2>5. session[s].phase \in Phases
    BY <2>1 DEF Members
  <2> DEFINE l == Len(session[s].op)
             i == InPool(s, pending)
             a == Answered(session[s])
  <2>6. CASE session[s].phase = "stopped"
    <3>1. /\ l = 0 \/ l = 1
          /\ i => l = 0 /\ ~a
          /\ a => l = 0
      BY <2>1, <2>4, <2>6 DEF PhaseOK
    <3>2. Outstanding(s) <= 1
      <4> HIDE DEF l, i, a
      <4>1. Outstanding(s) = l + One(i) + One(a)
        BY <2>3 DEF l, i, a
      <4> QED
        BY <3>1, <4>1 DEF One
    <3> QED
      BY <2>1, <2>6, <3>2 DEF PhaseOK, Open
  <2>7. CASE session[s].phase = "processing"
    <3>1. l = 0 /\ (i <=> ~a)
      BY <2>1, <2>4, <2>7 DEF PhaseOK, OperationOf
    <3> QED
      BY <2>1, <2>3, <3>1 DEF PhaseOK, One
  <2>8. CASE session[s].phase \in {"none", "created"}
    <3>1. l = 0 /\ ~i /\ ~a
      BY <2>1, <2>4, <2>8 DEF PhaseOK, OperationOf
    <3> QED
      BY <2>1, <2>3, <2>8, <3>1 DEF PhaseOK, One, Open
  <2>9. CASE session[s].phase \in {"handshaking", "reading", "writing",
                                   "shutting_down"}
    <3>1. l = 1 /\ ~i /\ ~a
      BY <2>1, <2>4, <2>9 DEF PhaseOK, OperationOf, Operations
    <3> QED
      BY <2>1, <2>3, <3>1 DEF PhaseOK, One
  <2> QED
    BY <2>5, <2>6, <2>7, <2>8, <2>9 DEF Phases
<1>2. IInv => OneThingOutstanding
  BY <1>1 DEF OneThingOutstanding
<1> QED
  BY <1>2, Invariance, PTL

(* The gauges count the open sessions and the requests in progress, also   *)
(* where several paths could count the same end twice.                     *)
THEOREM GaugesExact == SessionSpec => []GaugesAgree
<1>1. IInv => GaugesAgree
  BY DEF IInv
<1> QED
  BY <1>1, Invariance, PTL

(* The set of connections is the set of open sessions and of those about   *)
(* to be removed, within the limit.                                        *)
THEOREM RegistryExact == SessionSpec => []RegistryAgrees
<1>1. IInv => RegistryAgrees
  BY DEF IInv
<1> QED
  BY <1>1, Invariance, PTL

(* A session reads at most one request after its drain has begun.          *)
THEOREM DrainBounded == SessionSpec => []DrainServesOneMore
<1>1. IInv => DrainServesOneMore
  BY DEF IInv, LocalInv, LocalOK, DrainOK, DrainServesOneMore
<1> QED
  BY <1>1, Invariance, PTL

(* The gauges and the registry agree with the sessions and so with each    *)
(* other, for any number of sessions and any limit.                        *)
THEOREM BookkeepingExact == SessionSpec => []BookkeepingAgrees
<1>1. GaugesAgree /\ RegistryAgrees => BookkeepingAgrees
  BY DEF BookkeepingAgrees
<1> QED
  BY <1>1, GaugesExact, RegistryExact, PTL

-----------------------------------------------------------------------------
(* The server around them.                                                 *)

-----------------------------------------------------------------------------
(* Every step is a step of the sessions or leaves them alone.              *)
LEMMA StepRefines == [Next]_vars => [SessionNext]_sessionVars
<1> SUFFICES ASSUME [Next]_vars PROVE [SessionNext]_sessionVars
  OBVIOUS
<1> USE DEF sessionVars
<1>1. ASSUME NEW s \in Sessions, Handle(s) \/ Work(s)
      PROVE  [SessionNext]_sessionVars
  BY <1>1 DEF Handle, Work, SessionNext
<1>2. CASE ServerStep
  <2>1. ASSUME NEW s \in Sessions, Accept(s) PROVE [SessionNext]_sessionVars
    BY <2>1 DEF Accept, SessionNext
  <2>2. CASE ServerStart \/ AcceptRejected \/ AcceptEnds
    BY <2>2 DEF ServerStart, AcceptRejected, AcceptEnds
  <2>3. CASE ServerDrain \/ ServerStop
    BY <2>3 DEF ServerDrain, do_begin_draining, ServerStop, SessionNext
  <2> QED
    BY <1>2, <2>1, <2>2, <2>3 DEF ServerStep
<1>3. CASE Signal
  BY <1>3 DEF Signal, do_begin_draining, SessionNext
<1>4. CASE PoolCloses \/ PoolStops
  BY <1>4 DEF PoolCloses, PoolStops, SessionNext, PoolStep
<1>5. CASE AcceptCompletes \/ ThreadDies \/ WaitUntilIdle \/ ForceCompletes
           \/ ShutdownFinishes \/ GraceExpires \/ ForceTimesOut
           \/ ThreadReturns \/ RunReturns \/ Exit \/ UNCHANGED vars
  BY <1>5 DEF AcceptCompletes, ThreadDies, WaitUntilIdle, ForceCompletes,
     ShutdownFinishes, GraceExpires, ForceTimesOut, ThreadReturns, RunReturns,
     Exit, vars
<1> QED
  BY <1>1, <1>2, <1>3, <1>4, <1>5 DEF Next, ShutdownStep

(* The server drives its sessions only as HttpSession's environment may.   *)
THEOREM SessionsRefined == Spec => SessionsUndisturbed
<1>1. Init => SessionInit
  BY DEF Init
<1> QED
  BY <1>1, StepRefines, PTL DEF Spec, SessionsUndisturbed, SessionSpec

(* The invariant of the sessions holds in the server.                      *)
THEOREM SessionInvariance == Spec => []IInv
BY SessionsRefined, Invariance, PTL DEF SessionsUndisturbed

-----------------------------------------------------------------------------
ServerTypeOK ==
    /\ server \in [draining : BOOLEAN, stopped : BOOLEAN,
                   accepting : BOOLEAN, strand : Seq(ServerHandlers)]
    /\ phase \in {"running", "draining", "stopped"}
    /\ threads \in 0 .. IoThreads
    /\ ioStopped \in BOOLEAN
    /\ shutdown \in ShutdownSteps
    /\ drained \in BOOLEAN
    /\ forced \in BOOLEAN
    /\ returned \in BOOLEAN

(* A stopped server accepts nothing, and a forced stop is reported only    *)
(* when no connection is left.                                             *)
ForceInv ==
    /\ server.stopped => server.draining
    /\ forced => server.stopped /\ connections = {}

(* How far the pool and the io_context are when the shutdown is at a step. *)
SequenceInv ==
    /\ shutdown \in {"join", "finish", "done"} => ~open
    /\ shutdown \in {"finish", "done"} => stopped /\ pending = {}
    /\ shutdown = "done" => ioStopped /\ phase = "stopped"
    /\ returned => threads = 0 /\ shutdown = "done"

(* The inductive invariant, beside that of the sessions.                   *)
ServerInv == ServerTypeOK /\ ForceInv /\ SequenceInv

(* A closed pool accepts nothing, an empty closed pool stays empty, and a  *)
(* pool that has stopped stays so.                                         *)
LEMMA PoolFinal ==
    ASSUME [SessionNext]_sessionVars
    PROVE  /\ ~open => ~open'
           /\ ~open /\ pending = {} => pending' = {}
           /\ stopped => stopped'
<1> USE DEF sessionVars, poolVars
<1>1. ASSUME NEW s \in Sessions, HandlerStep(s) \/ Register(s) \/ RunTask(s)
      PROVE  \/ UNCHANGED <<open, pending, stopped>>
             \/ open /\ UNCHANGED <<open, stopped>>
             \/ pending # {} /\ UNCHANGED <<open, stopped>>
  <2>1. CASE PostedStep(s)
    BY <2>1 DEF PostedStep, do_start, do_drain, do_stop, complete_request, TooLate
  <2>2. CASE OperationStep(s)
    BY <2>2 DEF OperationStep, HandshakeSucceeds, OperationFails, ReadRejected,
       handle_request, RequestRefused, ReadTooLarge, WriteSucceeds, WriteFails,
       Aborted, Pool!Accept, Pool!Refuse
  <2>3. CASE Remove(s) \/ Register(s)
    BY <2>3 DEF Remove, Register
  <2>4. CASE RunTask(s)
    BY <2>4 DEF RunTask, Pool!Execute
  <2> QED
    BY <1>1, <2>1, <2>2, <2>3, <2>4 DEF HandlerStep
<1>2. CASE drain_all \/ stop_all \/ UNCHANGED sessionVars
  BY <1>2 DEF drain_all, stop_all, PostToAll
<1>3. CASE PoolStep
  BY <1>3 DEF PoolStep, Pool!Close, Pool!Stop
<1> QED
  BY <1>1, <1>2, <1>3 DEF SessionNext

(* No step but Accept adds a connection.                                   *)
LEMMA NoNewConnection ==
    ASSUME NEW s \in Sessions, HandlerStep(s) \/ RunTask(s)
    PROVE  connections' \subseteq connections
<1>1. CASE PostedStep(s)
  BY <1>1 DEF PostedStep, do_start, do_drain, do_stop, complete_request,
     TooLate, Continue, handle_disconnect
<1>2. CASE OperationStep(s)
  BY <1>2 DEF OperationStep, HandshakeSucceeds, OperationFails, ReadRejected,
     handle_request, RequestRefused, ReadTooLarge, WriteSucceeds, WriteFails,
     Aborted, Continue, handle_disconnect
<1>3. CASE Remove(s) \/ RunTask(s)
  BY <1>3 DEF Remove, RunTask
<1> QED
  BY <1>1, <1>2, <1>3 DEF HandlerStep

-----------------------------------------------------------------------------
(* Every step keeps the types of the server.                               *)
LEMMA ServerTypesKept == ServerInv /\ [Next]_vars => ServerTypeOK'
<1> SUFFICES ASSUME ServerTypeOK, [Next]_vars PROVE ServerTypeOK'
  BY DEF ServerInv
<1> USE DEF ServerTypeOK, ShutdownSteps
<1>1. ASSUME NEW h \in ServerHandlers
      PROVE  Append(server.strand, h) \in Seq(ServerHandlers)
  OBVIOUS
<1>2. server.strand # <<>> => Tail(server.strand) \in Seq(ServerHandlers)
  OBVIOUS
<1>3. {"start", "accept", "drain", "stop"} \subseteq ServerHandlers
  BY DEF ServerHandlers
<1>4. ASSUME NEW s \in Sessions, Handle(s) \/ Work(s) PROVE ServerTypeOK'
  BY <1>4 DEF Handle, Work, appVars
<1>5. CASE ServerStep
  <2>1. server.strand # <<>> /\ UNCHANGED appVars
    BY <1>5 DEF ServerStep, ServerStart, AcceptRejected, AcceptEnds, Accept,
       ServerDrain, ServerStop, Runs
  <2>2. Ran \in [draining : BOOLEAN, stopped : BOOLEAN,
                  accepting : BOOLEAN, strand : Seq(ServerHandlers)]
    BY <1>2, <2>1 DEF Ran
  <2>3. \/ server' = Ran
        \/ server' = [Ran EXCEPT !.accepting = TRUE]
        \/ server' = [Ran EXCEPT !.draining = TRUE]
        \/ server' = [Ran EXCEPT !.stopped = TRUE, !.draining = TRUE]
    BY <1>5 DEF ServerStep, ServerStart, AcceptRejected, AcceptEnds, Accept,
       ServerDrain, do_begin_draining, ServerStop
  <2> QED
    BY <2>1, <2>2, <2>3 DEF appVars
<1>6. CASE AcceptCompletes
  BY <1>1, <1>3, <1>6 DEF AcceptCompletes, appVars
<1>7. CASE Signal
  BY <1>1, <1>3, <1>7 DEF Signal, do_begin_draining, Enqueue
<1>8. CASE ThreadDies
  <2>1. threads' = threads - 1 /\ threads > 0
        /\ UNCHANGED <<ioStopped, drained, forced, returned>>
    BY <1>8 DEF ThreadDies, IoRuns
  <2>2. threads' \in 0 .. IoThreads
    BY <2>1, IoThreadsAssumption
  <2>3. \/ /\ Enqueue("drain") /\ phase' = "draining" /\ shutdown' = "drain"
        \/ UNCHANGED <<server, phase, shutdown>>
    BY <1>8 DEF ThreadDies
  <2>4. server' \in [draining : BOOLEAN, stopped : BOOLEAN,
                     accepting : BOOLEAN, strand : Seq(ServerHandlers)]
    BY <1>1, <1>3, <2>3 DEF Enqueue
  <2> QED
    BY <2>1, <2>2, <2>3, <2>4
<1>9. CASE GraceExpires
  BY <1>1, <1>3, <1>9 DEF GraceExpires, Enqueue
<1>10. CASE ThreadReturns
  BY <1>10, IoThreadsAssumption DEF ThreadReturns
<1>11. CASE ShutdownStep \/ ForceTimesOut
  BY <1>11 DEF ShutdownStep, WaitUntilIdle, ForceCompletes, PoolCloses,
     PoolStops, ShutdownFinishes, ForceTimesOut
<1>12. CASE RunReturns \/ Exit \/ UNCHANGED vars
  BY <1>12 DEF RunReturns, Exit, vars, appVars
<1> QED
  BY <1>4, <1>5, <1>6, <1>7, <1>8, <1>9, <1>10, <1>11, <1>12 DEF Next

(* Every step keeps what a forced stop has reached: only Accept adds a     *)
(* connection, and it asks draining_.                                      *)
LEMMA ForceKept == ServerInv /\ [Next]_vars => ForceInv'
<1> SUFFICES ASSUME ServerTypeOK, ForceInv, [Next]_vars PROVE ForceInv'
  BY DEF ServerInv
<1> USE DEF ServerTypeOK, ForceInv
<1>1. ASSUME NEW s \in Sessions, Handle(s) \/ Work(s) PROVE ForceInv'
  <2>1. connections' \subseteq connections /\ UNCHANGED <<server, forced>>
    BY <1>1, NoNewConnection DEF Handle, Work, appVars
  <2> QED
    BY <2>1
<1>2. ASSUME NEW s \in Sessions, Accept(s) PROVE ForceInv'
  BY <1>2 DEF Accept, Ran, appVars
<1>3. CASE ServerStart \/ AcceptRejected \/ AcceptEnds \/ AcceptCompletes
  <2>1. connections' = connections /\ forced' = forced
    BY <1>3 DEF ServerStart, AcceptRejected, AcceptEnds, AcceptCompletes,
       appVars, sessionVars
  <2>2. server'.stopped = server.stopped /\ server'.draining = server.draining
    BY <1>3 DEF ServerStart, AcceptRejected, AcceptEnds, AcceptCompletes, Ran
  <2> QED
    BY <2>1, <2>2
<1>4. CASE ServerDrain \/ ServerStop \/ Signal
  <2>1. connections' = connections /\ forced' = forced
    BY <1>4 DEF ServerDrain, ServerStop, Signal, do_begin_draining, drain_all,
       stop_all, PostToAll, sessionVars, appVars
  <2>2. /\ server'.stopped => server'.draining
        /\ server.stopped => server'.stopped
    BY <1>4 DEF ServerDrain, ServerStop, Signal, do_begin_draining, Ran, Enqueue
  <2> QED
    BY <2>1, <2>2
<1>5. CASE ThreadDies \/ GraceExpires
  BY <1>5 DEF ThreadDies, GraceExpires, Enqueue, sessionVars
<1>6. CASE ShutdownStep \/ ForceTimesOut
  BY <1>6 DEF ShutdownStep, WaitUntilIdle, ForceCompletes, PoolCloses,
     PoolStops, ShutdownFinishes, ForceTimesOut, sessionVars
<1>7. CASE ThreadReturns \/ RunReturns \/ Exit \/ UNCHANGED vars
  BY <1>7 DEF ThreadReturns, RunReturns, Exit, vars, appVars, sessionVars
<1> QED
  BY <1>1, <1>2, <1>3, <1>4, <1>5, <1>6, <1>7 DEF Next, ServerStep

(* Every step keeps the order of the shutdown.                             *)
LEMMA SequenceKept == ServerInv /\ [Next]_vars => SequenceInv'
<1> SUFFICES ASSUME ServerTypeOK, SequenceInv, [Next]_vars PROVE SequenceInv'
  BY DEF ServerInv
<1> USE DEF ServerTypeOK, SequenceInv
<1>1. /\ ~open => ~open'
      /\ ~open /\ pending = {} => pending' = {}
      /\ stopped => stopped'
  BY StepRefines, PoolFinal
<1>2. CASE UNCHANGED appVars
  BY <1>1, <1>2 DEF appVars
<1>3. CASE Signal \/ ThreadDies
  BY <1>1, <1>3 DEF Signal, ThreadDies, IoRuns
<1>4. CASE WaitUntilIdle \/ ForceCompletes \/ GraceExpires \/ ForceTimesOut
  BY <1>4 DEF WaitUntilIdle, ForceCompletes, GraceExpires, ForceTimesOut
<1>5. CASE PoolCloses
  BY <1>5 DEF PoolCloses, Pool!Close
<1>6. CASE PoolStops
  BY <1>6 DEF PoolStops, Pool!Stop
<1>7. CASE ShutdownFinishes \/ ThreadReturns \/ RunReturns
  BY <1>1, <1>7 DEF ShutdownFinishes, ThreadReturns, RunReturns
<1>8. CASE ServerStep \/ AcceptCompletes \/ Exit \/ UNCHANGED vars
           \/ \E s \in Sessions : Handle(s) \/ Work(s)
  <2>1. UNCHANGED appVars
    BY <1>8 DEF ServerStep, ServerStart, AcceptRejected, AcceptEnds, Accept,
       ServerDrain, ServerStop, AcceptCompletes, Exit, vars, Handle, Work
  <2> QED
    BY <1>2, <2>1
<1> QED
  BY <1>3, <1>4, <1>5, <1>6, <1>7, <1>8 DEF Next, ShutdownStep

(* The invariant holds.                                                    *)
THEOREM ServerInvariance == Spec => []ServerInv
<1>1. Init => ServerInv
  <2> SUFFICES ASSUME Init PROVE ServerInv
    OBVIOUS
  <2>1. <<"start">> \in Seq(ServerHandlers)
    BY DEF ServerHandlers
  <2>2. ServerTypeOK
    <3>1. server \in [draining : BOOLEAN, stopped : BOOLEAN,
                      accepting : BOOLEAN, strand : Seq(ServerHandlers)]
      BY <2>1 DEF Init
    <3>2. threads \in 0 .. IoThreads
      BY IoThreadsAssumption DEF Init
    <3> QED
      BY <3>1, <3>2 DEF Init, ServerTypeOK, ShutdownSteps
  <2>3. ForceInv /\ SequenceInv
    BY DEF Init, ForceInv, SequenceInv
  <2> QED
    BY <2>2, <2>3 DEF ServerInv
<1>2. ServerInv /\ [Next]_vars => ServerInv'
  BY ServerTypesKept, ForceKept, SequenceKept DEF ServerInv
<1> QED
  BY <1>1, <1>2, PTL DEF Spec

(* Types, of the server and of its sessions.                               *)
THEOREM ServerTypeCorrect == Spec => []TypeOK
<1>1. IInv /\ ServerInv => TypeOK
  BY DEF IInv, ServerInv, ServerTypeOK, TypeOK
<1> QED
  BY <1>1, SessionInvariance, ServerInvariance, PTL

(* When force_stop_and_wait has reported success, every session is closed, *)
(* and stays so.                                                           *)
THEOREM ForcedClosed == Spec => []ForcedMeansClosed
<1>1. IInv /\ ServerInv => ForcedMeansClosed
  BY DEF IInv, ServerInv, ForceInv, ForcedMeansClosed, RegistryAgrees
<1> QED
  BY <1>1, SessionInvariance, ServerInvariance, PTL

(* After run() has returned, no handler runs, and the worker pool is empty *)
(* and stays closed.                                                       *)
THEOREM QuietAfterReturn == Spec => []NothingAfterReturn
<1>1. ServerInv => NothingAfterReturn
  BY DEF ServerInv, ServerTypeOK, SequenceInv, NothingAfterReturn, IoRuns
<1> QED
  BY <1>1, ServerInvariance, PTL
=============================================================================
