-------------------------- MODULE RequestPipeline ---------------------------
(***************************************************************************)
(* What a worker thread does with one request after another: the task that *)
(* HttpSession::handle_request submits, the middlewares around it, the     *)
(* router and the handler, and the audit trail the handlers write.         *)
(*                                                                         *)
(* The middlewares are, from the outside in: request id and audit context, *)
(* security headers, CORS, exceptions, rate limit.  The threads share the  *)
(* rate limiter, the audit table and its counters; the audit context is    *)
(* thread local.  What the services behind the handlers do is the subject  *)
(* of AuthSessions and Rbac; here a service succeeds, fails with an error  *)
(* of its own, or throws.                                                  *)
(***************************************************************************)
EXTENDS TrustedProxy, RateLimiter, ApiRoutes

CONSTANTS
    Threads,          \* the threads of the worker pool
    Workloads,        \* sequences of requests, in the order they are queued
    ValidIds,         \* request ids that is_valid_request_id accepts
    AllowedOrigins,   \* CorsPolicy::allows
    AllowedHeaders,   \* headers a preflight may ask for
    PathIntegers,     \* texts that are positive integers
    RawTexts,         \* texts that are not valid UTF-8
    HstsEnabled,      \* hsts_policy.enabled
    MaxPage,          \* the largest page of audit events, 100 in the code
    MaxTime,          \* bound of the model on the clock, for every workload
    None

ASSUME PipelineAssumption ==
    /\ HstsEnabled \in BOOLEAN
    /\ MaxPage \in Nat \ {0} /\ MaxTime \in [Workloads -> Nat]

ASSUME WorkAssumption ==
    \A w \in Workloads :
        /\ IsSequence(w)
        /\ \A i \in DOMAIN w :
              /\ HeadersOfRequest(w[i].headers) /\ IsSequence(w[i].path)
              /\ w[i].limit \in Int /\ w[i].offset \in Int

VARIABLES
    work,      \* the requests of this behaviour
    next,      \* the first one that is still queued
    now,       \* the steady clock
    limiter,   \* the rate limiter
    thread,    \* what every thread is doing
    context,   \* active_context of every thread
    events,    \* audit_events, in the order of their ids
    counters,  \* of the audit events recorded and failed
    answers,   \* the response of every request
    commits,   \* history: requests whose change has been committed
    admitted,  \* history: the requests let through by the rate limiter
    evicted,   \* history: clients whose bucket the limiter has given up
    pages      \* history: the pages of audit events that were read

vars == <<work, next, now, limiter, thread, context, events, counters, answers,
          commits, admitted, evicted, pages>>

Idle == [phase |-> "idle"]
Phase(t) == thread[t].phase
Request(t) == work[thread[t].number]
Handler(t) == Handlers[thread[t].route.handler]

-----------------------------------------------------------------------------
(* Request id and CORS.                                                    *)

(* Any other id is replaced by a fresh one.                                *)
resolve_request_id(number) ==
    IF work[number].id \in ValidIds THEN [text |-> work[number].id, sequence |-> 0]
    ELSE [text |-> "", sequence |-> number]

(* A header that is sent twice reads as an empty one.                      *)
request_header(values) ==
    IF values = << >> THEN None ELSE IF Len(values) > 1 THEN "" ELSE values[1]

AllowedMethods == {"GET", "POST", "PUT", "PATCH", "DELETE", "OPTIONS"}
allowed_preflight_headers(names) == ToSet(names) \subseteq AllowedHeaders

OriginAllowed(request) == request_header(request.origin) \in AllowedOrigins \cup {None}

IsPreflight(request) ==
    /\ request.method = "OPTIONS"
    /\ request_header(request.origin) # None
    /\ request.asked_method # << >>

(* 0 when the request goes on to the next middleware.                      *)
CorsStatus(request) ==
    IF ~OriginAllowed(request) THEN 403
    ELSE IF IsPreflight(request)
            /\ ~(/\ request_header(request.asked_method) \in AllowedMethods
                 /\ allowed_preflight_headers(request.asked_headers))
    THEN 403
    ELSE IF request.method = "OPTIONS" THEN 204
    ELSE 0

-----------------------------------------------------------------------------
(* Validation of a request by its handler: the status of the ApiException, *)
(* or 0.                                                                   *)

parse_json_object(body) ==
    IF ~body.json THEN 415
    ELSE IF body.text \in {"empty", "broken"} THEN 400
    ELSE IF body.text # "object" THEN 422
    ELSE 0

BodyStatus(body) ==
    IF parse_json_object(body) # 0 THEN parse_json_object(body)
    ELSE IF body.fields_valid THEN 0 ELSE 422

query_integer_or_default(value, minimum, maximum) == value \in minimum .. maximum

QueryStatus(request) ==
    IF /\ query_integer_or_default(request.limit, 1, MaxPage)
       /\ request.offset >= 0
       /\ request.outcome \in {"", "success", "failure"}
    THEN 0 ELSE 422

require_path_integer(parameters) == parameters["{id}"] \in PathIntegers

InputStatus(request, handler, parameters) ==
    IF handler.id /\ ~require_path_integer(parameters) THEN 422
    ELSE CASE handler.input = "body"  -> BodyStatus(request.body)
           [] handler.input = "query" -> QueryStatus(request)
           [] handler.input = "role"  -> IF parameters["{role}"] = "" THEN 422 ELSE 0
           [] OTHER -> 0

-----------------------------------------------------------------------------
(* The steps of a thread.                                                  *)

Untouched == UNCHANGED <<events, counters, answers, commits, pages>>

(* Mutant: active_context is static and not thread_local.                  *)
SharedContext(t, id, client) == [x \in Threads |-> [id |-> id, client |-> client]]

(* The constructor of ScopedRequestAuditContext.                           *)
EnterContext(t, id, client) == [context EXCEPT ![t] = [id |-> id, client |-> client]]

(* The task starts: the client is resolved, the audit context set, CORS    *)
(* decided, and the rate limiter's clock read.                             *)
Begin(t) ==
    /\ Phase(t) = "idle" /\ next <= Len(work)
    /\ LET request == work[next]
           who     == resolve(request.peer, request.headers, request.tls)
           id      == resolve_request_id(next)
           cors    == CorsStatus(request)
       IN  /\ thread' = [thread EXCEPT ![t] =
                 [phase |-> IF cors = 0 THEN "checking" ELSE "answering",
                  number |-> next, id |-> id, who |-> who, at |-> now,
                  previous |-> context[t], limited |-> FALSE, route |-> None,
                  outcome |-> "", status |-> cors, thrown |-> FALSE]]
           /\ context' = EnterContext(t, id, who.client)
    /\ next' = next + 1
    /\ UNCHANGED <<work, now, limiter, admitted, evicted>>
    /\ Untouched

Answering(t, status, thrown) ==
    [thread[t] EXCEPT !.phase = "answering", !.status = status, !.thrown = thrown]

(* The terminal handler: the error of the proxy headers, or the router and *)
(* the checks of the handler.                                              *)
Dispatched(t) ==
    LET request == Request(t)
        route   == dispatch(RouteTable, request)
        handler == Handlers[route.handler]
        invalid == InputStatus(request, handler, route.parameters)
        routed  == [thread[t] EXCEPT !.phase = "answering", !.route = route]
    IN  IF ~thread[t].who.ok THEN Answering(t, 400, TRUE)
        ELSE IF route.status # 0 THEN [routed EXCEPT !.status = route.status]
        ELSE IF handler.token /\ ~request.token THEN [routed EXCEPT !.status = 401]
        ELSE IF invalid # 0 THEN [routed EXCEPT !.status = invalid, !.thrown = TRUE]
        ELSE [routed EXCEPT !.phase = "serving"]

(* The rate limit, with the time read when the task began, and the         *)
(* dispatch of a request that passes it.                                   *)
Check(t) ==
    /\ Phase(t) = "checking"
    /\ LET client == thread[t].who.client IN
       \E decision \in check(limiter, client, thread[t].at) :
          /\ limiter' = decision.limiter
          /\ evicted' = evicted \cup (DOMAIN limiter.buckets \ DOMAIN decision.limiter.buckets)
          /\ IF decision.allowed
             THEN /\ thread' = [thread EXCEPT ![t] = [Dispatched(t) EXCEPT !.limited = TRUE]]
                  /\ admitted' = admitted \cup
                        {[number |-> thread[t].number, client |-> client,
                          at |-> thread[t].at, start |-> decision.start]}
             ELSE /\ thread' = [thread EXCEPT ![t] = Answering(t, 429, FALSE)]
                  /\ UNCHANGED admitted
    /\ UNCHANGED <<work, next, now, context>>
    /\ Untouched

Shared == UNCHANGED <<work, next, now, limiter, context, admitted, evicted>>

(* After the service: an outcome that is recorded, or the response.        *)
Concluded(t, outcome, status) ==
    [thread[t] EXCEPT
        !.phase = IF outcome \in Handler(t).audits THEN "recording" ELSE "answering",
        !.outcome = outcome, !.status = status]

CommitsIf(t, changed) ==
    commits' = IF changed THEN commits \cup {thread[t].number} ELSE commits

ServeSucceeds(t) ==
    /\ Phase(t) = "serving" /\ ~Handler(t).reads
    /\ thread' = [thread EXCEPT ![t] = Concluded(t, "success", Handler(t).ok)]
    /\ CommitsIf(t, "success" \in Handler(t).commits)
    /\ UNCHANGED <<events, counters, answers, pages>>
    /\ Shared

(* The metadata of the record is written as JSON, which throws for a role  *)
(* name that is not valid UTF-8.                                           *)
ServeFails(t) ==
    /\ Phase(t) = "serving"
    /\ \E status \in Handler(t).errors :
          thread' = [thread EXCEPT ![t] =
              IF Handler(t).input = "role" /\ thread[t].route.parameters["{role}"] \in RawTexts
              THEN Answering(t, 500, TRUE)
              ELSE Concluded(t, "failure", status)]
    /\ \E changed \in {FALSE, "failure" \in Handler(t).commits} : CommitsIf(t, changed)
    /\ UNCHANGED <<events, counters, answers, pages>>
    /\ Shared

(* Anything that is not an error of the service's own.                     *)
ServeThrows(t) ==
    /\ Phase(t) = "serving" /\ Handler(t).throws
    /\ thread' = [thread EXCEPT ![t] = Answering(t, 500, TRUE)]
    /\ \E changed \in {FALSE, Handler(t).partial} : CommitsIf(t, changed)
    /\ UNCHANGED <<events, counters, answers, pages>>
    /\ Shared

-----------------------------------------------------------------------------
(* The audit trail.                                                        *)

(* The ids of the events that a filter lets through.                       *)
Matching(outcome) == {id \in DOMAIN events : outcome \in {"", events[id].outcome}}

(* Mutant: the offset skips one event too many.                            *)
ListSkips(outcome, limit, offset) ==
    {id \in Matching(outcome) :
        Cardinality({newer \in Matching(outcome) : newer > id}) \in offset + 1 .. offset + limit}

(* AuditRepository::list: ORDER BY id DESC LIMIT limit OFFSET offset.      *)
ListEvents(outcome, limit, offset) ==
    {id \in Matching(outcome) :
        Cardinality({newer \in Matching(outcome) : newer > id}) \in offset .. offset + limit - 1}

(* AuditService::list_events is two statements: first the page ...         *)
ReadPage(t) ==
    /\ Phase(t) = "serving" /\ Handler(t).reads
    /\ LET request == Request(t) IN
       pages' = Append(pages,
          [number |-> thread[t].number, outcome |-> request.outcome,
           limit |-> request.limit, offset |-> request.offset,
           shown |-> ListEvents(request.outcome, request.limit, request.offset),
           there |-> Matching(request.outcome), total |-> None])
    /\ thread' = [thread EXCEPT ![t].phase = "counting"]
    /\ UNCHANGED <<events, counters, answers, commits>>
    /\ Shared

PageOf(number) == CHOOSE i \in DOMAIN pages : pages[i].number = number

(* ... then the number of all events that match.                           *)
CountEvents(t) ==
    /\ Phase(t) = "counting"
    /\ pages' = [pages EXCEPT ![PageOf(thread[t].number)].total =
                    Cardinality(Matching(Request(t).outcome))]
    /\ thread' = [thread EXCEPT ![t] = Concluded(t, "success", 200)]
    /\ UNCHANGED <<events, counters, answers, commits>>
    /\ Shared

(* AuditRepository::count throws: the page that was read is not shown.     *)
CountThrows(t) ==
    /\ Phase(t) = "counting"
    /\ thread' = [thread EXCEPT ![t] = Answering(t, 500, TRUE)]
    /\ UNCHANGED <<events, counters, answers, commits, pages>>
    /\ Shared

(* A response cannot show an event whose text is not valid UTF-8.          *)
ShowsRaw(t) ==
    /\ Handler(t).reads
    /\ \E id \in pages[PageOf(thread[t].number)].shown : events[id].agent \in RawTexts

(* Mutant: a record that fails is not counted.                             *)
Uncounted(stored, confirmed) ==
    [counters EXCEPT !.recorded = IF confirmed THEN @ + 1 ELSE @]

Counted(stored, confirmed) ==
    IF confirmed THEN [counters EXCEPT !.recorded = @ + 1]
    ELSE [counters EXCEPT !.failed = @ + 1]

(* AuditService::record never throws.  The event takes its request id and  *)
(* address from the context of the thread; it is inserted and read back,   *)
(* and either may fail.  The response follows.                             *)
Record(t) ==
    /\ Phase(t) = "recording"
    /\ \E stored, confirmed \in BOOLEAN :
          /\ confirmed => stored
          /\ events' = IF stored
                THEN Append(events, [number |-> thread[t].number, outcome |-> thread[t].outcome,
                                     id |-> context[t].id, client |-> context[t].client,
                                     agent |-> Request(t).agent])
                ELSE events
          /\ counters' = Counted(stored, confirmed)
    /\ thread' = [thread EXCEPT ![t] =
          IF ShowsRaw(t) THEN Answering(t, 500, TRUE)
          ELSE [@ EXCEPT !.phase = "answering"]]
    /\ UNCHANGED <<answers, commits, pages>>
    /\ Shared

-----------------------------------------------------------------------------
(* The way back through the middlewares.                                   *)

apply_security_headers(t) ==
    {"security"} \cup IF HstsEnabled /\ thread[t].who.secure THEN {"hsts"} ELSE {}

(* An origin that is refused gets no CORS headers.                         *)
apply_cors_headers(t) ==
    IF OriginAllowed(Request(t)) /\ request_header(Request(t).origin) # None THEN {"cors"} ELSE {}

(* A response that takes the place of an exception is made outside of the  *)
(* rate limiter.                                                           *)
RateHeaders(t) ==
    IF MaxRequests > 0 /\ ~thread[t].thrown /\ (thread[t].limited \/ thread[t].status = 429)
    THEN {"limit"} ELSE {}

(* Mutant: an exception leaves the task.                                   *)
FinishUnlessThrown(t) ==
    /\ Phase(t) = "answering" /\ ~thread[t].thrown
    /\ answers' = [answers EXCEPT ![thread[t].number] =
          Append(@, [status |-> thread[t].status, id |-> thread[t].id,
                     headers |-> apply_security_headers(t)])]
    /\ context' = [context EXCEPT ![t] = thread[t].previous]
    /\ thread' = [thread EXCEPT ![t] = Idle]
    /\ UNCHANGED <<work, next, now, limiter, events, counters, commits, admitted, evicted, pages>>

(* Exceptions become responses, the headers and the request id are set,    *)
(* the audit context of before comes back and the response is posted to    *)
(* the session.                                                            *)
Finish(t) ==
    /\ Phase(t) = "answering"
    /\ answers' = [answers EXCEPT ![thread[t].number] =
          Append(@, [status |-> thread[t].status, id |-> thread[t].id,
                     headers |-> apply_security_headers(t) \cup apply_cors_headers(t)
                                 \cup RateHeaders(t)])]
    /\ context' = [context EXCEPT ![t] = thread[t].previous]
    /\ thread' = [thread EXCEPT ![t] = Idle]
    /\ UNCHANGED <<work, next, now, limiter, events, counters, commits, admitted, evicted, pages>>

(* Only Begin reads the clock: after the last one time does not matter.    *)
Tick ==
    /\ now < MaxTime[work] /\ next <= Len(work)
    /\ now' = now + 1
    /\ UNCHANGED <<work, next, limiter, thread, context, admitted, evicted>>
    /\ Untouched

Init ==
    /\ work \in Workloads
    /\ next = 1
    /\ now = 0
    /\ limiter = NoBuckets
    /\ thread = [t \in Threads |-> Idle]
    /\ context = [t \in Threads |-> None]
    /\ events = << >>
    /\ counters = [recorded |-> 0, failed |-> 0]
    /\ answers = [number \in DOMAIN work |-> << >>]
    /\ commits = {}
    /\ admitted = {}
    /\ evicted = {}
    /\ pages = << >>

Step(t) ==
    \/ Begin(t) \/ Check(t)
    \/ ServeSucceeds(t) \/ ServeFails(t) \/ ServeThrows(t)
    \/ ReadPage(t) \/ CountEvents(t) \/ CountThrows(t) \/ Record(t)
    \/ Finish(t)

Next == Tick \/ \E t \in Threads : Step(t)

Spec == Init /\ [][Next]_vars

(* The threads of the pool are scheduled.                                  *)
FairSpec == Spec /\ \A t \in Threads : WF_vars(Step(t))

-----------------------------------------------------------------------------
(* Properties.                                                             *)

(* The client that is limited and audited is the last address, counted     *)
(* from the far end of the forwarding chain, that is not a trusted proxy's:*)
(* what it wrote into the headers itself stands to the left of it.  If all *)
(* are trusted it is the first; headers of an untrusted peer, or malformed *)
(* ones, change nothing.                                                   *)
ClientIsLastUntrusted ==
    \A t \in Threads : Phase(t) # "idle" =>
        LET request == Request(t)
            headers == ForwardedBy(request.headers)
            hops == IF is_trusted(request.peer) /\ headers.ok
                    THEN headers.chain \o <<request.peer>> ELSE <<request.peer>>
            untrusted == {i \in DOMAIN hops : ~is_trusted(hops[i])}
        IN  thread[t].who.client = IF untrusted = {} THEN hops[1] ELSE hops[Max(untrusted)]

(* A request reaches a handler exactly when it was registered for the      *)
(* method and a path that matches; where more than one matches it is one   *)
(* with the most static segments.  405 means that the path is known and    *)
(* the method is not, 404 that the path is not known.                      *)
RoutedAsRegistered ==
    \A t \in Threads : Phase(t) # "idle" => thread[t].route = None \/
        LET request  == Request(t)
            route    == thread[t].route
            matching == {r \in ToSet(Routes) : match_pattern(r.path, request.path)}
            wanted   == {r \in matching : r.method = request.method}
        IN  CASE route.status = 0 -> \E r \in wanted :
                    /\ r.handler = route.handler
                    /\ \A other \in wanted : StaticSegments(r.path) >= StaticSegments(other.path)
              [] route.status = 405 -> matching # {} /\ wanted = {}
              [] route.status = 404 -> matching = {}
              [] OTHER -> ~request.absolute

(* The windows of a client whose bucket is kept do not overlap, and each   *)
(* lets through no more requests than allowed, those included whose clock  *)
(* was read before the window began and which waited for the mutex.  So    *)
(* less than one window of time sees two windows' worth of requests at the *)
(* most, where those late ones are left out.  A client whose bucket was    *)
(* given up, for another client or as stale, starts anew at any time.      *)
BurstBounded ==
    MaxRequests > 0 => \A first \in admitted : first.client \in evicted \/
        LET same == {other \in admitted : other.client = first.client}
        IN  /\ \A other \in same :
                  \/ other.start = first.start
                  \/ other.start + Window <= first.start
                  \/ first.start + Window <= other.start
            /\ Cardinality({other \in same : other.start = first.start}) <= MaxRequests
            /\ Cardinality({later \in same :
                  /\ later.at >= later.start
                  /\ later.at \in first.at .. first.at + Window - 1}) <= 2 * MaxRequests

(* An audit event carries the request id and the client of the request it  *)
(* is about, whatever the thread ran before, and a thread without a task   *)
(* has no context.                                                         *)
EventsNameTheirRequest ==
    /\ \A i \in DOMAIN events :
          LET request == work[events[i].number]
          IN  /\ events[i].id = resolve_request_id(events[i].number)
              /\ events[i].client = resolve(request.peer, request.headers, request.tls).client
    /\ \A t \in Threads : Phase(t) = "idle" => context[t] = None

(* No change goes by in silence: when a request that changed the database  *)
(* has been answered, and not with an internal error, its event is stored  *)
(* or its loss counted.  An event of success never precedes the change,    *)
(* and a request has one event at the most.                                *)
ChangesAreRecorded ==
    LET Stored(number) == {i \in DOMAIN events : events[i].number = number}
        Silent == {number \in commits :
                      /\ answers[number] # << >> /\ answers[number][1].status # 500
                      /\ Stored(number) = {}}
    IN  /\ Cardinality(Silent) <= counters.failed
        /\ \A number \in DOMAIN work : Cardinality(Stored(number)) <= 1
        /\ \A i \in DOMAIN events :
              \/ events[i].outcome = "failure" \/ events[i].number \in commits
              \/ \E j \in DOMAIN pages : pages[j].number = events[i].number

(* A reader that asks for page after page misses no event: what a page has *)
(* not reached when it is read is on the next page or behind it, however   *)
(* many events are written between the two.  The total is never less than  *)
(* what the page was cut from.                                             *)
PagesMissNothing ==
    \A i \in DOMAIN pages :
        /\ pages[i].total # None => pages[i].total >= Cardinality(pages[i].there)
        /\ \A j \in i + 1 .. Len(pages) :
              /\ pages[j].outcome = pages[i].outcome
              /\ pages[j].offset = pages[i].offset + pages[i].limit
              => \A id \in pages[i].there :
                    Cardinality({newer \in pages[i].there : newer > id}) >= pages[j].offset
                    => \E shown \in pages[j].shown : shown >= id

(* Every request that was queued is answered, once, with its own request   *)
(* id and the security headers, whatever is thrown on the way.             *)
EveryRequestAnswered ==
    <>[](\A number \in DOMAIN work :
            /\ Len(answers[number]) = 1
            /\ answers[number][1].id = resolve_request_id(number)
            /\ "security" \in answers[number][1].headers)
=============================================================================
