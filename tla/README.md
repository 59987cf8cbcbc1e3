# SecureCore: TLA+ models, model checking and proofs

SecureCore is an HTTP(S) service in C++: Boost.Asio sessions in front of a pool
of worker threads, services for accounts, token sessions, roles and audit, and
SQLite behind a connection pool. This directory models its components from the
start of a process to the end of its shutdown, with the order in which threads,
calls and processes act as the main subject, checks them with TLC on small
instances, and proves with TLAPS, for every instance, each safety property that
the passing runs check.

`PROJECT.json` lists components, runs, hazards and theorems, and maps every
definition that models code to the lines it models. Paths below are relative
to the repository.

## 1. Inventory

| Component | State it keeps | Operations | Interacts with | What makes it correct |
|---|---|---|---|---|
| `WorkerPool` (`src/runtime/worker_pool.cpp`) | bounded FIFO, `accepting_`, `stopping_`, threads, four atomic counters | `try_submit`, `worker_loop`, `stop`, `snapshot` | sessions submit requests; the shutdown thread and the destructor call `stop` | nothing accepted is lost or run twice; `stop` drains, returns, and does so for each of its callers |
| `AuthService`, `AccountSecurityService` (`src/service/`) | none of their own; rows of `users` and `auth_sessions` | login, refresh, authenticate, logout, logout everywhere, list and revoke sessions, change password | run on worker threads, many at once, over pooled connections | one usable session per token family; a reused token ends its family; what was ended stays ended |
| `AuthSessionRepository`, `UserRepository` (`src/repository/`) | tables `auth_sessions`, `users` | statements, alone or inside a transaction of a service | `Database`, `DatabaseTransaction` | a statement touches the rows its WHERE names, and no others |
| `AdminService`, `RbacRepository`, `secure-admin` (`src/service/admin_service.cpp`, `src/repository/rbac_repository.cpp`, `apps/secure_admin/main.cpp`) | `users.enabled`, `users.role`, `user_roles` | enable, disable, assign and revoke a role; promote and demote | the tool is another process on the same file | somebody who can manage roles always remains; the legacy alias agrees with the roles |
| `Database` (`src/database/database.cpp`) | handles, `available_indices_`, `shutting_down_`, counters | acquire, wait with timeout, release, destructor | every repository | a connection is leased once; no lost wakeup; the destructor waits for everybody and returns |
| `DatabaseTransaction` (`src/database/transaction.cpp`) | a lease and `active_` | begin immediate, execute, commit, roll back, destroy | holds a lease of `Database` | no connection returns to the pool inside a transaction, except after a ROLLBACK that failed |
| `MigrationRunner` (`src/database/migration.cpp`) | `schema_migrations` | apply the pending migrations | server and tool at startup, perhaps at once | all or nothing per migration, in order, once; nobody works on an older schema |
| `HttpServer`, `ConnectionManager` (`src/http/http_server.cpp`, `src/net/connection_manager.cpp`) | acceptor, set of connections, draining and stopping flags | accept, reject at the limit, drain, force stop, wait until idle | sessions register and remove themselves; the shutdown thread drains and stops | no connection is served after the stop; none is leaked from the set; the limit holds |
| `HttpSession`, `TlsHttpSession` (`src/http/`) | strand, parser, response queue of one, deadline, draining flag | handshake, read, dispatch, write, drain, stop, time out | posts to `WorkerPool` and is posted back; counted in `MetricsRegistry` | one response per request, in order; a drained session finishes the request it has and closes; counters balance |
| `ServerApplication`, `ServiceState` (`src/runtime/`) | lifecycle state, shutdown thread | run, stop, the shutdown sequence, readiness | signals, both servers, the pool, the io threads | shutdown ends; pool and database are destroyed after their last user |
| `AuthAbuseProtector` (`src/security/`) | two bounded maps of failure windows and lockouts | check, record failure, record success, prune, evict | login, on many threads at once | no new guess during a lock; a lock ends when it should; it doubles up to a maximum; Retry-After is enough, to the millisecond |
| `RateLimiter` (`src/http/rate_limiter.cpp`) | bounded map of windows | check, clean up, evict | every request | a burst is bounded, also across the border of two windows and with clocks out of order |
| `MetricsRegistry` (`src/observability/`) | atomic counters and gauges | increment, decrement with a guard | sessions, auth, audit | gauges never wrap |
| `AuditService`, `AuditRepository`, the request's audit context (`src/service/`, `src/repository/`, `src/audit/`) | table `audit_events`, a thread-local context, two counters | record, list, purge at startup | handlers call it after the change | a record follows a change, or its loss is counted; it names its own request; a reader of pages misses nothing |
| `Router`, the middlewares, the routes (`src/http/`) | routes, fixed at startup | register, match, run the chain, answer | per request, on a worker thread | the registered handler runs; every request is answered once |
| `TrustedProxyResolver` (`src/net/trusted_proxy.cpp`) | networks, fixed at startup | resolve the client | per request; rate limit and audit use its result | the client is the last untrusted hop |
| `CorsPolicy`, request validation, request ids (`src/http/`) | policies, fixed at startup | decide on origin and preflight, check a body or a parameter | per request | refused requests do not reach a handler |
| `ServerConfig` (`src/config/server_config.cpp`) | the settings | load file and environment, validate | every process at startup, and the constructors that take the settings | what validation accepts the constructors accept |
| `Logger`, `PasswordHasher`, `TokenService` | none | print, hash, draw | all | text and cryptography; outside what a model of this kind can say |

Hard behaviours, by place (the full list, with lines and the properties that
cover each, is `hazards` in `PROJECT.json`):

* both pools send notifications after they have unlocked their mutex, their
  sleepers wake up spuriously, time out, or are overtaken by newcomers;
* `WorkerPool::stop` has several callers, `~Database` shares a condition
  variable with the threads it must outlive;
* a service call is several statements, each on a connection of its own, and
  uses what an earlier one has read (user row, session row, clock, permission)
  when it may be stale; refresh, logout, revocation, password change and
  disabling race each other;
* two processes write the same database, and both migrate it when they start,
  from a version each has read before its first transaction; a process may die
  between any two statements;
* the protector of logins and the rate limiter are given times that were read
  before their mutex was waited for, so that time may run backwards for them;
  both give up entries when they are full;
* the audit record follows the commit of the change and may fail by itself;
  its request is found through a thread-local variable;
* an exception may leave a handler at any point of the chain of middlewares;
* transactions fail at every statement, at COMMIT and at ROLLBACK;
* a shutdown drains sessions against a grace period while requests are in the
  worker pool.

## 2. Modules

| Module | Models | Proofs |
|---|---|---|
| `TaskExecutor` | what `WorkerPool` promises to those who submit to it (abstract specification) | |
| `WorkerPool` | `worker_pool.cpp` | `WorkerPool_proofs` |
| `AuthSessions` (`MCAuthSessions`) | `auth_service.cpp`, `account_security_service.cpp`, `auth_session_repository.cpp` | `AuthSessions_proofs` |
| `DatabasePool` | the pool of `database.cpp`, and `transaction.cpp` | `DatabasePool_proofs` |
| `Rbac` (`MCRbac`) | `admin_service.cpp`, `rbac_repository.cpp`, `secure-admin` | `Rbac_proofs` |
| `HttpSession` (`MCHttpSession`), over `TaskExecutor` | `http_session.cpp`, `tls_http_session.cpp`, `connection_manager.cpp`, the gauges of `metrics_registry.cpp` | `ServerLifecycle_proofs` |
| `ServerLifecycle`, extends `HttpSession` | `http_server.cpp`, `server_application.cpp`, `service_state.cpp` | `ServerLifecycle_proofs` |
| `LoginGuard` (`MCLoginGuard`) | `auth_abuse_protector.cpp` and the login calls around it | `LoginGuard_proofs` |
| `ServerConfig` | `server_config.cpp`, and the checks of the constructors that take the settings | `Startup_proofs` |
| `Startup` (`MCStartup`), extends `ServerConfig` | both `main`s, the constructor of `ServerApplication`, `migration.cpp` | `Startup_proofs` |
| `TrustedProxy` | `trusted_proxy.cpp` | `RequestPipeline_proofs` |
| `RateLimiter` | `rate_limiter.cpp` | `RequestPipeline_proofs` |
| `Router` | `router.cpp` | `RequestPipeline_proofs` |
| `ApiRoutes`, extends `Router` | the routes of `routes.cpp`, `account_routes.cpp`, `admin_routes.cpp`, `audit_routes.cpp`, `rbac_routes.cpp`, `metrics_routes.cpp` | `RequestPipeline_proofs` |
| `RequestPipeline` (`MCRequestPipeline`), extends the four before | the task of `http_session.cpp`, `middleware.cpp`, `request_audit_context.cpp`, `audit_service.cpp`, `audit_repository.cpp` | `RequestPipeline_proofs` |

The `MC` modules add the symmetry set, a view for the action properties of
`AuthSessions`, and the inputs of a run: the configuration files of
`MCStartup`, the requests of `MCRequestPipeline`. Definitions introduced by a comment
that starts with "Mutant:" are deliberately wrong variants of the definition
that follows; no specification uses them. They exist to show that the property
named in `PROJECT.json` notices that mistake.

### WorkerPool

One step is one critical section of `queue_mutex_`, one notification, or one
update of an atomic counter outside the lock. `caller[t]` is where the call
`try_submit(t)` is and later its result, `worker[w]` where a thread is in
`worker_loop`, `stopper[s]` where a call of `stop()` is; `stopMutex` is
`stop_mutex_`, held from the flags to the join. `executed` is history. A task
that throws ends like one that returns: the code catches both. The counters are
updated where the code updates them.

`TaskExecutor` is the promise: accepted or refused once, executed once, never
more than `Limit` outstanding, stopped only when nothing is. The mapping
(`Executor` in `WorkerPool`) takes queue and running tasks for `pending`.
`HttpSession` is composed with `TaskExecutor` in place of the pool.

### AuthSessions

A call is a record: operation, position, token, user and what it has read. A
statement outside a transaction is one step, a transaction is one step (BEGIN
IMMEDIATE excludes all other writers, and readers see committed states only),
and the clock is read in the step in which the code reads it: for `refresh`
before the transaction, so that expiry is judged with an old time. A token is
the id of its row: the code looks rows up by the hash of a 256-bit random
token, so equal tokens do not occur; 0 stands for a token nobody issued. A
password hash is the password it is of, with a flag for outdated parameters.
A call may fail at any of its statements (`Throws`). `ended` and `cut` are
history variables: the families a caller was told are over, and, for every user,
how many rows existed at the last revocation of all of them.

Two weaknesses of the code are kept in the model and restrict what
`CutHolds` says. A login that has verified the password may create its session
after a concurrent password change or disabling has revoked the sessions of the
user, and the rehash inside `login` may overwrite the hash that a concurrent
change has stored. No document of the repository promises otherwise.

### DatabasePool

One step is one critical section of `pool_mutex_`, or the notification that
`release_connection` sends after it. Waiters and the destructor sleep on the
same condition variable: `notify_one` may reach any of them. A timeout may also
be reported to a thread that was notified, because `wait_for` decides by the
clock; the predicate is then looked at once more. `inTransaction` is SQLite's
state: which connections have a transaction open. A statement may make SQLite
roll back by itself (disk full, I/O error), COMMIT may fail, and the destructor
of `DatabaseTransaction` then rolls back before the lease is returned.
`finish_noexcept` swallows the failure of that ROLLBACK too: when it leaves the
transaction open (`FinishFails`, remembered in the history variable `leftOpen`)
the connection goes back to the pool inside it. The statements of its next users
then belong to that transaction, and no BEGIN succeeds, on this connection or
another, until SQLite rolls it back at an error or closes the connection.
`TransactionHasOwner` says that this is the only way: an abandoned object, a
failing statement or a failing COMMIT leaves nothing open. What
`ClosedAfterLastUse` does not say is that the members outlive `notify_one`: a
thread that has released its lease and is about to notify may touch the condition
variable after the destructor has found the counters zero. The application joins
its threads before it destroys the database.

### Rbac

A call authenticates, reads the permission and changes the target in three
steps; the tool decides inside its transaction. `LastSuperAdmin` is the count
that both make inside the transaction. The initial states are those migration 5
leaves for any set of existing accounts.

### HttpSession

One module for both classes, with `Tls` as a constant: they differ in a
handshake before the first read and a TLS shutdown after the last write. All
handlers of a session run on its strand, so a handler is one step, except that
`handle_disconnect` removes the session from the manager in a step of its own
(`Remove`), since other threads look at the set. `op` is the operation that is
out on the stream; it completes at some time, with success, an error or a
timeout, and if the session was stopped meanwhile, its handler returns at once
(`Aborted`). `posted` is what waits on the strand: start, drain and stop, in
this order, and the response of a worker. `dispatch` may run a handler before
it returns; a model in which it always queues includes that. A request is its
number on the connection, and the task `<<s, n>>` of the pool is the n-th
request of session `s`. A response is reduced to whether it closes the
connection. `drainedAt` is history.

The server is the environment of this module: it registers, drains and stops
at any time, and so does the end of the pool.

### ServerLifecycle

Adds the strand of the server as a queue of handlers (`server.strand`), the io
threads, the shutdown thread and the main thread. `Signal` runs
`do_begin_draining` at once if the strand is idle and queues it if it is busy,
as `dispatch` does on a thread of the io_context; `ThreadDies` (an exception
leaves `io_context_.run()`) always queues it. `shutdown` is the position in
`run_shutdown_sequence`; each of its waits ends with success or with its
deadline, whichever comes first. An exception is taken to end its thread
between two handlers. Its sessions take the steps of `HttpSession`, which
`SessionsUndisturbed` states as a refinement, so that every invariant of the
sessions holds in the server.

**Finding.** `run_shutdown_sequence` looks at the set of connections without
waiting for `do_begin_draining`. If the strand is busy with an accept handler on
another thread when the signal arrives and no connection is registered,
`wait_until_idle` returns true at once; the accept handler then registers and
starts a session, which `io_context_.stop()` cuts off. The log has already said
"All HTTP connections drained within the grace period." The run
`server_drained` shows the sequence. The forced path does not have the window:
`force_stop_and_wait` waits for a promise that is kept on the strand, and
`ForcedMeansClosed` is proved.

### LoginGuard

A login is four steps of a worker thread: the arguments of `check` are
evaluated (`Arrive`, which reads the clock), `check` runs under the mutex, the
password is verified, and `record_failure`, with a clock of its own, or
`record_success` runs. Between any two of them others run, so bodies under the
mutex may be given times that go backwards. The tables are functions from the
tracked keys; a full table evicts any entry (`erase(begin())` of a hash table),
and every `PruneEvery`-th operation drops the stale ones. A user name and an
e-mail address of one account are different keys, as in the code. `overtaken`
is history: the locks that began while the call was under way.

What `LockHolds` allows is what the code does: a locked entry may be evicted
for another key, or pruned by an operation with a late clock; the lock of an
account also ends when a call that was let in before it logs in.

A tick is the smallest time the clock tells, `TicksPerMilli` of them a
millisecond. `ceil_seconds` does what the code does: it cuts a wait to whole
milliseconds, rounds them up to seconds, says one second at least and the largest
`uint32_t` (`MaxRetry`) at most. So Retry-After may be short by less than a
millisecond, and `RetryIsEnough` says: by no more than that, unless it is the
largest value. The run has two ticks to the millisecond and reaches both cases.

**Finding.** `quiet_after_lock` compares the time with the end of the lock only.
Failures that are counted after the lock has ended do not postpone the reset of
the level, although the comment below it asks for a whole quiet window. The run
`login_backoff` shows it.

### ServerConfig and Startup

A configuration file is a sequence of lines, an environment a function from
some keys to texts; a text is a list of words, numbers, networks or origins.
`load_from_file` applies the lines over the defaults and the environment over
the lines and converts each value as `apply_setting` does; `IntegerRange` holds
the limits of the integers. `validate_for_server` and `validate_for_admin` are
the conditions of the code. The `...Accepts` operators are the conditions of
the constructors, written from their own sources.

`Startup` has one step for each statement that `MigrationRunner::apply` sends
to the database and one for each phase before it. SQLite is external: one
writer from BEGIN IMMEDIATE to COMMIT, a busy timeout, and rollback of what
was not committed (`pending`) when the writer fails or dies. A database is its
ledger, the objects of its schema and the rows that the migrations change.
The loser of a race to migrate fails on the INSERT, or on ADD COLUMN, leaves no
trace and has to be started again. `next` of a process is what it has read of
the ledger. A database of a newer release is accepted in silence by the code;
the initial databases are those of this release and the ones before it.

Three settings pass validation and are refused by a constructor: an origin that
is given twice, an origin with a control character (`CorsPolicy`), and
`localhost` as the address to listen on, which `is_loopback_address` accepts and
`configs/CONFIGURATION.md:12-13` names as allowed, and which `make_address` in
the constructor of `HttpServer` does not parse. The listener is constructed
before the migrations, so such a start leaves the database alone.
`ValidatedIsAccepted` is about the other constructors; files with these three
settings are among the inputs of `startup`.

### RequestPipeline

A thread takes the next request and goes through the middlewares from the
outside in. `Begin` resolves the client, enters the audit context, decides on
CORS and reads the clock of the rate limiter; `Check` is the critical section
of the limiter and the dispatch of what passes; a service then succeeds, fails
with an error of its own or throws; `Record` writes the audit event; `Finish`
turns an exception into a response, sets the headers and leaves the context.
What the services do to their tables is `AuthSessions` and `Rbac`. `TrustedProxy`,
`Router` and `RateLimiter` are operators over the data the code parses; `Handlers`
in `ApiRoutes` says for each handler what it needs, which statuses its errors
become, which outcomes it audits and whether it may have committed before it
threw. `commits`, `admitted`, `evicted` and `pages` are history.

`Router::add_route` refuses a registration that is made twice, or that names the
parameters of a pattern differently: the server then does not start. `Conflicts`
is that condition, and an assumption of `MCRequestPipeline` (`RoutesRegister`)
checks that none of the registrations of `Routes` meets it.

Behaviour of the code that the properties allow for:

* registration and login commit before they read the row back; if that throws,
  the answer is 500 and nothing is audited (`partial` in `ApiRoutes`);
* an audit event may be stored and still be counted as failed, if reading it
  back throws;
* an event whose User-Agent is not valid UTF-8 makes each page that shows it
  end with 500, and a role name that is not makes a failing `revoke_role` end
  with 500 without an event;
* request ids that clients choose may repeat;
* a request that waited for the mutex into the next window counts against that
  one, so that `BurstBounded` bounds it with its window and leaves it out of the
  requests of one span of time;
* the bucket a full limiter evicts, or a clean-up removes, is a fresh window for
  its client, whom `BurstBounded` then leaves out;
* `AuditRepository::count` may throw after the page was read: the answer is 500
  (`CountThrows`);
* an exception that the middlewares cannot turn into a response (`bad_alloc`
  while one is made) is caught outside of them in `handle_request`
  (`http_session.cpp:388`) and answered without their headers: not modelled;
* OPTIONS requests and those CORS refuses do not reach the limiter, and
  responses made from exceptions carry no rate limit headers.

## 3. Runs

| Run | Instance | Checks |
|---|---|---|
| `worker_pool` | 2 workers, 3 tasks, queue of 1, 2 callers of `stop` | `TasksAccounted` (a task is in one place until it has run once, and neither caller of `stop` returns before all have), `NoLostWakeup`; `StopReturns`; `ImplementsExecutor`, the refinement of `TaskExecutor` with its liveness (what is accepted runs, `stop` drains) |
| `sessions_rotation` | 1 user, 2 calls, 3 rows, clock 0..2, lifetimes 1 and 2 | `FamilyIsChain`, `DeadFamilyStaysDead` |
| `sessions_cut` | 2 users, 2 passwords, 2 calls, 2 rows, clock fixed | `EndedMeansDead`, `CutHolds`, `OnlyOwnerRevokes` |
| `database_pool` | 3 threads, 1 connection, destructor | `LeaseIsExclusive`, `TransactionHasOwner`, `NobodyForgotten`, `ClosedAfterLastUse`; `WaitEnds`, `DestructorReturns` |
| `rbac` | 3 users, 3 roles, 2 calls, the tool | `RoleTablesAgree`, `ManagerRemains` |
| `http_sessions` | TLS, 2 connections, 2 requests each, pool of 1 | `OneThingOutstanding`, `BookkeepingAgrees`, `DrainServesOneMore` |
| `server_lifecycle` | plain, 2 clients for 1 connection, 1 request each, pool of 1, 2 io threads | `ForcedMeansClosed`, `NothingAfterReturn`, refinement of `HttpSession` (`SessionsUndisturbed`); `ShutdownEnds`, `RequestsEnd`, `DrainEmpties` |
| `server_drained` | 1 connection, 2 io threads | `DrainedMeansIdle`, which is violated (first finding) |
| `login_guard` | 2 concurrent logins, 2 spellings of 1 account, 2 addresses of which 1 fits, account limit 1, address limit 2, locks of 1 and 2 seconds, seconds of 1 millisecond and 2 ticks, a Retry-After of 4 at most, the clock at 1, 2, 4, 5 and 9 | `NoGuessDuringLock`, `RetryIsEnough`, `LockHolds`, `LockoutDoubles` |
| `login_backoff` | 1 login at a time, account limit 2 | `ResetNeedsQuiet`, which is violated (second finding) |
| `startup` | a server and the tool, databases of every version, 1 user, 1 crash, some 80 configurations | `SchemaMatchesLedger`, `ValidatedIsAccepted`; `StartupEnds` |
| `requests` | 2 threads; some 550 single requests, 3 workloads on the audit trail, 3 on the rate limit (1 request in 2 ticks, 2 buckets, a clean-up at every second request) | `ClientIsLastUntrusted`, `RoutedAsRegistered`, `BurstBounded`, `EventsNameTheirRequest`, `ChangesAreRecorded`, `PagesMissNothing`; `EveryRequestAnswered` |

Why the bounds are enough to be interesting: with two workers and a queue of
one, a notification can go to the wrong sleeper, the queue is full, and the
second caller of `stop` finds the first one joining. Three session rows are a
login, its child and its grandchild, or two families of which one rotates; the
clock of three instants lets a refresh with an old time meet an expired parent.
One connection and three threads give a holder, a waiter and a newcomer that
overtakes it, or two waiters and the destructor; the invariants of the pool are
proved for every size. Three users are two administrators who turn on each
other and a bystander. Two sessions compete for the pool of one, which refuses
the second request; two requests are one being answered when the drain begins
and one after it. Two io threads are one that may die, or be busy on the
strand, while the other goes on. `MaxRequests` ends no connection: where
fairness matters, a session that has reached it stands for one whose client
goes on (`BusyClient`). In `login_guard` the clock jumps to any later one of five
instants, which hold a lock of two ticks, one of four, waits that are not whole
milliseconds or that saturate, the reset after a quiet window and a prune that
finds a stale entry; an account limit of one makes each failure a lock, and the address
limit of two leaves a count that is not one. Rounding is checked for many
scales by an assumption of `MCLoginGuard`. `MCStartup` sets each integer to both ends of
its range and to the values next to them, and one crash is enough to die
between any two statements while the other process goes on. The requests of
`MCRequestPipeline` vary one thing at a time: all chains of up to three hops over
two clients and two proxies, every odd form of a token and of an element, every
method on an instance of every route, every way to fail validation, every
combination of the CORS headers. A workload of four requests on two threads has
two windows of the limiter and an eviction, and one of two a clean-up that
removes a bucket.

The bounds `MaxSessions`, `MaxTime`, `MaxCrashes` and `Instants` only refuse
further steps; the proofs hold for every value of them. Symmetry is used in safety runs only.
Deadlock is checked except in `requests`, where the threads stop when the
workload has been answered; `Finished` in `WorkerPool` and `Gone` in
`DatabasePool` mark the states in which the object is gone and everybody has
returned.

### Fairness

* `WorkerPool`: a thread that is not asleep runs, a task ends, a call that has
  begun goes on. That tasks end is what the pool's users owe it: the handlers
  are bounded by the connection timeout and SQLite's busy timeout. Nothing is
  assumed about submitting, stopping or spurious wakeups.
* `DatabasePool`: the same, for the holder of a lease and for a thread that was
  woken. `TimeoutExpires` is strongly fair: the deadline of `wait_for` is
  absolute, so it also passes for a thread that is woken in vain again and
  again. The destructor, once woken, looks. Nobody has to destroy the pool.

* `ServerLifecycle`: while an io thread runs, each strand gets its turn, and
  each operation on a stream ends, because every one of them has a timeout;
  tasks end; threads that can be joined are. A busy client need not stop,
  nobody has to connect or to send a signal, and threads may die. That the
  deadlines of the shutdown thread pass (`DeadlinesPass`) is assumed for
  `ShutdownEnds` only: `DrainEmpties` must hold without them.

* `Startup`: a process that has been started is scheduled, and a wait for the
  write lock ends because of the busy timeout or because the holder goes on;
  nobody has to start a process, and a crash may come at any time.
* `RequestPipeline`: the threads of the pool are scheduled, and a handler ends.

`AuthSessions`, `Rbac` and `LoginGuard` have no liveness properties: the calls
have no loops.

## 4. Proofs

Every theorem is `Spec => []P`, `Spec => [][A]_vars` or a refinement, for all
values of the constants that satisfy the named assumptions of the component's
module: finite sets of threads and users, a positive capacity or pool size,
positive limits and windows, `RefreshLifetime > AccessLifetime > 0`, and `None`
outside the sets it is none of. Three of them say what kind of thing an input
is: the headers, path and page of a request (`WorkAssumption`), the networks of
the proxies (`ProxyAssumption`), the lines and the environment of a process
(`InputAssumption`). TLC evaluates all of them on the runs. In each proof module an
inductive invariant is proved first, and the properties follow from it.

* `WorkerPool_proofs`: `TypeCorrect`, `OnePlace`, `Wakeup`, `Drained` (`stop`
  returns after every accepted task has run), `Accounted` (`OnePlace` and
  `Drained`), `SafelyImplementsExecutor`. The
  properties are not inductive by themselves. Added: a worker has a task exactly
  while it runs one; `accepting_` and `stopping_` are opposite; a worker has
  returned only when the queue is closed and empty (a closed queue stays
  empty); `workers_` is cleared only after all have returned. With them every
  step is a step of `TaskExecutor` or leaves its variables alone, and the
  number of outstanding tasks is bounded by counting queue and workers apart.
* `AuthSessions_proofs`: `TypeCorrect`, `OneLive`, `RotationChain`,
  `FamilyChain` (the two together), `NoRevival`, `EndedDead`, `CutsHold`,
  `OwnerOnly`. The core is `FamilyInv`:
  the id of a family is that of the login's row, a family has one user and at
  most one usable session, and the parent of a row is revoked, of the same
  family and user, and has no other child. From it an ended family is one
  without a usable session, and no refresh can add to it. `StampInv` (what a
  call read from the clock is not later than now, and no row expires later than
  now and the lifetime allow, nor the parent of a refresh in progress later
  than its stamp does) gives the order of expiry times. The rest bounds `cut`
  by the number of rows and ties a call to the user of its token.
* `DatabasePool_proofs`: `TypeCorrect`, `Exclusive`, `TransactionsOwned`,
  `Counted`, `Wakeup`, `ClosedSafely`, `DestructorWoken`, `NobodySleepsOn` (of
  `Wakeup` and `DestructorWoken`). Added: a thread has a
  lease exactly in the states between acquire and release, `shutting_down_`
  is the destructor's, and a `DatabaseTransaction` that lives owns a transaction
  that no failed ROLLBACK has left behind. The wakeup argument counts: a release adds one
  connection and one notifier, a notifier becomes one awake thread, and an
  awake thread goes back to sleep only when there is nothing to take.
* `Rbac_proofs`: `TypeCorrect`, `AliasAgrees`, `BaseRole`, `TablesAgree` (both),
  `LockoutImpossible`.
  Added: an account that is not registered has no roles. `TablesChange` reduces
  every step to one of the shared transactions; `LockoutImpossible` then needs
  only that a set with more than one element does not become empty by losing
  one.

* `ServerLifecycle_proofs`, first part, about any server around the sessions:
  `TypeCorrect`, `OneOutstanding`, `GaugesExact`, `RegistryExact`,
  `BookkeepingExact` (both), `DrainBounded`. `LocalInv` says, for each phase of
  a session, which operation is out and whether a task or a response is; for a
  draining session, that one that reads, or writes a response that keeps the
  connection, has read nothing since the drain. A step is then one of two
  shapes, `Continue` and `handle_disconnect`, for which the gauges and the
  registry are treated once (`ContinueStep`, `DisconnectStep`); the lemma of a
  handler only shows what it leaves of the session.
  Second part, about this server: `SessionsRefined` (it implements
  `HttpSession`), from which the sessions' invariant carries over;
  `ServerTypeCorrect`, `ForcedClosed`, `QuietAfterReturn`. Added: a stopped
  server drains, so that `Accept` is impossible after a forced stop, and the
  position of the shutdown thread says whether the pool is closed and joined
  and the io_context stopped.

* `Startup_proofs`: `Invariance`, `SchemaMatches`, `ValidationSuffices`, for any number of servers,
  tools, users and crashes. `SchemaMatchesLedger` is not inductive: added are
  `WriterInv` (whoever is inside a transaction holds the write lock, and without
  one nothing is pending), `PendingInv` (what the transaction has made of the
  committed database after each of its statements) and `NextInv` (the versions
  below the one a process goes on with are in the ledger, since the ledger only
  grows, although the process may have read it long ago). `MigrateConsistent`
  is the heart: a migration whose version is missing and whose predecessors are
  there takes a consistent database to a consistent one; the version it adds is
  then the next one (`LedgerNumber`), so the ledger gets no gap.
  `ValidationSuffices` rests on `ConfigInv`: a loaded configuration is `Ranged`
  (each setting has the type and the limits with which `apply_setting` let it
  in), and one that was validated satisfies `validate_common` too.
  `LinesSound` is the induction over the lines of the file, `OverridesSound`
  the environment, `ValidAccepted` the comparison with the constructors.

* `LoginGuard_proofs`: `Invariance`, `TypeCorrect`, `GuessesStop`,
  `RetryHonest`, `LocksHold`, `LocksDouble`. None of the properties is
  inductive: a call carries a clock reading, and what it was told, past the
  steps of others. `CallOk` says, for each phase of a call, what it may expect
  of the locks of its two keys: a call that was let in meets no lock except one
  that began since, and one that was refused was told a time that the locks
  there were outlast by less than a millisecond, or the largest there is. A step either makes no lock of a key longer
  (`NoLonger`: a check, a success, a prune, an eviction) or begins one that
  every call under way is told of (`Overtake`). `check_state` and
  `record_failure_state` are treated once, for any entry and any clock, also
  one that runs backwards. The length of a lock is computed by a loop that
  doubles and stops at the maximum; `LoopFunction` and `MultiplierDoubles` show
  by induction over its rounds what it computes.

* `RequestPipeline_proofs`: `Invariance`, `ClientResolved`, `Routing`,
  `EventsNamed`, `NothingMissed`, `ChangesRecorded`, `BurstsBounded`, for any
  workload and any number of threads.
  `Structure` is the common part: a thread is idle without a context, or in a
  task that no other thread has, with the context of that task. To it each
  property adds its own: `RouteInv` (a task that a service runs is at the
  handler its request was routed to), `NamesInv` (a stored event is named as
  the request it is of), `PageInv` (what a page shows is what a rank between
  offset and offset + limit has; the total was counted when at least these were
  there), `HistoryInv` and `SilenceInv` (the changes whose event is lost are no
  more than the counter of failures says, counted as a set), `LimitInv` (the
  windows of a client lie apart, and the requests admitted to a window are no
  more than its bucket has counted, unless its bucket was ever given up). What the resolver
  and the router compute is shown apart from the steps: the walk from the last
  hop to the first by induction over the chain, the tables by induction over
  the list of routes.

Inductions over numbers and lists are made with a least counterexample, or with
a set in place of a predicate (`SetInduction`), because the library's theorems
with an operator as a parameter cannot be used by the provers; a recursive
function or a fold is first shown to satisfy its own equation.

Only model-checked: the properties that need fairness, which is beyond the
prover: `StopReturns`, the liveness of `ImplementsExecutor`, `WaitEnds`,
`DestructorReturns`, `ShutdownEnds`, `RequestsEnd`, `DrainEmpties`,
`StartupEnds`, `EveryRequestAnswered`. `DrainedMeansIdle` and
`ResetNeedsQuiet` do not hold of the code.

## 5. Plan

Done: `WorkerPool` with `TaskExecutor`, `AuthSessions`, `DatabasePool`, `Rbac`,
`HttpSession`, `ServerLifecycle`, `LoginGuard`, `ServerConfig` with `Startup`,
`RequestPipeline` with `TrustedProxy`, `Router`, `RateLimiter` and `ApiRoutes`,
and the safety proofs of all of them.

Left: the destruction of the database after the pool, composed with
`DatabasePool`; a proof that `WorkerPool` may stand in for `TaskExecutor` below
`HttpSession` in one composed specification.

## 6. Not modelled

Characters: what parsers do to the text of a header, a configuration value, an
address or JSON is modelled by what they find in it. The JSON of responses, the
text of the metrics page and the log. Cryptography (Argon2, token generation):
abstracted as said above. Read-only calls (listing users and sessions). Code
without a caller: `revoke_by_refresh_token_hash`, `delete_expired`,
`UserRepository::set_role`, `DatabaseTransaction::rollback` outside the tests.
The totals and maxima that the pools export only grow and decide nothing.
Databases of a newer release. Memory order: the flags and counters the models
read are read under their mutex, or are monotone counters.

## 7. Running

In this directory: `tlc -config <cfg> <module>` for the pairs listed under
`runs` in `PROJECT.json`, and `tlapm <module>_proofs.tla` for the proofs.
