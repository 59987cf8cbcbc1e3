---------------------------- MODULE DatabasePool ----------------------------
(***************************************************************************)
(* The connection pool of Database and the transactions that hold its      *)
(* leases (src/database/database.cpp, src/database/transaction.cpp).       *)
(*                                                                         *)
(* A thread acquires a lease, runs one statement or one transaction on its *)
(* connection and gives it back.  It waits, up to a timeout, while every   *)
(* connection is leased.  The destructor closes the pool, waits until no   *)
(* lease is out and nobody waits, and closes the connections.  Waiters and *)
(* the destructor sleep on the one condition variable pool_condition_.     *)
(*                                                                         *)
(* A critical section of pool_mutex_ is one step.  release_connection      *)
(* notifies after the mutex is released, which is a step of its own; what  *)
(* acquire_connection and the destructor notify, they notify inside.       *)
(***************************************************************************)
EXTENDS Integers, Sequences, FiniteSets

CONSTANTS
    Threads,        \* the threads that use the database
    PoolSize,       \* pool_size_
    None            \* no connection

ASSUME ThreadsAssumption == IsFiniteSet(Threads)
ASSUME PoolSizeAssumption == PoolSize \in Nat \ {0}
ASSUME NoneAssumption == None \notin Nat

VARIABLES
    available,      \* available_indices_, front first
    shuttingDown,   \* shutting_down_
    active,         \* active_connections_
    waiting,        \* waiting_threads_
    at,             \* where each thread is
    use,            \* what a thread acquires its connection for
    held,           \* the connection of a thread's lease
    inTransaction,  \* SQLite: the connections with an open transaction
    leftOpen,       \* history: those whose last ROLLBACK failed
    destructor      \* where ~Database is

vars == <<available, shuttingDown, active, waiting, at, use, held,
          inTransaction, leftOpen, destructor>>
sqlite == <<inTransaction, leftOpen>>

Connections == 0 .. PoolSize - 1       \* the indices of handles_
Uses == {"statement", "transaction"}

ThreadStates == {"idle", "asleep", "awake", "expired", "statement", "begin",
                 "transaction", "unwind", "release", "notify_one",
                 "notify_all"}

DestructorStates == {"not_called", "asleep", "awake", "closed"}

(* In the body of acquire_connection, after the wait has begun.            *)
WaitStates == {"asleep", "awake", "expired"}

Init ==
    /\ available = [i \in 1..PoolSize |-> i - 1]
    /\ shuttingDown = FALSE
    /\ active = 0
    /\ waiting = 0
    /\ at = [t \in Threads |-> "idle"]
    /\ use = [t \in Threads |-> "statement"]
    /\ held = [t \in Threads |-> None]
    /\ inTransaction = {}
    /\ leftOpen = {}
    /\ destructor = "not_called"

-----------------------------------------------------------------------------
(* pool_condition_                                                         *)

Go(t, state) == at' = [at EXCEPT ![t] = state]

(* notify_one: one sleeper, a waiter or the destructor, if there is any.   *)
NotifySomeone(t) ==
    \/ \E w \in Threads :
         /\ at[w] = "asleep"
         /\ at' = [at EXCEPT ![t] = "idle", ![w] = "awake"]
         /\ UNCHANGED destructor
    \/ /\ destructor = "asleep"
       /\ destructor' = "awake"
       /\ Go(t, "idle")
    \/ /\ destructor # "asleep"
       /\ \A w \in Threads : at[w] # "asleep"
       /\ Go(t, "idle")
       /\ UNCHANGED destructor

Woken(state) == IF state = "asleep" THEN "awake" ELSE state

(* notify_all, by a thread that returns from its call.                     *)
NotifyEverybody(t) ==
    /\ at' = [w \in Threads |-> IF w = t THEN "idle" ELSE Woken(at[w])]
    /\ destructor' = Woken(destructor)

-----------------------------------------------------------------------------
(* acquire_connection                                                      *)

(* The front of available_indices_ goes to t.                              *)
Lease(t, purpose) ==
    /\ held' = [held EXCEPT ![t] = Head(available)]
    /\ available' = Tail(available)
    /\ active' = active + 1
    /\ Go(t, IF purpose = "statement" THEN "statement" ELSE "begin")

AcquireStopping(t) ==
    /\ at[t] = "idle"
    /\ shuttingDown
    /\ destructor # "closed"
    /\ UNCHANGED vars

(* Mutant: the connection is looked at and not popped.                     *)
AcquireFront(t, purpose) ==
    /\ at[t] = "idle"
    /\ ~shuttingDown
    /\ available # <<>>
    /\ use' = [use EXCEPT ![t] = purpose]
    /\ held' = [held EXCEPT ![t] = Head(available)]
    /\ active' = active + 1
    /\ Go(t, IF purpose = "statement" THEN "statement" ELSE "begin")
    /\ UNCHANGED <<available, shuttingDown, waiting, sqlite, destructor>>

AcquireNow(t, purpose) ==
    /\ at[t] = "idle"
    /\ ~shuttingDown
    /\ available # <<>>
    /\ use' = [use EXCEPT ![t] = purpose]
    /\ Lease(t, purpose)
    /\ UNCHANGED <<shuttingDown, waiting, sqlite, destructor>>

AcquireWait(t, purpose) ==
    /\ at[t] = "idle"
    /\ ~shuttingDown
    /\ available = <<>>
    /\ use' = [use EXCEPT ![t] = purpose]
    /\ waiting' = waiting + 1
    /\ Go(t, "asleep")
    /\ UNCHANGED <<available, shuttingDown, active, held, sqlite,
                   destructor>>

SpuriousWakeup(t) ==
    /\ at[t] = "asleep"
    /\ Go(t, "awake")
    /\ UNCHANGED <<available, shuttingDown, active, waiting, use, held,
                   sqlite, destructor>>

(* Mutant: wait without a timeout.                                         *)
TimeoutNever(t) ==
    /\ at[t] \in {"asleep", "awake"}
    /\ UNCHANGED vars

(* acquire_timeout_ has passed.  wait_for reports the timeout by the       *)
(* clock, also to a thread that was notified before.                       *)
TimeoutExpires(t) ==
    /\ at[t] \in {"asleep", "awake"}
    /\ Go(t, "expired")
    /\ UNCHANGED <<available, shuttingDown, active, waiting, use, held,
                   sqlite, destructor>>

WaiterSleepsAgain(t) ==
    /\ at[t] = "awake"
    /\ ~shuttingDown
    /\ available = <<>>
    /\ Go(t, "asleep")
    /\ UNCHANGED <<available, shuttingDown, active, waiting, use, held,
                   sqlite, destructor>>

(* The predicate is evaluated once more after the timeout: a waiter that   *)
(* is too late takes a connection if there is one.                         *)
WaiterLeases(t) ==
    /\ at[t] \in {"awake", "expired"}
    /\ ~shuttingDown
    /\ available # <<>>
    /\ waiting' = waiting - 1
    /\ Lease(t, use[t])
    /\ UNCHANGED <<shuttingDown, use, sqlite, destructor>>

(* Mutant: a waiter whose time is up gives up without a last look.         *)
WaiterTimesOutAtOnce(t) ==
    /\ at[t] = "expired"
    /\ ~shuttingDown
    /\ waiting' = waiting - 1
    /\ Go(t, "idle")
    /\ UNCHANGED <<available, shuttingDown, active, use, held, sqlite,
                   destructor>>

WaiterTimesOut(t) ==
    /\ at[t] = "expired"
    /\ ~shuttingDown
    /\ available = <<>>
    /\ waiting' = waiting - 1
    /\ Go(t, "idle")
    /\ UNCHANGED <<available, shuttingDown, active, use, held, sqlite,
                   destructor>>

WaiterStopping(t) ==
    /\ at[t] \in {"awake", "expired"}
    /\ shuttingDown
    /\ waiting' = waiting - 1
    /\ NotifyEverybody(t)
    /\ UNCHANGED <<available, shuttingDown, active, use, held, sqlite>>

-----------------------------------------------------------------------------
(* What a lease is used for.                                               *)

(* The callback of with_locked_handle returns or throws.  On a connection  *)
(* whose transaction was left open it reads and writes in it.              *)
Statement(t) ==
    /\ at[t] = "statement"
    /\ Go(t, "release")
    /\ UNCHANGED <<available, shuttingDown, active, waiting, use, held,
                   sqlite, destructor>>

(* The same with an error by which SQLite ends that transaction.           *)
StatementRollsBack(t) ==
    /\ at[t] = "statement"
    /\ held[t] \in inTransaction
    /\ inTransaction' = inTransaction \ {held[t]}
    /\ leftOpen' = leftOpen \ {held[t]}
    /\ Go(t, "release")
    /\ UNCHANGED <<available, shuttingDown, active, waiting, use, held,
                   destructor>>

(* BEGIN IMMEDIATE: SQLite lets one connection at a time write, and opens  *)
(* no transaction in another.                                              *)
Begin(t) ==
    /\ at[t] = "begin"
    /\ inTransaction = {}
    /\ inTransaction' = {held[t]}
    /\ Go(t, "transaction")
    /\ UNCHANGED <<available, shuttingDown, active, waiting, use, held,
                   leftOpen, destructor>>

(* The busy timeout expires, or the connection has a transaction already:  *)
(* the constructor throws, the lease is destroyed with the members.        *)
BeginFails(t) ==
    /\ at[t] = "begin"
    /\ Go(t, "release")
    /\ UNCHANGED <<available, shuttingDown, active, waiting, use, held,
                   sqlite, destructor>>

(* A statement fails in a way (disk full, I/O error) that makes SQLite end *)
(* the transaction by itself; the exception destroys the object.           *)
AutomaticRollback(t) ==
    /\ at[t] = "transaction"
    /\ inTransaction' = inTransaction \ {held[t]}
    /\ Go(t, "unwind")
    /\ UNCHANGED <<available, shuttingDown, active, waiting, use, held,
                   leftOpen, destructor>>

Commit(t) ==
    /\ at[t] = "transaction"
    /\ inTransaction' = inTransaction \ {held[t]}
    /\ Go(t, "release")
    /\ UNCHANGED <<available, shuttingDown, active, waiting, use, held,
                   leftOpen, destructor>>

(* COMMIT or another statement throws, or the caller gives up: the object  *)
(* is destroyed with active_ set.                                          *)
Abandon(t) ==
    /\ at[t] = "transaction"
    /\ Go(t, "unwind")
    /\ UNCHANGED <<available, shuttingDown, active, waiting, use, held,
                   sqlite, destructor>>

(* Mutant: the destructor of the transaction does not roll back.           *)
FinishLeavesOpen(t) ==
    /\ at[t] = "unwind"
    /\ Go(t, "release")
    /\ UNCHANGED <<available, shuttingDown, active, waiting, use, held,
                   sqlite, destructor>>

(* finish_noexcept: ROLLBACK succeeds, or fails because there is nothing   *)
(* left to roll back.                                                      *)
Finish(t) ==
    /\ at[t] = "unwind"
    /\ inTransaction' = inTransaction \ {held[t]}
    /\ Go(t, "release")
    /\ UNCHANGED <<available, shuttingDown, active, waiting, use, held,
                   leftOpen, destructor>>

(* ROLLBACK fails (no memory for it, say) and the transaction stays open.  *)
(* The error is swallowed and the connection released all the same.        *)
FinishFails(t) ==
    /\ at[t] = "unwind"
    /\ held[t] \in inTransaction
    /\ leftOpen' = leftOpen \cup {held[t]}
    /\ Go(t, "release")
    /\ UNCHANGED <<available, shuttingDown, active, waiting, use, held,
                   inTransaction, destructor>>

-----------------------------------------------------------------------------
(* release_connection                                                      *)

(* Mutant: nobody is notified.                                             *)
ReleaseSilently(t) ==
    /\ at[t] = "release"
    /\ available' = Append(available, held[t])
    /\ active' = active - 1
    /\ held' = [held EXCEPT ![t] = None]
    /\ Go(t, "idle")
    /\ UNCHANGED <<shuttingDown, waiting, use, sqlite, destructor>>

Release(t) ==
    /\ at[t] = "release"
    /\ available' = Append(available, held[t])
    /\ active' = active - 1
    /\ held' = [held EXCEPT ![t] = None]
    /\ Go(t, IF shuttingDown THEN "notify_all" ELSE "notify_one")
    /\ UNCHANGED <<shuttingDown, waiting, use, sqlite, destructor>>

ReleaseNotifyOne(t) ==
    /\ at[t] = "notify_one"
    /\ NotifySomeone(t)
    /\ UNCHANGED <<available, shuttingDown, active, waiting, use, held,
                   sqlite>>

ReleaseNotifyAll(t) ==
    /\ at[t] = "notify_all"
    /\ NotifyEverybody(t)
    /\ UNCHANGED <<available, shuttingDown, active, waiting, use, held,
                   sqlite>>

-----------------------------------------------------------------------------
(* ~Database                                                               *)

(* sqlite3_close rolls back what is still open.                            *)
CloseHandles ==
    /\ destructor' = "closed"
    /\ inTransaction' = {}
    /\ leftOpen' = {}

Sleep ==
    /\ destructor' = "asleep"
    /\ UNCHANGED sqlite

(* Mutant: the destructor does not wait for the waiters.                   *)
CloseWithoutWaiters == IF active = 0 THEN CloseHandles ELSE Sleep

(* The handles are closed, or the destructor sleeps (again).               *)
CloseOrSleep == IF active = 0 /\ waiting = 0 THEN CloseHandles ELSE Sleep

Destroy ==
    /\ destructor = "not_called"
    /\ shuttingDown' = TRUE
    /\ at' = [w \in Threads |-> Woken(at[w])]
    /\ CloseOrSleep
    /\ UNCHANGED <<available, active, waiting, use, held>>

DestructorWakes ==
    /\ destructor = "asleep"
    /\ destructor' = "awake"
    /\ UNCHANGED <<available, shuttingDown, active, waiting, at, use, held,
                   sqlite>>

DestructorChecks ==
    /\ destructor = "awake"
    /\ CloseOrSleep
    /\ UNCHANGED <<available, shuttingDown, active, waiting, at, use, held>>

-----------------------------------------------------------------------------
AcquireStep(t) ==
    \/ AcquireStopping(t)
    \/ \E purpose \in Uses : AcquireNow(t, purpose) \/ AcquireWait(t, purpose)

WaitStep(t) ==
    \/ WaiterSleepsAgain(t) \/ WaiterLeases(t) \/ WaiterTimesOut(t)
    \/ WaiterStopping(t)

TransactionStep(t) ==
    \/ Begin(t) \/ BeginFails(t) \/ Commit(t) \/ Abandon(t)
    \/ AutomaticRollback(t) \/ Finish(t) \/ FinishFails(t)

StatementStep(t) == Statement(t) \/ StatementRollsBack(t)

ReleaseStep(t) ==
    Release(t) \/ ReleaseNotifyOne(t) \/ ReleaseNotifyAll(t)

(* The pool is gone and every call has returned.                           *)
Gone ==
    /\ destructor = "closed"
    /\ \A t \in Threads : at[t] = "idle"
    /\ UNCHANGED vars

Next ==
    \/ \E t \in Threads :
         \/ AcquireStep(t) \/ SpuriousWakeup(t) \/ TimeoutExpires(t)
         \/ WaitStep(t) \/ StatementStep(t) \/ TransactionStep(t)
         \/ ReleaseStep(t)
    \/ Destroy \/ DestructorWakes \/ DestructorChecks \/ Gone

Spec == Init /\ [][Next]_vars

(* A thread that can go on does: callbacks and transactions end, BEGIN     *)
(* ends with or without the lock.  The deadline of wait_for is absolute,   *)
(* so a waiter that is woken in vain again and again still expires: strong *)
(* fairness.  Nobody has to call the pool or to destroy it.                *)
Fairness ==
    /\ \A t \in Threads :
         /\ SF_vars(TimeoutExpires(t))
         /\ WF_vars(WaitStep(t))
         /\ WF_vars(StatementStep(t) \/ TransactionStep(t) \/ ReleaseStep(t))
    /\ WF_vars(DestructorChecks)

FairSpec == Spec /\ Fairness

-----------------------------------------------------------------------------
(* Every variable has its type; the counters, unsigned in the code, never  *)
(* go below zero.                                                          *)
TypeOK ==
    /\ available \in Seq(Connections)
    /\ shuttingDown \in BOOLEAN
    /\ active \in Nat
    /\ waiting \in Nat
    /\ at \in [Threads -> ThreadStates]
    /\ use \in [Threads -> Uses]
    /\ held \in [Threads -> Connections \cup {None}]
    /\ inTransaction \subseteq Connections
    /\ leftOpen \subseteq inTransaction
    /\ destructor \in DestructorStates

Holders == {t \in Threads : held[t] # None}
Waiters == {t \in Threads : at[t] \in WaitStates}
Asleep == {t \in Threads : at[t] = "asleep"}

(* Those who will look at available_indices_ or wake somebody who does.    *)
Alert == {t \in Threads : at[t] \in {"awake", "expired", "notify_one"}}

(* Every connection is in one place: once in available_indices_, or in the *)
(* lease of one thread.  No release happens twice and none is lost, on any *)
(* path through commit, rollback and unwinding.                            *)
LeaseIsExclusive ==
    /\ \A i, j \in DOMAIN available : available[i] = available[j] => i = j
    /\ \A t, u \in Holders : held[t] = held[u] => t = u
    /\ \A c \in Connections :
         (\E i \in DOMAIN available : available[i] = c)
           <=> ~ \E t \in Threads : held[t] = c

(* One transaction is open at a time, and while a DatabaseTransaction is   *)
(* alive the open one is its own.  An open transaction without such an     *)
(* owner, which takes in the writes of the next users of its connection    *)
(* and makes every BEGIN fail, has one cause: a ROLLBACK that failed, not  *)
(* an abandoned object, a failing COMMIT or a connection that came back    *)
(* too soon.                                                               *)
TransactionHasOwner ==
    /\ \A c, d \in inTransaction : c = d
    /\ \A t \in Threads :
         at[t] = "transaction" => held[t] \in inTransaction \ leftOpen
    /\ \A c \in inTransaction \ leftOpen :
         \E t \in Threads : held[t] = c /\ at[t] \in {"transaction", "unwind"}

(* The atomic counters are the numbers of leases and of waiters: the       *)
(* destructor relies on them.                                              *)
CountersAgree ==
    /\ active = Cardinality(Holders)
    /\ waiting = Cardinality(Waiters)

(* No lost wakeup: while somebody sleeps, there are as many threads on     *)
(* their way to the free connections as there are free connections.  The   *)
(* notification of a release is sent after the mutex is unlocked; its      *)
(* receiver may find that a newcomer was faster; and it may time out.      *)
NoLostWakeup ==
    /\ Asleep # {} /\ ~shuttingDown => Len(available) <= Cardinality(Alert)
    /\ shuttingDown => Asleep = {}

(* ~Database closes the connections only when no lease is out and nobody   *)
(* waits for one.                                                          *)
ClosedAfterLastUse ==
    destructor = "closed" => Holders = {} /\ Waiters = {}

(* The destructor is never left asleep: a lease or a waiter that will      *)
(* still notify everybody exists, or such a notification is under way.     *)
DestructorIsWoken ==
    destructor = "asleep" =>
        \/ Holders # {} \/ Waiters # {}
        \/ \E t \in Threads : at[t] = "notify_all"

(* Nobody is forgotten: neither a thread that waits for a connection nor   *)
(* the destructor that waits for the threads.                              *)
NobodyForgotten == NoLostWakeup /\ DestructorIsWoken

(* Every wait for a connection ends: with a lease, at the timeout, or with *)
(* the pool.                                                               *)
WaitEnds ==
    \A t \in Threads : (at[t] \in WaitStates) ~> (at[t] \notin WaitStates)

(* The destructor returns.                                                 *)
DestructorReturns == (destructor = "asleep") ~> (destructor = "closed")
=============================================================================
