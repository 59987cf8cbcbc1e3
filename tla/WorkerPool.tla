----------------------------- MODULE WorkerPool -----------------------------
(***************************************************************************)
(* WorkerPool (src/runtime/worker_pool.cpp): a bounded FIFO of tasks under *)
(* queue_mutex_, a condition variable the worker threads sleep on, and a   *)
(* stop() that closes the queue, wakes everybody, joins and clears.        *)
(*                                                                         *)
(* A critical section of queue_mutex_ never blocks, so it is one step.     *)
(* notify_one and notify_all happen AFTER the lock is released and are     *)
(* steps of their own, as are the two atomic counters a worker updates     *)
(* outside the lock.  A sleeping thread may wake up spuriously.            *)
(***************************************************************************)
EXTENDS Integers, Sequences, FiniteSets

CONSTANTS
    Workers,        \* the threads of workers_
    Tasks,          \* one element per call of try_submit
    Stoppers,       \* the threads that call stop()
    QueueCapacity,  \* queue_capacity_
    None            \* no task, no owner

ASSUME WorkersAssumption == Workers # {} /\ IsFiniteSet(Workers)
ASSUME CapacityAssumption == QueueCapacity \in Nat \ {0}
ASSUME TasksAssumption == IsFiniteSet(Tasks) /\ None \notin Tasks
ASSUME StoppersAssumption == None \notin Stoppers

VARIABLES
    tasks,          \* tasks_, front first
    accepting,      \* accepting_
    stopping,       \* stopping_
    worker,         \* where each worker thread is in worker_loop
    current,        \* the task a worker took out of the queue
    caller,         \* where each call of try_submit is, or its result
    stopper,        \* where each call of stop() is
    stopMutex,      \* the owner of stop_mutex_
    joined,         \* workers_ has been joined and cleared
    metrics,        \* queued_tasks_, active_tasks_, completed_, rejected_
    executed        \* history: how often each task has run

vars == <<tasks, accepting, stopping, worker, current, caller, stopper,
          stopMutex, joined, metrics, executed>>

WorkerStates == {"ready", "asleep", "running", "counting", "returned"}
CallerStates == {"calling", "notify", "accepted", "queue_full", "stopped"}
StopperStates == {"idle", "flagged", "joining", "stopped"}
CounterNames == {"queued", "active", "completed", "rejected"}
Counters == [CounterNames -> Int]

Init ==
    /\ tasks = <<>>
    /\ accepting = TRUE
    /\ stopping = FALSE
    /\ worker = [w \in Workers |-> "ready"]
    /\ current = [w \in Workers |-> None]
    /\ caller = [t \in Tasks |-> "calling"]
    /\ stopper = [s \in Stoppers |-> "idle"]
    /\ stopMutex = None
    /\ joined = FALSE
    /\ metrics = [n \in CounterNames |-> 0]
    /\ executed = [t \in Tasks |-> 0]

-----------------------------------------------------------------------------
(* try_submit                                                              *)

RejectWith(t, result) ==
    /\ caller' = [caller EXCEPT ![t] = result]
    /\ metrics' = [metrics EXCEPT !["rejected"] = @ + 1]
    /\ UNCHANGED <<tasks, accepting, stopping, worker, current, stopper,
                   stopMutex, joined, executed>>

SubmitStopped(t) ==
    /\ caller[t] = "calling"
    /\ ~accepting
    /\ RejectWith(t, "stopped")

SubmitQueueFull(t) ==
    /\ caller[t] = "calling"
    /\ accepting
    /\ Len(tasks) >= QueueCapacity
    /\ RejectWith(t, "queue_full")

(* Mutant: accepting_ is not read under queue_mutex_.                      *)
SubmitAcceptedAnytime(t) ==
    /\ caller[t] = "calling"
    /\ Len(tasks) < QueueCapacity
    /\ tasks' = Append(tasks, t)
    /\ metrics' = [metrics EXCEPT !["queued"] = @ + 1]
    /\ caller' = [caller EXCEPT ![t] = "notify"]
    /\ UNCHANGED <<accepting, stopping, worker, current, stopper, stopMutex,
                   joined, executed>>

SubmitAccepted(t) ==
    /\ caller[t] = "calling"
    /\ accepting
    /\ Len(tasks) < QueueCapacity
    /\ tasks' = Append(tasks, t)
    /\ metrics' = [metrics EXCEPT !["queued"] = @ + 1]
    /\ caller' = [caller EXCEPT ![t] = "notify"]
    /\ UNCHANGED <<accepting, stopping, worker, current, stopper, stopMutex,
                   joined, executed>>

(* Mutant: the submission does not notify.                                 *)
NotifyNobody(t) ==
    /\ caller[t] = "notify"
    /\ caller' = [caller EXCEPT ![t] = "accepted"]
    /\ UNCHANGED <<tasks, accepting, stopping, worker, current, stopper,
                   stopMutex, joined, metrics, executed>>

(* condition_.notify_one(): some sleeper, if there is one, is woken.       *)
NotifyOne(t) ==
    /\ caller[t] = "notify"
    /\ caller' = [caller EXCEPT ![t] = "accepted"]
    /\ \/ \E w \in Workers :
            /\ worker[w] = "asleep"
            /\ worker' = [worker EXCEPT ![w] = "ready"]
       \/ /\ \A w \in Workers : worker[w] # "asleep"
          /\ UNCHANGED worker
    /\ UNCHANGED <<tasks, accepting, stopping, current, stopper, stopMutex,
                   joined, metrics, executed>>

-----------------------------------------------------------------------------
(* worker_loop                                                             *)

WorkerSleep(w) ==
    /\ worker[w] = "ready"
    /\ ~stopping
    /\ tasks = <<>>
    /\ worker' = [worker EXCEPT ![w] = "asleep"]
    /\ UNCHANGED <<tasks, accepting, stopping, current, caller, stopper,
                   stopMutex, joined, metrics, executed>>

SpuriousWakeup(w) ==
    /\ worker[w] = "asleep"
    /\ worker' = [worker EXCEPT ![w] = "ready"]
    /\ UNCHANGED <<tasks, accepting, stopping, current, caller, stopper,
                   stopMutex, joined, metrics, executed>>

WorkerReturn(w) ==
    /\ worker[w] = "ready"
    /\ stopping
    /\ tasks = <<>>
    /\ worker' = [worker EXCEPT ![w] = "returned"]
    /\ UNCHANGED <<tasks, accepting, stopping, current, caller, stopper,
                   stopMutex, joined, metrics, executed>>

(* Mutant: the front is copied and not popped.                             *)
WorkerCopiesFront(w) ==
    /\ worker[w] = "ready"
    /\ tasks # <<>>
    /\ current' = [current EXCEPT ![w] = Head(tasks)]
    /\ metrics' = [metrics EXCEPT !["queued"] = @ - 1, !["active"] = @ + 1]
    /\ worker' = [worker EXCEPT ![w] = "running"]
    /\ UNCHANGED <<tasks, accepting, stopping, caller, stopper, stopMutex,
                   joined, executed>>

WorkerTake(w) ==
    /\ worker[w] = "ready"
    /\ tasks # <<>>
    /\ current' = [current EXCEPT ![w] = Head(tasks)]
    /\ tasks' = Tail(tasks)
    /\ metrics' = [metrics EXCEPT !["queued"] = @ - 1, !["active"] = @ + 1]
    /\ worker' = [worker EXCEPT ![w] = "running"]
    /\ UNCHANGED <<accepting, stopping, caller, stopper, stopMutex, joined,
                   executed>>

(* task() returns or throws (both end the same way); active_tasks_ drops.  *)
TaskEnds(w) ==
    /\ worker[w] = "running"
    /\ executed' = [executed EXCEPT ![current[w]] = @ + 1]
    /\ current' = [current EXCEPT ![w] = None]
    /\ metrics' = [metrics EXCEPT !["active"] = @ - 1]
    /\ worker' = [worker EXCEPT ![w] = "counting"]
    /\ UNCHANGED <<tasks, accepting, stopping, caller, stopper, stopMutex,
                   joined>>

CountCompleted(w) ==
    /\ worker[w] = "counting"
    /\ metrics' = [metrics EXCEPT !["completed"] = @ + 1]
    /\ worker' = [worker EXCEPT ![w] = "ready"]
    /\ UNCHANGED <<tasks, accepting, stopping, current, caller, stopper,
                   stopMutex, joined, executed>>

-----------------------------------------------------------------------------
(* stop                                                                    *)

(* Mutant: the flags are tested without stop_mutex_ and the join is not    *)
(* looked at.                                                              *)
StopAgainAtOnce(s) ==
    /\ stopper[s] = "idle"
    /\ ~accepting /\ stopping
    /\ stopper' = [stopper EXCEPT ![s] = "stopped"]
    /\ UNCHANGED <<tasks, accepting, stopping, worker, current, caller,
                   stopMutex, joined, metrics, executed>>

(* A caller that finds the pool stopped, once the one that stopped it has  *)
(* let go of stop_mutex_, returns.                                         *)
StopAgain(s) ==
    /\ stopper[s] = "idle"
    /\ stopMutex = None
    /\ ~accepting /\ stopping /\ joined
    /\ stopper' = [stopper EXCEPT ![s] = "stopped"]
    /\ UNCHANGED <<tasks, accepting, stopping, worker, current, caller,
                   stopMutex, joined, metrics, executed>>

StopFlags(s) ==
    /\ stopper[s] = "idle"
    /\ stopMutex = None
    /\ ~(~accepting /\ stopping /\ joined)
    /\ stopMutex' = s
    /\ accepting' = FALSE
    /\ stopping' = TRUE
    /\ stopper' = [stopper EXCEPT ![s] = "flagged"]
    /\ UNCHANGED <<tasks, worker, current, caller, joined, metrics, executed>>

(* Mutant: notify_one where notify_all is needed.                          *)
StopNotifyOne(s) ==
    /\ stopper[s] = "flagged"
    /\ stopper' = [stopper EXCEPT ![s] = "joining"]
    /\ \/ \E w \in Workers :
            /\ worker[w] = "asleep"
            /\ worker' = [worker EXCEPT ![w] = "ready"]
       \/ /\ \A w \in Workers : worker[w] # "asleep"
          /\ UNCHANGED worker
    /\ UNCHANGED <<tasks, accepting, stopping, current, caller, stopMutex,
                   joined, metrics, executed>>

(* condition_.notify_all()                                                 *)
StopNotifyAll(s) ==
    /\ stopper[s] = "flagged"
    /\ stopper' = [stopper EXCEPT ![s] = "joining"]
    /\ worker' = [w \in Workers |->
                    IF worker[w] = "asleep" THEN "ready" ELSE worker[w]]
    /\ UNCHANGED <<tasks, accepting, stopping, current, caller, stopMutex,
                   joined, metrics, executed>>

StopJoin(s) ==
    /\ stopper[s] = "joining"
    /\ \A w \in Workers : worker[w] = "returned"
    /\ joined' = TRUE
    /\ stopMutex' = None
    /\ stopper' = [stopper EXCEPT ![s] = "stopped"]
    /\ UNCHANGED <<tasks, accepting, stopping, worker, current, caller,
                   metrics, executed>>

-----------------------------------------------------------------------------
WorkerStep(w) ==
    \/ WorkerSleep(w) \/ SpuriousWakeup(w) \/ WorkerReturn(w)
    \/ WorkerTake(w) \/ TaskEnds(w) \/ CountCompleted(w)

SubmitStep(t) ==
    \/ SubmitStopped(t) \/ SubmitQueueFull(t) \/ SubmitAccepted(t)
    \/ NotifyOne(t)

StopStep(s) ==
    \/ StopAgain(s) \/ StopFlags(s) \/ StopNotifyAll(s) \/ StopJoin(s)

(* Every call has returned and every thread is joined: the pool is gone.   *)
Finished ==
    /\ \A s \in Stoppers : stopper[s] = "stopped"
    /\ \A t \in Tasks : caller[t] \notin {"calling", "notify"}
    /\ UNCHANGED vars

Next ==
    \/ \E w \in Workers : WorkerStep(w)
    \/ \E t \in Tasks : SubmitStep(t)
    \/ \E s \in Stoppers : StopStep(s)
    \/ Finished

Spec == Init /\ [][Next]_vars

(* A thread that may run does run, a task ends, and a call of stop() that  *)
(* has begun continues.  Nobody has to submit, to stop, or to be woken     *)
(* spuriously.                                                             *)
Fairness ==
    /\ \A w \in Workers :
        WF_vars(WorkerReturn(w) \/ WorkerTake(w) \/ TaskEnds(w)
                \/ CountCompleted(w))
    /\ \A t \in Tasks : WF_vars(NotifyOne(t))
    /\ \A s \in Stoppers : WF_vars(StopNotifyAll(s) \/ StopJoin(s))

FairSpec == Spec /\ Fairness

-----------------------------------------------------------------------------
(* Every variable has its type, and the queue never outgrows its capacity  *)
(* (the test of try_submit).                                               *)
TypeOK ==
    /\ tasks \in Seq(Tasks)
    /\ Len(tasks) <= QueueCapacity
    /\ accepting \in BOOLEAN
    /\ stopping \in BOOLEAN
    /\ worker \in [Workers -> WorkerStates]
    /\ current \in [Workers -> Tasks \cup {None}]
    /\ caller \in [Tasks -> CallerStates]
    /\ stopper \in [Stoppers -> StopperStates]
    /\ stopMutex \in Stoppers \cup {None}
    /\ joined \in BOOLEAN
    /\ metrics \in Counters
    /\ executed \in [Tasks -> Nat]

Queued(t) == \E i \in DOMAIN tasks : tasks[i] = t
Running(t) == \E w \in Workers : current[w] = t
Accepted(t) == caller[t] \in {"notify", "accepted"}

(* A task whose submission was accepted is in exactly one place: waiting   *)
(* in the queue once, in the hands of one worker, or executed once.  A     *)
(* task that was refused is nowhere.  (try_submit and worker_loop: nothing *)
(* accepted is lost, duplicated or run twice.)                             *)
ExactlyOnePlace ==
    /\ \A i, j \in DOMAIN tasks : tasks[i] = tasks[j] => i = j
    /\ \A v, w \in Workers :
         current[v] = current[w] /\ current[v] # None => v = w
    /\ \A t \in Tasks :
         /\ executed[t] \in {0, 1}
         /\ ~(Queued(t) /\ Running(t))
         /\ executed[t] = 1 => ~Queued(t) /\ ~Running(t)
         /\ Accepted(t) <=> Queued(t) \/ Running(t) \/ executed[t] = 1

(* No lost wakeup: while a task is queued, some worker is awake, or a      *)
(* notification for it is still to be delivered.  The notifications are    *)
(* sent after queue_mutex_ is released, so a worker may have gone to sleep *)
(* or have been woken by somebody else in between.                         *)
NoLostWakeup ==
    tasks # <<>> =>
        \/ \E w \in Workers : worker[w] \notin {"asleep", "returned"}
        \/ \E t \in Tasks : caller[t] = "notify"

(* stop() drains: a call of stop() returns only when every task that was   *)
(* ever accepted has run and no worker thread is left, whichever of        *)
(* several concurrent callers it is.                                       *)
StopDrains ==
    (\E s \in Stoppers : stopper[s] = "stopped") =>
        /\ \A t \in Tasks : Accepted(t) => executed[t] = 1
        /\ \A w \in Workers : worker[w] = "returned"

(* No task is lost, duplicated or run twice, and no call of stop() returns *)
(* while one that was accepted has still to run.                           *)
TasksAccounted == ExactlyOnePlace /\ StopDrains

(* A call of stop() that has raised the flags eventually returns.          *)
StopReturns ==
    \A s \in Stoppers : (stopper[s] = "flagged") ~> (stopper[s] = "stopped")

-----------------------------------------------------------------------------
(* The pool implements the abstract executor: at most QueueCapacity tasks  *)
(* wait and at most one per thread runs.                                   *)
Executor == INSTANCE TaskExecutor WITH
    Limit <- QueueCapacity + Cardinality(Workers),
    open <- accepting,
    pending <- {t \in Tasks : Queued(t) \/ Running(t)},
    executed <- {t \in Tasks : executed[t] > 0},
    refused <- {t \in Tasks : caller[t] \in {"queue_full", "stopped"}},
    stopped <- joined

(* Every behaviour of the pool, fairness included, is one of the executor: *)
(* accepted tasks are outstanding until they run, they do run, and the     *)
(* pool is stopped only when nothing is outstanding.                       *)
ImplementsExecutor == Executor!AbsSpec
=============================================================================
