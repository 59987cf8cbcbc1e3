-------------------------- MODULE WorkerPool_proofs --------------------------
(***************************************************************************)
(* Proofs about WorkerPool for every number of worker threads, of calls of *)
(* try_submit and stop, and for every queue capacity.                      *)
(***************************************************************************)
EXTENDS WorkerPool, FiniteSetTheorems, TLAPS

(* A worker holds a task exactly while it runs it.                         *)
HoldsWhileRunning ==
    \A w \in Workers : worker[w] = "running" <=> current[w] # None

(* The two flags of stop() are raised together.                            *)
FlagsTogether == accepting <=> ~stopping

(* A worker returns from worker_loop only when stop() has closed an empty  *)
(* queue, and such a queue stays empty.                                    *)
ReturnedMeansDrained ==
    (\E w \in Workers : worker[w] = "returned") => stopping /\ tasks = <<>>

(* workers_ is cleared after the last join, and stop() returns after that. *)
JoinedMeansReturned ==
    /\ joined => \A w \in Workers : worker[w] = "returned"
    /\ (\E s \in Stoppers : stopper[s] = "stopped") => joined

IInv ==
    /\ TypeOK
    /\ HoldsWhileRunning
    /\ FlagsTogether
    /\ ReturnedMeansDrained
    /\ JoinedMeansReturned
    /\ ExactlyOnePlace
    /\ NoLostWakeup

(* What pushing at the back does to the elements of a queue.               *)
LEMMA AppendElements ==
    ASSUME NEW S, NEW q \in Seq(S), NEW e \in S
    PROVE  /\ Append(q, e) \in Seq(S)
           /\ Append(q, e) # <<>>
           /\ Len(Append(q, e)) = Len(q) + 1
           /\ DOMAIN Append(q, e) = 1 .. Len(q) + 1
           /\ Append(q, e)[Len(q) + 1] = e
           /\ \A i \in DOMAIN q : i \in DOMAIN Append(q, e)
                                  /\ Append(q, e)[i] = q[i]
           /\ \A i \in DOMAIN Append(q, e) : i \in DOMAIN q \/ i = Len(q) + 1
    OBVIOUS

(* What popping the front does to the elements of a queue.                 *)
LEMMA TailElements ==
    ASSUME NEW S, NEW q \in Seq(S), q # <<>>
    PROVE  /\ Head(q) \in S
           /\ 1 \in DOMAIN q
           /\ Head(q) = q[1]
           /\ Tail(q) \in Seq(S)
           /\ Len(Tail(q)) = Len(q) - 1
           /\ \A i \in DOMAIN Tail(q) : /\ i + 1 \in DOMAIN q
                                        /\ i + 1 # 1
                                        /\ i \in Nat
                                        /\ Tail(q)[i] = q[i + 1]
           /\ \A i \in DOMAIN q : i # 1 => /\ i - 1 \in DOMAIN Tail(q)
                                           /\ Tail(q)[i - 1] = q[i]
    OBVIOUS

(* The invariant holds when the constructor has started the threads.       *)
LEMMA InitIInv == Init => IInv
<1> SUFFICES ASSUME Init PROVE IInv
    OBVIOUS
<1> USE TasksAssumption, StoppersAssumption DEF Init
<1>1. TypeOK
    <2>1. metrics \in Counters
        BY DEF Counters
    <2>2. worker \in [Workers -> WorkerStates]
        BY DEF WorkerStates
    <2>3. caller \in [Tasks -> CallerStates]
        BY DEF CallerStates
    <2>4. stopper \in [Stoppers -> StopperStates]
        BY DEF StopperStates
    <2>5. tasks \in Seq(Tasks) /\ current \in [Workers -> Tasks \cup {None}]
        OBVIOUS
    <2>6. executed \in [Tasks -> Nat] /\ stopMutex \in Stoppers \cup {None}
        OBVIOUS
    <2>7. accepting \in BOOLEAN /\ stopping \in BOOLEAN /\ joined \in BOOLEAN
        OBVIOUS
    <2>8. Len(tasks) <= QueueCapacity
        BY CapacityAssumption
    <2> QED BY <2>1, <2>2, <2>3, <2>4, <2>5, <2>6, <2>7, <2>8, Zenon DEF TypeOK
<1>2. ExactlyOnePlace
    BY DEF ExactlyOnePlace, Queued, Running, Accepted
<1> QED
    BY <1>1, <1>2 DEF IInv, HoldsWhileRunning, FlagsTogether,
        ReturnedMeansDrained, JoinedMeansReturned, NoLostWakeup

(* The counters stay integers.                                             *)
LEMMA StepCounters ==
    ASSUME metrics \in Counters, [Next]_vars
    PROVE  metrics' \in Counters
<1>1. ASSUME NEW t \in Tasks, SubmitStep(t) PROVE metrics' \in Counters
    BY <1>1 DEF SubmitStep, SubmitStopped, SubmitQueueFull, SubmitAccepted,
                NotifyOne, RejectWith, Counters, CounterNames
<1>2. ASSUME NEW w \in Workers, WorkerStep(w) PROVE metrics' \in Counters
    <2>1. CASE WorkerSleep(w) \/ SpuriousWakeup(w) \/ WorkerReturn(w)
        BY <2>1 DEF WorkerSleep, SpuriousWakeup, WorkerReturn
    <2>2. CASE WorkerTake(w)
        BY <2>2 DEF WorkerTake, Counters, CounterNames
    <2>3. CASE TaskEnds(w)
        BY <2>3 DEF TaskEnds, Counters, CounterNames
    <2>4. CASE CountCompleted(w)
        BY <2>4 DEF CountCompleted, Counters, CounterNames
    <2> QED BY <1>2, <2>1, <2>2, <2>3, <2>4 DEF WorkerStep
<1>3. ASSUME NEW s \in Stoppers, StopStep(s) PROVE metrics' \in Counters
    BY <1>3 DEF StopStep, StopAgain, StopFlags, StopNotifyAll, StopJoin
<1>4. CASE UNCHANGED vars
    BY <1>4 DEF vars
<1> QED BY <1>1, <1>2, <1>3, <1>4 DEF Next, Finished

(* One step per operation of the class.                                    *)
LEMMA StepIInv == IInv /\ [Next]_vars => IInv'
<1> SUFFICES ASSUME IInv, [Next]_vars PROVE IInv'
    OBVIOUS
<1>0. metrics' \in Counters
    BY StepCounters DEF IInv, TypeOK
<1> USE <1>0, TasksAssumption, StoppersAssumption
    DEF IInv, TypeOK, HoldsWhileRunning, FlagsTogether, ReturnedMeansDrained,
        JoinedMeansReturned, NoLostWakeup, WorkerStates,
        CallerStates, StopperStates
<1>1. ASSUME NEW t \in Tasks, SubmitStopped(t) \/ SubmitQueueFull(t)
      PROVE  IInv'
    <2>1. PICK result \in {"stopped", "queue_full"} :
             caller[t] = "calling" /\ RejectWith(t, result)
        BY <1>1 DEF SubmitStopped, SubmitQueueFull
    <2>2. /\ caller' = [caller EXCEPT ![t] = result]
          /\ caller' \in [Tasks -> CallerStates]
          /\ UNCHANGED <<tasks, accepting, stopping, worker, current, stopper,
                         stopMutex, joined, executed>>
        BY <2>1 DEF RejectWith
    <2>3. \A u \in Tasks : Accepted(u)' <=> Accepted(u)
        BY <2>1, <2>2 DEF Accepted
    <2>4. ExactlyOnePlace'
        BY <2>2, <2>3, Zenon DEF ExactlyOnePlace, Queued, Running
    <2> QED BY <2>1, <2>2, <2>4
<1>2. ASSUME NEW t \in Tasks, SubmitAccepted(t)
      PROVE  IInv'
    <2>1. /\ tasks' = Append(tasks, t)
          /\ tasks \in Seq(Tasks)
          /\ ~Queued(t) /\ ~Running(t) /\ executed[t] = 0
        BY <1>2 DEF SubmitAccepted, ExactlyOnePlace, Accepted
    <2>2. \A u \in Tasks : Queued(u)' <=> Queued(u) \/ u = t
        BY <2>1, AppendElements DEF Queued
    <2>3. \A i, j \in DOMAIN tasks' : tasks'[i] = tasks'[j] => i = j
        BY <2>1, AppendElements DEF Queued, ExactlyOnePlace
    <2>4. ExactlyOnePlace'
        BY <1>2, <2>1, <2>2, <2>3
        DEF SubmitAccepted, ExactlyOnePlace, Running, Accepted
    <2>5. tasks' \in Seq(Tasks) /\ Len(tasks') <= QueueCapacity
        BY <1>2, <2>1, AppendElements, CapacityAssumption DEF SubmitAccepted
    <2> QED BY <1>2, <2>4, <2>5 DEF SubmitAccepted
<1>3. ASSUME NEW t \in Tasks, NotifyOne(t)
      PROVE  IInv'
    <2>1. ExactlyOnePlace'
        BY <1>3 DEF NotifyOne, ExactlyOnePlace, Queued, Running, Accepted
    <2>2. CASE \E w \in Workers : /\ worker[w] = "asleep"
                                  /\ worker' = [worker EXCEPT ![w] = "ready"]
        BY <1>3, <2>1, <2>2 DEF NotifyOne
    <2>3. CASE /\ \A w \in Workers : worker[w] # "asleep"
               /\ UNCHANGED worker
        BY <1>3, <2>1, <2>3, WorkersAssumption DEF NotifyOne
    <2> QED BY <1>3, <2>2, <2>3 DEF NotifyOne
<1>4. ASSUME NEW w \in Workers,
             WorkerSleep(w) \/ SpuriousWakeup(w) \/ WorkerReturn(w)
      PROVE  IInv'
    <2>1. ExactlyOnePlace'
        BY <1>4 DEF WorkerSleep, SpuriousWakeup, WorkerReturn,
                    ExactlyOnePlace, Queued, Running, Accepted
    <2>2. CASE WorkerSleep(w)
        BY <2>1, <2>2 DEF WorkerSleep
    <2>3. CASE SpuriousWakeup(w)
        BY <2>1, <2>3 DEF SpuriousWakeup
    <2>4. CASE WorkerReturn(w)
        BY <2>1, <2>4 DEF WorkerReturn
    <2> QED BY <1>4, <2>2, <2>3, <2>4
<1>5. ASSUME NEW w \in Workers, WorkerTake(w)
      PROVE  IInv'
    <2> DEFINE h == Head(tasks)
    <2>1. /\ tasks' = Tail(tasks)
          /\ tasks \in Seq(Tasks)
          /\ tasks # <<>>
          /\ current[w] = None
          /\ current' = [current EXCEPT ![w] = h]
        BY <1>5 DEF WorkerTake
    <2>2. h \in Tasks /\ Queued(h) /\ ~Running(h) /\ executed[h] = 0
        BY <2>1, TailElements DEF Queued, ExactlyOnePlace
    <2>3. \A u \in Tasks : Queued(u)' <=> Queued(u) /\ u # h
        <3>1. ASSUME NEW u \in Tasks, Queued(u)' PROVE Queued(u) /\ u # h
            BY <2>1, <3>1, TailElements DEF Queued, ExactlyOnePlace
        <3>2. ASSUME NEW u \in Tasks, Queued(u), u # h PROVE Queued(u)'
            <4>1. PICK i \in DOMAIN tasks : tasks[i] = u
                BY <3>2 DEF Queued
            <4>2. i # 1
                BY <2>1, <3>2, <4>1, TailElements
            <4>3. i - 1 \in DOMAIN tasks' /\ tasks'[i - 1] = u
                BY <2>1, <4>1, <4>2, TailElements
            <4> QED BY <4>3 DEF Queued
        <3> QED BY <3>1, <3>2
    <2>4. \A u \in Tasks : Running(u)' <=> Running(u) \/ u = h
        BY <2>1, <2>2 DEF Running
    <2>5. \A i, j \in DOMAIN tasks' : tasks'[i] = tasks'[j] => i = j
        <3> SUFFICES ASSUME NEW i \in DOMAIN tasks', NEW j \in DOMAIN tasks',
                            tasks'[i] = tasks'[j]
                     PROVE  i = j
            OBVIOUS
        <3>1. tasks[i + 1] = tasks[j + 1]
            BY <2>1, TailElements
        <3>2. i + 1 = j + 1
            BY <2>1, <3>1, TailElements DEF ExactlyOnePlace
        <3> QED BY <2>1, <3>2, TailElements
    <2>6. \A v, x \in Workers :
             current'[v] = current'[x] /\ current'[v] # None => v = x
        BY <2>1, <2>2 DEF Running, ExactlyOnePlace
    <2>7. ExactlyOnePlace'
        BY <1>5, <2>2, <2>3, <2>4, <2>5, <2>6
        DEF WorkerTake, ExactlyOnePlace, Accepted
    <2>8. tasks' \in Seq(Tasks) /\ Len(tasks') <= QueueCapacity
        BY <2>1, TailElements, CapacityAssumption
    <2> QED BY <1>5, <2>1, <2>2, <2>7, <2>8 DEF WorkerTake
<1>6. ASSUME NEW w \in Workers, TaskEnds(w)
      PROVE  IInv'
    <2> DEFINE c == current[w]
    <2>1. c \in Tasks /\ Running(c) /\ ~Queued(c) /\ executed[c] = 0
        BY <1>6 DEF TaskEnds, Running, ExactlyOnePlace
    <2>2. \A u \in Tasks : Running(u)' <=> Running(u) /\ u # c
        BY <1>6, <2>1 DEF TaskEnds, Running, ExactlyOnePlace
    <2>3. \A u \in Tasks : Queued(u)' <=> Queued(u)
        BY <1>6 DEF TaskEnds, Queued
    <2>4. ExactlyOnePlace'
        BY <1>6, <2>1, <2>2, <2>3 DEF TaskEnds, ExactlyOnePlace, Accepted
    <2> QED BY <1>6, <2>1, <2>4 DEF TaskEnds
<1>7. ASSUME NEW w \in Workers, CountCompleted(w)
      PROVE  IInv'
    <2>1. UNCHANGED <<tasks, current, caller, executed>>
        BY <1>7 DEF CountCompleted
    <2>2. ExactlyOnePlace'
        BY <2>1, Zenon DEF ExactlyOnePlace, Queued, Running, Accepted
    <2> QED BY <1>7, <2>2 DEF CountCompleted
<1>8. ASSUME NEW s \in Stoppers, StopAgain(s) \/ StopFlags(s) \/ StopJoin(s)
      PROVE  IInv'
    <2>1. ExactlyOnePlace'
        BY <1>8 DEF StopAgain, StopFlags, StopJoin, ExactlyOnePlace, Queued,
                    Running, Accepted
    <2>2. CASE StopAgain(s)
        BY <2>1, <2>2 DEF StopAgain
    <2>3. CASE StopFlags(s)
        BY <2>1, <2>3 DEF StopFlags
    <2>4. CASE StopJoin(s)
        BY <2>1, <2>4 DEF StopJoin
    <2> QED BY <1>8, <2>2, <2>3, <2>4
<1>9. ASSUME NEW s \in Stoppers, StopNotifyAll(s)
      PROVE  IInv'
    <2>1. ExactlyOnePlace'
        BY <1>9 DEF StopNotifyAll, ExactlyOnePlace, Queued, Running, Accepted
    <2> QED BY <1>9, <2>1 DEF StopNotifyAll
<1>10. CASE UNCHANGED vars
    <2>1. ExactlyOnePlace'
        BY <1>10 DEF vars, ExactlyOnePlace, Queued, Running, Accepted
    <2> QED BY <1>10, <2>1 DEF vars
<1> QED
    BY <1>1, <1>2, <1>3, <1>4, <1>5, <1>6, <1>7, <1>8, <1>9, <1>10
    DEF Next, WorkerStep, SubmitStep, StopStep, Finished

(* The inductive invariant holds in every state the pool reaches.          *)
THEOREM Invariance == Spec => []IInv
<1>1. Init => IInv
    BY InitIInv
<1>2. IInv /\ [Next]_vars => IInv'
    BY StepIInv
<1> QED BY <1>1, <1>2, PTL DEF Spec

(* Type correctness, with the bound try_submit puts on the queue.          *)
THEOREM TypeCorrect == Spec => []TypeOK
<1>1. IInv => TypeOK
    BY DEF IInv
<1> QED BY <1>1, Invariance, PTL

(* Whatever the interleaving of submitters, workers and stoppers, no       *)
(* accepted task is lost, duplicated or run twice, and none that was       *)
(* refused is run.                                                         *)
THEOREM OnePlace == Spec => []ExactlyOnePlace
<1>1. IInv => ExactlyOnePlace
    BY DEF IInv
<1> QED BY <1>1, Invariance, PTL

(* A queued task never meets a pool whose threads all sleep with no        *)
(* notification left to be sent, although try_submit notifies only after   *)
(* it has released queue_mutex_.                                           *)
THEOREM Wakeup == Spec => []NoLostWakeup
<1>1. IInv => NoLostWakeup
    BY DEF IInv
<1> QED BY <1>1, Invariance, PTL

(* When any call of stop() has returned, every accepted task has run and   *)
(* every thread is gone.                                                   *)
THEOREM Drained == Spec => []StopDrains
<1>1. IInv => StopDrains
    <2> SUFFICES ASSUME IInv, NEW s \in Stoppers, stopper[s] = "stopped"
                 PROVE  /\ \A t \in Tasks : Accepted(t) => executed[t] = 1
                        /\ \A w \in Workers : worker[w] = "returned"
        BY DEF StopDrains
    <2>1. \A w \in Workers : worker[w] = "returned"
        BY DEF IInv, JoinedMeansReturned
    <2>2. tasks = <<>>
        BY <2>1, WorkersAssumption DEF IInv, ReturnedMeansDrained
    <2>3. \A w \in Workers : current[w] = None
        BY <2>1 DEF IInv, HoldsWhileRunning
    <2>4. \A t \in Tasks : ~Queued(t) /\ ~Running(t)
        BY <2>2, <2>3, TasksAssumption DEF Queued, Running
    <2> QED BY <2>1, <2>4 DEF IInv, ExactlyOnePlace
<1> QED BY <1>1, Invariance, PTL

(* Both together, for every number of workers, tasks, stoppers and every   *)
(* capacity: each accepted task has one place until it has run, once, and  *)
(* no call of stop() returns before that, be it the one that joins the     *)
(* threads or one that finds them joined (worker_pool.cpp:119).            *)
THEOREM Accounted == Spec => []TasksAccounted
    BY OnePlace, Drained, PTL DEF TasksAccounted

-----------------------------------------------------------------------------
(* The pool implements TaskExecutor: what the callers of the class see.    *)

Pending == {t \in Tasks : Queued(t) \/ Running(t)}
Executed == {t \in Tasks : executed[t] > 0}
RefusedTasks == {t \in Tasks : caller[t] \in {"queue_full", "stopped"}}

(* No more tasks are outstanding than wait in the queue and than there are *)
(* threads: every one has a place in the queue or a thread to itself.      *)
LEMMA PendingBound ==
    ASSUME IInv
    PROVE  Cardinality(Pending) <= Len(tasks) + Cardinality(Workers)
<1> DEFINE Q == {t \in Tasks : Queued(t)}
           R == {t \in Tasks : Running(t)}
           place == [t \in Q |-> CHOOSE i \in DOMAIN tasks : tasks[i] = t]
           holder == [t \in R |-> CHOOSE w \in Workers : current[w] = t]
<1>1. Len(tasks) \in Nat /\ DOMAIN tasks = 1 .. Len(tasks)
    BY DEF IInv, TypeOK
<1>2. IsFiniteSet(1 .. Len(tasks)) /\ Cardinality(1 .. Len(tasks)) = Len(tasks)
    <2>1. \A n \in Nat : IsFiniteSet(1 .. n) /\ Cardinality(1 .. n) = n
        BY FS_Interval
    <2> QED BY <1>1, <2>1
<1>3. \A t \in Q : place[t] \in 1 .. Len(tasks) /\ tasks[place[t]] = t
    BY <1>1 DEF Queued
<1>4. place \in Injection(Q, 1 .. Len(tasks))
    BY <1>3 DEF Injection, IsInjective
<1>5. IsFiniteSet(Q) /\ Cardinality(Q) <= Len(tasks)
    BY <1>2, <1>4, FS_Injection
<1>6. \A t \in R : holder[t] \in Workers /\ current[holder[t]] = t
    BY DEF Running
<1>7. holder \in Injection(R, Workers)
    BY <1>6 DEF Injection, IsInjective
<1>8. IsFiniteSet(R) /\ Cardinality(R) <= Cardinality(Workers)
    BY <1>7, FS_Injection, WorkersAssumption
<1>9. /\ Cardinality(Q) \in Nat /\ Cardinality(R) \in Nat
      /\ Cardinality(Workers) \in Nat /\ Cardinality(Q \cap R) \in Nat
    BY <1>5, <1>8, FS_CardinalityType, FS_Intersection, WorkersAssumption
<1>10. Cardinality(Q \cup R)
           = Cardinality(Q) + Cardinality(R) - Cardinality(Q \cap R)
    BY <1>5, <1>8, FS_Union
<1>11. Pending = Q \cup R
    BY DEF Pending
<1> HIDE DEF Q, R, place, holder
<1> QED BY <1>1, <1>5, <1>8, <1>9, <1>10, <1>11

(* A step that leaves the queue, the hands of the workers and the verdicts *)
(* on the submissions alone leaves the abstract state alone.               *)
LEMMA AbstractStutter ==
    ASSUME UNCHANGED <<accepting, tasks, current, executed, joined>>,
           RefusedTasks' = RefusedTasks
    PROVE  UNCHANGED Executor!absVars
<1>1. Pending' = Pending /\ Executed' = Executed
    BY DEF Pending, Executed, Queued, Running
<1> QED BY <1>1 DEF Executor!absVars, Pending, Executed, RefusedTasks

(* Every step of the pool is a step of the executor, or changes nothing    *)
(* that the executor has.                                                  *)
LEMMA StepRefines ==
    ASSUME IInv, [Next]_vars
    PROVE  [Executor!AbsNext]_(Executor!absVars)
<1> DEFINE Goal == [Executor!AbsNext]_(Executor!absVars)
<1> USE DEF Pending, Executed, RefusedTasks
<1>1. ASSUME NEW t \in Tasks, SubmitStopped(t) \/ SubmitQueueFull(t)
      PROVE  Goal
    <2>1. PICK result \in {"stopped", "queue_full"} :
             caller[t] = "calling" /\ RejectWith(t, result)
        BY <1>1 DEF SubmitStopped, SubmitQueueFull
    <2>2. t \notin Pending \cup Executed \cup RefusedTasks
        BY <2>1 DEF IInv, TypeOK, ExactlyOnePlace, Accepted
    <2>3. RefusedTasks' = RefusedTasks \cup {t}
        BY <2>1 DEF RejectWith, IInv, TypeOK
    <2>4. Pending' = Pending /\ Executed' = Executed
          /\ UNCHANGED <<accepting, joined>>
        BY <2>1 DEF RejectWith, Queued, Running
    <2>5. Executor!Refuse(t)
        BY <2>2, <2>3, <2>4 DEF Executor!Refuse, Executor!Fresh
    <2> QED BY <2>5 DEF Executor!AbsNext
<1>2. ASSUME NEW t \in Tasks, SubmitAccepted(t)
      PROVE  Goal
    <2>1. /\ tasks' = Append(tasks, t)
          /\ tasks \in Seq(Tasks)
          /\ ~Queued(t) /\ ~Running(t) /\ executed[t] = 0
        BY <1>2 DEF SubmitAccepted, ExactlyOnePlace, Accepted, IInv, TypeOK
    <2>2. \A u \in Tasks : (Queued(u)' <=> Queued(u) \/ u = t)
                           /\ (Running(u)' <=> Running(u))
        BY <1>2, <2>1, AppendElements DEF Queued, Running, SubmitAccepted
    <2>3. Pending' = Pending \cup {t}
        BY <2>2
    <2>4. /\ Executed' = Executed /\ RefusedTasks' = RefusedTasks
          /\ UNCHANGED <<accepting, joined>> /\ accepting
          /\ t \notin Pending \cup Executed \cup RefusedTasks
        BY <1>2, <2>1 DEF SubmitAccepted, IInv, TypeOK
    <2>5. Cardinality(Pending) < QueueCapacity + Cardinality(Workers)
        <3>1. /\ Cardinality(Workers) \in Nat /\ IsFiniteSet(Pending)
              /\ Cardinality(Pending) \in Nat
            BY FS_CardinalityType, FS_Subset, WorkersAssumption, TasksAssumption
        <3>2. Len(tasks) < QueueCapacity /\ Len(tasks) \in Nat
            BY <1>2, <2>1 DEF SubmitAccepted
        <3>3. Cardinality(Pending) <= Len(tasks) + Cardinality(Workers)
            BY PendingBound
        <3> HIDE DEF Pending
        <3> QED BY <3>1, <3>2, <3>3, CapacityAssumption
    <2>6. Executor!Accept(t)
        <3>1. Executor!Cardinality(Pending) = Cardinality(Pending)
            BY DEF Executor!Cardinality, Cardinality
        <3> QED BY <2>3, <2>4, <2>5, <3>1 DEF Executor!Accept, Executor!Fresh
    <2> QED BY <2>6 DEF Executor!AbsNext
<1>3. ASSUME NEW w \in Workers, WorkerTake(w)
      PROVE  Goal
    <2> DEFINE h == Head(tasks)
    <2>1. /\ tasks' = Tail(tasks) /\ tasks \in Seq(Tasks) /\ tasks # <<>>
          /\ current[w] = None
          /\ current \in [Workers -> Tasks \cup {None}]
          /\ current' = [current EXCEPT ![w] = h]
          /\ UNCHANGED <<accepting, caller, joined, executed>>
        BY <1>3 DEF WorkerTake, IInv, TypeOK, HoldsWhileRunning
    <2>2. h \in Tasks /\ Queued(h)
        BY <2>1, TailElements DEF Queued
    <2>3. \A u \in Tasks : Queued(u) => Queued(u)' \/ u = h
        <3> SUFFICES ASSUME NEW u \in Tasks, Queued(u), u # h PROVE Queued(u)'
            OBVIOUS
        <3>1. PICK i \in DOMAIN tasks : tasks[i] = u
            BY DEF Queued
        <3>2. i # 1
            BY <2>1, <3>1, TailElements
        <3>3. i - 1 \in DOMAIN tasks' /\ tasks'[i - 1] = u
            BY <2>1, <3>1, <3>2, TailElements
        <3> QED BY <3>3 DEF Queued
    <2>4. \A u \in Tasks : Queued(u)' => Queued(u)
        BY <2>1, TailElements DEF Queued
    <2>5. \A u \in Tasks : Running(u)' <=> Running(u) \/ u = h
        BY <2>1, <2>2, TasksAssumption DEF Running
    <2>6. Pending' = Pending
        BY <2>2, <2>3, <2>4, <2>5
    <2> QED BY <2>1, <2>6 DEF Executor!absVars
<1>4. ASSUME NEW w \in Workers, TaskEnds(w)
      PROVE  Goal
    <2>0. PICK c \in Tasks : c = current[w]
        BY <1>4, TasksAssumption DEF TaskEnds, IInv, TypeOK, HoldsWhileRunning
    <2>1. c \in Tasks /\ Running(c) /\ ~Queued(c) /\ executed[c] = 0
        BY <1>4, <2>0 DEF TaskEnds, Running, ExactlyOnePlace, IInv, TypeOK,
                    HoldsWhileRunning
    <2>2. \A u \in Tasks : Running(u)' <=> Running(u) /\ u # c
        BY <1>4, <2>0, <2>1, TasksAssumption
        DEF TaskEnds, Running, ExactlyOnePlace, IInv, TypeOK
    <2>3. \A u \in Tasks : Queued(u)' <=> Queued(u)
        BY <1>4 DEF TaskEnds, Queued
    <2>4. Pending' = Pending \ {c} /\ c \in Pending
        BY <2>1, <2>2, <2>3
    <2>5. Executed' = Executed \cup {c}
        BY <1>4, <2>0, <2>1 DEF TaskEnds, IInv, TypeOK
    <2>6. RefusedTasks' = RefusedTasks /\ UNCHANGED <<accepting, joined>>
        BY <1>4 DEF TaskEnds
    <2>7. Executor!Execute(c)
        BY <2>4, <2>5, <2>6 DEF Executor!Execute
    <2> QED BY <2>7 DEF Executor!AbsNext
<1>5. ASSUME NEW s \in Stoppers, StopFlags(s)
      PROVE  Goal
    <2>1. /\ Pending' = Pending /\ Executed' = Executed
          /\ RefusedTasks' = RefusedTasks
          /\ UNCHANGED joined /\ accepting' = FALSE
        BY <1>5 DEF StopFlags, Queued, Running
    <2>2. CASE accepting
        <3>1. Executor!Close
            BY <2>1, <2>2 DEF Executor!Close
        <3> QED BY <3>1 DEF Executor!AbsNext
    <2>3. CASE ~accepting
        <3>1. accepting' = accepting
            BY <2>1, <2>3 DEF IInv, TypeOK
        <3> QED BY <2>1, <3>1 DEF Executor!absVars
    <2> QED BY <2>2, <2>3
<1>6. ASSUME NEW s \in Stoppers, StopJoin(s)
      PROVE  Goal
    <2>1. \A w \in Workers : worker[w] = "returned" /\ current[w] = None
        BY <1>6 DEF StopJoin, IInv, TypeOK, HoldsWhileRunning
    <2>2. tasks = <<>> /\ ~accepting
        BY <2>1, WorkersAssumption
        DEF IInv, ReturnedMeansDrained, FlagsTogether
    <2>3. Pending = {}
        BY <2>1, <2>2, TasksAssumption DEF Queued, Running
    <2>4. /\ Pending' = Pending /\ Executed' = Executed
          /\ RefusedTasks' = RefusedTasks
          /\ joined' = TRUE /\ UNCHANGED accepting
        BY <1>6 DEF StopJoin, Queued, Running
    <2>5. Executor!Stop
        BY <2>2, <2>3, <2>4 DEF Executor!Stop
    <2> QED BY <2>5 DEF Executor!AbsNext
<1>7. ASSUME \/ \E t \in Tasks : NotifyOne(t)
             \/ \E w \in Workers : WorkerSleep(w) \/ SpuriousWakeup(w)
                                   \/ WorkerReturn(w) \/ CountCompleted(w)
             \/ \E s \in Stoppers : StopAgain(s) \/ StopNotifyAll(s)
             \/ UNCHANGED vars
      PROVE  Goal
    <2>1. /\ UNCHANGED <<accepting, tasks, current, executed, joined>>
          /\ RefusedTasks' = RefusedTasks
        BY <1>7 DEF NotifyOne, WorkerSleep, SpuriousWakeup, WorkerReturn,
                    CountCompleted, StopAgain, StopNotifyAll, vars, IInv, TypeOK
    <2> QED BY <2>1, AbstractStutter
<1> QED
    BY <1>1, <1>2, <1>3, <1>4, <1>5, <1>6, <1>7
    DEF Next, WorkerStep, SubmitStep, StopStep, Finished

(* Every behaviour of the pool is, safety taken alone, one of the abstract *)
(* executor: try_submit accepts or refuses each task once and only while   *)
(* open, what it accepts is outstanding until worker_loop has run it, the  *)
(* outstanding tasks are no more than the capacity and the threads, and    *)
(* stop() ends with none outstanding.                                      *)
THEOREM SafelyImplementsExecutor == Spec => Executor!AbsSafety
<1>1. Init => Executor!AbsInit
    BY TasksAssumption DEF Init, Executor!AbsInit, Queued, Running
<1>2. IInv /\ [Next]_vars => [Executor!AbsNext]_(Executor!absVars)
    BY StepRefines
<1> QED BY <1>1, <1>2, Invariance, PTL DEF Spec, Executor!AbsSafety
=============================================================================
