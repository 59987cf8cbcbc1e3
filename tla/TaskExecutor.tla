---------------------------- MODULE TaskExecutor ----------------------------
(***************************************************************************)
(* What WorkerPool promises to the code that submits work to it: a task    *)
(* is accepted or refused once; an accepted task is executed exactly once, *)
(* also when the pool is stopped after it was accepted; never more than    *)
(* Limit tasks are outstanding; and the pool reports itself stopped only   *)
(* when nothing it accepted is still outstanding.                          *)
(***************************************************************************)
EXTENDS Naturals, FiniteSets

CONSTANTS
    Tasks,      \* the tasks that are ever submitted
    Limit       \* how many accepted tasks may be outstanding at once

VARIABLES
    open,       \* submissions may still be accepted
    pending,    \* accepted and not executed yet
    executed,   \* executed
    refused,    \* refused: the queue was full or the pool was stopping
    stopped     \* a call of stop() has joined the worker threads

absVars == <<open, pending, executed, refused, stopped>>

Fresh(t) == t \notin pending \cup executed \cup refused

AbsInit ==
    /\ open = TRUE
    /\ pending = {}
    /\ executed = {}
    /\ refused = {}
    /\ stopped = FALSE

Accept(t) ==
    /\ open
    /\ Fresh(t)
    /\ Cardinality(pending) < Limit
    /\ pending' = pending \cup {t}
    /\ UNCHANGED <<open, executed, refused, stopped>>

Refuse(t) ==
    /\ Fresh(t)
    /\ refused' = refused \cup {t}
    /\ UNCHANGED <<open, pending, executed, stopped>>

Execute(t) ==
    /\ t \in pending
    /\ pending' = pending \ {t}
    /\ executed' = executed \cup {t}
    /\ UNCHANGED <<open, refused, stopped>>

Close ==
    /\ open
    /\ open' = FALSE
    /\ UNCHANGED <<pending, executed, refused, stopped>>

Stop ==
    /\ ~open
    /\ pending = {}
    /\ stopped' = TRUE
    /\ UNCHANGED <<open, pending, executed, refused>>

AbsNext ==
    \/ \E t \in Tasks : Accept(t) \/ Refuse(t) \/ Execute(t)
    \/ Close
    \/ Stop

AbsSafety == AbsInit /\ [][AbsNext]_absVars

AbsSpec == AbsSafety /\ \A t \in Tasks : WF_absVars(Execute(t))
=============================================================================
