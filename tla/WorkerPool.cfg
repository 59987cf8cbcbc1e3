SPECIFICATION FairSpec
CONSTANTS
    Workers = {w1, w2}
    Tasks = {t1, t2, t3}
    Stoppers = {s1, s2}
    QueueCapacity = 1
    None = None
INVARIANTS TasksAccounted NoLostWakeup
PROPERTIES StopReturns ImplementsExecutor
