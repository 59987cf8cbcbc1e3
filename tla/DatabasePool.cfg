SPECIFICATION FairSpec
CONSTANTS
    Threads = {t1, t2, t3}
    PoolSize = 1
    None = None
INVARIANTS LeaseIsExclusive TransactionHasOwner NobodyForgotten ClosedAfterLastUse
PROPERTIES WaitEnds DestructorReturns
