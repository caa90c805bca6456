SPECIFICATION FairSpec
CONSTANTS
    Thread = {t1, t2, t3}
    Job <- MCJob
    Timer = "timer"
    PrioOf <- MCPrioOf
    PrioThreads <- MCPrioThreads
    Delay = {1, 2}
    MaxTime = 2
    None = None
INVARIANTS
    TypeOK
    WorkingCounted
    NoLostWakeup
    ReserveKept
PROPERTIES
    ImplementsTimerQueue
    CancelReturns
CHECK_DEADLOCK FALSE
