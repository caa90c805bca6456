SPECIFICATION FairSpec
CONSTANTS
    Entry <- MCEntry
    FdOf <- MCFdOf
    EventsOf <- MCEventsOf
    MayEnd = {2, 3}
    Removable = {20}
    Remover = {t1}
    NoEntry = 0
INVARIANTS
    TypeOK
    CallbacksCounted
    NobodyForgotten
PROPERTIES
    ReadyIsServed
    RemoveReturns
CHECK_DEADLOCK FALSE
