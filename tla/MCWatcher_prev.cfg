SPECIFICATION Spec
CONSTANTS
    Entry <- MCEntry
    FdOf <- MCFdOf
    EventsOf <- MCEventsOf
    MayEnd = {1, 2, 3}
    Removable = {20}
    Remover = {t1}
    NoEntry = 0
INVARIANTS
    NoCallbackAfterRemove
CHECK_DEADLOCK FALSE
