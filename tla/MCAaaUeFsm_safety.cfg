SPECIFICATION FairSpec
CONSTANTS
    MaxReq = 3
    MaxNet = 2
    MaxS6b = 2
INVARIANTS
    TypeOK
    ServedOnlyIfRegistered
    LastSessionDeregisters
    AnswerExpected
PROPERTIES
    DeregTerminates
    MutualWaitEnds
CHECK_DEADLOCK FALSE
