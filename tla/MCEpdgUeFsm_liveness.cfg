SPECIFICATION FairSpec
CONSTANTS
    ClientKinds <- AllKinds
    MaxReq = 3
    MaxNet = 2
PROPERTIES
    DeregTerminates
    MutualWaitEnds
CHECK_DEADLOCK FALSE
