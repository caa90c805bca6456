SPECIFICATION FairSpec
CONSTANTS
    InitialBackoff = 10
    MaxBackoff = 35
    MaxConn = 2
    MaxParts = 2
PROPERTIES
    ReconnectAttempted
CHECK_DEADLOCK FALSE
