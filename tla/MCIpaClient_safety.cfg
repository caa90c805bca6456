SPECIFICATION Spec
CONSTANTS
    InitialBackoff = 10
    MaxBackoff = 35
    MaxConn = 3
    MaxParts = 4
INVARIANTS
    TypeOK
    OneReconnect
    NoLostReconnect
CHECK_DEADLOCK FALSE
