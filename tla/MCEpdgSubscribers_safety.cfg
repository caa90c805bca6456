SPECIFICATION Spec
CONSTANTS
    Sa <- MCSa
    Imsi = {"i1", "i2", "i3"}
    ImsiOf <- MCImsiOf
    Invalid = {"i3"}
    NoUe = 0
INVARIANTS
    TypeOK
    RefsAccounted
    OwnSubscriberOnly
    ReadyHasAddress
    BlockedBySibling
CHECK_DEADLOCK FALSE
