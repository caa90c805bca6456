SPECIFICATION FairSpec
CONSTANTS
    Req <- MCReq
    KeyOf <- MCKeyOf
    Null = Null
    Insert = Insert
    Stray = Stray
    MaxPush = 0
PROPERTIES
    CallReturns
CHECK_DEADLOCK FALSE
