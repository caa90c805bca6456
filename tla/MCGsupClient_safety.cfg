SPECIFICATION FairSpec
CONSTANTS
    Req <- MCReq
    KeyOf <- MCKeyOf
    Null = Null
    Insert = Insert
    Stray = Stray
    MaxPush = 1
INVARIANTS
    TypeOK
    RefsAccounted
PROPERTIES
    OwnedStaysOut
    ImplementsCall
    AnswerReturned
CHECK_DEADLOCK FALSE
