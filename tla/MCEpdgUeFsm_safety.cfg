SPECIFICATION Spec
CONSTANTS
    ClientKinds <- AllKinds
    MaxReq = 6
    MaxNet = 2
INVARIANTS
    TypeOK
    NoTunnelLeak
    NoUnsolicitedResponse
    FlagsOnlyInTeardown
    TunnelHasItsSession
PROPERTIES
    TeardownIsFinal
    AsaAfterRelease
CONSTRAINT RequestBound
CHECK_DEADLOCK FALSE
