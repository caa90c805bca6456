SPECIFICATION Spec
CONSTANTS
    ClientKinds <- PluginKinds
    MaxReq = 3
    MaxNet = 2
INVARIANTS
    RequestsFindDefaultBearer
CHECK_DEADLOCK FALSE
