\* Two hosts start, stop, send to, join and delete one service; neither symmetry nor
\* view, since the properties are liveness.
SPECIFICATION FairSpec
CONSTANTS
    Hosts = {h1, h2}
    MaxServices = 1
    Names = {NoName}
    NoName = NoName
    NoReply = NoReply
    HostOps = {"new", "start", "stop", "send", "join", "delete"}
    HandlerOps = {"send"}
    MaxHostCalls = 2
    MaxHandlerCalls = 1
    LoopMayReturn = TRUE
INVARIANTS
    FreedOnce
PROPERTIES
    StopCompletes
    StartReturns
    DeletionCompletes
