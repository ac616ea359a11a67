\* The Lua code of a service creates and starts another one while the pool is
\* being deleted.
SPECIFICATION FairSpec
CONSTANTS
    Hosts = {h1}
    MaxServices = 2
    Names = {NoName}
    NoName = NoName
    NoReply = NoReply
    HostOps = {"new", "start", "send", "delete"}
    HandlerOps = {"new", "start"}
    MaxHostCalls = 4
    MaxHandlerCalls = 2
    LoopMayReturn = FALSE
PROPERTIES
    DeletionCompletes
CHECK_DEADLOCK FALSE
