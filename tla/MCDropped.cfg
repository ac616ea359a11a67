\* A service sends a request to one that never gets a thread.
SPECIFICATION Spec
CONSTANTS
    Hosts = {h1}
    MaxServices = 2
    Names = {NoName}
    NoName = NoName
    NoReply = NoReply
    HostOps = {"new", "start", "send", "stop", "join"}
    HandlerOps = {"send"}
    MaxHostCalls = 6
    MaxHandlerCalls = 1
    LoopMayReturn = FALSE
INVARIANTS
    EveryRequestAnswered
