\* Two services whose handlers send to each other and stop each other, under
\* a host that creates, starts and stops them, sends, and deletes the pool.
SPECIFICATION Spec
CONSTANTS
    Hosts = {h1}
    MaxServices = 2
    Names = {NoName}
    NoName = NoName
    NoReply = NoReply
    HostOps = {"new", "start", "stop", "send", "delete"}
    HandlerOps = {"send", "stop"}
    MaxHostCalls = 5
    MaxHandlerCalls = 1
    LoopMayReturn = FALSE
VIEW View
INVARIANTS
    TypeOK
    SendIsSafe
    StopOfRunningIsSafe
    NoneDropped
    FreedPoolIsUnused
