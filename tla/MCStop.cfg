\* One host starts a service, or fails to, while another stops it.
SPECIFICATION Spec
CONSTANTS
    Hosts = {h1, h2}
    MaxServices = 1
    Names = {NoName}
    NoName = NoName
    NoReply = NoReply
    HostOps = {"new", "start", "stop"}
    HandlerOps = {}
    MaxHostCalls = 2
    MaxHandlerCalls = 0
    LoopMayReturn = FALSE
INVARIANTS
    StopIsSafe
