\* Root alone: what it does before the entry command is enough.
SPECIFICATION BootSpec
CONSTANTS
    Services = {root}
    Root = root
    Host = Host
    None = None
    MaxSession = 1
    MaxRequests = 1
    MaxFaults = 1
INVARIANTS
    ReportsFirstCause
