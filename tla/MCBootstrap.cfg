\* Root and one child; the entry command and two calls; two session numbers, so
\* that they wrap, are skipped and are used again.
SPECIFICATION BootSpec
CONSTANTS
    Services = {root, child}
    Root = root
    Host = Host
    None = None
    MaxSession = 2
    MaxRequests = 3
    MaxFaults = 1
INVARIANTS
    TypeOK
    AnswersMatch
    AnsweredOnce
    CallsOwed
    FailureReported
PROPERTIES
    BootstrapReturns
    CallsReturn
