\* Two threads with one call each, records of at most eleven bytes.
SPECIFICATION Spec
CONSTANTS
    Threads = {1, 2}
    VMs = {1, 2}
    LOG_LINE_MAX = 11
    PIPE_BUF = 11
    HeadSize = 4
    Calls <- MCCalls
    MaxCalls = 1
    Env <- MCEnv
INVARIANTS
    LogTypeOK
    RecordsWhole
    TruncationShown
    LinesPrefixed
    SettingStays
    LoadedWhenUsed
    SameAnswer
