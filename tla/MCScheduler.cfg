\* Four calls of at and daily, days of two ticks, batches of two.
SPECIFICATION FairSpec
CONSTANTS
    MAX_TASKS_PER_TICK = 2
    MAX_RECHECK_MS = 2
    Day = 2
    Once = Once
    DailyTimes = {1}
    Deadlines = {3}
    MaxLag = 1
    MaxTime = 3
    MaxCalls = 4
    MaxJumps = 1
    MaxFaults = 1
INVARIANTS
    TypeOK
    HeapSound
    WakesInTime
PROPERTIES
    OncePerDay
    InOrder
    CatchesUp
