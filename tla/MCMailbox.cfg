\* Two threads push four messages through rings of 1, 2 and 4 slots.
SPECIFICATION MCSpec
CONSTANTS
    Producers = {1, 2}
    Messages = {1, 2, 3, 4}
    Empty = 0
    InitialCapacity = 1
    MaxCapacity = 4
    BatchSize = 2
INVARIANTS
    TypeOK
    RingWellFormed
    Conserved
    NoLostWakeup
PROPERTIES
    FirstInFirstOut
    AcceptedIsTaken
    SendReturns
