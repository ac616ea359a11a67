\* A table is part of a cycle and has another table for a key.
SPECIFICATION Spec
CONSTANTS
    MAX_COOKIE = 4
    MAX_DEPTH = 3
    MAX_REFERENCE = 2
    BLOCK_SIZE = 4
    Base = 3
    WordSize = 2
    MaxTables = 3
    MaxEntries = 3
    Keys <- MCKeys
    TableKeys = TRUE
    MetaTables = {2}
    Around <- MCAround
INVARIANTS
    RoundTripAlways
