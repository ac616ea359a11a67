\* Up to three tables with up to four entries, in every graph they can form.
SPECIFICATION Spec
CONSTANTS
    MAX_COOKIE = 4
    MAX_DEPTH = 2
    MAX_REFERENCE = 2
    BLOCK_SIZE = 4
    Base = 3
    WordSize = 2
    MaxTables = 3
    MaxEntries = 4
    Keys <- MCKeys
    TableKeys = TRUE
    MetaTables = {2}
    Around <- MCAround
INVARIANTS
    TypeOK
    RoundTrip
    AssertionsHold
