SPECIFICATION FairSpec
CONSTANTS
    r1 = r1
    a = a
    b = b
    Rows <- OneRow
    Columns <- TwoColumns
    MaxEntries = 3
    MaxCalls = 1
INVARIANTS
    EditsAreKept
    RestShowsTheServer
PROPERTY CatchesUp
CHECK_DEADLOCK FALSE
