SPECIFICATION FairSpec
CONSTANTS
    t1 = t1
    t2 = t2
    l1 = l1
    l2 = l2
    Titles <- OneTitle
    Layouts <- TwoLayouts
    MaxVersions = 3
    MaxEdits = 3
INVARIANTS
    SavedIsAccepted
PROPERTIES
    UnsavedIsKept
    StoppedIsHeld
    FlushedFirst
    FlushEnds
    EditsAreSaved
CHECK_DEADLOCK FALSE
