SPECIFICATION Spec
CONSTANTS
    t1 = t1
    t2 = t2
    l1 = l1
    l2 = l2
    Titles <- TwoTitles
    Layouts <- TwoLayouts
    MaxVersions = 3
    MaxEdits = 1
PROPERTY KeptIsKept
CHECK_DEADLOCK FALSE
