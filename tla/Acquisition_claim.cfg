SPECIFICATION Spec
CONSTANTS
    r1 = r1
    r2 = r2
    r3 = r3
    r4 = r4
    t1 = t1
    t2 = t2
    Requests <- FourRequests
    Tokens <- TwoTokens
    AttemptLimit = 3
    DailyLimit = 3
    RefinementLimit = 2
    LastDay = 0
    Nothing = Nothing
INVARIANT ClaimIsAccepted
CHECK_DEADLOCK FALSE
