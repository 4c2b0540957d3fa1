SPECIFICATION FairSpec
CONSTANTS
    c1 = c1
    c2 = c2
    c3 = c3
    t1 = t1
    t2 = t2
    s1 = s1
    s2 = s2
    w1 = w1
    w2 = w2
    Nobody = Nobody
    Calls <- ThreeCalls
    Tokens <- TwoTokens
    Slots <- TwoSlots
    Windows <- TwoWindows
    Capacity = 1
    AttemptLimit = 1
INVARIANTS
    SlotsAreHonest
    OneBookingPerToken
    AnswersAreHonest
PROPERTY CallEnds
CHECK_DEADLOCK FALSE
