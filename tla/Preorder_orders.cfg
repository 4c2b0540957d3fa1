SPECIFICATION FairSpec
CONSTANTS
    c1 = c1
    c2 = c2
    t1 = t1
    t2 = t2
    s1 = s1
    s2 = s2
    w1 = w1
    w2 = w2
    Nobody = Nobody
    Calls <- TwoCalls
    Tokens <- TwoTokens
    Slots <- TwoSlots
    Windows <- TwoWindows
    Capacity = 1
    AttemptLimit = 1
INVARIANTS
    SlotsAreHonest
    OneOrderPerToken
    AnswersAreHonest
    NotSoldOutByItself
    EmailGoesOutOnce
PROPERTIES
    OrdersWhileOpen
    CallEnds
