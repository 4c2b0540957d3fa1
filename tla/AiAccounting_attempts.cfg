SPECIFICATION FairSpec
CONSTANTS
    e1 = e1
    e2 = e2
    Nobody = Nobody
    Executions <- One
    SettingsRows <- OnOff
    LastDay = 0
    MaxAttempts = 3
    PerAttempt = 2
    MaxUse = 3
    MaxAggregate = 8
INVARIANTS
    SpendIsCovered
    UsageIsExact
    AnswersAreHonest
PROPERTY ExecutionEnds
