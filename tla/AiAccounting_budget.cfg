SPECIFICATION Spec
CONSTANTS
    e1 = e1
    e2 = e2
    Nobody = Nobody
    Executions <- Two
    SettingsRows <- Tight
    LastDay = 1
    MaxAttempts = 1
    PerAttempt = 1
    MaxUse = 2
    MaxAggregate = 9
SYMMETRY MCSymmetry
INVARIANT BudgetHeld
