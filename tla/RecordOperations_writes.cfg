SPECIFICATION Spec
CONSTANTS
    c1 = c1
    c2 = c2
    c3 = c3
    v = v
    f = f
    g = g
    Nobody = Nobody
    Head = Head
    Object = Object
    Calls <- ThreeCalls
    Confirmations <- OneConfirmation
    Records = {1, 2, 3}
    Present = {1, 2}
    Fields <- TwoFields
    LastRevision = 1
INVARIANT NoDeadlock
PROPERTIES
    ReviewedIsReplaced
    FieldsAreKept
SYMMETRY Symmetric
CHECK_DEADLOCK FALSE
