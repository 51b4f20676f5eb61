\* Three attempts and three binders against the close of the selection.
CONSTANTS
    a1 = a1
    a2 = a2
    a3 = a3
    Attempts = {a1, a2, a3}
    b1 = b1
    b2 = b2
    b3 = b3
    Binders = {b1, b2, b3}
    CancelAttempts = CancelAttempts
CHECK_DEADLOCK FALSE
SPECIFICATION FairSpec
INVARIANTS
    SelectionInv
PROPERTIES
    AttemptsCancelled
