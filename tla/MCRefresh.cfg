\* One credential, a worker and a request that refresh it, two editors, two instants and
\* two calls of the provider, updates, registrations and failed saves together.
CONSTANTS
    a1 = a1
    Ids = {a1}
    w1 = w1
    Workers = {w1}
    r1 = r1
    Requests = {r1}
    e1 = e1
    e2 = e2
    Editors = {e1, e2}
    JobBuffer = 1
    Life = 1
    Lead = 1
    Skew = 0
    PendingBackoff = 1
    IneffectiveBackoff = 1
    FailureBackoff = 1
    MaxTime = 2
    MaxBusy = 2
    MaxEvents = 2
CHECK_DEADLOCK FALSE
SYMMETRY Symmetry
SPECIFICATION Spec
INVARIANTS
    RefreshInv
    NotForgotten
PROPERTIES
    SpentOnce
    Paced
