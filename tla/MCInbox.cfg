\* The runner and a direct call over two rows in batches of two, two attempts, a crash.
CONSTANTS
    MaxRow = 2
    Limit = 2
    MaxAttempts = 2
    MaxCrash = 1
    run = run
    call = call
    Callers = {run, call}
    Runner = run
SPECIFICATION LiveSpec
INVARIANTS
    InboxInv
    PacedRetries
PROPERTIES
    RowsSettle
