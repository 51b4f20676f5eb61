\* Three records, two instances of the keeper and the shutdown.
CONSTANTS
    r1 = r1
    r2 = r2
    r3 = r3
    Published = {r1, r2, r3}
    QueuePlugin = QueuePlugin
    k1 = k1
    k2 = k2
    Keepers = {k1, k2}
CHECK_DEADLOCK FALSE
SPECIFICATION ManagerLiveSpec
INVARIANTS
    ManagerInv
PROPERTIES
    RecordsDispatched
