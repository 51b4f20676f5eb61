\* Two records, two subscribers, a popping client and forwarders of three lifetimes; one
\* refresh, disabling or ambiguous push.
CONSTANTS
    r1 = r1
    r2 = r2
    Records = {r1, r2}
    s1 = s1
    s2 = s2
    Subscribers = {s1, s2}
    MaxForwarder = 3
    Support = Support
    Refresh = Refresh
    Buffer = 1
    Batch = 2
    MaxRare = 1
CHECK_DEADLOCK FALSE
SPECIFICATION QueueLiveSpec
INVARIANTS
    QueueInv
    Conserved
PROPERTIES
    RecordsSettle
