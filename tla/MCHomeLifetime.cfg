\* Two dispatches over two lifetimes on one registry.
CONSTANTS
    g1 = g1
    Groups = {g1}
    Unaccounted = Unaccounted
    s1 = s1
    Sinks = {s1}
    NoSink = NoSink
    Callers <- MCCallers
    MaxDispatch = 2
    MaxBarrier = 0
    MaxLifetime = 2
CHECK_DEADLOCK FALSE
SPECIFICATION FairLifetimeSpec
INVARIANTS
    LifetimeInv
    TakeoverKnowsGrants
    CleanShutdownFreesAll
PROPERTIES
    LifetimeReplaced
