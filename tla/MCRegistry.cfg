\* Two calls of Drain, Close or WaitPending, a sink that is swapped and a barrier
\* against a dispatch.
CONSTANTS
    g1 = g1
    Groups = {g1}
    Unaccounted = Unaccounted
    s1 = s1
    Sinks = {s1}
    NoSink = NoSink
    c1 = c1
    c2 = c2
    Callers = {c1, c2}
    MaxDispatch = 1
    MaxBarrier = 1
SPECIFICATION FairSpec
INVARIANTS
    RegistryInv
    SweepMissesNothing
    DrainedIsQuiescent
    BarrierCoversPending
PROPERTIES
    NoAdmissionAfterSnapshot
    CallsReturn
    BarrierPublished
