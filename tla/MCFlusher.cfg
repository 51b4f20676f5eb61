\* Two sequences over two lifetimes, with a Home that answers again and again.
CONSTANTS
    g1 = g1
    Groups = {g1}
    MaxSeq = 2
    MaxLifetime = 2
SPECIFICATION FairSpec
INVARIANTS
    FlusherInv
    DirtyIsPrompt
PROPERTIES
    ImplementsChannel
    TicketsComplete
