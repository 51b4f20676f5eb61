\* A stream longer than the buffer and a plain request.
CONSTANTS
    r1 = r1
    r2 = r2
    Requests = {r1, r2}
    Streams = {r1}
    Buffer = 1
    MaxChunk = 3
CHECK_DEADLOCK FALSE
SPECIFICATION LiveSpec
INVARIANTS
    RelayInv
PROPERTIES
    NobodyWaits
