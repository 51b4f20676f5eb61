\* One request whose caller lags behind.
CONSTANTS
    r1 = r1
    Requests = {r1}
    Streams = {r1}
    Buffer = 2
    MaxChunk = 3
CHECK_DEADLOCK FALSE
SPECIFICATION Spec
INVARIANTS
    NoSilentFrameLoss
