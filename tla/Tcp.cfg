CONSTANTS
    BufSize = 2
    MaxSeg = 2
    MaxBytes = 3
    MaxChunks = 2
    MaxNest = 1
SPECIFICATION Spec
INVARIANTS
    InOrder
    EndComplete
    PeerComplete
