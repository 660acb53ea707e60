CONSTANTS
    FdMax = 3
    PipeMax = 2
    BufSize = 2
    Bytes = {0, 1}
    Files = {"f"}
    Size <- MCSize
    MaxCount = 2
    MaxPos = 2
SPECIFICATION Spec
INVARIANTS
    EndsHeld
PROPERTIES
    PipesImplemented
