CONSTANTS
    MaxCluster = 5
    FatCopies = 2
    Slots = 2
    Names = {"a", "b"}
    Chunks = {"x"}
    PathInputs <- MCPaths
    DataInputs <- OneLength
    Depth = 2
    MaxFaults = 1
SPECIFICATION Spec
INVARIANTS
    ChainsApart
    DirsSound
    MirrorsAgree
    Delivered
    OthersKept
