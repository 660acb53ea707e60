CONSTANTS
    MaxCluster = 5
    FatCopies = 2
    Slots = 2
    Names = {"a", "b"}
    Chunks = {"x"}
    PathInputs <- MCPaths
    DataInputs <- TwoLengths
    Depth = 2
    MaxFaults = 0
SPECIFICATION Spec
INVARIANTS
    SpaceKept
