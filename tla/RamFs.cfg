CONSTANTS
    MaxNodes = 4
    MaxFileSize = 2
    Names = {"a", "b"}
    PathInputs <- MCPaths
    MaxSize = 2
SPECIFICATION Spec
INVARIANTS
    TreeSound
PROPERTIES
    TreeImplemented
