CONSTANTS
    TaskMax = 3
    MaxId = 3
    FollowRaces = FALSE
SPECIFICATION TightLoopSpec
PROPERTY SerialConsoleResponds
