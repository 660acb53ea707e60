CONSTANTS
    TaskMax = 3
    MaxId = 3
    FollowRaces = TRUE
SPECIFICATION Spec
INVARIANT SwitchOnlyWhenSafe
