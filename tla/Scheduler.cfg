CONSTANTS
    TaskMax = 3
    MaxId = 4
    FollowRaces = FALSE
SPECIFICATION Spec
INVARIANTS
    OnlyCurrentRuns
    RingIntact
    Identities
    ContextsSound
    CountCoversSuspended
PROPERTIES
    ProtectedSurvives
    NoResurrection
