CONSTANTS
    Instance = {a, b}
    instance = a
    NoInstance = nobody
    FirstWriter = a
    Dbi = {none, d, e}
    NoDbi = none
    FailureThreshold = 2
    RecoveryThreshold = 3
    RemoveAfterMissingCount = 2
    ReaderEmptyFallback = TRUE
    Rounds = 7
    Disturbances = 2
    Faults = 1
SPECIFICATION PlansSpec
INVARIANT PlanIsStable
INVARIANT PlanKeepsOneWriter
INVARIANT HealthFollowsHistory
INVARIANT ReportsAgree
PROPERTY ReportedPageTellsTheState
