CONSTANTS
    a = a
    b = b
    none = none
    Instance <- TwoInstances
    Dbi <- NoIdentity
    NoDbi <- none
    FailureThreshold = 2
    RecoveryThreshold = 2
    RemoveAfterMissingCount = 2
    ReaderEmptyFallback = TRUE
    DiscoveryFailureThreshold = 2
    Retention = 1
    WriterChangePolicy = "RestartAll"
    Bound <- ThreeTimes
    Scenarios <- Safety
SPECIFICATION SettledSpec
INVARIANT TypeOK
INVARIANT AtMostOneWriter
INVARIANT RecordedMembershipIsReal
INVARIANT MembersKeepResources
PROPERTY MakeBeforeBreak
PROPERTY FrozenChangesNothing
PROPERTY HealthySurvivesFewFailures
SYMMETRY Permutation
