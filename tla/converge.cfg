CONSTANTS
    a = a
    b = b
    none = none
    Instance <- TwoInstances
    Dbi <- NoIdentity
    NoDbi <- none
    FailureThreshold = 2
    RecoveryThreshold = 2
    RemoveAfterMissingCount = 2
    ReaderEmptyFallback = TRUE
    DiscoveryFailureThreshold = 1
    Retention = 1
    WriterChangePolicy = "KeepExisting"
    Bound <- ThreeTimes
    Scenarios <- Recovery
SPECIFICATION ConvergeSpec
PROPERTY Converges
