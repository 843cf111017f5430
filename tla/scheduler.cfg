SPECIFICATION FairSpec
CONSTANTS
    Kind = {"discovery", "monitor"}
    Interval = 1
    MinInterval = 2
    MaxBackoff = 3
    QueueSize = 1
    Faults = 2
INVARIANT TypeOK
INVARIANT NothingForgotten
PROPERTY ResultsAreReconciled
PROPERTY DiscoveryRecurs
PROPERTY ThrottleForgets
PROPERTY SingleFlight
PROPERTY LostOnlyAtFullChannel
