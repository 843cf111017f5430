SPECIFICATION FairSpec
CONSTANTS
    Name = {n1, n2}
    FirstWriter = n1
    Blank = blank
    Interval = 2
    ClusterTimeout = 1
    MinTTL = 5
    Disturbances = 2
    Faults = 1
INVARIANT RecordedTopologyIsSound
INVARIANT CacheOutlivesAFailure
PROPERTY IdentityNeverGoesBack
PROPERTY IdentityConverges
