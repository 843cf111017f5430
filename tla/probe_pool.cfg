SPECIFICATION FairSpec
CONSTANTS
    Enabled = {i1, i2, i3}
    NoInstance = none
    WorkersPerCR = 2
INVARIANT SendsAreSafe
PROPERTY ShortOnlyWhenCanceled
PROPERTY EverythingEnds
PROPERTY ImplementsHealthCheck
