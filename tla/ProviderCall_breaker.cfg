SPECIFICATION FairSpec
CONSTANTS
    Threshold = 3
    MaxTries = 3
    MaxAttempts = 2
INVARIANTS
    TypeOK
    StormBound
PROPERTIES
    Recovers
