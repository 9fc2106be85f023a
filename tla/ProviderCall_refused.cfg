SPECIFICATION Spec
CONSTANTS
    Threshold = 3
    MaxTries = 3
    MaxAttempts = 2
INVARIANTS
    FailedOnlyAfterAsking
