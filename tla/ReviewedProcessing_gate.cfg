SPECIFICATION SystemSpec
CONSTANTS
    p1 = p1
    w1 = w1
    v1 = v1
    v2 = v2
    Payments <- OnePayment
    Workers <- OneWorker
    Reviews <- TwoReviews
    BatchSize = 2
    MaxAttempts = 2
    FanoutEnabled = TRUE
SYMMETRY Symmetry
INVARIANTS
    SystemTypeOK
    ApprovedBeforeMoved
    ApprovedIsProcessed
    NoStranded
