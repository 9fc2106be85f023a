SPECIFICATION Spec
CONSTANTS
    p1 = p1
    p2 = p2
    w1 = w1
    w2 = w2
    Payments <- OnePayment
    Workers <- TwoWorkers
    BatchSize = 1
    MaxAttempts = 2
    FanoutEnabled = TRUE
SYMMETRY Symmetry
INVARIANTS
    ProviderExclusion
    ConfirmedByProvider
    SentWasPublished
    FinalIsAnnounced
