SPECIFICATION Spec
CONSTANTS
    p1 = p1
    p2 = p2
    w1 = w1
    w2 = w2
    Payments <- TwoPayments
    Workers <- OneWorker
    BatchSize = 2
    MaxAttempts = 2
    FanoutEnabled = TRUE
SYMMETRY Symmetry
INVARIANTS
    TypeOK
    NoStranded
    AnnouncedOnce
PROPERTIES
    FinalForever
    ImplementsLifecycle
