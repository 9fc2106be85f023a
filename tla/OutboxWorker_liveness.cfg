SPECIFICATION FairSpec
CONSTANTS
    p1 = p1
    p2 = p2
    w1 = w1
    w2 = w2
    Payments <- OnePayment
    Workers <- OneWorker
    BatchSize = 1
    MaxAttempts = 3
    FanoutEnabled = TRUE
PROPERTIES
    RequestsSettle
    EventsDrain
