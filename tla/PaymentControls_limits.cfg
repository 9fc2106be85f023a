SPECIFICATION ControlsSpec
CONSTANTS
    r1 = r1
    r2 = r2
    r3 = r3
    Requests <- AllRequests
    Amount <- SmallOrLarge
    Cent = 2
    Rail = "PIX"
    MinAmount = 1
    MaxAmount = 11
    DailyLimit = 11
    VelocityLimit = 2
    Window = 1
    Dimensions <- TwoDimensions
    RateLimit <- RateLimits
    RateWindow = 2
    TotalWindow = 1
    TotalThreshold = 30
    StructuringWindow = 3
    StructuringCount = 2
    MaxHistory = 0
    ReviewThreshold = 50
    BlockThreshold = 80
    FailureCounts <- UpToThree
    MaxTime = 3
    MaxOutages = 2
    MaxInFlight = 2
CHECK_DEADLOCK FALSE
SYMMETRY Symmetry
CONSTRAINT Bounded
INVARIANTS
    ControlsTypeOK
    
    
    
    
    PromptWithinBudget
    BlockedForFourSignals
    HistoryCoversTable
    UnreviewedWithinThreshold
    SeriesIsReviewed
