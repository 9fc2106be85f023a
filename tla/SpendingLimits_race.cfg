SPECIFICATION Spec
CONSTANTS
    r1 = r1
    r2 = r2
    r3 = r3
    Requests <- ThreeRequests
    Amount <- OneEach
    Cent = 1
    MinAmount = 1
    MaxAmount = 3
    DailyLimit = 4
    VelocityLimit = 2
    Window = 2
    MaxTime = 1
    MaxOutages = 3
    MaxInFlight = 3
CHECK_DEADLOCK FALSE
SYMMETRY Symmetry
INVARIANTS
    WithinVelocityLimit
