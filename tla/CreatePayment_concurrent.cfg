SPECIFICATION FairSpec
CONSTANTS
    r1 = r1
    r2 = r2
    r3 = r3
    k1 = k1
    Payments <- ThreeRequests
    Keys <- OneKey
    KeyOf <- AllSameKey
    MaxPolls = 2
CHECK_DEADLOCK FALSE
INVARIANTS
    TypeOK
    OnePaymentPerKey
    CommittedTogether
    GateIsExclusive
    ConflictHasCause
PROPERTIES
    LoserIsReplayed
    ImplementsPromise
    EveryRequestAnswered
