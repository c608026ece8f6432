SPECIFICATION Spec
CONSTANTS
    Second = 2
    MaxTime = 5
    Parties = {"me", "you"}
    Requests <- TimeRequests
    Foreign <- NamedPayloads
    Calls <- AllCalls
INVARIANTS
    TypeOK
    LifetimeKept
    ExpiredForGood
    BoundToVerifier
    WeakeningAccepts
