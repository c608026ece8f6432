SPECIFICATION Spec
CONSTANTS
    Second = 2
    MaxTime = 5
    Parties = {"me", "you"}
    Requests <- TimeRequests
    Foreign <- JustBlank
    Calls <- TimeCalls
INVARIANT
    ErrorsAreTokenErrors
