SPECIFICATION Spec
CONSTANTS
    Documents <- MCDocuments
\* The constructor returns or raises: there is no step after that.
CHECK_DEADLOCK FALSE
INVARIANTS
    TypeOK
    LoopMeetsReference
    NoSilentCryptoLoss
