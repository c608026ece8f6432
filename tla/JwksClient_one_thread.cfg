SPECIFICATION Spec
CONSTANTS
    HasCrypto = TRUE
    t1 = t1
    t2 = t2
    k1 = k1
    k2 = k2
    NoKid = NoKid
    Threads = {t1}
    Kids = {k1, k2}
    Documents <- AllDocuments
    CacheJwkSet = TRUE
    Lifespan = 1
    CacheKeys = FALSE
    MaxCachedKeys = 0
    Operations <- Methods
    MaxTime = 3
    MaxVersions = 2
INVARIANTS
    TypeOK
    DenialsAreFresh
    RefreshedIsFresh
    GetReturnsOptional
PROPERTY
    FetchOnlyWhenNeeded
