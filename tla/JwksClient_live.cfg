SPECIFICATION FairSpec
CONSTANTS
    HasCrypto = TRUE
    t1 = t1
    t2 = t2
    k1 = k1
    k2 = k2
    NoKid = NoKid
    Threads = {t1, t2}
    Kids = {k1}
    Documents <- OneDocument
    CacheJwkSet = TRUE
    Lifespan = 1
    CacheKeys = FALSE
    MaxCachedKeys = 0
    Operations = {"get_signing_key"}
    MaxTime = 2
    MaxVersions = 1
PROPERTIES
    BoundedStaleness
    CallsReturn
