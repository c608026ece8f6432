SPECIFICATION Spec
CONSTANTS
    d1 = d1
    d2 = d2
    Dicts = {d1}
    Claims <- TwoClaims
INVARIANTS
    TypeOK
    SignatureUnlessAsked
    ExplicitClaimsHold
    DefaultsFollowSignature
    
