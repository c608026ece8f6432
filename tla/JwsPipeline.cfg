SPECIFICATION Spec
CONSTANTS
    HasCrypto = TRUE
    Names <- MCNames
    Changeable = {"HS256", "HS512", "XX"}
    Handlers = {"HS256", "HS512"}
    EncodeCalls <- MCEncodeCalls
    DecodeCalls <- MCDecodeCalls
    ForeignTokens <- MCForeignTokens
    Payloads = {"empty", "claims", "text"}
    Objects = {"claims"}
INVARIANTS
    TypeOK
    AcceptedAsSigned
    RoundTrip
    JwkPathAgrees
    VerificationOnlyRefuses
    RawErrorsAreTheKeys
