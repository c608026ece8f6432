----------------------------- MODULE MCPyJWKSet -----------------------------
(* Documents of up to three JWKs, one for each way a JWK loads or fails.   *)
EXTENDS PyJWKSet

Jwk(kty, alg, crv, params) ==
    [kty |-> kty, alg |-> alg, crv |-> crv, params |-> params,
     kid |-> "kid", use |-> "sig"]

MCJwks ==
    {Jwk("oct", Missing, Missing, "good"),       \* HS256 by default
     Jwk("oct", Missing, Missing, "absent"),     \* KeyError: no "k"
     Jwk("oct", "none", Missing, "good"),        \* NotImplementedError
     Jwk("RSA", Missing, Missing, "good"),
     Jwk("RSA", "HS256", Missing, "good"),       \* alg of another family
     Jwk("EC", Missing, "P-384", "badlength"),
     Jwk("EC", Missing, Missing, "good"),        \* ES256, then "Invalid curve"
     Jwk("EC", "ES256", "P-384", "good"),        \* alg and crv disagree: loads
     Jwk("OKP", Missing, "Ed448", "good"),       \* no default algorithm
     Jwk("OKP", "EdDSA", "Ed448", "good"),
     Jwk("OKP", "EdDSA", "Ed448", "badprivate"), \* skipped
     Jwk("OKP", Missing, "Ed25519", "undecodable"), \* refuses the set
     Jwk("EC", Missing, "P-256", "badprivate"),  \* so does this
     Jwk(Missing, "RS256", Missing, "good"),
     Jwk("EC", Missing, "P-256", "badnumbers"),  \* point not on the curve
     Jwk("RSA", "XX999", Missing, "good")}       \* unknown algorithm

MCDocuments ==
    {[shape |-> s, keys |-> <<>>] : s \in {"empty", "notlist"}}
        \cup {[shape |-> "keys", keys |-> ks] : ks \in
                 UNION {[1..n -> MCJwks] : n \in 1..3}}
=============================================================================
