---------------------------- MODULE MCJwksClient ----------------------------
(* Documents for the models of JwksClient.                                 *)
EXTENDS JwksClient, TLC

CONSTANTS k1, k2  \* key IDs

CONSTANTS t1, t2  \* threads

ThreadSymmetry == Permutations(Threads)

Jwk(k, use, params) ==
    [kty |-> "RSA", alg |-> Missing, crv |-> Missing, params |-> params,
     kid |-> k, use |-> use]

KeySet(keys) == [shape |-> "keys", keys |-> keys]

Bare(shape) == [shape |-> shape, keys |-> <<>>]

OldKeys == KeySet(<<Jwk(k1, "None", "good")>>)

\* k1 was rotated, k2 added; the first JWK for k1 is not for signatures.
NewKeys == KeySet(<<Jwk(k1, "enc", "good"), Jwk(k1, "sig", "good"), Jwk(k2, "sig", "good")>>)

\* k1 was withdrawn.
OtherKeys == KeySet(<<Jwk(k1, "sig", "absent"), Jwk(k2, "sig", "good")>>)

NoSigning == KeySet(<<Jwk(k1, "enc", "good"), Jwk(NoKid, "sig", "good")>>)

Malformed == KeySet(<<Jwk(k1, "sig", "good"), Jwk(k2, "sig", "undecodable")>>)

AllDocuments ==
    {OldKeys, NewKeys, OtherKeys, NoSigning, Malformed, Bare("null"), Bare("other"), Bare("empty")}

OneDocument == {OldKeys}

\* k1's key is rotated between the two.
RotatedDocuments == {OldKeys, NewKeys}
=============================================================================
