----------------------------- MODULE JwkLookup -----------------------------
(***************************************************************************)
(* What PyJWKClient computes from one decoded JWKS document, and the       *)
(* outcomes of its methods (jwt/jwks_client.py).                           *)
(***************************************************************************)
EXTENDS PyJWK

CONSTANT NoKid  \* an absent or empty key ID

\* What get_jwk_set raises on doc: a set of at most one element.
JwkSetErrors(doc) ==
    IF doc.shape \in {"null", "other"} THEN {"notObject"} ELSE SetErrors(doc)

SigningKeys(doc) ==
    {i \in UsableKeys(doc) : doc.keys[i].use \in {"sig", "None"} /\ doc.keys[i].kid # NoKid}

\* The indices of signing keys match_kid may stop at: the first match.
FirstMatch(doc, k) ==
    {i \in SigningKeys(doc) :
        /\ doc.keys[i].kid = k
        /\ \A j \in SigningKeys(doc) : j < i => doc.keys[j].kid # k}

\* What get_signing_keys raises on doc.
SigningKeysErrors(doc) ==
    IF JwkSetErrors(doc) # {} THEN JwkSetErrors(doc)
    ELSE IF SigningKeys(doc) = {} THEN {"noSigningKeys"} ELSE {}

-----------------------------------------------------------------------------

Failures == {"PyJWKClientConnectionError", "raw"}

Kinds ==
    {"none", "key", "set", "document", "notObject", "noSigningKeys",
     "unableToFind", "PyJWKSetError", "AttributeError"} \cup Fatal \cup Failures

\* "key" carries the key as an index into its document; "set" is a JWK Set or
\* a list of signing keys, "document" the decoded JSON of fetch_data.
Outcome(kind, version, index) ==
    [kind |-> kind, version |-> version, index |-> index]

Raise(kind) == Outcome(kind, 0, 0)

NoOutcome == Raise("none")
=============================================================================
