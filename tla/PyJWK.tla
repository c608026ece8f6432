------------------------------- MODULE PyJWK -------------------------------
(***************************************************************************)
(* Construction of a PyJWK from a decoded JWK, and of a PyJWKSet from a    *)
(* decoded JWKS document (jwt/api_jwk.py).                                 *)
(*                                                                         *)
(* A JWK is a record of what the constructor reads:                        *)
(*   kty, alg, crv   strings, Missing when absent or falsy                 *)
(*   params          what from_jwk finds in the key parameters             *)
(*   kid, use        kept for the lookup (JwksClient)                      *)
(* The value of a key is never looked at: a key object is known by its     *)
(* place in the document it was built from.                                *)
(***************************************************************************)
EXTENDS Naturals, Sequences

CONSTANT HasCrypto  \* has_crypto: the cryptography package is importable

ASSUME HasCryptoAssumption == HasCrypto \in BOOLEAN

Missing == ""

AsymmetricAlgorithms ==
    {"RS256", "RS384", "RS512", "ES256", "ES256K", "ES384", "ES521", "ES512",
     "PS256", "PS384", "PS512", "EdDSA"}

RequiresCryptography == AsymmetricAlgorithms

DefaultAlgorithms ==
    {"none", "HS256", "HS384", "HS512"}
        \cup (IF HasCrypto THEN AsymmetricAlgorithms ELSE {})

(***************************************************************************)
(* PyJWK.__init__: the algorithm is the argument, else the JWK's alg, else *)
(* derived from kty and crv.  Missing stands for "raises InvalidKeyError". *)
(***************************************************************************)
CurveAlgorithm(kty, crv) ==
    CASE kty = "EC" /\ crv \in {"P-256", Missing} -> "ES256"
      [] kty = "EC" /\ crv = "P-384"              -> "ES384"
      [] kty = "EC" /\ crv = "P-521"              -> "ES512"
      [] kty = "EC" /\ crv = "secp256k1"          -> "ES256K"
      [] kty = "RSA"                              -> "RS256"
      [] kty = "oct"                              -> "HS256"
      [] kty = "OKP" /\ crv = "Ed25519"           -> "EdDSA"
      [] OTHER                                    -> Missing

AlgorithmFor(jwk, algorithm) ==
    IF algorithm # Missing THEN algorithm
    ELSE IF jwk.alg # Missing THEN jwk.alg
    ELSE CurveAlgorithm(jwk.kty, jwk.crv)

(***************************************************************************)
(* Algorithm.from_jwk, one per family.  "ok" is a key object; any other    *)
(* result is the class of the exception it raises.  "raw" is an exception  *)
(* that is not a PyJWTError: KeyError, ValueError, NotImplementedError...  *)
(*   params: "good"; "absent" (a required parameter is not there, or only  *)
(*   some of an RSA private key's primes, or more than two are);           *)
(*   "undecodable" (a parameter of the public part, or a secret, is not    *)
(*   base64url); "badprivate" (the public part is good, but d is not       *)
(*   base64url); "badlength" (coordinate or key of the wrong size);        *)
(*   "badnumbers" (values the backend refuses).                            *)
(***************************************************************************)
Family(alg) ==
    CASE alg \in {"HS256", "HS384", "HS512"}                    -> "oct"
      [] alg \in {"RS256", "RS384", "RS512", "PS256", "PS384", "PS512"} -> "RSA"
      [] alg \in {"ES256", "ES256K", "ES384", "ES521", "ES512"} -> "EC"
      [] alg = "EdDSA"                                          -> "OKP"

HmacFromJwk(jwk) == IF jwk.params \in {"absent", "undecodable"} THEN "raw" ELSE "ok"

RsaFromJwk(jwk) ==
    IF jwk.params = "absent" THEN "InvalidKeyError"
    ELSE IF jwk.params \in {"undecodable", "badprivate", "badnumbers"} THEN "raw"
    ELSE "ok"

EcFromJwk(jwk) ==
    IF jwk.params = "absent" THEN "InvalidKeyError"
    ELSE IF jwk.params = "undecodable" THEN "raw"
    ELSE IF jwk.crv \notin {"P-256", "P-384", "P-521", "secp256k1"} THEN "InvalidKeyError"
    ELSE IF jwk.params = "badlength" THEN "InvalidKeyError"
    ELSE IF jwk.params \in {"badnumbers", "badprivate"} THEN "raw"
    ELSE "ok"

\* d is decoded where ValueErrors are caught, x is not.
OkpFromJwk(jwk) ==
    IF jwk.crv \notin {"Ed25519", "Ed448"} THEN "InvalidKeyError"
    ELSE IF jwk.params = "absent" THEN "InvalidKeyError"
    ELSE IF jwk.params = "undecodable" THEN "raw"
    ELSE IF jwk.params \in {"badlength", "badprivate"} THEN "InvalidKeyError"
    ELSE "ok"

FromJwk(alg, jwk) ==
    IF alg = "none" THEN "raw"
    ELSE IF jwk.kty # Family(alg) THEN "InvalidKeyError"
    ELSE CASE jwk.kty = "oct" -> HmacFromJwk(jwk)
           [] jwk.kty = "RSA" -> RsaFromJwk(jwk)
           [] jwk.kty = "EC"  -> EcFromJwk(jwk)
           [] jwk.kty = "OKP" -> OkpFromJwk(jwk)

\* PyJWK(jwk_data, algorithm): "ok" or the exception raised.
Load(jwk, algorithm) ==
    LET alg == AlgorithmFor(jwk, algorithm)
    IN  IF jwk.kty = Missing THEN "InvalidKeyError"
        ELSE IF alg = Missing THEN "InvalidKeyError"
        ELSE IF ~HasCrypto /\ alg \in RequiresCryptography THEN "MissingCryptographyError"
        ELSE IF alg \notin DefaultAlgorithms THEN "PyJWKError"
        ELSE FromJwk(alg, jwk)

(***************************************************************************)
(* PyJWKSet.from_dict.  A document is [shape, keys]:                       *)
(*   "null"    JSON null             "other"   JSON that is not an object  *)
(*   "empty"   an object with no keys, or with a falsy "keys"              *)
(*   "notlist" an object whose "keys" is truthy and not a list             *)
(*   "keys"    an object with a non-empty list of JWKs                     *)
(***************************************************************************)
Skipped == {"InvalidKeyError", "PyJWKError"}   \* PyJWTErrors the loop skips
Fatal   == {"MissingCryptographyError", "raw"} \* errors that leave the loop

Loads(doc, i) == Load(doc.keys[i], Missing)

\* The exception PyJWKSet.from_dict(doc) raises: a set of at most one element.
SetErrors(doc) ==
    IF doc.shape # "keys" THEN {"PyJWKSetError"}
    ELSE LET fatal == {i \in DOMAIN doc.keys : Loads(doc, i) \in Fatal}
         IN  IF fatal # {}
             THEN {Loads(doc, i) : i \in {i \in fatal : \A j \in fatal : i <= j}}
             ELSE IF \A i \in DOMAIN doc.keys : Loads(doc, i) \in Skipped
             THEN {"PyJWKSetError"}
             ELSE {}

\* The keys of the set that was built: indices into doc.keys.
UsableKeys(doc) == {i \in DOMAIN doc.keys : Loads(doc, i) = "ok"}
=============================================================================
