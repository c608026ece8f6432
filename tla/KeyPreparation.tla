--------------------------- MODULE KeyPreparation ---------------------------
(***************************************************************************)
(* What the algorithms do with a key (jwt/algorithms.py): prepare_key,     *)
(* check_key_length, sign, verify and to_jwk of every family.              *)
(*                                                                         *)
(* A key is [name, type, size, private]: two keys with the same name and   *)
(* type are the halves of a pair; size is in bytes for "oct", in bits for  *)
(* "RSA".  What a program passes as key is [form, key, alg]:               *)
(*   "None", "other"  None, or an object of no use                         *)
(*   "secret"         text that is neither PEM nor an SSH key; "" if its   *)
(*                    size is 0 (b"", that no algorithm tells from it but   *)
(*                    none, is left out)                                   *)
(*   "pem", "ssh"     text of a key           "encrypted"  PEM, password   *)
(*   "malformed"      a PEM frame around something else                    *)
(*   "object"         a key object of the cryptography package             *)
(*   "PyJWK"          a PyJWK, whose algorithm_name is alg                 *)
(***************************************************************************)
EXTENDS PyJWK

Curves == {"P-256", "P-384", "P-521", "secp256k1"}

OkpCurves == {"Ed25519", "Ed448"}

KeyType(type) == IF type \in Curves THEN "EC" ELSE IF type \in OkpCurves THEN "OKP" ELSE type

Key ==
    [name : STRING, type : {"oct", "RSA"} \cup Curves \cup OkpCurves, size : Nat, private : BOOLEAN]

NoKey == [name |-> "", type |-> "oct", size |-> 0, private |-> FALSE]

Public(key) == [key EXCEPT !.private = FALSE]

KeyForms ==
    {"None", "other", "secret", "pem", "ssh", "encrypted", "malformed", "object", "PyJWK"}

KeyArgument ==
    {k \in [form : KeyForms, key : Key, alg : DefaultAlgorithms \cup {Missing}] :
        /\ k.form \in {"None", "other", "malformed"} => k.key = NoKey
        /\ k.form \in {"secret", "pem", "ssh", "encrypted", "object"} =>
              (k.form = "secret" <=> k.key.type = "oct")
        /\ k.form = "ssh" => ~k.key.private /\ k.key.type \notin {"secp256k1", "Ed448"}
        /\ k.form = "encrypted" => k.key.private
        /\ k.form = "PyJWK" <=> k.alg # Missing
        /\ k.form = "PyJWK" => k.alg # "none" /\ Family(k.alg) = KeyType(k.key.type) /\ k.key # NoKey}

Argument(form, key) == [form |-> form, key |-> key, alg |-> Missing]

-----------------------------------------------------------------------------
(* prepare_key: "ok", or the class of the exception.                       *)

\* The key default of decode is "".
PrepareNone(k) ==
    IF k.form = "None" \/ (k.form = "secret" /\ k.key.size = 0) THEN "ok" ELSE "InvalidKeyError"

PrepareHmac(k) ==
    IF k.form = "secret" THEN "ok"
    ELSE IF k.form \in {"pem", "ssh", "encrypted", "malformed"} THEN "InvalidKeyError"
    ELSE "TypeError"

IsKeyOf(k, family) == k.form \in {"object", "pem", "ssh"} /\ KeyType(k.key.type) = family

\* An encrypted key makes the loader raise TypeError, which no clause catches.
NotLoadable == {"None", "other", "object", "encrypted"}

PrepareRsa(k) ==
    IF IsKeyOf(k, "RSA") THEN "ok"
    ELSE IF k.form \in NotLoadable THEN "TypeError"
    ELSE "InvalidKeyError"

ExpectedCurve(alg) ==
    CASE alg = "ES256"              -> "P-256"
      [] alg = "ES256K"             -> "secp256k1"
      [] alg = "ES384"              -> "P-384"
      [] alg \in {"ES521", "ES512"} -> "P-521"

\* The ValueError of the second loader, tried when the first raises one, is
\* not caught.
PrepareEc(alg, k) ==
    IF IsKeyOf(k, "EC")
    THEN IF k.key.type = ExpectedCurve(alg) THEN "ok" ELSE "InvalidKeyError"
    ELSE IF k.form \in NotLoadable THEN "TypeError"
    ELSE IF k.form = "pem" THEN "InvalidKeyError"
    ELSE "ValueError"

PrepareOkp(k) ==
    IF IsKeyOf(k, "OKP") THEN "ok"
    ELSE IF k.form = "malformed" THEN "ValueError"
    ELSE "InvalidKeyError"

PrepareKey(alg, k) ==
    IF alg = "none" THEN PrepareNone(k)
    ELSE CASE Family(alg) = "oct" -> PrepareHmac(k)
           [] Family(alg) = "RSA" -> PrepareRsa(k)
           [] Family(alg) = "EC"  -> PrepareEc(alg, k)
           [] Family(alg) = "OKP" -> PrepareOkp(k)

-----------------------------------------------------------------------------

DigestSize(alg) ==
    CASE alg = "HS256" -> 32
      [] alg = "HS384" -> 48
      [] alg = "HS512" -> 64

\* check_key_length: has it a message for the key?
TooShort(alg, key) ==
    IF alg = "none" THEN FALSE
    ELSE \/ Family(alg) = "oct" /\ key.size < DigestSize(alg)
         \/ Family(alg) = "RSA" /\ key.size < 2048

(***************************************************************************)
(* Signatures are perfect: one is known by what it was made with and from. *)
(* EC algorithms with the same hash are the same scheme.                   *)
(***************************************************************************)
Scheme(alg) ==
    IF alg = "ES256K" THEN "ES256" ELSE IF alg = "ES521" THEN "ES512" ELSE alg

Signature(alg, key, input) == [scheme |-> Scheme(alg), key |-> Public(key), input |-> input]

\* The empty one of the algorithm none.
NoSignature == [scheme |-> "none", key |-> NoKey, input |-> [empty |-> TRUE]]

\* sign: a public key object has no method sign.
SignError(alg, key) ==
    IF alg = "none" \/ Family(alg) = "oct" \/ key.private THEN "ok" ELSE "AttributeError"

Sign(alg, key, input) == IF alg = "none" THEN NoSignature ELSE Signature(alg, key, input)

\* verify: an RSA private key object has no method verify; EC and OKP take the
\* public half of a private key.
VerifyError(alg, key) ==
    IF alg # "none" /\ Family(alg) = "RSA" /\ key.private THEN "AttributeError" ELSE "ok"

\* NoneAlgorithm.verify is always False, and so is that of an EC signature
\* whose length is not that of the key's curve (raw_to_der_signature).
Verifies(alg, key, input, sig) == alg # "none" /\ sig = Signature(alg, key, input)

-----------------------------------------------------------------------------

\* to_jwk, as a decoded dictionary.
ToJwk(key) ==
    [kty |-> KeyType(key.type), alg |-> Missing,
     crv |-> IF key.type \in {"oct", "RSA"} THEN Missing ELSE key.type,
     params |-> "good", kid |-> Missing, use |-> Missing]

\* PyJWK(to_jwk(key), algorithm), as a set: empty if it raises.
FromKey(key, algorithm) ==
    IF Load(ToJwk(key), algorithm) # "ok" THEN {}
    ELSE {[form |-> "PyJWK", key |-> key, alg |-> AlgorithmFor(ToJwk(key), algorithm)]}
=============================================================================
