---------------------------- MODULE MCJwsPipeline ----------------------------
(* Keys, calls and tokens for the model of JwsPipeline.                    *)
EXTENDS JwsPipeline

MCNames == DefaultAlgorithms \cup {"XX"}

Pair(name, type, size) == [name |-> name, type |-> type, size |-> size, private |-> TRUE]

\* Long enough for HS256 but not for HS512, and one byte short of it.
Secret      == Pair("secret", "oct", 32)
ShortSecret == Pair("short", "oct", 31)
NoSecret    == Pair("", "oct", 0)
Rsa         == Pair("rsa", "RSA", 2048)
ShortRsa    == Pair("short", "RSA", 2047)
Ec          == Pair("ec", "P-256", 256)
Ec384       == Pair("ec", "P-384", 384)
Ed          == Pair("ed", "Ed25519", 256)
Ed448       == Pair("ed", "Ed448", 448)

TheJwk(key, alg) == [form |-> "PyJWK", key |-> key, alg |-> alg]

SigningKeys ==
    {Argument("secret", k) : k \in {Secret, ShortSecret, NoSecret}}
        \cup {Argument(form, k) : form \in {"object", "pem"}, k \in {Rsa, Ec}}
        \cup {Argument("object", k) : k \in {ShortRsa, Ec384, Ed448, Public(Rsa)}}
        \cup {Argument("pem", Ed), Argument("ssh", Public(Ec)), Argument("encrypted", Rsa),
              Argument("None", NoKey), Argument("other", NoKey), Argument("malformed", NoKey)}
        \cup UNION {FromKey(k, Missing) : k \in {Secret, Rsa, Ec, Ec384, Ed, Ed448}}
        \cup FromKey(Ed448, "EdDSA")

BaseCall ==
    [payload |-> "claims", key |-> Argument("secret", Secret), algorithm |-> Unset,
     headers |-> BareHeader, detached |-> FALSE]

MCEncodeCalls ==
    {[BaseCall EXCEPT !.key = k, !.algorithm = a] :
        k \in SigningKeys,
        a \in {Unset, "None", "HS256", "HS512", "RS256", "ES256", "ES256K", "EdDSA", "none", "XX"}}
    \cup {[BaseCall EXCEPT !.payload = p, !.headers = h, !.detached = d] :
        p \in {"claims", "text"}, d \in BOOLEAN,
        h \in [alg : {"absent", "falsy", "HS512"}, kid : {"absent", "other"},
               crit : {"absent", "b64", "bad"}, b64 : {"absent", "false", "other"}]}

VerifyingKeys ==
    {Argument("secret", Secret), Argument("secret", ShortSecret), Argument("secret", NoSecret),
     Argument("pem", Public(Rsa)), Argument("pem", Rsa), Argument("object", Public(ShortRsa)),
     Argument("object", Public(Ec)), Argument("ssh", Public(Ec)), Argument("pem", Ec384),
     Argument("pem", Public(Ed)), Argument("malformed", NoKey), Argument("None", NoKey),
     TheJwk(Secret, "HS256"), TheJwk(Secret, "HS512"), TheJwk(Rsa, "RS256"),
     TheJwk(Public(Rsa), "RS256"), TheJwk(Public(Ec384), "ES256"), TheJwk(Public(Ed448), "EdDSA")}

MCDecodeCalls ==
    {[key |-> k, allowed |-> a, verify |-> TRUE, detached |-> d, json |-> FALSE] :
        k \in VerifyingKeys, d \in {"None", "claims"},
        a \in {Unspecified, {"HS256"}, {"RS256", "ES256", "EdDSA"}, MCNames}}
    \cup {[key |-> Argument("secret", Secret), allowed |-> a, verify |-> v, detached |-> "text", json |-> TRUE] :
        a \in {Unspecified, {}, {"HS256", "HS512"}}, v \in BOOLEAN}

SignedAs(alg, key, header, payload) ==
    Token(header, payload,
          Signature(alg, key, [header |-> header, payload |-> payload, coded |-> TRUE]))

With(alg) == [BareHeader EXCEPT !.alg = alg]

\* Too few segments; signed with a handler or a curve that is not the name's;
\* without alg, signed all the same; of an unknown algorithm.
MCForeignTokens ==
    {[Token(BareHeader, NoPayload, NoSignature) EXCEPT !.shape = "malformed"],
     SignedAs("HS512", Secret, With("HS256"), "claims"),
     SignedAs("ES256", Ec384, With("ES256"), "claims"),
     SignedAs("HS256", Secret, BareHeader, "claims"),
     SignedAs("HS256", Secret, With("XX"), "claims"),
     SignedAs("HS256", Secret, [With("HS256") EXCEPT !.kid = "other"], "claims"),
     SignedAs("HS256", Secret, [With("HS256") EXCEPT !.b64 = "other", !.crit = "b64"], "text")}
=============================================================================
