------------------------------ MODULE PyJWKSet ------------------------------
(***************************************************************************)
(* The loop of PyJWKSet.__init__ (jwt/api_jwk.py), one step per JWK, and   *)
(* what it promises: JwksClient uses the declarative SetErrors and         *)
(* UsableKeys of module PyJWK for it, and LoopMeetsReference says that the *)
(* loop computes exactly those.                                            *)
(***************************************************************************)
EXTENDS Naturals, Sequences

CONSTANT Documents  \* the decoded documents from_dict may be called with

ASSUME DocumentsAssumption ==
    \A d \in Documents : Len(d.keys) \in Nat /\ DOMAIN d.keys = 1..Len(d.keys)

VARIABLES has_crypto,  \* the cryptography package was found at import
          doc,         \* the argument
          next,        \* index of the JWK the loop is at
          keys,        \* self.keys, as indices into doc.keys
          result       \* "building", "built" or the exception raised

vars == <<has_crypto, doc, next, keys, result>>

INSTANCE PyJWK WITH HasCrypto <- has_crypto

TypeOK ==
    /\ has_crypto \in BOOLEAN
    /\ doc \in Documents
    /\ next \in Nat
    /\ keys \in Seq(DOMAIN doc.keys)
    /\ result \in {"building", "built", "PyJWKSetError"} \cup Fatal

Init ==
    /\ has_crypto \in BOOLEAN
    /\ doc \in Documents
    /\ next = 1
    /\ keys = <<>>
    /\ result = "building"

\* No keys, or not a list.
RejectShape ==
    /\ result = "building"
    /\ doc.shape # "keys"
    /\ result' = "PyJWKSetError"
    /\ UNCHANGED <<has_crypto, doc, next, keys>>

AtKey == result = "building" /\ doc.shape = "keys" /\ next <= Len(doc.keys)

AppendKey ==
    /\ AtKey
    /\ Loads(doc, next) = "ok"
    /\ keys' = Append(keys, next)
    /\ next' = next + 1
    /\ UNCHANGED <<has_crypto, doc, result>>

\* Mutant: every exception is skipped but the missing package.
SkipKey_AnyException ==
    /\ AtKey
    /\ Loads(doc, next) \notin {"ok", "MissingCryptographyError"}
    /\ next' = next + 1
    /\ UNCHANGED <<has_crypto, doc, keys, result>>

\* Mutant: the missing package is skipped like any PyJWTError.
SkipKey_AnyPyJWTError ==
    /\ AtKey
    /\ Loads(doc, next) \in Skipped \cup {"MissingCryptographyError"}
    /\ next' = next + 1
    /\ UNCHANGED <<has_crypto, doc, keys, result>>

SkipKey ==
    /\ AtKey
    /\ Loads(doc, next) \in Skipped
    /\ next' = next + 1
    /\ UNCHANGED <<has_crypto, doc, keys, result>>

\* Mutant: no exception is caught.
RaiseKey_NoHandler ==
    /\ AtKey
    /\ Loads(doc, next) # "ok"
    /\ result' = Loads(doc, next)
    /\ UNCHANGED <<has_crypto, doc, next, keys>>

RaiseKey ==
    /\ AtKey
    /\ Loads(doc, next) \in Fatal
    /\ result' = Loads(doc, next)
    /\ UNCHANGED <<has_crypto, doc, next, keys>>

Finish ==
    /\ result = "building"
    /\ doc.shape = "keys"
    /\ next > Len(doc.keys)
    /\ result' = IF keys = <<>> THEN "PyJWKSetError" ELSE "built"
    /\ UNCHANGED <<has_crypto, doc, next, keys>>

Next == RejectShape \/ AppendKey \/ SkipKey \/ RaiseKey \/ Finish

Spec == Init /\ [][Next]_vars

-----------------------------------------------------------------------------

\* The loop and the declarative definitions agree: it raises SetErrors(doc),
\* and when it raises nothing it has built exactly the usable keys, in the
\* order of the document (api_jwk.py:145-157).
LoopMeetsReference ==
    result # "building" =>
        /\ SetErrors(doc) = IF result = "built" THEN {} ELSE {result}
        /\ result = "built" =>
              /\ {keys[i] : i \in DOMAIN keys} = UsableKeys(doc)
              /\ \A i, j \in DOMAIN keys : i < j => keys[i] < keys[j]

\* A key whose algorithm needs the cryptography package is never dropped in
\* silence when the package is missing: the set is refused instead, unless an
\* earlier JWK already left the loop (api_jwk.py:149-150).
NoSilentCryptoLoss ==
    result = "built" =>
        \A i \in DOMAIN doc.keys : Loads(doc, i) # "MissingCryptographyError"
=============================================================================
