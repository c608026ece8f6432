--------------------------- MODULE PyJWKSet_proofs ---------------------------
(***************************************************************************)
(* Theorems about PyJWKSet: the loop meets its reference for documents of  *)
(* any length.                                                             *)
(***************************************************************************)
EXTENDS PyJWKSet, TLAPS

\* A JWK loads or fails in one of the foreseen ways.
LEMMA LoadResults ==
    ASSUME NEW jwk, NEW algorithm
    PROVE  Load(jwk, algorithm) \in {"ok"} \cup Skipped \cup Fatal
<1> DEFINE alg == AlgorithmFor(jwk, algorithm)
<1>1. ASSUME NEW a \in DefaultAlgorithms, a # "none", jwk.kty = Family(a)
      PROVE  FromJwk(a, jwk) \in {"ok", "InvalidKeyError", "raw"}
  <2>1. Family(a) \in {"oct", "RSA", "EC", "OKP"}
    BY <1>1 DEF Family, DefaultAlgorithms, AsymmetricAlgorithms
  <2>2. /\ HmacFromJwk(jwk) \in {"ok", "InvalidKeyError", "raw"}
        /\ RsaFromJwk(jwk) \in {"ok", "InvalidKeyError", "raw"}
        /\ EcFromJwk(jwk) \in {"ok", "InvalidKeyError", "raw"}
        /\ OkpFromJwk(jwk) \in {"ok", "InvalidKeyError", "raw"}
    BY DEF HmacFromJwk, RsaFromJwk, EcFromJwk, OkpFromJwk
  <2>3. FromJwk(a, jwk) \in {HmacFromJwk(jwk), RsaFromJwk(jwk), EcFromJwk(jwk), OkpFromJwk(jwk)}
    BY <1>1, <2>1 DEF FromJwk
  <2> QED BY <2>2, <2>3
<1>2. ASSUME NEW a \in DefaultAlgorithms
      PROVE  FromJwk(a, jwk) \in {"ok", "InvalidKeyError", "raw"}
  BY <1>1 DEF FromJwk
<1> QED BY <1>2 DEF Load, Skipped, Fatal

\* Whether a JWK loads does not change while the set is built.
LEMMA LoadsStable ==
    ASSUME UNCHANGED <<has_crypto, doc>>
    PROVE  \A i : Loads(doc, i)' = Loads(doc, i)
BY DEF Loads, Load, AlgorithmFor, CurveAlgorithm, DefaultAlgorithms, RequiresCryptography,
       AsymmetricAlgorithms, FromJwk, Missing, Family, HmacFromJwk, RsaFromJwk, EcFromJwk, OkpFromJwk

-----------------------------------------------------------------------------

\* Of the JWKs the loop has passed, none failed fatally; the keys are those that
\* loaded, in the order of the document.
Passed == 1..(next - 1)

PassedOK ==
    /\ next \in Nat \ {0}
    /\ Passed \subseteq DOMAIN doc.keys
    /\ \A i \in Passed : Loads(doc, i) \notin Fatal

KeysOK ==
    /\ keys \in Seq(Passed)
    /\ {keys[i] : i \in DOMAIN keys} = {i \in Passed : Loads(doc, i) = "ok"}
    /\ \A i, j \in DOMAIN keys : i < j => keys[i] < keys[j]

\* How the constructor ends.
ResultOK ==
    \/ result = "building"
    \/ result = "built" /\ doc.shape = "keys" /\ Passed = DOMAIN doc.keys /\ keys # <<>>
    \/ result = "PyJWKSetError" /\ doc.shape # "keys"
    \/ result = "PyJWKSetError" /\ Passed = DOMAIN doc.keys /\ keys = <<>>
    \/ /\ result \in Fatal /\ doc.shape = "keys"
       /\ next \in DOMAIN doc.keys /\ Loads(doc, next) = result

IInv ==
    /\ has_crypto \in BOOLEAN
    /\ doc \in Documents
    /\ PassedOK
    /\ KeysOK
    /\ ResultOK

LEMMA InductiveInvariant == Spec => []IInv
<1>1. ASSUME Init PROVE IInv
  <2>1. Passed = {}
    BY <1>1 DEF Init, Passed
  <2>2. PassedOK
    BY <1>1, <2>1 DEF Init, PassedOK
  <2>3. KeysOK
    BY <1>1, <2>1 DEF Init, KeysOK
  <2> QED BY <1>1, <2>2, <2>3 DEF Init, IInv, ResultOK
<1>2. ASSUME IInv, [Next]_vars PROVE IInv'
  <2>1. UNCHANGED <<has_crypto, doc>>
    BY <1>2 DEF Next, vars, RejectShape, AppendKey, SkipKey, RaiseKey, Finish
  <2>2. \A i : Loads(doc, i)' = Loads(doc, i)
    BY <2>1, LoadsStable
  <2>3. Len(doc.keys) \in Nat /\ DOMAIN doc.keys = 1..Len(doc.keys)
    BY <1>2, DocumentsAssumption DEF IInv
  <2>4. has_crypto' \in BOOLEAN /\ doc' \in Documents
    BY <1>2, <2>1 DEF IInv
  \* The loop passes a JWK that did not fail fatally.
  <2>5. ASSUME AtKey, Loads(doc, next) \notin Fatal, next' = next + 1, result' = result
        PROVE  /\ PassedOK' /\ ResultOK'
               /\ Passed' = Passed \cup {next}
               /\ next \notin Passed /\ \A i \in Passed : i < next
    <3>1. next \in Nat \ {0} /\ next \in DOMAIN doc.keys
      BY <1>2, <2>3, <2>5 DEF IInv, PassedOK, AtKey
    <3>2. Passed' = Passed \cup {next} /\ next \notin Passed /\ \A i \in Passed : i < next
      BY <2>5, <3>1 DEF Passed
    <3>3. PassedOK'
      BY <1>2, <2>1, <2>2, <2>5, <3>1, <3>2 DEF IInv, PassedOK
    <3> QED BY <2>5, <3>2, <3>3 DEF ResultOK, AtKey
  <2>6. CASE AppendKey
    <3>1. Loads(doc, next) = "ok" /\ Loads(doc, next) \notin Fatal
      BY <2>6 DEF AppendKey, Fatal
    <3>2. /\ PassedOK' /\ ResultOK'
          /\ Passed' = Passed \cup {next}
          /\ next \notin Passed /\ \A i \in Passed : i < next
      BY <2>5, <2>6, <3>1 DEF AppendKey
    <3>3. keys \in Seq(Passed) /\ keys' = Append(keys, next)
      BY <1>2, <2>6 DEF IInv, KeysOK, AppendKey
    <3>4. /\ keys' \in Seq(Passed')
          /\ Len(keys) \in Nat /\ DOMAIN keys = 1..Len(keys)
          /\ DOMAIN keys' = 1..(Len(keys) + 1)
          /\ \A i \in DOMAIN keys : keys'[i] = keys[i] /\ keys[i] \in Passed
          /\ keys'[Len(keys) + 1] = next
      BY <3>2, <3>3
    <3>5. {keys'[i] : i \in DOMAIN keys'} = {keys[i] : i \in DOMAIN keys} \cup {next}
      <4>1. DOMAIN keys' = DOMAIN keys \cup {Len(keys) + 1}
        BY <3>4
      <4> QED BY <3>4, <4>1
    <3>6. {keys'[i] : i \in DOMAIN keys'} = {i \in Passed' : Loads(doc, i)' = "ok"}
      <4>1. {keys[i] : i \in DOMAIN keys} = {i \in Passed : Loads(doc, i) = "ok"}
        BY <1>2 DEF IInv, KeysOK
      <4>2. {i \in Passed' : Loads(doc, i)' = "ok"}
               = {i \in Passed : Loads(doc, i) = "ok"} \cup {next}
        BY <2>2, <3>1, <3>2
      <4> QED BY <3>5, <4>1, <4>2
    <3>7. \A i, j \in DOMAIN keys' : i < j => keys'[i] < keys'[j]
      <4> SUFFICES ASSUME NEW i \in DOMAIN keys', NEW j \in DOMAIN keys', i < j
                   PROVE  keys'[i] < keys'[j]
        OBVIOUS
      <4>1. i \in DOMAIN keys
        BY <3>4
      <4>2. CASE j \in DOMAIN keys
        BY <1>2, <3>4, <4>1, <4>2 DEF IInv, KeysOK
      <4>3. CASE j = Len(keys) + 1
        BY <3>2, <3>4, <4>1, <4>3
      <4> QED BY <3>4, <4>2, <4>3
    <3> QED BY <2>4, <3>2, <3>4, <3>6, <3>7 DEF IInv, KeysOK
  <2>7. CASE SkipKey
    <3>1. Loads(doc, next) # "ok" /\ Loads(doc, next) \notin Fatal
      BY <2>7 DEF SkipKey, Skipped, Fatal
    <3>2. /\ PassedOK' /\ ResultOK'
          /\ Passed' = Passed \cup {next}
      BY <2>5, <2>7, <3>1 DEF SkipKey
    <3>3. keys' = keys
      BY <2>7 DEF SkipKey
    <3>4. {i \in Passed' : Loads(doc, i)' = "ok"} = {i \in Passed : Loads(doc, i) = "ok"}
      BY <2>2, <3>1, <3>2
    <3>5. keys \in Seq(Passed')
      BY <1>2, <3>2 DEF IInv, KeysOK
    <3> QED BY <1>2, <2>4, <3>2, <3>3, <3>4, <3>5 DEF IInv, KeysOK
  \* The other steps leave the loop where it is.
  <2>8. ASSUME UNCHANGED <<next, keys>> PROVE Passed' = Passed /\ PassedOK' /\ KeysOK'
    <3>1. Passed' = Passed
      BY <2>8 DEF Passed
    <3> QED BY <1>2, <2>1, <2>2, <2>8, <3>1 DEF IInv, PassedOK, KeysOK
  <2>9. CASE RejectShape
    BY <2>1, <2>4, <2>8, <2>9 DEF RejectShape, IInv, ResultOK
  <2>10. CASE RaiseKey
    BY <1>2, <2>1, <2>2, <2>3, <2>4, <2>8, <2>10 DEF RaiseKey, IInv, PassedOK, ResultOK, AtKey
  <2>11. CASE Finish
    <3>1. Passed = DOMAIN doc.keys
      BY <1>2, <2>3, <2>11 DEF Finish, IInv, PassedOK, Passed
    <3> QED BY <2>1, <2>4, <2>8, <2>11, <3>1 DEF Finish, IInv, ResultOK
  <2>12. CASE UNCHANGED vars
    BY <1>2, <2>1, <2>2, <2>4, <2>8, <2>12 DEF vars, IInv, ResultOK
  <2> QED BY <1>2, <2>6, <2>7, <2>9, <2>10, <2>11, <2>12 DEF Next
<1> QED BY <1>1, <1>2, PTL DEF Spec

\* The state keeps its types: the keys are indices of the document, and the
\* constructor raises only what the loop lets through (api_jwk.py:139-157).
THEOREM SetTypes == Spec => []TypeOK
<1>1. ASSUME IInv PROVE TypeOK
  <2>1. keys \in Seq(DOMAIN doc.keys)
    BY <1>1 DEF IInv, PassedOK, KeysOK
  <2> QED BY <1>1, <2>1 DEF IInv, PassedOK, ResultOK, TypeOK
<1> QED BY <1>1, InductiveInvariant, PTL

\* For documents of any length the loop raises SetErrors(doc) or builds
\* UsableKeys(doc) in the order of the document (LoopMeetsReference;
\* api_jwk.py:145-157).
THEOREM LoopIsReference == Spec => []LoopMeetsReference
<1>1. ASSUME IInv PROVE LoopMeetsReference
  <2> SUFFICES ASSUME result # "building"
               PROVE  /\ SetErrors(doc) = IF result = "built" THEN {} ELSE {result}
                      /\ result = "built" =>
                            /\ {keys[i] : i \in DOMAIN keys} = UsableKeys(doc)
                            /\ \A i, j \in DOMAIN keys : i < j => keys[i] < keys[j]
    BY DEF LoopMeetsReference
  <2>1. Len(doc.keys) \in Nat /\ DOMAIN doc.keys = 1..Len(doc.keys)
    BY <1>1, DocumentsAssumption DEF IInv
  <2> DEFINE fatal == {i \in DOMAIN doc.keys : Loads(doc, i) \in Fatal}
  <2>2. \A i \in DOMAIN doc.keys : Loads(doc, i) \in {"ok"} \cup Skipped \cup Fatal
    BY LoadResults DEF Loads
  <2>3. CASE result = "built"
    <3>1. doc.shape = "keys" /\ Passed = DOMAIN doc.keys /\ keys # <<>> /\ fatal = {}
      BY <1>1, <2>3 DEF IInv, PassedOK, ResultOK, Fatal
    <3>2. {keys[i] : i \in DOMAIN keys} = UsableKeys(doc)
      BY <1>1, <3>1 DEF IInv, KeysOK, UsableKeys
    <3>3. \E i \in DOMAIN doc.keys : Loads(doc, i) \notin Skipped
      <4>1. keys[1] \in {keys[i] : i \in DOMAIN keys}
        BY <1>1, <3>1 DEF IInv, KeysOK
      <4> QED BY <3>2, <4>1 DEF UsableKeys, Skipped
    <3>4. SetErrors(doc) = {}
      BY <3>1, <3>3 DEF SetErrors
    <3> QED BY <1>1, <2>3, <3>2, <3>4 DEF IInv, KeysOK
  <2>4. CASE result = "PyJWKSetError" /\ doc.shape # "keys"
    BY <2>4 DEF SetErrors
  <2>5. CASE result = "PyJWKSetError" /\ doc.shape = "keys"
    <3>1. Passed = DOMAIN doc.keys /\ keys = <<>> /\ fatal = {}
      BY <1>1, <2>5 DEF IInv, PassedOK, ResultOK, Fatal
    <3>2. {i \in DOMAIN doc.keys : Loads(doc, i) = "ok"} = {}
      BY <1>1, <3>1 DEF IInv, KeysOK
    <3>3. \A i \in DOMAIN doc.keys : Loads(doc, i) \in Skipped
      BY <2>2, <3>1, <3>2
    <3>4. SetErrors(doc) = {"PyJWKSetError"}
      BY <2>5, <3>1, <3>3 DEF SetErrors
    <3> QED BY <2>5, <3>4
  <2>6. CASE result \in Fatal
    <3>1. doc.shape = "keys" /\ next \in fatal /\ Loads(doc, next) = result
      BY <1>1, <2>6 DEF IInv, ResultOK, Fatal
    <3>2. \A i \in fatal : next <= i
      BY <1>1, <2>1, <3>1 DEF IInv, PassedOK, Passed
    <3>3. {i \in fatal : \A j \in fatal : i <= j} = {next}
      <4>1. \A i \in fatal : (\A j \in fatal : i <= j) => i = next
        BY <2>1, <3>1, <3>2
      <4> HIDE DEF fatal
      <4> QED BY <3>1, <3>2, <4>1
    <3>4. {Loads(doc, i) : i \in {i \in fatal : \A j \in fatal : i <= j}} = {result}
      <4> HIDE DEF fatal
      <4> QED BY <3>1, <3>3
    <3>5. SetErrors(doc) = {result}
      BY <3>1, <3>4 DEF SetErrors
    <3> QED BY <2>6, <3>5 DEF Fatal
  <2> QED BY <1>1, <2>3, <2>4, <2>5, <2>6 DEF IInv, ResultOK
<1> QED BY <1>1, InductiveInvariant, PTL

\* No key that needs the missing package is dropped in silence
\* (NoSilentCryptoLoss; api_jwk.py:149-150).
THEOREM CryptoLossIsLoud == Spec => []NoSilentCryptoLoss
<1>1. ASSUME IInv PROVE NoSilentCryptoLoss
  BY <1>1 DEF IInv, PassedOK, ResultOK, NoSilentCryptoLoss, Fatal
<1> QED BY <1>1, InductiveInvariant, PTL
=============================================================================
