------------------------- MODULE JwsPipeline_proofs -------------------------
(***************************************************************************)
(* Theorems about JwsPipeline, for any keys, calls, payloads, tokens and   *)
(* tables of handlers.                                                     *)
(***************************************************************************)
EXTENDS JwsPipeline, TLAPS

USE PipelineAssumption DEF PipelineAssumption, Unset, NoPayload

\* What a decode that succeeds has found out, and what it returns.
LEMMA DecodeSucceeds ==
    ASSUME NEW c, NEW t, Decode(c, t).error = "ok"
    PROVE  /\ Decode(c, t) = Result("ok", t.header, Given(c, t))
           /\ UnverifiedHeader(t) = Result("ok", t.header, NoPayload)
           /\ Given(c, t) # "None"
           /\ PayloadError(c, t) = "ok"
           /\ c.verify => SignatureError(c, t, SignedInput(c, t)) = "ok"
<1>1. \A e : e # "ok" => Refusal(e).error # "ok"
  BY DEF Refusal, Result
<1>2. ~(c.verify /\ c.allowed \in {Unspecified, {}} /\ c.key.form # "PyJWK")
  BY <1>1 DEF Decode
<1>3. UnverifiedHeader(t).error = "ok"
  BY <1>2 DEF Decode
<1>4. Given(c, t) # "None"
  BY <1>1, <1>2, <1>3 DEF Decode
<1> DEFINE error == IF c.verify THEN SignatureError(c, t, SignedInput(c, t)) ELSE "ok"
<1>5. Decode(c, t) =
         IF error # "ok" THEN Refusal(error)
         ELSE IF PayloadError(c, t) # "ok" THEN Refusal(PayloadError(c, t))
         ELSE Result("ok", t.header, Given(c, t))
  BY <1>2, <1>3, <1>4 DEF Decode
<1>6. error = "ok" /\ PayloadError(c, t) = "ok"
  <2> HIDE DEF error
  <2> QED BY <1>1, <1>5
<1>7. UnverifiedHeader(t) = Result("ok", t.header, NoPayload)
  BY <1>1, <1>3 DEF UnverifiedHeader
<1> QED BY <1>4, <1>5, <1>6, <1>7

\* The converse: what a decode needs to succeed.
LEMMA DecodeSucceedsIf ==
    ASSUME NEW c, NEW t,
           ~(c.verify /\ c.allowed \in {Unspecified, {}} /\ c.key.form # "PyJWK"),
           UnverifiedHeader(t).error = "ok",
           Given(c, t) # "None",
           PayloadError(c, t) = "ok",
           c.verify => SignatureError(c, t, SignedInput(c, t)) = "ok"
    PROVE  Decode(c, t) = Result("ok", t.header, Given(c, t))
BY DEF Decode

\* What _verify_signature has found out when it raises nothing.
LEMMA SignatureAccepted ==
    ASSUME NEW c, NEW t, NEW input, SignatureError(c, t, input) = "ok"
    PROVE  /\ t.header.alg \in Allowed(c)
           /\ HandlerFor(c, t.header.alg) # NoHandler
           /\ enforce => ~TooShort(HandlerFor(c, t.header.alg), c.key.key)
           /\ Verifies(HandlerFor(c, t.header.alg), c.key.key, input, t.sig)
<1>1. AlgorithmError(c, t.header.alg) = "ok"
  BY DEF SignatureError
<1>2. t.header.alg \in Allowed(c) /\ HandlerFor(c, t.header.alg) # NoHandler
  BY <1>1 DEF AlgorithmError
<1> DEFINE handler == HandlerFor(c, t.header.alg)
<1>3. /\ KeyError(c, handler) = "ok"
      /\ VerifyError(handler, c.key.key) = "ok"
      /\ ~(enforce /\ TooShort(handler, c.key.key))
      /\ Verifies(handler, c.key.key, input, t.sig)
  BY <1>1 DEF SignatureError
<1> QED BY <1>2, <1>3

\* A decode that verifies returns the header and the payload that were signed
\* with the caller's key, by the handler of the allowed name in the header, or by
\* the PyJWK's own algorithm, whatever algorithms are allowed (AcceptedAsSigned),
\* in every state, hence always (api_jws.py:233-253, 340-368).
THEOREM TokensAreAsSigned == Spec => []AcceptedAsSigned
<1>1. AcceptedAsSigned
  <2> SUFFICES ASSUME NEW c \in DecodeCalls, c.verify, Decode(c, token).error = "ok"
               PROVE  LET r == Decode(c, token)
                          input == [header  |-> r.header,
                                    payload |-> r.payload,
                                    coded   |-> r.header.b64 # "false"]
                          SignedBy(handler) ==
                              /\ handler \notin {"none", NoHandler}
                              /\ token.sig = Signature(handler, c.key.key, input)
                              /\ enforce => ~TooShort(handler, c.key.key)
                      IN  IF c.key.form = "PyJWK"
                          THEN /\ SignedBy(c.key.alg)
                               /\ r.header.alg \in IF c.allowed = Unspecified THEN {c.key.alg}
                                                                             ELSE c.allowed
                          ELSE /\ SignedBy(algorithms[r.header.alg])
                               /\ r.header.alg \in c.allowed
    BY DEF AcceptedAsSigned
  <2>1. /\ Decode(c, token) = Result("ok", token.header, Given(c, token))
        /\ SignatureError(c, token, SignedInput(c, token)) = "ok"
    BY DecodeSucceeds
  <2>2. /\ Decode(c, token).header = token.header
        /\ Decode(c, token).payload = Given(c, token)
    BY <2>1 DEF Result
  <2> DEFINE handler == HandlerFor(c, token.header.alg)
  <2>3. /\ token.header.alg \in Allowed(c)
        /\ handler # NoHandler
        /\ enforce => ~TooShort(handler, c.key.key)
        /\ Verifies(handler, c.key.key, SignedInput(c, token), token.sig)
    BY <2>1, SignatureAccepted
  <2>4. /\ handler # "none"
        /\ token.sig = Signature(handler, c.key.key, SignedInput(c, token))
    BY <2>3 DEF Verifies
  <2>5. CASE c.key.form = "PyJWK"
    <3>1. handler = c.key.alg
      BY <2>5 DEF HandlerFor
    <3>2. Allowed(c) = IF c.allowed = Unspecified THEN {c.key.alg} ELSE c.allowed
      BY <2>5 DEF Allowed
    <3> HIDE DEF handler
    <3> QED BY <2>2, <2>3, <2>4, <2>5, <3>1, <3>2 DEF SignedInput
  <2>6. CASE c.key.form # "PyJWK"
    <3>1. handler = algorithms[token.header.alg]
      BY <2>6 DEF HandlerFor
    <3>2. Allowed(c) = c.allowed
      BY <2>6 DEF Allowed
    <3> HIDE DEF handler
    <3> QED BY <2>2, <2>3, <2>4, <2>6, <3>1, <3>2 DEF SignedInput
  <2> QED BY <2>5, <2>6
<1> QED BY <1>1, PTL DEF Spec

\* What is returned with verification is what is returned without it
\* (VerificationOnlyRefuses; api_jws.py:240-259, 283-292).
THEOREM VerificationChangesNothing == Spec => []VerificationOnlyRefuses
<1>1. VerificationOnlyRefuses
  <2> SUFFICES ASSUME NEW c \in DecodeCalls, Decode(c, token).error = "ok"
               PROVE  /\ Decode([c EXCEPT !.verify = FALSE], token) = Decode(c, token)
                      /\ UnverifiedHeader(token).header = Decode(c, token).header
    BY DEF VerificationOnlyRefuses
  <2> DEFINE d == [c EXCEPT !.verify = FALSE]
  <2>1. ~d.verify /\ d.detached = c.detached /\ d.json = c.json
    BY DEF DecodeCall
  <2>2. Given(d, token) = Given(c, token) /\ PayloadError(d, token) = PayloadError(c, token)
    BY <2>1 DEF Given, PayloadError
  <2>3. /\ Decode(c, token) = Result("ok", token.header, Given(c, token))
        /\ UnverifiedHeader(token) = Result("ok", token.header, NoPayload)
        /\ Given(c, token) # "None"
        /\ PayloadError(c, token) = "ok"
    BY DecodeSucceeds
  <2>4. UnverifiedHeader(token).error = "ok"
    BY <2>3 DEF Result
  <2>5. Decode(d, token) = Result("ok", token.header, Given(d, token))
    <3> HIDE DEF d
    <3> QED BY <2>1, <2>2, <2>3, <2>4, DecodeSucceedsIf
  <2> QED BY <2>2, <2>3, <2>5 DEF Result
<1> QED BY <1>1, PTL DEF Spec

\* The exceptions of the pipeline itself are PyJWTErrors.
LEMMA ForeseenErrors ==
    /\ "ok" \notin Raw /\ "DecodeError" \notin Raw /\ "InvalidTokenError" \notin Raw
    /\ "InvalidAlgorithmError" \notin Raw /\ "InvalidKeyError" \notin Raw
    /\ "InvalidSignatureError" \notin Raw
BY DEF Raw

\* Other exceptions than PyJWTErrors come from a key that does not suit an
\* algorithm the caller allows (RawErrorsAreTheKeys; api_jws.py:343-368).
THEOREM RawErrorsComeFromKeys == Spec => []RawErrorsAreTheKeys
<1>1. RawErrorsAreTheKeys
  <2> SUFFICES ASSUME NEW c \in DecodeCalls, Decode(c, token).error \in Raw
               PROVE  \E alg \in Allowed(c) :
                          /\ HandlerFor(c, alg) # NoHandler
                          /\ \/ KeyError(c, HandlerFor(c, alg)) \in Raw
                             \/ VerifyError(HandlerFor(c, alg), c.key.key) \in Raw
    BY DEF RawErrorsAreTheKeys
  <2>1. \A e : Refusal(e).error = e
    BY DEF Refusal, Result
  <2>2. UnverifiedHeader(token).error \notin Raw
    BY <2>1, ForeseenErrors DEF UnverifiedHeader, HeaderError, Result
  <2>3. PayloadError(c, token) \notin Raw
    BY ForeseenErrors DEF PayloadError
  <2> DEFINE e == SignatureError(c, token, SignedInput(c, token))
             error == IF c.verify THEN e ELSE "ok"
  <2>4. error \in Raw
    <3> DEFINE rest == IF error # "ok" THEN Refusal(error)
                       ELSE IF PayloadError(c, token) # "ok" THEN Refusal(PayloadError(c, token))
                       ELSE Result("ok", token.header, Given(c, token))
    <3>1. Decode(c, token) \in {Refusal("DecodeError"), UnverifiedHeader(token), rest}
      BY DEF Decode
    <3>2. Decode(c, token) = rest
      BY <2>1, <2>2, <3>1, ForeseenErrors
    <3>3. rest.error \in {error, PayloadError(c, token), "ok"}
      <4> HIDE DEF error
      <4> QED BY <2>1 DEF Result
    <3> QED BY <2>3, <3>2, <3>3, ForeseenErrors
  <2>5. e \in Raw
    BY <2>4, ForeseenErrors
  <2> DEFINE handler == HandlerFor(c, token.header.alg)
  <2>6. AlgorithmError(c, token.header.alg) = "ok"
    BY <2>5, ForeseenErrors DEF SignatureError, AlgorithmError
  <2>7. token.header.alg \in Allowed(c) /\ handler # NoHandler
    BY <2>6 DEF AlgorithmError
  <2>8. e \in {KeyError(c, handler), "InvalidKeyError", VerifyError(handler, c.key.key),
              "InvalidSignatureError", "ok"}
    BY <2>6 DEF SignatureError
  <2> QED BY <2>5, <2>7, <2>8, ForeseenErrors
<1> QED BY <1>1, PTL DEF Spec

\* A PyJWK gives the result of its key and its algorithm (JwkPathAgrees;
\* api_jws.py:350-358).
THEOREM JwkPathIsTheKeys == Spec => []JwkPathAgrees
<1>1. JwkPathAgrees
  <2> SUFFICES ASSUME NEW c \in DecodeCalls,
                      c.key.form = "PyJWK", c.allowed \in {Unspecified, {c.key.alg}},
                      algorithms[c.key.alg] = c.key.alg,
                      PrepareKey(c.key.alg, Unwrap(c.key)) = "ok"
               PROVE  Decode(c, token) =
                          Decode([c EXCEPT !.key = Unwrap(@), !.allowed = {c.key.alg}], token)
    BY DEF JwkPathAgrees
  <2> DEFINE alg == c.key.alg
             d == [c EXCEPT !.key = Unwrap(@), !.allowed = {alg}]
  <2>1. c \in DecodeCall
    OBVIOUS
  <2>2. c.key \in KeyArgument /\ alg # Missing
    BY <2>1 DEF DecodeCall, KeyArgument
  <2>3. alg \in DefaultAlgorithms
    BY <2>2 DEF KeyArgument
  <2>4. alg \in Names /\ alg \notin {"None", "absent", "falsy"}
    BY <2>3
  <2>5. /\ d.key = Unwrap(c.key) /\ d.allowed = {alg}
        /\ d.verify = c.verify /\ d.detached = c.detached /\ d.json = c.json
    BY <2>1 DEF DecodeCall
  <2>6. d.key.form # "PyJWK" /\ d.key.key = c.key.key
    BY <2>5 DEF Unwrap, Argument
  <2>7. Allowed(c) = {alg} /\ Allowed(d) = {alg}
    <3> HIDE DEF d
    <3> QED BY <2>4, <2>5, <2>6 DEF Allowed, Unspecified
  <2>8. /\ Given(d, token) = Given(c, token)
        /\ PayloadError(d, token) = PayloadError(c, token)
        /\ SignedInput(d, token) = SignedInput(c, token)
    <3> HIDE DEF d
    <3> QED BY <2>5 DEF Given, PayloadError, SignedInput
  <2>9. \A input : SignatureError(d, token, input) = SignatureError(c, token, input)
    <3> TAKE input
    <3>1. CASE token.header.alg = alg
      <4>1. HandlerFor(c, alg) = alg /\ HandlerFor(d, alg) = alg
        <5> HIDE DEF d
        <5> QED BY <2>6 DEF HandlerFor
      <4>2. KeyError(c, alg) = "ok" /\ KeyError(d, alg) = "ok"
        <5> HIDE DEF d
        <5> QED BY <2>5, <2>6 DEF KeyError
      <4>3. AlgorithmError(c, alg) = AlgorithmError(d, alg)
        <5> HIDE DEF d
        <5> QED BY <4>1, <2>7 DEF AlgorithmError
      <4> HIDE DEF d
      <4> QED BY <3>1, <4>1, <4>2, <4>3, <2>6 DEF SignatureError
    <3>2. CASE token.header.alg # alg
      <4> DEFINE a == token.header.alg
      <4>1. AlgorithmError(c, a) = "InvalidAlgorithmError" /\ AlgorithmError(d, a) = "InvalidAlgorithmError"
        <5> HIDE DEF d
        <5> QED BY <3>2, <2>7 DEF AlgorithmError
      <4> HIDE DEF d
      <4> QED BY <4>1 DEF SignatureError
    <3> QED BY <3>1, <3>2
  <2>10. d.allowed \notin {Unspecified, {}}
    BY <2>4, <2>5 DEF Unspecified
  <2> HIDE DEF d
  <2>11. Decode(c, token) = Decode(d, token)
    BY <2>5, <2>6, <2>8, <2>9, <2>10 DEF Decode
  <2> QED BY <2>11 DEF d
<1> QED BY <1>1, PTL DEF Spec

-----------------------------------------------------------------------------

\* What encode takes from its arguments has the types it should have.
LEMMA EncodedTypes ==
    ASSUME NEW c \in EncodeCalls, TypeOK,
           algorithms[AlgorithmToUse(c)] # NoHandler
    PROVE  /\ AlgorithmToUse(c) \in Names
           /\ algorithms[AlgorithmToUse(c)] \in DefaultAlgorithms
           /\ HeaderOf(c) \in Header
           /\ Encoded(c) \in Tokens
<1>1. c \in EncodeCall
  OBVIOUS
<1>2. c.key \in KeyArgument /\ c.headers \in Header /\ c.payload \in Payloads
  BY <1>1 DEF EncodeCall
<1>3. c.key.key \in Key /\ (c.key.form = "PyJWK" => c.key.alg \in DefaultAlgorithms)
  BY <1>2 DEF KeyArgument
<1>4. {"none", "HS256"} \subseteq Names
  BY DEF DefaultAlgorithms
<1>5. AlgorithmToUse(c) \in Names
  BY <1>1, <1>2, <1>3, <1>4 DEF AlgorithmToUse, EncodeCall, Header
<1>6. algorithms[AlgorithmToUse(c)] \in DefaultAlgorithms
  BY <1>5 DEF TypeOK
<1>7. HeaderOf(c) \in Header
  BY <1>2, <1>5 DEF HeaderOf, Header
<1>8. InputOf(c) \in Input
  BY <1>2, <1>7 DEF InputOf, Input, IsDetached
<1> DEFINE handler == algorithms[AlgorithmToUse(c)]
<1>9. Scheme(handler) \in Names
  BY <1>6 DEF Scheme, DefaultAlgorithms, AsymmetricAlgorithms
<1>10. Public(c.key.key) \in Key
  BY <1>3 DEF Public, Key
<1>11. Sign(handler, c.key.key, InputOf(c)) \in
          {NoSignature} \cup [scheme : Names, key : Key, input : Input]
  <2> HIDE DEF handler
  <2> QED BY <1>8, <1>9, <1>10 DEF Sign, Signature
<1>12. Encoded(c) \in Tokens
  <2> DEFINE p == IF IsDetached(c) THEN NoPayload ELSE c.payload
             s == Sign(handler, c.key.key, InputOf(c))
  <2>1. p \in Payloads
    BY <1>2
  <2>2. Encoded(c) = Token(HeaderOf(c), p, s)
    BY DEF Encoded
  <2> HIDE DEF p, s
  <2> QED BY <1>7, <1>11, <2>1, <2>2 DEF Token, Tokens, s
<1> QED BY <1>5, <1>6, <1>7, <1>12

\* Handlers, tokens and the record of what was made keep their types
\* (api_jws.py:36-89, 120-208).
THEOREM PipelineTypes == Spec => []TypeOK
<1>1. ASSUME Init PROVE TypeOK
  <2>1. BareHeader \in Header
    BY DEF BareHeader, Header
  <2>2. token \in Tokens
    BY <1>1, <2>1 DEF Init, Token, Tokens
  <2> QED BY <1>1, <2>2 DEF Init, TypeOK
<1>2. ASSUME TypeOK, [Next]_vars PROVE TypeOK'
  <2>1. ASSUME NEW n \in Changeable, NEW h \in Handlers, Register(n, h) PROVE TypeOK'
    BY <1>2, <2>1 DEF Register, TypeOK
  <2>2. ASSUME NEW n \in Changeable, Unregister(n) PROVE TypeOK'
    BY <1>2, <2>2 DEF Unregister, TypeOK
  <2>3. ASSUME NEW c \in EncodeCalls, Encode(c) PROVE TypeOK'
    <3>1. algorithms[AlgorithmToUse(c)] # NoHandler
      BY <2>3 DEF Encode, EncodeError
    <3>2. Encoded(c) \in Tokens /\ algorithms[AlgorithmToUse(c)] \in DefaultAlgorithms
      BY <1>2, <3>1, EncodedTypes
    <3> QED BY <1>2, <2>3, <3>2 DEF Encode, TypeOK
  <2>4. ASSUME NEW t \in Tokens, Receive(t) PROVE TypeOK'
    BY <1>2, <2>4 DEF Receive, TypeOK
  <2>5. ASSUME NEW p \in Objects PROVE [token EXCEPT !.payload = p] \in Tokens
    BY <1>2 DEF TypeOK, Tokens
  <2>6. ASSUME NEW n \in Changeable PROVE [token EXCEPT !.header.alg = n] \in Tokens
    <3>1. token.header \in Header
      BY <1>2 DEF TypeOK, Tokens
    <3>2. [token.header EXCEPT !.alg = n] \in Header
      BY <3>1 DEF Header
    <3> QED BY <1>2, <3>2 DEF TypeOK, Tokens
  <2>7. CASE UNCHANGED vars
    BY <1>2, <2>7 DEF vars, TypeOK
  <2> QED BY <1>2, <2>1, <2>2, <2>3, <2>4, <2>5, <2>6, <2>7 DEF Next
<1> QED BY <1>1, <1>2, PTL DEF Spec

-----------------------------------------------------------------------------
(* Round trips.  What encode has checked of a call is remembered with the  *)
(* token it made, whatever happens to the table of handlers since.         *)

MadeOK ==
    made.made =>
        LET c == made.call
            handler == made.handler
        IN  /\ token = Token(HeaderOf(c),
                             IF IsDetached(c) THEN NoPayload ELSE c.payload,
                             Sign(handler, c.key.key, InputOf(c)))
            /\ PrepareKey(handler, Unwrap(c.key)) = "ok"
            /\ ~(enforce /\ TooShort(handler, c.key.key))
            /\ SignError(handler, c.key.key) = "ok"

LEMMA MadeOKHolds == Spec => []MadeOK
<1>1. ASSUME Init PROVE MadeOK
  BY <1>1 DEF Init, MadeOK, NotMade
<1>2. ASSUME MadeOK, [Next]_vars PROVE MadeOK'
  <2>1. ASSUME NEW n \in Changeable, NEW h \in Handlers, Register(n, h) PROVE MadeOK'
    BY <1>2, <2>1 DEF Register, MadeOK
  <2>2. ASSUME NEW n \in Changeable, Unregister(n) PROVE MadeOK'
    BY <1>2, <2>2 DEF Unregister, MadeOK
  <2>3. ASSUME NEW c \in EncodeCalls, Encode(c) PROVE MadeOK'
    <3> DEFINE handler == algorithms[AlgorithmToUse(c)]
    <3>1. made'.made /\ made'.call = c /\ made'.handler = handler /\ enforce' = enforce
      BY <2>3 DEF Encode
    <3>2. token' = Token(HeaderOf(c),
                         IF IsDetached(c) THEN NoPayload ELSE c.payload,
                         Sign(handler, c.key.key, InputOf(c)))
      BY <2>3 DEF Encode, Encoded
    <3>3. /\ PrepareKey(handler, Unwrap(c.key)) = "ok"
          /\ ~(enforce /\ TooShort(handler, c.key.key))
          /\ SignError(handler, c.key.key) = "ok"
      <4>1. EncodeError(c) = "ok"
        BY <2>3 DEF Encode
      <4> QED BY <4>1 DEF EncodeError
    <3> HIDE DEF handler
    <3> QED BY <3>1, <3>2, <3>3 DEF MadeOK
  <2>4. ASSUME NEW t, Receive(t) PROVE MadeOK'
    BY <2>4 DEF Receive, MadeOK, NotMade
  <2>5. CASE UNCHANGED vars
    BY <1>2, <2>5 DEF vars, MadeOK
  <2> QED BY <1>2, <2>1, <2>2, <2>3, <2>4, <2>5 DEF Next
<1> QED BY <1>1, <1>2, PTL DEF Spec

\* A key that an algorithm takes to sign is one that it takes to verify, as text
\* or as an object, in either half.
LEMMA VerifierIsPrepared ==
    ASSUME NEW handler \in DefaultAlgorithms \ {"none"}, NEW k \in KeyArgument,
           PrepareKey(handler, Unwrap(k)) = "ok",
           NEW v \in IF k.key.type = "oct" THEN {Argument("secret", k.key)}
                     ELSE {Argument("object", Public(k.key)), Argument("pem", Public(k.key))}
    PROVE  PrepareKey(handler, v) = "ok"
<1> DEFINE u == Unwrap(k)
<1>1. k.key \in Key
  <2>1. k \in [form : KeyForms, key : Key, alg : DefaultAlgorithms \cup {Missing}]
    BY DEF KeyArgument
  <2> QED BY <2>1
<1>2. u.key = k.key
  BY DEF Unwrap, Argument
<1>3. u.form = "secret" => k.key.type = "oct"
  BY DEF Unwrap, Argument, KeyArgument
<1>4. u.form \in {"object", "pem", "ssh"} => k.key.type # "oct"
  BY DEF Unwrap, Argument, KeyArgument
<1>5. \/ v.form \in {"object", "pem"} /\ v.key.type = k.key.type
      \/ v.form = "secret" /\ k.key.type = "oct"
  <2>1. Public(k.key).type = k.key.type
    BY <1>1 DEF Public, Key
  <2>2. CASE k.key.type = "oct"
    BY <2>2 DEF Argument
  <2>3. CASE k.key.type # "oct"
    <3>1. v \in {Argument("object", Public(k.key)), Argument("pem", Public(k.key))}
      BY <2>3
    <3>2. v.form \in {"object", "pem"} /\ v.key = Public(k.key)
      BY <3>1 DEF Argument
    <3> QED BY <2>1, <3>2
  <2> QED BY <2>2, <2>3
<1>6. Family(handler) \in {"oct", "RSA", "EC", "OKP"}
  BY DEF Family, DefaultAlgorithms, AsymmetricAlgorithms
<1> HIDE DEF u
<1>7. CASE Family(handler) = "oct"
  <2>1. PrepareHmac(u) = "ok"
    BY <1>7 DEF PrepareKey, u
  <2>2. u.form = "secret"
    BY <2>1 DEF PrepareHmac
  <2>3. v.form = "secret"
    BY <2>2, <1>3 DEF Argument
  <2> QED BY <1>7, <2>3 DEF PrepareKey, PrepareHmac
<1>8. ASSUME NEW family, IsKeyOf(u, family) PROVE IsKeyOf(v, family)
  BY <1>2, <1>4, <1>5, <1>8 DEF IsKeyOf
<1>9. CASE Family(handler) = "RSA"
  <2>1. PrepareRsa(u) = "ok"
    BY <1>9 DEF PrepareKey, u
  <2>2. IsKeyOf(u, "RSA")
    BY <2>1 DEF PrepareRsa
  <2> QED BY <1>8, <1>9, <2>2 DEF PrepareKey, PrepareRsa
<1>10. CASE Family(handler) = "EC"
  <2>1. PrepareEc(handler, u) = "ok"
    BY <1>10 DEF PrepareKey, u
  <2>2. IsKeyOf(u, "EC") /\ u.key.type = ExpectedCurve(handler)
    BY <2>1 DEF PrepareEc
  <2>3. IsKeyOf(v, "EC") /\ v.key.type = ExpectedCurve(handler)
    BY <1>2, <1>4, <1>5, <1>8, <2>2 DEF IsKeyOf
  <2>4. PrepareEc(handler, v) = "ok"
    BY <2>3 DEF PrepareEc
  <2> QED BY <1>10, <2>4 DEF PrepareKey
<1>11. CASE Family(handler) = "OKP"
  <2>1. PrepareOkp(u) = "ok"
    BY <1>11 DEF PrepareKey, u
  <2>2. IsKeyOf(u, "OKP")
    BY <2>1 DEF PrepareOkp
  <2> QED BY <1>8, <1>11, <2>2 DEF PrepareKey, PrepareOkp
<1> QED BY <1>6, <1>7, <1>9, <1>10, <1>11

\* The PyJWK a key's to_jwk loads as, if any, is for the algorithm asked for.
LEMMA FromKeyIs ==
    ASSUME NEW key, NEW alg \in Names, NEW v \in FromKey(key, alg)
    PROVE  v.form = "PyJWK" /\ v.key = key /\ v.alg = alg
<1>1. v = [form |-> "PyJWK", key |-> key, alg |-> AlgorithmFor(ToJwk(key), alg)]
  BY DEF FromKey
<1>2. AlgorithmFor(ToJwk(key), alg) = alg
  BY DEF AlgorithmFor
<1> QED BY <1>1, <1>2

\* What encode has made, decode accepts, whatever form the key is in
\* (RoundTrip; api_jws.py:132-208, 233-259).
THEOREM TokensRoundTrip == Spec => []RoundTrip
<1>1. ASSUME TypeOK, MadeOK PROVE RoundTrip
  <2> DEFINE c == made.call
             alg == AlgorithmToUse(c)
             h == made.handler
  <2> SUFFICES ASSUME made.made,
                      algorithms[alg] = h, h # "none", c.headers.alg # "falsy",
                      HeaderError(token.header) = "ok",
                      NEW v \in Verifiers(c.key.key, alg, h), NEW allowed \in {{alg}, Names}
               PROVE  Decode([key |-> v, allowed |-> allowed, verify |-> TRUE,
                              detached |-> c.payload, json |-> FALSE], token)
                          = Result("ok", token.header, c.payload)
    BY DEF RoundTrip
  <2> DEFINE d == [key |-> v, allowed |-> allowed, verify |-> TRUE,
                   detached |-> c.payload, json |-> FALSE]
  <2>1. c \in EncodeCalls /\ h \in DefaultAlgorithms \ {"none"}
    BY <1>1 DEF TypeOK, NotMade
  <2>2. h # NoHandler /\ alg \in Names /\ alg \notin {"None", "absent", "falsy"}
    <3>1. h # NoHandler
      BY <2>1 DEF NoHandler, DefaultAlgorithms, AsymmetricAlgorithms
    <3>2. alg \in Names
      BY <1>1, <2>1, <3>1, EncodedTypes
    <3> QED BY <3>1, <3>2
  <2>3. c.key \in KeyArgument /\ c.headers \in Header /\ c.payload \in Payloads
    BY <2>1 DEF EncodeCall
  <2>4. /\ token = Token(HeaderOf(c),
                         IF IsDetached(c) THEN NoPayload ELSE c.payload,
                         Sign(h, c.key.key, InputOf(c)))
        /\ PrepareKey(h, Unwrap(c.key)) = "ok"
        /\ ~(enforce /\ TooShort(h, c.key.key))
    BY <1>1 DEF MadeOK
  <2>5. /\ token.header = HeaderOf(c) /\ token.shape = "segments"
        /\ token.payload = IF IsDetached(c) THEN NoPayload ELSE c.payload
        /\ token.sig = Signature(h, c.key.key, InputOf(c))
    BY <2>1, <2>4 DEF Token, Sign
  <2>6. token.header.alg = alg /\ (token.header.b64 = "false" <=> IsDetached(c))
    BY <2>3, <2>5 DEF HeaderOf, Header, AlgorithmToUse
  <2>7. Given(d, token) = c.payload /\ SignedInput(d, token) = InputOf(c)
    BY <2>5, <2>6 DEF Given, SignedInput, InputOf
  <2>8. c.key.key \in Key
    BY <2>3 DEF KeyArgument
  <2>9. /\ Public(Public(c.key.key)) = Public(c.key.key)
        /\ ~Public(c.key.key).private
        /\ Public(c.key.key).size = c.key.key.size
    BY <2>8 DEF Public, Key
  <2>10. d.key = v /\ d.verify /\ d.allowed = allowed /\ ~d.json
    OBVIOUS
  <2> HIDE DEF d, c, h, alg
  \* v is text or a key object, or a PyJWK.
  <2> DEFINE Plain == IF c.key.key.type = "oct" THEN {Argument("secret", c.key.key)}
                      ELSE {Argument("object", Public(c.key.key)), Argument("pem", Public(c.key.key))}
  <2>11. \/ v \in Plain
         \/ h = alg /\ v \in FromKey(Public(c.key.key), alg)
    BY DEF Verifiers
  <2>12. /\ v.key.size = c.key.key.size
         /\ Public(v.key) = Public(c.key.key)
         /\ HandlerFor(d, alg) = h
         /\ KeyError(d, h) = "ok"
         /\ VerifyError(h, v.key) = "ok"
    <3>1. CASE v \in Plain
      <4>1. PrepareKey(h, v) = "ok"
        BY <2>1, <2>3, <2>4, <3>1, VerifierIsPrepared
      <4>2. \/ v.form = "secret" /\ v.key = c.key.key
            \/ v.form \in {"object", "pem"} /\ v.key = Public(c.key.key)
        BY <3>1 DEF Argument
      <4>3. Family(h) = "RSA" => v.form # "secret"
        BY <2>1, <4>1 DEF PrepareKey, PrepareRsa, IsKeyOf, NotLoadable
      <4>4. VerifyError(h, v.key) = "ok"
        BY <2>9, <4>2, <4>3 DEF VerifyError
      <4> QED BY <2>9, <2>10, <4>1, <4>2, <4>4 DEF HandlerFor, KeyError
    <3>2. CASE h = alg /\ v \in FromKey(Public(c.key.key), alg)
      <4>1. v.form = "PyJWK" /\ v.key = Public(c.key.key) /\ v.alg = h
        BY <2>2, <3>2, FromKeyIs
      <4> QED BY <2>9, <2>10, <4>1 DEF HandlerFor, KeyError, VerifyError
    <3> QED BY <2>11, <3>1, <3>2
  <2>13. Allowed(d) = allowed /\ alg \in allowed /\ allowed \notin {Unspecified, {}}
    BY <2>2, <2>10 DEF Allowed, Unspecified
  <2>14. AlgorithmError(d, alg) = "ok"
    BY <2>2, <2>12, <2>13 DEF AlgorithmError
  <2>15. ~(enforce /\ TooShort(h, v.key))
    BY <2>4, <2>12 DEF TooShort
  <2>16. Verifies(h, v.key, InputOf(c), token.sig)
    BY <2>1, <2>5, <2>12 DEF Verifies, Signature
  <2>17. SignatureError(d, token, SignedInput(d, token)) = "ok"
    BY <2>6, <2>7, <2>10, <2>12, <2>14, <2>15, <2>16 DEF SignatureError
  <2>18. UnverifiedHeader(token).error = "ok"
    BY <2>5 DEF UnverifiedHeader, Result
  <2>19. Given(d, token) # "None" /\ PayloadError(d, token) = "ok"
    BY <2>3, <2>7, <2>10 DEF PayloadError
  <2>20. Decode(d, token) = Result("ok", token.header, Given(d, token))
    BY <2>10, <2>13, <2>17, <2>18, <2>19, DecodeSucceedsIf
  <2> QED BY <2>7, <2>20 DEF d, c
<1> QED BY <1>1, PipelineTypes, MadeOKHolds, PTL
=============================================================================
