----------------------------- MODULE JwsPipeline -----------------------------
(***************************************************************************)
(* Encoding and decoding of tokens (jwt/api_jws.py, and the calls of       *)
(* jwt/api_jwt.py around it).                                              *)
(*                                                                         *)
(* A PyJWS object encodes and decodes while the program changes the        *)
(* algorithms it knows.  A call reads the table of handlers once, so calls *)
(* are single steps (AlgorithmRegistry has the steps of the table's own    *)
(* methods).  Between two calls the token may also come from, or be        *)
(* changed by, another program.  Decoding changes no state: Decode is what *)
(* a call gives in the state it is made in, and the properties speak of    *)
(* every call in every state.                                              *)
(*                                                                         *)
(* A token has three segments or is "malformed": too few of them, or one   *)
(* that does not decode.  A header is known by what the code looks at:     *)
(*   alg   an algorithm's name, "absent", or "falsy" ("" or null)          *)
(*   kid   "absent", "string", "other"                                     *)
(*   crit  "absent", "b64" (a list of just that), "bad" (all else)         *)
(*   b64   "absent", "false", "other" (true among them)                    *)
(***************************************************************************)
EXTENDS KeyPreparation

CONSTANTS
    Names,          \* names of algorithms
    Changeable,     \* names the program registers and unregisters
    Handlers,       \* what it registers, known by the names they have at first
    EncodeCalls,    \* arguments of encode
    DecodeCalls,    \* arguments of decode
    ForeignTokens,  \* tokens of other programs
    Payloads,       \* payloads in tokens
    Objects         \* those that are JSON objects

Unset == "unset"  \* the algorithm argument is not given

NoPayload == "empty"  \* b"": what a detached payload leaves in the token

Header ==
    [alg : Names \cup {"absent", "falsy"}, kid : {"absent", "string", "other"},
     crit : {"absent", "b64", "bad"}, b64 : {"absent", "false", "other"}]

EncodeCall ==
    [payload : Payloads, key : KeyArgument, algorithm : Names \cup {Unset, "None"},
     headers : Header, detached : BOOLEAN]

Unspecified == {"None"}  \* algorithms=None

\* allowed: the algorithms argument; detached: the detached_payload argument;
\* verify: the merged option verify_signature; json: it is PyJWT.decode.
DecodeCall ==
    [key : KeyArgument, allowed : SUBSET Names \cup {Unspecified}, verify : BOOLEAN,
     detached : Payloads \cup {"None"}, json : BOOLEAN]

\* What is signed: the texts of the header and of the payload, or the payload
\* itself if it is detached (coded is FALSE).
Input == [header : Header, payload : Payloads, coded : BOOLEAN]

Token(header, payload, sig) ==
    [shape |-> "segments", header |-> header, payload |-> payload, sig |-> sig]

Tokens ==
    [shape : {"segments", "malformed"}, header : Header, payload : Payloads,
     sig : {NoSignature} \cup [scheme : Names, key : Key, input : Input]]

ASSUME PipelineAssumption ==
    /\ DefaultAlgorithms \subseteq Names
    /\ Names \cap {Unset, "None", "absent", "falsy", Missing} = {}
    /\ Changeable \subseteq Names
    /\ Handlers \subseteq DefaultAlgorithms
    /\ "None" \notin Payloads /\ NoPayload \in Payloads \ Objects /\ Objects \subseteq Payloads
    /\ EncodeCalls \subseteq EncodeCall
    /\ DecodeCalls \subseteq DecodeCall
    /\ ForeignTokens \subseteq Tokens

NoHandler == "no handler"

VARIABLES
    algorithms,  \* self._algorithms; a handler is known by its default name
    enforce,     \* self.options["enforce_minimum_key_length"]
    token,       \* the token the program has in hand
    \* history variables
    made         \* the call of encode that made it, and the handler it used

vars == <<algorithms, enforce, token, made>>

NotMade == [made |-> FALSE]

Result(error, header, payload) == [error |-> error, header |-> header, payload |-> payload]

BareHeader == [alg |-> "absent", kid |-> "absent", crit |-> "absent", b64 |-> "absent"]

Refusal(error) == Result(error, BareHeader, NoPayload)

TypeOK ==
    /\ algorithms \in [Names -> DefaultAlgorithms \cup {NoHandler}]
    /\ enforce \in BOOLEAN
    /\ token \in Tokens
    /\ \/ made = NotMade
       \/ made.made /\ made.call \in EncodeCalls /\ made.handler \in DefaultAlgorithms

-----------------------------------------------------------------------------
(* encode                                                                  *)

\* The algorithm to use: that of the header, of the argument, of the PyJWK,
\* or the default of the two ways to give none.
AlgorithmToUse(c) ==
    IF c.headers.alg \notin {"absent", "falsy"} THEN c.headers.alg
    ELSE IF c.algorithm \notin {Unset, "None"} THEN c.algorithm
    ELSE IF c.key.form = "PyJWK" THEN c.key.alg
    ELSE IF c.algorithm = Unset THEN "HS256"
    ELSE "none"

IsDetached(c) == c.detached \/ c.headers.b64 = "false"

\* Mutant: b64 stays in the header as the program gave it.
HeaderOf_KeepsB64(c) ==
    [c.headers EXCEPT !.alg = IF @ = "absent" THEN AlgorithmToUse(c) ELSE @]

\* An alg of the headers is kept as it is; b64 says whether the payload is detached.
HeaderOf(c) ==
    [c.headers EXCEPT
        !.alg = IF @ = "absent" THEN AlgorithmToUse(c) ELSE @,
        !.b64 = IF IsDetached(c) THEN "false" ELSE "absent"]

InputOf(c) == [header |-> HeaderOf(c), payload |-> c.payload, coded |-> ~IsDetached(c)]

\* PyJWK.key: a key object, or the bytes of a secret.
Unwrap(k) ==
    IF k.form = "PyJWK"
    THEN Argument(IF k.key.type = "oct" THEN "secret" ELSE "object", k.key)
    ELSE k

\* "ok", or what encode raises.
EncodeError(c) ==
    LET handler == algorithms[AlgorithmToUse(c)]
    IN  IF c.headers.kid = "other" THEN "InvalidTokenError"
        ELSE IF handler = NoHandler THEN "NotImplementedError"
        ELSE IF PrepareKey(handler, Unwrap(c.key)) # "ok" THEN PrepareKey(handler, Unwrap(c.key))
        ELSE IF enforce /\ TooShort(handler, c.key.key) THEN "InvalidKeyError"
        ELSE SignError(handler, c.key.key)

\* The token that encode returns.
Encoded(c) ==
    Token(HeaderOf(c),
          IF IsDetached(c) THEN NoPayload ELSE c.payload,
          Sign(algorithms[AlgorithmToUse(c)], c.key.key, InputOf(c)))

-----------------------------------------------------------------------------
(* decode_complete                                                         *)

\* _validate_headers: "ok", or what it raises.
HeaderError(header) ==
    IF header.kid = "other" THEN "InvalidTokenError"
    ELSE IF header.crit = "bad" THEN "InvalidTokenError"
    ELSE IF header.crit = "b64" /\ header.b64 = "absent" THEN "InvalidTokenError"
    ELSE "ok"

\* get_unverified_header
UnverifiedHeader(t) ==
    IF t.shape = "malformed" THEN Refusal("DecodeError")
    ELSE IF HeaderError(t.header) # "ok" THEN Refusal(HeaderError(t.header))
    ELSE Result("ok", t.header, NoPayload)

\* Mutant: without algorithms a PyJWK allows any.
Allowed_Any(c) ==
    IF c.allowed = Unspecified /\ c.key.form = "PyJWK" THEN Names ELSE c.allowed

\* Without algorithms a PyJWK allows its own.
Allowed(c) ==
    IF c.allowed = Unspecified /\ c.key.form = "PyJWK" THEN {c.key.alg} ELSE c.allowed

\* The handler that verifies: a PyJWK has its own, whatever the table says.
HandlerFor(c, alg) == IF c.key.form = "PyJWK" THEN c.key.alg ELSE algorithms[alg]

\* The preparation of the key: a PyJWK needs none.
KeyError(c, handler) == IF c.key.form = "PyJWK" THEN "ok" ELSE PrepareKey(handler, c.key)

\* Mutant: the algorithm of a PyJWK needs not be allowed.
AlgorithmError_TrustsJwk(c, alg) ==
    IF alg \in {"absent", "falsy"} THEN "InvalidAlgorithmError"
    ELSE IF c.key.form # "PyJWK" /\ alg \notin Allowed(c) THEN "InvalidAlgorithmError"
    ELSE IF HandlerFor(c, alg) = NoHandler THEN "InvalidAlgorithmError"
    ELSE "ok"

\* Mutant: an allowed algorithm without a handler is not foreseen.
AlgorithmError_NoHandler(c, alg) ==
    IF alg \in {"absent", "falsy"} \/ alg \notin Allowed(c) THEN "InvalidAlgorithmError"
    ELSE IF HandlerFor(c, alg) = NoHandler THEN "NotImplementedError"
    ELSE "ok"

AlgorithmError(c, alg) ==
    IF alg \in {"absent", "falsy"} \/ alg \notin Allowed(c) THEN "InvalidAlgorithmError"
    ELSE IF HandlerFor(c, alg) = NoHandler THEN "InvalidAlgorithmError"
    ELSE "ok"

\* _verify_signature: "ok", or what it raises.
SignatureError(c, t, input) ==
    LET handler == HandlerFor(c, t.header.alg)
    IN  IF AlgorithmError(c, t.header.alg) # "ok" THEN AlgorithmError(c, t.header.alg)
        ELSE IF KeyError(c, handler) # "ok" THEN KeyError(c, handler)
        ELSE IF enforce /\ TooShort(handler, c.key.key) THEN "InvalidKeyError"
        ELSE IF VerifyError(handler, c.key.key) # "ok" THEN VerifyError(handler, c.key.key)
        ELSE IF ~Verifies(handler, c.key.key, input, t.sig) THEN "InvalidSignatureError"
        ELSE "ok"

\* Mutant: the payload is only replaced to verify the signature.
Given_Verified(c, t) ==
    IF c.verify /\ t.header.b64 = "false" THEN c.detached ELSE t.payload

\* The payload that is decoded, and what its signature must be of: b64=false
\* says that the payload is not in the token.
Given(c, t) == IF t.header.b64 = "false" THEN c.detached ELSE t.payload

SignedInput(c, t) ==
    [header |-> t.header, payload |-> Given(c, t), coded |-> t.header.b64 # "false"]

\* PyJWT._decode_payload, after the signature.
PayloadError(c, t) == IF c.json /\ Given(c, t) \notin Objects THEN "DecodeError" ELSE "ok"

Decode(c, t) ==
    IF c.verify /\ c.allowed \in {Unspecified, {}} /\ c.key.form # "PyJWK" THEN Refusal("DecodeError")
    ELSE IF UnverifiedHeader(t).error # "ok" THEN UnverifiedHeader(t)
    ELSE IF Given(c, t) = "None" THEN Refusal("DecodeError")
    ELSE LET error == IF c.verify THEN SignatureError(c, t, SignedInput(c, t)) ELSE "ok"
         IN  IF error # "ok" THEN Refusal(error)
             ELSE IF PayloadError(c, t) # "ok" THEN Refusal(PayloadError(c, t))
             ELSE Result("ok", t.header, Given(c, t))

-----------------------------------------------------------------------------

\* PyJWS(algorithms, options), and a token from elsewhere.
Init ==
    /\ \E whitelist \in {Names, Names \ Changeable} :
          algorithms = [n \in Names |->
                           IF n \in DefaultAlgorithms \cap whitelist THEN n ELSE NoHandler]
    /\ enforce \in BOOLEAN
    /\ token = Token(BareHeader, NoPayload, NoSignature)
    /\ made = NotMade

Register(n, h) ==
    /\ algorithms[n] = NoHandler
    /\ algorithms' = [algorithms EXCEPT ![n] = h]
    /\ UNCHANGED <<enforce, token, made>>

\* Mutant: the entry is emptied, not deleted.
Unregister_LeavesEntry(n) ==
    /\ algorithms[n] # NoHandler
    /\ algorithms' = [algorithms EXCEPT ![n] = Missing]
    /\ UNCHANGED <<enforce, token, made>>

Unregister(n) ==
    /\ algorithms[n] # NoHandler
    /\ algorithms' = [algorithms EXCEPT ![n] = NoHandler]
    /\ UNCHANGED <<enforce, token, made>>

\* encode(payload, key, algorithm, headers); a call that raises changes nothing.
Encode(c) ==
    /\ EncodeError(c) = "ok"
    /\ token' = Encoded(c)
    /\ made' = [made |-> TRUE, call |-> c, handler |-> algorithms[AlgorithmToUse(c)]]
    /\ UNCHANGED <<algorithms, enforce>>

\* The token is replaced by another, or arrives changed.
Receive(t) ==
    /\ token' = t
    /\ made' = NotMade
    /\ UNCHANGED <<algorithms, enforce>>

Next ==
    \/ \E n \in Changeable, h \in Handlers : Register(n, h)
    \/ \E n \in Changeable : Unregister(n)
    \/ \E c \in EncodeCalls : Encode(c)
    \/ \E t \in ForeignTokens : Receive(t)
    \/ \E p \in Objects : Receive([token EXCEPT !.payload = p])
    \/ \E n \in Changeable : Receive([token EXCEPT !.header.alg = n])

Spec == Init /\ [][Next]_vars

-----------------------------------------------------------------------------

\* A decode that verifies accepts a token only if its header names an algorithm
\* the caller allows, and that very header and that very payload, which it
\* returns, were signed with the caller's key: by the handler registered under
\* that name, or, if the key is a PyJWK, by the algorithm of the PyJWK, which is
\* the one the header names if the call gives no algorithms, but otherwise need
\* be neither that nor any the caller allows.  It is never none, and no key is
\* short, if the object refuses those (api_jws.py:233-253, 340-368).
AcceptedAsSigned ==
    \A c \in DecodeCalls :
        LET r == Decode(c, token)
            input == [header  |-> r.header,
                      payload |-> r.payload,
                      coded   |-> r.header.b64 # "false"]
            SignedBy(handler) ==
                /\ handler \notin {"none", NoHandler}
                /\ token.sig = Signature(handler, c.key.key, input)
                /\ enforce => ~TooShort(handler, c.key.key)
        IN  (c.verify /\ r.error = "ok") =>
                IF c.key.form = "PyJWK"
                THEN /\ SignedBy(c.key.alg)
                     /\ r.header.alg \in IF c.allowed = Unspecified THEN {c.key.alg}
                                                                   ELSE c.allowed
                ELSE /\ SignedBy(algorithms[r.header.alg])
                     /\ r.header.alg \in c.allowed

\* Every form in which a program may hold the key that verifies what key signs;
\* a PyJWK only does as long as the handler of alg is the original one.
Verifiers(key, alg, handler) ==
    (IF key.type = "oct" THEN {Argument("secret", key)}
     ELSE {Argument("object", Public(key)), Argument("pem", Public(key))})
        \cup (IF handler = alg /\ key.size # 0 THEN FromKey(Public(key), alg) ELSE {})

\* What encode has made, decode accepts, whatever form the key is in: it
\* returns the payload and the header.  Unless the algorithm is none, or its
\* handler has changed; or the program has put into the headers an empty alg, or
\* a crit that encode does not check (api_jws.py:132-208, 233-259).
RoundTrip ==
    made.made =>
        LET c   == made.call
            alg == AlgorithmToUse(c)
        IN  (/\ algorithms[alg] = made.handler
             /\ made.handler # "none"
             /\ c.headers.alg # "falsy"
             /\ HeaderError(token.header) = "ok")
            => \A k \in Verifiers(c.key.key, alg, made.handler), allowed \in {{alg}, Names} :
                  Decode([key |-> k, allowed |-> allowed, verify |-> TRUE,
                          detached |-> c.payload, json |-> FALSE], token)
                      = Result("ok", token.header, c.payload)

\* A PyJWK, which skips the table of handlers and prepare_key, gives the result
\* its key gives with the PyJWK's algorithm alone allowed, where the handler
\* is the original one and takes the key (api_jws.py:350-358).
JwkPathAgrees ==
    \A c \in DecodeCalls :
        LET alg == c.key.alg
        IN  (/\ c.key.form = "PyJWK" /\ c.allowed \in {Unspecified, {alg}}
             /\ algorithms[alg] = alg
             /\ PrepareKey(alg, Unwrap(c.key)) = "ok")
            => Decode(c, token) = Decode([c EXCEPT !.key = Unwrap(@), !.allowed = {alg}], token)

\* Verification only refuses: what is returned with it is what is returned
\* without it, and the header is the one get_unverified_header, and so the
\* choice of a key by kid, has seen (api_jws.py:240-259, 283-292).
VerificationOnlyRefuses ==
    \A c \in DecodeCalls :
        LET r == Decode(c, token)
        IN  r.error = "ok" =>
                /\ Decode([c EXCEPT !.verify = FALSE], token) = r
                /\ UnverifiedHeader(token).header = r.header

\* Exceptions that are not PyJWTErrors.
Raw == {"TypeError", "ValueError", "AttributeError", "NotImplementedError"}

\* If decode raises something that is not a PyJWTError, the caller's key does not
\* suit an algorithm the caller allows: no token makes a call with a fitting
\* key raise it (api_jws.py:343-368, algorithms.py:421-449, 615-645).
RawErrorsAreTheKeys ==
    \A c \in DecodeCalls :
        Decode(c, token).error \in Raw =>
            \E alg \in Allowed(c) :
                LET handler == HandlerFor(c, alg)
                IN  /\ handler # NoHandler
                    /\ \/ KeyError(c, handler) \in Raw
                       \/ VerifyError(handler, c.key.key) \in Raw
=============================================================================
