----------------------------- MODULE JwtClaims -----------------------------
(***************************************************************************)
(* The life of a token's claims (jwt/api_jwt.py): encode turns what the    *)
(* issuer asks for into JSON, and decode, called again and again with      *)
(* various options and arguments while time passes, validates it.          *)
(*                                                                         *)
(* Time is counted in ticks, Second of them to a second, so that datetimes *)
(* and the verifier's clock have fractions of a second.  A claim of a      *)
(* payload is known by its type and by its time, or by the names in it.    *)
(* The token's signature is not modelled here: it is taken to be good.     *)
(***************************************************************************)
EXTENDS Integers, Sequences

CONSTANTS
    Second,    \* ticks per second
    MaxTime,   \* bound of the model: the last tick
    Parties,   \* names in aud, iss, sub and jti
    Requests,  \* payloads the program passes to encode
    Foreign,   \* payloads of tokens that other programs have made
    Calls      \* options and arguments of decode

TimeClaims == {"exp", "nbf", "iat"}

NameClaims == {"iss", "aud", "sub", "jti"}

\* "int" and "float" stand for what int() accepts, "word" for strings it refuses
\* (and NaN), "list" for other JSON values; a datetime is only passed to encode.
TimeValue ==
    [type : {"absent", "null", "int", "float", "datetime", "word", "list", "infinite"}, time : Nat]

\* "string" and "list" (of strings) hold names; "empty" is a list without any,
\* "mixed" a list with other values too.
NameValue ==
    {v \in [type : {"absent", "null", "empty", "string", "list", "mixed", "other"},
            names : SUBSET Parties] : v.type = "string" => v.names # {}}

Payload ==
    {p \in [TimeClaims \cup NameClaims -> TimeValue \cup NameValue] :
        /\ \A c \in TimeClaims : p[c] \in TimeValue
        /\ \A c \in NameClaims : p[c] \in NameValue}

\* What json.loads can return.
JsonPayload == {p \in Payload : \A c \in TimeClaims : p[c].type # "datetime"}

\* "bad" is an argument of no accepted type.
Argument == [type : {"none", "string", "set", "bad"}, names : SUBSET Parties]

DecodeCall ==
    [verify : SUBSET (TimeClaims \cup NameClaims), require : SUBSET (TimeClaims \cup NameClaims),
     strict : BOOLEAN, leeway : Nat, audience : Argument, issuer : Argument, subject : Argument]

ASSUME ClaimsAssumption ==
    /\ Second \in Nat \ {0}
    /\ MaxTime \in Nat
    /\ Requests \subseteq Payload
    /\ Foreign \subseteq JsonPayload
    /\ Calls \subseteq DecodeCall

Accepted == "accepted"

\* Subclasses of InvalidTokenError.
TokenErrors ==
    {"MissingRequiredClaimError", "InvalidIssuedAtError", "DecodeError",
     "ImmatureSignatureError", "ExpiredSignatureError", "InvalidIssuerError",
     "InvalidAudienceError", "InvalidSubjectError", "InvalidJTIError"}

VARIABLES
    now,       \* datetime.now(tz=timezone.utc), the clock of all programs
    token,     \* the payload of the token
    \* history variables
    requested, \* the payload as its issuer wrote it
    last,      \* the last decode of the token: its call, time and verdict
    expired    \* the leeways with which it has been refused as expired

vars == <<now, token, requested, last, expired>>

\* The token has not been decoded.
NoDecode == [verdict |-> "none"]

-----------------------------------------------------------------------------
(* encode                                                                  *)

\* A time without its fraction of a second.
Whole(time) == time - (time % Second)

\* timegm(value.utctimetuple())
IntDate(value) ==
    IF value.type = "datetime"
    THEN [type |-> "int", time |-> Whole(value.time)]
    ELSE value

\* Mutant: iat is not converted.
EncodedPayload_ForgetsIat(payload) ==
    [c \in DOMAIN payload |-> IF c \in TimeClaims \ {"iat"} THEN IntDate(payload[c]) ELSE payload[c]]

EncodedPayload(payload) ==
    [c \in DOMAIN payload |-> IF c \in TimeClaims THEN IntDate(payload[c]) ELSE payload[c]]

\* "Issuer (iss) must be a string."
Encodable(payload) == payload["iss"].type \in {"absent", "string"}

-----------------------------------------------------------------------------
(* _validate_claims: every check gives the error it raises, or Accepted.   *)

Present(value) == value.type # "absent"

IsNone(value) == value.type \in {"absent", "null"}

IsNumber(value) == value.type \in {"int", "float"}

\* The int() of a time claim, in ticks.
ToInt(value) == IF value.type = "int" THEN value.time ELSE Whole(value.time)

\* What becomes of a value that int() refuses: only ValueError is caught.
IntError(value, valueError) ==
    CASE value.type = "word"     -> valueError
      [] value.type = "infinite" -> "OverflowError"
      [] OTHER                   -> "TypeError"

CheckAudienceType(call) ==
    IF call.audience.type = "bad" THEN "TypeError" ELSE Accepted

CheckRequired(payload, call) ==
    IF \E c \in call.require : IsNone(payload[c]) THEN "MissingRequiredClaimError" ELSE Accepted

CheckIat(payload, call, time) ==
    IF ~Present(payload["iat"]) \/ "iat" \notin call.verify THEN Accepted
    ELSE IF ~IsNumber(payload["iat"]) THEN IntError(payload["iat"], "InvalidIssuedAtError")
    ELSE IF ToInt(payload["iat"]) > time + call.leeway THEN "ImmatureSignatureError"
    ELSE Accepted

\* Mutant: the leeway is taken off.
CheckNbf_Strict(payload, call, time) ==
    IF ~Present(payload["nbf"]) \/ "nbf" \notin call.verify THEN Accepted
    ELSE IF ~IsNumber(payload["nbf"]) THEN IntError(payload["nbf"], "DecodeError")
    ELSE IF ToInt(payload["nbf"]) > time - call.leeway THEN "ImmatureSignatureError"
    ELSE Accepted

CheckNbf(payload, call, time) ==
    IF ~Present(payload["nbf"]) \/ "nbf" \notin call.verify THEN Accepted
    ELSE IF ~IsNumber(payload["nbf"]) THEN IntError(payload["nbf"], "DecodeError")
    ELSE IF ToInt(payload["nbf"]) > time + call.leeway THEN "ImmatureSignatureError"
    ELSE Accepted

\* Mutant: elif, after nbf.
CheckExp_Elif(payload, call, time) ==
    IF ~Present(payload["exp"]) \/ "exp" \notin call.verify THEN Accepted
    ELSE IF Present(payload["nbf"]) /\ "nbf" \in call.verify THEN Accepted
    ELSE IF ~IsNumber(payload["exp"]) THEN IntError(payload["exp"], "DecodeError")
    ELSE IF ToInt(payload["exp"]) <= time - call.leeway THEN "ExpiredSignatureError"
    ELSE Accepted

\* Mutant: valid at the very instant it expires.
CheckExp_AtExpiry(payload, call, time) ==
    IF ~Present(payload["exp"]) \/ "exp" \notin call.verify THEN Accepted
    ELSE IF ~IsNumber(payload["exp"]) THEN IntError(payload["exp"], "DecodeError")
    ELSE IF ToInt(payload["exp"]) < time - call.leeway THEN "ExpiredSignatureError"
    ELSE Accepted

CheckExp(payload, call, time) ==
    IF ~Present(payload["exp"]) \/ "exp" \notin call.verify THEN Accepted
    ELSE IF ~IsNumber(payload["exp"]) THEN IntError(payload["exp"], "DecodeError")
    ELSE IF ToInt(payload["exp"]) <= time - call.leeway THEN "ExpiredSignatureError"
    ELSE Accepted

CheckIss(payload, call) ==
    IF "iss" \notin call.verify \/ call.issuer.type = "none" THEN Accepted
    ELSE IF ~Present(payload["iss"]) THEN "MissingRequiredClaimError"
    ELSE IF payload["iss"].type # "string" THEN "InvalidIssuerError"
    ELSE IF call.issuer.type = "bad" THEN "InvalidIssuerError"
    ELSE IF payload["iss"].names \subseteq call.issuer.names THEN Accepted
    ELSE "InvalidIssuerError"

\* "aud" not in payload or not payload["aud"]
NoAudience(payload) == payload["aud"].type \in {"absent", "null", "empty"}

\* Mutant: strict mode looks at the shapes only.
StrictAudience_ShapesOnly(payload, call) ==
    call.audience.type = "string" /\ payload["aud"].type = "string"

StrictAudience(payload, call) ==
    /\ call.audience.type = "string"
    /\ payload["aud"].type = "string"
    /\ call.audience.names = payload["aud"].names

ListedAudience(payload, call) ==
    /\ payload["aud"].type \in {"string", "list"}
    /\ call.audience.names \cap payload["aud"].names # {}

CheckAud(payload, call) ==
    LET matches == IF call.audience.type = "none" THEN NoAudience(payload)
                   ELSE IF call.strict THEN StrictAudience(payload, call)
                   ELSE ListedAudience(payload, call)
    IN  IF "aud" \notin call.verify THEN Accepted
        ELSE IF call.audience.type # "none" /\ NoAudience(payload) THEN "MissingRequiredClaimError"
        ELSE IF matches THEN Accepted ELSE "InvalidAudienceError"

CheckSub(payload, call) ==
    IF "sub" \notin call.verify \/ ~Present(payload["sub"]) THEN Accepted
    ELSE IF payload["sub"].type # "string" THEN "InvalidSubjectError"
    ELSE IF call.subject.type = "none" \/ payload["sub"].names = call.subject.names THEN Accepted
    ELSE "InvalidSubjectError"

CheckJti(payload, call) ==
    IF "jti" \in call.verify /\ payload["jti"].type \notin {"absent", "string"}
    THEN "InvalidJTIError" ELSE Accepted

\* In the order of _validate_claims.
Checks(payload, call, time) ==
    <<CheckAudienceType(call), CheckRequired(payload, call),
      CheckIat(payload, call, time), CheckNbf(payload, call, time),
      CheckExp(payload, call, time), CheckIss(payload, call),
      CheckAud(payload, call), CheckSub(payload, call), CheckJti(payload, call)>>

\* The first error, if any.
Verdict(payload, call, time) ==
    LET checks == Checks(payload, call, time)
        failed == {i \in 1..9 : checks[i] # Accepted}
    IN  IF failed = {} THEN Accepted
        ELSE checks[CHOOSE i \in failed : \A j \in failed : i <= j]

-----------------------------------------------------------------------------

Init ==
    /\ now = 0
    /\ requested \in Foreign
    /\ token = requested
    /\ last = NoDecode
    /\ expired = {}

Tick ==
    /\ now < MaxTime
    /\ now' = now + 1
    /\ UNCHANGED <<token, requested, last, expired>>

\* A new token takes the place of the one before.
NewToken(payload, encoded) ==
    /\ requested' = payload
    /\ token' = encoded
    /\ last' = NoDecode
    /\ expired' = {}
    /\ UNCHANGED now

Encode(payload) == Encodable(payload) /\ NewToken(payload, EncodedPayload(payload))

Receive(payload) == NewToken(payload, payload)

Decode(call) ==
    /\ last' = [verdict |-> Verdict(token, call, now), call |-> call, time |-> now]
    /\ expired' = IF last'.verdict = "ExpiredSignatureError"
                  THEN expired \cup {call.leeway} ELSE expired
    /\ UNCHANGED <<now, token, requested>>

Next ==
    \/ Tick
    \/ \E payload \in Requests : Encode(payload)
    \/ \E payload \in Foreign : Receive(payload)
    \/ \E call \in Calls : Decode(call)

Spec == Init /\ [][Next]_vars

-----------------------------------------------------------------------------

TypeOK ==
    /\ now \in Nat
    /\ token \in JsonPayload
    /\ requested \in Requests \cup Foreign
    /\ \/ last = NoDecode
       \/ last \in [verdict : TokenErrors \cup {Accepted, "TypeError", "OverflowError"},
                    call : Calls, time : Nat]
    /\ expired \subseteq {call.leeway : call \in Calls}

Decoded == last.verdict # "none"

Numeric(value) == IsNumber(value) \/ value.type = "datetime"

\* The token's life, from what its issuer asked for to what its verifiers do,
\* to the fraction of a second: it is never accepted from exp + leeway on, only
\* refused as expired during the last second before that, and only refused as
\* immature before nbf or iat - leeway (api_jwt.py:126-129, 465-508).
LifetimeKept ==
    Decoded =>
        LET call == last.call
        IN  /\ (last.verdict = Accepted /\ "exp" \in call.verify /\ Numeric(requested["exp"]))
                  => last.time < requested["exp"].time + call.leeway
            /\ last.verdict = "ExpiredSignatureError"
                  => last.time + Second > requested["exp"].time + call.leeway
            /\ last.verdict = "ImmatureSignatureError"
                  => \E c \in {"nbf", "iat"} : last.time + call.leeway < requested[c].time

\* A token refused as expired is never accepted again by a call that checks exp
\* with no more leeway, whatever its other arguments (api_jwt.py:405-406,
\* 494-508).
ExpiredForGood ==
    (Decoded /\ last.verdict = Accepted /\ "exp" \in last.call.verify)
        => \A leeway \in expired : leeway < last.call.leeway

\* A token is not accepted by a verifier it does not name: it names one of the
\* audiences the call does, if either names any, the issuer, and the subject,
\* of which only the last may be absent (api_jwt.py:430-449, 510-583).
BoundToVerifier ==
    (Decoded /\ last.verdict = Accepted) =>
        LET call == last.call
        IN  /\ "aud" \in call.verify =>
                  \/ call.audience.type = "none" /\ NoAudience(token)
                  \/ call.audience.names \cap token["aud"].names # {}
            /\ ("iss" \in call.verify /\ call.issuer.type # "none") =>
                  call.issuer.names \cap token["iss"].names # {}
            /\ ("sub" \in call.verify /\ call.subject.type # "none") =>
                  ~Present(token["sub"]) \/ token["sub"].names = call.subject.names

\* Both arguments name someone, and v everyone that u does.
Wider(v, u) ==
    /\ {u.type, v.type} \subseteq {"string", "set"}
    /\ u.names \subseteq v.names

\* w asks for no more than c does.
Weaker(w, c) ==
    /\ w.verify \subseteq c.verify
    /\ w.require \subseteq c.require
    /\ w.leeway >= c.leeway
    /\ w.strict => c.strict
    /\ w.audience = c.audience \/ (Wider(w.audience, c.audience) /\ ~w.strict)
    /\ w.issuer = c.issuer \/ w.issuer.type = "none" \/ Wider(w.issuer, c.issuer)
    /\ w.subject = c.subject \/ w.subject.type = "none"

\* Asking for less never turns acceptance into an error: what a call accepts,
\* every weaker one accepts too, unless it is the audience that is left out
\* (api_jwt.py:379-583).
WeakeningAccepts ==
    (Decoded /\ last.verdict = Accepted) =>
        \A w \in Calls : Weaker(w, last.call) => Verdict(token, w, last.time) = Accepted

-----------------------------------------------------------------------------
(* What makes the safety properties inductive.                             *)

\* encode changes nothing but datetimes.
EncodedOK == \A c \in TimeClaims : token[c] \in {requested[c], IntDate(requested[c])}

\* The last verdict is that of the token that is still there.
LastOK ==
    Decoded => /\ last.verdict = Verdict(token, last.call, last.time)
               /\ last.time <= now

\* Where the token was refused as expired it has expired for good.
ExpiredOK ==
    \A leeway \in expired :
        /\ IsNumber(token["exp"])
        /\ ToInt(token["exp"]) <= now - leeway

IInv == TypeOK /\ EncodedOK /\ LastOK /\ ExpiredOK /\ ExpiredForGood

-----------------------------------------------------------------------------
(* What the documentation says and the code does not do.                   *)

\* "Base exception when ``decode()`` fails on a token" (exceptions.py:10, of
\* InvalidTokenError): with proper arguments, decode raises nothing else.
ErrorsAreTokenErrors ==
    (Decoded /\ last.call.audience.type # "bad") => last.verdict \in TokenErrors \cup {Accepted}
=============================================================================
