-------------------------- MODULE JwtClaims_proofs --------------------------
(***************************************************************************)
(* Theorems about JwtClaims, for every set of payloads and calls and every *)
(* resolution of the clock.                                                *)
(***************************************************************************)
EXTENDS JwtClaims, TLAPS

-----------------------------------------------------------------------------
(* The verdict and the checks.                                             *)

\* A nonempty subset of 1..9 has a least element.
LEMMA Least ==
    ASSUME NEW S \in SUBSET (1..9), S # {}
    PROVE  (CHOOSE i \in S : \A j \in S : i <= j) \in S
<1>1. \E i \in S : \A j \in S : i <= j
  <2>1. ASSUME \A i \in S : \E j \in S : j < i PROVE FALSE
    <3>1. 1 \notin S
      BY <2>1
    <3>2. 2 \notin S
      BY <2>1, <3>1
    <3>3. 3 \notin S
      BY <2>1, <3>1, <3>2
    <3>4. 4 \notin S
      BY <2>1, <3>1, <3>2, <3>3
    <3>5. 5 \notin S
      BY <2>1, <3>1, <3>2, <3>3, <3>4
    <3>6. 6 \notin S
      BY <2>1, <3>1, <3>2, <3>3, <3>4, <3>5
    <3>7. 7 \notin S
      BY <2>1, <3>1, <3>2, <3>3, <3>4, <3>5, <3>6
    <3>8. 8 \notin S
      BY <2>1, <3>1, <3>2, <3>3, <3>4, <3>5, <3>6, <3>7
    <3>9. 9 \notin S
      BY <2>1, <3>1, <3>2, <3>3, <3>4, <3>5, <3>6, <3>7, <3>8
    <3>10. \A i \in 1..9 : i \in {1, 2, 3, 4, 5, 6, 7, 8, 9}
      OBVIOUS
    <3> QED BY <3>1, <3>2, <3>3, <3>4, <3>5, <3>6, <3>7, <3>8, <3>9, <3>10
  <2> QED BY <2>1
<1> QED BY <1>1

\* A call accepts a token exactly if every check does.
LEMMA AcceptedIff ==
    ASSUME NEW payload, NEW call, NEW time
    PROVE  Verdict(payload, call, time) = Accepted
               <=> /\ CheckAudienceType(call) = Accepted
                   /\ CheckRequired(payload, call) = Accepted
                   /\ CheckIat(payload, call, time) = Accepted
                   /\ CheckNbf(payload, call, time) = Accepted
                   /\ CheckExp(payload, call, time) = Accepted
                   /\ CheckIss(payload, call) = Accepted
                   /\ CheckAud(payload, call) = Accepted
                   /\ CheckSub(payload, call) = Accepted
                   /\ CheckJti(payload, call) = Accepted
<1> DEFINE checks == Checks(payload, call, time)
           failed == {i \in 1..9 : checks[i] # Accepted}
<1>1. Verdict(payload, call, time) = Accepted <=> failed = {}
  <2>1. failed # {} => checks[CHOOSE i \in failed : \A j \in failed : i <= j] # Accepted
    <3> HIDE DEF checks
    <3> QED BY Least
  <2> QED BY <2>1 DEF Verdict
<1>2. failed = {} <=> \A i \in 1..9 : checks[i] = Accepted
  OBVIOUS
<1>3. /\ checks[1] = CheckAudienceType(call)
      /\ checks[2] = CheckRequired(payload, call)
      /\ checks[3] = CheckIat(payload, call, time)
      /\ checks[4] = CheckNbf(payload, call, time)
      /\ checks[5] = CheckExp(payload, call, time)
      /\ checks[6] = CheckIss(payload, call)
      /\ checks[7] = CheckAud(payload, call)
      /\ checks[8] = CheckSub(payload, call)
      /\ checks[9] = CheckJti(payload, call)
  BY DEF Checks
<1> HIDE DEF checks
<1>4. (\A i \in 1..9 : checks[i] = Accepted)
         <=> /\ checks[1] = Accepted /\ checks[2] = Accepted /\ checks[3] = Accepted
             /\ checks[4] = Accepted /\ checks[5] = Accepted /\ checks[6] = Accepted
             /\ checks[7] = Accepted /\ checks[8] = Accepted /\ checks[9] = Accepted
  <2>1. \A i \in 1..9 : i \in {1, 2, 3, 4, 5, 6, 7, 8, 9}
    OBVIOUS
  <2> QED BY <2>1
<1> QED BY <1>1, <1>2, <1>3, <1>4

\* A verdict is that of one of the checks.
LEMMA VerdictIsACheck ==
    ASSUME NEW payload, NEW call, NEW time
    PROVE  LET v == Verdict(payload, call, time)
           IN  \/ v = Accepted
               \/ v = CheckAudienceType(call) \/ v = CheckRequired(payload, call)
               \/ v = CheckIat(payload, call, time) \/ v = CheckNbf(payload, call, time)
               \/ v = CheckExp(payload, call, time) \/ v = CheckIss(payload, call)
               \/ v = CheckAud(payload, call) \/ v = CheckSub(payload, call)
               \/ v = CheckJti(payload, call)
<1> DEFINE checks == Checks(payload, call, time)
           failed == {i \in 1..9 : checks[i] # Accepted}
<1>1. Verdict(payload, call, time) = Accepted
        \/ \E i \in 1..9 : Verdict(payload, call, time) = checks[i]
  <2>1. failed # {} => (CHOOSE i \in failed : \A j \in failed : i <= j) \in 1..9
    <3> HIDE DEF checks
    <3> QED BY Least
  <2> QED BY <2>1 DEF Verdict
<1>2. \A i \in 1..9 : i \in {1, 2, 3, 4, 5, 6, 7, 8, 9}
  OBVIOUS
<1> QED BY <1>1, <1>2 DEF Checks

\* When the checks of the times refuse, and when they do not.
LEMMA ExpiredFacts ==
    ASSUME NEW payload, NEW call, NEW time
    PROVE  /\ Verdict(payload, call, time) = "ExpiredSignatureError" =>
                 /\ IsNumber(payload["exp"])
                 /\ ToInt(payload["exp"]) <= time - call.leeway
           /\ Verdict(payload, call, time) = Accepted /\ "exp" \in call.verify =>
                 \/ ~Present(payload["exp"])
                 \/ /\ IsNumber(payload["exp"])
                    /\ ~(ToInt(payload["exp"]) <= time - call.leeway)
<1>1. CheckExp(payload, call, time) = "ExpiredSignatureError" =>
        /\ IsNumber(payload["exp"])
        /\ ToInt(payload["exp"]) <= time - call.leeway
  BY DEF CheckExp, IntError, Accepted
<1>2. Verdict(payload, call, time) = "ExpiredSignatureError" =>
        CheckExp(payload, call, time) = "ExpiredSignatureError"
  BY VerdictIsACheck
  DEF Accepted, CheckAudienceType, CheckRequired, CheckIat, CheckNbf, CheckIss, CheckAud,
      CheckSub, CheckJti, IntError
<1>3. Verdict(payload, call, time) = Accepted => CheckExp(payload, call, time) = Accepted
  BY AcceptedIff
<1>4. CheckExp(payload, call, time) = Accepted /\ "exp" \in call.verify =>
        \/ ~Present(payload["exp"])
        \/ /\ IsNumber(payload["exp"])
           /\ ~(ToInt(payload["exp"]) <= time - call.leeway)
  BY DEF CheckExp, IntError, Accepted
<1> QED BY <1>1, <1>2, <1>3, <1>4

\* Only a time claim above the clock makes a token immature.
LEMMA ImmatureFacts ==
    ASSUME NEW payload, NEW call, NEW time,
           Verdict(payload, call, time) = "ImmatureSignatureError"
    PROVE  \E c \in {"nbf", "iat"} :
               /\ IsNumber(payload[c])
               /\ ToInt(payload[c]) > time + call.leeway
<1>1. \/ CheckIat(payload, call, time) = "ImmatureSignatureError"
      \/ CheckNbf(payload, call, time) = "ImmatureSignatureError"
  BY VerdictIsACheck
  DEF Accepted, CheckAudienceType, CheckRequired, CheckExp, CheckIss, CheckAud,
      CheckSub, CheckJti, IntError
<1>2. CASE CheckIat(payload, call, time) = "ImmatureSignatureError"
  BY <1>2 DEF CheckIat, IntError, Accepted
<1>3. CASE CheckNbf(payload, call, time) = "ImmatureSignatureError"
  BY <1>3 DEF CheckNbf, IntError, Accepted
<1> QED BY <1>1, <1>2, <1>3

-----------------------------------------------------------------------------
(* Times in whole seconds.                                                 *)

\* Dropping the fraction of a second makes a time earlier, by less than one.
LEMMA Truncation ==
    ASSUME NEW t \in Nat
    PROVE  /\ Whole(t) \in Nat
           /\ Whole(t) <= t
           /\ t < Whole(t) + Second
<1>1. Second \in Nat /\ Second > 0
  BY ClaimsAssumption
<1>2. t % Second \in Nat /\ t % Second < Second
  BY <1>1
<1>3. t % Second <= t
  <2>1. CASE t < Second
    BY <1>1, <2>1
  <2>2. CASE Second <= t
    BY <1>1, <1>2, <2>2
  <2> QED BY <1>1, <2>1, <2>2
<1> DEFINE r == t % Second
<1>4. r \in Nat /\ r < Second /\ r <= t
  BY <1>2, <1>3
<1> HIDE DEF r
<1>5. t - r \in Nat /\ t - r <= t /\ t < (t - r) + Second
  BY <1>1, <1>4
<1> QED BY <1>5 DEF r, Whole

-----------------------------------------------------------------------------
(* The inductive invariant.                                                *)

\* What a payload is made of.
LEMMA PayloadFacts ==
    ASSUME NEW p \in Payload
    PROVE  /\ DOMAIN p = TimeClaims \cup NameClaims
           /\ \A c \in TimeClaims : p[c] \in TimeValue /\ p[c].time \in Nat
           /\ \A c \in NameClaims : p[c] \in NameValue
BY DEF Payload, TimeValue

\* A time claim is one also after its conversion, and then no datetime.
LEMMA IntDateFacts ==
    ASSUME NEW v \in TimeValue
    PROVE  IntDate(v) \in TimeValue /\ IntDate(v).type # "datetime"
<1>1. CASE v.type = "datetime"
  <2>1. Whole(v.time) \in Nat
    BY Truncation DEF TimeValue
  <2> QED BY <1>1, <2>1 DEF IntDate, TimeValue
<1>2. CASE v.type # "datetime"
  BY <1>2 DEF IntDate
<1> QED BY <1>1, <1>2

\* What encode makes of a payload is JSON.
LEMMA EncodedIsJson ==
    ASSUME NEW p \in Payload
    PROVE  /\ EncodedPayload(p) \in JsonPayload
           /\ \A c \in TimeClaims : EncodedPayload(p)[c] = IntDate(p[c])
<1> DEFINE e == EncodedPayload(p)
<1>1. \A c \in TimeClaims : e[c] = IntDate(p[c])
  BY PayloadFacts DEF EncodedPayload
<1>2. \A c \in NameClaims : e[c] = p[c]
  BY PayloadFacts DEF EncodedPayload, TimeClaims, NameClaims
<1>3. /\ \A c \in TimeClaims : e[c] \in TimeValue /\ e[c].type # "datetime"
      /\ \A c \in NameClaims : e[c] \in NameValue
  BY <1>1, <1>2, PayloadFacts, IntDateFacts
<1>4. e \in [TimeClaims \cup NameClaims -> TimeValue \cup NameValue]
  <2>1. e = [c \in TimeClaims \cup NameClaims |->
                IF c \in TimeClaims THEN IntDate(p[c]) ELSE p[c]]
    BY PayloadFacts DEF EncodedPayload
  <2>2. \A c \in TimeClaims \cup NameClaims :
            (IF c \in TimeClaims THEN IntDate(p[c]) ELSE p[c]) \in TimeValue \cup NameValue
    BY PayloadFacts, IntDateFacts
  <2> HIDE DEF e
  <2> QED BY <2>1, <2>2
<1> HIDE DEF e
<1>5. e \in JsonPayload
  BY <1>3, <1>4 DEF JsonPayload, Payload
<1> QED BY <1>1, <1>5 DEF e

\* The checks raise nothing but these errors.
LEMMA VerdictType ==
    ASSUME NEW payload, NEW call, NEW time
    PROVE  Verdict(payload, call, time) \in TokenErrors \cup {Accepted, "TypeError", "OverflowError"}
BY VerdictIsACheck
DEF TokenErrors, Accepted, CheckAudienceType, CheckRequired, CheckIat, CheckNbf, CheckExp,
    CheckIss, CheckAud, CheckSub, CheckJti, IntError

\* The first token satisfies the invariant.
LEMMA InitIInv == Init => IInv
<1> SUFFICES ASSUME Init PROVE IInv
  OBVIOUS
<1>1. TypeOK
  BY ClaimsAssumption DEF Init, ClaimsAssumption, TypeOK, JsonPayload
<1>2. EncodedOK /\ LastOK /\ ExpiredOK /\ ExpiredForGood
  BY DEF Init, EncodedOK, LastOK, ExpiredOK, ExpiredForGood, Decoded, NoDecode
<1> QED BY <1>1, <1>2 DEF IInv

\* As time passes, what has expired stays so.
LEMMA TickStep ==
    ASSUME IInv, Tick
    PROVE  IInv'
<1>1. /\ now' = now + 1 /\ now \in Nat
      /\ UNCHANGED <<token, requested, last, expired>>
  BY DEF Tick, IInv, TypeOK
<1>2. TypeOK' /\ EncodedOK' /\ ExpiredForGood'
  BY <1>1 DEF IInv, TypeOK, EncodedOK, ExpiredForGood, Decoded
<1>3. LastOK'
  BY <1>1 DEF IInv, TypeOK, LastOK, Decoded, NoDecode
<1>4. ExpiredOK'
  <2>1. ASSUME NEW leeway \in expired
        PROVE  IsNumber(token["exp"]) /\ ToInt(token["exp"]) <= now' - leeway
    <3>1. leeway \in Nat
      BY ClaimsAssumption DEF IInv, TypeOK, ClaimsAssumption, DecodeCall
    <3>2. ToInt(token["exp"]) \in Nat
      BY Truncation, PayloadFacts DEF IInv, TypeOK, JsonPayload, ToInt, TimeClaims
    <3>3. IsNumber(token["exp"]) /\ ToInt(token["exp"]) <= now - leeway
      BY DEF IInv, ExpiredOK
    <3> HIDE DEF ToInt
    <3> QED BY <1>1, <3>1, <3>2, <3>3
  <2> QED BY <1>1, <2>1 DEF ExpiredOK, ToInt
<1> QED BY <1>2, <1>3, <1>4 DEF IInv

\* A new token has not been decoded.
LEMMA NewTokenStep ==
    ASSUME IInv,
           (\E p \in Requests : Encode(p)) \/ (\E p \in Foreign : Receive(p))
    PROVE  IInv'
<1>1. ASSUME NEW p \in Requests \cup Foreign, NEW e \in JsonPayload, NewToken(p, e),
             \A c \in TimeClaims : e[c] \in {p[c], IntDate(p[c])}
      PROVE  IInv'
  <2>1. /\ requested' = p /\ token' = e /\ last' = NoDecode /\ expired' = {} /\ now' = now
    BY <1>1 DEF NewToken
  <2>2. TypeOK' /\ EncodedOK'
    BY <1>1, <2>1 DEF IInv, TypeOK, EncodedOK
  <2>3. LastOK' /\ ExpiredOK' /\ ExpiredForGood'
    BY <2>1 DEF LastOK, ExpiredOK, ExpiredForGood, Decoded, NoDecode
  <2> QED BY <2>2, <2>3 DEF IInv
<1>2. ASSUME NEW p \in Requests, Encode(p) PROVE IInv'
  <2>1. p \in Payload
    BY ClaimsAssumption DEF ClaimsAssumption
  <2> QED BY <1>1, <1>2, <2>1, EncodedIsJson DEF Encode
<1>3. ASSUME NEW p \in Foreign, Receive(p) PROVE IInv'
  <2>1. p \in JsonPayload
    BY ClaimsAssumption DEF ClaimsAssumption
  <2> QED BY <1>1, <1>3, <2>1 DEF Receive
<1> QED BY <1>2, <1>3

\* A decode that accepts the token does so before it expires for that leeway.
LEMMA DecodeStep ==
    ASSUME IInv, NEW call \in Calls, Decode(call)
    PROVE  IInv'
<1> DEFINE v == Verdict(token, call, now)
<1>1. /\ last' = [verdict |-> v, call |-> call, time |-> now]
      /\ last'.verdict = v /\ last'.call = call /\ last'.time = now
      /\ expired' = IF v = "ExpiredSignatureError" THEN expired \cup {call.leeway} ELSE expired
      /\ UNCHANGED <<now, token, requested>>
  BY DEF Decode
<1>2. v \in TokenErrors \cup {Accepted, "TypeError", "OverflowError"}
  BY VerdictType
<1>3. /\ v = "ExpiredSignatureError" =>
            IsNumber(token["exp"]) /\ ToInt(token["exp"]) <= now - call.leeway
      /\ v = Accepted /\ "exp" \in call.verify =>
            \/ ~Present(token["exp"])
            \/ IsNumber(token["exp"]) /\ ~(ToInt(token["exp"]) <= now - call.leeway)
  BY ExpiredFacts
<1> HIDE DEF v
<1>4. TypeOK'
  BY <1>1, <1>2 DEF IInv, TypeOK
<1>5. EncodedOK' /\ ExpiredOK'
  BY <1>1, <1>3 DEF IInv, EncodedOK, ExpiredOK, ToInt
<1>6. LastOK'
  BY <1>1 DEF IInv, TypeOK, LastOK, v
<1>7. ExpiredForGood'
  <2>1. SUFFICES ASSUME v = Accepted, "exp" \in call.verify, NEW leeway \in expired
                 PROVE  leeway < call.leeway
    BY <1>1 DEF ExpiredForGood, Accepted
  <2>2. leeway \in Nat /\ call.leeway \in Nat /\ now \in Nat
    BY ClaimsAssumption DEF IInv, TypeOK, ClaimsAssumption, DecodeCall
  <2>3. ToInt(token["exp"]) \in Nat
    BY Truncation, PayloadFacts DEF IInv, TypeOK, JsonPayload, ToInt, TimeClaims
  <2>4. IsNumber(token["exp"]) /\ ToInt(token["exp"]) <= now - leeway
    BY DEF IInv, ExpiredOK
  <2>5. ~(ToInt(token["exp"]) <= now - call.leeway)
    BY <1>3, <2>1, <2>4 DEF Present, IsNumber
  <2> HIDE DEF ToInt
  <2> QED BY <2>2, <2>3, <2>4, <2>5
<1> QED BY <1>4, <1>5, <1>6, <1>7 DEF IInv

\* Every step keeps the invariant.
LEMMA IInvStep == IInv /\ [Next]_vars => IInv'
<1>1. ASSUME IInv, UNCHANGED vars PROVE IInv'
  BY <1>1 DEF vars, IInv, TypeOK, EncodedOK, LastOK, ExpiredOK, ExpiredForGood, Decoded
<1> QED BY <1>1, TickStep, NewTokenStep, DecodeStep DEF Next

\* Every reachable state satisfies the inductive invariant.
THEOREM InductiveInvariant == Spec => []IInv
BY InitIInv, IInvStep, PTL DEF Spec

-----------------------------------------------------------------------------

\* Tokens are JSON, and decode raises only the errors listed.
THEOREM ClaimTypes == Spec => []TypeOK
<1>1. IInv => TypeOK
  BY DEF IInv
<1> QED BY <1>1, InductiveInvariant, PTL

\* A token refused as expired is not accepted again with as much leeway
\* (api_jwt.py:494-508).
THEOREM ExpiryIsFinal == Spec => []ExpiredForGood
<1>1. IInv => ExpiredForGood
  BY DEF IInv
<1> QED BY <1>1, InductiveInvariant, PTL

\* What a verifier sees of a time its issuer asked for: the same time, or what
\* is left of it without its fraction of a second.
LEMMA SeenTimes ==
    ASSUME IInv, NEW c \in TimeClaims
    PROVE  /\ requested[c].time \in Nat
           /\ Numeric(requested[c]) <=> IsNumber(token[c])
           /\ IsNumber(token[c]) =>
                 /\ ToInt(token[c]) \in Nat
                 /\ ToInt(token[c]) <= requested[c].time
                 /\ requested[c].time < ToInt(token[c]) + Second
<1>1. requested \in Payload /\ token \in JsonPayload
  BY ClaimsAssumption DEF IInv, TypeOK, ClaimsAssumption, JsonPayload
<1>2. /\ requested[c] \in TimeValue /\ requested[c].time \in Nat
      /\ token[c].type # "datetime"
      /\ token[c] \in {requested[c], IntDate(requested[c])}
  BY <1>1, PayloadFacts DEF IInv, EncodedOK, JsonPayload
<1> DEFINE t == requested[c].time
<1>3. Whole(t) \in Nat /\ Whole(t) <= t /\ t < Whole(t) + Second
  BY <1>2, Truncation
<1>4. Second \in Nat /\ Second > 0
  BY ClaimsAssumption DEF ClaimsAssumption
<1>5. CASE requested[c].type = "datetime"
  <2>1. token[c] = [type |-> "int", time |-> Whole(t)]
    BY <1>2, <1>5 DEF IntDate
  <2> QED BY <1>2, <1>3, <1>5, <2>1 DEF Numeric, IsNumber, ToInt
<1>6. CASE requested[c].type # "datetime"
  <2>1. token[c] = requested[c]
    BY <1>2, <1>6 DEF IntDate
  <2>2. ToInt(token[c]) \in {t, Whole(t)}
    BY <2>1 DEF ToInt
  <2>3. Numeric(requested[c]) <=> IsNumber(token[c])
    BY <1>6, <2>1 DEF Numeric
  <2> QED BY <1>2, <1>3, <1>4, <2>2, <2>3
<1> QED BY <1>5, <1>6

\* A token lives as long as its issuer asked, to the second, and never longer
\* (api_jwt.py:126-129, 465-508).
THEOREM LifetimesAreKept == Spec => []LifetimeKept
<1>1. ASSUME IInv, Decoded PROVE LifetimeKept
  <2> DEFINE call == last.call
             v == Verdict(token, call, last.time)
  <2>1. /\ last.verdict = v /\ call \in Calls /\ last.time \in Nat
    BY <1>1 DEF IInv, TypeOK, LastOK, Decoded, NoDecode
  <2>2. call.leeway \in Nat /\ Second \in Nat
    BY <2>1, ClaimsAssumption DEF ClaimsAssumption, DecodeCall
  <2> HIDE DEF call
  <2>3. ASSUME v = Accepted, "exp" \in call.verify, Numeric(requested["exp"])
        PROVE  last.time < requested["exp"].time + call.leeway
    <3>1. /\ requested["exp"].time \in Nat /\ IsNumber(token["exp"])
          /\ ToInt(token["exp"]) \in Nat /\ ToInt(token["exp"]) <= requested["exp"].time
      BY <1>1, <2>3, SeenTimes DEF TimeClaims
    <3>2. ~(ToInt(token["exp"]) <= last.time - call.leeway)
      BY <2>3, <3>1, ExpiredFacts DEF Present, IsNumber
    <3> QED BY <2>1, <2>2, <3>1, <3>2
  <2>4. ASSUME v = "ExpiredSignatureError"
        PROVE  last.time + Second > requested["exp"].time + call.leeway
    <3>1. IsNumber(token["exp"]) /\ ToInt(token["exp"]) <= last.time - call.leeway
      BY <2>4, ExpiredFacts
    <3>2. /\ requested["exp"].time \in Nat /\ ToInt(token["exp"]) \in Nat
          /\ requested["exp"].time < ToInt(token["exp"]) + Second
      BY <1>1, <3>1, SeenTimes DEF TimeClaims
    <3> QED BY <2>1, <2>2, <3>1, <3>2
  <2>5. ASSUME v = "ImmatureSignatureError"
        PROVE  \E c \in {"nbf", "iat"} : last.time + call.leeway < requested[c].time
    <3>1. PICK c \in {"nbf", "iat"} :
              IsNumber(token[c]) /\ ToInt(token[c]) > last.time + call.leeway
      BY <2>5, ImmatureFacts
    <3>2. /\ requested[c].time \in Nat /\ ToInt(token[c]) \in Nat
          /\ ToInt(token[c]) <= requested[c].time
      BY <1>1, <3>1, SeenTimes DEF TimeClaims
    <3>3. last.time + call.leeway < requested[c].time
      BY <2>1, <2>2, <3>1, <3>2
    <3> QED BY <3>3
  <2> QED BY <2>1, <2>3, <2>4, <2>5 DEF LifetimeKept, call
<1>2. IInv => LifetimeKept
  BY <1>1 DEF LifetimeKept
<1> QED BY <1>2, InductiveInvariant, PTL

\* No token is accepted by a verifier it does not name (api_jwt.py:430-449,
\* 510-583).
THEOREM TokensAreBound == Spec => []BoundToVerifier
<1>1. ASSUME IInv, Decoded, last.verdict = Accepted PROVE BoundToVerifier
  <2> DEFINE call == last.call
  <2>1. /\ CheckAud(token, call) = Accepted
        /\ CheckIss(token, call) = Accepted
        /\ CheckSub(token, call) = Accepted
    BY <1>1, AcceptedIff DEF IInv, LastOK
  <2>2. /\ token["aud"] \in NameValue /\ token["iss"] \in NameValue
    BY <1>1, PayloadFacts DEF IInv, TypeOK, JsonPayload, NameClaims
  <2>3. token["aud"].type = "string" => token["aud"].names # {}
    BY <2>2 DEF NameValue
  <2>4. token["iss"].type = "string" => token["iss"].names # {}
    BY <2>2 DEF NameValue
  <2> HIDE DEF call
  <2>5. "aud" \in call.verify =>
          \/ call.audience.type = "none" /\ NoAudience(token)
          \/ call.audience.names \cap token["aud"].names # {}
    BY <2>1, <2>3 DEF CheckAud, StrictAudience, ListedAudience, Accepted
  <2>6. ("iss" \in call.verify /\ call.issuer.type # "none") =>
          call.issuer.names \cap token["iss"].names # {}
    BY <2>1, <2>4 DEF CheckIss, Accepted
  <2>7. ("sub" \in call.verify /\ call.subject.type # "none") =>
          ~Present(token["sub"]) \/ token["sub"].names = call.subject.names
    BY <2>1 DEF CheckSub, Accepted
  <2> QED BY <2>5, <2>6, <2>7 DEF BoundToVerifier, call
<1>2. IInv => BoundToVerifier
  BY <1>1 DEF BoundToVerifier
<1> QED BY <1>2, InductiveInvariant, PTL

\* Asking for less never refuses what was accepted (api_jwt.py:379-583).
THEOREM LessIsAccepted == Spec => []WeakeningAccepts
<1>1. ASSUME IInv, Decoded, last.verdict = Accepted, NEW w \in Calls, Weaker(w, last.call)
      PROVE  Verdict(token, w, last.time) = Accepted
  <2> DEFINE c == last.call
             t == last.time
  <2>1. c \in DecodeCall /\ w \in DecodeCall /\ t \in Nat
    BY <1>1, ClaimsAssumption DEF IInv, TypeOK, Decoded, NoDecode, ClaimsAssumption
  <2>2. c.leeway \in Nat /\ w.leeway \in Nat
    BY <2>1 DEF DecodeCall
  <2>3. Verdict(token, c, t) = Accepted
    BY <1>1 DEF IInv, LastOK
  <2>4. Weaker(w, c)
    BY <1>1
  <2>5. \A claim \in TimeClaims : IsNumber(token[claim]) => ToInt(token[claim]) \in Nat
    BY <1>1, SeenTimes
  <2> HIDE DEF c, t
  <2>6. CheckAudienceType(w) = Accepted
    <3>1. CheckAudienceType(c) = Accepted
      BY <2>3, AcceptedIff
    <3> QED BY <2>4, <3>1 DEF CheckAudienceType, Weaker, Wider, Accepted
  <2>7. CheckRequired(token, w) = Accepted
    <3>1. CheckRequired(token, c) = Accepted
      BY <2>3, AcceptedIff
    <3> QED BY <2>4, <3>1 DEF CheckRequired, Weaker, Accepted
  <2>8. CheckIat(token, w, t) = Accepted
    <3>1. CheckIat(token, c, t) = Accepted
      BY <2>3, AcceptedIff
    <3> QED BY <2>1, <2>2, <2>4, <2>5, <3>1 DEF CheckIat, Weaker, IntError, Accepted, TimeClaims
  <2>9. CheckNbf(token, w, t) = Accepted
    <3>1. CheckNbf(token, c, t) = Accepted
      BY <2>3, AcceptedIff
    <3> QED BY <2>1, <2>2, <2>4, <2>5, <3>1 DEF CheckNbf, Weaker, IntError, Accepted, TimeClaims
  <2>10. CheckExp(token, w, t) = Accepted
    <3>1. CheckExp(token, c, t) = Accepted
      BY <2>3, AcceptedIff
    <3> QED BY <2>1, <2>2, <2>4, <2>5, <3>1 DEF CheckExp, Weaker, IntError, Accepted, TimeClaims
  <2>11. CheckIss(token, w) = Accepted
    <3>1. CheckIss(token, c) = Accepted
      BY <2>3, AcceptedIff
    <3> QED BY <2>4, <3>1 DEF CheckIss, Weaker, Wider, Accepted
  <2>12. CheckAud(token, w) = Accepted
    <3>1. CheckAud(token, c) = Accepted
      BY <2>3, AcceptedIff
    <3>2. token["aud"] \in NameValue
      BY <1>1, PayloadFacts DEF IInv, TypeOK, JsonPayload, NameClaims
    <3>3. token["aud"].type = "string" => token["aud"].names # {}
      BY <3>2 DEF NameValue
    <3>4. CASE w.audience = c.audience
      BY <2>4, <3>1, <3>3, <3>4
      DEF CheckAud, StrictAudience, ListedAudience, NoAudience, Weaker, Accepted
    <3>5. CASE Wider(w.audience, c.audience) /\ ~w.strict
      BY <2>4, <3>1, <3>3, <3>5
      DEF CheckAud, StrictAudience, ListedAudience, NoAudience, Weaker, Wider, Accepted
    <3> QED BY <2>4, <3>4, <3>5 DEF Weaker
  <2>13. CheckSub(token, w) = Accepted
    <3>1. CheckSub(token, c) = Accepted
      BY <2>3, AcceptedIff
    <3> QED BY <2>4, <3>1 DEF CheckSub, Weaker, Accepted
  <2>14. CheckJti(token, w) = Accepted
    <3>1. CheckJti(token, c) = Accepted
      BY <2>3, AcceptedIff
    <3> QED BY <2>4, <3>1 DEF CheckJti, Weaker, Accepted
  <2>15. Verdict(token, w, t) = Accepted
    BY <2>6, <2>7, <2>8, <2>9, <2>10, <2>11, <2>12, <2>13, <2>14, AcceptedIff
  <2> QED BY <2>15 DEF t
<1>2. IInv => WeakeningAccepts
  BY <1>1 DEF WeakeningAccepts
<1> QED BY <1>2, InductiveInvariant, PTL
=============================================================================
