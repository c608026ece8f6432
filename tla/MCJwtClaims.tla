---------------------------- MODULE MCJwtClaims ----------------------------
(* Payloads and calls for the models of JwtClaims.                         *)
EXTENDS JwtClaims

NoTime == [type |-> "absent", time |-> 0]
NoName == [type |-> "absent", names |-> {}]

Value(type, time) == [type |-> type, time |-> time]
Name(type, names) == [type |-> type, names |-> names]

Blank == [c \in TimeClaims \cup NameClaims |-> IF c \in TimeClaims THEN NoTime ELSE NoName]

Call(verify, require, leeway) ==
    [verify |-> verify, require |-> require, strict |-> FALSE, leeway |-> leeway,
     audience |-> Name("none", {}), issuer |-> Name("none", {}), subject |-> Name("none", {})]

\* Tokens with a lifetime, to half a second, from datetimes and from numbers.
TimedRequests ==
    {[Blank EXCEPT !["exp"] = Value(type, e), !["nbf"] = n, !["iat"] = i] :
        type \in {"datetime", "float"}, e \in {2, 3},
        n \in {NoTime, Value("datetime", 1), Value("float", 3)},
        i \in {NoTime, Value("datetime", 3)}}

OddRequests ==
    {[Blank EXCEPT ![c] = Value(type, 0)] :
        c \in TimeClaims, type \in {"null", "word", "list", "infinite"}}

TimeRequests == TimedRequests \cup OddRequests

TimeCalls ==
    {Call(v, {}, l) : v \in SUBSET TimeClaims, l \in 0..2} \cup {Call(TimeClaims, {"exp"}, 1)}

JustBlank == {Blank}

\* Claims about parties, in every shape.
Audiences ==
    {NoName, Name("null", {}), Name("empty", {}), Name("string", {"me"}), Name("string", {"you"}),
     Name("list", {"me", "you"}), Name("mixed", {"me"}), Name("other", {})}

Others == {NoName, Name("null", {}), Name("string", {"me"}), Name("string", {"you"}), Name("other", {})}

NamedPayloads ==
    {[Blank EXCEPT !["aud"] = a] : a \in Audiences}
        \cup {[Blank EXCEPT !["aud"] = Name("string", {"me"}), ![c] = n] :
                c \in {"iss", "sub", "jti"}, n \in Others}

Strings == {Name("none", {}), Name("string", {"me"}), Name("string", {"you"})}

Sets == {Name("set", {}), Name("set", {"you"}), Name("set", {"me", "you"}), Name("bad", {})}

NameCalls ==
    {[Call(NameClaims, {}, 0) EXCEPT !.strict = st, !.audience = a] :
        st \in BOOLEAN, a \in Strings \cup Sets}
      \cup
    {[Call(NameClaims, {}, 0) EXCEPT !.audience = Name("string", {"me"}), !.issuer = i] :
        i \in Strings \cup Sets}
      \cup
    {[Call(v, r, 0) EXCEPT !.audience = Name("string", {"me"}), !.subject = s] :
        v \in {{}, NameClaims}, r \in {{}, {"aud", "sub"}}, s \in Strings}

AllCalls == TimeCalls \cup NameCalls
=============================================================================
