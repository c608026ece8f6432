------------------------ MODULE JwksClient_refinement ------------------------
(***************************************************************************)
(* JwksClient implements KeyDirectory: a step that begins a call asks, one *)
(* that ends it answers, publication is publication, and every other step  *)
(* stutters.                                                               *)
(***************************************************************************)
EXTENDS JwksClient_proofs

\* A document of the endpoint that a thread is about to parse is a document.
LEMMA ParsedDocument ==
    ASSUME TypeOK, VersionsOK, NEW t \in Threads, pc[t] = "parse"
    PROVE  data[t].version \in 1..Len(history) /\ Doc(t) \in Documents
BY FieldTypes DEF TypeOK, VersionsOK, Doc

\* Every step keeps, for each thread about to clear the cache, the failure it
\* will raise: the invariant the refinement needs besides IInv.
LEMMA FailuresOKStep == IInv /\ FailuresOK /\ [Next]_vars => FailuresOK'
<1> SUFFICES ASSUME IInv, FailuresOK, [Next]_vars PROVE FailuresOK'
  OBVIOUS
<1> USE DEF IInv, FailuresOK, Goto, Return, world, shared, frame, ghosts
<1>1. ASSUME NEW d \in Documents, Publish(d) PROVE FailuresOK'
  BY <1>1 DEF Publish
<1>2. CASE Tick
  BY <1>2 DEF Tick
<1>3. ASSUME NEW t \in Threads, Start(t) PROVE FailuresOK'
  <2>1. ASSUME NEW m, NEW k, NEW r, NEW l \in {"lru", "cache", "request"}, Call(t, m, k, r, l)
        PROVE  FailuresOK'
    BY <2>1 DEF Call, TypeOK
  <2> QED BY <1>3, <2>1 DEF Start, GetSigningKey, GetSigningKeys, GetJwkSet, FetchData
<1>4. ASSUME NEW t \in Threads, Proceed(t) PROVE FailuresOK'
  <2>1. CASE LruHit(t)
    BY <2>1 DEF LruHit, TypeOK
  <2>2. CASE LruMiss(t) \/ LruInsert(t)
    BY <2>2 DEF LruMiss, LruInsert, TypeOK
  <2>3. CASE CacheLookup(t) \/ IsExpiredNone(t) \/ ReadClock(t) \/ IsExpiredCompare(t)
    BY <2>3 DEF CacheLookup, IsExpiredNone, ReadClock, IsExpiredCompare, TypeOK
  <2>4. CASE CrashOnNone(t) \/ CacheReturn(t) \/ SendRequest(t)
    BY <2>4 DEF CrashOnNone, CacheReturn, SendRequest, TypeOK
  <2>5. CASE Store(t)
    BY <2>5 DEF Store, AfterFetch, TypeOK
  <2>6. CASE ParseRaises(t) \/ ReturnSet(t)
    BY <2>6 DEF ParseRaises, ReturnSet, TypeOK
  <2>7. CASE MatchFound(t) \/ MatchRefresh(t) \/ MatchFails(t)
    BY <2>7 DEF MatchFound, MatchRefresh, MatchFails, TypeOK
  <2> QED BY <1>4, <2>1, <2>2, <2>3, <2>4, <2>5, <2>6, <2>7 DEF Proceed
<1>5. ASSUME NEW t \in Threads, Network(t) PROVE FailuresOK'
  <2>1. CASE Answer(t)
    BY <1>5, <2>1 DEF Answer, TypeOK
  <2>2. CASE Receive(t)
    <3>1. data[t] # NoReply
      BY <2>2 DEF Receive, VersionsOK, NoReply
    <3>2. data' = data /\ \A u \in Threads : u # t => pc'[u] = pc[u] /\ outcome'[u] = outcome[u]
      BY <2>2 DEF Receive, AfterFetch, TypeOK
    <3> QED BY <3>1, <3>2
  <2>3. ASSUME NEW failure \in Failures, FetchFails(t, failure) PROVE FailuresOK'
    BY <2>3 DEF FetchFails, TypeOK
  <2> QED BY <1>5, <2>1, <2>2, <2>3 DEF Network
<1>6. CASE UNCHANGED vars
  BY <1>6 DEF vars
<1> QED BY <1>1, <1>2, <1>3, <1>4, <1>5, <1>6 DEF Next

-----------------------------------------------------------------------------
(* How the steps map.                                                      *)

\* The question and the answer of one thread.
Question(t) ==
    IF pc[t] = "idle" THEN [kid |-> NoKid, since |-> 0]
    ELSE [kid |-> kid[t], since |-> began[t].version]

TheAnswer(t) == IF pc[t] = "idle" THEN outcome[t] ELSE NoOutcome

Questions == [t \in Threads |-> Question(t)]

Answers == [t \in Threads |-> TheAnswer(t)]

\* The directory reads documents as the client does.
LEMMA SameOperators ==
    /\ \A d, k : Directory!FirstMatch(d, k) = FirstMatch(d, k)
    /\ Directory!Kinds = Kinds
    /\ \A kind, v, i : Directory!Outcome(kind, v, i) = Outcome(kind, v, i)
    /\ \A kind : Directory!Raise(kind) = Raise(kind)
    /\ Directory!NoOutcome = NoOutcome
<1>1. \A jwk : Directory!Load(jwk, Missing) = Load(jwk, Missing)
  <2>1. \A jwk : Directory!AlgorithmFor(jwk, Missing) = AlgorithmFor(jwk, Missing)
    BY DEF Directory!AlgorithmFor, AlgorithmFor, Directory!CurveAlgorithm, CurveAlgorithm,
           Directory!Missing, Missing
  <2>2. \A alg, jwk : Directory!FromJwk(alg, jwk) = FromJwk(alg, jwk)
    BY DEF Directory!FromJwk, FromJwk, Directory!Family, Family,
           Directory!HmacFromJwk, HmacFromJwk, Directory!RsaFromJwk, RsaFromJwk,
           Directory!EcFromJwk, EcFromJwk, Directory!OkpFromJwk, OkpFromJwk
  <2> QED BY <2>1, <2>2 DEF Directory!Load, Load, Directory!Missing, Missing,
           Directory!RequiresCryptography, RequiresCryptography,
           Directory!DefaultAlgorithms, DefaultAlgorithms,
           Directory!AsymmetricAlgorithms, AsymmetricAlgorithms
<1>2. \A d : Directory!UsableKeys(d) = UsableKeys(d)
  BY <1>1 DEF Directory!UsableKeys, UsableKeys, Directory!Loads, Loads, Directory!Missing, Missing
<1>3. \A d : Directory!SigningKeys(d) = SigningKeys(d)
  BY <1>2 DEF Directory!SigningKeys, SigningKeys
<1>4. \A d, k : Directory!FirstMatch(d, k) = FirstMatch(d, k)
  BY <1>3 DEF Directory!FirstMatch, FirstMatch
<1>5. Directory!Kinds = Kinds
  BY DEF Directory!Kinds, Kinds, Directory!Fatal, Fatal, Directory!Failures, Failures
<1>6. \A kind, v, i : Directory!Outcome(kind, v, i) = Outcome(kind, v, i)
  BY DEF Directory!Outcome, Outcome
<1>7. \A kind : Directory!Raise(kind) = Raise(kind)
  BY DEF Directory!Raise, Raise, Directory!Outcome, Outcome
<1>8. Directory!NoOutcome = NoOutcome
  BY <1>7 DEF Directory!NoOutcome, NoOutcome
<1> QED BY <1>4, <1>5, <1>6, <1>7, <1>8

\* The step of a call that is neither its first nor its last changes nothing
\* the directory knows of.
LEMMA InnerStep ==
    ASSUME NEW t \in Threads, NEW l, pc[t] # "idle", l # "idle",
           pc \in [Threads -> Locations], outcome \in [Threads -> Result],
           pc' = [pc EXCEPT ![t] = l],
           \A u \in Threads : u # t => outcome'[u] = outcome[u],
           UNCHANGED <<history, kid, began>>
    PROVE  UNCHANGED Directory!vars
<1>1. \A u \in Threads : Question(u)' = Question(u) /\ TheAnswer(u)' = TheAnswer(u)
  BY DEF Question, TheAnswer, NoOutcome, Raise, Outcome
<1>2. Questions' = Questions /\ Answers' = Answers
  BY <1>1 DEF Questions, Answers
<1> QED BY <1>2 DEF Directory!vars, Questions, Answers, Question, TheAnswer

\* The question of t is settled with result.
Ends(t, result) ==
    /\ Questions' = [Questions EXCEPT ![t] = Directory!NoQuestion]
    /\ UNCHANGED history
    /\ Directory!Say(t, result)

\* The last step of a call is a reply to its question.
LEMMA LastStep ==
    ASSUME NEW t \in Threads, NEW result, pc[t] # "idle",
           pc \in [Threads -> Locations], outcome \in [Threads -> Result],
           pc' = [pc EXCEPT ![t] = "idle"],
           outcome' = [outcome EXCEPT ![t] = result],
           UNCHANGED <<history, kid, began>>
    PROVE  Ends(t, result)
<1>1. Questions' = [Questions EXCEPT ![t] = [kid |-> NoKid, since |-> 0]]
  BY DEF Questions, Question
<1>2. Answers' = [Answers EXCEPT ![t] = result]
  BY DEF Answers, TheAnswer, NoOutcome, Raise, Outcome
<1> QED BY <1>1, <1>2 DEF Ends, Directory!Say, Directory!NoQuestion, Questions, Answers, Question, TheAnswer

\* A thread between two steps of a call waits for its answer.
LEMMA InCall ==
    ASSUME IInv, NEW t \in Threads, pc[t] # "idle"
    PROVE  /\ Questions[t] # Directory!NoQuestion
           /\ Questions[t] = [kid |-> kid[t], since |-> began[t].version]
<1>1. began[t].version # 0
  BY DEF IInv, TimesOK, ThreadTimes
<1>2. Questions[t] = [kid |-> kid[t], since |-> began[t].version]
  BY DEF Questions, Question
<1> QED BY <1>1, <1>2 DEF Directory!NoQuestion

\* The last step of a call settles the question and says its result.
LEMMA EndsSettles ==
    ASSUME IInv, NEW t \in Threads, pc[t] # "idle", NEW result, Ends(t, result)
    PROVE  Directory!Settle(t) /\ Directory!Say(t, result)
<1>1. Questions[t] # Directory!NoQuestion
  BY InCall
<1> QED BY <1>1 DEF Ends, Directory!Settle, Questions, Question

-----------------------------------------------------------------------------
(* The refinement.                                                         *)

\* The initial states map to initial states.
LEMMA InitMaps == Init => Directory!Init
BY SameOperators DEF Init, Directory!Init, Directory!NoQuestion

\* A publication maps to a publication.
LEMMA PublishMaps ==
    ASSUME NEW d \in Documents, Publish(d)
    PROVE  Directory!Publish
BY DEF Publish, Directory!Publish, frame, ghosts

\* The step that begins a call maps to the question of that thread.
LEMMA CallMaps ==
    ASSUME IInv, NEW t \in Threads, NEW m, NEW k \in Kids \cup {NoKid}, NEW r,
           NEW l \in {"lru", "cache", "request"}, Call(t, m, k, r, l)
    PROVE  Directory!Ask(t)
<1> USE DEF Goto, Return, world, IInv, TypeOK
<1>1. Questions[t] = [kid |-> NoKid, since |-> 0]
  BY DEF Call, Questions, Question
<1>2. Questions' = [Questions EXCEPT ![t] = [kid |-> k, since |-> Len(history)]]
  BY DEF Call, Questions, Question
<1>3. Answers' = [Answers EXCEPT ![t] = NoOutcome]
  <2>1. \A u \in Threads : u # t => TheAnswer(u)' = TheAnswer(u)
    BY DEF Call, TheAnswer
  <2>2. TheAnswer(t)' = NoOutcome
    BY DEF Call, TheAnswer
  <2> QED BY <2>1, <2>2 DEF Answers
<1>4. history' = history
  BY DEF Call
<1> QED BY <1>1, <1>2, <1>3, <1>4, SameOperators
        DEF Directory!Ask, Directory!NoQuestion, Questions, Answers, Question, TheAnswer

\* A call that returns a key finds it in the directory: some published document
\* has it for the kid of the question.
LEMMA KeyMaps ==
    ASSUME IInv, NEW t \in Threads, NEW v, NEW i, pc[t] # "idle",
           IsPublishedKey(v, i, kid[t]), Ends(t, Outcome("key", v, i))
    PROVE  Directory!Find(t)
<1>1. Directory!Settle(t) /\ Directory!Say(t, Outcome("key", v, i))
  BY EndsSettles
<1>2. Questions[t].kid = kid[t]
  <2>1. Questions[t] = [kid |-> kid[t], since |-> began[t].version]
    BY InCall
  <2> QED BY <2>1
<1>3. v \in 1..Len(history) /\ i \in FirstMatch(history[v], Questions[t].kid)
  BY <1>2 DEF IsPublishedKey, Versions
<1> QED BY <1>1, <1>3, SameOperators DEF Directory!Find, Questions, Question

\* A call that returns a JWK Set or a document is given one that was published.
LEMMA GiveMaps ==
    ASSUME IInv, NEW t \in Threads, NEW v \in 1..Len(history), NEW kind \in {"set", "document"},
           pc[t] # "idle", Ends(t, Outcome(kind, v, 0))
    PROVE  Directory!Give(t)
<1>1. Directory!Settle(t) /\ Directory!Say(t, Outcome(kind, v, 0))
  BY EndsSettles
<1> QED BY <1>1, SameOperators DEF Directory!Give

\* A call that finds no key is denied: the answer it had during the call, of a
\* version current since the question, has none for the kid.
LEMMA DenyMaps ==
    ASSUME IInv, NEW t \in Threads, pc[t] # "idle",
           data[t].version \in began[t].version..Len(history),
           FirstMatch(history[data[t].version], kid[t]) = {},
           Ends(t, Raise("unableToFind"))
    PROVE  Directory!Deny(t)
<1>1. Directory!Settle(t) /\ Directory!Say(t, Raise("unableToFind"))
  BY EndsSettles
<1>2. Questions[t].kid = kid[t] /\ Questions[t].since = began[t].version
  <2>1. Questions[t] = [kid |-> kid[t], since |-> began[t].version]
    BY InCall
  <2> QED BY <2>1
<1>3. /\ data[t].version \in Questions[t].since..Len(history)
      /\ Directory!FirstMatch(history[data[t].version], Questions[t].kid) = {}
  BY <1>2, SameOperators
<1> QED BY <1>1, <1>3, SameOperators DEF Directory!Deny, Questions, Question

\* A call that raises anything else fails.
LEMMA FailMaps ==
    ASSUME IInv, NEW t \in Threads, pc[t] # "idle",
           NEW kind \in {"notObject", "noSigningKeys", "PyJWKSetError", "AttributeError"}
                            \cup Fatal \cup Failures,
           Ends(t, Raise(kind))
    PROVE  Directory!Fail(t)
<1>1. Directory!Settle(t) /\ Directory!Say(t, Raise(kind))
  BY EndsSettles
<1>2. kind \in Directory!Kinds \ {"none", "key", "set", "document", "unableToFind"}
  BY SameOperators DEF Kinds, Fatal, Failures
<1> QED BY <1>1, <1>2, SameOperators DEF Directory!Fail

\* What fetch_data's return does to the call maps.
LEMMA AfterFetchMaps ==
    ASSUME IInv, NEW t \in Threads, pc[t] \in {"reading", "store"}, data[t].version # 0,
           AfterFetch(t), UNCHANGED <<history, kid, began>>
    PROVE  Directory!Give(t) \/ UNCHANGED Directory!vars
<1> USE DEF Goto, Return
<1>1. PICK v \in 1..Len(history) : v = data[t].version
  BY FieldTypes DEF IInv, TypeOK, VersionsOK
<1>2. /\ pc[t] # "idle"
      /\ pc \in [Threads -> Locations]
      /\ outcome \in [Threads -> Result]
  BY DEF IInv, TypeOK
<1>3. CASE op[t] = "fetch_data"
  <2>1. /\ pc' = [pc EXCEPT ![t] = "idle"]
        /\ outcome' = [outcome EXCEPT ![t] = Outcome("document", v, 0)]
    BY <1>1, <1>3 DEF AfterFetch
  <2>2. Ends(t, Outcome("document", v, 0))
    BY <1>2, <2>1, LastStep
  <2>3. "document" \in {"set", "document"}
    OBVIOUS
  <2> QED BY <1>2, <2>2, <2>3, GiveMaps
<1>4. CASE op[t] # "fetch_data"
  BY <1>4, InnerStep DEF AfterFetch, IInv, TypeOK
<1> QED BY <1>3, <1>4

\* Every step of a call maps to the step that answers it, or stutters.
LEMMA ProceedMaps ==
    ASSUME IInv, IInv', FailuresOK, NEW t \in Threads, Proceed(t)
    PROVE  Directory!Next \/ UNCHANGED Directory!vars
<1> USE DEF Goto, Return, world, shared, ghosts
<1>t. /\ pc \in [Threads -> Locations]
      /\ outcome \in [Threads -> Result]
      /\ \A u \in Threads : outcome[u].kind \in Kinds /\ outcome[u] \in Result
  BY FieldTypes DEF IInv, TypeOK
<1>n. ASSUME Directory!Find(t) \/ Directory!Give(t) \/ Directory!Deny(t) \/ Directory!Fail(t)
      PROVE  Directory!Next
  BY <1>n DEF Directory!Next
<1>1. CASE LruHit(t)
  <2>1. PICK i \in 1..Len(lru) :
           /\ lru[i].kid = kid[t]
           /\ outcome' = [outcome EXCEPT ![t] = LruKey(i)]
    BY <1>1 DEF LruHit
  <2>2. PICK v, j : v = lru[i].version /\ j = lru[i].index
    OBVIOUS
  <2>3. IsPublishedKey(v, j, kid[t])
    BY <2>1, <2>2 DEF IInv, LookupsOK, KeysArePublished
  <2>4. /\ pc[t] # "idle"
        /\ pc' = [pc EXCEPT ![t] = "idle"]
        /\ outcome' = [outcome EXCEPT ![t] = Outcome("key", v, j)]
        /\ UNCHANGED <<history, kid, began>>
    BY <1>1, <2>1, <2>2 DEF LruHit, LruKey
  <2>5. Ends(t, Outcome("key", v, j))
    BY <1>t, <2>4, LastStep
  <2> QED BY <1>n, <2>3, <2>4, <2>5, KeyMaps
<1>2. CASE LruInsert(t)
  <2>1. PICK v, j : v = outcome[t].version /\ j = outcome[t].index
    OBVIOUS
  <2>2. outcome[t].kind = "key" /\ IsPublishedKey(v, j, kid[t])
    BY <1>2, <2>1 DEF IInv, LookupsOK, KeysArePublished, LruInsert
  <2>3. outcome[t] = Outcome("key", v, j)
    BY <1>t, <2>1, <2>2 DEF Result, Outcome
  <2>4. /\ pc[t] # "idle"
        /\ pc' = [pc EXCEPT ![t] = "idle"]
        /\ outcome' = [outcome EXCEPT ![t] = Outcome("key", v, j)]
        /\ UNCHANGED <<history, kid, began>>
    BY <1>2, <1>t, <2>3 DEF LruInsert
  <2>5. Ends(t, Outcome("key", v, j))
    BY <1>t, <2>4, LastStep
  <2> QED BY <1>n, <2>2, <2>4, <2>5, KeyMaps
<1>3. CASE LruMiss(t) \/ CacheLookup(t) \/ IsExpiredNone(t) \/ ReadClock(t)
              \/ IsExpiredCompare(t) \/ CacheReturn(t) \/ SendRequest(t) \/ MatchRefresh(t)
  <2>1. PICK l : /\ pc[t] # "idle"
                 /\ l # "idle"
                 /\ pc' = [pc EXCEPT ![t] = l]
                 /\ UNCHANGED <<history, kid, began, outcome>>
    BY <1>3 DEF LruMiss, CacheLookup, IsExpiredNone, ReadClock, IsExpiredCompare,
                CacheReturn, SendRequest, Matching, MatchRefresh
  <2> QED BY <1>t, <2>1, InnerStep
<1>4. CASE CrashOnNone(t)
  <2>1. Ends(t, Raise("AttributeError"))
    BY <1>4, <1>t, LastStep DEF CrashOnNone
  <2> QED BY <1>4, <1>n, <2>1, FailMaps DEF CrashOnNone
<1>5. CASE Store(t)
  <2>1. CASE data[t] = NoReply
    <3>1. PICK failure \in Failures : outcome[t] = Raise(failure)
      BY <1>5, <2>1 DEF FailuresOK, Store
    <3>2. /\ pc[t] # "idle"
          /\ pc' = [pc EXCEPT ![t] = "idle"]
          /\ outcome' = [outcome EXCEPT ![t] = Raise(failure)]
          /\ UNCHANGED <<history, kid, began>>
      BY <1>5, <1>t, <2>1, <3>1 DEF Store
    <3>3. Ends(t, Raise(failure))
      BY <1>t, <3>2, LastStep
    <3> QED BY <1>n, <3>2, <3>3, FailMaps
  <2>2. CASE data[t] # NoReply
    <3>1. data[t].version # 0
      BY <2>2 DEF IInv, VersionsOK
    <3> QED BY <1>5, <1>n, <2>2, <3>1, AfterFetchMaps DEF Store
  <2> QED BY <2>1, <2>2
<1>6. CASE ParseRaises(t)
  <2>1. PICK e \in ParseErrors(t) : outcome' = [outcome EXCEPT ![t] = Raise(e)]
    BY <1>6 DEF ParseRaises
  <2>2. e \in {"notObject", "noSigningKeys", "PyJWKSetError"} \cup Fatal
    BY <1>6, ParsedDocument, ParseErrorKinds DEF ParseErrors, ParseRaises, IInv
  <2>3. Ends(t, Raise(e))
    BY <1>6, <1>t, <2>1, LastStep DEF ParseRaises
  <2> QED BY <1>6, <1>n, <2>2, <2>3, FailMaps DEF ParseRaises
<1>7. CASE ReturnSet(t)
  <2>1. PICK v \in 1..Len(history) : v = data[t].version
    BY <1>7, ParsedDocument DEF ReturnSet, IInv
  <2>2. /\ pc[t] # "idle"
        /\ pc' = [pc EXCEPT ![t] = "idle"]
        /\ outcome' = [outcome EXCEPT ![t] = Outcome("set", v, 0)]
        /\ UNCHANGED <<history, kid, began>>
    BY <1>7, <2>1 DEF ReturnSet
  <2>3. Ends(t, Outcome("set", v, 0))
    BY <1>t, <2>2, LastStep
  <2>4. "set" \in {"set", "document"}
    OBVIOUS
  <2> QED BY <1>n, <2>2, <2>3, <2>4, GiveMaps
<1>8. CASE MatchFound(t)
  <2>1. PICK i \in FirstMatch(Doc(t), kid[t]) :
           outcome' = [outcome EXCEPT ![t] = Outcome("key", data[t].version, i)]
    BY <1>8 DEF MatchFound
  <2>2. PICK v \in 1..Len(history) : v = data[t].version
    BY <1>8, ParsedDocument DEF MatchFound, Matching, IInv
  <2>3. IsPublishedKey(v, i, kid[t])
    BY <2>1, <2>2 DEF IsPublishedKey, Versions, Doc
  <2>4. /\ pc[t] # "idle"
        /\ outcome' = [outcome EXCEPT ![t] = Outcome("key", v, i)]
        /\ UNCHANGED <<history, kid, began>>
    BY <1>8, <2>1, <2>2 DEF MatchFound, Matching
  <2>5. CASE CacheKeys
    BY <1>8, <1>t, <2>4, <2>5, InnerStep DEF MatchFound
  <2>6. CASE ~CacheKeys
    <3>1. Ends(t, Outcome("key", v, i))
      BY <1>8, <1>t, <2>4, <2>6, LastStep DEF MatchFound
    <3> QED BY <1>n, <2>3, <2>4, <3>1, KeyMaps
  <2> QED BY <2>5, <2>6
<1>9. CASE MatchFails(t)
  <2>1. /\ pc[t] # "idle"
        /\ pc' = [pc EXCEPT ![t] = "idle"]
        /\ outcome' = [outcome EXCEPT ![t] = Raise("unableToFind")]
        /\ UNCHANGED <<history, kid, began, data>>
    BY <1>9 DEF MatchFails, Matching
  <2>2. DeniedFresh(t)'
    BY <1>t, <2>1 DEF IInv, DenialsAreFresh, Denied, Done, Raise, Outcome
  <2>3. /\ data[t].version \in began[t].version..Len(history)
        /\ FirstMatch(history[data[t].version], kid[t]) = {}
    BY <2>1, <2>2 DEF DeniedFresh
  <2>4. Ends(t, Raise("unableToFind"))
    BY <1>t, <2>1, LastStep
  <2> QED BY <1>n, <2>1, <2>3, <2>4, DenyMaps
<1> QED BY <1>1, <1>2, <1>3, <1>4, <1>5, <1>6, <1>7, <1>8, <1>9 DEF Proceed

\* Every step maps to a step of the directory, or stutters.
LEMMA StepMaps ==
    IInv /\ IInv' /\ FailuresOK /\ [Next]_vars => [Directory!Next]_Directory!vars
<1> SUFFICES ASSUME IInv, IInv', FailuresOK, [Next]_vars
             PROVE  Directory!Next \/ UNCHANGED Directory!vars
  OBVIOUS
<1> USE DEF Goto, Return, world, shared, frame, ghosts
<1>1. ASSUME NEW d \in Documents, Publish(d) PROVE Directory!Next
  BY <1>1, PublishMaps DEF Directory!Next
<1>2. CASE Tick
  BY <1>2 DEF Tick, Directory!vars
<1>3. ASSUME NEW t \in Threads, Start(t) PROVE Directory!Next
  <2>1. ASSUME NEW m, NEW k \in Kids \cup {NoKid}, NEW r,
               NEW l \in {"lru", "cache", "request"}, Call(t, m, k, r, l)
        PROVE  Directory!Next
    BY <2>1, CallMaps DEF Directory!Next
  <2> QED BY <1>3, <2>1 DEF Start, GetSigningKey, GetSigningKeys, GetJwkSet, FetchData
<1>4. ASSUME NEW t \in Threads, Proceed(t) PROVE Directory!Next \/ UNCHANGED Directory!vars
  BY <1>4, ProceedMaps
<1>5. ASSUME NEW t \in Threads, Network(t) PROVE Directory!Next \/ UNCHANGED Directory!vars
  <2>t. pc \in [Threads -> Locations] /\ outcome \in [Threads -> Result]
    BY DEF IInv, TypeOK
  <2>1. CASE Answer(t)
    BY <2>1, <2>t, InnerStep DEF Answer
  <2>2. CASE Receive(t)
    <3>1. CASE CacheJwkSet
      BY <2>2, <2>t, <3>1, InnerStep DEF Receive
    <3>2. CASE ~CacheJwkSet
      <4>1. data[t].version # 0
        BY <2>2 DEF Receive, IInv, VersionsOK
      <4>2. Directory!Give(t) \/ UNCHANGED Directory!vars
        BY <2>2, <3>2, <4>1, AfterFetchMaps DEF Receive
      <4> QED BY <4>2 DEF Directory!Next
    <3> QED BY <3>1, <3>2
  <2>3. ASSUME NEW failure \in Failures, FetchFails(t, failure)
        PROVE  Directory!Next \/ UNCHANGED Directory!vars
    <3>1. CASE CacheJwkSet
      BY <2>3, <2>t, <3>1, InnerStep DEF FetchFails
    <3>2. CASE ~CacheJwkSet
      <4>1. Ends(t, Raise(failure))
        BY <2>3, <2>t, <3>2, LastStep DEF FetchFails
      <4>2. Directory!Fail(t)
        BY <2>3, <4>1, FailMaps DEF FetchFails
      <4> QED BY <4>2 DEF Directory!Next
    <3> QED BY <3>1, <3>2
  <2> QED BY <1>5, <2>1, <2>2, <2>3 DEF Network
<1>6. CASE UNCHANGED vars
  BY <1>6 DEF vars, Directory!vars
<1> QED BY <1>1, <1>2, <1>3, <1>4, <1>5, <1>6 DEF Next

\* The client implements the directory of signing keys: with any number of
\* threads, caches on or off, failures and expiry, every answer it gives is one
\* the directory could give (jwks_client.py:172-198 and all it calls).
THEOREM Refinement == Spec => ImplementsDirectory
<1>1. Init => FailuresOK
  BY DEF Init, FailuresOK
<1>2. Spec => []FailuresOK
  BY <1>1, FailuresOKStep, InductiveInvariant, PTL DEF Spec
<1> QED BY <1>2, InitMaps, StepMaps, InductiveInvariant, PTL
        DEF Spec, ImplementsDirectory, Directory!Spec
=============================================================================
