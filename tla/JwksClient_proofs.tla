-------------------------- MODULE JwksClient_proofs --------------------------
(***************************************************************************)
(* Theorems about JwksClient, for every set of threads, keys and documents *)
(* and every lifespan and cache size.                                      *)
(***************************************************************************)
EXTENDS JwksClient, TLAPS

\* A key match_kid stops at is in the document and has the kid asked for,
\* which is not the absent one.
LEMMA FirstMatchFacts ==
    ASSUME NEW d \in Documents, NEW k, NEW i \in FirstMatch(d, k)
    PROVE  i \in Nat /\ k # NoKid
BY JwksAssumption DEF JwksAssumption, FirstMatch, SigningKeys, UsableKeys

\* The errors of get_jwk_set and get_signing_keys are errors, not results.
LEMMA ParseErrorKinds ==
    ASSUME NEW d \in Documents, NEW e \in JwkSetErrors(d) \cup SigningKeysErrors(d)
    PROVE  e \in {"notObject", "noSigningKeys", "PyJWKSetError"} \cup Fatal
BY DEF JwkSetErrors, SigningKeysErrors, SetErrors

-----------------------------------------------------------------------------
(* Types.                                                                  *)

\* The records the steps build have their types.
LEMMA RecordTypes ==
    /\ NoReply \in Reply
    /\ NoEntry \in Entry
    /\ \A v, a \in Nat : [version |-> v, answered |-> a] \in Reply
    /\ \A v, a, s, w \in Nat :
          [version |-> v, answered |-> a, stamp |-> s, stored |-> w] \in Entry
    /\ \A v, a \in Nat : [time |-> a, version |-> v] \in Beginning
    /\ \A kind \in Kinds, v, i \in Nat : Outcome(kind, v, i) \in Result
    /\ \A kind \in Kinds : Raise(kind) \in Result
    /\ \A k \in Kids, v, i \in Nat : [kid |-> k, version |-> v, index |-> i] \in LruEntry
BY DEF NoReply, NoEntry, Reply, Entry, Beginning, Outcome, Raise, Result, LruEntry

\* The fields of those records.
LEMMA FieldTypes ==
    /\ \A r \in Reply : r.version \in Nat /\ r.answered \in Nat
    /\ \A e \in Entry : /\ e.version \in Nat /\ e.answered \in Nat
                       /\ e.stamp \in Nat /\ e.stored \in Nat
    /\ \A r \in Result : r.kind \in Kinds /\ r.version \in Nat /\ r.index \in Nat
    /\ \A e \in LruEntry : e.kid \in Kids /\ e.version \in Nat /\ e.index \in Nat
    /\ \A b \in Beginning : b.time \in Nat /\ b.version \in Nat
BY DEF Reply, Entry, Result, LruEntry, Beginning

\* Moving an element to the end keeps the elements and the length.
LEMMA MoveToEndFacts ==
    ASSUME NEW S, NEW s \in Seq(S), NEW i \in 1..Len(s)
    PROVE  /\ MoveToEnd(s, i) \in Seq(S)
           /\ Len(MoveToEnd(s, i)) = Len(s)
           /\ \A j \in 1..Len(s) :
                 MoveToEnd(s, i)[j] = IF j < i THEN s[j]
                                      ELSE IF j < Len(s) THEN s[j + 1] ELSE s[i]
BY DEF MoveToEnd

\* Adding to the LRU cache keeps its type.
LEMMA LruAddType ==
    ASSUME NEW S, NEW s \in Seq(S), NEW e \in S
    PROVE  LruAdd(s, e) \in Seq(S)
BY JwksAssumption DEF LruAdd, JwksAssumption

USE DEF Goto, Return, NoOutcome, world, shared, frame, ghosts

\* Every step of the client, the endpoint and the clock keeps the types.
LEMMA TypeOKStep ==
    ASSUME TypeOK, VersionsOK, LookupsOK, [Next]_vars
    PROVE  TypeOK'
<1> USE JwksAssumption, RecordTypes DEF JwksAssumption
<1>h. Len(history) \in Nat
  BY DEF TypeOK
<1>d. \A t \in Threads : pc[t] = "parse" => Doc(t) \in Documents
  BY FieldTypes DEF TypeOK, VersionsOK, Doc
<1>1. ASSUME NEW d \in Documents, Publish(d) PROVE TypeOK'
  <2>1. history' \in Seq(Documents)
    BY <1>1 DEF Publish, TypeOK
  <2>2. UNCHANGED <<now, shared, frame, ghosts>>
    BY <1>1 DEF Publish
  <2> QED BY <2>1, <2>2 DEF TypeOK
<1>2. CASE Tick
  BY <1>2 DEF Tick, TypeOK
<1>3. ASSUME NEW t \in Threads, Start(t) PROVE TypeOK'
  <2>1. ASSUME NEW m \in Methods, NEW k \in Kids \cup {NoKid}, NEW r \in BOOLEAN,
               NEW l \in {"lru", "cache", "request"}, Call(t, m, k, r, l)
        PROVE  TypeOK'
    <3>1. Raise("none") \in Result
      BY DEF Kinds
    <3>2. [time |-> now, version |-> Len(history)] \in Beginning
      BY <1>h DEF TypeOK
    <3> QED BY <2>1, <3>1, <3>2 DEF Call, TypeOK, Locations
  <2> QED BY <1>3, <2>1 DEF Start, GetSigningKey, GetSigningKeys, GetJwkSet, FetchData, Methods
<1>4. ASSUME NEW t \in Threads, Proceed(t) PROVE TypeOK'
  <2>1. CASE LruHit(t)
    <3>1. PICK i \in 1..Len(lru) :
             lru' = MoveToEnd(lru, i) /\ outcome' = [outcome EXCEPT ![t] = LruKey(i)]
      BY <2>1 DEF LruHit
    <3>2. lru' \in Seq(LruEntry)
      BY <3>1, MoveToEndFacts DEF TypeOK
    <3>3. LruKey(i) \in Result
      <4>1. lru[i] \in LruEntry
        BY DEF TypeOK
      <4> QED BY <4>1, FieldTypes DEF LruKey, Kinds
    <3> QED BY <2>1, <3>1, <3>2, <3>3 DEF LruHit, TypeOK, Locations
  <2>2. CASE LruMiss(t)
    BY <2>2 DEF LruMiss, TypeOK, Locations
  <2>3. CASE LruInsert(t)
    <3>1. outcome[t].kind = "key" /\ outcome[t] \in Result
      BY <2>3 DEF LruInsert, LookupsOK, TypeOK
    <3>2. kid[t] \in Kids
      <4>1. IsPublishedKey(outcome[t].version, outcome[t].index, kid[t])
        BY <3>1 DEF LookupsOK, KeysArePublished
      <4> QED BY <4>1, FirstMatchFacts DEF IsPublishedKey, Versions, TypeOK
    <3> DEFINE e == [kid |-> kid[t], version |-> outcome[t].version, index |-> outcome[t].index]
    <3>3. e \in LruEntry
      BY <3>1, <3>2, FieldTypes
    <3>4. lru' \in Seq(LruEntry)
      BY <2>3, <3>3, LruAddType DEF LruInsert, TypeOK
    <3> QED BY <2>3, <3>4 DEF LruInsert, TypeOK, Locations
  <2>4. CASE CacheLookup(t)
    BY <2>4 DEF CacheLookup, TypeOK, Locations
  <2>5. CASE IsExpiredNone(t)
    BY <2>5 DEF IsExpiredNone, TypeOK, Locations
  <2>6. CASE ReadClock(t)
    BY <2>6 DEF ReadClock, TypeOK, Locations
  <2>7. CASE IsExpiredCompare(t)
    BY <2>7 DEF IsExpiredCompare, TypeOK, Locations
  <2>8. CASE CrashOnNone(t)
    <3>1. Raise("AttributeError") \in Result
      BY DEF Kinds
    <3> QED BY <2>8, <3>1 DEF CrashOnNone, TypeOK, Locations
  <2>9. CASE CacheReturn(t)
    <3>1. [version |-> cache.version, answered |-> cache.answered] \in Reply
      BY FieldTypes DEF TypeOK
    <3> QED BY <2>9, <3>1 DEF CacheReturn, TypeOK, Locations
  <2>10. CASE SendRequest(t)
    <3>1. requests[t] + 1 \in Nat
      BY DEF TypeOK
    <3> QED BY <2>10, <3>1 DEF SendRequest, TypeOK, Locations
  <2>11. CASE Store(t)
    <3>1. cache' \in Entry
      <4>1. /\ data[t].version \in Nat /\ data[t].answered \in Nat
            /\ stamp[t] \in Nat /\ now \in Nat
        BY FieldTypes DEF TypeOK
      <4>2. [version |-> data[t].version, answered |-> data[t].answered,
             stamp |-> stamp[t], stored |-> now] \in Entry
        BY <4>1
      <4> QED BY <2>11, <4>2 DEF Store
    <3>2. pc' \in [Threads -> Locations]
      <4>1. \E l \in {"idle", "parse"} : pc' = [pc EXCEPT ![t] = l]
        BY <2>11 DEF Store, AfterFetch
      <4>2. pc \in [Threads -> Locations]
        BY DEF TypeOK
      <4> QED BY <4>1, <4>2 DEF Locations
    <3>3. outcome' \in [Threads -> Result]
      <4>1. Outcome("document", data[t].version, 0) \in Result
        BY FieldTypes DEF TypeOK, Kinds
      <4> QED BY <2>11, <4>1 DEF Store, AfterFetch, TypeOK
    <3> QED BY <2>11, <3>1, <3>2, <3>3 DEF Store, TypeOK
  <2>12. CASE ParseRaises(t)
    <3>1. PICK e \in ParseErrors(t) : outcome' = [outcome EXCEPT ![t] = Raise(e)]
      BY <2>12 DEF ParseRaises
    <3>2. e \in JwkSetErrors(Doc(t)) \cup SigningKeysErrors(Doc(t))
      BY DEF ParseErrors
    <3>3. e \in Kinds
      BY <2>12, <3>2, <1>d, ParseErrorKinds DEF ParseRaises, Kinds
    <3> QED BY <2>12, <3>1, <3>3 DEF ParseRaises, TypeOK, Locations
  <2>13. CASE ReturnSet(t)
    <3>1. Outcome("set", data[t].version, 0) \in Result
      BY FieldTypes DEF TypeOK, Kinds
    <3> QED BY <2>13, <3>1 DEF ReturnSet, TypeOK, Locations
  <2>14. CASE MatchFound(t)
    <3>1. PICK i \in FirstMatch(Doc(t), kid[t]) :
             outcome' = [outcome EXCEPT ![t] = Outcome("key", data[t].version, i)]
      BY <2>14 DEF MatchFound
    <3>2. i \in Nat
      BY <2>14, <1>d, FirstMatchFacts DEF MatchFound, Matching
    <3>3. Outcome("key", data[t].version, i) \in Result
      BY <3>2, FieldTypes DEF TypeOK, Kinds
    <3> QED BY <2>14, <3>1, <3>3 DEF MatchFound, TypeOK, Locations
  <2>15. CASE MatchRefresh(t)
    BY <2>15 DEF MatchRefresh, TypeOK, Locations
  <2>16. CASE MatchFails(t)
    <3>1. Raise("unableToFind") \in Result
      BY DEF Kinds
    <3> QED BY <2>16, <3>1 DEF MatchFails, TypeOK, Locations
  <2> QED BY <1>4, <2>1, <2>2, <2>3, <2>4, <2>5, <2>6, <2>7, <2>8, <2>9, <2>10, <2>11,
             <2>12, <2>13, <2>14, <2>15, <2>16 DEF Proceed
<1>5. ASSUME NEW t \in Threads, Network(t) PROVE TypeOK'
  <2>1. CASE Answer(t)
    <3>1. [version |-> Len(history), answered |-> now] \in Reply
      BY <1>h DEF TypeOK
    <3>2. newest' \in Nat
      BY <2>1, <1>h DEF Answer
    <3> QED BY <2>1, <3>1, <3>2 DEF Answer, TypeOK, Locations
  <2>2. CASE Receive(t)
    <3>1. Outcome("document", data[t].version, 0) \in Result
      BY FieldTypes DEF TypeOK, Kinds
    <3>2. stamp' \in [Threads -> Nat]
      <4>1. stamp' = stamp \/ \E n \in {0, now} : stamp' = [stamp EXCEPT ![t] = n]
        BY <2>2 DEF Receive
      <4>2. stamp \in [Threads -> Nat] /\ now \in Nat
        BY DEF TypeOK
      <4> QED BY <4>1, <4>2
    <3>3. sentAfter' \in [Threads -> Nat]
      <4>1. sentAfter' = sentAfter \/ sentAfter' = [sentAfter EXCEPT ![t] = 0]
        BY <2>2 DEF Receive
      <4>2. sentAfter \in [Threads -> Nat]
        BY DEF TypeOK
      <4> QED BY <4>1, <4>2
    <3>4. pc' \in [Threads -> Locations]
      BY <2>2 DEF Receive, AfterFetch, TypeOK, Locations
    <3>5. outcome' \in [Threads -> Result]
      BY <2>2, <3>1 DEF Receive, AfterFetch, TypeOK
    <3> QED BY <2>2, <3>2, <3>3, <3>4, <3>5 DEF Receive, TypeOK
  <2>3. ASSUME NEW f \in Failures, FetchFails(t, f) PROVE TypeOK'
    <3>1. Raise(f) \in Result
      BY DEF Kinds
    <3>2. pc' \in [Threads -> Locations]
      BY <2>3 DEF FetchFails, TypeOK, Locations
    <3>3. sentAfter' \in [Threads -> Nat]
      <4>1. sentAfter' = sentAfter \/ sentAfter' = [sentAfter EXCEPT ![t] = 0]
        BY <2>3 DEF FetchFails
      <4>2. sentAfter \in [Threads -> Nat]
        BY DEF TypeOK
      <4> QED BY <4>1, <4>2
    <3> QED BY <2>3, <3>1, <3>2, <3>3 DEF FetchFails, TypeOK
  <2> QED BY <1>5, <2>1, <2>2, <2>3 DEF Network
<1>6. CASE UNCHANGED vars
  BY <1>6 DEF vars, TypeOK
<1> QED BY <1>1, <1>2, <1>3, <1>4, <1>5, <1>6 DEF Next

\* Every step keeps the documents in hand and in the cache published ones, and
\* gives one to each thread that reads or parses.
LEMMA VersionsOKStep ==
    ASSUME TypeOK, VersionsOK, [Next]_vars
    PROVE  VersionsOK'
<1> USE JwksAssumption, FieldTypes DEF JwksAssumption
<1>h. Len(history) \in Nat
  BY DEF TypeOK
<1>1. ASSUME NEW d \in Documents, Publish(d) PROVE VersionsOK'
  BY <1>1 DEF Publish, VersionsOK, TypeOK, NoReply, NoEntry
<1>2. CASE Tick
  BY <1>2 DEF Tick, VersionsOK, TypeOK, NoReply, NoEntry
<1>3. ASSUME NEW t \in Threads, Start(t) PROVE VersionsOK'
  <2>1. ASSUME NEW m \in Methods, NEW k \in Kids \cup {NoKid}, NEW r \in BOOLEAN,
               NEW l \in {"lru", "cache", "request"}, Call(t, m, k, r, l)
        PROVE  VersionsOK'
    BY <2>1 DEF Call, VersionsOK, TypeOK, NoReply, NoEntry
  <2> QED BY <1>3, <2>1 DEF Start, GetSigningKey, GetSigningKeys, GetJwkSet, FetchData, Methods
<1>4. ASSUME NEW t \in Threads, Proceed(t) PROVE VersionsOK'
  <2>1. CASE LruHit(t)
    BY <2>1 DEF LruHit, VersionsOK, TypeOK, NoReply, NoEntry
  <2>2. CASE LruMiss(t)
    BY <2>2 DEF LruMiss, VersionsOK, TypeOK, NoReply, NoEntry
  <2>3. CASE LruInsert(t)
    BY <2>3 DEF LruInsert, VersionsOK, TypeOK, NoReply, NoEntry
  <2>4. CASE CacheLookup(t)
    BY <2>4 DEF CacheLookup, VersionsOK, TypeOK, NoReply, NoEntry
  <2>5. CASE IsExpiredNone(t)
    BY <2>5 DEF IsExpiredNone, VersionsOK, TypeOK, NoReply, NoEntry
  <2>6. CASE ReadClock(t)
    BY <2>6 DEF ReadClock, VersionsOK, TypeOK, NoReply, NoEntry
  <2>7. CASE IsExpiredCompare(t)
    BY <2>7 DEF IsExpiredCompare, VersionsOK, TypeOK, NoReply, NoEntry
  <2>8. CASE CrashOnNone(t)
    BY <2>8 DEF CrashOnNone, VersionsOK, TypeOK, NoReply, NoEntry
  <2>9. CASE CacheReturn(t)
    BY <2>9 DEF CacheReturn, VersionsOK, TypeOK, NoReply, NoEntry
  <2>10. CASE SendRequest(t)
    BY <2>10 DEF SendRequest, VersionsOK, TypeOK, NoReply, NoEntry
  <2>11. CASE Store(t)
    <3>1. UNCHANGED <<history, data>>
      BY <2>11 DEF Store
    <3>2. cache' = NoEntry \/ (cache'.version = data[t].version /\ data[t] # NoReply)
      BY <2>11 DEF Store
    <3>3. \/ pc' = [pc EXCEPT ![t] = "idle"]
          \/ pc' = [pc EXCEPT ![t] = "parse"] /\ data[t] # NoReply
      BY <2>11 DEF Store, AfterFetch
    <3>4. data[t].version \in 1..Len(history) \/ data[t] = NoReply
      BY <1>h DEF VersionsOK
    <3>5. cache'.version \in 0..Len(history) /\ (cache'.version = 0 => cache' = NoEntry)
      BY <3>2, <3>4, <1>h DEF NoEntry
    <3>6. ASSUME NEW u \in Threads
          PROVE  /\ pc'[u] \in {"reading", "parse"} => data[u].version # 0
                 /\ pc'[u] = "lru" => data[u].version = 0
      <4>1. CASE u = t
        BY <3>3, <3>4, <4>1 DEF TypeOK
      <4>2. CASE u # t
        BY <3>3, <4>2 DEF VersionsOK, TypeOK
      <4> QED BY <4>1, <4>2
    <3> QED BY <3>1, <3>5, <3>6 DEF VersionsOK
  <2>12. CASE ParseRaises(t)
    BY <2>12 DEF ParseRaises, VersionsOK, TypeOK, NoReply, NoEntry
  <2>13. CASE ReturnSet(t)
    BY <2>13 DEF ReturnSet, VersionsOK, TypeOK, NoReply, NoEntry
  <2>14. CASE MatchFound(t)
    BY <2>14 DEF MatchFound, Matching, VersionsOK, TypeOK, NoReply, NoEntry
  <2>15. CASE MatchRefresh(t)
    BY <2>15 DEF MatchRefresh, Matching, VersionsOK, TypeOK, NoReply, NoEntry
  <2>16. CASE MatchFails(t)
    BY <2>16 DEF MatchFails, Matching, VersionsOK, TypeOK, NoReply, NoEntry
  <2> QED BY <1>4, <2>1, <2>2, <2>3, <2>4, <2>5, <2>6, <2>7, <2>8, <2>9, <2>10, <2>11,
             <2>12, <2>13, <2>14, <2>15, <2>16 DEF Proceed
<1>5. ASSUME NEW t \in Threads, Network(t) PROVE VersionsOK'
  <2>1. CASE Answer(t)
    BY <2>1 DEF Answer, VersionsOK, TypeOK, NoReply, NoEntry
  <2>2. CASE Receive(t)
    BY <2>2 DEF Receive, AfterFetch, VersionsOK, TypeOK, NoReply, NoEntry
  <2>3. ASSUME NEW f \in Failures, FetchFails(t, f) PROVE VersionsOK'
    BY <2>3 DEF FetchFails, VersionsOK, TypeOK, NoReply, NoEntry
  <2> QED BY <1>5, <2>1, <2>2, <2>3 DEF Network
<1>6. CASE UNCHANGED vars
  BY <1>6 DEF vars, VersionsOK, TypeOK, NoReply, NoEntry
<1> QED BY <1>1, <1>2, <1>3, <1>4, <1>5, <1>6 DEF Next

\* What the LRU cache holds after a hit is what it held before.
LEMMA MoveToEndKeeps ==
    ASSUME NEW S, NEW s \in Seq(S), NEW i \in 1..Len(s), NEW j \in 1..Len(s)
    PROVE  \E m \in 1..Len(s) : /\ MoveToEnd(s, i)[j] = s[m]
                                /\ m = IF j < i THEN j ELSE IF j < Len(s) THEN j + 1 ELSE i
<1> DEFINE m == IF j < i THEN j ELSE IF j < Len(s) THEN j + 1 ELSE i
<1>1. m \in 1..Len(s)
  OBVIOUS
<1>2. MoveToEnd(s, i)[j] = s[m]
  BY MoveToEndFacts
<1> QED BY <1>1, <1>2

\* Adding an entry to the LRU cache adds nothing but that entry.
LEMMA LruAddFacts ==
    ASSUME NEW s \in Seq(LruEntry), NEW e \in LruEntry
    PROVE  \A a \in 1..Len(LruAdd(s, e)) :
              LruAdd(s, e)[a] = e \/ \E b \in 1..Len(s) : LruAdd(s, e)[a] = s[b]
<1> USE JwksAssumption DEF JwksAssumption
<1>1. CASE MaxCachedKeys = 0 \/ \E a \in 1..Len(s) : s[a].kid = e.kid
  BY <1>1 DEF LruAdd
<1>2. CASE /\ MaxCachedKeys # 0
           /\ \A a \in 1..Len(s) : s[a].kid # e.kid
           /\ Len(s) < MaxCachedKeys
  <2>1. LruAdd(s, e) = Append(s, e)
    BY <1>2 DEF LruAdd
  <2>2. /\ Len(Append(s, e)) = Len(s) + 1
        /\ \A a \in 1..Len(s) : Append(s, e)[a] = s[a]
        /\ Append(s, e)[Len(s) + 1] = e
    OBVIOUS
  <2> QED BY <2>1, <2>2
<1>3. CASE /\ MaxCachedKeys # 0
           /\ \A a \in 1..Len(s) : s[a].kid # e.kid
           /\ ~(Len(s) < MaxCachedKeys)
  <2>1. LruAdd(s, e) = Append(Tail(s), e)
    BY <1>3 DEF LruAdd
  <2>2. /\ Len(Append(Tail(s), e)) = Len(s)
        /\ \A a \in 1..(Len(s) - 1) : Append(Tail(s), e)[a] = s[a + 1]
        /\ Append(Tail(s), e)[Len(s)] = e
    BY <1>3
  <2> QED BY <2>1, <2>2
<1> QED BY <1>1, <1>2, <1>3

\* What was published stays published.
LEMMA PublishedStable ==
    ASSUME TypeOK, history' = history \/ \E d \in Documents : history' = Append(history, d)
    PROVE  \A v, i, k : IsPublishedKey(v, i, k) => IsPublishedKey(v, i, k)'
<1> SUFFICES ASSUME NEW v, NEW i, NEW k, IsPublishedKey(v, i, k)
             PROVE  IsPublishedKey(v, i, k)'
  OBVIOUS
<1>1. v \in 1..Len(history) /\ i \in FirstMatch(history[v], k)
  BY DEF IsPublishedKey, Versions
<1>2. v \in 1..Len(history') /\ history'[v] = history[v]
  <2>1. CASE history' = history
    BY <1>1, <2>1
  <2>2. ASSUME NEW d \in Documents, history' = Append(history, d)
        PROVE  v \in 1..Len(history') /\ history'[v] = history[v]
    BY <1>1, <2>2 DEF TypeOK
  <2> QED BY <2>1, <2>2
<1> QED BY <1>1, <1>2 DEF IsPublishedKey, Versions

\* Every step keeps the keys that lookups return, and those of the LRU cache,
\* published ones.
LEMMA LookupsOKStep ==
    ASSUME TypeOK, VersionsOK, LookupsOK, [Next]_vars
    PROVE  LookupsOK'
<1> USE JwksAssumption, FieldTypes DEF JwksAssumption
<1>1. ASSUME NEW d \in Documents, Publish(d) PROVE LookupsOK'
  <2>1. \A v, i, k : IsPublishedKey(v, i, k) => IsPublishedKey(v, i, k)'
    BY <1>1, PublishedStable DEF Publish
  <2>2. UNCHANGED <<pc, kid, outcome, lru>>
    BY <1>1 DEF Publish, frame, shared
  <2>3. KeysArePublished'
    BY <2>1, <2>2 DEF LookupsOK, KeysArePublished
  <2> QED BY <2>2, <2>3 DEF LookupsOK
<1>2. CASE Tick
  BY <1>2 DEF Tick, LookupsOK, KeysArePublished, IsPublishedKey, Versions, TypeOK, Outcome, Raise
<1>3. ASSUME NEW t \in Threads, Start(t) PROVE LookupsOK'
  <2>1. ASSUME NEW m \in Methods, NEW k \in Kids \cup {NoKid}, NEW r \in BOOLEAN,
               NEW l \in {"lru", "cache", "request"}, Call(t, m, k, r, l)
        PROVE  LookupsOK'
    BY <2>1 DEF Call, LookupsOK, KeysArePublished, IsPublishedKey, Versions, TypeOK, Outcome, Raise
  <2> QED BY <1>3, <2>1 DEF Start, GetSigningKey, GetSigningKeys, GetJwkSet, FetchData, Methods
<1>4. ASSUME NEW t \in Threads, Proceed(t) PROVE LookupsOK'
  <2>1. CASE LruHit(t)
    <3>1. PICK i \in 1..Len(lru) :
             /\ lru[i].kid = kid[t]
             /\ lru' = MoveToEnd(lru, i)
             /\ outcome' = [outcome EXCEPT ![t] = LruKey(i)]
      BY <2>1 DEF LruHit
    <3>2. \A j \in 1..Len(lru') : \E m \in 1..Len(lru) : lru'[j] = lru[m]
      <4>1. ASSUME NEW j \in 1..Len(lru)
            PROVE  \E m \in 1..Len(lru) : MoveToEnd(lru, i)[j] = lru[m]
        BY MoveToEndKeeps DEF TypeOK
      <4>2. Len(MoveToEnd(lru, i)) = Len(lru)
        BY MoveToEndFacts DEF TypeOK
      <4> QED BY <3>1, <4>1, <4>2
    <3>5. IsPublishedKey(LruKey(i).version, LruKey(i).index, kid[t])
      BY <3>1 DEF LookupsOK, KeysArePublished, LruKey, Outcome
    <3>6. KeysArePublished'
      <4>1. \A v, x, k : IsPublishedKey(v, x, k) => IsPublishedKey(v, x, k)'
        BY <2>1, PublishedStable DEF LruHit
      <4>2. ASSUME NEW u \in Threads, outcome[u].kind' = "key"
            PROVE  IsPublishedKey(outcome[u].version, outcome[u].index, kid[u])'
        <5>1. kid' = kid /\ outcome \in [Threads -> Result]
          BY <2>1 DEF LruHit, TypeOK
        <5>2. CASE u = t
          <6>1. outcome'[u] = LruKey(i)
            BY <3>1, <5>1, <5>2
          <6> QED BY <3>5, <4>1, <5>1, <5>2, <6>1
        <5>3. CASE u # t
          <6>1. outcome'[u] = outcome[u]
            BY <3>1, <5>1, <5>3
          <6>2. IsPublishedKey(outcome[u].version, outcome[u].index, kid[u])
            BY <4>2, <6>1 DEF LookupsOK, KeysArePublished
          <6> QED BY <4>1, <5>1, <6>1, <6>2
        <5> QED BY <5>2, <5>3
      <4>3. ASSUME NEW j \in 1..Len(lru')
            PROVE  IsPublishedKey(lru[j].version, lru[j].index, lru[j].kid)'
        <5>1. PICK m \in 1..Len(lru) : lru'[j] = lru[m]
          BY <3>2
        <5>2. IsPublishedKey(lru[m].version, lru[m].index, lru[m].kid)
          BY DEF LookupsOK, KeysArePublished
        <5> QED BY <4>1, <5>1, <5>2
      <4> QED BY <4>2, <4>3 DEF KeysArePublished
    <3> QED BY <2>1, <3>1, <3>6 DEF LruHit, LookupsOK, TypeOK
  <2>2. CASE LruMiss(t)
    BY <2>2 DEF LruMiss, LookupsOK, KeysArePublished, IsPublishedKey, Versions, TypeOK, Outcome, Raise
  <2>3. CASE LruInsert(t)
    <3> DEFINE e == [kid |-> kid[t], version |-> outcome[t].version, index |-> outcome[t].index]
    <3>1. outcome[t].kind = "key" /\ IsPublishedKey(e.version, e.index, e.kid)
      BY <2>3 DEF LruInsert, LookupsOK, KeysArePublished
    <3>2. e \in LruEntry
      <4>1. kid[t] \in Kids
        BY <3>1, FirstMatchFacts DEF IsPublishedKey, Versions, TypeOK
      <4> QED BY <4>1, RecordTypes DEF TypeOK
    <3> HIDE DEF e
    <3>3. lru' = LruAdd(lru, e)
      BY <2>3 DEF LruInsert, e
    <3>4. \A a \in 1..Len(lru') : lru'[a] = e \/ \E b \in 1..Len(lru) : lru'[a] = lru[b]
      <4>1. lru \in Seq(LruEntry)
        BY DEF TypeOK
      <4>2. \A a \in 1..Len(LruAdd(lru, e)) :
               LruAdd(lru, e)[a] = e \/ \E b \in 1..Len(lru) : LruAdd(lru, e)[a] = lru[b]
        BY <3>2, <4>1, LruAddFacts
      <4> QED BY <3>3, <4>2
    <3>5. KeysArePublished'
      <4>1. \A v, x, k : IsPublishedKey(v, x, k) => IsPublishedKey(v, x, k)'
        BY <2>3, PublishedStable DEF LruInsert
      <4> QED BY <2>3, <3>1, <3>4, <4>1 DEF LruInsert, LookupsOK, KeysArePublished
    <3> QED BY <2>3, <3>5 DEF LruInsert, LookupsOK, TypeOK
  <2>4. CASE CacheLookup(t)
    BY <2>4 DEF CacheLookup, LookupsOK, KeysArePublished, IsPublishedKey, Versions, TypeOK, Outcome, Raise
  <2>5. CASE IsExpiredNone(t)
    BY <2>5 DEF IsExpiredNone, LookupsOK, KeysArePublished, IsPublishedKey, Versions, TypeOK, Outcome, Raise
  <2>6. CASE ReadClock(t)
    BY <2>6 DEF ReadClock, LookupsOK, KeysArePublished, IsPublishedKey, Versions, TypeOK, Outcome, Raise
  <2>7. CASE IsExpiredCompare(t)
    BY <2>7 DEF IsExpiredCompare, LookupsOK, KeysArePublished, IsPublishedKey, Versions, TypeOK, Outcome, Raise
  <2>8. CASE CrashOnNone(t)
    BY <2>8 DEF CrashOnNone, LookupsOK, KeysArePublished, IsPublishedKey, Versions, TypeOK, Outcome, Raise
  <2>9. CASE CacheReturn(t)
    BY <2>9 DEF CacheReturn, LookupsOK, KeysArePublished, IsPublishedKey, Versions, TypeOK, Outcome, Raise
  <2>10. CASE SendRequest(t)
    BY <2>10 DEF SendRequest, LookupsOK, KeysArePublished, IsPublishedKey, Versions, TypeOK, Outcome, Raise
  <2>11. CASE Store(t)
    <3>1. \/ outcome' = outcome
          \/ outcome' = [outcome EXCEPT ![t] = Outcome("document", data[t].version, 0)]
      BY <2>11 DEF Store, AfterFetch
    <3>2. KeysArePublished'
      <4>1. \A v, x, k : IsPublishedKey(v, x, k) => IsPublishedKey(v, x, k)'
        BY <2>11, PublishedStable DEF Store
      <4>2. UNCHANGED <<kid, lru>>
        BY <2>11 DEF Store
      <4>3. \A u \in Threads : outcome'[u].kind = "key" => outcome'[u] = outcome[u]
        BY <3>1 DEF Outcome, TypeOK
      <4> QED BY <4>1, <4>2, <4>3 DEF LookupsOK, KeysArePublished
    <3>3. outcome'[t].kind # "unableToFind" /\ pc'[t] # "insert"
      BY <2>11, <3>1 DEF Store, AfterFetch, LookupsOK, Outcome, TypeOK
    <3>4. \A u \in Threads \ {t} : pc'[u] = pc[u] /\ outcome'[u] = outcome[u]
      BY <2>11, <3>1 DEF Store, AfterFetch, TypeOK
    <3> QED BY <2>11, <3>2, <3>3, <3>4 DEF Store, LookupsOK
  <2>12. CASE ParseRaises(t)
    <3>1. PICK e \in JwkSetErrors(Doc(t)) \cup SigningKeysErrors(Doc(t)) :
             outcome' = [outcome EXCEPT ![t] = Raise(e)]
      BY <2>12 DEF ParseRaises, ParseErrors
    <3>2. e # "key"
      <4>1. Doc(t) \in Documents
        BY <2>12 DEF ParseRaises, VersionsOK, TypeOK, Doc
      <4> QED BY <4>1, ParseErrorKinds DEF Fatal
    <3> QED BY <2>12, <3>1, <3>2 DEF ParseRaises, LookupsOK, KeysArePublished, IsPublishedKey, Versions, Raise, Outcome, TypeOK
  <2>13. CASE ReturnSet(t)
    BY <2>13 DEF ReturnSet, LookupsOK, KeysArePublished, IsPublishedKey, Versions, TypeOK, Outcome, Raise
  <2>14. CASE MatchFound(t)
    <3>1. PICK i \in FirstMatch(Doc(t), kid[t]) :
             outcome' = [outcome EXCEPT ![t] = Outcome("key", data[t].version, i)]
      BY <2>14 DEF MatchFound
    <3>2. IsPublishedKey(data[t].version, i, kid[t])
      BY <2>14, <3>1 DEF MatchFound, Matching, IsPublishedKey, Versions, Doc, VersionsOK, TypeOK
    <3>3. KeysArePublished'
      <4>1. \A v, x, k : IsPublishedKey(v, x, k) => IsPublishedKey(v, x, k)'
        BY <2>14, PublishedStable DEF MatchFound
      <4> QED BY <2>14, <3>1, <3>2, <4>1 DEF MatchFound, LookupsOK, KeysArePublished, Outcome, TypeOK
    <3> QED BY <2>14, <3>1, <3>3 DEF MatchFound, LookupsOK, Outcome, TypeOK
  <2>15. CASE MatchRefresh(t)
    BY <2>15 DEF MatchRefresh, Matching, LookupsOK, KeysArePublished, IsPublishedKey, Versions, TypeOK, Outcome, Raise
  <2>16. CASE MatchFails(t)
    BY <2>16 DEF MatchFails, Matching, LookupsOK, KeysArePublished, IsPublishedKey, Versions, TypeOK, Outcome, Raise
  <2> QED BY <1>4, <2>1, <2>2, <2>3, <2>4, <2>5, <2>6, <2>7, <2>8, <2>9, <2>10, <2>11,
             <2>12, <2>13, <2>14, <2>15, <2>16 DEF Proceed
<1>5. ASSUME NEW t \in Threads, Network(t) PROVE LookupsOK'
  <2>1. CASE Answer(t)
    BY <2>1 DEF Answer, LookupsOK, KeysArePublished, IsPublishedKey, Versions, TypeOK, Outcome, Raise
  <2>2. CASE Receive(t)
    <3>1. \/ outcome' = outcome
          \/ outcome' = [outcome EXCEPT ![t] = Outcome("document", data[t].version, 0)]
      BY <2>2 DEF Receive, AfterFetch
    <3>2. KeysArePublished'
      <4>1. \A v, x, k : IsPublishedKey(v, x, k) => IsPublishedKey(v, x, k)'
        BY <2>2, PublishedStable DEF Receive
      <4>2. UNCHANGED <<kid, lru>>
        BY <2>2 DEF Receive
      <4>3. \A u \in Threads : outcome'[u].kind = "key" => outcome'[u] = outcome[u]
        BY <3>1 DEF Outcome, TypeOK
      <4> QED BY <4>1, <4>2, <4>3 DEF LookupsOK, KeysArePublished
    <3>3. outcome'[t].kind # "unableToFind" /\ pc'[t] # "insert"
      BY <2>2, <3>1 DEF Receive, AfterFetch, LookupsOK, Outcome, TypeOK
    <3>4. \A u \in Threads \ {t} : pc'[u] = pc[u] /\ outcome'[u] = outcome[u]
      BY <2>2, <3>1 DEF Receive, AfterFetch, TypeOK
    <3> QED BY <2>2, <3>2, <3>3, <3>4 DEF Receive, LookupsOK
  <2>3. ASSUME NEW f \in Failures, FetchFails(t, f) PROVE LookupsOK'
    <3>1. KeysArePublished'
      BY <2>3 DEF FetchFails, LookupsOK, KeysArePublished, IsPublishedKey, Versions, Raise, Outcome, Failures, TypeOK
    <3>2. outcome'[t].kind # "unableToFind" /\ pc'[t] # "insert"
      BY <2>3 DEF FetchFails, Raise, Outcome, Failures, TypeOK
    <3>3. \A u \in Threads : u # t => pc'[u] = pc[u] /\ outcome'[u] = outcome[u]
      BY <2>3 DEF FetchFails, TypeOK
    <3> QED BY <2>3, <3>1, <3>2, <3>3 DEF FetchFails, LookupsOK
  <2> QED BY <1>5, <2>1, <2>2, <2>3 DEF Network
<1>6. CASE UNCHANGED vars
  BY <1>6 DEF vars, LookupsOK, KeysArePublished, IsPublishedKey, Versions, TypeOK, Outcome, Raise
<1> QED BY <1>1, <1>2, <1>3, <1>4, <1>5, <1>6 DEF Next

\* Every step keeps each call within the requests it may send: the refresh is
\* the only way to a second one.
LEMMA BudgetOKStep ==
    ASSUME TypeOK, BudgetOK, [Next]_vars
    PROVE  BudgetOK'
<1> USE JwksAssumption, FieldTypes DEF JwksAssumption
<1>1. ASSUME NEW d \in Documents, Publish(d) PROVE BudgetOK'
  BY <1>1 DEF Publish, BudgetOK, Budget, TypeOK
<1>2. CASE Tick
  BY <1>2 DEF Tick, BudgetOK, Budget, TypeOK
<1>3. ASSUME NEW t \in Threads, Start(t) PROVE BudgetOK'
  <2>1. ASSUME NEW m \in Methods, NEW k \in Kids \cup {NoKid}, NEW r \in BOOLEAN,
               NEW l \in {"lru", "cache", "request"}, Call(t, m, k, r, l)
        PROVE  BudgetOK'
    BY <2>1 DEF Call, BudgetOK, Budget, TypeOK
  <2> QED BY <1>3, <2>1 DEF Start, GetSigningKey, GetSigningKeys, GetJwkSet, FetchData, Methods
<1>4. ASSUME NEW t \in Threads, Proceed(t) PROVE BudgetOK'
  <2>1. CASE LruHit(t)
    BY <2>1 DEF LruHit, BudgetOK, Budget, TypeOK
  <2>2. CASE LruMiss(t)
    BY <2>2 DEF LruMiss, BudgetOK, Budget, TypeOK
  <2>3. CASE LruInsert(t)
    BY <2>3 DEF LruInsert, BudgetOK, Budget, TypeOK
  <2>4. CASE CacheLookup(t)
    BY <2>4 DEF CacheLookup, BudgetOK, Budget, TypeOK
  <2>5. CASE IsExpiredNone(t)
    BY <2>5 DEF IsExpiredNone, BudgetOK, Budget, TypeOK
  <2>6. CASE ReadClock(t)
    BY <2>6 DEF ReadClock, BudgetOK, Budget, TypeOK
  <2>7. CASE IsExpiredCompare(t)
    BY <2>7 DEF IsExpiredCompare, BudgetOK, Budget, TypeOK
  <2>8. CASE CrashOnNone(t)
    BY <2>8 DEF CrashOnNone, BudgetOK, Budget, TypeOK
  <2>9. CASE CacheReturn(t)
    BY <2>9 DEF CacheReturn, BudgetOK, Budget, TypeOK
  <2>10. CASE SendRequest(t)
    BY <2>10 DEF SendRequest, BudgetOK, Budget, TypeOK
  <2>11. CASE Store(t)
    BY <2>11 DEF Store, AfterFetch, BudgetOK, Budget, TypeOK
  <2>12. CASE ParseRaises(t)
    BY <2>12 DEF ParseRaises, BudgetOK, Budget, TypeOK
  <2>13. CASE ReturnSet(t)
    BY <2>13 DEF ReturnSet, BudgetOK, Budget, TypeOK
  <2>14. CASE MatchFound(t)
    BY <2>14 DEF MatchFound, Matching, BudgetOK, Budget, TypeOK
  <2>15. CASE MatchRefresh(t)
    BY <2>15 DEF MatchRefresh, Matching, BudgetOK, Budget, TypeOK
  <2>16. CASE MatchFails(t)
    BY <2>16 DEF MatchFails, Matching, BudgetOK, Budget, TypeOK
  <2> QED BY <1>4, <2>1, <2>2, <2>3, <2>4, <2>5, <2>6, <2>7, <2>8, <2>9, <2>10, <2>11,
             <2>12, <2>13, <2>14, <2>15, <2>16 DEF Proceed
<1>5. ASSUME NEW t \in Threads, Network(t) PROVE BudgetOK'
  <2>1. CASE Answer(t)
    BY <2>1 DEF Answer, BudgetOK, Budget, TypeOK
  <2>2. CASE Receive(t)
    BY <2>2 DEF Receive, AfterFetch, BudgetOK, Budget, TypeOK
  <2>3. ASSUME NEW f \in Failures, FetchFails(t, f) PROVE BudgetOK'
    BY <2>3 DEF FetchFails, BudgetOK, Budget, TypeOK
  <2> QED BY <1>5, <2>1, <2>2, <2>3 DEF Network
<1>6. CASE UNCHANGED vars
  BY <1>6 DEF vars, BudgetOK, Budget, TypeOK
<1> QED BY <1>1, <1>2, <1>3, <1>4, <1>5, <1>6 DEF Next

\* Every step keeps the bounds between the times of a call, the answer in hand and
\* the cached entry.
LEMMA TimesOKStep ==
    ASSUME TypeOK, VersionsOK, TimesOK, [Next]_vars
    PROVE  TimesOK'
<1> USE JwksAssumption, FieldTypes DEF JwksAssumption
<1>1. ASSUME NEW d \in Documents, Publish(d) PROVE TimesOK'
  <2>1. Len(history') \in Nat /\ Len(history) \in Nat /\ Len(history') = Len(history) + 1
    BY <1>1 DEF Publish, TypeOK
  <2>2. UNCHANGED <<now, shared, frame, ghosts>>
    BY <1>1 DEF Publish
  <2>3. ASSUME NEW t \in Threads PROVE ThreadTimes(t)'
    <3>1. ThreadTimes(t) /\ began[t].version \in Nat
      BY DEF TimesOK, TypeOK
    <3> QED BY <2>1, <2>2, <3>1 DEF ThreadTimes, Fresh
  <2> QED BY <2>2, <2>3 DEF TimesOK
<1>2. CASE Tick
  BY <1>2 DEF Tick, TimesOK, ThreadTimes, Fresh, VersionsOK, TypeOK, NoReply, NoEntry
<1>3. ASSUME NEW t \in Threads, Start(t) PROVE TimesOK'
  <2>1. ASSUME NEW m \in Methods, NEW k \in Kids \cup {NoKid}, NEW r \in BOOLEAN,
               NEW l \in {"lru", "cache", "request"}, Call(t, m, k, r, l)
        PROVE  TimesOK'
    BY <2>1 DEF Call, TimesOK, ThreadTimes, Fresh, VersionsOK, TypeOK, NoReply, NoEntry
  <2> QED BY <1>3, <2>1 DEF Start, GetSigningKey, GetSigningKeys, GetJwkSet, FetchData, Methods
<1>4. ASSUME NEW t \in Threads, Proceed(t) PROVE TimesOK'
  <2>1. CASE LruHit(t)
    BY <2>1 DEF LruHit, TimesOK, ThreadTimes, Fresh, VersionsOK, TypeOK, NoReply, NoEntry
  <2>2. CASE LruMiss(t)
    BY <2>2 DEF LruMiss, TimesOK, ThreadTimes, Fresh, VersionsOK, TypeOK, NoReply, NoEntry
  <2>3. CASE LruInsert(t)
    BY <2>3 DEF LruInsert, TimesOK, ThreadTimes, Fresh, VersionsOK, TypeOK, NoReply, NoEntry
  <2>4. CASE CacheLookup(t)
    BY <2>4 DEF CacheLookup, TimesOK, ThreadTimes, Fresh, VersionsOK, TypeOK, NoReply, NoEntry
  <2>5. CASE IsExpiredNone(t)
    BY <2>5 DEF IsExpiredNone, TimesOK, ThreadTimes, Fresh, VersionsOK, TypeOK, NoReply, NoEntry
  <2>6. CASE ReadClock(t)
    BY <2>6 DEF ReadClock, TimesOK, ThreadTimes, Fresh, VersionsOK, TypeOK, NoReply, NoEntry
  <2>7. CASE IsExpiredCompare(t)
    <3>1. ASSUME NEW u \in Threads, u # t PROVE ThreadTimes(u)'
      BY <2>7, <3>1 DEF IsExpiredCompare, TimesOK, ThreadTimes, Fresh, VersionsOK, TypeOK, NoReply, NoEntry
    <3>2. ThreadTimes(t)'
      <4>1. pc'[t] = "reread" => clock[t] <= cache.stamp + Lifespan
        BY <2>7 DEF IsExpiredCompare, TypeOK
      <4>2. pc'[t] = "reread" => began[t].time <= cache.stored + Lifespan
        <5>1. /\ cache.stamp \in Nat /\ cache.stored \in Nat
              /\ began[t].time \in Nat /\ clock[t] \in Nat
          BY DEF TypeOK
        <5>2. cache.stamp <= cache.stored /\ began[t].time <= clock[t]
          BY <2>7 DEF IsExpiredCompare, TimesOK, ThreadTimes
        <5> QED BY <4>1, <5>1, <5>2
      <4>3. pc'[t] \in {"request", "reread"}
        BY <2>7 DEF IsExpiredCompare, TypeOK
      <4>4. CacheJwkSet /\ ~refresh[t]
        BY <2>7 DEF IsExpiredCompare, TimesOK, ThreadTimes
      <4> QED BY <2>7, <4>2, <4>3, <4>4 DEF IsExpiredCompare, TimesOK, ThreadTimes, Fresh, VersionsOK, TypeOK, NoReply, NoEntry
    <3>3. cache' = cache /\ now' = now
      BY <2>7 DEF IsExpiredCompare
    <3> QED BY <3>1, <3>2, <3>3 DEF TimesOK
  <2>8. CASE CrashOnNone(t)
    BY <2>8 DEF CrashOnNone, TimesOK, ThreadTimes, Fresh, VersionsOK, TypeOK, NoReply, NoEntry
  <2>9. CASE CacheReturn(t)
    BY <2>9 DEF CacheReturn, TimesOK, ThreadTimes, Fresh, VersionsOK, TypeOK, NoReply, NoEntry
  <2>10. CASE SendRequest(t)
    BY <2>10 DEF SendRequest, TimesOK, ThreadTimes, Fresh, VersionsOK, TypeOK, NoReply, NoEntry
  <2>11. CASE Store(t)
    <3>1. ASSUME cache' # NoEntry
          PROVE  /\ cache'.stored = now /\ cache'.stamp = stamp[t]
                 /\ data[t].version # 0
      BY <2>11, <3>1 DEF Store, NoReply, VersionsOK, TypeOK
    <3>2. cache' # NoEntry => cache'.stored = now /\ stamp[t] <= now
      BY <2>11, <3>1 DEF Store, TimesOK, ThreadTimes, Fresh, VersionsOK, TypeOK, NoReply, NoEntry
    <3>3. ASSUME NEW u \in Threads, u # t PROVE ThreadTimes(u)'
      <4>1. pc'[u] = pc[u] /\ stamp'[u] = stamp[u]
        BY <2>11, <3>3 DEF Store, AfterFetch, TypeOK
      <4>2. UNCHANGED <<now, history, refresh, data, clock, began>>
        BY <2>11 DEF Store
      <4>3. cache' # NoEntry => began[u].time <= cache'.stored + Lifespan
        <5>1. began[u].time \in Nat /\ now \in Nat
          BY DEF TypeOK
        <5>2. began[u].time <= now
          BY DEF TimesOK, ThreadTimes
        <5> QED BY <3>1, <3>2, <5>1, <5>2
      <4> QED BY <4>1, <4>2, <4>3 DEF TimesOK, ThreadTimes, Fresh
    <3>4. ThreadTimes(t)'
      BY <2>11 DEF Store, AfterFetch, TimesOK, ThreadTimes, Fresh, VersionsOK, TypeOK, NoReply, NoEntry
    <3>5. cache' # NoEntry => cache'.stamp <= cache'.stored /\ cache'.stored <= now'
      BY <2>11, <3>1, <3>2 DEF Store, TypeOK
    <3> QED BY <3>3, <3>4, <3>5 DEF TimesOK
  <2>12. CASE ParseRaises(t)
    BY <2>12 DEF ParseRaises, TimesOK, ThreadTimes, Fresh, VersionsOK, TypeOK, NoReply, NoEntry
  <2>13. CASE ReturnSet(t)
    BY <2>13 DEF ReturnSet, TimesOK, ThreadTimes, Fresh, VersionsOK, TypeOK, NoReply, NoEntry
  <2>14. CASE MatchFound(t)
    BY <2>14 DEF MatchFound, Matching, TimesOK, ThreadTimes, Fresh, VersionsOK, TypeOK, NoReply, NoEntry
  <2>15. CASE MatchRefresh(t)
    BY <2>15 DEF MatchRefresh, Matching, TimesOK, ThreadTimes, Fresh, VersionsOK, TypeOK, NoReply, NoEntry
  <2>16. CASE MatchFails(t)
    BY <2>16 DEF MatchFails, Matching, TimesOK, ThreadTimes, Fresh, VersionsOK, TypeOK, NoReply, NoEntry
  <2> QED BY <1>4, <2>1, <2>2, <2>3, <2>4, <2>5, <2>6, <2>7, <2>8, <2>9, <2>10, <2>11,
             <2>12, <2>13, <2>14, <2>15, <2>16 DEF Proceed
<1>5. ASSUME NEW t \in Threads, Network(t) PROVE TimesOK'
  <2>1. CASE Answer(t)
    <3>1. ASSUME NEW u \in Threads, u # t PROVE ThreadTimes(u)'
      BY <2>1, <3>1 DEF Answer, TimesOK, ThreadTimes, Fresh, VersionsOK, TypeOK, NoReply, NoEntry
    <3>2. ThreadTimes(t)'
      BY <2>1 DEF Answer, TimesOK, ThreadTimes, Fresh, VersionsOK, TypeOK, NoReply, NoEntry
    <3>3. cache' = cache /\ now' = now
      BY <2>1 DEF Answer
    <3> QED BY <3>1, <3>2, <3>3 DEF TimesOK
  <2>2. CASE Receive(t)
    <3>1. ASSUME NEW u \in Threads, u # t PROVE ThreadTimes(u)'
      BY <2>2, <3>1 DEF Receive, AfterFetch, TimesOK, ThreadTimes, Fresh, VersionsOK, TypeOK, NoReply, NoEntry
    <3>2. ThreadTimes(t)'
      <4>1. Fresh(t)'
        BY <2>2 DEF Receive, TimesOK, ThreadTimes, Fresh, VersionsOK, TypeOK, NoReply, NoEntry
      <4>2. CASE pc'[t] = "store"
        <5>1. stamp'[t] <= now
          BY <2>2, <4>2 DEF Receive, AfterFetch, TypeOK
        <5> QED BY <2>2, <4>1, <4>2, <5>1 DEF Receive, TimesOK, ThreadTimes, Fresh, VersionsOK, TypeOK, NoReply, NoEntry
      <4>3. CASE pc'[t] \in {"idle", "parse"}
        BY <2>2, <4>1, <4>3 DEF Receive, TimesOK, ThreadTimes, Fresh, VersionsOK, TypeOK, NoReply, NoEntry
      <4> QED BY <2>2, <4>2, <4>3 DEF Receive, AfterFetch, TypeOK
    <3>3. cache' = cache /\ now' = now
      BY <2>2 DEF Receive
    <3> QED BY <3>1, <3>2, <3>3 DEF TimesOK
  <2>3. ASSUME NEW f \in Failures, FetchFails(t, f) PROVE TimesOK'
    <3>1. ASSUME NEW u \in Threads, u # t PROVE ThreadTimes(u)'
      BY <2>3, <3>1 DEF FetchFails, TimesOK, ThreadTimes, Fresh, VersionsOK, TypeOK, NoReply, NoEntry
    <3>2. ThreadTimes(t)'
      <4>1. data'[t].version = 0
        BY <2>3 DEF FetchFails, TypeOK, NoReply
      <4>2. CASE pc'[t] = "store"
        <5>1. stamp' = stamp /\ stamp[t] <= now
          BY <2>3, <4>2 DEF FetchFails, TimesOK, ThreadTimes, TypeOK
        <5> QED BY <2>3, <4>1, <4>2, <5>1 DEF FetchFails, TimesOK, ThreadTimes, Fresh, VersionsOK, TypeOK, NoReply, NoEntry
      <4>3. CASE pc'[t] = "idle"
        BY <2>3, <4>1, <4>3 DEF FetchFails, TimesOK, ThreadTimes, Fresh, VersionsOK, TypeOK, NoReply, NoEntry
      <4> QED BY <2>3, <4>2, <4>3 DEF FetchFails, TypeOK
    <3>3. cache' = cache /\ now' = now
      BY <2>3 DEF FetchFails
    <3> QED BY <3>1, <3>2, <3>3 DEF TimesOK
  <2> QED BY <1>5, <2>1, <2>2, <2>3 DEF Network
<1>6. CASE UNCHANGED vars
  BY <1>6 DEF vars, TimesOK, ThreadTimes, Fresh, VersionsOK, TypeOK, NoReply, NoEntry
<1> QED BY <1>1, <1>2, <1>3, <1>4, <1>5, <1>6 DEF Next

\* Every step keeps answers at least as new as any given before their request was
\* sent.
LEMMA OrderOKStep ==
    ASSUME TypeOK, VersionsOK, OrderOK, [Next]_vars
    PROVE  OrderOK'
<1> USE FieldTypes
<1>1. ASSUME NEW d \in Documents, Publish(d) PROVE OrderOK'
  BY <1>1 DEF Publish, OrderOK, TypeOK
<1>2. CASE Tick
  BY <1>2 DEF Tick, OrderOK
<1>3. ASSUME NEW t \in Threads, Start(t) PROVE OrderOK'
  <2>1. ASSUME NEW m \in Methods, NEW k \in Kids \cup {NoKid}, NEW r \in BOOLEAN,
               NEW l \in {"lru", "cache", "request"}, Call(t, m, k, r, l)
        PROVE  OrderOK'
    BY <2>1 DEF Call, OrderOK, TypeOK
  <2> QED BY <1>3, <2>1 DEF Start, GetSigningKey, GetSigningKeys, GetJwkSet, FetchData, Methods
<1>4. ASSUME NEW t \in Threads, Proceed(t) PROVE OrderOK'
  <2>1. CASE LruHit(t)
    BY <2>1 DEF LruHit, OrderOK, VersionsOK, TypeOK, NoReply
  <2>2. CASE LruMiss(t)
    BY <2>2 DEF LruMiss, OrderOK, VersionsOK, TypeOK, NoReply
  <2>3. CASE LruInsert(t)
    BY <2>3 DEF LruInsert, OrderOK, VersionsOK, TypeOK, NoReply
  <2>4. CASE CacheLookup(t)
    BY <2>4 DEF CacheLookup, OrderOK, VersionsOK, TypeOK, NoReply
  <2>5. CASE IsExpiredNone(t)
    BY <2>5 DEF IsExpiredNone, OrderOK, VersionsOK, TypeOK, NoReply
  <2>6. CASE ReadClock(t)
    BY <2>6 DEF ReadClock, OrderOK, VersionsOK, TypeOK, NoReply
  <2>7. CASE IsExpiredCompare(t)
    BY <2>7 DEF IsExpiredCompare, OrderOK, VersionsOK, TypeOK, NoReply
  <2>8. CASE CrashOnNone(t)
    BY <2>8 DEF CrashOnNone, OrderOK, VersionsOK, TypeOK, NoReply
  <2>9. CASE CacheReturn(t)
    BY <2>9 DEF CacheReturn, OrderOK, VersionsOK, TypeOK, NoReply
  <2>10. CASE SendRequest(t)
    BY <2>10 DEF SendRequest, OrderOK, VersionsOK, TypeOK, NoReply
  <2>11. CASE Store(t)
    <3>1. /\ sentAfter' = [sentAfter EXCEPT ![t] = 0]
          /\ UNCHANGED <<newest, history, data>>
          /\ \E l \in {"idle", "parse"} : pc' = [pc EXCEPT ![t] = l]
      BY <2>11 DEF Store, AfterFetch
    <3> QED BY <3>1 DEF OrderOK, TypeOK
  <2>12. CASE ParseRaises(t)
    BY <2>12 DEF ParseRaises, OrderOK, VersionsOK, TypeOK, NoReply
  <2>13. CASE ReturnSet(t)
    BY <2>13 DEF ReturnSet, OrderOK, VersionsOK, TypeOK, NoReply
  <2>14. CASE MatchFound(t)
    BY <2>14 DEF MatchFound, Matching, OrderOK, VersionsOK, TypeOK, NoReply
  <2>15. CASE MatchRefresh(t)
    BY <2>15 DEF MatchRefresh, Matching, OrderOK, VersionsOK, TypeOK, NoReply
  <2>16. CASE MatchFails(t)
    BY <2>16 DEF MatchFails, Matching, OrderOK, VersionsOK, TypeOK, NoReply
  <2> QED BY <1>4, <2>1, <2>2, <2>3, <2>4, <2>5, <2>6, <2>7, <2>8, <2>9, <2>10, <2>11,
             <2>12, <2>13, <2>14, <2>15, <2>16 DEF Proceed
<1>5. ASSUME NEW t \in Threads, Network(t) PROVE OrderOK'
  <2>1. CASE Answer(t)
    BY <2>1 DEF Answer, OrderOK, VersionsOK, TypeOK
  <2>2. CASE Receive(t)
    <3>1. UNCHANGED <<history, data, newest>> /\ pc[t] = "reading"
      BY <2>2 DEF Receive
    <3>2. sentAfter' = sentAfter \/ sentAfter' = [sentAfter EXCEPT ![t] = 0]
      BY <2>2 DEF Receive
    <3>3. \A u \in Threads : pc'[u] = pc[u] \/ u = t
      BY <2>2 DEF Receive, AfterFetch, TypeOK
    <3>4. \A u \in Threads : sentAfter'[u] \in {0, sentAfter[u]}
      BY <3>2 DEF TypeOK
    <3>5. ASSUME NEW u \in Threads
          PROVE  /\ sentAfter'[u] <= Len(history)
                 /\ (pc'[u] \in {"reading", "store"} /\ data[u].version # 0) =>
                       sentAfter'[u] <= data[u].version
      <4>1. sentAfter[u] \in Nat /\ data[u].version \in Nat /\ Len(history) \in Nat
        BY DEF TypeOK
      <4>2. CASE sentAfter'[u] = 0
        BY <4>1, <4>2
      <4>3. CASE sentAfter'[u] = sentAfter[u]
        BY <3>1, <3>3, <4>3 DEF OrderOK
      <4> QED BY <3>4, <4>2, <4>3
    <3> QED BY <3>1, <3>5 DEF OrderOK
  <2>3. ASSUME NEW f \in Failures, FetchFails(t, f) PROVE OrderOK'
    BY <2>3 DEF FetchFails, OrderOK, VersionsOK, TypeOK, NoReply
  <2> QED BY <1>5, <2>1, <2>2, <2>3 DEF Network
<1>6. CASE UNCHANGED vars
  BY <1>6 DEF vars, OrderOK
<1> QED BY <1>1, <1>2, <1>3, <1>4, <1>5, <1>6 DEF Next

\* A denial that was fresh stays so while its call's frame does not change.
LEMMA DenialStable ==
    ASSUME TypeOK, TimesOK, NEW u \in Threads, DeniedFresh(u),
           history' = history \/ \E d \in Documents : history' = Append(history, d),
           data'[u] = data[u], began'[u] = began[u], kid'[u] = kid[u]
    PROVE  DeniedFresh(u)'
<1>1. data[u].version \in 1..Len(history)
  BY FieldTypes DEF TypeOK, TimesOK, ThreadTimes, DeniedFresh
<1>2. Len(history') >= Len(history) /\ history'[data[u].version] = history[data[u].version]
  <2>1. CASE history' = history
    BY <2>1 DEF TypeOK
  <2>2. ASSUME NEW d \in Documents, history' = Append(history, d)
        PROVE  Len(history') >= Len(history)
                 /\ history'[data[u].version] = history[data[u].version]
    BY <1>1, <2>2 DEF TypeOK
  <2> QED BY <2>1, <2>2
<1>3. Len(history) \in Nat /\ Len(history') \in Nat /\ began[u].version \in Nat
  <2>1. CASE history' = history
    BY <2>1, FieldTypes DEF TypeOK
  <2>2. ASSUME NEW d \in Documents, history' = Append(history, d)
        PROVE  Len(history') \in Nat
    BY <2>2 DEF TypeOK
  <2> QED BY <2>1, <2>2, FieldTypes DEF TypeOK
<1> QED BY <1>1, <1>2, <1>3 DEF DeniedFresh

\* Every step keeps each denial backed by an answer given during its call.
LEMMA DenialsStep ==
    ASSUME TypeOK, VersionsOK, LookupsOK, TimesOK, DenialsAreFresh, [Next]_vars
    PROVE  DenialsAreFresh'
<1> USE JwksAssumption, FieldTypes DEF JwksAssumption
<1>1. ASSUME NEW d \in Documents, Publish(d) PROVE DenialsAreFresh'
  <2>1. \A u \in Threads : Denied(u)' =>
           Denied(u) /\ data'[u] = data[u] /\ began'[u] = began[u] /\ kid'[u] = kid[u]
    BY <1>1 DEF Publish, Denied, Done
  <2>2. history' = Append(history, d)
    BY <1>1 DEF Publish
  <2> QED BY <2>1, <2>2, DenialStable DEF DenialsAreFresh
<1>2. CASE Tick
  <2>1. \A u \in Threads : Denied(u)' =>
           Denied(u) /\ data'[u] = data[u] /\ began'[u] = began[u] /\ kid'[u] = kid[u]
    BY <1>2 DEF Tick, Denied, Done
  <2>2. history' = history
    BY <1>2 DEF Tick
  <2> QED BY <2>1, <2>2, DenialStable DEF DenialsAreFresh
<1>3. ASSUME NEW t \in Threads, Start(t) PROVE DenialsAreFresh'
  <2>1. ASSUME NEW m \in Methods, NEW k \in Kids \cup {NoKid}, NEW r \in BOOLEAN,
               NEW l \in {"lru", "cache", "request"}, Call(t, m, k, r, l)
        PROVE  DenialsAreFresh'
    <3>1. \A u \in Threads : Denied(u)' =>
             Denied(u) /\ data'[u] = data[u] /\ began'[u] = began[u] /\ kid'[u] = kid[u]
      BY <2>1 DEF Call, Denied, Done, TypeOK, Raise, Outcome
    <3>2. history' = history
      BY <2>1 DEF Call
    <3> QED BY <3>1, <3>2, DenialStable DEF DenialsAreFresh
  <2> QED BY <1>3, <2>1 DEF Start, GetSigningKey, GetSigningKeys, GetJwkSet, FetchData, Methods
<1>4. ASSUME NEW t \in Threads, Proceed(t) PROVE DenialsAreFresh'
  <2>1. CASE LruHit(t)
    <3>1. \A u \in Threads : Denied(u)' =>
             Denied(u) /\ data'[u] = data[u] /\ began'[u] = began[u] /\ kid'[u] = kid[u]
      <4>1. \E i \in 1..Len(lru) : outcome' = [outcome EXCEPT ![t] = LruKey(i)]
        BY <2>1 DEF LruHit
      <4>2. \A i \in 1..Len(lru) : LruKey(i).kind = "key"
        BY DEF LruKey, Outcome
      <4>3. pc' = [pc EXCEPT ![t] = "idle"] /\ UNCHANGED <<data, began, kid>>
        BY <2>1 DEF LruHit
      <4> QED BY <4>1, <4>2, <4>3 DEF Denied, Done, TypeOK
    <3>2. history' = history
      BY <2>1 DEF LruHit
    <3> QED BY <3>1, <3>2, DenialStable DEF DenialsAreFresh
  <2>2. CASE LruMiss(t)
    <3>1. \A u \in Threads : Denied(u)' =>
             Denied(u) /\ data'[u] = data[u] /\ began'[u] = began[u] /\ kid'[u] = kid[u]
      BY <2>2 DEF LruMiss, Denied, Done, TypeOK, Outcome, Raise
    <3>2. history' = history
      BY <2>2 DEF LruMiss
    <3> QED BY <3>1, <3>2, DenialStable DEF DenialsAreFresh
  <2>3. CASE LruInsert(t)
    <3>1. \A u \in Threads : Denied(u)' =>
             Denied(u) /\ data'[u] = data[u] /\ began'[u] = began[u] /\ kid'[u] = kid[u]
      BY <2>3 DEF LruInsert, Denied, Done, TypeOK, LookupsOK
    <3>2. history' = history
      BY <2>3 DEF LruInsert
    <3> QED BY <3>1, <3>2, DenialStable DEF DenialsAreFresh
  <2>4. CASE CacheLookup(t)
    <3>1. \A u \in Threads : Denied(u)' =>
             Denied(u) /\ data'[u] = data[u] /\ began'[u] = began[u] /\ kid'[u] = kid[u]
      BY <2>4 DEF CacheLookup, Denied, Done, TypeOK, Outcome, Raise
    <3>2. history' = history
      BY <2>4 DEF CacheLookup
    <3> QED BY <3>1, <3>2, DenialStable DEF DenialsAreFresh
  <2>5. CASE IsExpiredNone(t)
    <3>1. \A u \in Threads : Denied(u)' =>
             Denied(u) /\ data'[u] = data[u] /\ began'[u] = began[u] /\ kid'[u] = kid[u]
      BY <2>5 DEF IsExpiredNone, Denied, Done, TypeOK, Outcome, Raise
    <3>2. history' = history
      BY <2>5 DEF IsExpiredNone
    <3> QED BY <3>1, <3>2, DenialStable DEF DenialsAreFresh
  <2>6. CASE ReadClock(t)
    <3>1. \A u \in Threads : Denied(u)' =>
             Denied(u) /\ data'[u] = data[u] /\ began'[u] = began[u] /\ kid'[u] = kid[u]
      BY <2>6 DEF ReadClock, Denied, Done, TypeOK, Outcome, Raise
    <3>2. history' = history
      BY <2>6 DEF ReadClock
    <3> QED BY <3>1, <3>2, DenialStable DEF DenialsAreFresh
  <2>7. CASE IsExpiredCompare(t)
    <3>1. \A u \in Threads : Denied(u)' =>
             Denied(u) /\ data'[u] = data[u] /\ began'[u] = began[u] /\ kid'[u] = kid[u]
      BY <2>7 DEF IsExpiredCompare, Denied, Done, TypeOK, Outcome, Raise
    <3>2. history' = history
      BY <2>7 DEF IsExpiredCompare
    <3> QED BY <3>1, <3>2, DenialStable DEF DenialsAreFresh
  <2>8. CASE CrashOnNone(t)
    <3>1. \A u \in Threads : Denied(u)' =>
             Denied(u) /\ data'[u] = data[u] /\ began'[u] = began[u] /\ kid'[u] = kid[u]
      BY <2>8 DEF CrashOnNone, Denied, Done, TypeOK, Outcome, Raise
    <3>2. history' = history
      BY <2>8 DEF CrashOnNone
    <3> QED BY <3>1, <3>2, DenialStable DEF DenialsAreFresh
  <2>9. CASE CacheReturn(t)
    <3>1. \A u \in Threads : Denied(u)' =>
             Denied(u) /\ data'[u] = data[u] /\ began'[u] = began[u] /\ kid'[u] = kid[u]
      BY <2>9 DEF CacheReturn, Denied, Done, TypeOK, Outcome, Raise
    <3>2. history' = history
      BY <2>9 DEF CacheReturn
    <3> QED BY <3>1, <3>2, DenialStable DEF DenialsAreFresh
  <2>10. CASE SendRequest(t)
    <3>1. \A u \in Threads : Denied(u)' =>
             Denied(u) /\ data'[u] = data[u] /\ began'[u] = began[u] /\ kid'[u] = kid[u]
      BY <2>10 DEF SendRequest, Denied, Done, TypeOK, Outcome, Raise
    <3>2. history' = history
      BY <2>10 DEF SendRequest
    <3> QED BY <3>1, <3>2, DenialStable DEF DenialsAreFresh
  <2>11. CASE Store(t)
    <3>1. \A u \in Threads : Denied(u)' =>
             Denied(u) /\ data'[u] = data[u] /\ began'[u] = began[u] /\ kid'[u] = kid[u]
      <4>1. \/ outcome' = outcome
            \/ outcome' = [outcome EXCEPT ![t] = Outcome("document", data[t].version, 0)]
        BY <2>11 DEF Store, AfterFetch
      <4>2. outcome'[t].kind # "unableToFind"
        BY <2>11, <4>1 DEF Store, Outcome, LookupsOK, TypeOK
      <4>3. \A u \in Threads \ {t} : pc'[u] = pc[u] /\ outcome'[u] = outcome[u]
        BY <2>11, <4>1 DEF Store, AfterFetch, TypeOK
      <4> QED BY <2>11, <4>2, <4>3 DEF Store, Denied, Done
    <3>2. history' = history
      BY <2>11 DEF Store
    <3> QED BY <3>1, <3>2, DenialStable DEF DenialsAreFresh
  <2>12. CASE ParseRaises(t)
    <3>1. PICK e \in JwkSetErrors(Doc(t)) \cup SigningKeysErrors(Doc(t)) :
             outcome' = [outcome EXCEPT ![t] = Raise(e)]
      BY <2>12 DEF ParseRaises, ParseErrors
    <3>2. e # "unableToFind"
      <4>1. Doc(t) \in Documents
        BY <2>12 DEF ParseRaises, VersionsOK, TypeOK, Doc
      <4> QED BY <4>1, ParseErrorKinds DEF Fatal
    <3>3. \A u \in Threads : Denied(u)' =>
             Denied(u) /\ data'[u] = data[u] /\ began'[u] = began[u] /\ kid'[u] = kid[u]
      BY <2>12, <3>1, <3>2 DEF ParseRaises, Denied, Done, TypeOK, Raise, Outcome
    <3>4. history' = history
      BY <2>12 DEF ParseRaises
    <3> QED BY <3>3, <3>4, DenialStable DEF DenialsAreFresh
  <2>13. CASE ReturnSet(t)
    <3>1. \A u \in Threads : Denied(u)' =>
             Denied(u) /\ data'[u] = data[u] /\ began'[u] = began[u] /\ kid'[u] = kid[u]
      BY <2>13 DEF ReturnSet, Denied, Done, TypeOK, Outcome, Raise
    <3>2. history' = history
      BY <2>13 DEF ReturnSet
    <3> QED BY <3>1, <3>2, DenialStable DEF DenialsAreFresh
  <2>14. CASE MatchFound(t)
    <3>1. \A u \in Threads : Denied(u)' =>
             Denied(u) /\ data'[u] = data[u] /\ began'[u] = began[u] /\ kid'[u] = kid[u]
      BY <2>14 DEF MatchFound, Matching, Denied, Done, TypeOK, Outcome, Raise
    <3>2. history' = history
      BY <2>14 DEF MatchFound, Matching
    <3> QED BY <3>1, <3>2, DenialStable DEF DenialsAreFresh
  <2>15. CASE MatchRefresh(t)
    <3>1. \A u \in Threads : Denied(u)' =>
             Denied(u) /\ data'[u] = data[u] /\ began'[u] = began[u] /\ kid'[u] = kid[u]
      BY <2>15 DEF MatchRefresh, Matching, Denied, Done, TypeOK, Outcome, Raise
    <3>2. history' = history
      BY <2>15 DEF MatchRefresh, Matching
    <3> QED BY <3>1, <3>2, DenialStable DEF DenialsAreFresh
  <2>16. CASE MatchFails(t)
    <3>1. \A u \in Threads \ {t} : Denied(u)' =>
             Denied(u) /\ data'[u] = data[u] /\ began'[u] = began[u] /\ kid'[u] = kid[u]
      BY <2>16 DEF MatchFails, Matching, Denied, Done, TypeOK
    <3>2. history' = history
      BY <2>16 DEF MatchFails
    <3>3. DeniedFresh(t)
      <4>1. Fresh(t)
        BY <2>16 DEF MatchFails, Matching, TimesOK, ThreadTimes, VersionsOK
      <4> QED BY <2>16, <4>1 DEF MatchFails, Matching, Doc, Fresh, DeniedFresh, VersionsOK, TypeOK
    <3>4. data' = data /\ began' = began /\ kid' = kid
      BY <2>16 DEF MatchFails
    <3> QED BY <3>1, <3>2, <3>3, <3>4, DenialStable DEF DenialsAreFresh
  <2> QED BY <1>4, <2>1, <2>2, <2>3, <2>4, <2>5, <2>6, <2>7, <2>8, <2>9, <2>10, <2>11,
             <2>12, <2>13, <2>14, <2>15, <2>16 DEF Proceed
<1>5. ASSUME NEW t \in Threads, Network(t) PROVE DenialsAreFresh'
  <2>1. CASE Answer(t)
    <3>1. \A u \in Threads : Denied(u)' =>
             Denied(u) /\ data'[u] = data[u] /\ began'[u] = began[u] /\ kid'[u] = kid[u]
      BY <2>1 DEF Answer, Denied, Done, TypeOK
    <3>2. history' = history
      BY <2>1 DEF Answer
    <3> QED BY <3>1, <3>2, DenialStable DEF DenialsAreFresh
  <2>2. CASE Receive(t)
    <3>1. \A u \in Threads : Denied(u)' =>
             Denied(u) /\ data'[u] = data[u] /\ began'[u] = began[u] /\ kid'[u] = kid[u]
      <4>1. \/ outcome' = outcome
            \/ outcome' = [outcome EXCEPT ![t] = Outcome("document", data[t].version, 0)]
        BY <2>2 DEF Receive, AfterFetch
      <4>2. outcome'[t].kind # "unableToFind"
        BY <2>2, <4>1 DEF Receive, Outcome, LookupsOK, TypeOK
      <4>3. \A u \in Threads \ {t} : pc'[u] = pc[u] /\ outcome'[u] = outcome[u]
        BY <2>2, <4>1 DEF Receive, AfterFetch, TypeOK
      <4> QED BY <2>2, <4>2, <4>3 DEF Receive, Denied, Done
    <3>2. history' = history
      BY <2>2 DEF Receive
    <3> QED BY <3>1, <3>2, DenialStable DEF DenialsAreFresh
  <2>3. ASSUME NEW f \in Failures, FetchFails(t, f) PROVE DenialsAreFresh'
    <3>1. \A u \in Threads : Denied(u)' =>
             Denied(u) /\ data'[u] = data[u] /\ began'[u] = began[u] /\ kid'[u] = kid[u]
      BY <2>3 DEF FetchFails, Denied, Done, TypeOK, Raise, Outcome, Failures
    <3>2. history' = history
      BY <2>3 DEF FetchFails
    <3> QED BY <3>1, <3>2, DenialStable DEF DenialsAreFresh
  <2> QED BY <1>5, <2>1, <2>2, <2>3 DEF Network
<1>6. CASE UNCHANGED vars
  <2>1. \A u \in Threads : Denied(u)' =>
           Denied(u) /\ data'[u] = data[u] /\ began'[u] = began[u] /\ kid'[u] = kid[u]
    BY <1>6 DEF vars, Denied, Done
  <2>2. history' = history
    BY <1>6 DEF vars
  <2> QED BY <2>1, <2>2, DenialStable DEF DenialsAreFresh
<1> QED BY <1>1, <1>2, <1>3, <1>4, <1>5, <1>6 DEF Next

-----------------------------------------------------------------------------
(* The inductive invariant.                                                *)

\* The inductive invariant holds of a client that was just built.
LEMMA InitIInv == Init => IInv
<1> SUFFICES ASSUME Init PROVE IInv
  OBVIOUS
<1> USE JwksAssumption, RecordTypes DEF JwksAssumption, Init
<1>h. history \in Seq(Documents) /\ Len(history) = 1
  <2>1. PICK d \in Documents : history = <<d>>
    OBVIOUS
  <2> QED BY <2>1
<1>1. TypeOK
  <2>1. Raise("none") \in Result
    BY DEF Kinds
  <2>2. [time |-> 0, version |-> 1] \in Beginning
    OBVIOUS
  <2>3. lru \in Seq(LruEntry)
    OBVIOUS
  <2> QED BY <1>h, <2>1, <2>2, <2>3 DEF TypeOK, Methods, Locations
<1>2. VersionsOK
  BY <1>h DEF VersionsOK, NoReply, NoEntry
<1>3. LookupsOK
  BY DEF LookupsOK, KeysArePublished, Raise, Outcome
<1>4. TimesOK
  BY <1>h DEF TimesOK, ThreadTimes, NoReply, NoEntry
<1>5. DenialsAreFresh
  BY DEF DenialsAreFresh, Denied, Done, Raise, Outcome
<1>6. OrderOK
  BY <1>h DEF OrderOK, NoReply
<1>7. BudgetOK
  BY DEF BudgetOK, Budget
<1> QED BY <1>1, <1>2, <1>3, <1>4, <1>5, <1>6, <1>7 DEF IInv

\* Every step of the specification keeps the inductive invariant.
LEMMA IInvStep == IInv /\ [Next]_vars => IInv'
BY TypeOKStep, VersionsOKStep, LookupsOKStep, TimesOKStep, DenialsStep, OrderOKStep,
   BudgetOKStep DEF IInv

\* Every reachable state satisfies the inductive invariant.
THEOREM InductiveInvariant == Spec => []IInv
BY InitIInv, IInvStep, PTL DEF Spec

-----------------------------------------------------------------------------
(* The safety properties.                                                  *)

\* Variables keep their types, for every set of threads, kids and documents.
THEOREM TypeCorrect == Spec => []TypeOK
<1>1. IInv => TypeOK
  BY DEF IInv
<1> QED BY <1>1, InductiveInvariant, PTL

\* A lookup never returns a key the endpoint has not published for the kid
\* (jwks_client.py:160-170, 216-233).
THEOREM OnlyPublishedKeys == Spec => []KeysArePublished
<1>1. IInv => KeysArePublished
  BY DEF IInv, LookupsOK
<1> QED BY <1>1, InductiveInvariant, PTL

\* A kid is reported missing only on an answer given during the call
\* (jwks_client.py:188-196).
THEOREM OnlyFreshDenials == Spec => []DenialsAreFresh
<1>1. IInv => DenialsAreFresh
  BY DEF IInv
<1> QED BY <1>1, InductiveInvariant, PTL

\* refresh=True and a client without cache see only answers given during the
\* call (jwks_client.py:135-140).
THEOREM OnlyFreshRefreshes == Spec => []RefreshedIsFresh
<1>1. IInv => RefreshedIsFresh
  BY DEF IInv, TimesOK, ThreadTimes, RefreshedIsFresh, Fresh, Done
<1> QED BY <1>1, InductiveInvariant, PTL

\* A call gets its JWK Set from the cache or from a fetch, in no other way.
LEMMA OnlyTheseParse ==
    ASSUME TypeOK, Next, NEW t \in Threads, pc[t] # "parse", pc'[t] = "parse"
    PROVE  Receive(t) \/ Store(t) \/ CacheReturn(t)
<1>1. ASSUME NEW u \in Threads, Start(u) PROVE FALSE
  BY <1>1 DEF Start, GetSigningKey, GetSigningKeys, GetJwkSet, FetchData, Call, TypeOK
<1>2. ASSUME NEW u \in Threads, Network(u), ~Receive(u) PROVE FALSE
  BY <1>2 DEF Network, Answer, FetchFails, TypeOK
<1>3. ASSUME NEW u \in Threads, Proceed(u), ~Store(u), ~CacheReturn(u) PROVE FALSE
  BY <1>3 DEF Proceed, LruHit, LruMiss, LruInsert, CacheLookup, IsExpiredNone, ReadClock,
       IsExpiredCompare, CrashOnNone, SendRequest, ParseRaises, ReturnSet,
       MatchFound, MatchRefresh, MatchFails, Matching, TypeOK
<1>4. ASSUME NEW u \in Threads, Receive(u) \/ Store(u) \/ CacheReturn(u) PROVE u = t
  BY <1>4 DEF Receive, Store, CacheReturn, AfterFetch, TypeOK
<1>5. ~Tick /\ \A d \in Documents : ~Publish(d)
  BY DEF Tick, Publish
<1> QED BY <1>1, <1>2, <1>3, <1>4, <1>5 DEF Next

\* No call works on a set that was in the cache for longer than lifespan before it
\* began, whatever threads and clock do between two accesses to the cache
\* (jwks_client.py:124-140, jwk_set_cache.py:19-31).
THEOREM StalenessIsBounded == Spec => BoundedStaleness
<1> DEFINE Recent(t) ==
             \/ data'[t].answered >= began[t].time
             \/ /\ cache # NoEntry
                /\ data'[t] = [version |-> cache.version, answered |-> cache.answered]
                /\ began[t].time <= cache.stored + Lifespan
<1>1. ASSUME IInv, Next, NEW t \in Threads, pc[t] # "parse", pc'[t] = "parse"
      PROVE  Recent(t)
  <2>1. TypeOK /\ VersionsOK /\ TimesOK
    BY <1>1 DEF IInv
  <2>2. Receive(t) \/ Store(t) \/ CacheReturn(t)
    BY <1>1, <2>1, OnlyTheseParse
  <2>3. CASE CacheReturn(t)
    BY <2>1, <2>3 DEF CacheReturn, TimesOK, ThreadTimes, TypeOK
  <2>4. CASE Receive(t) \/ Store(t)
    <3>1. /\ pc[t] \in {"reading", "store"} /\ data[t].version # 0
          /\ data' = data
      BY <1>1, <2>1, <2>4 DEF Receive, Store, AfterFetch, VersionsOK, TypeOK
    <3> QED BY <2>1, <3>1 DEF TimesOK, ThreadTimes, Fresh
  <2> QED BY <2>2, <2>3, <2>4
<1>2. IInv /\ [Next]_vars =>
        [\A t \in Threads : (pc[t] # "parse" /\ pc'[t] = "parse") => Recent(t)]_vars
  BY <1>1
<1> QED BY <1>2, InductiveInvariant, PTL DEF Spec, BoundedStaleness

\* A call sends one request, and one more only to refresh the set for a kid
\* it lacks (jwks_client.py:185-191).
THEOREM RequestsAreBounded == Spec => []RequestBudget
<1>1. IInv => RequestBudget
  BY DEF IInv, TypeOK, BudgetOK, Budget, RequestBudget
<1> QED BY <1>1, InductiveInvariant, PTL

\* The cache goes back to an older set only when fetches overlap
\* (jwks_client.py:105-122).
THEOREM RegressNeedsOverlap == Spec => RegressOnlyByOverlap
<1> DEFINE Overlap == \E t \in Threads : /\ pc[t] = "store" /\ pc'[t] # "store"
                                         /\ data[t].version = cache'.version
                                         /\ sentAfter[t] < cache.version
<1>1. ASSUME IInv, [Next]_vars, cache' # NoEntry, cache'.version < cache.version
      PROVE  Overlap
  <2>1. cache' # cache
    BY <1>1, FieldTypes DEF IInv, TypeOK
  <2>2. PICK t \in Threads : Store(t)
    <3>1. ASSUME NEW t \in Threads, Start(t) PROVE cache' = cache
      BY <3>1 DEF Start, GetSigningKey, GetSigningKeys, GetJwkSet, FetchData, Call
    <3>2. ASSUME NEW t \in Threads, Network(t) PROVE cache' = cache
      BY <3>2 DEF Network, Answer, Receive, FetchFails
    <3>3. ASSUME NEW t \in Threads, Proceed(t), ~Store(t) PROVE cache' = cache
      BY <3>3 DEF Proceed, LruHit, LruMiss, LruInsert, CacheLookup, IsExpiredNone, ReadClock,
           IsExpiredCompare, CrashOnNone, CacheReturn, SendRequest, ParseRaises, ReturnSet,
           MatchFound, MatchRefresh, MatchFails
    <3>4. ASSUME NEW d \in Documents, Publish(d) PROVE cache' = cache
      BY <3>4 DEF Publish
    <3> QED BY <1>1, <2>1, <3>1, <3>2, <3>3, <3>4 DEF Next, Tick, vars
  <2>3. /\ pc[t] = "store" /\ pc'[t] # "store"
        /\ cache'.version = data[t].version
        /\ data[t].version # 0
    <3>1. pc[t] = "store" /\ pc'[t] # "store"
      BY <1>1, <2>2 DEF Store, AfterFetch, IInv, TypeOK
    <3>2. data[t] # NoReply /\ cache' = [version  |-> data[t].version,
                                         answered |-> data[t].answered,
                                         stamp    |-> stamp[t],
                                         stored   |-> now]
      BY <1>1, <2>2 DEF Store
    <3> QED BY <1>1, <3>1, <3>2 DEF IInv, VersionsOK
  <2>4. sentAfter[t] <= data[t].version
    BY <1>1, <2>3 DEF IInv, OrderOK
  <2>5. sentAfter[t] \in Nat /\ data[t].version \in Nat /\ cache.version \in Nat
    BY <1>1, FieldTypes DEF IInv, TypeOK
  <2> QED BY <1>1, <2>3, <2>4, <2>5
<1>2. IInv /\ [Next]_vars =>
        [(cache' # NoEntry /\ cache'.version < cache.version) => Overlap]_vars
  BY <1>1
<1> QED BY <1>2, InductiveInvariant, PTL DEF Spec, RegressOnlyByOverlap

-----------------------------------------------------------------------------
(* A client used by one thread.                                            *)

\* With one thread nothing changes the cache between two accesses, and time
\* only makes the entry older.
LEMMA OneThreadStep ==
    ASSUME OneThread, TypeOK, VersionsOK, OneThreadOK, [Next]_vars
    PROVE  OneThreadOK'
<1> USE JwksAssumption, FieldTypes DEF JwksAssumption
<1>1. ASSUME NEW d \in Documents, Publish(d) PROVE OneThreadOK'
  BY <1>1 DEF Publish, OneThreadOK
<1>2. CASE Tick
  BY <1>2 DEF Tick, OneThreadOK, TypeOK
<1>3. ASSUME NEW t \in Threads, Start(t) PROVE OneThreadOK'
  <2>1. ASSUME NEW m \in Methods, NEW k \in Kids \cup {NoKid}, NEW r \in BOOLEAN,
               NEW l \in {"lru", "cache", "request"}, Call(t, m, k, r, l),
               l = "request" => r
        PROVE  OneThreadOK'
    BY <2>1 DEF Call, OneThreadOK, TypeOK, Raise, Outcome
  <2> QED BY <1>3, <2>1 DEF Start, GetSigningKey, GetSigningKeys, GetJwkSet, FetchData, Methods
<1>4. ASSUME NEW t \in Threads, Proceed(t) PROVE OneThreadOK'
  <2>a. \A u \in Threads : u = t
    BY DEF OneThread
  <2>1. CASE LruHit(t)
    BY <2>1 DEF LruHit, OneThreadOK, TypeOK, LruKey, Outcome
  <2>2. CASE LruMiss(t)
    BY <2>2 DEF LruMiss, OneThreadOK, TypeOK
  <2>3. CASE LruInsert(t)
    BY <2>3 DEF LruInsert, OneThreadOK, TypeOK
  <2>4. CASE CacheLookup(t)
    BY <2>4 DEF CacheLookup, OneThreadOK, TypeOK
  <2>5. CASE IsExpiredNone(t)
    BY <2>5 DEF IsExpiredNone, OneThreadOK, TypeOK
  <2>6. CASE ReadClock(t)
    BY <2>6 DEF ReadClock, OneThreadOK, TypeOK
  <2>7. CASE IsExpiredCompare(t)
    BY <2>7 DEF IsExpiredCompare, OneThreadOK, TypeOK
  <2>8. CASE CrashOnNone(t)
    BY <2>8 DEF CrashOnNone, OneThreadOK
  <2>9. CASE CacheReturn(t)
    BY <2>9 DEF CacheReturn, OneThreadOK, TypeOK
  <2>10. CASE SendRequest(t)
    BY <2>10 DEF SendRequest, OneThreadOK, TypeOK
  <2>11. CASE Store(t)
    BY <2>a, <2>11 DEF Store, AfterFetch, OneThreadOK, TypeOK, Outcome
  <2>12. CASE ParseRaises(t)
    <3>1. PICK e \in JwkSetErrors(Doc(t)) \cup SigningKeysErrors(Doc(t)) :
             outcome' = [outcome EXCEPT ![t] = Raise(e)]
      BY <2>12 DEF ParseRaises, ParseErrors
    <3>2. e # "AttributeError"
      <4>1. Doc(t) \in Documents
        BY <2>12 DEF ParseRaises, VersionsOK, TypeOK, Doc
      <4> QED BY <4>1, ParseErrorKinds DEF Fatal
    <3> QED BY <2>12, <3>1, <3>2 DEF ParseRaises, OneThreadOK, TypeOK, Raise, Outcome
  <2>13. CASE ReturnSet(t)
    BY <2>13 DEF ReturnSet, OneThreadOK, TypeOK, Outcome
  <2>14. CASE MatchFound(t)
    BY <2>14 DEF MatchFound, Matching, OneThreadOK, TypeOK, Outcome
  <2>15. CASE MatchRefresh(t)
    BY <2>15 DEF MatchRefresh, Matching, OneThreadOK, TypeOK
  <2>16. CASE MatchFails(t)
    BY <2>16 DEF MatchFails, Matching, OneThreadOK, TypeOK, Raise, Outcome
  <2> QED BY <1>4, <2>1, <2>2, <2>3, <2>4, <2>5, <2>6, <2>7, <2>8, <2>9, <2>10, <2>11,
             <2>12, <2>13, <2>14, <2>15, <2>16 DEF Proceed
<1>5. ASSUME NEW t \in Threads, Network(t) PROVE OneThreadOK'
  <2>1. CASE Answer(t)
    BY <2>1 DEF Answer, OneThreadOK, TypeOK
  <2>2. CASE Receive(t)
    <3>1. \A u \in Threads : u = t
      BY DEF OneThread
    <3>2. pc'[t] \in {"store", "idle", "parse"}
      BY <2>2 DEF Receive, AfterFetch, TypeOK
    <3>3. outcome'[t].kind # "AttributeError"
      <4>1. CASE outcome' = outcome
        BY <4>1 DEF OneThreadOK
      <4>2. CASE outcome' = [outcome EXCEPT ![t] = Outcome("document", data[t].version, 0)]
        BY <4>2 DEF TypeOK, Outcome
      <4> QED BY <2>2, <4>1, <4>2 DEF Receive, AfterFetch
    <3> QED BY <3>1, <3>2, <3>3 DEF OneThreadOK
  <2>3. ASSUME NEW f \in Failures, FetchFails(t, f) PROVE OneThreadOK'
    BY <2>3 DEF FetchFails, OneThreadOK, TypeOK, Raise, Outcome, Failures
  <2> QED BY <1>5, <2>1, <2>2, <2>3 DEF Network
<1>6. CASE UNCHANGED vars
  BY <1>6 DEF vars, OneThreadOK
<1> QED BY <1>1, <1>2, <1>3, <1>4, <1>5, <1>6 DEF Next

\* What a client used by one thread knows is true in every reachable state.
LEMMA OneThreadInvariant ==
    ASSUME OneThread
    PROVE  Spec => []OneThreadOK
<1>1. Init => OneThreadOK
  BY DEF Init, OneThreadOK, Raise, Outcome
<1>2. IInv /\ OneThreadOK /\ [Next]_vars => OneThreadOK'
  BY OneThreadStep DEF IInv
<1> QED BY <1>1, <1>2, InductiveInvariant, PTL DEF Spec

\* A client used by one thread asks the endpoint, unless it is told to refresh,
\* only when the cache is empty or expired at that moment
\* (jwks_client.py:38-39, jwk_set_cache.py:22-31).
THEOREM OneThreadFetchesWhenNeeded ==
    ASSUME OneThread
    PROVE  Spec => FetchOnlyWhenNeeded
<1>1. OneThreadOK /\ [Next]_vars =>
        [\A t \in Threads :
            (pc[t] = "request" /\ pc'[t] = "waiting" /\ ~refresh[t] /\ CacheJwkSet) =>
                cache = NoEntry \/ now > cache.stamp + Lifespan]_vars
  BY DEF OneThreadOK
<1> QED BY <1>1, OneThreadInvariant, PTL DEF Spec, FetchOnlyWhenNeeded

\* The AttributeError that the run JwksClient_race finds takes two threads: a
\* client used by one never raises it (jwk_set_cache.py:19-31).
THEOREM OneThreadGetReturnsOptional ==
    ASSUME OneThread
    PROVE  Spec => []GetReturnsOptional
<1>1. OneThreadOK => GetReturnsOptional
  BY DEF OneThreadOK, GetReturnsOptional
<1> QED BY <1>1, OneThreadInvariant, PTL
-----------------------------------------------------------------------------
(* Calls end.                                                              *)

\* Thread t goes to one of the locations, with this value of refresh; the
\* others stay where they are.
Steps(t, locations, refreshed) ==
    \E l \in locations : /\ pc' = [pc EXCEPT ![t] = l]
                         /\ refresh' = [refresh EXCEPT ![t] = refreshed]

\* Where the steps of a call lead from each location.
CallStep(t) ==
    \/ pc[t] = "lru" /\ Steps(t, {"cache", "idle"}, refresh[t])
    \/ pc[t] = "cache" /\ Steps(t, {"expired", "request"}, refresh[t])
    \/ pc[t] = "expired" /\ Steps(t, {"clock", "reread"}, refresh[t])
    \/ pc[t] = "clock" /\ Steps(t, {"compare"}, refresh[t])
    \/ pc[t] = "compare" /\ Steps(t, {"request", "reread", "idle"}, refresh[t])
    \/ pc[t] = "reread" /\ Steps(t, {"parse", "idle"}, refresh[t])
    \/ pc[t] = "request" /\ Steps(t, {"waiting"}, refresh[t])
    \/ pc[t] = "waiting" /\ Steps(t, {"reading", "store", "idle"}, refresh[t])
    \/ pc[t] = "reading" /\ Steps(t, {"store", "parse", "idle"}, refresh[t])
    \/ pc[t] = "store" /\ Steps(t, {"parse", "idle"}, refresh[t])
    \/ pc[t] = "parse" /\ Steps(t, {"insert", "idle"}, refresh[t])
    \/ pc[t] = "parse" /\ ~refresh[t] /\ Steps(t, {"cache"}, TRUE)
    \/ pc[t] = "insert" /\ Steps(t, {"idle"}, refresh[t])

LEMMA StepsForward ==
    ASSUME TypeOK, NEW t \in Threads, Proceed(t) \/ Network(t)
    PROVE  CallStep(t)
<1> USE DEF CallStep
<1>1. ASSUME UNCHANGED refresh PROVE refresh' = [refresh EXCEPT ![t] = refresh[t]]
  BY <1>1 DEF TypeOK
<1>2. CASE LruHit(t) \/ LruMiss(t) \/ LruInsert(t)
  BY <1>1, <1>2, Zenon DEF LruHit, LruMiss, LruInsert, Return, Goto, Steps
<1>3. CASE CacheLookup(t)
  BY <1>1, <1>3 DEF CacheLookup, Goto, Steps
<1>4. CASE IsExpiredNone(t)
  BY <1>1, <1>4 DEF IsExpiredNone, Goto, Steps
<1>5. CASE ReadClock(t)
  BY <1>1, <1>5 DEF ReadClock, Goto, Steps
<1>6. CASE IsExpiredCompare(t)
  BY <1>1, <1>6 DEF IsExpiredCompare, Goto, Steps
<1>7. CASE CrashOnNone(t)
  BY <1>1, <1>7 DEF CrashOnNone, Return, Goto, Steps
<1>8. CASE CacheReturn(t)
  BY <1>1, <1>8 DEF CacheReturn, Goto, Steps
<1>9. CASE SendRequest(t)
  BY <1>1, <1>9 DEF SendRequest, Goto, Steps
<1>10. CASE Store(t)
  BY <1>1, <1>10 DEF Store, AfterFetch, Return, Goto, Steps
<1>11. CASE ParseRaises(t)
  BY <1>1, <1>11 DEF ParseRaises, Return, Goto, Steps
<1>12. CASE ReturnSet(t)
  BY <1>1, <1>12 DEF ReturnSet, Return, Goto, Steps
<1>13. CASE MatchFound(t)
  BY <1>1, <1>13 DEF MatchFound, Matching, Goto, Steps
<1>14. CASE MatchRefresh(t)
  BY <1>14 DEF MatchRefresh, Matching, Goto, Steps
<1>15. CASE MatchFails(t)
  BY <1>1, <1>15 DEF MatchFails, Matching, Return, Goto, Steps
<1>16. CASE Answer(t)
  BY <1>1, <1>16 DEF Answer, Steps
<1>17. CASE Receive(t)
  BY <1>1, <1>17 DEF Receive, AfterFetch, Return, Goto, Steps
<1>18. ASSUME NEW failure \in Failures, FetchFails(t, failure)
       PROVE  pc[t] \in {"waiting", "reading"} /\ Steps(t, {"store", "idle"}, refresh[t])
  BY <1>1, <1>18 DEF FetchFails, Goto, Steps
<1>19. CASE \E failure \in Failures : FetchFails(t, failure)
  BY <1>18, <1>19 DEF Steps
<1> QED BY <1>2, <1>3, <1>4, <1>5, <1>6, <1>7, <1>8, <1>9, <1>10, <1>11, <1>12, <1>13,
           <1>14, <1>15, <1>16, <1>17, <1>19 DEF Proceed, Network

\* What a step of t does to the distance of t from its end.
LEMMA StepsShorten ==
    ASSUME TypeOK, NEW t \in Threads, NEW locations \in SUBSET Locations,
           NEW refreshed \in BOOLEAN, Steps(t, locations, refreshed),
           pc[t] # "idle",
           \/ refreshed = refresh[t] /\ \A l \in locations : Distance[l] < Distance[pc[t]]
           \/ ~refresh[t] /\ refreshed /\ \A l \in locations : Distance[l] < Distance[pc[t]] + 10
    PROVE  StepsLeft(t)' < StepsLeft(t)
<1>1. PICK l \in locations : /\ pc' = [pc EXCEPT ![t] = l]
                             /\ refresh' = [refresh EXCEPT ![t] = refreshed]
  BY DEF Steps
<1>2. pc'[t] = l /\ refresh'[t] = refreshed
  BY <1>1 DEF TypeOK
<1>3. Distance[l] \in Nat /\ Distance[pc[t]] \in Nat /\ Distance[pc[t]] > 0 /\ refresh[t] \in BOOLEAN
  <2>1. \A m \in Locations : Distance[m] \in Nat /\ (m # "idle" => Distance[m] > 0)
    BY DEF Locations, Distance
  <2>2. l \in Locations /\ pc[t] \in Locations
    BY DEF TypeOK
  <2> QED BY <2>1, <2>2 DEF TypeOK
<1>4. StepsLeft(t) = Distance[pc[t]] + (IF refresh[t] THEN 0 ELSE 10)
  BY DEF StepsLeft
<1>5. StepsLeft(t)' = IF l = "idle" THEN 0 ELSE Distance[l] + (IF refreshed THEN 0 ELSE 10)
  BY <1>2 DEF StepsLeft, Distance
<1> QED BY <1>3, <1>4, <1>5

\* Every step of a call brings it nearer its end and no other step takes it
\* back, with any number of threads: a call takes at most 22 steps of its own,
\* whatever the others, the endpoint and the clock do (jwks_client.py:185-198).
\* What CallsReturn adds is that these steps are taken.
THEOREM CallsGetNearer == Spec => CallsAdvance
<1> DEFINE Nearer(u) == \/ StepsLeft(u)' < StepsLeft(u)
                        \/ pc'[u] = pc[u] /\ refresh'[u] = refresh[u]
<1>1. TypeOK /\ Next => \A u \in Threads : pc[u] # "idle" => Nearer(u)
  <2> SUFFICES ASSUME TypeOK, Next, NEW u \in Threads, pc[u] # "idle" PROVE Nearer(u)
    OBVIOUS
  <2>1. ASSUME NEW d \in Documents, Publish(d) PROVE Nearer(u)
    BY <2>1 DEF Publish, frame
  <2>2. CASE Tick
    BY <2>2 DEF Tick, frame
  <2>3. ASSUME NEW t \in Threads, Start(t) PROVE Nearer(u)
    <3>1. ASSUME NEW m, NEW k, NEW r, NEW l, Call(t, m, k, r, l) PROVE Nearer(u)
      BY <3>1 DEF Call, Goto, TypeOK
    <3> QED BY <2>3, <3>1 DEF Start, GetSigningKey, GetSigningKeys, GetJwkSet, FetchData
  <2>4. ASSUME NEW t \in Threads, Proceed(t) \/ Network(t) PROVE Nearer(u)
    <3>1. CASE t # u
      <4>1. ASSUME NEW locations, NEW refreshed, Steps(t, locations, refreshed)
            PROVE  pc'[u] = pc[u] /\ refresh'[u] = refresh[u]
        BY <3>1, <4>1 DEF Steps, TypeOK
      <4> QED BY <2>4, <4>1, StepsForward DEF CallStep
    <3>2. CASE t = u
      <4>1. refresh[u] \in BOOLEAN
        BY DEF TypeOK
      <4>2. ASSUME NEW locations \in SUBSET Locations, Steps(u, locations, refresh[u]),
                   \A l \in locations : Distance[l] < Distance[pc[u]]
            PROVE  Nearer(u)
        BY <4>1, <4>2, StepsShorten
      <4>3. CASE pc[u] = "parse" /\ ~refresh[u] /\ Steps(u, {"cache"}, TRUE)
        <5>1. \A l \in {"cache"} : l \in Locations /\ Distance[l] < Distance[pc[u]] + 10
          BY <4>3 DEF Locations, Distance
        <5> QED BY <4>3, <5>1, StepsShorten
      <4>4. CASE pc[u] = "lru" /\ Steps(u, {"cache", "idle"}, refresh[u])
        <5>1. {"cache", "idle"} \subseteq Locations /\ \A l \in {"cache", "idle"} : Distance[l] < Distance["lru"]
          BY DEF Locations, Distance
        <5> QED BY <4>2, <4>4, <5>1
      <4>5. CASE pc[u] = "cache" /\ Steps(u, {"expired", "request"}, refresh[u])
        <5>1. {"expired", "request"} \subseteq Locations /\ \A l \in {"expired", "request"} : Distance[l] < Distance["cache"]
          BY DEF Locations, Distance
        <5> QED BY <4>2, <4>5, <5>1
      <4>6. CASE pc[u] = "expired" /\ Steps(u, {"clock", "reread"}, refresh[u])
        <5>1. {"clock", "reread"} \subseteq Locations /\ \A l \in {"clock", "reread"} : Distance[l] < Distance["expired"]
          BY DEF Locations, Distance
        <5> QED BY <4>2, <4>6, <5>1
      <4>7. CASE pc[u] = "clock" /\ Steps(u, {"compare"}, refresh[u])
        <5>1. {"compare"} \subseteq Locations /\ \A l \in {"compare"} : Distance[l] < Distance["clock"]
          BY DEF Locations, Distance
        <5> QED BY <4>2, <4>7, <5>1
      <4>8. CASE pc[u] = "compare" /\ Steps(u, {"request", "reread", "idle"}, refresh[u])
        <5>1. {"request", "reread", "idle"} \subseteq Locations /\ \A l \in {"request", "reread", "idle"} : Distance[l] < Distance["compare"]
          BY DEF Locations, Distance
        <5> QED BY <4>2, <4>8, <5>1
      <4>9. CASE pc[u] = "reread" /\ Steps(u, {"parse", "idle"}, refresh[u])
        <5>1. {"parse", "idle"} \subseteq Locations /\ \A l \in {"parse", "idle"} : Distance[l] < Distance["reread"]
          BY DEF Locations, Distance
        <5> QED BY <4>2, <4>9, <5>1
      <4>10. CASE pc[u] = "request" /\ Steps(u, {"waiting"}, refresh[u])
        <5>1. {"waiting"} \subseteq Locations /\ \A l \in {"waiting"} : Distance[l] < Distance["request"]
          BY DEF Locations, Distance
        <5> QED BY <4>2, <4>10, <5>1
      <4>11. CASE pc[u] = "waiting" /\ Steps(u, {"reading", "store", "idle"}, refresh[u])
        <5>1. {"reading", "store", "idle"} \subseteq Locations /\ \A l \in {"reading", "store", "idle"} : Distance[l] < Distance["waiting"]
          BY DEF Locations, Distance
        <5> QED BY <4>2, <4>11, <5>1
      <4>12. CASE pc[u] = "reading" /\ Steps(u, {"store", "parse", "idle"}, refresh[u])
        <5>1. {"store", "parse", "idle"} \subseteq Locations /\ \A l \in {"store", "parse", "idle"} : Distance[l] < Distance["reading"]
          BY DEF Locations, Distance
        <5> QED BY <4>2, <4>12, <5>1
      <4>13. CASE pc[u] = "store" /\ Steps(u, {"parse", "idle"}, refresh[u])
        <5>1. {"parse", "idle"} \subseteq Locations /\ \A l \in {"parse", "idle"} : Distance[l] < Distance["store"]
          BY DEF Locations, Distance
        <5> QED BY <4>2, <4>13, <5>1
      <4>14. CASE pc[u] = "parse" /\ Steps(u, {"insert", "idle"}, refresh[u])
        <5>1. {"insert", "idle"} \subseteq Locations /\ \A l \in {"insert", "idle"} : Distance[l] < Distance["parse"]
          BY DEF Locations, Distance
        <5> QED BY <4>2, <4>14, <5>1
      <4>15. CASE pc[u] = "insert" /\ Steps(u, {"idle"}, refresh[u])
        <5>1. {"idle"} \subseteq Locations /\ \A l \in {"idle"} : Distance[l] < Distance["insert"]
          BY DEF Locations, Distance
        <5> QED BY <4>2, <4>15, <5>1
      <4>16. CallStep(u)
        BY <2>4, <3>2, StepsForward
      <4> HIDE DEF Nearer
      <4> QED BY <4>16, <4>3, <4>4, <4>5, <4>6, <4>7, <4>8, <4>9, <4>10, <4>11, <4>12, <4>13,
                 <4>14, <4>15, Zenon DEF CallStep
    <3> QED BY <3>1, <3>2
  <2> QED BY <2>1, <2>2, <2>3, <2>4 DEF Next
<1>2. TypeOK /\ [Next]_vars =>
        [\A t \in Threads :
            pc[t] # "idle" =>
                \/ StepsLeft(t)' < StepsLeft(t)
                \/ pc'[t] = pc[t] /\ refresh'[t] = refresh[t]]_vars
  BY <1>1
<1> QED BY <1>2, TypeCorrect, PTL DEF Spec, CallsAdvance

=============================================================================
