----------------------------- MODULE JwksClient -----------------------------
(***************************************************************************)
(* One PyJWKClient shared by the threads of a program (jwt/jwks_client.py, *)
(* jwt/jwk_set_cache.py), the JWKS endpoint it asks, and the clock.        *)
(*                                                                         *)
(* The client holds no lock: threads interleave between any two accesses   *)
(* to the cached JWK Set, so every access is a step of its own.  pc[t] is  *)
(* the access thread t is about to make; everything a thread does without  *)
(* touching shared state is part of the step before or after it.           *)
(*                                                                         *)
(* The endpoint publishes one document after another; history[v] is the    *)
(* v-th.  A document held by the client is known by its version v and by   *)
(* the time the endpoint answered with it, and an entry of the cache by    *)
(* the time it was stored too: facts the code does not keep.  It keeps the *)
(* content, and the timestamp the entry took when put built it.            *)
(***************************************************************************)
EXTENDS JwkLookup, FiniteSets

CONSTANTS
    Threads,         \* the threads that share the client
    Kids,            \* the key IDs
    Documents,       \* what the endpoint may publish, decoded
    CacheJwkSet,     \* cache_jwk_set (tier 1)
    Lifespan,        \* lifespan, in ticks
    CacheKeys,       \* cache_keys (tier 2)
    MaxCachedKeys,   \* max_cached_keys
    Operations,      \* the methods the threads call
    MaxTime,         \* bound of the model: the last tick
    MaxVersions      \* bound of the model: documents published

ASSUME JwksAssumption ==
    /\ NoKid \notin Kids
    /\ MaxCachedKeys \in Nat
    /\ CacheJwkSet \in BOOLEAN
    /\ CacheKeys \in BOOLEAN
    /\ Lifespan \in Nat
    /\ CacheJwkSet => Lifespan > 0   \* else __init__ raises PyJWKClientError
    /\ MaxTime \in Nat
    /\ MaxVersions \in Nat
    /\ \A d \in Documents : DOMAIN d.keys \subseteq Nat

VARIABLES
    \* the world
    now,         \* time.monotonic()
    history,     \* documents published so far; the last one is current
    \* the client object, shared
    cache,       \* jwk_set_cache.jwk_set_with_timestamp, or NoEntry
    lru,         \* the lru_cache of get_signing_key, least recent first
    \* the frame of each thread's call
    pc,
    op,          \* the method called
    kid,         \* its kid argument
    refresh,     \* get_jwk_set's refresh argument
    data,        \* the document in hand, or NoReply
    stamp,       \* the timestamp of the entry about to be stored
    clock,       \* the time is_expired has read
    outcome,     \* what the last call returned or raised
    \* history variables of each thread's call
    began,       \* time and version when it started
    sentAfter,   \* the newest version answered with when it sent its request
    requests,    \* how many requests it has made
    \* history variable of the endpoint
    newest       \* the newest version it has answered with, to any thread

world  == <<now, history>>
shared == <<cache, lru>>
frame  == <<pc, op, kid, refresh, data, stamp, clock, outcome>>
ghosts == <<began, sentAfter, requests, newest>>
vars   == <<world, shared, frame, ghosts>>

-----------------------------------------------------------------------------

NoReply == [version |-> 0, answered |-> 0]
NoEntry == [version |-> 0, answered |-> 0, stamp |-> 0, stored |-> 0]

Versions == 1..Len(history)

\* The endpoint's reply in hand is JSON null: put() and get_jwk_set see None.
IsNull(reply) == history[reply.version].shape = "null"

Methods == {"get_signing_key", "get_signing_keys", "get_jwk_set", "fetch_data"}

Locations ==
    {"idle",        \* between two calls
     "lru",         \* the lru_cache wrapper looks kid up
     "cache",       \* JWKSetCache.get reads the attribute: None?
     "expired",     \* is_expired reads it again: None?
     "clock",       \* is_expired reads the clock
     "compare",     \* is_expired reads it again: its timestamp
     "reread",      \* get reads it once more, to return it
     "request",     \* fetch_data opens the URL
     "waiting",     \* ... until the endpoint answers
     "reading",     \* ... and the response is read
     "store",       \* put assigns the attribute
     "parse",       \* get_jwk_set, get_signing_keys and match_kid
     "insert"}      \* the lru_cache wrapper adds the result

Reply == [version : Nat, answered : Nat]
Entry == [version : Nat, answered : Nat, stamp : Nat, stored : Nat]
Result == [kind : Kinds, version : Nat, index : Nat]
LruEntry == [kid : Kids, version : Nat, index : Nat]
Beginning == [time : Nat, version : Nat]

TypeOK ==
    /\ now \in Nat
    /\ history \in Seq(Documents)
    /\ cache \in Entry
    /\ lru \in Seq(LruEntry)
    /\ pc \in [Threads -> Locations]
    /\ op \in [Threads -> Methods]
    /\ kid \in [Threads -> Kids \cup {NoKid}]
    /\ refresh \in [Threads -> BOOLEAN]
    /\ data \in [Threads -> Reply]
    /\ stamp \in [Threads -> Nat]
    /\ clock \in [Threads -> Nat]
    /\ outcome \in [Threads -> Result]
    /\ began \in [Threads -> Beginning]
    /\ sentAfter \in [Threads -> Nat]
    /\ requests \in [Threads -> Nat]
    /\ newest \in Nat

Init ==
    /\ now = 0
    /\ history \in {<<d>> : d \in Documents}
    /\ cache = NoEntry
    /\ lru = <<>>
    /\ pc = [t \in Threads |-> "idle"]
    /\ op = [t \in Threads |-> "get_signing_key"]
    /\ kid = [t \in Threads |-> NoKid]
    /\ refresh = [t \in Threads |-> FALSE]
    /\ data = [t \in Threads |-> NoReply]
    /\ stamp = [t \in Threads |-> 0]
    /\ clock = [t \in Threads |-> 0]
    /\ outcome = [t \in Threads |-> NoOutcome]
    /\ began = [t \in Threads |-> [time |-> 0, version |-> 1]]
    /\ sentAfter = [t \in Threads |-> 0]
    /\ requests = [t \in Threads |-> 0]
    /\ newest = 0

-----------------------------------------------------------------------------
(* The world.                                                              *)

\* The endpoint replaces its document.
Publish(d) ==
    /\ Len(history) < MaxVersions
    /\ history' = Append(history, d)
    /\ UNCHANGED <<now, shared, frame, ghosts>>

\* Time passes, whatever the threads are at: urlopen's timeout is for one socket
\* operation, and nothing bounds how long a fetch, or a step of a thread, takes.
Tick ==
    /\ now < MaxTime
    /\ now' = now + 1
    /\ UNCHANGED <<history, shared, frame, ghosts>>

\* The endpoint answers the request of t with its current document.
Answer(t) ==
    /\ pc[t] = "waiting"
    /\ pc' = [pc EXCEPT ![t] = "reading"]
    /\ data' = [data EXCEPT ![t] = [version |-> Len(history), answered |-> now]]
    /\ newest' = Len(history)
    /\ UNCHANGED <<world, shared, op, kid, refresh, stamp, clock, outcome,
                   began, sentAfter, requests>>

-----------------------------------------------------------------------------
(* Calls.                                                                  *)

Goto(t, location) == pc' = [pc EXCEPT ![t] = location]

Return(t, result) ==
    /\ Goto(t, "idle")
    /\ outcome' = [outcome EXCEPT ![t] = result]

Call(t, method, k, r, location) ==
    /\ pc[t] = "idle"
    /\ method \in Operations
    /\ Goto(t, location)
    /\ op' = [op EXCEPT ![t] = method]
    /\ kid' = [kid EXCEPT ![t] = k]
    /\ refresh' = [refresh EXCEPT ![t] = r]
    /\ data' = [data EXCEPT ![t] = NoReply]
    /\ outcome' = [outcome EXCEPT ![t] = NoOutcome]
    /\ began' = [began EXCEPT ![t] = [time |-> now, version |-> Len(history)]]
    /\ requests' = [requests EXCEPT ![t] = 0]
    /\ UNCHANGED <<world, shared, stamp, clock, sentAfter, newest>>

\* get_signing_key(kid); get_signing_key_from_jwt is this call on the kid of
\* the token's header, or on None.
GetSigningKey(t, k) ==
    Call(t, "get_signing_key", k, FALSE, IF CacheKeys THEN "lru" ELSE "cache")

GetSigningKeys(t, r) == Call(t, "get_signing_keys", NoKid, r, "cache")

GetJwkSet(t, r) == Call(t, "get_jwk_set", NoKid, r, "cache")

FetchData(t) == Call(t, "fetch_data", NoKid, TRUE, "request")

-----------------------------------------------------------------------------
(* Tier 2: functools.lru_cache around get_signing_key.                     *)

LruKey(i) == Outcome("key", lru[i].version, lru[i].index)

\* s with its i-th element moved to the end.
MoveToEnd(s, i) ==
    [j \in 1..Len(s) |->
        IF j < i THEN s[j] ELSE IF j < Len(s) THEN s[j + 1] ELSE s[i]]

LruHit(t) ==
    /\ pc[t] = "lru"
    /\ \E i \in 1..Len(lru) :
          /\ lru[i].kid = kid[t]
          /\ lru' = MoveToEnd(lru, i)
          /\ Return(t, LruKey(i))
    /\ UNCHANGED <<world, cache, op, kid, refresh, data, stamp, clock, ghosts>>

LruMiss(t) ==
    /\ pc[t] = "lru"
    /\ \A i \in 1..Len(lru) : lru[i].kid # kid[t]
    /\ Goto(t, "cache")
    /\ UNCHANGED <<world, shared, op, kid, refresh, data, stamp, clock, outcome, ghosts>>

\* The wrapper adds the key it has computed, without a lock since its lookup:
\* if another thread has added the same kid meanwhile, that entry stays.
LruAdd(s, e) ==
    IF MaxCachedKeys = 0 \/ \E i \in 1..Len(s) : s[i].kid = e.kid THEN s
    ELSE IF Len(s) < MaxCachedKeys THEN Append(s, e)
    ELSE Append(Tail(s), e)

LruInsert(t) ==
    /\ pc[t] = "insert"
    /\ lru' = LruAdd(lru, [kid     |-> kid[t],
                           version |-> outcome[t].version,
                           index   |-> outcome[t].index])
    /\ Goto(t, "idle")
    /\ UNCHANGED <<world, cache, op, kid, refresh, data, stamp, clock, outcome, ghosts>>

-----------------------------------------------------------------------------
(* Tier 1: JWKSetCache.get, one step per access.                           *)

\* Mutant: refresh=True does not bypass the cache.
CacheLookup_IgnoresRefresh(t) ==
    /\ pc[t] = "cache"
    /\ Goto(t, IF CacheJwkSet /\ cache # NoEntry THEN "expired" ELSE "request")
    /\ UNCHANGED <<world, shared, op, kid, refresh, data, stamp, clock, outcome, ghosts>>

\* Mutant: get does not look whether there is an entry.
CacheLookup_NoneUnchecked(t) ==
    /\ pc[t] = "cache"
    /\ Goto(t, IF CacheJwkSet /\ ~refresh[t] THEN "expired" ELSE "request")
    /\ UNCHANGED <<world, shared, op, kid, refresh, data, stamp, clock, outcome, ghosts>>

\* get_jwk_set consults the cache unless it is off or refresh is set;
\* get reads the attribute and returns None if it is None.
CacheLookup(t) ==
    /\ pc[t] = "cache"
    /\ Goto(t, IF CacheJwkSet /\ ~refresh[t] /\ cache # NoEntry
               THEN "expired" ELSE "request")
    /\ UNCHANGED <<world, shared, op, kid, refresh, data, stamp, clock, outcome, ghosts>>

\* is_expired reads the attribute again: it says False if it is None now.
\* (lifespan > -1 holds: __init__ refuses others.)
IsExpiredNone(t) ==
    /\ pc[t] = "expired"
    /\ Goto(t, IF cache = NoEntry THEN "reread" ELSE "clock")
    /\ UNCHANGED <<world, shared, op, kid, refresh, data, stamp, clock, outcome, ghosts>>

ReadClock(t) ==
    /\ pc[t] = "clock"
    /\ clock' = [clock EXCEPT ![t] = now]
    /\ Goto(t, "compare")
    /\ UNCHANGED <<world, shared, op, kid, refresh, data, stamp, outcome, ghosts>>

\* The access raised AttributeError: the attribute had become None.
CrashOnNone(t) ==
    /\ pc[t] \in {"compare", "reread"}
    /\ cache = NoEntry
    /\ Return(t, Raise("AttributeError"))
    /\ clock' = [clock EXCEPT ![t] = 0]
    /\ UNCHANGED <<world, shared, op, kid, refresh, data, stamp, ghosts>>

\* Mutant: an entry expires at the end of its lifespan, not after it.
IsExpiredCompare_AtLifespan(t) ==
    /\ pc[t] = "compare"
    /\ cache # NoEntry
    /\ Goto(t, IF clock[t] >= cache.stamp + Lifespan THEN "request" ELSE "reread")
    /\ clock' = [clock EXCEPT ![t] = 0]
    /\ UNCHANGED <<world, shared, op, kid, refresh, data, stamp, outcome, ghosts>>

IsExpiredCompare(t) ==
    /\ pc[t] = "compare"
    /\ cache # NoEntry
    /\ Goto(t, IF clock[t] > cache.stamp + Lifespan THEN "request" ELSE "reread")
    /\ clock' = [clock EXCEPT ![t] = 0]
    /\ UNCHANGED <<world, shared, op, kid, refresh, data, stamp, outcome, ghosts>>

\* Mutant: get returns the entry itself, not the set in it.
CacheReturn_Entry(t) ==
    /\ pc[t] = "reread"
    /\ cache # NoEntry
    /\ data' = [data EXCEPT ![t] = cache]
    /\ Goto(t, "parse")
    /\ UNCHANGED <<world, shared, op, kid, refresh, stamp, clock, outcome, ghosts>>

\* Mutant: a hit gives the entry a new timestamp.
CacheReturn_Renews(t) ==
    /\ pc[t] = "reread"
    /\ cache # NoEntry
    /\ data' = [data EXCEPT ![t] = [version |-> cache.version, answered |-> cache.answered]]
    /\ cache' = [cache EXCEPT !.stamp = now]
    /\ Goto(t, "parse")
    /\ UNCHANGED <<world, lru, op, kid, refresh, stamp, clock, outcome, ghosts>>

CacheReturn(t) ==
    /\ pc[t] = "reread"
    /\ cache # NoEntry
    /\ data' = [data EXCEPT ![t] = [version |-> cache.version, answered |-> cache.answered]]
    /\ Goto(t, "parse")
    /\ UNCHANGED <<world, shared, op, kid, refresh, stamp, clock, outcome, ghosts>>

-----------------------------------------------------------------------------
(* fetch_data.                                                             *)

SendRequest(t) ==
    /\ pc[t] = "request"
    /\ Goto(t, "waiting")
    /\ data' = [data EXCEPT ![t] = NoReply]
    /\ sentAfter' = [sentAfter EXCEPT ![t] = newest]
    /\ requests' = [requests EXCEPT ![t] = @ + 1]
    /\ UNCHANGED <<world, shared, op, kid, refresh, stamp, clock, outcome, began, newest>>

\* fetch_data returns: its caller raises unless the JSON is an object.
AfterFetch(t) ==
    IF op[t] = "fetch_data"
    THEN Return(t, Outcome("document", data[t].version, 0))
    ELSE Goto(t, "parse") /\ UNCHANGED outcome

\* json.load has the document.  With the cache on, put builds the entry, which
\* takes the time, and assigns it in a later step.
Receive(t) ==
    /\ pc[t] = "reading"
    /\ IF CacheJwkSet
       THEN /\ stamp' = [stamp EXCEPT ![t] = IF IsNull(data[t]) THEN 0 ELSE now]
            /\ Goto(t, "store")
            /\ UNCHANGED <<outcome, sentAfter>>
       ELSE /\ AfterFetch(t)
            /\ sentAfter' = [sentAfter EXCEPT ![t] = 0]
            /\ UNCHANGED stamp
    /\ UNCHANGED <<world, shared, op, kid, refresh, data, clock, began, requests, newest>>

\* Mutant: after a failed fetch the cached set is put back, as if it had just been
\* fetched.
FetchFails_KeepsCached(t, failure) ==
    /\ pc[t] \in {"waiting", "reading"}
    /\ data' = [data EXCEPT ![t] = [version |-> cache.version, answered |-> cache.answered]]
    /\ outcome' = [outcome EXCEPT ![t] = Raise(failure)]
    /\ stamp' = [stamp EXCEPT ![t] = now]
    /\ IF CacheJwkSet
       THEN Goto(t, "store") /\ UNCHANGED sentAfter
       ELSE Goto(t, "idle") /\ sentAfter' = [sentAfter EXCEPT ![t] = 0]
    /\ UNCHANGED <<world, shared, op, kid, refresh, clock, began, requests, newest>>

\* urlopen or json.load raised.  URLError and TimeoutError become
\* PyJWKClientConnectionError, any other exception leaves as it is; either way
\* finally calls put(None).
FetchFails(t, failure) ==
    /\ pc[t] \in {"waiting", "reading"}
    /\ data' = [data EXCEPT ![t] = NoReply]
    /\ outcome' = [outcome EXCEPT ![t] = Raise(failure)]
    /\ IF CacheJwkSet
       THEN Goto(t, "store") /\ UNCHANGED sentAfter
       ELSE Goto(t, "idle") /\ sentAfter' = [sentAfter EXCEPT ![t] = 0]
    /\ UNCHANGED <<world, shared, op, kid, refresh, stamp, clock, began, requests, newest>>

\* put assigns the attribute: the new entry, or None after a failure or null.
Store(t) ==
    /\ pc[t] = "store"
    /\ IF data[t] = NoReply
       THEN /\ cache' = NoEntry
            /\ Goto(t, "idle")
            /\ UNCHANGED outcome
       ELSE /\ cache' = IF IsNull(data[t]) THEN NoEntry
                        ELSE [version  |-> data[t].version,
                              answered |-> data[t].answered,
                              stamp    |-> stamp[t],
                              stored   |-> now]
            /\ AfterFetch(t)
    /\ stamp' = [stamp EXCEPT ![t] = 0]
    /\ sentAfter' = [sentAfter EXCEPT ![t] = 0]
    /\ UNCHANGED <<world, lru, op, kid, refresh, data, clock, began, requests, newest>>

-----------------------------------------------------------------------------
(* get_jwk_set, get_signing_keys and get_signing_key on the data in hand.  *)

Doc(t) == history[data[t].version]

ParseErrors(t) ==
    IF op[t] = "get_jwk_set" THEN JwkSetErrors(Doc(t)) ELSE SigningKeysErrors(Doc(t))

ParseRaises(t) ==
    /\ pc[t] = "parse"
    /\ \E e \in ParseErrors(t) : Return(t, Raise(e))
    /\ UNCHANGED <<world, shared, op, kid, refresh, data, stamp, clock, ghosts>>

ReturnSet(t) ==
    /\ pc[t] = "parse"
    /\ op[t] # "get_signing_key"
    /\ ParseErrors(t) = {}
    /\ Return(t, Outcome("set", data[t].version, 0))
    /\ UNCHANGED <<world, shared, op, kid, refresh, data, stamp, clock, ghosts>>

Matching(t) == pc[t] = "parse" /\ op[t] = "get_signing_key" /\ ParseErrors(t) = {}

\* Mutant: match_kid searches the keys of the set, not the signing keys.
MatchFound_AnyUse(t) ==
    /\ Matching(t)
    /\ \E i \in {i \in UsableKeys(Doc(t)) : Doc(t).keys[i].kid = kid[t]} :
          outcome' = [outcome EXCEPT ![t] = Outcome("key", data[t].version, i)]
    /\ Goto(t, IF CacheKeys THEN "insert" ELSE "idle")
    /\ UNCHANGED <<world, shared, op, kid, refresh, data, stamp, clock, ghosts>>

MatchFound(t) ==
    /\ Matching(t)
    /\ \E i \in FirstMatch(Doc(t), kid[t]) :
          outcome' = [outcome EXCEPT ![t] = Outcome("key", data[t].version, i)]
    /\ Goto(t, IF CacheKeys THEN "insert" ELSE "idle")
    /\ UNCHANGED <<world, shared, op, kid, refresh, data, stamp, clock, ghosts>>

\* Mutant: the set is refreshed again and again until the kid is there.
MatchRefresh_Forever(t) ==
    /\ Matching(t)
    /\ FirstMatch(Doc(t), kid[t]) = {}
    /\ refresh' = [refresh EXCEPT ![t] = TRUE]
    /\ Goto(t, "cache")
    /\ UNCHANGED <<world, shared, op, kid, data, stamp, clock, outcome, ghosts>>

\* Mutant: the lookup is tried again without refresh=True.
MatchRefresh_FromCache(t) ==
    /\ Matching(t)
    /\ FirstMatch(Doc(t), kid[t]) = {}
    /\ ~refresh[t]
    /\ Goto(t, "cache")
    /\ UNCHANGED <<world, shared, op, kid, refresh, data, stamp, clock, outcome, ghosts>>

\* No match: the set is refreshed and the lookup tried again, once.
MatchRefresh(t) ==
    /\ Matching(t)
    /\ FirstMatch(Doc(t), kid[t]) = {}
    /\ ~refresh[t]
    /\ refresh' = [refresh EXCEPT ![t] = TRUE]
    /\ Goto(t, "cache")
    /\ UNCHANGED <<world, shared, op, kid, data, stamp, clock, outcome, ghosts>>

\* Mutant: the lookup gives up without a refresh.
MatchFails_AtOnce(t) ==
    /\ Matching(t)
    /\ FirstMatch(Doc(t), kid[t]) = {}
    /\ Return(t, Raise("unableToFind"))
    /\ UNCHANGED <<world, shared, op, kid, refresh, data, stamp, clock, ghosts>>

MatchFails(t) ==
    /\ Matching(t)
    /\ FirstMatch(Doc(t), kid[t]) = {}
    /\ refresh[t]
    /\ Return(t, Raise("unableToFind"))
    /\ UNCHANGED <<world, shared, op, kid, refresh, data, stamp, clock, ghosts>>

-----------------------------------------------------------------------------

Start(t) ==
    \/ \E k \in Kids \cup {NoKid} : GetSigningKey(t, k)
    \/ \E r \in BOOLEAN : GetSigningKeys(t, r)
    \/ \E r \in BOOLEAN : GetJwkSet(t, r)
    \/ FetchData(t)

\* The steps t takes on its own.
Proceed(t) ==
    \/ LruHit(t) \/ LruMiss(t) \/ LruInsert(t)
    \/ CacheLookup(t) \/ IsExpiredNone(t) \/ ReadClock(t)
    \/ IsExpiredCompare(t) \/ CrashOnNone(t) \/ CacheReturn(t)
    \/ SendRequest(t) \/ Store(t)
    \/ ParseRaises(t) \/ ReturnSet(t)
    \/ MatchFound(t) \/ MatchRefresh(t) \/ MatchFails(t)

\* The steps that end a wait on the network: an answer, its arrival, or an error.
Network(t) ==
    \/ Answer(t)
    \/ Receive(t)
    \/ \E failure \in Failures : FetchFails(t, failure)

Next ==
    \/ \E d \in Documents : Publish(d)
    \/ Tick
    \/ \E t \in Threads : Start(t) \/ Proceed(t) \/ Network(t)

Spec == Init /\ [][Next]_vars

\* Runnable threads are scheduled, and every wait on the network ends: with
\* urlopen's timeout a silent endpoint ends it, one that answers without end is
\* left out.
Fairness == \A t \in Threads : WF_vars(Proceed(t)) /\ WF_vars(Network(t))

FairSpec == Spec /\ Fairness

-----------------------------------------------------------------------------
(* Safety.                                                                 *)

Done(t) == pc[t] = "idle" /\ outcome[t].kind # "none"

\* The key named by version and index is one the endpoint published for k, in
\* a document whose first signing key for k it is.
IsPublishedKey(version, index, k) ==
    /\ version \in Versions
    /\ index \in FirstMatch(history[version], k)

\* Whatever threads interleave, a lookup that succeeds returns a key that the
\* endpoint really published for the requested kid as a signing key; a key of
\* the LRU tier too (jwks_client.py:161-165, 216-233, 91).
KeysArePublished ==
    /\ \A t \in Threads :
          outcome[t].kind = "key" =>
              IsPublishedKey(outcome[t].version, outcome[t].index, kid[t])
    /\ \A i \in 1..Len(lru) : IsPublishedKey(lru[i].version, lru[i].index, lru[i].kid)

\* What a call that found no key has in hand.
Denied(t) == Done(t) /\ outcome[t].kind = "unableToFind"

DeniedFresh(t) ==
    /\ data[t].answered >= began[t].time
    /\ data[t].version \in began[t].version..Len(history)
    /\ FirstMatch(history[data[t].version], kid[t]) = {}

\* "Unable to find a signing key" is never said from memory: the endpoint was
\* asked during the call and its answer has no such key
\* (jwks_client.py:188-196).
DenialsAreFresh == \A t \in Threads : Denied(t) => DeniedFresh(t)

\* With the JWK Set cache off, or with refresh=True, a call concludes nothing
\* from a set the endpoint answered with before the call began
\* (jwks_client.py:124-140).
RefreshedIsFresh ==
    \A t \in Threads :
        (Done(t) /\ data[t].version # 0 /\ (refresh[t] \/ ~CacheJwkSet)) =>
            /\ data[t].answered >= began[t].time
            /\ data[t].version >= began[t].version

\* A call asks the endpoint at most twice, and twice only when the first answer
\* was usable but had no key for the kid (jwks_client.py:175-176, 185-191).
RequestBudget ==
    \A t \in Threads :
        /\ requests[t] <= 2
        /\ requests[t] = 2 => op[t] = "get_signing_key" /\ refresh[t]

-----------------------------------------------------------------------------
(* What makes the safety properties inductive.                             *)

\* Documents in hand or in the cache have been published, and a thread that
\* reads or parses one has one.
VersionsOK ==
    /\ Len(history) >= 1
    /\ cache.version \in 0..Len(history)
    /\ cache.version = 0 => cache = NoEntry
    /\ \A t \in Threads :
          /\ data[t].version \in 0..Len(history)
          /\ data[t].version = 0 => data[t] = NoReply
          /\ pc[t] \in {"reading", "parse"} => data[t].version # 0
          /\ pc[t] = "lru" => data[t].version = 0

\* The result a thread adds to the LRU cache is a key, and no call has denied a
\* key before it ends.
LookupsOK ==
    /\ KeysArePublished
    /\ \A t \in Threads :
          /\ pc[t] = "insert" => outcome[t].kind = "key"
          /\ pc[t] # "idle" => outcome[t].kind # "unableToFind"

\* The document t holds was answered during its call.
Fresh(t) ==
    /\ data[t].answered >= began[t].time
    /\ data[t].version >= began[t].version

\* Times follow each other as the steps of a call do; the entry get is about to
\* return is recent enough even if it is not the one is_expired looked at.
ThreadTimes(t) ==
    /\ began[t].time <= now
    /\ began[t].version \in 1..Len(history)
    /\ (pc[t] \in {"reading", "store"} /\ data[t].version # 0) => Fresh(t)
    /\ stamp[t] <= now
    /\ pc[t] = "compare" => began[t].time <= clock[t]
    /\ (pc[t] = "reread" /\ cache # NoEntry) =>
          began[t].time <= cache.stored + Lifespan
    /\ pc[t] \in {"expired", "clock", "compare", "reread"} => CacheJwkSet /\ ~refresh[t]
    /\ (/\ pc[t] \in {"parse", "insert", "idle"}
        /\ data[t].version # 0
        /\ refresh[t] \/ ~CacheJwkSet) => Fresh(t)

TimesOK ==
    /\ cache # NoEntry => cache.stamp <= cache.stored /\ cache.stored <= now
    /\ \A t \in Threads : ThreadTimes(t)

\* The endpoint never goes back: its answer to a request is at least as new as
\* any it had given when the request was sent.
OrderOK ==
    /\ newest <= Len(history)
    /\ \A t \in Threads :
          /\ sentAfter[t] <= Len(history)
          /\ (pc[t] \in {"reading", "store"} /\ data[t].version # 0) =>
                sentAfter[t] <= data[t].version

\* A thread that may still send a request has one left.
Budget(t) == IF op[t] = "get_signing_key" /\ refresh[t] THEN 2 ELSE 1

BudgetOK ==
    \A t \in Threads :
        /\ requests[t] <= Budget(t)
        /\ pc[t] \in {"lru", "cache", "expired", "clock", "compare", "reread", "request"}
              => requests[t] < Budget(t)

\* A thread that is about to clear the cache after a failed fetch has that
\* failure to raise.
FailuresOK ==
    \A t \in Threads :
        (pc[t] = "store" /\ data[t] = NoReply) =>
            outcome[t] \in {Raise(failure) : failure \in Failures}

\* What a client used by one thread knows between two accesses: the entry it
\* has seen is still there, and the reason for a request still holds.
OneThread == \A t, u \in Threads : t = u

OneThreadOK ==
    \A t \in Threads :
        /\ pc[t] \in {"expired", "clock", "compare", "reread"} => cache # NoEntry
        /\ pc[t] = "compare" => clock[t] <= now
        /\ (pc[t] = "request" /\ ~refresh[t] /\ CacheJwkSet) =>
              cache = NoEntry \/ now > cache.stamp + Lifespan
        /\ outcome[t].kind # "AttributeError"

IInv ==
    /\ TypeOK
    /\ VersionsOK
    /\ LookupsOK
    /\ TimesOK
    /\ DenialsAreFresh
    /\ OrderOK
    /\ BudgetOK

-----------------------------------------------------------------------------
(* Steps.                                                                  *)

\* A call works on a JWK Set the endpoint answered with after the call began, or
\* on one found in the cache, put there at most Lifespan before the call began:
\* a bad document, once replaced, serves no call that begins later than that.
\* It is so even if get returns another entry than the one is_expired found
\* fresh, and however long the thread waits between its accesses
\* (jwks_client.py:124-140, jwk_set_cache.py:19-31).
BoundedStaleness ==
    [][\A t \in Threads :
          (pc[t] # "parse" /\ pc'[t] = "parse") =>
              \/ data'[t].answered >= began[t].time
              \/ /\ cache # NoEntry
                 /\ data'[t] = [version |-> cache.version, answered |-> cache.answered]
                 /\ began[t].time <= cache.stored + Lifespan]_vars

\* The cache goes back to an older document only when two fetches overlap: the
\* request whose answer is stored last was sent before the endpoint had given
\* any answer as new as the one it replaces
\* (jwks_client.py:105-122: put is not ordered with the requests).
RegressOnlyByOverlap ==
    [][(cache' # NoEntry /\ cache'.version < cache.version) =>
          \E t \in Threads : /\ pc[t] = "store" /\ pc'[t] # "store"
                             /\ data[t].version = cache'.version
                             /\ sentAfter[t] < cache.version]_vars

\* "the JWK Set is fetched from the network only when the cache is empty or
\* expired" (jwks_client.py:38-39), or to refresh it for an unknown kid.  This
\* is for a client used by one thread: others may store an entry between the
\* check and the request.
FetchOnlyWhenNeeded ==
    [][\A t \in Threads :
          (pc[t] = "request" /\ pc'[t] = "waiting" /\ ~refresh[t] /\ CacheJwkSet) =>
              cache = NoEntry \/ now > cache.stamp + Lifespan]_vars

\* How many steps of its own a call may still take: those from its location to
\* its end, and those of a second try if it has had none.
Distance ==
    [idle |-> 0, insert |-> 1, parse |-> 2, store |-> 3, reading |-> 4, waiting |-> 5,
     request |-> 6, reread |-> 7, compare |-> 8, clock |-> 9, expired |-> 10,
     cache |-> 11, lru |-> 12]

StepsLeft(t) ==
    IF pc[t] = "idle" THEN 0 ELSE Distance[pc[t]] + (IF refresh[t] THEN 0 ELSE 10)

\* A call gets nearer its end with every step it takes, the retry included, and
\* nothing that another thread, the endpoint or the clock does takes it back:
\* it ends within 22 steps of its own (jwks_client.py:185-198).
CallsAdvance ==
    [][\A t \in Threads :
          pc[t] # "idle" =>
              \/ StepsLeft(t)' < StepsLeft(t)
              \/ pc'[t] = pc[t] /\ refresh'[t] = refresh[t]]_vars

-----------------------------------------------------------------------------
(* Refinement.                                                             *)

\* The client implements the directory: caches, interleavings, failures and
\* expiry only decide which of its answers a call gets
\* (jwks_client.py:172-198 and all it calls).
Directory == INSTANCE KeyDirectory WITH
    question <- [t \in Threads |->
                    IF pc[t] = "idle" THEN [kid |-> NoKid, since |-> 0]
                    ELSE [kid |-> kid[t], since |-> began[t].version]],
    answer   <- [t \in Threads |-> IF pc[t] = "idle" THEN outcome[t] ELSE NoOutcome]

ImplementsDirectory == Directory!Spec

-----------------------------------------------------------------------------
(* Liveness.                                                               *)

\* Every call returns or raises: the refresh is tried once, and the waits on the
\* network end (jwks_client.py:108-110, 185-198).
CallsReturn == \A t \in Threads : pc[t] # "idle" ~> pc[t] = "idle"

-----------------------------------------------------------------------------
(* What the documentation says and the code does not do.                   *)

\* JWKSetCache.get returns an entry or None (jwk_set_cache.py:19, its return
\* type), so that a lookup raises no AttributeError.  That is so for a client
\* used by one thread.
GetReturnsOptional ==
    \A t \in Threads : outcome[t].kind # "AttributeError"
=============================================================================
