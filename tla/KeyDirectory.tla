---------------------------- MODULE KeyDirectory ----------------------------
(***************************************************************************)
(* What PyJWKClient promises its callers, with its caches, requests, clock *)
(* and failures left out: an endpoint publishes documents, threads ask for *)
(* the signing key of a kid, and each question gets one answer.            *)
(*                                                                         *)
(*   - a key that is answered is the one some document, published so far,  *)
(*     has for that kid;                                                   *)
(*   - "unable to find" is answered only when a document that was current  *)
(*     at some time since the question has no key for that kid;            *)
(*   - any other error may be answered at any time.                        *)
(***************************************************************************)
EXTENDS JwkLookup

CONSTANTS Threads, Kids, Documents

VARIABLES history,   \* the documents published so far
          question,  \* the kid each thread waits for and the version when it asked
          answer     \* the last answer to each thread

vars == <<history, question, answer>>

NoQuestion == [kid |-> NoKid, since |-> 0]

Init ==
    /\ history \in {<<d>> : d \in Documents}
    /\ question = [t \in Threads |-> NoQuestion]
    /\ answer = [t \in Threads |-> NoOutcome]

Publish ==
    /\ \E d \in Documents : history' = Append(history, d)
    /\ UNCHANGED <<question, answer>>

Ask(t) ==
    /\ question[t] = NoQuestion
    /\ \E k \in Kids \cup {NoKid} :
          question' = [question EXCEPT ![t] = [kid |-> k, since |-> Len(history)]]
    /\ answer' = [answer EXCEPT ![t] = NoOutcome]
    /\ UNCHANGED history

\* The question of t is settled by the answer.
Settle(t) ==
    /\ question[t] # NoQuestion
    /\ question' = [question EXCEPT ![t] = NoQuestion]
    /\ UNCHANGED history

Say(t, result) == answer' = [answer EXCEPT ![t] = result]

\* The key some document published so far has for the kid.
Find(t) ==
    /\ Settle(t)
    /\ \E v \in 1..Len(history) :
          \E i \in FirstMatch(history[v], question[t].kid) : Say(t, Outcome("key", v, i))

\* A JWK Set, a list of keys or a document.
Give(t) ==
    /\ Settle(t)
    /\ \E v \in 1..Len(history), kind \in {"set", "document"} : Say(t, Outcome(kind, v, 0))

\* A document current since the question has no key for the kid.
Deny(t) ==
    /\ Settle(t)
    /\ \E v \in question[t].since..Len(history) :
          FirstMatch(history[v], question[t].kid) = {}
    /\ Say(t, Raise("unableToFind"))

Fail(t) ==
    /\ Settle(t)
    /\ \E kind \in Kinds \ {"none", "key", "set", "document", "unableToFind"} :
          Say(t, Raise(kind))

Next == Publish \/ \E t \in Threads : Ask(t) \/ Find(t) \/ Give(t) \/ Deny(t) \/ Fail(t)

Spec == Init /\ [][Next]_vars
=============================================================================
