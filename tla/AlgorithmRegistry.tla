-------------------------- MODULE AlgorithmRegistry --------------------------
(***************************************************************************)
(* The algorithms a PyJWS object knows (jwt/api_jws.py): the table of      *)
(* handlers and, apart from it, the set of names get_algorithms lists.     *)
(* The module-level functions of jwt.api_jws work on one object shared by  *)
(* the whole program, so threads interleave between the check a method     *)
(* makes and the two writes that follow it; none of them takes a lock.     *)
(***************************************************************************)
EXTENDS Naturals, FiniteSets

CONSTANTS
    Threads,
    Names,       \* algorithm names
    Defaults,    \* the names get_default_algorithms has handlers for
    Whitelists,  \* what the algorithms argument of the constructor may be
    Handlers,    \* Algorithm objects a program may register
    Builtin,     \* the handler of a default name
    NotAlgorithm,\* an object that is not an Algorithm
    NoHandler    \* no entry in the table

ASSUME RegistryAssumption ==
    /\ Defaults \subseteq Names
    /\ Whitelists \subseteq SUBSET Names
    /\ NoHandler \notin Handlers \cup {Builtin, NotAlgorithm}

VARIABLES
    algorithms,  \* self._algorithms: names to handlers
    valid,       \* self._valid_algs
    pc, name, handler,  \* each thread's call: its next access, its arguments
    outcome,     \* what it returned or raised
    \* history variables
    whitelisted, \* names the constructor listed and no call has registered
    contended    \* names two calls have worked on at the same time

object == <<algorithms, valid>>
frame  == <<pc, name, handler, outcome>>
ghosts == <<whitelisted, contended>>
vars   == <<object, frame, ghosts>>

Locations ==
    {"idle", "register", "assign", "add", "unregister", "delete", "remove"}

Outcomes == {"none", "done", "ValueError", "TypeError", "KeyError", "NotImplementedError"}

Registered == {n \in Names : algorithms[n] # NoHandler}

TypeOK ==
    /\ algorithms \in [Names -> Handlers \cup {Builtin, NoHandler}]
    /\ valid \subseteq Names
    /\ pc \in [Threads -> Locations]
    /\ name \in [Threads -> Names]
    /\ handler \in [Threads -> Handlers \cup {NotAlgorithm}]
    /\ outcome \in [Threads -> Outcomes]
    /\ whitelisted \subseteq Names
    /\ contended \subseteq Names

\* PyJWS(algorithms): the defaults that are on the whitelist keep their handler,
\* the names on it without one are valid all the same.
Init ==
    /\ \E w \in Whitelists \cup {Defaults} :
          /\ algorithms = [n \in Names |-> IF n \in Defaults \cap w THEN Builtin ELSE NoHandler]
          /\ valid = w
          /\ whitelisted = w \ Defaults
    /\ pc = [t \in Threads |-> "idle"]
    /\ name \in [Threads -> Names]
    /\ handler = [t \in Threads |-> NotAlgorithm]
    /\ outcome = [t \in Threads |-> "none"]
    /\ contended = {}

-----------------------------------------------------------------------------

Goto(t, location) == pc' = [pc EXCEPT ![t] = location]

Return(t, result) ==
    /\ Goto(t, "idle")
    /\ outcome' = [outcome EXCEPT ![t] = result]

\* Threads at work on the entry of n.
Working(n) == {t \in Threads : pc[t] # "idle" /\ name[t] = n}

Call(t, location, n, h) ==
    /\ pc[t] = "idle"
    /\ Goto(t, location)
    /\ name' = [name EXCEPT ![t] = n]
    /\ handler' = [handler EXCEPT ![t] = h]
    /\ outcome' = [outcome EXCEPT ![t] = "none"]
    /\ contended' = IF Working(n) = {} THEN contended ELSE contended \cup {n}
    /\ UNCHANGED <<object, whitelisted>>

\* register_algorithm(n, h)
Register(t, n, h) == Call(t, "register", n, h)

\* unregister_algorithm(n)
Unregister(t, n) == Call(t, "unregister", n, NotAlgorithm)

\* get_algorithm_by_name(n), one lookup
GetAlgorithmByName(t, n) ==
    /\ pc[t] = "idle"
    /\ name' = [name EXCEPT ![t] = n]
    /\ outcome' = [outcome EXCEPT ![t] =
                      IF algorithms[n] = NoHandler THEN "NotImplementedError" ELSE "done"]
    /\ UNCHANGED <<object, pc, handler, ghosts>>

RegisterRefused(t) ==
    /\ pc[t] = "register"
    /\ \/ algorithms[name[t]] # NoHandler /\ Return(t, "ValueError")
       \/ algorithms[name[t]] = NoHandler /\ handler[t] = NotAlgorithm /\ Return(t, "TypeError")
    /\ UNCHANGED <<object, name, handler, ghosts>>

\* Mutant: a handler is replaced.
RegisterChecked_Replaces(t) ==
    /\ pc[t] = "register"
    /\ handler[t] # NotAlgorithm
    /\ Goto(t, "assign")
    /\ UNCHANGED <<object, name, handler, outcome, ghosts>>

\* Mutant: any object will do for a handler.
RegisterChecked_AnyObject(t) ==
    /\ pc[t] = "register"
    /\ algorithms[name[t]] = NoHandler
    /\ Goto(t, "assign")
    /\ UNCHANGED <<object, name, handler, outcome, ghosts>>

RegisterChecked(t) ==
    /\ pc[t] = "register"
    /\ algorithms[name[t]] = NoHandler
    /\ handler[t] # NotAlgorithm
    /\ Goto(t, "assign")
    /\ UNCHANGED <<object, name, handler, outcome, ghosts>>

Assign(t) ==
    /\ pc[t] = "assign"
    /\ algorithms' = [algorithms EXCEPT ![name[t]] = handler[t]]
    /\ whitelisted' = whitelisted \ {name[t]}
    /\ Goto(t, "add")
    /\ UNCHANGED <<valid, name, handler, outcome, contended>>

\* Mutant: the name is not listed.
Add_Forgets(t) ==
    /\ pc[t] = "add"
    /\ Return(t, "done")
    /\ UNCHANGED <<object, name, handler, ghosts>>

Add(t) ==
    /\ pc[t] = "add"
    /\ valid' = valid \cup {name[t]}
    /\ Return(t, "done")
    /\ UNCHANGED <<algorithms, name, handler, ghosts>>

UnregisterRefused(t) ==
    /\ pc[t] = "unregister"
    /\ algorithms[name[t]] = NoHandler
    /\ Return(t, "KeyError")
    /\ UNCHANGED <<object, name, handler, ghosts>>

UnregisterChecked(t) ==
    /\ pc[t] = "unregister"
    /\ algorithms[name[t]] # NoHandler
    /\ Goto(t, "delete")
    /\ UNCHANGED <<object, name, handler, outcome, ghosts>>

\* del self._algorithms[n]: KeyError if another thread was faster.
Delete(t) ==
    /\ pc[t] = "delete"
    /\ IF algorithms[name[t]] = NoHandler
       THEN Return(t, "KeyError") /\ UNCHANGED algorithms
       ELSE /\ algorithms' = [algorithms EXCEPT ![name[t]] = NoHandler]
            /\ Goto(t, "remove")
            /\ UNCHANGED outcome
    /\ UNCHANGED <<valid, name, handler, ghosts>>

\* self._valid_algs.remove(n): KeyError if it is not there.
Remove(t) ==
    /\ pc[t] = "remove"
    /\ Return(t, IF name[t] \in valid THEN "done" ELSE "KeyError")
    /\ valid' = valid \ {name[t]}
    /\ UNCHANGED <<algorithms, name, handler, ghosts>>

Next ==
    \E t \in Threads :
        \/ \E n \in Names, h \in Handlers \cup {NotAlgorithm} : Register(t, n, h)
        \/ \E n \in Names : Unregister(t, n)
        \/ \E n \in Names : GetAlgorithmByName(t, n)
        \/ RegisterRefused(t) \/ RegisterChecked(t) \/ Assign(t) \/ Add(t)
        \/ UnregisterRefused(t) \/ UnregisterChecked(t) \/ Delete(t) \/ Remove(t)

Spec == Init /\ [][Next]_vars

-----------------------------------------------------------------------------

\* The table and the list agree on every name no call is at work on, unless two
\* calls have ever worked on that name at once: a handler can be used exactly
\* if its name is listed, but for names the constructor listed without one
\* (api_jws.py:41-50, 67-74, 82-89).
ListAgrees ==
    \A n \in Names \ contended :
        Working(n) = {} =>
            /\ n \in Registered => n \in valid
            /\ n \in valid => n \in Registered \cup whitelisted

\* A handler is replaced, without having been unregistered, only by calls that
\* overlap (api_jws.py:67-68: "Algorithm already has a handler.").
NoReplacement ==
    [][\A n \in Names \ contended :
          (algorithms[n] # NoHandler /\ algorithms'[n] # NoHandler)
              => algorithms'[n] = algorithms[n]]_vars

-----------------------------------------------------------------------------
(* What makes these inductive.                                             *)

\* What is known of the name that t, alone, works on.
Alone(t) ==
    LET n == name[t]
    IN  /\ pc[t] \in {"register", "unregister"} =>
              /\ n \in Registered => n \in valid
              /\ n \in valid => n \in Registered \cup whitelisted
        /\ pc[t] = "assign" =>
              /\ n \notin Registered
              /\ n \in valid => n \in whitelisted
        /\ pc[t] = "add" => n \in Registered
        /\ pc[t] = "delete" => n \in Registered /\ n \in valid
        /\ pc[t] = "remove" => n \notin Registered /\ n \in valid

AloneOK ==
    /\ \A t, u \in Threads :
          (t # u /\ pc[t] # "idle" /\ pc[u] # "idle" /\ name[t] = name[u])
              => name[t] \in contended
    /\ \A t \in Threads : (pc[t] # "idle" /\ name[t] \notin contended) => Alone(t)

\* No thread assigns what is not an Algorithm.
AssignOK == \A t \in Threads : pc[t] = "assign" => handler[t] # NotAlgorithm

IInv == TypeOK /\ ListAgrees /\ AloneOK /\ AssignOK
=============================================================================
