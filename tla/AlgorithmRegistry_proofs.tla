---------------------- MODULE AlgorithmRegistry_proofs ----------------------
(***************************************************************************)
(* Theorems about AlgorithmRegistry, for any number of threads, names and  *)
(* handlers and any whitelist.                                             *)
(***************************************************************************)
EXTENDS AlgorithmRegistry, TLAPS

USE DEF Goto, Return, object, frame, ghosts, Registered, Working

\* A new PyJWS object satisfies the inductive invariant.
LEMMA InitIInv == Init => IInv
<1> SUFFICES ASSUME Init PROVE IInv
  OBVIOUS
<1>1. TypeOK
  BY RegistryAssumption DEF RegistryAssumption, Init, TypeOK, Locations, Outcomes
<1>2. ListAgrees
  BY RegistryAssumption DEF RegistryAssumption, Init, ListAgrees
<1>3. AloneOK /\ AssignOK
  BY DEF Init, AloneOK, AssignOK
<1> QED BY <1>1, <1>2, <1>3 DEF IInv

\* Every step keeps the types.
LEMMA TypeOKStep == IInv /\ [Next]_vars => TypeOK'
<1> SUFFICES ASSUME IInv, [Next]_vars PROVE TypeOK'
  OBVIOUS
<1> USE DEF IInv, TypeOK, Locations, Outcomes
<1>1. CASE UNCHANGED vars
  BY <1>1 DEF vars
<1>2. ASSUME NEW t \in Threads, NEW n \in Names, NEW h \in Handlers \cup {NotAlgorithm}, Register(t, n, h)
      PROVE  TypeOK'
  BY <1>2 DEF Register, Call
<1>3. ASSUME NEW t \in Threads, NEW n \in Names, Unregister(t, n) PROVE TypeOK'
  BY <1>3 DEF Unregister, Call
<1>4. ASSUME NEW t \in Threads, NEW n \in Names, GetAlgorithmByName(t, n) PROVE TypeOK'
  BY <1>4 DEF GetAlgorithmByName
<1>5. ASSUME NEW t \in Threads,
             RegisterRefused(t) \/ RegisterChecked(t) \/ UnregisterRefused(t) \/ UnregisterChecked(t)
      PROVE  TypeOK'
  BY <1>5 DEF RegisterRefused, RegisterChecked, UnregisterRefused, UnregisterChecked
<1>6. ASSUME NEW t \in Threads, Assign(t) PROVE TypeOK'
  BY <1>6 DEF Assign, AssignOK
<1>7. ASSUME NEW t \in Threads, Add(t) \/ Delete(t) \/ Remove(t) PROVE TypeOK'
  BY <1>7 DEF Add, Delete, Remove
<1> QED BY <1>1, <1>2, <1>3, <1>4, <1>5, <1>6, <1>7 DEF Next

\* Every step keeps the handlers about to be assigned Algorithm objects.
LEMMA AssignOKStep == IInv /\ [Next]_vars => AssignOK'
<1> SUFFICES ASSUME IInv, [Next]_vars PROVE AssignOK'
  OBVIOUS
<1> USE DEF IInv, TypeOK, AssignOK
<1>1. CASE UNCHANGED vars
  BY <1>1 DEF vars
<1>2. ASSUME NEW t \in Threads, NEW n, NEW h, Register(t, n, h) \/ Unregister(t, n)
      PROVE  AssignOK'
  BY <1>2 DEF Register, Unregister, Call
<1>3. ASSUME NEW t \in Threads, NEW n, GetAlgorithmByName(t, n) PROVE AssignOK'
  BY <1>3 DEF GetAlgorithmByName
<1>4. ASSUME NEW t \in Threads,
             \/ RegisterRefused(t) \/ RegisterChecked(t) \/ Assign(t) \/ Add(t)
             \/ UnregisterRefused(t) \/ UnregisterChecked(t) \/ Delete(t) \/ Remove(t)
      PROVE  AssignOK'
  BY <1>4 DEF RegisterRefused, RegisterChecked, Assign, Add,
              UnregisterRefused, UnregisterChecked, Delete, Remove
<1> QED BY <1>1, <1>2, <1>3, <1>4 DEF Next

\* What the list and the table say of n when nothing is at work on it.
Agrees(n) ==
    /\ n \in Registered => n \in valid
    /\ n \in valid => n \in Registered \cup whitelisted

\* A thread that works alone on a name keeps what is known of that name, and
\* leaves it in agreement when it is done.
LEMMA StepAlone ==
    ASSUME IInv, NEW t \in Threads, name[t] \notin contended, pc[t] # "idle",
           \/ RegisterRefused(t) \/ RegisterChecked(t) \/ Assign(t) \/ Add(t)
           \/ UnregisterRefused(t) \/ UnregisterChecked(t) \/ Delete(t) \/ Remove(t)
    PROVE  /\ pc'[t] # "idle" => Alone(t)'
           /\ pc'[t] = "idle" => Agrees(name[t])'
<1> USE RegistryAssumption DEF RegistryAssumption, IInv, TypeOK, AloneOK, Alone, Agrees
<1>1. CASE RegisterRefused(t) \/ UnregisterRefused(t)
  BY <1>1 DEF RegisterRefused, UnregisterRefused
<1>2. CASE RegisterChecked(t) \/ UnregisterChecked(t)
  BY <1>2 DEF RegisterChecked, UnregisterChecked
<1>3. CASE Assign(t)
  <2>1. algorithms'[name[t]] = handler[t] /\ handler[t] # NoHandler
    BY <1>3 DEF Assign, AssignOK
  <2> QED BY <1>3, <2>1 DEF Assign
<1>4. CASE Add(t)
  BY <1>4 DEF Add
<1>5. CASE Delete(t)
  BY <1>5 DEF Delete
<1>6. CASE Remove(t)
  BY <1>6 DEF Remove
<1> QED BY <1>1, <1>2, <1>3, <1>4, <1>5, <1>6

\* A step of a call touches only the entries of its own name.
LEMMA OtherNames ==
    ASSUME IInv, NEW t \in Threads,
           \/ RegisterRefused(t) \/ RegisterChecked(t) \/ Assign(t) \/ Add(t)
           \/ UnregisterRefused(t) \/ UnregisterChecked(t) \/ Delete(t) \/ Remove(t)
    PROVE  /\ pc[t] # "idle"
           /\ UNCHANGED <<name, contended>>
           /\ \A u \in Threads : u # t => pc'[u] = pc[u]
           /\ \A n \in Names : n # name[t] =>
                 /\ (n \in Registered)' <=> n \in Registered
                 /\ n \in valid' <=> n \in valid
                 /\ n \in whitelisted' <=> n \in whitelisted
BY DEF IInv, TypeOK, RegisterRefused, RegisterChecked, Assign, Add,
       UnregisterRefused, UnregisterChecked, Delete, Remove

\* Every step keeps the list and the table in agreement on the names that no
\* two calls contend for.
LEMMA AgreementStep == IInv /\ [Next]_vars => AloneOK' /\ ListAgrees'
<1> SUFFICES ASSUME IInv, [Next]_vars PROVE AloneOK' /\ ListAgrees'
  OBVIOUS
<1> USE DEF IInv, TypeOK
<1>1. CASE UNCHANGED vars
  BY <1>1 DEF vars, AloneOK, Alone, ListAgrees
<1>2. ASSUME NEW t \in Threads, NEW n \in Names, NEW h, NEW l \in {"register", "unregister"}, Call(t, l, n, h)
      PROVE  AloneOK' /\ ListAgrees'
  <2>1. AloneOK'
    BY <1>2 DEF Call, AloneOK, Alone, ListAgrees
  <2>2. ListAgrees'
    BY <1>2 DEF Call, ListAgrees
  <2> QED BY <2>1, <2>2
<1>3. ASSUME NEW t \in Threads, NEW n \in Names, GetAlgorithmByName(t, n)
      PROVE  AloneOK' /\ ListAgrees'
  BY <1>3 DEF GetAlgorithmByName, AloneOK, Alone, ListAgrees
<1>4. ASSUME NEW t \in Threads,
             \/ RegisterRefused(t) \/ RegisterChecked(t) \/ Assign(t) \/ Add(t)
             \/ UnregisterRefused(t) \/ UnregisterChecked(t) \/ Delete(t) \/ Remove(t)
      PROVE  AloneOK' /\ ListAgrees'
  <2>1. /\ pc[t] # "idle"
        /\ UNCHANGED <<name, contended>>
        /\ \A u \in Threads : u # t => pc'[u] = pc[u]
        /\ \A n \in Names : n # name[t] =>
              /\ (n \in Registered)' <=> n \in Registered
              /\ n \in valid' <=> n \in valid
              /\ n \in whitelisted' <=> n \in whitelisted
    BY <1>4, OtherNames
  <2>2. name[t] \notin contended =>
           /\ pc'[t] # "idle" => Alone(t)'
           /\ pc'[t] = "idle" => Agrees(name[t])'
    BY <1>4, <2>1, StepAlone
  <2>3. ASSUME NEW u \in Threads, u # t, pc'[u] # "idle", name'[u] \notin contended'
        PROVE  Alone(u)'
    <3>1. name[u] # name[t] /\ Alone(u)
      BY <2>1, <2>3 DEF AloneOK
    <3> QED BY <2>1, <2>3, <3>1 DEF Alone
  <2>4. AloneOK'
    BY <2>1, <2>2, <2>3 DEF AloneOK
  <2>5. ASSUME NEW n \in Names \ contended', Working(n)' = {}
        PROVE  Agrees(n)'
    <3>1. CASE n = name[t]
      BY <2>1, <2>2, <2>5, <3>1
    <3>2. CASE n # name[t]
      <4>1. Working(n) = {}
        BY <2>1, <2>5, <3>2
      <4>2. Agrees(n)
        BY <2>1, <2>5, <4>1 DEF ListAgrees, Agrees
      <4> QED BY <2>1, <2>5, <3>2, <4>2 DEF Agrees
    <3> QED BY <3>1, <3>2
  <2>6. ListAgrees'
    BY <2>5 DEF ListAgrees, Agrees
  <2> QED BY <2>4, <2>6
<1> QED BY <1>1, <1>2, <1>3, <1>4 DEF Next, Register, Unregister

\* Every reachable state satisfies the inductive invariant.
THEOREM InductiveInvariant == Spec => []IInv
<1>1. IInv /\ [Next]_vars => IInv'
  BY TypeOKStep, AssignOKStep, AgreementStep DEF IInv
<1> QED BY <1>1, InitIInv, PTL DEF Spec

\* The state of the registry and of its callers keeps its types.
THEOREM RegistryTypes == Spec => []TypeOK
<1>1. IInv => TypeOK
  BY DEF IInv
<1> QED BY <1>1, InductiveInvariant, PTL

\* The list and the table agree on every name that is not contended, whatever
\* other threads do to other names (api_jws.py:59-89).
THEOREM RegistryAgrees == Spec => []ListAgrees
<1>1. IInv => ListAgrees
  BY DEF IInv
<1> QED BY <1>1, InductiveInvariant, PTL

\* No call replaces the handler of a name that is not contended
\* (api_jws.py:67-74).
THEOREM HandlersStay == Spec => NoReplacement
<1> DEFINE Replacement ==
      \A n \in Names \ contended :
          (algorithms[n] # NoHandler /\ algorithms'[n] # NoHandler)
              => algorithms'[n] = algorithms[n]
<1>1. IInv /\ [Next]_vars => [Replacement]_vars
  <2> SUFFICES ASSUME IInv, Next PROVE Replacement
    OBVIOUS
  <2> USE DEF IInv, TypeOK
  <2>1. ASSUME NEW t \in Threads, Assign(t) PROVE Replacement
    BY <2>1 DEF Assign, AloneOK, Alone
  <2>2. ASSUME NEW t \in Threads, Delete(t) PROVE Replacement
    BY <2>2 DEF Delete
  <2>3. CASE algorithms' = algorithms
    BY <2>3
  <2> QED BY <2>1, <2>2, <2>3
          DEF Next, Register, Unregister, Call, GetAlgorithmByName, RegisterRefused,
              RegisterChecked, Add, UnregisterRefused, UnregisterChecked, Remove
<1> QED BY <1>1, InductiveInvariant, PTL DEF Spec, NoReplacement
=============================================================================
