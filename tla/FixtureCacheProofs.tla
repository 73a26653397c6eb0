------------------------- MODULE FixtureCacheProofs -------------------------
(***************************************************************************)
(* Proofs about FixtureCache, for any number of threads and variants: the  *)
(* inductive invariant, that the map is never written while it is used,    *)
(* that a circuit is compiled once, and that the cache with its lock       *)
(* implements CacheSpec.                                                   *)
(***************************************************************************)
EXTENDS FixtureCache, TLAPS

LEMMA InitHolds == Init => IInv
BY NoneAssumption
   DEF Init, IInv, TypeOK, CompiledOnce, Alone, Once, Carried, Steps, Writing,
       Objects

\* The steps that leave the map and what was compiled alone keep Once if no
\* thread enters or leaves "store".
LEMMA OnceKept ==
    ASSUME Once, CompiledOnce, UNCHANGED <<csCache, compiled>>,
           \A u \in Threads : /\ pc'[u] = "store" <=> pc[u] = "store"
                              /\ pc[u] = "store" => variant'[u] = variant[u]
    PROVE  Once' /\ CompiledOnce'
BY DEF Once, CompiledOnce

LEMMA CallKeeps ==
    ASSUME IInv, NEW t \in Threads, NEW v \in Variants, Call(t, v)
    PROVE  IInv'
<1>1. TypeOK'
  BY DEF Call, Goto, IInv, TypeOK, Steps, Writing
<1>2. Once' /\ CompiledOnce'
  BY OnceKept DEF Call, Goto, IInv, TypeOK
<1>3. Alone' /\ Carried'
  BY DEF Call, Goto, IInv, TypeOK, Alone, Carried, Writing
<1> QED BY <1>1, <1>2, <1>3 DEF IInv

LEMMA ReaderKeeps ==
    ASSUME IInv, NEW t \in Threads, RLock(t) \/ Lookup(t) \/ RUnlock(t)
    PROVE  IInv'
<1>1. TypeOK'
  <2>1. CASE RLock(t)
    BY <2>1 DEF RLock, Goto, IInv, TypeOK, Steps, Writing
  <2>2. CASE Lookup(t)
    BY <2>2 DEF Lookup, Goto, IInv, TypeOK, Steps, Writing
  <2>3. CASE RUnlock(t)
    BY <2>3 DEF RUnlock, Goto, IInv, TypeOK, Steps, Writing
  <2> QED BY <2>1, <2>2, <2>3
<1>2. Once' /\ CompiledOnce'
  BY OnceKept DEF RLock, Lookup, RUnlock, Goto, IInv, TypeOK
<1>3. Alone' /\ Carried'
  <2>1. CASE RLock(t)
    <3>1. Alone'
      BY <2>1, NoneAssumption DEF RLock, Goto, IInv, TypeOK, Alone, Writing
    <3>2. Carried'
      BY <2>1 DEF RLock, Goto, IInv, TypeOK, Carried
    <3> QED BY <3>1, <3>2
  <2>2. CASE Lookup(t)
    <3>1. Alone'
      BY <2>2 DEF Lookup, Goto, IInv, TypeOK, Alone, Writing
    <3>2. Carried'
      BY <2>2 DEF Lookup, Goto, IInv, TypeOK, Carried
    <3> QED BY <3>1, <3>2
  <2>3. CASE RUnlock(t)
    <3>1. Alone'
      BY <2>3 DEF RUnlock, Goto, IInv, TypeOK, Alone, Writing
    <3>2. Carried'
      BY <2>3 DEF RUnlock, Goto, IInv, TypeOK, Carried
    <3> QED BY <3>1, <3>2
  <2> QED BY <2>1, <2>2, <2>3
<1> QED BY <1>1, <1>2, <1>3 DEF IInv

LEMMA WriterKeeps ==
    ASSUME IInv, NEW t \in Threads, Lock(t) \/ Acquire(t) \/ Recheck(t)
    PROVE  IInv'
<1>1. TypeOK'
  <2>1. CASE Lock(t)
    BY <2>1, NoneAssumption DEF Lock, Goto, IInv, TypeOK, Steps, Writing
  <2>2. CASE Acquire(t)
    BY <2>2 DEF Acquire, Goto, IInv, TypeOK, Steps, Writing
  <2>3. CASE Recheck(t)
    BY <2>3 DEF Recheck, Goto, IInv, TypeOK, Steps, Writing
  <2> QED BY <2>1, <2>2, <2>3
<1>2. Once' /\ CompiledOnce'
  BY OnceKept DEF Lock, Acquire, Recheck, Goto, IInv, TypeOK
<1>3. Alone' /\ Carried'
  <2>1. CASE Lock(t)
    BY <2>1 DEF Lock, Goto, IInv, TypeOK, Alone, Carried, Writing
  <2>2. CASE Acquire(t)
    BY <2>2 DEF Acquire, Goto, IInv, TypeOK, Alone, Carried, Writing
  <2>3. CASE Recheck(t)
    <3>1. Alone'
      BY <2>3 DEF Recheck, Goto, IInv, TypeOK, Alone, Writing
    <3>2. Carried'
      BY <2>3 DEF Recheck, Goto, IInv, TypeOK, Carried, Once, Writing
    <3> QED BY <3>1, <3>2
  <2> QED BY <2>1, <2>2, <2>3
<1> QED BY <1>1, <1>2, <1>3 DEF IInv

\* Whoever compiles is the only writer: nothing is being stored.
LEMMA NobodyStores ==
    ASSUME TypeOK, NEW t \in Threads, pc[t] \in Writing \ {"store"}
    PROVE  ~\E u \in Threads : pc[u] = "store"
BY DEF TypeOK, Writing

LEMMA CompileKeeps ==
    ASSUME IInv, NEW t \in Threads, Compile(t)
    PROVE  IInv'
<1> DEFINE v == variant[t]
<1>1. /\ pc[t] = "compile" /\ v \in Variants
      /\ cs[t] = None /\ csCache[v] = None
  BY DEF Compile, IInv, TypeOK, Carried
<1>2. compiled[v] = 0
  BY <1>1, NobodyStores DEF IInv, Once, Writing
<1>3. CASE v \in Known \cap Sound
  <2>1. /\ compiled' = [compiled EXCEPT ![v] = 1]
        /\ cs' = [cs EXCEPT ![t] = <<v, 1>>]
        /\ pc' = [pc EXCEPT ![t] = "store"]
        /\ UNCHANGED <<csCache, readers, writer, variant>>
    BY <1>2, <1>3 DEF Compile, Goto, IInv, TypeOK
  <2>2. TypeOK'
    BY <1>1, <2>1 DEF IInv, TypeOK, Steps, Writing, Objects
  <2>3. CompiledOnce' /\ Once'
    BY <1>1, <2>1, NobodyStores DEF IInv, TypeOK, CompiledOnce, Once, Writing
  <2>4. Alone' /\ Carried'
    BY <1>1, <1>3, <2>1 DEF IInv, TypeOK, Alone, Carried, Writing
  <2> QED BY <2>2, <2>3, <2>4 DEF IInv
<1>4. CASE v \notin Known \cap Sound
  <2>1. /\ pc' = [pc EXCEPT ![t] = "unlock"]
        /\ UNCHANGED <<csCache, readers, writer, variant, cs, compiled>>
    BY <1>4 DEF Compile, Goto
  <2>2. TypeOK'
    BY <1>1, <2>1 DEF IInv, TypeOK, Steps, Writing
  <2>3. CompiledOnce' /\ Once'
    BY <1>1, <2>1, OnceKept DEF IInv, TypeOK
  <2>4. Alone' /\ Carried'
    BY <1>1, <1>4, <2>1 DEF IInv, TypeOK, Alone, Carried, Writing
  <2> QED BY <2>2, <2>3, <2>4 DEF IInv
<1> QED BY <1>3, <1>4

LEMMA StoreKeeps ==
    ASSUME IInv, NEW t \in Threads, Store(t)
    PROVE  IInv'
<1> DEFINE v == variant[t]
<1>1. /\ pc[t] = "store" /\ v \in Variants /\ v \in Known \cap Sound
      /\ csCache[v] = None /\ cs[t] = <<v, 1>>
  BY DEF Store, IInv, TypeOK, Carried
<1>2. /\ csCache' = [csCache EXCEPT ![v] = <<v, 1>>]
      /\ pc' = [pc EXCEPT ![t] = "unlock"]
      /\ UNCHANGED <<readers, writer, variant, cs, compiled>>
  BY <1>1 DEF Store, Goto
<1>3. <<v, 1>> \in Objects /\ <<v, 1>> # None
  BY <1>1, NoneAssumption DEF Objects
<1>4. \A u \in Threads \ {t} : pc[u] \notin Writing \cup {"lookup", "runlock"}
  BY <1>1 DEF IInv, TypeOK, Alone, Writing
<1>5. TypeOK'
  BY <1>1, <1>2, <1>3 DEF IInv, TypeOK, Steps, Writing
<1>6. CompiledOnce' /\ Once'
  <2>1. \A u \in Threads : pc'[u] # "store"
    BY <1>1, <1>2, <1>4 DEF IInv, TypeOK, Writing
  <2>2. compiled[v] # 0
    BY <1>1 DEF IInv, Once
  <2> QED BY <1>1, <1>2, <1>3, <2>1, <2>2 DEF IInv, TypeOK, CompiledOnce, Once
<1>7. Alone'
  BY <1>1, <1>2 DEF IInv, TypeOK, Alone, Writing
<1>8. Carried'
  BY <1>1, <1>2, <1>3, <1>4 DEF IInv, TypeOK, Carried, Writing
<1> QED BY <1>5, <1>6, <1>7, <1>8 DEF IInv

LEMMA UnlockKeeps ==
    ASSUME IInv, NEW t \in Threads, Unlock(t)
    PROVE  IInv'
<1>1. TypeOK'
  BY NoneAssumption DEF Unlock, IInv, TypeOK, Steps, Writing
<1>2. Once' /\ CompiledOnce'
  BY OnceKept DEF Unlock, IInv, TypeOK
<1>3. Alone'
  BY DEF Unlock, IInv, TypeOK, Alone, Writing
<1>4. Carried'
  BY DEF Unlock, IInv, TypeOK, Carried
<1> QED BY <1>1, <1>2, <1>3, <1>4 DEF IInv

-----------------------------------------------------------------------------
\* The invariant is inductive, and so always holds.
THEOREM Invariance == Spec => []IInv
<1>1. IInv /\ [Next]_vars => IInv'
  <2> SUFFICES ASSUME IInv, [Next]_vars
               PROVE  IInv'
    OBVIOUS
  <2>1. ASSUME NEW t \in Threads, (\E v \in Variants : Call(t, v)) \/ Step(t) \/ Lock(t)
        PROVE  IInv'
    BY <2>1, CallKeeps, ReaderKeeps, WriterKeeps, CompileKeeps, StoreKeeps,
       UnlockKeeps DEF Step
  <2>2. CASE UNCHANGED vars
    BY <2>2 DEF vars, IInv, TypeOK, CompiledOnce, Alone, Once, Carried
  <2> QED BY <2>1, <2>2 DEF Next
<1> QED BY InitHolds, <1>1, PTL DEF Spec

\* The state of the lock is that of the threads, and every local of compile
\* has its type.
THEOREM TypeCorrect == Spec => []TypeOK
<1>1. IInv => TypeOK
  BY DEF IInv
<1> QED BY <1>1, Invariance, PTL

\* No thread uses the map while another assigns to it.
THEOREM MapIsNeverRaced == Spec => []NoDataRace
<1>1. IInv => NoDataRace
  BY DEF IInv, TypeOK, Alone, NoDataRace, Writing
<1> QED BY <1>1, Invariance, PTL

\* However many tests ask for it, a circuit is compiled once.
THEOREM NoSecondCompilation == Spec => []CompiledOnce
<1>1. IInv => CompiledOnce
  BY DEF IInv
<1> QED BY <1>1, Invariance, PTL

-----------------------------------------------------------------------------
(***************************************************************************)
(* The refinement.  Asking is Call, filling is Store, and the answer comes *)
(* with the step after which a thread is idle.                             *)
(***************************************************************************)
Asked  == [t \in Threads |-> IF pc[t] = "idle" THEN None ELSE variant[t]]
Given  == [t \in Threads |-> IF pc[t] = "idle" THEN cs[t] ELSE None]

LEMMA CallAsks ==
    ASSUME IInv, NEW t \in Threads, NEW v \in Variants, Call(t, v)
    PROVE  SharedCache!Ask(t, v)
<1>1. Asked[t] = None /\ csCache' = csCache
  BY DEF Call, Asked
<1>2. Asked' = [Asked EXCEPT ![t] = v]
  BY DEF Call, Goto, IInv, TypeOK, Asked
<1>3. Given' = [Given EXCEPT ![t] = None]
  BY DEF Call, Goto, IInv, TypeOK, Given
<1> QED BY <1>1, <1>2, <1>3 DEF SharedCache!Ask, Asked, Given

LEMMA StoreFills ==
    ASSUME IInv, NEW t \in Threads, Store(t)
    PROVE  SharedCache!Fill(t)
<1> DEFINE v == variant[t]
<1>1. /\ pc[t] = "store" /\ v \in Known \cap Sound /\ v \in Variants
      /\ csCache[v] = None /\ cs[t] = <<v, 1>>
  BY DEF Store, IInv, TypeOK, Carried
<1>2. Asked[t] = v
  BY <1>1 DEF Asked
<1>3. csCache' = [csCache EXCEPT ![v] = <<v, 1>>] /\ csCache'[v] = <<v, 1>>
  BY <1>1 DEF Store, IInv, TypeOK
<1>4. csCache'[v] \in Objects
  BY <1>1, <1>3 DEF Objects
<1>5. UNCHANGED <<Asked, Given>>
  BY <1>1 DEF Store, Goto, IInv, TypeOK, Asked, Given
<1> QED BY <1>1, <1>2, <1>3, <1>4, <1>5 DEF SharedCache!Fill, Asked, Given

LEMMA ReturnAnswers ==
    ASSUME IInv, NEW t \in Threads,
           Unlock(t) \/ (RUnlock(t) /\ cs[t] # None)
    PROVE  SharedCache!Answer(t)
<1> DEFINE v == variant[t]
<1>1. /\ v \in Variants /\ v # None /\ Asked[t] = v
      /\ cs[t] = csCache[v]
      /\ v \in Known \cap Sound => csCache[v] # None
      /\ UNCHANGED <<csCache, variant, cs>>
  BY NoneAssumption DEF Unlock, RUnlock, IInv, TypeOK, Carried, Asked
<1>2. /\ pc[t] # "idle" /\ pc'[t] = "idle"
      /\ \A u \in Threads \ {t} : pc'[u] = "idle" <=> pc[u] = "idle"
  BY DEF Unlock, RUnlock, Goto, IInv, TypeOK
<1>3. Asked' = [Asked EXCEPT ![t] = None]
  BY <1>1, <1>2 DEF Asked
<1>4. Given' = [Given EXCEPT ![t] = csCache[v]]
  BY <1>1, <1>2 DEF Given
<1> QED BY <1>1, <1>3, <1>4 DEF SharedCache!Answer, Asked, Given

LEMMA RestStutters ==
    ASSUME IInv, NEW t \in Threads,
           \/ RLock(t) \/ Lookup(t) \/ (RUnlock(t) /\ cs[t] = None)
           \/ Lock(t) \/ Acquire(t) \/ Recheck(t) \/ Compile(t)
    PROVE  UNCHANGED <<csCache, Asked, Given>>
<1>1. UNCHANGED <<csCache, variant>>
  BY DEF RLock, Lookup, RUnlock, Lock, Acquire, Recheck, Compile
<1>2. \A u \in Threads : /\ pc'[u] = "idle" <=> pc[u] = "idle"
                         /\ pc[u] = "idle" => cs'[u] = cs[u]
  BY DEF RLock, Lookup, RUnlock, Lock, Acquire, Recheck, Compile, Goto, IInv,
         TypeOK
<1> QED BY <1>1, <1>2 DEF Asked, Given

\* The cache with its two look-ups and its lock behaves like one that makes
\* each object in one step and keeps it.
THEOREM CacheImplementsSpec == Spec => OneObjectPerCircuit
<1>1. Init => SharedCache!SpecInit
  BY DEF Init, SharedCache!SpecInit
<1>2. IInv /\ [Next]_vars => [SharedCache!SpecNext]_(SharedCache!specVars)
  <2> SUFFICES ASSUME IInv, [Next]_vars
               PROVE  SharedCache!SpecNext \/ UNCHANGED <<csCache, Asked, Given>>
    BY DEF SharedCache!specVars, Asked, Given
  <2>1. ASSUME NEW t \in Threads,
               (\E v \in Variants : Call(t, v)) \/ Step(t) \/ Lock(t)
        PROVE  SharedCache!SpecNext \/ UNCHANGED <<csCache, Asked, Given>>
    BY <2>1, CallAsks, StoreFills, ReturnAnswers, RestStutters
       DEF Step, SharedCache!SpecNext
  <2>2. CASE UNCHANGED vars
    BY <2>2 DEF vars, Asked, Given
  <2> QED BY <2>1, <2>2 DEF Next
<1> QED BY <1>1, <1>2, Invariance, PTL
        DEF Spec, OneObjectPerCircuit, SharedCache!AbstractSpec
=============================================================================
