---------------------------- MODULE FixtureCache ----------------------------
(***************************************************************************)
(* compile of the gnark fixture (tests/gnark-ffi/gnark-fixture/main.go),   *)
(* called by Setup, Prove and NativeVerify on the threads of the tests:    *)
(* csCache is looked up under the read lock, looked up again under the     *)
(* write lock, and filled with what frontend.Compile made.                 *)
(*                                                                         *)
(* A Go map must not be read or written while it is written, so looking it *)
(* up and assigning to it take time here: a thread whose pc is at such a   *)
(* step is in the middle of it.  The lock is Go's sync.RWMutex: a writer   *)
(* that waits keeps new readers out, and lets all of them in when it       *)
(* unlocks.                                                                *)
(***************************************************************************)
EXTENDS Naturals

CONSTANTS
    Threads,        \* the tests that call the fixture
    Variants,       \* the variants they ask for
    Known,          \* those newCircuit has a circuit for
    Sound,          \* those frontend.Compile accepts
    None

ASSUME VariantsAssumption == Known \subseteq Variants
ASSUME NoneAssumption == None \notin Variants \cup Threads \cup (Variants \X Nat)

VARIABLES
    csCache,        \* the map
    readers,        \* csCacheMu: the threads that hold its read lock
    writer,         \* ... and the one that holds or awaits its write lock
    pc, variant,    \* where a thread stands, and the variant it asks for
    cs,             \* the local cs: a constraint system, or None
    compiled        \* history: how many times a variant was compiled

vars == <<csCache, readers, writer, pc, variant, cs, compiled>>

Steps == {"idle", "rlock", "blocked", "lookup", "runlock", "lock", "drain",
          "recheck", "compile", "store", "unlock"}

Writing == {"drain", "recheck", "compile", "store", "unlock"}

\* The n-th constraint system made for a variant.
Objects == Variants \X Nat

-----------------------------------------------------------------------------
Goto(t, step) == pc' = [pc EXCEPT ![t] = step]

Call(t, v) ==
    /\ pc[t] = "idle"
    /\ Goto(t, "rlock")
    /\ variant' = [variant EXCEPT ![t] = v]
    /\ UNCHANGED <<csCache, readers, writer, cs, compiled>>

RLock(t) ==
    /\ pc[t] = "rlock"
    /\ IF writer = None
       THEN Goto(t, "lookup") /\ readers' = readers \cup {t}
       ELSE Goto(t, "blocked") /\ UNCHANGED readers
    /\ UNCHANGED <<csCache, writer, variant, cs, compiled>>

Lookup(t) ==
    /\ pc[t] = "lookup"
    /\ cs' = [cs EXCEPT ![t] = csCache[variant[t]]]
    /\ Goto(t, "runlock")
    /\ UNCHANGED <<csCache, readers, writer, variant, compiled>>

\* Mutant: a hit is returned with the read lock still held.
Mutant_RUnlock(t) ==
    /\ pc[t] = "runlock"
    /\ readers' = IF cs[t] = None THEN readers \ {t} ELSE readers
    /\ Goto(t, IF cs[t] = None THEN "lock" ELSE "idle")
    /\ UNCHANGED <<csCache, writer, variant, cs, compiled>>

\* A hit is returned; with a miss the thread goes on without any lock.
RUnlock(t) ==
    /\ pc[t] = "runlock"
    /\ readers' = readers \ {t}
    /\ Goto(t, IF cs[t] = None THEN "lock" ELSE "idle")
    /\ UNCHANGED <<csCache, writer, variant, cs, compiled>>

\* Lock: first exclude the other writers and new readers ...
Lock(t) ==
    /\ pc[t] = "lock"
    /\ writer = None
    /\ writer' = t
    /\ Goto(t, "drain")
    /\ UNCHANGED <<csCache, readers, variant, cs, compiled>>

\* Mutant: a lock that only excludes the other writers.
Mutant_Acquire(t) ==
    /\ pc[t] = "drain"
    /\ Goto(t, "recheck")
    /\ UNCHANGED <<csCache, readers, writer, variant, cs, compiled>>

\* ... then wait for the readers there are.
Acquire(t) ==
    /\ pc[t] = "drain"
    /\ readers = {}
    /\ Goto(t, "recheck")
    /\ UNCHANGED <<csCache, readers, writer, variant, cs, compiled>>

\* Mutant: the map is not looked up again.
Mutant_Recheck(t) ==
    /\ pc[t] = "recheck"
    /\ Goto(t, "compile")
    /\ UNCHANGED <<csCache, readers, writer, variant, cs, compiled>>

Recheck(t) ==
    /\ pc[t] = "recheck"
    /\ cs' = [cs EXCEPT ![t] = csCache[variant[t]]]
    /\ Goto(t, IF csCache[variant[t]] = None THEN "compile" ELSE "unlock")
    /\ UNCHANGED <<csCache, readers, writer, variant, compiled>>

\* newCircuit and frontend.Compile: an error of either is returned.
Compile(t) ==
    /\ pc[t] = "compile"
    /\ LET v == variant[t] IN
       IF v \in Known \cap Sound
       THEN /\ compiled' = [compiled EXCEPT ![v] = @ + 1]
            /\ cs' = [cs EXCEPT ![t] = <<v, compiled[v] + 1>>]
            /\ Goto(t, "store")
       ELSE Goto(t, "unlock") /\ UNCHANGED <<cs, compiled>>
    /\ UNCHANGED <<csCache, readers, writer, variant>>

Store(t) ==
    /\ pc[t] = "store"
    /\ csCache' = [csCache EXCEPT ![variant[t]] = cs[t]]
    /\ Goto(t, "unlock")
    /\ UNCHANGED <<readers, writer, variant, cs, compiled>>

\* Mutant: only a call that returns a constraint system unlocks.
Mutant_Unlock(t) ==
    /\ pc[t] = "unlock"
    /\ cs[t] # None
    /\ writer' = None
    /\ readers' = readers \cup {u \in Threads : pc[u] = "blocked"}
    /\ pc' = [u \in Threads |-> IF u = t THEN "idle"
                                ELSE IF pc[u] = "blocked" THEN "lookup"
                                ELSE pc[u]]
    /\ UNCHANGED <<csCache, variant, cs, compiled>>

\* The deferred Unlock, run on every way out: blocked readers come in at once.
Unlock(t) ==
    /\ pc[t] = "unlock"
    /\ writer' = None
    /\ readers' = readers \cup {u \in Threads : pc[u] = "blocked"}
    /\ pc' = [u \in Threads |-> IF u = t THEN "idle"
                                ELSE IF pc[u] = "blocked" THEN "lookup"
                                ELSE pc[u]]
    /\ UNCHANGED <<csCache, variant, cs, compiled>>

-----------------------------------------------------------------------------
Init ==
    /\ csCache = [v \in Variants |-> None]
    /\ readers = {} /\ writer = None
    /\ pc = [t \in Threads |-> "idle"]
    /\ variant = [t \in Threads |-> None]
    /\ cs = [t \in Threads |-> None]
    /\ compiled = [v \in Variants |-> 0]

\* A step a thread takes by itself once it has the processor.
Step(t) ==
    \/ RLock(t) \/ Lookup(t) \/ RUnlock(t) \/ Acquire(t) \/ Recheck(t)
    \/ Compile(t) \/ Store(t) \/ Unlock(t)

Next == \E t \in Threads : (\E v \in Variants : Call(t, v)) \/ Step(t) \/ Lock(t)

Spec == Init /\ [][Next]_vars

\* A call runs to its end.  Writers queue at a sync.Mutex, which hands itself
\* to the first in the queue when others were served before for too long.
Fairness == \A t \in Threads : WF_vars(Step(t)) /\ SF_vars(Lock(t))

FairSpec == Spec /\ Fairness

-----------------------------------------------------------------------------
\* The type invariant: of the map, the lock and the locals of compile.  The
\* lock is held by the threads that are where compile holds it.
TypeOK ==
    /\ csCache \in [Variants -> Objects \cup {None}]
    /\ pc \in [Threads -> Steps]
    /\ readers = {t \in Threads : pc[t] \in {"lookup", "runlock"}}
    /\ writer \in Threads \cup {None}
    /\ \A t \in Threads : (writer = t) <=> pc[t] \in Writing
    /\ variant \in [Threads -> Variants \cup {None}]
    /\ \A t \in Threads : pc[t] # "idle" => variant[t] \in Variants
    /\ cs \in [Threads -> Objects \cup {None}]
    /\ compiled \in [Variants -> Nat]

\* While a thread assigns to the map no other thread reads it or assigns to
\* it: what sync.RWMutex is there for, and what Go aborts the process for.
NoDataRace ==
    \A t, u \in Threads :
        t # u /\ pc[t] = "store" => pc[u] \notin {"lookup", "recheck", "store"}

\* "Compiling a circuit is deterministic and reusable across calls": however
\* the calls of the tests overlap, a circuit is compiled once.
CompiledOnce == \A v \in Variants : compiled[v] <= 1

\* The inductive invariant: who writes the map is alone with it, what is in
\* the map is the one thing that was compiled, and what a thread carries
\* agrees with the map when it returns.
Alone == \A t \in Threads : pc[t] \in Writing \ {"drain"} => readers = {}

Once ==
    \A v \in Variants :
        /\ csCache[v] # None => v \in Known \cap Sound /\ csCache[v] = <<v, 1>>
        /\ compiled[v] = 0 <=> csCache[v] = None /\ ~\E t \in Threads :
                                      pc[t] = "store" /\ variant[t] = v

Carried ==
    \A t \in Threads :
        LET v == variant[t] IN
        /\ pc[t] = "runlock" /\ cs[t] # None => cs[t] = csCache[v]
        /\ pc[t] = "compile" => cs[t] = None /\ csCache[v] = None
        /\ pc[t] = "store" => /\ v \in Known \cap Sound
                              /\ csCache[v] = None /\ cs[t] = <<v, 1>>
        /\ pc[t] = "unlock" => /\ cs[t] = csCache[v]
                               /\ v \in Known \cap Sound => cs[t] # None

IInv == TypeOK /\ CompiledOnce /\ Alone /\ Once /\ Carried

\* Every call of compile returns, also one with a variant that there is not,
\* and whoever else waits for the lock.
EveryCallReturns == \A t \in Threads : pc[t] # "idle" ~> pc[t] = "idle"

\* The cache as its callers see it: a thread waits from Call until it is
\* idle again, and is given what is then in its cs.
SharedCache ==
    INSTANCE CacheSpec WITH
        Compilable <- Known \cap Sound,
        memo <- csCache,
        asked <- [t \in Threads |-> IF pc[t] = "idle" THEN None ELSE variant[t]],
        answer <- [t \in Threads |-> IF pc[t] = "idle" THEN cs[t] ELSE None]

OneObjectPerCircuit == SharedCache!AbstractSpec
=============================================================================
