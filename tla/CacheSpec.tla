----------------------------- MODULE CacheSpec -----------------------------
(***************************************************************************)
(* What the cache of compiled circuits of the gnark fixture promises the   *)
(* tests that share it: one object per circuit, made when it is first      *)
(* needed and never replaced, and handed to every call that asks for it;   *)
(* an error for a circuit that there is not, or that does not compile.     *)
(***************************************************************************)
CONSTANTS
    Threads,        \* the tests that call the fixture
    Variants,       \* the circuits they ask for
    Compilable,     \* those that exist and compile
    Objects,        \* the constraint systems a compilation can produce
    None

VARIABLES
    memo,           \* the object of a variant, or None
    asked,          \* the variant a thread waits for, or None
    answer          \* what a thread was given; None while it waits, or an error

specVars == <<memo, asked, answer>>

SpecInit ==
    /\ memo = [v \in Variants |-> None]
    /\ asked = [t \in Threads |-> None]
    /\ answer = [t \in Threads |-> None]

Ask(t, v) ==
    /\ asked[t] = None
    /\ asked' = [asked EXCEPT ![t] = v]
    /\ answer' = [answer EXCEPT ![t] = None]
    /\ UNCHANGED memo

Fill(t) ==
    /\ asked[t] \in Compilable
    /\ memo[asked[t]] = None
    /\ memo'[asked[t]] \in Objects
    /\ memo' = [memo EXCEPT ![asked[t]] = memo'[asked[t]]]
    /\ UNCHANGED <<asked, answer>>

Answer(t) ==
    /\ asked[t] # None
    /\ asked[t] \in Compilable => memo[asked[t]] # None
    /\ answer' = [answer EXCEPT ![t] = memo[asked[t]]]
    /\ asked' = [asked EXCEPT ![t] = None]
    /\ UNCHANGED memo

SpecNext ==
    \E t \in Threads : \/ \E v \in Variants : Ask(t, v)
                       \/ Fill(t)
                       \/ Answer(t)

AbstractSpec == SpecInit /\ [][SpecNext]_specVars
=============================================================================
