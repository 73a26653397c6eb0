------------------------------- MODULE NegateG1 -------------------------------
(***************************************************************************)
(* negate_g1_be of src/groth16.rs: (x, y) to (x, p - y), the difference    *)
(* taken limb by limb with a borrow.                                       *)
(*                                                                         *)
(* A point of 64 bytes is eight words, four of x and four of y, the most   *)
(* significant first.  Radix stands for 2^64.  How a word is read from its *)
(* bytes and written back (u64::from_be_bytes, u64::to_be_bytes) is        *)
(* FromBe and ToBe; a run gives them by their definition.                  *)
(***************************************************************************)
EXTENDS Integers

CONSTANTS
    Radix,
    Words,          \* the strings of eight bytes
    Zero,           \* the one of eight zero bytes
    FromBe, ToBe,
    FQ,             \* the base field modulus, four limbs
    Points

Limb == 0 .. Radix - 1

ASSUME WordsAssumption ==
    /\ Radix \in Nat /\ Radix > 1
    /\ FromBe \in [Words -> Limb] /\ ToBe \in [Limb -> Words]
    /\ \A l \in Limb : FromBe[ToBe[l]] = l
    /\ Zero \in Words
ASSUME PointsAssumption ==
    /\ FQ \in [0 .. 3 -> Limb]
    /\ Points \subseteq [0 .. 7 -> Words]

VARIABLES
    g1, result,
    pc,
    i,              \* the limb the loop is at; -1 behind the last one
    borrow,
    neg_y

vars == <<g1, result, pc, i, borrow, neg_y>>

-----------------------------------------------------------------------------
Identity == [k \in 0 .. 7 |-> Zero]

y == [k \in 0 .. 3 |-> FromBe[g1[4 + k]]]

\* x.overflowing_sub(z): the wrapped difference, and whether it wrapped.
WrappingSub(x, z) == (x - z) % Radix
Overflows(x, z)   == IF x < z THEN 1 ELSE 0

NegateIdentity ==
    /\ pc = "start" /\ g1 = Identity
    /\ result' = Identity
    /\ pc' = "done"
    /\ UNCHANGED <<g1, i, borrow, neg_y>>

\* x is copied; the limbs of y are read.
StartLoop ==
    /\ pc = "start" /\ g1 # Identity
    /\ result' = [k \in 0 .. 7 |-> IF k < 4 THEN g1[k] ELSE Zero]
    /\ pc' = "loop"
    /\ UNCHANGED <<g1, i, borrow, neg_y>>

\* Mutant: the borrow that the subtraction of the borrow causes is dropped.
Mutant_Borrow(f, l, c) == Overflows(f, l)

\* (b1 as u64) + (b2 as u64)
Borrow(f, l, c) == Overflows(f, l) + Overflows(WrappingSub(f, l), c)

SubtractLimb ==
    /\ pc = "loop" /\ i >= 0
    /\ neg_y' = [neg_y EXCEPT ![i] = WrappingSub(WrappingSub(FQ[i], y[i]), borrow)]
    /\ borrow' = Borrow(FQ[i], y[i], borrow)
    /\ i' = i - 1
    /\ UNCHANGED <<g1, result, pc>>

\* Mutant: the limbs are written the least significant first.
Mutant_Stored(k) == ToBe[neg_y[7 - k]]

Stored(k) == ToBe[neg_y[k - 4]]

Store ==
    /\ pc = "loop" /\ i < 0
    /\ result' = [k \in 0 .. 7 |-> IF k < 4 THEN result[k] ELSE Stored(k)]
    /\ pc' = "done"
    /\ UNCHANGED <<g1, i, borrow, neg_y>>

Init ==
    /\ g1 \in Points
    /\ result = Identity
    /\ pc = "start"
    /\ i = 3
    /\ borrow = 0
    /\ neg_y = [k \in 0 .. 3 |-> 0]

Next == NegateIdentity \/ StartLoop \/ SubtractLimb \/ Store

Spec == Init /\ [][Next]_vars

-----------------------------------------------------------------------------
\* The number four limbs make, and the part of it below limb k.
Power(k) == CASE k = 3  -> 1
              [] k = 2  -> Radix
              [] k = 1  -> Radix * Radix
              [] k = 0  -> Radix * Radix * Radix
              [] k = -1 -> Radix * Radix * Radix * Radix

Below(f, k) ==
    CASE k = 3  -> 0
      [] k = 2  -> f[3]
      [] k = 1  -> f[3] + f[2] * Power(2)
      [] k = 0  -> f[3] + f[2] * Power(2) + f[1] * Power(1)
      [] k = -1 -> f[3] + f[2] * Power(2) + f[1] * Power(1) + f[0] * Power(0)

Value(f) == Below(f, -1)

\* The x coordinate is kept and the y coordinate is p - y, as a number of 256
\* bits; the identity, which has no y, stays the identity (negate_g1_be).
NegationIsExact ==
    pc = "done" =>
        IF g1 = Identity
        THEN result = Identity
        ELSE /\ \A k \in 0 .. 3 : result[k] = g1[k]
             /\ Value([k \in 0 .. 3 |-> FromBe[result[4 + k]]])
                   = (Value(FQ) - Value(y)) % Power(-1)

TypeOK ==
    /\ g1 \in Points
    /\ result \in [0 .. 7 -> Words]
    /\ pc \in {"start", "loop", "done"}
    /\ i \in -1 .. 3
    /\ borrow \in {0, 1}
    /\ neg_y \in [0 .. 3 -> Limb]

\* The loop's invariant: two borrows never meet in one limb, and the limbs
\* done so far are the difference of those of p and y, up to the borrow.
IInv ==
    /\ TypeOK
    /\ pc = "start" => i = 3 /\ borrow = 0
    /\ pc = "loop" =>
         /\ g1 # Identity
         /\ \A k \in 0 .. 3 : result[k] = g1[k]
         /\ Below(neg_y, i) + Below(y, i) = Below(FQ, i) + borrow * Power(i)
    /\ NegationIsExact
=============================================================================
