--------------------------- MODULE NegateG1Proofs ---------------------------
(***************************************************************************)
(* negate_g1_be for words of every size and every modulus of four limbs.   *)
(***************************************************************************)
EXTENDS NegateG1, TLAPS

\* Division with remainder.
LEMMA DivMod ==
    ASSUME NEW m \in Nat, m > 0, NEW x \in Int
    PROVE  /\ x % m \in Int /\ x \div m \in Int
           /\ 0 <= x % m /\ x % m < m
           /\ x = m * (x \div m) + (x % m)
OBVIOUS

\* Two remainders that differ by a multiple of the modulus are equal.
LEMMA RemainderUnique ==
    ASSUME NEW m \in Nat, m > 0, NEW u \in Int, NEW v \in Int, NEW q \in Int,
           0 <= u, u < m, 0 <= v, v < m, u = m * q + v
    PROVE  u = v
<1>1. CASE q = 0 BY <1>1
<1>2. CASE q >= 1
  <2>1. m * q >= m BY <1>2
  <2> QED BY <2>1
<1>3. CASE q <= -1
  <2>1. m * q <= -m BY <1>3
  <2> QED BY <2>1
<1> QED BY <1>1, <1>2, <1>3

\* One turn of the loop: the new limb and the new borrow make up for the
\* subtraction, and no two borrows meet.
LEMMA LimbStep ==
    ASSUME NEW f \in Limb, NEW l \in Limb, NEW c \in {0, 1}
    PROVE  /\ WrappingSub(WrappingSub(f, l), c) \in Limb
           /\ Borrow(f, l, c) \in {0, 1}
           /\ WrappingSub(WrappingSub(f, l), c) + l + c = f + Borrow(f, l, c) * Radix
<1>1. Radix \in Nat /\ Radix > 1
  BY WordsAssumption
<1>2. ASSUME NEW a \in Limb, NEW z \in Limb
      PROVE  /\ WrappingSub(a, z) \in Limb
             /\ WrappingSub(a, z) = a - z + Overflows(a, z) * Radix
             /\ Overflows(a, z) \in {0, 1}
             /\ Overflows(a, z) = 1 => WrappingSub(a, z) > 0
  <2>1. CASE a >= z
    <3>1. Overflows(a, z) = 0 /\ a - z \in Limb
      BY <1>1, <2>1 DEF Overflows, Limb
    <3>2. (a - z) % Radix = a - z
      BY <1>1, <3>1 DEF Limb
    <3> QED BY <1>1, <3>1, <3>2 DEF WrappingSub, Limb
  <2>2. CASE a < z
    <3>1. Overflows(a, z) = 1 /\ a - z + Radix \in Limb /\ a - z + Radix > 0
      BY <1>1, <2>2 DEF Overflows, Limb
    <3>2. (a - z) % Radix = a - z + Radix
      <4>1. a - z = Radix * (-1) + (a - z + Radix) /\ a - z \in Int
        BY <1>1 DEF Limb
      <4> QED BY <1>1, <3>1, <4>1 DEF Limb
    <3> QED BY <1>1, <3>1, <3>2 DEF WrappingSub, Limb
  <2> QED BY <1>1, <2>1, <2>2 DEF Limb
<1>3. c \in Limb
  BY <1>1 DEF Limb
<1> DEFINE d == WrappingSub(f, l)
           w == WrappingSub(d, c)
           b1 == Overflows(f, l)
           b2 == Overflows(d, c)
<1>4. d \in Limb /\ d = f - l + b1 * Radix /\ b1 \in {0, 1} /\ (b1 = 1 => d > 0)
  BY <1>2
<1> HIDE DEF d
<1>5. w \in Limb /\ w = d - c + b2 * Radix /\ b2 \in {0, 1}
  BY <1>2, <1>3, <1>4
<1>6. b1 = 1 => b2 = 0
  <2>1. d > 0 => b2 = 0
    BY <1>1, <1>4 DEF Overflows, Limb
  <2> QED BY <1>4, <2>1
<1> HIDE DEF w, b1, b2
<1>7. (b1 + b2) \in {0, 1} /\ w + l + c = f + (b1 + b2) * Radix
  BY <1>1, <1>4, <1>5, <1>6 DEF Limb
<1>8. Borrow(f, l, c) = b1 + b2
  BY DEF Borrow, b1, b2, d
<1> QED BY <1>5, <1>7, <1>8 DEF w, d

\* Where the loop is, the limb it is at joins the part below.
LEMMA PowerStep ==
    ASSUME NEW k \in 0 .. 3
    PROVE  Power(k) \in Nat /\ Power(k - 1) = Power(k) * Radix
<1>1. Radix \in Nat /\ Radix * Radix \in Nat
  BY WordsAssumption
<1>2. Radix * Radix * Radix \in Nat
  BY <1>1
<1>3. Power(3) = 1 /\ Power(2) = Radix /\ Power(1) = Radix * Radix
      /\ Power(0) = Radix * Radix * Radix
      /\ Power(-1) = Radix * Radix * Radix * Radix
  BY DEF Power
<1>4. CASE k = 3
  <2>1. k - 1 = 2 BY <1>4
  <2> QED BY <1>1, <1>3, <1>4, <2>1
<1>5. CASE k = 2
  <2>1. k - 1 = 1 BY <1>5
  <2> QED BY <1>1, <1>3, <1>5, <2>1
<1>6. CASE k = 1
  <2>1. k - 1 = 0 BY <1>6
  <2> QED BY <1>1, <1>3, <1>6, <2>1
<1>7. CASE k = 0
  <2>1. k - 1 = -1 BY <1>7
  <2> QED BY <1>2, <1>3, <1>7, <2>1
<1> QED BY <1>4, <1>5, <1>6, <1>7

LEMMA BelowStep ==
    ASSUME NEW f \in [0 .. 3 -> Limb], NEW k \in 0 .. 3
    PROVE  Below(f, k) \in Nat /\ Below(f, k - 1) = Below(f, k) + f[k] * Power(k)
<1>1. \A j \in 0 .. 3 : f[j] \in Nat
  BY WordsAssumption DEF Limb
<1>2. \A j \in 0 .. 3 : Power(j) \in Nat
  BY PowerStep
<1>3. \A j \in 0 .. 3 : f[j] * Power(j) \in Nat
  BY <1>1, <1>2
<1>4. /\ Below(f, 3) = 0
      /\ Below(f, 2) = f[3]
      /\ Below(f, 1) = f[3] + f[2] * Power(2)
      /\ Below(f, 0) = f[3] + f[2] * Power(2) + f[1] * Power(1)
      /\ Below(f, -1) = f[3] + f[2] * Power(2) + f[1] * Power(1) + f[0] * Power(0)
  BY DEF Below
<1>5. Power(3) = 1
  BY DEF Power
<1>6. CASE k = 3
  <2>1. k - 1 = 2 BY <1>6
  <2> QED BY <1>1, <1>4, <1>5, <1>6, <2>1
<1>7. CASE k = 2
  <2>1. k - 1 = 1 BY <1>7
  <2> QED BY <1>1, <1>4, <1>7, <2>1
<1>8. CASE k = 1
  <2>1. k - 1 = 0 BY <1>8
  <2> QED BY <1>1, <1>3, <1>4, <1>8, <2>1
<1>9. CASE k = 0
  <2>1. k - 1 = -1 BY <1>9
  <2> QED BY <1>1, <1>3, <1>4, <1>9, <2>1
<1> QED BY <1>6, <1>7, <1>8, <1>9

\* The part below a limb does not depend on the limb.
LEMMA BelowAgrees ==
    ASSUME NEW f, NEW g, NEW k \in -1 .. 3,
           \A j \in 0 .. 3 : j > k => f[j] = g[j]
    PROVE  Below(f, k) = Below(g, k)
<1>1. CASE k = 3
  BY <1>1 DEF Below
<1>2. CASE k = 2
  <2>1. f[3] = g[3] BY <1>2
  <2> QED BY <1>2, <2>1 DEF Below
<1>3. CASE k = 1
  <2>1. f[3] = g[3] /\ f[2] = g[2] BY <1>3
  <2> QED BY <1>3, <2>1 DEF Below
<1>4. CASE k = 0
  <2>1. f[3] = g[3] /\ f[2] = g[2] /\ f[1] = g[1] BY <1>4
  <2> QED BY <1>4, <2>1 DEF Below
<1>5. CASE k = -1
  <2>1. f[3] = g[3] /\ f[2] = g[2] /\ f[1] = g[1] /\ f[0] = g[0] BY <1>5
  <2> QED BY <1>5, <2>1 DEF Below
<1> QED BY <1>1, <1>2, <1>3, <1>4, <1>5

\* A number of four limbs is below Radix^4.
LEMMA ValueBound ==
    ASSUME NEW f \in [0 .. 3 -> Limb]
    PROVE  Value(f) \in Nat /\ Value(f) < Power(-1)
<1>1. \A k \in 0 .. 3 : Below(f, k) < Power(k) => Below(f, k - 1) < Power(k - 1)
  <2> SUFFICES ASSUME NEW k \in 0 .. 3, Below(f, k) < Power(k)
               PROVE  Below(f, k - 1) < Power(k - 1)
    OBVIOUS
  <2> DEFINE p == Power(k)
  <2>1. p \in Nat /\ Power(k - 1) = p * Radix
    BY PowerStep
  <2>2. Below(f, k) \in Nat /\ Below(f, k - 1) = Below(f, k) + f[k] * p
    BY BelowStep
  <2>3. Radix \in Nat /\ f[k] \in Nat /\ f[k] <= Radix - 1
    BY WordsAssumption DEF Limb
  <2> HIDE DEF p
  <2>4. f[k] * p <= p * Radix - p /\ f[k] * p \in Nat
    <3>1. (Radix - 1 - f[k]) * p >= 0 BY <2>1, <2>3
    <3>2. (Radix - 1 - f[k]) * p = p * Radix - p - f[k] * p BY <2>1, <2>3
    <3>3. f[k] * p \in Nat /\ p * Radix \in Nat BY <2>1, <2>3
    <3> QED BY <2>1, <3>1, <3>2, <3>3
  <2>5. Below(f, k) < p
    BY DEF p
  <2>6. p * Radix \in Nat
    BY <2>1, <2>3
  <2> QED BY <2>1, <2>2, <2>4, <2>5, <2>6
<1>2. Below(f, 3) < Power(3)
  BY DEF Below, Power
<1>3. Below(f, 2) < Power(2)
  BY <1>1, <1>2
<1>4. Below(f, 1) < Power(1)
  BY <1>1, <1>3
<1>5. Below(f, 0) < Power(0)
  BY <1>1, <1>4
<1>6. Below(f, 0 - 1) < Power(0 - 1) /\ Below(f, 0 - 1) \in Nat
  <2>1. Below(f, 0) \in Nat /\ Below(f, 0 - 1) = Below(f, 0) + f[0] * Power(0)
    BY BelowStep
  <2>2. Power(0) \in Nat /\ f[0] \in Nat
    BY PowerStep, WordsAssumption DEF Limb
  <2>3. f[0] * Power(0) \in Nat
    BY <2>2
  <2> QED BY <1>1, <1>5, <2>1, <2>3
<1> QED BY <1>6 DEF Value

-----------------------------------------------------------------------------
\* The words of y are limbs.
LEMMA YLimbs ==
    ASSUME g1 \in Points
    PROVE  y \in [0 .. 3 -> Limb]
<1>1. g1 \in [0 .. 7 -> Words]
  BY PointsAssumption
<1>2. \A k \in 0 .. 3 : g1[4 + k] \in Words
  BY <1>1
<1>3. \A k \in 0 .. 3 : FromBe[g1[4 + k]] \in Limb
  BY <1>2, WordsAssumption
<1> QED BY <1>3 DEF y

\* Each turn of the loop keeps its invariant.
LEMMA LoopStep ==
    ASSUME IInv, SubtractLimb
    PROVE  IInv'
<1>1. TypeOK /\ pc = "loop" /\ i \in 0 .. 3
  BY DEF IInv, TypeOK, SubtractLimb
<1>2. FQ \in [0 .. 3 -> Limb] /\ y \in [0 .. 3 -> Limb] /\ neg_y \in [0 .. 3 -> Limb]
  BY <1>1, YLimbs, PointsAssumption DEF TypeOK
<1> DEFINE new == WrappingSub(WrappingSub(FQ[i], y[i]), borrow)
           c == Borrow(FQ[i], y[i], borrow)
<1>3. new \in Limb /\ c \in {0, 1} /\ new + y[i] + borrow = FQ[i] + c * Radix
  BY <1>1, <1>2, LimbStep DEF TypeOK
<1>4. neg_y' = [neg_y EXCEPT ![i] = new] /\ borrow' = c /\ i' = i - 1
      /\ g1' = g1 /\ result' = result /\ pc' = pc /\ y' = y
  BY DEF SubtractLimb, y
<1> HIDE DEF new, c
<1>5. neg_y' \in [0 .. 3 -> Limb]
  BY <1>1, <1>2, <1>3, <1>4
<1>6. TypeOK'
  <2>1. i' \in -1 .. 3 BY <1>1, <1>4
  <2> QED BY <1>1, <1>3, <1>4, <1>5, <2>1 DEF TypeOK
<1>7. Below(neg_y', i - 1) + Below(y, i - 1) = Below(FQ, i - 1) + c * Power(i - 1)
  <2> DEFINE p == Power(i)
  <2>1. p \in Nat /\ Power(i - 1) = p * Radix
    BY <1>1, PowerStep
  <2>2. Below(neg_y', i - 1) = Below(neg_y', i) + new * p
    <3>1. Below(neg_y', i - 1) = Below(neg_y', i) + neg_y'[i] * p
      BY <1>1, <1>5, BelowStep
    <3>2. neg_y'[i] = new
      BY <1>1, <1>2, <1>4
    <3> QED BY <3>1, <3>2
  <2>3. Below(y, i - 1) = Below(y, i) + y[i] * p
        /\ Below(FQ, i - 1) = Below(FQ, i) + FQ[i] * p
        /\ Below(y, i) \in Nat /\ Below(FQ, i) \in Nat /\ Below(neg_y, i) \in Nat
    BY <1>1, <1>2, BelowStep
  <2>4. Below(neg_y', i) = Below(neg_y, i)
    <3>1. \A j \in 0 .. 3 : j > i => neg_y'[j] = neg_y[j]
      BY <1>1, <1>2, <1>4
    <3> QED BY <1>1, <3>1, BelowAgrees
  <2>5. Below(neg_y, i) + Below(y, i) = Below(FQ, i) + borrow * p
    BY <1>1 DEF IInv
  <2>6. y[i] \in Nat /\ FQ[i] \in Nat /\ borrow \in Nat /\ new \in Nat /\ c \in Nat
        /\ Radix \in Nat
    <3>1. y[i] \in Limb /\ FQ[i] \in Limb /\ new \in Limb
      BY <1>1, <1>2, <1>3
    <3>2. borrow \in Nat /\ c \in Nat
      BY <1>1, <1>3 DEF TypeOK
    <3>3. \A l \in Limb : l \in Nat
      BY WordsAssumption DEF Limb
    <3> QED BY <3>1, <3>2, <3>3, WordsAssumption
  <2> HIDE DEF p
  <2>7. new * p + y[i] * p + borrow * p = FQ[i] * p + c * (p * Radix)
    <3> DEFINE yi == y[i]
               fi == FQ[i]
    <3>1. yi \in Nat /\ fi \in Nat /\ new + yi + borrow = fi + c * Radix
      BY <1>3, <2>6
    <3> HIDE DEF yi, fi
    <3>2. (new + yi + borrow) * p = new * p + yi * p + borrow * p
      BY <2>1, <2>6, <3>1
    <3>3. (fi + c * Radix) * p = fi * p + c * (p * Radix)
      BY <2>1, <2>6, <3>1
    <3>4. new * p + yi * p + borrow * p = fi * p + c * (p * Radix)
      BY <3>1, <3>2, <3>3
    <3> QED BY <3>4 DEF yi, fi
  <2>8. new * p \in Nat /\ y[i] * p \in Nat /\ borrow * p \in Nat
        /\ FQ[i] * p \in Nat /\ c * (p * Radix) \in Nat
    BY <2>1, <2>6
  <2>9. c * Power(i - 1) = c * (p * Radix)
    BY <2>1
  <2>10. Below(neg_y, i) + Below(y, i) = Below(FQ, i) + borrow * p
    BY <2>5 DEF p
  <2> QED BY <2>2, <2>3, <2>4, <2>7, <2>8, <2>9, <2>10
<1>8. NegationIsExact'
  BY <1>1, <1>4 DEF NegationIsExact
<1>9. g1' # Identity /\ \A k \in 0 .. 3 : result'[k] = g1'[k]
  BY <1>1, <1>4 DEF IInv
<1>10. Below(neg_y', i') + Below(y', i') = Below(FQ, i') + borrow' * Power(i')
  BY <1>4, <1>7
<1> QED BY <1>1, <1>4, <1>6, <1>8, <1>9, <1>10 DEF IInv

\* What is stored is the difference, reduced to four limbs.
LEMMA StoreStep ==
    ASSUME IInv, Store
    PROVE  IInv'
<1>1. TypeOK /\ pc = "loop" /\ i = -1 /\ pc' = "done" /\ g1' = g1 /\ i' = i
      /\ borrow' = borrow /\ neg_y' = neg_y /\ y' = y
  BY DEF IInv, TypeOK, Store, y
<1>2. FQ \in [0 .. 3 -> Limb] /\ y \in [0 .. 3 -> Limb] /\ neg_y \in [0 .. 3 -> Limb]
  BY <1>1, YLimbs, PointsAssumption DEF TypeOK
<1>3. result' = [k \in 0 .. 7 |-> IF k < 4 THEN result[k] ELSE Stored(k)]
  BY DEF Store
<1>4. result' \in [0 .. 7 -> Words]
  <2>1. \A k \in 0 .. 7 : k >= 4 => neg_y[k - 4] \in Limb
    BY <1>2
  <2>2. \A k \in 0 .. 7 : k >= 4 => Stored(k) \in Words
    BY <2>1, WordsAssumption DEF Stored
  <2> QED BY <1>1, <1>3, <2>2 DEF TypeOK
<1>5. TypeOK'
  BY <1>1, <1>4 DEF TypeOK
<1>6. g1 # Identity /\ \A k \in 0 .. 3 : result'[k] = g1[k]
  BY <1>1, <1>3 DEF IInv
<1>7. [k \in 0 .. 3 |-> FromBe[result'[4 + k]]] = neg_y
  <2>1. \A k \in 0 .. 3 : result'[4 + k] = ToBe[neg_y[k]]
    <3> SUFFICES ASSUME NEW k \in 0 .. 3
                 PROVE  result'[4 + k] = ToBe[neg_y[k]]
      OBVIOUS
    <3>1. 4 + k \in 0 .. 7 /\ ~(4 + k < 4) /\ (4 + k) - 4 = k
      OBVIOUS
    <3> QED BY <1>3, <3>1 DEF Stored
  <2>2. \A k \in 0 .. 3 : FromBe[result'[4 + k]] = neg_y[k]
    BY <1>2, <2>1, WordsAssumption
  <2> QED BY <1>2, <2>2
<1>8. Value(neg_y) = (Value(FQ) - Value(y)) % Power(-1)
  <2> DEFINE m == Power(-1)
             v == Value(neg_y)
             d == Value(FQ) - Value(y)
  <2>1. v \in Nat /\ v < m /\ d \in Int /\ v = d + borrow * m
    <3>1. v \in Nat /\ v < m /\ Value(FQ) \in Nat /\ Value(y) \in Nat
      BY <1>2, ValueBound
    <3>2. v + Value(y) = Value(FQ) + borrow * m
      BY <1>1 DEF IInv, Value
    <3>3. borrow * m = 0 \/ borrow * m = m
      <4>1. m \in Nat
        <5>1. Power(0 - 1) = Power(0) * Radix /\ Power(0) \in Nat BY PowerStep
        <5> QED BY <5>1, WordsAssumption
      <4> HIDE DEF m
      <4> QED BY <1>1, <4>1 DEF TypeOK
    <3>4. m \in Nat
      <4>1. Power(0 - 1) = Power(0) * Radix /\ Power(0) \in Nat BY PowerStep
      <4> QED BY <4>1, WordsAssumption
    <3> HIDE DEF m, v
    <3> QED BY <3>1, <3>2, <3>3, <3>4
  <2>2. m \in Nat
    <3>1. Power(0 - 1) = Power(0) * Radix /\ Power(0) \in Nat BY PowerStep
    <3> QED BY <3>1, WordsAssumption
  <2>3. borrow \in {0, 1}
    BY <1>1 DEF TypeOK
  <2> HIDE DEF m, v, d
  <2> DEFINE u == d % m
             q == d \div m
  <2>4. d = m * q + u /\ q \in Int /\ u \in Int /\ 0 <= u /\ u < m
    BY <2>1, <2>2, DivMod
  <2> HIDE DEF u, q
  <2>5. v = m * (q + borrow) + u
    <3>1. m * (q + borrow) = m * q + borrow * m BY <2>2, <2>3, <2>4
    <3>2. m * q \in Int /\ borrow * m \in Int BY <2>2, <2>3, <2>4
    <3> QED BY <2>1, <2>4, <3>1, <3>2
  <2>6. v = u
    BY <2>1, <2>2, <2>3, <2>4, <2>5, RemainderUnique
  <2> QED BY <2>6 DEF v, u, d, m
<1>9. NegationIsExact'
  <2>1. Value([k \in 0 .. 3 |-> FromBe[result'[4 + k]]])
           = (Value(FQ) - Value(y)) % Power(-1)
    BY <1>7, <1>8
  <2> QED BY <1>1, <1>6, <2>1 DEF NegationIsExact
<1> QED BY <1>1, <1>5, <1>9 DEF IInv

\* Two borrows never meet in one limb of negate_g1_be, and the limbs done are
\* the difference of those of p and y up to the borrow.
THEOREM InductiveInvariant == Spec => []IInv
<1>1. Init => IInv
  <2> SUFFICES ASSUME Init PROVE IInv
    OBVIOUS
  <2>1. Identity \in [0 .. 7 -> Words]
    BY WordsAssumption DEF Identity
  <2>2. 0 \in Limb
    BY WordsAssumption DEF Limb
  <2>3. TypeOK
    BY <2>1, <2>2 DEF Init, TypeOK
  <2> QED BY <2>3 DEF Init, IInv, NegationIsExact
<1>2. IInv /\ [Next]_vars => IInv'
  <2> SUFFICES ASSUME IInv, [Next]_vars PROVE IInv'
    OBVIOUS
  <2>1. CASE NegateIdentity
    <3>1. Identity \in [0 .. 7 -> Words]
      BY WordsAssumption DEF Identity
    <3>2. TypeOK'
      BY <2>1, <3>1 DEF NegateIdentity, IInv, TypeOK
    <3> QED BY <2>1, <3>2 DEF NegateIdentity, IInv, NegationIsExact
  <2>2. CASE StartLoop
    <3>1. TypeOK /\ i = 3 /\ borrow = 0 /\ g1' = g1 /\ i' = i /\ borrow' = borrow
          /\ neg_y' = neg_y /\ pc' = "loop" /\ g1 # Identity /\ y' = y
      BY <2>2 DEF StartLoop, IInv, y
    <3>2. g1 \in [0 .. 7 -> Words]
      BY <3>1, PointsAssumption DEF TypeOK
    <3>3. result' = [k \in 0 .. 7 |-> IF k < 4 THEN g1[k] ELSE Zero]
      BY <2>2 DEF StartLoop
    <3>4. result' \in [0 .. 7 -> Words] /\ \A k \in 0 .. 3 : result'[k] = g1[k]
      BY <3>2, <3>3, WordsAssumption
    <3>5. TypeOK'
      BY <3>1, <3>4 DEF TypeOK
    <3>6. Below(neg_y', 3) + Below(y', 3) = Below(FQ, 3) + 0 * Power(3)
      BY DEF Below, Power
    <3> QED BY <3>1, <3>4, <3>5, <3>6 DEF IInv, NegationIsExact
  <2>3. CASE SubtractLimb
    BY <2>3, LoopStep
  <2>4. CASE Store
    BY <2>4, StoreStep
  <2>5. CASE UNCHANGED vars
    <3>1. y' = y
      BY <2>5 DEF vars, y
    <3> QED BY <2>5, <3>1 DEF vars, IInv, TypeOK, NegationIsExact
  <2> QED BY <2>1, <2>2, <2>3, <2>4, <2>5 DEF Next
<1> QED BY <1>1, <1>2, PTL DEF Spec

\* The negation of (x, y) is (x, p - y) modulo 2^256, whatever borrows there
\* are between the limbs (negate_g1_be).
THEOREM NegationExact == Spec => []NegationIsExact
<1>1. IInv => NegationIsExact
  BY DEF IInv
<1> QED BY <1>1, InductiveInvariant, PTL
=============================================================================
