---------------------------- MODULE BytesProofs ----------------------------
(***************************************************************************)
(* Proofs about the two modules that turn numbers into bytes.              *)
(*                                                                         *)
(* HashToField: the preimages of expand_message_xmd, the bounds of its     *)
(* scratch buffer, and that its result is the remainder of the digest.     *)
(* CircomVk: the bytes of a generated key are the numbers of its file, and *)
(* a file is refused for its reason.                                       *)
(***************************************************************************)
EXTENDS HashToField, CircomVk, SequenceTheorems, WellFoundedInduction, TLAPS

\* Division with remainder.
LEMMA DivMod ==
    ASSUME NEW m \in Nat, m > 0, NEW x \in Int
    PROVE  /\ x % m \in Int /\ x \div m \in Int
           /\ 0 <= x % m /\ x % m < m
           /\ x = m * (x \div m) + (x % m)
OBVIOUS

\* Two remainders that differ by a multiple of the modulus are equal.
LEMMA RemainderUnique ==
    ASSUME NEW m \in Nat, m > 0, NEW u \in Int, NEW v \in Int, NEW q \in Int,
           0 <= u, u < m, 0 <= v, v < m, u = m * q + v
    PROVE  u = v
<1>1. CASE q = 0 BY <1>1
<1>2. CASE q >= 1
  <2>1. m * q >= m BY <1>2
  <2> QED BY <2>1
<1>3. CASE q <= -1
  <2>1. m * q <= -m BY <1>3
  <2> QED BY <2>1
<1> QED BY <1>1, <1>2, <1>3

\* The quotient and the remainder are determined.
LEMMA DivUnique ==
    ASSUME NEW m \in Nat, m > 0, NEW q \in Int, NEW w \in Int, 0 <= w, w < m
    PROVE  (m * q + w) \div m = q /\ (m * q + w) % m = w
<1> DEFINE x == m * q + w
           d == x \div m
           u == x % m
<1>1. x \in Int
  OBVIOUS
<1>2. x = m * d + u /\ d \in Int /\ u \in Int /\ 0 <= u /\ u < m
  <2> HIDE DEF x
  <2> QED BY <1>1, DivMod
<1> HIDE DEF d, u
<1>3. u = m * (q - d) + w /\ q - d \in Int
  <2>1. m * (q - d) = m * q - m * d
    BY <1>2
  <2> QED BY <1>2, <2>1
<1>4. u = w
  BY <1>2, <1>3, RemainderUnique
<1>5. m * (q - d) = 0
  BY <1>2, <1>3, <1>4
<1>6. q - d = 0
  <2> DEFINE g == q - d
  <2>1. g \in Int /\ m * g = 0
    BY <1>3, <1>5
  <2> HIDE DEF g
  <2>2. CASE g >= 1
    <3>1. m * g >= m BY <2>1, <2>2
    <3> QED BY <2>1, <3>1
  <2>3. CASE g <= -1
    <3>1. m * g <= -m BY <2>1, <2>3
    <3> QED BY <2>1, <3>1
  <2>4. g = 0
    BY <2>1, <2>2, <2>3
  <2> QED BY <2>4 DEF g
<1> QED BY <1>2, <1>4, <1>6 DEF d, u

\* Dividing twice is dividing by the product.
LEMMA DivDiv ==
    ASSUME NEW x \in Int, NEW a \in Nat, a > 0, NEW c \in Nat, c > 0
    PROVE  (x \div a) \div c = x \div (a * c)
<1> DEFINE q == x \div a
           w == x % a
           g == q \div c
           h == q % c
<1>1. x = a * q + w /\ q \in Int /\ w \in Int /\ 0 <= w /\ w < a
  BY DivMod
<1> HIDE DEF q, w
<1>2. q = c * g + h /\ g \in Int /\ h \in Int /\ 0 <= h /\ h < c
  BY <1>1, DivMod
<1> HIDE DEF g, h
<1>3. x = (a * c) * g + (a * h + w)
  <2>1. a * q = a * (c * g) + a * h
    BY <1>2
  <2>2. a * (c * g) = (a * c) * g
    BY <1>2
  <2> QED BY <1>1, <1>2, <2>1, <2>2
<1>4. 0 <= a * h + w /\ a * h + w < a * c
  <2>1. a * h >= 0 /\ a * h \in Int
    BY <1>2
  <2>2. a * (c - 1 - h) >= 0 /\ a * (c - 1 - h) = a * c - a - a * h
    BY <1>2
  <2>3. a * c \in Int
    OBVIOUS
  <2> QED BY <1>1, <2>1, <2>2, <2>3
<1> DEFINE m == a * c
           y == a * h + w
<1>5. m \in Nat /\ m > 0 /\ y \in Int /\ 0 <= y /\ y < m /\ x = m * g + y
  <2>1. a * c \in Nat
    OBVIOUS
  <2>2. y \in Int
    BY <1>1, <1>2
  <2> QED BY <1>3, <1>4, <2>1, <2>2
<1> HIDE DEF m, y
<1>6. x \div m = g
  BY <1>2, <1>5, DivUnique
<1> QED BY <1>6 DEF g, q, m

\* A digit below the modulus of a remainder is a digit of the whole number.
LEMMA DigitOfRemainder ==
    \A x \in Int : \A p, m, c \in Nat \ {0} :
        ((x % (p * (m * c))) \div p) % m = (x \div p) % m
<1> SUFFICES ASSUME NEW x \in Int, NEW p \in Nat \ {0}, NEW m \in Nat \ {0},
                    NEW c \in Nat \ {0}
             PROVE  ((x % (p * (m * c))) \div p) % m = (x \div p) % m
  BY Zenon
<1>0. p \in Nat /\ p > 0 /\ m \in Nat /\ m > 0 /\ c \in Nat /\ c > 0
  OBVIOUS
<1> DEFINE f == p * (m * c)
           q == x \div f
           y == x % f
           z == y \div p
           w == y % p
           d == z \div m
           h == z % m
<1>1. f \in Nat /\ f > 0
  <2>1. m * c \in Nat /\ m * c > 0
    OBVIOUS
  <2> DEFINE g == m * c
  <2> HIDE DEF g
  <2>2. p * g \in Nat /\ p * g > 0
    BY <2>1 DEF g
  <2> QED BY <2>2 DEF g
<1>2. x = f * q + y /\ q \in Int /\ y \in Int
  <2> HIDE DEF f
  <2> QED BY <1>1, DivMod
<1> HIDE DEF q, y
<1>3. y = p * z + w /\ z \in Int /\ w \in Int /\ 0 <= w /\ w < p
  BY <1>2, DivMod
<1> HIDE DEF z, w
<1>4. z = m * d + h /\ d \in Int /\ h \in Int /\ 0 <= h /\ h < m
  BY <1>3, DivMod
<1> HIDE DEF d, h
<1>5. f * q = p * (m * (c * q))
  BY <1>2
<1> DEFINE g == c * q
<1>6. g \in Int
  BY <1>2
<1> HIDE DEF g, f
<1>7. x = p * (m * g + z) + w /\ m * g + z \in Int
  <2>1. f * q = p * (m * g)
    BY <1>5 DEF g
  <2>2. m * g \in Int
    BY <1>6
  <2> DEFINE k == m * g
  <2> HIDE DEF k
  <2>3. p * (k + z) = p * k + p * z
    BY <1>3, <2>2 DEF k
  <2>4. p * k \in Int /\ p * z \in Int
    BY <1>3, <2>2 DEF k
  <2> QED BY <1>2, <1>3, <2>1, <2>2, <2>3, <2>4 DEF k
<1>8. x \div p = m * g + z
  BY <1>3, <1>7, DivUnique
<1>9. m * g + z = m * (g + d) + h /\ g + d \in Int
  <2>1. m * (g + d) = m * g + m * d
    BY <1>4, <1>6
  <2>2. m * g \in Int /\ m * d \in Int
    BY <1>4, <1>6
  <2> QED BY <1>4, <1>6, <2>1, <2>2
<1>10. (m * g + z) % m = h
  <2> DEFINE k == g + d
  <2>1. m * g + z = m * k + h /\ k \in Int
    BY <1>9
  <2> HIDE DEF k
  <2>2. (m * k + h) % m = h
    BY ONLY <1>0, <1>4, <2>1, DivUnique
  <2> QED BY ONLY <2>1, <2>2
<1> QED BY <1>8, <1>10 DEF h, z, y, f

\* A non-empty set of natural numbers has a least element.
LEMMA LeastNat ==
    ASSUME NEW T \in SUBSET Nat, T # {}
    PROVE  \E m \in T : \A k \in T : m <= k
<1> DEFINE R == {ss \in Nat \X Nat : ss[1] < ss[2]}
<1>1. IsWellFoundedOn(R, Nat)
  BY NatLessThanWellFounded DEF OpToRel
<1>2. \A x, y \in Nat : x < y => <<x, y>> \in R
  OBVIOUS
<1> HIDE DEF R
<1>3. PICK m \in T : \A y \in T : ~ (<<y, m>> \in R)
  <2>1. \E m \in T : \A y \in T : ~ (<<y, m>> \in R)
    BY <1>1, WFMin
  <2> QED BY <2>1
<1>4. \A k \in T : ~ (k < m)
  BY <1>2, <1>3
<1>5. \A k \in T : m <= k
  BY <1>4
<1> QED BY <1>5

\* Induction: a set of natural numbers that holds 0 and with k also k + 1
\* holds them all.
LEMMA SetInduction ==
    ASSUME NEW S \in SUBSET Nat, 0 \in S, \A k \in S : k + 1 \in S
    PROVE  S = Nat
<1>1. SUFFICES ASSUME Nat \ S # {} PROVE FALSE
  OBVIOUS
<1>2. PICK m \in Nat \ S : \A k \in Nat \ S : m <= k
  BY <1>1, LeastNat
<1>3. m - 1 \in Nat /\ m - 1 \in S
  BY <1>2
<1> QED BY <1>2, <1>3

-----------------------------------------------------------------------------
(***************************************************************************)
(* Powers, and the number that big-endian bytes stand for: both are defined*)
(* by recursion.                                                           *)
(***************************************************************************)
\* The entries up to N of a table are made by one rule: the shape of the
\* tables behind Power and BeValue.
Grows(t, N, t0, m, s) ==
    /\ t[0] = t0
    /\ \A k \in 1 .. N : t[k - 1] \in Nat => t[k] = t[k - 1] * m + s[k]

\* A table with this rule and this first entry exists, for every length.
LEMMA TableExists ==
    ASSUME NEW t0 \in Nat, NEW m \in Nat, NEW N \in Nat, NEW s,
           \A k \in 1 .. N : s[k] \in Nat
    PROVE  \E t \in [0 .. N -> Nat] : Grows(t, N, t0, m, s)
<1> DEFINE Good(k) == \E t \in [0 .. k -> Nat] :
                         /\ t[0] = t0
                         /\ \A i \in 1 .. k : t[i] = t[i - 1] * m + s[i]
           S == {k \in Nat : k <= N => Good(k)}
<1>1. 0 \in S
  <2> DEFINE z == [i \in 0 .. 0 |-> t0]
  <2>1. z \in [0 .. 0 -> Nat] /\ z[0] = t0 /\ \A i \in 1 .. 0 : FALSE
    OBVIOUS
  <2> HIDE DEF z
  <2>2. Good(0)
    BY <2>1
  <2> HIDE DEF Good
  <2> QED BY <2>2
<1>2. ASSUME NEW k \in S PROVE k + 1 \in S
  <2>0. k \in Nat /\ (k <= N => Good(k))
    <3> HIDE DEF Good
    <3> QED OBVIOUS
  <2> SUFFICES ASSUME k + 1 <= N PROVE Good(k + 1)
    <3> HIDE DEF Good
    <3> QED BY <2>0
  <2>1. PICK t \in [0 .. k -> Nat] :
           t[0] = t0 /\ \A i \in 1 .. k : t[i] = t[i - 1] * m + s[i]
    <3>1. Good(k)
      BY ONLY <2>0, k + 1 <= N, N \in Nat
    <3> QED BY <3>1
  <2> HIDE DEF S
  <2> DEFINE u == [i \in 0 .. k + 1 |->
                     IF i = k + 1 THEN t[k] * m + s[k + 1] ELSE t[i]]
  <2>2. u \in [0 .. k + 1 -> Nat]
    <3>1. k + 1 \in 1 .. N /\ t[k] \in Nat
      BY <2>0
    <3>2. t[k] * m + s[k + 1] \in Nat
      <4>1. \A x, y \in Nat : x * m + y \in Nat
        OBVIOUS
      <4>2. s[k + 1] \in Nat
        BY <3>1
      <4> QED BY ONLY <3>1, <4>1, <4>2
    <3>3. \A i \in 0 .. k + 1 : i # k + 1 => t[i] \in Nat
      BY <2>0
    <3> QED BY <3>2, <3>3
  <2>3. u[0] = t0
    BY <2>0, <2>1
  <2>4. ASSUME NEW i \in 1 .. k + 1 PROVE u[i] = u[i - 1] * m + s[i]
    <3>1. CASE i = k + 1
      BY <3>1, <2>0
    <3>2. CASE i # k + 1
      <4>1. i \in 1 .. k /\ i - 1 \in 0 .. k + 1 /\ i - 1 # k + 1
        BY <3>2, <2>0
      <4>2. u[i] = t[i] /\ u[i - 1] = t[i - 1]
        BY <4>1, <3>2
      <4> QED BY <4>1, <4>2, <2>1
    <3> QED BY <3>1, <3>2
  <2> HIDE DEF u
  <2> QED BY <2>2, <2>3, <2>4
<1> HIDE DEF Good
<1>3. S = Nat
  <2> HIDE DEF S
  <2>1. S \in SUBSET Nat
    BY DEF S
  <2> QED BY <1>1, <1>2, <2>1, SetInduction
<1>4. N \in S
  BY <1>3
<1>5. Good(N)
  BY <1>4
<1> QED BY <1>5 DEF Good, Grows

\* Two such tables agree in their last entry.
LEMMA TableUnique ==
    \A m, N \in Nat : \A t \in [0 .. N -> Nat] : \A t0, s, u :
        Grows(t, N, t0, m, s) /\ Grows(u, N, t0, m, s) => u[N] = t[N]
<1> SUFFICES ASSUME NEW m \in Nat, NEW N \in Nat, NEW t \in [0 .. N -> Nat],
                    NEW t0, NEW s, NEW u,
                    Grows(t, N, t0, m, s), Grows(u, N, t0, m, s)
             PROVE  u[N] = t[N]
  OBVIOUS
<1> DEFINE S == {k \in Nat : k <= N => u[k] = t[k]}
<1>1. 0 \in S
  BY DEF Grows
<1>2. ASSUME NEW k \in S PROVE k + 1 \in S
  <2>0. k \in Nat /\ (k <= N => t[k] = u[k])
    OBVIOUS
  <2> SUFFICES ASSUME k + 1 <= N PROVE t[k + 1] = u[k + 1]
    BY <2>0
  <2>1. k + 1 \in 1 .. N /\ (k + 1) - 1 = k /\ t[k] = u[k] /\ t[k] \in Nat
    BY <2>0
  <2> HIDE DEF S
  <2> QED BY <2>1 DEF Grows
<1>3. S = Nat
  <2> HIDE DEF S
  <2>1. S \in SUBSET Nat
    BY DEF S
  <2> QED BY <1>1, <1>2, <2>1, SetInduction
<1> QED BY <1>3

\* Power is what its name says.
LEMMA PowerTable ==
    ASSUME NEW x \in Nat, NEW k \in Nat
    PROVE  \E p \in [0 .. k -> Nat] :
              /\ p[0] = 1 /\ \A j \in 1 .. k : p[j] = x * p[j - 1]
              /\ Power(x, k) = p[k]
<1> DEFINE z == [j \in 1 .. k |-> 0]
<1>1. PICK t \in [0 .. k -> Nat] : Grows(t, k, 1, x, z)
  <2>1. 1 \in Nat /\ \A j \in 1 .. k : z[j] \in Nat
    OBVIOUS
  <2> HIDE DEF z
  <2> QED BY <2>1, TableExists
<1>2. \A j \in 1 .. k : t[j] = x * t[j - 1] /\ j - 1 \in 0 .. k /\ j # 0
  <2> TAKE j \in 1 .. k
  <2>1. t[j] = t[j - 1] * x + 0 /\ t[j - 1] \in Nat
    BY <1>1 DEF Grows
  <2> QED BY <2>1
<1>3. t = [j \in 0 .. k |-> IF j = 0 THEN 1 ELSE x * t[j - 1]]
  <2>1. \A j \in 0 .. k : t[j] = IF j = 0 THEN 1 ELSE x * t[j - 1]
    <3>1. t[0] = 1
      BY <1>1 DEF Grows
    <3> QED BY <1>2, <3>1
  <2> QED BY <2>1
<1>4. \E p : p = [j \in 0 .. k |-> IF j = 0 THEN 1 ELSE x * p[j - 1]]
             /\ Power(x, k) = p[k]
  <2>1. \E p : p = [j \in 0 .. k |-> IF j = 0 THEN 1 ELSE x * p[j - 1]]
    BY <1>3
  <2> QED BY ONLY <2>1 DEF Power
<1>5. PICK p : p = [j \in 0 .. k |-> IF j = 0 THEN 1 ELSE x * p[j - 1]]
               /\ Power(x, k) = p[k]
  BY <1>4
<1>6. Grows(p, k, 1, x, z)
  <2>1. \A j \in 0 .. k : p[j] = IF j = 0 THEN 1 ELSE x * p[j - 1]
    BY <1>5
  <2>2. \A j \in 1 .. k : z[j] = 0
    OBVIOUS
  <2> HIDE DEF z
  <2> QED BY <2>1, <2>2 DEF Grows
<1> HIDE DEF z
<1>7. p[k] = t[k]
  <2> DEFINE one == 1
  <2>1. Grows(t, k, one, x, z)
    BY <1>1, <1>6
  <2>2. Grows(p, k, one, x, z)
    BY <1>1, <1>6
  <2> HIDE DEF one
  <2>4. \A f, g, w : Grows(t, k, f, x, g) /\ Grows(w, k, f, x, g)
                      => w[k] = t[k]
    BY TableUnique
  <2> QED BY ONLY <2>1, <2>2, <2>4
<1>8. Power(x, k) = t[k]
  BY <1>5, <1>7
<1>9. t[0] = 1
  BY <1>1 DEF Grows
<1> QED BY <1>2, <1>8, <1>9

\* The zeroth power.
LEMMA PowerZero ==
    ASSUME NEW x \in Nat
    PROVE  Power(x, 0) = 1
BY PowerTable

\* One power more.
LEMMA PowerStep ==
    ASSUME NEW x \in Nat, NEW k \in Nat
    PROVE  /\ Power(x, k) \in Nat
           /\ Power(x, k + 1) = x * Power(x, k)
<1>1. PICK p \in [0 .. k + 1 -> Nat] :
         /\ p[0] = 1 /\ \A j \in 1 .. k + 1 : p[j] = x * p[j - 1]
         /\ Power(x, k + 1) = p[k + 1]
  <2>1. k + 1 \in Nat
    OBVIOUS
  <2> QED BY <2>1, PowerTable, Zenon
<1>2. PICK q \in [0 .. k -> Nat] :
         /\ q[0] = 1 /\ \A j \in 1 .. k : q[j] = x * q[j - 1]
         /\ Power(x, k) = q[k]
  BY PowerTable
<1> DEFINE z == [j \in 1 .. k |-> 0]
<1>3. Grows(q, k, 1, x, z) /\ Grows(p, k, 1, x, z)
  <2>1. \A j \in 1 .. k : /\ q[j] = x * q[j - 1] /\ p[j] = x * p[j - 1]
                          /\ q[j - 1] \in Nat /\ p[j - 1] \in Nat /\ z[j] = 0
    <3> TAKE j \in 1 .. k
    <3>1. j \in 1 .. k + 1 /\ j - 1 \in 0 .. k /\ j - 1 \in 0 .. k + 1
      OBVIOUS
    <3>2. z[j] = 0
      OBVIOUS
    <3> HIDE DEF z
    <3> QED BY <1>1, <1>2, <3>1, <3>2
  <2>3. p[0] = 1 /\ q[0] = 1
    BY <1>1, <1>2
  <2>2. \A y \in Nat : x * y = y * x + 0
    OBVIOUS
  <2> HIDE DEF z
  <2> QED BY <2>1, <2>2, <2>3 DEF Grows
<1> HIDE DEF z
<1>4. p[k] = q[k]
  <2> DEFINE one == 1
  <2>1. Grows(q, k, one, x, z)
    BY <1>3
  <2>2. Grows(p, k, one, x, z)
    BY <1>3
  <2> HIDE DEF one
  <2>4. \A f, g, w : Grows(q, k, f, x, g) /\ Grows(w, k, f, x, g)
                      => w[k] = q[k]
    BY TableUnique
  <2> QED BY ONLY <2>1, <2>2, <2>4
<1>5. p[k + 1] = x * p[k] /\ p[k] = q[k]
  BY <1>1, <1>4
<1> QED BY <1>1, <1>2, <1>5

\* The power of a sum of exponents.
LEMMA PowerAdd ==
    ASSUME NEW x \in Nat, NEW i \in Nat
    PROVE  \A k \in Nat : Power(x, i + k) = Power(x, i) * Power(x, k)
<1> DEFINE S == {k \in Nat : Power(x, i + k) = Power(x, i) * Power(x, k)}
<1>0. \A k \in Nat : Power(x, k) \in Nat /\ Power(x, k + 1) = x * Power(x, k)
  BY PowerStep
<1>1. 0 \in S
  <2>1. Power(x, 0) = 1 /\ Power(x, i) \in Nat /\ i + 0 = i
    BY <1>0, PowerZero
  <2> QED BY <2>1
<1>2. ASSUME NEW k \in S PROVE k + 1 \in S
  <2>1. k \in Nat /\ Power(x, i + k) = Power(x, i) * Power(x, k)
    OBVIOUS
  <2>2. /\ i + k \in Nat /\ i + (k + 1) = (i + k) + 1
        /\ Power(x, k + 1) = x * Power(x, k) /\ Power(x, k) \in Nat
        /\ Power(x, i) \in Nat
        /\ Power(x, (i + k) + 1) = x * Power(x, i + k)
    BY <1>0, <2>1
  <2>3. \A y, z \in Nat : x * (y * z) = y * (x * z)
    OBVIOUS
  <2>4. Power(x, i + (k + 1)) = Power(x, i) * Power(x, k + 1)
    BY <2>1, <2>2, <2>3
  <2> QED BY <2>1, <2>4
<1>3. S = Nat
  <2> HIDE DEF S
  <2>1. S \in SUBSET Nat
    BY DEF S
  <2> QED BY <1>1, <1>2, <2>1, SetInduction
<1> QED BY <1>3

\* A power of a positive number is positive.
LEMMA PowerPositive ==
    ASSUME NEW x \in Nat, x > 0
    PROVE  \A k \in Nat : Power(x, k) \in Nat /\ Power(x, k) > 0
<1> DEFINE S == {k \in Nat : Power(x, k) > 0}
<1>0. \A k \in Nat : Power(x, k) \in Nat /\ Power(x, k + 1) = x * Power(x, k)
  BY PowerStep
<1>1. 0 \in S
  BY PowerZero
<1>2. ASSUME NEW k \in S PROVE k + 1 \in S
  <2>1. k \in Nat /\ Power(x, k) > 0 /\ Power(x, k) \in Nat
        /\ Power(x, k + 1) = x * Power(x, k)
    BY <1>0
  <2>2. \A y \in Nat : y > 0 => x * y > 0
    OBVIOUS
  <2>3. Power(x, k + 1) > 0
    BY <2>1, <2>2
  <2> QED BY <2>1, <2>3
<1>3. S = Nat
  <2> HIDE DEF S
  <2>1. S \in SUBSET Nat
    BY DEF S
  <2> QED BY <1>1, <1>2, <2>1, SetInduction
<1> QED BY <1>0, <1>3

\* No bytes stand for zero.
LEMMA BeEmpty == BeValue(<<>>) = 0
<1>1. \E v : v = [k \in 0 .. 0 |-> IF k = 0 THEN 0 ELSE v[k - 1] * Base + <<>>[k]]
             /\ BeValue(<<>>) = v[0]
  <2> DEFINE u == [k \in 0 .. 0 |-> 0]
  <2>1. u = [k \in 0 .. 0 |-> IF k = 0 THEN 0 ELSE u[k - 1] * Base + <<>>[k]]
    OBVIOUS
  <2>2. \E v : v = [k \in 0 .. 0 |-> IF k = 0 THEN 0 ELSE v[k - 1] * Base + <<>>[k]]
    BY <2>1
  <2>3. Len(<<>>) = 0
    OBVIOUS
  <2> QED BY ONLY <2>2, <2>3 DEF BeValue
<1> QED BY <1>1

\* The table of the numbers that the beginnings of a sequence of bytes stand for.
LEMMA BeTable ==
    ASSUME NEW s \in Seq(Nat)
    PROVE  \E t \in [0 .. Len(s) -> Nat] :
              Grows(t, Len(s), 0, Base, s) /\ BeValue(s) = t[Len(s)]
<1>0. Base \in Nat /\ Len(s) \in Nat /\ \A k \in 1 .. Len(s) : s[k] \in Nat
  BY BaseAssumption
<1>1. PICK t \in [0 .. Len(s) -> Nat] : Grows(t, Len(s), 0, Base, s)
  <2>1. 0 \in Nat
    OBVIOUS
  <2> QED BY <1>0, <2>1, TableExists
<1>2. t = [k \in 0 .. Len(s) |-> IF k = 0 THEN 0 ELSE t[k - 1] * Base + s[k]]
  <2>1. \A k \in 0 .. Len(s) :
           t[k] = IF k = 0 THEN 0 ELSE t[k - 1] * Base + s[k]
    <3> TAKE k \in 0 .. Len(s)
    <3>1. CASE k = 0
      BY <3>1, <1>1 DEF Grows
    <3>2. CASE k # 0
      <4>1. k \in 1 .. Len(s) /\ k - 1 \in 0 .. Len(s) /\ t[k - 1] \in Nat
        <5>1. k \in 1 .. Len(s) /\ k - 1 \in 0 .. Len(s)
          BY <1>0, <3>2
        <5> QED BY <5>1
      <4> QED BY <1>1, <3>2, <4>1 DEF Grows
    <3> QED BY <3>1, <3>2
  <2> QED BY <2>1
<1>3. \E v : v = [k \in 0 .. Len(s) |-> IF k = 0 THEN 0 ELSE v[k - 1] * Base + s[k]]
             /\ BeValue(s) = v[Len(s)]
  <2>1. \E v : v = [k \in 0 .. Len(s) |-> IF k = 0 THEN 0 ELSE v[k - 1] * Base + s[k]]
    BY <1>2
  <2> QED BY ONLY <2>1 DEF BeValue
<1>4. PICK v : v = [k \in 0 .. Len(s) |-> IF k = 0 THEN 0 ELSE v[k - 1] * Base + s[k]]
               /\ BeValue(s) = v[Len(s)]
  BY <1>3
<1>5. Grows(v, Len(s), 0, Base, s)
  <2>1. \A k \in 0 .. Len(s) :
           v[k] = IF k = 0 THEN 0 ELSE v[k - 1] * Base + s[k]
    BY <1>4
  <2>2. v[0] = 0
    BY <2>1, <1>0
  <2> QED BY <1>1, <2>1, <2>2 DEF Grows
<1>6. v[Len(s)] = t[Len(s)]
  <2> DEFINE zero == 0
  <2>1. Grows(t, Len(s), zero, Base, s)
    BY <1>1, <1>5
  <2>2. Grows(v, Len(s), zero, Base, s)
    BY <1>1, <1>5
  <2>3. Len(s) \in Nat /\ Base \in Nat
    BY <1>0
  <2> HIDE DEF zero
  <2>4. \A f, g, w : Grows(t, Len(s), f, Base, g) /\ Grows(w, Len(s), f, Base, g)
                      => w[Len(s)] = t[Len(s)]
    BY ONLY <2>3, TableUnique
  <2> QED BY ONLY <2>1, <2>2, <2>4
<1>7. BeValue(s) = t[Len(s)]
  BY <1>0, <1>4, <1>6
<1> QED BY <1>1, <1>7

\* The number that big-endian bytes and one byte more stand for.
LEMMA BeAppend ==
    ASSUME NEW s \in Seq(Nat), NEW x \in Nat
    PROVE  /\ BeValue(s) \in Nat
           /\ BeValue(Append(s, x)) = BeValue(s) * Base + x
<1> DEFINE sx == Append(s, x)
<1>0. /\ sx \in Seq(Nat) /\ Len(sx) = Len(s) + 1 /\ sx[Len(s) + 1] = x
      /\ \A k \in 1 .. Len(s) : sx[k] = s[k]
      /\ Len(s) \in Nat /\ Base \in Nat
  BY BaseAssumption
<1> HIDE DEF sx
<1>1. PICK t \in [0 .. Len(sx) -> Nat] :
         Grows(t, Len(sx), 0, Base, sx) /\ BeValue(sx) = t[Len(sx)]
  BY <1>0, BeTable, Zenon
<1>2. PICK u \in [0 .. Len(s) -> Nat] :
         Grows(u, Len(s), 0, Base, s) /\ BeValue(s) = u[Len(s)]
  BY BeTable, Zenon
<1>3. Grows(t, Len(s), 0, Base, s)
  BY <1>0, <1>1 DEF Grows
<1>4. t[Len(s)] = u[Len(s)]
  <2> DEFINE zero == 0
             N    == Len(s)
  <2>1. Grows(t, N, zero, Base, s)
    BY <1>3
  <2>2. Grows(u, N, zero, Base, s)
    BY <1>2
  <2>3. N \in Nat /\ Base \in Nat
    BY <1>0
  <2>4. u \in [0 .. N -> Nat]
    BY <1>2
  <2> HIDE DEF zero, N
  <2>5. \A f, g, v : Grows(u, N, f, Base, g) /\ Grows(v, N, f, Base, g)
                      => v[N] = u[N]
    BY ONLY <2>3, <2>4, TableUnique
  <2>6. t[N] = u[N]
    BY ONLY <2>1, <2>2, <2>5
  <2> QED BY <2>6 DEF N
<1>5. t[Len(s)] = u[Len(s)] /\ u[Len(s)] \in Nat
  BY <1>0, <1>4
<1>6. t[Len(s) + 1] = t[Len(s)] * Base + sx[Len(s) + 1]
  <2>1. Len(s) + 1 \in 1 .. Len(sx) /\ (Len(s) + 1) - 1 = Len(s)
    BY <1>0
  <2> QED BY <1>1, <1>5, <2>1 DEF Grows
<1> QED BY <1>0, <1>1, <1>2, <1>5, <1>6 DEF sx

\* A non-empty sequence is its beginning with its last element appended.
LEMMA SubSeqAppend ==
    ASSUME NEW A, NEW s \in Seq(A), NEW i \in Nat, NEW j \in Nat,
           i > 0, i <= j + 1, j + 1 <= Len(s)
    PROVE  /\ SubSeq(s, i, j) \in Seq(A) /\ Len(SubSeq(s, i, j)) = j - i + 1
           /\ SubSeq(s, i, j + 1) = Append(SubSeq(s, i, j), s[j + 1])
<1> DEFINE u == SubSeq(s, i, j)
           v == SubSeq(s, i, j + 1)
           w == Append(u, s[j + 1])
<1>0. Len(s) \in Nat /\ s[j + 1] \in A
  OBVIOUS
<1>1. /\ u \in Seq(A) /\ Len(u) = j - i + 1
      /\ \A k \in 1 .. j - i + 1 : u[k] = s[i + k - 1]
  <2>1. \A k \in i .. j : s[k] \in A
    BY <1>0
  <2>2. /\ SubSeq(s, i, j) \in Seq(A)
        /\ Len(SubSeq(s, i, j)) = IF i <= j THEN j - i + 1 ELSE 0
        /\ \A k \in 1 .. j - i + 1 : SubSeq(s, i, j)[k] = s[i + k - 1]
    BY <2>1, SubSeqProperties
  <2> QED BY <2>2
<1>2. /\ v \in Seq(A) /\ Len(v) = j - i + 2
      /\ \A k \in 1 .. j - i + 2 : v[k] = s[i + k - 1]
  <2>1. (\A k \in i .. j + 1 : s[k] \in A) /\ j + 1 \in Int
    BY <1>0
  <2>2. /\ SubSeq(s, i, j + 1) \in Seq(A)
        /\ Len(SubSeq(s, i, j + 1)) = IF i <= j + 1 THEN (j + 1) - i + 1 ELSE 0
        /\ \A k \in 1 .. (j + 1) - i + 1 : SubSeq(s, i, j + 1)[k] = s[i + k - 1]
    BY <2>1, SubSeqProperties
  <2> QED BY <2>2
<1> HIDE DEF u, v
<1>3. /\ w \in Seq(A) /\ Len(w) = j - i + 2
      /\ \A k \in 1 .. j - i + 1 : w[k] = u[k]
      /\ w[j - i + 2] = s[j + 1]
  BY <1>0, <1>1
<1> HIDE DEF w
<1>4. \A k \in 1 .. j - i + 2 : v[k] = w[k]
  <2> TAKE k \in 1 .. j - i + 2
  <2>1. CASE k = j - i + 2
    <3>1. v[k] = s[i + k - 1] /\ i + k - 1 = j + 1
      BY <1>2, <2>1
    <3> QED BY <1>3, <2>1, <3>1
  <2>2. CASE k \in 1 .. j - i + 1
    BY <1>1, <1>2, <1>3, <2>2
  <2> QED BY <2>1, <2>2
<1>5. v = w
  BY <1>2, <1>3, <1>4, SeqEqual
<1> QED BY <1>1, <1>5 DEF u, v, w

\* A sequence of bytes is a sequence of natural numbers.
LEMMA BytesAreNat ==
    ASSUME NEW s \in Seq(Byte)
    PROVE  s \in Seq(Nat) /\ Len(s) \in Nat
BY BaseAssumption DEF Byte

\* One byte more at the end of a slice.
LEMMA BeSliceStep ==
    ASSUME NEW s \in Seq(Nat), NEW i \in Nat, NEW j \in Nat,
           i > 0, i <= j + 1, j + 1 <= Len(s)
    PROVE  /\ BeValue(SubSeq(s, i, j)) \in Nat /\ s[j + 1] \in Nat
           /\ BeValue(SubSeq(s, i, j + 1))
                 = BeValue(SubSeq(s, i, j)) * Base + s[j + 1]
<1> DEFINE u == SubSeq(s, i, j)
           x == s[j + 1]
<1>1. u \in Seq(Nat) /\ SubSeq(s, i, j + 1) = Append(u, x)
  BY SubSeqAppend, Zenon
<1>2. x \in Nat
  OBVIOUS
<1> HIDE DEF u, x
<1>3. BeValue(u) \in Nat /\ BeValue(Append(u, x)) = BeValue(u) * Base + x
  BY <1>1, <1>2, BeAppend, Zenon
<1> QED BY <1>1, <1>2, <1>3 DEF u, x

\* Bytes in the middle count for the number they make themselves, behind the
\* bytes before them.
LEMMA BeSplit ==
    ASSUME NEW s \in Seq(Byte), NEW i \in Nat
    PROVE  \A k \in Nat : i + k <= Len(s) =>
              /\ BeValue(SubSeq(s, 1, i)) \in Nat
              /\ BeValue(SubSeq(s, i + 1, i + k)) \in Nat
              /\ BeValue(SubSeq(s, 1, i + k))
                    = BeValue(SubSeq(s, 1, i)) * Power(Base, k)
                      + BeValue(SubSeq(s, i + 1, i + k))
<1> DEFINE h    == BeValue(SubSeq(s, 1, i))
           T(k) == BeValue(SubSeq(s, 1, i + k))
           V(k) == BeValue(SubSeq(s, i + 1, i + k))
           S    == {k \in Nat : i + k <= Len(s) =>
                      h \in Nat /\ V(k) \in Nat /\ T(k) = h * Power(Base, k) + V(k)}
<1>0. s \in Seq(Nat) /\ Len(s) \in Nat /\ Base \in Nat
  BY BytesAreNat, BaseAssumption
<1>1. 0 \in S
  <2> SUFFICES ASSUME i <= Len(s)
               PROVE  h \in Nat /\ V(0) \in Nat /\ T(0) = h * Power(Base, 0) + V(0)
    BY <1>0
  <2>1. V(0) = 0
    <3>1. i + 0 = i /\ i < i + 1
      OBVIOUS
    <3>2. SubSeq(s, i + 1, i) = <<>>
      BY SubSeqEmpty
    <3> QED BY <3>1, <3>2, BeEmpty
  <2>2. h \in Nat
    <3>1. SubSeq(s, 1, i) \in Seq(Nat)
      BY <1>0
    <3> QED BY <3>1, 0 \in Nat, BeAppend, Zenon
  <2>3. T(0) = h /\ Power(Base, 0) = 1
    BY <1>0, PowerZero
  <2> HIDE DEF h, T, V
  <2> QED BY <2>1, <2>2, <2>3
<1>2. ASSUME NEW k \in S PROVE k + 1 \in S
  <2>0. k \in Nat
    OBVIOUS
  <2> SUFFICES ASSUME i + (k + 1) <= Len(s)
               PROVE  /\ h \in Nat /\ V(k + 1) \in Nat
                      /\ T(k + 1) = h * Power(Base, k + 1) + V(k + 1)
    BY <2>0
  <2>1. h \in Nat /\ V(k) \in Nat /\ T(k) = h * Power(Base, k) + V(k)
    <3> HIDE DEF h, T, V
    <3> QED BY <1>0, <2>0
  <2> DEFINE x == s[(i + k) + 1]
             p == Power(Base, k)
  <2>3. x \in Nat /\ T(k + 1) = T(k) * Base + x
    <3> DEFINE o == 1
               j == i + k
    <3>1. o \in Nat /\ o > 0 /\ j \in Nat /\ o <= j + 1 /\ j + 1 <= Len(s)
          /\ i + (k + 1) = j + 1
      BY <1>0, <2>0
    <3> HIDE DEF o, j
    <3>2. /\ s[j + 1] \in Nat
          /\ BeValue(SubSeq(s, o, j + 1)) = BeValue(SubSeq(s, o, j)) * Base + s[j + 1]
      BY ONLY <1>0, <3>1, BeSliceStep
    <3> QED BY <3>1, <3>2 DEF o, j
  <2>4. V(k + 1) = V(k) * Base + x
    <3> DEFINE o == i + 1
               j == i + k
    <3>1. o \in Nat /\ o > 0 /\ j \in Nat /\ o <= j + 1 /\ j + 1 <= Len(s)
          /\ i + (k + 1) = j + 1
      BY <1>0, <2>0
    <3> HIDE DEF o, j
    <3>2. BeValue(SubSeq(s, o, j + 1)) = BeValue(SubSeq(s, o, j)) * Base + s[j + 1]
      BY ONLY <1>0, <3>1, BeSliceStep
    <3> QED BY <3>1, <3>2 DEF o, j
  <2>5. p \in Nat /\ Power(Base, k + 1) = Base * p
    BY <1>0, <2>0, PowerStep
  <2> HIDE DEF h, T, V, x, p, S
  <2>6. \A y, z, v \in Nat : /\ (y * z + v) * Base + x = y * (Base * z) + (v * Base + x)
                             /\ v * Base + x \in Nat
    BY <1>0, <2>3
  <2>7. T(k) = h * p + V(k)
    BY <2>1 DEF p
  <2>8. T(k + 1) = h * (Base * p) + (V(k) * Base + x) /\ V(k) * Base + x \in Nat
    BY ONLY <2>1, <2>3, <2>5, <2>6, <2>7
  <2> QED BY ONLY <2>1, <2>4, <2>5, <2>8
<1>3. S = Nat
  <2> HIDE DEF S
  <2>1. S \in SUBSET Nat
    BY DEF S
  <2> QED BY <1>1, <1>2, <2>1, SetInduction
<1> HIDE DEF h, T, V
<1>4. \A k \in Nat : i + k <= Len(s) =>
         h \in Nat /\ V(k) \in Nat /\ T(k) = h * Power(Base, k) + V(k)
  BY <1>3
<1> QED BY <1>4 DEF h, T, V

\* What fits so many bytes.
LEMMA BeBound ==
    ASSUME NEW s \in Seq(Byte)
    PROVE  BeValue(s) \in Nat /\ BeValue(s) < Power(Base, Len(s))
<1> DEFINE T(k) == BeValue(SubSeq(s, 1, k))
           S    == {k \in Nat : k <= Len(s) => T(k) < Power(Base, k)}
<1>0. /\ s \in Seq(Nat) /\ Len(s) \in Nat /\ Base \in Nat
      /\ \A k \in 1 .. Len(s) : s[k] \in 0 .. Base - 1
  BY BytesAreNat, BaseAssumption DEF Byte
<1>1. 0 \in S
  <2>1. SubSeq(s, 1, 0) = <<>>
    BY SubSeqEmpty
  <2>2. T(0) = 0 /\ Power(Base, 0) = 1
    BY <1>0, <2>1, BeEmpty, PowerZero
  <2> HIDE DEF T
  <2> QED BY <2>2
<1>2. ASSUME NEW k \in S PROVE k + 1 \in S
  <2>0. k \in Nat /\ (k <= Len(s) => T(k) < Power(Base, k))
    <3> HIDE DEF T
    <3> QED OBVIOUS
  <2> SUFFICES ASSUME k + 1 <= Len(s)
               PROVE  T(k + 1) < Power(Base, k + 1)
    BY <2>0
  <2> DEFINE x == s[k + 1]
             p == Power(Base, k)
  <2>1. x \in Nat /\ x <= Base - 1
    BY <1>0, <2>0
  <2>2. T(k) \in Nat /\ T(k + 1) = T(k) * Base + x
    <3> DEFINE o == 1
    <3>1. o \in Nat /\ o > 0 /\ o <= k + 1
      BY <2>0
    <3> HIDE DEF o
    <3>2. /\ BeValue(SubSeq(s, o, k)) \in Nat
          /\ BeValue(SubSeq(s, o, k + 1)) = BeValue(SubSeq(s, o, k)) * Base + s[k + 1]
      BY ONLY <1>0, <2>0, <3>1, k + 1 <= Len(s), BeSliceStep
    <3> QED BY <3>2 DEF o
  <2>3. p \in Nat /\ Power(Base, k + 1) = Base * p
    BY <1>0, <2>0, PowerStep
  <2>4. T(k) < p
    BY <1>0, <2>0
  <2> HIDE DEF T, x, p, S
  <2> DEFINE v == T(k)
  <2>5. (p - 1 - v) * Base >= 0 /\ (p - 1 - v) * Base = Base * p - Base - v * Base
    <3>1. v \in Nat /\ v <= p - 1
      BY <2>2, <2>3, <2>4
    <3> HIDE DEF v
    <3> QED BY ONLY <1>0, <2>3, <3>1
  <2>6. v * Base \in Nat /\ Base * p \in Nat
    BY <1>0, <2>2, <2>3
  <2>7. v * Base + x < Base * p
    <3> HIDE DEF v
    <3> QED BY ONLY <1>0, <2>1, <2>5, <2>6
  <2> QED BY <2>2, <2>3, <2>7
<1>3. S = Nat
  <2> HIDE DEF S
  <2>1. S \in SUBSET Nat
    BY DEF S
  <2> QED BY <1>1, <1>2, <2>1, SetInduction
<1>4. SubSeq(s, 1, Len(s)) = s
  BY SubSeqFull
<1>5. T(Len(s)) < Power(Base, Len(s))
  <2> HIDE DEF T
  <2> QED BY <1>0, <1>3
<1>6. BeValue(s) \in Nat
  BY <1>0, 0 \in Nat, BeAppend, Zenon
<1> QED BY <1>4, <1>5, <1>6

\* Bytes that are the digits of a number stand for it.
LEMMA DigitsValue ==
    ASSUME NEW s \in Seq(Byte), NEW z \in Nat, Len(s) = z,
           NEW v \in Nat, v < Power(Base, z),
           \A k \in 1 .. z : s[k] = (v \div Power(Base, z - k)) % Base
    PROVE  BeValue(s) = v
<1> DEFINE D(k) == v \div Power(Base, z - k)
           T(k) == BeValue(SubSeq(s, 1, k))
           S    == {k \in Nat : k <= z => T(k) = D(k)}
<1>0. /\ Base \in Nat /\ Base > 0
      /\ \A y \in Nat : Power(Base, y) \in Nat /\ Power(Base, y) > 0
  <2>1. Base \in Nat /\ Base > 0
    BY BaseAssumption
  <2>2. \A y \in Nat : Power(Base, y) \in Nat /\ Power(Base, y) > 0
    BY ONLY <2>1, PowerPositive
  <2> QED BY <2>1, <2>2
<1>1. \A k \in 1 .. z : s[k] = D(k) % Base
  OBVIOUS
<1>2. \A k \in 0 .. z : D(k) \in Int
  <2> TAKE k \in 0 .. z
  <2>1. Power(Base, z - k) \in Nat /\ Power(Base, z - k) > 0
    <3>1. z - k \in Nat
      BY ONLY z \in Nat, k \in 0 .. z
    <3> QED BY ONLY <1>0, <3>1
  <2> QED BY <2>1, DivMod
<1>4. s \in Seq(Nat)
  BY BytesAreNat
<1>5. 0 \in S
  <2>1. SubSeq(s, 1, 0) = <<>>
    BY SubSeqEmpty
  <2>2. T(0) = 0
    BY <2>1, BeEmpty
  <2>3. Power(Base, z - 0) = Power(Base, z)
    BY <1>0
  <2>4. D(0) = 0
    <3> DEFINE g == Power(Base, z - 0)
    <3>1. g \in Nat /\ g > 0 /\ v < g
      BY <1>0, <2>3
    <3> HIDE DEF g
    <3>2. v \div g = 0
      <4> DEFINE o == 0
      <4>1. o \in Int /\ v = g * o + v /\ 0 <= v /\ v \in Int
        BY <3>1
      <4> HIDE DEF o
      <4>2. v \div g = o
        BY ONLY <3>1, <4>1, DivUnique
      <4> QED BY <4>2 DEF o
    <3> QED BY <3>2 DEF g
  <2> HIDE DEF T, D
  <2> QED BY <2>2, <2>4
<1>6. ASSUME NEW k \in S PROVE k + 1 \in S
  <2>0. k \in Nat /\ (k <= z => T(k) = D(k))
    <3> HIDE DEF T, D
    <3> QED OBVIOUS
  <2> SUFFICES ASSUME k + 1 <= z PROVE T(k + 1) = D(k + 1)
    <3> HIDE DEF T, D
    <3> QED BY <2>0
  <2>1. T(k + 1) = T(k) * Base + s[k + 1]
    <3> DEFINE o == 1
    <3>1. o \in Nat /\ o > 0 /\ o <= k + 1 /\ k + 1 <= Len(s)
      BY <2>0
    <3> HIDE DEF o
    <3>2. BeValue(SubSeq(s, o, k + 1)) = BeValue(SubSeq(s, o, k)) * Base + s[k + 1]
      BY ONLY <1>4, <2>0, <3>1, BeSliceStep
    <3> QED BY <3>2 DEF o
  <2> DEFINE x == D(k + 1)
             g == Power(Base, z - (k + 1))
  <2>2. x \in Int /\ s[k + 1] = x % Base
    <3>1. k + 1 \in 1 .. z /\ k + 1 \in 0 .. z
      BY ONLY <2>0, k + 1 <= z, z \in Nat
    <3> HIDE DEF D
    <3> QED BY ONLY <1>1, <1>2, <3>1
  <2>3. D(k) = x \div Base
    <3>1. z - (k + 1) \in Nat /\ z - k = (z - (k + 1)) + 1
      BY <1>0, <2>0
    <3>2. g \in Nat /\ g > 0 /\ Power(Base, z - k) = Base * g
      BY <1>0, <3>1, PowerStep
    <3>3. Base * g = g * Base
      BY <1>0, <3>2
    <3>4. (v \div g) \div Base = v \div (g * Base)
      <4> HIDE DEF g
      <4>1. v \in Int /\ g \in Nat /\ g > 0 /\ Base \in Nat /\ Base > 0
        BY ONLY <1>0, <3>2, v \in Nat
      <4> QED BY ONLY <4>1, DivDiv, Zenon
    <3> QED BY <3>2, <3>3, <3>4
  <2>4. T(k) = D(k)
    BY <1>0, <2>0
  <2> HIDE DEF T, D, x, S
  <2>5. x = Base * (x \div Base) + (x % Base) /\ x \div Base \in Int
    BY <1>0, <2>2, DivMod
  <2>6. x = (x \div Base) * Base + (x % Base)
    BY <1>0, <2>2, <2>5
  <2> QED BY <2>1, <2>2, <2>3, <2>4, <2>6 DEF x
<1>7. S = Nat
  <2> HIDE DEF S
  <2>1. S \in SUBSET Nat
    BY DEF S
  <2> QED BY <1>5, <1>6, <2>1, SetInduction
<1>8. T(z) = D(z)
  <2> HIDE DEF T, D
  <2>1. z \in S
    BY ONLY <1>7, z \in Nat
  <2> QED BY ONLY <2>1, z \in Nat
<1>9. D(z) = v
  <2>1. z - z = 0 /\ Power(Base, 0) = 1
    BY <1>0, PowerZero
  <2>2. v \div 1 = v
    OBVIOUS
  <2> QED BY <2>1, <2>2
<1>10. SubSeq(s, 1, z) = s
  BY SubSeqFull
<1> QED BY <1>8, <1>9, <1>10

-----------------------------------------------------------------------------
(***************************************************************************)
(* hash_to_field.rs: the reduction of six limbs.                           *)
(***************************************************************************)
\* Nor does reducing a factor first change the reduced product (Montgomery
\* multiplication in the hash to field).
LEMMA ModMul ==
    ASSUME NEW m \in Nat, m > 0, NEW x \in Int, NEW y \in Int
    PROVE  ((x % m) * y) % m = (x * y) % m
<1> DEFINE z == x % m
           a == x \div m
           u == (z * y) % m
           v == (x * y) % m
           d == (z * y) \div m
           k == (x * y) \div m
<1>1. x = m * a + z /\ a \in Int /\ z \in Int
  BY DivMod
<1> HIDE DEF z, a
<1>2. z * y \in Int /\ x * y \in Int /\ a * y \in Int
  BY <1>1
<1>3. z * y = m * d + u /\ d \in Int /\ u \in Int /\ 0 <= u /\ u < m
  BY <1>2, DivMod
<1>4. x * y = m * k + v /\ k \in Int /\ v \in Int /\ 0 <= v /\ v < m
  BY <1>2, DivMod
<1> HIDE DEF u, v, d, k
<1>5. x * y = m * (a * y) + z * y
  BY <1>1
<1> DEFINE q == a * y + d - k
<1>6. q \in Int /\ v = m * q + u
  <2> DEFINE g == a * y
  <2>0. g \in Int BY <1>2
  <2> HIDE DEF g
  <2>1. m * q = m * g + m * d - m * k BY <1>3, <1>4, <2>0 DEF g
  <2>2. x * y = m * g + z * y BY <1>5 DEF g
  <2>3. q \in Int BY <1>3, <1>4, <2>0 DEF g
  <2> HIDE DEF q
  <2> QED BY <1>2, <1>3, <1>4, <2>0, <2>1, <2>2, <2>3
<1> HIDE DEF q
<1>7. v = u
  BY <1>3, <1>4, <1>6, RemainderUnique
<1> QED BY <1>7 DEF u, v, z

\* The Montgomery product of a plain number and the Montgomery form of 2^192
\* is the plain product (the comment of reduce_be_l48).
LEMMA MontgomeryShifts ==
    ASSUME NEW h \in Nat
    PROVE  MontMul(h, TWO_POW_192) = (h * (Radix * Radix * Radix)) % r
<1> DEFINE p == Radix * Radix * Radix
           q == (Radix * Radix * Radix * Radix) % r
           a == p * q
           t == a % r
           u == h * t
           c == h * RInv
           d == h * p
           k == q * RInv
<1>1. r \in Nat /\ r > 0 /\ RInv \in Nat /\ p \in Nat /\ q \in Nat
      /\ (q * RInv) % r = 1
  <2>1. r \in Nat /\ RInv \in Nat /\ Radix \in Nat /\ p < r /\ (q * RInv) % r = 1
    BY FieldAssumption
  <2>2. Radix * Radix \in Nat BY <2>1
  <2>3. p \in Nat BY <2>1, <2>2
  <2>4. Radix * Radix * Radix * Radix \in Nat BY <2>1, <2>3
  <2>5. r > 0 BY <2>1, <2>3
  <2>6. q \in Int /\ 0 <= q BY <2>1, <2>4, <2>5, DivMod
  <2>7. q \in Nat BY <2>6
  <2> QED BY <2>1, <2>3, <2>5, <2>7
<1>2. MontMul(h, TWO_POW_192) = ((u % r) * RInv) % r
  BY DEF MontMul, TWO_POW_192
<1> HIDE DEF p, q
<1>3. a \in Int /\ c \in Int /\ d \in Int /\ k \in Int /\ k % r = 1
  BY <1>1
<1>4. t \in Int
  BY <1>1, <1>3, DivMod
<1>5. u \in Int /\ u * RInv = t * c
  <2> HIDE DEF t
  <2> QED BY <1>1, <1>4
<1>6. a * c = k * d
  <2>1. a * c = (p * (q * h)) * RInv BY <1>1
  <2>2. k * d = (q * (h * p)) * RInv BY <1>1
  <2>3. p * (q * h) = q * (h * p) BY <1>1
  <2> QED BY <2>1, <2>2, <2>3
<1> HIDE DEF a, c, d, k, u
<1>7. ((u % r) * RInv) % r = (u * RInv) % r
  <2>1. r \in Nat /\ r > 0 /\ RInv \in Int /\ u \in Int BY <1>1, <1>5
  <2> QED BY ONLY <2>1, ModMul
<1>8. ((a % r) * c) % r = (a * c) % r
  BY ONLY <1>1, <1>3, ModMul
<1>9. ((k % r) * d) % r = (k * d) % r
  BY ONLY <1>1, <1>3, ModMul
<1>10. (k % r) * d = d
  BY <1>3
<1>11. ((u % r) * RInv) % r = d % r
  BY <1>5, <1>6, <1>7, <1>8, <1>9, <1>10
<1> QED BY <1>2, <1>11 DEF d, p

\* Three limbs make a number below 2^192.
LEMMA HalfBound ==
    ASSUME NEW x \in 0 .. Radix - 1, NEW y \in 0 .. Radix - 1,
           NEW z \in 0 .. Radix - 1
    PROVE  /\ x + y * Radix + z * Radix * Radix \in Nat
           /\ x + y * Radix + z * Radix * Radix < Radix * Radix * Radix
<1>1. Radix \in Nat /\ x \in Nat /\ y \in Nat /\ z \in Nat
  BY FieldAssumption
<1> DEFINE s == Radix * Radix
<1>2. s \in Nat /\ y * Radix \in Nat
  BY <1>1
<1>3. y * Radix <= s - Radix
  <2>1. (Radix - 1 - y) * Radix >= 0 BY <1>1
  <2> QED BY <1>1, <2>1
<1>4. z * s <= Radix * s - s /\ z * s \in Nat
  <2> HIDE DEF s
  <2>1. (Radix - 1 - z) * s >= 0 BY <1>1, <1>2
  <2>2. (Radix - 1 - z) * s = Radix * s - s - z * s BY <1>1, <1>2
  <2>3. z * s \in Nat /\ Radix * s \in Nat BY <1>1, <1>2
  <2> QED BY <1>2, <2>1, <2>2, <2>3
<1>5. z * Radix * Radix = z * s /\ Radix * Radix * Radix = Radix * s
  BY <1>1
<1>6. x < Radix
  BY <1>1
<1> HIDE DEF s
<1>7. /\ x + y * Radix + z * s \in Nat
      /\ x + y * Radix + z * s < Radix * s
  <2>1. Radix * s \in Nat BY <1>1, <1>2
  <2> QED BY <1>1, <1>2, <1>3, <1>4, <1>6, <2>1
<1> QED BY <1>5, <1>7

\* reduce_be_l48: for any six limbs the result is the canonical representative
\* of the number they make.
THEOREM ReduceIsRemainder ==
    ASSUME NEW l0 \in 0 .. Radix - 1, NEW l1 \in 0 .. Radix - 1,
           NEW l2 \in 0 .. Radix - 1, NEW h0 \in 0 .. Radix - 1,
           NEW h1 \in 0 .. Radix - 1, NEW h2 \in 0 .. Radix - 1
    PROVE  /\ reduce_limbs(l0, l1, l2, h0, h1, h2) \in 0 .. r - 1
           /\ reduce_limbs(l0, l1, l2, h0, h1, h2)
                 = ((h0 + h1 * Radix + h2 * Radix * Radix) * (Radix * Radix * Radix)
                    + (l0 + l1 * Radix + l2 * Radix * Radix)) % r
<1> DEFINE h == h0 + h1 * Radix + h2 * Radix * Radix
           l == l0 + l1 * Radix + l2 * Radix * Radix
           p == Radix * Radix * Radix
           x == MontMul(h, TWO_POW_192)
<1>1. h \in Nat /\ l \in Nat /\ l < p
  BY HalfBound
<1>2. p \in Nat /\ r \in Nat /\ p < r /\ r > 0
  <2>1. r \in Nat /\ Radix \in Nat /\ p < r BY FieldAssumption
  <2>2. Radix * Radix \in Nat BY <2>1
  <2> QED BY <2>1, <2>2
<1>3. x = (h * p) % r
  BY <1>1, MontgomeryShifts
<1>4. reduce_limbs(l0, l1, l2, h0, h1, h2) = FrAdd(x, l)
  BY DEF reduce_limbs
<1> HIDE DEF h, l, p, x
<1>5. h * p \in Nat
  BY <1>1, <1>2
<1>6. x \in Int /\ 0 <= x /\ x < r
  BY <1>2, <1>3, <1>5, DivMod
<1>7. FrAdd(x, l) \in 0 .. r - 1 /\ FrAdd(x, l) = (h * p + l) % r
  <2> DEFINE a == h * p
             f == FrAdd(x, l)
             v == (a + l) % r
             k == a \div r
             q == (a + l) \div r
  <2>1. a \in Int /\ a + l \in Int
    BY <1>1, <1>5
  <2>2. a = r * k + x /\ k \in Int
    <3>1. x = a % r BY <1>3
    <3> HIDE DEF a
    <3> QED BY <1>2, <2>1, <3>1, DivMod
  <2> HIDE DEF a
  <2>3. a + l = r * q + v /\ q \in Int /\ v \in Int /\ 0 <= v /\ v < r
    BY <1>2, <2>1, DivMod
  <2>4. f \in Int /\ 0 <= f /\ f < r /\ (x + l = f \/ x + l = r + f)
    BY <1>1, <1>2, <1>6 DEF FrAdd
  <2> HIDE DEF f, v, q, k
  <2>5. CASE x + l = f
    <3>1. r * (q - k) = r * q - r * k BY <1>2, <2>2, <2>3
    <3>2. f = r * (q - k) + v BY <1>1, <1>2, <1>6, <2>1, <2>2, <2>3, <2>4, <2>5, <3>1
    <3>3. f = v BY <1>2, <2>2, <2>3, <2>4, <3>2, RemainderUnique
    <3> QED BY <1>2, <2>4, <3>3 DEF a, f, v
  <2>6. CASE x + l = r + f
    <3>1. r * (q - k - 1) = r * q - r * k - r BY <1>2, <2>2, <2>3
    <3>2. f = r * (q - k - 1) + v BY <1>1, <1>2, <1>6, <2>1, <2>2, <2>3, <2>4, <2>6, <3>1
    <3>3. f = v BY <1>2, <2>2, <2>3, <2>4, <3>2, RemainderUnique
    <3> QED BY <1>2, <2>4, <3>3 DEF a, f, v
  <2> QED BY <2>4, <2>5, <2>6
<1> QED BY <1>4, <1>7 DEF h, l, p

-----------------------------------------------------------------------------
(***************************************************************************)
(* hash_to_field.rs: from 48 bytes to limbs, and from a number to its bytes.*)
(***************************************************************************)
\* Each limb has W bytes, and so one of Radix values.
LEMMA LimbSplits ==
    ASSUME NEW s \in Seq(Byte), Len(s) = L, NEW i \in 0 .. 5
    PROVE  /\ Limb(s, 5 - i) \in 0 .. Radix - 1
           /\ BeValue(SubSeq(s, 1, W * i)) \in Nat
           /\ BeValue(SubSeq(s, 1, W * (i + 1)))
                 = BeValue(SubSeq(s, 1, W * i)) * Radix + Limb(s, 5 - i)
<1> DEFINE a == W * i
<1>1. /\ W \in Nat /\ W > 0 /\ a \in Nat /\ L = 6 * W /\ W * (i + 1) = a + W
      /\ a + W <= L /\ Radix \in Nat /\ Radix = Power(Base, W)
      /\ 6 * W - W * ((5 - i) + 1) = a /\ 6 * W - W * (5 - i) = a + W
  <2>1. W \in Nat /\ W > 0 /\ Radix \in Nat /\ Radix = Power(Base, W)
    BY BaseAssumption, SizesAssumption, FieldAssumption
  <2>2. L = 6 * W
    BY <2>1 DEF L, HALF_L
  <2>3. i = 0 \/ i = 1 \/ i = 2 \/ i = 3 \/ i = 4 \/ i = 5
    OBVIOUS
  <2> QED BY <2>1, <2>2, <2>3
<1> DEFINE u == SubSeq(s, a + 1, a + W)
<1>2. Limb(s, 5 - i) = BeValue(u)
  <2>1. Len(s) - W * ((5 - i) + 1) + 1 = a + 1 /\ Len(s) - W * (5 - i) = a + W
    BY <1>1
  <2> QED BY <2>1 DEF Limb
<1>3. u \in Seq(Byte) /\ Len(u) = W
  <2> HIDE DEF a
  <2>1. \A k \in a + 1 .. a + W : s[k] \in Byte
    BY <1>1
  <2>2. a + 1 \in Int /\ a + W \in Int /\ a + 1 <= a + W /\ (a + W) - (a + 1) + 1 = W
    BY <1>1
  <2>3. /\ SubSeq(s, a + 1, a + W) \in Seq(Byte)
        /\ Len(SubSeq(s, a + 1, a + W))
              = IF a + 1 <= a + W THEN (a + W) - (a + 1) + 1 ELSE 0
    BY <2>1, <2>2, SubSeqProperties
  <2> QED BY <2>2, <2>3
<1> HIDE DEF u
<1>4. BeValue(u) \in Nat /\ BeValue(u) < Radix
  BY <1>1, <1>3, BeBound
<1>5. /\ BeValue(SubSeq(s, 1, a)) \in Nat
      /\ BeValue(SubSeq(s, 1, a + W)) = BeValue(SubSeq(s, 1, a)) * Radix + BeValue(u)
  <2> HIDE DEF a
  <2>1. /\ BeValue(SubSeq(s, 1, a)) \in Nat
        /\ BeValue(SubSeq(s, 1, a + W))
              = BeValue(SubSeq(s, 1, a)) * Power(Base, W)
                + BeValue(SubSeq(s, a + 1, a + W))
    <3>1. a \in Nat /\ W \in Nat /\ a + W <= Len(s)
      BY <1>1
    <3> QED BY ONLY <3>1, s \in Seq(Byte), BeSplit
  <2> QED BY <1>1, <2>1 DEF u
<1> QED BY <1>1, <1>2, <1>4, <1>5

\* The whole number is the one its limbs make.
LEMMA LimbsMakeValue ==
    ASSUME NEW s \in Seq(Byte), Len(s) = L
    PROVE  BeValue(s) =
              (Limb(s, 3) + Limb(s, 4) * Radix + Limb(s, 5) * Radix * Radix)
                 * (Radix * Radix * Radix)
              + (Limb(s, 0) + Limb(s, 1) * Radix + Limb(s, 2) * Radix * Radix)
<1> DEFINE P(k)  == BeValue(SubSeq(s, 1, W * k))
           l(k)  == Limb(s, k)
           Sq    == Radix * Radix
           Cube  == Radix * Radix * Radix
<1>1. \A i \in 0 .. 5 : P(i + 1) = P(i) * Radix + l(5 - i) /\ l(5 - i) \in Nat
  <2> TAKE i \in 0 .. 5
  <2>1. /\ Limb(s, 5 - i) \in 0 .. Radix - 1
        /\ BeValue(SubSeq(s, 1, W * (i + 1)))
              = BeValue(SubSeq(s, 1, W * i)) * Radix + Limb(s, 5 - i)
    BY LimbSplits
  <2> QED BY <2>1
<1>2. W \in Nat /\ Radix \in Nat /\ L = 6 * W
  BY BaseAssumption, SizesAssumption, FieldAssumption DEF L, HALF_L
<1>3. P(0) = 0
  <2>1. W * 0 = 0 /\ SubSeq(s, 1, 0) = <<>>
    BY <1>2, SubSeqEmpty
  <2> QED BY <2>1, BeEmpty
<1>4. P(6) = BeValue(s)
  <2>1. W * 6 = Len(s)
    BY <1>2
  <2>2. SubSeq(s, 1, Len(s)) = s
    BY SubSeqFull
  <2> QED BY <2>1, <2>2
<1>5. /\ l(0) \in Nat /\ l(1) \in Nat /\ l(2) \in Nat
      /\ l(3) \in Nat /\ l(4) \in Nat /\ l(5) \in Nat
      /\ P(1) = P(0) * Radix + l(5) /\ P(2) = P(1) * Radix + l(4)
      /\ P(3) = P(2) * Radix + l(3) /\ P(4) = P(3) * Radix + l(2)
      /\ P(5) = P(4) * Radix + l(1) /\ P(6) = P(5) * Radix + l(0)
  <2> HIDE DEF P, l
  <2> QED BY <1>1
<1> HIDE DEF P, l
<1>6. Sq \in Nat /\ Cube \in Nat /\ Cube = Sq * Radix
  BY <1>2
<1>7. \A x, y, z, a \in Nat :
         ((a * Radix + x) * Radix + y) * Radix + z
            = a * Cube + (z + y * Radix + x * Sq)
  <2> TAKE x, y, z, a \in Nat
  <2>1. (a * Radix + x) * Radix = a * Sq + x * Radix
    BY <1>2
  <2> HIDE DEF Sq, Cube
  <2>2. (a * Sq + x * Radix + y) * Radix = a * (Sq * Radix) + (x * Radix) * Radix + y * Radix
    BY <1>2, <1>6
  <2>3. (x * Radix) * Radix = x * Sq
    BY <1>2 DEF Sq
  <2> QED BY <1>2, <1>6, <2>1, <2>2, <2>3
<1> DEFINE h == l(3) + l(4) * Radix + l(5) * Sq
<1>8. P(3) = h /\ h \in Nat
  <2>1. P(3) = ((0 * Radix + l(5)) * Radix + l(4)) * Radix + l(3)
    BY <1>3, <1>5
  <2>2. P(3) = 0 * Cube + h
    <3> HIDE DEF Sq, Cube
    <3> QED BY <1>5, <1>7, <2>1
  <2>3. h \in Nat
    <3> HIDE DEF Sq
    <3>1. l(4) * Radix \in Nat /\ l(5) * Sq \in Nat
      BY <1>2, <1>5, <1>6
    <3> QED BY <1>5, <3>1
  <2> QED BY <1>6, <2>2, <2>3
<1>9. P(6) = h * Cube + (l(0) + l(1) * Radix + l(2) * Sq)
  <2>1. P(6) = ((P(3) * Radix + l(2)) * Radix + l(1)) * Radix + l(0)
    BY <1>5
  <2> HIDE DEF Sq, Cube, h
  <2> QED BY <1>5, <1>7, <1>8, <2>1
<1>10. l(5) * Sq = l(5) * Radix * Radix /\ l(2) * Sq = l(2) * Radix * Radix
  BY <1>2, <1>5
<1> QED BY <1>4, <1>9, <1>10 DEF l

\* What reduce_be_l48 makes of 48 bytes.
LEMMA ReducedBytes ==
    ASSUME NEW s \in Seq(Byte), Len(s) = L
    PROVE  reduce_be_l48(s) \in 0 .. r - 1 /\ reduce_be_l48(s) = BeValue(s) % r
<1>1. \A i \in 0 .. 5 : Limb(s, 5 - i) \in 0 .. Radix - 1
  BY LimbSplits
<1>2. \A j \in 0 .. 5 : Limb(s, j) \in 0 .. Radix - 1
  <2> TAKE j \in 0 .. 5
  <2>1. 5 - j \in 0 .. 5 /\ 5 - (5 - j) = j
    OBVIOUS
  <2> QED BY <1>1, <2>1
<1> DEFINE l0 == Limb(s, 0)
           l1 == Limb(s, 1)
           l2 == Limb(s, 2)
           h0 == Limb(s, 3)
           h1 == Limb(s, 4)
           h2 == Limb(s, 5)
<1>3. /\ l0 \in 0 .. Radix - 1 /\ l1 \in 0 .. Radix - 1 /\ l2 \in 0 .. Radix - 1
      /\ h0 \in 0 .. Radix - 1 /\ h1 \in 0 .. Radix - 1 /\ h2 \in 0 .. Radix - 1
  BY <1>2
<1>4. reduce_be_l48(s) = reduce_limbs(l0, l1, l2, h0, h1, h2)
  BY DEF reduce_be_l48
<1>5. BeValue(s) = (h0 + h1 * Radix + h2 * Radix * Radix) * (Radix * Radix * Radix)
                   + (l0 + l1 * Radix + l2 * Radix * Radix)
  BY LimbsMakeValue
<1> HIDE DEF l0, l1, l2, h0, h1, h2
<1>6. /\ reduce_limbs(l0, l1, l2, h0, h1, h2) \in 0 .. r - 1
      /\ reduce_limbs(l0, l1, l2, h0, h1, h2)
            = ((h0 + h1 * Radix + h2 * Radix * Radix) * (Radix * Radix * Radix)
               + (l0 + l1 * Radix + l2 * Radix * Radix)) % r
  BY ONLY <1>3, ReduceIsRemainder
<1> QED BY <1>4, <1>5, <1>6

\* The powers of Radix that four limbs need, as powers of Base.
LEMMA RadixPower ==
    /\ \A i \in 0 .. 3 : Power(Radix, i) = Power(Base, W * i)
    /\ Radix * Radix * Radix * Radix = Power(Base, W * 4)
<1>0. /\ Base \in Nat /\ W \in Nat /\ Radix \in Nat /\ Radix = Power(Base, W)
      /\ \A k \in Nat : Power(Base, k) \in Nat
  BY BaseAssumption, SizesAssumption, FieldAssumption, PowerStep
<1>1. ASSUME NEW i \in Nat
      PROVE  Power(Base, W * (i + 1)) = Radix * Power(Base, W * i)
  <2> DEFINE a == W * i
  <2>1. a \in Nat /\ W * (i + 1) = a + W
    BY <1>0
  <2> HIDE DEF a
  <2>2. Power(Base, a + W) = Power(Base, a) * Power(Base, W)
    BY ONLY <1>0, <2>1, PowerAdd
  <2> QED BY <1>0, <2>1, <2>2 DEF a
<1>2. W * 0 = 0 /\ Power(Base, 0) = 1 /\ Power(Radix, 0) = 1
  BY <1>0, PowerZero
<1>3. \A i \in Nat : Power(Radix, i) \in Nat /\ Power(Radix, i + 1) = Radix * Power(Radix, i)
  BY <1>0, PowerStep
<1> DEFINE A(i) == Power(Base, W * i)
           B(i) == Power(Radix, i)
<1>4. A(0) = 1 /\ B(0) = 1
  BY <1>2
<1>5. \A i \in Nat : A(i + 1) = Radix * A(i) /\ B(i + 1) = Radix * B(i)
  BY <1>1, <1>3
<1> HIDE DEF A, B
<1>6. A(1) = Radix /\ B(1) = Radix
  <2>1. A(0 + 1) = Radix * A(0) /\ B(0 + 1) = Radix * B(0)
    BY <1>5
  <2> QED BY <1>0, <1>4, <2>1
<1>7. A(2) = Radix * Radix /\ B(2) = Radix * Radix
  <2>1. A(1 + 1) = Radix * A(1) /\ B(1 + 1) = Radix * B(1)
    BY <1>5
  <2> QED BY <1>6, <2>1
<1>8. A(3) = Radix * (Radix * Radix) /\ B(3) = Radix * (Radix * Radix)
  <2>1. A(2 + 1) = Radix * A(2) /\ B(2 + 1) = Radix * B(2)
    BY <1>5
  <2> QED BY <1>7, <2>1
<1>9. A(4) = Radix * (Radix * (Radix * Radix))
  <2>1. A(3 + 1) = Radix * A(3)
    BY <1>5
  <2> QED BY <1>8, <2>1
<1>10. Radix * (Radix * (Radix * Radix)) = Radix * Radix * Radix * Radix
  <2> DEFINE c == Radix * Radix
  <2>1. c \in Nat /\ Radix * c = c * Radix
    BY <1>0
  <2>2. Radix * (c * Radix) = (c * Radix) * Radix
    <3> HIDE DEF c
    <3> QED BY <1>0, <2>1
  <2> QED BY <2>1, <2>2
<1>11. \A i \in 0 .. 3 : B(i) = A(i)
  <2> TAKE i \in 0 .. 3
  <2>1. i = 0 \/ i = 1 \/ i = 2 \/ i = 3
    OBVIOUS
  <2> QED BY <1>4, <1>6, <1>7, <1>8, <2>1
<1>12. Radix * Radix * Radix * Radix = A(4)
  BY <1>9, <1>10
<1> QED BY <1>11, <1>12 DEF A, B

\* Each byte that is written is a digit of the number to the base Base.
LEMMA WrittenByte ==
    ASSUME NEW v \in Nat, NEW k \in 1 .. 4 * W
    PROVE  ToBytesBe(v)[k] = (v \div Power(Base, 4 * W - k)) % Base
<1> DEFINE i == (k - 1) \div W
           j == (k - 1) % W
           e == W - 1 - j
           t == W * (3 - i)
           c == Power(Base, j)
           p == Power(Base, e)
           g == Power(Base, t)
<1>0. /\ Base \in Nat /\ Base > 0 /\ W \in Nat /\ W > 0 /\ k \in Int
      /\ \A y \in Nat : Power(Base, y) \in Nat /\ Power(Base, y) > 0
      /\ Radix \in Nat /\ Radix = Power(Base, W)
  <2>1. /\ Base \in Nat /\ Base > 0 /\ W \in Nat /\ W > 0
        /\ Radix \in Nat /\ Radix = Power(Base, W)
    BY BaseAssumption, SizesAssumption, FieldAssumption
  <2>2. \A y \in Nat : Power(Base, y) \in Nat /\ Power(Base, y) > 0
    BY ONLY <2>1, PowerPositive
  <2> QED BY <2>1, <2>2
<1>1. k - 1 = W * i + j /\ i \in Int /\ j \in Int /\ 0 <= j /\ j < W
  BY <1>0, DivMod
<1>2. i \in 0 .. 3
  <2> HIDE DEF i, j
  <2>1. CASE i <= -1
    <3>1. W * i <= -W BY <1>0, <1>1, <2>1
    <3> QED BY <1>0, <1>1, <3>1
  <2>2. CASE i >= 4
    <3>1. W * i >= 4 * W BY <1>0, <1>1, <2>2
    <3> QED BY <1>0, <1>1, <3>1
  <2> QED BY <1>1, <2>1, <2>2
<1>3. j \in Nat /\ e \in Nat /\ t \in Nat /\ 4 * W - k = t + e /\ W = e + (j + 1)
  <2> HIDE DEF i, j
  <2>1. i = 0 \/ i = 1 \/ i = 2 \/ i = 3
    BY <1>2
  <2> QED BY <1>0, <1>1, <2>1
<1>4. ToBytesBe(v)[k] = (((v \div g) % Radix) \div p) % Base
  <2>1. 3 - i \in 0 .. 3
    BY <1>2
  <2>2. Power(Radix, 3 - i) = g
    <3> HIDE DEF i
    <3> QED BY <2>1, RadixPower
  <2>3. ToBytesBe(v)[k] =
           (((v \div Power(Radix, 3 - i)) % Radix) \div Power(Base, e)) % Base
    BY DEF ToBytesBe
  <2> QED BY <2>2, <2>3
<1> HIDE DEF i, e, t
<1>5. /\ p \in Nat /\ p > 0 /\ g \in Nat /\ g > 0 /\ c \in Nat /\ c > 0
  BY <1>0, <1>3
<1>6. Radix = p * (Base * c)
  <2>1. Power(Base, j + 1) = Base * c
    BY <1>0, <1>3, PowerStep
  <2>2. Power(Base, e + (j + 1)) = p * Power(Base, j + 1)
    <3> DEFINE f == j + 1
    <3>1. f \in Nat
      BY <1>3
    <3> HIDE DEF f
    <3>2. Power(Base, e + f) = p * Power(Base, f)
      BY ONLY <1>0, <1>3, <3>1, PowerAdd DEF p
    <3> QED BY <3>2 DEF f
  <2> QED BY <1>0, <1>3, <2>1, <2>2
<1>7. Power(Base, 4 * W - k) = g * p
  <2>1. Power(Base, t + e) = g * p
    BY <1>0, <1>3, PowerAdd
  <2> QED BY <1>3, <2>1
<1> DEFINE x == v \div g
<1> HIDE DEF j, c, p, g
<1>8. x \in Int
  BY <1>5, DivMod
<1>9. x \div p = v \div (g * p)
  BY <1>5, DivDiv DEF x
<1> HIDE DEF x
<1>10. ((x % (p * (Base * c))) \div p) % Base = (x \div p) % Base
  <2>1. p \in Nat \ {0} /\ c \in Nat \ {0} /\ Base \in Nat \ {0}
    BY <1>0, <1>5
  <2> QED BY ONLY <1>8, <2>1, DigitOfRemainder, Zenon
<1> QED BY <1>4, <1>6, <1>7, <1>9, <1>10 DEF x

\* The bytes that are written stand for the number.
LEMMA WrittenValue ==
    ASSUME NEW v \in Nat, v < Radix * Radix * Radix * Radix
    PROVE  /\ ToBytesBe(v) \in Seq(Byte) /\ Len(ToBytesBe(v)) = 4 * W
           /\ BeValue(ToBytesBe(v)) = v
<1> DEFINE s    == ToBytesBe(v)
           z    == 4 * W
           D(k) == v \div Power(Base, z - k)
<1>0. /\ Base \in Nat /\ Base > 0 /\ W \in Nat /\ W > 0 /\ z \in Nat
      /\ \A y \in Nat : Power(Base, y) \in Nat /\ Power(Base, y) > 0
  <2>1. Base \in Nat /\ Base > 0 /\ W \in Nat /\ W > 0
    BY BaseAssumption, SizesAssumption
  <2>2. \A y \in Nat : Power(Base, y) \in Nat /\ Power(Base, y) > 0
    BY ONLY <2>1, PowerPositive
  <2> QED BY <2>1, <2>2
<1>1. \A k \in 1 .. z : s[k] = D(k) % Base
  BY WrittenByte
<1>2. \A k \in 0 .. z : D(k) \in Int
  <2> TAKE k \in 0 .. z
  <2>1. Power(Base, z - k) \in Nat /\ Power(Base, z - k) > 0
    BY <1>0
  <2> QED BY <2>1, DivMod
<1>3. s \in Seq(Byte) /\ Len(s) = z
  <2>1. \A k \in 1 .. z : s[k] \in Byte
    <3> TAKE k \in 1 .. z
    <3>1. D(k) \in Int
      BY <1>0, <1>2
    <3> HIDE DEF D, s
    <3>2. D(k) % Base \in Int /\ 0 <= D(k) % Base /\ D(k) % Base < Base
      BY <1>0, <3>1, DivMod
    <3> QED BY <1>0, <1>1, <3>2 DEF Byte
  <2>2. s = [k \in 1 .. z |-> s[k]]
    BY DEF ToBytesBe
  <2> HIDE DEF s, z
  <2> QED BY <1>0, <2>1, <2>2
<1>4. v < Power(Base, z)
  <2>1. Radix * Radix * Radix * Radix = Power(Base, W * 4) /\ W * 4 = z
    BY <1>0, RadixPower
  <2> QED BY <1>3, <2>1
<1> HIDE DEF s, z
<1>6. BeValue(s) = v
  BY <1>0, <1>1, <1>3, <1>4, DigitsValue
<1> QED BY <1>3, <1>6 DEF s, z

-----------------------------------------------------------------------------
(***************************************************************************)
(* hash_to_field.rs: the pieces of a preimage.                             *)
(***************************************************************************)
\* A write behind a prefix of the buffer extends that prefix (the pattern
\* scratch[offset..offset + len].copy_from_slice(s); offset += len).
LEMMA OverwriteExtends ==
    ASSUME NEW buffer \in [1 .. MAX_SCRATCH -> Byte], NEW at \in Nat,
           NEW s \in Seq(Byte), at + Len(s) <= MAX_SCRATCH
    PROVE  /\ Overwrite(buffer, at, s) \in [1 .. MAX_SCRATCH -> Byte]
           /\ SubSeq(Overwrite(buffer, at, s), 1, at + Len(s))
                 = SubSeq(buffer, 1, at) \o s
<1> DEFINE new   == Overwrite(buffer, at, s)
           left  == SubSeq(new, 1, at + Len(s))
           old   == SubSeq(buffer, 1, at)
<1>1. Len(s) \in Nat /\ MAX_SCRATCH \in Nat /\ \A k \in 1 .. Len(s) : s[k] \in Byte
  BY BaseAssumption, SizesAssumption
<1>2. \A k \in 1 .. MAX_SCRATCH :
         new[k] = IF at < k /\ k <= at + Len(s) THEN s[k - at] ELSE buffer[k]
  BY DEF Overwrite
<1>3. \A k \in 1 .. MAX_SCRATCH : new[k] \in Byte
  BY <1>1, <1>2
<1>4. new \in [1 .. MAX_SCRATCH -> Byte]
  BY <1>3 DEF Overwrite
<1> HIDE DEF new
<1>5. /\ left \in Seq(Byte) /\ Len(left) = at + Len(s)
      /\ \A k \in 1 .. at + Len(s) : left[k] = new[k]
  <2>1. \A k \in 1 .. at + Len(s) : new[k] \in Byte
    BY <1>1, <1>3
  <2>2. 1 \in Int /\ at + Len(s) \in Int
    BY <1>1
  <2>3. /\ SubSeq(new, 1, at + Len(s)) \in Seq(Byte)
        /\ Len(SubSeq(new, 1, at + Len(s)))
              = IF 1 <= at + Len(s) THEN at + Len(s) - 1 + 1 ELSE 0
        /\ \A k \in 1 .. at + Len(s) - 1 + 1 :
              SubSeq(new, 1, at + Len(s))[k] = new[1 + k - 1]
    BY <2>1, <2>2, SubSeqProperties
  <2> QED BY <2>3, <1>1
<1>6. /\ old \in Seq(Byte) /\ Len(old) = at
      /\ \A k \in 1 .. at : old[k] = buffer[k]
  <2>1. \A k \in 1 .. at : buffer[k] \in Byte
    BY <1>1
  <2>2. /\ SubSeq(buffer, 1, at) \in Seq(Byte)
        /\ Len(SubSeq(buffer, 1, at)) = IF 1 <= at THEN at - 1 + 1 ELSE 0
        /\ \A k \in 1 .. at - 1 + 1 : SubSeq(buffer, 1, at)[k] = buffer[1 + k - 1]
    BY <2>1, SubSeqProperties
  <2> QED BY <2>2
<1> HIDE DEF left, old
<1>7. /\ old \o s \in Seq(Byte) /\ Len(old \o s) = at + Len(s)
      /\ \A k \in 1 .. at + Len(s) :
            (old \o s)[k] = IF k <= at THEN old[k] ELSE s[k - at]
  BY <1>6, ConcatProperties
<1>8. \A k \in 1 .. at + Len(s) : left[k] = (old \o s)[k]
  <2> TAKE k \in 1 .. at + Len(s)
  <2>1. left[k] = new[k] /\ k \in 1 .. MAX_SCRATCH BY <1>1, <1>5
  <2>2. CASE k <= at
    <3>1. new[k] = buffer[k] BY <2>1, <2>2, <1>2
    <3>2. old[k] = buffer[k] BY <2>2, <1>6
    <3> QED BY <2>1, <2>2, <3>1, <3>2, <1>7
  <2>3. CASE k > at
    <3>1. new[k] = s[k - at] BY <2>1, <2>3, <1>2
    <3> QED BY <2>1, <2>3, <3>1, <1>7
  <2>4. k <= at \/ k > at BY <1>1
  <2> QED BY <2>2, <2>3, <2>4
<1>9. left = old \o s
  BY <1>5, <1>7, <1>8, SeqEqual
<1> QED BY <1>4, <1>9 DEF left, old, new

\* The constants of the preimages are bytes.
LEMMA PieceTypes ==
    /\ L_I_B_STR \in Seq(Byte) /\ Len(L_I_B_STR) = 2
    /\ Z_pad \in Seq(Byte) /\ Len(Z_pad) = R_IN_BYTES
    /\ \A k \in 0 .. 2 : <<k>> \in Seq(Byte) /\ Len(<<k>>) = 1
    /\ B_IN_BYTES \in Nat /\ R_IN_BYTES \in Nat /\ MAX_SCRATCH \in Nat
    /\ B_IN_BYTES <= R_IN_BYTES
<1>1. L \in Nat /\ Base \in Nat /\ Base > 2
  BY BaseAssumption, SizesAssumption DEF L, HALF_L
<1>2. L \div Base \in 0 .. Base - 1 /\ L % Base \in 0 .. Base - 1
  <2>1. L = Base * (L \div Base) + (L % Base) /\ L \div Base \in Int
        /\ L % Base \in Int /\ 0 <= L % Base /\ L % Base < Base
    BY <1>1, DivMod
  <2> DEFINE q == L \div Base
             m == L % Base
  <2>2. L < Base * Base
    BY BaseAssumption, SizesAssumption
  <2>3. q \in Int /\ m \in Int /\ 0 <= m /\ m < Base /\ L = Base * q + m
    BY <2>1
  <2> HIDE DEF q, m
  <2>4. q < Base
    <3>1. CASE q >= Base
      <4>1. Base * q >= Base * Base BY <3>1, <2>3, <1>1
      <4> QED BY <4>1, <2>2, <2>3, <1>1
    <3> QED BY <3>1, <2>3, <1>1
  <2>5. q >= 0
    <3>1. CASE q <= -1
      <4>1. Base * q <= -Base BY <3>1, <2>3, <1>1
      <4> QED BY <4>1, <2>3, <1>1
    <3> QED BY <3>1, <2>3, <1>1
  <2> QED BY <2>3, <2>4, <2>5, <1>1 DEF q, m
<1>3. L_I_B_STR \in Seq(Byte) /\ Len(L_I_B_STR) = 2
  BY <1>2 DEF L_I_B_STR, Byte
<1>4. Z_pad \in Seq(Byte) /\ Len(Z_pad) = R_IN_BYTES
  BY BaseAssumption, SizesAssumption DEF Z_pad, Byte
<1>5. \A k \in 0 .. 2 : <<k>> \in Seq(Byte) /\ Len(<<k>>) = 1
  BY <1>1 DEF Byte
<1> QED BY <1>3, <1>4, <1>5, BaseAssumption, SizesAssumption

\* The tag with its length is a sequence of bytes, and the length fits a byte.
LEMMA DstPrimeType ==
    ASSUME NEW d \in Seq(Byte), Len(d) <= Base - 1
    PROVE  /\ Append(d, Len(d) % Base) = Append(d, Len(d))
           /\ Append(d, Len(d)) \in Seq(Byte)
           /\ Len(Append(d, Len(d))) = Len(d) + 1
<1>1. Len(d) \in 0 .. Base - 1 /\ Base \in Nat /\ Base > 2
  BY BaseAssumption, SizesAssumption
<1>2. Len(d) % Base = Len(d)
  <2>1. Len(d) = Base * (Len(d) \div Base) + (Len(d) % Base)
        /\ Len(d) \div Base \in Int
        /\ Len(d) % Base \in Int /\ 0 <= Len(d) % Base /\ Len(d) % Base < Base
    BY <1>1, DivMod
  <2> QED BY <1>1, <2>1, RemainderUnique
<1> QED BY <1>1, <1>2 DEF Byte

\* A digest, and the XOR of two, are sequences of B_IN_BYTES bytes.
LEMMA DigestTypes ==
    ASSUME NEW x \in Digests, NEW y \in Digests
    PROVE  /\ x \in Seq(Byte) /\ Len(x) = B_IN_BYTES
           /\ XorBytes(x, y) \in Seq(Byte) /\ Len(XorBytes(x, y)) = B_IN_BYTES
<1>1. x \in [1 .. B_IN_BYTES -> Byte] /\ y \in [1 .. B_IN_BYTES -> Byte]
      /\ B_IN_BYTES \in Nat
  BY DataAssumption, BaseAssumption, SizesAssumption
<1>2. \A k \in 1 .. B_IN_BYTES : Xor[x[k]][y[k]] \in Byte
  <2> TAKE k \in 1 .. B_IN_BYTES
  <2>1. x[k] \in Byte /\ y[k] \in Byte BY <1>1
  <2> QED BY <2>1, DataAssumption
<1>3. XorBytes(x, y) \in [1 .. B_IN_BYTES -> Byte]
  BY <1>2 DEF XorBytes
<1> QED BY <1>1, <1>3

\* What the type invariant says of the message, the tag and the buffer.
LEMMA TypeFacts ==
    ASSUME TypeOK
    PROVE  /\ msg \in Seq(Byte) /\ dst \in Seq(Byte) /\ Len(dst) <= Base - 1
           /\ DST_prime \in Seq(Byte) /\ Len(DST_prime) = Len(dst) + 1
           /\ Append(dst, Len(dst) % Base) = DST_prime
           /\ Len(msg) \in Nat /\ Len(dst) \in Nat
           /\ R_IN_BYTES + Len(msg) + 2 + 1 + (Len(dst) + 1) <= MAX_SCRATCH
           /\ Preimage \in Seq(Byte) /\ Len(Preimage) = offset
           /\ offset \in Nat /\ n \in Nat
           /\ \A k \in 1 .. n : b[k] \in Digests
<1>1. msg \in Seq(Byte) /\ dst \in Seq(Byte)
  BY DataAssumption DEF TypeOK
<1>2. Len(msg) \in Nat /\ Len(dst) \in Nat
  BY <1>1
<1>3. /\ Len(dst) <= Base - 1
      /\ R_IN_BYTES + Len(msg) + 2 + 1 + (Len(dst) + 1) <= MAX_SCRATCH
  BY DEF TypeOK, Compiles
<1>4. /\ DST_prime \in Seq(Byte) /\ Len(DST_prime) = Len(dst) + 1
      /\ Append(dst, Len(dst) % Base) = DST_prime
  BY <1>1, <1>3, DstPrimeType DEF DST_prime
<1>5. offset \in Nat /\ n \in Nat /\ offset <= MAX_SCRATCH
      /\ \A k \in 1 .. MAX_SCRATCH : scratch[k] \in Byte
  BY PieceTypes DEF TypeOK
<1>6. Preimage \in Seq(Byte) /\ Len(Preimage) = offset
  <2>1. \A k \in 1 .. offset : scratch[k] \in Byte
    BY <1>5, PieceTypes
  <2>2. /\ SubSeq(scratch, 1, offset) \in Seq(Byte)
        /\ Len(SubSeq(scratch, 1, offset))
              = IF 1 <= offset THEN offset - 1 + 1 ELSE 0
    BY <2>1, <1>5, SubSeqProperties
  <2> QED BY <2>2, <1>5 DEF Preimage
<1>7. \A k \in 1 .. n : b[k] \in Digests
  BY DEF TypeOK
<1> QED BY <1>1, <1>2, <1>3, <1>4, <1>5, <1>6, <1>7

\* What a preimage consists of before its number.
LEMMA BodyFacts ==
    ASSUME TypeOK, n <= 2
    PROVE  /\ Body \in Seq(Byte)
           /\ Len(Body) = IF n = 0 THEN R_IN_BYTES + Len(msg) + 2 ELSE B_IN_BYTES
<1>1. CASE n = 0
  <2>1. Z_pad \o msg \in Seq(Byte) /\ Len(Z_pad \o msg) = R_IN_BYTES + Len(msg)
    BY TypeFacts, PieceTypes, ConcatProperties
  <2> DEFINE front == Z_pad \o msg
  <2>2. front \in Seq(Byte) /\ Len(front) = R_IN_BYTES + Len(msg)
    BY <2>1
  <2> HIDE DEF front
  <2>3. /\ front \o L_I_B_STR \in Seq(Byte)
        /\ Len(front \o L_I_B_STR) = Len(front) + Len(L_I_B_STR)
    <3>1. L_I_B_STR \in Seq(Byte) BY PieceTypes
    <3> HIDE DEF Byte
    <3> QED BY <2>2, <3>1, ConcatProperties
  <2>4. Body = front \o L_I_B_STR
    BY <1>1 DEF Body, front
  <2> QED BY <1>1, <2>2, <2>3, <2>4, PieceTypes
<1>2. CASE n = 1
  <2>1. b[1] \in Digests BY <1>2, TypeFacts
  <2> QED BY <1>2, <2>1, DigestTypes DEF Body
<1>3. CASE n = 2
  <2>1. b[1] \in Digests /\ b[2] \in Digests BY <1>3, TypeFacts
  <2> QED BY <1>3, <2>1, DigestTypes DEF Body
<1>4. n \in {0, 1, 2} BY DEF TypeOK
<1> QED BY <1>1, <1>2, <1>3, <1>4

-----------------------------------------------------------------------------
(***************************************************************************)
(* hash_to_field.rs: the invariant.                                        *)
(***************************************************************************)
\* A write that fits extends the preimage and leaves the rest alone.
LEMMA WriteExtends ==
    ASSUME TypeOK, PreimagesMatchRfc,
           NEW s \in Seq(Byte), offset + Len(s) <= MAX_SCRATCH,
           NEW next \in {"length", "number", "dst", "hash"},
           Write(s, next)
    PROVE  /\ TypeOK' /\ PreimagesMatchRfc'
           /\ pc' = next /\ Preimage' = Preimage \o s
           /\ Body' = Body /\ DST_prime' = DST_prime
           /\ UNCHANGED <<msg, dst, n, b>>
<1>1. /\ scratch' = Overwrite(scratch, offset, s) /\ offset' = offset + Len(s)
      /\ pc' = next /\ UNCHANGED <<msg, dst, n, b, hashed>>
  BY DEF Write
<1>2. offset \in Nat /\ Len(s) \in Nat /\ MAX_SCRATCH \in Nat
  BY TypeFacts, PieceTypes
<1>3. /\ scratch' \in [1 .. MAX_SCRATCH -> Byte]
      /\ SubSeq(scratch', 1, offset + Len(s)) = SubSeq(scratch, 1, offset) \o s
  <2>1. scratch \in [1 .. MAX_SCRATCH -> Byte] BY DEF TypeOK
  <2> QED BY <1>1, <1>2, <2>1, OverwriteExtends
<1>4. offset' \in 0 .. MAX_SCRATCH
  BY <1>1, <1>2
<1>5. TypeOK'
  BY <1>1, <1>3, <1>4 DEF TypeOK, Compiles
<1>6. Body' = Body /\ DST_prime' = DST_prime
  BY <1>1 DEF Body, DST_prime, Z_pad, XorBytes
<1>7. PreimagesMatchRfc'
  BY <1>1 DEF PreimagesMatchRfc, RfcPreimage, DST_prime, Z_pad, XorBytes
<1> QED BY <1>1, <1>3, <1>5, <1>6, <1>7 DEF Preimage

LEMMA InitIInv == Init => IInv
<1> SUFFICES ASSUME Init PROVE IInv
  OBVIOUS
<1>1. 0 \in Byte /\ R_IN_BYTES \in Nat /\ MAX_SCRATCH \in Nat
  BY BaseAssumption, SizesAssumption DEF Byte
<1>2. Len(msg) \in Nat /\ Len(dst) \in Nat
  BY DataAssumption DEF Init
<1>3. R_IN_BYTES <= MAX_SCRATCH
  BY <1>1, <1>2 DEF Init, Compiles
<1>4. TypeOK
  BY <1>1, <1>3 DEF Init, TypeOK
<1>5. Preimage = Z_pad
  <2>1. Z_pad \in Seq(Byte) /\ Len(Z_pad) = R_IN_BYTES
    BY PieceTypes
  <2>2. offset = R_IN_BYTES /\ \A k \in 1 .. R_IN_BYTES : scratch[k] = 0
    BY <1>1, <1>3 DEF Init
  <2>3. /\ SubSeq(scratch, 1, offset) \in Seq(Byte)
        /\ Len(SubSeq(scratch, 1, offset))
              = IF 1 <= offset THEN offset - 1 + 1 ELSE 0
        /\ \A k \in 1 .. offset - 1 + 1 :
              SubSeq(scratch, 1, offset)[k] = scratch[1 + k - 1]
    <3>1. \A k \in 1 .. offset : scratch[k] \in Byte BY <2>2, <1>1
    <3> QED BY <3>1, <2>2, <1>1, SubSeqProperties
  <2>4. \A k \in 1 .. R_IN_BYTES : SubSeq(scratch, 1, offset)[k] = Z_pad[k]
    BY <2>2, <2>3, <1>1 DEF Z_pad
  <2>5. SubSeq(scratch, 1, offset) = Z_pad
    BY <1>1, <2>1, <2>2, <2>3, <2>4, SeqEqual
  <2> QED BY <2>5 DEF Preimage
<1>6. pc = "msg" /\ n = 0 /\ Len(hashed) = 0
  BY DEF Init
<1>7. Written = Z_pad
  BY <1>6 DEF Written
<1> QED BY <1>4, <1>5, <1>6, <1>7 DEF IInv, PreimagesMatchRfc, ResultIsRemainder

\* A step that writes fits the buffer and keeps the invariant.
LEMMA WritesKeep ==
    ASSUME IInv,
           WriteMsg \/ WriteLength \/ WriteDigest \/ WriteNumber \/ AppendDstPrime
    PROVE  IInv'
<1>1. TypeOK /\ PreimagesMatchRfc
  BY DEF IInv
<1>2. n \in {0, 1, 2, 3} /\ Len(Preimage) = offset /\ Len(msg) \in Nat
      /\ Len(dst) \in Nat /\ Preimage \in Seq(Byte)
      /\ R_IN_BYTES + Len(msg) + 2 + 1 + (Len(dst) + 1) <= MAX_SCRATCH
      /\ B_IN_BYTES \in Nat /\ R_IN_BYTES \in Nat /\ MAX_SCRATCH \in Nat
      /\ B_IN_BYTES <= R_IN_BYTES
  BY <1>1, TypeFacts, PieceTypes DEF TypeOK
<1>3. CASE WriteMsg
  <2>1. pc = "msg" /\ n = 0 /\ Preimage = Z_pad
    BY <1>3 DEF WriteMsg, IInv, Assembling, Written
  <2>2. offset + Len(msg) <= MAX_SCRATCH
    BY <1>2, <2>1, PieceTypes
  <2>3. /\ TypeOK' /\ PreimagesMatchRfc' /\ pc' = "length"
        /\ Preimage' = Z_pad \o msg /\ UNCHANGED <<msg, n>>
    BY <1>1, <1>3, <2>1, <2>2, TypeFacts, WriteExtends DEF WriteMsg
  <2>4. Written' = Z_pad \o msg
    BY <2>3 DEF Written, Z_pad
  <2> QED BY <2>1, <2>3, <2>4 DEF IInv, ResultIsRemainder
<1>4. CASE WriteLength
  <2>1. pc = "length" /\ n = 0 /\ Preimage = Z_pad \o msg
    BY <1>4 DEF WriteLength, IInv, Assembling, Written
  <2>2. Len(Z_pad \o msg) = R_IN_BYTES + Len(msg)
    BY <1>1, TypeFacts, PieceTypes, ConcatProperties
  <2>3. offset + Len(L_I_B_STR) <= MAX_SCRATCH
    BY <1>2, <2>1, <2>2, PieceTypes
  <2>4. /\ TypeOK' /\ PreimagesMatchRfc' /\ pc' = "number"
        /\ Preimage' = Preimage \o L_I_B_STR /\ Body' = Body /\ UNCHANGED n
    BY <1>1, <1>4, <2>3, PieceTypes, WriteExtends DEF WriteLength
  <2>5. Body = Preimage \o L_I_B_STR
    BY <2>1 DEF Body
  <2>6. Written' = Body'
    BY <2>4 DEF Written
  <2> QED BY <2>1, <2>4, <2>5, <2>6 DEF IInv, ResultIsRemainder
<1>5. CASE WriteDigest
  <2>1. pc = "digest" /\ n \in {1, 2} /\ Preimage = <<>>
    BY <1>5 DEF WriteDigest, IInv, Assembling, Written
  <2>2. Body \in Seq(Byte) /\ Len(Body) = B_IN_BYTES
    BY <1>1, <2>1, BodyFacts
  <2>3. Body = IF n = 1 THEN b[1] ELSE XorBytes(b[1], b[2])
    BY <2>1 DEF Body
  <2>4. offset = 0
    BY <1>2, <2>1
  <2>5. offset + Len(Body) <= MAX_SCRATCH
    BY <1>2, <2>2, <2>4
  <2>6. /\ TypeOK' /\ PreimagesMatchRfc' /\ pc' = "number"
        /\ Preimage' = Preimage \o Body /\ Body' = Body /\ UNCHANGED n
    <3>1. Write(Body, "number") BY <1>5, <2>3 DEF WriteDigest
    <3> QED BY <1>1, <2>2, <2>5, <3>1, WriteExtends
  <2>7. Preimage \o Body = Body
    BY <2>1, <2>2, ConcatEmptySeq
  <2>8. Written' = Body'
    BY <2>6 DEF Written
  <2> QED BY <2>1, <2>6, <2>7, <2>8 DEF IInv, ResultIsRemainder
<1>6. CASE WriteNumber
  <2>1. pc = "number" /\ n <= 2 /\ Preimage = Body
    BY <1>6 DEF WriteNumber, IInv, Assembling, Written
  <2>2. n \in 0 .. 2 /\ <<n>> \in Seq(Byte) /\ Len(<<n>>) = 1
    BY <1>2, <2>1, PieceTypes
  <2>3. Len(Body) <= R_IN_BYTES + Len(msg) + 2
    BY <1>1, <1>2, <2>1, BodyFacts
  <2>4. offset + Len(<<n>>) <= MAX_SCRATCH
    BY <1>2, <2>1, <2>2, <2>3
  <2>5. /\ TypeOK' /\ PreimagesMatchRfc' /\ pc' = "dst"
        /\ Preimage' = Preimage \o <<n>> /\ Body' = Body /\ UNCHANGED n
    BY <1>1, <1>6, <2>2, <2>4, WriteExtends DEF WriteNumber
  <2>6. Written' = Body' \o <<n'>>
    BY <2>5 DEF Written
  <2> QED BY <2>1, <2>5, <2>6 DEF IInv, ResultIsRemainder
<1>7. CASE AppendDstPrime
  <2>1. pc = "dst" /\ n <= 2 /\ Preimage = Body \o <<n>>
    BY <1>7 DEF AppendDstPrime, IInv, Assembling, Written
  <2>2. n \in 0 .. 2 /\ <<n>> \in Seq(Byte) /\ Len(<<n>>) = 1
    BY <1>2, <2>1, PieceTypes
  <2>3. Body \in Seq(Byte) /\ Len(Body) <= R_IN_BYTES + Len(msg) + 2
    BY <1>1, <1>2, <2>1, BodyFacts
  <2>4. Len(Body \o <<n>>) = Len(Body) + 1
    BY <2>2, <2>3, ConcatProperties
  <2>5. DST_prime \in Seq(Byte) /\ Len(DST_prime) = Len(dst) + 1
    BY <1>1, TypeFacts
  <2>6. offset + Len(DST_prime) <= MAX_SCRATCH
    BY <1>2, <2>1, <2>3, <2>4, <2>5
  <2>7. /\ TypeOK' /\ PreimagesMatchRfc' /\ pc' = "hash"
        /\ Preimage' = Preimage \o DST_prime /\ Body' = Body
        /\ DST_prime' = DST_prime /\ UNCHANGED n
    <3>1. Write(DST_prime, "hash")
      BY <1>1, <1>7, TypeFacts DEF AppendDstPrime
    <3> QED BY <1>1, <2>5, <2>6, <3>1, WriteExtends
  <2>8. Written' = Body' \o <<n'>> \o DST_prime'
    BY <2>7 DEF Written
  <2> QED BY <2>1, <2>7, <2>8 DEF IInv, ResultIsRemainder
<1> QED BY <1>3, <1>4, <1>5, <1>6, <1>7

\* Hash consumes a finished preimage and starts the next one with an empty
\* prefix, over the bytes of the last.
LEMMA HashKeeps ==
    ASSUME IInv, Hash
    PROVE  IInv'
<1>1. /\ TypeOK /\ PreimagesMatchRfc /\ pc = "hash" /\ n \in {0, 1, 2}
      /\ Preimage = Body \o <<n>> \o DST_prime
  BY DEF IInv, Hash, Assembling, Written, TypeOK
<1>2. PICK digest \in Digests : b' = Append(b, digest)
  BY DEF Hash
<1>3. /\ hashed' = Append(hashed, Preimage) /\ offset' = 0 /\ n' = n + 1
      /\ pc' = IF n = 2 THEN "output" ELSE "digest"
      /\ UNCHANGED <<msg, dst, scratch>>
  BY DEF Hash
<1>4. /\ b' \in Seq(Digests) /\ Len(b') = n + 1
      /\ \A k \in 1 .. n : b'[k] = b[k]
  BY <1>1, <1>2 DEF TypeOK
<1>5. /\ hashed' \in Seq(Seq(Byte)) /\ Len(hashed') = n + 1
      /\ \A k \in 1 .. n : hashed'[k] = hashed[k]
      /\ hashed'[n + 1] = Preimage
  <2>1. Preimage \in Seq(Byte) BY <1>1, TypeFacts
  <2>2. hashed \in Seq(Seq(Byte)) /\ Len(hashed) = n BY <1>1 DEF TypeOK
  <2> QED BY <1>3, <2>1, <2>2
<1>6. TypeOK'
  <2>1. 0 \in 0 .. MAX_SCRATCH BY PieceTypes
  <2>2. n' \in 0 .. 3 BY <1>1, <1>3
  <2>3. pc' \in {"output", "digest"} BY <1>3
  <2> QED BY <1>1, <1>3, <1>4, <1>5, <2>1, <2>2, <2>3 DEF TypeOK, Compiles
<1>7. DST_prime' = DST_prime /\ Z_pad' = Z_pad
  BY <1>3 DEF DST_prime, Z_pad
<1>8. PreimagesMatchRfc'
  <2>1. \A k \in 1 .. n : RfcPreimage(k)' = RfcPreimage(k)
    BY <1>1, <1>3, <1>4, <1>7 DEF RfcPreimage, XorBytes
  <2>2. \A k \in {1, 2, 3} : k = n + 1 => Preimage = RfcPreimage(k)'
    <3>1. n = 0 => Preimage = RfcPreimage(1)'
      BY <1>1, <1>3, <1>7 DEF RfcPreimage, Body
    <3>2. n = 1 => Preimage = RfcPreimage(2)'
      <4>1. n = 1 => b'[1] = b[1] BY <1>4
      <4>2. RfcPreimage(2)' = b'[1] \o <<1>> \o DST_prime'
        BY DEF RfcPreimage
      <4>3. n = 1 => Body = b[1]
        BY DEF Body
      <4> QED BY <1>1, <1>7, <4>1, <4>2, <4>3
    <3>3. n = 2 => Preimage = RfcPreimage(3)'
      <4>1. n = 2 => b'[1] = b[1] /\ b'[2] = b[2] BY <1>4
      <4>2. RfcPreimage(3)' = XorBytes(b[1], b[2])' \o <<2>> \o DST_prime'
        BY DEF RfcPreimage
      <4>3. n = 2 => Body = XorBytes(b[1], b[2])
        BY DEF Body
      <4>4. n = 2 => XorBytes(b[1], b[2])' = XorBytes(b[1], b[2])
        BY <4>1 DEF XorBytes
      <4> QED BY <1>1, <1>7, <4>2, <4>3, <4>4
    <3>4. \A k \in {1, 2, 3} : k = n + 1 => k - 1 = n
      BY <1>1
    <3> QED BY <1>1, <3>1, <3>2, <3>3, <3>4
  <2>3. \A k \in 1 .. n : hashed[k] = RfcPreimage(k)
    BY <1>1 DEF PreimagesMatchRfc, TypeOK
  <2>4. \A k \in 1 .. n + 1 : hashed'[k] = RfcPreimage(k)'
    <3> TAKE k \in 1 .. n + 1
    <3>1. CASE k \in 1 .. n BY <3>1, <1>5, <2>1, <2>3
    <3>2. CASE k = n + 1
      <4>1. k \in {1, 2, 3} BY <1>1, <3>2
      <4> QED BY <3>2, <4>1, <1>5, <2>2
    <3> QED BY <1>1, <3>1, <3>2
  <2> QED BY <1>5, <2>4 DEF PreimagesMatchRfc
<1>9. Preimage' = <<>>
  BY <1>3, SubSeqEmpty DEF Preimage
<1>10. pc' = "digest" => Written' = <<>>
  BY DEF Written
<1> QED BY <1>1, <1>3, <1>6, <1>8, <1>9, <1>10 DEF IInv, Assembling, ResultIsRemainder

\* The output is the first L bytes of two digests.
LEMMA OutputKeeps ==
    ASSUME IInv, Output
    PROVE  IInv'
<1>1. /\ pc' = "reduce" /\ raw' = SubSeq(b[2] \o b[3], 1, L)
      /\ UNCHANGED <<msg, dst, scratch, offset, n, b, hashed>>
  BY DEF Output
<1>2. TypeOK' /\ PreimagesMatchRfc'
  BY <1>1 DEF IInv, TypeOK, Compiles, PreimagesMatchRfc, RfcPreimage, DST_prime,
              Z_pad, XorBytes
<1>3. raw' \in Seq(Byte) /\ Len(raw') = L
  <2> DEFINE u == b[2] \o b[3]
  <2>1. b[2] \in Digests /\ b[3] \in Digests
    BY TypeFacts DEF IInv, Output
  <2>2. u \in Seq(Byte) /\ Len(u) = B_IN_BYTES + B_IN_BYTES
    <3> DEFINE x == b[2]
               y == b[3]
    <3>1. /\ x \in Seq(Byte) /\ Len(x) = B_IN_BYTES
          /\ y \in Seq(Byte) /\ Len(y) = B_IN_BYTES
      BY <2>1, DigestTypes
    <3> HIDE DEF x, y
    <3>2. x \o y \in Seq(Byte) /\ Len(x \o y) = Len(x) + Len(y)
      BY <3>1, ConcatProperties
    <3> QED BY <3>1, <3>2 DEF x, y
  <2>3. L \in Nat /\ L > 0 /\ L <= B_IN_BYTES + B_IN_BYTES /\ B_IN_BYTES \in Nat
    BY BaseAssumption, SizesAssumption DEF L, HALF_L
  <2> HIDE DEF u
  <2>4. \A k \in 1 .. L : u[k] \in Byte
    BY <2>2, <2>3
  <2>5. SubSeq(u, 1, L) \in Seq(Byte) /\ Len(SubSeq(u, 1, L)) = L
    <3> DEFINE l == L
    <3>1. l \in Nat /\ l > 0 /\ \A k \in 1 .. l : u[k] \in Byte
      BY <2>3, <2>4
    <3> HIDE DEF l
    <3>2. /\ SubSeq(u, 1, l) \in Seq(Byte)
          /\ Len(SubSeq(u, 1, l)) = IF 1 <= l THEN l - 1 + 1 ELSE 0
      BY <3>1, SubSeqProperties
    <3>3. Len(SubSeq(u, 1, l)) = l
      BY <3>1, <3>2
    <3> QED BY <3>2, <3>3 DEF l
  <2> QED BY <1>1, <2>5 DEF u
<1> QED BY <1>1, <1>2, <1>3 DEF IInv, Assembling, ResultIsRemainder

\* The reduction writes the bytes of the canonical representative.
LEMMA ReduceKeeps ==
    ASSUME IInv, Reduce
    PROVE  IInv'
<1>1. /\ pc' = "done" /\ out' = ToBytesBe(reduce_be_l48(raw))
      /\ UNCHANGED <<msg, dst, scratch, offset, n, b, hashed, raw>>
  BY DEF Reduce
<1>2. TypeOK' /\ PreimagesMatchRfc'
  BY <1>1 DEF IInv, TypeOK, Compiles, PreimagesMatchRfc, RfcPreimage, DST_prime,
              Z_pad, XorBytes
<1>3. raw \in Seq(Byte) /\ Len(raw) = L
  BY DEF IInv, Reduce
<1> DEFINE v == reduce_be_l48(raw)
<1>4. v \in 0 .. r - 1 /\ v = BeValue(raw) % r
  BY <1>3, ReducedBytes
<1> HIDE DEF v
<1>5. v \in Nat /\ v < Radix * Radix * Radix * Radix
  <2> DEFINE p == Radix * Radix * Radix * Radix
  <2>1. r \in Nat /\ r <= p
    BY FieldAssumption
  <2>2. p \in Nat
    <3>1. Radix \in Nat /\ \A x, y \in Nat : x * y \in Nat
      BY FieldAssumption
    <3> QED BY ONLY <3>1
  <2> HIDE DEF p
  <2> QED BY <1>4, <2>1, <2>2 DEF p
<1>6. Len(ToBytesBe(v)) = 4 * W /\ BeValue(ToBytesBe(v)) = v
  BY <1>5, WrittenValue
<1>7. Len(out') = 4 * W /\ BeValue(out') = BeValue(raw') % r
  BY <1>1, <1>4, <1>6 DEF v
<1> QED BY <1>1, <1>2, <1>3, <1>7 DEF IInv, Assembling, ResultIsRemainder

LEMMA NextIInv == IInv /\ [Next]_vars => IInv'
<1> SUFFICES ASSUME IInv, [Next]_vars PROVE IInv'
  OBVIOUS
<1>1. CASE UNCHANGED vars
  BY <1>1 DEF vars, IInv, TypeOK, Compiles, PreimagesMatchRfc, RfcPreimage,
              DST_prime, Z_pad, XorBytes, Assembling, Preimage, Written, Body,
              ResultIsRemainder
<1>2. CASE WriteMsg \/ WriteLength \/ WriteDigest \/ WriteNumber \/ AppendDstPrime
  BY <1>2, WritesKeep
<1>3. CASE Hash BY <1>3, HashKeeps
<1>4. CASE Output BY <1>4, OutputKeeps
<1>5. CASE Reduce BY <1>5, ReduceKeeps
<1> QED BY <1>1, <1>2, <1>3, <1>4, <1>5 DEF Next

\* The scratch buffer always starts with as much of the preimage as has been
\* written, whatever earlier preimages left behind it.
THEOREM InductiveInvariant == Spec => []IInv
<1> QED BY InitIInv, NextIInv, PTL DEF Spec

\* SHA-256 is given the three preimages of RFC 9380, for every message and tag
\* that the compile-time assertions let through.
THEOREM PreimagesAreRfc == Spec => []PreimagesMatchRfc
<1>1. IInv => PreimagesMatchRfc
  BY DEF IInv
<1> QED BY <1>1, InductiveInvariant, PTL

\* The compile-time assertions are enough: no slice of the buffer is out of
\* range.
THEOREM NoPanic == Spec => []NeverPanics
<1>1. IInv => NeverPanics
  BY DEF IInv, TypeOK, NeverPanics
<1> QED BY <1>1, InductiveInvariant, PTL

\* The result is the canonical representative of the 48-byte number modulo r,
\* in big-endian bytes, for every digest SHA-256 may answer with: the field
\* element that Groth16Statement takes the hash for.
THEOREM ResultIsCanonical == Spec => []ResultIsRemainder
<1>1. IInv => ResultIsRemainder
  BY DEF IInv
<1> QED BY <1>1, InductiveInvariant, PTL

-----------------------------------------------------------------------------
(***************************************************************************)
(* circom.rs: the bytes of one coordinate.                                 *)
(***************************************************************************)
\* What the powers of Base are.
LEMMA BasePower ==
    /\ Base \in Nat /\ Base > 1
    /\ \A k \in Nat : /\ Power(Base, k) \in Nat /\ Power(Base, k) > 0
                      /\ Power(Base, k + 1) = Base * Power(Base, k)
<1>1. Base \in Nat /\ Base > 1 /\ Base > 0
  BY BaseAssumption
<1>2. \A k \in Nat : Power(Base, k) \in Nat /\ Power(Base, k) > 0
  BY ONLY <1>1, PowerPositive
<1>3. \A k \in Nat : Power(Base, k + 1) = Base * Power(Base, k)
  BY ONLY <1>1, PowerStep
<1> QED BY <1>1, <1>2, <1>3

\* A number is below the power of Base with itself as the exponent.
LEMMA PowerExceeds == \A k \in Nat : k < Power(Base, k)
<1> DEFINE S == {k \in Nat : k < Power(Base, k)}
<1>1. 0 \in S
  BY BasePower
<1>2. ASSUME NEW k \in S PROVE k + 1 \in S
  <2> DEFINE p == Power(Base, k)
  <2>1. k \in Nat /\ k < p /\ p \in Nat /\ Power(Base, k + 1) = Base * p
    BY BasePower
  <2> HIDE DEF p
  <2>2. Base * p >= 2 * p
    <3>1. (Base - 2) * p >= 0 /\ (Base - 2) * p = Base * p - 2 * p
      BY ONLY <2>1, BasePower
    <3> QED BY ONLY <2>1, <3>1, BasePower
  <2>3. k + 1 < Base * p
    <3> DEFINE q == Base * p
    <3>1. q \in Nat /\ q >= 2 * p
      BY ONLY <2>1, <2>2, BasePower
    <3> HIDE DEF q
    <3>2. k + 1 < q
      BY ONLY <2>1, <3>1
    <3> QED BY <3>2 DEF q
  <2> QED BY <2>1, <2>3
<1>3. S = Nat
  <2> HIDE DEF S
  <2>1. S \in SUBSET Nat
    BY DEF S
  <2> QED BY <1>1, <1>2, <2>1, SetInduction
<1> QED BY <1>3

\* The digits of a number below a power of Base are those of its remainder.
LEMMA ResidueDigits ==
    ASSUME NEW v \in Nat, NEW z \in Nat, NEW k \in 1 .. z
    PROVE  ((v % Power(Base, z)) \div Power(Base, z - k)) % Base
              = (v \div Power(Base, z - k)) % Base
<1> DEFINE p == Power(Base, z - k)
           c == Power(Base, k - 1)
<1>1. z - k \in Nat /\ k - 1 \in Nat /\ (k - 1) + 1 = k /\ (z - k) + k = z
      /\ k \in Nat
  OBVIOUS
<1>2. p \in Nat \ {0} /\ c \in Nat \ {0} /\ Base \in Nat \ {0} /\ v \in Int
      /\ Power(Base, k) = Base * c
  <2>1. Power(Base, (k - 1) + 1) = Base * Power(Base, k - 1)
    BY ONLY <1>1, BasePower
  <2>2. p \in Nat \ {0} /\ c \in Nat \ {0} /\ Base \in Nat \ {0}
    BY ONLY <1>1, BasePower DEF p, c
  <2> QED BY <1>1, <2>1, <2>2
<1>3. Power(Base, z) = p * (Base * c)
  <2>1. Power(Base, (z - k) + k) = Power(Base, z - k) * Power(Base, k)
    BY ONLY <1>1, BasePower, PowerAdd
  <2> QED BY <1>1, <1>2, <2>1
<1> HIDE DEF p, c
<1>4. ((v % (p * (Base * c))) \div p) % Base = (v \div p) % Base
  BY ONLY <1>2, DigitOfRemainder, Zenon
<1> QED BY <1>3, <1>4 DEF p

\* A digit is a byte.
LEMMA DigitIsByte ==
    ASSUME NEW v \in Nat, NEW k \in Nat
    PROVE  (v \div Power(Base, k)) % Base \in Byte
<1> DEFINE p == Power(Base, k)
           x == v \div p
<1>1. p \in Nat /\ p > 0 /\ Base \in Nat /\ Base > 0 /\ v \in Int
  BY BasePower
<1> HIDE DEF p
<1>2. x \in Int
  BY <1>1, DivMod
<1> HIDE DEF x
<1>3. x % Base \in Int /\ 0 <= x % Base /\ x % Base < Base
  BY <1>1, <1>2, DivMod
<1>4. x % Base \in Byte
  BY <1>1, <1>3 DEF Byte
<1> QED BY <1>4 DEF x, p

\* So many digits of a number stand for the number up to multiples of the
\* power of Base.
LEMMA BytesOfNumber ==
    ASSUME NEW s \in Seq(Byte), NEW z \in Nat, Len(s) = z, NEW v \in Nat,
           \A k \in 1 .. z : s[k] = (v \div Power(Base, z - k)) % Base
    PROVE  BeValue(s) = v % Power(Base, z)
<1> DEFINE g == Power(Base, z)
           u == v % g
<1>1. g \in Nat /\ g > 0 /\ v \in Int
  BY BasePower
<1>2. \A k \in 1 .. z : (u \div Power(Base, z - k)) % Base
                           = (v \div Power(Base, z - k)) % Base
  BY ResidueDigits, Zenon
<1>3. \A k \in 1 .. z : s[k] = (u \div Power(Base, z - k)) % Base
  <2> HIDE DEF u
  <2> QED BY <1>2, Zenon
<1> HIDE DEF g
<1>4. u \in Int /\ 0 <= u /\ u < g
  BY ONLY <1>1, DivMod DEF u
<1> HIDE DEF u
<1>5. u \in Nat /\ u < Power(Base, z)
  BY <1>4 DEF g
<1>6. BeValue(s) = u
  BY <1>3, <1>5, DigitsValue, Zenon
<1> QED BY <1>6 DEF u, g

\* BigUint::to_bytes_le gives the digits, as many as the number needs.
LEMMA LeBytes ==
    ASSUME NEW v \in Nat
    PROVE  \E w \in Nat : /\ v < Power(Base, w)
                          /\ ToBytesLe(v) = [k \in 1 .. w |->
                                (v \div Power(Base, k - 1)) % Base]
<1> DEFINE T    == {w \in Nat : w >= 1 /\ v < Power(Base, w)}
           P(w) == v < Power(Base, w) /\ (w = 1 \/ v >= Power(Base, w - 1))
<1>1. v + 1 \in T
  <2>1. v + 1 \in Nat /\ v + 1 < Power(Base, v + 1) /\ Power(Base, v + 1) \in Nat
    BY PowerExceeds, BasePower
  <2> QED BY <2>1
<1>2. PICK m \in T : \A k \in T : m <= k
  <2>1. T \in SUBSET Nat /\ T # {}
    BY <1>1
  <2> HIDE DEF T
  <2> QED BY ONLY <2>1, LeastNat
<1>3. m \in 1 .. v + 1 /\ P(m)
  <2>1. m \in Nat /\ m >= 1 /\ v < Power(Base, m) /\ m <= v + 1
    BY <1>1, <1>2
  <2>2. CASE m = 1
    BY <2>1, <2>2
  <2>3. CASE m # 1
    <3>1. m - 1 \in Nat /\ m - 1 >= 1 /\ ~(m <= m - 1)
      BY <2>1, <2>3
    <3>2. ~(v < Power(Base, m - 1))
      BY <1>2, <3>1
    <3>3. Power(Base, m - 1) \in Nat
      BY <3>1, BasePower
    <3> QED BY <2>1, <3>2, <3>3
  <2> QED BY <2>2, <2>3
<1> HIDE DEF T
<1> DEFINE w == CHOOSE w \in 1 .. v + 1 : P(w)
<1>4. w \in 1 .. v + 1 /\ P(w)
  <2> HIDE DEF P
  <2> QED BY <1>3
<1>5. ToBytesLe(v) = [k \in 1 .. w |-> (v \div Power(Base, k - 1)) % Base]
  BY DEF ToBytesLe
<1> HIDE DEF w
<1>6. w \in Nat /\ v < Power(Base, w)
  BY <1>4
<1> QED BY <1>5, <1>6

\* Padded or cut to Size, they are the first Size digits.
LEMMA PaddedBytes ==
    ASSUME NEW v \in Nat
    PROVE  Resize(ToBytesLe(v)) = [k \in 1 .. Size |-> (v \div Power(Base, k - 1)) % Base]
<1>1. PICK w \in Nat : /\ v < Power(Base, w)
                       /\ ToBytesLe(v) = [k \in 1 .. w |->
                             (v \div Power(Base, k - 1)) % Base]
  BY LeBytes
<1> DEFINE s == ToBytesLe(v)
<1>2. Len(s) = w
  BY <1>1
<1>3. \A k \in 1 .. w : s[k] = (v \div Power(Base, k - 1)) % Base
  BY <1>1
<1> HIDE DEF s
<1>4. ASSUME NEW k \in 1 .. Size
      PROVE  (IF k <= Len(s) THEN s[k] ELSE 0) = (v \div Power(Base, k - 1)) % Base
  <2>1. CASE k <= w
    <3>1. k \in 1 .. w
      BY <2>1
    <3> QED BY <1>2, <1>3, <2>1, <3>1, Zenon
  <2>2. CASE ~(k <= w)
    <3> DEFINE g == Power(Base, k - 1)
               h == (k - 1) - w
               c == Power(Base, h)
    <3>1. h \in Nat /\ w + h = k - 1 /\ k - 1 \in Nat
      BY ONLY <2>2, k \in 1 .. Size, w \in Nat, SizeAssumption
    <3> HIDE DEF h
    <3>2. g = Power(Base, w) * c
      <4>1. Base \in Nat
        BY BasePower
      <4>2. Power(Base, w + h) = Power(Base, w) * Power(Base, h)
        BY ONLY <3>1, <4>1, w \in Nat, PowerAdd
      <4> QED BY ONLY <3>1, <4>2 DEF c, g
    <3>3. c \in Nat /\ c > 0 /\ g \in Nat /\ g > 0 /\ Power(Base, w) \in Nat
      BY ONLY <3>1, w \in Nat, BasePower DEF c, g
    <3> HIDE DEF c, g
    <3>4. v < g
      <4> DEFINE q == Power(Base, w)
      <4>1. v < q /\ q \in Nat /\ g = q * c
        BY <1>1, <3>2, <3>3
      <4> HIDE DEF q
      <4>2. q * (c - 1) >= 0 /\ q * (c - 1) = q * c - q
        BY ONLY <3>3, <4>1
      <4> QED BY ONLY <3>3, <4>1, <4>2, v \in Nat
    <3>5. v \div g = 0
      <4> DEFINE o == 0
      <4>1. o \in Int /\ v = g * o + v /\ 0 <= v /\ v \in Int
        BY ONLY <3>3, v \in Nat
      <4> HIDE DEF o
      <4>2. v \div g = o
        <5>1. (g * o + v) \div g = o
          BY ONLY <3>3, <3>4, <4>1, DivUnique, Zenon
        <5> QED BY ONLY <4>1, <5>1
      <4> QED BY ONLY <4>2 DEF o
    <3>6. 0 % Base = 0
      BY ONLY BaseAssumption
    <3> QED BY ONLY <1>2, <2>2, <3>5, <3>6 DEF g
  <2> QED BY <2>1, <2>2
<1>5. Resize(s) = [k \in 1 .. Size |-> (v \div Power(Base, k - 1)) % Base]
  BY <1>4, Zenon DEF Resize
<1> QED BY <1>5 DEF s

\* The bytes of a decimal string: its digits, the most significant first.
LEMMA NumberBytes ==
    ASSUME NEW v \in Nat
    PROVE  /\ bigint_string_to_be_bytes(v) \in Seq(Byte)
           /\ Len(bigint_string_to_be_bytes(v)) = Size
           /\ \A k \in 1 .. Size : bigint_string_to_be_bytes(v)[k]
                                      = (v \div Power(Base, Size - k)) % Base
<1> DEFINE d(k) == (v \div Power(Base, k)) % Base
           s    == Resize(ToBytesLe(v))
           u    == bigint_string_to_be_bytes(v)
<1>0. Size \in Nat /\ Size > 0
  BY SizeAssumption
<1>1. \A k \in Nat : d(k) \in Byte
  BY DigitIsByte, Zenon
<1>2. s = [k \in 1 .. Size |-> d(k - 1)]
  BY PaddedBytes, Zenon
<1>3. u = Reverse(s)
  BY DEF bigint_string_to_be_bytes
<1> HIDE DEF d, s, u
<1>4. Len(s) = Size /\ \A k \in 1 .. Size : s[k] = d(k - 1)
  BY <1>0, <1>2
<1>5. u = [k \in 1 .. Size |-> s[(Size - k) + 1]]
  BY <1>3, <1>4 DEF Reverse
<1>6. \A k \in 1 .. Size : s[(Size - k) + 1] = d(Size - k)
  <2> TAKE k \in 1 .. Size
  <2>1. (Size - k) + 1 \in 1 .. Size /\ ((Size - k) + 1) - 1 = Size - k
    BY <1>0
  <2> QED BY <1>4, <2>1
<1>7. \A k \in 1 .. Size : u[k] = d(Size - k) /\ u[k] \in Byte
  <2> TAKE k \in 1 .. Size
  <2>1. Size - k \in Nat
    BY <1>0
  <2> QED BY <1>1, <1>5, <1>6, <2>1
<1>8. u \in Seq(Byte) /\ Len(u) = Size
  BY <1>0, <1>5, <1>7
<1> QED BY <1>7, <1>8 DEF u, d

\* The bytes of a G2 component: those of its second part, then of its first.
LEMMA PairBytes ==
    ASSUME NEW c, c[1] \in Nat, c[2] \in Nat
    PROVE  /\ process_g2_component(c) \in Seq(Byte)
           /\ Len(process_g2_component(c)) = 2 * Size
           /\ \A k \in 1 .. Size :
                 /\ process_g2_component(c)[k] = (c[2] \div Power(Base, Size - k)) % Base
                 /\ process_g2_component(c)[Size + k]
                       = (c[1] \div Power(Base, Size - k)) % Base
<1> DEFINE d1(k) == (c[1] \div Power(Base, k)) % Base
           d2(k) == (c[2] \div Power(Base, k)) % Base
           s1    == Resize(ToBytesLe(c[1]))
           s2    == Resize(ToBytesLe(c[2]))
           u     == process_g2_component(c)
           v     == s1 \o s2
<1>0. Size \in Nat /\ Size > 0
  BY SizeAssumption
<1>1. \A k \in Nat : d1(k) \in Byte /\ d2(k) \in Byte
  BY DigitIsByte, Zenon
<1>2. s1 = [k \in 1 .. Size |-> d1(k - 1)] /\ s2 = [k \in 1 .. Size |-> d2(k - 1)]
  BY PaddedBytes, Zenon
<1>3. u = Reverse(v)
  BY DEF process_g2_component
<1> HIDE DEF d1, d2, s1, s2, u
<1>4. /\ s1 \in Seq(Byte) /\ Len(s1) = Size /\ \A k \in 1 .. Size : s1[k] = d1(k - 1)
      /\ s2 \in Seq(Byte) /\ Len(s2) = Size /\ \A k \in 1 .. Size : s2[k] = d2(k - 1)
  <2>1. \A k \in 1 .. Size : k - 1 \in Nat
    BY <1>0
  <2> QED BY <1>0, <1>1, <1>2, <2>1
<1>5. /\ v \in Seq(Byte) /\ Len(v) = 2 * Size
      /\ \A k \in 1 .. Size : v[k] = d1(k - 1) /\ v[Size + k] = d2(k - 1)
  <2>1. v \in Seq(Byte) /\ Len(v) = 2 * Size
    BY <1>0, <1>4
  <2>2. \A k \in 1 .. Size : v[k] = s1[k] /\ v[Size + k] = s2[k]
    BY <1>0, <1>4
  <2> QED BY <1>4, <2>1, <2>2
<1> HIDE DEF v
<1>6. u = [k \in 1 .. 2 * Size |-> v[(2 * Size - k) + 1]]
  BY <1>3, <1>5 DEF Reverse
<1>7. \A k \in 1 .. Size : u[k] = d2(Size - k) /\ u[Size + k] = d1(Size - k)
  <2> TAKE k \in 1 .. Size
  <2> DEFINE i == (Size - k) + 1
  <2>1. /\ i \in 1 .. Size /\ i - 1 = Size - k
        /\ k \in 1 .. 2 * Size /\ (2 * Size - k) + 1 = Size + i
        /\ Size + k \in 1 .. 2 * Size /\ (2 * Size - (Size + k)) + 1 = i
    BY <1>0
  <2> HIDE DEF i
  <2>2. u[k] = v[Size + i] /\ u[Size + k] = v[i]
    BY <1>6, <2>1
  <2>3. v[i] = d1(i - 1) /\ v[Size + i] = d2(i - 1)
    BY <1>5, <2>1
  <2> QED BY <2>1, <2>2, <2>3
<1>8. u \in Seq(Byte) /\ Len(u) = 2 * Size
  <2>1. \A k \in 1 .. 2 * Size : v[(2 * Size - k) + 1] \in Byte
    BY <1>0, <1>5
  <2> QED BY <1>0, <1>6, <2>1
<1> QED BY <1>7, <1>8 DEF u, d1, d2

-----------------------------------------------------------------------------
(***************************************************************************)
(* circom.rs: the bytes of a point.                                        *)
(***************************************************************************)
\* Where a position falls among pieces of one length.
LEMMA Position ==
    ASSUME NEW m \in Nat, m > 0, NEW i \in Nat, i > 0, NEW j \in 1 .. m
    PROVE  /\ m * (i - 1) + j \in Nat /\ m * (i - 1) >= 0 /\ m * i = m * (i - 1) + m
           /\ ((m * (i - 1) + j) - 1) \div m = i - 1
           /\ ((m * (i - 1) + j) - 1) % m = j - 1
<1> DEFINE q == i - 1
           w == j - 1
           a == m * q
<1>1. q \in Nat /\ w \in Nat /\ w < m /\ a \in Nat /\ m * i = a + m /\ j = w + 1
  OBVIOUS
<1>2. (m * q + w) \div m = q /\ (m * q + w) % m = w
  <2> HIDE DEF q, w, a
  <2>1. q \in Int /\ w \in Int /\ 0 <= w
    BY ONLY <1>1
  <2> QED BY ONLY <1>1, <2>1, m \in Nat, m > 0, DivUnique, Zenon
<1>3. (m * q + j) - 1 = m * q + w
  <2> HIDE DEF q
  <2>1. a \in Nat
    BY <1>1
  <2> HIDE DEF a
  <2>2. (a + j) - 1 = a + w
    BY <1>1, <2>1
  <2> QED BY <2>2 DEF a
<1>4. m * q + j \in Nat
  <2>1. a + j \in Nat
    <3> HIDE DEF a
    <3> QED BY <1>1
  <2> QED BY <2>1
<1> QED BY <1>1, <1>2, <1>3, <1>4

\* Pieces of one length, joined: each stands where its number says.
LEMMA PiecesJoin ==
    ASSUME NEW m \in Nat, m > 0, NEW ps \in Seq(Seq(Byte)),
           \A i \in 1 .. Len(ps) : Len(ps[i]) = m
    PROVE  /\ FlattenSeq(ps) \in Seq(Byte) /\ Len(FlattenSeq(ps)) = m * Len(ps)
           /\ \A i \in 1 .. Len(ps) : \A j \in 1 .. m :
                 FlattenSeq(ps)[m * (i - 1) + j] = ps[i][j]
<1> DEFINE N    == Len(ps)
           E(k) == ps[((k - 1) \div m) + 1][((k - 1) % m) + 1]
           t    == [i \in 1 .. N |-> [k \in 1 .. m * i |-> E(k)]]
<1>0. N \in Nat /\ \A i \in 1 .. N : ps[i] \in Seq(Byte) /\ Len(ps[i]) = m
  OBVIOUS
<1>1. CASE N = 0
  <2>1. FlattenSeq(ps) = ps /\ ps = <<>>
    BY <1>1 DEF FlattenSeq
  <2>2. m * 0 = 0
    OBVIOUS
  <2> QED BY <1>1, <2>1, <2>2
<1>2. CASE N > 0
  <2> HIDE DEF N
  <2>1. \A i \in 1 .. N : \A j \in 1 .. m : E(m * (i - 1) + j) = ps[i][j]
    <3> TAKE i \in 1 .. N
    <3> TAKE j \in 1 .. m
    <3>1. i \in Nat /\ i > 0 /\ (i - 1) + 1 = i /\ (j - 1) + 1 = j
      BY <1>0
    <3> DEFINE k == m * (i - 1) + j
    <3>2. (k - 1) \div m = i - 1 /\ (k - 1) % m = j - 1
      BY <3>1, Position
    <3> HIDE DEF k
    <3>3. E(k) = ps[(i - 1) + 1][(j - 1) + 1]
      BY ONLY <3>2
    <3> HIDE DEF E
    <3>4. E(k) = ps[i][j]
      BY ONLY <3>1, <3>3
    <3> QED BY ONLY <3>4 DEF k
  <2> HIDE DEF E
  <2>2. \A i \in 1 .. N : \A k \in 1 .. m * i :
           \E a \in 1 .. i : \E c \in 1 .. m : k = m * (a - 1) + c
    <3> TAKE i \in 1 .. N
    <3> TAKE k \in 1 .. m * i
    <3> DEFINE q == (k - 1) \div m
               w == (k - 1) % m
    <3>0. i \in Nat /\ i > 0 /\ m * i \in Nat
      BY <1>0
    <3>1. k - 1 = m * q + w /\ q \in Int /\ w \in Int /\ 0 <= w /\ w < m
          /\ k - 1 >= 0 /\ k - 1 < m * i
      <4>1. k - 1 \in Int /\ k - 1 >= 0 /\ k - 1 < m * i
        BY <3>0
      <4> QED BY <4>1, DivMod
    <3> HIDE DEF q, w
    <3>2. q >= 0
      <4> SUFFICES ASSUME q <= -1 PROVE FALSE
        BY <3>1
      <4>1. m * q <= -m
        BY ONLY q <= -1, <3>1, m \in Nat, m > 0
      <4> QED BY <3>1, <4>1
    <3>3. q < i
      <4> SUFFICES ASSUME q >= i PROVE FALSE
        BY <3>0, <3>1
      <4>1. m * q >= m * i
        <5>1. m * (q - i) >= 0 /\ m * (q - i) = m * q - m * i
          BY ONLY q >= i, <3>0, <3>1, m \in Nat
        <5> QED BY ONLY <3>0, <3>1, <5>1, m \in Nat
      <4> DEFINE y == m * q
                 x == m * i
      <4>2. y \in Int /\ x \in Nat /\ k - 1 = y + w /\ k - 1 < x /\ y >= x
        BY <3>0, <3>1, <4>1
      <4> HIDE DEF x, y
      <4> QED BY ONLY <3>1, <4>2
    <3>4. q + 1 \in 1 .. i /\ w + 1 \in 1 .. m /\ (q + 1) - 1 = q
      BY <3>0, <3>1, <3>2, <3>3
    <3>5. k = m * ((q + 1) - 1) + (w + 1)
      <4>1. k = m * q + (w + 1)
        BY <3>1
      <4> QED BY <3>4, <4>1
    <3> QED BY <3>4, <3>5, Zenon
  <2>3. \A i \in 1 .. N : m * i \in Nat /\ t[i] = [k \in 1 .. m * i |-> E(k)]
    BY <1>0
  <2>4. \A i \in 1 .. N : t[i] \in Seq(Byte) /\ Len(t[i]) = m * i
                          /\ \A k \in 1 .. m * i : t[i][k] = E(k)
    <3> TAKE i \in 1 .. N
    <3>1. ASSUME NEW k \in 1 .. m * i PROVE E(k) \in Byte
      <4>1. PICK a \in 1 .. i, c \in 1 .. m : k = m * (a - 1) + c
        BY <2>2
      <4>2. a \in 1 .. N
        BY <1>0
      <4>3. E(k) = ps[a][c]
        BY <2>1, <4>1, <4>2
      <4>4. ps[a][c] \in Byte
        BY <1>0, <4>2
      <4> QED BY <4>3, <4>4
    <3>2. m * i \in Nat /\ t[i] = [k \in 1 .. m * i |-> E(k)]
      BY <2>3
    <3> HIDE DEF t
    <3> QED BY <3>1, <3>2
  <2>5. \A i \in 1 .. N : t[i] = IF i = 1 THEN ps[i] ELSE t[i - 1] \o ps[i]
    <3> TAKE i \in 1 .. N
    <3>1. CASE i = 1
      <4>1. t[1] \in Seq(Byte) /\ Len(t[1]) = m /\ \A k \in 1 .. m : t[1][k] = E(k)
        <5>1. 1 \in 1 .. N /\ m * 1 = m
          BY <1>0, <1>2
        <5> HIDE DEF t
        <5> QED BY ONLY <2>4, <5>1
      <4>2. \A k \in 1 .. m : E(k) = ps[1][k]
        <5> TAKE k \in 1 .. m
        <5>1. m * (1 - 1) + k = k /\ 1 \in 1 .. N
          BY <1>0, <1>2
        <5> QED BY <2>1, <5>1
      <4>3. ps[1] \in Seq(Byte) /\ Len(ps[1]) = m
        BY <1>0, <1>2
      <4> DEFINE h == t[1]
                 u == ps[1]
      <4>4. h = u
        <5>1. h \in Seq(Byte) /\ u \in Seq(Byte) /\ Len(h) = Len(u)
          BY ONLY <4>1, <4>3
        <5>2. \A k \in 1 .. Len(h) : h[k] = u[k]
          BY ONLY <4>1, <4>2
        <5> HIDE DEF h, u
        <5> QED BY ONLY <5>1, <5>2, SeqEqual
      <4> QED BY <3>1, <4>4
    <3>2. CASE i # 1
      <4> DEFINE h == t[i - 1]
                 u == ps[i]
                 v == t[i]
                 x == m * (i - 1)
      <4>1. i - 1 \in 1 .. N /\ i \in 1 .. N /\ i \in Nat /\ i > 0
        BY <1>0, <3>2
      <4>2. h \in Seq(Byte) /\ Len(h) = x /\ \A k \in 1 .. x : h[k] = E(k)
        BY <2>4, <4>1
      <4>3. u \in Seq(Byte) /\ Len(u) = m
        BY <1>0
      <4>4. x \in Nat /\ m * i = x + m
        BY <4>1
      <4>5. v \in Seq(Byte) /\ Len(v) = x + m /\ \A k \in 1 .. x + m : v[k] = E(k)
        <5>1. v \in Seq(Byte) /\ Len(v) = m * i /\ \A k \in 1 .. m * i : v[k] = E(k)
          BY <2>4
        <5> HIDE DEF t, x
        <5> QED BY <4>4, <5>1
      <4>6. \A j \in 1 .. m : E(x + j) = u[j]
        BY <2>1
      <4> HIDE DEF t, h, u, v, x
      <4>7. h \o u \in Seq(Byte) /\ Len(h \o u) = x + m
        <5>1. h \in Seq(Byte) /\ u \in Seq(Byte)
          BY ONLY <4>2, <4>3
        <5>2. h \o u \in Seq(Byte) /\ Len(h \o u) = Len(h) + Len(u)
          BY ONLY <5>1
        <5>3. Len(h) = x /\ Len(u) = m
          BY ONLY <4>2, <4>3
        <5> QED BY ONLY <5>2, <5>3
      <4>8. \A k \in 1 .. x + m : v[k] = (h \o u)[k]
        <5> TAKE k \in 1 .. x + m
        <5>1. CASE k <= x
          <6>1. k \in 1 .. x /\ (h \o u)[k] = h[k]
            BY <4>2, <4>3, <4>4, <5>1
          <6> QED BY <4>2, <4>5, <6>1
        <5>2. CASE ~(k <= x)
          <6> DEFINE j == k - x
          <6>1. j \in 1 .. m /\ k = x + j /\ (h \o u)[k] = u[j]
            BY <4>2, <4>3, <4>4, <5>2
          <6> HIDE DEF j
          <6>2. E(x + j) = u[j]
            BY <4>6, <6>1
          <6>3. v[k] = E(k)
            BY <4>5
          <6> QED BY <6>1, <6>2, <6>3
        <5> QED BY <5>1, <5>2
      <4>9. v = h \o u
        BY <4>5, <4>7, <4>8, SeqEqual
      <4> QED BY <3>2, <4>9 DEF v, h, u
    <3> QED BY <3>1, <3>2
  <2>6. t = [i \in 1 .. N |-> IF i = 1 THEN ps[i] ELSE t[i - 1] \o ps[i]]
    <3>1. t = [i \in 1 .. N |-> t[i]]
      OBVIOUS
    <3> HIDE DEF t
    <3> QED BY <2>5, <3>1, Zenon
  <2> HIDE DEF t
  <2>7. \E g : /\ g = [i \in 1 .. N |-> IF i = 1 THEN ps[i] ELSE g[i - 1] \o ps[i]]
               /\ FlattenSeq(ps) = g[N]
    <3>1. \E g : g = [i \in 1 .. N |-> IF i = 1 THEN ps[i] ELSE g[i - 1] \o ps[i]]
      BY <2>6
    <3>2. N # 0
      BY <1>2
    <3> QED BY ONLY <3>1, <3>2 DEF FlattenSeq, N
  <2>8. PICK g : /\ g = [i \in 1 .. N |-> IF i = 1 THEN ps[i] ELSE g[i - 1] \o ps[i]]
                 /\ FlattenSeq(ps) = g[N]
    BY <2>7
  <2>9. \A i \in 1 .. N : g[i] = IF i = 1 THEN ps[i] ELSE g[i - 1] \o ps[i]
    BY <2>8
  <2>10. g[N] = t[N]
    <3> DEFINE S == {k \in Nat : k \in 1 .. N => g[k] = t[k]}
    <3>1. 0 \in S
      OBVIOUS
    <3>2. ASSUME NEW k \in S PROVE k + 1 \in S
      <4>1. k \in Nat /\ (k \in 1 .. N => g[k] = t[k])
        OBVIOUS
      <4> HIDE DEF S
      <4>2. ASSUME k + 1 \in 1 .. N PROVE g[k + 1] = t[k + 1]
        <5>1. CASE k = 0
          <6>1. 1 \in 1 .. N /\ k + 1 = 1
            BY <4>2, <5>1
          <6>2. g[1] = ps[1] /\ t[1] = ps[1]
            BY <2>5, <2>9, <6>1
          <6> QED BY <6>1, <6>2
        <5>2. CASE k # 0
          <6>1. k \in 1 .. N /\ (k + 1) - 1 = k /\ k + 1 # 1
            BY <1>0, <4>1, <4>2, <5>2
          <6>2. g[k + 1] = g[k] \o ps[k + 1] /\ t[k + 1] = t[k] \o ps[k + 1]
            BY <2>5, <2>9, <4>2, <6>1
          <6> QED BY <4>1, <6>1, <6>2
        <5> QED BY <5>1, <5>2
      <4> QED BY <4>1, <4>2 DEF S
    <3>3. S = Nat
      <4> HIDE DEF S
      <4>1. S \in SUBSET Nat
        BY DEF S
      <4> QED BY <3>1, <3>2, <4>1, SetInduction
    <3>4. N \in S /\ N \in 1 .. N
      BY <1>0, <1>2, <3>3
    <3> QED BY <3>4
  <2>11. FlattenSeq(ps) = t[N]
    BY <2>8, <2>10
  <2>12. t[N] \in Seq(Byte) /\ Len(t[N]) = m * N /\ \A k \in 1 .. m * N : t[N][k] = E(k)
    BY <1>0, <1>2, <2>4
  <2>13. \A i \in 1 .. N : \A j \in 1 .. m : t[N][m * (i - 1) + j] = ps[i][j]
    <3> TAKE i \in 1 .. N
    <3> TAKE j \in 1 .. m
    <3> DEFINE k == m * (i - 1) + j
    <3>1. k \in 1 .. m * N
      <4> DEFINE x == m * (i - 1)
                 y == m * N
                 z == m * i
      <4>1. x \in Nat /\ z = x + m /\ y \in Nat
        BY <1>0
      <4>2. z <= y
        <5>1. m * (N - i) >= 0 /\ m * (N - i) = m * N - m * i
          BY <1>0
        <5> QED BY <1>0, <5>1
      <4> HIDE DEF x, y, z
      <4>3. x + j \in 1 .. y
        BY <4>1, <4>2
      <4> QED BY <4>3 DEF x, y
    <3>2. E(k) = ps[i][j]
      BY <2>1
    <3> HIDE DEF k
    <3>3. t[N][k] = ps[i][j]
      BY <2>12, <3>1, <3>2
    <3> QED BY <3>3 DEF k
  <2> QED BY <2>11, <2>12, <2>13 DEF N
<1>3. N = 0 \/ N > 0
  BY <1>0
<1> QED BY <1>1, <1>2, <1>3

\* The number in a group of Size bytes that are the digits of a number.
LEMMA SlotValue ==
    ASSUME NEW s \in Seq(Byte), NEW a \in Nat, a + Size <= Len(s), NEW v \in Nat,
           \A j \in 1 .. Size : s[a + j] = (v \div Power(Base, Size - j)) % Base
    PROVE  BeValue(SubSeq(s, a + 1, a + Size)) = v % Power(Base, Size)
<1> DEFINE z == Size
           u == SubSeq(s, a + 1, a + z)
<1>0. z \in Nat /\ z > 0 /\ Len(s) \in Nat /\ a + z <= Len(s)
  BY SizeAssumption
<1>1. \A j \in 1 .. z : s[a + j] = (v \div Power(Base, z - j)) % Base
  OBVIOUS
<1> HIDE DEF z
<1>2. u \in Seq(Byte) /\ Len(u) = z /\ \A j \in 1 .. z : u[j] = s[a + j]
  <2>1. a + 1 \in Int /\ a + z \in Int /\ a + 1 <= a + z /\ (a + z) - (a + 1) + 1 = z
    BY ONLY <1>0, a \in Nat
  <2>2. \A k \in a + 1 .. a + z : s[k] \in Byte
    <3>1. \A k \in a + 1 .. a + z : k \in 1 .. Len(s)
      BY ONLY <1>0, a \in Nat
    <3>2. \A k \in 1 .. Len(s) : s[k] \in Byte
      BY ONLY s \in Seq(Byte)
    <3> QED BY ONLY <3>1, <3>2
  <2>3. /\ SubSeq(s, a + 1, a + z) \in Seq(Byte)
        /\ Len(SubSeq(s, a + 1, a + z))
              = IF a + 1 <= a + z THEN (a + z) - (a + 1) + 1 ELSE 0
        /\ \A j \in 1 .. (a + z) - (a + 1) + 1 : SubSeq(s, a + 1, a + z)[j] = s[(a + 1) + j - 1]
    BY ONLY <2>1, <2>2, SubSeqProperties
  <2>4. \A j \in 1 .. z : (a + 1) + j - 1 = a + j
    BY ONLY a \in Nat, <1>0
  <2> QED BY ONLY <2>1, <2>3, <2>4
<1> HIDE DEF u
<1>3. \A j \in 1 .. z : u[j] = (v \div Power(Base, z - j)) % Base
  BY ONLY <1>1, <1>2, Zenon
<1>4. BeValue(u) = v % Power(Base, z)
  BY ONLY <1>0, <1>2, <1>3, v \in Nat, BytesOfNumber, Zenon
<1> QED BY <1>4 DEF u, z

\* The affine part of a list.
LEMMA AffinePart ==
    ASSUME NEW A, NEW p \in Seq(A), p # <<>>
    PROVE  /\ Len(p) - 1 \in Nat /\ Len(affine_components(p)) = Len(p) - 1
           /\ DOMAIN affine_components(p) = 1 .. Len(p) - 1
           /\ \A k \in 1 .. Len(p) - 1 : affine_components(p)[k] = p[k] /\ p[k] \in A
<1>1. Len(p) \in Nat /\ Len(p) > 0 /\ \A k \in 1 .. Len(p) : p[k] \in A
  OBVIOUS
<1>2. affine_components(p) = SubSeq(p, 1, Len(p) - 1)
  BY DEF affine_components, Front
<1>3. /\ 1 \in Int /\ Len(p) - 1 \in Int
      /\ \A k \in 1 .. Len(p) - 1 : p[k] \in A
  BY <1>1
<1>4. /\ SubSeq(p, 1, Len(p) - 1) \in Seq(A)
      /\ Len(SubSeq(p, 1, Len(p) - 1))
            = IF 1 <= Len(p) - 1 THEN (Len(p) - 1) - 1 + 1 ELSE 0
      /\ \A k \in 1 .. (Len(p) - 1) - 1 + 1 : SubSeq(p, 1, Len(p) - 1)[k] = p[1 + k - 1]
  BY <1>3, SubSeqProperties
<1>5. (Len(p) - 1) - 1 + 1 = Len(p) - 1 /\ \A k \in 1 .. Len(p) - 1 : 1 + k - 1 = k
  BY <1>1
<1>6. DOMAIN SubSeq(p, 1, Len(p) - 1) = 1 .. Len(SubSeq(p, 1, Len(p) - 1))
  BY ONLY <1>4
<1> QED BY <1>1, <1>2, <1>3, <1>4, <1>5, <1>6

\* A list that G1Fails lets through: its coordinates are numbers, and each
\* stands in its Size bytes, up to multiples of the power of Base.
LEMMA G1Written ==
    ASSUME NEW p \in G1List, ~G1Fails(p)
    PROVE  /\ Len(p) - 1 \in Nat
           /\ G1Bytes(p) \in Seq(Byte) /\ Len(G1Bytes(p)) = Size * (Len(p) - 1)
           /\ \A k \in 1 .. Len(p) - 1 :
                 p[k] \in Nat /\ Coordinate(G1Bytes(p), k) = p[k] % Power(Base, Size)
<1> DEFINE N  == Len(p) - 1
           af == affine_components(p)
           ps == [k \in 1 .. Len(af) |-> bigint_string_to_be_bytes(af[k])]
           s  == FlattenSeq(ps)
<1>0. Size \in Nat /\ Size > 0 /\ p # <<>>
  BY SizeAssumption DEF G1Fails
<1>1. N \in Nat /\ Len(af) = N /\ \A k \in 1 .. N : af[k] = p[k] /\ p[k] \in Nat \cup {Unparsable}
  <2>1. p \in Seq(Nat \cup {Unparsable})
    BY DEF G1List
  <2> QED BY <1>0, <2>1, AffinePart
<1>2. \A k \in 1 .. N : p[k] \in Nat
  BY <1>1 DEF G1Fails
<1>3. G1Bytes(p) = s
  BY DEF G1Bytes
<1> HIDE DEF af, N
<1>4. /\ ps \in Seq(Seq(Byte)) /\ Len(ps) = N
      /\ \A k \in 1 .. N : /\ Len(ps[k]) = Size
                           /\ \A j \in 1 .. Size : ps[k][j] = (p[k] \div Power(Base, Size - j)) % Base
  <2>1. \A k \in 1 .. N :
           /\ bigint_string_to_be_bytes(p[k]) \in Seq(Byte)
           /\ Len(bigint_string_to_be_bytes(p[k])) = Size
           /\ \A j \in 1 .. Size : bigint_string_to_be_bytes(p[k])[j]
                                      = (p[k] \div Power(Base, Size - j)) % Base
    BY <1>2, NumberBytes
  <2>2. ps = [k \in 1 .. N |-> bigint_string_to_be_bytes(p[k])]
    BY <1>1
  <2> HIDE DEF ps
  <2> DEFINE f(k) == bigint_string_to_be_bytes(p[k])
  <2>3. ps = [k \in 1 .. N |-> f(k)] /\ \A k \in 1 .. N : f(k) \in Seq(Byte)
    BY <2>1, <2>2
  <2>4. \A k \in 1 .. N : ps[k] = f(k)
    BY <2>3
  <2>5. ps \in Seq(Seq(Byte)) /\ Len(ps) = N
    <3> HIDE DEF f
    <3> QED BY ONLY <1>1, <2>3
  <2> QED BY <2>1, <2>4, <2>5
<1> HIDE DEF ps
<1>5. /\ s \in Seq(Byte) /\ Len(s) = Size * N
      /\ \A k \in 1 .. N : \A j \in 1 .. Size : s[Size * (k - 1) + j] = ps[k][j]
  <2>1. \A k \in 1 .. Len(ps) : Len(ps[k]) = Size
    BY <1>4
  <2>2. /\ FlattenSeq(ps) \in Seq(Byte) /\ Len(FlattenSeq(ps)) = Size * Len(ps)
        /\ \A i \in 1 .. Len(ps) : \A j \in 1 .. Size :
              FlattenSeq(ps)[Size * (i - 1) + j] = ps[i][j]
    BY ONLY <1>0, <1>4, <2>1, PiecesJoin
  <2> QED BY <1>4, <2>2
<1> HIDE DEF s
<1>6. ASSUME NEW k \in 1 .. N
      PROVE  Coordinate(s, k) = p[k] % Power(Base, Size)
  <2> DEFINE a == Size * (k - 1)
  <2>1. a \in Nat /\ (k - 1) * Size + 1 = a + 1 /\ k * Size = a + Size /\ a + Size <= Len(s)
    <3>1. k \in Nat /\ k > 0 /\ k <= N /\ N \in Nat
      BY <1>1
    <3>2. a \in Nat /\ (k - 1) * Size = a /\ k * Size = a + Size
      BY ONLY <1>0, <3>1
    <3>3. Size * (N - k) >= 0 /\ Size * (N - k) = Size * N - k * Size
      BY ONLY <1>0, <3>1
    <3>4. k * Size \in Nat /\ Size * N \in Nat
      BY ONLY <1>0, <3>1
    <3>5. k * Size <= Size * N
      BY ONLY <3>3, <3>4
    <3> QED BY <1>5, <3>2, <3>5
  <2>2. \A j \in 1 .. Size : s[a + j] = (p[k] \div Power(Base, Size - j)) % Base
    BY <1>4, <1>5
  <2> HIDE DEF a
  <2>3. p[k] \in Nat
    BY <1>2
  <2>4. BeValue(SubSeq(s, a + 1, a + Size)) = p[k] % Power(Base, Size)
    BY ONLY <1>5, <2>1, <2>2, <2>3, SlotValue
  <2> QED BY <2>1, <2>4 DEF Coordinate
<1> QED BY <1>1, <1>2, <1>3, <1>5, <1>6 DEF N

\* The pieces a G2 point is made of.
G2Pieces(p) == [k \in 1 .. Len(p) - 1 |-> process_g2_component(p[k])]

\* A list that G2Fails lets through has pairs of numbers, each with its piece.
LEMMA G2Parts ==
    ASSUME NEW p \in G2List, ~G2Fails(p)
    PROVE  /\ Len(p) - 1 \in Nat
           /\ \A k \in 1 .. Len(p) - 1 : /\ Len(p[k]) = 2 /\ p[k] \in Seq(Nat \cup {Unparsable})
                                         /\ p[k][1] \in Nat /\ p[k][2] \in Nat
           /\ G2Bytes(p) = FlattenSeq(G2Pieces(p))
           /\ G2Pieces(p) \in Seq(Seq(Byte)) /\ Len(G2Pieces(p)) = Len(p) - 1
           /\ \A k \in 1 .. Len(p) - 1 :
                 /\ Len(G2Pieces(p)[k]) = 2 * Size
                 /\ \A j \in 1 .. Size :
                       /\ G2Pieces(p)[k][j] = (p[k][2] \div Power(Base, Size - j)) % Base
                       /\ G2Pieces(p)[k][Size + j] = (p[k][1] \div Power(Base, Size - j)) % Base
<1> DEFINE N    == Len(p) - 1
           af   == affine_components(p)
           f(k) == process_g2_component(p[k])
<1>0. p # <<>>
  BY DEF G2Fails
<1>1. N \in Nat /\ Len(af) = N /\ \A k \in 1 .. N : af[k] = p[k] /\ p[k] \in G1List
  <2>1. p \in Seq(G1List)
    BY DEF G2List
  <2> QED BY <1>0, <2>1, AffinePart
<1>2. \A k \in 1 .. N : Len(p[k]) = 2 /\ p[k] \in Seq(Nat \cup {Unparsable})
                        /\ p[k][1] \in Nat /\ p[k][2] \in Nat
  <2> TAKE k \in 1 .. N
  <2>1. Len(p[k]) = 2 /\ ~(Unparsable \in ToSet(p[k]))
    BY DEF G2Fails
  <2>2. p[k] \in Seq(Nat \cup {Unparsable})
    BY <1>1 DEF G1List
  <2> DEFINE c == p[k]
  <2> HIDE DEF c
  <2>3. DOMAIN c = 1 .. 2 /\ c[1] \in Nat \cup {Unparsable} /\ c[2] \in Nat \cup {Unparsable}
    <3>1. c \in Seq(Nat \cup {Unparsable}) /\ Len(c) = 2
      BY <2>1, <2>2 DEF c
    <3> DEFINE A == Nat \cup {Unparsable}
    <3>2. c \in Seq(A) /\ Len(c) = 2
      BY <3>1
    <3> HIDE DEF A
    <3>3. DOMAIN c = 1 .. 2 /\ c[1] \in A /\ c[2] \in A
      BY ONLY <3>2
    <3> QED BY <3>3 DEF A
  <2>4. c[1] # Unparsable /\ c[2] # Unparsable
    <3>1. ~(Unparsable \in {c[i] : i \in DOMAIN c})
      BY <2>1 DEF c, ToSet
    <3> QED BY ONLY <2>3, <3>1
  <2>5. c[1] \in Nat /\ c[2] \in Nat
    BY <2>3, <2>4
  <2> QED BY <2>1, <2>2, <2>5 DEF c
<1>3. G2Bytes(p) = FlattenSeq(G2Pieces(p))
  <2>1. [k \in 1 .. Len(af) |-> process_g2_component(af[k])] = G2Pieces(p)
    BY <1>1 DEF G2Pieces
  <2> QED BY <2>1 DEF G2Bytes
<1> HIDE DEF af
<1>4. \A k \in 1 .. N : /\ f(k) \in Seq(Byte) /\ Len(f(k)) = 2 * Size
                        /\ \A j \in 1 .. Size :
                              /\ f(k)[j] = (p[k][2] \div Power(Base, Size - j)) % Base
                              /\ f(k)[Size + j] = (p[k][1] \div Power(Base, Size - j)) % Base
  <2> TAKE k \in 1 .. N
  <2>1. p[k][1] \in Nat /\ p[k][2] \in Nat
    BY <1>2
  <2> QED BY ONLY <2>1, PairBytes
<1>5. G2Pieces(p) = [k \in 1 .. N |-> f(k)]
  BY DEF G2Pieces
<1> HIDE DEF f
<1>6. G2Pieces(p) \in Seq(Seq(Byte)) /\ Len(G2Pieces(p)) = N
      /\ \A k \in 1 .. N : G2Pieces(p)[k] = f(k)
  <2>1. \A k \in 1 .. N : f(k) \in Seq(Byte)
    BY <1>4
  <2> HIDE DEF N
  <2> QED BY ONLY <1>1, <1>5, <2>1
<1> HIDE DEF N
<1>7. \A k \in 1 .. N :
         /\ Len(G2Pieces(p)[k]) = 2 * Size
         /\ \A j \in 1 .. Size :
               /\ G2Pieces(p)[k][j] = (p[k][2] \div Power(Base, Size - j)) % Base
               /\ G2Pieces(p)[k][Size + j] = (p[k][1] \div Power(Base, Size - j)) % Base
  BY <1>4, <1>6, Zenon
<1> QED BY <1>1, <1>2, <1>3, <1>6, <1>7 DEF N

\* Such a list is written with the second part of each pair first.
LEMMA G2Written ==
    ASSUME NEW p \in G2List, ~G2Fails(p)
    PROVE  /\ Len(p) - 1 \in Nat
           /\ G2Bytes(p) \in Seq(Byte) /\ Len(G2Bytes(p)) = 2 * Size * (Len(p) - 1)
           /\ \A k \in 1 .. Len(p) - 1 :
                 /\ p[k][1] \in Nat /\ p[k][2] \in Nat /\ Len(p[k]) = 2
                 /\ Coordinate(G2Bytes(p), 2 * k - 1) = p[k][2] % Power(Base, Size)
                 /\ Coordinate(G2Bytes(p), 2 * k) = p[k][1] % Power(Base, Size)
<1> DEFINE N  == Len(p) - 1
           ps == G2Pieces(p)
           s  == G2Bytes(p)
           m  == 2 * Size
<1>0. Size \in Nat /\ Size > 0 /\ m \in Nat /\ m > 0 /\ m = Size + Size
  BY SizeAssumption
<1>1. /\ N \in Nat /\ s = FlattenSeq(ps) /\ ps \in Seq(Seq(Byte)) /\ Len(ps) = N
      /\ \A k \in 1 .. N :
            /\ Len(p[k]) = 2 /\ p[k][1] \in Nat /\ p[k][2] \in Nat
            /\ Len(ps[k]) = m
            /\ \A j \in 1 .. Size :
                  /\ ps[k][j] = (p[k][2] \div Power(Base, Size - j)) % Base
                  /\ ps[k][Size + j] = (p[k][1] \div Power(Base, Size - j)) % Base
  BY G2Parts, Zenon
<1> HIDE DEF N, ps, s, m
<1>2. /\ s \in Seq(Byte) /\ Len(s) = m * N
      /\ \A k \in 1 .. N : \A j \in 1 .. m : s[m * (k - 1) + j] = ps[k][j]
  <2>1. \A k \in 1 .. Len(ps) : Len(ps[k]) = m
    BY <1>1
  <2>2. /\ FlattenSeq(ps) \in Seq(Byte) /\ Len(FlattenSeq(ps)) = m * Len(ps)
        /\ \A i \in 1 .. Len(ps) : \A j \in 1 .. m :
              FlattenSeq(ps)[m * (i - 1) + j] = ps[i][j]
    BY ONLY <1>0, <1>1, <2>1, PiecesJoin
  <2> QED BY <1>1, <2>2
<1>3. ASSUME NEW k \in 1 .. N
      PROVE  /\ Coordinate(s, 2 * k - 1) = p[k][2] % Power(Base, Size)
             /\ Coordinate(s, 2 * k) = p[k][1] % Power(Base, Size)
  <2> DEFINE a == m * (k - 1)
             c == a + Size
  <2>1. /\ a \in Nat /\ c \in Nat /\ a + Size <= Len(s) /\ c + Size <= Len(s)
        /\ ((2 * k - 1) - 1) * Size + 1 = a + 1 /\ (2 * k - 1) * Size = a + Size
        /\ (2 * k - 1) * Size + 1 = c + 1 /\ (2 * k) * Size = c + Size
    <3>1. k \in Nat /\ k > 0 /\ k <= N /\ N \in Nat
      BY <1>1
    <3>2. a \in Nat /\ a = 2 * (k * Size) - 2 * Size
      <4>1. m * (k - 1) = 2 * (k * Size) - 2 * Size
        BY ONLY <1>0, <3>1 DEF m
      <4>2. m * (k - 1) \in Nat
        BY ONLY <1>0, <3>1
      <4> QED BY <4>1, <4>2
    <3>3. /\ ((2 * k - 1) - 1) * Size = 2 * (k * Size) - 2 * Size
          /\ (2 * k - 1) * Size = 2 * (k * Size) - Size
          /\ (2 * k) * Size = 2 * (k * Size)
      BY ONLY <1>0, <3>1
    <3>4. a + m <= m * N
      <4>1. m * (N - k) >= 0 /\ m * (N - k) = m * N - m * k /\ m * k = m * (k - 1) + m
        BY ONLY <1>0, <3>1
      <4>2. m * N \in Nat /\ m * k \in Nat
        BY ONLY <1>0, <3>1
      <4> QED BY ONLY <4>1, <4>2, <1>0
    <3> DEFINE y == k * Size
    <3>5. y \in Nat
      BY ONLY <1>0, <3>1
    <3> HIDE DEF y, a
    <3> DEFINE x == m * N
    <3>6. a + m <= x /\ Len(s) = x /\ x \in Nat
      BY <1>0, <1>2, <3>1, <3>4
    <3> HIDE DEF x
    <3>7. a \in Nat /\ a = 2 * y - 2 * Size
      BY <3>2 DEF y
    <3>8. /\ ((2 * k - 1) - 1) * Size = 2 * y - 2 * Size
          /\ (2 * k - 1) * Size = 2 * y - Size
          /\ (2 * k) * Size = 2 * y
      BY <3>3 DEF y
    <3> QED BY ONLY <1>0, <3>5, <3>6, <3>7, <3>8
  <2>2. \A j \in 1 .. Size : /\ s[a + j] = (p[k][2] \div Power(Base, Size - j)) % Base
                             /\ s[c + j] = (p[k][1] \div Power(Base, Size - j)) % Base
    <3> TAKE j \in 1 .. Size
    <3>1. j \in 1 .. m /\ Size + j \in 1 .. m
      BY ONLY <1>0, j \in 1 .. Size
    <3>2. s[a + j] = ps[k][j] /\ s[a + (Size + j)] = ps[k][Size + j]
      BY ONLY <1>2, <3>1, k \in 1 .. N
    <3>3. a + (Size + j) = c + j
      <4> HIDE DEF a
      <4> QED BY ONLY <1>0, <2>1, j \in 1 .. Size
    <3> QED BY ONLY <1>1, <3>2, <3>3, k \in 1 .. N, j \in 1 .. Size
  <2>3. p[k][1] \in Nat /\ p[k][2] \in Nat
    BY <1>1
  <2> HIDE DEF a, c
  <2>4. BeValue(SubSeq(s, a + 1, a + Size)) = p[k][2] % Power(Base, Size)
    BY ONLY <1>2, <2>1, <2>2, <2>3, SlotValue
  <2>5. BeValue(SubSeq(s, c + 1, c + Size)) = p[k][1] % Power(Base, Size)
    BY ONLY <1>2, <2>1, <2>2, <2>3, SlotValue
  <2> QED BY ONLY <2>1, <2>4, <2>5 DEF Coordinate
<1> QED BY <1>1, <1>2, <1>3 DEF N, s, m

\* G1Fails looks at every coordinate but the last.
LEMMA G1Reasons ==
    ASSUME NEW p \in G1List
    PROVE  G1Malformed(p) <=> G1Fails(p)
<1> DEFINE A  == Nat \cup {Unparsable}
           af == affine_components(p)
<1>1. p \in Seq(A)
  BY DEF G1List
<1> HIDE DEF A
<1>2. CASE p = <<>>
  BY <1>2 DEF G1Malformed, G1Fails
<1>3. CASE p # <<>>
  <2>1. /\ DOMAIN af = 1 .. Len(p) - 1
        /\ \A k \in 1 .. Len(p) - 1 : af[k] = p[k]
    BY <1>1, <1>3, AffinePart
  <2>2. Front(p) = af /\ Len(p) # 0
    BY <1>1, <1>3 DEF affine_components
  <2> HIDE DEF af
  <2>3. Unparsable \in ToSet(af) <=> \E k \in 1 .. Len(p) - 1 : p[k] = Unparsable
    BY ONLY <2>1 DEF ToSet
  <2> QED BY ONLY <1>3, <2>2, <2>3 DEF G1Malformed, G1Fails
<1> QED BY <1>2, <1>3

\* G2Fails looks at every pair but the last.
LEMMA G2Reasons ==
    ASSUME NEW p \in G2List
    PROVE  G2Malformed(p) <=> G2Fails(p)
<1> DEFINE af     == affine_components(p)
           Bad(c) == Len(c) # 2 \/ Unparsable \in ToSet(c)
<1>1. p \in Seq(G1List)
  BY DEF G2List
<1>2. CASE p = <<>>
  BY <1>2 DEF G2Malformed, G2Fails
<1>3. CASE p # <<>>
  <2>1. /\ DOMAIN af = 1 .. Len(p) - 1
        /\ \A k \in 1 .. Len(p) - 1 : af[k] = p[k]
    BY <1>1, <1>3, AffinePart
  <2>2. Front(p) = af /\ Len(p) # 0
    BY <1>1, <1>3 DEF affine_components
  <2>3. G2Malformed(p) <=> \E c \in ToSet(af) : Bad(c)
    BY ONLY <2>2 DEF G2Malformed
  <2>4. G2Fails(p) <=> \E k \in 1 .. Len(p) - 1 : Bad(p[k])
    BY ONLY <1>3 DEF G2Fails
  <2> HIDE DEF af, Bad
  <2>5. (\E c \in ToSet(af) : Bad(c)) <=> \E k \in 1 .. Len(p) - 1 : Bad(p[k])
    BY ONLY <2>1 DEF ToSet
  <2> QED BY ONLY <2>3, <2>4, <2>5
<1> QED BY <1>2, <1>3

\* Two points have the same bytes just when their coordinates agree up to
\* multiples of the power of Base (delta_equals_gamma).
LEMMA SameG2 ==
    ASSUME NEW p \in G2List, NEW q \in G2List, ~G2Fails(p), ~G2Fails(q)
    PROVE  G2Bytes(p) = G2Bytes(q) <=> Affine(p) = Affine(q)
<1> DEFINE M == Power(Base, Size)
           Np == Len(p) - 1
           Nq == Len(q) - 1
<1>0. Size \in Nat /\ Size > 0
  BY SizeAssumption
<1>1. /\ Np \in Nat /\ Len(G2Bytes(p)) = 2 * Size * Np
      /\ \A k \in 1 .. Np :
            /\ p[k][1] \in Nat /\ p[k][2] \in Nat /\ Len(p[k]) = 2
            /\ Coordinate(G2Bytes(p), 2 * k - 1) = p[k][2] % M
            /\ Coordinate(G2Bytes(p), 2 * k) = p[k][1] % M
  BY G2Written
<1>2. /\ Nq \in Nat /\ Len(G2Bytes(q)) = 2 * Size * Nq
      /\ \A k \in 1 .. Nq :
            /\ q[k][1] \in Nat /\ q[k][2] \in Nat /\ Len(q[k]) = 2
            /\ Coordinate(G2Bytes(q), 2 * k - 1) = q[k][2] % M
            /\ Coordinate(G2Bytes(q), 2 * k) = q[k][1] % M
  BY G2Written
<1>3. /\ Affine(p) = [k \in 1 .. Np |-> [j \in 1 .. Len(p[k]) |-> p[k][j] % M]]
      /\ Affine(q) = [k \in 1 .. Nq |-> [j \in 1 .. Len(q[k]) |-> q[k][j] % M]]
  BY DEF Affine
<1> HIDE DEF M, Np, Nq
<1>4. ASSUME G2Bytes(p) = G2Bytes(q) PROVE Affine(p) = Affine(q)
  <2>1. Np = Nq
    <3>1. 2 * Size * Np = 2 * Size * Nq
      BY <1>1, <1>2, <1>4
    <3>2. \A m, x, y \in Nat : m > 0 /\ m * x = m * y => x = y
      OBVIOUS
    <3>3. 2 * Size \in Nat /\ 2 * Size > 0
      BY <1>0
    <3> QED BY ONLY <1>1, <1>2, <3>1, <3>2, <3>3
  <2>2. \A k \in 1 .. Np : /\ p[k][1] % M = q[k][1] % M /\ p[k][2] % M = q[k][2] % M
                           /\ Len(p[k]) = 2 /\ Len(q[k]) = 2
    BY <1>1, <1>2, <1>4, <2>1
  <2>3. \A k \in 1 .. Np : [j \in 1 .. Len(p[k]) |-> p[k][j] % M]
                              = [j \in 1 .. Len(q[k]) |-> q[k][j] % M]
    <3> TAKE k \in 1 .. Np
    <3>1. \A j \in 1 .. 2 : p[k][j] % M = q[k][j] % M
      BY <2>2
    <3>2. Len(p[k]) = 2 /\ Len(q[k]) = 2
      BY <2>2
    <3> QED BY ONLY <3>1, <3>2
  <2> QED BY ONLY <1>3, <2>1, <2>3
<1>5. ASSUME Affine(p) = Affine(q) PROVE G2Bytes(p) = G2Bytes(q)
  <2>1. Np = Nq
    <3>1. DOMAIN Affine(p) = 1 .. Np /\ DOMAIN Affine(q) = 1 .. Nq
      BY <1>3
    <3>2. 1 .. Np = 1 .. Nq
      BY <1>5, <3>1
    <3>3. \A x, y \in Nat : 1 .. x = 1 .. y => x <= y
      <4> SUFFICES ASSUME NEW x \in Nat, NEW y \in Nat, 1 .. x = 1 .. y, y < x
                   PROVE  FALSE
        OBVIOUS
      <4>1. x \in 1 .. x
        OBVIOUS
      <4>2. x \in 1 .. y
        BY <4>1
      <4> QED BY <4>2
    <3>4. Np <= Nq /\ Nq <= Np
      BY ONLY <1>1, <1>2, <3>2, <3>3
    <3> QED BY ONLY <1>1, <1>2, <3>4
  <2>2. \A k \in 1 .. Np : p[k][1] % M = q[k][1] % M /\ p[k][2] % M = q[k][2] % M
    <3> TAKE k \in 1 .. Np
    <3> DEFINE x == Affine(p)[k]
               y == Affine(q)[k]
    <3>1. x = [j \in 1 .. Len(p[k]) |-> p[k][j] % M] /\ Len(p[k]) = 2
      BY <1>1, <1>3
    <3>2. y = [j \in 1 .. Len(q[k]) |-> q[k][j] % M] /\ Len(q[k]) = 2
      BY <1>2, <1>3, <2>1
    <3>3. x = y
      BY <1>5
    <3> HIDE DEF x, y
    <3>4. x[1] = p[k][1] % M /\ x[2] = p[k][2] % M
      BY ONLY <3>1
    <3>5. y[1] = q[k][1] % M /\ y[2] = q[k][2] % M
      BY ONLY <3>2
    <3> QED BY <3>3, <3>4, <3>5
  <2> DEFINE g == G2Pieces(p)
             h == G2Pieces(q)
             D(v, j) == (v \div Power(Base, Size - j)) % Base
  <2>3. /\ G2Bytes(p) = FlattenSeq(g) /\ g \in Seq(Seq(Byte)) /\ Len(g) = Np
        /\ \A k \in 1 .. Np : /\ Len(g[k]) = 2 * Size
                              /\ \A j \in 1 .. Size : g[k][j] = D(p[k][2], j)
                                                      /\ g[k][Size + j] = D(p[k][1], j)
    BY G2Parts, Zenon DEF Np
  <2>4. /\ G2Bytes(q) = FlattenSeq(h) /\ h \in Seq(Seq(Byte)) /\ Len(h) = Nq
        /\ \A k \in 1 .. Nq : /\ Len(h[k]) = 2 * Size
                              /\ \A j \in 1 .. Size : h[k][j] = D(q[k][2], j)
                                                      /\ h[k][Size + j] = D(q[k][1], j)
    BY G2Parts, Zenon DEF Nq
  <2>5. \A v, w \in Nat : v % M = w % M => \A j \in 1 .. Size : D(v, j) = D(w, j)
    <3> SUFFICES ASSUME NEW v \in Nat, NEW w \in Nat, v % M = w % M, NEW j \in 1 .. Size
                 PROVE  D(v, j) = D(w, j)
      BY Zenon
    <3>1. ((v % Power(Base, Size)) \div Power(Base, Size - j)) % Base = D(v, j)
      BY <1>0, ResidueDigits, Zenon
    <3>2. ((w % Power(Base, Size)) \div Power(Base, Size - j)) % Base = D(w, j)
      BY <1>0, ResidueDigits, Zenon
    <3>3. v % Power(Base, Size) = w % Power(Base, Size)
      BY Zenon DEF M
    <3> HIDE DEF D
    <3> QED BY ONLY <3>1, <3>2, <3>3, Zenon
  <2> HIDE DEF g, h, D
  <2>6. \A k \in 1 .. Np : \A j \in 1 .. Size :
           g[k][j] = h[k][j] /\ g[k][Size + j] = h[k][Size + j]
    <3> TAKE k \in 1 .. Np
    <3> TAKE j \in 1 .. Size
    <3>1. k \in 1 .. Nq /\ k \in 1 .. Np /\ j \in 1 .. Size
      BY <2>1
    <3>2. p[k][1] \in Nat /\ p[k][2] \in Nat /\ q[k][1] \in Nat /\ q[k][2] \in Nat
      BY ONLY <1>1, <1>2, <3>1
    <3>3. D(p[k][1], j) = D(q[k][1], j) /\ D(p[k][2], j) = D(q[k][2], j)
      BY ONLY <2>2, <2>5, <3>1, <3>2, Zenon
    <3>4. g[k][j] = D(p[k][2], j) /\ g[k][Size + j] = D(p[k][1], j)
      BY ONLY <2>3, <3>1
    <3>5. h[k][j] = D(q[k][2], j) /\ h[k][Size + j] = D(q[k][1], j)
      BY ONLY <2>4, <3>1
    <3> QED BY ONLY <3>3, <3>4, <3>5
  <2>7. \A k \in 1 .. Np : g[k] = h[k]
    <3> TAKE k \in 1 .. Np
    <3> DEFINE x == g[k]
               y == h[k]
    <3>1. x \in Seq(Byte) /\ Len(x) = 2 * Size /\ y \in Seq(Byte) /\ Len(y) = 2 * Size
      BY ONLY <2>1, <2>3, <2>4, k \in 1 .. Np
    <3>2. \A j \in 1 .. 2 * Size : x[j] = y[j]
      <4> TAKE j \in 1 .. 2 * Size
      <4>1. CASE j <= Size
        <5>1. j \in 1 .. Size
          BY ONLY <4>1, <1>0, j \in 1 .. 2 * Size
        <5> QED BY ONLY <2>6, <5>1, k \in 1 .. Np
      <4>2. CASE ~(j <= Size)
        <5> DEFINE i == j - Size
        <5>1. i \in 1 .. Size /\ Size + i = j
          BY ONLY <4>2, <1>0, j \in 1 .. 2 * Size
        <5> HIDE DEF i
        <5>2. g[k][Size + i] = h[k][Size + i]
          BY ONLY <2>6, <5>1, k \in 1 .. Np
        <5> QED BY ONLY <5>1, <5>2
      <4> QED BY <4>1, <4>2
    <3> HIDE DEF x, y
    <3>3. x = y
      BY ONLY <3>1, <3>2, SeqEqual
    <3> QED BY <3>3 DEF x, y
  <2>8. g = h
    <3>1. Len(g) = Len(h) /\ \A k \in 1 .. Len(g) : g[k] = h[k]
      BY ONLY <2>1, <2>3, <2>4, <2>7
    <3>2. g \in Seq(Seq(Byte)) /\ h \in Seq(Seq(Byte))
      BY ONLY <2>3, <2>4
    <3> QED BY ONLY <3>1, <3>2, SeqEqual
  <2> QED BY ONLY <2>3, <2>4, <2>8
<1> QED BY <1>4, <1>5

-----------------------------------------------------------------------------
(***************************************************************************)
(* circom.rs: the invariant.                                               *)
(***************************************************************************)
\* The types of the fields of a file.
LEMMA FileTypes ==
    ASSUME raw_vk \in RawVerifyingKey
    PROVE  /\ raw_vk.alpha \in G1List /\ raw_vk.beta \in G2List
           /\ raw_vk.gamma \in G2List /\ raw_vk.delta \in G2List
           /\ raw_vk.ic \in Seq(G1List) /\ Len(raw_vk.ic) \in Nat
           /\ \A k \in 1 .. Len(raw_vk.ic) : raw_vk.ic[k] \in G1List
BY DEF RawVerifyingKey

\* The reasons, in the words of the parser.
LEMMA ReasonTold ==
    ASSUME raw_vk \in RawVerifyingKey
    PROVE  /\ BadBeforeIc <=> \/ Len(raw_vk.ic) = 0 \/ G1Fails(raw_vk.alpha)
                              \/ G2Fails(raw_vk.beta) \/ G2Fails(raw_vk.gamma)
                              \/ G2Fails(raw_vk.delta)
           /\ BadPoint <=> \E k \in 1 .. Len(raw_vk.ic) : G1Fails(raw_vk.ic[k])
<1>1. G1Malformed(raw_vk.alpha) <=> G1Fails(raw_vk.alpha)
  BY FileTypes, G1Reasons
<1>2. /\ G2Malformed(raw_vk.beta) <=> G2Fails(raw_vk.beta)
      /\ G2Malformed(raw_vk.gamma) <=> G2Fails(raw_vk.gamma)
      /\ G2Malformed(raw_vk.delta) <=> G2Fails(raw_vk.delta)
  BY FileTypes, G2Reasons
<1>3. \A k \in 1 .. Len(raw_vk.ic) : G1Malformed(raw_vk.ic[k]) <=> G1Fails(raw_vk.ic[k])
  BY FileTypes, G1Reasons
<1> QED BY <1>1, <1>2, <1>3 DEF BadBeforeIc, BadPoint

\* What is known of the file when delta is written.
LEMMA DeltaPassed ==
    ASSUME KeyIInv, Passed("delta")
    PROVE  /\ raw_vk.json /\ ~BadBeforeIc /\ ~(setup = "Production" /\ DeltaIsGamma)
           /\ G1Whole(key.alpha, raw_vk.alpha) /\ G2Whole(key.beta, raw_vk.beta)
           /\ G2Whole(key.gamma, raw_vk.gamma) /\ G2Whole(key.delta, raw_vk.delta)
           /\ key.nr_pubinputs + 1 = Len(raw_vk.ic)
<1>1. Passed("json") /\ Passed("alpha") /\ Passed("beta") /\ Passed("gamma")
  BY DEF Passed, Behind
<1>2. /\ raw_vk.json /\ key.nr_pubinputs + 1 = Len(raw_vk.ic)
      /\ G1Whole(key.alpha, raw_vk.alpha) /\ G2Whole(key.beta, raw_vk.beta)
      /\ G2Whole(key.gamma, raw_vk.gamma) /\ G2Whole(key.delta, raw_vk.delta)
      /\ ~(setup = "Production" /\ key.gamma = key.delta)
  BY <1>1 DEF KeyIInv
<1>3. raw_vk \in RawVerifyingKey /\ key.nr_pubinputs \in Nat
  BY DEF KeyIInv, KeyState
<1>4. ~BadBeforeIc
  BY <1>2, <1>3, FileTypes, ReasonTold DEF G1Whole, G2Whole
<1>5. DeltaIsGamma => key.gamma = key.delta
  <2>1. G2Bytes(raw_vk.delta) = G2Bytes(raw_vk.gamma)
           <=> Affine(raw_vk.delta) = Affine(raw_vk.gamma)
    BY <1>2, <1>3, FileTypes, SameG2 DEF G2Whole
  <2> QED BY <1>2, <2>1 DEF DeltaIsGamma, G2Whole
<1> QED BY <1>2, <1>4, <1>5

\* The parser starts in the invariant.
LEMMA KeyInitHolds == KeyInit => KeyIInv
<1> SUFFICES ASSUME KeyInit PROVE KeyIInv
  OBVIOUS
<1>1. raw_vk \in RawVerifyingKey /\ setup \in Kinds
  BY RawKeysAssumption, SetupsAssumption DEF KeyInit
<1>2. /\ key = [nr_pubinputs |-> 0, alpha |-> <<>>, beta |-> <<>>, gamma |-> <<>>,
                delta |-> <<>>, ic |-> <<>>]
      /\ field = "json" /\ err = "none"
  BY DEF KeyInit
<1>3. KeyState
  BY <1>1, <1>2 DEF KeyState, Fields, Errors
<1>4. ~Passed("json") /\ ~Passed("alpha") /\ ~Passed("beta") /\ ~Passed("gamma")
      /\ ~Passed("delta") /\ ~Passed("ic")
  BY <1>2 DEF Passed, Behind
<1>5. key.nr_pubinputs <= Len(raw_vk.ic) /\ Len(key.ic) = 0 /\ Len(key.ic) <= Len(raw_vk.ic)
  BY <1>1, <1>2, FileTypes
<1>6. \A k \in 1 .. Len(key.ic) : G1Whole(key.ic[k], raw_vk.ic[k])
  BY <1>5
<1>7. RefusedForItsReason
  BY <1>2 DEF RefusedForItsReason
<1> QED BY <1>2, <1>3, <1>4, <1>5, <1>6, <1>7 DEF KeyIInv

\* An error ends the run; it must be the reason.
LEMMA FailKeeps ==
    ASSUME KeyIInv, NEW e \in Errors, e # "none", e = Reason, Fail(e)
    PROVE  KeyIInv'
<1>1. err' = e /\ field' = "done" /\ raw_vk' = raw_vk /\ setup' = setup /\ key' = key
  BY DEF Fail
<1>2. KeyState'
  BY <1>1 DEF KeyIInv, KeyState, Fields
<1>3. /\ ~Passed("json")' /\ ~Passed("alpha")' /\ ~Passed("beta")' /\ ~Passed("gamma")'
      /\ ~Passed("delta")' /\ ~Passed("ic")'
  BY <1>1 DEF Passed
<1>4. Reason' = Reason
  BY <1>1 DEF Reason, BadBeforeIc, DeltaIsGamma, BadPoint
<1>5. RefusedForItsReason'
  BY <1>1, <1>4 DEF RefusedForItsReason
<1> QED BY <1>1, <1>2, <1>3, <1>5 DEF KeyIInv

\* A step that writes one field and goes on.
LEMMA PutFrame ==
    ASSUME KeyIInv, field # "done", NEW next \in Fields, next # "done",
           NEW f \in {"nr_pubinputs", "alpha", "beta", "gamma", "delta", "ic"}, NEW x,
           IF f = "nr_pubinputs" THEN x \in Nat
           ELSE IF f = "ic" THEN x \in Seq(Seq(Byte)) ELSE x \in Seq(Byte),
           Put(f, x, next)
    PROVE  /\ KeyState' /\ RefusedForItsReason' /\ err = "none" /\ err' = "none"
           /\ field' = next /\ raw_vk' = raw_vk /\ setup' = setup
           /\ key'[f] = x
           /\ \A h \in {"nr_pubinputs", "alpha", "beta", "gamma", "delta", "ic"} :
                 h # f => key'[h] = key[h]
<1>1. err = "none" /\ key \in [nr_pubinputs : Nat, alpha : Seq(Byte), beta : Seq(Byte),
                               gamma : Seq(Byte), delta : Seq(Byte), ic : Seq(Seq(Byte))]
  BY DEF KeyIInv, KeyState
<1>2. /\ key' = [key EXCEPT ![f] = x] /\ field' = next /\ err' = err
      /\ raw_vk' = raw_vk /\ setup' = setup
  BY DEF Put
<1>3. /\ key'[f] = x
      /\ \A h \in {"nr_pubinputs", "alpha", "beta", "gamma", "delta", "ic"} :
            h # f => key'[h] = key[h]
  BY <1>1, <1>2
<1>4. key' \in [nr_pubinputs : Nat, alpha : Seq(Byte), beta : Seq(Byte),
                gamma : Seq(Byte), delta : Seq(Byte), ic : Seq(Seq(Byte))]
  BY <1>1, <1>2
<1>5. KeyState'
  BY <1>1, <1>2, <1>4 DEF KeyIInv, KeyState
<1>6. RefusedForItsReason'
  BY <1>2 DEF RefusedForItsReason
<1> QED BY <1>1, <1>2, <1>3, <1>5, <1>6

\* One step, with the reason of each error and the bytes of each field.
LEMMA ParseJsonKeeps == ASSUME KeyIInv, ParseJson PROVE KeyIInv'
<1>1. field = "json" /\ raw_vk \in RawVerifyingKey /\ Len(raw_vk.ic) \in Nat
  BY FileTypes DEF ParseJson, KeyIInv, KeyState
<1>2. CASE ~raw_vk.json /\ Fail("JsonError")
  <2>1. "JsonError" = Reason
    BY <1>2 DEF Reason
  <2> QED BY <1>2, <2>1, FailKeeps DEF Errors
<1>3. CASE raw_vk.json /\ Len(raw_vk.ic) = 0 /\ Fail("InvalidData")
  <2>1. "InvalidData" = Reason
    BY <1>3 DEF Reason, BadBeforeIc
  <2> QED BY <1>3, <2>1, FailKeeps DEF Errors
<1>4. CASE /\ raw_vk.json /\ Len(raw_vk.ic) > 0
           /\ Put("nr_pubinputs", Len(raw_vk.ic) - 1, "alpha")
  <2>1. Len(raw_vk.ic) - 1 \in Nat
    BY <1>1, <1>4
  <2>2. "alpha" \in Fields
    BY DEF Fields
  <2>3. /\ KeyState' /\ RefusedForItsReason' /\ err = "none" /\ err' = "none"
        /\ field' = "alpha" /\ raw_vk' = raw_vk /\ setup' = setup
        /\ key'["nr_pubinputs"] = Len(raw_vk.ic) - 1
        /\ \A h \in {"nr_pubinputs", "alpha", "beta", "gamma", "delta", "ic"} :
              h # "nr_pubinputs" => key'[h] = key[h]
    BY <1>1, <1>4, <2>1, <2>2, PutFrame
  <2>4. /\ key'.alpha = key.alpha /\ key'.beta = key.beta /\ key'.gamma = key.gamma
        /\ key'.delta = key.delta /\ key'.ic = key.ic
        /\ key'.nr_pubinputs + 1 = Len(raw_vk.ic) /\ key'.nr_pubinputs <= Len(raw_vk.ic)
    BY <1>1, <2>3
  <2>5. /\ ~Passed("alpha")' /\ ~Passed("beta")' /\ ~Passed("gamma")'
        /\ ~Passed("delta")' /\ ~Passed("ic")'
    BY <2>3 DEF Passed, Behind
  <2> QED BY ONLY KeyIInv, <1>4, <2>3, <2>4, <2>5 DEF KeyIInv, G1Whole, G2Whole
<1> QED BY <1>2, <1>3, <1>4 DEF ParseJson

\* What was passed when a later field is reached.
LEMMA JsonPassed ==
    ASSUME KeyIInv, Passed("json")
    PROVE  raw_vk.json /\ raw_vk \in RawVerifyingKey /\ err = "none"
BY DEF KeyIInv, KeyState, Passed

\* alpha_g1 is written, or refused as malformed.
LEMMA AlphaG1Keeps == ASSUME KeyIInv, AlphaG1 PROVE KeyIInv'
<1>1. field = "alpha" /\ raw_vk \in RawVerifyingKey
  BY DEF AlphaG1, KeyIInv, KeyState
<1>2. err = "none" /\ Passed("json")
  BY <1>1 DEF KeyIInv, KeyState, Passed, Behind
<1>3. CASE G1Fails(raw_vk.alpha)
  <2>1. "InvalidData" = Reason
    BY <1>1, <1>2, <1>3, JsonPassed, ReasonTold DEF Reason
  <2>2. Fail("InvalidData")
    BY <1>3 DEF AlphaG1
  <2> QED BY <2>1, <2>2, FailKeeps DEF Errors
<1>4. CASE ~G1Fails(raw_vk.alpha)
  <2> DEFINE x == G1Bytes(raw_vk.alpha)
  <2>1. x \in Seq(Byte)
    BY <1>1, <1>4, FileTypes, G1Written
  <2>2. Put("alpha", x, "beta") /\ "beta" \in Fields
    BY <1>4 DEF AlphaG1, Fields
  <2>3. G1Whole(x, raw_vk.alpha)
    BY <1>4 DEF G1Whole
  <2> HIDE DEF x
  <2>4. /\ KeyState' /\ RefusedForItsReason' /\ err = "none" /\ err' = "none"
        /\ field' = "beta" /\ raw_vk' = raw_vk /\ setup' = setup
        /\ key'["alpha"] = x
        /\ \A h \in {"nr_pubinputs", "alpha", "beta", "gamma", "delta", "ic"} :
              h # "alpha" => key'[h] = key[h]
    BY <1>1, <2>1, <2>2, PutFrame
  <2>5. /\ key'.alpha = x /\ key'.beta = key.beta /\ key'.gamma = key.gamma
        /\ key'.delta = key.delta /\ key'.ic = key.ic
        /\ key'.nr_pubinputs = key.nr_pubinputs
    BY <2>4
  <2>6. /\ ~Passed("beta")' /\ ~Passed("gamma")' /\ ~Passed("delta")' /\ ~Passed("ic")'
    BY <2>4 DEF Passed, Behind
  <2> QED BY ONLY KeyIInv, <1>2, <2>3, <2>4, <2>5, <2>6 DEF KeyIInv, G1Whole, G2Whole
<1> QED BY <1>3, <1>4

\* beta_g2 is written, or refused as malformed.
LEMMA BetaG2Keeps == ASSUME KeyIInv, BetaG2 PROVE KeyIInv'
<1>1. field = "beta" /\ raw_vk \in RawVerifyingKey
  BY DEF BetaG2, KeyIInv, KeyState
<1>2. err = "none" /\ Passed("json") /\ Passed("alpha")
  BY <1>1 DEF KeyIInv, KeyState, Passed, Behind
<1>3. CASE G2Fails(raw_vk.beta)
  <2>1. "InvalidData" = Reason
    BY <1>1, <1>2, <1>3, JsonPassed, ReasonTold DEF Reason
  <2>2. Fail("InvalidData")
    BY <1>3 DEF BetaG2
  <2> QED BY <2>1, <2>2, FailKeeps DEF Errors
<1>4. CASE ~G2Fails(raw_vk.beta)
  <2> DEFINE x == G2Bytes(raw_vk.beta)
  <2>1. x \in Seq(Byte)
    BY <1>1, <1>4, FileTypes, G2Written
  <2>2. Put("beta", x, "gamma") /\ "gamma" \in Fields
    BY <1>4 DEF BetaG2, Fields
  <2>3. G2Whole(x, raw_vk.beta)
    BY <1>4 DEF G2Whole
  <2> HIDE DEF x
  <2>4. /\ KeyState' /\ RefusedForItsReason' /\ err = "none" /\ err' = "none"
        /\ field' = "gamma" /\ raw_vk' = raw_vk /\ setup' = setup
        /\ key'["beta"] = x
        /\ \A h \in {"nr_pubinputs", "alpha", "beta", "gamma", "delta", "ic"} :
              h # "beta" => key'[h] = key[h]
    BY <1>1, <2>1, <2>2, PutFrame
  <2>5. /\ key'.alpha = key.alpha /\ key'.beta = x /\ key'.gamma = key.gamma
        /\ key'.delta = key.delta /\ key'.ic = key.ic
        /\ key'.nr_pubinputs = key.nr_pubinputs
    BY <2>4
  <2>6. /\ ~Passed("gamma")' /\ ~Passed("delta")' /\ ~Passed("ic")'
    BY <2>4 DEF Passed, Behind
  <2> QED BY ONLY KeyIInv, <1>2, <2>3, <2>4, <2>5, <2>6 DEF KeyIInv, G1Whole, G2Whole
<1> QED BY <1>3, <1>4

\* gamma_g2 is written, or refused as malformed.
LEMMA GammaG2Keeps == ASSUME KeyIInv, GammaG2 PROVE KeyIInv'
<1>1. field = "gamma" /\ raw_vk \in RawVerifyingKey
  BY DEF GammaG2, KeyIInv, KeyState
<1>2. err = "none" /\ Passed("json") /\ Passed("alpha") /\ Passed("beta")
  BY <1>1 DEF KeyIInv, KeyState, Passed, Behind
<1>3. CASE G2Fails(raw_vk.gamma)
  <2>1. "InvalidData" = Reason
    BY <1>1, <1>2, <1>3, JsonPassed, ReasonTold DEF Reason
  <2>2. Fail("InvalidData")
    BY <1>3 DEF GammaG2
  <2> QED BY <2>1, <2>2, FailKeeps DEF Errors
<1>4. CASE ~G2Fails(raw_vk.gamma)
  <2> DEFINE x == G2Bytes(raw_vk.gamma)
  <2>1. x \in Seq(Byte)
    BY <1>1, <1>4, FileTypes, G2Written
  <2>2. Put("gamma", x, "delta") /\ "delta" \in Fields
    BY <1>4 DEF GammaG2, Fields
  <2>3. G2Whole(x, raw_vk.gamma)
    BY <1>4 DEF G2Whole
  <2> HIDE DEF x
  <2>4. /\ KeyState' /\ RefusedForItsReason' /\ err = "none" /\ err' = "none"
        /\ field' = "delta" /\ raw_vk' = raw_vk /\ setup' = setup
        /\ key'["gamma"] = x
        /\ \A h \in {"nr_pubinputs", "alpha", "beta", "gamma", "delta", "ic"} :
              h # "gamma" => key'[h] = key[h]
    BY <1>1, <2>1, <2>2, PutFrame
  <2>5. /\ key'.alpha = key.alpha /\ key'.beta = key.beta /\ key'.gamma = x
        /\ key'.delta = key.delta /\ key'.ic = key.ic
        /\ key'.nr_pubinputs = key.nr_pubinputs
    BY <2>4
  <2>6. /\ ~Passed("delta")' /\ ~Passed("ic")'
    BY <2>4 DEF Passed, Behind
  <2> QED BY ONLY KeyIInv, <1>2, <2>3, <2>4, <2>5, <2>6 DEF KeyIInv, G1Whole, G2Whole
<1> QED BY <1>3, <1>4

\* The bytes of delta are those of gamma just when one trapdoor serves both.
LEMMA DeltaG2Keeps == ASSUME KeyIInv, DeltaG2 PROVE KeyIInv'
<1>1. field = "delta" /\ raw_vk \in RawVerifyingKey
  BY DEF DeltaG2, KeyIInv, KeyState
<1>2. err = "none" /\ Passed("json") /\ Passed("alpha") /\ Passed("beta") /\ Passed("gamma")
  BY <1>1 DEF KeyIInv, KeyState, Passed, Behind
<1> DEFINE x == G2Bytes(raw_vk.delta)
<1>3. CASE G2Fails(raw_vk.delta) /\ Fail("InvalidData")
  <2>1. "InvalidData" = Reason
    BY <1>1, <1>2, <1>3, JsonPassed, ReasonTold DEF Reason
  <2> QED BY <1>3, <2>1, FailKeeps DEF Errors
<1>4. CASE ~G2Fails(raw_vk.delta) /\ Forgeable(x) /\ Fail("ForgeableProductionVk")
  <2>1. /\ raw_vk.json /\ key.nr_pubinputs + 1 = Len(raw_vk.ic) /\ key.nr_pubinputs \in Nat
        /\ G1Whole(key.alpha, raw_vk.alpha) /\ G2Whole(key.beta, raw_vk.beta)
        /\ G2Whole(key.gamma, raw_vk.gamma)
    BY <1>2 DEF KeyIInv, KeyState
  <2>2. ~BadBeforeIc
    BY <1>1, <1>4, <2>1, FileTypes, ReasonTold DEF G1Whole, G2Whole
  <2>3. setup = "Production" /\ DeltaIsGamma
    <3>1. G2Bytes(raw_vk.delta) = G2Bytes(raw_vk.gamma)
             <=> Affine(raw_vk.delta) = Affine(raw_vk.gamma)
      BY <1>1, <1>4, <2>1, FileTypes, SameG2 DEF G2Whole
    <3> QED BY <1>4, <2>1, <3>1 DEF DeltaIsGamma, Forgeable, G2Whole
  <2>4. "ForgeableProductionVk" = Reason
    BY <2>1, <2>2, <2>3 DEF Reason
  <2> QED BY <1>4, <2>4, FailKeeps DEF Errors
<1>5. CASE ~G2Fails(raw_vk.delta) /\ ~Forgeable(x) /\ Put("delta", x, "ic")
  <2>1. x \in Seq(Byte)
    BY <1>1, <1>5, FileTypes, G2Written
  <2>2. Put("delta", x, "ic") /\ "ic" \in Fields
    BY <1>5 DEF Fields
  <2>3. G2Whole(x, raw_vk.delta) /\ ~(setup = "Production" /\ key.gamma = x)
    BY <1>5 DEF G2Whole, Forgeable
  <2> HIDE DEF x
  <2>4. /\ KeyState' /\ RefusedForItsReason' /\ err = "none" /\ err' = "none"
        /\ field' = "ic" /\ raw_vk' = raw_vk /\ setup' = setup
        /\ key'["delta"] = x
        /\ \A h \in {"nr_pubinputs", "alpha", "beta", "gamma", "delta", "ic"} :
              h # "delta" => key'[h] = key[h]
    BY <1>1, <2>1, <2>2, PutFrame
  <2>5. /\ key'.alpha = key.alpha /\ key'.beta = key.beta /\ key'.gamma = key.gamma
        /\ key'.delta = x /\ key'.ic = key.ic
        /\ key'.nr_pubinputs = key.nr_pubinputs
    BY <2>4
  <2>6. ~Passed("ic")'
    BY <2>4 DEF Passed, Behind
  <2> QED BY ONLY KeyIInv, <1>2, <2>3, <2>4, <2>5, <2>6 DEF KeyIInv, G1Whole, G2Whole
<1> QED BY <1>3, <1>4, <1>5 DEF DeltaG2

\* A point of IC is appended, or refused as malformed.
LEMMA IcPointKeeps == ASSUME KeyIInv, IcPoint PROVE KeyIInv'
<1> DEFINE n0 == Len(key.ic)
           pt == raw_vk.ic[n0 + 1]
           x  == G1Bytes(pt)
           ys == Append(key.ic, x)
<1>1. /\ field = "ic" /\ raw_vk \in RawVerifyingKey /\ key.ic \in Seq(Seq(Byte))
      /\ n0 < Len(raw_vk.ic) /\ n0 \in Nat
  BY DEF IcPoint, KeyIInv, KeyState
<1>2. /\ err = "none" /\ Passed("json") /\ Passed("alpha") /\ Passed("beta")
      /\ Passed("gamma") /\ Passed("delta")
  BY <1>1 DEF KeyIInv, KeyState, Passed, Behind
<1>3. n0 + 1 \in 1 .. Len(raw_vk.ic) /\ pt \in G1List
  BY <1>1, FileTypes
<1>4. CASE G1Fails(pt)
  <2>1. BadPoint
    BY <1>1, <1>3, <1>4, ReasonTold
  <2>2. "InvalidData" = Reason
    BY <1>2, <2>1, DeltaPassed DEF Reason
  <2>3. Fail("InvalidData")
    BY <1>4 DEF IcPoint
  <2> QED BY <2>2, <2>3, FailKeeps DEF Errors
<1>5. CASE ~G1Fails(pt)
  <2>1. x \in Seq(Byte)
    BY <1>3, <1>5, G1Written
  <2>2. Put("ic", ys, "ic") /\ "ic" \in Fields
    BY <1>5 DEF IcPoint, Fields
  <2>3. G1Whole(x, pt)
    BY <1>5 DEF G1Whole
  <2> HIDE DEF x
  <2>4. /\ ys \in Seq(Seq(Byte)) /\ Len(ys) = n0 + 1 /\ ys[n0 + 1] = x
        /\ \A k \in 1 .. n0 : ys[k] = key.ic[k]
    BY <1>1, <2>1
  <2> HIDE DEF ys
  <2>5. /\ KeyState' /\ RefusedForItsReason' /\ err = "none" /\ err' = "none"
        /\ field' = "ic" /\ raw_vk' = raw_vk /\ setup' = setup
        /\ key'["ic"] = ys
        /\ \A h \in {"nr_pubinputs", "alpha", "beta", "gamma", "delta", "ic"} :
              h # "ic" => key'[h] = key[h]
    BY <1>1, <2>2, <2>4, PutFrame
  <2>6. /\ key'.alpha = key.alpha /\ key'.beta = key.beta /\ key'.gamma = key.gamma
        /\ key'.delta = key.delta /\ key'.ic = ys
        /\ key'.nr_pubinputs = key.nr_pubinputs
    BY <2>5
  <2>7. ~Passed("ic")'
    BY <2>5 DEF Passed, Behind
  <2>8. Len(ys) <= Len(raw_vk.ic)
    BY <1>3, <2>4
  <2>9. \A k \in 1 .. Len(ys) : G1Whole(ys[k], raw_vk.ic[k])
    <3>1. \A k \in 1 .. n0 : G1Whole(key.ic[k], raw_vk.ic[k])
      BY DEF KeyIInv
    <3> HIDE DEF pt
    <3>2. ASSUME NEW k \in 1 .. Len(ys) PROVE k = n0 + 1 \/ k \in 1 .. n0
      BY <1>1, <2>4
    <3>3. ASSUME NEW k \in 1 .. n0 PROVE G1Whole(ys[k], raw_vk.ic[k])
      BY <2>4, <3>1, <3>3
    <3>4. G1Whole(ys[n0 + 1], raw_vk.ic[n0 + 1])
      BY <2>3, <2>4 DEF pt
    <3> HIDE DEF n0
    <3> QED BY <3>2, <3>3, <3>4
  <2> HIDE DEF n0, pt
  <2> QED BY ONLY KeyIInv, <1>2, <2>5, <2>6, <2>7, <2>8, <2>9 DEF KeyIInv, G1Whole, G2Whole
<1> QED BY <1>4, <1>5

\* Nothing is left to refuse when the loop ends.
LEMMA FinishKeeps == ASSUME KeyIInv, Finish PROVE KeyIInv'
<1>1. /\ field = "ic" /\ Len(key.ic) = Len(raw_vk.ic) /\ field' = "done"
      /\ raw_vk' = raw_vk /\ setup' = setup /\ key' = key /\ err' = err
      /\ raw_vk \in RawVerifyingKey
  BY DEF Finish, KeyIInv, KeyState
<1>2. /\ err = "none" /\ Passed("json") /\ Passed("alpha") /\ Passed("beta")
      /\ Passed("gamma") /\ Passed("delta")
  BY <1>1 DEF KeyIInv, KeyState, Passed, Behind
<1>3. ~BadPoint
  <2>1. \A k \in 1 .. Len(raw_vk.ic) : ~G1Fails(raw_vk.ic[k])
    BY <1>1 DEF KeyIInv, G1Whole
  <2> QED BY <1>1, <2>1, ReasonTold
<1>4. Reason = "none"
  BY <1>2, <1>3, DeltaPassed DEF Reason
<1>5. Reason' = Reason
  BY <1>1 DEF Reason, BadBeforeIc, DeltaIsGamma, BadPoint
<1>6. RefusedForItsReason'
  BY <1>1, <1>2, <1>4, <1>5 DEF RefusedForItsReason
<1>7. KeyState'
  BY <1>1, <1>2 DEF KeyIInv, KeyState, Fields
<1> QED BY ONLY KeyIInv, <1>1, <1>2, <1>6, <1>7 DEF KeyIInv, G1Whole, G2Whole

\* Every step keeps the invariant.
LEMMA KeyStepKeeps == ASSUME KeyIInv, [KeyNext]_keyVars PROVE KeyIInv'
<1>1. CASE UNCHANGED keyVars
  <2>1. raw_vk' = raw_vk /\ setup' = setup /\ field' = field /\ key' = key /\ err' = err
    BY <1>1 DEF keyVars
  <2> QED BY <2>1 DEF KeyIInv, KeyState, Passed, G1Whole, G2Whole, RefusedForItsReason,
                      Reason, BadBeforeIc, DeltaIsGamma, BadPoint
<1> QED BY <1>1, ParseJsonKeeps, AlphaG1Keeps, BetaG2Keeps, GammaG2Keeps, DeltaG2Keeps,
           IcPointKeeps, FinishKeeps DEF KeyNext

-----------------------------------------------------------------------------
(***************************************************************************)
(* circom.rs: the theorems.                                                *)
(***************************************************************************)
\* At every step of parse_vk_json_to_rust_string what is written is the bytes
\* of its field, which is not malformed, and every field that was passed is
\* written.
THEOREM KeyInvariant == KeySpec => []KeyIInv
<1>1. KeyInit => KeyIInv
  BY KeyInitHolds
<1>2. KeyIInv /\ [KeyNext]_keyVars => KeyIInv'
  BY KeyStepKeeps
<1> QED BY <1>1, <1>2, PTL DEF KeySpec

\* Each array the parser writes has Size bytes for each coordinate of the
\* file, whatever the lengths of its lists and whatever its numbers.
THEOREM KeyTypeCorrect == KeySpec => []KeyTypeOK
<1>1. ASSUME KeyIInv PROVE KeyTypeOK
  <2>1. /\ setup \in Kinds /\ err \in Errors /\ field \in Fields
        /\ raw_vk \in RawVerifyingKey
        /\ key.nr_pubinputs \in Nat /\ key.nr_pubinputs <= Len(raw_vk.ic)
        /\ Len(key.ic) <= Len(raw_vk.ic) /\ key.ic \in Seq(Seq(Byte))
    BY <1>1 DEF KeyIInv, KeyState
  <2>2. key.alpha # <<>> => Len(key.alpha) = Size * (Len(raw_vk.alpha) - 1)
    BY <1>1, <2>1, FileTypes, G1Written DEF KeyIInv, G1Whole
  <2>3. /\ key.beta # <<>> => Len(key.beta) = 2 * Size * (Len(raw_vk.beta) - 1)
        /\ key.gamma # <<>> => Len(key.gamma) = 2 * Size * (Len(raw_vk.gamma) - 1)
        /\ key.delta # <<>> => Len(key.delta) = 2 * Size * (Len(raw_vk.delta) - 1)
    BY <1>1, <2>1, FileTypes, G2Written DEF KeyIInv, G2Whole
  <2>4. \A k \in 1 .. Len(key.ic) : Len(key.ic[k]) = Size * (Len(raw_vk.ic[k]) - 1)
    <3>1. ASSUME NEW k \in 1 .. Len(key.ic)
          PROVE  Len(key.ic[k]) = Size * (Len(raw_vk.ic[k]) - 1)
      <4>1. k \in 1 .. Len(raw_vk.ic)
        BY <2>1, <3>1, FileTypes
      <4>2. raw_vk.ic[k] \in G1List /\ G1Whole(key.ic[k], raw_vk.ic[k])
        BY <1>1, <2>1, <4>1, <3>1, FileTypes DEF KeyIInv
      <4> QED BY <4>2, G1Written DEF G1Whole
    <3> QED BY <3>1
  <2>5. key.nr_pubinputs \in 0 .. Len(raw_vk.ic)
    BY <2>1, FileTypes
  <2> QED BY <2>1, <2>2, <2>3, <2>4, <2>5 DEF KeyTypeOK
<1> QED BY <1>1, KeyInvariant, PTL

\* Arrays of the right length come from points of two coordinates.
LEMMA TwoCoordinates ==
    ASSUME NEW c \in Nat, NEW len \in Nat, NEW m \in Nat, m > 0,
           len = m * c, len = m * 2
    PROVE  c = 2
BY \A x, y, z \in Nat : z > 0 /\ z * x = z * y => x = y

\* A source that compiles holds the file's coordinates, each in its place and
\* in the order of the syscalls, up to multiples of 2^256
\* (bigint_string_to_be_bytes, process_g2_component).
THEOREM CompiledKeyIsFile == KeySpec => []CompiledKeyIsTheFile
<1>1. ASSUME KeyIInv, SourceCompiles PROVE CompiledKeyIsTheFile
  <2> DEFINE M == Power(Base, Size)
  <2>0. Size \in Nat /\ Size > 0
    BY SizeAssumption
  <2>1. /\ raw_vk \in RawVerifyingKey /\ field = "done" /\ err = "none"
        /\ Passed("delta") /\ Passed("ic")
    BY <1>1 DEF KeyIInv, KeyState, SourceCompiles, Accepted, Passed, Behind
  <2>2. /\ G1Whole(key.alpha, raw_vk.alpha) /\ G2Whole(key.beta, raw_vk.beta)
        /\ G2Whole(key.gamma, raw_vk.gamma) /\ G2Whole(key.delta, raw_vk.delta)
        /\ key.nr_pubinputs + 1 = Len(raw_vk.ic)
    BY <1>1, <2>1, DeltaPassed
  <2>3. /\ Len(key.ic) = Len(raw_vk.ic)
        /\ \A k \in 1 .. Len(key.ic) : /\ G1Whole(key.ic[k], raw_vk.ic[k])
                                       /\ raw_vk.ic[k] \in G1List
    BY <1>1, <2>1, FileTypes DEF KeyIInv
  <2>4. ASSUME NEW p \in G1List, NEW s, G1Whole(s, p), Len(s) = 2 * Size
        PROVE  \A k \in 1 .. 2 : Coordinate(s, k) = p[k] % M
    <3>1. ~G1Fails(p) /\ s = G1Bytes(p)
      BY <2>4 DEF G1Whole
    <3> DEFINE c == Len(p) - 1
               z == Len(s)
    <3>2. /\ c \in Nat /\ s \in Seq(Byte) /\ z = Size * c
          /\ \A k \in 1 .. c : Coordinate(s, k) = p[k] % M
      <4>1. /\ Len(p) - 1 \in Nat
            /\ G1Bytes(p) \in Seq(Byte) /\ Len(G1Bytes(p)) = Size * (Len(p) - 1)
            /\ \A k \in 1 .. Len(p) - 1 :
                  p[k] \in Nat /\ Coordinate(G1Bytes(p), k) = p[k] % Power(Base, Size)
        BY <2>4, <3>1, G1Written
      <4> QED BY ONLY <3>1, <4>1, Zenon DEF c, z, M
    <3>3. z \in Nat /\ z = Size * 2
      BY <2>0, <2>4, <3>2
    <3>4. /\ c \in Nat /\ z \in Nat /\ z = Size * c /\ z = Size * 2
          /\ \A k \in 1 .. c : Coordinate(s, k) = p[k] % M
      BY <3>2, <3>3, Zenon
    <3> HIDE DEF c, z, M
    <3>5. c = 2
      BY <2>0, <3>4, TwoCoordinates
    <3> QED BY ONLY <3>4, <3>5
  <2>5. ASSUME NEW p \in G2List, NEW s, G2Whole(s, p), Len(s) = 4 * Size
        PROVE  \A k \in 1 .. 2 : /\ Coordinate(s, 2 * k - 1) = p[k][2] % M
                                 /\ Coordinate(s, 2 * k) = p[k][1] % M
    <3>1. ~G2Fails(p) /\ s = G2Bytes(p)
      BY <2>5 DEF G2Whole
    <3> DEFINE c == Len(p) - 1
               z == Len(s)
               m == 2 * Size
    <3>2. /\ c \in Nat /\ s \in Seq(Byte) /\ z = m * c
          /\ \A k \in 1 .. c : /\ Coordinate(s, 2 * k - 1) = p[k][2] % M
                               /\ Coordinate(s, 2 * k) = p[k][1] % M
      <4>1. /\ Len(p) - 1 \in Nat
            /\ G2Bytes(p) \in Seq(Byte) /\ Len(G2Bytes(p)) = 2 * Size * (Len(p) - 1)
            /\ \A k \in 1 .. Len(p) - 1 :
                  /\ p[k][1] \in Nat /\ p[k][2] \in Nat /\ Len(p[k]) = 2
                  /\ Coordinate(G2Bytes(p), 2 * k - 1) = p[k][2] % Power(Base, Size)
                  /\ Coordinate(G2Bytes(p), 2 * k) = p[k][1] % Power(Base, Size)
        BY <2>5, <3>1, G2Written
      <4> QED BY ONLY <3>1, <4>1, Zenon DEF c, z, m, M
    <3>3. z \in Nat /\ z = m * 2 /\ m \in Nat /\ m > 0
      BY <2>0, <2>5, <3>2
    <3>4. /\ c \in Nat /\ z \in Nat /\ z = m * c /\ z = m * 2 /\ m \in Nat /\ m > 0
          /\ \A k \in 1 .. c : /\ Coordinate(s, 2 * k - 1) = p[k][2] % M
                               /\ Coordinate(s, 2 * k) = p[k][1] % M
      BY <3>2, <3>3, Zenon
    <3> HIDE DEF c, z, m, M
    <3>5. c = 2
      BY <3>4, TwoCoordinates
    <3> QED BY ONLY <3>4, <3>5
  <2>6. \A k \in 1 .. 2 : Coordinate(key.alpha, k) = raw_vk.alpha[k] % M
    BY <1>1, <2>1, <2>2, <2>4, FileTypes DEF SourceCompiles
  <2>7. \A f \in {"beta", "gamma", "delta"} : \A k \in 1 .. 2 :
           /\ Coordinate(key[f], 2 * k - 1) = raw_vk[f][k][2] % M
           /\ Coordinate(key[f], 2 * k) = raw_vk[f][k][1] % M
    <3>1. \A f \in {"beta", "gamma", "delta"} :
             raw_vk[f] \in G2List /\ G2Whole(key[f], raw_vk[f]) /\ Len(key[f]) = 4 * Size
      BY <1>1, <2>1, <2>2, FileTypes DEF SourceCompiles
    <3> QED BY <2>5, <3>1
  <2>8. \A k \in 1 .. Len(key.ic) : \A j \in 1 .. 2 :
           Coordinate(key.ic[k], j) = raw_vk.ic[k][j] % M
    <3>1. \A k \in 1 .. Len(key.ic) : Len(key.ic[k]) = 2 * Size
      BY <1>1 DEF SourceCompiles
    <3> QED BY <2>3, <2>4, <3>1
  <2> QED BY <2>2, <2>3, <2>6, <2>7, <2>8 DEF CompiledKeyIsTheFile, G1Is, G2Is, Kept
<1>2. KeyIInv => CompiledKeyIsTheFile
  BY <1>1 DEF CompiledKeyIsTheFile
<1> QED BY <1>2, KeyInvariant, PTL

\* A file is refused exactly for what is wrong with it, and a production key
\* whose delta is its gamma is refused as forgeable unless something before IC
\* is malformed (VkParseError).
THEOREM RefusedIsForItsReason == KeySpec => []RefusedForItsReason
<1>1. KeyIInv => RefusedForItsReason
  BY DEF KeyIInv
<1> QED BY <1>1, KeyInvariant, PTL

=============================================================================
