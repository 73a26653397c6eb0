----------------------- MODULE Groth16VerifierProofs -----------------------
(***************************************************************************)
(* For every group order, every key, every proof and every number of       *)
(* public inputs: Groth16Verifier keeps its type invariant, answers every  *)
(* call with the outcome that Groth16Statement defines, accepts exactly    *)
(* the valid proofs, and implements Groth16Spec.                           *)
(***************************************************************************)
EXTENDS Groth16VerifierProps, WellFoundedInduction, TLAPS

-----------------------------------------------------------------------------
(***************************************************************************)
(* Induction, and remainders.                                              *)
(***************************************************************************)
\* A non-empty set of natural numbers has a least element (used for the
\* first input that stops the loop of prepare_inputs, and for induction).
LEMMA LeastNat ==
    ASSUME NEW T \in SUBSET Nat, T # {}
    PROVE  \E m \in T : \A k \in T : m <= k
<1> DEFINE R == {ss \in Nat \X Nat : ss[1] < ss[2]}
<1>1. IsWellFoundedOn(R, Nat)
  BY NatLessThanWellFounded DEF OpToRel
<1>2. \A x, y \in Nat : x < y => <<x, y>> \in R
  OBVIOUS
<1> HIDE DEF R
<1>3. PICK m \in T : \A y \in T : ~ (<<y, m>> \in R)
  <2>1. \E m \in T : \A y \in T : ~ (<<y, m>> \in R)
    BY <1>1, WFMin
  <2> QED BY <2>1
<1>4. \A k \in T : ~ (k < m)
  BY <1>2, <1>3
<1>5. \A k \in T : m <= k
  BY <1>4
<1> QED BY <1>5

\* Induction: a set of natural numbers that holds 0 and with n also n + 1
\* holds them all.
LEMMA SetInduction ==
    ASSUME NEW S \in SUBSET Nat, 0 \in S, \A n \in S : n + 1 \in S
    PROVE  S = Nat
<1>1. SUFFICES ASSUME Nat \ S # {} PROVE FALSE
  OBVIOUS
<1>2. PICK m \in Nat \ S : \A k \in Nat \ S : m <= k
  BY <1>1, LeastNat
<1>3. m - 1 \in Nat /\ m - 1 \in S
  BY <1>2
<1> QED BY <1>2, <1>3

\* Division with remainder.
LEMMA DivMod ==
    ASSUME NEW m \in Nat, m > 0, NEW x \in Int
    PROVE  /\ x % m \in Int /\ x \div m \in Int
           /\ 0 <= x % m /\ x % m < m
           /\ x = m * (x \div m) + (x % m)
OBVIOUS

\* Two remainders that differ by a multiple of the modulus are equal.
LEMMA RemainderUnique ==
    ASSUME NEW m \in Nat, m > 0, NEW u \in Int, NEW v \in Int, NEW q \in Int,
           0 <= u, u < m, 0 <= v, v < m, u = m * q + v
    PROVE  u = v
<1>1. CASE q = 0 BY <1>1
<1>2. CASE q >= 1
  <2>1. m * q >= m BY <1>2
  <2> QED BY <2>1
<1>3. CASE q <= -1
  <2>1. m * q <= -m BY <1>3
  <2> QED BY <2>1
<1> QED BY <1>1, <1>2, <1>3

\* Reducing a summand first does not change the reduced sum: the syscalls
\* reduce after every operation, the statement of Groth16 only once.
LEMMA ModAdd ==
    ASSUME NEW m \in Nat, m > 0, NEW x \in Int, NEW y \in Int
    PROVE  ((x % m) + y) % m = (x + y) % m
<1> DEFINE u == ((x % m) + y) % m
           v == (x + y) % m
           a == x \div m
           b == ((x % m) + y) \div m
           c == (x + y) \div m
<1>1. x = m * a + (x % m) /\ a \in Int /\ x % m \in Int
  BY DivMod
<1>2. (x % m) + y = m * b + u /\ b \in Int /\ u \in Int /\ 0 <= u /\ u < m
  BY <1>1, DivMod
<1>3. x + y = m * c + v /\ c \in Int /\ v \in Int /\ 0 <= v /\ v < m
  BY DivMod
<1> HIDE DEF u, v, a, b, c
<1>4. v - u = m * a + m * b - m * c
  BY <1>1, <1>2, <1>3
<1>5. m * a + m * b - m * c = m * (a + b - c)
  BY <1>1, <1>2, <1>3
<1>6. v = m * (a + b - c) + u
  BY <1>2, <1>3, <1>4, <1>5
<1>7. v = u
  BY <1>1, <1>2, <1>3, <1>6, RemainderUnique
<1> QED BY <1>7 DEF u, v

-----------------------------------------------------------------------------
(***************************************************************************)
(* The syscalls.                                                           *)
(***************************************************************************)

\* The sum of two points is a point.
LEMMA AdditionType ==
    ASSUME NEW p \in Points, NEW q \in Points
    PROVE  g1_addition_be(p, q) \in Points
<1>1. r \in Nat /\ r > 0
  BY OrderAssumption
<1>2. p + q \in Int
  BY <1>1 DEF Points
<1> QED BY <1>1, <1>2, DivMod DEF g1_addition_be, Points

\* A multiple of a point is a point.
LEMMA MultiplicationType ==
    ASSUME NEW p \in Points, NEW s \in Nat
    PROVE  g1_multiplication_be(p, s) \in Points
<1>1. r \in Nat /\ r > 0
  BY OrderAssumption
<1>2. p * s \in Int
  BY <1>1 DEF Points
<1> QED BY <1>1, <1>2, DivMod DEF g1_multiplication_be, Points

\* One step of the multi-scalar multiplication (g1_mul_add) adds the product
\* to the accumulator, reduced once.
LEMMA MulAddIsStep ==
    ASSUME NEW p \in Points, NEW s \in Nat, NEW a \in Points
    PROVE  /\ g1_mul_add(p, s, a) = (a + s * p) % r
           /\ g1_mul_add(p, s, a) \in Points
<1> DEFINE x == p * s
<1>1. r \in Nat /\ r > 0 /\ p \in Nat /\ a \in Nat /\ a \in Int
  BY OrderAssumption DEF Points
<1>2. x \in Int /\ x + a = a + s * p
  BY <1>1
<1>3. ((x % r) + a) % r = (x + a) % r
  <2> HIDE DEF x
  <2> QED BY <1>1, <1>2, ModAdd
<1>4. g1_mul_add(p, s, a) = (a + s * p) % r
  BY <1>2, <1>3 DEF g1_mul_add, g1_addition_be, g1_multiplication_be
<1>5. g1_mul_add(p, s, a) \in Points
  BY AdditionType, MultiplicationType DEF g1_mul_add
<1> QED BY <1>4, <1>5

\* Reducing two summands does not change the reduced sum.
LEMMA ModAdd2 ==
    ASSUME NEW x \in Int, NEW y \in Int
    PROVE  ((x % r) + (y % r)) % r = (x + y) % r
<1>1. r \in Nat /\ r > 0
  BY OrderAssumption
<1>2. x % r \in Int /\ y % r \in Int
  BY <1>1, DivMod
<1>3. ((x % r) + (y % r)) % r = (x + (y % r)) % r
  BY <1>1, <1>2, ModAdd
<1>4. x + (y % r) = (y % r) + x /\ y + x = x + y
  BY <1>2
<1>5. ((y % r) + x) % r = (y + x) % r
  BY <1>1, ModAdd
<1> QED BY <1>3, <1>4, <1>5

\* The 2-pair pairing check of verify_commitment_pok is one equation.
LEMMA PairingOfTwo ==
    ASSUME NEW p1 \in Int, NEW q1 \in Int, NEW p2 \in Int, NEW q2 \in Int
    PROVE  PairingOfTwoIsOne(p1, q1, p2, q2) <=> (p1 * q1 + p2 * q2) % r = 0
<1>1. p1 * q1 \in Int /\ p2 * q2 \in Int
  OBVIOUS
<1> QED BY <1>1, ModAdd2 DEF PairingOfTwoIsOne, e

\* The product of the four pairings of verify_common, reduced at the end.
LEMMA ModAdd4 ==
    ASSUME NEW x \in Int, NEW y \in Int, NEW z \in Int, NEW t \in Int
    PROVE  ((x % r) + (y % r) + (z % r) + (t % r)) % r = (x + y + z + t) % r
<1>1. r \in Nat /\ r > 0
  BY OrderAssumption
<1>2. x % r \in Int /\ y % r \in Int /\ z % r \in Int /\ t % r \in Int
  BY <1>1, DivMod
<1>3. ((x % r) + (y % r) + (z % r) + (t % r)) % r
      = (x + ((y % r) + (z % r) + (t % r))) % r
  <2>1. (x % r) + (y % r) + (z % r) + (t % r)
        = (x % r) + ((y % r) + (z % r) + (t % r))
    BY <1>2
  <2>2. (y % r) + (z % r) + (t % r) \in Int
    BY <1>2
  <2>3. ((x % r) + ((y % r) + (z % r) + (t % r))) % r
        = (x + ((y % r) + (z % r) + (t % r))) % r
    BY <1>1, <2>2, ModAdd
  <2> QED BY <2>1, <2>3
<1>4. (x + ((y % r) + (z % r) + (t % r))) % r
      = (y + (x + (z % r) + (t % r))) % r
  <2>1. x + ((y % r) + (z % r) + (t % r)) = (y % r) + (x + (z % r) + (t % r))
    BY <1>1, <1>2
  <2>2. x + (z % r) + (t % r) \in Int
    BY <1>1, <1>2
  <2>3. ((y % r) + (x + (z % r) + (t % r))) % r
        = (y + (x + (z % r) + (t % r))) % r
    BY <1>1, <2>2, ModAdd
  <2> QED BY <2>1, <2>3
<1>5. (y + (x + (z % r) + (t % r))) % r = ((x + y) + (z + t)) % r
  <2>1. y + (x + (z % r) + (t % r)) = (z % r) + (x + y + (t % r))
    BY <1>1, <1>2
  <2>2. x + y + (t % r) \in Int
    BY <1>1, <1>2
  <2>3. ((z % r) + (x + y + (t % r))) % r = (z + (x + y + (t % r))) % r
    BY <1>1, <2>2, ModAdd
  <2>4. z + (x + y + (t % r)) = (t % r) + (x + y + z) /\ x + y + z \in Int
    BY <1>1, <1>2
  <2>5. ((t % r) + (x + y + z)) % r = (t + (x + y + z)) % r
    BY <1>1, <2>4, ModAdd
  <2>6. t + (x + y + z) = (x + y) + (z + t)
    BY <1>1
  <2> QED BY <2>1, <2>3, <2>4, <2>5, <2>6
<1>6. (x + y) + (z + t) = x + y + z + t
  BY <1>1
<1> QED BY <1>3, <1>4, <1>5, <1>6

-----------------------------------------------------------------------------
(***************************************************************************)
(* The linear combination of the columns of the key.                       *)
(***************************************************************************)

\* The empty combination is the constant column.
LEMMA SumZero ==
    ASSUME NEW ic, NEW w, ic[1] \in Points
    PROVE  IsSum(ic[1], ic, w, 0)
<1> DEFINE s == [j \in 0 .. 0 |-> ic[1]]
<1>1. s \in [0 .. 0 -> Points] /\ s[0] = ic[1]
  OBVIOUS
<1>2. ArePartialSums(s, ic, w, 0)
  BY <1>1 DEF ArePartialSums
<1>3. \A j \in 1 .. 0 + 1 : ic[j] \in Points
  OBVIOUS
<1> QED BY <1>1, <1>2, <1>3 DEF IsSum

\* One iteration of prepare_inputs extends the combination by one wire.
LEMMA SumStep ==
    ASSUME NEW ic, NEW w, NEW n \in Nat, NEW a \in Points, IsSum(a, ic, w, n),
           ic[n + 2] \in Points, w[n + 1] \in Nat
    PROVE  IsSum(g1_mul_add(ic[n + 2], w[n + 1], a), ic, w, n + 1)
<1> DEFINE b == g1_mul_add(ic[n + 2], w[n + 1], a)
<1>1. b = (a + w[n + 1] * ic[n + 2]) % r /\ b \in Points
  BY MulAddIsStep
<1> HIDE DEF b
<1>2. PICK s \in [0 .. n -> Points] : ArePartialSums(s, ic, w, n) /\ a = s[n]
  BY DEF IsSum
<1> DEFINE t == [j \in 0 .. n + 1 |-> IF j = n + 1 THEN b ELSE s[j]]
<1>3. t \in [0 .. n + 1 -> Points] /\ t[n + 1] = b
  BY <1>1
<1>4. t[0] = ic[1]
  BY <1>2 DEF ArePartialSums
<1>5. ASSUME NEW j \in 1 .. n + 1
      PROVE  t[j] = (t[j - 1] + w[j] * ic[j + 1]) % r
  <2>1. CASE j = n + 1
    <3>1. t[j - 1] = a /\ t[j] = b /\ j + 1 = n + 2
      BY <1>2, <2>1
    <3> QED BY <1>1, <2>1, <3>1
  <2>2. CASE j # n + 1
    <3>1. j \in 1 .. n /\ t[j - 1] = s[j - 1] /\ t[j] = s[j]
      BY <2>2
    <3> QED BY <1>2, <3>1 DEF ArePartialSums
  <2> QED BY <2>1, <2>2
<1>6. ArePartialSums(t, ic, w, n + 1)
  BY <1>4, <1>5 DEF ArePartialSums
<1>7. \A j \in 1 .. (n + 1) + 1 : ic[j] \in Points
  <2>1. \A j \in 1 .. n + 1 : ic[j] \in Points
    BY DEF IsSum
  <2> QED BY <2>1
<1> QED BY <1>3, <1>6, <1>7 DEF IsSum, b

\* The combination has one value.
LEMMA SumUnique ==
    ASSUME NEW ic, NEW w, NEW n \in Nat, NEW a, NEW b,
           IsSum(a, ic, w, n), IsSum(b, ic, w, n)
    PROVE  a = b
<1>1. PICK s \in [0 .. n -> Points] : ArePartialSums(s, ic, w, n) /\ a = s[n]
  BY DEF IsSum
<1>2. PICK t \in [0 .. n -> Points] : ArePartialSums(t, ic, w, n) /\ b = t[n]
  BY DEF IsSum
<1> DEFINE S == {j \in Nat : j <= n => s[j] = t[j]}
<1>3. 0 \in S
  BY <1>1, <1>2 DEF ArePartialSums
<1>4. ASSUME NEW j \in S PROVE j + 1 \in S
  <2>1. SUFFICES ASSUME j + 1 <= n PROVE s[j + 1] = t[j + 1]
    OBVIOUS
  <2>2. j + 1 \in 1 .. n /\ (j + 1) - 1 = j /\ s[j] = t[j]
    BY <2>1
  <2> QED BY <1>1, <1>2, <2>2 DEF ArePartialSums
<1>5. S = Nat
  <2>1. S \in SUBSET Nat
    OBVIOUS
  <2> HIDE DEF S
  <2> QED BY <1>3, <1>4, <2>1, SetInduction
<1>6. n \in S
  BY <1>5
<1> QED BY <1>1, <1>2, <1>6

\* It is a point.
LEMMA SumType ==
    ASSUME NEW ic, NEW w, NEW n \in Nat, NEW a, IsSum(a, ic, w, n)
    PROVE  a \in Points
BY DEF IsSum

\* Every wire is a natural number; the first ones are the public inputs, the
\* last one, with a commitment, is its hash.
LEMMA WiresFacts ==
    ASSUME NEW o \in Groth16Verifier
    PROVE  /\ Wires(o) \in Seq(Nat)
           /\ \A j \in 1 .. Len(o.public_inputs) :
                  /\ Wires(o)[j] = o.public_inputs[j]
                  /\ o.public_inputs[j] \in Nat
           /\ ~HasCommitment(o) => Len(Wires(o)) = Len(o.public_inputs)
           /\ HasCommitment(o) =>
                  /\ Len(Wires(o)) = Len(o.public_inputs) + 1
                  /\ Wires(o)[Len(o.public_inputs) + 1]
                     = HashToField[o.proof_commitment]
                  /\ HashToField[o.proof_commitment] \in Points
           /\ Len(o.public_inputs) \in Nat
           /\ Len(Wires(o)) \in Nat
<1> DEFINE x == o.public_inputs
<1>1. x \in Seq(Nat)
  BY ScalarAssumption DEF Groth16Verifier, Scalars
<1>2. CASE HasCommitment(o)
  <2>1. o.proof_commitment \in Encodings
    BY <1>2 DEF Groth16Verifier, HasCommitment
  <2>2. HashToField[o.proof_commitment] \in Points
    BY <2>1, HashAssumption
  <2>3. HashToField[o.proof_commitment] \in Nat
    BY <2>2, OrderAssumption DEF Points
  <2> QED BY <1>1, <1>2, <2>2, <2>3 DEF Wires
<1>3. CASE ~HasCommitment(o)
  BY <1>1, <1>3 DEF Wires
<1> QED BY <1>2, <1>3

-----------------------------------------------------------------------------
(***************************************************************************)
(* The outcome of a call, read off the first offence.                      *)
(***************************************************************************)

\* A sequence of encodings has an encoding at each index, and an encoding
\* that is no point is OffCurve.
LEMMA EncodingFacts ==
    /\ \A p \in Encodings : p \in Points \/ p = OffCurve
    /\ OffCurve \notin Points
    /\ Points \subseteq Nat /\ Points \subseteq Encodings
    /\ 0 \in Points
BY OrderAssumption, OffCurveAssumption DEF Encodings, Points

\* The columns of a well-shaped object: one per wire and the constant one.
LEMMA ColumnFacts ==
    ASSUME NEW o \in Groth16Verifier, WellShaped(o)
    PROVE  /\ o.verifyingkey.vk_ic \in Seq(Encodings)
           /\ Len(o.verifyingkey.vk_ic) = Len(Wires(o)) + 1
           /\ \A j \in 1 .. Len(Wires(o)) + 1 :
                  o.verifyingkey.vk_ic[j] \in Encodings
<1>1. o.verifyingkey.vk_ic \in Seq(Encodings)
  BY DEF Groth16Verifier, Groth16Verifyingkey
<1>2. Len(o.verifyingkey.vk_ic) = Len(Wires(o)) + 1
  BY DEF WellShaped
<1> QED BY <1>1, <1>2

\* The first wire with an offence decides the outcome of prepare_inputs.
LEMMA FirstOffence ==
    ASSUME NEW o \in Groth16Verifier, NEW c \in Calls,
           NEW j \in 1 .. Len(Wires(o)), j \in Offences(o, c.check),
           \A k \in 1 .. j - 1 : k \notin Offences(o, c.check)
    PROVE  /\ PrepareOutcome(o, c.check) =
                  IF Refused(o, c.check, j)
                  THEN "PublicInputGreaterThanFieldSize"
                  ELSE IF o.verifyingkey.vk_ic[j + 1] = OffCurve
                       THEN "PreparingInputsG1MulFailed"
                       ELSE "PreparingInputsG1AdditionFailed"
           /\ Outcome(o, c) = PrepareOutcome(o, c.check)
<1> DEFINE S == Offences(o, c.check)
<1>1. S \in SUBSET (1 .. Len(Wires(o)))
  BY DEF Offences
<1>2. Len(Wires(o)) \in Nat
  BY WiresFacts
<1>3. j \in S /\ S # {} /\ \A k \in S : j <= k
  BY <1>1, <1>2
<1> HIDE DEF S
<1>4. Min(S) = j
  <2>1. \A x \in S : (\A y \in S : x <= y) => x = j
    BY <1>1, <1>2, <1>3
  <2> QED BY <1>3, <2>1 DEF Min
<1>5. PrepareOutcome(o, c.check) =
                  IF Refused(o, c.check, j)
                  THEN "PublicInputGreaterThanFieldSize"
                  ELSE IF o.verifyingkey.vk_ic[j + 1] = OffCurve
                       THEN "PreparingInputsG1MulFailed"
                       ELSE "PreparingInputsG1AdditionFailed"
  BY <1>3, <1>4 DEF PrepareOutcome, S
<1>6. PrepareOutcome(o, c.check) # "Ok"
  BY <1>5
<1> QED BY <1>5, <1>6 DEF Outcome

\* Without an offence only the commitment can stop prepare_inputs.
LEMMA NoOffenceOutcome ==
    ASSUME NEW o \in Groth16Verifier, NEW check \in BOOLEAN,
           \A k \in 1 .. Len(Wires(o)) : k \notin Offences(o, check)
    PROVE  PrepareOutcome(o, check) =
               IF o.proof_commitment = OffCurve
               THEN "Bsb22InvalidCommitmentPoint" ELSE "Ok"
<1>1. Offences(o, check) = {}
  BY DEF Offences
<1> QED BY <1>1 DEF PrepareOutcome

\* The combination of all columns has a value only if no column is OffCurve,
\* so that the only offences left are inputs that are refused.
LEMMA SumExcludesOffCurve ==
    ASSUME NEW ic, NEW w, NEW n \in Nat, NEW a, IsSum(a, ic, w, n),
           NEW j \in 1 .. n
    PROVE  ic[j + 1] # OffCurve /\ ic[1] # OffCurve
BY EncodingFacts DEF IsSum

\* An object has one prepared input.
LEMMA PreparedInputUnique ==
    ASSUME NEW o \in Groth16Verifier, NEW k, NEW l,
           IsPreparedInput(k, o), IsPreparedInput(l, o)
    PROVE  k = l
<1>1. Len(Wires(o)) \in Nat
  BY WiresFacts
<1>2. CASE HasCommitment(o)
  <2>1. PICK a \in Points :
            /\ IsSum(a, o.verifyingkey.vk_ic, Wires(o), Len(Wires(o)))
            /\ k = (a + o.proof_commitment) % r
    BY <1>2 DEF IsPreparedInput
  <2>2. PICK b \in Points :
            /\ IsSum(b, o.verifyingkey.vk_ic, Wires(o), Len(Wires(o)))
            /\ l = (b + o.proof_commitment) % r
    BY <1>2 DEF IsPreparedInput
  <2>3. a = b
    BY <1>1, <2>1, <2>2, SumUnique
  <2> QED BY <2>1, <2>2, <2>3
<1>3. CASE ~HasCommitment(o)
  <2>1. /\ IsSum(k, o.verifyingkey.vk_ic, Wires(o), Len(Wires(o)))
        /\ IsSum(l, o.verifyingkey.vk_ic, Wires(o), Len(Wires(o)))
    BY <1>3 DEF IsPreparedInput
  <2> QED BY <1>1, <2>1, SumUnique
<1> QED BY <1>2, <1>3

\* A prepared input is a point, and there is one only if all columns are.
LEMMA PreparedInputFacts ==
    ASSUME NEW o \in Groth16Verifier, NEW k, IsPreparedInput(k, o)
    PROVE  /\ k \in Points
           /\ \A j \in 1 .. Len(Wires(o)) + 1 :
                  o.verifyingkey.vk_ic[j] \in Points
           /\ HasCommitment(o) => o.proof_commitment \in Points
<1> DEFINE n == Len(Wires(o))
<1>1. n \in Nat
  BY WiresFacts
<1> HIDE DEF n
<1>2. CASE HasCommitment(o)
  <2>1. PICK a \in Points :
            /\ IsSum(a, o.verifyingkey.vk_ic, Wires(o), n)
            /\ k = (a + o.proof_commitment) % r
    BY <1>2 DEF IsPreparedInput, n
  <2>2. o.proof_commitment \in Points
    BY <1>2 DEF IsPreparedInput
  <2>3. k \in Points
    BY <2>1, <2>2, AdditionType DEF g1_addition_be
  <2> QED BY <2>1, <2>2, <2>3 DEF IsSum, n
<1>3. CASE ~HasCommitment(o)
  <2>1. IsSum(k, o.verifyingkey.vk_ic, Wires(o), n)
    BY <1>3 DEF IsPreparedInput, n
  <2>2. k \in Points
    BY <1>1, <2>1, SumType
  <2> QED BY <1>3, <2>1, <2>2 DEF IsSum, n
<1> QED BY <1>2, <1>3

-----------------------------------------------------------------------------
(***************************************************************************)
(* The inductive invariant.                                                *)
(***************************************************************************)

\* It holds initially.
LEMMA InitIInv == Init => IInv
BY EncodingFacts
   DEF Init, IInv, TypeOK, Shape, CallProgress, AnswerIsOutcome, Finished,
       PreparedNeverPartial, Identity, Steps, Results

\* Ending a call with the right outcome keeps it.
LEMMA ReturnKeeps ==
    ASSUME IInv, pc # "idle", NEW result, Return(result),
           result = Outcome(self, call), result \in Results
    PROVE  IInv'
<1>1. TypeOK'
  BY DEF IInv, TypeOK, Return, Steps
<1>2. Shape'
  BY DEF IInv, Shape, Return, WellShaped, HasCommitment
<1>3. CallProgress'
  BY DEF Return, CallProgress
<1>4. AnswerIsOutcome'
  BY DEF Return, AnswerIsOutcome, Finished
<1>5. PreparedNeverPartial'
  BY DEF IInv, Return, PreparedNeverPartial, IsPrepared, vk
<1> QED BY <1>1, <1>2, <1>3, <1>4, <1>5 DEF IInv

\* Going on with a call keeps all of it that is not about the call's locals.
LEMMA ContinueKeeps ==
    ASSUME IInv, pc # "idle", NEW step, NEW a, Continue(step, a),
           step \in Steps \ {"idle"}, a \in Encodings, i' \in Nat,
           step = "loop" => i' <= NR_INPUTS
    PROVE  TypeOK' /\ Shape' /\ AnswerIsOutcome' /\ PreparedNeverPartial'
<1>1. TypeOK'
  BY DEF IInv, TypeOK, Continue, Steps, NR_INPUTS
<1>2. Shape'
  BY DEF IInv, Shape, Continue, WellShaped, HasCommitment
<1>3. AnswerIsOutcome'
  BY DEF Continue, AnswerIsOutcome, Finished
<1>4. PreparedNeverPartial'
  BY DEF IInv, Continue, PreparedNeverPartial, IsPrepared, vk
<1> QED BY <1>1, <1>2, <1>3, <1>4

\* What the invariant says while a call runs.
LEMMA InCall ==
    ASSUME IInv, pc # "idle"
    PROVE  /\ self \in Groth16Verifier /\ call \in Calls
           /\ call.check \in BOOLEAN /\ call.verify \in BOOLEAN
           /\ WellShaped(self)
           /\ HasCommitment(self) => Bsb22
           /\ NR_INPUTS \in Nat
           /\ acc \in Encodings /\ prepared \in Encodings
<1>1. self \in Groth16Verifier /\ call \in Calls /\ self # None
  BY NoneAssumption DEF IInv, TypeOK
<1>2. NR_INPUTS \in Nat
  BY <1>1, WiresFacts DEF NR_INPUTS
<1> QED BY <1>1, <1>2 DEF IInv, TypeOK, Shape, Calls

\* A constructor makes an object of the right shape, or none.
LEMMA ConstructResult ==
    ASSUME NEW p \in Proofs, NEW x \in InputVectors, NEW k \in Vks,
           New(p, x, k) \/ NewWithCommitment(p, x, k)
    PROVE  /\ \/ /\ res' = "Ok" /\ self' \in Groth16Verifier
                 /\ WellShaped(self') /\ (HasCommitment(self') => Bsb22)
              \/ res' \in ConstructorErrors /\ self' = None
           /\ prepared' = Identity
           /\ UNCHANGED <<call, pc, i, acc>>
<1>1. /\ k \in Groth16Verifyingkey /\ p \in Proof /\ x \in Seq(Scalars)
      /\ p.a \in Encodings /\ p.b \in Encodings /\ p.c \in Encodings
      /\ p.commitment \in Encodings /\ p.pok \in Encodings
  BY InputsAssumption DEF Proof
<1>2. Len(x) \in Nat
  BY <1>1
<1>3. CASE New(p, x, k)
  <2> DEFINE o == Object(p, x, k, None, None)
  <2>1. /\ o \in Groth16Verifier
        /\ o.proof_commitment = None /\ o.proof_commitment_pok = None
        /\ o.public_inputs = x /\ o.verifyingkey = k
    BY <1>1 DEF Object, Groth16Verifier
  <2>2. /\ res' = NewResult(x, k)
        /\ self' = IF NewResult(x, k) = "Ok" THEN o ELSE None
        /\ prepared' = Identity
        /\ UNCHANGED <<call, pc, i, acc>>
    BY <1>3 DEF New, Construct
  <2> HIDE DEF o
  <2>3. ~HasCommitment(o) /\ Wires(o) = x
    BY <2>1 DEF HasCommitment, Wires
  <2>4. NewResult(x, k) = "Ok" => WellShaped(o)
    BY <1>2, <2>1, <2>3 DEF NewResult, WellShaped
  <2>5. NewResult(x, k) \in {"Ok"} \cup ConstructorErrors
    BY DEF NewResult, ConstructorErrors
  <2> QED BY <2>1, <2>2, <2>3, <2>4, <2>5 DEF ConstructorErrors
<1>4. CASE NewWithCommitment(p, x, k)
  <2> DEFINE o == Object(p, x, k, p.commitment, p.pok)
  <2>1. /\ o \in Groth16Verifier
        /\ o.proof_commitment = p.commitment
        /\ o.proof_commitment_pok = p.pok
        /\ o.public_inputs = x /\ o.verifyingkey = k
    BY <1>1 DEF Object, Groth16Verifier
  <2>2. /\ res' = NewWithCommitmentResult(x, k)
        /\ self' = IF NewWithCommitmentResult(x, k) = "Ok" THEN o ELSE None
        /\ prepared' = Identity
        /\ UNCHANGED <<call, pc, i, acc>> /\ Bsb22
    BY <1>4 DEF NewWithCommitment, Construct
  <2> HIDE DEF o
  <2>3. p.commitment # None /\ p.pok # None
    BY <1>1, NoneAssumption
  <2>4. /\ HasCommitment(o) /\ o.proof_commitment_pok # None
        /\ Wires(o) = Append(x, HashToField[p.commitment])
    BY <2>1, <2>3 DEF HasCommitment, Wires
  <2>5. Len(Wires(o)) = Len(x) + 1
    <3>1. HashToField[p.commitment] \in Nat /\ x \in Seq(Nat)
      BY <1>1, HashAssumption, EncodingFacts, ScalarAssumption DEF Scalars
    <3> QED BY <2>4, <3>1
  <2>6. NewWithCommitmentResult(x, k) = "Ok" => WellShaped(o)
    BY <1>2, <2>1, <2>4, <2>5 DEF NewWithCommitmentResult, WellShaped
  <2>7. NewWithCommitmentResult(x, k) \in {"Ok"} \cup ConstructorErrors
    BY DEF NewWithCommitmentResult, ConstructorErrors
  <2> QED BY <2>1, <2>2, <2>6, <2>7 DEF ConstructorErrors
<1> QED BY <1>3, <1>4

\* A constructor keeps the invariant.
LEMMA ConstructKeeps ==
    ASSUME IInv, self = None,
           NEW p \in Proofs, NEW x \in InputVectors, NEW k \in Vks,
           New(p, x, k) \/ NewWithCommitment(p, x, k)
    PROVE  IInv'
<1>1. pc = "idle" /\ call = None
  BY DEF IInv, TypeOK
<1>2. /\ self' \in Groth16Verifier \cup {None}
      /\ self' # None => WellShaped(self') /\ (HasCommitment(self') => Bsb22)
      /\ res' \in Results /\ prepared' = Identity
      /\ UNCHANGED <<call, pc, i, acc>>
  BY ConstructResult DEF Results
<1>3. TypeOK'
  BY <1>1, <1>2, EncodingFacts DEF IInv, TypeOK, Identity
<1> QED BY <1>1, <1>2, <1>3
        DEF IInv, Shape, CallProgress, AnswerIsOutcome, Finished,
            PreparedNeverPartial

\* Starting a call keeps it.
LEMMA InvokeKeeps ==
    ASSUME IInv, NEW c \in Calls, Invoke(c)
    PROVE  IInv'
<1>1. TypeOK'
  BY CallsAssumption DEF IInv, TypeOK, Invoke, Steps, NR_INPUTS
<1>2. Shape'
  BY DEF IInv, Shape, Invoke, WellShaped, HasCommitment
<1>3. PreparedNeverPartial'
  BY DEF IInv, Invoke, PreparedNeverPartial, IsPrepared, vk
<1> QED BY <1>1, <1>2, <1>3
        DEF Invoke, IInv, CallProgress, AnswerIsOutcome, Finished

-----------------------------------------------------------------------------
(***************************************************************************)
(* The steps of a call.                                                    *)
(***************************************************************************)

\* A sum that the addition syscall has decoded is the sum of decoded columns.
LEMMA AccPoint ==
    ASSUME NEW n \in Nat, AccIs(n), acc \in Points
    PROVE  IsSum(acc, vk.vk_ic, Wires(self), n)
BY SumZero DEF AccIs

\* An accumulator that is no point is the constant column, before any wire.
LEMMA AccOffCurve ==
    ASSUME NEW n \in Nat, AccIs(n), acc \notin Points
    PROVE  n = 0 /\ acc = vk.vk_ic[1]
BY SumType DEF AccIs

\* The wires taken in so far have no offence; the next is the first that can.
LEMMA NextOffence ==
    ASSUME NEW n \in Nat, NoOffence(n)
    PROVE  \A k \in 1 .. (n + 1) - 1 : k \notin Offences(self, call.check)
BY DEF NoOffence

\* vk_ic.first().
LEMMA FirstColumnKeeps ==
    ASSUME IInv, FirstColumn
    PROVE  IInv'
<1>1. pc = "first"
  BY DEF FirstColumn
<1>2. /\ vk.vk_ic \in Seq(Encodings) /\ Len(vk.vk_ic) # 0
      /\ vk.vk_ic[1] \in Encodings
  <2>1. Len(Wires(self)) \in Nat
    BY <1>1, InCall, WiresFacts
  <2> QED BY <1>1, <2>1, InCall, ColumnFacts DEF vk
<1>3. Continue("loop", vk.vk_ic[1]) /\ i' = 0
  BY <1>2 DEF FirstColumn
<1>4. TypeOK' /\ Shape' /\ AnswerIsOutcome' /\ PreparedNeverPartial'
  BY <1>1, <1>2, <1>3, InCall, ContinueKeeps DEF Steps
<1>5. CallProgress'
  BY <1>3 DEF Continue, CallProgress, AccIs, NoOffence, vk
<1> QED BY <1>4, <1>5 DEF IInv

\* One iteration of the loop over the public inputs.
LEMMA InputColumnKeeps ==
    ASSUME IInv, InputColumn
    PROVE  IInv'
<1> DEFINE j == i + 1
<1>1. pc = "loop" /\ i < NR_INPUTS /\ i \in Nat
  BY DEF InputColumn, IInv, TypeOK
<1>2. /\ j \in 1 .. NR_INPUTS /\ j \in 1 .. Len(Wires(self))
      /\ Wires(self)[j] = self.public_inputs[j] /\ self.public_inputs[j] \in Nat
      /\ Len(Wires(self)) \in Nat
  BY <1>1, InCall, WiresFacts DEF NR_INPUTS
<1>3. /\ Len(vk.vk_ic) >= i + 2
      /\ vk.vk_ic[j + 1] \in Encodings /\ vk.vk_ic[1] \in Encodings
      /\ i + 2 = j + 1
  BY <1>1, <1>2, InCall, ColumnFacts DEF vk
<1>4. AccIs(i) /\ NoOffence(i)
  BY <1>1 DEF IInv, CallProgress
<1>5. \A k \in 1 .. j - 1 : k \notin Offences(self, call.check)
  BY <1>1, <1>4, NextOffence
<1>6. Refused(self, call.check, j)
      <=> /\ call.check
          /\ ~is_less_than_bn254_field_size_be(self.public_inputs[i + 1])
  BY <1>1, <1>2, OrderAssumption
     DEF Refused, is_less_than_bn254_field_size_be, NR_INPUTS
<1>7. j \in Offences(self, call.check)
      <=> \/ Refused(self, call.check, j)
          \/ vk.vk_ic[j + 1] = OffCurve \/ vk.vk_ic[1] = OffCurve
  BY <1>2 DEF Offences, vk
<1>8. /\ InputResult = IF Refused(self, call.check, j)
                       THEN "PublicInputGreaterThanFieldSize"
                       ELSE MulAddResult(vk.vk_ic[i + 2],
                                         self.public_inputs[i + 1], acc)
  BY <1>1, <1>3, <1>6 DEF InputResult
<1> HIDE DEF j
<1>9. CASE InputResult # "Ok"
  <2>1. Return(InputResult)
    BY <1>9 DEF InputColumn
  <2>2. /\ j \in Offences(self, call.check)
        /\ InputResult =
               IF Refused(self, call.check, j)
               THEN "PublicInputGreaterThanFieldSize"
               ELSE IF vk.vk_ic[j + 1] = OffCurve
                    THEN "PreparingInputsG1MulFailed"
                    ELSE "PreparingInputsG1AdditionFailed"
    <3>1. CASE Refused(self, call.check, j)
      BY <1>7, <1>8, <3>1
    <3>2. CASE ~Refused(self, call.check, j) /\ vk.vk_ic[j + 1] = OffCurve
      BY <1>3, <1>7, <1>8, <3>2, EncodingFacts DEF MulAddResult, Decodes
    <3>3. CASE ~Refused(self, call.check, j) /\ vk.vk_ic[j + 1] # OffCurve
      <4>1. vk.vk_ic[j + 1] \in Points
        BY <1>3, <3>3, EncodingFacts
      <4>2. g1_multiplication_be(vk.vk_ic[i + 2], self.public_inputs[i + 1])
            \in Points
        BY <1>2, <1>3, <4>1, MultiplicationType DEF j
      <4>3. acc \notin Points
            /\ InputResult = "PreparingInputsG1AdditionFailed"
        BY <1>3, <1>8, <1>9, <3>3, <4>1, <4>2
           DEF MulAddResult, AddResult, Decodes
      <4>4. vk.vk_ic[1] = OffCurve
        BY <1>1, <1>3, <1>4, <4>3, AccOffCurve, EncodingFacts
      <4> QED BY <1>7, <3>3, <4>3, <4>4
    <3> QED BY <3>1, <3>2, <3>3
  <2>3. InputResult = Outcome(self, call)
    BY <1>1, <1>2, <1>5, <2>2, InCall, FirstOffence DEF vk
  <2>4. InputResult \in Results
    BY <2>2 DEF Results, CallErrors
  <2> QED BY <1>1, <2>1, <2>3, <2>4, ReturnKeeps
<1>10. CASE InputResult = "Ok"
  <2> DEFINE b == g1_mul_add(vk.vk_ic[i + 2], self.public_inputs[i + 1], acc)
  <2>1. Continue("loop", b) /\ i' = i + 1
    BY <1>10 DEF InputColumn
  <2>2. /\ ~Refused(self, call.check, j) /\ vk.vk_ic[i + 2] \in Points
        /\ acc \in Points
    BY <1>8, <1>10 DEF MulAddResult, AddResult, Decodes
  <2>3. IsSum(acc, vk.vk_ic, Wires(self), i)
    BY <1>1, <1>4, <2>2, AccPoint
  <2>4. b \in Points
    BY <1>2, <2>2, MulAddIsStep DEF j
  <2>5. IsSum(b, vk.vk_ic, Wires(self), i + 1)
    BY <1>1, <1>2, <2>2, <2>3, SumStep DEF j
  <2> HIDE DEF b
  <2>6. vk.vk_ic[1] \in Points
    BY <1>1, <2>3 DEF IsSum
  <2>7. j \notin Offences(self, call.check)
    BY <1>3, <1>7, <2>2, <2>6, EncodingFacts
  <2>8. NoOffence(i + 1)
    BY <1>1, <1>4, <2>7 DEF NoOffence, j
  <2>9. TypeOK' /\ Shape' /\ AnswerIsOutcome' /\ PreparedNeverPartial'
    BY <1>1, <2>1, <2>4, InCall, ContinueKeeps, EncodingFacts DEF Steps
  <2>10. CallProgress'
    <3>1. AccIs(i)'
      BY <2>1, <2>5 DEF Continue, AccIs, vk
    <3>2. NoOffence(i)'
      BY <2>1, <2>8 DEF Continue, NoOffence
    <3> QED BY <2>1, <3>1, <3>2 DEF Continue, CallProgress
  <2> QED BY <2>9, <2>10 DEF IInv
<1> QED BY <1>9, <1>10

\* Without a commitment the loop leaves what prepare_inputs has to store.
LEMMA LoopResult ==
    ASSUME IInv, pc # "idle", ~HasCommitment(self),
           AccIs(NR_INPUTS), NoOffence(NR_INPUTS)
    PROVE  IsPrepared(acc) /\ PrepareOutcome(self, call.check) = "Ok"
<1>1. Len(Wires(self)) = NR_INPUTS /\ NR_INPUTS \in Nat
  BY InCall, WiresFacts DEF NR_INPUTS
<1>2. self.proof_commitment # OffCurve
  BY NoneAssumption DEF HasCommitment, Encodings
<1>3. PrepareOutcome(self, call.check) = "Ok"
  BY <1>1, <1>2, InCall, NoOffenceOutcome DEF NoOffence
<1>4. IsPrepared(acc)
  <2>1. CASE IsSum(acc, vk.vk_ic, Wires(self), NR_INPUTS)
    BY <1>1, <2>1 DEF IsPrepared, IsPreparedInput, vk
  <2>2. CASE NR_INPUTS = 0 /\ acc = vk.vk_ic[1]
    <3>1. Wires(self) \in Seq(Nat)
      BY InCall, WiresFacts
    <3>2. Wires(self) = <<>>
      BY <1>1, <2>2, <3>1
    <3> QED BY <2>2, <3>2 DEF IsPrepared
  <2> QED BY <2>1, <2>2 DEF AccIs
<1> QED BY <1>3, <1>4

\* The end of the loop.
LEMMA EndLoopKeeps ==
    ASSUME IInv, EndLoop
    PROVE  IInv'
<1>1. pc = "loop" /\ i = NR_INPUTS
  BY DEF EndLoop
<1>2. AccIs(NR_INPUTS) /\ NoOffence(NR_INPUTS)
  BY <1>1 DEF IInv, CallProgress
<1>3. TypeOK' /\ Shape' /\ AnswerIsOutcome' /\ PreparedNeverPartial'
  <2>1. i' \in Nat /\ acc \in Encodings
    BY DEF EndLoop, IInv, TypeOK
  <2> QED BY <1>1, <2>1, InCall, ContinueKeeps, Bsb22Assumption
          DEF EndLoop, Steps
<1>4. CallProgress'
  <2>1. CASE Bsb22
    <3>1. pc' = "commitment" /\ UNCHANGED <<self, call, acc>>
      BY <2>1 DEF EndLoop, Continue
    <3> QED BY <1>2, <2>1, <3>1
            DEF CallProgress, AccIs, NoOffence, vk, NR_INPUTS
  <2>2. CASE ~Bsb22
    <3>1. pc' = "store" /\ UNCHANGED <<self, call, acc>>
      BY <2>2 DEF EndLoop, Continue
    <3>2. IsPrepared(acc) /\ PrepareOutcome(self, call.check) = "Ok"
      BY <1>1, <1>2, <2>2, InCall, LoopResult
    <3> QED BY <3>1, <3>2 DEF CallProgress, IsPrepared, vk
  <2> QED BY <2>1, <2>2
<1> QED BY <1>3, <1>4 DEF IInv

\* The column of the hash wire.
LEMMA CommitmentColumnKeeps ==
    ASSUME IInv, CommitmentColumn
    PROVE  IInv'
<1> DEFINE n == NR_INPUTS
           h == HashToField[self.proof_commitment]
<1>1. pc = "commitment" /\ n \in Nat
  BY InCall DEF CommitmentColumn
<1>2. AccIs(n) /\ NoOffence(n)
  BY <1>1 DEF IInv, CallProgress
<1>3. (vk.vk_commitment = None) <=> (self.proof_commitment = None)
  BY <1>1, InCall DEF WellShaped, HasCommitment, vk
<1>4. CASE ~HasCommitment(self)
  <2>1. self.proof_commitment = None /\ CommitmentResult = "Ok"
    BY <1>3, <1>4 DEF HasCommitment, CommitmentResult
  <2>2. Continue("store", acc) /\ UNCHANGED i
    BY <2>1 DEF CommitmentColumn
  <2>3. IsPrepared(acc) /\ PrepareOutcome(self, call.check) = "Ok"
    BY <1>1, <1>2, <1>4, LoopResult
  <2>4. TypeOK' /\ Shape' /\ AnswerIsOutcome' /\ PreparedNeverPartial'
    <3>1. i' \in Nat
      BY <2>2 DEF IInv, TypeOK
    <3> QED BY <1>1, <2>2, <3>1, InCall, ContinueKeeps DEF Steps
  <2>5. CallProgress'
    BY <2>2, <2>3 DEF Continue, CallProgress, IsPrepared, vk
  <2> QED BY <2>4, <2>5 DEF IInv
<1>5. CASE HasCommitment(self)
  <2> DEFINE w == Wires(self)
  <2>1. /\ Len(w) = n + 1 /\ w[n + 1] = h /\ h \in Points /\ h \in Nat
        /\ self.proof_commitment # None
    BY <1>1, <1>5, InCall, WiresFacts, EncodingFacts
       DEF HasCommitment, NR_INPUTS
  <2>2. /\ Len(vk.vk_ic) = n + 2
        /\ vk.vk_ic[n + 2] \in Encodings /\ vk.vk_ic[1] \in Encodings
    BY <1>1, <2>1, InCall, ColumnFacts DEF vk
  <2>3. CommitmentResult = MulAddResult(vk.vk_ic[n + 2], h, acc)
    BY <1>1, <1>3, <2>1, <2>2 DEF CommitmentResult
  <2>4. \A k \in 1 .. (n + 1) - 1 : k \notin Offences(self, call.check)
    BY <1>1, <1>2, NextOffence
  <2>5. /\ ~Refused(self, call.check, n + 1)
        /\ n + 1 \in Offences(self, call.check)
           <=> vk.vk_ic[n + 2] = OffCurve \/ vk.vk_ic[1] = OffCurve
    <3>1. ~Refused(self, call.check, n + 1)
      BY <1>1 DEF Refused, NR_INPUTS
    <3>2. n + 1 \in 1 .. Len(w) /\ (n + 1) + 1 = n + 2
      BY <1>1, <2>1
    <3> HIDE DEF n
    <3> QED BY <3>1, <3>2 DEF Offences, vk
  <2> HIDE DEF n, h, w
  <2>6. CASE CommitmentResult # "Ok"
    <3>1. Return(CommitmentResult)
      BY <2>6 DEF CommitmentColumn
    <3>2. /\ n + 1 \in Offences(self, call.check)
          /\ CommitmentResult = IF vk.vk_ic[n + 2] = OffCurve
                                THEN "PreparingInputsG1MulFailed"
                                ELSE "PreparingInputsG1AdditionFailed"
      <4>1. CASE vk.vk_ic[n + 2] = OffCurve
        BY <2>3, <2>5, <4>1, EncodingFacts DEF MulAddResult, Decodes
      <4>2. CASE vk.vk_ic[n + 2] # OffCurve
        <5>1. vk.vk_ic[n + 2] \in Points
          BY <2>2, <4>2, EncodingFacts
        <5>2. g1_multiplication_be(vk.vk_ic[n + 2], h) \in Points
          BY <2>1, <5>1, MultiplicationType
        <5>3. acc \notin Points
              /\ CommitmentResult = "PreparingInputsG1AdditionFailed"
          BY <2>3, <2>6, <5>1, <5>2 DEF MulAddResult, AddResult, Decodes
        <5>4. vk.vk_ic[1] = OffCurve
          BY <1>1, <1>2, <2>2, <5>3, AccOffCurve, EncodingFacts
        <5> QED BY <2>5, <4>2, <5>3, <5>4
      <4> QED BY <4>1, <4>2
    <3>3. n + 1 \in 1 .. Len(Wires(self)) /\ (n + 1) + 1 = n + 2
      BY <1>1, <2>1 DEF w
    <3>4. CommitmentResult = Outcome(self, call)
      BY <1>1, <2>4, <2>5, <3>2, <3>3, InCall, FirstOffence DEF vk
    <3>5. CommitmentResult \in Results
      BY <3>2 DEF Results, CallErrors
    <3> QED BY <1>1, <3>1, <3>4, <3>5, ReturnKeeps
  <2>7. CASE CommitmentResult = "Ok"
    <3> DEFINE b == g1_mul_add(vk.vk_ic[n + 2], h, acc)
    <3>1. Continue("raw", b) /\ UNCHANGED i
      BY <2>1, <2>7 DEF CommitmentColumn, n, h
    <3>2. vk.vk_ic[n + 2] \in Points /\ acc \in Points
      BY <2>3, <2>7 DEF MulAddResult, AddResult, Decodes
    <3>3. IsSum(acc, vk.vk_ic, w, n)
      BY <1>1, <1>2, <3>2, AccPoint DEF w
    <3>4. b \in Points
      BY <2>1, <3>2, MulAddIsStep
    <3>5. IsSum(b, vk.vk_ic, w, n + 1)
      BY <1>1, <2>1, <3>2, <3>3, SumStep
    <3> HIDE DEF b
    <3>6. n + 1 \notin Offences(self, call.check)
      BY <1>1, <2>5, <3>2, <3>3, EncodingFacts DEF IsSum
    <3>7. NoOffence(Len(w))
      BY <1>1, <1>2, <2>1, <3>6 DEF NoOffence
    <3>8. TypeOK' /\ Shape' /\ AnswerIsOutcome' /\ PreparedNeverPartial'
      <4>1. i' \in Nat
        BY <3>1 DEF IInv, TypeOK
      <4> QED BY <1>1, <3>1, <3>4, <4>1, InCall, ContinueKeeps, EncodingFacts
              DEF Steps
    <3>9. CallProgress'
      <4>1. UNCHANGED <<self, call>> /\ pc' = "raw" /\ acc' = b
        BY <3>1 DEF Continue
      <4> QED BY <1>5, <2>1, <3>5, <3>7, <4>1
              DEF CallProgress, NoOffence, HasCommitment, vk, w
    <3> QED BY <3>8, <3>9 DEF IInv
  <2> QED BY <2>6, <2>7
<1> QED BY <1>4, <1>5

\* Adding the commitment itself.
LEMMA RawCommitmentKeeps ==
    ASSUME IInv, RawCommitment
    PROVE  IInv'
<1> DEFINE w == Wires(self)
           m == self.proof_commitment
<1>1. pc = "raw"
  BY DEF RawCommitment
<1>2. /\ HasCommitment(self) /\ IsSum(acc, vk.vk_ic, w, Len(w))
      /\ NoOffence(Len(w)) /\ Len(w) \in Nat
  BY <1>1, InCall, WiresFacts DEF IInv, CallProgress
<1>3. m \in Encodings
  BY <1>1, <1>2, InCall DEF HasCommitment, Groth16Verifier
<1>4. acc \in Points
  BY <1>2, SumType
<1>5. PrepareOutcome(self, call.check) =
          IF m = OffCurve THEN "Bsb22InvalidCommitmentPoint" ELSE "Ok"
  BY <1>1, <1>2, InCall, NoOffenceOutcome DEF NoOffence
<1> HIDE DEF w, m
<1>6. CASE m = OffCurve
  <2>1. AddResult(m, acc) # "Ok"
    BY <1>6, EncodingFacts DEF AddResult, Decodes
  <2>2. Return("Bsb22InvalidCommitmentPoint")
    BY <2>1 DEF RawCommitment, m
  <2>3. Outcome(self, call) = "Bsb22InvalidCommitmentPoint"
    BY <1>5, <1>6 DEF Outcome
  <2> QED BY <1>1, <2>2, <2>3, ReturnKeeps DEF Results, CallErrors
<1>7. CASE m # OffCurve
  <2>1. m \in Points
    BY <1>3, <1>7, EncodingFacts
  <2>2. AddResult(m, acc) = "Ok"
    BY <1>4, <2>1 DEF AddResult, Decodes
  <2> DEFINE b == g1_addition_be(m, acc)
  <2>3. Continue("store", b) /\ UNCHANGED i
    BY <2>2 DEF RawCommitment, m
  <2>4. b \in Points
    BY <1>4, <2>1, AdditionType
  <2>5. b = (acc + m) % r
    <3>1. m + acc = acc + m
      BY <1>4, <2>1, EncodingFacts
    <3> QED BY <3>1 DEF g1_addition_be
  <2> HIDE DEF b
  <2>6. IsPrepared(b)
    BY <1>2, <1>4, <2>1, <2>5 DEF IsPrepared, IsPreparedInput, vk, w, m
  <2>7. TypeOK' /\ Shape' /\ AnswerIsOutcome' /\ PreparedNeverPartial'
    <3>1. i' \in Nat
      BY <2>3 DEF IInv, TypeOK
    <3> QED BY <1>1, <2>3, <2>4, <3>1, InCall, ContinueKeeps, EncodingFacts
            DEF Steps
  <2>8. CallProgress'
    BY <1>5, <1>7, <2>3, <2>6 DEF Continue, CallProgress, IsPrepared, vk
  <2> QED BY <2>7, <2>8 DEF IInv
<1> QED BY <1>6, <1>7

\* The assignment to self.prepared_public_inputs.
LEMMA StorePreparedKeeps ==
    ASSUME IInv, StorePrepared
    PROVE  IInv'
<1>1. pc = "store" /\ prepared' = acc /\ UNCHANGED <<self, call, i, acc>>
  BY DEF StorePrepared
<1>2. IsPrepared(acc) /\ PrepareOutcome(self, call.check) = "Ok"
  BY <1>1 DEF IInv, CallProgress
<1>3. Shape'
  BY <1>1 DEF IInv, Shape, WellShaped, HasCommitment
<1>4. PreparedNeverPartial'
  BY <1>1, <1>2 DEF PreparedNeverPartial, IsPrepared, vk
<1>5. CASE call.verify /\ pc' = "pairing" /\ UNCHANGED res
  <2>1. TypeOK'
    BY <1>1, <1>5 DEF IInv, TypeOK, Steps, NR_INPUTS
  <2>2. CallProgress'
    BY <1>1, <1>2, <1>5 DEF CallProgress, IsPrepared, vk
  <2>3. AnswerIsOutcome'
    BY <1>5 DEF AnswerIsOutcome, Finished
  <2> QED BY <1>3, <1>4, <2>1, <2>2, <2>3 DEF IInv
<1>6. CASE ~call.verify /\ pc' = "idle" /\ res' = "Ok"
  <2>1. TypeOK'
    BY <1>1, <1>6 DEF IInv, TypeOK, Steps, NR_INPUTS, Results
  <2>2. CallProgress'
    BY <1>6 DEF CallProgress
  <2>3. AnswerIsOutcome'
    BY <1>1, <1>2, <1>6 DEF AnswerIsOutcome, Finished, Outcome
  <2> QED BY <1>3, <1>4, <2>1, <2>2, <2>3 DEF IInv
<1> QED BY <1>5, <1>6 DEF StorePrepared

\* The four-pair pairing check decides the equation of Groth16.
LEMMA PairingDecides ==
    ASSUME IInv, pc = "pairing"
    PROVE  PairingAccepts <=> EquationHolds(self)
<1> DEFINE points == {self.proof_a, self.proof_b, self.proof_c,
                      vk.vk_alpha_g1, vk.vk_beta_g2, vk.vk_gamma_g2,
                      vk.vk_delta_g2}
           Equation(k) == (self.proof_a * self.proof_b + k * vk.vk_gamma_g2
                           + self.proof_c * vk.vk_delta_g2
                           + vk.vk_alpha_g1 * vk.vk_beta_g2) % r = 0
<1>1. self \in Groth16Verifier /\ IsPrepared(prepared) /\ WellShaped(self)
  BY InCall DEF IInv, CallProgress
<1>2. EquationHolds(self) <=>
          /\ points \subseteq Points
          /\ \E k \in Points : IsPreparedInput(k, self) /\ Equation(k)
  BY DEF EquationHolds, vk
<1>3. PairingAccepts <=>
          /\ points \subseteq Points /\ prepared \in Points
          /\ PairingOfFourIsOne(self.proof_a, self.proof_b, prepared,
                 vk.vk_gamma_g2, self.proof_c, vk.vk_delta_g2,
                 vk.vk_alpha_g1, vk.vk_beta_g2)
  BY DEF PairingAccepts, Decodes
<1>4. ASSUME points \subseteq Points, prepared \in Points
      PROVE  PairingOfFourIsOne(self.proof_a, self.proof_b, prepared,
                 vk.vk_gamma_g2, self.proof_c, vk.vk_delta_g2,
                 vk.vk_alpha_g1, vk.vk_beta_g2)
             <=> Equation(prepared)
  <2> DEFINE x == self.proof_a * self.proof_b
             y == prepared * vk.vk_gamma_g2
             z == self.proof_c * vk.vk_delta_g2
             t == vk.vk_alpha_g1 * vk.vk_beta_g2
  <2>1. \A p, q \in Points : p * q \in Int
    BY EncodingFacts
  <2>2. x \in Int /\ y \in Int /\ z \in Int /\ t \in Int
    BY <1>4, <2>1
  <2> HIDE DEF points, x, y, z, t
  <2>3. ((x % r) + (y % r) + (z % r) + (t % r)) % r = (x + y + z + t) % r
    BY <2>2, ModAdd4
  <2> QED BY <2>3 DEF PairingOfFourIsOne, e, x, y, z, t
<1>5. prepared \in Points => IsPreparedInput(prepared, self)
  <2>1. SUFFICES ASSUME prepared \in Points, Wires(self) = <<>>,
                        prepared = vk.vk_ic[1]
                 PROVE  IsPreparedInput(prepared, self)
    BY <1>1 DEF IsPrepared
  <2>2. ~HasCommitment(self)
    <3>1. SUFFICES ASSUME HasCommitment(self) PROVE FALSE
      OBVIOUS
    <3>2. Len(Wires(self)) = Len(self.public_inputs) + 1
          /\ Len(self.public_inputs) \in Nat
      BY <1>1, <3>1, WiresFacts
    <3>3. Len(Wires(self)) = 0
      BY <2>1
    <3>4. Len(self.public_inputs) + 1 = 0
      BY <3>2, <3>3, Zenon
    <3> QED BY <3>2, <3>4
  <2>3. IsSum(prepared, vk.vk_ic, Wires(self), 0)
    BY <2>1, SumZero
  <2>4. Len(Wires(self)) = 0
    BY <2>1
  <2> QED BY <2>2, <2>3, <2>4 DEF IsPreparedInput, vk
<1>6. \A k : IsPreparedInput(k, self) => k = prepared
  <2>1. SUFFICES ASSUME NEW k, IsPreparedInput(k, self) PROVE k = prepared
    OBVIOUS
  <2>2. CASE IsPreparedInput(prepared, self)
    BY <1>1, <2>1, <2>2, PreparedInputUnique
  <2>3. CASE Wires(self) = <<>> /\ prepared = vk.vk_ic[1]
    <3>1. 1 \in 1 .. Len(Wires(self)) + 1
      BY <1>1, WiresFacts
    <3>2. prepared \in Points
      BY <1>1, <2>1, <2>3, <3>1, PreparedInputFacts DEF vk
    <3> QED BY <1>1, <1>5, <2>1, <3>2, PreparedInputUnique
  <2> QED BY <1>1, <2>2, <2>3 DEF IsPrepared
<1> HIDE DEF points, Equation
<1> QED BY <1>2, <1>3, <1>4, <1>5, <1>6

\* The pairing check of verify_common.
LEMMA PairingKeeps ==
    ASSUME IInv, Pairing
    PROVE  IInv'
<1>1. pc = "pairing"
  BY DEF Pairing
<1>2. /\ call.verify /\ IsPrepared(prepared)
      /\ PrepareOutcome(self, call.check) = "Ok"
  BY <1>1 DEF IInv, CallProgress
<1>3. PairingAccepts <=> EquationHolds(self)
  BY <1>1, PairingDecides
<1>4. CASE ~PairingAccepts
  <2>1. Return("ProofVerificationFailed")
    BY <1>4 DEF Pairing
  <2>2. Outcome(self, call) = "ProofVerificationFailed"
    BY <1>2, <1>3, <1>4 DEF Outcome
  <2> QED BY <1>1, <2>1, <2>2, ReturnKeeps DEF Results, CallErrors
<1>5. CASE PairingAccepts /\ Bsb22
  <2>1. Continue("pok", acc) /\ UNCHANGED i
    BY <1>5 DEF Pairing
  <2>2. TypeOK' /\ Shape' /\ AnswerIsOutcome' /\ PreparedNeverPartial'
    <3>1. i' \in Nat
      BY <2>1 DEF IInv, TypeOK
    <3> QED BY <1>1, <2>1, <3>1, InCall, ContinueKeeps DEF Steps
  <2>3. CallProgress'
    <3>1. pc' = "pok" /\ UNCHANGED <<self, call, prepared>>
      BY <2>1 DEF Continue
    <3> QED BY <1>2, <1>3, <1>5, <3>1 DEF CallProgress, IsPrepared, vk
  <2> QED BY <2>2, <2>3 DEF IInv
<1>6. CASE PairingAccepts /\ ~Bsb22
  <2>1. Return("Ok")
    BY <1>6 DEF Pairing
  <2>2. PokHolds(self)
    BY <1>1, <1>6, InCall DEF PokHolds
  <2>3. Outcome(self, call) = "Ok"
    BY <1>2, <1>3, <1>6, <2>2 DEF Outcome
  <2> QED BY <1>1, <2>1, <2>3, ReturnKeeps DEF Results
<1> QED BY <1>4, <1>5, <1>6

\* verify_commitment_pok decides whether the knowledge proof is right.
LEMMA PokKeeps ==
    ASSUME IInv, verify_commitment_pok
    PROVE  IInv'
<1>1. pc = "pok" /\ Return(PokResult)
  BY DEF verify_commitment_pok
<1>2. /\ call.verify /\ EquationHolds(self)
      /\ PrepareOutcome(self, call.check) = "Ok"
  BY <1>1 DEF IInv, CallProgress
<1>3. PokResult = IF PokHolds(self) THEN "Ok"
                  ELSE "CommitmentPokVerificationFailed"
  <2>1. CASE ~HasCommitment(self)
    BY <1>1, <2>1, InCall DEF PokResult, PokHolds, WellShaped, HasCommitment, vk
  <2>2. CASE HasCommitment(self)
    <3> DEFINE key == vk.vk_commitment
               points == {self.proof_commitment, key.g_sigma_neg_g2,
                          self.proof_commitment_pok, key.g2}
               lhs == self.proof_commitment * key.g_sigma_neg_g2
                      + self.proof_commitment_pok * key.g2
    <3>1. PokResult = IF PokAccepts THEN "Ok"
                      ELSE "CommitmentPokVerificationFailed"
      BY <1>1, <2>2, InCall DEF PokResult, WellShaped, HasCommitment, vk
    <3>2. PokAccepts <=>
              /\ points \subseteq Points
              /\ PairingOfTwoIsOne(self.proof_commitment, key.g_sigma_neg_g2,
                                   self.proof_commitment_pok, key.g2)
      BY DEF PokAccepts, Decodes
    <3>3. PokHolds(self) <=> points \subseteq Points /\ lhs % r = 0
      BY <2>2 DEF PokHolds, vk
    <3>4. ASSUME points \subseteq Points
          PROVE  PairingOfTwoIsOne(self.proof_commitment, key.g_sigma_neg_g2,
                                   self.proof_commitment_pok, key.g2)
                 <=> lhs % r = 0
      <4>1. \A p \in Points : p \in Int
        BY EncodingFacts
      <4>2. /\ self.proof_commitment \in Int /\ key.g_sigma_neg_g2 \in Int
            /\ self.proof_commitment_pok \in Int /\ key.g2 \in Int
        BY <3>4, <4>1
      <4> QED BY <4>2, PairingOfTwo
    <3> HIDE DEF points, lhs
    <3> QED BY <3>1, <3>2, <3>3, <3>4
  <2> QED BY <2>1, <2>2
<1>4. PokResult = Outcome(self, call)
  BY <1>2, <1>3 DEF Outcome
<1>5. PokResult \in Results
  BY <1>3 DEF Results, CallErrors
<1> QED BY <1>1, <1>4, <1>5, ReturnKeeps

\* Every step keeps the inductive invariant.
LEMMA NextIInv == IInv /\ [Next]_vars => IInv'
<1> SUFFICES ASSUME IInv, [Next]_vars PROVE IInv'
  OBVIOUS
<1>1. CASE /\ self = None
           /\ \E p \in Proofs, x \in InputVectors, k \in Vks :
                  New(p, x, k) \/ NewWithCommitment(p, x, k)
  BY <1>1, ConstructKeeps
<1>2. CASE \E c \in Calls : Invoke(c)
  BY <1>2, InvokeKeeps
<1>3. CASE FirstColumn
  BY <1>3, FirstColumnKeeps
<1>4. CASE InputColumn
  BY <1>4, InputColumnKeeps
<1>5. CASE EndLoop
  BY <1>5, EndLoopKeeps
<1>6. CASE CommitmentColumn
  BY <1>6, CommitmentColumnKeeps
<1>7. CASE RawCommitment
  BY <1>7, RawCommitmentKeeps
<1>8. CASE StorePrepared
  BY <1>8, StorePreparedKeeps
<1>9. CASE Pairing
  BY <1>9, PairingKeeps
<1>10. CASE verify_commitment_pok
  BY <1>10, PokKeeps
<1>11. CASE UNCHANGED vars
  BY <1>11
     DEF vars, IInv, TypeOK, Shape, CallProgress, AnswerIsOutcome, Finished,
         PreparedNeverPartial, IsPrepared, AccIs, NoOffence, vk, NR_INPUTS
<1> QED BY <1>1, <1>2, <1>3, <1>4, <1>5, <1>6, <1>7, <1>8, <1>9, <1>10, <1>11
        DEF Next, Step

-----------------------------------------------------------------------------
(***************************************************************************)
(* The theorems.                                                           *)
(***************************************************************************)

\* The invariant that the others follow from: between its steps a call of
\* prepare_inputs or verify holds exactly the partial sums it should, and
\* the answer it gives is the one the statement defines.
THEOREM InductiveInvariant == Spec => []IInv
<1>1. Init => IInv
  BY InitIInv
<1>2. IInv /\ [Next]_vars => IInv'
  BY NextIInv
<1> QED BY <1>1, <1>2, PTL DEF Spec

\* The fields of a Groth16Verifier and the locals of its calls keep their
\* types for every group order, every key and every number of public inputs.
THEOREM TypeCorrect == Spec => []TypeOK
<1>1. IInv => TypeOK
  BY DEF IInv
<1> QED BY <1>1, InductiveInvariant, PTL

\* verify answers Ok for the valid proofs with canonical inputs and
\* verify_unchecked for the valid proofs, and for no others, whatever calls
\* were made on the object before.
LEMMA OutcomeOkMeansValid ==
    ASSUME NEW o \in Groth16Verifier, WellShaped(o), NEW c \in Calls, c.verify
    PROVE  Outcome(o, c) = "Ok"
           <=> ValidProof(o) /\ (c.check => InputsCanonical(o))
<1> DEFINE n == Len(Wires(o))
           x == o.public_inputs
<1>1. /\ n \in Nat /\ Len(x) \in Nat /\ Len(x) <= n
      /\ \A j \in 1 .. Len(x) : x[j] \in Nat
      /\ c.check \in BOOLEAN
  BY WiresFacts DEF Calls
<1> HIDE DEF n, x
<1>2. ASSUME Outcome(o, c) = "Ok"
      PROVE  ValidProof(o) /\ (c.check => InputsCanonical(o))
  <2>1. PrepareOutcome(o, c.check) = "Ok" /\ EquationHolds(o) /\ PokHolds(o)
    BY <1>2 DEF Outcome
  <2>2. Offences(o, c.check) = {}
    BY <2>1 DEF PrepareOutcome
  <2>3. ASSUME c.check, NEW j \in 1 .. Len(x) PROVE x[j] < r
    <3>1. j \in 1 .. n /\ j \notin Offences(o, c.check)
      BY <1>1, <2>2
    <3>2. ~Refused(o, c.check, j)
      BY <3>1 DEF Offences, n
    <3> QED BY <1>1, <2>3, <3>2, OrderAssumption DEF Refused, x
  <2> QED BY <2>1, <2>3 DEF ValidProof, InputsCanonical, x
<1>3. ASSUME ValidProof(o), c.check => InputsCanonical(o)
      PROVE  Outcome(o, c) = "Ok"
  <2>1. PICK k \in Points : IsPreparedInput(k, o)
    BY <1>3 DEF ValidProof, EquationHolds
  <2>2. /\ \A j \in 1 .. n + 1 : o.verifyingkey.vk_ic[j] \in Points
        /\ HasCommitment(o) => o.proof_commitment \in Points
    BY <2>1, PreparedInputFacts DEF n
  <2>3. o.proof_commitment # OffCurve
    BY <2>2, EncodingFacts, NoneAssumption DEF HasCommitment, Encodings
  <2>4. \A j \in 1 .. n : j \notin Offences(o, c.check)
    <3>1. SUFFICES ASSUME NEW j \in 1 .. n PROVE j \notin Offences(o, c.check)
      OBVIOUS
    <3>2. /\ o.verifyingkey.vk_ic[j + 1] # OffCurve
          /\ o.verifyingkey.vk_ic[1] # OffCurve
      BY <1>1, <2>2, EncodingFacts
    <3>3. ~Refused(o, c.check, j)
      <4>1. SUFFICES ASSUME c.check, j <= Len(x), x[j] >= r PROVE FALSE
        BY DEF Refused, x
      <4>2. x[j] < r
        BY <1>1, <1>3, <4>1 DEF InputsCanonical, x
      <4> QED BY <1>1, <4>1, <4>2, OrderAssumption
    <3> QED BY <3>2, <3>3 DEF Offences
  <2>5. PrepareOutcome(o, c.check) = "Ok"
    BY <1>1, <2>3, <2>4, NoOffenceOutcome DEF n
  <2> QED BY <1>3, <2>5 DEF Outcome, ValidProof
<1> QED BY <1>2, <1>3

\* Soundness and completeness of verify and verify_unchecked: Ok exactly for
\* a valid proof (verify: with canonical inputs), after any history of calls.
THEOREM VerdictIsCorrect == Spec => []VerdictCorrect
<1>1. IInv => VerdictCorrect
  <2>1. SUFFICES ASSUME IInv, Finished, call.verify
                 PROVE  res = "Ok" <=>
                            /\ ValidProof(self)
                            /\ call.check => InputsCanonical(self)
    BY DEF VerdictCorrect
  <2>2. res = Outcome(self, call)
    BY <2>1 DEF IInv, AnswerIsOutcome
  <2>3. self \in Groth16Verifier /\ call \in Calls /\ WellShaped(self)
    BY <2>1, NoneAssumption DEF IInv, TypeOK, Shape, Finished
  <2> QED BY <2>1, <2>2, <2>3, OutcomeOkMeansValid
<1> QED BY <1>1, InductiveInvariant, PTL

\* The defensive branches of prepare_inputs and verify_commitment_pok are
\* dead: the constructors admit only objects whose parts fit together.
THEOREM ShapeIsSettled == Spec => []ShapeSettledByConstructors
<1>1. IInv => ShapeSettledByConstructors
  <2>1. SUFFICES ASSUME IInv PROVE ShapeSettledByConstructors
    OBVIOUS
  <2>2. \A o, c : Outcome(o, c) \notin {"InvalidPublicInputsLength",
                                        "Bsb22InconsistentCommitmentState"}
    BY DEF Outcome, PrepareOutcome
  <2> QED BY <2>1, <2>2
          DEF IInv, Shape, AnswerIsOutcome, ShapeSettledByConstructors
<1> QED BY <1>1, InductiveInvariant, PTL

\* prepared_public_inputs never keeps a partial sum of a call that failed.
THEOREM PreparedIsNeverPartial == Spec => []PreparedNeverPartial
<1>1. IInv => PreparedNeverPartial
  BY DEF IInv
<1> QED BY <1>1, InductiveInvariant, PTL

\* Bsb22InvalidCommitmentPoint is reported only for a commitment that is no
\* point, never because of the accumulated sum or of the key.
THEOREM CommitmentIsBlamed == Spec => []CommitmentBlamed
<1>1. IInv => CommitmentBlamed
  <2>1. SUFFICES ASSUME IInv, Finished, res = "Bsb22InvalidCommitmentPoint"
                 PROVE  /\ self.proof_commitment = OffCurve
                        /\ \A j \in 1 .. Len(vk.vk_ic) : Decodes(vk.vk_ic[j])
    BY DEF CommitmentBlamed
  <2>2. /\ self \in Groth16Verifier /\ WellShaped(self)
        /\ res = Outcome(self, call)
    BY <2>1, NoneAssumption DEF IInv, TypeOK, Shape, Finished, AnswerIsOutcome
  <2>3. PrepareOutcome(self, call.check) = "Bsb22InvalidCommitmentPoint"
    BY <2>1, <2>2 DEF Outcome
  <2>4. Offences(self, call.check) = {} /\ self.proof_commitment = OffCurve
    BY <2>3 DEF PrepareOutcome
  <2>5. HasCommitment(self)
    BY <2>4, NoneAssumption DEF HasCommitment, Encodings
  <2> DEFINE n == Len(Wires(self))
  <2>6. /\ n \in Nat /\ n >= 1 /\ Len(vk.vk_ic) = n + 1
        /\ \A j \in 1 .. n + 1 : vk.vk_ic[j] \in Encodings
    BY <2>2, <2>5, WiresFacts, ColumnFacts DEF vk
  <2>7. \A j \in 1 .. n : vk.vk_ic[j + 1] # OffCurve /\ vk.vk_ic[1] # OffCurve
    BY <2>4 DEF Offences, vk
  <2> HIDE DEF n
  <2>8. ASSUME NEW j \in 1 .. n + 1 PROVE vk.vk_ic[j] \in Points
    <3>1. CASE j = 1
      <4>1. 1 \in 1 .. n
        BY <2>6
      <4> QED BY <2>6, <2>7, <3>1, <4>1, EncodingFacts
    <3>2. CASE j # 1
      <4>1. j - 1 \in 1 .. n /\ (j - 1) + 1 = j
        BY <2>6, <3>2
      <4> QED BY <2>6, <2>7, <4>1, EncodingFacts
    <3> QED BY <3>1, <3>2
  <2> QED BY <2>4, <2>6, <2>8 DEF Decodes
<1> QED BY <1>1, InductiveInvariant, PTL

\* A constructor creates or refuses, Invoke begins a call, the last step of a
\* call is where Groth16Spec answers, and all other steps leave it alone.
LEMMA StepKind ==
    ASSUME Step
    PROVE  /\ pc # "idle" /\ UNCHANGED <<self, call>>
           /\ pc' = "idle" \/ UNCHANGED res
<1>1. CASE FirstColumn
  BY <1>1 DEF FirstColumn, Return, Continue
<1>2. CASE InputColumn
  BY <1>2 DEF InputColumn, Return, Continue
<1>3. CASE EndLoop
  BY <1>3 DEF EndLoop, Continue
<1>4. CASE CommitmentColumn
  BY <1>4 DEF CommitmentColumn, Return, Continue
<1>5. CASE RawCommitment
  BY <1>5 DEF RawCommitment, Return, Continue
<1>6. CASE StorePrepared
  BY <1>6 DEF StorePrepared
<1>7. CASE Pairing
  BY <1>7 DEF Pairing, Return, Continue
<1>8. CASE verify_commitment_pok
  BY <1>8 DEF verify_commitment_pok, Return
<1> QED BY <1>1, <1>2, <1>3, <1>4, <1>5, <1>6, <1>7, <1>8 DEF Step

\* Groth16Spec speaks of the same objects and the same statement.
LEMMA SameObjects ==
    /\ Abstract!Groth16Verifier = Groth16Verifier
    /\ \A o : Abstract!WellShaped(o) <=> WellShaped(o)
<1>1. Abstract!Encodings = Encodings /\ Abstract!Scalars = Scalars
  BY DEF Abstract!Encodings, Encodings, Abstract!Points, Points,
         Abstract!Scalars, Scalars
<1>2. Abstract!Groth16Verifyingkey = Groth16Verifyingkey
  BY <1>1 DEF Abstract!Groth16Verifyingkey, Groth16Verifyingkey,
              Abstract!CommitmentVerifyingKey, CommitmentVerifyingKey
<1>3. Abstract!Groth16Verifier = Groth16Verifier
  BY <1>1, <1>2 DEF Abstract!Groth16Verifier, Groth16Verifier
<1>4. \A o : Abstract!WellShaped(o) <=> WellShaped(o)
  BY DEF Abstract!WellShaped, WellShaped, Abstract!HasCommitment,
         HasCommitment, Abstract!Wires, Wires
<1> QED BY <1>3, <1>4

\* In particular it answers with the same outcome.
LEMMA SameOutcome ==
    \A o, c : Abstract!Outcome(o, c) = Outcome(o, c)
<1>1. /\ Abstract!Points = Points
      /\ \A o : Abstract!HasCommitment(o) <=> HasCommitment(o)
      /\ \A o : Abstract!Wires(o) = Wires(o)
  BY DEF Abstract!Points, Points, Abstract!HasCommitment, HasCommitment,
         Abstract!Wires, Wires
<1>2. \A a, ic, w, n : Abstract!IsSum(a, ic, w, n) <=> IsSum(a, ic, w, n)
  BY <1>1 DEF Abstract!IsSum, IsSum, Abstract!ArePartialSums, ArePartialSums
<1>3. \A k, o : Abstract!IsPreparedInput(k, o) <=> IsPreparedInput(k, o)
  BY <1>1, <1>2 DEF Abstract!IsPreparedInput, IsPreparedInput
<1>4. \A o : Abstract!EquationHolds(o) <=> EquationHolds(o)
  BY <1>1, <1>3 DEF Abstract!EquationHolds, EquationHolds
<1>5. \A o : Abstract!PokHolds(o) <=> PokHolds(o)
  BY <1>1 DEF Abstract!PokHolds, PokHolds
<1>6. \A o, check, j :
          Abstract!Refused(o, check, j) <=> Refused(o, check, j)
  BY DEF Abstract!Refused, Refused
<1>7. \A o, check : Abstract!Offences(o, check) = Offences(o, check)
  BY <1>1, <1>6 DEF Abstract!Offences, Offences
<1>8. \A o, check : Abstract!PrepareOutcome(o, check) = PrepareOutcome(o, check)
  BY <1>6, <1>7
     DEF Abstract!PrepareOutcome, PrepareOutcome, Abstract!Min, Min
<1> QED BY <1>4, <1>5, <1>8 DEF Abstract!Outcome, Outcome

\* Groth16Verifier implements Groth16Spec: with the steps of a call hidden,
\* the object answers every call at once and as the statement says.
THEOREM Refinement == Spec => ImplementsSpec
<1>1. Init => Abstract!SpecInit
  BY DEF Init, Abstract!SpecInit
<1>2. IInv /\ IInv' /\ [Next]_vars => [Abstract!SpecNext]_(Abstract!specVars)
  <2> SUFFICES ASSUME IInv, IInv', [Next]_vars
               PROVE  Abstract!SpecNext \/ UNCHANGED Abstract!specVars
    OBVIOUS
  <2>1. CASE /\ self = None
             /\ \E p \in Proofs, x \in InputVectors, k \in Vks :
                    New(p, x, k) \/ NewWithCommitment(p, x, k)
    <3>1. /\ \/ /\ res' = "Ok" /\ self' \in Groth16Verifier
                /\ WellShaped(self')
             \/ res' \in ConstructorErrors /\ self' = None
          /\ UNCHANGED <<call, pc>>
      BY <2>1, ConstructResult
    <3>2. CASE res' = "Ok" /\ self' \in Groth16Verifier /\ WellShaped(self')
      <4>1. Abstract!Create
        BY <2>1, <3>1, <3>2, SameObjects DEF Abstract!Create
      <4> QED BY <4>1 DEF Abstract!SpecNext
    <3>3. CASE res' \in ConstructorErrors /\ self' = None
      <4>1. Abstract!Refuse
        BY <2>1, <3>1, <3>3 DEF Abstract!Refuse, ConstructorErrors
      <4> QED BY <4>1 DEF Abstract!SpecNext
    <3> QED BY <3>1, <3>2, <3>3
  <2>2. CASE \E c \in Calls : Invoke(c)
    <3>1. Abstract!Begin
      BY <2>2 DEF Invoke, Abstract!Begin, Calls
    <3> QED BY <3>1 DEF Abstract!SpecNext
  <2>3. CASE Step
    <3>1. /\ pc # "idle" /\ UNCHANGED <<self, call>>
          /\ pc' = "idle" \/ UNCHANGED res
      BY <2>3, StepKind
    <3>2. CASE pc' # "idle"
      BY <3>1, <3>2 DEF Abstract!specVars
    <3>3. CASE pc' = "idle"
      <4>1. call \in Calls /\ call # None
        BY <3>1, InCall, CallsAssumption
      <4>2. res' = Outcome(self, call)
        BY <3>1, <3>3, <4>1 DEF IInv, AnswerIsOutcome, Finished
      <4>3. Abstract!Finish
        BY <3>1, <3>3, <4>1, <4>2, SameOutcome DEF Abstract!Finish
      <4> QED BY <4>3 DEF Abstract!SpecNext
    <3> QED BY <3>2, <3>3
  <2>4. CASE UNCHANGED vars
    BY <2>4 DEF vars, Abstract!specVars
  <2> QED BY <2>1, <2>2, <2>3, <2>4 DEF Next
<1> QED BY <1>1, <1>2, InductiveInvariant, PTL
        DEF Spec, ImplementsSpec, Abstract!AbstractSpec
=============================================================================
