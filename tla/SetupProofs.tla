----------------------------- MODULE SetupProofs -----------------------------
(***************************************************************************)
(* Proofs about what ties a key to its setup, the metadata of              *)
(* src/vk/setup.rs: SetupTxt, which finds the markers in a binary, and     *)
(* VkLifecycle, where digest, kind and guard travel from the setup to the  *)
(* prover.  For every binary, every set of key pairs and any number of     *)
(* setups: the inductive invariants, step by step, and the properties they *)
(* imply.                                                                  *)
(***************************************************************************)
EXTENDS SetupTxt, VkLifecycle, FiniteSetTheorems, SequenceTheorems,
        WellFoundedInduction, TLAPS

-----------------------------------------------------------------------------
(***************************************************************************)
(* Least elements, induction and ranks.                                    *)
(***************************************************************************)
\* A non-empty set of natural numbers has a least element.
LEMMA LeastNat ==
    ASSUME NEW T \in SUBSET Nat, T # {}
    PROVE  \E m \in T : \A k \in T : m <= k
<1> DEFINE R == {ss \in Nat \X Nat : ss[1] < ss[2]}
<1>1. IsWellFoundedOn(R, Nat)
  BY NatLessThanWellFounded DEF OpToRel
<1>2. \A x, y \in Nat : x < y => <<x, y>> \in R
  OBVIOUS
<1> HIDE DEF R
<1>3. PICK m \in T : \A y \in T : ~ (<<y, m>> \in R)
  <2>1. \E m \in T : \A y \in T : ~ (<<y, m>> \in R)
    BY <1>1, WFMin
  <2> QED BY <2>1
<1>4. \A k \in T : ~ (k < m)
  BY <1>2, <1>3
<1>5. \A k \in T : m <= k
  BY <1>4
<1> QED BY <1>5

\* Min is what its name says.
LEMMA MinIsLeast ==
    ASSUME NEW T \in SUBSET Nat, T # {}
    PROVE  Min(T) \in T /\ \A k \in T : Min(T) <= k
BY LeastNat DEF Min

\* Induction: a set of natural numbers that holds 0 and with k also k + 1
\* holds them all.
LEMMA SetInduction ==
    ASSUME NEW S \in SUBSET Nat, 0 \in S, \A k \in S : k + 1 \in S
    PROVE  S = Nat
<1>1. SUFFICES ASSUME Nat \ S # {} PROVE FALSE
  OBVIOUS
<1>2. PICK m \in Nat \ S : \A k \in Nat \ S : m <= k
  BY <1>1, LeastNat
<1>3. m - 1 \in Nat /\ m - 1 \in S
  BY <1>2
<1> QED BY <1>2, <1>3

\* In a finite set of numbers there is one with none below it, one with one
\* below it, and so on.
LEMMA RankExists ==
    ASSUME NEW T \in SUBSET Nat, IsFiniteSet(T), NEW n \in Nat, n < Cardinality(T)
    PROVE  \E k \in T : Cardinality({j \in T : j < k}) = n
<1> DEFINE Below(k) == {j \in T : j < k}
           S == {c \in Nat : c < Cardinality(T) =>
                                \E k \in T : Cardinality(Below(k)) = c}
<1>0. Cardinality(T) \in Nat
  BY FS_CardinalityType
<1>1. 0 \in S
  <2> SUFFICES ASSUME 0 < Cardinality(T)
               PROVE  \E k \in T : Cardinality(Below(k)) = 0
    OBVIOUS
  <2>1. T # {}
    BY FS_EmptySet
  <2>2. PICK k \in T : \A j \in T : k <= j
    BY <2>1, LeastNat
  <2>3. Below(k) = {}
    <3>1. \A j \in T : ~ (j < k)
      BY <2>2
    <3> QED BY <3>1
  <2> QED BY <2>2, <2>3, FS_EmptySet
<1>2. ASSUME NEW c \in S PROVE c + 1 \in S
  <2> SUFFICES ASSUME c + 1 < Cardinality(T)
               PROVE  \E k \in T : Cardinality(Below(k)) = c + 1
    OBVIOUS
  <2>1. PICK k \in T : Cardinality(Below(k)) = c
    BY <1>0
  <2> DEFINE B == Below(k) \cup {k}
  <2>2. IsFiniteSet(Below(k)) /\ k \notin Below(k)
    <3>1. Below(k) \subseteq T /\ k \notin Below(k)
      OBVIOUS
    <3> QED BY <3>1, FS_Subset
  <2>3. IsFiniteSet(B) /\ Cardinality(B) = c + 1
    BY <2>1, <2>2, FS_AddElement
  <2>4. T \ B # {}
    <3>1. B \subseteq T
      OBVIOUS
    <3>2. T # B
      BY <1>0, <2>3
    <3> QED BY <3>1, <3>2
  <2>5. PICK l \in T \ B : \A j \in T \ B : l <= j
    <3>1. T \ B \in SUBSET Nat
      OBVIOUS
    <3> QED BY <2>4, <3>1, LeastNat
  <2>6. Below(l) = B
    <3>1. \A j \in T : j < l => j \in B
      BY <2>5
    <3>2. \A j \in B : j \in T /\ j <= k
      OBVIOUS
    <3>3. k < l
      BY <2>5
    <3>4. \A j \in B : j < l
      BY <3>2, <3>3
    <3> HIDE DEF B
    <3> QED BY <3>1, <3>2, <3>4
  <2> QED BY <2>3, <2>5, <2>6
<1> HIDE DEF S
<1>3. S \in SUBSET Nat
  BY DEF S
<1>4. S = Nat
  BY <1>1, <1>2, <1>3, SetInduction
<1> QED BY <1>4 DEF S

-----------------------------------------------------------------------------
(***************************************************************************)
(* The text of a marker.                                                   *)
(***************************************************************************)
\* The n-th zero byte of a text comes behind the one before it.
LEMMA NulInOrder ==
    ASSUME NEW s \in Seq(STRING), NEW n \in Nat, 0 < n, n <= Cardinality(Nuls(s))
    PROVE  /\ Nul(s, n) \in 1 .. Len(s) /\ s[Nul(s, n)] = NUL
           /\ 1 < n => Nul(s, n - 1) < Nul(s, n)
<1> DEFINE T == Nuls(s)
           Below(k) == {j \in T : j < k}
<1>1. /\ T \in SUBSET Nat /\ IsFiniteSet(T)
      /\ \A k \in T : k \in 1 .. Len(s) /\ s[k] = NUL
  <2>1. T \subseteq 1 .. Len(s) /\ \A k \in T : s[k] = NUL
    BY DEF Nuls
  <2>2. Len(s) \in Nat /\ IsFiniteSet(1 .. Len(s)) /\ 1 .. Len(s) \subseteq Nat
    BY FS_Interval
  <2>3. IsFiniteSet(T)
    BY <2>1, <2>2, FS_Subset
  <2> QED BY <2>1, <2>2, <2>3
<1> HIDE DEF T
<1>2. Cardinality(T) \in Nat /\ n <= Cardinality(T)
  BY <1>1, FS_CardinalityType DEF T
<1>3. ASSUME NEW m \in Nat, 0 < m, m <= Cardinality(T)
      PROVE  Nul(s, m) \in T /\ Cardinality(Below(Nul(s, m))) = m - 1
  <2>1. m - 1 \in Nat /\ m - 1 < Cardinality(T)
    BY <1>2, <1>3
  <2>2. \E k \in T : Cardinality(Below(k)) = m - 1
    BY <1>1, <2>1, RankExists
  <2>3. Nul(s, m) = CHOOSE k \in T : Cardinality(Below(k)) = m - 1
    BY DEF Nul, T
  <2> HIDE DEF Below
  <2> QED BY <2>2, <2>3
<1>4. Nul(s, n) \in T /\ Cardinality(Below(Nul(s, n))) = n - 1
  BY <1>2, <1>3
<1>5. ASSUME 1 < n PROVE Nul(s, n - 1) < Nul(s, n)
  <2>1. /\ Nul(s, n - 1) \in T
        /\ Cardinality(Below(Nul(s, n - 1))) = (n - 1) - 1
    <3>1. n - 1 \in Nat /\ 0 < n - 1 /\ n - 1 <= Cardinality(T)
      BY <1>2, <1>5
    <3> QED BY <1>3, <3>1
  <2> DEFINE k == Nul(s, n - 1)
             l == Nul(s, n)
  <2>2. k \in T /\ l \in T /\ k \in Nat /\ l \in Nat
    BY <1>1, <1>4, <2>1
  <2>3. /\ Cardinality(Below(k)) = (n - 1) - 1
        /\ Cardinality(Below(l)) = n - 1
    BY <1>4, <2>1
  <2> HIDE DEF k, l
  <2>4. SUFFICES ASSUME l <= k PROVE FALSE
    <3>1. k < l
      BY <2>2, <2>4
    <3> QED BY <3>1 DEF k, l
  <2>5. Below(l) \subseteq Below(k)
    <3>1. \A j \in T : j < l => j < k
      BY <1>1, <2>2, <2>4
    <3> QED BY <3>1
  <2>6. IsFiniteSet(Below(k))
    <3>1. Below(k) \subseteq T
      OBVIOUS
    <3> QED BY <1>1, <3>1, FS_Subset
  <2>7. Cardinality(Below(l)) <= Cardinality(Below(k))
    <3> HIDE DEF Below
    <3> QED BY <2>5, <2>6, FS_Subset
  <2> QED BY <2>3, <2>7
<1> QED BY <1>1, <1>4, <1>5

\* A text of seven pieces.
LEMMA SevenPieces ==
    ASSUME NEW s \in Seq(STRING), Len(Split(s)) = 7
    PROVE  /\ \A n \in 1 .. 6 : Nul(s, n) \in 1 .. Len(s) /\ s[Nul(s, n)] = NUL
           /\ \A n \in 2 .. 6 : Nul(s, n - 1) < Nul(s, n)
           /\ Split(s)[1] = SubSeq(s, 1, Nul(s, 1) - 1)
           /\ \A n \in 2 .. 6 :
                 Split(s)[n] = SubSeq(s, Nul(s, n - 1) + 1, Nul(s, n) - 1)
           /\ Split(s)[7] = SubSeq(s, Nul(s, 6) + 1, Len(s))
<1> DEFINE last == Cardinality(Nuls(s)) + 1
<1>1. /\ Cardinality(Nuls(s)) \in Nat
      /\ DOMAIN Split(s) = 1 .. last
      /\ \A n \in 1 .. last :
            Split(s)[n] = SubSeq(s, IF n = 1 THEN 1 ELSE Nul(s, n - 1) + 1,
                                    IF n = last THEN Len(s) ELSE Nul(s, n) - 1)
  <2>1. Len(s) \in Nat /\ IsFiniteSet(1 .. Len(s)) /\ Nuls(s) \subseteq 1 .. Len(s)
    BY FS_Interval DEF Nuls
  <2>2. Cardinality(Nuls(s)) \in Nat
    BY <2>1, FS_Subset, FS_CardinalityType
  <2> QED BY <2>2 DEF Split
<1>2. last = 7 /\ Cardinality(Nuls(s)) = 6
  <2>1. Len(Split(s)) = last
    <3>1. last \in Nat
      BY <1>1
    <3> HIDE DEF last
    <3> QED BY <3>1 DEF Split, last
  <2>2. last = 7 /\ Cardinality(Nuls(s)) \in Nat
    <3> HIDE DEF last
    <3> QED BY <1>1, <2>1
  <2> QED BY <2>2
<1> HIDE DEF last
<1>3. ASSUME NEW n \in 1 .. 6
      PROVE  /\ Nul(s, n) \in 1 .. Len(s) /\ s[Nul(s, n)] = NUL
             /\ 1 < n => Nul(s, n - 1) < Nul(s, n)
  <2>1. n \in Nat /\ 0 < n /\ n <= Cardinality(Nuls(s))
    BY <1>2
  <2> QED BY <2>1, NulInOrder
<1>4. \A n \in 1 .. 7 :
          Split(s)[n] = SubSeq(s, IF n = 1 THEN 1 ELSE Nul(s, n - 1) + 1,
                                  IF n = 7 THEN Len(s) ELSE Nul(s, n) - 1)
  BY <1>1, <1>2
<1>5. Split(s)[1] = SubSeq(s, 1, Nul(s, 1) - 1)
  BY <1>4
<1>6. ASSUME NEW n \in 2 .. 6
      PROVE  Split(s)[n] = SubSeq(s, Nul(s, n - 1) + 1, Nul(s, n) - 1)
  <2>1. n \in 1 .. 7 /\ n # 1 /\ n # 7
    OBVIOUS
  <2> QED BY <1>4, <2>1
<1>7. Split(s)[7] = SubSeq(s, Nul(s, 6) + 1, Len(s))
  BY <1>4
<1>8. \A n \in 1 .. 6 : Nul(s, n) \in 1 .. Len(s) /\ s[Nul(s, n)] = NUL
  BY <1>3
<1>9. \A n \in 2 .. 6 : Nul(s, n - 1) < Nul(s, n)
  BY <1>3
<1> QED BY <1>5, <1>6, <1>7, <1>8, <1>9

\* A slice.
LEMMA Slice ==
    ASSUME NEW s \in Seq(STRING), NEW i \in Nat, NEW j \in Nat,
           0 < i, i <= j + 1, j <= Len(s)
    PROVE  /\ SubSeq(s, i, j) \in Seq(STRING) /\ Len(SubSeq(s, i, j)) = j - i + 1
           /\ \A k \in 1 .. j - i + 1 : SubSeq(s, i, j)[k] = s[i + k - 1]
<1>1. Len(s) \in Nat /\ \A k \in 1 .. Len(s) : s[k] \in STRING
  OBVIOUS
<1>2. \A k \in i .. j : s[k] \in STRING
  BY <1>1
<1>3. /\ SubSeq(s, i, j) \in Seq(STRING)
      /\ Len(SubSeq(s, i, j)) = IF i <= j THEN j - i + 1 ELSE 0
      /\ \A k \in 1 .. j - i + 1 : SubSeq(s, i, j)[k] = s[i + k - 1]
  BY <1>2, SubSeqProperties
<1> QED BY <1>3

\* A slice of a slice.
LEMMA SliceOfSlice ==
    ASSUME NEW s \in Seq(STRING), NEW i \in Nat, NEW j \in Nat, 0 < i, j <= Len(s),
           NEW a \in Nat, NEW b \in Nat, 0 < a, a <= b + 1, b <= j - i + 1
    PROVE  SubSeq(SubSeq(s, i, j), a, b) = SubSeq(s, i + a - 1, i + b - 1)
<1>0. Len(s) \in Nat /\ i <= j + 1
  OBVIOUS
<1> DEFINE u == SubSeq(s, i, j)
           v == SubSeq(u, a, b)
           w == SubSeq(s, i + a - 1, i + b - 1)
<1>1. /\ u \in Seq(STRING) /\ Len(u) = j - i + 1
      /\ \A k \in 1 .. j - i + 1 : u[k] = s[i + k - 1]
  BY <1>0, Slice
<1> HIDE DEF u
<1>2. /\ v \in Seq(STRING) /\ Len(v) = b - a + 1
      /\ \A k \in 1 .. b - a + 1 : v[k] = u[a + k - 1]
  BY <1>1, Slice
<1> HIDE DEF v
<1>3. /\ w \in Seq(STRING) /\ Len(w) = b - a + 1
      /\ \A k \in 1 .. b - a + 1 : w[k] = s[(i + a - 1) + k - 1]
  <2> DEFINE c == i + a - 1
             d == i + b - 1
  <2>1. /\ c \in Nat /\ d \in Nat /\ 0 < c /\ c <= d + 1 /\ d <= Len(s)
        /\ d - c + 1 = b - a + 1
    BY <1>0
  <2> HIDE DEF c, d
  <2>2. /\ SubSeq(s, c, d) \in Seq(STRING) /\ Len(SubSeq(s, c, d)) = d - c + 1
        /\ \A k \in 1 .. d - c + 1 : SubSeq(s, c, d)[k] = s[c + k - 1]
    BY <2>1, Slice
  <2>3. /\ SubSeq(s, c, d) \in Seq(STRING) /\ Len(SubSeq(s, c, d)) = b - a + 1
        /\ \A k \in 1 .. b - a + 1 : SubSeq(s, c, d)[k] = s[c + k - 1]
    BY <2>1, <2>2
  <2> QED BY <2>3 DEF c, d
<1> HIDE DEF w
<1>4. \A k \in 1 .. b - a + 1 : v[k] = w[k]
  <2> TAKE k \in 1 .. b - a + 1
  <2>1. a + k - 1 \in 1 .. j - i + 1 /\ i + (a + k - 1) - 1 = (i + a - 1) + k - 1
    OBVIOUS
  <2>2. v[k] = u[a + k - 1] /\ w[k] = s[(i + a - 1) + k - 1]
    BY <1>2, <1>3
  <2>3. u[a + k - 1] = s[i + (a + k - 1) - 1]
    BY <1>1, <2>1
  <2> QED BY <2>1, <2>2, <2>3
<1>5. v = w
  BY <1>2, <1>3, <1>4, SeqEqual
<1> QED BY <1>5 DEF u, v, w

\* Reading on: the beginning of a text and the slice behind it.
LEMMA ReadOn ==
    ASSUME NEW s \in Seq(STRING), NEW i \in Nat, NEW j \in Nat, i <= j, j <= Len(s)
    PROVE  SubSeq(s, 1, j) = SubSeq(s, 1, i) \o SubSeq(s, i + 1, j)
<1> DEFINE u == SubSeq(s, 1, i)
           v == SubSeq(s, i + 1, j)
           w == SubSeq(s, 1, j)
           x == u \o v
<1>0. Len(s) \in Nat
  OBVIOUS
<1> DEFINE one == 1
<1>a. one \in Nat /\ 0 < one /\ one = 1
  OBVIOUS
<1> HIDE DEF one
<1>1. /\ u \in Seq(STRING) /\ Len(u) = i
      /\ \A k \in 1 .. i : u[k] = s[k]
  <2>1. /\ SubSeq(s, one, i) \in Seq(STRING) /\ Len(SubSeq(s, one, i)) = i - one + 1
        /\ \A k \in 1 .. i - one + 1 : SubSeq(s, one, i)[k] = s[one + k - 1]
    BY <1>0, <1>a, Slice
  <2> QED BY <2>1, <1>a
<1>2. /\ v \in Seq(STRING) /\ Len(v) = j - i
      /\ \A k \in 1 .. j - i : v[k] = s[i + k]
  <2>1. /\ v \in Seq(STRING) /\ Len(v) = j - (i + 1) + 1
        /\ \A k \in 1 .. j - (i + 1) + 1 : v[k] = s[(i + 1) + k - 1]
    BY <1>0, Slice
  <2> HIDE DEF v
  <2>2. j - (i + 1) + 1 = j - i /\ \A k \in 1 .. j - i : (i + 1) + k - 1 = i + k
    OBVIOUS
  <2> QED BY <2>1, <2>2
<1>3. /\ w \in Seq(STRING) /\ Len(w) = j
      /\ \A k \in 1 .. j : w[k] = s[k]
  <2>1. /\ SubSeq(s, one, j) \in Seq(STRING) /\ Len(SubSeq(s, one, j)) = j - one + 1
        /\ \A k \in 1 .. j - one + 1 : SubSeq(s, one, j)[k] = s[one + k - 1]
    BY <1>0, <1>a, Slice
  <2> QED BY <2>1, <1>a
<1> HIDE DEF u, v, w
<1>4. /\ x \in Seq(STRING) /\ Len(x) = j
      /\ \A k \in 1 .. j : x[k] = IF k <= i THEN u[k] ELSE v[k - i]
  <2>1. /\ x \in Seq(STRING) /\ Len(x) = Len(u) + Len(v)
        /\ \A k \in 1 .. Len(u) + Len(v) :
              x[k] = IF k <= Len(u) THEN u[k] ELSE v[k - Len(u)]
    BY <1>1, <1>2, ConcatProperties
  <2>2. Len(u) + Len(v) = j
    BY <1>1, <1>2
  <2> HIDE DEF x
  <2> QED BY <1>1, <2>1, <2>2
<1> HIDE DEF x
<1>5. \A k \in 1 .. j : w[k] = x[k]
  <2> TAKE k \in 1 .. j
  <2>1. CASE k <= i
    BY <1>1, <1>3, <1>4, <2>1
  <2>2. CASE i < k
    <3>1. k - i \in 1 .. j - i /\ i + (k - i) = k
      BY <2>2
    <3> QED BY <1>2, <1>3, <1>4, <2>2, <3>1
  <2> QED BY <2>1, <2>2
<1>6. w = x
  BY <1>3, <1>4, <1>5, SeqEqual
<1> QED BY <1>6 DEF u, v, w, x


\* A slice of one token.
LEMMA OneToken ==
    ASSUME NEW s \in Seq(STRING), NEW k \in 1 .. Len(s)
    PROVE  SubSeq(s, k, k) = <<s[k]>>
<1>1. Len(s) \in Nat /\ s[k] \in STRING /\ k \in Nat /\ 0 < k /\ k <= k + 1
      /\ k <= Len(s)
  OBVIOUS
<1> DEFINE u == SubSeq(s, k, k)
<1>2. /\ u \in Seq(STRING) /\ Len(u) = k - k + 1
      /\ \A j \in 1 .. k - k + 1 : u[j] = s[k + j - 1]
  BY <1>1, Slice
<1> HIDE DEF u
<1>3. u \in Seq(STRING) /\ Len(u) = 1 /\ u[1] = s[k]
  BY <1>1, <1>2
<1>4. u = <<s[k]>>
  BY <1>1, <1>3
<1> QED BY <1>4 DEF u

\* A pair of digits, read and written again.
LEMMA PairAgain ==
    ASSUME NEW c, NEW d, PairParses(c, d)
    PROVE  /\ PairValue(c, d) \in Nat
           /\ HexDigit(PairValue(c, d) \div 16) =
                 CASE c = "F" -> "f" [] c = "+" -> "0" [] OTHER -> c
           /\ HexDigit(PairValue(c, d) % 16) =
                 CASE d = "F" -> "f" [] d = "+" -> "0" [] OTHER -> d
<1> DEFINE x == IF c = "+" THEN 0 ELSE HexValue[c]
           y == HexValue[d]
<1>1. /\ HexValue["0"] = 0 /\ HexValue["1"] = 1
      /\ HexValue["f"] = 15 /\ HexValue["F"] = 15
      /\ DOMAIN HexValue = {"0", "1", "f", "F"}
  BY DEF HexValue
<1>2. d \in {"0", "1", "f", "F"} /\ c \in {"0", "1", "f", "F", "+"}
  BY <1>1 DEF PairParses, IsHexDigit
<1>3. x \in {0, 1, 15} /\ y \in {0, 1, 15}
  BY <1>1, <1>2
<1>4. PairValue(c, d) = 16 * x + y
  BY <1>1, <1>2, <1>3 DEF PairValue
<1>5. /\ HexDigit(x) = CASE c = "F" -> "f" [] c = "+" -> "0" [] OTHER -> c
      /\ HexDigit(y) = CASE d = "F" -> "f" [] d = "+" -> "0" [] OTHER -> d
  BY <1>1, <1>2 DEF HexDigit
<1> HIDE DEF x, y
<1>6. /\ (16 * x + y) \in Nat
      /\ (16 * x + y) \div 16 = x /\ (16 * x + y) % 16 = y
  BY <1>3
<1> QED BY <1>4, <1>5, <1>6

\* A digest, read and written again.
LEMMA HexAgain ==
    ASSUME NEW s \in Seq(STRING), HexParses(s)
    PROVE  /\ from_hex(s) \in [1 .. DigestLen -> Nat]
           /\ Canonical(s) = to_hex(from_hex(s))
<1> DEFINE b == from_hex(s)
<1>1. /\ DigestLen \in Nat /\ Len(s) = 2 * DigestLen
      /\ \A k \in 1 .. DigestLen : PairParses(s[2 * k - 1], s[2 * k])
  BY DigestLenAssumption DEF HexParses
<1>2. /\ DOMAIN b = 1 .. DigestLen
      /\ \A k \in 1 .. DigestLen : b[k] = PairValue(s[2 * k - 1], s[2 * k])
      /\ b = [k \in 1 .. DigestLen |-> b[k]]
  BY DEF from_hex
<1> HIDE DEF b
<1>3. \A k \in 1 .. DigestLen : b[k] \in Nat
  BY <1>1, <1>2, PairAgain
<1>4. b \in [1 .. DigestLen -> Nat] /\ b \in Seq(Nat) /\ Len(b) = DigestLen
  <2>1. b \in [1 .. DigestLen -> Nat]
    BY <1>2, <1>3
  <2>2. b \in Seq(Nat)
    BY <1>1, <2>1, SeqDef
  <2>3. Len(b) = DigestLen
    <3>1. Len(b) \in Nat /\ DOMAIN b = 1 .. Len(b)
      BY <2>2, LenProperties
    <3> QED BY <1>1, <1>2, <3>1
  <2> QED BY <2>1, <2>2, <2>3
<1> DEFINE h == to_hex(b)
           c == Canonical(s)
<1>5. /\ DOMAIN h = 1 .. 2 * DigestLen /\ DOMAIN c = 1 .. 2 * DigestLen
      /\ h = [k \in 1 .. 2 * DigestLen |-> h[k]]
      /\ c = [k \in 1 .. 2 * DigestLen |-> c[k]]
  BY <1>1, <1>4 DEF to_hex, Canonical
<1>6. \A k \in 1 .. 2 * DigestLen : c[k] = h[k]
  <2> TAKE k \in 1 .. 2 * DigestLen
  <2>1. h[k] = HexDigit(IF k % 2 = 1 THEN b[(k + 1) \div 2] \div 16
                                     ELSE b[(k + 1) \div 2] % 16)
    BY <1>4 DEF to_hex
  <2>2. c[k] = CASE s[k] = "F" -> "f" [] s[k] = "+" -> "0" [] OTHER -> s[k]
    BY <1>1 DEF Canonical
  <2> HIDE DEF h, c
  <2>3. PICK q \in 1 .. DigestLen : q = (k + 1) \div 2 /\ (k = 2 * q - 1 \/ k = 2 * q)
    BY <1>1
  <2>4. b[q] = PairValue(s[2 * q - 1], s[2 * q])
        /\ PairParses(s[2 * q - 1], s[2 * q])
    BY <1>1, <1>2
  <2>5. CASE k = 2 * q - 1
    <3>1. k % 2 = 1
      BY <2>5
    <3>2. h[k] = HexDigit(b[q] \div 16)
      BY <2>1, <2>3, <3>1
    <3>3. HexDigit(b[q] \div 16) =
             CASE s[2 * q - 1] = "F" -> "f" [] s[2 * q - 1] = "+" -> "0"
               [] OTHER -> s[2 * q - 1]
      BY <2>4, PairAgain
    <3> QED BY <2>2, <2>5, <3>2, <3>3
  <2>6. CASE k = 2 * q
    <3>1. k % 2 # 1
      BY <2>6
    <3>2. h[k] = HexDigit(b[q] % 16)
      BY <2>1, <2>3, <3>1
    <3>3. HexDigit(b[q] % 16) =
             CASE s[2 * q] = "F" -> "f" [] s[2 * q] = "+" -> "0"
               [] OTHER -> s[2 * q]
      BY <2>4, PairAgain
    <3> QED BY <2>2, <2>6, <3>2, <3>3
  <2> QED BY <2>3, <2>5, <2>6
<1>7. c = h
  <2> HIDE DEF c, h
  <2> QED BY <1>5, <1>6
<1> QED BY <1>4, <1>7 DEF b


\* What is between the delimiters, when it parses, is what to_marker writes
\* there.
LEMMA MarkerIsWritten ==
    ASSUME NEW s \in Seq(STRING), 4 <= Len(s),
           SubSeq(s, 1, 2) = SETUP_TXT_BEGIN,
           SubSeq(s, Len(s) - 1, Len(s)) = SETUP_TXT_END,
           BodyParses(SubSeq(s, 3, Len(s) - 2))
    PROVE  LET t == parse_body(SubSeq(s, 3, Len(s) - 2))
           IN  /\ t \in [name : Seq(STRING), insecure_test_setup : BOOLEAN,
                         proving_key_sha256 : [1 .. DigestLen -> Nat]]
               /\ s = MarkerText(t.name, t.insecure_test_setup, DigitsOf(s))
               /\ Canonical(DigitsOf(s)) = to_hex(t.proving_key_sha256)
<1> DEFINE L == Len(s)
           B == L - 4
           body == SubSeq(s, 3, L - 2)
           p == Split(body)
           m1 == Nul(body, 1)
           m2 == Nul(body, 2)
           m3 == Nul(body, 3)
           m4 == Nul(body, 4)
           m5 == Nul(body, 5)
           m6 == Nul(body, 6)
           D == 2 * DigestLen
<1>0. L \in Nat /\ B \in Nat /\ D \in Nat
  BY DigestLenAssumption
<1>1. /\ body \in Seq(STRING) /\ Len(body) = B
      /\ \A k \in 1 .. B : body[k] = s[k + 2]
  <2> DEFINE lo == 3
             hi == L - 2
  <2>1. lo \in Nat /\ hi \in Nat /\ 0 < lo /\ lo <= hi + 1 /\ hi <= Len(s)
        /\ hi - lo + 1 = B /\ \A k \in 1 .. B : lo + k - 1 = k + 2
    BY <1>0
  <2> HIDE DEF lo, hi, B, L
  <2>2. /\ SubSeq(s, lo, hi) \in Seq(STRING) /\ Len(SubSeq(s, lo, hi)) = hi - lo + 1
        /\ \A k \in 1 .. hi - lo + 1 : SubSeq(s, lo, hi)[k] = s[lo + k - 1]
    BY <2>1, Slice
  <2>3. /\ SubSeq(s, lo, hi) \in Seq(STRING) /\ Len(SubSeq(s, lo, hi)) = B
        /\ \A k \in 1 .. B : SubSeq(s, lo, hi)[k] = s[k + 2]
    BY <2>1, <2>2
  <2> QED BY <2>3 DEF lo, hi
<1>2. ASSUME NEW a \in Nat, NEW b \in Nat, 0 < a, a <= b + 1, b <= B
      PROVE  /\ SubSeq(body, a, b) = SubSeq(s, a + 2, b + 2)
             /\ SubSeq(body, a, b) \in Seq(STRING)
             /\ Len(SubSeq(body, a, b)) = b - a + 1
  <2> DEFINE lo == 3
             hi == L - 2
  <2>1. lo \in Nat /\ hi \in Nat /\ 0 < lo /\ hi <= Len(s)
        /\ b <= hi - lo + 1 /\ lo + a - 1 = a + 2 /\ lo + b - 1 = b + 2
    BY <1>0, <1>2
  <2> HIDE DEF lo, hi, B, L
  <2>2. SubSeq(SubSeq(s, lo, hi), a, b) = SubSeq(s, lo + a - 1, lo + b - 1)
    BY <1>2, <2>1, SliceOfSlice
  <2>3. SubSeq(SubSeq(s, lo, hi), a, b) = SubSeq(s, a + 2, b + 2)
    BY <2>1, <2>2
  <2>4. /\ SubSeq(body, a, b) \in Seq(STRING)
        /\ Len(SubSeq(body, a, b)) = b - a + 1
    <3> HIDE DEF body
    <3> QED BY <1>1, <1>2, Slice
  <2> QED BY <2>3, <2>4 DEF lo, hi
<1> HIDE DEF body
<1>3. /\ Len(p) = 7 /\ p[7] = <<>> /\ p[1] = FIELD_NAME
      /\ p[3] = FIELD_INSECURE_TEST_SETUP /\ p[4] \in {<<"true">>, <<"false">>}
      /\ p[5] = FIELD_PROVING_KEY_SHA256 /\ HexParses(p[6])
  BY DEF BodyParses, body
<1>4. /\ \A n \in 1 .. 6 : Nul(body, n) \in 1 .. B /\ body[Nul(body, n)] = NUL
      /\ \A n \in 2 .. 6 : Nul(body, n - 1) < Nul(body, n)
      /\ p[1] = SubSeq(body, 1, Nul(body, 1) - 1)
      /\ \A n \in 2 .. 6 :
            p[n] = SubSeq(body, Nul(body, n - 1) + 1, Nul(body, n) - 1)
      /\ p[7] = SubSeq(body, Nul(body, 6) + 1, Len(body))
  <2>1. Len(Split(body)) = 7
    BY <1>3
  <2> HIDE DEF L, B, D
  <2>2. /\ \A n \in 1 .. 6 : Nul(body, n) \in 1 .. Len(body) /\ body[Nul(body, n)] = NUL
        /\ \A n \in 2 .. 6 : Nul(body, n - 1) < Nul(body, n)
        /\ Split(body)[1] = SubSeq(body, 1, Nul(body, 1) - 1)
        /\ \A n \in 2 .. 6 :
              Split(body)[n] = SubSeq(body, Nul(body, n - 1) + 1, Nul(body, n) - 1)
        /\ Split(body)[7] = SubSeq(body, Nul(body, 6) + 1, Len(body))
    BY <1>1, <2>1, SevenPieces
  <2> QED BY <1>1, <2>2
<1>5. /\ m1 \in 1 .. B /\ m2 \in 1 .. B /\ m3 \in 1 .. B
      /\ m4 \in 1 .. B /\ m5 \in 1 .. B /\ m6 \in 1 .. B
      /\ m1 < m2 /\ m2 < m3 /\ m3 < m4 /\ m4 < m5 /\ m5 < m6
      /\ body[m1] = NUL /\ body[m2] = NUL /\ body[m3] = NUL
      /\ body[m4] = NUL /\ body[m5] = NUL /\ body[m6] = NUL
  <2> HIDE DEF p, B
  <2>1. m1 \in 1 .. B /\ body[m1] = NUL
    BY <1>1, <1>4
  <2>2. m2 \in 1 .. B /\ body[m2] = NUL /\ m1 < m2
    BY <1>1, <1>4
  <2>3. m3 \in 1 .. B /\ body[m3] = NUL /\ m2 < m3
    BY <1>1, <1>4
  <2>4. m4 \in 1 .. B /\ body[m4] = NUL /\ m3 < m4
    BY <1>1, <1>4
  <2>5. m5 \in 1 .. B /\ body[m5] = NUL /\ m4 < m5
    BY <1>1, <1>4
  <2>6. m6 \in 1 .. B /\ body[m6] = NUL /\ m5 < m6
    BY <1>1, <1>4
  <2> QED BY <2>1, <2>2, <2>3, <2>4, <2>5, <2>6
<1>6. /\ p[1] = SubSeq(body, 1, m1 - 1) /\ p[2] = SubSeq(body, m1 + 1, m2 - 1)
      /\ p[3] = SubSeq(body, m2 + 1, m3 - 1) /\ p[4] = SubSeq(body, m3 + 1, m4 - 1)
      /\ p[5] = SubSeq(body, m4 + 1, m5 - 1) /\ p[6] = SubSeq(body, m5 + 1, m6 - 1)
      /\ p[7] = SubSeq(body, m6 + 1, B)
  <2> HIDE DEF p, B
  <2>1. \A n \in 2 .. 6 :
            p[n] = SubSeq(body, Nul(body, n - 1) + 1, Nul(body, n) - 1)
    BY <1>4
  <2>2. p[2] = SubSeq(body, m1 + 1, m2 - 1)
    BY <2>1
  <2>3. p[3] = SubSeq(body, m2 + 1, m3 - 1)
    BY <2>1
  <2>4. p[4] = SubSeq(body, m3 + 1, m4 - 1)
    BY <2>1
  <2>5. p[5] = SubSeq(body, m4 + 1, m5 - 1)
    BY <2>1
  <2>6. p[6] = SubSeq(body, m5 + 1, m6 - 1)
    BY <2>1
  <2>7. p[1] = SubSeq(body, 1, m1 - 1) /\ p[7] = SubSeq(body, m6 + 1, B)
    BY <1>1, <1>4
  <2> QED BY <2>2, <2>3, <2>4, <2>5, <2>6, <2>7
<1> HIDE DEF p, m1, m2, m3, m4, m5, m6, B, L, D
\* Each piece as a slice of s, and its length.
<1>7. /\ p[1] = SubSeq(s, 3, m1 + 1) /\ Len(p[1]) = m1 - 1
      /\ p[2] = SubSeq(s, m1 + 3, m2 + 1) /\ p[2] \in Seq(STRING)
      /\ p[3] = SubSeq(s, m2 + 3, m3 + 1) /\ Len(p[3]) = m3 - m2 - 1
      /\ p[4] = SubSeq(s, m3 + 3, m4 + 1) /\ Len(p[4]) = m4 - m3 - 1
      /\ p[5] = SubSeq(s, m4 + 3, m5 + 1) /\ Len(p[5]) = m5 - m4 - 1
      /\ p[6] = SubSeq(s, m5 + 3, m6 + 1) /\ Len(p[6]) = m6 - m5 - 1
      /\ p[6] \in Seq(STRING)
      /\ Len(p[7]) = B - m6
  <2>1. ASSUME NEW a \in 0 .. B, NEW b \in 1 .. B, a < b
        PROVE  /\ SubSeq(body, a + 1, b - 1) = SubSeq(s, a + 3, b + 1)
               /\ SubSeq(body, a + 1, b - 1) \in Seq(STRING)
               /\ Len(SubSeq(body, a + 1, b - 1)) = b - a - 1
    <3>1. a + 1 \in Nat /\ b - 1 \in Nat /\ 0 < a + 1 /\ a + 1 <= (b - 1) + 1
          /\ b - 1 <= B /\ (a + 1) + 2 = a + 3 /\ (b - 1) + 2 = b + 1
          /\ (b - 1) - (a + 1) + 1 = b - a - 1
      BY <1>0, <2>1
    <3>2. /\ SubSeq(body, a + 1, b - 1) = SubSeq(s, (a + 1) + 2, (b - 1) + 2)
          /\ SubSeq(body, a + 1, b - 1) \in Seq(STRING)
          /\ Len(SubSeq(body, a + 1, b - 1)) = (b - 1) - (a + 1) + 1
      BY <1>2, <3>1
    <3> QED BY <3>1, <3>2
  <2>2. 0 \in 0 .. B /\ 0 < m1
        /\ {m1, m2, m3, m4, m5, m6} \subseteq 0 .. B
    BY <1>0, <1>5
  <2>3. p[1] = SubSeq(s, 3, m1 + 1) /\ Len(p[1]) = m1 - 1
    <3> DEFINE zero == 0
    <3>1. zero \in 0 .. B /\ zero < m1 /\ zero = 0
      BY <2>2
    <3> HIDE DEF zero
    <3>2. /\ SubSeq(body, zero + 1, m1 - 1) = SubSeq(s, zero + 3, m1 + 1)
          /\ Len(SubSeq(body, zero + 1, m1 - 1)) = m1 - zero - 1
      BY <1>5, <2>1, <3>1
    <3>3. zero + 1 = 1 /\ zero + 3 = 3 /\ m1 - zero - 1 = m1 - 1
      BY <1>5, <3>1
    <3> QED BY <1>6, <3>2, <3>3
  <2>4. p[2] = SubSeq(s, m1 + 3, m2 + 1) /\ p[2] \in Seq(STRING)
    BY <1>5, <1>6, <2>1, <2>2
  <2>5. p[3] = SubSeq(s, m2 + 3, m3 + 1) /\ Len(p[3]) = m3 - m2 - 1
    BY <1>5, <1>6, <2>1, <2>2
  <2>6. p[4] = SubSeq(s, m3 + 3, m4 + 1) /\ Len(p[4]) = m4 - m3 - 1
    BY <1>5, <1>6, <2>1, <2>2
  <2>7. p[5] = SubSeq(s, m4 + 3, m5 + 1) /\ Len(p[5]) = m5 - m4 - 1
    BY <1>5, <1>6, <2>1, <2>2
  <2>8. /\ p[6] = SubSeq(s, m5 + 3, m6 + 1) /\ Len(p[6]) = m6 - m5 - 1
        /\ p[6] \in Seq(STRING)
    BY <1>5, <1>6, <2>1, <2>2
  <2>9. Len(p[7]) = B - m6
    <3>1. m6 + 1 \in Nat /\ B \in Nat /\ 0 < m6 + 1 /\ m6 + 1 <= B + 1 /\ B <= B
          /\ B - (m6 + 1) + 1 = B - m6
      BY <1>0, <1>5
    <3>2. Len(SubSeq(body, m6 + 1, B)) = B - (m6 + 1) + 1
      BY <1>2, <3>1
    <3> QED BY <1>6, <3>1, <3>2
  <2> QED BY <2>3, <2>4, <2>5, <2>6, <2>7, <2>8, <2>9
\* Where the zero bytes are.
<1>8. /\ m1 = 2 /\ m3 = m2 + 2 /\ m4 = m2 + 4 /\ m5 = m2 + 6
      /\ m6 = m2 + 7 + D /\ B = m6
  <2>1. /\ Len(p[1]) = 1 /\ Len(p[3]) = 1 /\ Len(p[4]) = 1 /\ Len(p[5]) = 1
        /\ Len(p[6]) = D /\ Len(p[7]) = 0
    BY <1>3 DEF FIELD_NAME, FIELD_INSECURE_TEST_SETUP, FIELD_PROVING_KEY_SHA256,
                HexParses, D
  <2> QED BY <1>0, <1>5, <1>7, <2>1

\* The text, token by token.
<1>9. /\ L = m6 + 4 /\ m2 \in Nat /\ 3 <= m2 /\ L = m2 + 11 + D
      /\ m1 = 2 /\ m3 = m2 + 2 /\ m4 = m2 + 4 /\ m5 = m2 + 6 /\ m6 = m2 + 7 + D
  BY <1>0, <1>5, <1>8 DEF B
<1>10. ASSUME NEW k \in 3 .. L - 2, body[k - 2] = NUL
       PROVE  SubSeq(s, k, k) = <<NUL>>
  <2>1. k \in 1 .. Len(s) /\ k - 2 \in 1 .. B /\ (k - 2) + 2 = k
    BY <1>0 DEF B, L
  <2>2. s[k] = NUL
    BY <1>1, <1>10, <2>1
  <2> QED BY <2>1, <2>2, OneToken
<1>11. /\ SubSeq(s, m1 + 2, m1 + 2) = <<NUL>> /\ SubSeq(s, m2 + 2, m2 + 2) = <<NUL>>
       /\ SubSeq(s, m3 + 2, m3 + 2) = <<NUL>> /\ SubSeq(s, m4 + 2, m4 + 2) = <<NUL>>
       /\ SubSeq(s, m5 + 2, m5 + 2) = <<NUL>> /\ SubSeq(s, m6 + 2, m6 + 2) = <<NUL>>
  <2>1. ASSUME NEW m \in 1 .. B, body[m] = NUL
        PROVE  SubSeq(s, m + 2, m + 2) = <<NUL>>
    <3>1. m + 2 \in 3 .. L - 2 /\ (m + 2) - 2 = m
      BY <1>0 DEF B
    <3> QED BY <1>10, <2>1, <3>1
  <2> QED BY <1>5, <2>1
<1>12. ASSUME NEW i \in Nat, NEW j \in Nat, i <= j, j <= L
       PROVE  SubSeq(s, 1, j) = SubSeq(s, 1, i) \o SubSeq(s, i + 1, j)
  BY <1>12, ReadOn DEF L
<1> DEFINE t == parse_body(body)
<1>13. /\ t = [name |-> p[2], insecure_test_setup |-> p[4] = <<"true">>,
               proving_key_sha256 |-> from_hex(p[6])]
       /\ from_hex(p[6]) \in [1 .. DigestLen -> Nat]
       /\ Canonical(p[6]) = to_hex(from_hex(p[6]))
  <2>1. from_hex(p[6]) \in [1 .. DigestLen -> Nat]
        /\ Canonical(p[6]) = to_hex(from_hex(p[6]))
    BY <1>3, <1>7, HexAgain
  <2> QED BY <2>1 DEF parse_body, p
<1> HIDE DEF t
<1>14. DigitsOf(s) = p[6]
  <2>1. Len(s) - 2 * DigestLen - 2 = m5 + 3 /\ Len(s) - 3 = m6 + 1
    BY <1>9, DigestLenAssumption DEF L, D
  <2> QED BY <1>7, <2>1 DEF DigitsOf
<1>15. p[4] = <<IF t.insecure_test_setup THEN "true" ELSE "false">>
  BY <1>3, <1>13
<1>16. /\ SubSeq(s, 1, 3) = SETUP_TXT_BEGIN \o FIELD_NAME
       /\ SubSeq(s, 1, 4) = SubSeq(s, 1, 3) \o <<NUL>>
       /\ SubSeq(s, 1, m2 + 1) = SubSeq(s, 1, 4) \o t.name
       /\ SubSeq(s, 1, m2 + 2) = SubSeq(s, 1, m2 + 1) \o <<NUL>>
       /\ SubSeq(s, 1, m2 + 3) = SubSeq(s, 1, m2 + 2) \o FIELD_INSECURE_TEST_SETUP
       /\ SubSeq(s, 1, m2 + 4) = SubSeq(s, 1, m2 + 3) \o <<NUL>>
       /\ SubSeq(s, 1, m2 + 5) = SubSeq(s, 1, m2 + 4) \o p[4]
       /\ SubSeq(s, 1, m2 + 6) = SubSeq(s, 1, m2 + 5) \o <<NUL>>
       /\ SubSeq(s, 1, m2 + 7) = SubSeq(s, 1, m2 + 6) \o FIELD_PROVING_KEY_SHA256
       /\ SubSeq(s, 1, m2 + 8) = SubSeq(s, 1, m2 + 7) \o <<NUL>>
       /\ SubSeq(s, 1, m6 + 1) = SubSeq(s, 1, m2 + 8) \o p[6]
       /\ SubSeq(s, 1, m6 + 2) = SubSeq(s, 1, m6 + 1) \o <<NUL>>
       /\ SubSeq(s, 1, L) = SubSeq(s, 1, m6 + 2) \o SETUP_TXT_END
  <2>1. SubSeq(s, 1, 3) = SETUP_TXT_BEGIN \o FIELD_NAME
    <3>1. SubSeq(s, 1, 3) = SubSeq(s, 1, 2) \o SubSeq(s, 2 + 1, 3)
      BY <1>0, <1>9, <1>12
    <3>2. 2 + 1 = 3 /\ m1 + 1 = 3
      BY <1>9
    <3>3. SubSeq(s, 2 + 1, 3) = FIELD_NAME
      BY <1>3, <1>7, <3>2
    <3> QED BY <3>1, <3>3
  <2>2. SubSeq(s, 1, 4) = SubSeq(s, 1, 3) \o <<NUL>>
    <3>1. SubSeq(s, 1, 4) = SubSeq(s, 1, 3) \o SubSeq(s, 3 + 1, 4)
      BY <1>0, <1>9, <1>12
    <3>2. 3 + 1 = m1 + 2 /\ 4 = m1 + 2
      BY <1>9
    <3>3. SubSeq(s, 3 + 1, 4) = <<NUL>>
      BY <1>11, <3>2
    <3> QED BY <3>1, <3>3
  <2>3. SubSeq(s, 1, m2 + 1) = SubSeq(s, 1, 4) \o t.name
    <3>1. SubSeq(s, 1, m2 + 1) = SubSeq(s, 1, 4) \o SubSeq(s, 4 + 1, m2 + 1)
      BY <1>0, <1>9, <1>12
    <3>2. 4 + 1 = m1 + 3
      BY <1>9
    <3> QED BY <1>7, <1>13, <3>1, <3>2
  <2>4. SubSeq(s, 1, m2 + 2) = SubSeq(s, 1, m2 + 1) \o <<NUL>>
    <3>1. SubSeq(s, 1, m2 + 2) = SubSeq(s, 1, m2 + 1) \o SubSeq(s, (m2 + 1) + 1, m2 + 2)
      BY <1>0, <1>9, <1>12
    <3>2. (m2 + 1) + 1 = m2 + 2
      BY <1>9
    <3> QED BY <1>11, <3>1, <3>2
  <2>5. SubSeq(s, 1, m2 + 3) = SubSeq(s, 1, m2 + 2) \o FIELD_INSECURE_TEST_SETUP
    <3>1. SubSeq(s, 1, m2 + 3) = SubSeq(s, 1, m2 + 2) \o SubSeq(s, (m2 + 2) + 1, m2 + 3)
      BY <1>0, <1>9, <1>12
    <3>2. (m2 + 2) + 1 = m2 + 3 /\ m3 + 1 = m2 + 3
      BY <1>9
    <3> QED BY <1>3, <1>7, <3>1, <3>2
  <2>6. SubSeq(s, 1, m2 + 4) = SubSeq(s, 1, m2 + 3) \o <<NUL>>
    <3>1. SubSeq(s, 1, m2 + 4) = SubSeq(s, 1, m2 + 3) \o SubSeq(s, (m2 + 3) + 1, m2 + 4)
      BY <1>0, <1>9, <1>12
    <3>2. (m2 + 3) + 1 = m2 + 4 /\ m3 + 2 = m2 + 4
      BY <1>9
    <3> QED BY <1>11, <3>1, <3>2
  <2>7. SubSeq(s, 1, m2 + 5) = SubSeq(s, 1, m2 + 4) \o p[4]
    <3>1. SubSeq(s, 1, m2 + 5) = SubSeq(s, 1, m2 + 4) \o SubSeq(s, (m2 + 4) + 1, m2 + 5)
      BY <1>0, <1>9, <1>12
    <3>2. (m2 + 4) + 1 = m3 + 3 /\ m2 + 5 = m4 + 1
      BY <1>9
    <3> QED BY <1>7, <3>1, <3>2
  <2>8. SubSeq(s, 1, m2 + 6) = SubSeq(s, 1, m2 + 5) \o <<NUL>>
    <3>1. SubSeq(s, 1, m2 + 6) = SubSeq(s, 1, m2 + 5) \o SubSeq(s, (m2 + 5) + 1, m2 + 6)
      BY <1>0, <1>9, <1>12
    <3>2. (m2 + 5) + 1 = m4 + 2 /\ m2 + 6 = m4 + 2
      BY <1>9
    <3> QED BY <1>11, <3>1, <3>2
  <2>9. SubSeq(s, 1, m2 + 7) = SubSeq(s, 1, m2 + 6) \o FIELD_PROVING_KEY_SHA256
    <3>1. SubSeq(s, 1, m2 + 7) = SubSeq(s, 1, m2 + 6) \o SubSeq(s, (m2 + 6) + 1, m2 + 7)
      BY <1>0, <1>9, <1>12
    <3>2. (m2 + 6) + 1 = m4 + 3 /\ m2 + 7 = m5 + 1
      BY <1>9
    <3> QED BY <1>3, <1>7, <3>1, <3>2
  <2>10. SubSeq(s, 1, m2 + 8) = SubSeq(s, 1, m2 + 7) \o <<NUL>>
    <3>1. SubSeq(s, 1, m2 + 8) = SubSeq(s, 1, m2 + 7) \o SubSeq(s, (m2 + 7) + 1, m2 + 8)
      BY <1>0, <1>9, <1>12
    <3>2. (m2 + 7) + 1 = m5 + 2 /\ m2 + 8 = m5 + 2
      BY <1>9
    <3> QED BY <1>11, <3>1, <3>2
  <2>11. SubSeq(s, 1, m6 + 1) = SubSeq(s, 1, m2 + 8) \o p[6]
    <3>0. m2 + 8 \in Nat /\ m6 + 1 \in Nat /\ m2 + 8 <= m6 + 1 /\ m6 + 1 <= L
      BY <1>0, <1>9
    <3>1. SubSeq(s, 1, m6 + 1) = SubSeq(s, 1, m2 + 8) \o SubSeq(s, (m2 + 8) + 1, m6 + 1)
      BY <1>12, <3>0
    <3>2. (m2 + 8) + 1 = m5 + 3
      BY <1>9
    <3> QED BY <1>7, <3>1, <3>2
  <2>12. SubSeq(s, 1, m6 + 2) = SubSeq(s, 1, m6 + 1) \o <<NUL>>
    <3>1. SubSeq(s, 1, m6 + 2) = SubSeq(s, 1, m6 + 1) \o SubSeq(s, (m6 + 1) + 1, m6 + 2)
      BY <1>0, <1>9, <1>12
    <3>2. (m6 + 1) + 1 = m6 + 2
      BY <1>0, <1>9
    <3> QED BY <1>11, <3>1, <3>2
  <2>13. SubSeq(s, 1, L) = SubSeq(s, 1, m6 + 2) \o SETUP_TXT_END
    <3>0. m6 + 2 \in Nat /\ L \in Nat /\ m6 + 2 <= L /\ L <= L
      BY <1>0, <1>9
    <3>1. SubSeq(s, 1, L) = SubSeq(s, 1, m6 + 2) \o SubSeq(s, (m6 + 2) + 1, L)
      BY <1>12, <3>0
    <3>2. (m6 + 2) + 1 = Len(s) - 1 /\ L = Len(s)
      BY <1>0, <1>9 DEF L
    <3> QED BY <3>1, <3>2
  <2> QED BY <2>1, <2>2, <2>3, <2>4, <2>5, <2>6, <2>7, <2>8, <2>9, <2>10, <2>11,
             <2>12, <2>13
<1>17. SubSeq(s, 1, L) = s
  <2> DEFINE w == SubSeq(s, 1, L)
             one == 1
  <2>1. one \in Nat /\ 0 < one /\ one <= L + 1 /\ one = 1 /\ L - one + 1 = L
    BY <1>0
  <2> HIDE DEF one
  <2>2. /\ SubSeq(s, one, L) \in Seq(STRING) /\ Len(SubSeq(s, one, L)) = L - one + 1
        /\ \A k \in 1 .. L - one + 1 : SubSeq(s, one, L)[k] = s[one + k - 1]
    BY <1>0, <2>1, Slice DEF L
  <2>3. /\ w \in Seq(STRING) /\ Len(w) = L /\ \A k \in 1 .. L : w[k] = s[k]
    BY <2>1, <2>2
  <2> HIDE DEF w
  <2>4. w = s
    BY <2>3, SeqEqual DEF L
  <2> QED BY <2>4 DEF w
<1>18. s = MarkerText(t.name, t.insecure_test_setup, DigitsOf(s))
  BY <1>14, <1>15, <1>16, <1>17, Zenon DEF MarkerText
<1>19. t \in [name : Seq(STRING), insecure_test_setup : BOOLEAN,
              proving_key_sha256 : [1 .. DigestLen -> Nat]]
  BY <1>7, <1>13
<1>20. Canonical(DigitsOf(s)) = to_hex(t.proving_key_sha256)
  BY <1>13, <1>14
<1> QED BY <1>18, <1>19, <1>20 DEF t, body, L

-----------------------------------------------------------------------------
(***************************************************************************)
(* The search.                                                             *)
(***************************************************************************)
\* What is known of the binary that is searched, and of the delimiters.
LEMMA BinaryFacts ==
    ASSUME SearchTypeOK
    PROVE  /\ binary \in Seq(STRING) /\ Len(binary) \in Nat /\ pos \in Nat
           /\ Len(SETUP_TXT_BEGIN) = 2 /\ Len(SETUP_TXT_END) = 2
           /\ \A from \in Nat : /\ Occurrences(SETUP_TXT_BEGIN, from) \in SUBSET Nat
                                /\ Occurrences(SETUP_TXT_END, from) \in SUBSET Nat
           /\ \A from \in Nat : \A k \in Occurrences(SETUP_TXT_BEGIN, from) :
                 /\ from <= k /\ k + 2 <= Len(binary)
                 /\ SubSeq(binary, k + 1, k + 2) = SETUP_TXT_BEGIN
           /\ \A from \in Nat : \A k \in Occurrences(SETUP_TXT_END, from) :
                 /\ from <= k /\ k + 2 <= Len(binary)
                 /\ SubSeq(binary, k + 1, k + 2) = SETUP_TXT_END
           /\ \A n \in 1 .. Len(spans) : spans[n].first \in Nat /\ spans[n].next \in Nat
<1>1. binary \in Seq(STRING) /\ Len(binary) \in Nat /\ pos \in Nat
  BY BinariesAssumption DEF SearchTypeOK
<1>2. Len(SETUP_TXT_BEGIN) = 2 /\ Len(SETUP_TXT_END) = 2
  BY DEF SETUP_TXT_BEGIN, SETUP_TXT_END
<1>3. ASSUME NEW from \in Nat, NEW needle, Len(needle) = 2,
             NEW k \in Occurrences(needle, from)
      PROVE  /\ k \in Nat /\ from <= k /\ k + 2 <= Len(binary)
             /\ SubSeq(binary, k + 1, k + 2) = needle
  BY <1>1, <1>3 DEF Occurrences
<1>4. \A n \in 1 .. Len(spans) : spans[n].first \in Nat /\ spans[n].next \in Nat
  <2>1. \A n \in 1 .. Len(spans) : spans[n] \in [first : Nat, next : Nat]
    BY ElementOfSeq DEF SearchTypeOK
  <2> QED BY <2>1
<1> QED BY <1>1, <1>2, <1>3, <1>4

\* Where the search goes on, a begin delimiter is one it has not seen.
LEMMA LaterOccurrences ==
    ASSUME SearchTypeOK, NEW from \in Nat, NEW to \in Nat, from <= to,
           NEW k \in Occurrences(SETUP_TXT_BEGIN, from)
    PROVE  /\ k \in Nat
           /\ to <= k => k \in Occurrences(SETUP_TXT_BEGIN, to)
BY BinaryFacts DEF Occurrences

\* Nothing is found when the search begins.
LEMMA SearchInitHolds == SearchInit => SearchIInv
<1> SUFFICES ASSUME SearchInit PROVE SearchIInv
  OBVIOUS
<1>1. Len(binary) \in Nat
  BY BinariesAssumption DEF SearchInit
<1>2. SearchTypeOK
  BY <1>1 DEF SearchInit, SearchTypeOK
<1>3. \A k \in Occurrences(SETUP_TXT_BEGIN, 0) : ~ (k < pos)
  <2>1. pos = 0 /\ 0 \in Nat
    BY DEF SearchInit
  <2>2. \A k \in Occurrences(SETUP_TXT_BEGIN, 0) : 0 <= k /\ k \in Nat
    BY <1>2, BinaryFacts
  <2> QED BY <2>1, <2>2
<1> QED BY <1>2, <1>3 DEF SearchInit, SearchIInv, ReadsWhatWasWritten

\* The search ends without another marker, or at one it cannot read.
LEMMA StopKeeps ==
    ASSUME SearchIInv, NEW kind \in {"Ok", "Unterminated", "Malformed"},
           NEW offset \in Nat, Stop(kind, offset),
           kind = "Ok" => Occurrences(SETUP_TXT_BEGIN, pos) = {},
           kind # "Ok" => /\ Occurrences(SETUP_TXT_BEGIN, pos) # {}
                          /\ offset = Min(Occurrences(SETUP_TXT_BEGIN, pos))
    PROVE  SearchIInv'
<1>1. /\ binary' = binary /\ pos' = pos /\ found' = found /\ spans' = spans
      /\ res' = [kind |-> kind, offset |-> offset]
      /\ res'.kind = kind /\ res'.offset = offset
  BY DEF Stop
<1>2. SearchTypeOK'
  BY <1>1 DEF SearchIInv, SearchTypeOK
<1>3. /\ Occurrences(SETUP_TXT_BEGIN, 0)' = Occurrences(SETUP_TXT_BEGIN, 0)
      /\ Occurrences(SETUP_TXT_BEGIN, pos)' = Occurrences(SETUP_TXT_BEGIN, pos)
      /\ \A k : InSomeSpan(k)' <=> InSomeSpan(k)
      /\ ReadsWhatWasWritten' <=> ReadsWhatWasWritten
  BY <1>1 DEF Occurrences, InSomeSpan, ReadsWhatWasWritten
<1> QED BY <1>1, <1>2, <1>3 DEF SearchIInv

\* The marker from the first begin delimiter to the next end delimiter is
\* what was written.
LEMMA MarkerInBinary ==
    ASSUME SearchTypeOK, NEW offset \in Nat, NEW bodyEnd \in Nat,
           offset \in Occurrences(SETUP_TXT_BEGIN, pos),
           bodyEnd \in Occurrences(SETUP_TXT_END, offset + 2),
           BodyParses(SubSeq(binary, offset + 3, bodyEnd))
    PROVE  LET t    == parse_body(SubSeq(binary, offset + 3, bodyEnd))
               text == SubSeq(binary, offset + 1, bodyEnd + 2)
           IN  /\ t \in [name : Seq(STRING), insecure_test_setup : BOOLEAN,
                         proving_key_sha256 : [1 .. DigestLen -> Nat]]
               /\ text = MarkerText(t.name, t.insecure_test_setup, DigitsOf(text))
               /\ Canonical(DigitsOf(text)) = to_hex(t.proving_key_sha256)
<1> DEFINE i == offset + 1
           j == bodyEnd + 2
           s == SubSeq(binary, i, j)
           l == j - i + 1
<1>1. /\ binary \in Seq(STRING) /\ Len(binary) \in Nat /\ pos \in Nat
      /\ bodyEnd + 2 <= Len(binary) /\ offset + 2 <= bodyEnd
      /\ SubSeq(binary, offset + 1, offset + 2) = SETUP_TXT_BEGIN
      /\ SubSeq(binary, bodyEnd + 1, bodyEnd + 2) = SETUP_TXT_END
  <2>1. offset + 2 \in Nat
    OBVIOUS
  <2> QED BY <2>1, BinaryFacts
<1>2. /\ i \in Nat /\ j \in Nat /\ 0 < i /\ i <= j + 1 /\ j <= Len(binary)
      /\ l \in Nat /\ 4 <= l
      /\ l = bodyEnd - offset + 2
  BY <1>1
<1>3. s \in Seq(STRING) /\ Len(s) = l
  <2> HIDE DEF i, j
  <2> QED BY <1>1, <1>2, Slice
<1>4. ASSUME NEW a \in Nat, NEW b \in Nat, 0 < a, a <= b + 1, b <= l
      PROVE  SubSeq(s, a, b) = SubSeq(binary, offset + a, offset + b)
  <2>1. i + a - 1 = offset + a /\ i + b - 1 = offset + b
    BY <1>1
  <2>2. SubSeq(s, a, b) = SubSeq(binary, i + a - 1, i + b - 1)
    <3> HIDE DEF i, j
    <3> QED BY <1>1, <1>2, <1>4, SliceOfSlice
  <2> HIDE DEF i, s
  <2> QED BY <2>1, <2>2
<1> HIDE DEF s, i, j, l
<1>5. SubSeq(s, 1, 2) = SETUP_TXT_BEGIN
  <2> DEFINE one == 1
             two == 2
  <2>1. one \in Nat /\ two \in Nat /\ 0 < one /\ one <= two + 1 /\ two <= l
    BY <1>2
  <2> HIDE DEF one, two
  <2>2. SubSeq(s, one, two) = SubSeq(binary, offset + one, offset + two)
    BY <1>4, <2>1
  <2> QED BY <1>1, <2>2 DEF one, two
<1>6. SubSeq(s, Len(s) - 1, Len(s)) = SETUP_TXT_END
  <2> DEFINE a == l - 1
  <2>1. /\ a \in Nat /\ 0 < a /\ a <= l + 1 /\ l <= l
        /\ offset + a = bodyEnd + 1 /\ offset + l = bodyEnd + 2
    BY <1>2
  <2> HIDE DEF a
  <2>2. SubSeq(s, a, l) = SubSeq(binary, offset + a, offset + l)
    BY <1>2, <1>4, <2>1
  <2>3. SubSeq(s, a, l) = SETUP_TXT_END
    BY <1>1, <2>1, <2>2
  <2> QED BY <1>3, <2>3 DEF a
<1>7. SubSeq(s, 3, Len(s) - 2) = SubSeq(binary, offset + 3, bodyEnd)
  <2> DEFINE three == 3
             b == l - 2
  <2>1. /\ three \in Nat /\ b \in Nat /\ 0 < three /\ three <= b + 1 /\ b <= l
        /\ offset + b = bodyEnd
    BY <1>2
  <2> HIDE DEF three, b
  <2>2. SubSeq(s, three, b) = SubSeq(binary, offset + three, offset + b)
    BY <1>4, <2>1
  <2>3. SubSeq(s, three, b) = SubSeq(binary, offset + three, bodyEnd)
    BY <2>1, <2>2
  <2> QED BY <1>3, <2>3 DEF three, b
<1>8. LET t == parse_body(SubSeq(s, 3, Len(s) - 2))
      IN  /\ t \in [name : Seq(STRING), insecure_test_setup : BOOLEAN,
                    proving_key_sha256 : [1 .. DigestLen -> Nat]]
          /\ s = MarkerText(t.name, t.insecure_test_setup, DigitsOf(s))
          /\ Canonical(DigitsOf(s)) = to_hex(t.proving_key_sha256)
  <2>1. 4 <= Len(s) /\ BodyParses(SubSeq(s, 3, Len(s) - 2))
    BY <1>2, <1>3, <1>7
  <2> QED BY <1>3, <1>5, <1>6, <2>1, MarkerIsWritten, Zenon
<1> QED BY <1>7, <1>8 DEF s, i, j

\* A marker is read.
LEMMA ReadKeeps ==
    ASSUME SearchIInv, NEW offset \in Nat, NEW bodyEnd \in Nat,
           res.kind = "searching",
           offset \in Occurrences(SETUP_TXT_BEGIN, pos),
           \A k \in Occurrences(SETUP_TXT_BEGIN, pos) : offset <= k,
           bodyEnd \in Occurrences(SETUP_TXT_END, offset + 2),
           BodyParses(SubSeq(binary, offset + 3, bodyEnd)),
           found' = Append(found, parse_body(SubSeq(binary, offset + 3, bodyEnd))),
           spans' = Append(spans, [first |-> offset, next |-> bodyEnd + 2]),
           pos' = bodyEnd + 2,
           UNCHANGED <<binary, res>>
    PROVE  SearchIInv'
<1> DEFINE t == parse_body(SubSeq(binary, offset + 3, bodyEnd))
           text == SubSeq(binary, offset + 1, bodyEnd + 2)
           span == [first |-> offset, next |-> bodyEnd + 2]
           N == Len(spans)
<1>1. /\ Len(binary) \in Nat /\ pos \in Nat /\ N \in Nat
      /\ pos <= offset /\ offset + 2 <= bodyEnd /\ bodyEnd + 2 <= Len(binary)
      /\ SearchTypeOK
  <2>1. SearchTypeOK /\ offset + 2 \in Nat
    BY DEF SearchIInv
  <2> QED BY <2>1, BinaryFacts DEF SearchTypeOK
<1>2. /\ t \in [name : Seq(STRING), insecure_test_setup : BOOLEAN,
                proving_key_sha256 : [1 .. DigestLen -> Nat]]
      /\ text = MarkerText(t.name, t.insecure_test_setup, DigitsOf(text))
      /\ Canonical(DigitsOf(text)) = to_hex(t.proving_key_sha256)
  BY <1>1, MarkerInBinary
<1> HIDE DEF t
<1>3. /\ spans' \in Seq([first : Nat, next : Nat]) /\ Len(spans') = N + 1
      /\ \A n \in 1 .. N : spans'[n] = spans[n]
      /\ spans'[N + 1] = span
      /\ span.first = offset /\ span.next = bodyEnd + 2
  BY <1>1 DEF SearchTypeOK
<1>4. /\ found' \in Seq([name : Seq(STRING), insecure_test_setup : BOOLEAN,
                         proving_key_sha256 : [1 .. DigestLen -> Nat]])
      /\ Len(found') = N + 1
      /\ \A n \in 1 .. N : found'[n] = found[n]
      /\ found'[N + 1] = t
  <2> DEFINE A == [name : Seq(STRING), insecure_test_setup : BOOLEAN,
                   proving_key_sha256 : [1 .. DigestLen -> Nat]]
  <2>1. /\ found \in Seq(A) /\ Len(found) = N /\ t \in A
        /\ found' = Append(found, t)
    BY <1>1, <1>2 DEF SearchTypeOK, t
  <2> HIDE DEF A, N
  <2>2. /\ Append(found, t) \in Seq(A) /\ Len(Append(found, t)) = N + 1
        /\ \A n \in 1 .. N : Append(found, t)[n] = found[n]
        /\ Append(found, t)[N + 1] = t
    BY <2>1, AppendProperties
  <2> QED BY <2>1, <2>2 DEF A
<1> HIDE DEF span, text, N
<1>5. SearchTypeOK'
  BY <1>1, <1>3, <1>4 DEF SearchTypeOK
<1>6. \A n \in 1 .. N : /\ spans[n].first \in Nat /\ spans[n].next \in Nat
                        /\ spans[n].next <= pos
  BY <1>1, BinaryFacts DEF SearchIInv, N
<1>7. \A n \in 1 .. Len(spans') : spans'[n].next <= pos'
  <2> TAKE n \in 1 .. Len(spans')
  <2>1. CASE n \in 1 .. N
    <3>1. spans[n].next <= pos /\ spans[n].next \in Nat /\ spans'[n] = spans[n]
      BY <1>3, <1>6, <2>1
    <3>2. pos <= pos' /\ pos' \in Nat
      BY <1>1
    <3> QED BY <1>1, <3>1, <3>2
  <2>2. CASE n = N + 1
    BY <1>1, <1>3, <2>2
  <2> QED BY <1>1, <1>3, <2>1, <2>2
<1>8. \A n \in 2 .. Len(spans') : spans'[n - 1].next <= spans'[n].first
  <2> TAKE n \in 2 .. Len(spans')
  <2>1. CASE n \in 2 .. N
    <3>1. n \in 1 .. N /\ n - 1 \in 1 .. N
      BY <1>1, <2>1
    <3>2. spans[n - 1].next <= spans[n].first
      BY <2>1 DEF SearchIInv, N
    <3> QED BY <1>3, <3>1, <3>2
  <2>2. CASE n = N + 1
    <3>1. n - 1 \in 1 .. N /\ n - 1 = N
      BY <1>1, <2>2
    <3>2. spans'[n - 1].next <= pos /\ spans'[n - 1].next \in Nat
      BY <1>3, <1>6, <3>1
    <3> QED BY <1>1, <1>3, <2>2, <3>2
  <2> QED BY <1>1, <1>3, <2>1, <2>2
<1>9. ASSUME NEW k \in Occurrences(SETUP_TXT_BEGIN, 0)', k < pos'
      PROVE  InSomeSpan(k)'
  <2>1. k \in Occurrences(SETUP_TXT_BEGIN, 0) /\ k \in Nat
    <3>1. k \in Occurrences(SETUP_TXT_BEGIN, 0)
      BY <1>9 DEF Occurrences
    <3> QED BY <1>1, <3>1, LaterOccurrences
  <2>2. CASE k < pos
    <3>1. PICK n \in 1 .. N : spans[n].first <= k /\ k < spans[n].next
      BY <2>1, <2>2 DEF SearchIInv, InSomeSpan, N
    <3>2. n \in 1 .. Len(spans')
      BY <1>1, <1>3
    <3> QED BY <1>3, <3>1, <3>2 DEF InSomeSpan
  <2>3. CASE pos <= k
    <3>1. k \in Occurrences(SETUP_TXT_BEGIN, pos)
      BY <1>1, <2>1, <2>3, LaterOccurrences
    <3>2. spans'[N + 1].first <= k /\ k < spans'[N + 1].next
      BY <1>3, <1>9, <3>1
    <3>3. N + 1 \in 1 .. Len(spans')
      BY <1>1, <1>3
    <3> QED BY <3>2, <3>3 DEF InSomeSpan
  <2> QED BY <1>1, <2>1, <2>2, <2>3
<1>10. ReadsWhatWasWritten'
  <2> SUFFICES ASSUME NEW n \in 1 .. N + 1
               PROVE  LET x == SubSeq(binary, spans'[n].first + 1, spans'[n].next) IN
                      /\ x = MarkerText(found'[n].name, found'[n].insecure_test_setup,
                                        DigitsOf(x))
                      /\ Canonical(DigitsOf(x)) = to_hex(found'[n].proving_key_sha256)
    BY <1>4 DEF ReadsWhatWasWritten
  <2>1. CASE n \in 1 .. N
    <3>1. LET x == SubSeq(binary, spans[n].first + 1, spans[n].next) IN
          /\ x = MarkerText(found[n].name, found[n].insecure_test_setup, DigitsOf(x))
          /\ Canonical(DigitsOf(x)) = to_hex(found[n].proving_key_sha256)
      BY <1>1, <2>1 DEF SearchIInv, ReadsWhatWasWritten, SearchTypeOK, N
    <3>2. spans'[n] = spans[n] /\ found'[n] = found[n]
      BY <1>3, <1>4, <2>1
    <3> QED BY <3>1, <3>2
  <2>2. CASE n = N + 1
    <3>1. /\ found'[n] = t /\ spans'[n].first = offset
          /\ spans'[n].next = bodyEnd + 2
      BY <1>3, <1>4, <2>2
    <3> QED BY <1>2, <3>1 DEF text
  <2>3. n \in 1 .. N \/ n = N + 1
    BY <1>1
  <2> QED BY <2>1, <2>2, <2>3
<1>11. res'.kind = "searching"
  OBVIOUS
<1> QED BY <1>5, <1>7, <1>8, <1>9, <1>10, <1>11 DEF SearchIInv

\* Each step of the search keeps the invariant.
LEMMA SearchStepKeeps == SearchIInv /\ [SearchNext]_searchVars => SearchIInv'
<1> SUFFICES ASSUME SearchIInv, [SearchNext]_searchVars PROVE SearchIInv'
  OBVIOUS
<1>0. SearchTypeOK
  BY DEF SearchIInv
<1>1. CASE NoMoreMarkers
  <2>1. /\ Occurrences(SETUP_TXT_BEGIN, pos) = {}
        /\ Stop("Ok", 0)
    BY <1>1 DEF NoMoreMarkers
  <2> QED BY <2>1, StopKeeps
<1>2. CASE NextMarker
  <2> DEFINE begins == Occurrences(SETUP_TXT_BEGIN, pos)
             offset == Min(begins)
             ends   == Occurrences(SETUP_TXT_END, offset + 2)
  <2>1. /\ res.kind = "searching" /\ begins # {}
        /\ \/ ends = {} /\ Unterminated(offset)
           \/ ends # {} /\ ReadBody(offset, offset + 2, Min(ends))
    BY <1>0, <1>2, BinaryFacts DEF NextMarker
  <2>2. /\ begins \in SUBSET Nat /\ offset \in begins /\ offset \in Nat
        /\ \A k \in begins : offset <= k
    <3>1. begins \in SUBSET Nat
      BY <1>0, BinaryFacts
    <3> HIDE DEF begins
    <3> QED BY <2>1, <3>1, MinIsLeast
  <2> HIDE DEF offset
  <2>3. CASE ends = {} /\ Unterminated(offset)
    <3>1. Stop("Unterminated", offset)
      BY <2>3 DEF Unterminated
    <3> QED BY <2>1, <2>2, <3>1, StopKeeps DEF offset
  <2>4. CASE ends # {} /\ ReadBody(offset, offset + 2, Min(ends))
    <3> DEFINE bodyEnd == Min(ends)
               body == SubSeq(binary, offset + 3, bodyEnd)
    <3>1. ends \in SUBSET Nat /\ bodyEnd \in ends /\ bodyEnd \in Nat
      <4>1. offset + 2 \in Nat
        BY <2>2
      <4>2. ends \in SUBSET Nat
        BY <1>0, <4>1, BinaryFacts
      <4> HIDE DEF ends
      <4> QED BY <2>4, <4>2, MinIsLeast
    <3> HIDE DEF bodyEnd
    <3>2. (offset + 2) + 1 = offset + 3
      BY <2>2
    <3>3. \/ Stop("Malformed", offset)
          \/ /\ BodyParses(body)
             /\ found' = Append(found, parse_body(body))
             /\ spans' = Append(spans, [first |-> offset, next |-> bodyEnd + 2])
             /\ pos' = bodyEnd + 2
             /\ UNCHANGED <<binary, res>>
      <4>1. ReadBody(offset, offset + 2, bodyEnd)
        BY <2>4 DEF bodyEnd
      <4> QED BY <1>0, <3>2, <4>1, BinaryFacts DEF ReadBody, NextPos
    <3>4. CASE Stop("Malformed", offset)
      BY <2>1, <2>2, <3>4, StopKeeps DEF offset
    <3>5. CASE /\ BodyParses(body)
               /\ found' = Append(found, parse_body(body))
               /\ spans' = Append(spans, [first |-> offset, next |-> bodyEnd + 2])
               /\ pos' = bodyEnd + 2
               /\ UNCHANGED <<binary, res>>
      BY <2>1, <2>2, <3>1, <3>5, ReadKeeps
    <3> QED BY <3>3, <3>4, <3>5
  <2> QED BY <2>1, <2>3, <2>4
<1>3. CASE UNCHANGED searchVars
  <2>1. /\ binary' = binary /\ pos' = pos /\ found' = found /\ spans' = spans
        /\ res' = res
    BY <1>3 DEF searchVars
  <2> QED BY <2>1 DEF SearchIInv, SearchTypeOK, Occurrences, InSomeSpan,
                      ReadsWhatWasWritten
<1> QED BY <1>1, <1>2, <1>3 DEF SearchNext

\* What the search knows at each step, for every binary.
THEOREM SearchInvariant == SearchSpec => []SearchIInv
BY SearchInitHolds, SearchStepKeeps, PTL DEF SearchSpec

\* No marker is passed over: find_setup_txts returns one entry for each, in
\* the order of the file, or names the first that it cannot read.
THEOREM NoMarkerIsPassedOver == SearchSpec => []NoMarkerPassedOver
<1>1. SearchIInv => NoMarkerPassedOver
  <2> SUFFICES ASSUME SearchIInv PROVE NoMarkerPassedOver
    OBVIOUS
  <2> DEFINE open == {k \in Occurrences(SETUP_TXT_BEGIN, 0) : ~InSomeSpan(k)}
             late == Occurrences(SETUP_TXT_BEGIN, pos)
  <2>1. SearchTypeOK /\ 0 \in Nat /\ pos \in Nat /\ 0 <= pos
    BY BinaryFacts DEF SearchIInv
  <2>2. \A k \in Occurrences(SETUP_TXT_BEGIN, 0) :
           k \in Nat /\ (pos <= k => k \in late)
    BY <2>1, LaterOccurrences
  <2>3. \A k \in late : k \in Occurrences(SETUP_TXT_BEGIN, 0) /\ pos <= k /\ k \in Nat
    BY <2>1, BinaryFacts DEF Occurrences
  <2>4. \A k \in late : ~InSomeSpan(k)
    <3>1. \A n \in 1 .. Len(spans) : spans[n].next <= pos /\ spans[n].next \in Nat
      BY <2>1, BinaryFacts DEF SearchIInv
    <3> QED BY <2>1, <2>3, <3>1 DEF InSomeSpan
  <2>5. \A k \in Occurrences(SETUP_TXT_BEGIN, 0) : k < pos => InSomeSpan(k)
    BY DEF SearchIInv
  <2>6. open = late
    <3>1. \A k \in open : k \in late
      BY <2>1, <2>2, <2>5
    <3>2. \A k \in late : k \in open
      BY <2>3, <2>4
    <3> QED BY <3>1, <3>2
  <2> HIDE DEF open, late
  <2>7. /\ res.kind = "Ok" => open = {}
        /\ res.kind \in {"Unterminated", "Malformed"} => res.offset = Min(open)
    BY <2>6 DEF SearchIInv, late
  <2> QED BY <2>7 DEF SearchIInv, NoMarkerPassedOver, open
<1> QED BY <1>1, SearchInvariant, PTL

\* What find_setup_txts returns is what to_marker wrote.
THEOREM ReadIsWhatWasWritten == SearchSpec => []ReadsWhatWasWritten
<1>1. SearchIInv => ReadsWhatWasWritten
  BY DEF SearchIInv
<1> QED BY <1>1, SearchInvariant, PTL

-----------------------------------------------------------------------------
(***************************************************************************)
(* From the setup to the prover.                                           *)
(***************************************************************************)
USE DEF Contents, Kinds, NothingGenerated, NoCrate, NoSetup, NoCall, NoProver

\* The actors at rest.
LEMMA RestTypes == NoSetup \in Setups /\ NoCall \in Calls /\ NoProver \in Provers
<1>1. [file |-> TRUE, digest |-> Missing] \in Sources
  BY DEF Sources
<1> QED BY <1>1 DEF Setups, Calls, Provers

\* What a step of the setup, and a step of the generator, do to the record of
\* a call.
LEMMA CallTypes ==
    ASSUME NEW g \in Calls, NEW pc \in {"idle", "read", "hash", "emit", "write"},
           NEW c \in Contents, NEW b \in BOOLEAN
    PROVE  /\ [g EXCEPT !.calm = b] \in Calls
           /\ [g EXCEPT !.pc = pc] \in Calls
           /\ [g EXCEPT !.pc = pc, !.vk = c, !.calm = b] \in Calls
           /\ [g EXCEPT !.pc = pc, !.digest = c] \in Calls
BY DEF Calls

\* A source, and one that was cut off, are sources.
LEMMA SourceTypes ==
    ASSUME NEW src \in Generated, NEW extent \in Extents
    PROVE  /\ src # NothingGenerated
           /\ [src EXCEPT !.extent = extent] \in Generated
           /\ [src EXCEPT !.extent = extent] # NothingGenerated
           /\ SourceSound(src) => SourceSound([src EXCEPT !.extent = extent])
<1> DEFINE cut == [src EXCEPT !.extent = extent]
<1>1. src.vk \in Keys /\ cut \in Generated /\ cut.vk = src.vk
      /\ cut.digest = src.digest /\ cut.calm = src.calm
  BY DEF Generated
<1>2. NothingGenerated.vk \notin Keys
  BY ContentsAssumption
<1> HIDE DEF cut
<1>3. SourceSound(src) => SourceSound(cut)
  BY <1>1 DEF SourceSound
<1> QED BY <1>1, <1>2, <1>3 DEF cut

\* Nothing has been written when the system starts.
LEMMA InitHolds == Init => IInv
BY KeysAssumption, MaxSetupsAssumption, ContentsAssumption, RestTypes
   DEF Init, IInv, TypeOK, PinDecides, CalmGenerator, CalmProver

\* A step of the setup that writes the proving key leaves no reader calm that
\* is between its two reads; the other steps concern no one.
LEMMA SetupKeeps ==
    ASSUME IInv,
           NEW k \in Keys,
           StartSetup(k) \/ WritePk \/ TruncateVk \/ WriteVk \/ KillSetup
    PROVE  IInv'
<1>1. /\ UNCHANGED <<out, crate>>
      /\ PkWritten \/ UNCHANGED <<pkFile, gen, prover>>
  BY DEF StartSetup, WritePk, TruncateVk, WriteVk, KillSetup
<1>2. /\ gen' \in Calls /\ gen'.pc = gen.pc /\ gen'.source = gen.source
      /\ gen'.vk = gen.vk /\ gen'.digest = gen.digest
      /\ gen'.calm => gen.calm /\ (gen.pc = "hash" => PkSource' = PkSource)
  <2>1. CASE PkWritten
    <3>1. gen' = [gen EXCEPT !.calm = @ /\ ~(gen.pc = "hash" /\ gen.source.file)]
      BY <2>1 DEF PkWritten
    <3>2. gen \in Calls /\ gen.calm \in BOOLEAN /\ gen.source.file \in BOOLEAN
      BY DEF IInv, TypeOK, Calls, Sources
    <3>3. /\ gen' \in Calls /\ gen'.pc = gen.pc /\ gen'.source = gen.source
          /\ gen'.vk = gen.vk /\ gen'.digest = gen.digest
          /\ gen'.calm = (gen.calm /\ ~(gen.pc = "hash" /\ gen.source.file))
      BY <3>1, <3>2 DEF Calls
    <3> QED BY <3>2, <3>3 DEF PkSource
  <2>2. CASE UNCHANGED <<pkFile, gen, prover>>
    BY <2>2 DEF IInv, TypeOK, PkSource
  <2> QED BY <1>1, <2>1, <2>2
<1>3. /\ prover' \in Provers /\ prover'.pc = prover.pc
      /\ prover'.vk = prover.vk /\ prover'.pk = prover.pk
      /\ prover'.calm => prover.calm /\ (prover.pc = "load" => pkFile' = pkFile)
  BY <1>1 DEF IInv, TypeOK, PkWritten, Provers
<1>4. TypeOK'
  <2>1. setup' \in Setups /\ (setup'.pc # "idle" => setup'.key \in Keys)
    <3>1. CASE StartSetup(k)
      BY <3>1 DEF StartSetup, Setups
    <3>2. CASE WritePk \/ TruncateVk
      BY <3>2 DEF WritePk, TruncateVk, Setups, IInv, TypeOK
    <3>3. CASE WriteVk \/ KillSetup
      BY <3>3, RestTypes DEF WriteVk, KillSetup
    <3> QED BY <3>1, <3>2, <3>3
  <2>2. pkFile' \in Contents /\ vkFile' \in Contents
    BY DEF IInv, TypeOK, StartSetup, WritePk, TruncateVk, WriteVk, KillSetup
  <2>3. setups' \in 0 .. MaxSetups
    BY MaxSetupsAssumption
       DEF IInv, TypeOK, StartSetup, WritePk, TruncateVk, WriteVk, KillSetup
  <2> QED BY <1>1, <1>2, <1>3, <2>1, <2>2, <2>3 DEF IInv, TypeOK
<1>5. PinDecides' /\ CalmProver'
  BY <1>3 DEF IInv, PinDecides, CalmProver
<1>6. CalmGenerator'
  BY <1>2 DEF IInv, CalmGenerator
<1> QED BY <1>1, <1>4, <1>5, <1>6 DEF IInv, SourceSound

\* A call of the generator up to the point where it writes.
LEMMA GeneratorKeeps ==
    ASSUME IInv,
           NEW kind \in Kinds, NEW source \in Sources,
           \/ Generate(kind, source) \/ ReadVk \/ HashPk
           \/ (GeneratorFails /\ UNCHANGED out)
    PROVE  IInv'
<1>1. UNCHANGED <<pkFile, vkFile, setup, setups, out, crate, prover>>
  BY DEF Generate, ReadVk, HashPk, GeneratorFails, GeneratorGoesOn
<1>2. /\ gen' \in Calls /\ gen'.pc # "write" /\ CalmGenerator'
      /\ gen'.pc \in {"hash", "emit"} => gen'.vk # Missing
      /\ gen'.pc = "emit" => gen'.digest # Missing
  <2>1. CASE Generate(kind, source)
    BY <2>1 DEF Generate, Calls, CalmGenerator
  <2>2. CASE GeneratorFails
    BY <2>2, RestTypes DEF GeneratorFails, GeneratorGoesOn, CalmGenerator
  <2>3. CASE ReadVk /\ ~GeneratorFails
    <3> DEFINE pair == PkSource = vkFile
    <3>1. /\ gen.pc = "read" /\ vkFile # Missing
          /\ gen' = [gen EXCEPT !.pc = "hash", !.vk = vkFile, !.calm = pair]
      BY <2>3 DEF ReadVk, GeneratorGoesOn
    <3>2. pair \in BOOLEAN
      OBVIOUS
    <3>3. gen' \in Calls
      BY <3>1, <3>2, CallTypes DEF IInv, TypeOK
    <3>4. /\ gen'.pc = "hash" /\ gen'.vk = vkFile /\ gen'.calm = pair
          /\ gen'.source = gen.source
      BY <3>1 DEF IInv, TypeOK, Calls
    <3>5. CalmGenerator'
      BY <1>1, <3>4 DEF CalmGenerator, PkSource
    <3> QED BY <3>1, <3>3, <3>4, <3>5
  <2>4. CASE HashPk /\ ~GeneratorFails
    <3>1. /\ gen.pc = "hash" /\ PkSource # Missing
          /\ gen' = [gen EXCEPT !.pc = "emit", !.digest = PkSource]
      BY <2>4 DEF HashPk, GeneratorGoesOn
    <3>2. PkSource \in Contents
      BY DEF IInv, TypeOK, Calls, Sources, PkSource
    <3>3. gen' \in Calls
      BY <3>1, <3>2, CallTypes DEF IInv, TypeOK
    <3>4. /\ gen'.pc = "emit" /\ gen'.vk = gen.vk /\ gen'.digest = PkSource
          /\ gen'.calm = gen.calm
      BY <3>1 DEF IInv, TypeOK, Calls
    <3>5. CalmGenerator'
      BY <3>1, <3>4 DEF IInv, CalmGenerator
    <3> QED BY <3>1, <3>3, <3>4, <3>5 DEF IInv, TypeOK
  <2> QED BY <2>1, <2>2, <2>3, <2>4
<1>3. /\ PinDecides' /\ CalmProver'
      /\ (out # NothingGenerated => SourceSound(out))'
      /\ (crate # NoCrate => SourceSound(crate.src))'
  BY <1>1 DEF IInv, PinDecides, CalmProver, SourceSound
<1>4. TypeOK'
  BY <1>1, <1>2 DEF IInv, TypeOK
<1> QED BY <1>2, <1>3, <1>4 DEF IInv

\* What is emitted is whole and, for production, not forgeable.
LEMMA EmitKeeps ==
    ASSUME IInv, Emit, ~GeneratorFails
    PROVE  IInv'
<1>1. /\ gen.pc = "emit" /\ gen.vk # Torn /\ ~ForgeableProductionVk
      /\ out' = [vk |-> gen.vk, digest |-> gen.digest,
                 insecure |-> gen.kind = "InsecureTest",
                 extent |-> "key", calm |-> gen.calm]
      /\ gen' = [gen EXCEPT !.pc = "write"]
      /\ UNCHANGED <<pkFile, vkFile, setup, setups, crate, prover>>
  BY DEF Emit, Parses, GeneratorGoesOn
<1>2. /\ gen.vk \in Keys /\ gen.digest \in Keys \cup {Torn}
      /\ gen.kind \in Kinds /\ gen.calm \in BOOLEAN
  BY <1>1 DEF IInv, TypeOK, Calls
<1>3. out' \in Generated /\ SourceSound(out')
  <2>1. gen.kind # "InsecureTest" => gen.vk \notin Forgeable
    BY <1>1, <1>2 DEF ForgeableProductionVk
  <2>2. out' \in Generated
    BY <1>1, <1>2, <2>1 DEF Generated, Extents
  <2>3. out'.calm => out'.digest = out'.vk
    BY <1>1 DEF IInv, CalmGenerator
  <2> QED BY <2>2, <2>3 DEF SourceSound
<1>4. gen' \in Calls /\ gen'.pc = "write"
  BY <1>1 DEF IInv, TypeOK, Calls
<1>5. TypeOK' /\ CalmGenerator'
  BY <1>1, <1>3, <1>4 DEF IInv, TypeOK, CalmGenerator
<1>6. /\ PinDecides' /\ CalmProver'
      /\ (crate # NoCrate => SourceSound(crate.src))'
  BY <1>1 DEF IInv, PinDecides, CalmProver, SourceSound
<1> QED BY <1>3, <1>5, <1>6 DEF IInv

\* The text reaches the file, as far as it does.
LEMMA WriteKeeps ==
    ASSUME IInv, FinishWrite \/ FailWrite
    PROVE  IInv'
<1>1. /\ gen.pc = "write" /\ gen' = NoCall
      /\ \/ out' = NothingGenerated
         \/ \E extent \in Extents : out' = [out EXCEPT !.extent = extent]
      /\ UNCHANGED <<pkFile, vkFile, setup, setups, crate, prover>>
  BY DEF FinishWrite, FailWrite, GeneratorGoesOn, Extents
<1>2. out \in Generated /\ out # NothingGenerated /\ SourceSound(out)
  <2>1. out \in Generated
    BY <1>1 DEF IInv, TypeOK
  <2>2. out # NothingGenerated
    BY <2>1, SourceTypes DEF Extents
  <2> QED BY <2>1, <2>2 DEF IInv
<1>3. /\ out' \in Generated \cup {NothingGenerated}
      /\ out' # NothingGenerated => SourceSound(out')
  BY <1>1, <1>2, SourceTypes
<1>4. TypeOK' /\ CalmGenerator'
  BY <1>1, <1>3, RestTypes DEF IInv, TypeOK, CalmGenerator
<1>5. /\ PinDecides' /\ CalmProver'
      /\ (crate # NoCrate => SourceSound(crate.src))'
  BY <1>1 DEF IInv, PinDecides, CalmProver, SourceSound
<1> QED BY <1>3, <1>4, <1>5 DEF IInv

\* The compiler accepts the source.
LEMMA CompileKeeps ==
    ASSUME IInv, NEW feature \in BOOLEAN, Compile(feature)
    PROVE  IInv'
<1>1. /\ out \in Generated /\ SourceSound(out)
      /\ crate' = [src |-> out, feature |-> feature]
      /\ UNCHANGED <<pkFile, vkFile, setup, setups, gen, out, prover>>
  BY DEF Compile, IInv, TypeOK
<1>2. crate' \in Crates /\ crate'.src = out
  BY <1>1 DEF Crates
<1>3. TypeOK' /\ CalmGenerator' /\ CalmProver' /\ PinDecides'
  BY <1>1, <1>2 DEF IInv, TypeOK, CalmGenerator, CalmProver, PinDecides, PkSource
<1> QED BY <1>1, <1>2, <1>3 DEF IInv, SourceSound

\* The prover hashes, loads, ends.
LEMMA ProverKeeps ==
    ASSUME IInv, StartProver \/ LoadPk \/ EndProver
    PROVE  IInv'
<1>1. UNCHANGED <<pkFile, vkFile, setup, setups, gen, out, crate>>
  BY DEF StartProver, LoadPk, EndProver
<1>2. TypeOK' /\ CalmProver' /\ PinDecides'
  <2>1. CASE StartProver
    <3>1. /\ crate \in Crates /\ SourceSound(crate.src)
          /\ prover' = [pc |-> IF pkFile = crate.src.digest THEN "load"
                                                           ELSE "refused",
                        vk |-> crate.src.vk, pk |-> pkFile,
                        calm |-> crate.src.calm]
      BY <2>1 DEF StartProver, PinMatches, IInv, TypeOK
    <3>2. crate.src \in Generated
      BY <3>1 DEF Crates
    <3>3. prover' \in Provers /\ prover'.vk \in Keys /\ prover'.pc # "proving"
      BY <3>1, <3>2 DEF IInv, TypeOK, Provers, Generated
    <3>4. CalmProver' /\ PinDecides'
      BY <1>1, <3>1 DEF CalmProver, PinDecides, SourceSound
    <3> QED BY <1>1, <3>3, <3>4 DEF IInv, TypeOK
  <2>2. CASE LoadPk
    <3>1. /\ prover.pc = "load"
          /\ prover' = [prover EXCEPT !.pc = IF pkFile \in Keys THEN "proving"
                                                              ELSE "refused",
                                     !.pk = pkFile]
      BY <2>2 DEF LoadPk
    <3>2. prover' \in Provers /\ (prover'.pc = "proving" => prover'.pk \in Keys)
      BY <1>1, <3>1 DEF IInv, TypeOK, Provers
    <3>3. prover.calm => pkFile = prover.vk
      BY <3>1 DEF IInv, CalmProver
    <3>4. prover.vk \in Keys /\ prover'.vk = prover.vk
      BY <3>1 DEF IInv, TypeOK, Provers
    <3>5. CalmProver' /\ PinDecides'
      BY <1>1, <3>1, <3>3, <3>4 DEF IInv, TypeOK, Provers, CalmProver, PinDecides
    <3> QED BY <1>1, <3>2, <3>4, <3>5 DEF IInv, TypeOK
  <2>3. CASE EndProver
    BY <1>1, <2>3, RestTypes DEF EndProver, IInv, TypeOK, CalmProver, PinDecides
  <2> QED BY <2>1, <2>2, <2>3
<1>3. /\ CalmGenerator'
      /\ (out # NothingGenerated => SourceSound(out))'
      /\ (crate # NoCrate => SourceSound(crate.src))'
  BY <1>1 DEF IInv, CalmGenerator, PkSource, SourceSound
<1> QED BY <1>2, <1>3 DEF IInv

\* Each step of setup, generator, compiler and prover keeps the invariant.
LEMMA StepKeeps == IInv /\ [Next]_vars => IInv'
<1> SUFFICES ASSUME IInv, [Next]_vars PROVE IInv'
  OBVIOUS
<1>1. CASE UNCHANGED vars
  BY <1>1 DEF vars, IInv, TypeOK, PinDecides, CalmGenerator, CalmProver, PkSource,
              SourceSound
<1>2. CASE \E k \in Keys :
              StartSetup(k) \/ WritePk \/ TruncateVk \/ WriteVk \/ KillSetup
  BY <1>2, SetupKeeps
<1>3. CASE WritePk \/ TruncateVk \/ WriteVk \/ KillSetup
  <2>1. setup.key \in Keys
    BY <1>3 DEF IInv, TypeOK, WritePk, TruncateVk, WriteVk, KillSetup
  <2> QED BY <1>3, <2>1, SetupKeeps
<1>4. CASE \E kind \in Kinds, source \in Sources : Generate(kind, source)
  BY <1>4, GeneratorKeeps
<1>5. CASE ReadVk \/ HashPk \/ (GeneratorFails /\ UNCHANGED out)
  <2>1. gen.kind \in Kinds /\ gen.source \in Sources
    BY DEF IInv, TypeOK, Calls
  <2> QED BY <1>5, <2>1, GeneratorKeeps
<1>6. CASE Emit
  BY <1>5, <1>6, EmitKeeps DEF GeneratorFails
<1>7. CASE FinishWrite \/ FailWrite
  BY <1>7, WriteKeeps
<1>8. CASE \E feature \in BOOLEAN : Compile(feature)
  BY <1>8, CompileKeeps
<1>9. CASE StartProver \/ LoadPk \/ EndProver
  BY <1>9, ProverKeeps
<1> QED BY <1>1, <1>2, <1>3, <1>4, <1>5, <1>6, <1>7, <1>8, <1>9 DEF Next

\* What a calm generator and a calm prover know of the proving key, at any time.
THEOREM InductiveInvariant == Spec => []IInv
BY InitHolds, StepKeeps, PTL DEF Spec

\* Only whole keys are ever emitted, a forgeable one only as a test key, and a
\* failed write leaves nothing else behind.
THEOREM TypeCorrect == Spec => []TypeOK
<1>1. IInv => TypeOK
  BY DEF IInv
<1> QED BY <1>1, InductiveInvariant, PTL

\* A prover goes on exactly with the proving key of its crate's verifying key,
\* unless the generator was given two pairs, or the proving key was written
\* between the two reads of the generator or of the prover.
THEOREM PinIsDecisive == Spec => []PinDecides
<1>1. IInv => PinDecides
  BY DEF IInv
<1> QED BY <1>1, InductiveInvariant, PTL
=============================================================================
