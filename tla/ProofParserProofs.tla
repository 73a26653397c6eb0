------------------------- MODULE ProofParserProofs -------------------------
(***************************************************************************)
(* Proofs about ProofParser, for every pair of groups: what the verifier   *)
(* is given are the prover's points, by either way, and an error tells its *)
(* reason.                                                                 *)
(***************************************************************************)
EXTENDS ProofParser, SequenceTheorems, TLAPS

\* A point of either group, or the one at infinity.
Points1 == G1 \cup {<<0, 0>>}
Points2 == G2 \cup {<<0, 0, 0, 0>>}

\* A big-endian encoding that says the point P, whatever its flags are but for
\* that of infinity.
Carries(s, P) ==
    /\ s \in [DOMAIN P -> Word]
    /\ \A j \in DOMAIN P : /\ s[j].int = P[Place(Len(P), j)]
                           /\ ~s[j].le
                           /\ s[j].flag = "infinity" => IsZero(P)

-----------------------------------------------------------------------------
\* Arithmetic of the negation: it stays below p, keeps zero, and swaps the
\* halves of the other field elements.
LEMMA Negation ==
    ASSUME NEW y \in Fq
    PROVE  /\ (p - y) % p \in Fq
           /\ y = 0 => (p - y) % p = 0
           /\ y # 0 => (p - y) % p = p - y
           /\ y # 0 => (y > p - y <=> ~(p - y > y))
BY SizesAssumption DEF Fq

LEMMA Shape1 ==
    ASSUME NEW P \in Points1
    PROVE  /\ P \in Fq \X Fq
           /\ P = <<P[1], P[2]>> /\ Len(P) = 2 /\ DOMAIN P = 1 .. 2
           /\ P[1] \in Fq /\ P[2] \in Fq
           /\ IsZero(P) <=> P = <<0, 0>>
           /\ ~IsZero(P) => P \in G1 /\ P[1] # 0 /\ P[2] # 0
           /\ \A j \in 1 .. 2 : Place(2, j) = j
<1>1. P \in Fq \X Fq
  BY GroupsAssumption, SizesAssumption DEF Points1, Fq
<1>2. P = <<P[1], P[2]>> /\ Len(P) = 2 /\ DOMAIN P = 1 .. 2 /\ P[1] \in Fq /\ P[2] \in Fq
  BY <1>1
<1>3. IsZero(P) <=> P = <<0, 0>>
  BY <1>2 DEF IsZero
<1>4. ~IsZero(P) => P \in G1 /\ P[1] # 0 /\ P[2] # 0
  BY <1>3, GroupsAssumption DEF Points1
<1> QED BY <1>1, <1>2, <1>3, <1>4 DEF Place

LEMMA Shape2 ==
    ASSUME NEW P \in Points2
    PROVE  /\ P \in Fq \X Fq \X Fq \X Fq
           /\ P = <<P[1], P[2], P[3], P[4]>> /\ Len(P) = 4 /\ DOMAIN P = 1 .. 4
           /\ P[1] \in Fq /\ P[2] \in Fq /\ P[3] \in Fq /\ P[4] \in Fq
           /\ IsZero(P) <=> P = <<0, 0, 0, 0>>
           /\ ~IsZero(P) => /\ P \in G2
                            /\ P[1] # 0 \/ P[2] # 0
                            /\ P[3] # 0 \/ P[4] # 0
           /\ Place(4, 1) = 2 /\ Place(4, 2) = 1 /\ Place(4, 3) = 4 /\ Place(4, 4) = 3
<1>1. P \in Fq \X Fq \X Fq \X Fq
  BY GroupsAssumption, SizesAssumption DEF Points2, Fq
<1>2. /\ P = <<P[1], P[2], P[3], P[4]>> /\ Len(P) = 4 /\ DOMAIN P = 1 .. 4
      /\ P[1] \in Fq /\ P[2] \in Fq /\ P[3] \in Fq /\ P[4] \in Fq
  BY <1>1
<1>3. IsZero(P) <=> P = <<0, 0, 0, 0>>
  BY <1>2 DEF IsZero
<1>4. ~IsZero(P) => /\ P \in G2
                    /\ P[1] # 0 \/ P[2] # 0
                    /\ P[3] # 0 \/ P[4] # 0
  BY <1>3, GroupsAssumption DEF Points2
<1>5. Place(4, 1) = 2 /\ Place(4, 2) = 1 /\ Place(4, 3) = 4 /\ Place(4, 4) = 3
  BY DEF Place
<1> QED BY <1>1, <1>2, <1>3, <1>4, <1>5

LEMMA Neg1Point ==
    ASSUME NEW P \in Points1
    PROVE  Neg1(P) \in Points1
<1>1. CASE P \in G1
  BY <1>1, GroupsAssumption DEF Points1
<1>2. CASE P = <<0, 0>>
  <2>1. (p - P[2]) % p = 0
    BY <1>2, Negation, Shape1
  <2> QED BY <1>2, <2>1 DEF Neg1, Points1
<1> QED BY <1>1, <1>2 DEF Points1

\* A word by its fields.
Is(w, n, f, le) == w \in Word /\ w.int = n /\ w.flag = f /\ (w.le <=> le)

Flags == {"none", "infinity", "negative"}

LEMMA Flip ==
    ASSUME NEW w \in Word
    PROVE  Is([w EXCEPT !.le = ~w.le], w.int, w.flag, ~w.le)
BY DEF Word, Is

LEMMA PutFlag ==
    ASSUME NEW w \in Word, NEW f \in Flags
    PROVE  Is([w EXCEPT !.flag = f], w.int, f, w.le)
BY DEF Word, Is, Flags

\* The words of A and C: x before y.
LEMMA SwapsOneWord ==
    ASSUME NEW s \in [1 .. 2 -> Word]
    PROVE  /\ convert_endianness(1, s) \in [1 .. 2 -> Word]
           /\ \A j \in 1 .. 2 :
                  Is(convert_endianness(1, s)[j], s[j].int, s[j].flag, ~s[j].le)
<1>1. /\ (1 - 1) \div 1 = 0 /\ (1 - 1) % 1 = 0
      /\ (2 - 1) \div 1 = 1 /\ (2 - 1) % 1 = 0
  OBVIOUS
<1> DEFINE v(j) == [s[j] EXCEPT !.le = ~s[j].le]
<1>2. \A j \in 1 .. 2 : Is(v(j), s[j].int, s[j].flag, ~s[j].le)
  BY Flip
<1>3. \A j \in 1 .. 2 : v(j) \in Word
  BY <1>2 DEF Is
<1> HIDE DEF v
<1>4. convert_endianness(1, s) = [j \in 1 .. 2 |-> v(j)]
  BY <1>1 DEF convert_endianness, v
<1> QED BY <1>2, <1>3, <1>4

\* The words of B: c1 comes before c0, in x and in y.
LEMMA SwapsTwoWords ==
    ASSUME NEW s \in [1 .. 4 -> Word]
    PROVE  /\ convert_endianness(2, s) \in [1 .. 4 -> Word]
           /\ \A j \in 1 .. 4 :
                  LET l == Place(4, j) IN
                  Is(convert_endianness(2, s)[j], s[l].int, s[l].flag, ~s[l].le)
<1>1. /\ (1 - 1) \div 2 = 0 /\ (1 - 1) % 2 = 0
      /\ (2 - 1) \div 2 = 0 /\ (2 - 1) % 2 = 1
      /\ (3 - 1) \div 2 = 1 /\ (3 - 1) % 2 = 0
      /\ (4 - 1) \div 2 = 1 /\ (4 - 1) % 2 = 1
  OBVIOUS
<1>2. Place(4, 1) = 2 /\ Place(4, 2) = 1 /\ Place(4, 3) = 4 /\ Place(4, 4) = 3
  BY DEF Place
<1> DEFINE v(l) == [s[l] EXCEPT !.le = ~s[l].le]
<1>3. \A l \in 1 .. 4 : Is(v(l), s[l].int, s[l].flag, ~s[l].le)
  BY Flip
<1>4. \A l \in 1 .. 4 : v(l) \in Word
  BY <1>3 DEF Is
<1> HIDE DEF v
<1>5. convert_endianness(2, s) = [j \in 1 .. 4 |-> v(Place(4, j))]
  <2>1. \A j \in 1 .. 4 : LET c == (j - 1) \div 2 IN
                          c * 2 + 2 - ((j - 1) % 2) = Place(4, j)
    BY <1>1, <1>2
  <2> QED BY <2>1 DEF convert_endianness, v
<1>6. \A j \in 1 .. 4 : Place(4, j) \in 1 .. 4
  BY <1>2
<1> QED BY <1>3, <1>4, <1>5, <1>6

LEMMA FlagOfZero ==
    ASSUME NEW P
    PROVE  /\ FlagOf(P) \in Flags
           /\ FlagOf(P) = "infinity" <=> IsZero(P)
BY DEF FlagOf, Flags

LEMMA PlainWords ==
    ASSUME NEW n \in Nat, NEW P, DOMAIN P = 1 .. n, \A j \in 1 .. n : P[j] \in Fq
    PROVE  /\ WithoutFlags(P) \in [1 .. n -> Word]
           /\ \A j \in 1 .. n : Is(WithoutFlags(P)[j], P[j], "none", TRUE)
BY DEF WithoutFlags, Word, Is

LEMMA FlaggedWords ==
    ASSUME NEW n \in Nat \ {0}, NEW P, DOMAIN P = 1 .. n, Len(P) = n,
           \A j \in 1 .. n : P[j] \in Fq
    PROVE  /\ Serialize(P) \in [1 .. n -> Word]
           /\ \A j \in 1 .. n : \E f \in {"none", FlagOf(P)} :
                  Is(Serialize(P)[j], P[j], f, TRUE)
<1> DEFINE w == WithoutFlags(P)
           u == [w[n] EXCEPT !.flag = FlagOf(P)]
<1>1. w \in [1 .. n -> Word] /\ \A j \in 1 .. n : Is(w[j], P[j], "none", TRUE)
  BY PlainWords
<1>2. Is(u, w[n].int, FlagOf(P), w[n].le)
  BY <1>1, PutFlag, FlagOfZero
<1>3. Is(u, P[n], FlagOf(P), TRUE) /\ u \in Word
  BY <1>1, <1>2 DEF Is
<1>4. Serialize(P) = [w EXCEPT ![n] = u]
  BY DEF Serialize
<1> HIDE DEF w, u
<1> QED BY <1>1, <1>3, <1>4

\* A, without flags.
LEMMA SentWithoutFlags ==
    ASSUME NEW P \in Points1
    PROVE  Carries(convert_endianness(1, WithoutFlags(P)), P)
<1> DEFINE w == WithoutFlags(P)
           s == convert_endianness(1, w)
<1>1. DOMAIN P = 1 .. 2 /\ \A j \in 1 .. 2 : P[j] \in Fq
  BY Shape1
<1>2. w \in [1 .. 2 -> Word] /\ \A j \in 1 .. 2 : Is(w[j], P[j], "none", TRUE)
  BY <1>1, PlainWords
<1> HIDE DEF w
<1>3. /\ s \in [1 .. 2 -> Word]
      /\ \A j \in 1 .. 2 : Is(s[j], w[j].int, w[j].flag, ~w[j].le)
  BY <1>2, SwapsOneWord
<1> HIDE DEF s
<1>4. \A j \in 1 .. 2 : s[j].int = P[j] /\ ~s[j].le /\ s[j].flag = "none"
  BY <1>2, <1>3 DEF Is
<1>5. Len(P) = 2 /\ \A j \in 1 .. 2 : Place(2, j) = j
  BY Shape1
<1>6. Carries(s, P)
  BY <1>1, <1>3, <1>4, <1>5 DEF Carries
<1> QED BY <1>6 DEF s, w

\* C, with the flag on y.
LEMMA SentC ==
    ASSUME NEW P \in Points1
    PROVE  Carries(convert_endianness(1, Serialize(P)), P)
<1> DEFINE w == Serialize(P)
           s == convert_endianness(1, w)
<1>1. DOMAIN P = 1 .. 2 /\ Len(P) = 2 /\ \A j \in 1 .. 2 : P[j] \in Fq
  BY Shape1
<1>2. /\ w \in [1 .. 2 -> Word]
      /\ \A j \in 1 .. 2 : \E f \in {"none", FlagOf(P)} : Is(w[j], P[j], f, TRUE)
  <2>1. 2 \in Nat \ {0} OBVIOUS
  <2> QED BY <1>1, <2>1, FlaggedWords, Zenon
<1> HIDE DEF w
<1>3. /\ s \in [1 .. 2 -> Word]
      /\ \A j \in 1 .. 2 : Is(s[j], w[j].int, w[j].flag, ~w[j].le)
  BY <1>2, SwapsOneWord
<1> HIDE DEF s
<1>4. \A j \in 1 .. 2 : /\ s[j].int = P[j] /\ ~s[j].le
                        /\ s[j].flag = "infinity" => IsZero(P)
  BY <1>2, <1>3, FlagOfZero DEF Is
<1>5. \A j \in 1 .. 2 : Place(2, j) = j
  BY Shape1
<1>6. Carries(s, P)
  BY <1>1, <1>3, <1>4, <1>5 DEF Carries
<1> QED BY <1>6 DEF s, w

\* B, with the flag on the second part of y.
LEMMA SentB ==
    ASSUME NEW P \in Points2
    PROVE  Carries(convert_endianness(2, Serialize(P)), P)
<1> DEFINE w == Serialize(P)
           s == convert_endianness(2, w)
<1>1. DOMAIN P = 1 .. 4 /\ Len(P) = 4 /\ \A j \in 1 .. 4 : P[j] \in Fq
  BY Shape2
<1>2. /\ w \in [1 .. 4 -> Word]
      /\ \A j \in 1 .. 4 : \E f \in {"none", FlagOf(P)} : Is(w[j], P[j], f, TRUE)
  <2>1. 4 \in Nat \ {0} OBVIOUS
  <2> QED BY <1>1, <2>1, FlaggedWords, Zenon
<1> HIDE DEF w
<1>3. /\ s \in [1 .. 4 -> Word]
      /\ \A j \in 1 .. 4 : LET l == Place(4, j) IN
                            Is(s[j], w[l].int, w[l].flag, ~w[l].le)
  BY <1>2, SwapsTwoWords
<1> HIDE DEF s
<1>4. \A j \in 1 .. 4 : Place(4, j) \in 1 .. 4
  BY DEF Place
<1>5. \A j \in 1 .. 4 : /\ s[j].int = P[Place(4, j)] /\ ~s[j].le
                        /\ s[j].flag = "infinity" => IsZero(P)
  BY <1>2, <1>3, <1>4, FlagOfZero DEF Is
<1>6. Carries(s, P)
  BY <1>1, <1>3, <1>5 DEF Carries
<1> QED BY <1>6 DEF s, w

\* What decompression writes.
LEMMA EncodeCarries ==
    ASSUME NEW P \in Points1 \cup Points2
    PROVE  Carries(Encode(P), P)
<1>1. \A j \in DOMAIN P : P[Place(Len(P), j)] \in Fq
  <2>1. CASE P \in Points1
    <3>1. DOMAIN P = 1 .. 2 /\ Len(P) = 2 /\ \A j \in 1 .. 2 : P[j] \in Fq
      BY <2>1, Shape1
    <3>2. \A j \in 1 .. 2 : Place(2, j) = j
      BY <2>1, Shape1
    <3> QED BY <3>1, <3>2
  <2>2. CASE P \in Points2
    <3>1. \A j \in 1 .. 4 : Place(4, j) \in 1 .. 4 BY DEF Place
    <3>2. DOMAIN P = 1 .. 4 /\ Len(P) = 4 /\ \A j \in 1 .. 4 : P[j] \in Fq
      BY <2>2, Shape2
    <3> QED BY <3>1, <3>2
  <2> QED BY <2>1, <2>2
<1> QED BY <1>1 DEF Carries, Encode, Word

-----------------------------------------------------------------------------
LEMMA LengthOf ==
    ASSUME NEW n \in Nat, NEW s \in [1 .. n -> Word]
    PROVE  Len(s) = n /\ DOMAIN s = 1 .. n
<1>1. s \in Seq(Word)
  BY SeqDef
<1> QED BY <1>1, LenProperties

\* Both groups at once: the parts of a point and how they are placed.
LEMMA Shape ==
    ASSUME NEW P \in Points1 \cup Points2
    PROVE  \E h \in {1, 2} :
              /\ Len(P) = 2 * h /\ DOMAIN P = 1 .. 2 * h /\ Half(P) = h
              /\ P = [j \in 1 .. 2 * h |-> P[j]]
              /\ \A j \in 1 .. 2 * h : /\ P[j] \in Fq
                                       /\ Place(2 * h, j) \in 1 .. 2 * h
                                       /\ Place(2 * h, Place(2 * h, j)) = j
              /\ h = 1 => P \in Points1
              /\ h = 2 => P \in Points2
<1>1. CASE P \in Points1
  <2>1. Len(P) = 2 /\ DOMAIN P = 1 .. 2 /\ P = <<P[1], P[2]>> /\ P[1] \in Fq /\ P[2] \in Fq
    BY <1>1, Shape1
  <2>2. Half(P) = 1
    BY <2>1 DEF Half
  <2>3. \A j \in 1 .. 2 : Place(2, j) = j
    BY DEF Place
  <2>4. P = [j \in 1 .. 2 |-> P[j]]
    BY <2>1
  <2> QED BY <1>1, <2>1, <2>2, <2>3, <2>4
<1>2. CASE P \in Points2
  <2>1. /\ Len(P) = 4 /\ DOMAIN P = 1 .. 4 /\ P = <<P[1], P[2], P[3], P[4]>>
        /\ P[1] \in Fq /\ P[2] \in Fq /\ P[3] \in Fq /\ P[4] \in Fq
    BY <1>2, Shape2
  <2>2. Half(P) = 2
    BY <2>1 DEF Half
  <2>3. Place(4, 1) = 2 /\ Place(4, 2) = 1 /\ Place(4, 3) = 4 /\ Place(4, 4) = 3
    BY DEF Place
  <2>4. P = [j \in 1 .. 4 |-> P[j]]
    BY <2>1
  <2> QED BY <1>2, <2>1, <2>2, <2>3, <2>4
<1> QED BY <1>1, <1>2

LEMMA Decoded ==
    ASSUME NEW P \in Points1 \cup Points2, NEW s, Carries(s, P)
    PROVE  Decode(s) = P /\ Decodes(s)
<1>1. PICK h \in {1, 2} :
              /\ Len(P) = 2 * h /\ DOMAIN P = 1 .. 2 * h
              /\ P = [j \in 1 .. 2 * h |-> P[j]]
              /\ \A j \in 1 .. 2 * h : /\ P[j] \in Fq
                                       /\ Place(2 * h, j) \in 1 .. 2 * h
                                       /\ Place(2 * h, Place(2 * h, j)) = j
              /\ h = 1 => P \in Points1
              /\ h = 2 => P \in Points2
  BY Shape
<1> DEFINE n == 2 * h
<1>2. n \in Nat /\ Len(P) = n /\ DOMAIN P = 1 .. n
  BY <1>1
<1>3. \A j \in 1 .. n : Place(n, j) \in 1 .. n /\ Place(n, Place(n, j)) = j
  BY <1>1
<1>4. P = [j \in 1 .. n |-> P[j]] /\ n \in {2, 4} /\ (n = 2 => P \in Points1) /\ (n = 4 => P \in Points2)
  BY <1>1
<1> HIDE DEF n
<1>5. s \in [1 .. n -> Word] /\ Len(s) = n /\ DOMAIN s = 1 .. n
  <2>1. s \in [1 .. n -> Word] BY <1>2 DEF Carries
  <2> QED BY <1>2, <2>1, LengthOf
<1>6. \A j \in 1 .. n : s[Place(n, j)].int = P[j]
  BY <1>2, <1>3 DEF Carries
<1>7. Decode(s) = P
  <2>1. CASE \E l \in DOMAIN s : s[l].flag = "infinity"
    <3>1. \A j \in 1 .. n : P[j] = 0
      BY <1>2, <1>5, <2>1 DEF Carries, IsZero
    <3>2. Decode(s) = [j \in 1 .. n |-> 0]
      BY <1>5, <2>1, Zenon DEF Decode
    <3>3. P = [j \in 1 .. n |-> 0]
      BY <1>4, <3>1, Zenon
    <3> QED BY <3>2, <3>3
  <2>2. CASE ~\E l \in DOMAIN s : s[l].flag = "infinity"
    <3>1. Decode(s) = [j \in 1 .. n |-> s[Place(n, j)].int]
      BY <1>5, <2>2, Zenon DEF Decode
    <3>2. P = [j \in 1 .. n |-> s[Place(n, j)].int]
      BY <1>4, <1>6, Zenon
    <3> QED BY <3>1, <3>2
  <2> QED BY <2>1, <2>2
<1>8. \A j \in DOMAIN s : ~s[j].le
  BY <1>2, <1>5 DEF Carries
<1>9. IsZero(P) \/ P \in Group(s)
  <2>1. CASE n = 2 BY <1>4, <1>5, <2>1, Shape1 DEF Group
  <2>2. CASE n = 4 BY <1>4, <1>5, <2>2, Shape2 DEF Group
  <2> QED BY <1>4, <2>1, <2>2
<1> QED BY <1>7, <1>8, <1>9 DEF Decodes

\* With the sign the point is determined by its x.
LEMMA SignDecides1 ==
    ASSUME NEW P \in G1, NEW Q \in G1, P[1] = Q[1], FlagOf(P) = FlagOf(Q)
    PROVE  P = Q
<1>1. Q = P \/ Q = Neg1(P)
  BY GroupsAssumption
<1>2. /\ P[2] \in Fq /\ P[2] # 0 /\ Q[2] \in Fq
      /\ Len(P) = 2 /\ DOMAIN P = 1 .. 2 /\ Len(Q) = 2 /\ DOMAIN Q = 1 .. 2
      /\ ~IsZero(P) /\ ~IsZero(Q)
  <2>1. P \in Points1 /\ Q \in Points1 BY DEF Points1
  <2>2. P[2] # 0 /\ Q[2] # 0 BY GroupsAssumption
  <2> QED BY <2>1, <2>2, Shape1 DEF IsZero
<1>3. IsNegative(P) <=> P[2] > p - P[2]
  BY <1>2 DEF IsNegative, Half
<1>4. IsNegative(Q) <=> Q[2] > p - Q[2]
  BY <1>2 DEF IsNegative, Half
<1>5. IsNegative(P) <=> IsNegative(Q)
  BY <1>2 DEF FlagOf
<1>6. CASE Q = Neg1(P)
  <2>1. Q[2] = p - P[2]
    BY <1>2, <1>6, Negation DEF Neg1
  <2>2. p - Q[2] = P[2]
    BY <1>2, <2>1, SizesAssumption DEF Fq
  <2> QED BY <1>2, <1>3, <1>4, <1>5, <2>1, <2>2, Negation
<1> QED BY <1>1, <1>6

LEMMA SignDecides2 ==
    ASSUME NEW P \in G2, NEW Q \in G2, P[1] = Q[1], P[2] = Q[2], FlagOf(P) = FlagOf(Q)
    PROVE  P = Q
<1>1. Q = P \/ Q = Neg2(P)
  BY GroupsAssumption
<1>2. /\ P[3] \in Fq /\ P[4] \in Fq /\ (P[3] # 0 \/ P[4] # 0)
      /\ Q[3] \in Fq /\ Q[4] \in Fq /\ (Q[3] # 0 \/ Q[4] # 0)
      /\ Len(P) = 4 /\ DOMAIN P = 1 .. 4 /\ Len(Q) = 4 /\ DOMAIN Q = 1 .. 4
  <2>1. P \in Points2 /\ Q \in Points2 BY DEF Points2
  <2>2. P[3] # 0 \/ P[4] # 0 BY GroupsAssumption
  <2>3. Q[3] # 0 \/ Q[4] # 0 BY GroupsAssumption
  <2> QED BY <2>1, <2>2, <2>3, Shape2
<1>3. ~IsZero(P) /\ ~IsZero(Q)
  BY <1>2 DEF IsZero
<1>4. IsNegative(P) <=> \/ P[4] > p - P[4]
                        \/ P[4] = 0 /\ P[3] > p - P[3]
  BY <1>2 DEF IsNegative, Half
<1>5. IsNegative(Q) <=> \/ Q[4] > p - Q[4]
                        \/ Q[4] = 0 /\ Q[3] > p - Q[3]
  BY <1>2 DEF IsNegative, Half
<1>6. IsNegative(P) <=> IsNegative(Q)
  BY <1>3 DEF FlagOf
<1>7. CASE Q = Neg2(P)
  <2>1. Q[3] = (p - P[3]) % p /\ Q[4] = (p - P[4]) % p
    BY <1>7 DEF Neg2
  <2>2. CASE P[4] = 0
    <3>1. Q[4] = 0 /\ Q[3] = p - P[3] /\ P[3] # 0
      BY <1>2, <2>1, <2>2, Negation
    <3>2. ~(P[4] > p - P[4]) /\ ~(Q[4] > p - Q[4]) /\ p - Q[3] = P[3]
      BY <1>2, <2>2, <3>1, SizesAssumption DEF Fq
    <3> QED BY <1>2, <1>4, <1>5, <1>6, <2>2, <3>1, <3>2, Negation
  <2>3. CASE P[4] # 0
    <3>1. Q[4] = p - P[4]
      <4>1. P[4] \in Fq /\ Q[4] = (p - P[4]) % p
        BY <1>2, <2>1
      <4>2. (p - P[4]) % p = p - P[4]
        BY <2>3, <4>1, Negation
      <4> QED BY <4>1, <4>2
    <3>2. P[4] \in Fq
      BY <1>2
    <3>3. p - Q[4] = P[4] /\ Q[4] # 0
      BY <2>3, <3>1, <3>2, SizesAssumption DEF Fq
    <3>4. P[4] > p - P[4] <=> ~(p - P[4] > P[4])
      BY <2>3, <3>2, Negation
    <3> QED BY <1>4, <1>5, <1>6, <2>3, <3>1, <3>3, <3>4
  <2> QED BY <2>2, <2>3
<1> QED BY <1>1, <1>7

\* The words of the compressed form.
LEMMA Compressed ==
    ASSUME NEW P \in Points1 \cup Points2, NEW s, Carries(s, P)
    PROVE  /\ Compress(s) \in [1 .. Half(P) -> Word]
           /\ \A j \in 1 .. Half(P) : /\ Compress(s)[j].int = P[Place(Len(P), j)]
                                     /\ ~Compress(s)[j].le
           /\ ~IsZero(P) => Compress(s)[1].flag = FlagOf(P)
<1>1. PICK h \in {1, 2} :
              /\ Len(P) = 2 * h /\ DOMAIN P = 1 .. 2 * h /\ Half(P) = h
              /\ \A j \in 1 .. 2 * h : P[j] \in Fq /\ Place(2 * h, j) \in 1 .. 2 * h
  BY Shape
<1> DEFINE n == 2 * h
<1>2. /\ n \in Nat /\ Len(P) = n /\ DOMAIN P = 1 .. n /\ Half(P) = h
      /\ 1 .. h \subseteq 1 .. n /\ n \div 2 = h /\ 1 \in 1 .. h
      /\ \A j \in 1 .. n : P[j] \in Fq /\ Place(n, j) \in 1 .. n
  BY <1>1
<1> HIDE DEF n
<1>3. Half(s) = h
  <2>1. s \in [1 .. n -> Word] BY <1>2 DEF Carries
  <2>2. Len(s) = n BY <1>2, <2>1, LengthOf
  <2> QED BY <1>2, <2>2 DEF Half
<1> DEFINE f(j) == IF j > 1 \/ (IsZero(P) /\ NoFlags(s)) THEN "none" ELSE FlagOf(P)
           c(j) == [Encode(P)[j] EXCEPT !.flag = f(j)]
<1>4. Compress(s) = [j \in 1 .. h |-> c(j)]
  <2>1. Decode(s) = P BY Decoded
  <2> QED BY <1>3, <2>1 DEF Compress
<1>5. \A j \in 1 .. h : Is(Encode(P)[j], P[Place(n, j)], "none", FALSE)
  BY <1>2 DEF Encode, Is, Word
<1>6. \A j \in 1 .. h : f(j) \in Flags
  BY FlagOfZero DEF Flags
<1>7. ~IsZero(P) => f(1) = FlagOf(P)
  OBVIOUS
<1> HIDE DEF f
<1>8. \A j \in 1 .. h : Is(c(j), P[Place(n, j)], f(j), FALSE)
  <2>1. TAKE j \in 1 .. h
  <2>2. Encode(P)[j] \in Word /\ Encode(P)[j].int = P[Place(n, j)] /\ ~Encode(P)[j].le
    BY <1>5 DEF Is
  <2>3. Is(c(j), Encode(P)[j].int, f(j), Encode(P)[j].le)
    BY <1>6, <2>2, PutFlag
  <2> QED BY <2>2, <2>3 DEF Is
<1> HIDE DEF c
<1>9. \A j \in 1 .. h : /\ c(j) \in Word /\ c(j).int = P[Place(n, j)]
                        /\ c(j).flag = f(j) /\ ~c(j).le
  BY <1>8 DEF Is
<1> QED BY <1>2, <1>4, <1>7, <1>9

\* Decompressing a compressed point gives the point, and nothing else.
LEMMA OneCandidate ==
    ASSUME NEW P \in Points1 \cup Points2, NEW s, Carries(s, P)
    PROVE  Candidates(Compress(s)) = {P}
<1> DEFINE c == Compress(s)
<1>1. /\ c \in [1 .. Half(P) -> Word]
      /\ \A j \in 1 .. Half(P) : c[j].int = P[Place(Len(P), j)] /\ ~c[j].le
      /\ ~IsZero(P) => c[1].flag = FlagOf(P)
  BY Compressed
<1> HIDE DEF c
<1>2. CASE IsZero(P)
  <2>1. PICK h \in {1, 2} :
              /\ Len(P) = 2 * h /\ DOMAIN P = 1 .. 2 * h /\ Half(P) = h
              /\ P = [j \in 1 .. 2 * h |-> P[j]]
              /\ \A j \in 1 .. 2 * h : Place(2 * h, j) \in 1 .. 2 * h
    BY Shape
  <2>2. Len(c) = h /\ DOMAIN c = 1 .. h
    BY <1>1, <2>1, LengthOf
  <2>3. \A j \in 1 .. 2 * h : P[j] = 0
    BY <1>2, <2>1 DEF IsZero
  <2>4. \A j \in DOMAIN c : c[j].int = 0
    <3>1. TAKE j \in DOMAIN c
    <3>2. j \in 1 .. h /\ j \in 1 .. 2 * h
      BY <2>1, <2>2
    <3> QED BY <1>1, <2>1, <2>3, <3>2
  <2>5. P = [j \in 1 .. 2 * h |-> 0]
    BY <2>1, <2>3, Zenon
  <2>6. Candidates(c) = {[j \in 1 .. 2 * Len(c) |-> 0]}
    BY <2>4 DEF Candidates
  <2> QED BY <2>2, <2>5, <2>6 DEF c
<1>3. CASE ~IsZero(P) /\ P \in Points1
  <2>1. P \in G1 /\ P[1] # 0 /\ Half(P) = 1 /\ Len(P) = 2
    <3>1. P \in G1 /\ P[1] # 0 /\ Len(P) = 2
      BY <1>3, Shape1
    <3> QED BY <3>1 DEF Half
  <2>2. \A Q \in G1 : Len(Q) = 2 /\ Place(Len(Q), 1) = 1
    <3>1. TAKE Q \in G1
    <3>2. Q \in Points1 BY DEF Points1
    <3>3. Len(Q) = 2 /\ Place(2, 1) = 1 BY <3>2, Shape1
    <3> QED BY <3>3
  <2>3. Len(c) = 1 /\ DOMAIN c = 1 .. 1
    BY <1>1, <2>1, LengthOf
  <2>4. c[1].int = P[1] /\ ~c[1].le /\ c[1].flag = FlagOf(P)
    BY <1>1, <1>3, <2>1, <2>2
  <2>5. Candidates(c) = {Q \in G1 : c[1].int = Q[1] /\ c[1].flag = FlagOf(Q)}
    BY <2>1, <2>2, <2>3, <2>4 DEF Candidates
  <2>6. \A Q \in G1 : P[1] = Q[1] /\ FlagOf(P) = FlagOf(Q) => Q = P
    BY <2>1, SignDecides1
  <2> QED BY <2>1, <2>4, <2>5, <2>6 DEF c
<1>4. CASE ~IsZero(P) /\ P \in Points2
  <2>1. P \in G2 /\ (P[1] # 0 \/ P[2] # 0) /\ Half(P) = 2 /\ Len(P) = 4
    <3>1. P \in G2 /\ (P[1] # 0 \/ P[2] # 0) /\ Len(P) = 4
      BY <1>4, Shape2
    <3> QED BY <3>1 DEF Half
  <2>2. \A Q \in G2 : Len(Q) = 4 /\ Place(Len(Q), 1) = 2 /\ Place(Len(Q), 2) = 1
    BY Shape2 DEF Points2
  <2>3. Len(c) = 2 /\ DOMAIN c = 1 .. 2
    BY <1>1, <2>1, LengthOf
  <2>4. /\ c[1].int = P[2] /\ c[2].int = P[1] /\ ~c[1].le /\ ~c[2].le
        /\ c[1].flag = FlagOf(P)
    <3>1. c[1].int = P[Place(4, 1)] /\ ~c[1].le /\ c[1].flag = FlagOf(P)
      BY <1>1, <1>4, <2>1
    <3>2. c[2].int = P[Place(4, 2)] /\ ~c[2].le
      BY <1>1, <2>1
    <3> QED BY <2>1, <2>2, <3>1, <3>2
  <2>5. Candidates(c) = {Q \in G2 : /\ c[1].int = Q[2] /\ c[2].int = Q[1]
                                   /\ c[1].flag = FlagOf(Q)}
    BY <2>1, <2>2, <2>3, <2>4 DEF Candidates
  <2>6. \A Q \in G2 : P[1] = Q[1] /\ P[2] = Q[2] /\ FlagOf(P) = FlagOf(Q) => Q = P
    BY <2>1, SignDecides2
  <2> QED BY <2>1, <2>4, <2>5, <2>6 DEF c
<1> QED BY <1>2, <1>3, <1>4

LEMMA Decompressed ==
    ASSUME NEW P \in Points1 \cup Points2, NEW c, Candidates(c) = {P}
    PROVE  Carries(Decompress(c), P)
<1>1. (CHOOSE Q \in Candidates(c) : TRUE) = P
  OBVIOUS
<1> QED BY <1>1, EncodeCarries DEF Decompress

-----------------------------------------------------------------------------
(***************************************************************************)
(* The conversion of the eight coordinates, and why it stops.              *)
(***************************************************************************)
LEMMA PairIsSequence ==
    ASSUME NEW a \in Nat \X Nat
    PROVE  /\ a \in Seq(Nat) /\ Len(a) = 2 /\ DOMAIN a = 1 .. 2
           /\ \A j \in 1 .. 2 : a[j] \in Nat
<1>1. Len(a) = 2 /\ DOMAIN a = 1 .. 2 /\ a[1] \in Nat /\ a[2] \in Nat
  OBVIOUS
<1>2. a = <<a[1], a[2]>>
  OBVIOUS
<1>3. <<a[1], a[2]>> \in Seq(Nat)
  BY <1>1
<1>4. a \in Seq(Nat)
  BY <1>2, <1>3, Zenon
<1> QED BY <1>1, <1>4

LEMMA FourIsSequence ==
    ASSUME NEW a \in Nat \X Nat \X Nat \X Nat
    PROVE  /\ a \in Seq(Nat) /\ Len(a) = 4 /\ DOMAIN a = 1 .. 4
           /\ \A j \in 1 .. 4 : a[j] \in Nat
<1>1. /\ Len(a) = 4 /\ DOMAIN a = 1 .. 4
      /\ a[1] \in Nat /\ a[2] \in Nat /\ a[3] \in Nat /\ a[4] \in Nat
  OBVIOUS
<1>2. a = <<a[1], a[2], a[3], a[4]>>
  OBVIOUS
<1>3. <<a[1], a[2], a[3], a[4]>> \in Seq(Nat)
  BY <1>1
<1>4. a \in Seq(Nat)
  BY <1>2, <1>3, Zenon
<1> QED BY <1>1, <1>4

LEMMA Concatenation ==
    ASSUME NEW s \in Seq(Nat), NEW t \in Seq(Nat), NEW n \in Nat, NEW m \in Nat,
           Len(s) = n, Len(t) = m
    PROVE  /\ s \o t \in Seq(Nat) /\ Len(s \o t) = n + m
           /\ \A j \in 1 .. n : (s \o t)[j] = s[j]
           /\ \A j \in 1 .. m : (s \o t)[j + n] = t[j]
<1>1. /\ s \o t \in Seq(Nat) /\ Len(s \o t) = n + m
      /\ \A j \in 1 .. n + m : (s \o t)[j] = IF j <= n THEN s[j] ELSE t[j - n]
  BY ConcatProperties
<1>2. \A j \in 1 .. n : (s \o t)[j] = s[j]
  <2>1. \A j \in 1 .. n : j \in 1 .. n + m /\ j <= n
    OBVIOUS
  <2> QED BY <1>1, <2>1, Zenon
<1>3. \A j \in 1 .. m : (s \o t)[j + n] = t[j]
  <2>1. \A j \in 1 .. m : j + n \in 1 .. n + m /\ ~(j + n <= n) /\ (j + n) - n = j
    OBVIOUS
  <2> QED BY <1>1, <2>1, Zenon
<1> QED BY <1>1, <1>2, <1>3

LEMMA Argument ==
    ASSUME proof \in Proofs
    PROVE  /\ proof.a \in Nat \X Nat /\ Len(proof.a) = 2 /\ DOMAIN proof.a = 1 .. 2
           /\ proof.b \in Nat \X Nat \X Nat \X Nat
           /\ Len(proof.b) = 4 /\ DOMAIN proof.b = 1 .. 4
           /\ proof.c \in Nat \X Nat /\ Len(proof.c) = 2 /\ DOMAIN proof.c = 1 .. 2
           /\ \A j \in 1 .. 2 : proof.a[j] \in Nat /\ Coordinates[j] = proof.a[j]
           /\ \A j \in 1 .. 4 : proof.b[j] \in Nat /\ Coordinates[j + 2] = proof.b[j]
           /\ \A j \in 1 .. 2 : proof.c[j] \in Nat /\ Coordinates[j + 6] = proof.c[j]
<1>1. proof.a \in Nat \X Nat /\ proof.b \in Nat \X Nat \X Nat \X Nat /\ proof.c \in Nat \X Nat
  BY ProofsAssumption DEF Coordinates2, Coordinates4
<1> DEFINE a == proof.a
           b == proof.b
           c == proof.c
<1>2. /\ a \in Seq(Nat) /\ Len(a) = 2 /\ DOMAIN a = 1 .. 2
      /\ \A j \in 1 .. 2 : a[j] \in Nat
  BY <1>1, PairIsSequence
<1>3. /\ b \in Seq(Nat) /\ Len(b) = 4 /\ DOMAIN b = 1 .. 4
      /\ \A j \in 1 .. 4 : b[j] \in Nat
  BY <1>1, FourIsSequence
<1>4. /\ c \in Seq(Nat) /\ Len(c) = 2 /\ DOMAIN c = 1 .. 2
      /\ \A j \in 1 .. 2 : c[j] \in Nat
  BY <1>1, PairIsSequence
<1>5. Coordinates = (a \o b) \o c
  BY DEF Coordinates
<1> HIDE DEF a, b, c
<1>6. /\ a \o b \in Seq(Nat) /\ Len(a \o b) = 6
      /\ \A j \in 1 .. 2 : (a \o b)[j] = a[j]
      /\ \A j \in 1 .. 4 : (a \o b)[j + 2] = b[j]
  <2>1. 2 \in Nat /\ 4 \in Nat /\ 2 + 4 = 6 OBVIOUS
  <2> QED BY <1>2, <1>3, <2>1, Concatenation
<1>7. /\ \A j \in 1 .. 6 : Coordinates[j] = (a \o b)[j]
      /\ \A j \in 1 .. 2 : Coordinates[j + 6] = c[j]
  <2> DEFINE ab == a \o b
  <2>1. ab \in Seq(Nat) /\ Len(ab) = 6 /\ c \in Seq(Nat) /\ Len(c) = 2
    BY <1>4, <1>6
  <2> HIDE DEF ab
  <2>2. /\ \A j \in 1 .. 6 : (ab \o c)[j] = ab[j]
        /\ \A j \in 1 .. 2 : (ab \o c)[j + 6] = c[j]
    <3>1. 6 \in Nat /\ 2 \in Nat
      OBVIOUS
    <3>2. \A j \in 1 .. 6 : (ab \o c)[j] = ab[j]
      BY <2>1, <3>1, Concatenation
    <3>3. \A j \in 1 .. 2 : (ab \o c)[j + 6] = c[j]
      <4>1. \A j \in 1 .. 6 + 2 : (ab \o c)[j] = IF j <= 6 THEN ab[j] ELSE c[j - 6]
        <5>1. \A j \in 1 .. Len(ab) + Len(c) :
                  (ab \o c)[j] = IF j <= Len(ab) THEN ab[j] ELSE c[j - Len(ab)]
          BY <2>1, ConcatProperties, Zenon
        <5> QED BY <2>1, <5>1, Zenon
      <4>2. \A j \in 1 .. 2 : j + 6 \in 1 .. 6 + 2 /\ ~(j + 6 <= 6) /\ (j + 6) - 6 = j
        OBVIOUS
      <4> QED BY <4>1, <4>2, Zenon
    <3> QED BY <3>2, <3>3
  <2> QED BY <1>5, <2>2, Zenon DEF ab
<1>8. \A j \in 1 .. 2 : Coordinates[j] = a[j]
  <2>1. \A j \in 1 .. 2 : j \in 1 .. 6 OBVIOUS
  <2> QED BY <1>6, <1>7, <2>1, Zenon
<1>9. \A j \in 1 .. 4 : Coordinates[j + 2] = b[j]
  <2>1. \A j \in 1 .. 4 : j + 2 \in 1 .. 6 OBVIOUS
  <2> QED BY <1>6, <1>7, <2>1, Zenon
<1> QED BY <1>1, <1>2, <1>3, <1>4, <1>7, <1>8, <1>9, Zenon DEF a, b, c

\* A coordinate that is no field element is reported as the first offence of
\* its point.
LEMMA CoordinateBlamed ==
    ASSUME NEW n \in Nat, NEW P, DOMAIN P = 1 .. n, \A j \in 1 .. n : P[j] \in Nat,
           NEW m \in 1 .. n, \A j \in 1 .. m - 1 : P[j] \in Fq,
           convert_coordinate(P[m]) # "Ok"
    PROVE  ~IsPoint(P) /\ FirstOffence(P) = convert_coordinate(P[m])
<1>1. P[m] \in Nat /\ P[m] >= p
  BY SizesAssumption DEF convert_coordinate
<1>2. ~IsPoint(P)
  BY <1>1, SizesAssumption DEF IsPoint, Fq
<1>3. CASE P[m] >= WordSize
  <2>1. convert_coordinate(P[m]) = "ProofConversionError"
    BY <1>3 DEF convert_coordinate
  <2> QED BY <1>2, <1>3, <2>1 DEF FirstOffence
<1>4. CASE ~(P[m] >= WordSize)
  <2>1. convert_coordinate(P[m]) = "ArkworksSerializationError"
    BY <1>1, <1>4 DEF convert_coordinate
  <2>2. \A j \in 1 .. n : P[j] >= WordSize => \E l \in 1 .. j - 1 : P[l] \notin Fq
    <3>1. SUFFICES ASSUME NEW j \in 1 .. n, P[j] >= WordSize
                   PROVE  \E l \in 1 .. j - 1 : P[l] \notin Fq
      OBVIOUS
    <3>2. P[j] \notin Fq /\ P[m] \notin Fq
      BY <1>1, <3>1, SizesAssumption DEF Fq
    <3>3. j > m
      BY <1>4, <3>1, <3>2
    <3>4. m \in 1 .. j - 1
      BY <3>3
    <3> QED BY <3>2, <3>4
  <2> QED BY <1>2, <2>1, <2>2 DEF FirstOffence
<1> QED BY <1>3, <1>4

\* So is a point whose coordinates are field elements but that is not in the
\* group.
LEMMA PointBlamed ==
    ASSUME NEW n \in Nat, NEW P, DOMAIN P = 1 .. n, \A j \in 1 .. n : P[j] \in Fq
    PROVE  /\ Check(P) = "Ok" <=> IsPoint(P)
           /\ Check(P) # "Ok" => FirstOffence(P) = Check(P)
<1>1. Check(P) = "Ok" <=> IsPoint(P)
  BY DEF Check, IsPoint
<1>2. \A j \in 1 .. n : ~(P[j] >= WordSize)
  BY SizesAssumption DEF Fq
<1>3. FirstOffence(P) = "ArkworksSerializationError"
  BY <1>2 DEF FirstOffence
<1> QED BY <1>1, <1>3 DEF Check

Reason(error) ==
    error = IF ~IsPoint(proof.a) THEN FirstOffence(proof.a)
            ELSE IF ~IsPoint(proof.b) THEN FirstOffence(proof.b)
            ELSE IF ~IsPoint(proof.c) THEN FirstOffence(proof.c)
            ELSE "Ok"

\* The inductive invariant: what was converted so far are field elements and
\* whole points, and what is held says the same points all the way.
ConvertedSoFar ==
    /\ \A j \in 1 .. k : Coordinates[j] \in Fq
    /\ k >= 2 => IsPoint(proof.a)
    /\ k >= 6 => IsPoint(proof.b)
    /\ k >= 8 => IsPoint(proof.c)

AllConverted == pc \notin {"coordinates", "stopped"} => k = 8

Errors == /\ pc # "stopped" => res = "Ok"
          /\ pc = "stopped" => Reason(res)
          /\ res \in {"Ok", "ProofConversionError", "ArkworksSerializationError"}

CarriesProof ==
    /\ Carries(bytes.a, Neg1(proof.a))
    /\ Carries(bytes.b, proof.b)
    /\ Carries(bytes.c, proof.c)

Determined ==
    /\ Candidates(bytes.a) = {Neg1(proof.a)}
    /\ Candidates(bytes.b) = {proof.b}
    /\ Candidates(bytes.c) = {proof.c}

Held ==
    /\ pc \in {"converted", "decompressed", "ready"} =>
           bytes \in Bytes(2) /\ CarriesProof
    /\ pc = "compressed" => bytes \in Bytes(1) /\ Determined

Locals ==
    /\ proof \in Proofs /\ signals \in Signals
    /\ pc \in {"coordinates", "converted", "compressed", "decompressed",
               "ready", "stopped", "panicked"}
    /\ k \in 0 .. 8

IInv == Locals /\ ConvertedSoFar /\ AllConverted /\ Errors /\ Held

LEMMA InitHolds == Init => IInv
BY DEF Init, IInv, Locals, ConvertedSoFar, AllConverted, Errors, Held

\* One more coordinate, and at the end of a point its check.
LEMMA OneMore ==
    ASSUME proof \in Proofs, k \in 0 .. 7, ConvertedSoFar
    PROVE  LET result == convert_coordinate(Coordinates[k + 1])
               check  == CheckAfter(k + 1)
           IN  /\ result # "Ok" => Reason(result)
               /\ result = "Ok" /\ check # "Ok" => Reason(check)
               /\ result = "Ok" => Coordinates[k + 1] \in Fq
               /\ result = "Ok" /\ check = "Ok" =>
                     /\ k + 1 >= 2 => IsPoint(proof.a)
                     /\ k + 1 >= 6 => IsPoint(proof.b)
                     /\ k + 1 >= 8 => IsPoint(proof.c)
<1> DEFINE result == convert_coordinate(Coordinates[k + 1])
           check  == CheckAfter(k + 1)
<1>1. result = "Ok" => Coordinates[k + 1] \in Fq
  <2>1. Coordinates[k + 1] \in Nat
    <3>1. CASE k \in 0 .. 1
      BY <3>1, Argument
    <3>2. CASE k \in 2 .. 5
      <4>1. k - 1 \in 1 .. 4 /\ (k - 1) + 2 = k + 1 BY <3>2
      <4> QED BY <4>1, Argument
    <3>3. CASE k \in 6 .. 7
      <4>1. k - 5 \in 1 .. 2 /\ (k - 5) + 6 = k + 1 BY <3>3
      <4> QED BY <4>1, Argument
    <3> QED BY <3>1, <3>2, <3>3
  <2> QED BY <2>1, SizesAssumption DEF convert_coordinate, Fq
<1>2. CASE k \in 0 .. 1
  <2>1. /\ DOMAIN proof.a = 1 .. 2 /\ 2 \in Nat /\ k + 1 \in 1 .. 2
        /\ \A j \in 1 .. 2 : proof.a[j] \in Nat /\ Coordinates[j] = proof.a[j]
    BY <1>2, Argument
  <2>2. \A j \in 1 .. (k + 1) - 1 : proof.a[j] \in Fq
    BY <1>2, <2>1 DEF ConvertedSoFar
  <2>3. result # "Ok" => ~IsPoint(proof.a) /\ FirstOffence(proof.a) = result
    <3>1. result = convert_coordinate(proof.a[k + 1])
      BY <2>1
    <3> HIDE DEF result
    <3>2. SUFFICES ASSUME convert_coordinate(proof.a[k + 1]) # "Ok"
                   PROVE  /\ ~IsPoint(proof.a)
                          /\ FirstOffence(proof.a) = convert_coordinate(proof.a[k + 1])
      BY <3>1, Zenon
    <3>3. \A j \in 1 .. 2 : proof.a[j] \in Nat
      BY <2>1
    <3> QED BY <2>1, <2>2, <3>2, <3>3, CoordinateBlamed
  <2>4. CASE k = 0
    BY <1>1, <2>3, <2>4 DEF CheckAfter, Reason
  <2>5. CASE k = 1
    <3>1. check = Check(proof.a)
      BY <2>5 DEF CheckAfter
    <3>2. result = "Ok" => \A j \in 1 .. 2 : proof.a[j] \in Fq
      BY <1>1, <2>1, <2>2, <2>5
    <3>3. result = "Ok" => /\ check = "Ok" <=> IsPoint(proof.a)
                           /\ check # "Ok" => FirstOffence(proof.a) = check
      <4>1. SUFFICES ASSUME result = "Ok"
                     PROVE  /\ check = "Ok" <=> IsPoint(proof.a)
                            /\ check # "Ok" => FirstOffence(proof.a) = check
        BY Zenon
      <4>2. \A j \in 1 .. 2 : proof.a[j] \in Fq
        BY <3>2, <4>1
      <4> HIDE DEF result, check
      <4> QED BY <2>1, <3>1, <4>2, PointBlamed
    <3> QED BY <1>1, <2>3, <2>5, <3>3 DEF Reason
  <2> QED BY <1>2, <2>4, <2>5
<1>3. CASE k \in 2 .. 5
  <2>1. /\ DOMAIN proof.b = 1 .. 4 /\ 4 \in Nat /\ k - 1 \in 1 .. 4
        /\ \A j \in 1 .. 4 : proof.b[j] \in Nat /\ Coordinates[j + 2] = proof.b[j]
    BY <1>3, Argument
  <2>2. \A j \in 1 .. (k - 1) - 1 : proof.b[j] \in Fq
    <3>1. \A j \in 1 .. (k - 1) - 1 : j \in 1 .. 4 /\ j + 2 \in 1 .. k
      BY <1>3
    <3> QED BY <2>1, <3>1 DEF ConvertedSoFar
  <2>3. Coordinates[k + 1] = proof.b[k - 1] /\ IsPoint(proof.a)
    <3>1. (k - 1) + 2 = k + 1 BY <1>3
    <3> QED BY <1>3, <2>1, <3>1 DEF ConvertedSoFar
  <2>4. result # "Ok" => ~IsPoint(proof.b) /\ FirstOffence(proof.b) = result
    <3>1. result = convert_coordinate(proof.b[k - 1])
      BY <2>3
    <3> HIDE DEF result
    <3>2. SUFFICES ASSUME convert_coordinate(proof.b[k - 1]) # "Ok"
                   PROVE  /\ ~IsPoint(proof.b)
                          /\ FirstOffence(proof.b) = convert_coordinate(proof.b[k - 1])
      BY <3>1, Zenon
    <3>3. \A j \in 1 .. 4 : proof.b[j] \in Nat
      BY <2>1
    <3> QED BY <2>1, <2>2, <3>2, <3>3, CoordinateBlamed
  <2>5. CASE k # 5
    <3>1. check = "Ok"
      BY <1>3, <2>5 DEF CheckAfter
    <3> QED BY <1>1, <1>3, <2>3, <2>4, <2>5, <3>1 DEF Reason
  <2>6. CASE k = 5
    <3>1. check = Check(proof.b)
      BY <2>6 DEF CheckAfter
    <3>2. result = "Ok" => \A j \in 1 .. 4 : proof.b[j] \in Fq
      BY <1>1, <2>1, <2>2, <2>3, <2>6
    <3>3. result = "Ok" => /\ check = "Ok" <=> IsPoint(proof.b)
                           /\ check # "Ok" => FirstOffence(proof.b) = check
      <4>1. SUFFICES ASSUME result = "Ok"
                     PROVE  /\ check = "Ok" <=> IsPoint(proof.b)
                            /\ check # "Ok" => FirstOffence(proof.b) = check
        BY Zenon
      <4>2. \A j \in 1 .. 4 : proof.b[j] \in Fq
        BY <3>2, <4>1
      <4> HIDE DEF result, check
      <4> QED BY <2>1, <3>1, <4>2, PointBlamed
    <3> QED BY <1>1, <2>3, <2>4, <2>6, <3>3 DEF Reason
  <2> QED BY <2>5, <2>6
<1>4. CASE k \in 6 .. 7
  <2>1. /\ DOMAIN proof.c = 1 .. 2 /\ 2 \in Nat /\ k - 5 \in 1 .. 2
        /\ \A j \in 1 .. 2 : proof.c[j] \in Nat /\ Coordinates[j + 6] = proof.c[j]
    BY <1>4, Argument
  <2>2. \A j \in 1 .. (k - 5) - 1 : proof.c[j] \in Fq
    <3>1. \A j \in 1 .. (k - 5) - 1 : j \in 1 .. 2 /\ j + 6 \in 1 .. k
      BY <1>4
    <3> QED BY <2>1, <3>1 DEF ConvertedSoFar
  <2>3. Coordinates[k + 1] = proof.c[k - 5] /\ IsPoint(proof.a) /\ IsPoint(proof.b)
    <3>1. (k - 5) + 6 = k + 1 BY <1>4
    <3> QED BY <1>4, <2>1, <3>1 DEF ConvertedSoFar
  <2>4. result # "Ok" => ~IsPoint(proof.c) /\ FirstOffence(proof.c) = result
    <3>1. result = convert_coordinate(proof.c[k - 5])
      BY <2>3
    <3> HIDE DEF result
    <3>2. SUFFICES ASSUME convert_coordinate(proof.c[k - 5]) # "Ok"
                   PROVE  /\ ~IsPoint(proof.c)
                          /\ FirstOffence(proof.c) = convert_coordinate(proof.c[k - 5])
      BY <3>1, Zenon
    <3>3. \A j \in 1 .. 2 : proof.c[j] \in Nat
      BY <2>1
    <3> QED BY <2>1, <2>2, <3>2, <3>3, CoordinateBlamed
  <2>5. CASE k = 6
    <3>1. check = "Ok"
      BY <2>5 DEF CheckAfter
    <3> QED BY <1>1, <2>3, <2>4, <2>5, <3>1 DEF Reason
  <2>6. CASE k = 7
    <3>1. check = Check(proof.c)
      BY <2>6 DEF CheckAfter
    <3>2. result = "Ok" => \A j \in 1 .. 2 : proof.c[j] \in Fq
      BY <1>1, <2>1, <2>2, <2>3, <2>6
    <3>3. result = "Ok" => /\ check = "Ok" <=> IsPoint(proof.c)
                           /\ check # "Ok" => FirstOffence(proof.c) = check
      <4>1. SUFFICES ASSUME result = "Ok"
                     PROVE  /\ check = "Ok" <=> IsPoint(proof.c)
                            /\ check # "Ok" => FirstOffence(proof.c) = check
        BY Zenon
      <4>2. \A j \in 1 .. 2 : proof.c[j] \in Fq
        BY <3>2, <4>1
      <4> HIDE DEF result, check
      <4> QED BY <2>1, <3>1, <4>2, PointBlamed
    <3> QED BY <1>1, <2>3, <2>4, <2>6, <3>3 DEF Reason
  <2> QED BY <1>4, <2>5, <2>6
<1> QED BY <1>2, <1>3, <1>4

\* A point as the arguments have it, once it is one.
LEMMA PointsOfArgument ==
    ASSUME proof \in Proofs
    PROVE  /\ IsPoint(proof.a) => proof.a \in Points1
           /\ IsPoint(proof.b) => proof.b \in Points2
           /\ IsPoint(proof.c) => proof.c \in Points1
<1>1. ASSUME NEW P \in Nat \X Nat, IsPoint(P) PROVE P \in Points1
  <2>1. P = <<P[1], P[2]>> /\ Len(P) = 2 /\ DOMAIN P = 1 .. 2
    BY <1>1
  <2>2. CASE IsZero(P)
    <3>1. P[1] = 0 /\ P[2] = 0 BY <2>1, <2>2 DEF IsZero
    <3> QED BY <2>1, <3>1 DEF Points1
  <2>3. CASE P \in Group(P)
    BY <2>1, <2>3 DEF Group, Points1
  <2> QED BY <1>1, <2>2, <2>3 DEF IsPoint
<1>2. ASSUME NEW P \in Nat \X Nat \X Nat \X Nat, IsPoint(P) PROVE P \in Points2
  <2>1. P = <<P[1], P[2], P[3], P[4]>> /\ Len(P) = 4 /\ DOMAIN P = 1 .. 4
    BY <1>2
  <2>2. CASE IsZero(P)
    <3>1. P[1] = 0 /\ P[2] = 0 /\ P[3] = 0 /\ P[4] = 0 BY <2>1, <2>2 DEF IsZero
    <3> QED BY <2>1, <3>1 DEF Points2
  <2>3. CASE P \in Group(P)
    BY <2>1, <2>3 DEF Group, Points2
  <2> QED BY <1>2, <2>2, <2>3 DEF IsPoint
<1>3. /\ proof.a \in Nat \X Nat /\ proof.b \in Nat \X Nat \X Nat \X Nat
      /\ proof.c \in Nat \X Nat
  BY Argument
<1> QED BY <1>1, <1>2, <1>3

LEMMA WholeProof ==
    ASSUME proof \in Proofs, k = 8, ConvertedSoFar
    PROVE  /\ Neg1(proof.a) \in Points1 /\ proof.b \in Points2 /\ proof.c \in Points1
           /\ IsPoint(proof.a) /\ IsPoint(proof.b) /\ IsPoint(proof.c)
<1>1. IsPoint(proof.a) /\ IsPoint(proof.b) /\ IsPoint(proof.c)
  BY DEF ConvertedSoFar
<1>2. proof.a \in Points1 /\ proof.b \in Points2 /\ proof.c \in Points1
  BY <1>1, PointsOfArgument
<1> QED BY <1>1, <1>2, Neg1Point

\* The words of an encoding have the types of Bytes(2).
LEMMA BytesOf ==
    ASSUME NEW x, NEW a, NEW b, NEW c, x = [a |-> a, b |-> b, c |-> c],
           NEW A \in Points1, NEW B \in Points2, NEW C \in Points1,
           Carries(a, A), Carries(b, B), Carries(c, C)
    PROVE  x \in Bytes(2)
<1>1. DOMAIN A = 1 .. 2 /\ DOMAIN B = 1 .. 4 /\ DOMAIN C = 1 .. 2
  BY Shape1, Shape2
<1>2. a \in [1 .. 2 -> Word] /\ b \in [1 .. 4 -> Word] /\ c \in [1 .. 2 -> Word]
  BY <1>1 DEF Carries
<1>3. 2 * 2 = 4
  OBVIOUS
<1> QED BY <1>2, <1>3 DEF Bytes

LEMMA CoordinateStep ==
    ASSUME IInv, ConvertCoordinate
    PROVE  IInv'
<1> USE DEF IInv
<1>1. /\ proof \in Proofs /\ pc = "coordinates" /\ k \in 0 .. 7 /\ ConvertedSoFar
  BY DEF Locals, ConvertCoordinate
<1> DEFINE result == convert_coordinate(Coordinates[k + 1])
           check  == CheckAfter(k + 1)
<1>2. /\ result # "Ok" => Reason(result)
      /\ result = "Ok" /\ check # "Ok" => Reason(check)
      /\ result = "Ok" => Coordinates[k + 1] \in Fq
      /\ result = "Ok" /\ check = "Ok" =>
               /\ k + 1 >= 2 => IsPoint(proof.a)
               /\ k + 1 >= 6 => IsPoint(proof.b)
               /\ k + 1 >= 8 => IsPoint(proof.c)
  BY <1>1, OneMore
<1>3. /\ result \in {"Ok", "ProofConversionError", "ArkworksSerializationError"}
      /\ check \in {"Ok", "ProofConversionError", "ArkworksSerializationError"}
  BY DEF convert_coordinate, CheckAfter, Check
<1>4. \/ result # "Ok" /\ Stop(result)
      \/ result = "Ok" /\ check # "Ok" /\ Stop(check)
      \/ /\ result = "Ok" /\ check = "Ok" /\ k' = k + 1
         /\ UNCHANGED <<proof, signals, pc, res, bytes, inputs>>
  BY DEF ConvertCoordinate
<1> HIDE DEF result, check
<1>5. ASSUME NEW error \in {"Ok", "ProofConversionError", "ArkworksSerializationError"},
             Reason(error), Stop(error)
      PROVE  IInv'
  <2>1. pc' = "stopped" /\ res' = error /\ UNCHANGED <<proof, signals, k, bytes, inputs>>
    BY <1>5 DEF Stop
  <2>2. Locals' BY <2>1 DEF Locals
  <2>3. ConvertedSoFar' BY <2>1 DEF ConvertedSoFar, Coordinates
  <2>4. Errors' BY <1>5, <2>1 DEF Errors, Reason
  <2> QED BY <2>1, <2>2, <2>3, <2>4 DEF AllConverted, Held
<1>6. CASE /\ result = "Ok" /\ check = "Ok" /\ k' = k + 1
           /\ UNCHANGED <<proof, signals, pc, res, bytes, inputs>>
  <2>1. Locals' BY <1>1, <1>6 DEF Locals
  <2>2. Coordinates' = Coordinates BY <1>6 DEF Coordinates
  <2>3. (\A j \in 1 .. k : Coordinates[j] \in Fq)'
    <3>1. \A j \in 1 .. k + 1 : j \in 1 .. k \/ j = k + 1
      BY <1>1
    <3> QED BY <1>1, <1>2, <1>6, <2>2, <3>1 DEF ConvertedSoFar
  <2>4. ConvertedSoFar'
    BY <1>2, <1>6, <2>3 DEF ConvertedSoFar
  <2>5. Errors' BY <1>1, <1>6 DEF Errors
  <2> QED BY <1>1, <1>6, <2>1, <2>4, <2>5 DEF AllConverted, Held
<1> QED BY <1>2, <1>3, <1>4, <1>5, <1>6

LEMMA PassKeeps ==
    ASSUME IInv, NEW step, NEW result, Pass(step, result),
           step \in {"converted", "compressed", "decompressed"}, k = 8, pc # "stopped"
    PROVE  Locals' /\ ConvertedSoFar' /\ AllConverted' /\ Errors'
<1>1. pc' = step /\ bytes' = result /\ UNCHANGED <<proof, signals, k, res, inputs>>
  BY DEF Pass
<1>2. Locals' BY <1>1 DEF IInv, Locals
<1>3. ConvertedSoFar' BY <1>1 DEF IInv, ConvertedSoFar, Coordinates
<1>4. AllConverted' BY <1>1 DEF AllConverted
<1>5. Errors' BY <1>1 DEF IInv, Errors
<1> QED BY <1>2, <1>3, <1>4, <1>5

LEMMA ConversionStep ==
    ASSUME IInv, FinishConversion
    PROVE  IInv'
<1>1. /\ proof \in Proofs /\ pc = "coordinates" /\ k = 8 /\ ConvertedSoFar
      /\ Pass("converted", Converted)
  BY DEF IInv, Locals, FinishConversion
<1>2. Locals' /\ ConvertedSoFar' /\ AllConverted' /\ Errors'
  BY <1>1, PassKeeps
<1> DEFINE a == convert_endianness(1, WithoutFlags(Neg1(proof.a)))
           b == convert_endianness(2, Serialize(proof.b))
           c == convert_endianness(1, Serialize(proof.c))
<1>3. Neg1(proof.a) \in Points1 /\ proof.b \in Points2 /\ proof.c \in Points1
  BY <1>1, WholeProof
<1>4. Carries(a, Neg1(proof.a)) /\ Carries(b, proof.b) /\ Carries(c, proof.c)
  BY <1>3, SentWithoutFlags, SentB, SentC
<1>5. bytes' = [a |-> a, b |-> b, c |-> c] /\ pc' = "converted" /\ proof' = proof
  BY <1>1 DEF Pass, Converted
<1> HIDE DEF a, b, c
<1>6. bytes' \in Bytes(2)
  BY <1>3, <1>4, <1>5, BytesOf
<1>7. CarriesProof'
  BY <1>4, <1>5 DEF CarriesProof, Neg1, Carries
<1>8. Held'
  BY <1>5, <1>6, <1>7 DEF Held
<1> QED BY <1>2, <1>8 DEF IInv

LEMMA CompressionStep ==
    ASSUME IInv, convert_proof_to_compressed
    PROVE  IInv'
<1> DEFINE A == Neg1(proof.a)
           c == [a |-> Compress(bytes.a), b |-> Compress(bytes.b), c |-> Compress(bytes.c)]
<1>1. /\ proof \in Proofs /\ pc = "converted" /\ k = 8 /\ ConvertedSoFar
      /\ Carries(bytes.a, A) /\ Carries(bytes.b, proof.b) /\ Carries(bytes.c, proof.c)
  BY DEF IInv, Locals, AllConverted, Held, CarriesProof, convert_proof_to_compressed
<1>2. A \in Points1 /\ proof.b \in Points2 /\ proof.c \in Points1
  BY <1>1, WholeProof
<1> HIDE DEF A
<1>3. Decodes(bytes.a) /\ Decodes(bytes.b) /\ Decodes(bytes.c)
  BY <1>1, <1>2, Decoded
<1>4. Pass("compressed", c)
  BY <1>3 DEF convert_proof_to_compressed
<1>5. Locals' /\ ConvertedSoFar' /\ AllConverted' /\ Errors'
  BY <1>1, <1>4, PassKeeps
<1>6. /\ Candidates(c.a) = {A} /\ Candidates(c.b) = {proof.b} /\ Candidates(c.c) = {proof.c}
  BY <1>1, <1>2, OneCandidate
<1>7. /\ c.a \in [1 .. Half(A) -> Word] /\ c.b \in [1 .. Half(proof.b) -> Word]
      /\ c.c \in [1 .. Half(proof.c) -> Word]
  BY <1>1, <1>2, Compressed
<1>8. Half(A) = 1 /\ Half(proof.b) = 2 /\ Half(proof.c) = 1
  <2>1. Len(A) = 2 /\ Len(proof.b) = 4 /\ Len(proof.c) = 2
    BY <1>2, Shape1, Shape2
  <2> QED BY <2>1 DEF Half
<1>9. c \in Bytes(1)
  <2>1. 2 * 1 = 2
    OBVIOUS
  <2> QED BY <1>7, <1>8, <2>1 DEF Bytes
<1>10. bytes' = c /\ pc' = "compressed" /\ proof' = proof
  BY <1>4 DEF Pass
<1> HIDE DEF c
<1>11. Determined'
  BY <1>6, <1>10 DEF Determined, Candidates, Neg1, A
<1>12. Held'
  BY <1>9, <1>10, <1>11 DEF Held
<1> QED BY <1>5, <1>12 DEF IInv

LEMMA DecompressionStep ==
    ASSUME IInv, decompress
    PROVE  IInv'
<1> DEFINE A == Neg1(proof.a)
           d == [a |-> Decompress(bytes.a), b |-> Decompress(bytes.b),
                 c |-> Decompress(bytes.c)]
<1>1. /\ proof \in Proofs /\ pc = "compressed" /\ k = 8 /\ ConvertedSoFar
      /\ Candidates(bytes.a) = {A} /\ Candidates(bytes.b) = {proof.b}
      /\ Candidates(bytes.c) = {proof.c}
  BY DEF IInv, Locals, AllConverted, Held, Determined, decompress
<1>2. A \in Points1 /\ proof.b \in Points2 /\ proof.c \in Points1
  BY <1>1, WholeProof
<1> HIDE DEF A
<1>3. Pass("decompressed", d)
  BY <1>1 DEF decompress
<1>4. Locals' /\ ConvertedSoFar' /\ AllConverted' /\ Errors'
  BY <1>1, <1>3, PassKeeps
<1>5. Carries(d.a, A) /\ Carries(d.b, proof.b) /\ Carries(d.c, proof.c)
  BY <1>1, <1>2, Decompressed
<1>6. bytes' = d /\ pc' = "decompressed" /\ proof' = proof
  BY <1>3 DEF Pass
<1>7. d \in Bytes(2)
  <2>1. d = [a |-> d.a, b |-> d.b, c |-> d.c]
    OBVIOUS
  <2> HIDE DEF d
  <2> QED BY <1>2, <1>5, <2>1, BytesOf
<1> HIDE DEF d
<1>8. CarriesProof'
  BY <1>5, <1>6 DEF CarriesProof, Neg1, Carries, A
<1>9. Held'
  BY <1>6, <1>7, <1>8 DEF Held
<1> QED BY <1>4, <1>9 DEF IInv

LEMMA InputsStep ==
    ASSUME IInv, convert_public_inputs
    PROVE  IInv'
<1>1. /\ pc = "converted" /\ pc' \in {"ready", "panicked"}
      /\ UNCHANGED <<proof, signals, k, res, bytes>>
  BY DEF convert_public_inputs
<1>2. Locals' BY <1>1 DEF IInv, Locals
<1>3. ConvertedSoFar' BY <1>1 DEF IInv, ConvertedSoFar, Coordinates
<1>4. AllConverted' BY <1>1 DEF IInv, AllConverted
<1>5. Errors' BY <1>1 DEF IInv, Errors
<1>6. CarriesProof' BY <1>1 DEF IInv, Held, CarriesProof, Carries, Neg1
<1>7. Held' BY <1>1, <1>6 DEF IInv, Held
<1> QED BY <1>2, <1>3, <1>4, <1>5, <1>7 DEF IInv

LEMMA NextKeeps ==
    ASSUME IInv, [Next]_vars
    PROVE  IInv'
<1>1. CASE Next
  BY <1>1, CoordinateStep, ConversionStep, CompressionStep, DecompressionStep, InputsStep
     DEF Next
<1>2. CASE UNCHANGED vars
  <2>1. UNCHANGED <<proof, signals, pc, k, res, bytes, inputs>>
    BY <1>2 DEF vars
  <2>2. CarriesProof <=> CarriesProof' BY <2>1 DEF CarriesProof, Carries, Neg1
  <2>3. Determined <=> Determined' BY <2>1 DEF Determined, Neg1, Candidates
  <2> QED BY <2>1, <2>2, <2>3 DEF IInv, Locals, ConvertedSoFar, Coordinates, AllConverted,
                                  Errors, Reason, Held
<1> QED BY <1>1, <1>2

\* The inductive invariant of convert_proof, its compressed form and the way
\* back holds throughout.
THEOREM InductiveInvariant == Spec => []IInv
BY InitHolds, NextKeeps, PTL DEF Spec

\* The conversions return words of field elements, of the lengths the verifier
\* takes, and no error of decompression is ever among the results.
THEOREM TypeCorrect == Spec => []TypeOK
<1>1. IInv => TypeOK
  BY DEF IInv, Locals, Errors, Held, TypeOK
<1> QED BY <1>1, InductiveInvariant, PTL

\* The verifier is given the prover's points with A negated once, straight or
\* by way of the compressed form, whatever the field and the groups are.
THEOREM PointsAreTheSame == Spec => []SamePoints
<1>1. IInv => SamePoints
  <2>1. SUFFICES ASSUME IInv, pc \in {"converted", "decompressed", "ready"}
                 PROVE  /\ Says(bytes.a, Neg1(proof.a)) /\ Says(bytes.b, proof.b)
                        /\ Says(bytes.c, proof.c)
    BY DEF SamePoints
  <2>2. /\ proof \in Proofs /\ k = 8 /\ ConvertedSoFar
        /\ Carries(bytes.a, Neg1(proof.a)) /\ Carries(bytes.b, proof.b)
        /\ Carries(bytes.c, proof.c)
    BY <2>1 DEF IInv, Locals, AllConverted, Held, CarriesProof
  <2>3. Neg1(proof.a) \in Points1 /\ proof.b \in Points2 /\ proof.c \in Points1
    BY <2>2, WholeProof
  <2> QED BY <2>2, <2>3, Decoded DEF Says
<1> QED BY <1>1, InductiveInvariant, PTL

\* Only integers that are no points are refused, with the error of the first
\* thing wrong with them, and nothing fails after the conversion.
THEOREM ErrorsAreReasons == Spec => []ErrorsTellTheReason
<1>1. IInv => ErrorsTellTheReason
  <2>1. IInv /\ pc \notin {"coordinates", "stopped"} =>
            IsPoint(proof.a) /\ IsPoint(proof.b) /\ IsPoint(proof.c)
    BY DEF IInv, AllConverted, ConvertedSoFar
  <2> QED BY <2>1 DEF IInv, Errors, Reason, ErrorsTellTheReason
<1> QED BY <1>1, InductiveInvariant, PTL

\* A public input that fits 32 bytes arrives as it is.
THEOREM InputsAreKept == Spec => []InputsKept
<1>1. Init => InputsKept
  BY DEF Init, InputsKept
<1>2. InputsKept /\ [Next]_vars => InputsKept'
  <2>1. InputsKept /\ convert_public_inputs => InputsKept'
    BY DEF convert_public_inputs, InputsKept, InputWord
  <2>2. ConvertCoordinate \/ FinishConversion \/ convert_proof_to_compressed \/ decompress
            => pc' # "ready"
    BY DEF ConvertCoordinate, Stop, FinishConversion, Pass, convert_proof_to_compressed, decompress
  <2>3. InputsKept /\ UNCHANGED vars => InputsKept'
    BY DEF vars, InputsKept
  <2> QED BY <2>1, <2>2, <2>3 DEF Next, InputsKept
<1> QED BY <1>1, <1>2, PTL DEF Spec
=============================================================================
