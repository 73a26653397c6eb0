--------------------------- MODULE ProgramProofs ---------------------------
(***************************************************************************)
(* For every kind of proof, key, word and group order: the test program    *)
(* uses its Groth16Verifier as Groth16Verifier specifies it, so that what  *)
(* is proved of the verifier holds inside the program, and the program     *)
(* tells the client what its data deserve.                                 *)
(***************************************************************************)
EXTENDS Program, SequenceTheorems, TLAPS

V == INSTANCE Groth16VerifierProofs WITH
    Vks <- Groth16Verifyingkey, Proofs <- Proof, InputVectors <- Seq(Scalars)

-----------------------------------------------------------------------------
(***************************************************************************)
(* The verifier of the program is the one of Groth16VerifierProofs.        *)
(***************************************************************************)

\* The data are the same.
LEMMA SameData ==
    /\ V!Points = Points /\ V!Encodings = Encodings /\ V!Scalars = Scalars
    /\ V!CommitmentVerifyingKey = CommitmentVerifyingKey
    /\ V!Groth16Verifyingkey = Groth16Verifyingkey
    /\ V!Groth16Verifier = Groth16Verifier
    /\ V!Proof = Proof
BY DEF V!Points, Points, V!Encodings, Encodings, V!Scalars, Scalars,
       V!CommitmentVerifyingKey, CommitmentVerifyingKey,
       V!Groth16Verifyingkey, Groth16Verifyingkey,
       V!Groth16Verifier, Groth16Verifier, V!Proof, Proof

\* So is the statement.
LEMMA SameStatement ==
    /\ \A o : V!HasCommitment(o) <=> HasCommitment(o)
    /\ \A o : V!WellShaped(o) <=> WellShaped(o)
    /\ \A o : V!EquationHolds(o) <=> EquationHolds(o)
    /\ \A o : V!PokHolds(o) <=> PokHolds(o)
    /\ \A o, c : V!Outcome(o, c) = Outcome(o, c)
<1>1. /\ \A o : V!HasCommitment(o) <=> HasCommitment(o)
      /\ \A o : V!Wires(o) = Wires(o)
  BY DEF V!HasCommitment, HasCommitment, V!Wires, Wires
<1>2. \A o : V!WellShaped(o) <=> WellShaped(o)
  BY <1>1 DEF V!WellShaped, WellShaped
<1>3. \A a, ic, w, n : V!IsSum(a, ic, w, n) <=> IsSum(a, ic, w, n)
  BY SameData DEF V!IsSum, IsSum, V!ArePartialSums, ArePartialSums
<1>4. \A k, o : V!IsPreparedInput(k, o) <=> IsPreparedInput(k, o)
  BY <1>1, <1>3, SameData DEF V!IsPreparedInput, IsPreparedInput
<1>5. \A o : V!EquationHolds(o) <=> EquationHolds(o)
  BY <1>4, SameData DEF V!EquationHolds, EquationHolds
<1>6. \A o : V!PokHolds(o) <=> PokHolds(o)
  BY <1>1, SameData DEF V!PokHolds, PokHolds
<1>7. \A o, check, j : V!Refused(o, check, j) <=> Refused(o, check, j)
  BY DEF V!Refused, Refused
<1>8. \A o, check : V!Offences(o, check) = Offences(o, check)
  BY <1>1, <1>7 DEF V!Offences, Offences
<1>9. \A o, check : V!PrepareOutcome(o, check) = PrepareOutcome(o, check)
  BY <1>7, <1>8 DEF V!PrepareOutcome, PrepareOutcome, V!Min, Min
<1>10. \A o, c : V!Outcome(o, c) = Outcome(o, c)
  BY <1>5, <1>6, <1>9 DEF V!Outcome, Outcome
<1> QED BY <1>1, <1>2, <1>5, <1>6, <1>10

\* A step of the verifier, as Program takes it, is one of V.
LEMMA SameStep == Verifier!Step => V!Step
<1>1. Verifier!FirstColumn => V!FirstColumn
  BY DEF Verifier!FirstColumn, V!FirstColumn, Verifier!Return, V!Return,
         Verifier!Continue, V!Continue, Verifier!vk, V!vk
<1>2. /\ \A p : Verifier!Decodes(p) <=> V!Decodes(p)
      /\ \A p, q : Verifier!AddResult(p, q) = V!AddResult(p, q)
      /\ \A p, s, a : Verifier!MulAddResult(p, s, a) = V!MulAddResult(p, s, a)
      /\ \A p, s, a : Verifier!g1_mul_add(p, s, a) = V!g1_mul_add(p, s, a)
      /\ \A p, q : Verifier!g1_addition_be(p, q) = V!g1_addition_be(p, q)
      /\ Verifier!InputResult = V!InputResult
      /\ Verifier!CommitmentResult = V!CommitmentResult
  BY DEF Verifier!Decodes, V!Decodes, Verifier!Points, V!Points,
         Verifier!AddResult, V!AddResult, Verifier!MulAddResult, V!MulAddResult,
         Verifier!g1_mul_add, V!g1_mul_add,
         Verifier!g1_addition_be, V!g1_addition_be,
         Verifier!g1_multiplication_be, V!g1_multiplication_be,
         Verifier!InputResult, V!InputResult, Verifier!vk, V!vk,
         Verifier!is_less_than_bn254_field_size_be,
         V!is_less_than_bn254_field_size_be,
         Verifier!CommitmentResult, V!CommitmentResult,
         Verifier!NR_INPUTS, V!NR_INPUTS
<1>3. Verifier!InputColumn => V!InputColumn
  BY <1>2 DEF Verifier!InputColumn, V!InputColumn, Verifier!Return, V!Return,
         Verifier!Continue, V!Continue, Verifier!vk, V!vk,
         Verifier!NR_INPUTS, V!NR_INPUTS
<1>4. Verifier!EndLoop => V!EndLoop
  BY DEF Verifier!EndLoop, V!EndLoop, Verifier!Continue, V!Continue,
         Verifier!NR_INPUTS, V!NR_INPUTS
<1>5. Verifier!CommitmentColumn => V!CommitmentColumn
  BY <1>2 DEF Verifier!CommitmentColumn, V!CommitmentColumn,
         Verifier!Return, V!Return, Verifier!Continue, V!Continue,
         Verifier!vk, V!vk, Verifier!NR_INPUTS, V!NR_INPUTS
<1>6. Verifier!RawCommitment => V!RawCommitment
  BY <1>2 DEF Verifier!RawCommitment, V!RawCommitment,
         Verifier!Return, V!Return, Verifier!Continue, V!Continue
<1>7. Verifier!StorePrepared => V!StorePrepared
  BY DEF Verifier!StorePrepared, V!StorePrepared
<1>8. /\ \A p, q : Verifier!e(p, q) = V!e(p, q)
      /\ Verifier!PairingAccepts <=> V!PairingAccepts
      /\ Verifier!PokAccepts <=> V!PokAccepts
  BY <1>2 DEF Verifier!e, V!e, Verifier!PairingAccepts, V!PairingAccepts,
         Verifier!PairingOfFourIsOne, V!PairingOfFourIsOne,
         Verifier!PokAccepts, V!PokAccepts,
         Verifier!PairingOfTwoIsOne, V!PairingOfTwoIsOne, Verifier!vk, V!vk
<1>9. Verifier!Pairing => V!Pairing
  BY <1>8 DEF Verifier!Pairing, V!Pairing, Verifier!Return, V!Return,
         Verifier!Continue, V!Continue
<1>10. Verifier!verify_commitment_pok => V!verify_commitment_pok
  BY <1>8 DEF Verifier!verify_commitment_pok, V!verify_commitment_pok,
         Verifier!Return, V!Return, Verifier!PokResult, V!PokResult,
         Verifier!vk, V!vk
<1> QED BY <1>1, <1>3, <1>4, <1>5, <1>6, <1>7, <1>9, <1>10
        DEF Verifier!Step, V!Step

\* What V needs of the constants is what Program assumes of them.
LEMMA VerifierSteps ==
    /\ V!Init => V!IInv
    /\ V!IInv /\ [V!Next]_(V!vars) => V!IInv'
<1>1. V!Init => V!IInv
  BY V!InitIInv, SameData, OrderAssumption, ScalarAssumption, OffCurveAssumption,
     NoneAssumption, HashAssumption, Bsb22Assumption, CallsAssumption
     DEF V!Calls, Verifier!Calls
<1>2. V!IInv /\ [V!Next]_(V!vars) => V!IInv'
  BY V!NextIInv, SameData, OrderAssumption, ScalarAssumption, OffCurveAssumption,
     NoneAssumption, HashAssumption, Bsb22Assumption, CallsAssumption
     DEF V!Calls, Verifier!Calls
<1> QED BY <1>1, <1>2

-----------------------------------------------------------------------------
(***************************************************************************)
(* Instruction data.                                                       *)
(***************************************************************************)
IxData == [selector : 0 .. 255 \cup {None}, words : Seq(Words), ragged : 0 .. 31]

\* The shapes of the eight circuits.
LEMMA Shapes ==
    ASSUME NEW s \in Selectors
    PROVE  /\ nr_inputs(s) \in {1, 2, 4, 8}
           /\ HasBsb22(s) => Layout(s) = <<2, 4, 2, 2, 2>> /\ Len(Layout(s)) = 5
           /\ ~HasBsb22(s) => Layout(s) = <<2, 4, 2>> /\ Len(Layout(s)) = 3
           /\ Len(Layout(s)) \in {3, 5}
<1>1. s % 4 \in 0 .. 3
  BY DEF Selectors
<1>2. nr_inputs(s) \in {1, 2, 4, 8}
  BY <1>1 DEF nr_inputs
<1> QED BY <1>2 DEF Layout

\* Every selector is a byte.
LEMMA SelectorIsByte == Selectors \subseteq 0 .. 255
BY DEF Selectors

\* Where a field starts and ends.
LEMMA Starts ==
    /\ Start[1] = 0 /\ Start[2] = 2 /\ Start[3] = 6
    /\ Start[4] = 8 /\ Start[5] = 10 /\ Start[6] = 12
BY DEF Start

\* A part of a payload.
LEMMA Part ==
    ASSUME NEW w \in Seq(Words), NEW k \in Nat, NEW n \in Nat, k + n <= Len(w)
    PROVE  /\ SubSeq(w, k + 1, k + n) \in Seq(Words)
           /\ Len(SubSeq(w, k + 1, k + n)) = n
           /\ \A j \in 1 .. n : SubSeq(w, k + 1, k + n)[j] = w[k + j]
<1>1. \A j \in k + 1 .. k + n : w[j] \in Words
  OBVIOUS
<1>2. /\ SubSeq(w, k + 1, k + n) \in Seq(Words)
      /\ Len(SubSeq(w, k + 1, k + n))
            = IF k + 1 <= k + n THEN (k + n) - (k + 1) + 1 ELSE 0
      /\ \A j \in 1 .. (k + n) - (k + 1) + 1 :
             SubSeq(w, k + 1, k + n)[j] = w[(k + 1) + j - 1]
  BY <1>1, SubSeqProperties
<1>3. \A j \in 1 .. n : /\ j \in 1 .. (k + n) - (k + 1) + 1
                        /\ (k + 1) + j - 1 = k + j
  OBVIOUS
<1>4. ASSUME NEW j \in 1 .. n PROVE SubSeq(w, k + 1, k + n)[j] = w[k + j]
  BY <1>2, <1>3, Zenon
<1>5. (IF k + 1 <= k + n THEN (k + n) - (k + 1) + 1 ELSE 0) = n
  OBVIOUS
<1> QED BY <1>2, <1>4, <1>5

\* Two words in a row are an argument of FromG1.
LEMMA TwoWords ==
    ASSUME NEW w \in Seq(Words), NEW k \in Nat, k + 2 <= Len(w)
    PROVE  /\ SubSeq(w, k + 1, k + 2) = <<w[k + 1], w[k + 2]>>
           /\ SubSeq(w, k + 1, k + 2) \in Two
<1> DEFINE s == SubSeq(w, k + 1, k + 2)
           t == <<w[k + 1], w[k + 2]>>
<1>1. w[k + 1] \in Words /\ w[k + 2] \in Words
  OBVIOUS
<1>2. /\ s \in Seq(Words) /\ Len(s) = 2
      /\ \A j \in 1 .. 2 : s[j] = w[k + j]
  BY Part
<1>3. t \in Seq(Words) /\ Len(t) = 2 /\ t[1] = w[k + 1] /\ t[2] = w[k + 2]
  BY <1>1
<1> HIDE DEF s, t
<1>4. \A j \in 1 .. 2 : s[j] = t[j]
  BY <1>2, <1>3
<1>5. s = t
  BY <1>2, <1>3, <1>4, SeqEqual
<1> QED BY <1>1, <1>5 DEF s, t, Two

\* Four words in a row are one of FromG2.
LEMMA FourWords ==
    ASSUME NEW w \in Seq(Words), NEW k \in Nat, k + 4 <= Len(w)
    PROVE  /\ SubSeq(w, k + 1, k + 4) = <<w[k + 1], w[k + 2], w[k + 3], w[k + 4]>>
           /\ SubSeq(w, k + 1, k + 4) \in Four
<1> DEFINE s == SubSeq(w, k + 1, k + 4)
           t == <<w[k + 1], w[k + 2], w[k + 3], w[k + 4]>>
<1>1. /\ w[k + 1] \in Words /\ w[k + 2] \in Words
      /\ w[k + 3] \in Words /\ w[k + 4] \in Words
  OBVIOUS
<1>2. /\ s \in Seq(Words) /\ Len(s) = 4
      /\ \A j \in 1 .. 4 : s[j] = w[k + j]
  BY Part
<1>3. /\ t \in Seq(Words) /\ Len(t) = 4
      /\ t[1] = w[k + 1] /\ t[2] = w[k + 2] /\ t[3] = w[k + 3] /\ t[4] = w[k + 4]
  BY <1>1
<1> HIDE DEF s, t
<1>4. \A j \in 1 .. 4 : s[j] = t[j]
  BY <1>2, <1>3
<1>5. s = t
  BY <1>2, <1>3, <1>4, SeqEqual
<1> QED BY <1>1, <1>5 DEF s, t, Four

\* What well-formed data say is an object, with a commitment exactly for the
\* circuits that have one; and it says the fields where they lie.
LEMMA SaysType ==
    ASSUME NEW d \in IxData, WellFormed(d)
    PROVE  /\ Says(d) \in Groth16Verifier
           /\ HasCommitment(Says(d)) <=> HasBsb22(d.selector)
           /\ Says(d).proof_commitment_pok # None <=> HasBsb22(d.selector)
           /\ Says(d).verifyingkey = VkOf[d.selector]
           /\ VkOf[d.selector] \in Groth16Verifyingkey
           /\ Len(Says(d).public_inputs) = nr_inputs(d.selector)
           /\ Says(d).proof_a = FromG1[Field(d, 1)]
           /\ Says(d).proof_b = FromG2[Field(d, 2)]
           /\ Says(d).proof_c = FromG1[Field(d, 3)]
           /\ {Says(d).proof_a, Says(d).proof_b, Says(d).proof_c} \subseteq Encodings
           /\ HasBsb22(d.selector) =>
                 /\ Says(d).proof_commitment = FromG1[Field(d, 4)]
                 /\ Says(d).proof_commitment_pok = FromG1[Field(d, 5)]
                 /\ {Says(d).proof_commitment, Says(d).proof_commitment_pok}
                       \subseteq Encodings
           /\ ~HasBsb22(d.selector) =>
                 Says(d).proof_commitment = None /\ Says(d).proof_commitment_pok = None
<1> DEFINE w == d.words
           o == Says(d)
           n == nr_inputs(d.selector)
           at(j, K) == SubSeq(w, j, j + K - 1)
           x == [j \in 1 .. n |-> FromScalar[w[TailOf(d) + j]]]
<1>1. /\ w \in Seq(Words) /\ d.selector \in Selectors
      /\ n \in Nat /\ n > 0 /\ TailOf(d) \in Nat
      /\ Len(w) = TailOf(d) + n /\ TailOf(d) >= 8
      /\ HasBsb22(d.selector) => TailOf(d) = 12
  BY Shapes DEF IxData, WellFormed, TailOf
<1>2. VkOf[d.selector] \in Groth16Verifyingkey
  BY <1>1, FixturesAssumption
<1>3. /\ Field(d, 1) = at(1, 2) /\ Field(d, 2) = at(3, 4) /\ Field(d, 3) = at(7, 2)
      /\ Field(d, 4) = at(9, 2) /\ Field(d, 5) = at(11, 2)
  <2>1. /\ Start[1] + 1 = 1 /\ Start[2] = 1 + 2 - 1
        /\ Start[2] + 1 = 3 /\ Start[3] = 3 + 4 - 1
        /\ Start[3] + 1 = 7 /\ Start[4] = 7 + 2 - 1
        /\ Start[4] + 1 = 9 /\ Start[5] = 9 + 2 - 1
        /\ Start[5] + 1 = 11 /\ Start[6] = 11 + 2 - 1
    BY Starts
  <2>2. \A j : Field(d, j) = SubSeq(w, Start[j] + 1, Start[j + 1])
    BY DEF Field
  <2>3. /\ 1 + 1 = 2 /\ 2 + 1 = 3 /\ 3 + 1 = 4 /\ 4 + 1 = 5 /\ 5 + 1 = 6
    OBVIOUS
  <2> QED BY <2>1, <2>2, <2>3, Zenon
<1>4. /\ at(1, 2) \in Two /\ at(3, 4) \in Four /\ at(7, 2) \in Two
      /\ HasBsb22(d.selector) => at(9, 2) \in Two /\ at(11, 2) \in Two
  <2>1. at(1, 2) \in Two
    <3>1. 0 + 2 <= Len(w) /\ 0 \in Nat BY <1>1
    <3>2. SubSeq(w, 0 + 1, 0 + 2) \in Two BY <1>1, <3>1, TwoWords
    <3>3. 0 + 1 = 1 /\ 0 + 2 = 1 + 2 - 1 OBVIOUS
    <3> QED BY <3>2, <3>3, Zenon
  <2>2. at(3, 4) \in Four
    <3>1. 2 + 4 <= Len(w) /\ 2 \in Nat BY <1>1
    <3>2. SubSeq(w, 2 + 1, 2 + 4) \in Four BY <1>1, <3>1, FourWords
    <3>3. 2 + 1 = 3 /\ 2 + 4 = 3 + 4 - 1 OBVIOUS
    <3> QED BY <3>2, <3>3, Zenon
  <2>3. at(7, 2) \in Two
    <3>1. 6 + 2 <= Len(w) /\ 6 \in Nat BY <1>1
    <3>2. SubSeq(w, 6 + 1, 6 + 2) \in Two BY <1>1, <3>1, TwoWords
    <3>3. 6 + 1 = 7 /\ 6 + 2 = 7 + 2 - 1 OBVIOUS
    <3> QED BY <3>2, <3>3, Zenon
  <2>4. HasBsb22(d.selector) => at(9, 2) \in Two
    <3>1. SUFFICES ASSUME HasBsb22(d.selector) PROVE at(9, 2) \in Two
      OBVIOUS
    <3>2. 8 + 2 <= Len(w) /\ 8 \in Nat BY <1>1, <3>1
    <3>3. SubSeq(w, 8 + 1, 8 + 2) \in Two BY <1>1, <3>2, TwoWords
    <3>4. 8 + 1 = 9 /\ 8 + 2 = 9 + 2 - 1 OBVIOUS
    <3> QED BY <3>3, <3>4, Zenon
  <2>5. HasBsb22(d.selector) => at(11, 2) \in Two
    <3>1. SUFFICES ASSUME HasBsb22(d.selector) PROVE at(11, 2) \in Two
      OBVIOUS
    <3>2. 10 + 2 <= Len(w) /\ 10 \in Nat BY <1>1, <3>1
    <3>3. SubSeq(w, 10 + 1, 10 + 2) \in Two BY <1>1, <3>2, TwoWords
    <3>4. 10 + 1 = 11 /\ 10 + 2 = 11 + 2 - 1 OBVIOUS
    <3> QED BY <3>3, <3>4, Zenon
  <2> QED BY <2>1, <2>2, <2>3, <2>4, <2>5
<1>5. x \in Seq(Scalars) /\ Len(x) = n
  <2>1. ASSUME NEW j \in 1 .. n PROVE FromScalar[w[TailOf(d) + j]] \in Scalars
    <3>1. w[TailOf(d) + j] \in Words
      BY <1>1
    <3> QED BY <3>1, WordsAssumption
  <2> QED BY <1>1, <2>1
<1>6. /\ o.proof_a = FromG1[at(1, 2)] /\ o.proof_b = FromG2[at(3, 4)]
      /\ o.proof_c = FromG1[at(7, 2)] /\ o.public_inputs = x
      /\ o.verifyingkey = VkOf[d.selector]
      /\ o.proof_commitment
            = (IF HasBsb22(d.selector) THEN FromG1[at(9, 2)] ELSE None)
      /\ o.proof_commitment_pok
            = (IF HasBsb22(d.selector) THEN FromG1[at(11, 2)] ELSE None)
  BY DEF Says
<1> HIDE DEF x, n, w, o, at
<1>7. /\ \A q \in Two : FromG1[q] \in Encodings
      /\ \A q \in Four : FromG2[q] \in Encodings
      /\ None \notin Encodings
  BY WordsAssumption, NoneAssumption
<1>8. /\ {o.proof_a, o.proof_b, o.proof_c} \subseteq Encodings
      /\ HasBsb22(d.selector) =>
            {o.proof_commitment, o.proof_commitment_pok} \subseteq Encodings
  BY <1>4, <1>6, <1>7
<1>9. o \in Groth16Verifier
  <2>1. o = [proof_a |-> o.proof_a, proof_b |-> o.proof_b, proof_c |-> o.proof_c,
             public_inputs |-> o.public_inputs, verifyingkey |-> o.verifyingkey,
             proof_commitment |-> o.proof_commitment,
             proof_commitment_pok |-> o.proof_commitment_pok]
    BY DEF Says, o
  <2>2. /\ o.public_inputs \in Seq(Scalars) /\ o.verifyingkey \in Groth16Verifyingkey
        /\ o.proof_commitment \in Encodings \cup {None}
        /\ o.proof_commitment_pok \in Encodings \cup {None}
    BY <1>2, <1>5, <1>6, <1>8
  <2> QED BY <1>8, <2>1, <2>2 DEF Groth16Verifier
<1>10. /\ HasCommitment(o) <=> HasBsb22(d.selector)
       /\ o.proof_commitment_pok # None <=> HasBsb22(d.selector)
  BY <1>6, <1>7, <1>8 DEF HasCommitment
<1> QED BY <1>2, <1>3, <1>5, <1>6, <1>8, <1>9, <1>10 DEF o, n, w

-----------------------------------------------------------------------------
(***************************************************************************)
(* The constructors.                                                       *)
(***************************************************************************)
\* Once all fields are taken, the inputs fit exactly if the data are well
\* formed, and what the constructor is given is what the data say.
LEMMA AllTaken ==
    ASSUME IInv, stage = "take", Len(fields) = Len(Layout(ix.selector))
    PROVE  /\ InputsFit <=> WellFormed(ix)
           /\ WellFormed(ix) =>
                 /\ proof.a = Says(ix).proof_a /\ proof.b = Says(ix).proof_b
                 /\ proof.c = Says(ix).proof_c
                 /\ HasBsb22(ix.selector) =>
                       /\ proof.commitment = Says(ix).proof_commitment
                       /\ proof.pok = Says(ix).proof_commitment_pok
                 /\ public_inputs = Says(ix).public_inputs
<1> DEFINE s == ix.selector
           n == nr_inputs(s)
           w == ix.words
           t == TailOf(ix)
<1>1. /\ ix \in IxData /\ s \in Selectors /\ w \in Seq(Words) /\ Len(w) \in Nat
      /\ n \in Nat /\ n > 0 /\ ix.ragged \in 0 .. 31
  <2>1. ix \in IxData /\ s \in Selectors
    BY DEF IInv, TypeOK, IxData
  <2>2. n \in {1, 2, 4, 8}
    BY <2>1, Shapes
  <2> QED BY <2>1, <2>2 DEF IxData
<1>2. /\ t = Start[Len(fields) + 1] /\ t \in Nat /\ t <= Len(w)
      /\ rest = SubSeq(w, t + 1, Len(w))
      /\ \A j \in 1 .. Len(fields) : fields[j] = Field(ix, j)
      /\ Len(fields) = IF HasBsb22(s) THEN 5 ELSE 3
  <2>1. Len(fields) = IF HasBsb22(s) THEN 5 ELSE 3
    BY <1>1, Shapes
  <2>2. t = Start[Len(fields) + 1] /\ t \in Nat
    BY <2>1, Starts DEF TailOf
  <2>3. /\ Start[Len(fields) + 1] <= Len(w)
        /\ rest = SubSeq(w, Start[Len(fields) + 1] + 1, Len(w))
        /\ \A j \in 1 .. Len(fields) : fields[j] = Field(ix, j)
    BY DEF IInv, TypeOK
  <2> QED BY <2>1, <2>2, <2>3
<1>3. Len(rest) = Len(w) - t /\ \A j \in 1 .. Len(w) - t : rest[j] = w[t + j]
  <2> DEFINE m == Len(w) - t
  <2>0. /\ w \in Seq(Words) /\ Len(w) \in Nat /\ t \in Nat /\ t <= Len(w)
        /\ rest = SubSeq(w, t + 1, Len(w))
    BY <1>1, <1>2
  <2> HIDE DEF t, w
  <2>1. m \in Nat /\ t + m = Len(w) /\ t + m <= Len(w)
    BY <2>0
  <2> HIDE DEF m
  <2>2. /\ Len(SubSeq(w, t + 1, t + m)) = m
        /\ \A j \in 1 .. m : SubSeq(w, t + 1, t + m)[j] = w[t + j]
    BY <2>0, <2>1, Part
  <2> QED BY <2>0, <2>1, <2>2 DEF m
<1>4. InputsFit <=> WellFormed(ix)
  <2>1. Len(rest) = n <=> Len(w) = t + n
    BY <1>1, <1>2, <1>3
  <2> QED BY <1>1, <2>1 DEF InputsFit, WellFormed
<1>5. ASSUME WellFormed(ix)
      PROVE  /\ proof.a = Says(ix).proof_a /\ proof.b = Says(ix).proof_b
             /\ proof.c = Says(ix).proof_c
             /\ HasBsb22(s) =>
                   /\ proof.commitment = Says(ix).proof_commitment
                   /\ proof.pok = Says(ix).proof_commitment_pok
             /\ public_inputs = Says(ix).public_inputs
  <2>1. /\ fields[1] = Field(ix, 1) /\ fields[2] = Field(ix, 2)
        /\ fields[3] = Field(ix, 3)
        /\ HasBsb22(s) => fields[4] = Field(ix, 4) /\ fields[5] = Field(ix, 5)
    BY <1>2
  <2>2. /\ proof.a = FromG1[Field(ix, 1)] /\ proof.b = FromG2[Field(ix, 2)]
        /\ proof.c = FromG1[Field(ix, 3)]
        /\ HasBsb22(s) => /\ proof.commitment = FromG1[Field(ix, 4)]
                          /\ proof.pok = FromG1[Field(ix, 5)]
    BY <2>1 DEF proof
  <2>3. public_inputs = [j \in 1 .. n |-> FromScalar[w[t + j]]]
    <3>1. Len(w) - t = n
      <4>1. Len(w) = t + n BY <1>5 DEF WellFormed
      <4>2. t \in Nat /\ n \in Nat BY <1>1, <1>2
      <4> HIDE DEF w, t, n
      <4> QED BY <4>1, <4>2
    <3>2. \A j \in 1 .. n : rest[j] = w[t + j]
      BY <1>3, <3>1
    <3> QED BY <3>2 DEF public_inputs
  <2>4. Says(ix).public_inputs = [j \in 1 .. n |-> FromScalar[w[t + j]]]
    BY DEF Says
  <2> QED BY <1>1, <1>5, <2>2, <2>3, <2>4, SaysType
<1> QED BY <1>4, <1>5

\* A constructor of the program is a constructor of V, and its object is what
\* the data say.
LEMMA ConstructorStep ==
    ASSUME IInv, Construct, WellFormed(ix)
    PROVE  /\ V!Next
           /\ UNCHANGED <<call, pc>>
           /\ IF WellShaped(Says(ix))
              THEN self' = Says(ix) /\ res' = "Ok"
              ELSE self' = None /\ res' = ConstructorOutcome(Says(ix))
<1> DEFINE o == Says(ix)
           k == VkOf[ix.selector]
           x == public_inputs
<1>1. /\ stage = "take" /\ Len(fields) = Len(Layout(ix.selector))
      /\ self = None /\ ix \in IxData /\ ix.selector \in Selectors
  BY DEF Construct, IInv, TypeOK, Untouched, IxData
<1>2. /\ InputsFit
      /\ proof.a = o.proof_a /\ proof.b = o.proof_b /\ proof.c = o.proof_c
      /\ HasBsb22(ix.selector) => /\ proof.commitment = o.proof_commitment
                                  /\ proof.pok = o.proof_commitment_pok
      /\ x = o.public_inputs
  BY <1>1, AllTaken
<1>3. /\ o \in Groth16Verifier /\ k \in Groth16Verifyingkey
      /\ o.verifyingkey = k
      /\ o.proof_a \in Encodings /\ o.proof_b \in Encodings /\ o.proof_c \in Encodings
      /\ HasCommitment(o) <=> HasBsb22(ix.selector)
      /\ o.proof_commitment_pok # None <=> HasBsb22(ix.selector)
      /\ HasBsb22(ix.selector) => /\ o.proof_commitment \in Encodings
                                  /\ o.proof_commitment_pok \in Encodings
      /\ ~HasBsb22(ix.selector) => /\ o.proof_commitment = None
                                   /\ o.proof_commitment_pok = None
  BY <1>1, SaysType
<1>4. /\ x \in Seq(Scalars) /\ Len(x) \in Nat
      /\ k.vk_ic \in Seq(Encodings) /\ Len(k.vk_ic) \in Nat
  <2>1. x \in Seq(Scalars) /\ k.vk_ic \in Seq(Encodings)
    BY <1>2, <1>3 DEF Groth16Verifier, Groth16Verifyingkey
  <2> QED BY <2>1
<1>5. Len(Wires(o)) = IF HasBsb22(ix.selector) THEN Len(x) + 1 ELSE Len(x)
  <2>1. CASE HasBsb22(ix.selector)
    <3>1. HashToField[o.proof_commitment] \in Points
      BY <1>3, <2>1, HashAssumption
    <3>2. HashToField[o.proof_commitment] \in Int /\ x \in Seq(Int)
      BY <1>4, <3>1, OrderAssumption, ScalarAssumption DEF Points, Scalars
    <3>3. Wires(o) = Append(x, HashToField[o.proof_commitment])
      BY <1>2, <1>3, <2>1 DEF Wires
    <3>4. Len(Append(x, HashToField[o.proof_commitment])) = Len(x) + 1
      BY <3>2, AppendProperties
    <3> QED BY <2>1, <3>3, <3>4
  <2>2. CASE ~HasBsb22(ix.selector)
    BY <1>2, <1>3, <2>2 DEF Wires
  <2> QED BY <2>1, <2>2
<1> HIDE DEF o, k, x
<1>6. CASE HasBsb22(ix.selector)
  <2> DEFINE result == Verifier!NewWithCommitmentResult(x, k)
             q == [a |-> proof.a, b |-> proof.b, c |-> proof.c,
                   commitment |-> proof.commitment, pok |-> proof.pok]
  <2>1. Verifier!NewWithCommitment(proof, x, k)
    BY <1>2, <1>6 DEF Construct, x, k
  <2>2. /\ res' = result
        /\ self' = IF result = "Ok" THEN o ELSE None
        /\ UNCHANGED <<call, pc>>
    <3>1. Verifier!Object(proof, x, k, proof.commitment, proof.pok)
          = [proof_a |-> o.proof_a, proof_b |-> o.proof_b, proof_c |-> o.proof_c,
             public_inputs |-> o.public_inputs, verifyingkey |-> o.verifyingkey,
             proof_commitment |-> o.proof_commitment,
             proof_commitment_pok |-> o.proof_commitment_pok]
      BY <1>2, <1>3, <1>6 DEF Verifier!Object
    <3>2. o = [proof_a |-> o.proof_a, proof_b |-> o.proof_b, proof_c |-> o.proof_c,
             public_inputs |-> o.public_inputs, verifyingkey |-> o.verifyingkey,
             proof_commitment |-> o.proof_commitment,
             proof_commitment_pok |-> o.proof_commitment_pok]
      BY <1>3 DEF Groth16Verifier
    <3> QED BY <2>1, <3>1, <3>2 DEF Verifier!NewWithCommitment, Verifier!Construct
  <2>3. /\ WellShaped(o) => result = "Ok"
        /\ ~WellShaped(o) => result # "Ok" /\ result = ConstructorOutcome(o)
    BY <1>2, <1>3, <1>4, <1>5, <1>6
       DEF Verifier!NewWithCommitmentResult, WellShaped, ConstructorOutcome,
           HasCommitment
  <2>4. V!NewWithCommitment(q, x, k)
    BY <2>1 DEF Verifier!NewWithCommitment, V!NewWithCommitment,
                Verifier!Construct, V!Construct,
                Verifier!NewWithCommitmentResult, V!NewWithCommitmentResult,
                Verifier!Object, V!Object,
                Verifier!Identity, V!Identity
  <2>5. q \in Proof
    BY <1>2, <1>3, <1>6 DEF Proof
  <2>6. V!Next
    <3>1. self = None /\ \E p \in Proof, y \in Seq(Scalars), l \in Groth16Verifyingkey :
                            V!New(p, y, l) \/ V!NewWithCommitment(p, y, l)
      BY <1>1, <1>3, <1>4, <2>4, <2>5
    <3> QED BY <3>1 DEF V!Next
  <2> HIDE DEF result
  <2> QED BY <2>2, <2>3, <2>6 DEF o
<1>7. CASE ~HasBsb22(ix.selector)
  <2> DEFINE result == Verifier!NewResult(x, k)
             q == [a |-> proof.a, b |-> proof.b, c |-> proof.c,
                   commitment |-> proof.a, pok |-> proof.a]
  <2>1. Verifier!New(proof, x, k)
    BY <1>2, <1>7 DEF Construct, x, k
  <2>2. /\ res' = result
        /\ self' = IF result = "Ok" THEN o ELSE None
        /\ UNCHANGED <<call, pc>>
    <3>1. Verifier!Object(proof, x, k, None, None)
          = [proof_a |-> o.proof_a, proof_b |-> o.proof_b, proof_c |-> o.proof_c,
             public_inputs |-> o.public_inputs, verifyingkey |-> o.verifyingkey,
             proof_commitment |-> o.proof_commitment,
             proof_commitment_pok |-> o.proof_commitment_pok]
      BY <1>2, <1>3, <1>7 DEF Verifier!Object
    <3>2. o = [proof_a |-> o.proof_a, proof_b |-> o.proof_b, proof_c |-> o.proof_c,
             public_inputs |-> o.public_inputs, verifyingkey |-> o.verifyingkey,
             proof_commitment |-> o.proof_commitment,
             proof_commitment_pok |-> o.proof_commitment_pok]
      BY <1>3 DEF Groth16Verifier
    <3> QED BY <2>1, <3>1, <3>2 DEF Verifier!New, Verifier!Construct
  <2>3. /\ WellShaped(o) => result = "Ok"
        /\ ~WellShaped(o) => result # "Ok" /\ result = ConstructorOutcome(o)
    BY <1>2, <1>3, <1>4, <1>5, <1>7
       DEF Verifier!NewResult, WellShaped, ConstructorOutcome, HasCommitment
  <2>4. V!New(q, x, k)
    BY <2>1 DEF Verifier!New, V!New, Verifier!Construct, V!Construct,
                Verifier!NewResult, V!NewResult, Verifier!Object, V!Object,
                Verifier!Identity, V!Identity
  <2>5. q \in Proof
    BY <1>2, <1>3 DEF Proof
  <2>6. V!Next
    <3>1. self = None /\ \E p \in Proof, y \in Seq(Scalars), l \in Groth16Verifyingkey :
                            V!New(p, y, l) \/ V!NewWithCommitment(p, y, l)
      BY <1>1, <1>3, <1>4, <2>4, <2>5
    <3> QED BY <3>1 DEF V!Next
  <2> HIDE DEF result
  <2> QED BY <2>2, <2>3, <2>6 DEF o
<1> QED BY <1>6, <1>7

-----------------------------------------------------------------------------
(***************************************************************************)
(* The data of build_ix_data.                                              *)
(***************************************************************************)
\* A point of G1 is written in two words, one of G2 in four.
LEMMA TwoIsSequence ==
    ASSUME NEW a \in Two
    PROVE  a \in Seq(Words) /\ Len(a) = 2 /\ a = <<a[1], a[2]>>
<1>1. a[1] \in Words /\ a[2] \in Words /\ a = <<a[1], a[2]>>
  BY DEF Two
<1>2. <<a[1], a[2]>> \in Seq(Words) /\ Len(<<a[1], a[2]>>) = 2
  BY <1>1
<1> QED BY <1>1, <1>2, Zenon

\* The four words of a point of G2 are a payload, too.
LEMMA FourIsSequence ==
    ASSUME NEW a \in Four
    PROVE  a \in Seq(Words) /\ Len(a) = 4 /\ a = <<a[1], a[2], a[3], a[4]>>
<1>1. /\ a[1] \in Words /\ a[2] \in Words /\ a[3] \in Words /\ a[4] \in Words
      /\ a = <<a[1], a[2], a[3], a[4]>>
  BY DEF Four
<1>2. /\ <<a[1], a[2], a[3], a[4]>> \in Seq(Words)
      /\ Len(<<a[1], a[2], a[3], a[4]>>) = 4
  BY <1>1
<1> QED BY <1>1, <1>2, Zenon

\* Where the words of two payloads are in their concatenation.
LEMMA Concatenation ==
    ASSUME NEW s \in Seq(Words), NEW t \in Seq(Words)
    PROVE  /\ s \o t \in Seq(Words) /\ Len(s \o t) = Len(s) + Len(t)
           /\ \A j \in 1 .. Len(s) : (s \o t)[j] = s[j]
           /\ \A j \in 1 .. Len(t) : (s \o t)[Len(s) + j] = t[j]
<1> DEFINE n == Len(s)
           m == Len(t)
<1>0. n \in Nat /\ m \in Nat
  OBVIOUS
<1>1. /\ s \o t \in Seq(Words) /\ Len(s \o t) = n + m
      /\ \A j \in 1 .. n + m : (s \o t)[j] = IF j <= n THEN s[j] ELSE t[j - n]
  BY ConcatProperties
<1> HIDE DEF n, m
<1>2. \A j \in 1 .. n : (s \o t)[j] = s[j]
  <2>1. \A j \in 1 .. n : j \in 1 .. n + m /\ j <= n
    BY <1>0
  <2> QED BY <1>1, <2>1, Zenon
<1>3. \A j \in 1 .. m : (s \o t)[n + j] = t[j]
  <2>1. \A j \in 1 .. m : n + j \in 1 .. n + m /\ ~(n + j <= n) /\ (n + j) - n = j
    BY <1>0
  <2> QED BY <1>1, <2>1, Zenon
<1> QED BY <1>1, <1>2, <1>3 DEF n, m

\* negate_g1_be answers with an encoding, of a point for a point.
LEMMA NegationType ==
    ASSUME NEW p \in Encodings
    PROVE  /\ negate_g1_be(p) \in Encodings
           /\ negate_g1_be(p) \in Points <=> p \in Points
           /\ p \in Points => negate_g1_be(p) = IF p = 0 THEN 0 ELSE r - p
<1>1. r \in Nat /\ r > 1 /\ OffCurve \notin Int
  BY OrderAssumption, OffCurveAssumption
<1>2. CASE p = OffCurve
  BY <1>1, <1>2 DEF negate_g1_be, Encodings, Points
<1>3. CASE p # OffCurve
  <2>1. p \in 0 .. r - 1
    BY <1>3 DEF Encodings, Points
  <2>2. (r - p) % r = IF p = 0 THEN 0 ELSE r - p
    <3>1. CASE p = 0
      <4>1. r % r = 0 BY <1>1
      <4> QED BY <1>1, <3>1, <4>1
    <3>2. CASE p # 0
      <4> DEFINE y == r - p
      <4>1. y \in 0 .. r - 1 BY <1>1, <2>1, <3>2
      <4> HIDE DEF y
      <4>2. y % r = y BY <1>1, <4>1
      <4> QED BY <3>2, <4>2 DEF y
    <3> QED BY <3>1, <3>2
  <2>3. negate_g1_be(p) = IF p = 0 THEN 0 ELSE r - p
    BY <1>3, <2>2 DEF negate_g1_be
  <2>4. negate_g1_be(p) \in 0 .. r - 1
    BY <1>1, <2>1, <2>3
  <2> QED BY <2>1, <2>3, <2>4 DEF Encodings, Points
<1> QED BY <1>2, <1>3

\* What build_ix_data sends is well formed, and each field says what the
\* fixture has: the negated A, B, C, the commitment and its proof, the inputs.
LEMMA BuiltData ==
    ASSUME NEW f \in Fixtures
    PROVE  /\ build_ix_data(f) \in IxData
           /\ WellFormed(build_ix_data(f))
           /\ build_ix_data(f).selector = f.selector
           /\ f.selector \in Selectors /\ f.proof \in Proof
           /\ Len(build_ix_data(f).words) >= 9
           /\ HasBsb22(f.selector) => Len(build_ix_data(f).words) >= 13
           /\ Field(build_ix_data(f), 1) = ToG1[negate_g1_be(f.proof.a)]
           /\ Field(build_ix_data(f), 2) = ToG2[f.proof.b]
           /\ Field(build_ix_data(f), 3) = ToG1[f.proof.c]
<1> DEFINE s == f.selector
           n == nr_inputs(s)
           d == build_ix_data(f)
           w == d.words
           A == ToG1[negate_g1_be(f.proof.a)]
           B == ToG2[f.proof.b]
           C == ToG1[f.proof.c]
           M == IF HasBsb22(s) THEN ToG1[f.proof.commitment] \o ToG1[f.proof.pok]
                               ELSE <<>>
           X == InputWords(f.inputs)
           m == IF HasBsb22(s) THEN 4 ELSE 0
<1>1. /\ s \in Selectors /\ f.proof \in Proof /\ f.inputs \in Seq(Scalars)
      /\ Len(f.inputs) = n /\ n \in {1, 2, 4, 8} /\ n \in Nat
      /\ f.proof.a \in Encodings /\ f.proof.b \in Encodings /\ f.proof.c \in Encodings
      /\ f.proof.commitment \in Encodings /\ f.proof.pok \in Encodings
  <2>1. /\ s \in Selectors /\ f.proof \in Proof /\ f.inputs \in Seq(Scalars)
        /\ Len(f.inputs) = n
    BY FixturesAssumption
  <2>2. n \in {1, 2, 4, 8}
    BY <2>1, Shapes
  <2> QED BY <2>1, <2>2 DEF Proof
<1>2. /\ A \in Two /\ B \in Four /\ C \in Two
      /\ ToG1[f.proof.commitment] \in Two /\ ToG1[f.proof.pok] \in Two
  BY <1>1, NegationType, WordsAssumption
<1>3. /\ A \in Seq(Words) /\ Len(A) = 2 /\ A = <<A[1], A[2]>>
      /\ B \in Seq(Words) /\ Len(B) = 4 /\ B = <<B[1], B[2], B[3], B[4]>>
      /\ C \in Seq(Words) /\ Len(C) = 2 /\ C = <<C[1], C[2]>>
  BY <1>2, TwoIsSequence, FourIsSequence
<1>4. M \in Seq(Words) /\ Len(M) = m /\ m \in Nat
  <2>1. CASE HasBsb22(s)
    <3> DEFINE a == ToG1[f.proof.commitment]
               b == ToG1[f.proof.pok]
    <3>1. a \in Seq(Words) /\ Len(a) = 2 /\ b \in Seq(Words) /\ Len(b) = 2
      BY <1>2, TwoIsSequence
    <3>2. M = a \o b /\ m = 4
      BY <2>1
    <3> HIDE DEF a, b, M, m
    <3>3. a \o b \in Seq(Words) /\ Len(a \o b) = Len(a) + Len(b)
      BY <3>1, Concatenation, Zenon
    <3>4. Len(a) + Len(b) = 4
      BY <3>1
    <3> QED BY <3>2, <3>3, <3>4
  <2>2. CASE ~HasBsb22(s)
    <3>1. M = <<>> /\ m = 0
      BY <2>2
    <3> HIDE DEF M, m
    <3> QED BY <3>1
  <2> QED BY <2>1, <2>2
<1>5. X \in Seq(Words) /\ Len(X) = n
  <2>1. \A j \in 1 .. n : ToScalar[f.inputs[j]] \in Words
    BY <1>1, WordsAssumption
  <2>2. X = [j \in 1 .. n |-> ToScalar[f.inputs[j]]]
    BY <1>1 DEF InputWords
  <2> QED BY <1>1, <2>1, <2>2
<1>6. w = A \o B \o C \o M \o X /\ d.selector = s /\ d.ragged = 0
      /\ d = [selector |-> s, ragged |-> 0, words |-> w]
  BY DEF build_ix_data
<1> HIDE DEF A, B, C, M, X, w, d, n, m
<1> DEFINE P == A \o B
           Q == P \o C
           R == Q \o M
<1>7. /\ P \in Seq(Words) /\ Len(P) = 6
      /\ \A j \in 1 .. 2 : P[j] = A[j]
      /\ \A j \in 1 .. 4 : P[2 + j] = B[j]
  <2>1. /\ P \in Seq(Words) /\ Len(P) = Len(A) + Len(B)
        /\ \A j \in 1 .. Len(A) : P[j] = A[j]
        /\ \A j \in 1 .. Len(B) : P[Len(A) + j] = B[j]
    BY <1>3, Concatenation, Zenon
  <2> HIDE DEF P
  <2> QED BY <1>3, <2>1
<1> HIDE DEF P
<1>8. /\ Q \in Seq(Words) /\ Len(Q) = 8
      /\ \A j \in 1 .. 6 : Q[j] = P[j]
      /\ \A j \in 1 .. 2 : Q[6 + j] = C[j]
  <2>1. /\ Q \in Seq(Words) /\ Len(Q) = Len(P) + Len(C)
        /\ \A j \in 1 .. Len(P) : Q[j] = P[j]
        /\ \A j \in 1 .. Len(C) : Q[Len(P) + j] = C[j]
    BY <1>3, <1>7, Concatenation, Zenon
  <2> HIDE DEF Q
  <2> QED BY <1>3, <1>7, <2>1
<1> HIDE DEF Q
<1>9. /\ R \in Seq(Words) /\ Len(R) = 8 + m
      /\ \A j \in 1 .. 8 : R[j] = Q[j]
  <2>1. /\ R \in Seq(Words) /\ Len(R) = Len(Q) + Len(M)
        /\ \A j \in 1 .. Len(Q) : R[j] = Q[j]
    BY <1>4, <1>8, Concatenation, Zenon
  <2> HIDE DEF R
  <2> QED BY <1>4, <1>8, <2>1
<1>10. /\ w \in Seq(Words) /\ Len(w) = 8 + m + n
       /\ \A j \in 1 .. 8 + m : w[j] = R[j]
  <2>0. w = R \o X
    BY <1>6 DEF P, Q
  <2> HIDE DEF R
  <2>1. /\ w \in Seq(Words) /\ Len(w) = Len(R) + Len(X)
        /\ \A j \in 1 .. Len(R) : w[j] = R[j]
    BY <1>5, <1>9, <2>0, Concatenation, Zenon
  <2> QED BY <1>1, <1>4, <1>5, <1>9, <2>1
<1> HIDE DEF R
<1>11. \A j \in 1 .. 8 : w[j] = Q[j]
  <2>1. \A j \in 1 .. 8 : j \in 1 .. 8 + m BY <1>4
  <2> QED BY <1>9, <1>10, <2>1, Zenon
<1>12. /\ w[1] = A[1] /\ w[2] = A[2]
       /\ w[3] = B[1] /\ w[4] = B[2] /\ w[5] = B[3] /\ w[6] = B[4]
       /\ w[7] = C[1] /\ w[8] = C[2]
  <2>1. w[1] = A[1] /\ w[2] = A[2]
    BY <1>7, <1>8, <1>11
  <2>2. \A j \in 1 .. 4 : w[2 + j] = B[j]
    BY <1>7, <1>8, <1>11
  <2>3. \A j \in 1 .. 2 : w[6 + j] = C[j]
    BY <1>8, <1>11
  <2> QED BY <2>1, <2>2, <2>3
<1>13. d \in IxData /\ WellFormed(d) /\ Len(w) >= 9 /\ (HasBsb22(s) => Len(w) >= 13)
  <2>1. m = IF HasBsb22(s) THEN 4 ELSE 0
    BY DEF m
  <2>2. s \in 0 .. 255
    BY <1>1, SelectorIsByte
  <2>3. d \in IxData
    BY <1>6, <1>10, <2>2 DEF IxData
  <2>4. TailOf(d) = 8 + m
    BY <1>6, <2>1 DEF TailOf
  <2>5. Len(w) = TailOf(d) + n
    BY <1>10, <2>4
  <2>6. WellFormed(d)
    BY <1>1, <1>6, <2>5 DEF WellFormed, n, w
  <2>7. Len(w) >= 9 /\ (HasBsb22(s) => Len(w) >= 13)
    BY <1>1, <1>10, <2>1
  <2> QED BY <2>3, <2>6, <2>7
<1>14. Len(w) \in Nat
  BY <1>10
<1>15. Field(d, 1) = A /\ Field(d, 2) = B /\ Field(d, 3) = C
  <2>1. /\ Field(d, 1) = SubSeq(w, 0 + 1, 0 + 2)
        /\ Field(d, 2) = SubSeq(w, 2 + 1, 2 + 4)
        /\ Field(d, 3) = SubSeq(w, 6 + 1, 6 + 2)
    <3>1. /\ Start[1] + 1 = 0 + 1 /\ Start[2] = 0 + 2 /\ 1 + 1 = 2
          /\ Start[2] + 1 = 2 + 1 /\ Start[3] = 2 + 4 /\ 2 + 1 = 3
          /\ Start[3] + 1 = 6 + 1 /\ Start[4] = 6 + 2 /\ 3 + 1 = 4
      BY Starts
    <3>2. \A j : Field(d, j) = SubSeq(w, Start[j] + 1, Start[j + 1])
      BY DEF Field, w
    <3> QED BY <3>1, <3>2, Zenon
  <2>2. 0 + 2 <= Len(w) /\ 2 + 4 <= Len(w) /\ 6 + 2 <= Len(w)
    BY <1>13, <1>14
  <2>3. SubSeq(w, 0 + 1, 0 + 2) = <<w[0 + 1], w[0 + 2]>>
    BY <1>10, <2>2, TwoWords
  <2>4. SubSeq(w, 2 + 1, 2 + 4) = <<w[2 + 1], w[2 + 2], w[2 + 3], w[2 + 4]>>
    BY <1>10, <2>2, FourWords
  <2>5. SubSeq(w, 6 + 1, 6 + 2) = <<w[6 + 1], w[6 + 2]>>
    BY <1>10, <2>2, TwoWords
  <2>6. /\ 0 + 1 = 1 /\ 0 + 2 = 2 /\ 2 + 1 = 3 /\ 2 + 2 = 4 /\ 2 + 3 = 5 /\ 2 + 4 = 6
        /\ 6 + 1 = 7 /\ 6 + 2 = 8
    OBVIOUS
  <2>7. /\ SubSeq(w, 0 + 1, 0 + 2) = <<A[1], A[2]>>
        /\ SubSeq(w, 2 + 1, 2 + 4) = <<B[1], B[2], B[3], B[4]>>
        /\ SubSeq(w, 6 + 1, 6 + 2) = <<C[1], C[2]>>
    BY <1>12, <2>3, <2>4, <2>5, <2>6
  <2> QED BY <1>3, <2>1, <2>7
<1> QED BY <1>1, <1>6, <1>13, <1>15 DEF A, B, C, d, w

\* Exchanging parts of a payload leaves a payload.
LEMMA ExchangeType ==
    ASSUME NEW s \in Seq(Words), NEW j \in Nat, NEW l \in Nat, NEW K \in Nat,
           j > 0, l > 0, j + K - 1 <= Len(s), l + K - 1 <= Len(s)
    PROVE  Exchange(s, j, l, K) \in Seq(Words)
<1> DEFINE n == Len(s)
           at(m) == IF m \in j .. j + K - 1 THEN s[m + l - j]
                    ELSE IF m \in l .. l + K - 1 THEN s[m + j - l] ELSE s[m]
<1>1. n \in Nat /\ DOMAIN s = 1 .. n /\ \A m \in 1 .. n : s[m] \in Words
  OBVIOUS
<1>2. ASSUME NEW m \in 1 .. n PROVE at(m) \in Words
  <2>1. CASE m \in j .. j + K - 1
    <3>1. m + l - j \in 1 .. n BY <1>1, <2>1
    <3> QED BY <1>1, <2>1, <3>1
  <2>2. CASE m \notin j .. j + K - 1 /\ m \in l .. l + K - 1
    <3>1. m + j - l \in 1 .. n BY <1>1, <2>2
    <3> QED BY <1>1, <2>2, <3>1
  <2>3. CASE m \notin j .. j + K - 1 /\ m \notin l .. l + K - 1
    BY <1>1, <2>3
  <2> QED BY <2>1, <2>2, <2>3
<1>3. Exchange(s, j, l, K) = [m \in 1 .. n |-> at(m)]
  BY <1>1 DEF Exchange
<1> HIDE DEF at, n
<1>4. [m \in 1 .. n |-> at(m)] \in Seq(Words)
  BY <1>1, <1>2
<1> QED BY <1>3, <1>4

\* Altered instruction data are instruction data.
LEMMA AlteredType ==
    ASSUME NEW f \in Fixtures, NEW x \in Alterations(build_ix_data(f), f)
    PROVE  x \in IxData
<1> DEFINE d == build_ix_data(f)
           w == d.words
           n == Len(w)
<1>1. /\ d \in IxData /\ w \in Seq(Words) /\ n \in Nat /\ n >= 9
      /\ d.selector \in 0 .. 255 /\ d.ragged \in 0 .. 31
      /\ d = [selector |-> d.selector, ragged |-> d.ragged, words |-> w]
      /\ f.proof.a \in Encodings
  <2>1. d \in IxData /\ n >= 9 /\ f.proof \in Proof /\ d.selector \in Selectors
    BY BuiltData
  <2>2. d = [selector |-> d.selector, ragged |-> d.ragged, words |-> w]
    BY DEF build_ix_data
  <2> HIDE DEF d
  <2>3. w \in Seq(Words) /\ d.ragged \in 0 .. 31
    BY <2>1 DEF IxData
  <2> QED BY <2>1, <2>2, <2>3, SelectorIsByte DEF Proof
<1>0. x \in Alterations(d, f)
  OBVIOUS
<1> HIDE DEF d
<1>2. \/ x = NoData
      \/ \E s \in Selectors \cup {8} : x = [d EXCEPT !.selector = s]
      \/ \E g \in {0, 31} : x = [d EXCEPT !.words = SubSeq(@, 1, n - 1), !.ragged = g]
      \/ x = [d EXCEPT !.words = Append(@, ToScalar[0])]
      \/ x = [d EXCEPT !.ragged = 1]
      \/ \E y \in Scalars : x = [d EXCEPT !.words[n] = ToScalar[y]]
      \/ \E j \in 1 .. n - 1 : x = [d EXCEPT !.words = Exchange(@, j, n, 1)]
      \/ \E j \in {12} \cap 1 .. n : x = [d EXCEPT !.words = Exchange(@, 9, 11, 2)]
      \/ x = [d EXCEPT !.words = ToG1[f.proof.a] \o SubSeq(@, 3, n)]
  BY <1>0, Zenon DEF Alterations
<1>3. ASSUME NEW u \in Seq(Words), NEW g \in 0 .. 31,
             x = [d EXCEPT !.words = u, !.ragged = g]
      PROVE  x \in IxData
  <2>1. x = [selector |-> d.selector, ragged |-> g, words |-> u]
    BY <1>1, <1>3
  <2>2. d.selector \in 0 .. 255 \cup {None}
    BY <1>1
  <2> QED BY <2>1, <2>2 DEF IxData
<1>4. ASSUME NEW u \in Seq(Words), x = [d EXCEPT !.words = u]
      PROVE  x \in IxData
  <2>1. x = [selector |-> d.selector, ragged |-> d.ragged, words |-> u]
    BY <1>1, <1>4
  <2>2. d.selector \in 0 .. 255 \cup {None}
    BY <1>1
  <2> QED BY <1>1, <2>1, <2>2 DEF IxData
<1>5. CASE x = NoData
  BY <1>5 DEF NoData, IxData
<1>6. CASE \E s \in Selectors \cup {8} : x = [d EXCEPT !.selector = s]
  <2>1. PICK s \in 0 .. 255 : x = [d EXCEPT !.selector = s]
    <3>1. Selectors \cup {8} \subseteq 0 .. 255
      BY SelectorIsByte
    <3> QED BY <1>6, <3>1, Zenon
  <2>2. x = [selector |-> s, ragged |-> d.ragged, words |-> w]
    <3> HIDE DEF w
    <3>1. w = d.words
      BY DEF w
    <3> QED BY ONLY <1>1, <2>1, <3>1
  <2>3. s \in 0 .. 255 \cup {None}
    OBVIOUS
  <2> QED BY <1>1, <2>2, <2>3 DEF IxData
<1>7. CASE \E g \in {0, 31} : x = [d EXCEPT !.words = SubSeq(@, 1, n - 1), !.ragged = g]
  <2>1. PICK g \in {0, 31} : x = [d EXCEPT !.words = SubSeq(w, 1, n - 1), !.ragged = g]
    BY <1>7
  <2>2. SubSeq(w, 1, n - 1) \in Seq(Words)
    <3>1. \A j \in 1 .. n - 1 : w[j] \in Words
      BY <1>1
    <3> QED BY <1>1, <3>1, SubSeqProperties
  <2>3. g \in 0 .. 31
    OBVIOUS
  <2> QED BY <1>3, <2>1, <2>2, <2>3, Zenon
<1>8. CASE x = [d EXCEPT !.words = Append(@, ToScalar[0])]
  <2>1. ToScalar[0] \in Words
    BY WordsAssumption, ScalarAssumption DEF Scalars
  <2>2. Append(w, ToScalar[0]) \in Seq(Words)
    BY <1>1, <2>1
  <2>3. x = [d EXCEPT !.words = Append(w, ToScalar[0])]
    BY <1>8
  <2> QED BY <1>4, <2>2, <2>3
<1>9. CASE x = [d EXCEPT !.ragged = 1]
  <2>1. x = [selector |-> d.selector, ragged |-> 1, words |-> w]
    BY <1>1, <1>9
  <2>2. d.selector \in 0 .. 255 \cup {None}
    BY <1>1
  <2> QED BY <1>1, <2>1, <2>2 DEF IxData
<1>10. CASE \E y \in Scalars : x = [d EXCEPT !.words[n] = ToScalar[y]]
  <2>1. PICK y \in Scalars : x = [d EXCEPT !.words[n] = ToScalar[y]]
    BY <1>10
  <2>2. ToScalar[y] \in Words
    BY WordsAssumption
  <2>3. [w EXCEPT ![n] = ToScalar[y]] \in Seq(Words)
    BY <1>1, <2>2, ExceptSeq
  <2>4. x = [d EXCEPT !.words = [w EXCEPT ![n] = ToScalar[y]]]
    BY <2>1
  <2> QED BY <1>4, <2>3, <2>4
<1>11. CASE \E j \in 1 .. n - 1 : x = [d EXCEPT !.words = Exchange(@, j, n, 1)]
  <2>1. PICK j \in 1 .. n - 1 : x = [d EXCEPT !.words = Exchange(w, j, n, 1)]
    BY <1>11
  <2>2. Exchange(w, j, n, 1) \in Seq(Words)
    <3>1. j \in Nat /\ j > 0 /\ n > 0 /\ j + 1 - 1 <= n /\ n + 1 - 1 <= n /\ 1 \in Nat
      BY <1>1
    <3> QED BY <1>1, <3>1, ExchangeType
  <2> QED BY <1>4, <2>1, <2>2
<1>12. CASE \E j \in {12} \cap 1 .. n : x = [d EXCEPT !.words = Exchange(@, 9, 11, 2)]
  <2>1. x = [d EXCEPT !.words = Exchange(w, 9, 11, 2)]
    BY <1>12
  <2>2. Exchange(w, 9, 11, 2) \in Seq(Words)
    <3>1. /\ 9 + 2 - 1 <= n /\ 11 + 2 - 1 <= n /\ 9 > 0 /\ 11 > 0
          /\ 9 \in Nat /\ 11 \in Nat /\ 2 \in Nat
      BY <1>1, <1>12
    <3> QED BY <1>1, <3>1, ExchangeType, Zenon
  <2> QED BY <1>4, <2>1, <2>2
<1>13. CASE x = [d EXCEPT !.words = ToG1[f.proof.a] \o SubSeq(@, 3, n)]
  <2>1. ToG1[f.proof.a] \in Seq(Words)
    BY <1>1, WordsAssumption, TwoIsSequence
  <2>2. SubSeq(w, 3, n) \in Seq(Words)
    <3>1. \A j \in 3 .. n : w[j] \in Words
      BY <1>1
    <3> QED BY <1>1, <3>1, SubSeqProperties
  <2>3. ToG1[f.proof.a] \o SubSeq(w, 3, n) \in Seq(Words)
    BY <2>1, <2>2, Concatenation, Zenon
  <2>4. x = [d EXCEPT !.words = ToG1[f.proof.a] \o SubSeq(w, 3, n)]
    BY <1>13
  <2> QED BY <1>4, <2>3, <2>4
<1> QED BY <1>2, <1>5, <1>6, <1>7, <1>8, <1>9, <1>10, <1>11, <1>12, <1>13

-----------------------------------------------------------------------------
(***************************************************************************)
(* Each step keeps the inductive invariant.  The invariant of the verifier *)
(* comes with it: what a call returns is told by that one.                 *)
(***************************************************************************)
\* At first no instruction was sent and the verifier is not there.
LEMMA InitKeeps == Init => IInv /\ V!Init
<1>1. SUFFICES ASSUME Init PROVE IInv /\ V!Init
  OBVIOUS
<1>2. V!Init
  BY <1>1 DEF Init, Verifier!Init, V!Init, Verifier!Identity, V!Identity
<1>3. Untouched
  BY <1>1 DEF Init, Verifier!Init, Untouched
<1>4. ix \in IxData
  <2>1. ix = [selector |-> None, ragged |-> 0, words |-> <<>>]
    BY <1>1 DEF Init, NoData
  <2> QED BY <2>1 DEF IxData
<1>5. TypeOK
  BY <1>1, <1>4 DEF Init, TypeOK, IxData, Ok
<1> QED BY <1>1, <1>2, <1>3, <1>5
        DEF Init, IInv, AnswerDeserved

\* What is left alone while the verifier is not there and no field is taken.
LEMMA ClientKeeps ==
    ASSUME IInv, stage \in {"client", "sent"}, stage' = "sent", ix' \in IxData,
           honest' \in Fixtures \cup {None},
           honest' # None => ix' = build_ix_data(honest'),
           UNCHANGED <<rest, fields, answer, verifierVars>>
    PROVE  IInv'
<1>1. Untouched'
  BY DEF IInv, Untouched, verifierVars
<1>2. TypeOK'
  BY DEF IInv, TypeOK, IxData
<1> QED BY <1>1, <1>2 DEF IInv, AnswerDeserved

\* build_ix_data makes instruction data.
LEMMA BuildKeeps ==
    ASSUME IInv, NEW f \in Fixtures, Build(f)
    PROVE  IInv'
<1>1. build_ix_data(f) \in IxData
  BY BuiltData
<1> QED BY <1>1, ClientKeeps DEF Build

\* Altered data are instruction data, and no more said to be honest.
LEMMA AlterKeeps ==
    ASSUME IInv, Alter
    PROVE  IInv'
<1>1. honest \in Fixtures /\ ix = build_ix_data(honest) /\ stage = "sent"
  BY DEF Alter, IInv, TypeOK
<1>2. PICK d \in Alterations(ix, honest) : ix' = d
  BY DEF Alter
<1>3. d \in IxData
  BY <1>1, <1>2, AlteredType
<1>4. /\ stage' = "sent" /\ honest' = None
      /\ UNCHANGED <<rest, fields, answer, verifierVars>>
  BY <1>1 DEF Alter
<1> QED BY <1>1, <1>2, <1>3, <1>4, ClientKeeps

\* An answer is kept once it is deserved.
LEMMA AnswerKeeps ==
    ASSUME IInv, NEW result, Answer(result), stage # "client",
           result.kind \in {"Ok", "InvalidInstructionData", "Custom"},
           answer' = result => AnswerDeserved'
    PROVE  IInv'
<1>1. stage' = "answered" /\ answer' = result /\ UNCHANGED <<ix, honest, rest, fields>>
  BY DEF Answer
<1>2. TypeOK'
  BY <1>1 DEF IInv, TypeOK
<1> QED BY <1>1, <1>2 DEF IInv

\* Data that are not well formed deserve InvalidInstructionData.
LEMMA InvalidKeeps ==
    ASSUME IInv, Answer(InvalidInstructionData), stage # "client", ~WellFormed(ix)
    PROVE  IInv'
<1>1. AnswerDeserved'
  BY DEF Answer, AnswerDeserved
<1> QED BY <1>1, AnswerKeeps DEF InvalidInstructionData

\* The payload of a known selector is yet to be taken.
LEMMA ProcessKeeps ==
    ASSUME IInv, process_instruction
    PROVE  IInv'
<1>1. stage = "sent" /\ UNCHANGED verifierVars
  BY DEF process_instruction
<1>2. CASE ix.selector \in Selectors
  <2>1. /\ stage' = "take" /\ rest' = ix.words /\ fields' = <<>>
        /\ UNCHANGED <<ix, honest, answer>>
    BY <1>2 DEF process_instruction
  <2>2. Untouched'
    BY <1>1 DEF IInv, Untouched, verifierVars
  <2>3. ix.words \in Seq(Words) /\ Len(ix.words) \in Nat
    BY DEF IInv, TypeOK
  <2>4. TypeOK'
    <3>1. /\ Len(fields') = 0 /\ Len(fields') + 1 = 1 /\ fields' \in Seq(Seq(Words))
          /\ Len(Layout(ix.selector)) \in Nat
      BY <1>2, <2>1, Shapes
    <3>2. rest' = SubSeq(ix.words, 0 + 1, Len(ix.words))
      <4> DEFINE w == ix.words
      <4>1. w \in Seq(Words)
        BY <2>3
      <4> HIDE DEF w
      <4>2. /\ Len(SubSeq(w, 0 + 1, 0 + Len(w))) = Len(w)
            /\ SubSeq(w, 0 + 1, 0 + Len(w)) \in Seq(Words)
            /\ \A j \in 1 .. Len(w) : SubSeq(w, 0 + 1, 0 + Len(w))[j] = w[0 + j]
        BY <4>1, Part
      <4>3. 0 + Len(w) = Len(w) /\ \A j \in 1 .. Len(w) : 0 + j = j
        BY <4>1
      <4> DEFINE v == SubSeq(w, 0 + 1, Len(w))
      <4>4. v \in Seq(Words) /\ Len(v) = Len(w) /\ \A j \in 1 .. Len(w) : v[j] = w[j]
        BY <4>2, <4>3, Zenon
      <4> HIDE DEF v
      <4>5. v = w
        BY <4>1, <4>4, SeqEqual
      <4> QED BY <2>1, <4>5 DEF v, w
    <3>3. Start[Len(fields') + 1] = 0
      BY <3>1, Starts
    <3>4. \A j \in 1 .. Len(fields') : fields'[j] = Field(ix, j)
      BY <3>1
    <3>5. /\ ix'.selector \in Selectors
          /\ Len(fields') \in 0 .. Len(Layout(ix'.selector))
          /\ \A j \in 1 .. Len(fields') : fields'[j] = Field(ix', j)
          /\ Start[Len(fields') + 1] <= Len(ix'.words)
          /\ rest' = SubSeq(ix'.words, Start[Len(fields') + 1] + 1, Len(ix'.words))
      BY <1>2, <2>1, <2>3, <3>1, <3>2, <3>3, <3>4
    <3> QED BY <2>1, <2>3, <3>1, <3>5 DEF IInv, TypeOK
  <2> QED BY <1>1, <2>1, <2>2, <2>4 DEF IInv, AnswerDeserved
<1>3. CASE ix.selector \notin Selectors
  <2>1. Answer(InvalidInstructionData) /\ ~WellFormed(ix)
    BY <1>3 DEF process_instruction, WellFormed
  <2> QED BY <1>1, <2>1, InvalidKeeps
<1> QED BY <1>2, <1>3

\* A part of what is left of a payload is a part of the payload.
LEMMA PartOfRest ==
    ASSUME NEW w \in Seq(Words), NEW a \in Nat, NEW b \in Nat, NEW n \in Nat,
           a + b + n <= Len(w)
    PROVE  /\ Len(SubSeq(w, a + 1, Len(w))) = Len(w) - a
           /\ SubSeq(SubSeq(w, a + 1, Len(w)), b + 1, b + n)
              = SubSeq(w, a + b + 1, a + b + n)
           /\ SubSeq(w, a + b + 1, a + b + n) \in Seq(Words)
<1> DEFINE l == Len(w)
           m == l - a
           v == SubSeq(w, a + 1, a + m)
           x == SubSeq(v, b + 1, b + n)
           y == SubSeq(w, a + b + 1, a + b + n)
<1>1. l \in Nat /\ m \in Nat /\ a + m = l /\ a + m <= Len(w) /\ b + n <= m
  OBVIOUS
<1>2. a + b \in Nat /\ (a + b) + n <= Len(w)
  OBVIOUS
<1>3. v \in Seq(Words) /\ Len(v) = m /\ \A j \in 1 .. m : v[j] = w[a + j]
  <2> HIDE DEF m
  <2> QED BY <1>1, Part
<1> HIDE DEF v
<1>4. x \in Seq(Words) /\ Len(x) = n /\ \A j \in 1 .. n : x[j] = v[b + j]
  <2>1. b + n <= Len(v)
    BY <1>1, <1>3
  <2> HIDE DEF m
  <2> QED BY <1>3, <2>1, Part
<1>5. y \in Seq(Words) /\ Len(y) = n /\ \A j \in 1 .. n : y[j] = w[(a + b) + j]
  <2> DEFINE c == a + b
  <2> HIDE DEF c
  <2>1. /\ SubSeq(w, c + 1, c + n) \in Seq(Words)
        /\ Len(SubSeq(w, c + 1, c + n)) = n
        /\ \A j \in 1 .. n : SubSeq(w, c + 1, c + n)[j] = w[c + j]
    BY <1>2, Part DEF c
  <2> QED BY <2>1 DEF c
<1> HIDE DEF x, y
<1>6. ASSUME NEW j \in 1 .. n PROVE x[j] = y[j]
  <2>1. b + j \in 1 .. m /\ a + (b + j) = (a + b) + j
    BY <1>1
  <2>2. x[j] = v[b + j] /\ v[b + j] = w[a + (b + j)] /\ y[j] = w[(a + b) + j]
    BY <1>3, <1>4, <1>5, <2>1, Zenon
  <2> QED BY <2>1, <2>2, Zenon
<1>7. x = y
  BY <1>4, <1>5, <1>6, SeqEqual
<1>8. SubSeq(w, a + 1, Len(w)) = v
  BY <1>1, Zenon DEF v, l
<1> QED BY <1>1, <1>3, <1>5, <1>7, <1>8 DEF x, y, l, m

\* A field is as long as the circuit's layout has it, and the last of them
\* ends where the public inputs begin.
LEMMA LayoutIsStart ==
    ASSUME NEW s \in Selectors, NEW k \in Nat, k < Len(Layout(s))
    PROVE  /\ Start[k + 1] \in Nat /\ Start[k + 2] \in Nat /\ Layout(s)[k + 1] \in Nat
           /\ Start[k + 1] + Layout(s)[k + 1] = Start[k + 2]
           /\ Start[k + 2] <= IF HasBsb22(s) THEN 12 ELSE 8
<1>1. CASE HasBsb22(s)
  <2>1. k \in 0 .. 4 /\ Layout(s) = <<2, 4, 2, 2, 2>>
    <3>1. Layout(s) = <<2, 4, 2, 2, 2>> /\ Len(Layout(s)) = 5
      BY <1>1, Shapes
    <3>2. k < 5
      BY <3>1, Zenon
    <3> QED BY <3>1, <3>2
  <2> QED BY <1>1, <2>1 DEF Start
<1>2. CASE ~HasBsb22(s)
  <2>1. k \in 0 .. 2 /\ Layout(s) = <<2, 4, 2>>
    <3>1. Layout(s) = <<2, 4, 2>> /\ Len(Layout(s)) = 3
      BY <1>2, Shapes
    <3>2. k < 3
      BY <3>1, Zenon
    <3> QED BY <3>1, <3>2
  <2> QED BY <1>2, <2>1 DEF Start
<1> QED BY <1>1, <1>2

\* take moves the next field from what is left to the fields taken.
LEMMA TakeKeeps ==
    ASSUME IInv, take
    PROVE  IInv'
<1> DEFINE w == ix.words
           k == Len(fields)
           K == Layout(ix.selector)[k + 1]
           a == Start[k + 1]
<1>1. /\ stage = "take" /\ UNCHANGED verifierVars /\ k < Len(Layout(ix.selector))
      /\ ix \in IxData /\ w \in Seq(Words) /\ Len(w) \in Nat
      /\ ix.selector \in Selectors /\ k \in Nat /\ fields \in Seq(Seq(Words))
      /\ rest = SubSeq(w, a + 1, Len(w)) /\ a <= Len(w)
      /\ \A j \in 1 .. k : fields[j] = Field(ix, j)
  BY DEF take, IInv, TypeOK, IxData
<1>2. /\ a \in Nat /\ K \in Nat /\ a + K = Start[k + 2] /\ a + K <= TailOf(ix)
  BY <1>1, LayoutIsStart DEF TailOf
<1> HIDE DEF w, K, a
<1>3. Len(rest) = Len(w) - a
  <2>1. a + 0 + 0 <= Len(w) /\ 0 \in Nat
    BY <1>1, <1>2
  <2>2. Len(SubSeq(w, a + 1, Len(w))) = Len(w) - a
    BY <1>1, <1>2, <2>1, PartOfRest
  <2> QED BY <1>1, <2>2
<1>4. CASE Len(rest) < K
  <2>1. Answer(InvalidInstructionData)
    BY <1>4 DEF take, K
  <2>2. ~WellFormed(ix)
    <3>1. nr_inputs(ix.selector) \in Nat /\ TailOf(ix) \in Nat
      BY <1>1, Shapes DEF TailOf
    <3>2. Len(w) < TailOf(ix)
      BY <1>1, <1>2, <1>3, <1>4, <3>1
    <3>3. Len(w) # TailOf(ix) + nr_inputs(ix.selector)
      BY <1>1, <3>1, <3>2
    <3> QED BY <3>3 DEF WellFormed, w
  <2> QED BY <1>1, <2>1, <2>2, InvalidKeeps
<1>5. CASE ~(Len(rest) < K)
  <2>1. /\ fields' = Append(fields, SubSeq(rest, 1, K))
        /\ rest' = SubSeq(rest, K + 1, Len(rest))
        /\ UNCHANGED <<ix, honest, stage, answer>>
    BY <1>5 DEF take, K
  <2>2. SubSeq(rest, 1, K) = Field(ix, k + 1) /\ Field(ix, k + 1) \in Seq(Words)
    <3>1. a + 0 + K <= Len(w) /\ 0 \in Nat
      BY <1>1, <1>2, <1>3, <1>5
    <3>2. /\ SubSeq(SubSeq(w, a + 1, Len(w)), 0 + 1, 0 + K)
              = SubSeq(w, a + 0 + 1, a + 0 + K)
          /\ SubSeq(w, a + 0 + 1, a + 0 + K) \in Seq(Words)
      BY <1>1, <1>2, <3>1, PartOfRest
    <3>3. 0 + 1 = 1 /\ 0 + K = K /\ a + 0 + 1 = a + 1 /\ a + 0 + K = Start[k + 2]
          /\ (k + 1) + 1 = k + 2
      BY <1>1, <1>2
    <3>4. Field(ix, k + 1) = SubSeq(w, a + 1, Start[(k + 1) + 1])
      BY DEF Field, w, a
    <3> QED BY <1>1, <3>2, <3>3, <3>4, Zenon
  <2>3. rest' = SubSeq(w, Start[k + 2] + 1, Len(w)) /\ rest' \in Seq(Words)
    <3> DEFINE n == Len(w) - a - K
    <3>1. a + K + n <= Len(w) /\ n \in Nat /\ K + n = Len(rest) /\ a + K + n = Len(w)
      BY <1>1, <1>2, <1>3, <1>5
    <3> HIDE DEF n
    <3>2. /\ SubSeq(SubSeq(w, a + 1, Len(w)), K + 1, K + n)
              = SubSeq(w, a + K + 1, a + K + n)
          /\ SubSeq(w, a + K + 1, a + K + n) \in Seq(Words)
      BY <1>1, <1>2, <3>1, PartOfRest
    <3> QED BY <1>1, <1>2, <2>1, <3>1, <3>2, Zenon
  <2>4. Start[k + 2] <= Len(w)
    BY <1>1, <1>2, <1>3, <1>5
  <2>5. /\ fields' \in Seq(Seq(Words)) /\ Len(fields') = k + 1
        /\ \A j \in 1 .. k : fields'[j] = fields[j]
        /\ fields'[k + 1] = Field(ix, k + 1)
    <3> DEFINE x == Field(ix, k + 1)
    <3>1. fields' = Append(fields, x) /\ x \in Seq(Words)
      BY <2>1, <2>2
    <3> HIDE DEF x
    <3>2. /\ Append(fields, x) \in Seq(Seq(Words)) /\ Len(Append(fields, x)) = k + 1
          /\ \A j \in 1 .. k : Append(fields, x)[j] = fields[j]
          /\ Append(fields, x)[k + 1] = x
      BY <1>1, <3>1, AppendProperties
    <3> QED BY <3>1, <3>2 DEF x
  <2> HIDE DEF k
  <2>6. /\ Len(fields') \in 0 .. Len(Layout(ix.selector))
        /\ Len(fields') + 1 = k + 2
    <3>1. Len(Layout(ix.selector)) \in Nat
      BY <1>1, Shapes
    <3> QED BY <1>1, <2>5, <3>1
  <2>7. \A j \in 1 .. Len(fields') : fields'[j] = Field(ix, j)
    <3>1. SUFFICES ASSUME NEW j \in 1 .. Len(fields') PROVE fields'[j] = Field(ix, j)
      OBVIOUS
    <3>2. CASE j = k + 1
      BY <2>5, <3>2
    <3>3. CASE j # k + 1
      <4>1. j \in 1 .. k
        BY <1>1, <2>5, <3>3
      <4> QED BY <1>1, <2>5, <4>1
    <3> QED BY <3>2, <3>3
  <2>8. /\ ix'.selector \in Selectors
        /\ Len(fields') \in 0 .. Len(Layout(ix'.selector))
        /\ \A j \in 1 .. Len(fields') : fields'[j] = Field(ix', j)
        /\ Start[Len(fields') + 1] <= Len(ix'.words)
        /\ rest' = SubSeq(ix'.words, Start[Len(fields') + 1] + 1, Len(ix'.words))
    BY <1>1, <2>1, <2>3, <2>4, <2>6, <2>7 DEF w
  <2>9. TypeOK'
    BY <2>1, <2>3, <2>5, <2>8 DEF IInv, TypeOK
  <2>10. Untouched'
    BY <1>1 DEF IInv, Untouched, verifierVars
  <2> QED BY <1>1, <2>1, <2>9, <2>10 DEF IInv, AnswerDeserved
<1> QED BY <1>4, <1>5

\* A constructor is called when all fields are taken, and with what they say.
LEMMA ConstructKeeps ==
    ASSUME IInv, Construct
    PROVE  IInv' /\ (V!Next \/ UNCHANGED verifierVars)
<1>1. /\ stage = "take" /\ Len(fields) = Len(Layout(ix.selector))
      /\ call = None /\ pc = "idle"
  BY DEF Construct, IInv, Untouched
<1>2. InputsFit <=> WellFormed(ix)
  BY <1>1, AllTaken
<1>3. CASE ~WellFormed(ix)
  <2>1. Answer(InvalidInstructionData) /\ UNCHANGED verifierVars
    BY <1>2, <1>3 DEF Construct
  <2> QED BY <1>1, <1>3, <2>1, InvalidKeeps
<1>4. CASE WellFormed(ix)
  <2>1. stage' = "constructed" /\ UNCHANGED <<ix, honest, rest, fields, answer>>
    BY <1>2, <1>4 DEF Construct
  <2>2. /\ V!Next /\ UNCHANGED <<call, pc>>
        /\ IF WellShaped(Says(ix))
           THEN self' = Says(ix) /\ res' = "Ok"
           ELSE self' = None /\ res' = ConstructorOutcome(Says(ix))
    BY <1>4, ConstructorStep
  <2>3. Constructed'
    BY <1>1, <1>4, <2>1, <2>2 DEF Constructed
  <2>4. TypeOK'
    BY <1>1, <2>1 DEF IInv, TypeOK
  <2> QED BY <2>1, <2>2, <2>3, <2>4 DEF IInv, AnswerDeserved
<1> QED BY <1>3, <1>4

\* verify is called on the object that the data say.
LEMMA CallVerifyKeeps ==
    ASSUME IInv, CallVerify
    PROVE  IInv' /\ V!Next
<1>1. /\ stage = "constructed" /\ self # None /\ stage' = "verifying"
      /\ UNCHANGED <<ix, honest, rest, fields, answer>>
      /\ Verifier!Invoke(Request)
  BY DEF CallVerify, Request
<1>2. V!Next
  <2>1. V!Invoke(Request) /\ Request \in V!Calls
    BY <1>1 DEF Verifier!Invoke, V!Invoke, V!Calls, Request
  <2> QED BY <2>1 DEF V!Next
<1>3. WellFormed(ix) /\ WellShaped(Says(ix)) /\ self = Says(ix)
  BY <1>1 DEF IInv, Constructed
<1>4. Verifying'
  BY <1>1, <1>3 DEF Verifier!Invoke, Verifying
<1>5. TypeOK'
  BY <1>1 DEF IInv, TypeOK
<1> QED BY <1>1, <1>2, <1>4, <1>5 DEF IInv, AnswerDeserved

\* While verify runs, the object and the call stay.
LEMMA RunVerifierKeeps ==
    ASSUME IInv, RunVerifier
    PROVE  IInv' /\ V!Next
<1>1. stage = "verifying" /\ V!Step /\ UNCHANGED <<ix, honest, stage, rest, fields, answer>>
  BY SameStep DEF RunVerifier
<1>2. V!Next
  BY <1>1 DEF V!Next
<1>3. UNCHANGED <<self, call>>
  BY <1>1, V!StepKind, SameData, OrderAssumption, ScalarAssumption, OffCurveAssumption,
     NoneAssumption, HashAssumption, Bsb22Assumption, CallsAssumption
     DEF V!Calls, Verifier!Calls
<1>4. Verifying'
  BY <1>1, <1>3 DEF IInv, Verifying
<1>5. TypeOK'
  BY <1>1 DEF IInv, TypeOK
<1> QED BY <1>1, <1>2, <1>4, <1>5 DEF IInv, AnswerDeserved

\* The error can be told from its code.
LEMMA CodeTells ==
    ASSUME NEW x \in DOMAIN ErrorCode
    PROVE  {y \in DOMAIN ErrorCode : ErrorCode[y] = ErrorCode[x]} = {x}
<1>1. DOMAIN ErrorCode =
        {"ProofVerificationFailed", "PreparingInputsG1AdditionFailed",
         "PreparingInputsG1MulFailed", "InvalidPublicInputsLength",
         "DecompressingG1Failed", "DecompressingG2Failed",
         "PublicInputGreaterThanFieldSize", "ArkworksSerializationError",
         "ProofConversionError", "MissingCommitmentKey",
         "CommitmentPokVerificationFailed", "Bsb22UnsupportedMultiCommitment",
         "Bsb22InvalidVerifyingKeyBinary", "UnexpectedCommitmentKey",
         "Bsb22CommittedPublicInputsUnsupported", "Bsb22VkFileIoFailed",
         "Bsb22InvalidCommitmentPoint", "Bsb22InconsistentCommitmentState",
         "ForgeableProductionVk"}
  BY DEF ErrorCode
<1>2. ASSUME NEW y \in DOMAIN ErrorCode, ErrorCode[y] = ErrorCode[x]
      PROVE  y = x
  BY <1>1, <1>2 DEF ErrorCode
<1> QED BY <1>2

\* What a constructor or verify returns is Ok or has a code.
LEMMA OutcomesHaveCodes ==
    \A o, c : /\ Outcome(o, c) \in {"Ok"} \cup DOMAIN ErrorCode
              /\ ConstructorOutcome(o) \in DOMAIN ErrorCode
              /\ ConstructorOutcome(o) # "Ok"
<1>1. {"ProofVerificationFailed", "CommitmentPokVerificationFailed",
       "PublicInputGreaterThanFieldSize", "PreparingInputsG1MulFailed",
       "PreparingInputsG1AdditionFailed", "Bsb22InvalidCommitmentPoint",
       "MissingCommitmentKey", "UnexpectedCommitmentKey",
       "InvalidPublicInputsLength"} \subseteq DOMAIN ErrorCode
  BY DEF ErrorCode
<1>2. \A o, c : Outcome(o, c) \in {"Ok"} \cup DOMAIN ErrorCode
  BY <1>1 DEF Outcome, PrepareOutcome
<1>3. \A o : ConstructorOutcome(o) \in {"MissingCommitmentKey",
                 "UnexpectedCommitmentKey", "InvalidPublicInputsLength"}
  BY DEF ConstructorOutcome
<1> QED BY <1>1, <1>2, <1>3

\* The answer is the one the data deserve: of the constructor, if it failed,
\* and otherwise of verify, whose result is the outcome of its object.
LEMMA ReturnKeeps ==
    ASSUME IInv, V!IInv, Return
    PROVE  IInv'
<1> DEFINE o == Says(ix)
           outcome == IF WellShaped(o) THEN Outcome(o, Request)
                                       ELSE ConstructorOutcome(o)
           result == IF res = "Ok" THEN Ok ELSE Custom(res)
<1>1. /\ \/ stage = "constructed" /\ self = None
         \/ stage = "verifying" /\ pc = "idle"
      /\ Answer(result) /\ stage # "client"
  BY DEF Return
<1>2. WellFormed(ix) /\ res = outcome
  <2>1. CASE stage = "constructed" /\ self = None
    <3>1. /\ WellFormed(ix)
          /\ IF WellShaped(o) THEN self = o /\ res = "Ok"
                              ELSE self = None /\ res = ConstructorOutcome(o)
      BY <2>1 DEF IInv, Constructed
    <3>2. o # None
      <4>1. ix \in IxData
        BY DEF IInv, TypeOK, IxData
      <4>2. o \in Groth16Verifier
        BY <3>1, <4>1, SaysType
      <4> QED BY <4>2, NoneAssumption
    <3> QED BY <2>1, <3>1, <3>2
  <2>2. CASE stage = "verifying" /\ pc = "idle"
    <3>1. WellFormed(ix) /\ call = Request /\ self = o /\ WellShaped(o)
      BY <2>2 DEF IInv, Verifying
    <3>2. V!Finished
      <4>1. Request \in Verifier!Calls
        BY DEF Verifier!Calls, Request
      <4>2. call # None
        BY <3>1, <4>1, CallsAssumption
      <4> QED BY <2>2, <4>2 DEF V!Finished
    <3>3. res = V!Outcome(self, call)
      BY <3>2 DEF V!IInv, V!AnswerIsOutcome
    <3>4. res = Outcome(o, Request)
      BY <3>1, <3>3, SameStatement
    <3> QED BY <3>1, <3>4
  <2> QED BY <1>1, <2>1, <2>2
<1>3. outcome \in {"Ok"} \cup DOMAIN ErrorCode
  BY OutcomesHaveCodes
<1> HIDE DEF o
<1>4. outcome # "Ok" =>
        /\ result.kind = "Custom" /\ result.code = ErrorCode[outcome]
        /\ {x \in DOMAIN ErrorCode : ErrorCode[x] = result.code} = {outcome}
  <2> HIDE DEF outcome
  <2>1. SUFFICES ASSUME outcome # "Ok"
                 PROVE  /\ result.kind = "Custom" /\ result.code = ErrorCode[outcome]
                        /\ {x \in DOMAIN ErrorCode : ErrorCode[x] = result.code}
                           = {outcome}
    OBVIOUS
  <2>2. result.kind = "Custom" /\ result.code = ErrorCode[outcome]
    BY <1>2, <2>1 DEF Custom
  <2>3. outcome \in DOMAIN ErrorCode
    BY <1>3, <2>1
  <2> HIDE DEF result
  <2>4. {x \in DOMAIN ErrorCode : ErrorCode[x] = ErrorCode[outcome]} = {outcome}
    BY <2>3, CodeTells
  <2> QED BY <2>2, <2>4
<1>5. outcome = "Ok" => result = Ok
  <2> HIDE DEF outcome
  <2> QED BY <1>2
<1>6. result.kind \in {"Ok", "InvalidInstructionData", "Custom"}
  BY DEF Ok, Custom
<1> HIDE DEF outcome, result
<1>7. answer' = result => AnswerDeserved'
  <2>1. SUFFICES ASSUME answer' = result PROVE AnswerDeserved'
    OBVIOUS
  <2>2. ix' = ix /\ WellFormed(ix)
    BY <1>1, <1>2 DEF Answer
  <2>3. IF outcome = "Ok" THEN answer' = Ok
        ELSE /\ answer'.kind = "Custom"
             /\ {x \in DOMAIN ErrorCode : ErrorCode[x] = answer'.code} = {outcome}
    BY <1>4, <1>5, <2>1
  <2> QED BY <2>2, <2>3 DEF AnswerDeserved, outcome, o, Request
<1> QED BY <1>1, <1>6, <1>7, AnswerKeeps

\* Every step of the program keeps both invariants, and is one of the verifier
\* or leaves the verifier alone.
LEMMA NextKeeps ==
    ASSUME IInv, V!IInv, [Next]_vars
    PROVE  IInv' /\ V!IInv' /\ [V!Next]_(V!vars)
<1>1. SUFFICES IInv' /\ [V!Next]_(V!vars)
  BY VerifierSteps
<1>2. UNCHANGED verifierVars => [V!Next]_(V!vars)
  BY DEF verifierVars, V!vars
<1>3. ASSUME NEW f \in Fixtures, Build(f) PROVE IInv' /\ [V!Next]_(V!vars)
  BY <1>2, <1>3, BuildKeeps DEF Build
<1>4. CASE Alter
  BY <1>2, <1>4, AlterKeeps DEF Alter
<1>5. CASE process_instruction
  BY <1>2, <1>5, ProcessKeeps DEF process_instruction
<1>6. CASE take
  BY <1>2, <1>6, TakeKeeps DEF take
<1>7. CASE Construct
  BY <1>2, <1>7, ConstructKeeps
<1>8. CASE CallVerify
  BY <1>8, CallVerifyKeeps
<1>9. CASE RunVerifier
  BY <1>9, RunVerifierKeeps
<1>10. CASE Return
  BY <1>2, <1>10, ReturnKeeps DEF Return
<1>11. CASE UNCHANGED vars
  <2>1. UNCHANGED <<ix, honest, stage, rest, fields, answer>> /\ UNCHANGED verifierVars
    BY <1>11 DEF vars
  <2>2. TypeOK'
    BY <2>1 DEF IInv, TypeOK
  <2>3. AnswerDeserved'
    BY <2>1 DEF IInv, AnswerDeserved
  <2>4. /\ Untouched => Untouched'
        /\ Constructed => Constructed'
        /\ Verifying => Verifying'
    BY <2>1 DEF verifierVars, Untouched, Constructed, Verifying
  <2> QED BY <1>2, <2>1, <2>2, <2>3, <2>4 DEF IInv
<1> QED BY <1>3, <1>4, <1>5, <1>6, <1>7, <1>8, <1>9, <1>10, <1>11
        DEF Next, Execute

-----------------------------------------------------------------------------
(***************************************************************************)
(* What the program does, for every value of the constants.                *)
(***************************************************************************)
\* At each stage the verifier holds what the instruction data say.
THEOREM InductiveInvariant == Spec => [](IInv /\ V!IInv)
<1>1. Init => IInv /\ V!IInv
  BY InitKeeps, VerifierSteps
<1>2. (IInv /\ V!IInv) /\ [Next]_vars => (IInv /\ V!IInv)'
  BY NextKeeps
<1> QED BY <1>1, <1>2, PTL DEF Spec

\* The program's use of its Groth16Verifier is a behaviour of Groth16Verifier:
\* one constructor, at most one verify, each run to its end.  So every theorem
\* of Groth16VerifierProofs holds of the object inside the program.
THEOREM VerifierUsedAsSpecified == Spec => V!Spec
<1>1. Init => V!Init
  BY InitKeeps
<1>2. (IInv /\ V!IInv) /\ [Next]_vars => [V!Next]_(V!vars)
  BY NextKeeps
<1> QED BY <1>1, <1>2, InductiveInvariant, PTL DEF Spec, V!Spec

\* The fields taken off a payload are those of the table in the program's
\* header, whatever the client sent.
THEOREM TypeCorrect == Spec => []TypeOK
<1>1. IInv => TypeOK
  BY DEF IInv
<1> QED BY <1>1, InductiveInvariant, PTL

\* Whatever the client sent, the answer is the one the statement of the chosen
\* circuit gives to what the data say.
THEOREM AnswersAreDeserved == Spec => []AnswerDeserved
<1>1. IInv => AnswerDeserved
  BY DEF IInv
<1> QED BY <1>1, InductiveInvariant, PTL

\* With the negated A on the left, the product of the four pairings is one
\* exactly if the equation holds as gnark has it.
LEMMA NegatedEquation ==
    ASSUME NEW a \in Points, NEW b \in Points, NEW y \in Int, NEW z \in Int,
           NEW w \in Int
    PROVE  (negate_g1_be(a) * b + z + w + y) % r = 0
           <=> (a * b) % r = ((y % r) + (z % r) + (w % r)) % r
<1> DEFINE x == a * b
           t == y + z + w
           k == IF a = 0 THEN 0 ELSE b
           d == negate_g1_be(a) * b + z + w + y
<1>1. /\ r \in Nat /\ r > 0 /\ a \in Nat /\ b \in Nat /\ x \in Int /\ t \in Int
      /\ k \in Int
  BY OrderAssumption DEF Points
<1>2. d = r * k - x + t /\ d \in Int
  <2>1. negate_g1_be(a) = IF a = 0 THEN 0 ELSE r - a
    BY NegationType DEF Encodings
  <2>2. negate_g1_be(a) * b = r * k - x
    <3>1. CASE a = 0
      BY <1>1, <2>1, <3>1
    <3>2. CASE a # 0
      <4>1. (r - a) * b = r * b - a * b
        BY <1>1
      <4> QED BY <2>1, <3>2, <4>1
    <3> QED BY <3>1, <3>2
  <2>3. r * k - x \in Int
    BY <1>1
  <2> HIDE DEF x, k
  <2> QED BY <2>2, <2>3
<1>3. ((y % r) + (z % r) + (w % r)) % r = t % r
  <2> DEFINE o == 0
  <2>1. o \in Int /\ o % r = 0 /\ o = 0
    BY <1>1
  <2> HIDE DEF o
  <2>2. ((y % r) + (z % r) + (w % r) + (o % r)) % r = (y + z + w + o) % r
    <3>1. \A x1, x2, x3, x4 \in Int :
              ((x1 % r) + (x2 % r) + (x3 % r) + (x4 % r)) % r = (x1 + x2 + x3 + x4) % r
      BY V!ModAdd4, SameData, OrderAssumption, ScalarAssumption, OffCurveAssumption,
         NoneAssumption, HashAssumption, Bsb22Assumption, CallsAssumption
         DEF V!Calls, Verifier!Calls
    <3>2. o \in Int
      BY <2>1
    <3> QED BY <3>1, <3>2
  <2>3. y % r \in Int /\ z % r \in Int /\ w % r \in Int
    BY <1>1
  <2>4. /\ (y % r) + (z % r) + (w % r) + (o % r) = (y % r) + (z % r) + (w % r)
        /\ y + z + w + o = t
    BY <2>1, <2>3
  <2> QED BY <2>2, <2>4
<1> HIDE DEF x, t, k, d
<1> DEFINE qx == x \div r
           qt == t \div r
           qd == d \div r
           rx == x % r
           rt == t % r
           rd == d % r
<1>4. /\ x = r * qx + rx /\ qx \in Int /\ rx \in Int /\ 0 <= rx /\ rx < r
      /\ t = r * qt + rt /\ qt \in Int /\ rt \in Int /\ 0 <= rt /\ rt < r
      /\ d = r * qd + rd /\ qd \in Int /\ rd \in Int /\ 0 <= rd /\ rd < r
  BY <1>1, <1>2
<1> HIDE DEF qx, qt, qd, rx, rt, rd
<1> DEFINE q == qd - k + qx - qt
<1>5. rt = r * q + (rx + rd) /\ q \in Int
  <2>1. r * qd + rd = r * k - (r * qx + rx) + (r * qt + rt)
    BY <1>2, <1>4
  <2>2. r * (qd - k + qx - qt) = r * qd - r * k + r * qx - r * qt
    BY <1>1, <1>4
  <2> QED BY <1>1, <1>4, <2>1, <2>2
<1> HIDE DEF q
<1>6. ASSUME rd = 0 PROVE rx = rt
  <2>1. rt = r * q + rx
    BY <1>4, <1>5, <1>6
  <2> QED BY <1>1, <1>4, <1>5, <2>1, V!RemainderUnique, SameData, OrderAssumption,
       ScalarAssumption, OffCurveAssumption, NoneAssumption, HashAssumption,
       Bsb22Assumption, CallsAssumption DEF V!Calls, Verifier!Calls
<1>7. ASSUME rx = rt PROVE rd = 0
  <2>1. rd = r * (-q) + 0 /\ -q \in Int
    <3>1. r * (-q) = -(r * q)
      BY <1>1, <1>5
    <3> QED BY <1>1, <1>4, <1>5, <1>7, <3>1
  <2>2. 0 <= 0 /\ 0 < r
    BY <1>1
  <2> QED BY <1>1, <1>4, <2>1, <2>2, V!RemainderUnique, SameData, OrderAssumption,
       ScalarAssumption, OffCurveAssumption, NoneAssumption, HashAssumption,
       Bsb22Assumption, CallsAssumption DEF V!Calls, Verifier!Calls
<1> QED BY <1>3, <1>6, <1>7 DEF x, d, rx, rt, rd

\* What the data of an honest client say: gnark's proof with A negated.
LEMMA HonestSays ==
    ASSUME NEW f \in Fixtures
    PROVE  /\ Says(build_ix_data(f)) \in Groth16Verifier
           /\ Says(build_ix_data(f)).proof_a = negate_g1_be(f.proof.a)
           /\ Says(build_ix_data(f)).proof_b = f.proof.b
           /\ Says(build_ix_data(f)).proof_c = f.proof.c
           /\ Says(build_ix_data(f)).verifyingkey = VkOf[f.selector]
<1> DEFINE d == build_ix_data(f)
<1>1. /\ d \in IxData /\ WellFormed(d) /\ d.selector = f.selector /\ f.proof \in Proof
      /\ Field(d, 1) = ToG1[negate_g1_be(f.proof.a)]
      /\ Field(d, 2) = ToG2[f.proof.b] /\ Field(d, 3) = ToG1[f.proof.c]
  BY BuiltData
<1> HIDE DEF d
<1>2. /\ f.proof.a \in Encodings /\ f.proof.b \in Encodings /\ f.proof.c \in Encodings
      /\ negate_g1_be(f.proof.a) \in Encodings
  BY <1>1, NegationType DEF Proof
<1>3. \A p \in Encodings : FromG1[ToG1[p]] = p /\ FromG2[ToG2[p]] = p
  BY WordsAssumption
<1>4. /\ Says(d) \in Groth16Verifier
      /\ Says(d).verifyingkey = VkOf[d.selector]
      /\ Says(d).proof_a = FromG1[Field(d, 1)]
      /\ Says(d).proof_b = FromG2[Field(d, 2)]
      /\ Says(d).proof_c = FromG1[Field(d, 3)]
  BY <1>1, SaysType
<1> QED BY <1>1, <1>2, <1>3, <1>4 DEF d

\* The equation of Groth16 holds of what they say exactly if it holds of the
\* proof as gnark has it.
LEMMA EquationOfHonest ==
    ASSUME NEW f \in Fixtures
    PROVE  EquationHolds(Says(build_ix_data(f))) <=>
           /\ {f.proof.a, f.proof.b, f.proof.c, VkOf[f.selector].vk_alpha_g1,
               VkOf[f.selector].vk_beta_g2, VkOf[f.selector].vk_gamma_g2,
               VkOf[f.selector].vk_delta_g2} \subseteq Points
           /\ \E s \in Points :
                  /\ IsPreparedInput(s, Says(build_ix_data(f)))
                  /\ e(f.proof.a, f.proof.b)
                     = (e(VkOf[f.selector].vk_alpha_g1, VkOf[f.selector].vk_beta_g2)
                        + e(s, VkOf[f.selector].vk_gamma_g2)
                        + e(f.proof.c, VkOf[f.selector].vk_delta_g2)) % r
<1> DEFINE o == Says(build_ix_data(f))
           q == f.proof
           v == VkOf[f.selector]
           pts == {q.a, q.b, q.c, v.vk_alpha_g1, v.vk_beta_g2, v.vk_gamma_g2,
                   v.vk_delta_g2}
           lhs(s) == (negate_g1_be(q.a) * q.b + s * v.vk_gamma_g2
                      + q.c * v.vk_delta_g2 + v.vk_alpha_g1 * v.vk_beta_g2) % r = 0
           rhs(s) == e(q.a, q.b) = (e(v.vk_alpha_g1, v.vk_beta_g2)
                                    + e(s, v.vk_gamma_g2) + e(q.c, v.vk_delta_g2)) % r
<1>1. /\ o.proof_a = negate_g1_be(q.a) /\ o.proof_b = q.b /\ o.proof_c = q.c
      /\ o.verifyingkey = v
  BY HonestSays
<1>2. q.a \in Encodings
  BY FixturesAssumption DEF Proof
<1>3. negate_g1_be(q.a) \in Points <=> q.a \in Points
  BY <1>2, NegationType
<1> HIDE DEF o, q, v
<1>4. EquationHolds(o) <=> pts \subseteq Points /\ \E s \in Points :
                               IsPreparedInput(s, o) /\ lhs(s)
  <2>1. {negate_g1_be(q.a), q.b, q.c, v.vk_alpha_g1, v.vk_beta_g2, v.vk_gamma_g2,
         v.vk_delta_g2} \subseteq Points <=> pts \subseteq Points
    BY <1>3
  <2> QED BY <1>1, <2>1 DEF EquationHolds
<1>5. ASSUME pts \subseteq Points, NEW s \in Points PROVE lhs(s) <=> rhs(s)
  <2> DEFINE y == v.vk_alpha_g1 * v.vk_beta_g2
             z == s * v.vk_gamma_g2
             w == q.c * v.vk_delta_g2
  <2>1. Points \subseteq Int
    BY OrderAssumption DEF Points
  <2>2. q.a \in Points /\ q.b \in Points /\ y \in Int /\ z \in Int /\ w \in Int
    <3>1. /\ q.a \in Points /\ q.b \in Points /\ q.c \in Points
          /\ v.vk_alpha_g1 \in Points /\ v.vk_beta_g2 \in Points
          /\ v.vk_gamma_g2 \in Points /\ v.vk_delta_g2 \in Points
      BY <1>5
    <3>2. \A x1, x2 \in Points : x1 * x2 \in Int
      BY <2>1
    <3>3. y \in Int /\ z \in Int /\ w \in Int
      BY <3>1, <3>2
    <3> QED BY <3>1, <3>3
  <2> HIDE DEF y, z, w
  <2>3. (negate_g1_be(q.a) * q.b + z + w + y) % r = 0
        <=> (q.a * q.b) % r = ((y % r) + (z % r) + (w % r)) % r
    BY <2>2, NegatedEquation
  <2> QED BY <2>3 DEF y, z, w, e
<1> HIDE DEF lhs, pts
<1>6. EquationHolds(o) <=> pts \subseteq Points /\ \E s \in Points :
                               IsPreparedInput(s, o) /\ rhs(s)
  <2> HIDE DEF rhs
  <2> QED BY <1>4, <1>5
<1> QED BY <1>6 DEF o, q, v, pts, rhs

\* An honest proof is accepted exactly if gnark accepts it: no sign, order of
\* words or choice of key is lost between the client and the pairing check.
THEOREM HonestProofsAreAccepted == Spec => []HonestProofsAccepted
<1>1. IInv => HonestProofsAccepted
  <2>1. SUFFICES ASSUME IInv, stage = "answered", honest # None
                 PROVE  answer = Ok <=> GnarkAccepts(honest)
    BY DEF HonestProofsAccepted
  <2> DEFINE f == honest
             o == Says(ix)
             outcome == IF WellShaped(o) THEN Outcome(o, Request)
                                         ELSE ConstructorOutcome(o)
  <2>2. f \in Fixtures /\ ix = build_ix_data(f) /\ ix \in IxData
    BY <2>1 DEF IInv, TypeOK, IxData
  <2>3. WellFormed(ix) /\ o \in Groth16Verifier
    BY <2>2, BuiltData, HonestSays
  <2>4. answer = Ok <=> outcome = "Ok"
    <3>1. IF outcome = "Ok" THEN answer = Ok
          ELSE /\ answer.kind = "Custom"
               /\ {x \in DOMAIN ErrorCode : ErrorCode[x] = answer.code} = {outcome}
      BY <2>1, <2>3 DEF IInv, AnswerDeserved, Request
    <3> HIDE DEF outcome
    <3> QED BY <3>1 DEF Ok
  <2>5. WellShaped(o) => (Outcome(o, Request) = "Ok"
                          <=> EquationHolds(o) /\ PokHolds(o) /\ InputsCanonical(o))
    <3>1. SUFFICES ASSUME WellShaped(o)
                   PROVE  Outcome(o, Request) = "Ok"
                          <=> EquationHolds(o) /\ PokHolds(o) /\ InputsCanonical(o)
      OBVIOUS
    <3>2. o \in V!Groth16Verifier /\ V!WellShaped(o)
          /\ Request \in V!Calls /\ Request.verify /\ Request.check
      BY <2>3, <3>1, SameData, SameStatement DEF V!Calls, Request
    <3> HIDE DEF o
    <3>3. V!Outcome(o, Request) = "Ok"
          <=> V!ValidProof(o) /\ (Request.check => V!InputsCanonical(o))
      BY <3>2, V!OutcomeOkMeansValid, SameData, OrderAssumption, ScalarAssumption,
         OffCurveAssumption, NoneAssumption, HashAssumption, Bsb22Assumption,
         CallsAssumption DEF V!Calls, Verifier!Calls
    <3>4. V!ValidProof(o) <=> EquationHolds(o) /\ PokHolds(o)
      BY SameStatement DEF V!ValidProof
    <3>5. V!InputsCanonical(o) <=> InputsCanonical(o)
      BY DEF V!InputsCanonical, InputsCanonical
    <3> QED BY <3>2, <3>3, <3>4, <3>5, SameStatement
  <2>6. outcome = "Ok" <=> /\ WellShaped(o) /\ EquationHolds(o) /\ PokHolds(o)
                           /\ InputsCanonical(o)
    BY <2>5, OutcomesHaveCodes
  <2>7. GnarkAccepts(f) <=> /\ WellShaped(o) /\ InputsCanonical(o) /\ PokHolds(o)
                            /\ EquationHolds(o)
    BY <2>2, EquationOfHonest DEF GnarkAccepts
  <2> QED BY <2>4, <2>6, <2>7
<1> QED BY <1>1, InductiveInvariant, PTL
=============================================================================
