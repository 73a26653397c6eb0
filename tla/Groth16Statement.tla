-------------------------- MODULE Groth16Statement --------------------------
(***************************************************************************)
(* The data a verifier works on (the structs of src/groth16.rs) and, in    *)
(* mathematical terms, what it means for a proof to be valid for them:     *)
(* the equation of Groth16, extended with one Pedersen commitment (BSB22). *)
(* Nothing here follows the order in which the code computes; that is      *)
(* Groth16Verifier.  Groth16Spec is the machine that answers at once.      *)
(***************************************************************************)
EXTENDS Bn254, Sequences, FiniteSetsExt

CONSTANTS
    None,               \* Option::None
    Vks,                \* the verifying keys a caller may pass
    Proofs,             \* the proofs a caller may pass
    InputVectors,       \* the public input vectors a caller may pass
    HashToField         \* hash_to_field_bn254_fr(_, "bsb22-commitment")

CommitmentVerifyingKey == [g2 : Encodings, g_sigma_neg_g2 : Encodings]

Groth16Verifyingkey ==
    [vk_alpha_g1   : Encodings,
     vk_beta_g2    : Encodings,
     vk_gamma_g2   : Encodings,
     vk_delta_g2   : Encodings,
     vk_ic         : Seq(Encodings),
     vk_commitment : CommitmentVerifyingKey \cup {None}]

\* What the prover sends; `new` is not given the last two.
Proof ==
    [a : Encodings, b : Encodings, c : Encodings,
     commitment : Encodings, pok : Encodings]

\* The fields of struct Groth16Verifier that its methods never assign.
Groth16Verifier ==
    [proof_a              : Encodings,
     proof_b              : Encodings,
     proof_c              : Encodings,
     public_inputs        : Seq(Scalars),
     verifyingkey         : Groth16Verifyingkey,
     proof_commitment     : Encodings \cup {None},
     proof_commitment_pok : Encodings \cup {None}]

ASSUME NoneAssumption ==
    None \notin Encodings /\ None \notin CommitmentVerifyingKey
                          /\ None \notin Groth16Verifier
ASSUME InputsAssumption ==
    /\ Vks \subseteq Groth16Verifyingkey
    /\ Proofs \subseteq Proof
    /\ InputVectors \subseteq Seq(Scalars)
\* reduce_be_l48 returns a canonical field element.
ASSUME HashAssumption == HashToField \in [Encodings -> Points]

(***************************************************************************)
(* The statement.                                                          *)
(***************************************************************************)
HasCommitment(o) == o.proof_commitment # None

\* The scalars that weigh the columns of vk_ic after the first: the public
\* inputs and, for a proof with a commitment, the hash of the commitment.
Wires(o) ==
    IF HasCommitment(o)
    THEN Append(o.public_inputs, HashToField[o.proof_commitment])
    ELSE o.public_inputs

\* s lists the first partial sums of the linear combination of the columns
\* of ic: s[0] is the first column, s[n] is ic[1] + w[1]*ic[2] + ... +
\* w[n]*ic[n+1].  The columns have to be points, also where w is zero.
ArePartialSums(s, ic, w, n) ==
    /\ s[0] = ic[1]
    /\ \A j \in 1 .. n : s[j] = (s[j - 1] + w[j] * ic[j + 1]) % r

IsSum(a, ic, w, n) ==
    /\ \A j \in 1 .. n + 1 : ic[j] \in Points
    /\ \E s \in [0 .. n -> Points] : ArePartialSums(s, ic, w, n) /\ a = s[n]

\* k is the point the proof has to be checked against: the linear combination
\* plus the commitment itself.
IsPreparedInput(k, o) ==
    LET ic == o.verifyingkey.vk_ic
        w  == Wires(o)
    IN  IF HasCommitment(o)
        THEN /\ o.proof_commitment \in Points
             /\ \E a \in Points : /\ IsSum(a, ic, w, Len(w))
                                   /\ k = (a + o.proof_commitment) % r
        ELSE IsSum(k, ic, w, Len(w))

\* e(-A, B) e(K, gamma) e(C, delta) e(alpha, beta) = 1; proof_a is -A.
EquationHolds(o) ==
    LET v == o.verifyingkey IN
    /\ {o.proof_a, o.proof_b, o.proof_c, v.vk_alpha_g1, v.vk_beta_g2,
        v.vk_gamma_g2, v.vk_delta_g2} \subseteq Points
    /\ \E k \in Points :
           /\ IsPreparedInput(k, o)
           /\ (o.proof_a * o.proof_b + k * v.vk_gamma_g2
               + o.proof_c * v.vk_delta_g2 + v.vk_alpha_g1 * v.vk_beta_g2)
              % r = 0

\* The prover knows an opening of the commitment.
PokHolds(o) ==
    HasCommitment(o) =>
        LET c == o.verifyingkey.vk_commitment IN
        /\ {o.proof_commitment, o.proof_commitment_pok, c.g2,
            c.g_sigma_neg_g2} \subseteq Points
        /\ (o.proof_commitment * c.g_sigma_neg_g2
            + o.proof_commitment_pok * c.g2) % r = 0

InputsCanonical(o) ==
    \A j \in 1 .. Len(o.public_inputs) : o.public_inputs[j] < r

ValidProof(o) == EquationHolds(o) /\ PokHolds(o)

\* The key, the inputs and the presence of a commitment fit together.
WellShaped(o) ==
    /\ HasCommitment(o) <=> o.verifyingkey.vk_commitment # None
    /\ HasCommitment(o) <=> o.proof_commitment_pok # None
    /\ Len(o.verifyingkey.vk_ic) = Len(Wires(o)) + 1

(***************************************************************************)
(* The outcome of a call.  An offence of wire j is a reason to stop at it: *)
(* its scalar is refused, its column is no point, or (only the first wire  *)
(* can tell) the constant column is none.  The first offence is reported.  *)
(***************************************************************************)
Refused(o, check, j) ==
    check /\ j <= Len(o.public_inputs) /\ o.public_inputs[j] >= r

Offences(o, check) ==
    LET ic == o.verifyingkey.vk_ic IN
    {j \in 1 .. Len(Wires(o)) :
        Refused(o, check, j) \/ ic[j + 1] = OffCurve \/ ic[1] = OffCurve}

PrepareOutcome(o, check) ==
    IF Offences(o, check) # {}
    THEN LET j == Min(Offences(o, check)) IN
         IF Refused(o, check, j) THEN "PublicInputGreaterThanFieldSize"
         ELSE IF o.verifyingkey.vk_ic[j + 1] = OffCurve
              THEN "PreparingInputsG1MulFailed"
              ELSE "PreparingInputsG1AdditionFailed"
    ELSE IF o.proof_commitment = OffCurve THEN "Bsb22InvalidCommitmentPoint"
    ELSE "Ok"

Outcome(o, c) ==
    IF PrepareOutcome(o, c.check) # "Ok" \/ ~c.verify
    THEN PrepareOutcome(o, c.check)
    ELSE IF ~EquationHolds(o) THEN "ProofVerificationFailed"
    ELSE IF ~PokHolds(o) THEN "CommitmentPokVerificationFailed"
    ELSE "Ok"
=============================================================================
