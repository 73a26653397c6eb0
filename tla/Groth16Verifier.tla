-------------------------- MODULE Groth16Verifier --------------------------
(***************************************************************************)
(* struct Groth16Verifier of src/groth16.rs: its two constructors and the  *)
(* calls a program makes on the object, any number of them and in any      *)
(* order: prepare_inputs::<CHECK>, verify and verify_unchecked.  A call is *)
(* followed step by step; a step is one iteration of the loop over the     *)
(* public inputs, or the code up to the next syscall that can fail.        *)
(*                                                                         *)
(* The only field a call assigns is prepared_public_inputs.  It survives   *)
(* the call, also a failed one, and is read by the pairing check.          *)
(***************************************************************************)
EXTENDS Groth16Statement

CONSTANT Bsb22      \* is the cargo feature "bsb22" enabled?

ASSUME Bsb22Assumption == Bsb22 \in BOOLEAN

VARIABLES
    self,       \* the fields of the object set by its constructor, or None
    prepared,   \* self.prepared_public_inputs
    call,       \* the last call made: is CHECK set, is it a verify call; or None
    pc,         \* where the call stands; "idle" between calls
    i,          \* the loop variable of prepare_inputs, counting from 0
    acc,        \* the local prepared_public_inputs of prepare_inputs
    res         \* what the last call or constructor returned

vars == <<self, prepared, call, pc, i, acc, res>>

\* verify, verify_unchecked, and prepare_inputs with either value of CHECK.
Calls == [check : BOOLEAN, verify : BOOLEAN]

ASSUME CallsAssumption == None \notin Calls

Steps == {"idle", "first", "loop", "commitment", "raw", "store",
          "pairing", "pok"}

ConstructorErrors == {"UnexpectedCommitmentKey", "MissingCommitmentKey",
                      "InvalidPublicInputsLength"}
CallErrors ==
    {"InvalidPublicInputsLength", "PublicInputGreaterThanFieldSize",
     "PreparingInputsG1MulFailed", "PreparingInputsG1AdditionFailed",
     "Bsb22InconsistentCommitmentState", "Bsb22InvalidCommitmentPoint",
     "ProofVerificationFailed", "CommitmentPokVerificationFailed"}

vk == self.verifyingkey
NR_INPUTS == Len(self.public_inputs)

-----------------------------------------------------------------------------
(***************************************************************************)
(* The constructors.                                                       *)
(***************************************************************************)
Object(p, x, k, com, pok) ==
    [proof_a |-> p.a, proof_b |-> p.b, proof_c |-> p.c,
     public_inputs |-> x, verifyingkey |-> k,
     proof_commitment |-> com, proof_commitment_pok |-> pok]

\* Mutant: a commitment key is not looked for.
Mutant_NewResult(x, k) ==
    IF Len(x) + 1 # Len(k.vk_ic) THEN "InvalidPublicInputsLength" ELSE "Ok"

NewResult(x, k) ==
    IF k.vk_commitment # None        THEN "UnexpectedCommitmentKey"
    ELSE IF Len(x) + 1 # Len(k.vk_ic) THEN "InvalidPublicInputsLength"
    ELSE "Ok"

NewWithCommitmentResult(x, k) ==
    IF k.vk_commitment = None        THEN "MissingCommitmentKey"
    ELSE IF Len(x) + 2 # Len(k.vk_ic) THEN "InvalidPublicInputsLength"
    ELSE "Ok"

\* A constructor returns a fresh object, or an error and no object.
Construct(result, object) ==
    /\ res' = result
    /\ self' = IF result = "Ok" THEN object ELSE None
    /\ prepared' = Identity
    /\ UNCHANGED <<call, pc, i, acc>>

New(p, x, k) == Construct(NewResult(x, k), Object(p, x, k, None, None))

NewWithCommitment(p, x, k) ==
    /\ Bsb22
    /\ Construct(NewWithCommitmentResult(x, k),
                 Object(p, x, k, p.commitment, p.pok))

-----------------------------------------------------------------------------
(***************************************************************************)
(* prepare_inputs.  Until its last step the call works on acc alone.       *)
(***************************************************************************)
\* What g1_mul_add and g1_add do when a syscall refuses a point.
AddResult(p, q) ==
    IF Decodes(p) /\ Decodes(q) THEN "Ok" ELSE "PreparingInputsG1AdditionFailed"

\* Mutant: the accumulator is decoded before the point.
Mutant_MulAddResult(point, scalar, a) ==
    IF ~Decodes(a) THEN "PreparingInputsG1AdditionFailed"
    ELSE IF ~Decodes(point) THEN "PreparingInputsG1MulFailed" ELSE "Ok"

MulAddResult(point, scalar, a) ==
    IF Decodes(point) THEN AddResult(g1_multiplication_be(point, scalar), a)
                      ELSE "PreparingInputsG1MulFailed"

g1_mul_add(point, scalar, a) ==
    g1_addition_be(g1_multiplication_be(point, scalar), a)

\* The call is over; nothing of self changed since its last store.
Return(result) ==
    /\ pc' = "idle"
    /\ res' = result
    /\ UNCHANGED <<self, prepared, call, i, acc>>

\* Mutant: the sum is accumulated in self.prepared_public_inputs.
Mutant_Continue(step, a) ==
    /\ pc' = step
    /\ acc' = a
    /\ prepared' = a
    /\ UNCHANGED <<self, call, res>>

\* The call goes on at the given step with the given accumulator.
Continue(step, a) ==
    /\ pc' = step
    /\ acc' = a
    /\ UNCHANGED <<self, prepared, call, res>>

Invoke(c) ==
    /\ pc = "idle" /\ self # None
    /\ call' = c
    /\ pc' = "first"
    /\ UNCHANGED <<self, prepared, i, acc, res>>

FirstColumn ==
    /\ pc = "first"
    /\ IF Len(vk.vk_ic) = 0
       THEN Return("InvalidPublicInputsLength")
       ELSE Continue("loop", vk.vk_ic[1]) /\ i' = 0

\* Mutant: CHECK is ignored.
Mutant_InputResult ==
    IF Len(vk.vk_ic) < i + 2 THEN "InvalidPublicInputsLength"
    ELSE MulAddResult(vk.vk_ic[i + 2], self.public_inputs[i + 1], acc)

\* How the iteration for public input i + 1 ends.
InputResult ==
    IF call.check /\ ~is_less_than_bn254_field_size_be(self.public_inputs[i + 1])
    THEN "PublicInputGreaterThanFieldSize"
    ELSE IF Len(vk.vk_ic) < i + 2 THEN "InvalidPublicInputsLength"
    ELSE MulAddResult(vk.vk_ic[i + 2], self.public_inputs[i + 1], acc)

\* Mutant: the loop variable is not advanced.
Mutant_InputColumn ==
    /\ pc = "loop" /\ i < NR_INPUTS
    /\ IF InputResult = "Ok"
       THEN /\ Continue("loop", g1_mul_add(vk.vk_ic[i + 2],
                                           self.public_inputs[i + 1], acc))
            /\ UNCHANGED i
       ELSE Return(InputResult)

InputColumn ==
    /\ pc = "loop" /\ i < NR_INPUTS
    /\ IF InputResult = "Ok"
       THEN /\ Continue("loop", g1_mul_add(vk.vk_ic[i + 2],
                                           self.public_inputs[i + 1], acc))
            /\ i' = i + 1
       ELSE Return(InputResult)

EndLoop ==
    /\ pc = "loop" /\ i = NR_INPUTS
    /\ Continue(IF Bsb22 THEN "commitment" ELSE "store", acc)
    /\ UNCHANGED i

\* The cfg(feature = "bsb22") block, up to the multiplication of the column
\* of the hash wire.
CommitmentResult ==
    IF (vk.vk_commitment = None) # (self.proof_commitment = None)
    THEN "Bsb22InconsistentCommitmentState"
    ELSE IF self.proof_commitment = None THEN "Ok"
    ELSE IF Len(vk.vk_ic) < NR_INPUTS + 2 THEN "InvalidPublicInputsLength"
    ELSE MulAddResult(vk.vk_ic[NR_INPUTS + 2],
                      HashToField[self.proof_commitment], acc)

\* Mutant: any failure of the block is blamed on the commitment.
Mutant_CommitmentColumn ==
    /\ pc = "commitment"
    /\ IF CommitmentResult # "Ok" THEN Return("Bsb22InvalidCommitmentPoint")
       ELSE IF self.proof_commitment = None
            THEN Continue("store", acc) /\ UNCHANGED i
            ELSE /\ Continue("raw", g1_mul_add(vk.vk_ic[NR_INPUTS + 2],
                                      HashToField[self.proof_commitment], acc))
                 /\ UNCHANGED i

CommitmentColumn ==
    /\ pc = "commitment"
    /\ IF CommitmentResult # "Ok" THEN Return(CommitmentResult)
       ELSE IF self.proof_commitment = None
            THEN Continue("store", acc) /\ UNCHANGED i
            ELSE /\ Continue("raw", g1_mul_add(vk.vk_ic[NR_INPUTS + 2],
                                      HashToField[self.proof_commitment], acc))
                 /\ UNCHANGED i

RawCommitment ==
    /\ pc = "raw"
    /\ IF AddResult(self.proof_commitment, acc) = "Ok"
       THEN /\ Continue("store", g1_addition_be(self.proof_commitment, acc))
            /\ UNCHANGED i
       ELSE Return("Bsb22InvalidCommitmentPoint")

\* The assignment to self; prepare_inputs ends here, verify_common goes on.
StorePrepared ==
    /\ pc = "store"
    /\ prepared' = acc
    /\ \/ call.verify /\ pc' = "pairing" /\ UNCHANGED res
       \/ ~call.verify /\ pc' = "idle" /\ res' = "Ok"
    /\ UNCHANGED <<self, call, i, acc>>

-----------------------------------------------------------------------------
(***************************************************************************)
(* verify_common after prepare_inputs, and verify_commitment_pok.          *)
(***************************************************************************)
PairingAccepts ==
    /\ \A p \in {self.proof_a, self.proof_b, prepared, vk.vk_gamma_g2,
                 self.proof_c, vk.vk_delta_g2, vk.vk_alpha_g1, vk.vk_beta_g2} :
           Decodes(p)
    /\ PairingOfFourIsOne(self.proof_a, self.proof_b, prepared, vk.vk_gamma_g2,
                          self.proof_c, vk.vk_delta_g2,
                          vk.vk_alpha_g1, vk.vk_beta_g2)

Pairing ==
    /\ pc = "pairing"
    /\ IF ~PairingAccepts THEN Return("ProofVerificationFailed")
       ELSE IF Bsb22 THEN Continue("pok", acc) /\ UNCHANGED i
       ELSE Return("Ok")

PokAccepts ==
    LET key == vk.vk_commitment IN
    /\ \A p \in {self.proof_commitment, key.g_sigma_neg_g2,
                 self.proof_commitment_pok, key.g2} : Decodes(p)
    /\ PairingOfTwoIsOne(self.proof_commitment, key.g_sigma_neg_g2,
                         self.proof_commitment_pok, key.g2)

\* The match on the three options, which should be set or unset together.
PokResult ==
    LET noCom == self.proof_commitment = None
        noPok == self.proof_commitment_pok = None
        noKey == vk.vk_commitment = None
    IN  IF noCom /\ noPok /\ noKey THEN "Ok"
        ELSE IF noCom \/ noPok \/ noKey THEN "Bsb22InconsistentCommitmentState"
        ELSE IF PokAccepts THEN "Ok" ELSE "CommitmentPokVerificationFailed"

verify_commitment_pok == pc = "pok" /\ Return(PokResult)

-----------------------------------------------------------------------------
Init ==
    /\ self = None
    /\ prepared = Identity
    /\ call = None
    /\ pc = "idle"
    /\ i = 0
    /\ acc = Identity
    /\ res = "Ok"

Step ==
    \/ FirstColumn \/ InputColumn \/ EndLoop \/ CommitmentColumn
    \/ RawCommitment \/ StorePrepared \/ Pairing \/ verify_commitment_pok

Next ==
    \/ /\ self = None
       /\ \E p \in Proofs, x \in InputVectors, k \in Vks :
              New(p, x, k) \/ NewWithCommitment(p, x, k)
    \/ \E c \in Calls : Invoke(c)
    \/ Step

Spec == Init /\ [][Next]_vars

\* A call is straight-line code with a bounded loop: the thread that made it
\* runs it to its end.
FairSpec == Spec /\ WF_vars(Step)
=============================================================================
