------------------------ MODULE Groth16VerifierProps ------------------------
(***************************************************************************)
(* What is required of Groth16Verifier.                                    *)
(***************************************************************************)
EXTENDS Groth16Verifier

Results == {"Ok"} \cup ConstructorErrors \cup CallErrors

\* The type invariant: the fields of the object and the locals of a call
\* keep their types, and a call is in progress only on an object.
TypeOK ==
    /\ self \in Groth16Verifier \cup {None}
    /\ prepared \in Encodings
    /\ call \in Calls \cup {None}
    /\ pc \in Steps
    /\ i \in Nat
    /\ acc \in Encodings
    /\ res \in Results
    /\ pc # "idle" => self # None /\ call # None
    /\ call # None => self # None
    /\ pc = "loop" => i <= NR_INPUTS

\* The last call on the object has returned res.
Finished == pc = "idle" /\ call # None

\* verify and verify_unchecked (verify_common) answer Ok exactly for valid
\* proofs, verify only with canonical public inputs, whatever calls came
\* before: no value of prepared_public_inputs left by an earlier call, and no
\* order of error returns, makes a call accept or reject wrongly.
VerdictCorrect ==
    Finished /\ call.verify =>
        (res = "Ok" <=> /\ ValidProof(self)
                        /\ call.check => InputsCanonical(self))

\* The constructors establish all that the defensive branches of
\* prepare_inputs and verify_commitment_pok test for: no call ever reports a
\* missing column or a mixed commitment state, and a proof made with a
\* commitment key is checked against that key.
ShapeSettledByConstructors ==
    /\ self # None => WellShaped(self)
    /\ Finished => res \notin {"InvalidPublicInputsLength",
                               "Bsb22InconsistentCommitmentState"}

\* k is what prepare_inputs has to store: the prepared input, or, with no
\* wire to add, the constant column, which no syscall has decoded.
IsPrepared(k) ==
    \/ IsPreparedInput(k, self)
    \/ Wires(self) = <<>> /\ k = vk.vk_ic[1]

\* prepared_public_inputs is written only with the finished sum: whatever
\* calls failed half-way, it holds the initial zeros or the prepared input of
\* this object, never a partial sum.
PreparedNeverPartial ==
    self # None => prepared = Identity \/ IsPrepared(prepared)

\* Bsb22InvalidCommitmentPoint blames the commitment ("a syscall rejection
\* here means the point itself is invalid"): it is reported only for a
\* commitment that is no point, and only when the key's columns are points.
CommitmentBlamed ==
    Finished /\ res = "Bsb22InvalidCommitmentPoint" =>
        /\ self.proof_commitment = OffCurve
        /\ \A j \in 1 .. Len(vk.vk_ic) : Decodes(vk.vk_ic[j])

\* Every call of verify, verify_unchecked or prepare_inputs returns.
CallsReturn == (pc # "idle") ~> (pc = "idle")

-----------------------------------------------------------------------------
(***************************************************************************)
(* The inductive invariant behind these: what the locals of a call hold    *)
(* at each of its steps.                                                   *)
(***************************************************************************)
\* The accumulator has taken in the first n wires.  Before the first of them
\* it is the constant column, which no syscall has decoded yet.
AccIs(n) ==
    \/ IsSum(acc, vk.vk_ic, Wires(self), n)
    \/ n = 0 /\ acc = vk.vk_ic[1]

NoOffence(n) == \A j \in 1 .. n : j \notin Offences(self, call.check)

CallProgress ==
    /\ pc = "loop" => AccIs(i) /\ NoOffence(i)
    /\ pc = "commitment" => Bsb22 /\ AccIs(NR_INPUTS) /\ NoOffence(NR_INPUTS)
    /\ pc = "raw" => /\ HasCommitment(self)
                     /\ IsSum(acc, vk.vk_ic, Wires(self), Len(Wires(self)))
                     /\ NoOffence(Len(Wires(self)))
    /\ pc = "store" => IsPrepared(acc)
    /\ pc \in {"pairing", "pok"} => call.verify /\ IsPrepared(prepared)
    /\ pc \in {"store", "pairing", "pok"} =>
          PrepareOutcome(self, call.check) = "Ok"
    /\ pc = "pok" => Bsb22 /\ EquationHolds(self)

Shape == self # None => WellShaped(self) /\ (HasCommitment(self) => Bsb22)

AnswerIsOutcome == Finished => res = Outcome(self, call)

\* The inductive invariant: shape of the object, progress of the call, and
\* the answer of the last call.
IInv ==
    /\ TypeOK /\ Shape /\ CallProgress /\ AnswerIsOutcome
    /\ PreparedNeverPartial

-----------------------------------------------------------------------------
\* verify, verify_unchecked and prepare_inputs answer like the machine that
\* decides at once: same outcome, error included, for every object, entry
\* point and history of calls.
Abstract == INSTANCE Groth16Spec WITH
    object  <- self,
    pending <- IF pc = "idle" THEN None ELSE call,
    answer  <- res

ImplementsSpec == Abstract!AbstractSpec
=============================================================================
