------------------------------ MODULE Program ------------------------------
(***************************************************************************)
(* The program of tests/program around a Groth16Verifier: process_instruc- *)
(* tion picks a circuit by the first byte of the instruction data, takes   *)
(* the fixed-size fields off the payload, and answers what the verifier    *)
(* answers, as a ProgramError.  The client builds the data with            *)
(* build_ix_data from a proof that gnark made; on its way the data may be  *)
(* cut, extended, rearranged or sent to another circuit.                   *)
(*                                                                         *)
(* A payload is a sequence of words of 32 bytes and a rest that is shorter *)
(* than a word.  How words are read as points and scalars, and how points  *)
(* are written, is external: From and To.                                  *)
(***************************************************************************)
EXTENDS Groth16Statement

CONSTANTS
    Bsb22,
    Words,
    FromG1, FromG2, FromScalar,     \* what two, four words and one word say
    ToG1, ToG2, ToScalar,           \* the words of a point, and of a scalar
    VkOf,                           \* the verifying key of a selector
    Fixtures                        \* selectors with a proof and its inputs

Selectors == 0 .. 7

Two  == Words \X Words
Four == Words \X Words \X Words \X Words

ASSUME WordsAssumption ==
    /\ FromG1 \in [Two -> Encodings] /\ ToG1 \in [Encodings -> Two]
    /\ FromG2 \in [Four -> Encodings] /\ ToG2 \in [Encodings -> Four]
    /\ FromScalar \in [Words -> Scalars] /\ ToScalar \in [Scalars -> Words]
    /\ \A p \in Encodings : FromG1[ToG1[p]] = p /\ FromG2[ToG2[p]] = p
    /\ \A s \in Scalars : FromScalar[ToScalar[s]] = s
VARIABLES
    ix,             \* the instruction data: selector, words, bytes behind them
    honest,         \* history: the fixture ix was built from; None once altered
    stage,          \* where the program stands
    rest,           \* the local payload: the words not yet taken
    fields,         \* the fields taken so far
    answer,         \* the ProgramResult
    self, prepared, call, pc, i, acc, res       \* the Groth16Verifier

verifierVars == <<self, prepared, call, pc, i, acc, res>>
vars == <<ix, honest, stage, rest, fields, answer, verifierVars>>

\* A Groth16Verifier may be made of any proof, inputs and key.
Verifier == INSTANCE Groth16Verifier WITH
    Vks <- Groth16Verifyingkey, Proofs <- Proof, InputVectors <- Seq(Scalars)

\* The program is built with the feature "bsb22".
ASSUME Bsb22Assumption == Bsb22
ASSUME CallsAssumption == None \notin Verifier!Calls

-----------------------------------------------------------------------------
HasBsb22(selector) == selector >= 4
nr_inputs(selector) == <<1, 2, 4, 8>>[(selector % 4) + 1]

\* build_ix_data asserts that the data have the length of the circuit.
ASSUME FixturesAssumption ==
    /\ VkOf \in [Selectors -> Groth16Verifyingkey]
    /\ Fixtures \subseteq [selector : Selectors, proof : Proof, inputs : Seq(Scalars)]
    /\ \A f \in Fixtures : Len(f.inputs) = nr_inputs(f.selector)

\* The fields before the public inputs, in words.
Layout(selector) ==
    IF HasBsb22(selector) THEN <<2, 4, 2, 2, 2>> ELSE <<2, 4, 2>>

\* impl From<Groth16Error> for u32.  0, 4, 5 and 14 are not used any more.
ErrorCode ==
    [ProofVerificationFailed |-> 1, PreparingInputsG1AdditionFailed |-> 2,
     PreparingInputsG1MulFailed |-> 3, InvalidPublicInputsLength |-> 6,
     DecompressingG1Failed |-> 7, DecompressingG2Failed |-> 8,
     PublicInputGreaterThanFieldSize |-> 9, ArkworksSerializationError |-> 10,
     ProofConversionError |-> 11, MissingCommitmentKey |-> 12,
     CommitmentPokVerificationFailed |-> 13, Bsb22UnsupportedMultiCommitment |-> 15,
     Bsb22InvalidVerifyingKeyBinary |-> 16, UnexpectedCommitmentKey |-> 17,
     Bsb22CommittedPublicInputsUnsupported |-> 18, Bsb22VkFileIoFailed |-> 19,
     Bsb22InvalidCommitmentPoint |-> 20, Bsb22InconsistentCommitmentState |-> 21,
     ForgeableProductionVk |-> 22]

-----------------------------------------------------------------------------
(***************************************************************************)
(* The client.                                                             *)
(***************************************************************************)
\* Mutant: A is sent as gnark has it.
Mutant_negate_g1_be(p) == p

negate_g1_be(p) == IF p = OffCurve THEN OffCurve ELSE (r - p) % r

InputWords(x) == [j \in DOMAIN x |-> ToScalar[x[j]]]

build_ix_data(f) ==
    LET p == f.proof IN
    [selector |-> f.selector, ragged |-> 0,
     words |-> ToG1[negate_g1_be(p.a)] \o ToG2[p.b] \o ToG1[p.c]
               \o (IF HasBsb22(f.selector) THEN ToG1[p.commitment] \o ToG1[p.pok]
                                           ELSE <<>>)
               \o InputWords(f.inputs)]

NoData == [selector |-> None, ragged |-> 0, words |-> <<>>]

Build(f) ==
    /\ stage = "client"
    /\ ix' = build_ix_data(f)
    /\ honest' = f
    /\ stage' = "sent"
    /\ UNCHANGED <<rest, fields, answer, verifierVars>>

\* What tests/failing.rs does to instruction data d, of n words: send none of
\* it, send it to another circuit, make it a byte or a word shorter or longer,
\* put another word behind, exchange two words or two points, or put A there
\* without negating it.
Exchange(s, j, l, K) ==
    [m \in DOMAIN s |-> IF m \in j .. j + K - 1 THEN s[m + l - j]
                        ELSE IF m \in l .. l + K - 1 THEN s[m + j - l] ELSE s[m]]

Alterations(d, f) ==
    LET n == Len(d.words) IN
    {NoData} \cup {[d EXCEPT !.selector = s] : s \in Selectors \cup {8}}
    \cup {[d EXCEPT !.words = SubSeq(@, 1, n - 1), !.ragged = g] : g \in {0, 31}}
    \cup {[d EXCEPT !.words = Append(@, ToScalar[0])], [d EXCEPT !.ragged = 1]}
    \cup {[d EXCEPT !.words[n] = ToScalar[x]] : x \in Scalars}
    \cup {[d EXCEPT !.words = Exchange(@, j, n, 1)] : j \in 1 .. n - 1}
    \cup {[d EXCEPT !.words = Exchange(@, 9, 11, 2)] : j \in {12} \cap 1 .. n}
    \cup {[d EXCEPT !.words = ToG1[f.proof.a] \o SubSeq(@, 3, n)]}

Alter ==
    /\ stage = "sent" /\ honest # None
    /\ \E d \in Alterations(ix, honest) : d # ix /\ ix' = d
    /\ honest' = None
    /\ UNCHANGED <<stage, rest, fields, answer, verifierVars>>

-----------------------------------------------------------------------------
(***************************************************************************)
(* The program.                                                            *)
(***************************************************************************)
\* ProgramResult: Ok, InvalidInstructionData, or Custom with a code.
Ok == [kind |-> "Ok", code |-> 0]
InvalidInstructionData == [kind |-> "InvalidInstructionData", code |-> 0]
Custom(error) == [kind |-> "Custom", code |-> ErrorCode[error]]

Answer(result) ==
    /\ stage' = "answered"
    /\ answer' = result
    /\ UNCHANGED <<ix, honest, rest, fields>>

process_instruction ==
    /\ stage = "sent"
    /\ IF ix.selector \in Selectors
       THEN /\ stage' = "take" /\ rest' = ix.words /\ fields' = <<>>
            /\ UNCHANGED <<ix, honest, answer>>
       ELSE Answer(InvalidInstructionData)
    /\ UNCHANGED verifierVars

\* Mutant: the payload does not move on to what is behind the field.
Mutant_take ==
    /\ stage = "take" /\ Len(fields) < Len(Layout(ix.selector))
    /\ LET K == Layout(ix.selector)[Len(fields) + 1] IN
       IF Len(rest) < K
       THEN Answer(InvalidInstructionData)
       ELSE /\ fields' = Append(fields, SubSeq(rest, 1, K))
            /\ UNCHANGED <<ix, honest, stage, rest, answer>>
    /\ UNCHANGED verifierVars

take ==
    /\ stage = "take" /\ Len(fields) < Len(Layout(ix.selector))
    /\ LET K == Layout(ix.selector)[Len(fields) + 1] IN
       IF Len(rest) < K
       THEN Answer(InvalidInstructionData)
       ELSE /\ fields' = Append(fields, SubSeq(rest, 1, K))
            /\ rest' = SubSeq(rest, K + 1, Len(rest))
            /\ UNCHANGED <<ix, honest, stage, answer>>
    /\ UNCHANGED verifierVars

\* Mutant: what follows the public inputs is not looked at.
Mutant_InputsFit == Len(rest) >= nr_inputs(ix.selector)

InputsFit == Len(rest) = nr_inputs(ix.selector) /\ ix.ragged = 0

public_inputs == [j \in 1 .. nr_inputs(ix.selector) |-> FromScalar[rest[j]]]

proof ==
    [a |-> FromG1[fields[1]], b |-> FromG2[fields[2]], c |-> FromG1[fields[3]],
     commitment |-> IF HasBsb22(ix.selector) THEN FromG1[fields[4]] ELSE None,
     pok |-> IF HasBsb22(ix.selector) THEN FromG1[fields[5]] ELSE None]

\* parse_public_inputs, and the constructor for this kind of circuit.
Construct ==
    /\ stage = "take" /\ Len(fields) = Len(Layout(ix.selector))
    /\ IF ~InputsFit
       THEN Answer(InvalidInstructionData) /\ UNCHANGED verifierVars
       ELSE /\ IF HasBsb22(ix.selector)
               THEN Verifier!NewWithCommitment(proof, public_inputs, VkOf[ix.selector])
               ELSE Verifier!New(proof, public_inputs, VkOf[ix.selector])
            /\ stage' = "constructed"
            /\ UNCHANGED <<ix, honest, rest, fields, answer>>

\* A constructor that failed left no object; otherwise verify is called once.
CallVerify ==
    /\ stage = "constructed" /\ self # None
    /\ Verifier!Invoke([check |-> TRUE, verify |-> TRUE])
    /\ stage' = "verifying"
    /\ UNCHANGED <<ix, honest, rest, fields, answer>>

RunVerifier ==
    /\ stage = "verifying"
    /\ Verifier!Step
    /\ UNCHANGED <<ix, honest, stage, rest, fields, answer>>

\* Mutant: the error of a constructor is not returned.
Mutant_Return ==
    /\ stage = "verifying" /\ pc = "idle"
    /\ Answer(IF res = "Ok" THEN Ok ELSE Custom(res))
    /\ UNCHANGED verifierVars

Return ==
    /\ \/ stage = "constructed" /\ self = None
       \/ stage = "verifying" /\ pc = "idle"
    /\ Answer(IF res = "Ok" THEN Ok ELSE Custom(res))
    /\ UNCHANGED verifierVars

Init ==
    /\ ix = NoData /\ honest = None /\ stage = "client"
    /\ rest = <<>> /\ fields = <<>> /\ answer = Ok
    /\ Verifier!Init

Execute == \/ process_instruction \/ take \/ Construct \/ CallVerify
           \/ RunVerifier \/ Return

\* A program that has answered is done.
Next == (\E f \in Fixtures : Build(f)) \/ Alter \/ Execute

Spec == Init /\ [][Next]_vars /\ WF_vars(Execute)

-----------------------------------------------------------------------------
\* Where the fields lie: field j is the words from Start[j] + 1 to Start[j + 1].
Start == <<0, 2, 6, 8, 10, 12>>

Field(d, j) == SubSeq(d.words, Start[j] + 1, Start[j + 1])

\* The type invariant.  What was taken off the payload are its first fields,
\* each where the table of the program's header has it, and nothing of what
\* is left was lost.
TypeOK ==
    /\ ix \in [selector : 0 .. 255 \cup {None}, words : Seq(Words), ragged : 0 .. 31]
    /\ honest \in Fixtures \cup {None}
    /\ stage \in {"client", "sent", "take", "constructed", "verifying", "answered"}
    /\ rest \in Seq(Words) /\ fields \in Seq(Seq(Words))
    /\ answer.kind \in {"Ok", "InvalidInstructionData", "Custom"}
    /\ stage \notin {"client", "sent", "answered"} =>
           /\ ix.selector \in Selectors
           /\ Len(fields) \in 0 .. Len(Layout(ix.selector))
           /\ \A j \in 1 .. Len(fields) : fields[j] = Field(ix, j)
           /\ Start[Len(fields) + 1] <= Len(ix.words)
           /\ rest = SubSeq(ix.words, Start[Len(fields) + 1] + 1, Len(ix.words))

\* The table of the program's header: what instruction data says, and when it
\* says anything.
TailOf(d) == IF HasBsb22(d.selector) THEN 12 ELSE 8

WellFormed(d) ==
    /\ d.selector \in Selectors /\ d.ragged = 0
    /\ Len(d.words) = TailOf(d) + nr_inputs(d.selector)

Says(d) ==
    LET at(j, K) == SubSeq(d.words, j, j + K - 1)
        committed(j) == IF HasBsb22(d.selector) THEN FromG1[at(j, 2)] ELSE None
    IN  [proof_a |-> FromG1[at(1, 2)], proof_b |-> FromG2[at(3, 4)],
         proof_c |-> FromG1[at(7, 2)],
         public_inputs |-> [j \in 1 .. nr_inputs(d.selector) |->
                               FromScalar[d.words[TailOf(d) + j]]],
         verifyingkey |-> VkOf[d.selector],
         proof_commitment |-> committed(9), proof_commitment_pok |-> committed(11)]

ConstructorOutcome(o) ==
    IF HasCommitment(o) # (o.verifyingkey.vk_commitment # None)
    THEN IF HasCommitment(o) THEN "MissingCommitmentKey" ELSE "UnexpectedCommitmentKey"
    ELSE "InvalidPublicInputsLength"

\* The client is told what the data deserve, whatever they are: data of any
\* other length than the table's are invalid, and otherwise the answer is
\* that of the statement of the circuit it was sent to, by a code from which
\* the error can be told.
AnswerDeserved ==
    stage = "answered" =>
        IF ~WellFormed(ix)
        THEN answer = InvalidInstructionData
        ELSE LET o == Says(ix)
                 outcome == IF WellShaped(o)
                            THEN Outcome(o, [check |-> TRUE, verify |-> TRUE])
                            ELSE ConstructorOutcome(o)
             IN  IF outcome = "Ok" THEN answer = Ok
                 ELSE /\ answer.kind = "Custom"
                      /\ {x \in DOMAIN ErrorCode : ErrorCode[x] = answer.code} = {outcome}

\* A proof sent as build_ix_data lays it out is accepted exactly if it is one,
\* by the equation as gnark has it, where A is not negated.
GnarkAccepts(f) ==
    LET o == Says(build_ix_data(f))
        q == f.proof
        v == VkOf[f.selector]
    IN  /\ WellShaped(o) /\ InputsCanonical(o) /\ PokHolds(o)
        /\ {q.a, q.b, q.c, v.vk_alpha_g1, v.vk_beta_g2, v.vk_gamma_g2,
            v.vk_delta_g2} \subseteq Points
        /\ \E s \in Points :
               /\ IsPreparedInput(s, o)
               /\ e(q.a, q.b) = (e(v.vk_alpha_g1, v.vk_beta_g2) + e(s, v.vk_gamma_g2)
                                 + e(q.c, v.vk_delta_g2)) % r

HonestProofsAccepted ==
    stage = "answered" /\ honest # None =>
        (answer = Ok <=> GnarkAccepts(honest))

\* Every instruction is answered.
EveryInstructionAnswered == stage = "sent" ~> stage = "answered"

-----------------------------------------------------------------------------
(***************************************************************************)
(* The inductive invariant: at each stage, what the verifier holds is what *)
(* the instruction data say.  What its own steps do, its invariant tells.  *)
(***************************************************************************)
Request == [check |-> TRUE, verify |-> TRUE]

Untouched == self = None /\ call = None /\ pc = "idle" /\ res = "Ok"

Constructed ==
    /\ WellFormed(ix) /\ call = None /\ pc = "idle"
    /\ IF WellShaped(Says(ix))
       THEN self = Says(ix) /\ res = "Ok"
       ELSE self = None /\ res = ConstructorOutcome(Says(ix))

Verifying ==
    /\ WellFormed(ix) /\ call = Request
    /\ self = Says(ix) /\ WellShaped(self)

IInv ==
    /\ TypeOK /\ AnswerDeserved
    /\ honest # None => stage # "client" /\ ix = build_ix_data(honest)
    /\ stage \in {"client", "sent", "take"} => Untouched
    /\ stage = "constructed" => Constructed
    /\ stage = "verifying" => Verifying
=============================================================================
