---------------------------- MODULE ProofParser ----------------------------
(***************************************************************************)
(* From a prover's integers to the verifier's bytes and back: the client   *)
(* calls convert_proof and, to save space in its transaction,              *)
(* convert_proof_to_compressed (src/proof_parser.rs); the program calls    *)
(* decompress_g1 and decompress_g2 (src/decompression.rs).  The public     *)
(* inputs take convert_public_inputs.                                      *)
(*                                                                         *)
(* A point of G1 is the sequence <<x, y>> of its coordinates, a point of   *)
(* G2 is <<x.c0, x.c1, y.c0, y.c1>>; the point at infinity is all zeros.   *)
(* A byte string is a sequence of words of 32 bytes: a field element, what *)
(* arkworks put into the two bits above it, and which way round its bytes  *)
(* are.                                                                    *)
(***************************************************************************)
EXTENDS Integers, Sequences

CONSTANTS
    p,              \* the base field modulus
    WordSize,       \* 2^256, the first number that has no word
    G1, G2,         \* the points of the two groups but the one at infinity
    Proofs,         \* what a prover may hand over: points [a, b, c], as the
                    \* integers it wrote down
    Base,           \* 256, the base in which to_bytes_be writes
    N, Signals      \* the inputs of the circuit, and vectors of signals

Fq == 0 .. p - 1
Coordinates2 == Nat \X Nat
Coordinates4 == Nat \X Nat \X Nat \X Nat

ASSUME SizesAssumption ==
    p \in Nat /\ p > 2 /\ p % 2 = 1 /\ WordSize \in Nat /\ p <= WordSize

\* Both groups are closed under negation and have no point of order two or
\* three, so neither coordinate of a point is zero; with the same x there is
\* only its negative.
\* Mutant: zero is negated to the modulus.
Mutant_Neg1(P) == <<P[1], p - P[2]>>

Neg1(P) == <<P[1], (p - P[2]) % p>>
Neg2(P) == <<P[1], P[2], (p - P[3]) % p, (p - P[4]) % p>>

ASSUME GroupsAssumption ==
    /\ G1 \subseteq Fq \X Fq
    /\ G2 \subseteq Fq \X Fq \X Fq \X Fq
    /\ \A P \in G1 : P[1] # 0 /\ P[2] # 0 /\ Neg1(P) \in G1
    /\ \A P \in G2 : <<P[1], P[2]>> # <<0, 0>> /\ <<P[3], P[4]>> # <<0, 0>>
    /\ \A P, Q \in G1 : P[1] = Q[1] => Q \in {P, Neg1(P)}
    /\ \A P, Q \in G2 : P[1] = Q[1] /\ P[2] = Q[2] => Q \in {P, Neg2(P)}

ASSUME ProofsAssumption ==
    Proofs \subseteq [a : Coordinates2, b : Coordinates4, c : Coordinates2]

ASSUME SignalsAssumption == Base \in Nat \ {0, 1} /\ N \in Nat /\ Signals \subseteq Seq(Nat)

VARIABLES
    proof,          \* the argument of convert_proof
    signals,        \* the argument of convert_public_inputs
    pc,             \* how far the proof has come
    k,              \* how many of its eight coordinates were converted
    res,            \* "Ok", or the error that stopped it
    bytes,          \* what the last conversion of the proof returned
    inputs          \* what the conversion of the signals returned

vars == <<proof, signals, pc, k, res, bytes, inputs>>

Word == [int : Fq, flag : {"none", "infinity", "negative"}, le : BOOLEAN]
Bytes(n) == [a : [1 .. n -> Word], b : [1 .. 2 * n -> Word], c : [1 .. n -> Word]]

-----------------------------------------------------------------------------
(***************************************************************************)
(* arkworks and solana-bn254, as they are used here.                       *)
(***************************************************************************)
IsZero(P) == \A j \in DOMAIN P : P[j] = 0
Half(P)   == Len(P) \div 2
Group(P)  == IF Len(P) = 2 THEN G1 ELSE G2

\* y > -y, where the last part of y that is not zero decides.
IsNegative(P) ==
    \E j \in Half(P) + 1 .. Len(P) : /\ P[j] > p - P[j]
                                     /\ \A l \in j + 1 .. Len(P) : P[l] = 0

FlagOf(P) == IF IsZero(P) THEN "infinity"
             ELSE IF IsNegative(P) THEN "negative" ELSE "none"

\* In big endian c1 comes before c0: word j of an encoding of n words is this
\* coordinate of the point.
Place(n, j) == IF n = 2 THEN j ELSE IF j % 2 = 1 THEN j + 1 ELSE j - 1

\* The point that a big-endian encoding says; no regard for the sign.
Decode(s) ==
    [j \in DOMAIN s |-> IF \E l \in DOMAIN s : s[l].flag = "infinity"
                        THEN 0 ELSE s[Place(Len(s), j)].int]

Encode(P) ==
    [j \in DOMAIN P |-> [int |-> P[Place(Len(P), j)], flag |-> "none", le |-> FALSE]]

Decodes(s) ==
    /\ \A j \in DOMAIN s : ~s[j].le
    /\ IsZero(Decode(s)) \/ Decode(s) \in Group(s)

\* alt_bn128_g1_compress_be, alt_bn128_g2_compress_be: x with the flags in its
\* first word; an encoding of zeros stays one.
NoFlags(s) == \A j \in DOMAIN s : s[j].flag = "none"

Compress(s) ==
    LET P == Decode(s) IN
    [j \in 1 .. Half(s) |->
        [Encode(P)[j] EXCEPT !.flag = IF j > 1 \/ (IsZero(P) /\ NoFlags(s))
                                      THEN "none" ELSE FlagOf(P)]]

\* alt_bn128_g1_decompress_be, alt_bn128_g2_decompress_be: of the two points
\* with this x, the one of this sign.
Candidates(s) ==
    IF \A j \in DOMAIN s : s[j].int = 0
    THEN {[j \in 1 .. 2 * Len(s) |-> 0]}
    ELSE {P \in (IF Len(s) = 1 THEN G1 ELSE G2) :
              /\ \A j \in DOMAIN s : ~s[j].le /\ s[j].int = P[Place(Len(P), j)]
              /\ s[1].flag = FlagOf(P)}

Decompress(s) == Encode(CHOOSE P \in Candidates(s) : TRUE)

-----------------------------------------------------------------------------
(***************************************************************************)
(* convert_proof.                                                          *)
(***************************************************************************)
Coordinates == proof.a \o proof.b \o proof.c

convert_coordinate(n) ==
    IF n >= WordSize THEN "ProofConversionError"
    ELSE IF n >= p THEN "ArkworksSerializationError" ELSE "Ok"

\* Mutant: the point is left unchecked.
Mutant_Check(P) == "Ok"

\* The end of convert_g1 and convert_g2: zeros are the point at infinity, and
\* anything else has to be on the curve and in the group.
Check(P) == IF IsZero(P) \/ P \in Group(P) THEN "Ok" ELSE "ArkworksSerializationError"

CheckAfter(j) ==
    CASE j = 2 -> Check(proof.a)
      [] j = 6 -> Check(proof.b)
      [] j = 8 -> Check(proof.c)
      [] OTHER -> "Ok"

Stop(error) ==
    /\ pc' = "stopped" /\ res' = error
    /\ UNCHANGED <<proof, signals, k, bytes, inputs>>

ConvertCoordinate ==
    /\ pc = "coordinates" /\ k < 8
    /\ LET result == convert_coordinate(Coordinates[k + 1])
           check  == CheckAfter(k + 1)
       IN  IF result # "Ok" THEN Stop(result)
           ELSE IF check # "Ok" THEN Stop(check)
           ELSE k' = k + 1 /\ UNCHANGED <<proof, signals, pc, res, bytes, inputs>>

\* convert_endianness: the bytes of every chunk of n words are reversed.
convert_endianness(n, s) ==
    [j \in DOMAIN s |->
        LET chunk == (j - 1) \div n
            w == s[chunk * n + n - ((j - 1) % n)]
        IN  [w EXCEPT !.le = ~w.le]]

\* serialize_with_mode(_, Compress::No).
WithoutFlags(P) == [j \in DOMAIN P |-> [int |-> P[j], flag |-> "none", le |-> TRUE]]
Serialize(P) == [WithoutFlags(P) EXCEPT ![Len(P)].flag = FlagOf(P)]

\* Mutant: B is reversed coordinate by coordinate.
Mutant_Converted ==
    [a |-> convert_endianness(1, WithoutFlags(Neg1(proof.a))),
     b |-> convert_endianness(1, Serialize(proof.b)),
     c |-> convert_endianness(1, Serialize(proof.c))]

\* A is negated, and its coordinates are serialized one by one.
Converted ==
    [a |-> convert_endianness(1, WithoutFlags(Neg1(proof.a))),
     b |-> convert_endianness(2, Serialize(proof.b)),
     c |-> convert_endianness(1, Serialize(proof.c))]

Pass(step, result) ==
    /\ pc' = step /\ bytes' = result
    /\ UNCHANGED <<proof, signals, k, res, inputs>>

FinishConversion ==
    /\ pc = "coordinates" /\ k = 8
    /\ Pass("converted", Converted)

-----------------------------------------------------------------------------
(***************************************************************************)
(* convert_proof_to_compressed, and what the program does to undo it.      *)
(***************************************************************************)
convert_proof_to_compressed ==
    /\ pc = "converted"
    /\ IF Decodes(bytes.a) /\ Decodes(bytes.b) /\ Decodes(bytes.c)
       THEN Pass("compressed", [a |-> Compress(bytes.a), b |-> Compress(bytes.b),
                                c |-> Compress(bytes.c)])
       ELSE Stop("ProofConversionError")

decompress ==
    /\ pc = "compressed"
    /\ IF Candidates(bytes.a) = {} \/ Candidates(bytes.c) = {}
       THEN Stop("DecompressingG1Failed")
       ELSE IF Candidates(bytes.b) = {} THEN Stop("DecompressingG2Failed")
       ELSE Pass("decompressed", [a |-> Decompress(bytes.a), b |-> Decompress(bytes.b),
                                  c |-> Decompress(bytes.c)])

-----------------------------------------------------------------------------
(***************************************************************************)
(* convert_public_inputs.                                                  *)
(***************************************************************************)
\* Mutant: a short number is padded behind.
Mutant_InputWord(n) == IF n < WordSize \div Base THEN n * Base ELSE n

\* The number is padded in front, or cut to its first 32 bytes.
InputWord(n) ==
    LET Fits(d) == n \div (Base ^ d) < WordSize IN
    IF n < WordSize THEN n
    ELSE n \div (Base ^ (CHOOSE d \in 1 .. n : Fits(d) /\ ~Fits(d - 1)))

\* A vector of another length than the caller's array panics.
convert_public_inputs ==
    /\ pc = "converted"
    /\ IF Len(signals) = N
       THEN /\ pc' = "ready"
            /\ inputs' = [j \in 1 .. N |-> InputWord(signals[j])]
       ELSE pc' = "panicked" /\ UNCHANGED inputs
    /\ UNCHANGED <<proof, signals, k, res, bytes>>

-----------------------------------------------------------------------------
Init ==
    /\ proof \in Proofs
    /\ signals \in Signals
    /\ pc = "coordinates" /\ k = 0
    /\ res = "Ok"
    /\ bytes = [a |-> <<>>, b |-> <<>>, c |-> <<>>]
    /\ inputs = <<>>

Next == \/ ConvertCoordinate \/ FinishConversion \/ convert_public_inputs
        \/ convert_proof_to_compressed \/ decompress

Spec == Init /\ [][Next]_vars

-----------------------------------------------------------------------------
\* The type invariant: of what the conversions return, and where they stand.
TypeOK ==
    /\ proof \in Proofs /\ signals \in Signals
    /\ pc \in {"coordinates", "converted", "compressed", "decompressed",
               "ready", "stopped", "panicked"}
    /\ k \in 0 .. 8
    /\ res \in {"Ok", "ProofConversionError", "ArkworksSerializationError"}
    /\ pc \in {"converted", "decompressed", "ready"} => bytes \in Bytes(2)
    /\ pc = "compressed" => bytes \in Bytes(1)

\* The bytes the verifier is given, straight from convert_proof or by way of
\* the compressed form, say the points of the prover, with A negated once:
\* whichever way round bytes and coordinates are written, wherever arkworks
\* leaves its flags, and also for the point at infinity.
Says(s, P) == Decodes(s) /\ Decode(s) = P

SamePoints ==
    pc \in {"converted", "decompressed", "ready"} =>
        Says(bytes.a, Neg1(proof.a)) /\ Says(bytes.b, proof.b) /\ Says(bytes.c, proof.c)

\* A proof is converted if its integers are coordinates of points, and then
\* nothing that is done with it later can fail.  Otherwise the error is that
\* of the first point that is none: ProofConversionError if the first integer
\* that is no field element has no 32 bytes.
IsPoint(P) == /\ \A j \in DOMAIN P : P[j] \in Fq
              /\ IsZero(P) \/ P \in Group(P)

FirstOffence(P) ==
    IF \E j \in DOMAIN P : /\ P[j] >= WordSize
                          /\ \A l \in 1 .. j - 1 : P[l] \in Fq
    THEN "ProofConversionError" ELSE "ArkworksSerializationError"

ErrorsTellTheReason ==
    /\ pc = "stopped" =>
           res = IF ~IsPoint(proof.a) THEN FirstOffence(proof.a)
                 ELSE IF ~IsPoint(proof.b) THEN FirstOffence(proof.b)
                 ELSE IF ~IsPoint(proof.c) THEN FirstOffence(proof.c)
                 ELSE "Ok"
    /\ pc \notin {"coordinates", "stopped"} =>
           IsPoint(proof.a) /\ IsPoint(proof.b) /\ IsPoint(proof.c)

\* A public input arrives as the number it is if it fits 32 bytes at all.
InputsKept ==
    pc = "ready" =>
        \A j \in 1 .. N : signals[j] < WordSize => inputs[j] = signals[j]
=============================================================================
