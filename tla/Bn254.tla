------------------------------- MODULE Bn254 -------------------------------
(***************************************************************************)
(* The BN254 group as the verifier sees it: byte strings handed to the     *)
(* alt_bn128 syscalls (src/syscalls.rs).                                   *)
(*                                                                         *)
(* A valid encoding of a point of G1 or G2 is represented by the discrete  *)
(* logarithm of the point, a number below the group order r; adding points *)
(* adds logarithms, multiplying by a scalar multiplies them, and the       *)
(* product of pairings is the sum of the products of the logarithms.  All  *)
(* encodings that the syscalls reject (not on the curve, not in the        *)
(* subgroup, coordinate not below the base field modulus) are one value,   *)
(* OffCurve.  A scalar is a 32-byte big-endian number and need not be      *)
(* below r: MaxScalar is the largest of them.                              *)
(***************************************************************************)
EXTENDS Integers

CONSTANTS
    r,            \* order of the groups (the BN254 scalar field modulus)
    MaxScalar,    \* the largest 32-byte scalar, above r
    OffCurve      \* an encoding that is no point

ASSUME OrderAssumption == r \in Nat /\ r > 1
ASSUME ScalarAssumption == MaxScalar \in Nat /\ r <= MaxScalar
ASSUME OffCurveAssumption == OffCurve \notin Int

Points    == 0 .. (r - 1)
Encodings == Points \cup {OffCurve}
Scalars   == 0 .. MaxScalar

\* [0u8; 64], the encoding of the neutral element.
Identity == 0

(***************************************************************************)
(* The syscalls.  Each decodes every point it is given and fails (a        *)
(* non-zero return code) when one of them is no point; the scalar of a     *)
(* multiplication is used as it is, so s and s + r act alike.              *)
(***************************************************************************)
Decodes(p) == p \in Points

\* Mutant: a sum that is not reduced to a point.
Mutant_UnreducedAddition(p, q) == p + q

g1_addition_be(p, q) == (p + q) % r

g1_multiplication_be(p, s) == (p * s) % r

\* The logarithm of e(p, q); the product of pairings is the sum of these.
e(p, q) == (p * q) % r

\* pairing_be on the pairs (p1, q1), (p2, q2): res[31] is 1.
PairingOfTwoIsOne(p1, q1, p2, q2) == (e(p1, q1) + e(p2, q2)) % r = 0

\* pairing_be on four pairs: res[31] is 1.
PairingOfFourIsOne(p1, q1, p2, q2, p3, q3, p4, q4) ==
    (e(p1, q1) + e(p2, q2) + e(p3, q3) + e(p4, q4)) % r = 0

\* is_less_than_bn254_field_size_be.
is_less_than_bn254_field_size_be(s) == s < r
=============================================================================
