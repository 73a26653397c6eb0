------------------------------- MODULE Bytes -------------------------------
(***************************************************************************)
(* Numbers and their bytes, as src/hash_to_field.rs and src/vk/circom.rs   *)
(* use them.  A byte is a number below Base, 256 in the code.              *)
(***************************************************************************)
EXTENDS Integers, Sequences

CONSTANT Base

ASSUME BaseAssumption == Base \in Nat /\ Base > 1

Byte == 0 .. Base - 1

\* x to the power k.
Power(x, k) ==
    LET p[j \in 0 .. k] == IF j = 0 THEN 1 ELSE x * p[j - 1]
    IN  p[k]

\* The number that big-endian bytes stand for.
BeValue(s) ==
    LET v[k \in 0 .. Len(s)] == IF k = 0 THEN 0 ELSE v[k - 1] * Base + s[k]
    IN  v[Len(s)]
=============================================================================
