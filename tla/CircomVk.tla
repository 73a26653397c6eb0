------------------------------- MODULE CircomVk -------------------------------
(***************************************************************************)
(* parse_vk_json_to_rust_string of src/vk/circom.rs: from the numbers of a *)
(* snarkjs key to the byte arrays of the generated constant, field by      *)
(* field, up to the first error.                                           *)
(*                                                                         *)
(* The key is given as serde returns it, with numbers in place of decimal  *)
(* strings and Unparsable for a string that is none.  Lists may have any   *)
(* length.  A coordinate has Size bytes (32) of base Base (256).           *)
(***************************************************************************)
EXTENDS Bytes, Integers, SequencesExt

CONSTANTS Size, RawKeys, Setups

Unparsable == -1

\* What serde returns: lists of any length, of strings that may be no numbers.
G1List == Seq(Nat \cup {Unparsable})
G2List == Seq(G1List)
RawVerifyingKey == [json : BOOLEAN, alpha : G1List, beta : G2List,
                    gamma : G2List, delta : G2List, ic : Seq(G1List)]

Kinds == {"Production", "InsecureTest"}

ASSUME SizeAssumption    == Size \in Nat /\ Size > 0
ASSUME RawKeysAssumption == RawKeys \subseteq RawVerifyingKey
ASSUME SetupsAssumption  == Setups \subseteq Kinds

VARIABLES
    raw_vk, setup,
    field,      \* the field that is written next
    key,        \* the arrays written into the constant so far
    err         \* the kind of VkParseError, or none

keyVars == <<raw_vk, setup, field, key, err>>

Fields == {"json", "alpha", "beta", "gamma", "delta", "ic", "done"}
Errors == {"none", "JsonError", "InvalidData", "ForgeableProductionVk"}

-----------------------------------------------------------------------------
(***************************************************************************)
(* Numbers to bytes.                                                       *)
(***************************************************************************)
\* BigUint::to_bytes_le: no leading zeros, one byte for zero.
ToBytesLe(v) ==
    LET width == CHOOSE w \in 1 .. v + 1 :
                    v < Power(Base, w) /\ (w = 1 \/ v >= Power(Base, w - 1))
    IN  [k \in 1 .. width |-> (v \div Power(Base, k - 1)) % Base]

\* Mutant: padded, but never cut.
Mutant_Resize(bytes) ==
    [k \in 1 .. (IF Len(bytes) > Size THEN Len(bytes) ELSE Size) |->
        IF k <= Len(bytes) THEN bytes[k] ELSE 0]

\* Vec::resize: padded with zeros, or cut.
Resize(bytes) ==
    [k \in 1 .. Size |-> IF k <= Len(bytes) THEN bytes[k] ELSE 0]

bigint_string_to_be_bytes(v) == Reverse(Resize(ToBytesLe(v)))

\* Mutant: each of the two components is reversed for itself.
Mutant_process_g2_component(c) ==
    bigint_string_to_be_bytes(c[1]) \o bigint_string_to_be_bytes(c[2])

\* The two parts one after the other, as every caller puts them.
process_g2_component(c) ==
    Reverse(Resize(ToBytesLe(c[1])) \o Resize(ToBytesLe(c[2])))

\* The list without its last element, the z coordinate.
affine_components(point) == Front(point)

G1Fails(point) ==
    point = <<>> \/ \E k \in 1 .. Len(point) - 1 : point[k] = Unparsable

G2Fails(point) ==
    \/ point = <<>>
    \/ \E k \in 1 .. Len(point) - 1 :
          Len(point[k]) # 2 \/ Unparsable \in ToSet(point[k])

\* extend_from_slice, for each component in turn.
G1Bytes(point) ==
    LET affine == affine_components(point)
    IN  FlattenSeq([k \in 1 .. Len(affine) |-> bigint_string_to_be_bytes(affine[k])])

G2Bytes(point) ==
    LET affine == affine_components(point)
    IN  FlattenSeq([k \in 1 .. Len(affine) |-> process_g2_component(affine[k])])

-----------------------------------------------------------------------------
(***************************************************************************)
(* The fields, in the order they are written.                              *)
(***************************************************************************)
Fail(e) == err' = e /\ field' = "done" /\ UNCHANGED <<raw_vk, setup, key>>

Put(f, bytes, next) ==
    /\ key' = [key EXCEPT ![f] = bytes]
    /\ field' = next
    /\ UNCHANGED <<raw_vk, setup, err>>

ParseJson ==
    /\ field = "json"
    /\ \/ ~raw_vk.json /\ Fail("JsonError")
       \/ raw_vk.json /\ Len(raw_vk.ic) = 0 /\ Fail("InvalidData")
       \/ /\ raw_vk.json /\ Len(raw_vk.ic) > 0
          /\ Put("nr_pubinputs", Len(raw_vk.ic) - 1, "alpha")

AlphaG1 ==
    /\ field = "alpha"
    /\ IF G1Fails(raw_vk.alpha) THEN Fail("InvalidData")
       ELSE Put("alpha", G1Bytes(raw_vk.alpha), "beta")

BetaG2 ==
    /\ field = "beta"
    /\ IF G2Fails(raw_vk.beta) THEN Fail("InvalidData")
       ELSE Put("beta", G2Bytes(raw_vk.beta), "gamma")

GammaG2 ==
    /\ field = "gamma"
    /\ IF G2Fails(raw_vk.gamma) THEN Fail("InvalidData")
       ELSE Put("gamma", G2Bytes(raw_vk.gamma), "delta")

\* Mutant: the lists of the file are compared, z coordinates included.
Mutant_Forgeable(bytes) == setup = "Production" /\ raw_vk.gamma = raw_vk.delta

\* delta_equals_gamma on the bytes just made.
Forgeable(bytes) == setup = "Production" /\ key.gamma = bytes

DeltaG2 ==
    /\ field = "delta"
    /\ \/ G2Fails(raw_vk.delta) /\ Fail("InvalidData")
       \/ /\ ~G2Fails(raw_vk.delta) /\ Forgeable(G2Bytes(raw_vk.delta))
          /\ Fail("ForgeableProductionVk")
       \/ /\ ~G2Fails(raw_vk.delta) /\ ~Forgeable(G2Bytes(raw_vk.delta))
          /\ Put("delta", G2Bytes(raw_vk.delta), "ic")

\* One turn of the loop over the points of IC.
IcPoint ==
    /\ field = "ic" /\ Len(key.ic) < Len(raw_vk.ic)
    /\ LET point == raw_vk.ic[Len(key.ic) + 1] IN
       IF G1Fails(point) THEN Fail("InvalidData")
       ELSE Put("ic", Append(key.ic, G1Bytes(point)), "ic")

Finish ==
    /\ field = "ic" /\ Len(key.ic) = Len(raw_vk.ic)
    /\ field' = "done"
    /\ UNCHANGED <<raw_vk, setup, key, err>>

KeyInit ==
    /\ raw_vk \in RawKeys /\ setup \in Setups
    /\ field = "json"
    /\ key = [nr_pubinputs |-> 0, alpha |-> <<>>, beta |-> <<>>, gamma |-> <<>>,
              delta |-> <<>>, ic |-> <<>>]
    /\ err = "none"

KeyNext ==
    \/ ParseJson \/ AlphaG1 \/ BetaG2 \/ GammaG2 \/ DeltaG2 \/ IcPoint \/ Finish

KeySpec == KeyInit /\ [][KeyNext]_keyVars

-----------------------------------------------------------------------------
(***************************************************************************)
(* What is required of it.                                                 *)
(***************************************************************************)
Accepted == field = "done" /\ err = "none"

\* Each array is Size bytes for each coordinate of the file, so that the types
\* of the constant, [u8; 64] and [u8; 128], catch a list that is too short or
\* too long (parse_vk_json_to_rust_string).
KeyTypeOK ==
    /\ setup \in Kinds
    /\ err \in Errors
    /\ field \in Fields
    /\ key.nr_pubinputs \in 0 .. Len(raw_vk.ic)
    /\ key.alpha # <<>> => Len(key.alpha) = Size * (Len(raw_vk.alpha) - 1)
    /\ \A f \in {"beta", "gamma", "delta"} :
          key[f] # <<>> => Len(key[f]) = 2 * Size * (Len(raw_vk[f]) - 1)
    /\ \A k \in 1 .. Len(key.ic) :
          Len(key.ic[k]) = Size * (Len(raw_vk.ic[k]) - 1)

\* The types of Groth16Verifyingkey, which rustc checks.
SourceCompiles ==
    /\ Accepted
    /\ Len(key.alpha) = 2 * Size
    /\ \A f \in {"beta", "gamma", "delta"} : Len(key[f]) = 4 * Size
    /\ \A k \in 1 .. Len(key.ic) : Len(key.ic[k]) = 2 * Size

\* The number in the k-th group of Size big-endian bytes.
Coordinate(bytes, k) == BeValue(SubSeq(bytes, (k - 1) * Size + 1, k * Size))

\* What Size bytes hold of a number.
Kept(n) == n % Power(Base, Size)

G1Is(bytes, point) == \A k \in 1 .. 2 : Coordinate(bytes, k) = Kept(point[k])

\* The imaginary part comes first in the syscalls' order, the real part first
\* in snarkjs'.
G2Is(bytes, point) ==
    \A k \in 1 .. 2 : /\ Coordinate(bytes, 2 * k - 1) = Kept(point[k][2])
                      /\ Coordinate(bytes, 2 * k) = Kept(point[k][1])

\* A source that compiles holds the coordinates of the file, in the order the
\* syscalls want them, up to multiples of 2^256
\* (parse_vk_json_to_rust_string).
CompiledKeyIsTheFile ==
    SourceCompiles =>
        /\ key.nr_pubinputs + 1 = Len(key.ic)
        /\ Len(key.ic) = Len(raw_vk.ic)
        /\ G1Is(key.alpha, raw_vk.alpha)
        /\ \A f \in {"beta", "gamma", "delta"} : G2Is(key[f], raw_vk[f])
        /\ \A k \in 1 .. Len(key.ic) : G1Is(key.ic[k], raw_vk.ic[k])

G1Malformed(point) == Len(point) = 0 \/ Unparsable \in ToSet(Front(point))
G2Malformed(point) ==
    \/ Len(point) = 0
    \/ \E c \in ToSet(Front(point)) : Len(c) # 2 \/ Unparsable \in ToSet(c)

\* The affine parts agree up to multiples of 2^256: one trapdoor serves both.
Affine(point) == [k \in 1 .. Len(point) - 1 |->
                    [j \in 1 .. Len(point[k]) |-> point[k][j] % Power(Base, Size)]]
DeltaIsGamma  == Affine(raw_vk.delta) = Affine(raw_vk.gamma)

\* A field before IC is malformed, or a point of IC is.
BadBeforeIc ==
    \/ Len(raw_vk.ic) = 0
    \/ G1Malformed(raw_vk.alpha)
    \/ \E f \in {"beta", "gamma", "delta"} : G2Malformed(raw_vk[f])
BadPoint == \E k \in 1 .. Len(raw_vk.ic) : G1Malformed(raw_vk.ic[k])

Reason ==
    IF ~raw_vk.json THEN "JsonError"
    ELSE IF BadBeforeIc THEN "InvalidData"
    ELSE IF setup = "Production" /\ DeltaIsGamma THEN "ForgeableProductionVk"
    ELSE IF BadPoint THEN "InvalidData" ELSE "none"

\* A file is refused exactly for a malformed field, and a production key with
\* delta equal to gamma as forgeable unless a field before IC is malformed
\* (VkParseError).
RefusedForItsReason == field = "done" => err = Reason

-----------------------------------------------------------------------------
(***************************************************************************)
(* The inductive invariant: what is written is the bytes of its field,     *)
(* which is not malformed, and every field that was passed is written.     *)
(***************************************************************************)
\* The fields that come after each one.
Behind ==
    [json  |-> {"alpha", "beta", "gamma", "delta", "ic", "done"},
     alpha |-> {"beta", "gamma", "delta", "ic", "done"},
     beta  |-> {"gamma", "delta", "ic", "done"},
     gamma |-> {"delta", "ic", "done"},
     delta |-> {"ic", "done"},
     ic    |-> {"done"}]

Passed(f) == err = "none" /\ field \in Behind[f]

G1Whole(bytes, point) == ~G1Fails(point) /\ bytes = G1Bytes(point)
G2Whole(bytes, point) == ~G2Fails(point) /\ bytes = G2Bytes(point)

KeyState ==
    /\ raw_vk \in RawVerifyingKey /\ setup \in Kinds
    /\ field \in Fields /\ err \in Errors
    /\ err # "none" => field = "done"
    /\ key \in [nr_pubinputs : Nat, alpha : Seq(Byte), beta : Seq(Byte),
                gamma : Seq(Byte), delta : Seq(Byte), ic : Seq(Seq(Byte))]

KeyIInv ==
    /\ KeyState
    /\ key.nr_pubinputs <= Len(raw_vk.ic)
    /\ Passed("json") => raw_vk.json /\ key.nr_pubinputs + 1 = Len(raw_vk.ic)
    /\ Passed("alpha") \/ key.alpha # <<>> => G1Whole(key.alpha, raw_vk.alpha)
    /\ Passed("beta") \/ key.beta # <<>> => G2Whole(key.beta, raw_vk.beta)
    /\ Passed("gamma") \/ key.gamma # <<>> => G2Whole(key.gamma, raw_vk.gamma)
    /\ Passed("delta") \/ key.delta # <<>> => G2Whole(key.delta, raw_vk.delta)
    /\ Passed("delta") => ~(setup = "Production" /\ key.gamma = key.delta)
    /\ Len(key.ic) <= Len(raw_vk.ic)
    /\ \A k \in 1 .. Len(key.ic) : G1Whole(key.ic[k], raw_vk.ic[k])
    /\ Passed("ic") => Len(key.ic) = Len(raw_vk.ic)
    /\ RefusedForItsReason
=============================================================================
