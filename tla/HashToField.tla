---------------------------- MODULE HashToField ----------------------------
(***************************************************************************)
(* hash_to_field_bn254_fr of src/hash_to_field.rs: three SHA-256 preimages *)
(* put together one after the other in the same scratch buffer             *)
(* (expand_message_xmd_sha256_l48), then the reduction of the 48 bytes     *)
(* modulo r with one Montgomery multiplication (reduce_be_l48).            *)
(*                                                                         *)
(* Lengths are parameters: 64 and 32 bytes for a block and a digest of     *)
(* SHA-256, W = 8 bytes in a limb, six limbs (48 bytes) in all, and 256 of *)
(* scratch.  A byte is a number below Base.  SHA-256 is not computed: it   *)
(* may answer with any digest.                                             *)
(***************************************************************************)
EXTENDS Bytes, Integers, Sequences

CONSTANTS
    W,
    Radix,              \* how many values a limb has, 2^64
    B_IN_BYTES, R_IN_BYTES, MAX_SCRATCH,
    Messages, Dsts, Digests,
    Xor,                \* x ^ y of two bytes
    r,                  \* the scalar field modulus
    RInv                \* the inverse of the Montgomery radix modulo r

HALF_L == 3 * W
L      == 2 * HALF_L

ASSUME SizesAssumption ==
    /\ Base > 2 /\ W \in Nat /\ W > 0
    /\ B_IN_BYTES \in Nat /\ R_IN_BYTES \in Nat /\ MAX_SCRATCH \in Nat
    /\ B_IN_BYTES <= R_IN_BYTES
    /\ B_IN_BYTES <= L /\ L <= 2 * B_IN_BYTES
    /\ L < Base * Base
ASSUME FieldAssumption ==
    /\ Radix \in Nat /\ Radix = Power(Base, W)
    /\ r \in Nat /\ RInv \in Nat
    /\ Radix * Radix * Radix < r /\ r <= Radix * Radix * Radix * Radix
    /\ (((Radix * Radix * Radix * Radix) % r) * RInv) % r = 1
ASSUME DataAssumption ==
    /\ Messages \subseteq Seq(Byte) /\ Dsts \subseteq Seq(Byte)
    /\ Digests \subseteq [1 .. B_IN_BYTES -> Byte]
    /\ Xor \in [Byte -> [Byte -> Byte]]

VARIABLES
    msg, dst,
    scratch,
    offset,     \* how much of scratch the next preimage fills so far
    pc,
    n,          \* the number of the preimage being put together
    b,          \* b_0, b_1, b_2 as far as they are known
    hashed,     \* history: the preimages given to SHA-256
    raw,        \* what expand_message_xmd_sha256_l48 returns
    out         \* what hash_to_field_bn254_fr returns

vars == <<msg, dst, scratch, offset, pc, n, b, hashed, raw, out>>

-----------------------------------------------------------------------------
(***************************************************************************)
(* expand_message_xmd_sha256_l48.                                          *)
(***************************************************************************)
\* Mutant: the terminating length of DST_prime is forgotten.
Mutant_Compiles(m, d) ==
    /\ Len(d) <= Base - 1
    /\ R_IN_BYTES + Len(m) + 2 + 1 + Len(d) <= MAX_SCRATCH

\* The assertions that are evaluated when the function is instantiated.
Compiles(m, d) ==
    /\ Len(d) <= Base - 1
    /\ R_IN_BYTES + Len(m) + 2 + 1 + (Len(d) + 1) <= MAX_SCRATCH

L_I_B_STR == <<L \div Base, L % Base>>

Overwrite(buffer, at, s) ==
    [k \in 1 .. MAX_SCRATCH |->
        IF at < k /\ k <= at + Len(s) THEN s[k - at] ELSE buffer[k]]

\* scratch[offset..offset + s.len()] = s, which panics beyond the buffer.
Write(s, next) ==
    /\ IF offset + Len(s) <= MAX_SCRATCH
       THEN /\ scratch' = Overwrite(scratch, offset, s)
            /\ offset' = offset + Len(s)
            /\ pc' = next
       ELSE pc' = "panic" /\ UNCHANGED <<scratch, offset>>
    /\ UNCHANGED <<msg, dst, n, b, hashed, raw, out>>

WriteMsg == pc = "msg" /\ Write(msg, "length")

WriteLength == pc = "length" /\ Write(L_I_B_STR, "number")

\* The first B_IN_BYTES of the buffer: b_0, or b_0 XOR b_1.
XorBytes(x, y) == [k \in 1 .. B_IN_BYTES |-> Xor[x[k]][y[k]]]

WriteDigest ==
    /\ pc = "digest"
    /\ Write(IF n = 1 THEN b[1] ELSE XorBytes(b[1], b[2]), "number")

\* 0x00, 0x01, 0x02.
WriteNumber == pc = "number" /\ Write(<<n>>, "dst")

\* Mutant: the tag without its length.
Mutant_AppendDstPrime == pc = "dst" /\ Write(dst, "hash")

\* DST_prime = dst || I2OSP(len(dst), 1).
AppendDstPrime == pc = "dst" /\ Write(Append(dst, Len(dst) % Base), "hash")

\* Mutant: the whole buffer is hashed.
Mutant_Preimage == scratch

Preimage == SubSeq(scratch, 1, offset)

Hash ==
    /\ pc = "hash"
    /\ \E digest \in Digests : b' = Append(b, digest)
    /\ hashed' = Append(hashed, Preimage)
    /\ offset' = 0
    /\ n' = n + 1
    /\ pc' = IF n = 2 THEN "output" ELSE "digest"
    /\ UNCHANGED <<msg, dst, scratch, raw, out>>

\* (b_1 || b_2)[..L]
Output ==
    /\ pc = "output"
    /\ raw' = SubSeq(b[2] \o b[3], 1, L)
    /\ pc' = "reduce"
    /\ UNCHANGED <<msg, dst, scratch, offset, n, b, hashed, out>>

-----------------------------------------------------------------------------
(***************************************************************************)
(* reduce_be_l48.  Fr numbers below are what the four limbs hold; a        *)
(* product of two of them is the Montgomery product.                       *)
(***************************************************************************)
\* raw.rchunks_exact(8): limb j, from the least significant.
Limb(s, j) == BeValue(SubSeq(s, Len(s) - W * (j + 1) + 1, Len(s) - W * j))

MontMul(x, y) == ((((x * y) % r) * RInv) % r)

\* Mutant: the sum of two field elements is left as it is.
Mutant_FrAdd(x, y) == x + y

\* One conditional subtraction, which is enough for summands below r.
FrAdd(x, y) == IF x + y >= r THEN x + y - r ELSE x + y

\* The Montgomery form of 2^192 is 2^192 * R, with R = Radix^4.
TWO_POW_192 ==
    ((Radix * Radix * Radix) * ((Radix * Radix * Radix * Radix) % r)) % r

reduce_limbs(l0, l1, l2, h0, h1, h2) ==
    FrAdd(MontMul(h0 + h1 * Radix + h2 * Radix * Radix, TWO_POW_192),
          l0 + l1 * Radix + l2 * Radix * Radix)

reduce_be_l48(s) ==
    reduce_limbs(Limb(s, 0), Limb(s, 1), Limb(s, 2),
                 Limb(s, 3), Limb(s, 4), Limb(s, 5))

\* Four limbs, the most significant first, each in big-endian bytes.
ToBytesBe(v) ==
    [k \in 1 .. 4 * W |->
        LET limb == (v \div Power(Radix, 3 - (k - 1) \div W)) % Radix
        IN  (limb \div Power(Base, W - 1 - ((k - 1) % W))) % Base]

Reduce ==
    /\ pc = "reduce"
    /\ out' = ToBytesBe(reduce_be_l48(raw))
    /\ pc' = "done"
    /\ UNCHANGED <<msg, dst, scratch, offset, n, b, hashed, raw>>

-----------------------------------------------------------------------------
Init ==
    /\ msg \in Messages /\ dst \in Dsts
    /\ Compiles(msg, dst)
    /\ scratch = [k \in 1 .. MAX_SCRATCH |-> 0]
    /\ offset = R_IN_BYTES
    /\ pc = "msg"
    /\ n = 0
    /\ b = <<>>
    /\ hashed = <<>>
    /\ raw = <<>>
    /\ out = <<>>

Next ==
    \/ WriteMsg \/ WriteLength \/ WriteDigest \/ WriteNumber
    \/ AppendDstPrime \/ Hash \/ Output \/ Reduce

Spec == Init /\ [][Next]_vars

-----------------------------------------------------------------------------
(***************************************************************************)
(* What is required of it.                                                 *)
(***************************************************************************)
\* The preimages of expand_message_xmd as RFC 9380 writes them down.
DST_prime == Append(dst, Len(dst))
Z_pad     == [k \in 1 .. R_IN_BYTES |-> 0]

RfcPreimage(k) ==
    CASE k = 1 -> Z_pad \o msg \o L_I_B_STR \o <<0>> \o DST_prime
      [] k = 2 -> b[1] \o <<1>> \o DST_prime
      [] k = 3 -> XorBytes(b[1], b[2]) \o <<2>> \o DST_prime

\* Whatever an earlier preimage left in the scratch buffer, SHA-256 is given
\* the preimages of RFC 9380, byte for byte (expand_message_xmd_sha256_l48).
PreimagesMatchRfc ==
    \A k \in 1 .. Len(hashed) : hashed[k] = RfcPreimage(k)

\* No slice of the scratch buffer is out of range: what the assertions check
\* at compile time is enough for all three preimages ("no runtime error path").
NeverPanics == pc # "panic"

\* The result is the canonical representative, in big-endian bytes, of the
\* whole 48-byte number modulo r (reduce_be_l48, hash_to_field_bn254_fr).
ResultIsRemainder ==
    pc = "done" => /\ Len(out) = 4 * W
                   /\ BeValue(out) = BeValue(raw) % r

-----------------------------------------------------------------------------
(***************************************************************************)
(* The inductive invariant: the scratch buffer starts with as much of the  *)
(* current preimage as the step has reached, and what is reduced has L     *)
(* bytes.                                                                  *)
(***************************************************************************)
TypeOK ==
    /\ msg \in Messages /\ dst \in Dsts /\ Compiles(msg, dst)
    /\ scratch \in [1 .. MAX_SCRATCH -> Byte]
    /\ offset \in 0 .. MAX_SCRATCH
    /\ n \in 0 .. 3
    /\ b \in Seq(Digests) /\ Len(b) = n
    /\ hashed \in Seq(Seq(Byte)) /\ Len(hashed) = n
    /\ pc \in {"msg", "length", "digest", "number", "dst", "hash",
               "output", "reduce", "done"}

Body ==
    IF n = 0 THEN Z_pad \o msg \o L_I_B_STR
    ELSE IF n = 1 THEN b[1] ELSE XorBytes(b[1], b[2])

Written ==
    CASE pc = "msg"    -> Z_pad
      [] pc = "length" -> Z_pad \o msg
      [] pc = "digest" -> <<>>
      [] pc = "number" -> Body
      [] pc = "dst"    -> Body \o <<n>>
      [] pc = "hash"   -> Body \o <<n>> \o DST_prime

Assembling == pc \in {"msg", "length", "digest", "number", "dst", "hash"}

IInv ==
    /\ TypeOK
    /\ pc \in {"msg", "length"} => n = 0
    /\ pc = "digest" => n \in {1, 2}
    /\ pc \in {"number", "dst", "hash"} => n <= 2
    /\ pc = "output" => n = 3
    /\ Assembling => Preimage = Written
    /\ PreimagesMatchRfc
    /\ pc \in {"reduce", "done"} => raw \in Seq(Byte) /\ Len(raw) = L
    /\ ResultIsRemainder
=============================================================================
