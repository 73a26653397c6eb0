------------------------------ MODULE GnarkVk ------------------------------
(***************************************************************************)
(* parse_gnark_vk_bytes of src/vk/gnark.rs: the parser of the binary       *)
(* layout in which gnark writes a verifying key, read through a Cursor.    *)
(*                                                                         *)
(* The bytes of the points do not matter to the parser and are left out;   *)
(* what it decides on is the length of the input and the four-byte numbers *)
(* found on the way.  A number is chosen when it is read, and `seen'       *)
(* remembers at which position: the parser passes a position only once, so *)
(* every input of every length is covered.                                 *)
(***************************************************************************)
EXTENDS Integers, Sequences

CONSTANTS
    Lengths,    \* lengths of the input, in bytes
    U32s        \* numbers that may be found in it

ASSUME LengthsAssumption == Lengths \subseteq Nat
ASSUME U32sAssumption == U32s \subseteq Nat

VARIABLES
    len,    \* bytes.len()
    seen,   \* the numbers read, as pairs <<position, value>>
    pos,    \* cursor.pos
    at,     \* the part of the layout that is read next
    h,      \* which read of the fixed head is next
    nbK,    \* nb_k
    nIc,    \* vk_ic.len(), the columns read so far
    outer,  \* outer_len
    res,    \* "none" until the parser returns
    vk      \* what is known of the key that is returned

vars == <<len, seen, pos, at, h, nbK, nIc, outer, res, vk>>

Parts == {"head", "nbK", "k", "outer", "inner", "commitments", "keys",
          "end", "done"}

Errors == {"Bsb22InvalidVerifyingKeyBinary", "Bsb22UnsupportedMultiCommitment",
           "Bsb22CommittedPublicInputsUnsupported"}

\* alpha_g1, beta_g1 (skipped), beta_g2, gamma_g2, delta_g1 (skipped), delta_g2
FixedHead == <<64, 64, 128, 128, 64, 128>>

NoKey == [nr_pubinputs |-> 0, vk_ic_len |-> 0, has_commitment |-> FALSE]

-----------------------------------------------------------------------------
(***************************************************************************)
(* struct Cursor.                                                          *)
(***************************************************************************)
\* Mutant: the bound is one byte off.
Mutant_CanTake(n) == pos + n <= len + 1

CanTake(n) == pos + n <= len

remaining == len - pos

\* The parser returns an error; what it has read is dropped.
Fail(error) ==
    /\ at' = "done"
    /\ res' = error
    /\ UNCHANGED <<len, h, nbK, nIc, outer, vk>>

\* take(n)? followed by the part `next'; nothing but bytes is learned.
TakeBytes(n, next) ==
    /\ UNCHANGED seen
    /\ \/ /\ CanTake(n)
          /\ pos' = pos + n
          /\ at' = next
          /\ UNCHANGED <<len, outer, nbK, res, vk>>
       \/ /\ ~CanTake(n)
          /\ Fail("Bsb22InvalidVerifyingKeyBinary")
          /\ UNCHANGED pos

\* u32()?; Then(v) says what the parser does with the number.
TakeNumber(Then(_)) ==
    \/ /\ CanTake(4)
       /\ pos' = pos + 4
       /\ \E v \in U32s : seen' = seen \cup {<<pos, v>>} /\ Then(v)
    \/ /\ ~CanTake(4)
       /\ Fail("Bsb22InvalidVerifyingKeyBinary")
       /\ UNCHANGED <<seen, pos>>

GoTo(next) ==
    /\ at' = next
    /\ UNCHANGED <<len, h, nIc, res, vk>>

-----------------------------------------------------------------------------
(***************************************************************************)
(* The parts of the layout, in the order of the file.                      *)
(***************************************************************************)
ReadHead ==
    /\ at = "head"
    /\ TakeBytes(FixedHead[h], IF h = Len(FixedHead) THEN "nbK" ELSE "head")
    /\ h' = IF CanTake(FixedHead[h]) THEN h + 1 ELSE h
    /\ UNCHANGED nIc

\* Mutant: nb_k is believed.
Mutant_ColumnsFit(n) == n # 0

\* remaining() is taken after the number itself has been read.
ColumnsFit(n) == n # 0 /\ n <= (remaining - 4) \div 64

ReadNbK ==
    /\ at = "nbK"
    /\ TakeNumber(LAMBDA v :
           IF ColumnsFit(v)
           THEN GoTo("k") /\ nbK' = v /\ UNCHANGED outer
           ELSE Fail("Bsb22InvalidVerifyingKeyBinary"))

\* for _ in 0..nb_k
ReadColumn ==
    /\ at = "k"
    /\ TakeBytes(64, IF nIc + 1 = nbK THEN "outer" ELSE "k")
    /\ nIc' = IF CanTake(64) THEN nIc + 1 ELSE nIc
    /\ UNCHANGED h

\* Mutant: several commitments are called malformed.
Mutant_ReadOuterLen ==
    /\ at = "outer"
    /\ TakeNumber(LAMBDA v :
           IF v > 1 THEN Fail("Bsb22InvalidVerifyingKeyBinary")
           ELSE /\ GoTo(IF v = 1 THEN "inner" ELSE "commitments")
                /\ outer' = v /\ UNCHANGED nbK)

ReadOuterLen ==
    /\ at = "outer"
    /\ TakeNumber(LAMBDA v :
           IF v > 1 THEN Fail("Bsb22UnsupportedMultiCommitment")
           ELSE /\ GoTo(IF v = 1 THEN "inner" ELSE "commitments")
                /\ outer' = v /\ UNCHANGED nbK)

ReadInnerLen ==
    /\ at = "inner"
    /\ TakeNumber(LAMBDA v :
           IF v # 0 THEN Fail("Bsb22CommittedPublicInputsUnsupported")
           ELSE GoTo("commitments") /\ UNCHANGED <<nbK, outer>>)

\* Mutant: the two counts are not compared, the second one decides.
Mutant_ReadNbCommitments ==
    /\ at = "commitments"
    /\ TakeNumber(LAMBDA v :
           IF v > 1 THEN Fail("Bsb22UnsupportedMultiCommitment")
           ELSE GoTo(IF v = 1 THEN "keys" ELSE "end") /\ UNCHANGED <<nbK, outer>>)

ReadNbCommitments ==
    /\ at = "commitments"
    /\ TakeNumber(LAMBDA v :
           IF v > 1 THEN Fail("Bsb22UnsupportedMultiCommitment")
           ELSE IF v # outer THEN Fail("Bsb22InvalidVerifyingKeyBinary")
           ELSE GoTo(IF v = 1 THEN "keys" ELSE "end") /\ UNCHANGED <<nbK, outer>>)

\* g2 and g_sigma_neg_g2, two take_128 in a row.
ReadCommitmentKeys ==
    /\ at = "keys"
    /\ TakeBytes(256, "end")
    /\ UNCHANGED <<h, nIc>>

\* Mutant: the count of public inputs forgets the column of the hash wire.
Mutant_NrPubinputs == nbK - 1

NrPubinputs == IF outer = 1 THEN nbK - 2 ELSE nbK - 1

\* Nothing may be left, and a key with a commitment has two columns at least.
Finish ==
    /\ at = "end"
    /\ UNCHANGED <<seen, pos>>
    /\ IF pos # len \/ (outer = 1 /\ nbK < 2)
       THEN Fail("Bsb22InvalidVerifyingKeyBinary")
       ELSE /\ at' = "done"
            /\ res' = "Ok"
            /\ vk' = [nr_pubinputs |-> NrPubinputs, vk_ic_len |-> nIc,
                      has_commitment |-> outer = 1]
            /\ UNCHANGED <<len, h, nbK, nIc, outer>>

-----------------------------------------------------------------------------
Init ==
    /\ len \in Lengths
    /\ seen = {}
    /\ pos = 0
    /\ at = "head"
    /\ h = 1
    /\ nbK = 0 /\ nIc = 0 /\ outer = 0
    /\ res = "none"
    /\ vk = NoKey

Next ==
    \/ ReadHead \/ ReadNbK \/ ReadColumn \/ ReadOuterLen \/ ReadInnerLen
    \/ ReadNbCommitments \/ ReadCommitmentKeys \/ Finish

Spec == Init /\ [][Next]_vars

-----------------------------------------------------------------------------
(***************************************************************************)
(* What is required of it.                                                 *)
(***************************************************************************)
\* The input that gnark's WriteRawTo produces for a key with n columns and
\* c commitments (0 or 1): its size, and the numbers in it.
ImageSize(n, c) == 588 + 64 * n + 260 * c

ImageNumbers(n, c) ==
    {<<576, n>>, <<580 + 64 * n, c>>, <<584 + 64 * n + 4 * c, c>>}
    \cup (IF c = 1 THEN {<<584 + 64 * n, 0>>} ELSE {})

\* A key of this shape exists: the constant column, and one for the hash.
Images == {nc \in (1 .. len) \X {0, 1} : nc[1] >= 1 + nc[2]}

\* The inductive invariant: how far the cursor is in each part, and which
\* numbers have been read on the way.
HeadOffset == <<0, 64, 128, 256, 384, 448, 576>>

Layout ==
    /\ at # "done" => res = "none"
    /\ at = "head" => h <= 6 /\ pos = HeadOffset[h] /\ seen = {}
    /\ at = "nbK" => pos = 576 /\ seen = {}
    /\ at \in {"head", "nbK"} => nIc = 0
    /\ at \in {"k", "outer", "inner", "commitments", "keys", "end"} =>
          nbK >= 1
    /\ at = "k" => pos = 580 + 64 * nIc /\ seen = {<<576, nbK>>}
    /\ at \in {"outer", "inner", "commitments", "keys", "end"} => nIc = nbK
    /\ at = "outer" => pos = 580 + 64 * nbK /\ seen = {<<576, nbK>>}
    /\ at = "inner" => /\ pos = 584 + 64 * nbK /\ outer = 1
                       /\ seen = {<<576, nbK>>, <<580 + 64 * nbK, 1>>}
    /\ at = "commitments" =>
          /\ pos = 584 + 64 * nbK + 4 * outer
          /\ seen = ImageNumbers(nbK, outer) \ {<<pos, outer>>}
    /\ at = "keys" => pos = 592 + 64 * nbK /\ outer = 1
    /\ at = "end" => pos = ImageSize(nbK, outer)
    /\ at \in {"keys", "end"} => seen = ImageNumbers(nbK, outer)

\* The type invariant: the cursor stays inside the input, the counters are
\* natural numbers.
TypeOK ==
    /\ len \in Nat
    /\ pos \in 0 .. len
    /\ seen \subseteq (0 .. len) \X Nat
    /\ at \in Parts
    /\ h \in 1 .. Len(FixedHead) + 1
    /\ nbK \in Nat /\ nIc \in 0 .. nbK
    /\ outer \in {0, 1}
    /\ res \in {"none", "Ok"} \cup Errors
    /\ vk \in [nr_pubinputs : Nat, vk_ic_len : Nat, has_commitment : BOOLEAN]

\* parse_gnark_vk_bytes accepts exactly the inputs that WriteRawTo writes for
\* a key with at most one commitment and no committed public input: when it
\* returns Ok the whole input is such an image, when it returns an error what
\* it has read fits no image of this length.
AcceptsExactlyImages ==
    /\ res = "Ok" =>
          \E nc \in Images : /\ len = ImageSize(nc[1], nc[2])
                             /\ seen = ImageNumbers(nc[1], nc[2])
    /\ res \in Errors =>
          \A nc \in Images : len = ImageSize(nc[1], nc[2]) =>
                                 ~(seen \subseteq ImageNumbers(nc[1], nc[2]))

\* nb_k is not trusted: once it is accepted as an allocation size the input
\* holds all the columns it announces, so no allocation exceeds the input and
\* the loop over the columns never runs dry.
AllocationCovered ==
    /\ 64 * nbK <= len
    /\ at = "k" => /\ nIc < nbK
                  /\ pos + 64 * (nbK - nIc) <= len

\* The key that is returned fits the verifier: for nr_pubinputs inputs the
\* constructor that its commitment calls for accepts it, and the other not.
KeyFitsVerifier ==
    res = "Ok" =>
        /\ vk.nr_pubinputs \in Nat
        /\ vk.vk_ic_len = vk.nr_pubinputs + 1 + (IF vk.has_commitment THEN 1 ELSE 0)

IInv == TypeOK /\ Layout /\ AllocationCovered /\ AcceptsExactlyImages /\ KeyFitsVerifier

\* Several commitments and committed public inputs are reported as such (doc
\* of parse_gnark_vk_bytes), and only when the number that says so was read;
\* the numbers of a key rejected as malformed never say so.
ErrorsTellTheReason ==
    LET counts == {pv \in seen : pv[1] > 576}
        first  == {pv \in counts : \A qv \in counts : pv[1] <= qv[1]}
    IN
    /\ res = "Bsb22UnsupportedMultiCommitment" =>
          \E pv \in counts : pv[2] > 1
    /\ res = "Bsb22CommittedPublicInputsUnsupported" =>
          \E pv \in first : pv[2] = 1 /\ \E qv \in counts \ first : qv[2] # 0
    /\ res = "Bsb22InvalidVerifyingKeyBinary" => \A pv \in counts : pv[2] <= 1
=============================================================================
