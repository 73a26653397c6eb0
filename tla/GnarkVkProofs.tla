--------------------------- MODULE GnarkVkProofs ---------------------------
(***************************************************************************)
(* For inputs of every length and content: parse_gnark_vk_bytes accepts    *)
(* exactly what gnark writes, never allocates more columns than the input  *)
(* holds, and returns keys that fit the verifier.                          *)
(***************************************************************************)
EXTENDS GnarkVk, TLAPS

-----------------------------------------------------------------------------
(***************************************************************************)
(* The numbers in an image, each at its place.                             *)
(***************************************************************************)

\* A position in an image holds one number.
LEMMA NumberAt ==
    ASSUME NEW n \in Nat, NEW c \in {0, 1}, NEW p \in Nat, NEW v \in Nat,
           <<p, v>> \in ImageNumbers(n, c)
    PROVE  /\ p = 576 => v = n
           /\ p = 580 + 64 * n => v = c
           /\ c = 1 /\ p = 584 + 64 * n => v = 0
           /\ p = 584 + 64 * n + 4 * c => v = c
BY DEF ImageNumbers

\* Which numbers an image holds.
LEMMA NumbersOf ==
    ASSUME NEW n \in Nat
    PROVE  /\ ImageNumbers(n, 0) = {<<576, n>>, <<580 + 64 * n, 0>>,
                                    <<584 + 64 * n, 0>>}
           /\ ImageNumbers(n, 1) = {<<576, n>>, <<580 + 64 * n, 1>>,
                                    <<584 + 64 * n, 0>>, <<588 + 64 * n, 1>>}
<1>1. 584 + 64 * n + 4 * 0 = 584 + 64 * n /\ 584 + 64 * n + 4 * 1 = 588 + 64 * n
  OBVIOUS
<1> QED BY <1>1 DEF ImageNumbers

\* The parser starts in the invariant.
LEMMA InitIInv == Init => IInv
<1> SUFFICES ASSUME Init PROVE IInv
  OBVIOUS
<1>1. TypeOK
  BY LengthsAssumption DEF Init, TypeOK, FixedHead, Parts, NoKey
<1>2. Layout
  BY DEF Init, Layout, HeadOffset
<1> QED BY <1>1, <1>2, LengthsAssumption
        DEF Init, IInv, AllocationCovered, AcceptsExactlyImages, KeyFitsVerifier,
            Errors

\* Returning an error keeps it when no image has the numbers read so far.
LEMMA FailKeeps ==
    ASSUME IInv, NEW error \in Errors, Fail(error),
           pos' \in 0 .. len, seen' \subseteq (0 .. len) \X Nat,
           \A nc \in Images : len = ImageSize(nc[1], nc[2]) =>
                                  ~(seen' \subseteq ImageNumbers(nc[1], nc[2]))
    PROVE  IInv'
<1>1. TypeOK'
  BY DEF IInv, TypeOK, Fail, Parts
<1>2. Layout'
  BY DEF Fail, Layout
<1>3. AllocationCovered'
  BY DEF IInv, AllocationCovered, Fail
<1>4. AcceptsExactlyImages'
  BY DEF AcceptsExactlyImages, Fail, Errors, Images
<1>5. KeyFitsVerifier'
  BY DEF KeyFitsVerifier, Fail, Errors
<1> QED BY <1>1, <1>2, <1>3, <1>4, <1>5 DEF IInv

\* An image is longer than its head, its columns and its numbers.
LEMMA ImageIsLong ==
    ASSUME NEW nc \in Images, len \in Nat
    PROVE  /\ nc[1] \in Nat /\ nc[1] >= 1 /\ nc[2] \in {0, 1}
           /\ nc[2] = 1 => nc[1] >= 2
           /\ ImageSize(nc[1], nc[2]) = 588 + 64 * nc[1] + 260 * nc[2]
           /\ ImageSize(nc[1], nc[2]) \in Nat
BY DEF Images, ImageSize

\* Reading one item of the fixed head.
LEMMA ReadHeadKeeps ==
    ASSUME IInv, ReadHead
    PROVE  IInv'
<1>1. /\ at = "head" /\ h \in 1 .. 6 /\ pos = HeadOffset[h] /\ seen = {}
      /\ len \in Nat /\ pos \in 0 .. len /\ res = "none" /\ nIc = 0 /\ nIc' = 0
  BY DEF ReadHead, IInv, TypeOK, Layout, FixedHead
<1>2. /\ FixedHead[h] \in Nat /\ HeadOffset[h] + FixedHead[h] <= 576
      /\ HeadOffset[h] + FixedHead[h] = HeadOffset[h + 1]
  BY <1>1 DEF FixedHead, HeadOffset
<1>3. CASE CanTake(FixedHead[h])
  <2>1. /\ pos' = HeadOffset[h + 1] /\ h' = h + 1
        /\ at' = IF h = 6 THEN "nbK" ELSE "head"
        /\ UNCHANGED <<len, outer, nbK, nIc, res, vk, seen>>
    BY <1>1, <1>2, <1>3 DEF ReadHead, TakeBytes, FixedHead
  <2>2. pos' \in 0 .. len /\ h' \in 1 .. 7
    BY <1>1, <1>2, <1>3, <2>1 DEF CanTake
  <2>3. TypeOK'
    BY <2>1, <2>2 DEF IInv, TypeOK, Parts, FixedHead
  <2>4. Layout'
    BY <1>1, <2>1, <2>2 DEF Layout, HeadOffset
  <2>5. AllocationCovered' /\ AcceptsExactlyImages' /\ KeyFitsVerifier'
    BY <1>1, <2>1 DEF IInv, AllocationCovered, AcceptsExactlyImages,
                      KeyFitsVerifier, Errors
  <2> QED BY <2>3, <2>4, <2>5 DEF IInv
<1>4. CASE ~CanTake(FixedHead[h])
  <2>1. Fail("Bsb22InvalidVerifyingKeyBinary") /\ UNCHANGED <<seen, pos>>
    BY <1>4 DEF ReadHead, TakeBytes
  <2>2. len < 588
    BY <1>1, <1>2, <1>4 DEF CanTake
  <2>3. \A nc \in Images : len # ImageSize(nc[1], nc[2])
    BY <1>1, <2>2, ImageIsLong
  <2> QED BY <1>1, <2>1, <2>3, FailKeeps DEF Errors, IInv, TypeOK
<1> QED BY <1>3, <1>4

\* While the parser runs it has returned nothing, and the properties about
\* what it returns hold for any step that still returns nothing.
LEMMA RunningKeeps ==
    ASSUME IInv, at # "done", UNCHANGED <<len, res, vk>>
    PROVE  AcceptsExactlyImages' /\ KeyFitsVerifier'
<1>1. res = "none"
  BY DEF IInv, Layout
<1> QED BY <1>1 DEF AcceptsExactlyImages, KeyFitsVerifier, Errors

\* Reading nb_k.
LEMMA ReadNbKKeeps ==
    ASSUME IInv, ReadNbK
    PROVE  IInv'
<1>1. /\ at = "nbK" /\ pos = 576 /\ seen = {} /\ len \in Nat
      /\ pos <= len /\ res = "none" /\ outer \in {0, 1}
  BY DEF ReadNbK, IInv, TypeOK, Layout
<1>2. CASE ~CanTake(4)
  <2>1. Fail("Bsb22InvalidVerifyingKeyBinary") /\ UNCHANGED <<seen, pos>>
    BY <1>2 DEF ReadNbK, TakeNumber
  <2>2. len < 588
    BY <1>1, <1>2 DEF CanTake
  <2>3. \A nc \in Images : len # ImageSize(nc[1], nc[2])
    BY <1>1, <2>2, ImageIsLong
  <2> QED BY <1>1, <2>1, <2>3, FailKeeps DEF Errors, IInv, TypeOK
<1>3. CASE CanTake(4)
  <2>1. PICK v \in U32s :
            /\ pos' = pos + 4 /\ seen' = seen \cup {<<pos, v>>}
            /\ IF ColumnsFit(v)
               THEN GoTo("k") /\ nbK' = v /\ UNCHANGED outer
               ELSE Fail("Bsb22InvalidVerifyingKeyBinary")
    BY <1>3 DEF ReadNbK, TakeNumber
  <2>2. /\ v \in Nat /\ pos' = 580 /\ seen' = {<<576, v>>} /\ len >= 580
        /\ pos' \in 0 .. len /\ seen' \subseteq (0 .. len) \X Nat
    BY <1>1, <1>3, <2>1, U32sAssumption DEF CanTake
  <2>3. ColumnsFit(v) <=> v # 0 /\ v <= (len - 580) \div 64
    BY <1>1 DEF ColumnsFit, remaining
  <2>4. CASE ColumnsFit(v)
    <3>1. /\ at' = "k" /\ nbK' = v
          /\ UNCHANGED <<len, h, nIc, outer, res, vk>>
      BY <2>1, <2>4 DEF GoTo
    <3>2. v >= 1 /\ 580 + 64 * v <= len
      BY <1>1, <2>2, <2>3, <2>4
    <3>3. nIc = 0
      BY <1>1 DEF IInv, Layout
    <3>4. TypeOK'
      BY <2>2, <3>1, <3>2, <3>3 DEF IInv, TypeOK, Parts
    <3>5. Layout'
      BY <1>1, <2>2, <3>1, <3>2, <3>3 DEF Layout
    <3>6. AllocationCovered'
      BY <1>1, <2>2, <3>1, <3>2, <3>3 DEF AllocationCovered
    <3> QED BY <1>1, <3>1, <3>4, <3>5, <3>6, RunningKeeps DEF IInv
  <2>5. CASE ~ColumnsFit(v)
    <3>1. Fail("Bsb22InvalidVerifyingKeyBinary")
      BY <2>1, <2>5
    <3>2. ASSUME NEW nc \in Images, len = ImageSize(nc[1], nc[2]),
                 seen' \subseteq ImageNumbers(nc[1], nc[2])
          PROVE  FALSE
      <4>1. v = nc[1]
        BY <1>1, <2>2, <3>2, ImageIsLong, NumberAt
      <4>2. v # 0 /\ v <= (len - 580) \div 64
        BY <1>1, <3>2, <4>1, ImageIsLong
      <4> QED BY <2>3, <2>5, <4>2
    <3> QED BY <2>2, <3>1, <3>2, FailKeeps DEF Errors
  <2> QED BY <2>4, <2>5
<1> QED BY <1>2, <1>3

\* Reading a column: it is there.
LEMMA ReadColumnKeeps ==
    ASSUME IInv, ReadColumn
    PROVE  IInv'
<1>1. /\ at = "k" /\ pos = 580 + 64 * nIc /\ seen = {<<576, nbK>>}
      /\ len \in Nat /\ res = "none" /\ nbK \in Nat /\ nIc \in 0 .. nbK
      /\ nIc < nbK /\ pos + 64 * (nbK - nIc) <= len /\ nbK >= 1
      /\ 64 * nbK <= len
  BY DEF ReadColumn, IInv, TypeOK, Layout, AllocationCovered
<1>2. CanTake(64)
  BY <1>1 DEF CanTake
<1>3. /\ pos' = pos + 64 /\ nIc' = nIc + 1
      /\ at' = IF nIc + 1 = nbK THEN "outer" ELSE "k"
      /\ UNCHANGED <<len, h, nbK, outer, res, vk, seen>>
  BY <1>2 DEF ReadColumn, TakeBytes
<1>4. pos' = 580 + 64 * nIc' /\ pos' \in 0 .. len /\ nIc' \in 0 .. nbK
  BY <1>1, <1>3
<1>5. TypeOK'
  BY <1>3, <1>4 DEF IInv, TypeOK, Parts
<1>6. Layout'
  BY <1>1, <1>3, <1>4 DEF Layout
<1>7. AllocationCovered'
  BY <1>1, <1>3, <1>4 DEF AllocationCovered
<1> QED BY <1>1, <1>3, <1>5, <1>6, <1>7, RunningKeeps DEF IInv

\* Reading the number of committed-wire lists.
LEMMA ReadOuterLenKeeps ==
    ASSUME IInv, ReadOuterLen
    PROVE  IInv'
<1>1. /\ at = "outer" /\ pos = 580 + 64 * nbK /\ seen = {<<576, nbK>>}
      /\ len \in Nat /\ res = "none" /\ nbK \in Nat /\ nIc = nbK
      /\ nbK >= 1 /\ pos <= len /\ 64 * nbK <= len
  BY DEF ReadOuterLen, IInv, TypeOK, Layout, AllocationCovered
<1>2. \A nc \in Images : seen \subseteq ImageNumbers(nc[1], nc[2]) => nc[1] = nbK
  BY <1>1, ImageIsLong, NumberAt
<1>3. CASE ~CanTake(4)
  <2>1. Fail("Bsb22InvalidVerifyingKeyBinary") /\ UNCHANGED <<seen, pos>>
    BY <1>3 DEF ReadOuterLen, TakeNumber
  <2>2. len < 584 + 64 * nbK
    BY <1>1, <1>3 DEF CanTake
  <2>3. ASSUME NEW nc \in Images, len = ImageSize(nc[1], nc[2]),
               seen' \subseteq ImageNumbers(nc[1], nc[2])
        PROVE  FALSE
    BY <1>1, <1>2, <2>1, <2>2, <2>3, ImageIsLong
  <2> QED BY <2>1, <2>3, FailKeeps DEF Errors, IInv, TypeOK
<1>4. CASE CanTake(4)
  <2>1. PICK v \in U32s :
            /\ pos' = pos + 4 /\ seen' = seen \cup {<<pos, v>>}
            /\ IF v > 1 THEN Fail("Bsb22UnsupportedMultiCommitment")
               ELSE /\ GoTo(IF v = 1 THEN "inner" ELSE "commitments")
                    /\ outer' = v /\ UNCHANGED nbK
    BY <1>4 DEF ReadOuterLen, TakeNumber
  <2>2. /\ v \in Nat /\ pos' = 584 + 64 * nbK
        /\ seen' = {<<576, nbK>>, <<580 + 64 * nbK, v>>}
        /\ pos' \in 0 .. len /\ seen' \subseteq (0 .. len) \X Nat
    BY <1>1, <1>4, <2>1, U32sAssumption DEF CanTake
  <2>3. CASE v > 1
    <3>1. Fail("Bsb22UnsupportedMultiCommitment")
      BY <2>1, <2>3
    <3>2. ASSUME NEW nc \in Images, len = ImageSize(nc[1], nc[2]),
                 seen' \subseteq ImageNumbers(nc[1], nc[2])
          PROVE  FALSE
      <4>1. nc[1] = nbK /\ <<580 + 64 * nbK, v>> \in ImageNumbers(nbK, nc[2])
        BY <1>1, <1>2, <2>2, <3>2
      <4>2. v = nc[2]
        BY <1>1, <2>2, <4>1, ImageIsLong, NumberAt
      <4> QED BY <1>1, <2>3, <4>2, ImageIsLong
    <3> QED BY <2>2, <3>1, <3>2, FailKeeps DEF Errors
  <2>4. CASE ~(v > 1)
    <3>1. /\ at' = (IF v = 1 THEN "inner" ELSE "commitments")
          /\ outer' = v /\ v \in {0, 1}
          /\ UNCHANGED <<len, h, nIc, nbK, res, vk>>
      BY <2>1, <2>2, <2>4 DEF GoTo
    <3>2. TypeOK'
      BY <2>2, <3>1 DEF IInv, TypeOK, Parts
    <3>3. AllocationCovered'
      BY <1>1, <3>1 DEF AllocationCovered
    <3>4. Layout'
      <4>1. CASE v = 1
        BY <1>1, <2>2, <3>1, <4>1 DEF Layout
      <4>2. CASE v = 0
        <5>1. /\ at' = "commitments" /\ outer' = 0
              /\ pos' = 584 + 64 * nbK' + 4 * outer'
          BY <1>1, <2>2, <3>1, <4>2
        <5>2. seen' = ImageNumbers(nbK', outer') \ {<<pos', outer'>>}
          <6>1. ImageNumbers(nbK, 0) =
                    {<<576, nbK>>, <<580 + 64 * nbK, 0>>, <<584 + 64 * nbK, 0>>}
            BY <1>1, NumbersOf
          <6> QED BY <1>1, <2>2, <3>1, <4>2, <6>1
        <5> QED BY <1>1, <3>1, <5>1, <5>2 DEF Layout
      <4> QED BY <3>1, <4>1, <4>2
    <3> QED BY <1>1, <3>1, <3>2, <3>3, <3>4, RunningKeeps DEF IInv
  <2> QED BY <2>3, <2>4
<1> QED BY <1>3, <1>4

\* Reading the length of the one committed-wire list.
LEMMA ReadInnerLenKeeps ==
    ASSUME IInv, ReadInnerLen
    PROVE  IInv'
<1>1. /\ at = "inner" /\ pos = 584 + 64 * nbK /\ outer = 1
      /\ seen = {<<576, nbK>>, <<580 + 64 * nbK, 1>>}
      /\ len \in Nat /\ res = "none" /\ nbK \in Nat /\ nIc = nbK
      /\ nbK >= 1 /\ pos <= len /\ 64 * nbK <= len
  BY DEF ReadInnerLen, IInv, TypeOK, Layout, AllocationCovered
<1>2. ASSUME NEW nc \in Images, seen \subseteq ImageNumbers(nc[1], nc[2])
      PROVE  nc[1] = nbK /\ nc[2] = 1
  <2>1. nc[1] = nbK
    BY <1>1, <1>2, ImageIsLong, NumberAt
  <2>2. <<580 + 64 * nbK, 1>> \in ImageNumbers(nbK, nc[2])
    BY <1>1, <1>2, <2>1
  <2> QED BY <1>1, <2>1, <2>2, ImageIsLong, NumberAt
<1>3. CASE ~CanTake(4)
  <2>1. Fail("Bsb22InvalidVerifyingKeyBinary") /\ UNCHANGED <<seen, pos>>
    BY <1>3 DEF ReadInnerLen, TakeNumber
  <2>2. len < 588 + 64 * nbK
    BY <1>1, <1>3 DEF CanTake
  <2>3. ASSUME NEW nc \in Images, len = ImageSize(nc[1], nc[2]),
               seen' \subseteq ImageNumbers(nc[1], nc[2])
        PROVE  FALSE
    BY <1>1, <1>2, <2>1, <2>2, <2>3, ImageIsLong
  <2> QED BY <2>1, <2>3, FailKeeps DEF Errors, IInv, TypeOK
<1>4. CASE CanTake(4)
  <2>1. PICK v \in U32s :
            /\ pos' = pos + 4 /\ seen' = seen \cup {<<pos, v>>}
            /\ IF v # 0 THEN Fail("Bsb22CommittedPublicInputsUnsupported")
               ELSE GoTo("commitments") /\ UNCHANGED <<nbK, outer>>
    BY <1>4 DEF ReadInnerLen, TakeNumber
  <2>2. /\ v \in Nat /\ pos' = 588 + 64 * nbK
        /\ seen' = {<<576, nbK>>, <<580 + 64 * nbK, 1>>, <<584 + 64 * nbK, v>>}
        /\ pos' \in 0 .. len /\ seen' \subseteq (0 .. len) \X Nat
    BY <1>1, <1>4, <2>1, U32sAssumption DEF CanTake
  <2>3. CASE v # 0
    <3>1. Fail("Bsb22CommittedPublicInputsUnsupported")
      BY <2>1, <2>3
    <3>2. ASSUME NEW nc \in Images, len = ImageSize(nc[1], nc[2]),
                 seen' \subseteq ImageNumbers(nc[1], nc[2])
          PROVE  FALSE
      <4>1. /\ nc[1] = nbK /\ nc[2] = 1
            /\ <<584 + 64 * nbK, v>> \in ImageNumbers(nbK, 1)
        BY <1>1, <1>2, <2>2, <3>2
      <4>2. v = 0
        BY <1>1, <2>2, <4>1, NumberAt
      <4> QED BY <2>3, <4>2
    <3> QED BY <2>2, <3>1, <3>2, FailKeeps DEF Errors
  <2>4. CASE v = 0
    <3>1. /\ at' = "commitments"
          /\ UNCHANGED <<len, h, nIc, nbK, outer, res, vk>>
      BY <2>1, <2>4 DEF GoTo
    <3>2. TypeOK'
      BY <2>2, <3>1 DEF IInv, TypeOK, Parts
    <3>3. AllocationCovered'
      BY <1>1, <3>1 DEF AllocationCovered
    <3>4. seen' = ImageNumbers(nbK', outer') \ {<<pos', outer'>>}
      <4>1. ImageNumbers(nbK, 1) =
                {<<576, nbK>>, <<580 + 64 * nbK, 1>>, <<584 + 64 * nbK, 0>>,
                 <<588 + 64 * nbK, 1>>}
        BY <1>1, NumbersOf
      <4> QED BY <1>1, <2>2, <2>4, <3>1, <4>1
    <3>5. Layout'
      BY <1>1, <2>2, <3>1, <3>4 DEF Layout
    <3> QED BY <1>1, <3>1, <3>2, <3>3, <3>5, RunningKeeps DEF IInv
  <2> QED BY <2>3, <2>4
<1> QED BY <1>3, <1>4

\* Reading the number of commitment keys.
LEMMA ReadNbCommitmentsKeeps ==
    ASSUME IInv, ReadNbCommitments
    PROVE  IInv'
<1>1. /\ at = "commitments" /\ pos = 584 + 64 * nbK + 4 * outer
      /\ seen = ImageNumbers(nbK, outer) \ {<<pos, outer>>}
      /\ outer \in {0, 1}
      /\ len \in Nat /\ res = "none" /\ nbK \in Nat /\ nIc = nbK
      /\ nbK >= 1 /\ pos <= len /\ 64 * nbK <= len
  BY DEF ReadNbCommitments, IInv, TypeOK, Layout, AllocationCovered
<1>2. <<576, nbK>> \in seen /\ <<580 + 64 * nbK, outer>> \in seen
  BY <1>1, NumbersOf
<1>3. ASSUME NEW nc \in Images, seen \subseteq ImageNumbers(nc[1], nc[2])
      PROVE  nc[1] = nbK /\ nc[2] = outer
  <2>1. nc[1] = nbK
    BY <1>1, <1>2, <1>3, ImageIsLong, NumberAt
  <2>2. <<580 + 64 * nbK, outer>> \in ImageNumbers(nbK, nc[2])
    BY <1>2, <1>3, <2>1
  <2> QED BY <1>1, <2>1, <2>2, ImageIsLong, NumberAt
<1>4. CASE ~CanTake(4)
  <2>1. Fail("Bsb22InvalidVerifyingKeyBinary") /\ UNCHANGED <<seen, pos>>
    BY <1>4 DEF ReadNbCommitments, TakeNumber
  <2>2. len < 588 + 64 * nbK + 4 * outer
    BY <1>1, <1>4 DEF CanTake
  <2>3. ASSUME NEW nc \in Images, len = ImageSize(nc[1], nc[2]),
               seen' \subseteq ImageNumbers(nc[1], nc[2])
        PROVE  FALSE
    <3>1. nc[1] = nbK /\ nc[2] = outer
      BY <1>3, <2>1, <2>3
    <3> QED BY <1>1, <2>2, <2>3, <3>1, ImageIsLong
  <2> QED BY <2>1, <2>3, FailKeeps DEF Errors, IInv, TypeOK
<1>5. CASE CanTake(4)
  <2>1. PICK v \in U32s :
            /\ pos' = pos + 4 /\ seen' = seen \cup {<<pos, v>>}
            /\ IF v > 1 THEN Fail("Bsb22UnsupportedMultiCommitment")
               ELSE IF v # outer THEN Fail("Bsb22InvalidVerifyingKeyBinary")
               ELSE /\ GoTo(IF v = 1 THEN "keys" ELSE "end")
                    /\ UNCHANGED <<nbK, outer>>
    BY <1>5 DEF ReadNbCommitments, TakeNumber
  <2>2. /\ v \in Nat /\ pos \in Nat /\ pos' = 588 + 64 * nbK + 4 * outer
        /\ pos' \in 0 .. len /\ seen' \subseteq (0 .. len) \X Nat
    <3>1. v \in Nat /\ pos \in Nat /\ pos \in 0 .. len
      BY <1>1, <2>1, U32sAssumption
    <3>2. seen \subseteq (0 .. len) \X Nat
      BY DEF IInv, TypeOK
    <3> QED BY <1>1, <1>5, <2>1, <3>1, <3>2 DEF CanTake
  <2>3. CASE v # outer
    <3>1. \E error \in Errors : Fail(error)
      BY <2>1, <2>3 DEF Errors
    <3>2. ASSUME NEW nc \in Images, len = ImageSize(nc[1], nc[2]),
                 seen' \subseteq ImageNumbers(nc[1], nc[2])
          PROVE  FALSE
      <4>1. nc[1] = nbK /\ nc[2] = outer
        BY <1>3, <2>1, <3>2
      <4>2. <<pos, v>> \in ImageNumbers(nbK, outer)
        BY <2>1, <3>2, <4>1
      <4>3. v = outer
        BY <1>1, <2>2, <4>2, NumberAt
      <4> QED BY <2>3, <4>3
    <3> QED BY <2>2, <3>1, <3>2, FailKeeps
  <2>4. CASE v = outer
    <3>1. /\ at' = (IF outer = 1 THEN "keys" ELSE "end")
          /\ UNCHANGED <<len, h, nIc, nbK, outer, res, vk>>
      BY <1>1, <2>1, <2>4 DEF GoTo
    <3>2. TypeOK'
      BY <2>2, <3>1 DEF IInv, TypeOK, Parts
    <3>3. AllocationCovered'
      BY <1>1, <3>1 DEF AllocationCovered
    <3>4. seen' = ImageNumbers(nbK', outer')
      <4>1. <<pos, outer>> \in ImageNumbers(nbK, outer)
        BY <1>1 DEF ImageNumbers
      <4> QED BY <1>1, <2>1, <2>4, <3>1, <4>1
    <3>5. /\ outer = 1 => pos' = 592 + 64 * nbK'
          /\ outer = 0 => pos' = ImageSize(nbK', outer')
      BY <1>1, <2>2, <3>1 DEF ImageSize
    <3>6. Layout'
      BY <1>1, <3>1, <3>4, <3>5 DEF Layout
    <3> QED BY <1>1, <3>1, <3>2, <3>3, <3>6, RunningKeeps DEF IInv
  <2> QED BY <2>3, <2>4
<1> QED BY <1>4, <1>5

\* Once the second count agrees with the first, the numbers are those of one
\* image, and only the length can still be wrong.
LEMMA OneImageLeft ==
    ASSUME IInv, at \in {"keys", "end"}, NEW nc \in Images,
           seen \subseteq ImageNumbers(nc[1], nc[2])
    PROVE  nc[1] = nbK /\ nc[2] = outer
<1>1. /\ seen = ImageNumbers(nbK, outer) /\ outer \in {0, 1}
      /\ nbK \in Nat /\ len \in Nat
  BY DEF IInv, TypeOK, Layout
<1>2. <<576, nbK>> \in seen /\ <<580 + 64 * nbK, outer>> \in seen
  BY <1>1, NumbersOf
<1>3. nc[1] = nbK
  BY <1>1, <1>2, ImageIsLong, NumberAt
<1>4. <<580 + 64 * nbK, outer>> \in ImageNumbers(nbK, nc[2])
  BY <1>2, <1>3
<1> QED BY <1>1, <1>3, <1>4, ImageIsLong, NumberAt

\* Reading the two points of the commitment key.
LEMMA ReadCommitmentKeysKeeps ==
    ASSUME IInv, ReadCommitmentKeys
    PROVE  IInv'
<1>1. /\ at = "keys" /\ pos = 592 + 64 * nbK /\ outer = 1
      /\ seen = ImageNumbers(nbK, outer)
      /\ len \in Nat /\ res = "none" /\ nbK \in Nat /\ nIc = nbK
      /\ nbK >= 1 /\ pos <= len /\ 64 * nbK <= len
  BY DEF ReadCommitmentKeys, IInv, TypeOK, Layout, AllocationCovered
<1>2. CASE ~CanTake(256)
  <2>1. Fail("Bsb22InvalidVerifyingKeyBinary") /\ UNCHANGED <<seen, pos>>
    BY <1>2 DEF ReadCommitmentKeys, TakeBytes
  <2>2. len < 848 + 64 * nbK
    BY <1>1, <1>2 DEF CanTake
  <2>3. ASSUME NEW nc \in Images, len = ImageSize(nc[1], nc[2]),
               seen' \subseteq ImageNumbers(nc[1], nc[2])
        PROVE  FALSE
    <3>1. nc[1] = nbK /\ nc[2] = 1
      BY <1>1, <2>1, <2>3, OneImageLeft
    <3> QED BY <1>1, <2>2, <2>3, <3>1, ImageIsLong
  <2> QED BY <2>1, <2>3, FailKeeps DEF Errors, IInv, TypeOK
<1>3. CASE CanTake(256)
  <2>1. /\ pos' = 848 + 64 * nbK /\ at' = "end"
        /\ UNCHANGED <<len, h, nIc, nbK, outer, res, vk, seen>>
    BY <1>1, <1>3 DEF ReadCommitmentKeys, TakeBytes
  <2>2. pos' \in 0 .. len /\ pos' = ImageSize(nbK', outer')
    BY <1>1, <1>3, <2>1 DEF CanTake, ImageSize
  <2>3. TypeOK'
    BY <2>1, <2>2 DEF IInv, TypeOK, Parts
  <2>4. AllocationCovered'
    BY <1>1, <2>1 DEF AllocationCovered
  <2>5. Layout'
    BY <1>1, <2>1, <2>2 DEF Layout
  <2> QED BY <1>1, <2>1, <2>3, <2>4, <2>5, RunningKeeps DEF IInv
<1> QED BY <1>2, <1>3

\* The end of the input.
LEMMA FinishKeeps ==
    ASSUME IInv, Finish
    PROVE  IInv'
<1>1. /\ at = "end" /\ pos = ImageSize(nbK, outer)
      /\ seen = ImageNumbers(nbK, outer) /\ outer \in {0, 1}
      /\ len \in Nat /\ nbK \in Nat /\ nIc = nbK
      /\ nbK >= 1 /\ pos <= len /\ 64 * nbK <= len
      /\ UNCHANGED <<seen, pos>>
  BY DEF Finish, IInv, TypeOK, Layout, AllocationCovered
<1>2. CASE pos # len \/ (outer = 1 /\ nbK < 2)
  <2>1. Fail("Bsb22InvalidVerifyingKeyBinary")
    BY <1>2 DEF Finish
  <2>2. ASSUME NEW nc \in Images, len = ImageSize(nc[1], nc[2]),
               seen' \subseteq ImageNumbers(nc[1], nc[2])
        PROVE  FALSE
    <3>1. nc[1] = nbK /\ nc[2] = outer
      BY <1>1, <2>2, OneImageLeft
    <3> QED BY <1>1, <1>2, <2>2, <3>1, ImageIsLong
  <2> QED BY <1>1, <2>1, <2>2, FailKeeps DEF Errors, IInv, TypeOK
<1>3. CASE ~(pos # len \/ (outer = 1 /\ nbK < 2))
  <2>1. /\ at' = "done" /\ res' = "Ok"
        /\ vk' = [nr_pubinputs |-> NrPubinputs, vk_ic_len |-> nIc,
                  has_commitment |-> outer = 1]
        /\ UNCHANGED <<len, h, nbK, nIc, outer>>
    BY <1>3 DEF Finish
  <2>2. NrPubinputs \in Nat
        /\ nIc = NrPubinputs + 1 + (IF outer = 1 THEN 1 ELSE 0)
    BY <1>1, <1>3 DEF NrPubinputs
  <2>3. TypeOK'
    BY <1>1, <2>1, <2>2 DEF IInv, TypeOK, Parts
  <2>4. Layout'
    BY <2>1 DEF Layout
  <2>5. AllocationCovered'
    BY <1>1, <2>1 DEF AllocationCovered
  <2>6. KeyFitsVerifier'
    BY <2>1, <2>2 DEF KeyFitsVerifier
  <2>7. AcceptsExactlyImages'
    <3> DEFINE nc == <<nbK, outer>>
    <3>1. nc \in Images' /\ nc[1] = nbK /\ nc[2] = outer
      BY <1>1, <1>3, <2>1 DEF Images, ImageSize
    <3>2. len' = ImageSize(nc[1], nc[2]) /\ seen' = ImageNumbers(nc[1], nc[2])
      BY <1>1, <1>3, <2>1, <3>1
    <3> HIDE DEF nc
    <3> QED BY <2>1, <3>1, <3>2 DEF AcceptsExactlyImages, Errors
  <2> QED BY <2>3, <2>4, <2>5, <2>6, <2>7 DEF IInv
<1> QED BY <1>2, <1>3

-----------------------------------------------------------------------------
\* The invariant of the parser: how far it is determines what it has read.
THEOREM InductiveInvariant == Spec => []IInv
<1>1. Init => IInv
  BY InitIInv
<1>2. IInv /\ [Next]_vars => IInv'
  <2> SUFFICES ASSUME IInv, [Next]_vars PROVE IInv'
    OBVIOUS
  <2>1. CASE UNCHANGED vars
    BY <2>1 DEF vars, IInv, TypeOK, Layout, AllocationCovered,
                AcceptsExactlyImages, KeyFitsVerifier, Images
  <2>2. CASE Next
    BY <2>2, ReadHeadKeeps, ReadNbKKeeps, ReadColumnKeeps, ReadOuterLenKeeps,
       ReadInnerLenKeeps, ReadNbCommitmentsKeeps, ReadCommitmentKeysKeeps,
       FinishKeeps
       DEF Next
  <2> QED BY <2>1, <2>2
<1> QED BY <1>1, <1>2, PTL DEF Spec

\* The cursor never leaves the input, whatever its length and its numbers.
THEOREM TypeCorrect == Spec => []TypeOK
<1>1. IInv => TypeOK
  BY DEF IInv
<1> QED BY <1>1, InductiveInvariant, PTL

\* parse_gnark_vk_bytes returns Ok exactly for the images that WriteRawTo
\* writes for keys with at most one commitment and no committed public input.
THEOREM AcceptsExactly == Spec => []AcceptsExactlyImages
<1>1. IInv => AcceptsExactlyImages
  BY DEF IInv
<1> QED BY <1>1, InductiveInvariant, PTL

\* nb_k is never used as an allocation size that the input does not cover,
\* and the loop over the columns never meets the end of the input.
THEOREM AllocationIsCovered == Spec => []AllocationCovered
<1>1. IInv => AllocationCovered
  BY DEF IInv
<1> QED BY <1>1, InductiveInvariant, PTL

\* A key that was parsed is accepted by the constructor of Groth16Verifier
\* that its commitment key calls for, with nr_pubinputs inputs.
THEOREM ParsedKeyFits == Spec => []KeyFitsVerifier
<1>1. IInv => KeyFitsVerifier
  BY DEF IInv
<1> QED BY <1>1, InductiveInvariant, PTL
-----------------------------------------------------------------------------
(***************************************************************************)
(* The reasons for an error.                                               *)
(***************************************************************************)

\* While the parser runs, the counts behind the columns are those of a
\* supported key.
LEMMA CountsAreSmall ==
    ASSUME IInv, at # "done"
    PROVE  \A pv \in seen : pv[1] > 576 => pv[2] <= 1
<1>1. /\ nbK \in Nat /\ outer \in {0, 1} /\ at \in Parts
      /\ seen \in {{}, {<<576, nbK>>}, {<<576, nbK>>, <<580 + 64 * nbK, 1>>}}
         \/ seen \subseteq ImageNumbers(nbK, outer)
  BY DEF IInv, TypeOK, Layout, Parts
<1>2. \A pv \in ImageNumbers(nbK, outer) : pv[1] > 576 => pv[2] <= 1
  <2>1. CASE outer = 0
    BY <1>1, <2>1, NumbersOf
  <2>2. CASE outer = 1
    BY <1>1, <2>2, NumbersOf
  <2> QED BY <1>1, <2>1, <2>2
<1> QED BY <1>1, <1>2

\* A parser that goes on, or returns a key, has no reason to tell.
LEMMA NothingToTell ==
    ASSUME res' \in {"none", "Ok"}
    PROVE  ErrorsTellTheReason'
BY DEF ErrorsTellTheReason

\* Malformed is said when every count that was read is small.
LEMMA MalformedIsTold ==
    ASSUME Fail("Bsb22InvalidVerifyingKeyBinary"),
           \A pv \in seen' : pv[1] > 576 => pv[2] <= 1
    PROVE  ErrorsTellTheReason'
BY DEF ErrorsTellTheReason, Fail

\* Several commitments are said when one of the counts is above one.
LEMMA MultiIsTold ==
    ASSUME Fail("Bsb22UnsupportedMultiCommitment"),
           \E pv \in seen' : pv[1] > 576 /\ pv[2] > 1
    PROVE  ErrorsTellTheReason'
BY DEF ErrorsTellTheReason, Fail

\* Each part of the layout keeps the reasons.
LEMMA PointsTell ==
    ASSUME IInv, at # "done", res = "none",
           ReadHead \/ ReadColumn \/ ReadCommitmentKeys \/ Finish
    PROVE  ErrorsTellTheReason'
<1>1. /\ seen' = seen
      /\ res' \in {"none", "Ok"} \/ Fail("Bsb22InvalidVerifyingKeyBinary")
  BY DEF ReadHead, ReadColumn, ReadCommitmentKeys, Finish, TakeBytes
<1> QED BY <1>1, CountsAreSmall, NothingToTell, MalformedIsTold

LEMMA NbKTells ==
    ASSUME IInv, res = "none", ReadNbK
    PROVE  ErrorsTellTheReason'
<1>1. /\ \A pv \in seen' : ~(pv[1] > 576)
      /\ res' = "none" \/ Fail("Bsb22InvalidVerifyingKeyBinary")
  <2>1. at = "nbK" /\ pos = 576 /\ seen = {}
    BY DEF ReadNbK, IInv, Layout
  <2> QED BY <2>1 DEF ReadNbK, TakeNumber, GoTo
<1> QED BY <1>1, NothingToTell, MalformedIsTold

LEMMA OuterLenTells ==
    ASSUME IInv, res = "none", ReadOuterLen
    PROVE  ErrorsTellTheReason'
<1>1. at = "outer" /\ pos = 580 + 64 * nbK /\ nbK \in Nat /\ nbK >= 1
  BY DEF ReadOuterLen, IInv, Layout, TypeOK
<1>2. CASE ~CanTake(4)
  BY <1>1, <1>2, CountsAreSmall, MalformedIsTold DEF ReadOuterLen, TakeNumber
<1>3. CASE CanTake(4)
  <2>1. PICK v \in U32s :
            /\ seen' = seen \cup {<<pos, v>>}
            /\ IF v > 1 THEN Fail("Bsb22UnsupportedMultiCommitment")
               ELSE /\ GoTo(IF v = 1 THEN "inner" ELSE "commitments")
                    /\ outer' = v /\ UNCHANGED nbK
    BY <1>3 DEF ReadOuterLen, TakeNumber
  <2>2. CASE v > 1
    <3>1. <<pos, v>> \in seen' /\ pos > 576
      BY <1>1, <2>1
    <3> QED BY <2>1, <2>2, <3>1, MultiIsTold
  <2>3. CASE ~(v > 1)
    BY <2>1, <2>3, NothingToTell DEF GoTo
  <2> QED BY <2>2, <2>3
<1> QED BY <1>2, <1>3

LEMMA InnerLenTells ==
    ASSUME IInv, res = "none", ReadInnerLen
    PROVE  ErrorsTellTheReason'
<1>1. /\ at = "inner" /\ pos = 584 + 64 * nbK /\ nbK \in Nat /\ nbK >= 1
      /\ seen = {<<576, nbK>>, <<580 + 64 * nbK, 1>>}
  BY DEF ReadInnerLen, IInv, Layout, TypeOK
<1>2. CASE ~CanTake(4)
  BY <1>1, <1>2, CountsAreSmall, MalformedIsTold DEF ReadInnerLen, TakeNumber
<1>3. CASE CanTake(4)
  <2>1. PICK v \in U32s :
            /\ seen' = seen \cup {<<pos, v>>}
            /\ IF v # 0 THEN Fail("Bsb22CommittedPublicInputsUnsupported")
               ELSE GoTo("commitments") /\ UNCHANGED <<nbK, outer>>
    BY <1>3 DEF ReadInnerLen, TakeNumber
  <2>2. CASE v # 0
    <3> DEFINE counts == {pv \in seen' : pv[1] > 576}
               first  == {pv \in counts : \A qv \in counts : pv[1] <= qv[1]}
    <3>1. counts = {<<580 + 64 * nbK, 1>>, <<584 + 64 * nbK, v>>}
      BY <1>1, <2>1
    <3> HIDE DEF counts
    <3>2. <<580 + 64 * nbK, 1>> \in first
      BY <1>1, <3>1
    <3>3. <<584 + 64 * nbK, v>> \in counts \ first
      BY <1>1, <3>1
    <3> HIDE DEF first
    <3>4. \E pv \in first : pv[2] = 1 /\ \E qv \in counts \ first : qv[2] # 0
      BY <2>2, <3>2, <3>3
    <3>5. res' = "Bsb22CommittedPublicInputsUnsupported"
      BY <2>1, <2>2 DEF Fail
    <3> QED BY <3>4, <3>5 DEF counts, first, ErrorsTellTheReason
  <2>3. CASE v = 0
    BY <2>1, <2>3, NothingToTell DEF GoTo
  <2> QED BY <2>2, <2>3
<1> QED BY <1>2, <1>3

LEMMA NbCommitmentsTells ==
    ASSUME IInv, res = "none", ReadNbCommitments
    PROVE  ErrorsTellTheReason'
<1>1. /\ at = "commitments" /\ pos > 576 /\ outer \in {0, 1}
      /\ pos \in Nat /\ nbK \in Nat
  BY DEF ReadNbCommitments, IInv, Layout, TypeOK
<1>2. CASE ~CanTake(4)
  BY <1>1, <1>2, CountsAreSmall, MalformedIsTold DEF ReadNbCommitments, TakeNumber
<1>3. CASE CanTake(4)
  <2>1. PICK v \in U32s :
            /\ seen' = seen \cup {<<pos, v>>}
            /\ IF v > 1 THEN Fail("Bsb22UnsupportedMultiCommitment")
               ELSE IF v # outer THEN Fail("Bsb22InvalidVerifyingKeyBinary")
               ELSE /\ GoTo(IF v = 1 THEN "keys" ELSE "end")
                    /\ UNCHANGED <<nbK, outer>>
    BY <1>3 DEF ReadNbCommitments, TakeNumber
  <2>2. CASE v > 1
    <3>1. <<pos, v>> \in seen'
      BY <2>1
    <3> QED BY <1>1, <2>1, <2>2, <3>1, MultiIsTold
  <2>3. CASE ~(v > 1) /\ v # outer
    <3>1. \A pv \in seen' : pv[1] > 576 => pv[2] <= 1
      BY <1>1, <2>1, <2>3, CountsAreSmall, U32sAssumption
    <3> QED BY <2>1, <2>3, <3>1, MalformedIsTold
  <2>4. CASE ~(v > 1) /\ v = outer
    BY <2>1, <2>4, NothingToTell DEF GoTo
  <2> QED BY <2>2, <2>3, <2>4
<1> QED BY <1>2, <1>3

\* Several commitments, and committed public inputs, are reported as such and
\* only they are: the error of parse_gnark_vk_bytes is the one its doc names.
THEOREM ReasonsAreTold == Spec => []ErrorsTellTheReason
<1>1. Init => ErrorsTellTheReason
  BY DEF Init, ErrorsTellTheReason
<1>2. IInv /\ ErrorsTellTheReason /\ [Next]_vars => ErrorsTellTheReason'
  <2> SUFFICES ASSUME IInv, ErrorsTellTheReason, [Next]_vars
               PROVE  ErrorsTellTheReason'
    OBVIOUS
  <2>1. CASE UNCHANGED vars
    BY <2>1 DEF vars, ErrorsTellTheReason
  <2>2. CASE Next
    <3>1. at # "done" /\ res = "none"
      BY <2>2 DEF Next, ReadHead, ReadNbK, ReadColumn, ReadOuterLen, ReadInnerLen,
                  ReadNbCommitments, ReadCommitmentKeys, Finish, IInv, Layout
    <3> QED BY <2>2, <3>1, PointsTell, NbKTells, OuterLenTells, InnerLenTells,
               NbCommitmentsTells
            DEF Next
  <2> QED BY <2>1, <2>2
<1> QED BY <1>1, <1>2, InductiveInvariant, PTL DEF Spec
=============================================================================
