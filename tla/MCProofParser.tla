--------------------------- MODULE MCProofParser ---------------------------
(***************************************************************************)
(* The curve y^2 = x^3 + 3 over the field of 7 elements has 13 points, and *)
(* its twist y^2 = x^3 + 5 + 3u over the field of 49 has 52, of which 13   *)
(* are a group: small relatives of BN254, with its generator (1, 2).       *)
(* Words go up to 15.                                                      *)
(***************************************************************************)
EXTENDS ProofParser

MCG1 == {<<x, y>> \in Fq \X Fq : (y * y) % p = (x * x * x + 3) % p}

MCG2 ==
    {<<1, 2, 3, 6>>, <<1, 2, 4, 1>>, <<2, 4, 3, 6>>, <<2, 4, 4, 1>>,
     <<4, 1, 3, 6>>, <<4, 1, 4, 1>>, <<3, 2, 0, 2>>, <<3, 2, 0, 5>>,
     <<5, 1, 0, 2>>, <<5, 1, 0, 5>>, <<6, 4, 0, 2>>, <<6, 4, 0, 5>>}

\* Points of either sign, infinity, a point that is none, and integers that
\* are no field elements, or have no 32 bytes.
Good1 == {<<0, 0>>, <<1, 2>>, <<3, 4>>}
Bad1  == {<<1, 3>>, <<7, 2>>, <<1, 16>>, <<8, 16>>}
Good2 == {<<0, 0, 0, 0>>, <<1, 2, 3, 6>>, <<1, 2, 4, 1>>, <<3, 2, 0, 2>>, <<6, 4, 0, 5>>}
Bad2  == {<<2, 1, 3, 6>>, <<1, 2, 3, 9>>, <<1, 20, 3, 9>>}

MCProofs ==
    [a : Good1 \cup Bad1, b : {<<1, 2, 3, 6>>}, c : Good1 \cup Bad1]
    \cup [a : Good1 \cup {<<7, 2>>}, b : Good2 \cup Bad2, c : {<<3, 3>>, <<1, 16>>}]

MCSignals == {<<>>, <<1, 15>>, <<7, 0>>, <<16, 3>>, <<100, 5>>, <<1, 2, 3>>}
=============================================================================
