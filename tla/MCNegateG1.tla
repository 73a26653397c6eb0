------------------------------ MODULE MCNegateG1 ------------------------------
(***************************************************************************)
(* Words of two bits.  The field modulus is one where each limb differs,   *)
(* and every y below 4^4 is tried, those above the modulus included.       *)
(***************************************************************************)
EXTENDS NegateG1, Sequences

MCWords == {<<x, z>> : x \in 0 .. 1, z \in 0 .. 1}
MCZero  == <<0, 0>>
MCFromBe == [w \in MCWords |-> 2 * w[1] + w[2]]
MCToBe   == [l \in 0 .. 3 |-> <<l \div 2, l % 2>>]

\* 2 * 64 + 1 * 16 + 0 * 4 + 3 = 147
MCFQ == [k \in 0 .. 3 |-> <<2, 1, 0, 3>>[k + 1]]

\* x is zero or not, which only the test for the identity can tell.
MCPoints ==
    {[k \in 0 .. 7 |-> IF k < 4 THEN (IF k = 3 THEN x ELSE <<0, 0>>) ELSE ys[k - 4]] :
        x \in {<<0, 0>>, <<1, 0>>}, ys \in [0 .. 3 -> MCWords]}
=============================================================================
