------------------------- MODULE MCGroth16Verifier -------------------------
(***************************************************************************)
(* Small instances of Groth16Verifier.  The order of the groups is 3 and   *)
(* scalars go up to 4, so that 3 and 4 are non-canonical names of 0 and 1. *)
(* Each part of a key or a proof ranges over good and bad encodings, but   *)
(* not all of them at once: a key has at most one bad column, or its first *)
(* two are bad.                                                            *)
(***************************************************************************)
EXTENDS Groth16VerifierProps

MCHashToField == [p \in Encodings |-> IF p = OffCurve THEN 0 ELSE (2 * p + 1) % r]

Vk(gamma, ic, com) ==
    [vk_alpha_g1 |-> 1, vk_beta_g2 |-> 2, vk_gamma_g2 |-> gamma,
     vk_delta_g2 |-> 2, vk_ic |-> ic, vk_commitment |-> com]

PedersenKey(g, s) == [g2 |-> g, g_sigma_neg_g2 |-> s]

\* Columns.
Columns ==
    {<<>>, <<1>>, <<OffCurve>>, <<1, 2>>, <<1, OffCurve>>, <<OffCurve, 1>>,
     <<OffCurve, OffCurve>>,
     <<2, 1, 2>>, <<2, OffCurve, 2>>, <<2, 1, OffCurve>>,
     <<0, 1, 2, 1>>, <<1, 1, 2, OffCurve>>}

MCVks ==
    {Vk(1, ic, com) : ic \in Columns,
                      com \in {None, PedersenKey(1, 2), PedersenKey(1, OffCurve)}}
    \cup {Vk(OffCurve, <<1, 2>>, None)}

MCProofs ==
    [a : {1, OffCurve}, b : {1}, c : Points, commitment : {0, 1, OffCurve},
     pok : {0, 1, OffCurve}]

MCInputVectors == {<<>>} \cup {<<x>> : x \in Scalars}
                         \cup {<<x, y>> : x \in {1, 2, 4}, y \in {0, 2, 3}}
=============================================================================
