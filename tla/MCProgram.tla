----------------------------- MODULE MCProgram -----------------------------
(***************************************************************************)
(* The eight circuits with groups of order 3 and scalars up to 4.  The     *)
(* keys of 3, 4 and 6 fit their circuits; those of 0 and 5 have a column   *)
(* that is no point, 1 has a commitment key, 7 has none, and 2 lacks a     *)
(* column.                                                                 *)
(*                                                                         *)
(* A word is a pair: the number of a scalar and 0, or a point and which    *)
(* part of it; zeros are the point at infinity, and the parts of 3 are     *)
(* those of no point.                                                      *)
(***************************************************************************)
EXTENDS Program

MCWords == Scalars \X {0} \cup (1 .. 3) \X (1 .. 4)

PointOf(ws) ==
    IF \A j \in DOMAIN ws : ws[j] = <<0, 0>> THEN 0
    ELSE IF \A j \in DOMAIN ws : ws[j] = <<ws[1][1], j>> /\ ws[1][1] \in Points
         THEN ws[1][1] ELSE OffCurve

WordsOf(q, n) ==
    IF q = 0 THEN [j \in 1 .. n |-> <<0, 0>>]
    ELSE [j \in 1 .. n |-> <<IF q = OffCurve THEN 3 ELSE q, j>>]

MCFromG1 == [ws \in MCWords \X MCWords |-> PointOf(ws)]
MCFromG2 == [ws \in MCWords \X MCWords \X MCWords \X MCWords |-> PointOf(ws)]
MCFromScalar == [w \in MCWords |-> (2 * w[1] * w[2] + w[1] + w[2]) % (MaxScalar + 1)]
MCToG1 == [q \in Encodings |-> WordsOf(q, 2)]
MCToG2 == [q \in Encodings |-> WordsOf(q, 4)]
MCToScalar == [s \in Scalars |-> <<s, 0>>]

MCHashToField == [q \in Encodings |-> IF q = OffCurve THEN 0 ELSE (2 * q + 1) % r]

Columns(s) ==
    [j \in 1 .. nr_inputs(s) + (IF HasBsb22(s) THEN 2 ELSE 1) - (IF s = 2 THEN 1 ELSE 0) |->
        IF <<s, j>> \in {<<0, 1>>, <<5, 3>>} THEN OffCurve ELSE (s + j) % 3]

MCVkOf ==
    [s \in Selectors |->
        [vk_alpha_g1 |-> 1, vk_beta_g2 |-> 2, vk_gamma_g2 |-> 1, vk_delta_g2 |-> 2,
         vk_ic |-> Columns(s),
         vk_commitment |-> IF s \in {1, 4, 5, 6} THEN [g2 |-> 1, g_sigma_neg_g2 |-> 2]
                                                 ELSE None]]

MCFixtures ==
    {[selector |-> s, proof |-> [a |-> 1, b |-> 1, c |-> c, commitment |-> q[1], pok |-> q[2]],
      inputs |-> [j \in 1 .. nr_inputs(s) |-> (j * j + s) % 3]] :
        s \in Selectors, c \in Points, q \in {<<1, 1>>, <<0, 1>>, <<OffCurve, 1>>}}
=============================================================================
