---------------------------- MODULE MCVkLifecycle ----------------------------
(***************************************************************************)
(* Two key pairs, one of them with delta equal to gamma, and two setups,   *)
(* so that a pair can be replaced by the other and come back.              *)
(***************************************************************************)
EXTENDS VkLifecycle

CONSTANTS k1, k2

MCKeys == {k1, k2}
MCForgeable == {k2}
=============================================================================
