--------------------------- MODULE MCFixtureCache ---------------------------
(***************************************************************************)
(* Three tests; a circuit, one that does not compile, and an unknown       *)
(* variant.                                                                *)
(***************************************************************************)
EXTENDS FixtureCache

CONSTANTS t1, t2, t3

MCThreads == {t1, t2, t3}
=============================================================================
