------------------------------ MODULE MCGnarkVk ------------------------------
(***************************************************************************)
(* Inputs of the length of every key with up to four columns, and lengths  *)
(* one number, one point or one byte away from them; also every length at  *)
(* which a read of the fixed head can fail.                                *)
(***************************************************************************)
EXTENDS GnarkVk

KeyLengths == {ImageSize(n, c) : n \in 1 .. 4, c \in {0, 1}}

MCLengths ==
    {l + d : l \in KeyLengths, d \in {-128, -64, -4, -1, 0, 1, 4, 64, 128, 256}}
    \cup {0, 63, 64, 127, 128, 255, 256, 383, 384, 447, 448, 575, 576, 579,
          580, 643, 644}

\* The last is the largest number TLC knows; the code only compares it.
MCU32s == {0, 1, 2, 3, 4, 5, 2147483647}
=============================================================================
