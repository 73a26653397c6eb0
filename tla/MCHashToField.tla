--------------------------- MODULE MCHashToField ---------------------------
(***************************************************************************)
(* Two bytes of base 4 in a limb of base 16, digests of 8 bytes, blocks of *)
(* 9, and a scratch buffer that the longest message and tag just fill.     *)
(***************************************************************************)
EXTENDS HashToField, FiniteSets

MCXor == [x \in Byte |-> [y \in Byte |->
            LET bit(z, k) == (z \div k) % 2 IN
            2 * ((bit(x, 2) + bit(y, 2)) % 2) + ((bit(x, 1) + bit(y, 1)) % 2)]]

\* Messages of every length up to 6, tags of every length up to 4: some pairs
\* do not compile, some fill the buffer to its last byte.
MCMessages == {[k \in 1 .. l |-> 3 - (k % 2)] : l \in 0 .. 6}
MCDsts     == {[k \in 1 .. l |-> k % 4] : l \in 0 .. 4}

\* Extreme and mixed digests.
MCDigests ==
    {[k \in 1 .. B_IN_BYTES |-> 0], [k \in 1 .. B_IN_BYTES |-> 3],
     [k \in 1 .. B_IN_BYTES |-> k % 4], [k \in 1 .. B_IN_BYTES |-> (k \div 2) % 3],
     [k \in 1 .. B_IN_BYTES |-> IF k = 4 THEN 3 ELSE 0],
     [k \in 1 .. B_IN_BYTES |-> IF k <= 4 THEN 3 ELSE 0]}
=============================================================================
