------------------------------ MODULE MCCircomVk ------------------------------
(***************************************************************************)
(* Coordinates of two bits: 4 and 6 do not fit and are cut to 0 and 2.     *)
(***************************************************************************)
EXTENDS CircomVk, FiniteSets

GoodG1 == <<1, 2, 1>>
GoodG2 == <<<<1, 2>>, <<3, 0>>, <<1, 0>>>>

\* Lists of every shape the parser tells apart.
OddG1 == {<<>>, <<1>>, <<1, 2>>, <<1, 1, 2, 1>>,
          <<Unparsable, 2, 1>>, <<1, Unparsable, 1>>, <<1, 2, Unparsable>>,
          <<6, 1, 1>>, <<0, 4, 1>>, <<3, 0, 1>>}
OddG2 == {<<>>, <<<<1, 2>>>>, <<<<1, 2>>, <<3, 0>>>>,
          <<<<1, 2>>, <<3, 0>>, <<2, 1>>>>,
          <<<<1, 6>>, <<3, 4>>, <<1, 0>>>>,
          <<<<1>>, <<3, 0>>, <<1, 0>>>>, <<<<1, 2, 3>>, <<3, 0>>, <<1, 0>>>>,
          <<<<1, 2>>, <<>>, <<1, 0>>>>, <<<<1, 2>>, <<3, 0>>, <<>>>>,
          <<<<1, Unparsable>>, <<3, 0>>, <<1, 0>>>>,
          <<<<1, 2>>, <<Unparsable, 0>>, <<1, 0>>>>,
          <<<<2, 1>>, <<0, 3>>, <<1, 0>>>>}
OddIc == {<<>>, <<GoodG1, GoodG1, <<3, 0, 1>>>>}
            \cup {<<p>> : p \in OddG1} \cup {<<GoodG1, p>> : p \in OddG1}
            \cup {<<p, GoodG1>> : p \in OddG1}

Good == [json |-> TRUE, alpha |-> GoodG1, beta |-> GoodG2, gamma |-> GoodG2,
         delta |-> <<<<0, 1>>, <<2, 2>>, <<1, 0>>>>, ic |-> <<GoodG1, <<2, 3, 1>>>>]

Odd(f) == CASE f = "alpha" -> OddG1
            [] f = "ic"    -> OddIc
            [] OTHER       -> OddG2 \cup {GoodG2}

\* Two fields at a time, so that the order of the checks shows.
MCRawKeys ==
    {Good, [Good EXCEPT !.json = FALSE]} \cup
    UNION {{[Good EXCEPT ![p[1]] = x, ![p[2]] = y] : x \in Odd(p[1]), y \in Odd(p[2])} :
              p \in {<<"alpha", "beta">>, <<"alpha", "gamma">>, <<"beta", "gamma">>,
                     <<"gamma", "delta">>, <<"delta", "ic">>, <<"alpha", "ic">>,
                     <<"gamma", "ic">>, <<"beta", "ic">>}}
=============================================================================
