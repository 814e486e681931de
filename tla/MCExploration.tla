--------------------------- MODULE MCExploration ----------------------------
(* A patrol on a strip of two rows.                                        *)
EXTENDS Exploration

CONSTANTS light1, light2, light3

MCArmy == {light1, light2, light3}

\* Below the strip, two of the three units are hemmed in.
MCSituations ==
    {[walls |-> {<<2, 1>>} \union {<<x, 2>> : x \in 0 .. 6}
                \union {<<x, 3>> : x \in {0, 1, 2, 4, 5}},
      base  |-> <<6, 3>>,
      at    |-> [u \in MCArmy |-> CASE u = light1 -> <<3, 1>>
                                   [] u = light2 -> <<3, 3>>
                                   [] OTHER -> <<6, 3>>],
      late  |-> FALSE]}
=============================================================================
