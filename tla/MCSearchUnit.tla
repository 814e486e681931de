---------------------------- MODULE MCSearchUnit ----------------------------
(* A problem of the same kind as microPhantom's, small: units assigned and *)
(* produced, a stock they use up with what is kept, and a demand.  With    *)
(* nothing assigned or produced it has a local minimum that no change of   *)
(* one variable leaves.                                                    *)
EXTENDS SearchUnit, TLC

MCVars == {"assign", "produce", "keep"}
MCDomain == 0 .. 2
MCConstraints == {"assignment", "stock", "demand"}

MCScope ==
    "assignment" :> {"assign", "produce"}
    @@ "stock" :> {"produce", "keep"}
    @@ "demand" :> {"produce"}

Positive(n) == IF n > 0 THEN n ELSE 0
Absolute(n) == IF n > 0 THEN n ELSE - n

MCError ==
    "assignment" :> [x \in Configurations |-> 3 * Absolute(x["assign"] - x["produce"])]
    @@ "stock"   :> [x \in Configurations |-> Positive(2 * x["produce"] + x["keep"] - 3)]
    @@ "demand"  :> [x \in Configurations |-> Positive(1 - x["produce"])]

MCCost == [x \in Configurations |-> Absolute(3 - x["assign"] - x["keep"])]

MCStartingPoint == [v \in Vars |-> 2]
=============================================================================
