---------------------------- MODULE MCProduction ----------------------------
(* The prices of the original unit type table, with a base at 6 instead of *)
(* 10 to keep the range of resources small, heavy dearer than the others.  *)
EXTENDS Production

MCPrice == [t \in Priced |->
    CASE t = "worker"   -> 1
      [] t = "base"     -> 6
      [] t = "barracks" -> 5
      [] t = "heavy"    -> 3
      [] OTHER          -> 2]

\* Light and ranged units take less time than heavy ones, light ones the least.
MCDuration == [t \in ArmyTypes |-> CASE t = "heavy" -> 120 [] t = "light" -> 80 [] OTHER -> 100]

\* None, or what two barracks have left of an order for one heavy unit.
MCOldOrders == {Nothing, [t \in ArmyTypes |-> IF t = "light" THEN -1 ELSE 0]}

\* Less than no resource, none, the price, and more than the stock.
MCHeavyCosts == {-2, 0, 3, 20}
=============================================================================
