----------------------------- MODULE MCUnitScan -----------------------------
(* A small cast for UnitScan: an army unit and a base of ours, an enemy    *)
(* worker, two enemy lights and one resource patch.                        *)
EXTENDS UnitScan, TLC

CONSTANTS base, heavy, eworker, elight1, elight2, patch

MCUnits == {base, heavy, eworker, elight1, elight2, patch}

MCPlayerOf ==
    base :> "me" @@ heavy :> "me" @@ patch :> "neutral"
    @@ eworker :> "enemy" @@ elight1 :> "enemy" @@ elight2 :> "enemy"

MCTypeOf ==
    base :> "base" @@ heavy :> "heavy" @@ patch :> "resource"
    @@ eworker :> "worker" @@ elight1 :> "light" @@ elight2 :> "light"

\* The game starts with our base, an enemy worker and the patch.
MCStarters == {base, eworker, patch}

\* The prices of the original unit type table, light and heavy told apart.
MCCost ==
    "base" :> 10 @@ "barracks" :> 5 @@ "worker" :> 1 @@ "resource" :> 1
    @@ "heavy" :> 3 @@ "light" :> 2 @@ "ranged" :> 2
=============================================================================
