-------------------------- MODULE MCProductionLink --------------------------
(* Instances of ProductionLink: one bot; two bots of one virtual machine;  *)
(* two bots of two virtual machines.                                       *)
EXTENDS ProductionLink

CONSTANTS bot1, bot2

OneBot  == {bot1}
TwoBots == {bot1, bot2}

Alone    == [c \in OneBot |-> 1]
Together == [c \in TwoBots |-> 1]
Apart    == [c \in TwoBots |-> IF c = bot1 THEN 1 ELSE 2]
=============================================================================
