--------------------------- MODULE ProductionOrder ---------------------------
(***************************************************************************)
(* What decideProduction() promises the rest of getAction(): it ends, and  *)
(* the order it leaves in number_*_to_produce is the answer to the very    *)
(* question it asked in this frame, or nothing to produce, or, when the    *)
(* exchange with the solver failed, the order left by an earlier frame.    *)
(***************************************************************************)
EXTENDS Naturals

CONSTANTS Bots, MaxFrame

None == <<>>   \* no question, no solver

VARIABLES
    status,   \* "playing", "asking" or "stopped" by an exception
    frame,    \* the number of times the bot has asked
    order,    \* [request |-> the question answered or None, frame |-> when]
    outcome   \* how the last call ended: "none", "answered" or "failed"

vars == <<status, frame, order, outcome>>

Requests == Bots \X (1 .. MaxFrame)

Init ==
    /\ status = [b \in Bots |-> "playing"]
    /\ frame = [b \in Bots |-> 0]
    /\ order = [b \in Bots |-> [request |-> None, frame |-> 0]]
    /\ outcome = [b \in Bots |-> "none"]

Ask(b) ==
    /\ status[b] = "playing"
    /\ frame[b] < MaxFrame
    /\ status' = [status EXCEPT ![b] = "asking"]
    /\ frame' = [frame EXCEPT ![b] = @ + 1]
    /\ UNCHANGED <<order, outcome>>

Settle(b) ==
    /\ status[b] = "asking"
    /\ \E r \in {<<b, frame[b]>>, None} :
         order' = [order EXCEPT ![b] = [request |-> r, frame |-> frame[b]]]
    /\ status' = [status EXCEPT ![b] = "playing"]
    /\ outcome' = [outcome EXCEPT ![b] = "answered"]
    /\ UNCHANGED frame

GiveUp(b) ==
    /\ status[b] = "asking"
    /\ status' = [status EXCEPT ![b] = "playing"]
    /\ outcome' = [outcome EXCEPT ![b] = "failed"]
    /\ UNCHANGED <<frame, order>>

\* An exception that nobody catches stops the virtual machine, and with it
\* every bot that it runs.
Stop(S) ==
    /\ \E b \in S : status[b] # "stopped"
    /\ status' = [b \in Bots |-> IF b \in S THEN "stopped" ELSE status[b]]
    /\ UNCHANGED <<frame, order, outcome>>

Next ==
    \/ \E b \in Bots : Ask(b) \/ Settle(b) \/ GiveUp(b)
    \/ \E S \in SUBSET Bots : Stop(S)

Ends == \A b \in Bots : WF_vars(Settle(b) \/ GiveUp(b))

Spec == Init /\ [][Next]_vars /\ Ends
=============================================================================
