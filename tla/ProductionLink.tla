--------------------------- MODULE ProductionLink ---------------------------
(***************************************************************************)
(* decideProduction() of MicroPhantom.java and the solver process it       *)
(* starts, main() of problem_model/src/main.cpp.  In each frame where a    *)
(* barracks is idle the bot opens a server on TCP port 1085, executes the  *)
(* solver, accepts a connection, writes the game state, reads the answer   *)
(* and closes the server.  Bots of one virtual machine take turns; bots of *)
(* two virtual machines share nothing but the port.                        *)
(*                                                                         *)
(* The contents of the game state and of the answer are left out, except   *)
(* for what the protocol can tell apart: which question an answer answers, *)
(* and whether the serialised answer has any byte (proto3 gives none to    *)
(* three zeros, so that "produce nothing" arrives as an end of stream).    *)
(***************************************************************************)
EXTENDS Naturals, Sequences, FiniteSets

CONSTANTS
    Bots,
    JvmOf,      \* the virtual machine that runs the bot
    MaxFrame,   \* bound on the calls of decideProduction() by one bot
    Faults      \* what may go wrong: a subset of AllFaults

AllFaults == {
    "exec",     \* Runtime.exec() throws IOException
    "connect",  \* the solver dies before it connects
    "recv",     \* the solver dies connected, before it has read its input
    "solve"}    \* the solver dies after that, before it answers

ASSUME LinkAssumption ==
    /\ IsFiniteSet(Bots)
    /\ MaxFrame \in Nat \ {0}
    /\ Faults \subseteq AllFaults

None == <<>>   \* no question, no solver
Requests == Bots \X (1 .. MaxFrame)

\* A solver process is named by the bot and the frame that execute it.
Solvers == Requests

VARIABLES
    pc,       \* bot: "game" outside decideProduction(), else its next step
    frame,    \* calls of decideProduction() so far
    channel,  \* serverSocketChannel: "null", "open" (not bound), "bound", "closed"
    backlog,  \* connections completed by the kernel and not accepted yet
    client,   \* the solver behind the last SocketChannel accepted, or None
    order,    \* number_*_to_produce: the question it answers (None: zeros), and when
    outcome,  \* how the last call ended: "none", "answered" or "failed"
    solver,   \* process: "none", "started", "connected", "informed", "sent",
              \* "exited", "deaf" (died before recv) or "killed" (died after it)
    host,     \* process: the bot whose server it connected to, or "nobody"
    cut,      \* process: its connection was reset by the bot's side
    inbox,    \* process: the question written to its socket, or None
    request,  \* process: the question it has read, or None
    answer    \* process: "nothing" so far, "zeros" or "some"

bot_vars == <<pc, frame, channel, client, order, outcome>>
solver_vars == <<solver, host, cut, inbox, request, answer>>
vars == <<bot_vars, backlog, solver_vars>>

Init ==
    /\ pc = [b \in Bots |-> "game"]
    /\ frame = [b \in Bots |-> 0]
    /\ channel = [b \in Bots |-> "null"]
    /\ backlog = [b \in Bots |-> <<>>]
    /\ client = [b \in Bots |-> None]
    /\ order = [b \in Bots |-> [request |-> None, frame |-> 0]]
    /\ outcome = [b \in Bots |-> "none"]
    /\ solver = [s \in Solvers |-> "none"]
    /\ host = [s \in Solvers |-> "nobody"]
    /\ cut = [s \in Solvers |-> FALSE]
    /\ inbox = [s \in Solvers |-> None]
    /\ request = [s \in Solvers |-> None]
    /\ answer = [s \in Solvers |-> "nothing"]

-----------------------------------------------------------------------------
(* The bot                                                                 *)

PortIsFree == \A b \in Bots : channel[b] # "bound"

\* The game loop of a virtual machine calls its bots one after the other.
HasTheTurn(b) ==
    \A c \in Bots : JvmOf[c] = JvmOf[b] => pc[c] = "game"

\* Closing servers resets the connections that wait in their backlogs.
CloseServers(S) ==
    /\ backlog' = [b \in Bots |-> IF b \in S THEN <<>> ELSE backlog[b]]
    /\ channel' = [b \in Bots |-> IF b \in S THEN "closed" ELSE channel[b]]

Hangup(b) ==
    /\ CloseServers({b})
    /\ cut' = [s \in Solvers |-> cut[s] \/ s \in {backlog[b][i] : i \in DOMAIN backlog[b]}]

\* An exception that decideProduction() does not catch reaches the main loop
\* of the harness: the virtual machine ends and its sockets are closed.
Uncaught(b) ==
    LET dead == {c \in Bots : JvmOf[c] = JvmOf[b]} IN
    /\ pc' = [c \in Bots |-> IF c \in dead THEN "crashed" ELSE pc[c]]
    /\ CloseServers(dead)
    /\ cut' = [s \in Solvers |-> cut[s] \/ host[s] \in dead]
    /\ UNCHANGED <<frame, client, order, outcome, solver, host, inbox, request, answer>>

\* open() if there is no open channel, then bind().  An AlreadyBoundException
\* and a failure to bind because the port is taken are both swallowed.
OpenAndBind(b) ==
    /\ pc[b] = "game" /\ HasTheTurn(b)
    /\ frame[b] < MaxFrame
    /\ frame' = [frame EXCEPT ![b] = @ + 1]
    /\ channel' = [channel EXCEPT ![b] =
                     IF PortIsFree \/ @ = "bound" THEN "bound" ELSE "open"]
    /\ pc' = [pc EXCEPT ![b] = "exec"]
    /\ UNCHANGED <<backlog, client, order, outcome, solver_vars>>

Exec(b) ==
    /\ pc[b] = "exec"
    /\ solver' = [solver EXCEPT ![<<b, frame[b]>>] = "started"]
    /\ pc' = [pc EXCEPT ![b] = "accept"]
    /\ UNCHANGED <<frame, channel, client, order, outcome, backlog,
                   host, cut, inbox, request, answer>>

\* catch( IOException ): the order and the server are left as they are.
Fails(b) ==
    /\ pc' = [pc EXCEPT ![b] = "game"]
    /\ outcome' = [outcome EXCEPT ![b] = "failed"]
    /\ UNCHANGED <<frame, channel, client, order, backlog, solver_vars>>

ExecFails(b) ==
    /\ pc[b] = "exec"
    /\ "exec" \in Faults
    /\ Fails(b)

\* A fault that a run seeds: the SocketChannel of the last frame is used again.
FirstEver(b) == IF client[b] # None THEN client[b] ELSE Head(backlog[b])

\* accept() takes the oldest connection, whoever opened it.
Oldest(b) == Head(backlog[b])

Accept(b) ==
    /\ pc[b] = "accept"
    /\ channel[b] = "bound"
    /\ backlog[b] # <<>>
    /\ client' = [client EXCEPT ![b] = Oldest(b)]
    /\ backlog' = [backlog EXCEPT ![b] = Tail(@)]
    /\ pc' = [pc EXCEPT ![b] = "write"]
    /\ UNCHANGED <<frame, channel, order, outcome, solver_vars>>

\* accept() on a channel that bind() left unbound: NotYetBoundException.
AcceptUnbound(b) ==
    /\ pc[b] = "accept"
    /\ channel[b] # "bound"
    /\ Uncaught(b)

Write(b) ==
    /\ pc[b] = "write"
    /\ inbox' = [inbox EXCEPT ![client[b]] = <<b, frame[b]>>]
    /\ pc' = [pc EXCEPT ![b] = "read"]
    /\ UNCHANGED <<frame, channel, client, order, outcome, backlog,
                   solver, host, cut, request, answer>>

Returns(b) ==
    /\ outcome' = [outcome EXCEPT ![b] = "answered"]
    /\ pc' = [pc EXCEPT ![b] = "game"]
    /\ UNCHANGED <<frame, client, solver, host, inbox, request, answer>>

\* Faults that a run seeds: the server stays open, an end of stream leaves the
\* order as it was.
SettleOpen(b, r) ==
    /\ order' = [order EXCEPT ![b] = [request |-> r, frame |-> frame[b]]]
    /\ Returns(b)
    /\ UNCHANGED <<channel, backlog, cut>>
SettleLate(b, r) ==
    /\ order' = IF r = None THEN order
                ELSE [order EXCEPT ![b] = [request |-> r, frame |-> frame[b]]]
    /\ Returns(b)
    /\ Hangup(b)

\* parseFrom(), the three assignments, and close() of the server.
Settle(b, r) ==
    /\ order' = [order EXCEPT ![b] = [request |-> r, frame |-> frame[b]]]
    /\ Returns(b)
    /\ Hangup(b)

ReadAnswer(b) ==
    /\ pc[b] = "read"
    /\ answer[client[b]] = "some"
    /\ Settle(b, request[client[b]])

\* A fault that a run seeds: only bytes end the wait.
ReadOnlyBytes(b) ==
    /\ pc[b] = "read"
    /\ answer[client[b]] = "some"
    /\ Settle(b, request[client[b]])

\* read() returns -1: the solver is gone and has sent no byte.
ReadEndOfStream(b) ==
    /\ pc[b] = "read"
    /\ solver[client[b]] \in {"exited", "deaf", "killed"}
    /\ answer[client[b]] # "some"
    /\ Settle(b, None)

\* A fault that a run seeds: the bot stops waiting while the solver works.
ReadTimesOut(b) ==
    /\ pc[b] = "read"
    /\ Fails(b)

\* A solver that dies with input unread resets the connection.
ReadReset(b) ==
    /\ pc[b] = "read"
    /\ solver[client[b]] = "deaf"
    /\ Fails(b)

\* gameOver() closes the server of a failed frame; without any earlier call
\* of decideProduction() the channel is null and isOpen() throws.
GameOver(b) ==
    /\ pc[b] = "game" /\ HasTheTurn(b)
    /\ channel[b] \in {"open", "bound"}
    /\ Hangup(b)
    /\ UNCHANGED <<pc, frame, client, order, outcome, solver, host, inbox, request, answer>>

GameOverNull(b) ==
    /\ pc[b] = "game" /\ HasTheTurn(b)
    /\ channel[b] = "null"
    /\ Uncaught(b)

-----------------------------------------------------------------------------
(* The solver                                                              *)

Connect(s) ==
    /\ solver[s] = "started"
    /\ \E b \in Bots :
         /\ channel[b] = "bound"
         /\ backlog' = [backlog EXCEPT ![b] = Append(@, s)]
         /\ host' = [host EXCEPT ![s] = b]
    /\ solver' = [solver EXCEPT ![s] = "connected"]
    /\ UNCHANGED <<bot_vars, cut, inbox, request, answer>>

\* connect() < 0: exit( EXIT_FAILURE ).
ConnectRefused(s) ==
    /\ solver[s] = "started"
    /\ PortIsFree
    /\ solver' = [solver EXCEPT ![s] = "exited"]
    /\ UNCHANGED <<bot_vars, backlog, host, cut, inbox, request, answer>>

\* recv() blocks until there is input; its result is not looked at, and with a
\* connection reset main() goes on with whatever the buffer holds.
Recv(s) ==
    /\ solver[s] = "connected"
    /\ inbox[s] # None \/ cut[s]
    /\ request' = [request EXCEPT ![s] = inbox[s]]
    /\ solver' = [solver EXCEPT ![s] = "informed"]
    /\ UNCHANGED <<bot_vars, backlog, host, cut, inbox, answer>>

\* solve(), whose result is not looked at, and send().
SolveAndSend(s) ==
    /\ solver[s] = "informed"
    /\ \E a \in {"zeros", "some"} : answer' = [answer EXCEPT ![s] = a]
    /\ solver' = [solver EXCEPT ![s] = "sent"]
    /\ UNCHANGED <<bot_vars, backlog, host, cut, inbox, request>>

Exit(s) ==
    /\ solver[s] = "sent"
    /\ solver' = [solver EXCEPT ![s] = "exited"]
    /\ UNCHANGED <<bot_vars, backlog, host, cut, inbox, request, answer>>

Die(s) ==
    /\ \/ /\ solver[s] = "started" /\ "connect" \in Faults
          /\ solver' = [solver EXCEPT ![s] = "exited"]
       \/ /\ solver[s] = "connected" /\ "recv" \in Faults
          /\ solver' = [solver EXCEPT ![s] = "deaf"]
       \/ /\ solver[s] = "informed" /\ "solve" \in Faults
          /\ solver' = [solver EXCEPT ![s] = "killed"]
    /\ UNCHANGED <<bot_vars, backlog, host, cut, inbox, request, answer>>

-----------------------------------------------------------------------------
Decide(b) ==
    \/ Exec(b) \/ ExecFails(b)
    \/ Accept(b) \/ AcceptUnbound(b)
    \/ Write(b)
    \/ ReadAnswer(b) \/ ReadEndOfStream(b) \/ ReadReset(b)

Work(s) == Connect(s) \/ ConnectRefused(s) \/ Recv(s) \/ SolveAndSend(s) \/ Exit(s)

Next ==
    \/ \E b \in Bots : OpenAndBind(b) \/ Decide(b) \/ GameOver(b) \/ GameOverNull(b)
    \/ \E s \in Solvers : Work(s) \/ Die(s)

\* A thread of the bot and a process of the solver that can run do run: the
\* solver works for a bounded time (90 ms) between its input and its answer.
Fairness ==
    /\ \A b \in Bots : WF_vars(Decide(b))
    /\ \A s \in Solvers : WF_vars(Work(s))

Spec == Init /\ [][Next]_vars /\ Fairness

-----------------------------------------------------------------------------
(* Properties                                                              *)

\* Type invariant.
TypeOK ==
    /\ pc \in [Bots -> {"game", "exec", "accept", "write", "read", "crashed"}]
    /\ frame \in [Bots -> 0 .. MaxFrame]
    /\ channel \in [Bots -> {"null", "open", "bound", "closed"}]
    /\ backlog \in [Bots -> Seq(Solvers)]
    /\ client \in [Bots -> Solvers \union {None}]
    /\ order \in [Bots -> [request : Requests \union {None}, frame : 0 .. MaxFrame]]
    /\ outcome \in [Bots -> {"none", "answered", "failed"}]
    /\ solver \in [Solvers -> {"none", "started", "connected", "informed",
                               "sent", "exited", "deaf", "killed"}]
    /\ host \in [Solvers -> Bots \union {"nobody"}]
    /\ cut \in [Solvers -> BOOLEAN]
    /\ inbox \in [Solvers -> Requests \union {None}]
    /\ request \in [Solvers -> Requests \union {None}]
    /\ answer \in [Solvers -> {"nothing", "zeros", "some"}]

AtWork == {"started", "connected", "informed"}

\* The exchange is synchronous: no solver is left computing an answer nobody
\* will read, and none waits in the backlog for a later accept().
NoOrphan ==
    \A s \in Solvers :
        solver[s] \in AtWork /\ pc[s[1]] # "crashed" =>
            /\ frame[s[1]] = s[2]
            /\ pc[s[1]] \in {"accept", "write", "read"}

\* A bot calls accept() on an unbound server, which stops the virtual machine,
\* only if the exchange of another bot has failed before and left it the port:
\* when every exchange ends well, bots that take turns never collide.
UnboundOnlyAfterFailure ==
    \A b \in Bots : pc[b] = "accept" /\ channel[b] # "bound" =>
        \E c \in Bots \ {b} : channel[c] = "bound" /\ outcome[c] = "failed"

\* decideProduction(), hence getAction(), returns in every frame.
DecideReturns ==
    \A b \in Bots :
        pc[b] \in {"exec", "accept", "write", "read"} ~> pc[b] \in {"game", "crashed"}

\* What the rest of getAction() sees of the exchange.
Status ==
    [b \in Bots |-> CASE pc[b] = "game" -> "playing"
                      [] pc[b] = "crashed" -> "stopped"
                      [] OTHER -> "asking"]

Promise == INSTANCE ProductionOrder WITH status <- Status

\* decideProduction() keeps the promise of ProductionOrder: it returns, and then
\* the order answers the very question of this frame or asks for nothing, unless
\* the call has failed.  Only then do the barracks follow an old order.
KeepsPromise == Promise!Spec

\* Its safety part, which no fault of the solver breaks, although accept() takes
\* any connection that comes to the port.
PromisedSteps == Promise!Init /\ [][Promise!Next]_(Promise!vars)
=============================================================================
