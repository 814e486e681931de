------------------------ MODULE ProductionLinkProofs ------------------------
(***************************************************************************)
(* Theorems on ProductionLink, for any number of bots, virtual machines,   *)
(* calls and faults: every step of the exchange is a step that             *)
(* ProductionOrder promises, or none.                                      *)
(***************************************************************************)
EXTENDS ProductionLink, TLAPS

Elements(q) == {q[i] : i \in DOMAIN q}

\* The solvers whose connections wait for accept().
Waiting(b) == Elements(backlog[b])

NoDuplicate(q) == \A i, j \in DOMAIN q : i # j => q[i] # q[j]

\* A solver waits in one backlog at most, and once; it has been sent nothing
\* and is the client of no bot yet.
BacklogInv ==
    /\ \A b \in Bots : backlog[b] \in Seq(Solvers) /\ NoDuplicate(backlog[b])
    /\ \A b, c \in Bots : b # c => Waiting(b) \cap Waiting(c) = {}
    /\ \A b, c \in Bots : client[c] \notin Waiting(b)
    /\ \A b \in Bots : \A s \in Waiting(b) :
         solver[s] \notin {"none", "started"} /\ inbox[s] = None

\* No bot knows a solver that has not connected.
SolverInv ==
    \A s \in Solvers :
        /\ solver[s] \in {"none", "started"} =>
             inbox[s] = None /\ request[s] = None /\ \A b \in Bots : client[b] # s
        /\ request[s] \in {None, inbox[s]}

\* The solver of a call is executed once, in that call.
FrameInv ==
    \A b \in Bots :
        /\ frame[b] \in 0 .. MaxFrame
        /\ pc[b] \in {"exec", "accept", "write", "read"} => frame[b] # 0
        /\ \A n \in 1 .. MaxFrame :
             n > frame[b] \/ (n = frame[b] /\ pc[b] = "exec") => solver[<<b, n>>] = "none"

\* A solver is the client of one bot at most, which sends it one question.
ClientInv ==
    /\ \A b, c \in Bots : b # c /\ client[b] # None => client[b] # client[c]
    /\ \A b \in Bots :
         /\ pc[b] \in {"write", "read"} => client[b] \in Solvers
         /\ pc[b] = "write" => inbox[client[b]] = None
         /\ pc[b] = "read" => inbox[client[b]] = <<b, frame[b]>>

IInv == TypeOK /\ BacklogInv /\ SolverInv /\ FrameInv /\ ClientInv

-----------------------------------------------------------------------------
(* Queues                                                                  *)

LEMMA Appended ==
    ASSUME NEW q \in Seq(Solvers), NEW s \in Solvers, NoDuplicate(q), s \notin Elements(q)
    PROVE  /\ Append(q, s) \in Seq(Solvers)
           /\ NoDuplicate(Append(q, s))
           /\ Elements(Append(q, s)) = Elements(q) \union {s}
<1> DEFINE r == Append(q, s)
<1>1. /\ r \in Seq(Solvers) /\ Len(r) = Len(q) + 1 /\ Len(q) \in Nat
      /\ DOMAIN r = 1 .. Len(q) + 1 /\ DOMAIN q = 1 .. Len(q)
  OBVIOUS
<1>2. \A i \in 1 .. Len(q) : r[i] = q[i]
  OBVIOUS
<1>3. r[Len(q) + 1] = s
  OBVIOUS
<1> HIDE DEF r
<1>4. NoDuplicate(r)
  BY <1>1, <1>2, <1>3 DEF NoDuplicate, Elements
<1>5. Elements(r) = Elements(q) \union {s}
  BY <1>1, <1>2, <1>3 DEF Elements
<1> QED
  BY <1>1, <1>4, <1>5 DEF r

LEMMA Removed ==
    ASSUME NEW q \in Seq(Solvers), NoDuplicate(q), q # <<>>
    PROVE  /\ Tail(q) \in Seq(Solvers)
           /\ NoDuplicate(Tail(q))
           /\ Head(q) \in Solvers /\ Head(q) \in Elements(q)
           /\ Elements(Tail(q)) \subseteq Elements(q) \ {Head(q)}
<1>1. Len(q) \in Nat /\ Len(q) >= 1 /\ DOMAIN q = 1 .. Len(q)
  OBVIOUS
<1>2. /\ Tail(q) \in Seq(Solvers)
      /\ DOMAIN Tail(q) = 1 .. Len(q) - 1
      /\ \A i \in 1 .. Len(q) - 1 : Tail(q)[i] = q[i + 1]
  OBVIOUS
<1>3. Head(q) = q[1] /\ Head(q) \in Solvers
  BY <1>1
<1>4. NoDuplicate(Tail(q))
  BY <1>1, <1>2 DEF NoDuplicate
<1>5. Elements(Tail(q)) \subseteq Elements(q) \ {Head(q)}
  BY <1>1, <1>2, <1>3 DEF NoDuplicate, Elements
<1>6. Head(q) \in Elements(q)
  BY <1>1, <1>3 DEF Elements
<1> QED
  BY <1>2, <1>3, <1>4, <1>5, <1>6

LEMMA EmptyQueue ==
    <<>> \in Seq(Solvers) /\ NoDuplicate(<<>>) /\ Elements(<<>>) = {}
  BY DEF NoDuplicate, Elements

LEMMA NoneIsNoPair == None \notin Solvers /\ None \notin Requests
<1>1. ASSUME NEW x \in Requests PROVE x # None
  <2>1. PICK b \in Bots, n \in 1 .. MaxFrame : x = <<b, n>>
    BY DEF Requests
  <2>2. DOMAIN <<b, n>> = 1 .. 2 /\ DOMAIN <<>> = 1 .. 0
    OBVIOUS
  <2> QED
    BY <2>1, <2>2 DEF None
<1> QED
  BY <1>1 DEF Solvers

-----------------------------------------------------------------------------
(* Types                                                                   *)

LEMMA CloseTypes ==
    ASSUME TypeOK, NEW S, CloseServers(S)
    PROVE  /\ backlog' \in [Bots -> Seq(Solvers)]
           /\ channel' \in [Bots -> {"null", "open", "bound", "closed"}]
  BY EmptyQueue DEF TypeOK, CloseServers

\* One step of a bot, then of a solver.
LEMMA BotTypes ==
    ASSUME IInv, NEW b \in Bots,
           OpenAndBind(b) \/ Decide(b) \/ GameOver(b) \/ GameOverNull(b)
    PROVE  TypeOK'
<1> USE LinkAssumption DEF IInv
<1>1. CASE OpenAndBind(b)
  <2>1. frame' \in [Bots -> 0 .. MaxFrame]
    BY <1>1 DEF OpenAndBind, TypeOK
  <2>2. channel' \in [Bots -> {"null", "open", "bound", "closed"}]
    BY <1>1 DEF OpenAndBind, TypeOK
  <2> QED
    BY <1>1, <2>1, <2>2 DEF OpenAndBind, TypeOK, solver_vars
<1>2. CASE Exec(b)
  BY <1>2 DEF Exec, TypeOK
<1>3. CASE Fails(b)
  BY <1>3 DEF Fails, TypeOK, solver_vars
<1>4. CASE Accept(b)
  <2>1. Head(backlog[b]) \in Solvers /\ Tail(backlog[b]) \in Seq(Solvers)
    BY <1>4 DEF Accept, TypeOK
  <2> QED
    BY <1>4, <2>1 DEF Accept, Oldest, TypeOK, solver_vars
<1>5. CASE Uncaught(b)
  <2> DEFINE dead == {c \in Bots : JvmOf[c] = JvmOf[b]}
  <2>1. CloseServers(dead)
    BY <1>5 DEF Uncaught
  <2>2. cut' \in [Solvers -> BOOLEAN]
    BY <1>5 DEF Uncaught, TypeOK
  <2>3. pc' \in [Bots -> {"game", "exec", "accept", "write", "read", "crashed"}]
    BY <1>5 DEF Uncaught, TypeOK
  <2> QED
    BY <1>5, <2>1, <2>2, <2>3, CloseTypes DEF Uncaught, TypeOK
<1>6. CASE Write(b)
  <2>1. <<b, frame[b]>> \in Requests /\ client[b] \in Solvers
    BY <1>6 DEF Write, FrameInv, ClientInv, Requests
  <2> QED
    BY <1>6, <2>1 DEF Write, TypeOK
<1>7. ASSUME NEW r \in Requests \union {None}, Settle(b, r) PROVE TypeOK'
  <2>1. order' \in [Bots -> [request : Requests \union {None}, frame : 0 .. MaxFrame]]
    BY <1>7 DEF Settle, TypeOK
  <2>2. CloseServers({b})
    BY <1>7 DEF Settle, Hangup
  <2>3. cut' \in [Solvers -> BOOLEAN]
    BY <1>7 DEF Settle, Hangup, TypeOK
  <2> QED
    BY <1>7, <2>1, <2>2, <2>3, CloseTypes DEF Settle, Returns, TypeOK
<1>8. CASE ReadAnswer(b)
  <2>1. request[client[b]] \in Requests \union {None}
    BY <1>8 DEF ReadAnswer, ClientInv, TypeOK
  <2> QED
    BY <1>7, <1>8, <2>1 DEF ReadAnswer
<1>9. CASE GameOver(b)
  <2>1. CloseServers({b})
    BY <1>9 DEF GameOver, Hangup
  <2>2. cut' \in [Solvers -> BOOLEAN]
    BY <1>9 DEF GameOver, Hangup, TypeOK
  <2> QED
    BY <1>9, <2>1, <2>2, CloseTypes DEF GameOver, TypeOK
<1> QED
  BY <1>1, <1>2, <1>3, <1>4, <1>5, <1>6, <1>7, <1>8, <1>9
     DEF Decide, ExecFails, AcceptUnbound, ReadEndOfStream, ReadReset, GameOverNull

LEMMA SolverTypes ==
    ASSUME TypeOK, NEW s \in Solvers, Work(s) \/ Die(s)
    PROVE  TypeOK'
<1> USE DEF bot_vars
<1>1. CASE Connect(s)
  <2>1. backlog' \in [Bots -> Seq(Solvers)]
    BY <1>1 DEF Connect, TypeOK
  <2>2. host' \in [Solvers -> Bots \union {"nobody"}]
    BY <1>1 DEF Connect, TypeOK
  <2> QED
    BY <1>1, <2>1, <2>2 DEF Connect, TypeOK
<1>2. CASE ConnectRefused(s) \/ Exit(s)
  BY <1>2 DEF ConnectRefused, Exit, TypeOK
<1>3. CASE Recv(s)
  BY <1>3 DEF Recv, TypeOK
<1>4. CASE SolveAndSend(s)
  BY <1>4 DEF SolveAndSend, TypeOK
<1>5. CASE Die(s)
  BY <1>5 DEF Die, TypeOK
<1> QED
  BY <1>1, <1>2, <1>3, <1>4, <1>5 DEF Work

-----------------------------------------------------------------------------
(* The inductive invariant                                                 *)

Stages == {"game", "exec", "accept", "write", "read", "crashed"}
States == {"none", "started", "connected", "informed", "sent", "exited", "deaf", "killed"}

LEMMA WaitingAreSolvers ==
    ASSUME IInv, NEW b \in Bots
    PROVE  Waiting(b) \subseteq Solvers
<1>1. backlog[b] \in Seq(Solvers)
  BY DEF IInv, TypeOK
<1> QED
  BY <1>1 DEF Waiting, Elements

LinkInv == BacklogInv /\ SolverInv /\ FrameInv /\ ClientInv

\* A call that ends, well or not, and servers that close.
LEMMA EndOfCallInv ==
    ASSUME IInv,
           \A b \in Bots : /\ pc'[b] \in {pc[b], "game", "crashed"}
                          /\ backlog'[b] \in {backlog[b], <<>>},
           UNCHANGED <<frame, client, solver, inbox, request>>
    PROVE  LinkInv'
<1>1. \A b \in Bots : Waiting(b)' \subseteq Waiting(b)
  BY EmptyQueue DEF Waiting
<1>2. BacklogInv'
  <2>1. \A b \in Bots : backlog'[b] \in Seq(Solvers) /\ NoDuplicate(backlog'[b])
    BY EmptyQueue DEF IInv, BacklogInv
  <2> QED
    BY <1>1, <2>1 DEF IInv, BacklogInv
<1>3. SolverInv'
  BY DEF IInv, SolverInv
<1>4. FrameInv'
  BY DEF IInv, FrameInv
<1>5. ClientInv'
  BY DEF IInv, ClientInv
<1> QED
  BY <1>2, <1>3, <1>4, <1>5 DEF LinkInv

LEMMA OpenAndBindInv ==
    ASSUME IInv, NEW b \in Bots, OpenAndBind(b)
    PROVE  LinkInv'
<1> USE DEF solver_vars
<1>1. /\ pc' = [pc EXCEPT ![b] = "exec"] /\ frame' = [frame EXCEPT ![b] = @ + 1]
      /\ UNCHANGED <<backlog, client, solver, inbox, request>>
      /\ pc \in [Bots -> Stages] /\ frame \in [Bots -> 0 .. MaxFrame] /\ frame[b] < MaxFrame
  BY DEF OpenAndBind, IInv, TypeOK, Stages
<1>2. BacklogInv' /\ SolverInv'
  BY <1>1 DEF IInv, BacklogInv, SolverInv, Waiting
<1>3. FrameInv'
  <2> SUFFICES ASSUME NEW c \in Bots
               PROVE  /\ frame'[c] \in 0 .. MaxFrame
                      /\ pc'[c] \in {"exec", "accept", "write", "read"} => frame'[c] # 0
                      /\ \A n \in 1 .. MaxFrame :
                           n > frame'[c] \/ (n = frame'[c] /\ pc'[c] = "exec")
                             => solver'[<<c, n>>] = "none"
    BY DEF FrameInv
  <2>1. CASE c = b
    BY <1>1, <2>1, LinkAssumption DEF IInv, FrameInv
  <2>2. CASE c # b
    BY <1>1, <2>2 DEF IInv, FrameInv
  <2> QED
    BY <2>1, <2>2
<1>4. ClientInv'
  BY <1>1 DEF IInv, ClientInv
<1> QED
  BY <1>2, <1>3, <1>4 DEF LinkInv

\* The solver that starts was not running: its name is not taken.
LEMMA ExecInv ==
    ASSUME IInv, NEW b \in Bots, Exec(b)
    PROVE  LinkInv'
<1> DEFINE s == <<b, frame[b]>>
<1>1. /\ pc[b] = "exec" /\ pc' = [pc EXCEPT ![b] = "accept"]
      /\ solver' = [solver EXCEPT ![s] = "started"]
      /\ UNCHANGED <<backlog, frame, client, inbox, request>>
      /\ pc \in [Bots -> Stages] /\ solver \in [Solvers -> States]
  BY DEF Exec, IInv, TypeOK, Stages, States
<1>2. s \in Solvers /\ solver[s] = "none"
  BY <1>1, LinkAssumption DEF IInv, FrameInv, Solvers, Requests
<1>3. BacklogInv'
  <2>1. \A c \in Bots : s \notin Waiting(c)
    BY <1>2 DEF IInv, BacklogInv
  <2> HIDE DEF s
  <2>2. \A c \in Bots : \A r \in Waiting(c) : solver'[r] = solver[r]
    BY <1>1, <2>1, WaitingAreSolvers
  <2> QED
    BY <1>1, <2>2 DEF IInv, BacklogInv, Waiting
<1>4. SolverInv'
  <2> HIDE DEF s
  <2> QED
    BY <1>1, <1>2 DEF IInv, SolverInv
<1>5. FrameInv'
  <2> SUFFICES ASSUME NEW c \in Bots, NEW n \in 1 .. MaxFrame,
                      n > frame[c] \/ (n = frame[c] /\ pc'[c] = "exec")
               PROVE  solver'[<<c, n>>] = "none"
    BY <1>1 DEF IInv, FrameInv
  <2>1. frame[b] \in 0 .. MaxFrame
    BY DEF IInv, FrameInv
  <2>2. <<c, n>> # s
    BY <1>1, <2>1
  <2>3. solver[<<c, n>>] = "none"
    BY <1>1, <2>2 DEF IInv, FrameInv
  <2>4. <<c, n>> \in Solvers
    BY DEF Solvers, Requests
  <2> HIDE DEF s
  <2> QED
    BY <1>1, <2>2, <2>3, <2>4
<1>6. ClientInv'
  BY <1>1 DEF IInv, ClientInv
<1> QED
  BY <1>3, <1>4, <1>5, <1>6 DEF LinkInv

\* The solver accepted leaves its backlog, and no other bot has it.
LEMMA AcceptInv ==
    ASSUME IInv, NEW b \in Bots, Accept(b)
    PROVE  LinkInv'
<1> DEFINE s == Head(backlog[b])
<1>1. /\ pc' = [pc EXCEPT ![b] = "write"]
      /\ client' = [client EXCEPT ![b] = s]
      /\ backlog' = [backlog EXCEPT ![b] = Tail(@)]
      /\ UNCHANGED <<frame, solver, inbox, request>>
      /\ pc \in [Bots -> Stages] /\ backlog \in [Bots -> Seq(Solvers)]
      /\ client \in [Bots -> Solvers \union {None}]
      /\ pc[b] = "accept"
  BY DEF Accept, Oldest, IInv, TypeOK, Stages, solver_vars
<1>2. /\ Tail(backlog[b]) \in Seq(Solvers) /\ NoDuplicate(Tail(backlog[b]))
      /\ s \in Solvers /\ s \in Waiting(b)
      /\ Elements(Tail(backlog[b])) \subseteq Waiting(b) \ {s}
  BY Removed DEF IInv, BacklogInv, Accept, Waiting
<1>3. /\ solver[s] \notin {"none", "started"} /\ inbox[s] = None
      /\ \A c \in Bots : client[c] # s /\ (c # b => s \notin Waiting(c))
  BY <1>2 DEF IInv, BacklogInv
<1> HIDE DEF s
<1>4. \A c \in Bots : Waiting(c)' \subseteq Waiting(c) \ {s}
  BY <1>1, <1>2, <1>3 DEF Waiting
<1>5. BacklogInv'
  <2>1. \A c \in Bots : backlog'[c] \in Seq(Solvers) /\ NoDuplicate(backlog'[c])
    BY <1>1, <1>2 DEF IInv, BacklogInv
  <2>2. \A c, d \in Bots : client'[c] \notin Waiting(d)'
    BY <1>1, <1>4 DEF IInv, BacklogInv
  <2> QED
    BY <1>1, <1>4, <2>1, <2>2 DEF IInv, BacklogInv
<1>6. SolverInv'
  BY <1>1, <1>3 DEF IInv, SolverInv
<1>7. FrameInv'
  BY <1>1 DEF IInv, FrameInv
<1>8. ClientInv'
  BY <1>1, <1>2, <1>3 DEF IInv, ClientInv
<1> QED
  BY <1>5, <1>6, <1>7, <1>8 DEF LinkInv

\* A client is written to once.
LEMMA WriteInv ==
    ASSUME IInv, NEW b \in Bots, Write(b)
    PROVE  LinkInv'
<1> DEFINE s == client[b]
<1>1. /\ pc[b] = "write" /\ pc' = [pc EXCEPT ![b] = "read"]
      /\ inbox' = [inbox EXCEPT ![s] = <<b, frame[b]>>]
      /\ UNCHANGED <<backlog, frame, client, solver, request>>
      /\ pc \in [Bots -> Stages]
      /\ inbox \in [Solvers -> Requests \union {None}]
      /\ client \in [Bots -> Solvers \union {None}]
  BY DEF Write, IInv, TypeOK, Stages
<1>2. s \in Solvers /\ inbox[s] = None
  BY <1>1 DEF IInv, ClientInv
<1>3. /\ solver[s] \notin {"none", "started"} /\ request[s] = None
      /\ \A c \in Bots : s \notin Waiting(c) /\ (c # b => client[c] # s)
  BY <1>1, <1>2, NoneIsNoPair DEF IInv, SolverInv, BacklogInv, ClientInv
<1>4. \A r \in Solvers : r # s => inbox'[r] = inbox[r]
  BY <1>1
<1>5. inbox'[s] = <<b, frame[b]>>
  BY <1>1, <1>2
<1>6. BacklogInv'
  <2>1. \A c \in Bots : \A r \in Waiting(c) : inbox'[r] = inbox[r]
    BY <1>3, <1>4, WaitingAreSolvers
  <2> QED
    BY <1>1, <2>1 DEF IInv, BacklogInv, Waiting
<1>7. SolverInv'
  <2> HIDE DEF s
  <2> QED
    BY <1>1, <1>2, <1>3, <1>4 DEF IInv, SolverInv
<1>8. FrameInv'
  BY <1>1 DEF IInv, FrameInv
<1>9. ClientInv'
  <2> SUFFICES ASSUME NEW c \in Bots
               PROVE  /\ pc'[c] \in {"write", "read"} => client'[c] \in Solvers
                      /\ pc'[c] = "write" => inbox'[client'[c]] = None
                      /\ pc'[c] = "read" => inbox'[client'[c]] = <<c, frame'[c]>>
    BY <1>1 DEF IInv, ClientInv
  <2>1. CASE c = b
    BY <1>1, <1>2, <1>5, <2>1
  <2>2. CASE c # b
    <3>1. pc'[c] = pc[c] /\ client'[c] = client[c] /\ frame'[c] = frame[c]
      BY <1>1, <2>2
    <3>2. client[c] # s
      BY <1>3, <2>2
    <3>3. client[c] \in Solvers => inbox'[client[c]] = inbox[client[c]]
      BY <1>4, <3>2
    <3> QED
      BY <3>1, <3>3 DEF IInv, ClientInv
  <2> QED
    BY <2>1, <2>2
<1> QED
  BY <1>6, <1>7, <1>8, <1>9 DEF LinkInv

LEMMA BotInv ==
    ASSUME IInv, NEW b \in Bots,
           OpenAndBind(b) \/ Decide(b) \/ GameOver(b) \/ GameOverNull(b)
    PROVE  IInv'
<1>1. pc \in [Bots -> Stages] /\ backlog \in [Bots -> Seq(Solvers)]
  BY DEF IInv, TypeOK, Stages
<1>2. ASSUME NEW S, CloseServers(S)
      PROVE  \A c \in Bots : backlog'[c] \in {backlog[c], <<>>}
  BY <1>2 DEF CloseServers
<1>3. ASSUME Fails(b) PROVE LinkInv'
  <2>1. /\ \A c \in Bots : pc'[c] \in {pc[c], "game"} /\ backlog'[c] = backlog[c]
        /\ UNCHANGED <<frame, client, solver, inbox, request>>
    BY <1>1, <1>3 DEF Fails, solver_vars
  <2> QED
    BY <2>1, EndOfCallInv
<1>4. ASSUME Uncaught(b) PROVE LinkInv'
  <2>1. \A c \in Bots : pc'[c] \in {pc[c], "crashed"}
    BY <1>1, <1>4 DEF Uncaught
  <2>2. \A c \in Bots : backlog'[c] \in {backlog[c], <<>>}
    BY <1>2, <1>4 DEF Uncaught
  <2>3. UNCHANGED <<frame, client, solver, inbox, request>>
    BY <1>4 DEF Uncaught
  <2> QED
    BY <2>1, <2>2, <2>3, EndOfCallInv
<1>5. ASSUME NEW r, Settle(b, r) PROVE LinkInv'
  <2>1. \A c \in Bots : pc'[c] \in {pc[c], "game"}
    BY <1>1, <1>5 DEF Settle, Returns
  <2>2. \A c \in Bots : backlog'[c] \in {backlog[c], <<>>}
    BY <1>2, <1>5 DEF Settle, Hangup
  <2>3. UNCHANGED <<frame, client, solver, inbox, request>>
    BY <1>5 DEF Settle, Returns
  <2> QED
    BY <2>1, <2>2, <2>3, EndOfCallInv
<1>6. ASSUME GameOver(b) PROVE LinkInv'
  <2>1. \A c \in Bots : backlog'[c] \in {backlog[c], <<>>}
    BY <1>2, <1>6 DEF GameOver, Hangup
  <2>2. UNCHANGED <<pc, frame, client, solver, inbox, request>>
    BY <1>6 DEF GameOver
  <2> QED
    BY <2>1, <2>2, EndOfCallInv
<1>7. ASSUME ReadAnswer(b) \/ ReadEndOfStream(b) PROVE LinkInv'
  BY <1>5, <1>7 DEF ReadAnswer, ReadEndOfStream
<1>8. ASSUME ExecFails(b) \/ ReadReset(b) \/ AcceptUnbound(b) \/ GameOverNull(b) PROVE LinkInv'
  BY <1>3, <1>4, <1>8 DEF ExecFails, ReadReset, AcceptUnbound, GameOverNull
<1>9. LinkInv'
  BY <1>6, <1>7, <1>8, OpenAndBindInv, ExecInv, AcceptInv, WriteInv DEF Decide
<1> QED
  BY <1>9, BotTypes DEF LinkInv, IInv

\* A solver joins a backlog once, when nobody knows it yet.
LEMMA ConnectInv ==
    ASSUME IInv, NEW s \in Solvers, Connect(s)
    PROVE  LinkInv'
<1>1. PICK b \in Bots : /\ channel[b] = "bound"
                        /\ backlog' = [backlog EXCEPT ![b] = Append(@, s)]
  BY DEF Connect
<1>2. /\ solver[s] = "started" /\ solver' = [solver EXCEPT ![s] = "connected"]
      /\ UNCHANGED <<pc, frame, client, inbox, request>>
      /\ backlog \in [Bots -> Seq(Solvers)] /\ solver \in [Solvers -> States]
  BY DEF Connect, bot_vars, IInv, TypeOK, States
<1>3. /\ \A c \in Bots : s \notin Waiting(c) /\ client[c] # s
      /\ inbox[s] = None
  BY <1>2 DEF IInv, BacklogInv, SolverInv
<1>4. /\ Append(backlog[b], s) \in Seq(Solvers) /\ NoDuplicate(Append(backlog[b], s))
      /\ Elements(Append(backlog[b], s)) = Waiting(b) \union {s}
  BY <1>2, <1>3, Appended DEF IInv, BacklogInv, Waiting
<1>5. /\ backlog'[b] = Append(backlog[b], s)
      /\ \A c \in Bots \ {b} : backlog'[c] = backlog[c]
  BY <1>1, <1>2
<1>6. /\ Waiting(b)' = Waiting(b) \union {s}
      /\ \A c \in Bots \ {b} : Waiting(c)' = Waiting(c)
  BY <1>4, <1>5 DEF Waiting
<1>7. \A r \in Solvers \ {s} : solver'[r] = solver[r]
  BY <1>2
<1>8. solver'[s] = "connected"
  BY <1>2
<1>9. BacklogInv'
  <2>1. \A c \in Bots : backlog'[c] \in Seq(Solvers) /\ NoDuplicate(backlog'[c])
    BY <1>4, <1>5 DEF IInv, BacklogInv
  <2>2. \A c, d \in Bots : c # d => Waiting(c)' \cap Waiting(d)' = {}
    BY <1>3, <1>6 DEF IInv, BacklogInv
  <2>3. \A c, d \in Bots : client'[c] \notin Waiting(d)'
    BY <1>2, <1>3, <1>6 DEF IInv, BacklogInv
  <2>4. \A c \in Bots : \A r \in Waiting(c)' :
          solver'[r] \notin {"none", "started"} /\ inbox'[r] = None
    <3> SUFFICES ASSUME NEW c \in Bots, NEW r \in Waiting(c)'
                 PROVE  solver'[r] \notin {"none", "started"} /\ inbox'[r] = None
      OBVIOUS
    <3>1. CASE r = s
      BY <1>2, <1>3, <1>8, <3>1
    <3>2. CASE r # s
      <4>1. r \in Waiting(c)
        BY <1>6, <3>2
      <4>2. r \in Solvers
        BY <4>1, WaitingAreSolvers
      <4> QED
        BY <1>2, <1>7, <3>2, <4>1, <4>2 DEF IInv, BacklogInv
    <3> QED
      BY <3>1, <3>2
  <2> QED
    BY <2>1, <2>2, <2>3, <2>4 DEF BacklogInv
<1>10. SolverInv'
  BY <1>2, <1>7, <1>8 DEF IInv, SolverInv
<1>11. FrameInv'
  <2>1. \A r \in Solvers : solver[r] = "none" => solver'[r] = "none"
    BY <1>2, <1>7
  <2> QED
    BY <1>2, <2>1 DEF IInv, FrameInv, Solvers, Requests
<1>12. ClientInv'
  BY <1>2 DEF IInv, ClientInv
<1> QED
  BY <1>9, <1>10, <1>11, <1>12 DEF LinkInv

\* The other steps of a solver that has started: it reads, answers or ends.
LEMMA WorkInv ==
    ASSUME IInv, NEW s \in Solvers, solver[s] # "none",
           NEW v \in States \ {"none", "started"},
           solver' = [solver EXCEPT ![s] = v],
           \/ UNCHANGED request
           \/ solver[s] # "started" /\ request' = [request EXCEPT ![s] = inbox[s]],
           UNCHANGED <<pc, frame, client, backlog, inbox>>
    PROVE  LinkInv'
<1>1. solver \in [Solvers -> States] /\ request \in [Solvers -> Requests \union {None}]
  BY DEF IInv, TypeOK, States
<1>2. /\ \A r \in Solvers \ {s} : solver'[r] = solver[r] /\ request'[r] = request[r]
      /\ solver'[s] = v /\ request'[s] \in {request[s], inbox[s]}
  BY <1>1
<1>3. BacklogInv'
  <2>1. \A b \in Bots : \A r \in Waiting(b) : solver'[r] \notin {"none", "started"}
    BY <1>2, WaitingAreSolvers DEF IInv, BacklogInv
  <2> QED
    BY <2>1 DEF IInv, BacklogInv, Waiting
<1>4. SolverInv'
  BY <1>2 DEF IInv, SolverInv
<1>5. FrameInv'
  <2>1. \A r \in Solvers : solver[r] = "none" => solver'[r] = "none"
    BY <1>2
  <2> QED
    BY <2>1 DEF IInv, FrameInv, Solvers, Requests
<1>6. ClientInv'
  BY DEF IInv, ClientInv
<1> QED
  BY <1>3, <1>4, <1>5, <1>6 DEF LinkInv

LEMMA SolverStepInv ==
    ASSUME IInv, NEW s \in Solvers, Work(s) \/ Die(s)
    PROVE  IInv'
<1> USE DEF bot_vars, States
<1>1. ASSUME ConnectRefused(s) PROVE LinkInv'
  BY <1>1, WorkInv DEF ConnectRefused
<1>2. ASSUME Recv(s) PROVE LinkInv'
  BY <1>2, WorkInv DEF Recv
<1>3. ASSUME SolveAndSend(s) PROVE LinkInv'
  BY <1>3, WorkInv DEF SolveAndSend
<1>4. ASSUME Exit(s) PROVE LinkInv'
  BY <1>4, WorkInv DEF Exit
<1>5. ASSUME Die(s) PROVE LinkInv'
  BY <1>5, WorkInv DEF Die
<1>6. LinkInv'
  BY <1>1, <1>2, <1>3, <1>4, <1>5, ConnectInv DEF Work
<1> QED
  BY <1>6, SolverTypes DEF IInv, LinkInv

LEMMA InitInv ==
    ASSUME Init
    PROVE  IInv
<1> USE LinkAssumption DEF Init
<1>1. TypeOK
  BY EmptyQueue DEF TypeOK
<1>2. BacklogInv
  BY EmptyQueue DEF BacklogInv, Waiting
<1>3. SolverInv
  BY NoneIsNoPair DEF SolverInv
<1>4. FrameInv
  BY DEF FrameInv, Solvers, Requests
<1>5. ClientInv
  BY DEF ClientInv
<1> QED
  BY <1>1, <1>2, <1>3, <1>4, <1>5 DEF IInv

LEMMA StutterInv ==
    ASSUME IInv, UNCHANGED vars
    PROVE  IInv'
<1> USE DEF vars, bot_vars, solver_vars
<1>1. TypeOK'
  BY DEF IInv, TypeOK
<1>2. BacklogInv'
  BY DEF IInv, BacklogInv, Waiting
<1>3. SolverInv' /\ FrameInv' /\ ClientInv'
  BY DEF IInv, SolverInv, FrameInv, ClientInv
<1> QED
  BY <1>1, <1>2, <1>3 DEF IInv

\* The bookkeeping of decideProduction() and of the kernel's queues: solvers,
\* questions and clients are never mixed up.
THEOREM Inductive == Spec => []IInv
<1>1. IInv /\ [Next]_vars => IInv'
  BY BotInv, SolverStepInv, StutterInv DEF Next
<1> QED
  BY <1>1, InitInv, PTL DEF Spec

\* The exchange keeps its types.
THEOREM TypeCorrect == Spec => []TypeOK
<1>1. IInv => TypeOK
  BY DEF IInv
<1> QED
  BY <1>1, Inductive, PTL

-----------------------------------------------------------------------------
(* The promise                                                             *)

StatusOf(p) == CASE p = "game" -> "playing" [] p = "crashed" -> "stopped" [] OTHER -> "asking"

LEMMA StatusIs ==
    /\ Status = [b \in Bots |-> StatusOf(pc[b])]
    /\ Status' = [b \in Bots |-> StatusOf(pc'[b])]
  BY DEF Status, StatusOf

\* Steps that nothing outside of the exchange sees.
LEMMA Hidden ==
    ASSUME IInv, UNCHANGED <<frame, order, outcome>>,
           \A b \in Bots : pc'[b] = pc[b] \/ {pc[b], pc'[b]} \subseteq Stages \ {"game", "crashed"}
    PROVE  UNCHANGED Promise!vars
<1>1. Status' = Status
  BY StatusIs DEF StatusOf, Stages
<1> QED
  BY <1>1 DEF Promise!vars

LEMMA AskStep ==
    ASSUME IInv, NEW b \in Bots, OpenAndBind(b)
    PROVE  Promise!Ask(b)
<1>1. pc \in [Bots -> Stages]
  BY DEF IInv, TypeOK, Stages
<1>2. Status[b] = "playing" /\ Status' = [Status EXCEPT ![b] = "asking"]
  BY <1>1, StatusIs DEF OpenAndBind, StatusOf
<1> QED
  BY <1>2 DEF OpenAndBind, Promise!Ask

\* A call that ends.
LEMMA ReturnStatus ==
    ASSUME IInv, NEW b \in Bots, pc[b] \in {"exec", "accept", "write", "read"},
           pc' = [pc EXCEPT ![b] = "game"]
    PROVE  Status[b] = "asking" /\ Status' = [Status EXCEPT ![b] = "playing"]
<1>1. pc \in [Bots -> Stages]
  BY DEF IInv, TypeOK, Stages
<1> QED
  BY <1>1, StatusIs DEF StatusOf

LEMMA SettleStep ==
    ASSUME IInv, NEW b \in Bots, pc[b] = "read",
           NEW r \in {<<b, frame[b]>>, None}, Settle(b, r)
    PROVE  Promise!Settle(b)
<1>1. Status[b] = "asking" /\ Status' = [Status EXCEPT ![b] = "playing"]
  BY ReturnStatus DEF Settle, Returns
<1>2. Promise!None = None
  BY DEF Promise!None, None
<1> QED
  BY <1>1, <1>2 DEF Settle, Returns, Promise!Settle

LEMMA FailStep ==
    ASSUME IInv, NEW b \in Bots, pc[b] \in {"exec", "read"}, Fails(b)
    PROVE  Promise!GiveUp(b)
<1>1. Status[b] = "asking" /\ Status' = [Status EXCEPT ![b] = "playing"]
  BY ReturnStatus DEF Fails
<1> QED
  BY <1>1 DEF Fails, Promise!GiveUp

LEMMA StopStep ==
    ASSUME IInv, NEW b \in Bots, pc[b] # "crashed", Uncaught(b)
    PROVE  \E S \in SUBSET Bots : Promise!Stop(S)
<1> DEFINE dead == {c \in Bots : JvmOf[c] = JvmOf[b]}
<1>1. pc \in [Bots -> Stages]
  BY DEF IInv, TypeOK, Stages
<1>2. pc' = [c \in Bots |-> IF c \in dead THEN "crashed" ELSE pc[c]]
  BY DEF Uncaught
<1>3. b \in dead /\ dead \in SUBSET Bots
  OBVIOUS
<1> HIDE DEF dead
<1>4. Status[b] # "stopped"
  BY <1>1, StatusIs DEF StatusOf, Stages
<1>5. Status' = [c \in Bots |-> IF c \in dead THEN "stopped" ELSE Status[c]]
  BY <1>1, <1>2, StatusIs DEF StatusOf
<1> QED
  BY <1>3, <1>4, <1>5 DEF Promise!Stop, Uncaught

\* The question a bot reads the answer of is its own, of this frame.
LEMMA AnswerStep ==
    ASSUME IInv, NEW b \in Bots, ReadAnswer(b)
    PROVE  Promise!Settle(b)
<1>1. client[b] \in Solvers /\ inbox[client[b]] = <<b, frame[b]>>
  BY DEF ReadAnswer, IInv, ClientInv
<1>2. request[client[b]] \in {None, <<b, frame[b]>>}
  BY <1>1 DEF IInv, SolverInv
<1> QED
  BY <1>2, SettleStep DEF ReadAnswer

LEMMA BotPromise ==
    ASSUME IInv, NEW b \in Bots,
           OpenAndBind(b) \/ Decide(b) \/ GameOver(b) \/ GameOverNull(b)
    PROVE  [Promise!Next]_(Promise!vars)
<1>1. pc \in [Bots -> Stages]
  BY DEF IInv, TypeOK, Stages
<1>2. CASE Exec(b) \/ Accept(b) \/ Write(b)
  <2>1. UNCHANGED <<frame, order, outcome>>
    BY <1>2 DEF Exec, Accept, Write
  <2>2. \A c \in Bots :
          pc'[c] = pc[c] \/ {pc[c], pc'[c]} \subseteq Stages \ {"game", "crashed"}
    BY <1>1, <1>2 DEF Exec, Accept, Write, Stages
  <2> QED
    BY <2>1, <2>2, Hidden
<1>3. CASE GameOver(b)
  BY <1>3, Hidden DEF GameOver
<1>4. CASE ReadAnswer(b)
  BY <1>4, AnswerStep DEF Promise!Next
<1>5. CASE ReadEndOfStream(b)
  BY <1>5, SettleStep DEF ReadEndOfStream, Promise!Next
<1>6. CASE ExecFails(b) \/ ReadReset(b)
  BY <1>6, FailStep DEF ExecFails, ReadReset, Promise!Next
<1>7. CASE AcceptUnbound(b) \/ GameOverNull(b)
  BY <1>7, StopStep DEF AcceptUnbound, GameOverNull, Promise!Next
<1>8. CASE OpenAndBind(b)
  BY <1>8, AskStep DEF Promise!Next
<1> QED
  BY <1>2, <1>3, <1>4, <1>5, <1>6, <1>7, <1>8 DEF Decide

LEMMA SolverPromise ==
    ASSUME IInv, NEW s \in Solvers, Work(s) \/ Die(s)
    PROVE  UNCHANGED Promise!vars
<1>1. UNCHANGED bot_vars
  BY DEF Work, Connect, ConnectRefused, Recv, SolveAndSend, Exit, Die
<1> QED
  BY <1>1, Hidden DEF bot_vars

\* Whatever fails, in whatever order solvers connect, work and die, a call of
\* decideProduction() leaves the answer to its own question, an order of nothing
\* or, when it has failed, the order of an earlier frame.
THEOREM PromiseKept == Spec => PromisedSteps
<1>1. Init => Promise!Init
  BY StatusIs DEF Init, Promise!Init, Promise!None, None, StatusOf, Status
<1>2. IInv /\ [Next]_vars => [Promise!Next]_(Promise!vars)
  <2>1. ASSUME IInv, UNCHANGED vars PROVE UNCHANGED Promise!vars
    BY <2>1, Hidden DEF vars, bot_vars
  <2> QED
    BY <2>1, BotPromise, SolverPromise DEF Next
<1> QED
  BY <1>1, <1>2, Inductive, PTL DEF Spec, PromisedSteps
-----------------------------------------------------------------------------
(* Bots of one virtual machine                                             *)

OneMachine == \A b, c \in Bots : JvmOf[b] = JvmOf[c]

Asking == {"exec", "accept", "write", "read"}

\* A bot in decideProduction() has the virtual machine for itself.
TakeTurns == \A b, c \in Bots : b # c /\ pc[b] \in Asking => pc[c] = "game"

\* The port has one server at most: of the bot that asks, or left by a failure.
PortInv ==
    /\ \A b, c \in Bots : b # c /\ channel[b] = "bound" => channel[c] # "bound"
    /\ \A b \in Bots : pc[b] = "game" /\ channel[b] = "bound" => outcome[b] = "failed"
    /\ \A b \in Bots : pc[b] \in {"exec", "accept"} /\ channel[b] # "bound" =>
         \E c \in Bots \ {b} : channel[c] = "bound"

\* Who waits in a backlog is the solver of the call in progress, and a bot that
\* has the port gets its own solver.
WaitsForOwn ==
    \A b \in Bots : \A s \in Waiting(b) :
        pc[s[1]] # "crashed" =>
            /\ pc[s[1]] = "accept" /\ s[2] = frame[s[1]]
            /\ channel[s[1]] = "bound" => b = s[1]

ClientIsOwn == \A b \in Bots : pc[b] \in {"write", "read"} => client[b] = <<b, frame[b]>>

\* A solver that has sent its answer has done its work.
AnswerEnds == \A s \in Solvers : answer[s] # "nothing" => solver[s] \in {"sent", "exited"}

TurnInv == TakeTurns /\ PortInv /\ WaitsForOwn /\ ClientIsOwn /\ AnswerEnds /\ NoOrphan

LEMMA SolverIsPair ==
    ASSUME NEW s \in Solvers
    PROVE  s[1] \in Bots /\ s[2] \in 1 .. MaxFrame /\ s = <<s[1], s[2]>>
  BY DEF Solvers, Requests

LEMMA PcType == IInv => pc \in [Bots -> Stages]
  BY DEF IInv, TypeOK, Stages

\* While no bot is in accept(), nobody waits, but for servers that are gone.
LEMMA NobodyWaits ==
    ASSUME IInv, TurnInv, \A b \in Bots : pc[b] \notin {"accept", "crashed"}
    PROVE  \A b \in Bots : Waiting(b) = {}
<1>1. \A b \in Bots : \A s \in Waiting(b) : s[1] \in Bots
  BY WaitingAreSolvers, SolverIsPair
<1> QED
  BY <1>1 DEF TurnInv, WaitsForOwn

\* A call that ends when the solver it started is not at work any more.
LEMMA ReturnTurn ==
    ASSUME IInv, TurnInv, NEW b \in Bots, pc[b] \in {"exec", "write", "read"},
           solver[<<b, frame[b]>>] \notin AtWork,
           pc' = [pc EXCEPT ![b] = "game"],
           NEW o, outcome' = [outcome EXCEPT ![b] = o],
           channel' \in [Bots -> {"null", "open", "bound", "closed"}],
           channel'[b] = "bound" => channel[b] = "bound" /\ o = "failed",
           \A c \in Bots \ {b} : channel'[c] = channel[c],
           \A c \in Bots : backlog'[c] \in {backlog[c], <<>>},
           UNCHANGED <<frame, client, solver, answer>>
    PROVE  TurnInv'
<1>1. pc \in [Bots -> Stages] /\ outcome \in [Bots -> {"none", "answered", "failed"}]
  BY PcType DEF IInv, TypeOK
<1>2. /\ \A c \in Bots \ {b} : pc[c] = "game" /\ pc'[c] = "game" /\ outcome'[c] = outcome[c]
      /\ pc'[b] = "game" /\ outcome'[b] = o
  BY <1>1 DEF TurnInv, TakeTurns, Asking
<1>3. \A c \in Bots : pc'[c] = "game"
  BY <1>2
<1>4. \A c \in Bots : Waiting(c)' = {}
  <2>1. \A c \in Bots : Waiting(c) = {}
    BY <1>2, NobodyWaits
  <2> QED
    BY <2>1, EmptyQueue DEF Waiting
<1>5. TakeTurns' /\ WaitsForOwn' /\ ClientIsOwn' /\ AnswerEnds'
  BY <1>3, <1>4 DEF TurnInv, TakeTurns, WaitsForOwn, ClientIsOwn, AnswerEnds, Asking
<1>6. PortInv'
  BY <1>2, <1>3 DEF TurnInv, PortInv
<1>7. NoOrphan'
  <2> SUFFICES ASSUME NEW s \in Solvers, solver[s] \in AtWork PROVE FALSE
    BY DEF NoOrphan
  <2>1. s[1] \in Bots /\ s = <<s[1], s[2]>>
    BY SolverIsPair
  <2>2. pc[s[1]] \in {"accept", "write", "read"} /\ s[2] = frame[s[1]]
    BY <1>2, <2>1 DEF TurnInv, NoOrphan
  <2>3. s[1] = b
    BY <1>2, <2>1, <2>2
  <2>4. s = <<b, frame[b]>>
    BY <2>1, <2>2, <2>3
  <2> QED
    BY <2>4
<1> QED
  BY <1>5, <1>6, <1>7 DEF TurnInv

LEMMA CrashTurn ==
    ASSUME OneMachine, IInv, TurnInv, NEW b \in Bots, Uncaught(b)
    PROVE  TurnInv'
<1>1. {c \in Bots : JvmOf[c] = JvmOf[b]} = Bots
  BY DEF OneMachine
<1>2. \A c \in Bots : pc'[c] = "crashed" /\ channel'[c] = "closed" /\ backlog'[c] = <<>>
  BY <1>1 DEF Uncaught, CloseServers
<1>3. UNCHANGED <<solver, answer>>
  BY DEF Uncaught
<1>4. TakeTurns' /\ PortInv' /\ ClientIsOwn' /\ AnswerEnds'
  BY <1>2, <1>3 DEF TurnInv, TakeTurns, PortInv, ClientIsOwn, AnswerEnds, Asking
<1>5. WaitsForOwn'
  BY <1>2, EmptyQueue DEF Waiting, WaitsForOwn
<1>6. NoOrphan'
  BY <1>2, SolverIsPair DEF NoOrphan
<1> QED
  BY <1>4, <1>5, <1>6 DEF TurnInv

\* gameOver() is called when no bot is in decideProduction().
LEMMA GameOverTurn ==
    ASSUME OneMachine, IInv, TurnInv, NEW b \in Bots, GameOver(b)
    PROVE  TurnInv'
<1>1. \A c \in Bots : pc[c] = "game"
  BY DEF GameOver, HasTheTurn, OneMachine
<1>2. UNCHANGED <<pc, frame, client, outcome, solver, answer>>
  BY DEF GameOver
<1>3. /\ \A c \in Bots : backlog'[c] \in {backlog[c], <<>>}
      /\ \A c \in Bots : channel'[c] = "bound" => channel[c] = "bound"
  BY DEF GameOver, Hangup, CloseServers
<1>4. \A c \in Bots : Waiting(c)' = {}
  <2>1. \A c \in Bots : Waiting(c) = {}
    BY <1>1, NobodyWaits
  <2> QED
    BY <1>3, <2>1, EmptyQueue DEF Waiting
<1>5. TakeTurns' /\ WaitsForOwn' /\ ClientIsOwn' /\ AnswerEnds' /\ NoOrphan'
  BY <1>2, <1>4
     DEF TurnInv, TakeTurns, WaitsForOwn, ClientIsOwn, AnswerEnds, NoOrphan
<1>6. PortInv'
  BY <1>1, <1>2, <1>3 DEF TurnInv, PortInv
<1> QED
  BY <1>5, <1>6 DEF TurnInv

LEMMA OpenTurn ==
    ASSUME OneMachine, IInv, TurnInv, NEW b \in Bots, OpenAndBind(b)
    PROVE  TurnInv'
<1>1. \A c \in Bots : pc[c] = "game"
  BY DEF OpenAndBind, HasTheTurn, OneMachine
<1>2. /\ pc' = [pc EXCEPT ![b] = "exec"]
      /\ UNCHANGED <<client, outcome, solver, answer, backlog>>
      /\ channel' = [channel EXCEPT ![b] =
                       IF PortIsFree \/ channel[b] = "bound" THEN "bound" ELSE "open"]
  BY DEF OpenAndBind, solver_vars
<1>3. /\ pc'[b] = "exec" /\ \A c \in Bots \ {b} : pc'[c] = "game"
      /\ \A c \in Bots \ {b} : channel'[c] = channel[c]
      /\ channel'[b] = IF PortIsFree \/ channel[b] = "bound" THEN "bound" ELSE "open"
  BY <1>1, <1>2, PcType DEF IInv, TypeOK
<1>4. \A c \in Bots : Waiting(c)' = {}
  BY <1>1, <1>2, NobodyWaits DEF Waiting
<1>5. TakeTurns' /\ WaitsForOwn' /\ ClientIsOwn' /\ AnswerEnds'
  BY <1>2, <1>3, <1>4
     DEF TurnInv, TakeTurns, WaitsForOwn, ClientIsOwn, AnswerEnds, Asking
<1>6. NoOrphan'
  <2>1. \A s \in Solvers : solver[s] \notin AtWork
    BY <1>1, SolverIsPair DEF TurnInv, NoOrphan
  <2> QED
    BY <1>2, <2>1 DEF NoOrphan
<1>7. PortInv'
  <2>1. CASE PortIsFree \/ channel[b] = "bound"
    <3>1. \A c \in Bots \ {b} : channel'[c] # "bound"
      BY <1>3, <2>1 DEF PortIsFree, TurnInv, PortInv
    <3> QED
      BY <1>2, <1>3, <2>1, <3>1 DEF PortInv
  <2>2. CASE ~ PortIsFree /\ channel[b] # "bound"
    <3>1. PICK c \in Bots \ {b} : channel[c] = "bound"
      BY <2>2 DEF PortIsFree
    <3> QED
      BY <1>1, <1>2, <1>3, <2>2, <3>1 DEF TurnInv, PortInv
  <2> QED
    BY <2>1, <2>2
<1> QED
  BY <1>5, <1>6, <1>7 DEF TurnInv

LEMMA ExecTurn ==
    ASSUME IInv, TurnInv, NEW b \in Bots, Exec(b)
    PROVE  TurnInv'
<1> DEFINE s == <<b, frame[b]>>
<1>1. /\ pc[b] = "exec" /\ pc' = [pc EXCEPT ![b] = "accept"]
      /\ solver' = [solver EXCEPT ![s] = "started"]
      /\ UNCHANGED <<frame, channel, client, outcome, answer, backlog>>
      /\ pc \in [Bots -> Stages] /\ solver \in [Solvers -> States]
  BY PcType DEF Exec, IInv, TypeOK, States
<1>2. /\ pc'[b] = "accept"
      /\ \A c \in Bots \ {b} : pc[c] = "game" /\ pc'[c] = "game"
  BY <1>1 DEF TurnInv, TakeTurns, Asking
<1>3. s \in Solvers /\ solver[s] = "none" /\ s[1] = b /\ s[2] = frame[b]
  BY <1>1, LinkAssumption DEF IInv, FrameInv, Solvers, Requests
<1>4. \A c \in Bots : Waiting(c)' = {}
  BY <1>1, <1>2, NobodyWaits DEF Waiting
<1>5. TakeTurns' /\ PortInv' /\ WaitsForOwn' /\ ClientIsOwn'
  BY <1>1, <1>2, <1>4
     DEF TurnInv, TakeTurns, PortInv, WaitsForOwn, ClientIsOwn, Asking
<1> HIDE DEF s
<1>6. AnswerEnds'
  BY <1>1, <1>3 DEF TurnInv, AnswerEnds
<1>7. NoOrphan'
  <2> SUFFICES ASSUME NEW r \in Solvers, solver'[r] \in AtWork, pc'[r[1]] # "crashed"
               PROVE  frame[r[1]] = r[2] /\ pc'[r[1]] \in {"accept", "write", "read"}
    BY <1>1 DEF NoOrphan
  <2>1. CASE r = s
    BY <1>2, <1>3, <2>1
  <2>2. CASE r # s
    <3>1. solver[r] \in AtWork /\ r[1] \in Bots
      BY <1>1, <2>2, SolverIsPair
    <3>2. pc[r[1]] \in {"accept", "write", "read"}
      BY <1>1, <1>2, <3>1 DEF TurnInv, NoOrphan
    <3> QED
      BY <1>1, <1>2, <3>1, <3>2
  <2> QED
    BY <2>1, <2>2
<1> QED
  BY <1>5, <1>6, <1>7 DEF TurnInv

\* The solver accepted is the one that this very call has started.
LEMMA AcceptTurn ==
    ASSUME IInv, TurnInv, NEW b \in Bots, Accept(b)
    PROVE  TurnInv'
<1> DEFINE s == Head(backlog[b])
<1>1. /\ pc[b] = "accept" /\ channel[b] = "bound"
      /\ pc' = [pc EXCEPT ![b] = "write"]
      /\ client' = [client EXCEPT ![b] = s]
      /\ backlog' = [backlog EXCEPT ![b] = Tail(@)]
      /\ UNCHANGED <<frame, channel, outcome, solver, answer>>
      /\ pc \in [Bots -> Stages] /\ backlog \in [Bots -> Seq(Solvers)]
      /\ client \in [Bots -> Solvers \union {None}]
  BY PcType DEF Accept, Oldest, IInv, TypeOK, solver_vars
<1>2. /\ s \in Solvers /\ s \in Waiting(b)
      /\ Elements(Tail(backlog[b])) \subseteq Waiting(b) \ {s}
  BY Removed DEF IInv, BacklogInv, Accept, Waiting
<1> HIDE DEF s
<1>3. /\ pc'[b] = "write"
      /\ \A c \in Bots \ {b} : pc[c] = "game" /\ pc'[c] = "game"
  BY <1>1 DEF TurnInv, TakeTurns, Asking
<1>4. ASSUME NEW c \in Bots, NEW r \in Waiting(c)
      PROVE  c = b /\ r = <<b, frame[b]>>
  <2>1. r \in Solvers /\ r[1] \in Bots /\ r = <<r[1], r[2]>>
    BY WaitingAreSolvers, SolverIsPair
  <2>2. r[1] = b
    BY <1>1, <1>3, <2>1 DEF TurnInv, WaitsForOwn
  <2>3. c = b /\ r[2] = frame[b]
    BY <1>1, <2>2 DEF TurnInv, WaitsForOwn
  <2> QED
    BY <2>1, <2>2, <2>3
<1>5. s = <<b, frame[b]>>
  BY <1>2, <1>4
<1>6. \A c \in Bots : Waiting(c)' = {}
  <2>1. Waiting(b)' \subseteq Waiting(b) \ {s} /\ \A c \in Bots \ {b} : Waiting(c)' = Waiting(c)
    BY <1>1, <1>2 DEF Waiting
  <2> QED
    BY <1>4, <1>5, <2>1
<1>7. TakeTurns' /\ PortInv' /\ WaitsForOwn' /\ AnswerEnds'
  BY <1>1, <1>3, <1>6 DEF TurnInv, TakeTurns, PortInv, WaitsForOwn, AnswerEnds, Asking
<1>8. ClientIsOwn'
  BY <1>1, <1>3, <1>5 DEF ClientIsOwn
<1>9. NoOrphan'
  BY <1>1, <1>3, SolverIsPair DEF TurnInv, NoOrphan
<1> QED
  BY <1>7, <1>8, <1>9 DEF TurnInv

LEMMA WriteTurn ==
    ASSUME IInv, TurnInv, NEW b \in Bots, Write(b)
    PROVE  TurnInv'
<1>1. /\ pc[b] = "write" /\ pc' = [pc EXCEPT ![b] = "read"]
      /\ UNCHANGED <<frame, channel, client, outcome, solver, answer, backlog>>
      /\ pc \in [Bots -> Stages]
  BY PcType DEF Write
<1>2. /\ pc'[b] = "read"
      /\ \A c \in Bots \ {b} : pc[c] = "game" /\ pc'[c] = "game"
  BY <1>1 DEF TurnInv, TakeTurns, Asking
<1>3. \A c \in Bots : Waiting(c)' = {}
  BY <1>1, <1>2, NobodyWaits DEF Waiting
<1>4. TakeTurns' /\ PortInv' /\ WaitsForOwn' /\ ClientIsOwn' /\ AnswerEnds'
  BY <1>1, <1>2, <1>3
     DEF TurnInv, TakeTurns, PortInv, WaitsForOwn, ClientIsOwn, AnswerEnds, Asking
<1>5. NoOrphan'
  BY <1>1, <1>2, SolverIsPair DEF TurnInv, NoOrphan
<1> QED
  BY <1>4, <1>5 DEF TurnInv

\* Whatever ends the wait for the answer, the solver has ended its work.
LEMMA ReadTurn ==
    ASSUME IInv, TurnInv, NEW b \in Bots, ReadAnswer(b) \/ ReadEndOfStream(b) \/ ReadReset(b)
    PROVE  TurnInv'
<1>1. pc[b] = "read" /\ client[b] = <<b, frame[b]>> /\ client[b] \in Solvers
  BY DEF ReadAnswer, ReadEndOfStream, ReadReset, TurnInv, ClientIsOwn, IInv, ClientInv
<1>2. solver[<<b, frame[b]>>] \notin AtWork
  BY <1>1 DEF ReadAnswer, ReadEndOfStream, ReadReset, TurnInv, AnswerEnds, AtWork
<1>3. ASSUME NEW r, Settle(b, r) PROVE TurnInv'
  <2>1. /\ pc' = [pc EXCEPT ![b] = "game"]
        /\ outcome' = [outcome EXCEPT ![b] = "answered"]
        /\ UNCHANGED <<frame, client, solver, answer>>
        /\ CloseServers({b})
    BY <1>3 DEF Settle, Returns, Hangup
  <2>2. channel' \in [Bots -> {"null", "open", "bound", "closed"}]
    BY <2>1, CloseTypes DEF IInv
  <2>3. /\ channel'[b] # "bound"
        /\ \A c \in Bots \ {b} : channel'[c] = channel[c]
        /\ \A c \in Bots : backlog'[c] \in {backlog[c], <<>>}
    BY <2>1 DEF CloseServers
  <2> QED
    BY <1>1, <1>2, <2>1, <2>2, <2>3, ReturnTurn
<1>4. ASSUME Fails(b) PROVE TurnInv'
  <2>1. /\ pc' = [pc EXCEPT ![b] = "game"]
        /\ outcome' = [outcome EXCEPT ![b] = "failed"]
        /\ UNCHANGED <<frame, channel, client, backlog, solver, answer>>
    BY <1>4 DEF Fails, solver_vars
  <2>2. channel \in [Bots -> {"null", "open", "bound", "closed"}]
    BY DEF IInv, TypeOK
  <2> QED
    BY <1>1, <1>2, <2>1, <2>2, ReturnTurn
<1> QED
  BY <1>3, <1>4 DEF ReadAnswer, ReadEndOfStream, ReadReset

LEMMA ExecFailsTurn ==
    ASSUME IInv, TurnInv, NEW b \in Bots, ExecFails(b)
    PROVE  TurnInv'
<1>1. /\ pc[b] = "exec"
      /\ pc' = [pc EXCEPT ![b] = "game"]
      /\ outcome' = [outcome EXCEPT ![b] = "failed"]
      /\ UNCHANGED <<frame, channel, client, backlog, solver, answer>>
  BY DEF ExecFails, Fails, solver_vars
<1>2. channel \in [Bots -> {"null", "open", "bound", "closed"}]
  BY DEF IInv, TypeOK
<1>3. solver[<<b, frame[b]>>] = "none"
  BY <1>1, LinkAssumption DEF IInv, FrameInv
<1>4. solver[<<b, frame[b]>>] \notin AtWork
  BY <1>3 DEF AtWork
<1> QED
  BY <1>1, <1>2, <1>4, ReturnTurn

LEMMA ConnectTurn ==
    ASSUME IInv, TurnInv, NEW s \in Solvers, Connect(s)
    PROVE  TurnInv'
<1>1. PICK b \in Bots : /\ channel[b] = "bound"
                        /\ backlog' = [backlog EXCEPT ![b] = Append(@, s)]
  BY DEF Connect
<1>2. /\ solver[s] = "started" /\ solver' = [solver EXCEPT ![s] = "connected"]
      /\ UNCHANGED <<pc, frame, channel, client, outcome, answer>>
      /\ backlog \in [Bots -> Seq(Solvers)] /\ solver \in [Solvers -> States]
  BY DEF Connect, bot_vars, IInv, TypeOK, States
<1>3. /\ Waiting(b)' = Waiting(b) \union {s}
      /\ \A c \in Bots \ {b} : Waiting(c)' = Waiting(c)
  <2>1. NoDuplicate(backlog[b]) /\ s \notin Waiting(b) /\ backlog[b] \in Seq(Solvers)
    BY <1>2 DEF IInv, BacklogInv
  <2>2. Elements(Append(backlog[b], s)) = Elements(backlog[b]) \union {s}
    BY <2>1, Appended DEF Waiting
  <2> QED
    BY <1>1, <1>2, <2>2 DEF Waiting
<1>4. s[1] \in Bots /\ s = <<s[1], s[2]>>
  BY SolverIsPair
<1>5. ASSUME pc[s[1]] # "crashed"
      PROVE  /\ pc[s[1]] = "accept" /\ s[2] = frame[s[1]]
             /\ channel[s[1]] = "bound" => b = s[1]
  <2>1. pc[s[1]] \in {"accept", "write", "read"} /\ s[2] = frame[s[1]]
    BY <1>2, <1>5 DEF TurnInv, NoOrphan, AtWork
  <2>2. client[s[1]] # s
    BY <1>2, <1>4 DEF IInv, SolverInv
  <2>3. pc[s[1]] = "accept"
    BY <1>4, <2>1, <2>2 DEF TurnInv, ClientIsOwn
  <2> QED
    BY <1>1, <1>4, <2>1, <2>3 DEF TurnInv, PortInv
<1>6. WaitsForOwn'
  BY <1>2, <1>3, <1>5 DEF TurnInv, WaitsForOwn
<1>7. TakeTurns' /\ PortInv' /\ ClientIsOwn'
  BY <1>2 DEF TurnInv, TakeTurns, PortInv, ClientIsOwn
<1>8. AnswerEnds' /\ NoOrphan'
  BY <1>2 DEF TurnInv, AnswerEnds, NoOrphan, AtWork
<1> QED
  BY <1>6, <1>7, <1>8 DEF TurnInv

\* The other steps of a solver, which goes to work only by starting.
LEMMA WorkTurn ==
    ASSUME IInv, TurnInv, NEW s \in Solvers, NEW v \in States,
           solver' = [solver EXCEPT ![s] = v],
           v \in AtWork => solver[s] \in AtWork,
           v \notin {"sent", "exited"} => solver[s] \in AtWork,
           \/ UNCHANGED answer
           \/ v \in {"sent", "exited"} /\ \E a : answer' = [answer EXCEPT ![s] = a],
           UNCHANGED <<bot_vars, backlog>>
    PROVE  TurnInv'
<1>1. /\ UNCHANGED <<pc, frame, channel, client, outcome, backlog>>
      /\ solver \in [Solvers -> States]
      /\ answer \in [Solvers -> {"nothing", "zeros", "some"}]
  BY DEF bot_vars, IInv, TypeOK, States
<1>2. \A r \in Solvers \ {s} : solver'[r] = solver[r] /\ answer'[r] = answer[r]
  BY <1>1
<1>3. solver'[s] = v
  BY <1>1
<1>4. TakeTurns' /\ PortInv' /\ ClientIsOwn' /\ WaitsForOwn'
  BY <1>1 DEF TurnInv, TakeTurns, PortInv, ClientIsOwn, WaitsForOwn, Waiting
<1>5. AnswerEnds'
  <2>1. CASE v \in {"sent", "exited"}
    BY <1>2, <1>3, <2>1 DEF TurnInv, AnswerEnds
  <2>2. CASE v \notin {"sent", "exited"}
    <3>1. answer'[s] = answer[s] /\ answer[s] = "nothing"
      BY <2>2 DEF TurnInv, AnswerEnds, AtWork
    <3> QED
      BY <1>2, <3>1 DEF TurnInv, AnswerEnds
  <2> QED
    BY <2>1, <2>2
<1>6. NoOrphan'
  BY <1>1, <1>2, <1>3 DEF TurnInv, NoOrphan
<1> QED
  BY <1>4, <1>5, <1>6 DEF TurnInv

LEMMA SolverTurn ==
    ASSUME IInv, TurnInv, NEW s \in Solvers, Work(s) \/ Die(s)
    PROVE  TurnInv'
<1> USE DEF States, AtWork
<1>1. ASSUME ConnectRefused(s) PROVE TurnInv'
  BY <1>1, WorkTurn DEF ConnectRefused
<1>2. ASSUME Recv(s) PROVE TurnInv'
  BY <1>2, WorkTurn DEF Recv
<1>3. ASSUME SolveAndSend(s) PROVE TurnInv'
  BY <1>3, WorkTurn DEF SolveAndSend
<1>4. ASSUME Exit(s) PROVE TurnInv'
  BY <1>4, WorkTurn DEF Exit
<1>5. ASSUME Die(s) PROVE TurnInv'
  BY <1>5, WorkTurn DEF Die
<1> QED
  BY <1>1, <1>2, <1>3, <1>4, <1>5, ConnectTurn DEF Work

LEMMA InitTurn ==
    ASSUME Init
    PROVE  TurnInv
<1> USE DEF Init
<1>1. TakeTurns /\ PortInv /\ ClientIsOwn /\ AnswerEnds
  BY DEF TakeTurns, PortInv, ClientIsOwn, AnswerEnds, Asking
<1>2. WaitsForOwn
  BY EmptyQueue DEF WaitsForOwn, Waiting
<1>3. NoOrphan
  BY DEF NoOrphan, AtWork
<1> QED
  BY <1>1, <1>2, <1>3 DEF TurnInv

LEMMA TurnStep ==
    ASSUME OneMachine, IInv, TurnInv, [Next]_vars
    PROVE  TurnInv'
<1>1. ASSUME NEW b \in Bots, OpenAndBind(b) \/ Decide(b) \/ GameOver(b) \/ GameOverNull(b)
      PROVE  TurnInv'
  BY <1>1, OpenTurn, ExecTurn, ExecFailsTurn, AcceptTurn, CrashTurn, WriteTurn, ReadTurn,
     GameOverTurn DEF Decide, AcceptUnbound, GameOverNull
<1>2. ASSUME UNCHANGED vars
      PROVE  TurnInv'
  BY <1>2 DEF vars, bot_vars, solver_vars, TurnInv, TakeTurns, PortInv, WaitsForOwn, Waiting,
              ClientIsOwn, AnswerEnds, NoOrphan
<1> QED
  BY <1>1, <1>2, SolverTurn DEF Next

\* Bots that one virtual machine runs, one after the other, have the port, their
\* solver and its answer each for itself.
THEOREM TurnsAreKept ==
    ASSUME OneMachine
    PROVE  Spec => []TurnInv
<1>1. Init => TurnInv
  BY InitTurn
<1>2. IInv /\ TurnInv /\ [Next]_vars => TurnInv'
  BY TurnStep
<1> QED
  BY <1>1, <1>2, Inductive, PTL DEF Spec

\* However the solvers fail, none is left at work, or waiting for a later
\* accept(), by a call of decideProduction() that has returned.
THEOREM NobodyOrphaned ==
    ASSUME OneMachine
    PROVE  Spec => []NoOrphan
<1>1. TurnInv => NoOrphan
  BY DEF TurnInv
<1> QED
  BY <1>1, TurnsAreKept, PTL

\* A bot finds the port taken only by a server that the failed exchange of
\* another bot has left open.
THEOREM UnboundAfterFailure ==
    ASSUME OneMachine
    PROVE  Spec => []UnboundOnlyAfterFailure
<1>1. TurnInv => UnboundOnlyAfterFailure
  BY DEF TurnInv, TakeTurns, PortInv, UnboundOnlyAfterFailure, Asking
<1> QED
  BY <1>1, TurnsAreKept, PTL

-----------------------------------------------------------------------------
(* What a bot waits for.                                                   *)

\* A bot in accept() has its solver on the way, or in its backlog, unless bind()
\* has left the server unbound, which ends the wait at once.
AwaitsItsSolver ==
    \A b \in Bots :
        pc[b] = "accept" /\ channel[b] = "bound" =>
            solver[<<b, frame[b]>>] = "started" \/ <<b, frame[b]>> \in Waiting(b)

\* While a bot asks, no other bot does anything.
LEMMA OneActs ==
    ASSUME OneMachine, TurnInv, NEW b \in Bots, NEW c \in Bots, pc[b] \in Asking,
           OpenAndBind(c) \/ Decide(c) \/ GameOver(c) \/ GameOverNull(c)
    PROVE  c = b /\ Decide(b)
<1>1. ~ HasTheTurn(c)
  BY DEF HasTheTurn, OneMachine, Asking
<1>2. Decide(c)
  BY <1>1 DEF OpenAndBind, GameOver, GameOverNull
<1>3. pc[c] \in Asking
  BY <1>2 DEF Decide, Exec, ExecFails, Accept, AcceptUnbound, Write, ReadAnswer,
              ReadEndOfStream, ReadReset, Asking
<1> QED
  BY <1>2, <1>3 DEF TurnInv, TakeTurns, Asking

LEMMA AwaitsStep ==
    ASSUME OneMachine, "connect" \notin Faults, IInv, TurnInv, AwaitsItsSolver, [Next]_vars
    PROVE  AwaitsItsSolver'
<1> SUFFICES ASSUME NEW b \in Bots, pc'[b] = "accept", channel'[b] = "bound"
             PROVE  \/ solver'[<<b, frame'[b]>>] = "started"
                    \/ <<b, frame'[b]>> \in Waiting(b)'
  BY DEF AwaitsItsSolver
<1>a. /\ pc \in [Bots -> Stages] /\ solver \in [Solvers -> States]
      /\ backlog \in [Bots -> Seq(Solvers)]
      /\ frame[b] \in 0 .. MaxFrame
  BY PcType DEF IInv, TypeOK, States, FrameInv
<1>1. ASSUME NEW c \in Bots, OpenAndBind(c) \/ Decide(c) \/ GameOver(c) \/ GameOverNull(c)
      PROVE  solver'[<<b, frame'[b]>>] = "started"
  <2>1. pc[b] \in Asking
    <3>1. CASE OpenAndBind(c)
      BY <1>a, <3>1 DEF OpenAndBind, Asking, Stages
    <3>2. CASE Decide(c)
      <4>1. pc[c] \in Asking
        BY <3>2 DEF Decide, Exec, ExecFails, Accept, AcceptUnbound, Write, ReadAnswer,
                    ReadEndOfStream, ReadReset, Asking
      <4>2. c # b => pc'[b] = pc[b] \/ pc'[b] = "crashed"
        BY <1>a, <3>2 DEF Decide, Exec, ExecFails, Fails, Accept, AcceptUnbound, Uncaught, Write,
               ReadAnswer, ReadEndOfStream, ReadReset, Settle, Returns
      <4> QED
        BY <4>1, <4>2 DEF Asking
    <3>3. CASE GameOver(c)
      BY <1>a, <3>3 DEF GameOver, Asking
    <3>4. CASE GameOverNull(c)
      BY <1>a, <3>4 DEF GameOverNull, Uncaught, Asking
    <3> QED
      BY <1>1, <3>1, <3>2, <3>3, <3>4
  <2>2. c = b /\ Decide(b)
    BY <1>1, <2>1, OneActs
  <2>3. Exec(b)
    BY <1>a, <2>2 DEF Decide, ExecFails, Fails, Accept, AcceptUnbound, Uncaught, Write,
                      ReadAnswer, ReadEndOfStream, ReadReset, Settle, Returns
  <2>4. <<b, frame[b]>> \in Solvers /\ frame' = frame
    BY <2>3, LinkAssumption DEF Exec, IInv, FrameInv, Solvers, Requests
  <2> QED
    BY <1>a, <2>3, <2>4 DEF Exec
<1>2. ASSUME NEW s \in Solvers, Work(s) \/ Die(s)
      PROVE  \/ solver'[<<b, frame'[b]>>] = "started"
             \/ <<b, frame'[b]>> \in Waiting(b)'
  <2>1. /\ UNCHANGED bot_vars
        /\ \A r \in Solvers \ {s} : solver'[r] = solver[r]
    BY <1>a, <1>2 DEF Work, Die, Connect, ConnectRefused, Recv, SolveAndSend, Exit
  <2>2. /\ pc[b] = "accept" /\ channel[b] = "bound" /\ frame' = frame
        /\ solver[<<b, frame[b]>>] = "started" \/ <<b, frame[b]>> \in Waiting(b)
    BY <2>1 DEF bot_vars, AwaitsItsSolver
  <2>3. <<b, frame[b]>> \in Solvers
    BY <1>a, <2>2, LinkAssumption DEF IInv, FrameInv, Solvers, Requests
  <2>4. CASE Connect(s)
    <3>1. PICK c \in Bots : channel[c] = "bound" /\ backlog' = [backlog EXCEPT ![c] = Append(@, s)]
      BY <2>4 DEF Connect
    <3>2. c = b
      BY <2>2, <3>1 DEF TurnInv, PortInv
    <3>3. solver[s] = "started"
      BY <2>4 DEF Connect
    <3>4. NoDuplicate(backlog[b]) /\ s \notin Waiting(b) /\ backlog[b] \in Seq(Solvers)
      BY <1>a, <3>3 DEF IInv, BacklogInv
    <3>5. Waiting(b)' = Waiting(b) \union {s}
      BY <1>a, <3>1, <3>2, <3>4, Appended DEF Waiting
    <3> QED
      BY <2>1, <2>2, <2>3, <3>5
  <2>5. CASE ~ Connect(s)
    <3>1. backlog' = backlog
      BY <1>2, <2>5 DEF Work, Die, ConnectRefused, Recv, SolveAndSend, Exit
    <3>2. solver[s] # "started"
      <4>1. ~ ConnectRefused(s)
        BY <2>2 DEF ConnectRefused, PortIsFree
      <4>2. CASE Die(s)
        BY <4>2 DEF Die
      <4>3. CASE Work(s)
        BY <2>5, <4>1, <4>3 DEF Work, Recv, SolveAndSend, Exit
      <4> QED
        BY <1>2, <4>2, <4>3
    <3>3. Waiting(b)' = Waiting(b)
      BY <3>1 DEF Waiting
    <3>4. solver[<<b, frame[b]>>] = "started" => solver'[<<b, frame[b]>>] = "started"
      BY <2>1, <2>3, <3>2
    <3> QED
      BY <2>2, <3>3, <3>4
  <2> QED
    BY <2>4, <2>5
<1>3. CASE UNCHANGED vars
  BY <1>3 DEF vars, bot_vars, solver_vars, AwaitsItsSolver, Waiting
<1> QED
  BY <1>1, <1>2, <1>3 DEF Next

\* Whom the bot waits for can act, or the wait is over.
WaitsForSomeone ==
    \A b \in Bots :
        /\ pc[b] = "accept" =>
             \/ channel[b] # "bound"
             \/ backlog[b] # <<>>
             \/ solver[<<b, frame[b]>>] = "started"
        /\ pc[b] = "read" =>
             /\ solver[client[b]] \notin {"none", "started"}
             /\ solver[client[b]] = "connected" => inbox[client[b]] = <<b, frame[b]>>

\* decideProduction() never waits for nothing, if no solver dies before it has
\* connected: until accept() there is a connection or a solver that will connect,
\* and no solver that the bot reads from waits for a question.  (A solver that
\* dies earlier leaves the bot in accept() for ever, see DecideReturns.)
THEOREM NeverWaitsInVain ==
    ASSUME OneMachine, "connect" \notin Faults
    PROVE  Spec => []WaitsForSomeone
<1>1. Init => AwaitsItsSolver
  BY DEF Init, AwaitsItsSolver
<1>2. IInv /\ TurnInv /\ AwaitsItsSolver /\ [Next]_vars => AwaitsItsSolver'
  BY AwaitsStep
<1>3. IInv /\ AwaitsItsSolver => WaitsForSomeone
  <2> SUFFICES ASSUME IInv, AwaitsItsSolver, NEW b \in Bots
               PROVE  /\ pc[b] = "accept" =>
                           \/ channel[b] # "bound"
                           \/ backlog[b] # <<>>
                           \/ solver[<<b, frame[b]>>] = "started"
                      /\ pc[b] = "read" =>
                           /\ solver[client[b]] \notin {"none", "started"}
                           /\ solver[client[b]] = "connected" =>
                                inbox[client[b]] = <<b, frame[b]>>
    BY DEF WaitsForSomeone
  <2>1. backlog[b] = <<>> => Waiting(b) = {}
    BY EmptyQueue DEF Waiting
  <2>2. pc[b] = "read" => solver[client[b]] \notin {"none", "started"}
    BY DEF IInv, ClientInv, SolverInv
  <2> QED
    BY <2>1, <2>2 DEF AwaitsItsSolver, IInv, ClientInv
<1> QED
  BY <1>1, <1>2, <1>3, Inductive, TurnsAreKept, PTL DEF Spec
=============================================================================
