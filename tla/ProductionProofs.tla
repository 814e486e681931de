-------------------------- MODULE ProductionProofs --------------------------
(***************************************************************************)
(* Theorems on Production, for any prices, times, bounds and answers of    *)
(* the solver: types are kept, a barracks is paid for, orders are followed *)
(* and a heavy unit that is owed cannot be paid.                           *)
(***************************************************************************)
EXTENDS Production, TLAPS

-----------------------------------------------------------------------------
(* The ranking of reset()                                                  *)

\* Whatever the values and their ties, the type reset() calls the cheapest, or the
\* fastest, has the least value, and the type it calls the dearest the greatest.
THEOREM RankingIsRight ==
    ASSUME NEW value \in [ArmyTypes -> Nat], NEW t \in ArmyTypes
    PROVE  /\ Lowest(value) \in ArmyTypes /\ value[Lowest(value)] <= value[t]
           /\ Highest(value) \in ArmyTypes /\ value[t] <= value[Highest(value)]
<1>1. value["heavy"] \in Nat /\ value["light"] \in Nat /\ value["ranged"] \in Nat
  BY DEF ArmyTypes
<1>2. t \in {"heavy", "light", "ranged"}
  BY DEF ArmyTypes
<1>3. Lowest(value) \in ArmyTypes /\ value[Lowest(value)] <= value[t]
  BY <1>1, <1>2 DEF Lowest, ArmyTypes
<1>4. Highest(value) \in ArmyTypes /\ value[t] <= value[Highest(value)]
  BY <1>1, <1>2 DEF Highest, ArmyTypes
<1> QED
  BY <1>3, <1>4

-----------------------------------------------------------------------------
(* Types                                                                   *)

\* What the proofs use of the assumption on the constants.
LEMMA Prices ==
    /\ Price["heavy"] \in Nat /\ Price["light"] \in Nat /\ Price["ranged"] \in Nat
    /\ Price["worker"] \in Nat /\ Price["base"] \in Nat /\ Price["barracks"] \in Nat
    /\ FastestType \in ArmyTypes
<1>1. Price \in [Priced -> Nat] /\ Duration \in [ArmyTypes -> Nat]
  BY ProductionAssumption
<1>2. "heavy" \in ArmyTypes
  BY DEF ArmyTypes
<1>3. FastestType \in ArmyTypes
  BY <1>1, <1>2, RankingIsRight DEF FastestType
<1> QED
  BY <1>1, <1>3 DEF Priced, ArmyTypes

LEMMA PricedArmy == \A t \in ArmyTypes : Price[t] \in Nat
  BY Prices DEF ArmyTypes

\* The type to train is unique, and there is one.
LEMMA PreferredExists ==
    ASSUME to_produce \in [ArmyTypes -> Int]
    PROVE  \E t \in ArmyTypes : Preferred(t)
<1>1. to_produce["heavy"] \in Int /\ to_produce["light"] \in Int /\ to_produce["ranged"] \in Int
  BY DEF ArmyTypes
<1>2. CASE /\ to_produce["light"] >= to_produce["heavy"]
           /\ to_produce["light"] >= to_produce["ranged"]
  BY <1>1, <1>2 DEF Preferred, ArmyTypes
<1>3. CASE /\ to_produce["ranged"] > to_produce["light"]
           /\ to_produce["ranged"] >= to_produce["heavy"]
  BY <1>1, <1>3 DEF Preferred, ArmyTypes
<1>4. CASE /\ to_produce["heavy"] > to_produce["light"]
           /\ to_produce["heavy"] > to_produce["ranged"]
  BY <1>1, <1>4 DEF Preferred, ArmyTypes
<1> QED
  BY <1>1, <1>2, <1>3, <1>4

LEMMA TrainTypes ==
    ASSUME TypeOK, NEW t \in ArmyTypes, Train(t)
    PROVE  trained' \in [ArmyTypes -> Nat] /\ desired' \in Nat /\ reserved_resources' \in Nat
<1>1. Price[t] \in Nat
  BY PricedArmy
<1>2. trained[t] + 1 \in Nat
  BY DEF TypeOK
<1>3. trained' \in [ArmyTypes -> Nat]
  BY <1>2 DEF TypeOK, Train
<1> QED
  BY <1>1, <1>3 DEF TypeOK, Train

LEMMA TypeInv == TypeOK /\ [Next]_vars => TypeOK'
<1> SUFFICES ASSUME TypeOK, [Next]_vars PROVE TypeOK'
  OBVIOUS
<1> USE ProductionAssumption, Prices, PricedArmy
<1>1. CASE BeginFrame
  <2>1. frame' \in 0 .. MaxFrame
    BY <1>1 DEF BeginFrame, TypeOK
  <2>2. PICK g \in Games : game' = g /\ bases_left' \in 0 .. g.bases /\ barracks_left' = g.idle
    BY <1>1 DEF BeginFrame
  <2>3. game' \in Games /\ bases_left' \in 0 .. MaxBases /\ barracks_left' \in 0 .. MaxBarracks
    BY <2>2 DEF Games
  <2> QED
    BY <1>1, <2>1, <2>3 DEF BeginFrame, TypeOK, NoOrder, Nothing
<1>2. CASE BaseBehavior
  <2>1. bases_left' \in 0 .. MaxBases
    BY <1>2 DEF BaseBehavior, TypeOK
  <2>2. reserved_resources' \in Nat /\ desired' \in Nat
    BY <1>2 DEF BaseBehavior, TypeOK
  <2> QED
    BY <1>2, <2>1, <2>2 DEF BaseBehavior, TypeOK
<1>3. CASE EndBases
  BY <1>3 DEF EndBases, TypeOK
<1>4. CASE DecideProduction
  <2>1. to_produce' \in [ArmyTypes -> Int] /\ order' \in [ArmyTypes -> Nat \union {-1}]
    BY <1>4 DEF DecideProduction, Receive, Nothing, TypeOK
  <2> QED
    BY <1>4, <2>1 DEF DecideProduction, TypeOK
<1>5. CASE BarracksBehavior
  <2>1. barracks_left' \in 0 .. MaxBarracks
    BY <1>5 DEF BarracksBehavior, TypeOK
  <2>2. /\ trained' \in [ArmyTypes -> Nat] /\ desired' \in Nat /\ reserved_resources' \in Nat
        /\ to_produce' \in [ArmyTypes -> Int]
    <3>1. CASE PlaysQuickly
      BY <1>5, <3>1, TrainTypes DEF BarracksBehavior, TrainFastest, TypeOK
    <3>2. CASE ~ PlaysQuickly
      <4>1. PICK t \in ArmyTypes :
              IF game.stock >= LowestPrice /\ game.stock >= Price[t]
              THEN Train(t) /\ to_produce' = [to_produce EXCEPT ![t] = @ - 1]
              ELSE NoTrain
        BY <1>5, <3>2 DEF BarracksBehavior, TrainPreferred
      <4>2. CASE NoTrain
        BY <4>2 DEF NoTrain, TypeOK
      <4>3. CASE Train(t) /\ to_produce' = [to_produce EXCEPT ![t] = @ - 1]
        BY <4>3, TrainTypes DEF TypeOK
      <4> QED
        BY <4>1, <4>2, <4>3
    <3> QED
      BY <3>1, <3>2
  <2> QED
    BY <1>5, <2>1, <2>2 DEF BarracksBehavior, TypeOK
<1>6. CASE RandomBarracksBehavior
  <2>1. barracks_left' \in 0 .. MaxBarracks
    BY <1>6 DEF RandomBarracksBehavior, TypeOK
  <2>2. ASSUME NEW t \in ArmyTypes, TrainUnreserved(t)
        PROVE  trained' \in [ArmyTypes -> Nat] /\ desired' \in Nat
    BY <2>2 DEF TrainUnreserved, TypeOK
  <2>3. "heavy" \in ArmyTypes
    BY DEF ArmyTypes
  <2>4. trained' \in [ArmyTypes -> Nat] /\ desired' \in Nat /\ heavy' \in BOOLEAN
    <3>1. CASE TrainOwed
      BY <2>2, <2>3, <3>1 DEF TrainOwed, NoTrainAtRandom, TypeOK
    <3>2. CASE TrainDrawn
      BY <2>2, <3>2 DEF TrainDrawn, NoTrainAtRandom, TypeOK
    <3> QED
      BY <1>6, <3>1, <3>2 DEF RandomBarracksBehavior
  <2> QED
    BY <1>6, <2>1, <2>4 DEF RandomBarracksBehavior, TypeOK
<1>7. CASE EndBarracks
  BY <1>7 DEF EndBarracks, TypeOK
<1>8. CASE WorkersBehavior
  <2>1. reserved_resources' \in Nat /\ desired' \in Nat /\ builds_barracks' \in BOOLEAN
    BY <1>8 DEF WorkersBehavior, TypeOK
  <2> QED
    BY <1>8, <2>1 DEF WorkersBehavior, TypeOK
<1>9. CASE UNCHANGED vars
  BY <1>9 DEF vars, TypeOK
<1> QED
  BY <1>1, <1>2, <1>3, <1>4, <1>5, <1>6, <1>7, <1>8, <1>9 DEF Next

LEMMA InitTypes == Init => TypeOK
<1> SUFFICES ASSUME Init PROVE TypeOK
  OBVIOUS
<1>1. NoGame \in Games
  BY ProductionAssumption DEF NoGame, Games
<1>2. heavy \in BOOLEAN
  BY Zenon DEF Init
<1>3. to_produce \in [ArmyTypes -> Int]
  BY ProductionAssumption DEF Init
<1>4. order \in [ArmyTypes -> Nat \union {-1}] /\ trained \in [ArmyTypes -> Nat]
  BY DEF Init, NoOrder, Nothing
<1>5. frame \in 0 .. MaxFrame /\ bases_left \in 0 .. MaxBases /\ barracks_left \in 0 .. MaxBarracks
  BY ProductionAssumption DEF Init
<1> QED
  BY <1>1, <1>2, <1>3, <1>4, <1>5 DEF Init, TypeOK

\* Every variable of a frame keeps its type, whatever the game and the answers.
THEOREM TypeCorrect == Spec => []TypeOK
  BY InitTypes, TypeInv, PTL DEF Spec

-----------------------------------------------------------------------------
(* The inductive invariant                                                 *)

\* Which parts of a frame have been gone through, and what is still untouched.
Progress ==
    /\ pc \in {"bases", "decide"} =>
         barracks_left = game.idle /\ order = NoOrder /\ trained = Nothing
    /\ pc = "barracks" => barracks_left <= game.idle
    /\ pc = "workers" => barracks_left = 0
    /\ builds_barracks => pc = "scan"

\* The bot, unlike its random variant, reserves all it asks for.
AllIsReserved == ~ random_bot => desired = reserved_resources

\* A heavy unit owed has been drawn, or not paid, by the last barracks, so that
\* none of this frame has been paid.
OwedIsUnpaid ==
    /\ heavy => random_bot
    /\ random_bot /\ trained["heavy"] > 0 => game.stock >= Price["heavy"]
    /\ pc \in {"barracks", "workers"} /\ heavy /\ barracks_left < game.idle =>
         game.stock < Price["heavy"]

Followable ==
    /\ ~ random_bot /\ order # NoOrder /\ ~ Rush
    /\ Total(order) <= game.idle /\ PriceOf(order) <= game.stock

\* As long as there are units to produce each barracks has trained one of them;
\* after that the order is complete, with barracks to spare.
InProduction ==
    /\ \A t \in ArmyTypes : to_produce[t] >= 0
    /\ Total(to_produce) + game.idle = Total(order) + barracks_left

Produced ==
    /\ \A t \in ArmyTypes : to_produce[t] <= 0
    /\ Total(order) < game.idle

OrderAsTrained ==
    pc \in {"barracks", "workers"} /\ Followable =>
        /\ \A t \in ArmyTypes : order[t] \in Nat /\ to_produce[t] = order[t] - trained[t]
        /\ InProduction \/ Produced

IInv ==
    /\ TypeOK /\ Progress
    /\ AllIsReserved /\ BarracksIsCovered
    /\ OwedIsUnpaid
    /\ OrderAsTrained

LEMMA GameTypes ==
    ASSUME TypeOK
    PROVE  /\ game.stock \in Nat /\ game.idle \in Nat /\ barracks_left \in Nat
           /\ desired \in Nat /\ reserved_resources \in Nat
  BY ProductionAssumption DEF TypeOK, Games

LEMMA InitInv == Init => IInv
<1> SUFFICES ASSUME Init PROVE IInv
  OBVIOUS
<1>1. TypeOK
  BY InitTypes
<1>2. heavy => random_bot
  BY Zenon DEF Init
<1>3. trained["heavy"] = 0
  BY DEF Init, Nothing, ArmyTypes
<1> QED
  BY <1>1, <1>2, <1>3
     DEF Init, IInv, Progress, AllIsReserved, BarracksIsCovered, OwedIsUnpaid, OrderAsTrained

LEMMA BeginFrameInv == IInv /\ BeginFrame => IInv'
<1> SUFFICES ASSUME IInv, BeginFrame PROVE IInv'
  OBVIOUS
<1>1. TypeOK'
  BY TypeInv DEF IInv, Next
<1>2. Progress'
  BY DEF BeginFrame, Progress
<1>3. AllIsReserved' /\ BarracksIsCovered'
  BY DEF BeginFrame, AllIsReserved, BarracksIsCovered
<1>4. OwedIsUnpaid'
  BY DEF IInv, OwedIsUnpaid, BeginFrame, Nothing, ArmyTypes
<1>5. OrderAsTrained'
  BY DEF BeginFrame, OrderAsTrained
<1> QED
  BY <1>1, <1>2, <1>3, <1>4, <1>5 DEF IInv

LEMMA BaseBehaviorInv == IInv /\ BaseBehavior => IInv'
<1> SUFFICES ASSUME IInv, BaseBehavior PROVE IInv'
  OBVIOUS
<1>1. TypeOK'
  BY TypeInv DEF IInv, Next
<1>2. Progress'
  BY DEF IInv, BaseBehavior, Progress
<1>3. AllIsReserved'
  BY GameTypes, Prices DEF IInv, BaseBehavior, AllIsReserved
<1>4. BarracksIsCovered'
  BY DEF IInv, BaseBehavior, Progress, BarracksIsCovered
<1>5. OwedIsUnpaid'
  BY DEF IInv, OwedIsUnpaid, BaseBehavior
<1>6. OrderAsTrained'
  BY DEF BaseBehavior, OrderAsTrained
<1> QED
  BY <1>1, <1>2, <1>3, <1>4, <1>5, <1>6 DEF IInv

LEMMA EndBasesInv == IInv /\ EndBases => IInv'
<1> SUFFICES ASSUME IInv, EndBases PROVE IInv'
  OBVIOUS
<1>1. TypeOK'
  BY TypeInv DEF IInv, Next
<1>2. Progress'
  BY GameTypes DEF IInv, EndBases, Progress
<1>3. AllIsReserved' /\ BarracksIsCovered'
  BY DEF IInv, EndBases, AllIsReserved, Progress, BarracksIsCovered
<1>4. OwedIsUnpaid'
  BY GameTypes DEF IInv, OwedIsUnpaid, EndBases, Progress
<1>5. OrderAsTrained'
  BY DEF IInv, EndBases, Progress, Followable, OrderAsTrained
<1> QED
  BY <1>1, <1>2, <1>3, <1>4, <1>5 DEF IInv

\* The answer that arrives is still whole.
LEMMA DecideProductionInv == IInv /\ DecideProduction => IInv'
<1> SUFFICES ASSUME IInv, DecideProduction PROVE IInv'
  OBVIOUS
<1>1. TypeOK'
  BY TypeInv DEF IInv, Next
<1>2. Progress'
  BY GameTypes DEF IInv, DecideProduction, Progress
<1>3. AllIsReserved' /\ BarracksIsCovered'
  BY DEF IInv, DecideProduction, AllIsReserved, Progress, BarracksIsCovered
<1>4. OwedIsUnpaid'
  BY GameTypes DEF IInv, OwedIsUnpaid, DecideProduction, Progress
<1>5. OrderAsTrained'
  <2>1. CASE order' = NoOrder
    BY <2>1 DEF OrderAsTrained, Followable
  <2>2. CASE order' \in [ArmyTypes -> Nat] /\ to_produce' = order'
    <3>1. /\ barracks_left' = game'.idle /\ trained' = Nothing
          /\ barracks_left' \in Nat
      BY GameTypes DEF IInv, DecideProduction, Progress
    <3>2. \A t \in ArmyTypes : order'[t] \in Nat /\ to_produce'[t] = order'[t] - trained'[t]
                               /\ to_produce'[t] >= 0
      BY <2>2, <3>1 DEF Nothing
    <3>3. InProduction'
      BY <2>2, <3>1, <3>2 DEF InProduction, Total
    <3> QED
      BY <3>2, <3>3 DEF OrderAsTrained
  <2>3. \/ order' = NoOrder
        \/ order' \in [ArmyTypes -> Nat] /\ to_produce' = order'
    BY ProductionAssumption DEF DecideProduction, Receive, Nothing, IInv, Progress
  <2> QED
    BY <2>1, <2>2, <2>3
<1> QED
  BY <1>1, <1>2, <1>3, <1>4, <1>5 DEF IInv

-----------------------------------------------------------------------------
(* The barracks                                                            *)

LEMMA PriceOfMany ==
    ASSUME NEW p \in Nat, NEW n \in Nat
    PROVE  p * n \in Nat /\ (n >= 1 => p <= p * n)
<1>1. p * n \in Nat
  OBVIOUS
<1>2. ASSUME n >= 1 PROVE p <= p * n
  <2>1. n - 1 \in Nat
    BY <1>2
  <2>2. p * (n - 1) \in Nat
    BY <2>1
  <2>3. p * n = p + p * (n - 1)
    OBVIOUS
  <2> QED
    BY <2>2, <2>3, <1>1
<1> QED
  BY <1>1, <1>2

\* What an order asks for can be paid one by one, if it can be paid at all.
LEMMA OrderedIsPaid ==
    ASSUME \A u \in ArmyTypes : order[u] \in Nat,
           game.stock \in Nat, PriceOf(order) <= game.stock,
           NEW t \in ArmyTypes, order[t] >= 1
    PROVE  game.stock >= LowestPrice /\ game.stock >= Price[t]
<1>1. /\ order["heavy"] \in Nat /\ order["light"] \in Nat /\ order["ranged"] \in Nat
      /\ t \in {"heavy", "light", "ranged"}
  BY DEF ArmyTypes
<1> DEFINE H == Price["heavy"] * order["heavy"]
           L == Price["light"] * order["light"]
           R == Price["ranged"] * order["ranged"]
<1>2. H \in Nat /\ (order["heavy"] >= 1 => Price["heavy"] <= H)
  BY <1>1, Prices, PriceOfMany
<1>3. L \in Nat /\ (order["light"] >= 1 => Price["light"] <= L)
  BY <1>1, Prices, PriceOfMany
<1>4. R \in Nat /\ (order["ranged"] >= 1 => Price["ranged"] <= R)
  BY <1>1, Prices, PriceOfMany
<1>5. H + L + R <= game.stock
  BY DEF PriceOf, CostWith
<1>6. Price[t] <= H + L + R
  <2> HIDE DEF H, L, R
  <2>1. CASE t = "heavy"
    BY <2>1, <1>2, <1>3, <1>4, Prices
  <2>2. CASE t = "light"
    BY <2>2, <1>2, <1>3, <1>4, Prices
  <2>3. CASE t = "ranged"
    BY <2>3, <1>2, <1>3, <1>4, Prices
  <2> QED
    BY <1>1, <2>1, <2>2, <2>3
<1>7. H + L + R \in Nat
  BY <1>2, <1>3, <1>4
<1>8. game.stock >= Price[t]
  <2> HIDE DEF H, L, R
  <2> QED
    BY <1>5, <1>6, <1>7, PricedArmy
<1>9. LowestPrice <= Price[t] /\ LowestPrice \in Nat
  <2>1. [u \in ArmyTypes |-> Price[u]] \in [ArmyTypes -> Nat]
    BY PricedArmy
  <2>2. Lowest(Price) = Lowest([u \in ArmyTypes |-> Price[u]])
    BY DEF Lowest, ArmyTypes
  <2> QED
    BY <2>1, <2>2, RankingIsRight DEF LowestPrice
<1> QED
  BY <1>8, <1>9, PricedArmy

\* The greatest number to produce is positive if any is.
LEMMA PreferredIsGreatest ==
    ASSUME to_produce \in [ArmyTypes -> Int], NEW t \in ArmyTypes, Preferred(t)
    PROVE  /\ (\A u \in ArmyTypes : to_produce[u] >= 0) =>
                to_produce[t] >= 1 \/ \A u \in ArmyTypes : to_produce[u] = 0
           /\ Total(to_produce) \in Int
  BY DEF Preferred, Total, ArmyTypes

\* The order after one barracks has been visited.
LEMMA BarracksFollowsOrder ==
    ASSUME IInv, BarracksBehavior, Followable
    PROVE  /\ \A t \in ArmyTypes : order[t] \in Nat /\ to_produce'[t] = order[t] - trained'[t]
           /\ InProduction' \/ Produced'
<1>1. /\ \A t \in ArmyTypes : order[t] \in Nat /\ to_produce[t] = order[t] - trained[t]
      /\ InProduction \/ Produced
  BY DEF IInv, OrderAsTrained, BarracksBehavior
<1>2. /\ to_produce \in [ArmyTypes -> Int] /\ trained \in [ArmyTypes -> Nat]
      /\ game.stock \in Nat /\ game.idle \in Nat /\ barracks_left \in Nat
  BY GameTypes DEF IInv, TypeOK
<1>3. /\ barracks_left > 0 /\ barracks_left' = barracks_left - 1
      /\ game' = game /\ order' = order
  BY DEF BarracksBehavior
<1>4. Total(order) \in Nat
  BY <1>1 DEF Total, ArmyTypes
<1>5. PICK t \in ArmyTypes :
        /\ Preferred(t)
        /\ IF game.stock >= LowestPrice /\ game.stock >= Price[t]
           THEN Train(t) /\ to_produce' = [to_produce EXCEPT ![t] = @ - 1]
           ELSE NoTrain
  BY DEF BarracksBehavior, TrainPreferred, PlaysQuickly, Followable
<1>6. CASE Train(t) /\ to_produce' = [to_produce EXCEPT ![t] = @ - 1]
  <2>1. \A u \in ArmyTypes : /\ to_produce'[u] = IF u = t THEN to_produce[u] - 1 ELSE to_produce[u]
                             /\ trained'[u] = IF u = t THEN trained[u] + 1 ELSE trained[u]
    BY <1>2, <1>6 DEF Train
  <2>2. ASSUME NEW u \in ArmyTypes
        PROVE  to_produce'[u] = order[u] - trained'[u]
    <3>1. to_produce[u] \in Int /\ trained[u] \in Nat /\ order[u] \in Nat
      BY <1>1, <1>2
    <3>2. to_produce[u] = order[u] - trained[u]
      BY <1>1
    <3> QED
      BY <2>1, <3>1, <3>2
  <2>3. Total(to_produce') = Total(to_produce) - 1 /\ Total(to_produce) \in Int
    BY <1>2, <2>1 DEF Total, ArmyTypes
  <2>4. CASE InProduction /\ to_produce[t] >= 1
    <3>1. \A u \in ArmyTypes : to_produce'[u] >= 0
      BY <1>2, <2>1, <2>4 DEF InProduction
    <3>2. Total(to_produce') + game.idle = Total(order) + barracks_left'
      BY <1>2, <1>3, <1>4, <2>3, <2>4 DEF InProduction
    <3> QED
      BY <1>1, <1>3, <2>2, <3>1, <3>2 DEF InProduction
  <2>5. CASE InProduction /\ \A u \in ArmyTypes : to_produce[u] = 0
    <3>1. Total(to_produce) = 0
      BY <2>5 DEF Total, ArmyTypes
    <3>2. Total(order) < game.idle
      BY <1>2, <1>3, <1>4, <2>5, <3>1 DEF InProduction
    <3>3. \A u \in ArmyTypes : to_produce'[u] <= 0
      BY <2>1, <2>5
    <3> QED
      BY <1>1, <1>3, <2>2, <3>2, <3>3 DEF Produced
  <2>6. CASE Produced
    <3>1. \A u \in ArmyTypes : to_produce'[u] <= 0
      BY <1>2, <2>1, <2>6 DEF Produced
    <3> QED
      BY <1>1, <1>3, <2>2, <2>6, <3>1 DEF Produced
  <2> QED
    BY <1>1, <1>2, <1>5, <2>4, <2>5, <2>6, PreferredIsGreatest DEF InProduction
<1>7. CASE NoTrain /\ ~ (game.stock >= LowestPrice /\ game.stock >= Price[t])
  <2>1. to_produce' = to_produce /\ trained' = trained
    BY <1>7 DEF NoTrain
  <2>2. ~ order[t] >= 1
    BY <1>1, <1>2, <1>7, OrderedIsPaid DEF Followable
  <2>3. ~ to_produce[t] >= 1
    BY <1>1, <1>2, <2>2
  <2>4. CASE InProduction
    <3>1. \A u \in ArmyTypes : to_produce[u] = 0
      BY <1>2, <1>5, <2>3, <2>4, PreferredIsGreatest DEF InProduction
    <3>2. Total(to_produce) = 0
      BY <3>1 DEF Total, ArmyTypes
    <3>3. Total(order) < game.idle
      BY <1>2, <1>3, <1>4, <2>4, <3>2 DEF InProduction
    <3> QED
      BY <1>1, <1>3, <2>1, <3>1, <3>3 DEF Produced
  <2>5. CASE Produced
    BY <1>1, <1>3, <2>1, <2>5 DEF Produced
  <2> QED
    BY <1>1, <2>4, <2>5
<1> QED
  BY <1>5, <1>6, <1>7

LEMMA BarracksBehaviorInv == IInv /\ BarracksBehavior => IInv'
<1> SUFFICES ASSUME IInv, BarracksBehavior PROVE IInv'
  OBVIOUS
<1>1. TypeOK'
  BY TypeInv DEF IInv, Next
<1>2. Progress'
  BY GameTypes DEF IInv, BarracksBehavior, Progress
<1>3. \/ UNCHANGED <<desired, reserved_resources>>
      \/ \E t \in ArmyTypes : /\ desired' = desired + Price[t]
                              /\ reserved_resources' = reserved_resources + Price[t]
  BY Prices
     DEF BarracksBehavior, TrainFastest, TrainPreferred, Train, NoTrain
<1>4. AllIsReserved'
  BY <1>3 DEF IInv, AllIsReserved, BarracksBehavior
<1>5. BarracksIsCovered'
  BY DEF IInv, BarracksBehavior, Progress, BarracksIsCovered
<1>6. OwedIsUnpaid'
  BY DEF IInv, BarracksBehavior, OwedIsUnpaid
<1>7. OrderAsTrained'
  <2>1. Followable' => Followable
    BY DEF Followable, Rush, Total, PriceOf, CostWith, BarracksBehavior
  <2> QED
    BY <2>1, BarracksFollowsOrder DEF OrderAsTrained, BarracksBehavior
<1> QED
  BY <1>1, <1>2, <1>4, <1>5, <1>6, <1>7 DEF IInv

LEMMA RandomBarracksBehaviorInv == IInv /\ RandomBarracksBehavior => IInv'
<1> SUFFICES ASSUME IInv, RandomBarracksBehavior PROVE IInv'
  OBVIOUS
<1>1. TypeOK'
  BY TypeInv DEF IInv, Next
<1>2. Progress'
  BY GameTypes DEF IInv, RandomBarracksBehavior, Progress
<1>3. AllIsReserved' /\ BarracksIsCovered' /\ OrderAsTrained'
  BY DEF RandomBarracksBehavior, AllIsReserved, BarracksIsCovered, OrderAsTrained, Followable
<1>4. random_bot' = random_bot /\ random_bot /\ game' = game
  BY DEF RandomBarracksBehavior
<1>5. game.stock \in Nat /\ Price["heavy"] \in Nat /\ trained \in [ArmyTypes -> Nat]
  BY GameTypes, Prices DEF IInv, TypeOK
<1>6. trained["heavy"] > 0 => game.stock >= Price["heavy"]
  BY <1>4 DEF IInv, OwedIsUnpaid
<1>7. ASSUME NEW t \in ArmyTypes, TrainUnreserved(t), game.stock >= Price[t]
      PROVE  trained'["heavy"] > 0 => game.stock >= Price["heavy"]
  <2>1. CASE t = "heavy"
    BY <1>7, <2>1
  <2>2. CASE t # "heavy"
    BY <1>5, <1>6, <1>7, <2>2 DEF TrainUnreserved
  <2> QED
    BY <2>1, <2>2
\* The bot owes a heavy unit after it has drawn one it could not pay.
<1>8. /\ trained'["heavy"] > 0 => game.stock >= Price["heavy"]
      /\ heavy' => game.stock < Price["heavy"]
  <2>1. CASE TrainOwed
    <3>1. CASE game.stock >= Price["heavy"]
      BY <2>1, <3>1 DEF TrainOwed
    <3>2. CASE ~ game.stock >= Price["heavy"]
      BY <1>5, <1>6, <2>1, <3>2 DEF TrainOwed, NoTrainAtRandom
    <3> QED
      BY <3>1, <3>2
  <2>2. CASE TrainDrawn
    <3>1. CASE game.stock < 2
      BY <1>6, <2>2, <3>1 DEF TrainDrawn, NoTrainAtRandom
    <3>2. CASE ~ game.stock < 2
      <4>1. PICK t \in ArmyTypes :
              IF game.stock >= Price[t]
              THEN TrainUnreserved(t) /\ UNCHANGED heavy
              ELSE NoTrainAtRandom /\ heavy' = (t = "heavy")
        BY <2>2, <3>2 DEF TrainDrawn
      <4>2. ~ heavy
        BY <2>2 DEF TrainDrawn
      <4>3. CASE game.stock >= Price[t]
        BY <1>7, <4>1, <4>2, <4>3
      <4>4. CASE ~ game.stock >= Price[t]
        <5>1. heavy' => t = "heavy"
          BY <4>1, <4>4
        <5>2. trained' = trained
          BY <4>1, <4>4 DEF NoTrainAtRandom
        <5> QED
          BY <1>5, <1>6, <4>4, <5>1, <5>2
      <4> QED
        BY <4>3, <4>4
    <3> QED
      BY <3>1, <3>2
  <2> QED
    BY <2>1, <2>2 DEF RandomBarracksBehavior
<1>9. OwedIsUnpaid'
  BY <1>4, <1>8 DEF OwedIsUnpaid
<1> QED
  BY <1>1, <1>2, <1>3, <1>9 DEF IInv

LEMMA EndBarracksInv == IInv /\ EndBarracks => IInv'
<1> SUFFICES ASSUME IInv, EndBarracks PROVE IInv'
  OBVIOUS
<1>1. TypeOK'
  BY TypeInv DEF IInv, Next
<1>2. Progress'
  BY DEF IInv, EndBarracks, Progress
<1>3. AllIsReserved' /\ BarracksIsCovered'
  BY DEF IInv, EndBarracks, AllIsReserved, BarracksIsCovered
<1>4. OwedIsUnpaid'
  BY DEF IInv, EndBarracks, OwedIsUnpaid
<1>5. OrderAsTrained'
  BY DEF IInv, EndBarracks, OrderAsTrained, Followable, Rush, Total, PriceOf, CostWith,
         InProduction, Produced
<1> QED
  BY <1>1, <1>2, <1>3, <1>4, <1>5 DEF IInv

\* What the workers want is added to all that has been reserved.
LEMMA WorkersBehaviorInv == IInv /\ WorkersBehavior => IInv'
<1> SUFFICES ASSUME IInv, WorkersBehavior PROVE IInv'
  OBVIOUS
<1>1. TypeOK'
  BY TypeInv DEF IInv, Next
<1>2. Progress'
  BY DEF WorkersBehavior, Progress
<1>3. PICK base \in Nat, barracks \in Nat :
        /\ reserved_resources' = reserved_resources + base + barracks
        /\ desired' = desired + base + barracks
        /\ builds_barracks' =>
             /\ barracks = Price["barracks"]
             /\ game.stock >= Price["barracks"] + (reserved_resources + base)
  BY Prices DEF WorkersBehavior, AffordsBarracks
<1>4. AllIsReserved' /\ BarracksIsCovered'
  BY <1>3, GameTypes, Prices
     DEF IInv, WorkersBehavior, AllIsReserved, BarracksIsCovered
<1>5. OwedIsUnpaid'
  BY DEF IInv, WorkersBehavior, OwedIsUnpaid
<1>6. OrderAsTrained'
  BY DEF WorkersBehavior, OrderAsTrained
<1> QED
  BY <1>1, <1>2, <1>4, <1>5, <1>6 DEF IInv

LEMMA StutterInv == IInv /\ UNCHANGED vars => IInv'
<1> SUFFICES ASSUME IInv, UNCHANGED vars PROVE IInv'
  OBVIOUS
<1>1. TypeOK'
  BY TypeInv DEF IInv
<1>2. Progress' /\ AllIsReserved' /\ BarracksIsCovered' /\ OwedIsUnpaid'
  BY DEF IInv, vars, Progress, AllIsReserved, BarracksIsCovered, OwedIsUnpaid
<1>3. OrderAsTrained'
  BY DEF IInv, vars, OrderAsTrained, Followable, Rush, Total, PriceOf, CostWith,
         InProduction, Produced
<1> QED
  BY <1>1, <1>2, <1>3 DEF IInv

-----------------------------------------------------------------------------
(* What holds in every frame                                               *)

\* The parts of a frame tell what has been reserved, paid and ordered so far.
THEOREM Inductive == Spec => []IInv
<1>1. IInv /\ [Next]_vars => IInv'
  BY BeginFrameInv, BaseBehaviorInv, EndBasesInv, DecideProductionInv, BarracksBehaviorInv,
     RandomBarracksBehaviorInv, EndBarracksInv, WorkersBehaviorInv, StutterInv DEF Next
<1> QED
  BY <1>1, InitInv, PTL DEF Spec

\* A barracks asked for in a frame can be paid together with all the rest.
THEOREM BarracksCovered == Spec => []BarracksIsCovered
<1>1. IInv => BarracksIsCovered
  BY DEF IInv
<1> QED
  BY <1>1, Inductive, PTL

\* The random bot owes only a heavy unit that it cannot pay.
THEOREM HeavyOwed == Spec => []HeavyIsOwed
<1>1. IInv => HeavyIsOwed
  BY GameTypes, Prices DEF IInv, TypeOK, ArmyTypes, Progress, OwedIsUnpaid, HeavyIsOwed
<1> QED
  BY <1>1, Inductive, PTL

\* Outside the rush an order that can be paid and carried out is followed in the
\* frame it arrives in, and to the unit if it uses every idle barracks.
THEOREM OrderFollowed == Spec => []OrderIsFollowed
<1>1. ASSUME IInv, pc = "workers", Followable
      PROVE  /\ \A t \in ArmyTypes : trained[t] >= order[t]
             /\ Total(order) = game.idle => trained = order
  <2>1. /\ \A t \in ArmyTypes : order[t] \in Nat /\ to_produce[t] = order[t] - trained[t]
        /\ InProduction \/ Produced
    BY <1>1 DEF IInv, OrderAsTrained
  <2>2. /\ to_produce \in [ArmyTypes -> Int] /\ trained \in [ArmyTypes -> Nat]
        /\ order \in [ArmyTypes -> Nat \union {-1}]
        /\ game.idle \in Nat /\ barracks_left = 0 /\ Total(order) <= game.idle
    BY <1>1, GameTypes DEF IInv, TypeOK, Progress, Followable
  <2>3. Total(order) \in Nat
    BY <2>1 DEF Total, ArmyTypes
  <2>4. CASE InProduction
    <3>1. Total(to_produce) <= 0
      BY <2>2, <2>3, <2>4 DEF InProduction, Total, ArmyTypes
    <3>2. \A t \in ArmyTypes : to_produce[t] = 0
      BY <2>2, <2>4, <3>1 DEF InProduction, Total, ArmyTypes
    <3>3. \A t \in ArmyTypes : trained[t] = order[t]
      BY <2>1, <2>2, <3>2
    <3>4. trained = order
      BY <2>2, <3>3
    <3> QED
      BY <2>1, <3>3, <3>4
  <2>5. CASE Produced
    <3>1. Total(order) # game.idle
      BY <2>2, <2>3, <2>5 DEF Produced
    <3>2. ASSUME NEW t \in ArmyTypes
          PROVE  trained[t] >= order[t]
      <4>1. /\ trained[t] \in Nat /\ order[t] \in Nat
            /\ to_produce[t] = order[t] - trained[t] /\ to_produce[t] <= 0
        BY <2>1, <2>2, <2>5 DEF Produced
      <4> QED
        BY <4>1
    <3> QED
      BY <3>1, <3>2
  <2> QED
    BY <2>1, <2>4, <2>5
<1>2. IInv => OrderIsFollowed
  BY <1>1 DEF OrderIsFollowed, Followable
<1> QED
  BY <1>2, Inductive, PTL
-----------------------------------------------------------------------------
(* The balance between the types                                           *)

\* Spread is the greatest of the differences, and it is one of them.
LEMMA SpreadIsGreatest ==
    ASSUME NEW o \in [ArmyTypes -> Int]
    PROVE  /\ \E t, u \in ArmyTypes : Spread(o) = o[t] - o[u]
           /\ \A t, u \in ArmyTypes : o[t] - o[u] <= Spread(o)
<1> DEFINE gaps == {o[t] - o[u] : t, u \in ArmyTypes}
<1>1. o["heavy"] \in Int /\ o["light"] \in Int /\ o["ranged"] \in Int
  BY DEF ArmyTypes
<1>2. PICK t \in ArmyTypes : \A v \in ArmyTypes : o[v] <= o[t]
  BY <1>1 DEF ArmyTypes
<1>3. PICK u \in ArmyTypes : \A v \in ArmyTypes : o[u] <= o[v]
  BY <1>1 DEF ArmyTypes
<1>4. \A v, w \in ArmyTypes : o[v] - o[w] <= o[t] - o[u]
  BY <1>2, <1>3
<1>5. o[t] - o[u] \in gaps /\ \A g \in gaps : g <= o[t] - o[u]
  BY <1>4
<1> HIDE DEF gaps
<1>6. Spread(o) \in gaps /\ \A g \in gaps : g <= Spread(o)
  <2>1. Spread(o) = CHOOSE g \in gaps : \A h \in gaps : h <= g
    BY DEF Spread, gaps
  <2> QED
    BY <1>5, <2>1
<1> QED
  BY <1>6 DEF gaps

\* One unit less of a type that has the greatest number to produce.
LEMMA TakingFromGreatest ==
    ASSUME NEW o \in [ArmyTypes -> Int], NEW t \in ArmyTypes,
           \A u \in ArmyTypes : o[t] >= o[u],
           NEW p, p = [o EXCEPT ![t] = @ - 1]
    PROVE  Spread(p) <= Spread(o) \/ Spread(p) <= 1
<1>1. p \in [ArmyTypes -> Int]
  OBVIOUS
<1>2. \A v \in ArmyTypes : p[v] = IF v = t THEN o[v] - 1 ELSE o[v]
  OBVIOUS
<1>3. PICK v, w \in ArmyTypes : Spread(p) = p[v] - p[w]
  BY <1>1, SpreadIsGreatest
<1>4. \A x, y \in ArmyTypes : o[x] - o[y] <= Spread(o)
  BY SpreadIsGreatest
<1>5. \E x, y \in ArmyTypes : Spread(o) = o[x] - o[y]
  BY SpreadIsGreatest
<1>6. o[v] \in Int /\ o[w] \in Int /\ Spread(o) \in Int
  BY <1>5
<1>7. CASE w = t
  BY <1>2, <1>3, <1>6, <1>7
<1>8. CASE w # t
  <2>1. p[v] <= o[v] /\ p[w] = o[w]
    BY <1>2, <1>6, <1>8
  <2>2. o[v] - o[w] <= Spread(o) /\ p[v] \in Int
    BY <1>1, <1>4
  <2> QED
    BY <1>3, <1>6, <2>1, <2>2
<1> QED
  BY <1>7, <1>8

\* The barracks of a frame, whatever they train, bring the numbers to produce of
\* the three types no further apart than they were, or than one.
THEOREM BalanceKept == Spec => BalanceIsKept
<1>1. ASSUME TypeOK, [Next]_vars, pc = "barracks"
      PROVE  Spread(to_produce') <= Spread(to_produce) \/ Spread(to_produce') <= 1
  <2>1. to_produce \in [ArmyTypes -> Int]
    BY <1>1 DEF TypeOK
  <2>2. CASE to_produce' = to_produce
    <3>1. \E t, u \in ArmyTypes : Spread(to_produce) = to_produce[t] - to_produce[u]
      BY <2>1, SpreadIsGreatest
    <3>2. Spread(to_produce) \in Int
      BY <2>1, <3>1
    <3>3. Spread(to_produce') = Spread(to_produce)
      BY <2>2
    <3> QED
      BY <3>2, <3>3
  <2>3. ASSUME NEW t \in ArmyTypes, Preferred(t),
               to_produce' = [to_produce EXCEPT ![t] = @ - 1]
        PROVE  Spread(to_produce') <= Spread(to_produce) \/ Spread(to_produce') <= 1
    BY <2>1, <2>3, TakingFromGreatest DEF Preferred
  <2>4. CASE BarracksBehavior
    <3>1. to_produce' = to_produce \/ TrainPreferred
      BY <2>4 DEF BarracksBehavior, TrainFastest
    <3>2. ASSUME TrainPreferred
          PROVE  Spread(to_produce') <= Spread(to_produce) \/ Spread(to_produce') <= 1
      BY <2>2, <2>3, <3>2 DEF TrainPreferred, NoTrain
    <3> QED
      BY <2>2, <3>1, <3>2
  <2>5. CASE RandomBarracksBehavior \/ EndBarracks \/ UNCHANGED vars
    BY <2>2, <2>5 DEF RandomBarracksBehavior, EndBarracks, vars
  <2> QED
    BY <1>1, <2>4, <2>5
       DEF Next, BeginFrame, BaseBehavior, EndBases, DecideProduction, WorkersBehavior
<1>2. TypeOK /\ [Next]_vars =>
        [pc = "barracks" =>
           \/ Spread(to_produce') <= Spread(to_produce)
           \/ Spread(to_produce') <= 1]_vars
  BY <1>1
<1> QED
  BY <1>2, TypeCorrect, PTL DEF Spec, BalanceIsKept
=============================================================================
