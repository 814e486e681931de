----------------------------- MODULE Production -----------------------------
(***************************************************************************)
(* What the buildings and the workers of the bot spend in one frame:       *)
(* baseBehavior(), the outcome of decideProduction(), barracksBehavior()   *)
(* and the building part of workersBehavior(), in the order getAction()    *)
(* calls them.  player.getResources() does not change during a frame; what *)
(* is desired earlier in the frame is known only through the counter       *)
(* reserved_resources.  From a frame to the next the bot keeps the order   *)
(* number_*_to_produce, and the game (external) may change the rest.       *)
(*                                                                         *)
(* RandomMicroPhantom is the same bot but for barracksBehavior(), which    *)
(* draws what it trains and remembers a heavy unit it could not pay.       *)
(***************************************************************************)
EXTENDS Integers, FiniteSets

CONSTANTS
    Price,         \* UnitType.cost
    Duration,      \* UnitType.produceTime of the types of the army
    MaxFrame,      \* bound on the frames
    MaxStock, MaxBases, MaxBarracks, MaxWorkers, MaxPatches,   \* bounds on the game state
    OldOrders,     \* the orders that an earlier game may have left
    Outcomes,      \* how decideProduction() may end: "answer", "zeros", "failure"
    Feasible,      \* whether an answer satisfies the constraints of the solver
    HeavyCosts     \* what Builder::_heavy_cost may hold: it initialises itself

ArmyTypes == {"heavy", "light", "ranged"}
Priced == ArmyTypes \union {"worker", "base", "barracks"}

ASSUME ProductionAssumption ==
    /\ Price \in [Priced -> Nat]
    /\ Duration \in [ArmyTypes -> Nat]
    /\ {MaxFrame, MaxStock, MaxBases, MaxBarracks} \subseteq Nat
    /\ MaxWorkers \in Nat /\ MaxPatches \in Nat
    /\ OldOrders \subseteq [ArmyTypes -> Int]
    /\ Outcomes \subseteq {"answer", "zeros", "failure"}
    /\ Feasible \in BOOLEAN
    /\ HeavyCosts \subseteq Int /\ HeavyCosts # {}

VARIABLES
    big_map,             \* map_surface > 144, the same in every frame
    random_bot,          \* the bot is a RandomMicroPhantom
    heavy,               \* its next unit must be heavy
    pc,                  \* "scan", "bases", "decide", "barracks" or "workers"
    frame,
    game,                \* what scanUnits() found, constant during the frame
    bases_left,          \* idle bases the loop of getAction() has not visited
    barracks_left,       \* idle barracks, likewise
    reserved_resources,
    to_produce,          \* number_heavy_to_produce, number_light_..., number_ranged_...
    order,               \* the answer parsed in this frame, or NoOrder
    trained,             \* train() called on a barracks in this frame, per type
    desired,             \* the price of all that was asked from the game in this frame
    builds_barracks      \* a barracks was asked for in this frame

vars == <<big_map, random_bot, heavy, pc, frame, game, bases_left, barracks_left, reserved_resources,
          to_produce, order, trained, desired, builds_barracks>>

Nothing == [t \in ArmyTypes |-> 0]
NoOrder == [t \in ArmyTypes |-> -1]

Games == [
    stock    : 0 .. MaxStock,     \* player.getResources()
    bases    : 0 .. MaxBases,     \* my_bases.size()
    barracks : 0 .. MaxBarracks,  \* my_barracks.size()
    idle     : 0 .. MaxBarracks,  \* number_idle_barracks
    workers  : 0 .. MaxWorkers,   \* my_workers.size()
    free     : 0 .. MaxWorkers,   \* workers without a UnitAction
    patches  : 0 .. MaxPatches,   \* my_resource_patches.size()
    rush     : BOOLEAN]           \* time <= 400 && my_army.size() <= 2

Possible(g) ==
    /\ g.idle <= g.barracks
    /\ g.free <= g.workers
    /\ g.bases = 0 => g.patches = 0

NoGame == [stock |-> 0, bases |-> 0, barracks |-> 0, idle |-> 0, workers |-> 0,
           free |-> 0, patches |-> 0, rush |-> FALSE]

\* reset() clears neither the order nor the heavy unit owed by another game.
Init ==
    /\ big_map \in BOOLEAN
    /\ random_bot \in BOOLEAN
    /\ heavy \in {FALSE, random_bot}
    /\ pc = "scan"
    /\ frame = 0
    /\ game = NoGame
    /\ bases_left = 0 /\ barracks_left = 0
    /\ reserved_resources = 0
    /\ to_produce \in OldOrders
    /\ order = NoOrder
    /\ trained = Nothing
    /\ desired = 0
    /\ builds_barracks = FALSE

\* getAction(): scanUnits() and a new counter of reserved resources.
BeginFrame ==
    /\ pc = "scan"
    /\ frame < MaxFrame
    /\ frame' = frame + 1
    /\ \E g \in Games :
         /\ Possible(g)
         /\ game' = g
         /\ bases_left' \in 0 .. g.bases
         /\ barracks_left' = g.idle
    /\ pc' = "bases"
    /\ reserved_resources' = 0
    /\ order' = NoOrder
    /\ trained' = Nothing
    /\ desired' = 0
    /\ builds_barracks' = FALSE
    /\ UNCHANGED <<big_map, random_bot, heavy, to_produce>>

-----------------------------------------------------------------------------
(* baseBehavior()                                                          *)

WantsWorker ==
    \/ game.workers = 0    \* whatever the resources
    \/ /\ game.workers < game.patches
       /\ game.stock >= Price["worker"]
       /\ game.workers < 4

BaseBehavior ==
    /\ pc = "bases"
    /\ bases_left > 0
    /\ bases_left' = bases_left - 1
    /\ IF WantsWorker
       THEN /\ reserved_resources' = reserved_resources + Price["worker"]
            /\ desired' = desired + Price["worker"]
       ELSE UNCHANGED <<reserved_resources, desired>>
    /\ UNCHANGED <<big_map, random_bot, heavy, pc, frame, game, barracks_left, to_produce, order, trained,
                   builds_barracks>>

EndBases ==
    /\ pc = "bases"
    /\ bases_left = 0
    /\ pc' = IF game.idle > 0 THEN "decide" ELSE "workers"
    /\ UNCHANGED <<big_map, random_bot, heavy, frame, game, bases_left, barracks_left, reserved_resources,
                   to_produce, order, trained, desired, builds_barracks>>

-----------------------------------------------------------------------------
(* decideProduction(), by its outcome (see ProductionLink)                 *)

Total(o) == o["heavy"] + o["light"] + o["ranged"]

CostWith(heavy_cost, o) ==
    heavy_cost * o["heavy"] + Price["light"] * o["light"] + Price["ranged"] * o["ranged"]

PriceOf(o) == CostWith(Price["heavy"], o)

\* ProductionCapacity and Stock of constraints_rts.cpp, as Builder sets them up:
\* the cost of heavy units in Stock is not the price, but an uninitialised int.
Satisfies(o) ==
    /\ Total(o) <= game.idle
    /\ \E heavy_cost \in HeavyCosts : CostWith(heavy_cost, o) <= game.stock

Receive(o) ==
    /\ to_produce' = o
    /\ order' = o

\* NumberFormatException, whose handler alone sets no_training, is thrown by no
\* call of the exchange: after a failure the barracks go on with the old order.
DecideProduction ==
    /\ pc = "decide"
    /\ \/ /\ "answer" \in Outcomes
          /\ \E o \in [ArmyTypes -> 0 .. MaxBarracks] :
               /\ Feasible => Satisfies(o)
               /\ Receive(o)
       \/ "zeros" \in Outcomes /\ Receive(Nothing)
       \/ "failure" \in Outcomes /\ UNCHANGED <<to_produce, order>>
    /\ pc' = "barracks"
    /\ UNCHANGED <<big_map, random_bot, heavy, frame, game, bases_left, barracks_left, reserved_resources,
                   trained, desired, builds_barracks>>

-----------------------------------------------------------------------------
(* barracksBehavior()                                                      *)

\* reset(): the comparisons that rank the types, by cost and by produceTime.
Highest(value) ==
    IF value["heavy"] >= value["light"]
    THEN IF value["heavy"] >= value["ranged"] THEN "heavy" ELSE "ranged"
    ELSE IF value["ranged"] >= value["light"] THEN "ranged" ELSE "light"

Lowest(value) ==
    IF value["heavy"] >= value["light"]
    THEN IF value["ranged"] >= value["light"] THEN "light" ELSE "ranged"
    ELSE IF value["heavy"] >= value["ranged"] THEN "ranged" ELSE "heavy"

LowestPrice  == Price[Lowest(Price)]
HighestPrice == Price[Highest(Price)]
FastestType  == Lowest(Duration)

\* A fault that a run seeds: light is preferred to ranged only.
LightOverRanged(t) ==
    IF to_produce["light"] >= to_produce["ranged"] THEN t = "light" ELSE t = "ranged"

\* The type with the highest number to produce; light is preferred to the two
\* others, and ranged to heavy.
Preferred(t) ==
    /\ \A u \in ArmyTypes : to_produce[t] >= to_produce[u]
    /\ t # "light" => to_produce[t] > to_produce["light"]
    /\ t = "heavy" => to_produce[t] > to_produce["ranged"]

Rush == ~ big_map /\ game.rush

PlaysQuickly == Rush /\ game.stock >= Price[FastestType]

\* A fault that a run seeds: the price is given back.
TrainReleases(t) ==
    /\ trained' = [trained EXCEPT ![t] = @ + 1]
    /\ desired' = desired + Price[t]
    /\ reserved_resources' = reserved_resources - Price[t]

Train(t) ==
    /\ trained' = [trained EXCEPT ![t] = @ + 1]
    /\ desired' = desired + Price[t]
    /\ reserved_resources' = reserved_resources + Price[t]

NoTrain == UNCHANGED <<trained, desired, reserved_resources, to_produce>>

\* On a small map, at the beginning, the type that is the fastest to train is
\* trained without regard to the order.
TrainFastest == Train(FastestType) /\ UNCHANGED to_produce

\* A fault that a run seeds: the count is not brought down.
TrainUncounted ==
    \E t \in ArmyTypes :
        /\ Preferred(t)
        /\ IF game.stock >= LowestPrice /\ game.stock >= Price[t]
           THEN Train(t) /\ UNCHANGED to_produce
           ELSE NoTrain

TrainPreferred ==
    \E t \in ArmyTypes :
        /\ Preferred(t)
        /\ IF game.stock >= LowestPrice /\ game.stock >= Price[t]
           THEN Train(t) /\ to_produce' = [to_produce EXCEPT ![t] = @ - 1]
           ELSE NoTrain

BarracksBehavior ==
    /\ pc = "barracks"
    /\ ~ random_bot
    /\ barracks_left > 0
    /\ barracks_left' = barracks_left - 1
    /\ IF PlaysQuickly THEN TrainFastest ELSE TrainPreferred
    /\ UNCHANGED <<big_map, random_bot, heavy, pc, frame, game, bases_left, order,
                   builds_barracks>>

-----------------------------------------------------------------------------
(* barracksBehavior() of RandomMicroPhantom                                *)

\* Nothing is reserved for what this bot trains.
TrainUnreserved(t) ==
    /\ trained' = [trained EXCEPT ![t] = @ + 1]
    /\ desired' = desired + Price[t]

NoTrainAtRandom == UNCHANGED <<trained, desired>>

\* A fault that a run seeds: the heavy unit is owed for ever.
TrainOwedAgain ==
    /\ heavy
    /\ IF game.stock >= Price["heavy"] THEN TrainUnreserved("heavy") ELSE NoTrainAtRandom
    /\ UNCHANGED heavy

\* A heavy unit that could not be paid comes before any other.
TrainOwed ==
    /\ heavy
    /\ IF game.stock >= Price["heavy"]
       THEN TrainUnreserved("heavy") /\ heavy' = FALSE
       ELSE NoTrainAtRandom /\ UNCHANGED heavy

TrainDrawn ==
    /\ ~ heavy
    /\ IF game.stock < 2
       THEN NoTrainAtRandom /\ UNCHANGED heavy
       ELSE \E t \in ArmyTypes :
              IF game.stock >= Price[t]
              THEN TrainUnreserved(t) /\ UNCHANGED heavy
              ELSE NoTrainAtRandom /\ heavy' = (t = "heavy")

RandomBarracksBehavior ==
    /\ pc = "barracks"
    /\ random_bot
    /\ barracks_left > 0
    /\ barracks_left' = barracks_left - 1
    /\ TrainOwed \/ TrainDrawn
    /\ UNCHANGED <<big_map, random_bot, pc, frame, game, bases_left, reserved_resources,
                   to_produce, order, builds_barracks>>

EndBarracks ==
    /\ pc = "barracks"
    /\ barracks_left = 0
    /\ pc' = "workers"
    /\ UNCHANGED <<big_map, random_bot, heavy, frame, game, bases_left, barracks_left, reserved_resources,
                   to_produce, order, trained, desired, builds_barracks>>

-----------------------------------------------------------------------------
(* workersBehavior(), up to the harvest                                    *)

BuildsBase == game.workers > 0 /\ game.bases = 0 /\ game.stock >= Price["base"]

WantsBarracks(reserved) ==
    \/ game.barracks = 0
    \/ /\ game.stock >= Price["barracks"] + reserved + HighestPrice
       /\ big_map
       /\ game.patches > 0

\* A fault that a run seeds: what is reserved is not counted.
AffordsBarracksAlone(reserved) == game.stock >= Price["barracks"]

AffordsBarracks(reserved) == game.stock >= Price["barracks"] + reserved

WorkersBehavior ==
    /\ pc = "workers"
    /\ LET base     == IF BuildsBase THEN Price["base"] ELSE 0
           reserved == reserved_resources + base
           free     == IF BuildsBase /\ game.free > 0 THEN game.free - 1 ELSE game.free
           builds   == /\ game.workers > 0
                       /\ WantsBarracks(reserved)
                       /\ AffordsBarracks(reserved)
                       /\ free > 0
           barracks == IF builds THEN Price["barracks"] ELSE 0
       IN  /\ reserved_resources' = reserved + barracks
           /\ desired' = desired + base + barracks
           /\ builds_barracks' = builds
    /\ pc' = "scan"
    /\ UNCHANGED <<big_map, random_bot, heavy, frame, game, bases_left, barracks_left, to_produce, order, trained>>

-----------------------------------------------------------------------------
Next ==
    \/ BeginFrame
    \/ BaseBehavior \/ EndBases
    \/ DecideProduction
    \/ BarracksBehavior \/ RandomBarracksBehavior \/ EndBarracks
    \/ WorkersBehavior

Spec == Init /\ [][Next]_vars

-----------------------------------------------------------------------------
(* Properties                                                              *)

\* Type invariant.
TypeOK ==
    /\ big_map \in BOOLEAN
    /\ random_bot \in BOOLEAN
    /\ heavy \in BOOLEAN
    /\ pc \in {"scan", "bases", "decide", "barracks", "workers"}
    /\ frame \in 0 .. MaxFrame
    /\ game \in Games
    /\ bases_left \in 0 .. MaxBases
    /\ barracks_left \in 0 .. MaxBarracks
    /\ reserved_resources \in Nat
    /\ to_produce \in [ArmyTypes -> Int]
    /\ order \in [ArmyTypes -> Nat \union {-1}]
    /\ trained \in [ArmyTypes -> Nat]
    /\ desired \in Nat
    /\ builds_barracks \in BOOLEAN

\* A barracks is asked for only if the player can pay for it together with
\* everything asked for earlier in the frame, although the bases and the
\* barracks look at the resources one by one: the game drops none of them.  The
\* random bot reserves nothing for its army, and promises nothing for it.
BarracksIsCovered == builds_barracks /\ ~ random_bot => desired <= game.stock

\* When the barracks of the random bot are done, it owes a heavy unit only if it
\* cannot pay for one, and then it has not trained any since.
HeavyIsOwed ==
    pc = "workers" /\ heavy /\ game.idle > 0 =>
        random_bot /\ game.stock < Price["heavy"] /\ trained["heavy"] = 0

\* Outside the rush, an order that the idle barracks and the resources suffice
\* for is followed in the frame it arrives in: no ordered unit is forgotten,
\* whatever types the barracks choose one after the other, and no other unit is
\* trained if the order uses every idle barracks.
OrderIsFollowed ==
    pc = "workers" /\ ~ random_bot /\ game.idle > 0 /\ order # NoOrder /\ ~ Rush
    /\ Total(order) <= game.idle /\ PriceOf(order) <= game.stock =>
        /\ \A t \in ArmyTypes : trained[t] >= order[t]
        /\ Total(order) = game.idle => trained = order

\* The barracks keep the balance of the order they follow: the distance between
\* the largest and the smallest number to produce never grows, or stays within
\* one.  In particular, when the exchange with the solver fails frame after
\* frame, the numbers go below zero and the three types are trained in turn.
Spread(o) == LET gaps == {o[t] - o[u] : t, u \in ArmyTypes}
             IN  CHOOSE g \in gaps : \A h \in gaps : h <= g

BalanceIsKept ==
    [][pc = "barracks" =>
         \/ Spread(to_produce') <= Spread(to_produce)
         \/ Spread(to_produce') <= 1]_vars

\* An answer that satisfies the constraints costs no more than the stock:
\* "H_error*to_produce_H + ... <= stock" (constraints_rts.cpp).
OrderIsPaid == pc = "barracks" /\ order # NoOrder => PriceOf(order) <= game.stock
=============================================================================
