---------------------------- MODULE SolverInput -----------------------------
(***************************************************************************)
(* From the game state the bot sends to the army its solver imagines: the  *)
(* bytes of the message and how main.cpp takes them out of its buffer, the *)
(* estimate of what the opponent has left to spend, and the loop that      *)
(* spends it at random, sample after sample.                               *)
(*                                                                         *)
(* Of the 32 fields of GameStateBuffer the model keeps those that change   *)
(* during a game and that the samples depend on, and the costs.            *)
(***************************************************************************)
EXTENDS Integers, FiniteSets, SequencesExt

CONSTANTS
    Messages,     \* what the bot may have to tell
    Rules,        \* the fields that depend on the map and the rules alone
    Garbled,      \* what the solver may read instead, when other bytes follow a message
    Estimates,    \* what it may then estimate: undefined if an int overflows
    MaxFree       \* bound on the units of a sample of a type that costs nothing

UnitTypes == {"heavy", "light", "ranged"}

\* The numbers of the fields in microphantom.proto.
Number == [time |-> 1, min_distance |-> 3, max_distance |-> 4, loss |-> 9,
           heavy_cost |-> 16, light_cost |-> 17, ranged_cost |-> 18, workers |-> 22,
           heavy |-> 24, light |-> 25, ranged |-> 26,
           heavy_in_total |-> 28, light_in_total |-> 29, ranged_in_total |-> 30,
           nb_samples |-> 32]

Fields == DOMAIN Number

\* An int32.
Int32 == {n \in Int : -2147483647 - 1 <= n /\ n <= 2147483647}

ASSUME InputAssumption ==
    /\ Messages \subseteq [Fields -> Int32]
    /\ \A m \in Messages :
         /\ m.heavy_cost > 0 /\ m.light_cost > 0 /\ m.ranged_cost > 0
         /\ \A f \in Fields \ {"min_distance", "max_distance"} : m[f] >= 0
    /\ Rules \in [{"initial_resources", "harvest_amount", "move_time", "harvest_time",
                   "return_time", "missing"} -> Nat]
    /\ Garbled \subseteq [Fields -> Int32]
    /\ Estimates \subseteq Nat
    /\ MaxFree \in Nat

VARIABLES
    exchange,      \* "sent", "sampling" or "solving"
    message,       \* the GameStateBuffer the bot has sent
    clean,         \* the byte that happens to follow it in the buffer is 0
    game_state,    \* the GameStateBuffer of the solver
    estimated_remaining_resources,
    estimated_resources,
    estimated,     \* number_estimated_heavy, _light, _ranged
    samples

input_vars == <<exchange, message, clean, game_state, estimated_remaining_resources,
                estimated_resources, estimated, samples>>

NoUnits == [t \in UnitTypes |-> 0]

-----------------------------------------------------------------------------
(* The bytes                                                               *)

\* Where the seven bits of a byte begin in a number of 32 bits.
Radix == <<1, 128, 16384, 2097152, 268435456>>

\* Seven bits of a number; those after the 32nd repeat its sign.
Septet(n, i) == (IF i <= 5 THEN n \div Radix[i] ELSE -1) % 128

\* A negative number takes ten bytes, as 64 bits in two's complement.
VarintSize(n) ==
    IF n < 0 THEN 10
    ELSE CHOOSE size \in 1 .. 5 : /\ size < 5 => n < Radix[size + 1]
                                  /\ size > 1 => n >= Radix[size]

\* Seven bits a byte, the lowest first, all but the last with the high bit set.
Varint(n) ==
    [i \in 1 .. VarintSize(n) |->
        IF i < VarintSize(n) THEN 128 + Septet(n, i)
        ELSE IF n < 0 THEN 1 ELSE Septet(n, i)]

Tag(f) == Varint(8 * Number[f])

InOrderOfNumber ==
    <<"time", "min_distance", "max_distance", "loss", "heavy_cost", "light_cost",
      "ranged_cost", "workers", "heavy", "light", "ranged",
      "heavy_in_total", "light_in_total", "ranged_in_total", "nb_samples">>

\* A fault that a run seeds: fields of value 0 are written too.
SerializedWithZeros(m) ==
    FlattenSeq([i \in DOMAIN InOrderOfNumber |->
        LET f == InOrderOfNumber[i] IN Tag(f) \o Varint(m[f])])

\* toByteArray(): a field of value 0 is left out.
Serialized(m) ==
    FlattenSeq([i \in DOMAIN InOrderOfNumber |->
        LET f == InOrderOfNumber[i] IN IF m[f] = 0 THEN <<>> ELSE Tag(f) \o Varint(m[f])])

\* ParseFromString( buffer ) makes a string of a char*: up to the first 0.
UpToZero(bytes) == SubSeq(bytes, 1, Min({i \in DOMAIN bytes : bytes[i] = 0} \union {Len(bytes) + 1}) - 1)

\* The varint that begins at a byte: up to the first byte without the high bit.
Ends(bytes) == {i \in DOMAIN bytes : bytes[i] < 128}
VarintAt(bytes, i) ==
    SubSeq(bytes, i, Min({j \in Ends(bytes) : j >= i} \union {Len(bytes)}))

\* The tags of the message: every other varint.
Tags(bytes) ==
    {i \in {1} \union {j + 1 : j \in Ends(bytes)} :
        i <= Len(bytes) /\ Cardinality({j \in Ends(bytes) : j < i}) % 2 = 0}

\* The int32 of a varint: its low 32 bits.
Value(v) ==
    LET Digit(i) == IF i <= Len(v) THEN v[i] % 128 ELSE 0
        high == Digit(5) % 16
    IN  Digit(1) + Digit(2) * Radix[2] + Digit(3) * Radix[3] + Digit(4) * Radix[4]
        + (IF high < 8 THEN high ELSE high - 16) * Radix[5]

\* A field that does not come keeps its default, 0.
Parsed(bytes) ==
    [f \in Fields |->
       LET found == {i \in Tags(bytes) :
                        VarintAt(bytes, i) = Tag(f) /\ i + Len(Tag(f)) <= Len(bytes)}
       IN  IF found = {} THEN 0
           ELSE Value(VarintAt(bytes, Max(found) + Len(Tag(f))))]

-----------------------------------------------------------------------------
(* The estimate                                                            *)

CostOf(g, t) == CASE t = "heavy" -> g.heavy_cost [] t = "light" -> g.light_cost
                [] OTHER -> g.ranged_cost

InTotal(g, t) == CASE t = "heavy" -> g.heavy_in_total [] t = "light" -> g.light_in_total
                   [] OTHER -> g.ranged_in_total

Worth(g, units) == units["heavy"] * g.heavy_cost + units["light"] * g.light_cost
                   + units["ranged"] * g.ranged_cost

\* A trip of a worker, there and back, with a delay for each other worker.
TripTime(g) ==
    (IF g.min_distance # -1 THEN g.min_distance + g.max_distance ELSE 40) * Rules.move_time
    + Rules.harvest_time + Rules.return_time + 20 * (g.workers - 1)

ASSUME TripAssumption == \A m \in Messages : TripTime(m) > 0    \* it is divided by

\* What the workers have carried, in trips of all of them.
Work(g) == Rules.harvest_amount * g.workers * g.time

\* time / TripTime is rounded, and so is its product with the rest: one that should
\* be whole may fall below, and then loses one when it becomes an int.
MayFallShort(g) == Work(g) > 0 /\ Work(g) % TripTime(g) = 0 /\ g.time % TripTime(g) # 0

Gathered(g) ==
    {Work(g) \div TripTime(g)}
    \union {n \in {Work(g) \div TripTime(g) - 1} : MayFallShort(g)}

\* What the opponent is known to have paid; Rules.missing is what the initial
\* buildings cost that it did not have.
Paid(g, units) == Rules.missing + g.loss + Worth(g, units)

UnitsSeen(g) == [t \in UnitTypes |-> g[t]]

\* What estimated_remaining_resources may be.
Remaining(g) ==
    {Max({0, Rules.initial_resources + n - Paid(g, UnitsSeen(g))}) : n \in Gathered(g)}

\* The int expressions of the estimate do not overflow in a game, and the doubles
\* are exact but for the quotient and the product above.
ASSUME EstimateAssumption ==
    \A m \in Messages :
        {m.min_distance + m.max_distance, TripTime(m), Rules.harvest_amount * m.workers,
         Rules.initial_resources + Work(m), Paid(m, UnitsSeen(m))} \subseteq Int32

\* A fault that a run seeds: ranged units are not compared with light ones.
MinCostOfTwo(g) == IF g.light_cost < g.heavy_cost THEN g.light_cost ELSE g.heavy_cost

MinCost(g) ==
    IF g.light_cost < g.heavy_cost
    THEN IF g.ranged_cost < g.light_cost THEN g.ranged_cost ELSE g.light_cost
    ELSE IF g.ranged_cost < g.heavy_cost THEN g.ranged_cost ELSE g.heavy_cost

\* A fault that a run seeds: a type that was never seen is never drawn.
WeightOfSeen(g, t) == 2 * g[t] + (InTotal(g, t) - g[t])

\* The weight of a type in the distribution: what is in sight counts double.
Weight(g, t) == 1 + 2 * g[t] + (InTotal(g, t) - g[t])

-----------------------------------------------------------------------------
(* The solver until it solves                                              *)

InputInit ==
    /\ exchange = "sent"
    /\ message \in Messages
    /\ clean \in BOOLEAN
    /\ game_state = [f \in Fields |-> 0]
    /\ estimated_remaining_resources = 0
    /\ estimated_resources = 0
    /\ estimated = NoUnits
    /\ samples = <<>>

\* The end of the message is not marked: what follows in the fresh buffer is
\* read too, up to a byte 0, and may give any field any value.
Receive ==
    /\ exchange = "sent"
    /\ exchange' = "sampling"
    /\ \/ /\ clean
          /\ game_state' = Parsed(UpToZero(Serialized(message)))
          /\ estimated_remaining_resources' \in Remaining(game_state')
       \/ /\ ~ clean
          /\ game_state' \in Garbled
          /\ estimated_remaining_resources' \in Estimates
    /\ estimated_resources' = estimated_remaining_resources'
    /\ UNCHANGED <<message, clean, estimated, samples>>

Sampling == exchange = "sampling" /\ Len(samples) < game_state.nb_samples

\* A draw of the loop; one that cannot be paid changes nothing.  With other bytes
\* behind the message the weights may be negative, and then any type may come; a
\* type that costs nothing, or less, can be paid for ever.
Draw(t) ==
    /\ Sampling
    /\ estimated_resources >= MinCost(game_state)
    /\ clean => Weight(game_state, t) > 0
    /\ estimated_resources >= CostOf(game_state, t)
    /\ CostOf(game_state, t) > 0 \/ estimated[t] < MaxFree
    /\ estimated' = [estimated EXCEPT ![t] = @ + 1]
    /\ estimated_resources' = estimated_resources - CostOf(game_state, t)
    /\ UNCHANGED <<exchange, message, clean, game_state, estimated_remaining_resources, samples>>

\* The sample has the units seen, too.
EndSample ==
    /\ Sampling
    /\ estimated_resources < MinCost(game_state)
    /\ samples' = Append(samples, [t \in UnitTypes |-> estimated[t] + game_state[t]])
    /\ estimated' = NoUnits
    /\ estimated_resources' = estimated_remaining_resources
    /\ UNCHANGED <<exchange, message, clean, game_state, estimated_remaining_resources>>

Solve ==
    /\ exchange = "sampling" /\ ~ Sampling
    /\ exchange' = "solving"
    /\ UNCHANGED <<message, clean, game_state, estimated_remaining_resources,
                   estimated_resources, estimated, samples>>

InputNext == Receive \/ (\E t \in UnitTypes : Draw(t)) \/ EndSample \/ Solve

\* The message arrives (see ProductionLink for what may go wrong), the solver runs
\* on, and types of positive weight are drawn again and again, with probability one;
\* nothing is said of the draws when other bytes have come.
InputFairness ==
    /\ <>(exchange # "sent")
    /\ WF_input_vars(EndSample \/ Solve)
    /\ \A t \in UnitTypes : WF_input_vars(clean /\ Draw(t))

InputSpec == InputInit /\ [][InputNext]_input_vars /\ InputFairness

-----------------------------------------------------------------------------
(* Properties                                                              *)

\* No message has a byte 0, so that the solver, which reads up to one, gets all
\* of it, if the memory behind it begins with a 0.
FieldsArrive == exchange # "sent" /\ clean => game_state = message

\* A sample spends what is estimated until no unit of any type can be paid, and not
\* more.  If all of the message came, what the opponent paid with the sample is what
\* its workers can have carried: not more, if the sample adds a unit, and less by
\* no more than the cheapest unit, however the estimate was rounded.
SampleIsSpent ==
    \A i \in DOMAIN samples :
        LET built == [t \in UnitTypes |-> samples[i][t] - game_state[t]]
            rest  == estimated_remaining_resources - Worth(game_state, built)
            carried == Paid(game_state, samples[i]) - Rules.initial_resources
        IN  /\ rest >= 0 /\ \A t \in UnitTypes : rest < CostOf(game_state, t)
            /\ clean =>
                 /\ built # NoUnits => carried * TripTime(game_state) <= Work(game_state)
                 /\ \A t \in UnitTypes :
                      Work(game_state) <= (carried + CostOf(game_state, t)) * TripTime(game_state)

\* If all of the message came, and nothing else, the loops of samples end, whatever
\* the opponent has shown: every type may be drawn, the cheapest one too.
SamplingEnds == clean /\ exchange = "sampling" ~> exchange = "solving"
=============================================================================
