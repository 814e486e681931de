---------------------------- MODULE MCBehaviours ----------------------------
(***************************************************************************)
(* Instances of Workers with its spiral search, HitAndRun, SolverInput,    *)
(* Composition and Exploration, on a map of five by five, side by side:    *)
(* each behaviour is a scene of one of them, and the others stand still.   *)
(***************************************************************************)
EXTENDS Workers, HitAndRun, SolverInput, Composition, Exploration

CONSTANTS light1, light2, light3, worker1

VARIABLE scene

all_vars == <<scene, workers_vars, fight_vars, input_vars, composition_vars, vars>>

-----------------------------------------------------------------------------
(* Workers                                                                 *)

Worker(c, busy, carries, builds) ==
    [at |-> c, busy |-> busy, carries |-> carries, builds |-> builds]

\* Everything there is stands in the way.
Frame(workers, bases, barracks, patches, stock, small) ==
    [workers |-> workers, bases |-> bases, barracks |-> barracks,
     patches |-> patches, seen |-> {<<0, 0>>},
     occupied |-> {w.at : w \in Range(workers)}
                  \union UNION {Range(bases), Range(barracks), Range(patches)},
     stock |-> stock, reserved |-> 0, small |-> small]

MCWorkers ==
    {<<Worker(<<0, 4>>, FALSE, FALSE, "nothing"),
       Worker(<<2, 2>>, TRUE, FALSE, "nothing"),
       Worker(<<4, 1>>, FALSE, c, b)>> : c \in BOOLEAN, b \in {"nothing", "barracks"}}
    \union
    {<<Worker(<<0, 4>>, TRUE, FALSE, "base"), Worker(<<4, 0>>, TRUE, FALSE, "nothing")>>,
     <<Worker(<<4, 4>>, FALSE, FALSE, "nothing")>>,
     <<>>}

MCFrames ==
    {Frame(w, b, k, p, stock, small) :
        w \in MCWorkers, b \in {<<>>, <<<<1, 0>>>>}, k \in {<<>>, <<<<4, 2>>>>},
        p \in {<<>>, <<<<0, 0>>, <<4, 3>>>>}, stock \in {4, 9, 16}, small \in BOOLEAN}
    \union    \* two bases to bring to
    {Frame(w, <<<<1, 0>>, <<3, 4>>>>, <<<<4, 2>>>>, p, 4, FALSE) :
        w \in MCWorkers, p \in {<<<<0, 0>>, <<4, 3>>>>, <<<<4, 3>>, <<3, 1>>, <<0, 0>>>>}}
    \union    \* the only worker is busy, with something else than a building
    {Frame(<<Worker(<<2, 2>>, TRUE, FALSE, "nothing")>>, <<>>, k, <<<<0, 0>>>>, 16, FALSE) :
        k \in {<<>>, <<<<4, 2>>>>}}

MCCost == [base |-> 10, barracks |-> 5, dearest |-> 3]

-----------------------------------------------------------------------------
(* HitAndRun                                                               *)

TwoSteps == {c \in Cells : Manhattan(<<2, 2>>, c) \in 1 .. 2}

Foe(c, kind) == [at |-> c, kind |-> kind]

MCFights ==
    {[self |-> <<2, 2>>, ranged |-> r, enemies |-> <<Foe(c, "melee"), Foe(d, k)>>] :
        r \in BOOLEAN, k \in Kinds, c \in TwoSteps, d \in TwoSteps \union {<<4, 4>>}}
    \union
    {[self |-> <<2, 2>>, ranged |-> TRUE,
      enemies |-> <<Foe(c, "building"), Foe(<<2, 1>>, "melee"), Foe(d, "melee"), Foe(<<4, 2>>, k)>>] :
        k \in Kinds, c \in TwoSteps, d \in TwoSteps}

-----------------------------------------------------------------------------
(* SolverInput                                                             *)

Message(time, near, far, loss, workers, light, costs, n) ==
    [time |-> time, min_distance |-> near, max_distance |-> far, loss |-> loss,
     heavy_cost |-> costs[1], light_cost |-> costs[2], ranged_cost |-> costs[3],
     workers |-> workers, heavy |-> 0, light |-> light, ranged |-> 0,
     heavy_in_total |-> 0, light_in_total |-> 2 * light, ranged_in_total |-> 0,
     nb_samples |-> n]

MCMessages ==
    {Message(0, -1, -1, 0, 1, 0, c, 2) : c \in {<<3, 2, 2>>, <<2, 3, 1>>, <<2, 1, 3>>, <<1, 2, 2>>, <<3, 2, 1>>}}
    \union
    {Message(300, 2, 5, 0, 1, 1, <<3, 2, 2>>, 1), Message(16384, 3, 3, 180, 1, 0, <<2, 3, 1>>, 1),
     Message(128, 0, 1, 300, 2, 128, <<2, 1, 3>>, 1),
     Message(30, 0, 1, 0, 2, 0, <<2, 3, 4>>, 1)}    \* half a trip of two workers

\* What other bytes may leave: nothing wrong, costs of 0 and less, counts and a
\* number of samples below 0.
MCGarbled ==
    LET m == Message(0, -1, -1, 0, 1, 0, <<3, 2, 2>>, 1) IN
    {m, [m EXCEPT !.heavy_cost = 0], [m EXCEPT !.light_cost = -1], [m EXCEPT !.nb_samples = -5],
     [m EXCEPT !.heavy = -7], [m EXCEPT !.ranged = -3, !.ranged_in_total = -9]}

MCEstimates == {0, 3}

MCRules == [initial_resources |-> 5, harvest_amount |-> 1, move_time |-> 10,
            harvest_time |-> 20, return_time |-> 10, missing |-> 0]

-----------------------------------------------------------------------------
(* Composition                                                             *)

MCArmyOf(heavy, light, ranger) == [heavy |-> heavy, light |-> light, ranged |-> ranger]

MCProblems ==
    {[possessed |-> own, nb_barracks |-> 1, cheapest |-> 2, my_cost_loss |-> 6,
      enemy_cost_loss |-> e, samples |-> s] :
        own \in {MCArmyOf(1, 0, 0), MCArmyOf(0, 0, 1)}, e \in {2, 7, 10},
        s \in {<<MCArmyOf(1, 1, 0), MCArmyOf(0, 0, 2)>>,
               <<MCArmyOf(0, 2, 0), MCArmyOf(1, 0, 1), MCArmyOf(0, 2, 0), MCArmyOf(2, 0, 0)>>}}

\* identity(), logit( 10 ) and logistic( 10, 1.3 ) for two and for four samples.
MCPhi ==
    LET Table(quarter, half, three) ==
          [r \in {<<1, 2>>, <<1, 4>>, <<2, 4>>, <<3, 4>>} |->
             CASE r = <<1, 4>> -> quarter [] r = <<3, 4>> -> three [] OTHER -> half]
    IN  [a \in Attitudes |-> CASE a = 0 -> Table(25, 50, 75)
                              [] a = 1 -> Table(81, 89, 95)
                              [] OTHER -> Table(0, 5, 88)]

-----------------------------------------------------------------------------
(* Exploration                                                             *)

MCArmy == {light1, light2, light3}
MCRandomPlaces == {NoGoal, <<0, 0>>}

Situation(blocked, b, first, second, third, searcher, l) ==
    [walls |-> blocked, base |-> b, late |-> l,
     at |-> [u \in MCArmy \union {worker1} |->
               CASE u = light1 -> first [] u = light2 -> second
                 [] u = light3 -> third [] OTHER -> searcher]]

\* Two units of the patrol are hemmed in above a wall.
AboveAWall ==
    {<<x, 2>> : x \in 0 .. 4} \union {<<x, 1>> : x \in 0 .. 4} \union {<<x, 0>> : x \in 1 .. 3}

MCSituations ==
    {Situation(AboveAWall, b, <<1, 3>>, <<0, 0>>, <<4, 0>>, NoGoal, TRUE) :
        b \in {<<4, 0>>, NoBase}}
    \union
    {Situation({<<2, 2>>}, b, <<2, 1>>, NoGoal, NoGoal, NoGoal, TRUE) :
        b \in {<<1, 1>>, <<3, 3>>, <<4, 2>>}}
    \union
    {Situation({<<1, 1>>, <<2, 1>>, <<3, 1>>}, bc[1], NoGoal, NoGoal, NoGoal, bc[2], FALSE) :
        bc \in {<<<<2, 2>>, <<0, 2>>>>, <<<<4, 0>>, <<4, 4>>>>, <<NoBase, <<2, 2>>>>}}

-----------------------------------------------------------------------------
(* The scenes                                                              *)

NoWorkers ==
    /\ scan = Frame(<<>>, <<>>, <<>>, <<>>, 0, TRUE)
    /\ stage = "end" /\ free_workers = {} /\ builder = Nobody /\ building = "nothing"
    /\ reserved_resources = 0 /\ reserved_positions = {} /\ jobs = {}
    /\ occupied = {} /\ StartsAt(<<0, 0>>)

NoFight ==
    self = <<2, 2>> /\ ranged = FALSE /\ enemies = <<>> /\ command = NoCommand

NoInput ==
    /\ exchange = "solving" /\ message = <<>> /\ clean = FALSE /\ game_state = <<>>
    /\ estimated_remaining_resources = 0 /\ estimated_resources = 0
    /\ estimated = NoUnits /\ samples = <<>>

NoComposition ==
    /\ problem = [possessed |-> MCArmyOf(0, 0, 0), nb_barracks |-> 0, cheapest |-> 1,
                  my_cost_loss |-> 0, enemy_cost_loss |-> 0,
                  samples |-> <<MCArmyOf(0, 0, 0)>>]
    /\ solver_type = 0
    /\ values = [i \in 0 .. 11 |-> 0]

NoExploration ==
    /\ pc = "game" /\ walls = {} /\ steps_to = <<>> /\ base = NoBase
    /\ at = [u \in Units |-> NoGoal] /\ late = TRUE /\ heat_map = NoMap
    /\ goal = [u \in Units |-> NoGoal]

MCInit ==
    \/ scene = "workers" /\ WorkersInit /\ NoFight /\ NoInput /\ NoComposition /\ NoExploration
    \/ scene = "fight" /\ FightInit /\ NoWorkers /\ NoInput /\ NoComposition /\ NoExploration
    \/ scene = "input" /\ InputInit /\ NoWorkers /\ NoFight /\ NoComposition /\ NoExploration
    \/ /\ scene = "composition" /\ CompositionInit
       /\ NoWorkers /\ NoFight /\ NoInput /\ NoExploration
    \/ scene = "exploration" /\ Init /\ NoWorkers /\ NoFight /\ NoInput /\ NoComposition

MCNext ==
    /\ \/ /\ scene = "workers" /\ WorkersNext
          /\ UNCHANGED <<fight_vars, input_vars, composition_vars, vars>>
       \/ /\ scene = "fight" /\ FightNext
          /\ UNCHANGED <<workers_vars, input_vars, composition_vars, vars>>
       \/ /\ scene = "input" /\ InputNext
          /\ UNCHANGED <<workers_vars, fight_vars, composition_vars, vars>>
       \/ /\ scene = "composition" /\ CompositionNext
          /\ UNCHANGED <<workers_vars, fight_vars, input_vars, vars>>
       \/ /\ scene = "exploration" /\ Next
          /\ UNCHANGED <<workers_vars, fight_vars, input_vars, composition_vars>>
    /\ UNCHANGED scene

\* The fairness of each module; that of Exploration in its scene.
MCFairness ==
    /\ WorkersFairness
    /\ InputFairness
    /\ []<>(scene = "exploration" => pc = "frame")
    /\ []<>(scene = "exploration" => pc = "game")
    /\ WF_vars(GrowLate)
    /\ \A u \in Units : SF_vars(Step(u))

MCSpec == MCInit /\ [][MCNext]_all_vars /\ MCFairness
=============================================================================
