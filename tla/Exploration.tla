---------------------------- MODULE Exploration -----------------------------
(***************************************************************************)
(* What the bot knows of the map, and where its units go for want of       *)
(* anything in sight: the heat map (initMapAnalysis(), updateHeatMap()),   *)
(* the patrol of three army units or more (armyUnitBehavior_heatmap()),    *)
(* the guard of one or two (armyUnitBehavior()) and the workers in search  *)
(* of resources (searchResources()), from one call of getAction() to the   *)
(* next, while the units walk.  No enemy comes into sight here.            *)
(*                                                                         *)
(* The heat of a place is the time it was last seen.  Times are only       *)
(* compared, so the model keeps their ranks: the heats in use are always   *)
(* 0, 1, 2, ... without a gap.                                             *)
(***************************************************************************)
EXTENDS Grid

CONSTANTS
    Army, Searchers,   \* units of my_army, and workers that know of no resource
    Sight,             \* UnitType.sightRadius of these units
    EarlyFog,          \* the fog a search must reveal before time 2000: 12
    RandomPlaces,      \* bound on the random places of searchResources()
    Situations         \* what the behaviours start from, see Init

Units == Army \union Searchers

Unknown == -1
Wall == Width * Height         \* Integer.MAX_VALUE, above any rank
NoMap == <<>>                  \* heat_map == null
NoBase == <<-1, -1>>           \* initial_base_position_x, _y
NoGoal == <<-2, -2>>

ASSUME ExplorationAssumption ==
    /\ Army \cap Searchers = {}
    /\ Sight \in Nat /\ EarlyFog \in Nat \ {0}
    /\ RandomPlaces \subseteq Cells \union {NoGoal}
    /\ Situations \subseteq
         [walls : SUBSET Cells, base : Cells \union {NoBase},
          at : [Units -> Cells \union {NoGoal}], late : BOOLEAN]

VARIABLES
    pc,         \* "game", or "frame" inside getAction()
    walls,      \* the terrain
    steps_to,   \* the lengths of the ways through it (external)
    base,       \* the initial base, which does not stand any more, or NoBase
    at,         \* where each unit is, or NoGoal if it is not in the game
    late,       \* gs.getTime() >= 2000
    heat_map,
    goal        \* the place a unit is walking to, NoGoal if it has no UnitAction

vars == <<pc, walls, steps_to, base, at, late, heat_map, goal>>

Init ==
    /\ \E s \in Situations :
         walls = s.walls /\ base = s.base /\ at = s.at /\ late = s.late
    /\ steps_to = [d \in Cells |-> StepsTo(Cells \ walls, d)]
    /\ pc = "game"
    /\ heat_map = NoMap
    /\ goal = [u \in Units |-> NoGoal]

Free == Cells \ walls
Present == {u \in Units : at[u] # NoGoal}
Troops == Present \cap Army

Observable == {c \in Cells : \E u \in Present : Manhattan(at[u], c) <= Sight}

-----------------------------------------------------------------------------
(* The heat map                                                            *)

\* initMapAnalysis()
InitialHeat ==
    LET seen == Observable
    IN  [c \in Cells |-> IF c \in walls THEN Wall ELSE IF c \in seen THEN 0 ELSE Unknown]

\* A fault that a run seeds: what goes out of sight is forgotten.
HeatInSight ==
    LET seen == Observable
    IN  [c \in Cells |-> IF heat_map[c] = Wall THEN Wall ELSE IF c \in seen THEN 0 ELSE Unknown]

\* updateHeatMap(): what is in sight gets a rank above what was seen before.
UpdatedHeat ==
    LET seen == Observable
        kept == {heat_map[c] : c \in Free \ seen} \ {Unknown}
    IN  [c \in Cells |->
           CASE heat_map[c] = Wall -> Wall
             [] c \in seen /\ heat_map[c] # Wall -> Cardinality(kept)
             [] c \notin seen /\ heat_map[c] = Unknown -> Unknown
             [] OTHER -> Cardinality({t \in kept : t < heat_map[c]})]

-----------------------------------------------------------------------------
(* Where an army unit goes                                                 *)

RowByRow    == [i \in 1 .. Width * Height |-> <<(i - 1) % Width, (i - 1) \div Width>>]
ColByCol    == [i \in 1 .. Width * Height |-> <<(i - 1) \div Height, (i - 1) % Height>>]
Far == Width * Width + Height * Height      \* Double.MAX_VALUE, above any distance

Mirror == <<Width - 1 - base[1], Height - 1 - base[2]>>

\* A fault that a run seeds: the lowest heat so far is not kept.
ColderThanNone(from, best, c) ==
    IF heat_map[c] < best.heat THEN [best EXCEPT !.place = c] ELSE best

\* One step of the scan for the coldest place: the distance that breaks ties is
\* kept when a colder place is found, and not set for that place.
Colder(from, best, c) ==
    IF heat_map[c] < best.heat
    THEN [best EXCEPT !.heat = heat_map[c], !.place = c]
    ELSE LET d == Euclidian2(from, c)
         IN  IF heat_map[c] = best.heat /\ d < best.tie /\ d > 0
             THEN [best EXCEPT !.tie = d, !.place = c]
             ELSE best

Coldest(from) ==
    FoldLeft(LAMBDA best, c : Colder(from, best, c),
             [heat |-> Wall, tie |-> Far, place |-> <<0, 0>>], RowByRow).place

\* armyUnitBehavior_heatmap()
PatrolGoal(u) ==
    IF base # NoBase /\ heat_map[Mirror] = Unknown THEN Mirror ELSE Coldest(at[u])

\* armyUnitBehavior(): to the right and below the base, wherever the enemy is,
\* except along an axis where both are at the same coordinate.
Direction(i) == IF (IF base # NoBase THEN Mirror[i] ELSE 0) = base[i] THEN 0 ELSE 1

Post ==
    LET reach == (IF Width > Height THEN Width ELSE Height) \div 4
    IN  <<base[1] + Direction(1) * reach, base[2] + Direction(2) * reach>>

ArmyGoal(u) == IF Cardinality(Troops) >= 3 THEN PatrolGoal(u) ELSE Post

-----------------------------------------------------------------------------
(* Where a worker that knows of no resource goes                           *)

RevealedFog(c) ==
    Cardinality({d \in Cells : Manhattan(c, d) <= Sight /\ heat_map[d] = Unknown})

\* reveal_enough_fog()
RevealsEnough(c) == RevealedFog(c) >= IF late THEN 1 ELSE EarlyFog

\* One step of the scan for the place closest to the base that reveals enough
\* fog: the distance that breaks ties is kept when a closer place is found.
Closer(from, best, c) ==
    IF ~ RevealsEnough(c) THEN best
    ELSE LET d == Manhattan(base, c)
             t == Manhattan(from, c)
         IN  IF d < best.distance
             THEN [best EXCEPT !.distance = d, !.place = c]
             ELSE IF d = best.distance /\ t < best.tie
                  THEN [best EXCEPT !.tie = t, !.place = c]
                  ELSE best

Nearest(from) ==
    FoldLeft(LAMBDA best, c : Closer(from, best, c),
             [distance |-> Far, tie |-> Far, place |-> NoGoal], ColByCol).place

\* searchResources(): a place at random, maybe off the map, without an initial
\* base or if no place reveals enough fog.
SearchGoal(u, random) ==
    IF base # NoBase /\ Nearest(at[u]) # NoGoal THEN Nearest(at[u]) ELSE random

Target(u, random) == IF u \in Army THEN ArmyGoal(u) ELSE SearchGoal(u, random[u])

-----------------------------------------------------------------------------
(* One call of getAction(), and the game                                   *)

\* The path finding of the game (external): other units in the way are left out.
Connected(c, d) == d \in Free /\ steps_to[d][c] < NoWay

FirstSteps(c, d) == {e \in Beside(c) \cap Free : steps_to[d][e] < steps_to[d][c]}

\* move() has no effect without a path.
Walkable(u, c) == c # at[u] /\ c \in Cells /\ Connected(at[u], c)

Idle == {u \in Present : goal[u] = NoGoal}

\* getAction(), first part: what is seen.
Look ==
    /\ pc = "game"
    /\ pc' = "frame"
    /\ heat_map' = IF heat_map = NoMap THEN InitialHeat ELSE UpdatedHeat
    /\ UNCHANGED <<walls, steps_to, base, at, late, goal>>

\* Second part: what the idle units do.
Command ==
    /\ pc = "frame"
    /\ pc' = "game"
    /\ \E random \in [Searchers -> RandomPlaces] :
         goal' = [u \in Units |->
                    IF u \notin Idle THEN goal[u]
                    ELSE LET c == Target(u, random) IN IF Walkable(u, c) THEN c ELSE NoGoal]
    /\ UNCHANGED <<walls, steps_to, base, at, late, heat_map>>

\* A unit ends its step (external).
Step(u) ==
    /\ pc = "game"
    /\ u \in Present
    /\ goal[u] # NoGoal
    /\ \E c \in FirstSteps(at[u], goal[u]) : at' = [at EXCEPT ![u] = c]
    /\ goal' = [goal EXCEPT ![u] = NoGoal]
    /\ UNCHANGED <<pc, walls, steps_to, base, late, heat_map>>

\* Time 2000 comes.
GrowLate ==
    /\ ~ late
    /\ late' = TRUE
    /\ UNCHANGED <<pc, walls, steps_to, base, at, heat_map, goal>>

Next == Look \/ Command \/ (\E u \in Units : Step(u)) \/ GrowLate

\* The game calls getAction() again and again, which returns, and it ends the
\* steps of the units.
Fairness ==
    /\ []<>(pc = "frame") /\ []<>(pc = "game")
    /\ WF_vars(GrowLate)
    /\ \A u \in Units : SF_vars(Step(u))

Spec == Init /\ [][Next]_vars /\ Fairness
-----------------------------------------------------------------------------
(* Properties                                                              *)

\* "there are no enemies, so we need to explore (find the least known place)"
\* (armyUnitBehavior_heatmap): the places a patrol can reach get known.
PatrolSeesAll ==
    Cardinality(Troops) >= 3 =>
        <>(heat_map # NoMap /\ \A u \in Troops, c \in Cells :
                                  Connected(at[u], c) => heat_map[c] # Unknown)

\* In spite of the distance left over from warmer places, a patrol goes to the
\* mirror of the base while that is unknown, or to a place seen least lately.
PatrolGoesWhereLeastKnown ==
    [][Command /\ Cardinality(Troops) >= 3 =>
         \A u \in Idle \cap Army :
           goal'[u] # NoGoal =>
             \/ base # NoBase /\ goal'[u] = Mirror /\ heat_map[Mirror] = Unknown
             \/ \A c \in Free : heat_map[goal'[u]] <= heat_map[c]]_vars

\* With a base known, the search of a worker comes to its end: no place reveals
\* enough fog any more, or there is no way to the one that is chosen.
SearchSettles ==
    \A u \in Searchers :
        <>[](base # NoBase /\ u \in Present =>
               heat_map # NoMap /\ (Nearest(at[u]) = NoGoal \/ ~ Walkable(u, Nearest(at[u]))))
=============================================================================
