------------------------------ MODULE UnitScan ------------------------------
(***************************************************************************)
(* What the bot remembers of the units it has seen: scanUnits() of         *)
(* MicroPhantom.java, called at the top of every getAction().              *)
(*                                                                         *)
(* The game (microRTS, external) owns the units.  A partially observable   *)
(* game state shows the bot all of its own units and the others it has in  *)
(* sight; the Unit objects are shared with the game, so getHitPoints() of  *)
(* a unit remembered by the bot is read through the fog of war.            *)
(***************************************************************************)
EXTENDS Integers, FiniteSets

CONSTANTS
    Units,      \* every unit of a game, resource patches included
    PlayerOf,   \* u.getPlayer(): "me", "enemy" or "neutral"
    TypeOf,     \* u.getType()
    Cost,       \* UnitType.cost
    Starters    \* the units on the map when a game starts

NonWorkerTypes == {"heavy", "light", "ranged"}
MobileTypes    == NonWorkerTypes \union {"worker"}
UnitTypes      == MobileTypes \union {"base", "barracks", "resource"}

ASSUME UnitsAssumption ==
    /\ IsFiniteSet(Units)
    /\ PlayerOf \in [Units -> {"me", "enemy", "neutral"}]
    /\ TypeOf \in [Units -> UnitTypes]
    /\ \A u \in Units : TypeOf[u] = "resource" <=> PlayerOf[u] = "neutral"
    /\ Cost \in [UnitTypes -> Nat]
    /\ Starters \subseteq Units

None == "none"
ASSUME NoneAssumption == None \notin Units

VARIABLES
    life,                    \* game: "unborn", "alive" or "dead" (hit points or resources <= 0)
    in_game,                 \* FALSE from construction or reset() to the first scan
    track_my_army,           \* HashMap<Long, TrackUnit>: "untracked", or TrackUnit.alive
    track_enemy,
    count_current_enemy,     \* HashMap<Integer, AtomicInteger>; 0 stands for an absent key
    count_total_enemy,
    my_cost_loss,
    enemy_cost_loss,
    resource_patches,
    initial_base,            \* the unit behind initial_base_position_x/y, or None
    initial_number_workers   \* -1 before the first scan

memory == <<track_my_army, track_enemy, count_current_enemy,
            count_total_enemy, my_cost_loss, enemy_cost_loss, resource_patches,
            initial_base, initial_number_workers>>
vars == <<life, in_game, memory>>

Tracking == {"untracked", "alive", "dead"}

Mine(S, T)    == {u \in S : PlayerOf[u] = "me"    /\ TypeOf[u] \in T}
Enemies(S, T) == {u \in S : PlayerOf[u] = "enemy" /\ TypeOf[u] \in T}

-----------------------------------------------------------------------------
(* Construction and reset(): every field scanUnits() touches is cleared.   *)

ForgetEverything ==
    /\ in_game' = FALSE
    /\ track_my_army' = [u \in Units |-> "untracked"]
    /\ track_enemy' = [u \in Units |-> "untracked"]
    /\ count_current_enemy' = [t \in MobileTypes |-> 0]
    /\ count_total_enemy' = [t \in MobileTypes |-> 0]
    /\ my_cost_loss' = 0
    /\ enemy_cost_loss' = 0
    /\ resource_patches' = {}
    /\ initial_base' = None
    /\ initial_number_workers' = -1

InitialLife == [u \in Units |-> IF u \in Starters THEN "alive" ELSE "unborn"]

Init ==
    /\ life = InitialLife
    /\ in_game = FALSE
    /\ track_my_army = [u \in Units |-> "untracked"]
    /\ track_enemy = [u \in Units |-> "untracked"]
    /\ count_current_enemy = [t \in MobileTypes |-> 0]
    /\ count_total_enemy = [t \in MobileTypes |-> 0]
    /\ my_cost_loss = 0
    /\ enemy_cost_loss = 0
    /\ resource_patches = {}
    /\ initial_base = None
    /\ initial_number_workers = -1

(* The harness starts the next game on a fresh clone of the map, whose     *)
(* units carry the same IDs, after calling reset() on the bot.             *)
NewGame ==
    /\ in_game
    /\ life' = InitialLife
    /\ ForgetEverything

-----------------------------------------------------------------------------
(* The game between two calls of getAction().                              *)

Spawn(u) ==
    /\ life[u] = "unborn"
    /\ life' = [life EXCEPT ![u] = "alive"]
    /\ UNCHANGED <<in_game, memory>>

\* A unit is destroyed, or a resource patch exhausted; the game drops it from
\* the map at once, whether or not the bot has it in sight.
Die(u) ==
    /\ life[u] = "alive"
    /\ life' = [life EXCEPT ![u] = "dead"]
    /\ UNCHANGED <<in_game, memory>>

-----------------------------------------------------------------------------
(* scanUnits().  The lists my_* and enemy_*, rebuilt from nothing at every *)
(* scan, are Mine(S, T) and Enemies(S, T) for the set S of units listed.   *)

Alive == {u \in Units : life[u] = "alive"}

\* What a PartiallyObservableGameState may list.
Visible(S) == S \subseteq Alive /\ Mine(Alive, UnitTypes) \subseteq S

\* put( id, new TrackUnit( u, true ) ) for each sighted unit ...
Sighted(track, S) == [u \in Units |-> IF u \in S THEN "alive" ELSE track[u]]

\* Faults that a run seeds in the definitions below: no "&& track.alive", no
\* "track.alive = false", no test of containsKey.
NewlyDeadAgain(track)  == {u \in Units : track[u] # "untracked" /\ life[u] = "dead"}
NeverBuried(track)     == track
SeenAgain(S)           == S

\* ... then one pass over the map for the units destroyed since.
NewlyDead(track) == {u \in Units : track[u] = "alive" /\ life[u] = "dead"}

Buried(track) ==
    [u \in Units |->
        IF track[u] = "alive" /\ life[u] = "dead" THEN "dead" ELSE track[u]]

OfType(S, t) == {u \in S : TypeOf[u] = t}

\* A sum over the units of S, one term per type that fights.
CostOf(S) ==
      Cost["heavy"]  * Cardinality(OfType(S, "heavy"))
    + Cost["light"]  * Cardinality(OfType(S, "light"))
    + Cost["ranged"] * Cardinality(OfType(S, "ranged"))

NeverSeen(S) == {u \in S : track_enemy[u] = "untracked"}

ScanMyArmy(S) ==
    LET sighted == Sighted(track_my_army, Mine(S, NonWorkerTypes)) IN
    /\ track_my_army' = Buried(sighted)
    /\ my_cost_loss' = my_cost_loss + CostOf(NewlyDead(sighted))

\* A fault that a run seeds: the test for workers covers all that follows it.
ScanEnemyFighters(S) ==
    LET mobile   == Enemies(S, MobileTypes)
        newcomer == NeverSeen(mobile)
        sighted  == Sighted(track_enemy, mobile)
        dead     == {u \in NewlyDead(sighted) : TypeOf[u] # "worker"}
    IN
    /\ track_enemy' = [u \in Units |-> IF u \in dead THEN "dead" ELSE sighted[u]]
    /\ count_total_enemy' =
         [t \in MobileTypes |->
             count_total_enemy[t] + Cardinality(OfType(newcomer, t))]
    /\ count_current_enemy' =
         [t \in MobileTypes |->
             count_current_enemy[t] + Cardinality(OfType(newcomer, t))
                                    - Cardinality(OfType(dead, t))]
    /\ enemy_cost_loss' = enemy_cost_loss + CostOf(dead)

\* A worker destroyed leaves the count of workers but is not a loss.
ScanEnemy(S) ==
    LET mobile   == Enemies(S, MobileTypes)
        newcomer == NeverSeen(mobile)
        sighted  == Sighted(track_enemy, mobile)
        dead     == NewlyDead(sighted)
    IN
    /\ track_enemy' = Buried(sighted)
    /\ count_total_enemy' =
         [t \in MobileTypes |->
             count_total_enemy[t] + Cardinality(OfType(newcomer, t))]
    /\ count_current_enemy' =
         [t \in MobileTypes |->
             count_current_enemy[t] + Cardinality(OfType(newcomer, t))
                                    - Cardinality(OfType(dead, t))]
    /\ enemy_cost_loss' = enemy_cost_loss + CostOf(dead)

\* Exhausted patches are forgotten, patches in sight are remembered.
ScanResources(S) ==
    resource_patches' = {r \in resource_patches : life[r] # "dead"}
                        \union {u \in S : TypeOf[u] = "resource"}

\* The first base ever listed fixes the initial position, whenever that is.
ScanInitialBase(S) ==
    IF initial_base = None /\ Mine(S, {"base"}) # {}
    THEN initial_base' \in Mine(S, {"base"})
    ELSE UNCHANGED initial_base

ScanUnits(S) ==
    /\ Visible(S)
    /\ in_game' = TRUE
    /\ ScanMyArmy(S)
    /\ ScanEnemy(S)
    /\ ScanResources(S)
    /\ ScanInitialBase(S)
    /\ initial_number_workers' =
         IF initial_number_workers = -1
         THEN Cardinality(Mine(S, {"worker"}))
         ELSE initial_number_workers
    /\ UNCHANGED life

GetAction == \E S \in SUBSET Alive : ScanUnits(S)

-----------------------------------------------------------------------------
Next ==
    \/ \E u \in Units : Spawn(u)
    \/ \E u \in Units : Die(u)
    \/ GetAction
    \/ NewGame

\* The game loop of the harness calls getAction() in every cycle.
Fairness == WF_vars(GetAction)

Spec == Init /\ [][Next]_vars /\ Fairness

-----------------------------------------------------------------------------
(* Properties                                                              *)

\* Type invariant of the memory that scanUnits() keeps between two frames.
TypeOK ==
    /\ life \in [Units -> {"unborn", "alive", "dead"}]
    /\ in_game \in BOOLEAN
    /\ track_my_army \in [Units -> Tracking]
    /\ track_enemy \in [Units -> Tracking]
    /\ count_current_enemy \in [MobileTypes -> Nat]
    /\ count_total_enemy \in [MobileTypes -> Nat]
    /\ my_cost_loss \in Nat
    /\ enemy_cost_loss \in Nat
    /\ resource_patches \in SUBSET Units
    /\ initial_base \in Units \union {None}
    /\ initial_number_workers \in Nat \union {-1}

TrackedEnemies(status) == {u \in Units : track_enemy[u] \in status}

\* The counters the solver is fed with agree with the map of tracked units:
\* current is the tracked units still flagged alive, total is all of them.
\* An increment repeated for a unit seen again after the fog, a death counted
\* in two scans, or a decrement without an increment would break it.
CountsMatchTracking ==
    \A t \in MobileTypes :
        /\ count_current_enemy[t] =
             Cardinality(OfType(TrackedEnemies({"alive"}), t))
        /\ count_total_enemy[t] =
             Cardinality(OfType(TrackedEnemies({"alive", "dead"}), t))

\* The two losses, compared by decideProduction() to choose between the
\* optimistic and the pessimistic solver, are the price of exactly the
\* fighting units that were tracked and have been destroyed.
LossesMatchDeaths ==
    /\ my_cost_loss = CostOf({u \in Units : track_my_army[u] = "dead"})
    /\ enemy_cost_loss = CostOf(TrackedEnemies({"dead"}))

\* A unit flagged dead is dead in the game, so that no later sighting can
\* bring it back and charge its price a second time.
FlaggedDeadIsDead ==
    \A u \in Units :
        /\ track_enemy[u] = "dead" => life[u] = "dead"
        /\ track_my_army[u] = "dead" => life[u] = "dead"

\* Only a scan changes the memory while the game stands still.
AfterScan == in_game' /\ UNCHANGED life

\* Right after a scan the memory is exact: a tracked enemy is flagged alive
\* precisely when it lives, even hidden by the fog, and no remembered
\* resource patch is exhausted.
ScanIsExact ==
    [][AfterScan =>
        /\ \A u \in Units :
             track_enemy'[u] # "untracked"
                => (track_enemy'[u] = "alive" <=> life[u] = "alive")
        /\ \A r \in resource_patches' : life[r] = "alive"]_vars

\* A tracked enemy destroyed, in sight or not, is eventually discounted (or
\* the game ends first).
DeathIsNoticed ==
    \A u \in Enemies(Units, MobileTypes) :
        (track_enemy[u] = "alive" /\ life[u] = "dead")
            ~> (track_enemy[u] # "alive")
=============================================================================
