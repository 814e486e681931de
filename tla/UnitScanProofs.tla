--------------------------- MODULE UnitScanProofs ---------------------------
(***************************************************************************)
(* Proofs about UnitScan, for every cast of units and every price list.    *)
(*                                                                         *)
(* The counters and the losses are right only because a unit flagged dead  *)
(* is dead in the game (it cannot be listed again), and the type invariant *)
(* only because the counters are right (a decrement never goes below 0).   *)
(* The three are therefore proved together, as the conjunction IInv.       *)
(***************************************************************************)
EXTENDS UnitScan, FiniteSetTheorems, TLAPS

\* TypeOK with the counters typed as integers: that they are natural numbers
\* is a consequence of CountsMatchTracking.
Typed ==
    /\ life \in [Units -> {"unborn", "alive", "dead"}]
    /\ in_game \in BOOLEAN
    /\ track_my_army \in [Units -> Tracking]
    /\ track_enemy \in [Units -> Tracking]
    /\ count_current_enemy \in [MobileTypes -> Int]
    /\ count_total_enemy \in [MobileTypes -> Int]
    /\ my_cost_loss \in Int
    /\ enemy_cost_loss \in Int
    /\ resource_patches \in SUBSET Units
    /\ initial_base \in Units \union {None}
    /\ initial_number_workers \in Nat \union {-1}

IInv == Typed /\ CountsMatchTracking /\ LossesMatchDeaths /\ FlaggedDeadIsDead

-----------------------------------------------------------------------------
(* Counting.                                                               *)

\* The size of a set of units of one type is a natural number.
LEMMA OfTypeFinite ==
    ASSUME NEW S \in SUBSET Units, NEW t
    PROVE  IsFiniteSet(OfType(S, t)) /\ Cardinality(OfType(S, t)) \in Nat
<1>1. IsFiniteSet(Units)
  BY UnitsAssumption
<1>2. OfType(S, t) \in SUBSET Units
  BY DEF OfType
<1>3. IsFiniteSet(OfType(S, t))
  BY <1>1, <1>2, FS_Subset
<1> QED
  BY <1>3, FS_CardinalityType

\* Counting by type distributes over a disjoint union.
LEMMA OfTypeUnion ==
    ASSUME NEW S \in SUBSET Units, NEW T \in SUBSET Units, S \cap T = {}, NEW t
    PROVE  Cardinality(OfType(S \cup T, t))
             = Cardinality(OfType(S, t)) + Cardinality(OfType(T, t))
<1>1. OfType(S \cup T, t) = OfType(S, t) \cup OfType(T, t)
  BY DEF OfType
<1>2. OfType(S, t) \cap OfType(T, t) = {}
  BY DEF OfType
<1>3. /\ IsFiniteSet(OfType(S, t)) /\ IsFiniteSet(OfType(T, t))
      /\ Cardinality(OfType(S, t)) \in Nat /\ Cardinality(OfType(T, t)) \in Nat
  BY OfTypeFinite
<1>4. Cardinality(OfType(S, t) \cup OfType(T, t))
        = Cardinality(OfType(S, t)) + Cardinality(OfType(T, t)) - Cardinality({})
  BY <1>2, <1>3, FS_Union
<1>5. Cardinality({}) = 0
  BY FS_EmptySet
<1>6. Cardinality(OfType(S \cup T, t)) = Cardinality(OfType(S, t) \cup OfType(T, t))
  BY ONLY <1>1
<1> QED
  BY ONLY <1>3, <1>4, <1>5, <1>6

LEMMA OfTypeEmpty == \A t : Cardinality(OfType({}, t)) = 0
  BY FS_EmptySet DEF OfType

\* A price is a natural number, and so is the price of a set of units.
LEMMA CostOfType ==
    ASSUME NEW S \in SUBSET Units
    PROVE  CostOf(S) \in Nat
<1>1. \A t \in {"heavy", "light", "ranged"} :
        Cost[t] \in Nat /\ Cardinality(OfType(S, t)) \in Nat
  BY UnitsAssumption, OfTypeFinite
     DEF UnitTypes, MobileTypes, NonWorkerTypes
<1>2. \A m, n \in Nat : m * n \in Nat
  OBVIOUS
<1> QED
  BY <1>1, <1>2 DEF CostOf

\* Prices add up over a disjoint union.
LEMMA CostOfUnion ==
    ASSUME NEW S \in SUBSET Units, NEW T \in SUBSET Units, S \cap T = {}
    PROVE  CostOf(S \cup T) = CostOf(S) + CostOf(T)
<1>1. \A t : Cardinality(OfType(S \cup T, t))
               = Cardinality(OfType(S, t)) + Cardinality(OfType(T, t))
  BY OfTypeUnion
<1>2. \A t \in {"heavy", "light", "ranged"} :
        /\ Cost[t] \in Nat
        /\ Cardinality(OfType(S, t)) \in Nat
        /\ Cardinality(OfType(T, t)) \in Nat
  BY UnitsAssumption, OfTypeFinite
     DEF UnitTypes, MobileTypes, NonWorkerTypes
<1>3. \A c, m, n \in Nat : c * (m + n) = c * m + c * n /\ c * m \in Nat
  OBVIOUS
<1>4. \A t \in {"heavy", "light", "ranged"} :
        Cost[t] * Cardinality(OfType(S \cup T, t))
          = Cost[t] * Cardinality(OfType(S, t)) + Cost[t] * Cardinality(OfType(T, t))
  <2> TAKE t \in {"heavy", "light", "ranged"}
  <2> DEFINE c == Cost[t]
             m == Cardinality(OfType(S, t))
             n == Cardinality(OfType(T, t))
  <2>1. c \in Nat /\ m \in Nat /\ n \in Nat
    BY <1>2
  <2>2. Cardinality(OfType(S \cup T, t)) = m + n
    BY <1>1
  <2> HIDE DEF c, m, n
  <2>3. c * (m + n) = c * m + c * n
    BY <2>1, <1>3
  <2> QED
    BY <2>2, <2>3 DEF c, m, n
<1>5. \A t \in {"heavy", "light", "ranged"} :
        /\ Cost[t] * Cardinality(OfType(S, t)) \in Nat
        /\ Cost[t] * Cardinality(OfType(T, t)) \in Nat
  BY <1>2, <1>3
<1> HIDE DEF OfType
<1> QED
  BY <1>4, <1>5 DEF CostOf

LEMMA CostOfEmpty == CostOf({}) = 0
<1>1. Cost["heavy"] * 0 = 0 /\ Cost["light"] * 0 = 0 /\ Cost["ranged"] * 0 = 0
  BY UnitsAssumption DEF UnitTypes, MobileTypes, NonWorkerTypes
<1> QED
  BY <1>1, OfTypeEmpty DEF CostOf

-----------------------------------------------------------------------------
(* The memory of a game that has not begun satisfies the invariant.        *)

LEMMA EmptyMemory ==
    ASSUME life \in [Units -> {"unborn", "alive", "dead"}],
           in_game = FALSE,
           track_my_army = [u \in Units |-> "untracked"],
           track_enemy = [u \in Units |-> "untracked"],
           count_current_enemy = [t \in MobileTypes |-> 0],
           count_total_enemy = [t \in MobileTypes |-> 0],
           my_cost_loss = 0, enemy_cost_loss = 0,
           resource_patches = {}, initial_base = None,
           initial_number_workers = -1
    PROVE  IInv
<1>1. Typed
  <2>1. /\ track_my_army \in [Units -> Tracking]
        /\ track_enemy \in [Units -> Tracking]
    BY DEF Tracking
  <2>2. /\ count_current_enemy \in [MobileTypes -> Int]
        /\ count_total_enemy \in [MobileTypes -> Int]
    OBVIOUS
  <2>3. in_game \in BOOLEAN /\ initial_base \in Units \union {None}
    OBVIOUS
  <2>4. /\ my_cost_loss \in Int /\ enemy_cost_loss \in Int
        /\ initial_number_workers \in Nat \union {-1}
    OBVIOUS
  <2> QED
    BY <2>1, <2>2, <2>3, <2>4 DEF Typed
<1>2. \A status \in {{"alive"}, {"dead"}, {"alive", "dead"}} :
        TrackedEnemies(status) = {}
  BY DEF TrackedEnemies
<1>3. {u \in Units : track_my_army[u] = "dead"} = {}
  OBVIOUS
<1>4. CountsMatchTracking
  BY <1>2, OfTypeEmpty DEF CountsMatchTracking
<1>5. LossesMatchDeaths
  BY <1>2, <1>3, CostOfEmpty DEF LossesMatchDeaths
<1>6. FlaggedDeadIsDead
  BY DEF FlaggedDeadIsDead
<1> QED
  BY <1>1, <1>4, <1>5, <1>6 DEF IInv

LEMMA InitInv == Init => IInv
<1> SUFFICES ASSUME Init PROVE IInv
  OBVIOUS
<1>1. life \in [Units -> {"unborn", "alive", "dead"}]
  BY DEF Init, InitialLife
<1> QED
  BY <1>1, EmptyMemory DEF Init

-----------------------------------------------------------------------------
(* One scan of one map of tracked units.                                   *)

\* What a scan that sees the units of "seen" makes of a map of tracked units:
\* the units flagged alive before, with the newcomers, are those flagged alive
\* after, with the newly dead, and no unit is on both lists of a side.
ScanFacts(track, after, dead, new) ==
    /\ after \in [Units -> Tracking]
    /\ dead \in SUBSET Units
    /\ new \in SUBSET Units
    /\ {u \in Units : after[u] = "alive"} \cup dead
         = {u \in Units : track[u] = "alive"} \cup new
    /\ {u \in Units : after[u] = "alive"} \cap dead = {}
    /\ {u \in Units : track[u] = "alive"} \cap new = {}
    /\ {u \in Units : after[u] = "dead"}
         = {u \in Units : track[u] = "dead"} \cup dead
    /\ {u \in Units : track[u] = "dead"} \cap dead = {}
    /\ {u \in Units : after[u] # "untracked"}
         = {u \in Units : track[u] # "untracked"} \cup new
    /\ {u \in Units : track[u] # "untracked"} \cap new = {}
    /\ \A u \in Units : after[u] = "dead" => life[u] = "dead"

\* It holds because a scan lists living units only.
LEMMA ScanOfTrack ==
    ASSUME NEW track \in [Units -> Tracking],
           NEW seen \in SUBSET Units,
           \A u \in seen : life[u] = "alive",
           \A u \in Units : track[u] = "dead" => life[u] = "dead"
    PROVE  ScanFacts(track, Buried(Sighted(track, seen)),
                     NewlyDead(Sighted(track, seen)),
                     {u \in seen : track[u] = "untracked"})
<1> DEFINE after == Buried(Sighted(track, seen))
           dead  == NewlyDead(Sighted(track, seen))
           new   == {u \in seen : track[u] = "untracked"}
<1>1. \A u \in Units : after[u] =
        IF u \in seen \/ track[u] = "alive"
        THEN IF life[u] = "dead" THEN "dead" ELSE "alive"
        ELSE track[u]
  BY DEF Buried, Sighted
<1>2. dead = {u \in Units : (u \in seen \/ track[u] = "alive") /\ life[u] = "dead"}
  BY DEF NewlyDead, Sighted
<1>3. after \in [Units -> Tracking]
  BY DEF Buried, Sighted, Tracking
<1>4. dead \in SUBSET Units /\ new \in SUBSET Units
  BY <1>2
<1>5. \A u \in Units : u \in seen => life[u] = "alive" /\ track[u] # "dead"
  OBVIOUS
<1>6. \A u \in Units : track[u] \in {"untracked", "alive", "dead"}
  BY DEF Tracking
<1>7. {u \in Units : after[u] = "alive"} \cup dead
        = {u \in Units : track[u] = "alive"} \cup new
  BY <1>1, <1>2, <1>5, <1>6
<1>8. /\ {u \in Units : after[u] = "alive"} \cap dead = {}
      /\ {u \in Units : track[u] = "alive"} \cap new = {}
  BY <1>1, <1>2
<1>9. {u \in Units : after[u] = "dead"} = {u \in Units : track[u] = "dead"} \cup dead
  BY <1>1, <1>2, <1>5
<1>10. {u \in Units : track[u] = "dead"} \cap dead = {}
  BY <1>2, <1>5
<1>11. {u \in Units : after[u] # "untracked"}
         = {u \in Units : track[u] # "untracked"} \cup new
  BY <1>1, <1>5
<1>12. {u \in Units : track[u] # "untracked"} \cap new = {}
  OBVIOUS
<1>13. \A u \in Units : after[u] = "dead" => life[u] = "dead"
  BY <1>1
<1> HIDE DEF after, dead, new
<1>14. ScanFacts(track, after, dead, new)
  BY <1>3, <1>4, <1>7, <1>8, <1>9, <1>10, <1>11, <1>12, <1>13 DEF ScanFacts
<1> QED
  BY <1>14 DEF after, dead, new

-----------------------------------------------------------------------------
(* Every step preserves the invariant.                                     *)

LEMMA ScanInv ==
    ASSUME IInv, NEW S \in SUBSET Alive, ScanUnits(S)
    PROVE  IInv'
<1> DEFINE mobile  == Enemies(S, MobileTypes)
           army    == Mine(S, NonWorkerTypes)
           new     == NeverSeen(mobile)
           dead    == NewlyDead(Sighted(track_enemy, mobile))
           mydead  == NewlyDead(Sighted(track_my_army, army))
           mynew   == {u \in army : track_my_army[u] = "untracked"}
<1> USE DEF IInv
<1>1. /\ mobile \in SUBSET Units /\ \A u \in mobile : life[u] = "alive"
      /\ army \in SUBSET Units /\ \A u \in army : life[u] = "alive"
  BY DEF Enemies, Mine, Alive
<1>2. /\ track_enemy' = Buried(Sighted(track_enemy, mobile))
      /\ count_total_enemy' = [t \in MobileTypes |->
            count_total_enemy[t] + Cardinality(OfType(new, t))]
      /\ count_current_enemy' = [t \in MobileTypes |->
            count_current_enemy[t] + Cardinality(OfType(new, t))
                                   - Cardinality(OfType(dead, t))]
      /\ enemy_cost_loss' = enemy_cost_loss + CostOf(dead)
  BY DEF ScanUnits, ScanEnemy
<1>3. /\ track_my_army' = Buried(Sighted(track_my_army, army))
      /\ my_cost_loss' = my_cost_loss + CostOf(mydead)
  BY DEF ScanUnits, ScanMyArmy
<1>4. life' = life /\ in_game' = TRUE
  BY DEF ScanUnits
<1>5. ScanFacts(track_enemy, track_enemy', dead, new)
  <2>1. track_enemy \in [Units -> Tracking]
    BY DEF Typed
  <2>2. \A u \in Units : track_enemy[u] = "dead" => life[u] = "dead"
    BY DEF FlaggedDeadIsDead
  <2>3. ScanFacts(track_enemy, Buried(Sighted(track_enemy, mobile)), dead,
                  {u \in mobile : track_enemy[u] = "untracked"})
    BY <1>1, <2>1, <2>2, ScanOfTrack
  <2> QED
    BY <1>2, <2>3 DEF NeverSeen
<1>6. ScanFacts(track_my_army, track_my_army', mydead, mynew)
  <2>1. track_my_army \in [Units -> Tracking]
    BY DEF Typed
  <2>2. \A u \in Units : track_my_army[u] = "dead" => life[u] = "dead"
    BY DEF FlaggedDeadIsDead
  <2>3. ScanFacts(track_my_army, Buried(Sighted(track_my_army, army)), mydead, mynew)
    BY <1>1, <2>1, <2>2, ScanOfTrack
  <2> QED
    BY <1>3, <2>3
<1> HIDE DEF mobile, army, new, dead, mydead, mynew
<1> USE DEF ScanFacts
<1>7. Typed'
  <2>1. life' \in [Units -> {"unborn", "alive", "dead"}] /\ in_game' \in BOOLEAN
    BY <1>4 DEF Typed
  <2>2. \A t \in MobileTypes :
          /\ Cardinality(OfType(new, t)) \in Nat
          /\ Cardinality(OfType(dead, t)) \in Nat
    BY <1>5, OfTypeFinite
  <2>3. /\ count_current_enemy' \in [MobileTypes -> Int]
        /\ count_total_enemy' \in [MobileTypes -> Int]
    BY <1>2, <2>2 DEF Typed
  <2>4. my_cost_loss' \in Int /\ enemy_cost_loss' \in Int
    BY <1>2, <1>3, <1>5, <1>6, CostOfType DEF Typed
  <2>5. resource_patches' \in SUBSET Units
    BY DEF ScanUnits, ScanResources, Typed, Alive
  <2>6. initial_base' \in Units \union {None}
    BY DEF ScanUnits, ScanInitialBase, Mine, Typed, Alive
  <2>7. initial_number_workers' \in Nat \union {-1}
    <3>1. Mine(S, {"worker"}) \in SUBSET Units
      BY DEF Mine, Alive
    <3>2. IsFiniteSet(Mine(S, {"worker"}))
      BY <3>1, UnitsAssumption, FS_Subset
    <3>3. Cardinality(Mine(S, {"worker"})) \in Nat
      BY <3>2, FS_CardinalityType
    <3> QED
      BY <3>3 DEF ScanUnits, Typed
  <2> QED
    BY <1>5, <1>6, <2>1, <2>3, <2>4, <2>5, <2>6, <2>7 DEF Typed
<1>8. CountsMatchTracking'
  <2> DEFINE alive0 == {u \in Units : track_enemy[u] = "alive"}
             alive1 == {u \in Units : track_enemy'[u] = "alive"}
             seen0  == {u \in Units : track_enemy[u] # "untracked"}
             seen1  == {u \in Units : track_enemy'[u] # "untracked"}
  <2>1. alive0 = TrackedEnemies({"alive"}) /\ seen0 = TrackedEnemies({"alive", "dead"})
    BY DEF TrackedEnemies, Typed, Tracking
  <2>2. alive1 = TrackedEnemies({"alive"})' /\ seen1 = TrackedEnemies({"alive", "dead"})'
    BY <1>5 DEF TrackedEnemies, Tracking
  <2>3. alive0 \in SUBSET Units /\ alive1 \in SUBSET Units /\ seen0 \in SUBSET Units
    OBVIOUS
  <2>4. /\ alive1 \cup dead = alive0 \cup new
        /\ alive1 \cap dead = {}
        /\ alive0 \cap new = {}
        /\ seen1 = seen0 \cup new
        /\ seen0 \cap new = {}
    BY <1>5
  <2> HIDE DEF alive0, alive1, seen0, seen1
  <2> SUFFICES ASSUME NEW t \in MobileTypes
               PROVE  /\ count_current_enemy'[t] = Cardinality(OfType(alive1, t))
                      /\ count_total_enemy'[t] = Cardinality(OfType(seen1, t))
    BY <2>2 DEF CountsMatchTracking, OfType
  <2>5. /\ count_current_enemy[t] = Cardinality(OfType(alive0, t))
        /\ count_total_enemy[t] = Cardinality(OfType(seen0, t))
    BY <2>1 DEF CountsMatchTracking
  <2>6. Cardinality(OfType(alive1 \cup dead, t))
          = Cardinality(OfType(alive1, t)) + Cardinality(OfType(dead, t))
    BY <1>5, <2>3, <2>4, OfTypeUnion
  <2>7. Cardinality(OfType(alive0 \cup new, t))
          = Cardinality(OfType(alive0, t)) + Cardinality(OfType(new, t))
    BY <1>5, <2>3, <2>4, OfTypeUnion
  <2>8. Cardinality(OfType(seen0 \cup new, t))
          = Cardinality(OfType(seen0, t)) + Cardinality(OfType(new, t))
    BY <1>5, <2>3, <2>4, OfTypeUnion
  <2>9. /\ Cardinality(OfType(alive0, t)) \in Nat
        /\ Cardinality(OfType(alive1, t)) \in Nat
        /\ Cardinality(OfType(seen0, t)) \in Nat
        /\ Cardinality(OfType(new, t)) \in Nat
        /\ Cardinality(OfType(dead, t)) \in Nat
    BY <1>5, <2>3, OfTypeFinite
  <2>10. /\ count_current_enemy'[t]
              = Cardinality(OfType(alive0, t)) + Cardinality(OfType(new, t))
                                               - Cardinality(OfType(dead, t))
         /\ count_total_enemy'[t]
              = Cardinality(OfType(seen0, t)) + Cardinality(OfType(new, t))
    BY <1>2, <2>5
  <2>11. Cardinality(OfType(alive1, t)) + Cardinality(OfType(dead, t))
           = Cardinality(OfType(alive0, t)) + Cardinality(OfType(new, t))
    BY <2>4, <2>6, <2>7
  <2>12. Cardinality(OfType(seen1, t))
           = Cardinality(OfType(seen0, t)) + Cardinality(OfType(new, t))
    BY <2>4, <2>8
  <2>13. \A a, b, d, n \in Nat : a + d = b + n => b + n - d = a
    OBVIOUS
  <2>14. Cardinality(OfType(alive0, t)) + Cardinality(OfType(new, t))
           - Cardinality(OfType(dead, t)) = Cardinality(OfType(alive1, t))
    BY <2>9, <2>11, <2>13
  <2>15. count_current_enemy'[t] = Cardinality(OfType(alive1, t))
    BY <2>10, <2>14
  <2>16. count_total_enemy'[t] = Cardinality(OfType(seen1, t))
    BY <2>10, <2>12
  <2> QED
    BY <2>15, <2>16
<1>9. LossesMatchDeaths'
  <2> DEFINE lost0   == {u \in Units : track_enemy[u] = "dead"}
             mylost0 == {u \in Units : track_my_army[u] = "dead"}
  <2>1. lost0 = TrackedEnemies({"dead"})
    BY DEF TrackedEnemies
  <2>2. lost0 \cup dead = TrackedEnemies({"dead"})'
    BY <1>5 DEF TrackedEnemies
  <2>3. CostOf(lost0 \cup dead) = CostOf(lost0) + CostOf(dead)
    BY <1>5, CostOfUnion
  <2>4. CostOf(mylost0 \cup mydead) = CostOf(mylost0) + CostOf(mydead)
    BY <1>6, CostOfUnion
  <2>5. enemy_cost_loss' = CostOf(lost0 \cup dead)
    BY <1>2, <2>1, <2>3 DEF LossesMatchDeaths
  <2>6. my_cost_loss' = CostOf(mylost0 \cup mydead)
    BY <1>3, <2>4 DEF LossesMatchDeaths
  <2>7. {u \in Units : track_my_army'[u] = "dead"} = mylost0 \cup mydead
    BY <1>6
  <2> HIDE DEF lost0, mylost0
  <2>8. enemy_cost_loss' = CostOf(TrackedEnemies({"dead"}))'
    BY <2>2, <2>5 DEF CostOf, OfType
  <2>9. my_cost_loss' = CostOf({u \in Units : track_my_army[u] = "dead"})'
    BY <2>6, <2>7 DEF CostOf, OfType
  <2> QED
    BY <2>8, <2>9 DEF LossesMatchDeaths
<1>10. FlaggedDeadIsDead'
  BY <1>4, <1>5, <1>6 DEF FlaggedDeadIsDead
<1> QED
  BY <1>7, <1>8, <1>9, <1>10

LEMMA SpawnInv ==
    ASSUME IInv, NEW u \in Units, Spawn(u)
    PROVE  IInv'
<1> USE DEF IInv
<1>1. UNCHANGED <<in_game, track_my_army, track_enemy, count_current_enemy,
                  count_total_enemy, my_cost_loss, enemy_cost_loss,
                  resource_patches, initial_base, initial_number_workers>>
  BY DEF Spawn, memory
<1>2. life' = [life EXCEPT ![u] = "alive"] /\ life[u] = "unborn"
  BY DEF Spawn
<1>3. Typed'
  BY <1>1, <1>2 DEF Typed
<1>4. CountsMatchTracking' /\ LossesMatchDeaths'
  BY <1>1 DEF CountsMatchTracking, LossesMatchDeaths, TrackedEnemies, CostOf, OfType
<1>5. FlaggedDeadIsDead'
  BY <1>1, <1>2 DEF FlaggedDeadIsDead, Typed
<1> QED
  BY <1>3, <1>4, <1>5

LEMMA DieInv ==
    ASSUME IInv, NEW u \in Units, Die(u)
    PROVE  IInv'
<1> USE DEF IInv
<1>1. UNCHANGED <<in_game, track_my_army, track_enemy, count_current_enemy,
                  count_total_enemy, my_cost_loss, enemy_cost_loss,
                  resource_patches, initial_base, initial_number_workers>>
  BY DEF Die, memory
<1>2. life' = [life EXCEPT ![u] = "dead"]
  BY DEF Die
<1>3. Typed'
  BY <1>1, <1>2 DEF Typed
<1>4. CountsMatchTracking' /\ LossesMatchDeaths'
  BY <1>1 DEF CountsMatchTracking, LossesMatchDeaths, TrackedEnemies, CostOf, OfType
<1>5. FlaggedDeadIsDead'
  BY <1>1, <1>2 DEF FlaggedDeadIsDead, Typed
<1> QED
  BY <1>3, <1>4, <1>5

\* reset() leaves the bot as its constructor does.
LEMMA NewGameInv == NewGame => IInv'
<1>1. NewGame => Init'
  BY DEF NewGame, ForgetEverything, Init, InitialLife
<1>2. Init => IInv
  BY InitInv
<1> QED
  BY <1>1, <1>2, PTL

LEMMA StutterInv ==
    ASSUME IInv, UNCHANGED vars
    PROVE  IInv'
  BY DEF IInv, vars, memory, Typed, CountsMatchTracking, LossesMatchDeaths,
         FlaggedDeadIsDead, TrackedEnemies, CostOf, OfType

LEMMA NextInv ==
    ASSUME IInv, [Next]_vars
    PROVE  IInv'
<1>1. CASE \E u \in Units : Spawn(u)
  BY <1>1, SpawnInv
<1>2. CASE \E u \in Units : Die(u)
  BY <1>2, DieInv
<1>3. CASE GetAction
  BY <1>3, ScanInv DEF GetAction
<1>4. CASE NewGame
  BY <1>4, NewGameInv
<1>5. CASE UNCHANGED vars
  BY <1>5, StutterInv
<1> QED
  BY <1>1, <1>2, <1>3, <1>4, <1>5 DEF Next

-----------------------------------------------------------------------------
(* Theorems.                                                               *)

\* The inductive invariant holds of every behaviour of the bot's memory.
THEOREM Inductive == Spec => []IInv
<1>1. Init => IInv
  BY InitInv
<1>2. IInv /\ [Next]_vars => IInv'
  BY NextInv
<1> QED
  BY <1>1, <1>2, PTL DEF Spec

\* The counters of scanUnits() agree with its map of tracked enemies, whatever
\* the number of units and the order in which they are seen and destroyed.
THEOREM CountsCorrect == Spec => []CountsMatchTracking
<1>1. IInv => CountsMatchTracking
  BY DEF IInv
<1> QED
  BY <1>1, Inductive, PTL

\* The losses compared by decideProduction() are the price of exactly the
\* fighting units seen and destroyed.
THEOREM LossesCorrect == Spec => []LossesMatchDeaths
<1>1. IInv => LossesMatchDeaths
  BY DEF IInv
<1> QED
  BY <1>1, Inductive, PTL

\* No unit that lives is flagged dead.
THEOREM FlagsCorrect == Spec => []FlaggedDeadIsDead
<1>1. IInv => FlaggedDeadIsDead
  BY DEF IInv
<1> QED
  BY <1>1, Inductive, PTL

\* Type correctness.  The counters and the losses are natural numbers because
\* they count and price sets of units.
THEOREM TypeCorrect == Spec => []TypeOK
<1>1. IInv => TypeOK
  <2> SUFFICES ASSUME IInv PROVE TypeOK
    OBVIOUS
  <2>1. \A status : TrackedEnemies(status) \in SUBSET Units
    BY DEF TrackedEnemies
  <2>2. \A t \in MobileTypes :
          count_current_enemy[t] \in Nat /\ count_total_enemy[t] \in Nat
    BY <2>1, OfTypeFinite DEF IInv, CountsMatchTracking
  <2>3. /\ count_current_enemy \in [MobileTypes -> Nat]
        /\ count_total_enemy \in [MobileTypes -> Nat]
    BY <2>2 DEF IInv, Typed
  <2>4. my_cost_loss \in Nat /\ enemy_cost_loss \in Nat
    BY <2>1, CostOfType DEF IInv, LossesMatchDeaths
  <2> QED
    BY <2>3, <2>4 DEF IInv, Typed, TypeOK
<1> QED
  BY <1>1, Inductive, PTL
-----------------------------------------------------------------------------
(* The memory right after a scan.                                          *)

\* What the bot remembers has been in the game, and not only will be.
KnownIsBorn ==
    \A u \in Units :
        track_enemy[u] # "untracked" \/ u \in resource_patches => life[u] # "unborn"

LEMMA ScannedTrack ==
    ASSUME IInv, KnownIsBorn, NEW S \in SUBSET Alive, ScanUnits(S), NEW u \in Units
    PROVE  /\ life[u] \in {"unborn", "alive", "dead"}
           /\ track_enemy'[u] # "untracked" =>
                /\ life[u] # "unborn"
                /\ track_enemy'[u] = "alive" <=> life[u] = "alive"
<1> DEFINE mobile == Enemies(S, MobileTypes)
<1>1. track_enemy' = Buried(Sighted(track_enemy, mobile))
  BY DEF ScanUnits, ScanEnemy
<1>2. track_enemy'[u] =
        IF u \in mobile \/ track_enemy[u] = "alive"
        THEN IF life[u] = "dead" THEN "dead" ELSE "alive"
        ELSE track_enemy[u]
  BY <1>1 DEF Buried, Sighted
<1>3. u \in mobile => life[u] = "alive"
  BY DEF Enemies, Alive
<1>4. life[u] \in {"unborn", "alive", "dead"} /\ track_enemy[u] \in {"untracked", "alive", "dead"}
  BY DEF IInv, Typed, Tracking
<1>5. track_enemy[u] = "dead" => life[u] = "dead"
  BY DEF IInv, FlaggedDeadIsDead
<1>6. track_enemy[u] # "untracked" => life[u] # "unborn"
  BY DEF KnownIsBorn
<1> HIDE DEF mobile
<1> QED
  BY <1>2, <1>3, <1>4, <1>5, <1>6

LEMMA ScannedPatches ==
    ASSUME IInv, KnownIsBorn, NEW S \in SUBSET Alive, ScanUnits(S), NEW r \in resource_patches'
    PROVE  r \in Units /\ life[r] = "alive"
<1>1. (r \in resource_patches /\ life[r] # "dead") \/ r \in S
  BY DEF ScanUnits, ScanResources
<1>2. resource_patches \subseteq Units /\ S \subseteq Units
  BY DEF IInv, Typed, Alive
<1>3. r \in S => life[r] = "alive"
  BY DEF Alive
<1>4. r \in resource_patches => life[r] # "unborn"
  BY <1>2 DEF KnownIsBorn
<1>5. r \in Units /\ life \in [Units -> {"unborn", "alive", "dead"}]
  BY <1>1, <1>2 DEF IInv, Typed
<1> QED
  BY <1>1, <1>3, <1>4, <1>5

LEMMA KnownStep == IInv /\ KnownIsBorn /\ [Next]_vars => KnownIsBorn'
<1> SUFFICES ASSUME IInv, KnownIsBorn, [Next]_vars PROVE KnownIsBorn'
  OBVIOUS
<1>1. life \in [Units -> {"unborn", "alive", "dead"}]
  BY DEF IInv, Typed
<1>2. ASSUME NEW u \in Units, Spawn(u) \/ Die(u) PROVE KnownIsBorn'
  BY <1>1, <1>2 DEF Spawn, Die, memory, KnownIsBorn
<1>3. ASSUME NEW S \in SUBSET Alive, ScanUnits(S) PROVE KnownIsBorn'
  <2>1. UNCHANGED life
    BY <1>3 DEF ScanUnits
  <2>2. \A r \in resource_patches' : life[r] = "alive"
    BY <1>3, ScannedPatches
  <2>3. \A u \in Units : track_enemy'[u] # "untracked" => life[u] # "unborn"
    BY <1>3, ScannedTrack
  <2> QED
    BY <2>1, <2>2, <2>3 DEF KnownIsBorn
<1>4. CASE NewGame
  BY <1>4 DEF NewGame, ForgetEverything, KnownIsBorn
<1>5. CASE UNCHANGED vars
  BY <1>5 DEF vars, memory, KnownIsBorn
<1> QED
  BY <1>2, <1>3, <1>4, <1>5 DEF Next, GetAction

\* A scan leaves an exact memory, whatever has happened out of sight since the
\* one before: who is flagged alive lives, who is flagged dead does not, and no
\* exhausted patch is remembered.
THEOREM ScanExact == Spec => ScanIsExact
<1> DEFINE Exact ==
             /\ \A u \in Units :
                  track_enemy'[u] # "untracked"
                     => (track_enemy'[u] = "alive" <=> life[u] = "alive")
             /\ \A r \in resource_patches' : life[r] = "alive"
<1>1. Init => KnownIsBorn
  BY DEF Init, KnownIsBorn
<1>2. ASSUME IInv, KnownIsBorn, Next, AfterScan PROVE Exact
  <2>1. life \in [Units -> {"unborn", "alive", "dead"}]
    BY <1>2 DEF IInv, Typed
  <2>2. ASSUME NEW u \in Units, Spawn(u) \/ Die(u) PROVE FALSE
    BY <1>2, <2>1, <2>2 DEF AfterScan, Spawn, Die
  <2>3. ~ NewGame
    BY <1>2 DEF AfterScan, NewGame, ForgetEverything
  <2>4. PICK S \in SUBSET Alive : ScanUnits(S)
    BY <1>2, <2>2, <2>3 DEF Next, GetAction
  <2> QED
    BY <1>2, <2>4, ScannedTrack, ScannedPatches
<1>3. IInv /\ KnownIsBorn /\ [Next]_vars => [AfterScan => Exact]_vars
  BY <1>2
<1> HIDE DEF Exact
<1>4. Spec => [][AfterScan => Exact]_vars
  BY <1>1, <1>3, KnownStep, Inductive, PTL DEF Spec
<1> QED
  BY <1>4 DEF ScanIsExact, Exact
=============================================================================
