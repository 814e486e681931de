----------------------------- MODULE HitAndRun ------------------------------
(***************************************************************************)
(* An idle army unit with enemies in sight: getClosestEnemy() and          *)
(* armyUnitCommonBehavior().  A ranged unit with an enemy too close steps  *)
(* aside.  The unit has no UnitAction, so the branch that looks at its     *)
(* current attack is never taken.                                          *)
(***************************************************************************)
EXTENDS Grid

CONSTANTS Fights    \* self: a place; ranged: BOOLEAN; enemies: Seq([at, kind]), see below

Kinds == {"ranged", "melee", "building"}    \* buildings cannot attack

ASSUME FightAssumption ==
    \A f \in Fights :
        /\ f.self \in Cells /\ f.ranged \in BOOLEAN
        /\ f.enemies \in Seq([at : Cells, kind : Kinds]) /\ f.enemies # <<>>
        /\ \A i \in DOMAIN f.enemies : f.enemies[i].at # f.self    \* one unit a place

VARIABLES
    self, ranged,    \* the unit
    enemies,         \* enemy_units
    command          \* what it is told: "none" so far

fight_vars == <<self, ranged, enemies, command>>

NoCommand == [what |-> "none", where |-> <<-1, -1>>]

FightInit ==
    /\ \E f \in Fights : self = f.self /\ ranged = f.ranged /\ enemies = f.enemies
    /\ command = NoCommand

-----------------------------------------------------------------------------
(* Where the threats are                                                   *)

\* isPotentialThreat( pgs.getUnitAt( x, y ) )
IsThreat(c) == \E i \in DOMAIN enemies : enemies[i].at = c /\ enemies[i].kind # "building"

From(dx, dy) == <<self[1] + dx, self[2] + dy>>

UP == 1
RIGHT == 2
DOWN == 3
LEFT == 4

Ahead == << <<0, -1>>, <<1, 0>>, <<0, 1>>, <<-1, 0>> >>

\* The two places straight ahead count once, the diagonal ones once each.
Diagonals == <<{<<-1, -1>>, <<1, -1>>}, {<<1, -1>>, <<1, 1>>},
               {<<-1, 1>>, <<1, 1>>}, {<<-1, -1>>, <<-1, 1>>}>>

\* A fault that a run seeds: only the first place ahead is looked at.
ShortSightedDanger(i) ==
    (IF IsThreat(From(Ahead[i][1], Ahead[i][2])) THEN 1 ELSE 0)
    + Cardinality({d \in Diagonals[i] : IsThreat(From(d[1], d[2]))})

Danger(i) ==
    (IF \E n \in 1 .. 2 : IsThreat(From(n * Ahead[i][1], n * Ahead[i][2])) THEN 1 ELSE 0)
    + Cardinality({d \in Diagonals[i] : IsThreat(From(d[1], d[2]))})

\* index_min: the first direction of least danger.
Safest == CHOOSE i \in 1 .. 4 : \A j \in 1 .. 4 : Danger(i) < Danger(j) \/ (Danger(i) = Danger(j) /\ i <= j)

\* DOWN is carried out as a move up.
StepAside == LET i == IF Safest = DOWN THEN UP ELSE Safest IN From(Ahead[i][1], Ahead[i][2])

-----------------------------------------------------------------------------

\* getClosestEnemy(): the first of the closest.
ClosestEnemy ==
    LET d(i) == Manhattan(self, enemies[i].at)
    IN  CHOOSE i \in DOMAIN enemies :
            \A j \in DOMAIN enemies : d(i) < d(j) \/ (d(i) = d(j) /\ i <= j)

Enemy == enemies[ClosestEnemy]

TooClose == ranged /\ Manhattan(self, Enemy.at) <= 2

Attack ==
    /\ command = NoCommand
    /\ TooClose /\ Enemy.kind # "ranged" => \A i \in 1 .. 4 : Danger(i) = 0
    /\ command' = [what |-> "attack", where |-> Enemy.at]
    /\ UNCHANGED <<self, ranged, enemies>>

Retreat ==
    /\ command = NoCommand
    /\ TooClose /\ Enemy.kind # "ranged"
    /\ \E i \in 1 .. 4 : Danger(i) > 0
    /\ command' = [what |-> "move", where |-> StepAside]
    /\ UNCHANGED <<self, ranged, enemies>>

FightNext == Attack \/ Retreat

FightSpec == FightInit /\ [][FightNext]_fight_vars

-----------------------------------------------------------------------------
(* Properties                                                              *)

\* A ranged unit that steps aside where it sees no danger has no threat beside
\* it or where it goes; this cannot be said when the safest way is down.
StepAsideIsSafe ==
    command.what = "move" /\ Safest # DOWN /\ Danger(Safest) = 0 =>
        \A c \in {command.where} \union Beside(command.where) : ~ IsThreat(c)

\* A unit only ever attacks an enemy that no other is closer than, and a ranged
\* one never attacks with a melee unit beside it, while no ranged one is.
AttackIsOnClosest ==
    command.what = "attack" =>
        /\ \E i \in DOMAIN enemies :
             /\ enemies[i].at = command.where
             /\ \A j \in DOMAIN enemies :
                  Manhattan(self, command.where) <= Manhattan(self, enemies[j].at)
        /\ ranged /\ (\E j \in DOMAIN enemies : enemies[j].kind = "melee" /\ enemies[j].at \in Beside(self))
             => \E j \in DOMAIN enemies : enemies[j].kind = "ranged" /\ enemies[j].at \in Beside(self)

\* What a unit in a fight is told is sound.
CommandIsSound == StepAsideIsSafe /\ AttackIsOnClosest
=============================================================================
