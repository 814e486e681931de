---------------------------- MODULE SpiralSearch ----------------------------
(***************************************************************************)
(* spiralSearch(): from the place of the worker that will build, walk in a *)
(* spiral until freeAround() holds.  One action is one iteration of the    *)
(* loop.  The walk does not know the borders of the map: it goes on beyond *)
(* them, for ever if there is no room.                                     *)
(***************************************************************************)
EXTENDS Grid

CONSTANTS MaxTarget    \* bound on the legs of the walk, beyond the map

ASSUME SpiralAssumption == MaxTarget \in Nat

VARIABLES
    occupied,    \* the places that are not free: terrain, units, buildings begun
    origin,      \* the place the search starts from
    place,       \* x, y
    step, target, x_turn

search_vars == <<occupied, origin, place, step, target, x_turn>>

\* freeAround(), with room left for units to pass.
FreeAround(c) == NotOnBorder(c) /\ ({c} \union Beside(c)) \cap occupied = {}

\* The beginning of spiralSearch().
StartsAt(c) ==
    /\ origin = c
    /\ place = c
    /\ step = 0
    /\ target = 1
    /\ x_turn = TRUE

Room == {c \in Cells : FreeAround(c)}

Found == place \in Room

\* Odd legs go right and down, even legs left and up.
Forward == IF target % 2 = 0 THEN -1 ELSE 1

AlongX == <<place[1] + Forward, place[2]>>
AlongY == <<place[1], place[2] + Forward>>

\* The leg goes on until its length is target.
GoOn ==
    /\ step + 1 # target
    /\ step' = step + 1
    /\ UNCHANGED <<target, x_turn>>

\* A fault that a run seeds: legs get longer at each turn, not at every other.
TurnLonger ==
    /\ step + 1 = target
    /\ step' = 0
    /\ x_turn' = ~ x_turn
    /\ target' = target + 1

Turn ==
    /\ step + 1 = target
    /\ step' = 0
    /\ x_turn' = ~ x_turn
    /\ target' = IF x_turn THEN target ELSE target + 1

Walk ==
    /\ ~ Found
    /\ target <= MaxTarget
    /\ place' = IF x_turn THEN AlongX ELSE AlongY
    /\ GoOn \/ Turn
    /\ UNCHANGED <<occupied, origin>>

SearchInit ==
    /\ occupied \in SUBSET Cells
    /\ \E c \in Cells : StartsAt(c)

SearchSpec == SearchInit /\ [][Walk]_search_vars

-----------------------------------------------------------------------------
(* Properties                                                              *)

Larger(m, n) == IF m > n THEN m ELSE n

\* The ring of the spiral a place is on, counted from the origin.
Ring(c) == Larger(Abs(c[1] - origin[1]), Abs(c[2] - origin[2]))

\* No place with room around it is nearer to the builder than where the walk
\* has come: the spiral leaves no place out, so that what it finds is nearest.
NoneIsNearer == \A c \in Room : Ring(c) >= Ring(place)

\* Where the walk is on the legs of length 2k + 1 and 2k + 2, relative to the
\* origin, and what it has passed: a rectangle, and the beginning of a side.
OnLeg(k, odd, along_x, dx, dy) ==
    /\ target = IF odd THEN 2 * k + 1 ELSE 2 * k + 2
    /\ x_turn = along_x
    /\ place = <<origin[1] + dx, origin[2] + dy>>

Clear(room, o, left, right, top, bottom) ==
    \A dx \in left .. right, dy \in top .. bottom : <<o[1] + dx, o[2] + dy>> \notin room

Passed(left, right, top, bottom) == Clear(Room, origin, left, right, top, bottom)

GoesRight(k) ==
    /\ OnLeg(k, TRUE, TRUE, step - k, -k)
    /\ Passed(-k, k, 1 - k, k) /\ Passed(-k, step - k - 1, -k, -k)

GoesDown(k) ==
    /\ OnLeg(k, TRUE, FALSE, k + 1, step - k)
    /\ Passed(-k, k, -k, k) /\ Passed(k + 1, k + 1, -k, step - k - 1)

GoesLeft(k) ==
    /\ OnLeg(k, FALSE, TRUE, k + 1 - step, k + 1)
    /\ Passed(-k, k + 1, -k, k) /\ Passed(k + 2 - step, k + 1, k + 1, k + 1)

GoesUp(k) ==
    /\ OnLeg(k, FALSE, FALSE, -k - 1, k + 1 - step)
    /\ Passed(-k, k + 1, -k, k + 1) /\ Passed(-k - 1, -k - 1, k + 2 - step, k + 1)

\* The inductive invariant: the spiral as the comment of spiralSearch() draws it.
IsSpiral ==
    /\ step \in 0 .. target - 1
    /\ \E k \in 0 .. MaxTarget : GoesRight(k) \/ GoesDown(k) \/ GoesLeft(k) \/ GoesUp(k)

\* Type invariant.
SearchTypeOK ==
    /\ occupied \subseteq Cells
    /\ origin \in Cells
    /\ place \in Int \X Int
    /\ step \in Nat
    /\ target \in Nat \ {0}
    /\ x_turn \in BOOLEAN
=============================================================================
