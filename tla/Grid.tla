-------------------------------- MODULE Grid --------------------------------
(***************************************************************************)
(* The rectangle a game is played on, and what the bot measures on it.     *)
(* A place is a pair <<x, y>>, with y growing downwards.                   *)
(***************************************************************************)
EXTENDS Integers, FiniteSets, SequencesExt

CONSTANTS Width, Height    \* map_width, map_height

ASSUME GridAssumption == Width \in Nat \ {0} /\ Height \in Nat \ {0}

Cells == {<<x, y>> : x \in 0 .. Width - 1, y \in 0 .. Height - 1}

Abs(n) == IF n < 0 THEN -n ELSE n

\* manhattanDistance()
Manhattan(c, d) == Abs(d[1] - c[1]) + Abs(d[2] - c[2])

\* euclidianDistance(), squared: it is only compared.
Euclidian2(c, d) ==
    (d[1] - c[1]) * (d[1] - c[1]) + (d[2] - c[2]) * (d[2] - c[2])

\* notOnBorder()
NotOnBorder(c) == c[1] \in 1 .. Width - 2 /\ c[2] \in 1 .. Height - 2

Beside(c) == {<<c[1] + 1, c[2]>>, <<c[1] - 1, c[2]>>, <<c[1], c[2] + 1>>, <<c[1], c[2] - 1>>}

\* The sets of places within 0, 1, 2, ... steps of d, through free places.
Balls(free, d) ==
    LET Grown(ball) ==
            {c \in Cells : c \in ball \/ (c \in free /\ \E e \in Beside(c) : e \in ball)}
    IN  FoldLeft(LAMBDA balls, n : Append(balls, Grown(Last(balls))),
                 <<{d}>>, [n \in 1 .. Width * Height |-> n])

\* The length of the shortest ways to d, from everywhere; NoWay without one.
NoWay == Width * Height

StepsTo(free, d) ==
    LET balls == Balls(free, d)
    IN  [c \in Cells |-> Cardinality({n \in 1 .. NoWay : c \notin balls[n]})]
=============================================================================
