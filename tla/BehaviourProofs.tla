--------------------------- MODULE BehaviourProofs ---------------------------
(***************************************************************************)
(* What the runs check of the workers, of the units that fight, of the     *)
(* patrols and of the places of buildings, for every map, every fight and  *)
(* every game.                                                             *)
(***************************************************************************)
EXTENDS Workers, HitAndRun, Exploration, SpiralSearch, Sums, SequenceTheorems

\* The first of the indices where a function is least.
LEMMA FirstLeast ==
    ASSUME NEW n \in Nat, n > 0, NEW f, \A i \in 1 .. n : f[i] \in Nat
    PROVE  \E i \in 1 .. n : \A j \in 1 .. n : f[i] < f[j] \/ (f[i] = f[j] /\ i <= j)
<1> DEFINE D == {f[i] : i \in 1 .. n}
<1>1. PICK m \in D : \A d \in D : m <= d
  <2>1. D \in SUBSET Nat /\ D # {}
    OBVIOUS
  <2> HIDE DEF D
  <2> QED
    BY <2>1, LeastNat
<1> DEFINE I == {i \in 1 .. n : f[i] = m}
<1>2. PICK k \in I : \A i \in I : k <= i
  <2>1. I \in SUBSET Nat /\ I # {}
    BY <1>1
  <2> HIDE DEF I
  <2> QED
    BY <2>1, LeastNat
<1>3. \A j \in 1 .. n : f[k] < f[j] \/ (f[k] = f[j] /\ k <= j)
  <2> TAKE j \in 1 .. n
  <2>1. f[k] = m /\ m <= f[j] /\ f[j] \in Nat /\ m \in Nat
    BY <1>1, <1>2
  <2>2. f[j] = m => k <= j
    BY <1>2
  <2> QED
    BY <2>1, <2>2
<1> QED
  BY <1>2, <1>3

-----------------------------------------------------------------------------
(* Folds                                                                   *)
(* FoldLeft takes the elements of a sequence from its first on.  It is a   *)
(* recursive function on the sets of indices; that there is one has to be  *)
(* shown before anything can be said of it.                                *)

\* g folds a step over every set of the indices 1 .. n.
Folds(g, n, B, base0, stepping) ==
    /\ g \in [SUBSET (1 .. n) -> B]
    /\ \A s \in SUBSET (1 .. n) :
         g[s] = IF s = {} THEN base0 ELSE stepping[<<g[s \ {Max(s)}], Max(s)>>]

LEMMA FoldGrows ==
    ASSUME NEW n \in Nat, NEW B, NEW base0 \in B,
           NEW stepping, \A b \in B, i \in 1 .. n + 1 : stepping[<<b, i>>] \in B,
           NEW g, Folds(g, n, B, base0, stepping)
    PROVE  \E h : Folds(h, n + 1, B, base0, stepping)
<1> DEFINE h == [s \in SUBSET (1 .. n + 1) |->
                   IF n + 1 \in s THEN stepping[<<g[s \ {n + 1}], n + 1>>] ELSE g[s]]
<1>1. ASSUME NEW s \in SUBSET (1 .. n + 1) PROVE s \ {n + 1} \in SUBSET (1 .. n)
  OBVIOUS
<1>2. \A s \in SUBSET (1 .. n) : g[s] \in B
  BY DEF Folds
<1>3. h \in [SUBSET (1 .. n + 1) -> B]
  <2> SUFFICES ASSUME NEW s \in SUBSET (1 .. n + 1)
               PROVE  (IF n + 1 \in s THEN stepping[<<g[s \ {n + 1}], n + 1>>] ELSE g[s]) \in B
    OBVIOUS
  <2>1. n + 1 \notin s => s \in SUBSET (1 .. n)
    BY <1>1
  <2> QED
    BY <1>1, <1>2, <2>1
<1>4. ASSUME NEW s \in SUBSET (1 .. n + 1)
      PROVE  h[s] = IF s = {} THEN base0 ELSE stepping[<<h[s \ {Max(s)}], Max(s)>>]
  <2>1. CASE n + 1 \in s
    <3>a. n + 1 \in Nat /\ s # {} /\ s \in SUBSET (1 .. n + 1)
      BY <2>1
    <3>1. Max(s) \in s /\ \A x \in s : Max(s) >= x
      BY <3>a, MaxOfNats
    <3>b. Max(s) \in 1 .. n + 1 /\ Max(s) >= n + 1
      BY <2>1, <3>1
    <3>2. Max(s) = n + 1
      BY <3>b
    <3>3. h[s \ {n + 1}] = g[s \ {n + 1}]
      BY <1>1
    <3>4. h[s] = stepping[<<g[s \ {n + 1}], n + 1>>]
      BY <2>1
    <3> HIDE DEF h
    <3> QED
      BY <2>1, <3>2, <3>3, <3>4
  <2>2. CASE n + 1 \notin s
    <3>1. s \in SUBSET (1 .. n)
      BY <1>1, <2>2
    <3>2. h[s] = g[s]
      BY <2>2
    <3>3. s # {} => s \ {Max(s)} \in SUBSET (1 .. n) /\ n + 1 \notin s \ {Max(s)}
      BY <2>2, <3>1
    <3>4. s # {} => h[s \ {Max(s)}] = g[s \ {Max(s)}]
      BY <3>3
    <3> HIDE DEF h
    <3> QED
      BY <3>1, <3>2, <3>4 DEF Folds
  <2> QED
    BY <2>1, <2>2
<1> HIDE DEF h
<1>5. Folds(h, n + 1, B, base0, stepping)
  BY <1>3, <1>4 DEF Folds
<1> QED
  BY <1>5

LEMMA FoldExists ==
    ASSUME NEW n \in Nat, NEW B, NEW base0 \in B,
           NEW stepping, \A b \in B, i \in 1 .. n : stepping[<<b, i>>] \in B
    PROVE  \E g : Folds(g, n, B, base0, stepping)
<1> DEFINE Bad == {m \in 0 .. n : ~ \E g : Folds(g, m, B, base0, stepping)}
<1>1. SUFFICES ASSUME Bad # {} PROVE FALSE
  <2>1. n \in 0 .. n
    OBVIOUS
  <2> QED
    BY <2>1
<1>2. PICK m \in Bad : \A k \in Bad : m <= k
  <2>1. Bad \in SUBSET Nat
    OBVIOUS
  <2> HIDE DEF Bad
  <2> QED
    BY <1>1, <2>1, LeastNat
<1>3. CASE m = 0
  <2> DEFINE g == [s \in SUBSET (1 .. 0) |-> base0]
  <2>1. \A s \in SUBSET (1 .. 0) : s = {}
    OBVIOUS
  <2>2. Folds(g, 0, B, base0, stepping)
    BY <2>1 DEF Folds
  <2> QED
    BY <1>3, <2>2
<1>4. CASE m # 0
  <2>1. m - 1 \in 0 .. n /\ m - 1 \in Nat /\ (m - 1) + 1 = m /\ m \in 0 .. n
    BY <1>4
  <2>2. m - 1 \notin Bad
    BY <1>2, <2>1
  <2>3. PICK g : Folds(g, m - 1, B, base0, stepping)
    BY <2>1, <2>2
  <2>a. 1 .. (m - 1) + 1 \subseteq 1 .. n
    BY <2>1
  <2>4. \A b \in B, i \in 1 .. (m - 1) + 1 : stepping[<<b, i>>] \in B
    BY <2>a
  <2>5. \E h : Folds(h, (m - 1) + 1, B, base0, stepping)
    BY <2>1, <2>3, <2>4, FoldGrows
  <2> QED
    BY <2>1, <2>5
<1> QED
  BY <1>3, <1>4

-----------------------------------------------------------------------------
(* HitAndRun                                                               *)

FightTypeOK ==
    /\ self \in Cells
    /\ ranged \in BOOLEAN
    /\ enemies \in Seq([at : Cells, kind : Kinds])
    /\ enemies # <<>>
    /\ \A i \in DOMAIN enemies : enemies[i].at # self

LEMMA CellsAreInts == \A c \in Cells : c[1] \in Int /\ c[2] \in Int /\ c = <<c[1], c[2]>>
  BY GridAssumption DEF Cells

LEMMA ManhattanIsNat == \A c, d \in Cells : Manhattan(c, d) \in Nat
  BY CellsAreInts DEF Manhattan, Abs

\* Two places are one step apart when the one is beside the other.
LEMMA BesideIsOneStep ==
    \A c, d \in Cells : d \in Beside(c) <=> Manhattan(c, d) = 1
  <1> TAKE c, d \in Cells
  <1>1. PICK x \in Int, y \in Int, u \in Int, v \in Int : c = <<x, y>> /\ d = <<u, v>>
    BY CellsAreInts
  <1>2. Beside(c) = {<<x + 1, y>>, <<x - 1, y>>, <<x, y + 1>>, <<x, y - 1>>}
    BY <1>1 DEF Beside
  <1>3. Manhattan(c, d) = Abs(u - x) + Abs(v - y)
    BY <1>1 DEF Manhattan
  <1>4. Abs(u - x) + Abs(v - y) = 1 <=>
            (u = x + 1 /\ v = y) \/ (u = x - 1 /\ v = y)
            \/ (u = x /\ v = y + 1) \/ (u = x /\ v = y - 1)
    BY DEF Abs
  <1> QED
    BY <1>1, <1>2, <1>3, <1>4

LEMMA AnEnemy ==
    ASSUME FightTypeOK
    PROVE  /\ DOMAIN enemies = 1 .. Len(enemies) /\ Len(enemies) \in Nat /\ Len(enemies) > 0
           /\ \A i \in DOMAIN enemies : enemies[i].at \in Cells /\ enemies[i].kind \in Kinds
<1>1. Len(enemies) \in Nat /\ DOMAIN enemies = 1 .. Len(enemies) /\ Len(enemies) # 0
  BY EmptySeq, LenProperties DEF FightTypeOK
<1>2. \A i \in DOMAIN enemies : enemies[i] \in [at : Cells, kind : Kinds]
  <2> HIDE DEF Kinds
  <2> QED
    BY <1>1, ElementOfSeq DEF FightTypeOK
<1> QED
  BY <1>1, <1>2

\* getClosestEnemy() finds an enemy that no other is closer than.
LEMMA ClosestIsClosest ==
    ASSUME FightTypeOK
    PROVE  /\ ClosestEnemy \in DOMAIN enemies
           /\ \A j \in DOMAIN enemies :
                Manhattan(self, Enemy.at) <= Manhattan(self, enemies[j].at)
<1> DEFINE d == [i \in DOMAIN enemies |-> Manhattan(self, enemies[i].at)]
<1>1. \A i \in DOMAIN enemies : d[i] \in Nat
  BY AnEnemy, ManhattanIsNat DEF FightTypeOK
<1>2. \E i \in DOMAIN enemies : \A j \in DOMAIN enemies : d[i] < d[j] \/ (d[i] = d[j] /\ i <= j)
  <2> HIDE DEF d
  <2> QED
    BY <1>1, AnEnemy, FirstLeast
<1> DEFINE IsFirst(i) == \A j \in DOMAIN enemies :
                            \/ Manhattan(self, enemies[i].at) < Manhattan(self, enemies[j].at)
                            \/ Manhattan(self, enemies[i].at) = Manhattan(self, enemies[j].at) /\ i <= j
<1>3. \E i \in DOMAIN enemies : IsFirst(i)
  BY <1>2
<1>4. ClosestEnemy = CHOOSE i \in DOMAIN enemies : IsFirst(i)
  BY DEF ClosestEnemy
<1>5. ClosestEnemy \in DOMAIN enemies /\ IsFirst(ClosestEnemy)
  <2> HIDE DEF IsFirst
  <2> QED
    BY <1>3, <1>4, Zenon
<1> QED
  BY <1>1, <1>5 DEF Enemy

\* What a danger of 0 says of a direction.
LEMMA NoDanger ==
    ASSUME NEW i \in 1 .. 4
    PROVE  /\ Danger(i) \in Nat
           /\ Danger(i) = 0 =>
                /\ \A n \in 1 .. 2 : ~ IsThreat(From(n * Ahead[i][1], n * Ahead[i][2]))
                /\ \A d \in Diagonals[i] : ~ IsThreat(From(d[1], d[2]))
<1> DEFINE D == {d \in Diagonals[i] : IsThreat(From(d[1], d[2]))}
<1>1. \E a, b : Diagonals[i] = {a, b}
  <2>1. /\ Diagonals[1] = {<<-1, -1>>, <<1, -1>>} /\ Diagonals[2] = {<<1, -1>>, <<1, 1>>}
        /\ Diagonals[3] = {<<-1, 1>>, <<1, 1>>} /\ Diagonals[4] = {<<-1, -1>>, <<-1, 1>>}
    BY DEF Diagonals
  <2>2. i = 1 \/ i = 2 \/ i = 3 \/ i = 4
    OBVIOUS
  <2> QED
    BY <2>1, <2>2, Zenon
<1>2. IsFiniteSet(Diagonals[i])
  <2>1. \A a, b : IsFiniteSet({a, b})
    <3> TAKE a, b
    <3>1. IsFiniteSet({a} \cup {b})
      BY FS_EmptySet, FS_Singleton, FS_Union
    <3>2. {a} \cup {b} = {a, b}
      OBVIOUS
    <3> QED
      BY <3>1, <3>2
  <2> QED
    BY <1>1, <2>1
<1>3. IsFiniteSet(D) /\ Cardinality(D) \in Nat /\ (Cardinality(D) = 0 <=> D = {})
  BY <1>2, FS_Subset, FS_CardinalityType, FS_EmptySet
<1>4. Danger(i) = (IF \E n \in 1 .. 2 : IsThreat(From(n * Ahead[i][1], n * Ahead[i][2]))
                   THEN 1 ELSE 0) + Cardinality(D)
  BY DEF Danger
<1> DEFINE P == \E n \in 1 .. 2 : IsThreat(From(n * Ahead[i][1], n * Ahead[i][2]))
<1>5. Danger(i) \in Nat /\ (Danger(i) = 0 => ~ P /\ D = {})
  <2> HIDE DEF P, D
  <2>1. Danger(i) = (IF P THEN 1 ELSE 0) + Cardinality(D)
    BY <1>4 DEF P
  <2> QED
    BY <1>3, <2>1
<1> QED
  BY <1>5

\* The places that a direction without danger has been looked at for.
LEMMA LookedAt ==
    ASSUME FightTypeOK, NEW i \in 1 .. 4, Danger(i) = 0, i # DOWN
    PROVE  \A c \in {From(Ahead[i][1], Ahead[i][2])} \union Beside(From(Ahead[i][1], Ahead[i][2])) :
             ~ IsThreat(c)
<1>1. PICK x \in Int, y \in Int : self = <<x, y>>
  BY CellsAreInts DEF FightTypeOK
<1>2. \A a, b : From(a, b) = <<x + a, y + b>>
  BY <1>1 DEF From
<1>3. ~ IsThreat(<<x, y>>)
  BY <1>1 DEF FightTypeOK, IsThreat
<1>4. \A n \in 1 .. 2 : ~ IsThreat(<<x + n * Ahead[i][1], y + n * Ahead[i][2]>>)
  BY <1>2, NoDanger
<1>5. \A d \in Diagonals[i] : ~ IsThreat(<<x + d[1], y + d[2]>>)
  BY <1>2, NoDanger
<1>6. CASE i = 1
  <2>1. Ahead[i][1] = 0 /\ Ahead[i][2] = -1
    BY <1>6 DEF Ahead
  <2>2. <<-1, -1>> \in Diagonals[i] /\ <<1, -1>> \in Diagonals[i]
    BY <1>6 DEF Diagonals
  <2>3. ~ IsThreat(<<x, y - 1>>) /\ ~ IsThreat(<<x, y - 2>>)
    <3>1. /\ x + 1 * Ahead[i][1] = x /\ y + 1 * Ahead[i][2] = y - 1
          /\ x + 2 * Ahead[i][1] = x /\ y + 2 * Ahead[i][2] = y - 2
      BY <2>1
    <3> QED
      BY <1>4, <3>1
  <2>4. ~ IsThreat(<<x - 1, y - 1>>) /\ ~ IsThreat(<<x + 1, y - 1>>)
    <3>1. ~ IsThreat(<<x + (-1), y + (-1)>>) /\ ~ IsThreat(<<x + (1), y + (-1)>>)
      BY <1>5, <2>2
    <3>2. x + (-1) = x - 1 /\ x + (1) = x + 1 /\ y + (-1) = y - 1
      OBVIOUS
    <3> QED
      BY <3>1, <3>2
  <2>5. From(Ahead[i][1], Ahead[i][2]) = <<x, y - 1>>
    <3>1. x + Ahead[i][1] = x /\ y + Ahead[i][2] = y - 1
      BY <2>1
    <3> QED
      BY <1>2, <3>1
  <2>6. Beside(<<x, y - 1>>) = {<<x + 1, y - 1>>, <<x - 1, y - 1>>, <<x, y>>, <<x, y - 2>>}
    BY DEF Beside
  <2> QED
    BY <1>3, <2>3, <2>4, <2>5, <2>6
<1>7. CASE i = 2
  <2>1. Ahead[i][1] = 1 /\ Ahead[i][2] = 0
    BY <1>7 DEF Ahead
  <2>2. <<1, -1>> \in Diagonals[i] /\ <<1, 1>> \in Diagonals[i]
    BY <1>7 DEF Diagonals
  <2>3. ~ IsThreat(<<x + 1, y>>) /\ ~ IsThreat(<<x + 2, y>>)
    <3>1. /\ x + 1 * Ahead[i][1] = x + 1 /\ y + 1 * Ahead[i][2] = y
          /\ x + 2 * Ahead[i][1] = x + 2 /\ y + 2 * Ahead[i][2] = y
      BY <2>1
    <3> QED
      BY <1>4, <3>1
  <2>4. ~ IsThreat(<<x + 1, y - 1>>) /\ ~ IsThreat(<<x + 1, y + 1>>)
    <3>1. ~ IsThreat(<<x + (1), y + (-1)>>) /\ ~ IsThreat(<<x + (1), y + (1)>>)
      BY <1>5, <2>2
    <3>2. x + (1) = x + 1 /\ y + (-1) = y - 1 /\ y + (1) = y + 1
      OBVIOUS
    <3> QED
      BY <3>1, <3>2
  <2>5. From(Ahead[i][1], Ahead[i][2]) = <<x + 1, y>>
    <3>1. x + Ahead[i][1] = x + 1 /\ y + Ahead[i][2] = y
      BY <2>1
    <3> QED
      BY <1>2, <3>1
  <2>6. Beside(<<x + 1, y>>) = {<<x + 2, y>>, <<x, y>>, <<x + 1, y + 1>>, <<x + 1, y - 1>>}
    BY DEF Beside
  <2> QED
    BY <1>3, <2>3, <2>4, <2>5, <2>6
<1>8. CASE i = 4
  <2>1. Ahead[i][1] = -1 /\ Ahead[i][2] = 0
    BY <1>8 DEF Ahead
  <2>2. <<-1, -1>> \in Diagonals[i] /\ <<-1, 1>> \in Diagonals[i]
    BY <1>8 DEF Diagonals
  <2>3. ~ IsThreat(<<x - 1, y>>) /\ ~ IsThreat(<<x - 2, y>>)
    <3>1. /\ x + 1 * Ahead[i][1] = x - 1 /\ y + 1 * Ahead[i][2] = y
          /\ x + 2 * Ahead[i][1] = x - 2 /\ y + 2 * Ahead[i][2] = y
      BY <2>1
    <3> QED
      BY <1>4, <3>1
  <2>4. ~ IsThreat(<<x - 1, y - 1>>) /\ ~ IsThreat(<<x - 1, y + 1>>)
    <3>1. ~ IsThreat(<<x + (-1), y + (-1)>>) /\ ~ IsThreat(<<x + (-1), y + (1)>>)
      BY <1>5, <2>2
    <3>2. x + (-1) = x - 1 /\ y + (-1) = y - 1 /\ y + (1) = y + 1
      OBVIOUS
    <3> QED
      BY <3>1, <3>2
  <2>5. From(Ahead[i][1], Ahead[i][2]) = <<x - 1, y>>
    <3>1. x + Ahead[i][1] = x - 1 /\ y + Ahead[i][2] = y
      BY <2>1
    <3> QED
      BY <1>2, <3>1
  <2>6. Beside(<<x - 1, y>>) = {<<x, y>>, <<x - 2, y>>, <<x - 1, y + 1>>, <<x - 1, y - 1>>}
    BY DEF Beside
  <2> QED
    BY <1>3, <2>3, <2>4, <2>5, <2>6
<1> QED
  BY <1>6, <1>7, <1>8 DEF DOWN

\* A melee unit beside is seen as a danger.
LEMMA BesideIsDanger ==
    ASSUME FightTypeOK, NEW j \in DOMAIN enemies, enemies[j].kind = "melee",
           enemies[j].at \in Beside(self)
    PROVE  \E i \in 1 .. 4 : Danger(i) # 0
<1>1. PICK x \in Int, y \in Int : self = <<x, y>>
  BY CellsAreInts DEF FightTypeOK
<1>2. IsThreat(enemies[j].at)
  BY DEF IsThreat
<1>3. PICK i \in 1 .. 4 : enemies[j].at = From(1 * Ahead[i][1], 1 * Ahead[i][2])
  <2>1. /\ Ahead[1][1] = 0 /\ Ahead[1][2] = -1 /\ Ahead[2][1] = 1 /\ Ahead[2][2] = 0
        /\ Ahead[3][1] = 0 /\ Ahead[3][2] = 1 /\ Ahead[4][1] = -1 /\ Ahead[4][2] = 0
    BY DEF Ahead
  <2>2. Beside(self) = {<<x + 1, y>>, <<x - 1, y>>, <<x, y + 1>>, <<x, y - 1>>}
    BY <1>1 DEF Beside
  <2>3. \A i : From(1 * Ahead[i][1], 1 * Ahead[i][2]) = <<x + 1 * Ahead[i][1], y + 1 * Ahead[i][2]>>
    BY <1>1 DEF From
  <2>4. /\ x + 1 * Ahead[1][1] = x /\ y + 1 * Ahead[1][2] = y - 1
        /\ x + 1 * Ahead[2][1] = x + 1 /\ y + 1 * Ahead[2][2] = y
        /\ x + 1 * Ahead[3][1] = x /\ y + 1 * Ahead[3][2] = y + 1
        /\ x + 1 * Ahead[4][1] = x - 1 /\ y + 1 * Ahead[4][2] = y
    BY <2>1
  <2>5. /\ From(1 * Ahead[1][1], 1 * Ahead[1][2]) = <<x, y - 1>>
        /\ From(1 * Ahead[2][1], 1 * Ahead[2][2]) = <<x + 1, y>>
        /\ From(1 * Ahead[3][1], 1 * Ahead[3][2]) = <<x, y + 1>>
        /\ From(1 * Ahead[4][1], 1 * Ahead[4][2]) = <<x - 1, y>>
    BY <2>3, <2>4
  <2> QED
    BY <2>2, <2>5
<1>4. Danger(i) # 0
  BY <1>2, <1>3, NoDanger
<1> QED
  BY <1>4

\* The first direction of least danger is a direction.
LEMMA SafestIsADirection == Safest \in 1 .. 4
<1> DEFINE danger == [i \in 1 .. 4 |-> Danger(i)]
           IsFirst(i) == \A j \in 1 .. 4 : Danger(i) < Danger(j) \/ (Danger(i) = Danger(j) /\ i <= j)
<1>1. \A i \in 1 .. 4 : danger[i] \in Nat
  BY NoDanger
<1>2. \E i \in 1 .. 4 : \A j \in 1 .. 4 :
         danger[i] < danger[j] \/ (danger[i] = danger[j] /\ i <= j)
  <2> HIDE DEF danger
  <2> QED
    BY <1>1, FirstLeast
<1>3. \E i \in 1 .. 4 : IsFirst(i)
  BY <1>2
<1>4. Safest = CHOOSE i \in 1 .. 4 : IsFirst(i)
  BY DEF Safest
<1> HIDE DEF IsFirst
<1> QED
  BY <1>3, <1>4, Zenon

\* What a unit has been told is what the code tells it of the enemies there are.
Told ==
    \/ command = NoCommand
    \/ /\ command.what = "attack" /\ command.where = Enemy.at
       /\ TooClose /\ Enemy.kind # "ranged" => \A i \in 1 .. 4 : Danger(i) = 0
    \/ command.what = "move" /\ command.where = StepAside

FightInv == FightTypeOK /\ Told

LEMMA SameFight ==
    ASSUME UNCHANGED <<self, ranged, enemies>>
    PROVE  /\ Enemy' = Enemy /\ TooClose' = TooClose /\ StepAside' = StepAside
           /\ \A i \in 1 .. 4 : Danger(i)' = Danger(i)
<1> USE UNCHANGED <<self, ranged, enemies>>
<1>1. ClosestEnemy' = ClosestEnemy
  BY DEF ClosestEnemy
<1>2. Enemy' = Enemy
  BY <1>1 DEF Enemy
<1>3. TooClose' = TooClose
  BY <1>2 DEF TooClose
<1>4. \A i \in 1 .. 4 : Danger(i)' = Danger(i)
  BY DEF Danger, IsThreat, From
<1>5. Safest' = Safest
  BY <1>4 DEF Safest, Danger, IsThreat, From
<1>6. StepAside' = StepAside
  BY <1>5 DEF StepAside, From
<1> QED
  BY <1>2, <1>3, <1>4, <1>6

LEMMA FightInvariant == FightSpec => []FightInv
<1>1. FightInit => FightInv
  BY FightAssumption DEF FightInit, FightInv, FightTypeOK, Told
<1>2. FightInv /\ [FightNext]_fight_vars => FightInv'
  <2> SUFFICES ASSUME FightInv, [FightNext]_fight_vars PROVE FightInv'
    OBVIOUS
  <2>1. UNCHANGED <<self, ranged, enemies>>
    BY DEF FightNext, Attack, Retreat, fight_vars
  <2>2. FightTypeOK'
    BY <2>1 DEF FightInv, FightTypeOK
  <2>3. CASE Attack
    <3>1. command'.what = "attack" /\ command'.where = Enemy.at
      BY <2>3 DEF Attack
    <3>2. TooClose' /\ Enemy'.kind # "ranged" => \A i \in 1 .. 4 : Danger(i)' = 0
      BY <2>1, <2>3, SameFight DEF Attack
    <3> QED
      BY <2>1, <2>2, <3>1, <3>2, SameFight DEF FightInv, Told
  <2>4. CASE Retreat
    <3>1. command'.what = "move" /\ command'.where = StepAside
      BY <2>4 DEF Retreat
    <3> QED
      BY <2>1, <2>2, <3>1, SameFight DEF FightInv, Told
  <2>5. CASE UNCHANGED fight_vars
    <3>1. command' = command
      BY <2>5 DEF fight_vars
    <3> QED
      BY <2>1, <2>2, <3>1, SameFight DEF FightInv, Told
  <2> QED
    BY <2>3, <2>4, <2>5 DEF FightNext
<1> QED
  BY <1>1, <1>2, PTL DEF FightSpec

\* What a unit in a fight is told is sound (armyUnitCommonBehavior()), for every
\* number of enemies, wherever they are: a ranged unit that steps aside to where
\* it sees no danger has no threat beside it, and a unit attacks what is closest,
\* a ranged unit not with a melee unit beside it, unless a ranged one is there too.
THEOREM CommandsAreSound == FightSpec => []CommandIsSound
<1>1. FightInv => StepAsideIsSafe
  <2> SUFFICES ASSUME FightInv, command.what = "move", Safest # DOWN, Danger(Safest) = 0
               PROVE  \A c \in {command.where} \union Beside(command.where) : ~ IsThreat(c)
    BY DEF StepAsideIsSafe
  <2>1. command.where = From(Ahead[Safest][1], Ahead[Safest][2])
    BY DEF FightInv, Told, NoCommand, StepAside
  <2> QED
    BY <2>1, LookedAt, SafestIsADirection DEF FightInv
<1>2. FightInv => AttackIsOnClosest
  <2> SUFFICES ASSUME FightInv, command.what = "attack"
               PROVE  AttackIsOnClosest
    BY DEF AttackIsOnClosest
  <2>1. command.where = Enemy.at
    BY DEF FightInv, Told, NoCommand
  <2>2. TooClose /\ Enemy.kind # "ranged" => \A i \in 1 .. 4 : Danger(i) = 0
    BY DEF FightInv, Told, NoCommand
  <2>3. /\ ClosestEnemy \in DOMAIN enemies
        /\ \A j \in DOMAIN enemies : Manhattan(self, Enemy.at) <= Manhattan(self, enemies[j].at)
    BY ClosestIsClosest DEF FightInv
  <2>4. \E i \in DOMAIN enemies :
          /\ enemies[i].at = command.where
          /\ \A j \in DOMAIN enemies :
               Manhattan(self, command.where) <= Manhattan(self, enemies[j].at)
    BY <2>1, <2>3 DEF Enemy
  <2>5. ASSUME ranged, NEW j \in DOMAIN enemies,
               enemies[j].kind = "melee", enemies[j].at \in Beside(self)
        PROVE  \E k \in DOMAIN enemies : enemies[k].kind = "ranged" /\ enemies[k].at \in Beside(self)
    <3>1. self \in Cells /\ enemies[j].at \in Cells /\ Enemy.at \in Cells /\ Enemy.at # self
      BY <2>3, AnEnemy DEF FightInv, FightTypeOK, Enemy
    <3>2. Manhattan(self, enemies[j].at) = 1
      BY <2>5, <3>1, BesideIsOneStep
    <3>3. Manhattan(self, Enemy.at) <= 1 /\ Manhattan(self, Enemy.at) \in Nat
      BY <2>3, <3>1, <3>2, ManhattanIsNat
    <3>4. Manhattan(self, Enemy.at) # 0
      <4>1. PICK x \in Int, y \in Int, u \in Int, v \in Int : self = <<x, y>> /\ Enemy.at = <<u, v>>
        BY <3>1, CellsAreInts
      <4>2. Manhattan(self, Enemy.at) = Abs(u - x) + Abs(v - y)
        BY <4>1 DEF Manhattan
      <4>3. u # x \/ v # y
        BY <3>1, <4>1
      <4> QED
        BY <4>2, <4>3 DEF Abs
    <3>5. Enemy.at \in Beside(self)
      BY <3>1, <3>3, <3>4, BesideIsOneStep
    <3>6. TooClose
      BY <2>5, <3>3 DEF TooClose
    <3>7. Enemy.kind = "ranged"
      BY <2>2, <2>5, <3>6, BesideIsDanger DEF FightInv
    <3> QED
      BY <2>3, <3>5, <3>7 DEF Enemy
  <2> QED
    BY <2>4, <2>5 DEF AttackIsOnClosest
<1> QED
  BY <1>1, <1>2, FightInvariant, PTL DEF CommandIsSound

-----------------------------------------------------------------------------
(* Workers                                                                 *)

Staff == DOMAIN scan.workers

\* Before the harvest each idle worker is still free, has its job or is on its
\* way to build a base; while a builder is being sent, it is that builder.
Accounted(w) ==
    \/ w \in free_workers
    \/ scan.workers[w].builds = "base"
    \/ JobsOf(w) # {}
    \/ w = builder /\ stage \notin {"base", "barracks"}

\* The job of a builder is still to be given.
BuilderWaits ==
    /\ builder \in Staff \ free_workers
    /\ JobsOf(builder) = {}
    /\ building = IF stage = "base site" THEN "base" ELSE "barracks"
    /\ scan.workers[builder].busy => stage = "base site" /\ IdleWorkers(scan) = {}

\* The jobs that are dealt: one for each worker, none for a busy one unless
\* nobody else could build the base, and no position built on twice.
JobsInv ==
    /\ \A j \in jobs : j.worker \in Staff
    /\ \A i, j \in jobs : i.worker = j.worker => i = j
    /\ \A j \in jobs : scan.workers[j.worker].busy => j.what = "base" /\ IdleWorkers(scan) = {}
    /\ \A i, j \in jobs : i # j /\ Builds(i) /\ Builds(j) => i.where # j.where
    /\ \A j \in jobs : Builds(j) => j.where \in reserved_positions

\* The workers the jobs are still to be dealt to.
HandsInv ==
    /\ free_workers \subseteq IdleWorkers(scan)
    /\ stage # "end" => \A w \in free_workers : JobsOf(w) = {}
    /\ stage = "base" => Staff # {} /\ free_workers = IdleWorkers(scan)
    /\ stage \in {"base", "base site"} => jobs = {} /\ reserved_positions = {}
    /\ stage \in {"base site", "barracks site"} => BuilderWaits
    /\ stage # "end" => \A w \in IdleWorkers(scan) : Accounted(w)
    /\ stage = "end" => \A w \in IdleWorkers(scan) : MayIdle(w) \/ JobsOf(w) # {}

DealInv == scan \in Frames /\ JobsInv /\ HandsInv

LEMMA FrameFacts ==
    ASSUME scan \in Frames
    PROVE  /\ Len(scan.workers) \in Nat /\ Staff = 1 .. Len(scan.workers)
           /\ IdleWorkers(scan) \subseteq Staff
           /\ \A w \in Staff : scan.workers[w].busy \in BOOLEAN
           /\ \A w \in Staff : At(w) \in Cells
           /\ Len(scan.patches) \in Nat /\ DOMAIN scan.patches = 1 .. Len(scan.patches)
           /\ Range(scan.patches) \subseteq Cells
           /\ (scan.workers = <<>> => Staff = {}) /\ (scan.workers # <<>> => Staff # {})
<1> DEFINE Worker == [at : Cells, busy : BOOLEAN, carries : BOOLEAN,
                      builds : {"nothing", "base", "barracks"}]
<1>1. scan.workers \in Seq(Worker) /\ scan.patches \in Seq(Cells)
  BY WorkersAssumption
<1>2. /\ Len(scan.workers) \in Nat /\ Staff = 1 .. Len(scan.workers)
      /\ \A w \in Staff : scan.workers[w] \in Worker
      /\ (scan.workers = <<>> => Staff = {}) /\ (scan.workers # <<>> => Staff # {})
  <2> HIDE DEF Worker
  <2>1. Len(scan.workers) \in Nat /\ Staff = 1 .. Len(scan.workers)
    BY <1>1, LenProperties DEF Staff
  <2>2. \A w \in Staff : scan.workers[w] \in Worker
    BY <1>1, <2>1, ElementOfSeq
  <2>3. (scan.workers = <<>> => Len(scan.workers) = 0)
        /\ (scan.workers # <<>> => Len(scan.workers) # 0)
    BY <1>1, EmptySeq
  <2> QED
    BY <2>1, <2>2, <2>3
<1>3. /\ Len(scan.patches) \in Nat /\ DOMAIN scan.patches = 1 .. Len(scan.patches)
      /\ Range(scan.patches) \subseteq Cells
  <2>1. Len(scan.patches) \in Nat /\ DOMAIN scan.patches = 1 .. Len(scan.patches)
    BY <1>1, LenProperties
  <2>2. \A i \in DOMAIN scan.patches : scan.patches[i] \in Cells
    BY <1>1, <2>1, ElementOfSeq
  <2> QED
    BY <2>1, <2>2 DEF Range
<1>4. \A w \in Staff : scan.workers[w].busy \in BOOLEAN /\ At(w) \in Cells
  BY <1>2 DEF At
<1>5. IdleWorkers(scan) \subseteq Staff
  BY DEF IdleWorkers, Staff
<1> QED
  BY <1>2, <1>3, <1>4, <1>5

\* What telling a worker to build does to the jobs.
LEMMA BuildingIsDealt ==
    ASSUME JobsInv, scan' = scan, NEW b \in Staff, JobsOf(b) = {},
           NEW type \in {"base", "barracks"},
           scan.workers[b].busy => type = "base" /\ IdleWorkers(scan) = {},
           BuildIfNotAlreadyBuilding(b, type)
    PROVE  /\ JobsInv'
           /\ \A w : w # b => JobsOf(w)' = JobsOf(w)
           /\ JobsOf(b)' # {} \/ scan.workers[b].builds = type \/ Sites = {}
<1>1. CASE scan.workers[b].builds = type \/ Sites = {}
  <2>1. UNCHANGED <<jobs, reserved_positions>>
    BY <1>1 DEF BuildIfNotAlreadyBuilding
  <2> QED
    BY <1>1, <2>1 DEF JobsInv, JobsOf, Staff
<1>2. CASE ~ (scan.workers[b].builds = type \/ Sites = {})
  <2>1. PICK site \in Sites :
           /\ jobs' = jobs \union {Job(b, type, site)}
           /\ reserved_positions' = reserved_positions \union {site}
    BY <1>2 DEF BuildIfNotAlreadyBuilding
  <2>2. site \notin reserved_positions
    BY DEF Sites
  <2> DEFINE new == Job(b, type, site)
  <2>3. new.worker = b /\ new.what = type /\ new.where = site /\ Builds(new)
    BY DEF Job, Builds
  <2> HIDE DEF new
  <2>4. jobs' = jobs \union {new}
    BY <2>1 DEF new
  <2>5. \A j \in jobs : j.worker # b
    BY DEF JobsOf
  <2>6. \A j \in jobs : Builds(j) => j.where # site
    BY <2>2 DEF JobsInv
  <2>7. JobsInv'
    <3>1. \A j \in jobs' : j.worker \in Staff
      BY <2>3, <2>4 DEF JobsInv
    <3>2. \A i, j \in jobs' : i.worker = j.worker => i = j
      BY <2>3, <2>4, <2>5 DEF JobsInv
    <3>3. \A j \in jobs' : scan.workers[j.worker].busy => j.what = "base" /\ IdleWorkers(scan) = {}
      BY <2>3, <2>4 DEF JobsInv
    <3>4. \A i, j \in jobs' : i # j /\ Builds(i) /\ Builds(j) => i.where # j.where
      BY <2>3, <2>4, <2>6 DEF JobsInv
    <3>5. \A j \in jobs' : Builds(j) => j.where \in reserved_positions'
      BY <2>1, <2>3, <2>4 DEF JobsInv
    <3> QED
      BY <3>1, <3>2, <3>3, <3>4, <3>5 DEF JobsInv, Staff, Builds
  <2>8. \A w : w # b => JobsOf(w)' = JobsOf(w)
    BY <2>3, <2>4 DEF JobsOf
  <2>9. new \in JobsOf(b)'
    BY <2>3, <2>4 DEF JobsOf
  <2> QED
    BY <2>7, <2>8, <2>9
<1> QED
  BY <1>1, <1>2

LEMMA BuilderIsFree ==
    ASSUME scan \in Frames, free_workers \subseteq IdleWorkers(scan), free_workers # {}
    PROVE  Min(free_workers) \in free_workers /\ BarracksBuilder \in free_workers
<1>1. free_workers \in SUBSET (1 .. Len(scan.workers)) /\ Len(scan.workers) \in Nat
  BY FrameFacts
<1>2. free_workers \in SUBSET Nat
  BY <1>1
<1>3. Min(free_workers) \in free_workers
  BY <1>2, MinOfNats
<1>4. Max(free_workers) \in free_workers
  BY <1>1, MaxOfNats
<1> QED
  BY <1>3, <1>4 DEF BarracksBuilder

\* What a loop for the closest holds: nothing yet, or one of those it looks at and
\* its distance.
Spots == [distance : Int, place : Cells \union {Nowhere}]

IsSpot(c, among, b) ==
    /\ b \in Spots
    /\ b.place = Nowhere => b = NothingYet
    /\ b.place # Nowhere => b.place \in among /\ b.distance = Manhattan(c, b.place)

LEMMA PlacesAreNotTooFar ==
    ASSUME NEW c \in Cells, NEW d \in Cells
    PROVE  Manhattan(c, d) \in Int /\ Manhattan(c, d) < TooFar /\ TooFar \in Int
<1>1. /\ c[1] \in 0 .. Width - 1 /\ c[2] \in 0 .. Height - 1
      /\ d[1] \in 0 .. Width - 1 /\ d[2] \in 0 .. Height - 1
  BY DEF Cells
<1>2. /\ Abs(d[1] - c[1]) \in Int /\ Abs(d[1] - c[1]) < Width
      /\ Abs(d[2] - c[2]) \in Int /\ Abs(d[2] - c[2]) < Height
  BY <1>1, GridAssumption DEF Abs
<1> QED
  BY <1>2, GridAssumption DEF Manhattan, TooFar

LEMMA CompareIsSpot ==
    ASSUME NEW c \in Cells, NEW among, NEW b, IsSpot(c, among, b), NEW p \in Cells
    PROVE  /\ IsSpot(c, among, Compare(c, among, b, p))
           /\ Compare(c, among, b, p).distance <= b.distance
           /\ p \in among => Compare(c, among, b, p).distance <= Manhattan(c, p)
<1>1. PICK d \in Int : d = Manhattan(c, p) /\ d < TooFar
  BY PlacesAreNotTooFar
<1>2. b \in Spots /\ b.distance \in Int
  BY DEF IsSpot, Spots
<1>3. p # Nowhere
  BY GridAssumption DEF Cells, Nowhere
<1>4. CASE p \in among /\ d < b.distance
  <2>1. PICK e : e = [distance |-> d, place |-> p]
    OBVIOUS
  <2>2. e = Compare(c, among, b, p)
    BY <1>1, <1>4, <2>1 DEF Compare
  <2>3. e \in Spots /\ e.distance = d /\ e.place = p
    BY <2>1 DEF Spots
  <2>4. IsSpot(c, among, e)
    BY <1>1, <1>3, <1>4, <2>3 DEF IsSpot
  <2> QED
    BY <1>1, <1>2, <1>4, <2>2, <2>3, <2>4
<1>5. CASE ~ (p \in among /\ d < b.distance)
  <2>1. Compare(c, among, b, p) = b
    BY <1>1, <1>5 DEF Compare
  <2> QED
    BY <1>1, <1>2, <1>5, <2>1
<1> QED
  BY <1>4, <1>5

\* The function that a loop iterates.
Spotting(c, list, among, g) ==
    g = [s \in SUBSET (DOMAIN list) |->
           IF s = {} THEN NothingYet
           ELSE Compare(c, among, g[s \ {Max(s)}], list[Max(s)])]

LEMMA SpotIsSpotted ==
    ASSUME NEW c, NEW list, NEW among
    PROVE  Spot(c, list, among, NothingYet) = (CHOOSE g : Spotting(c, list, among, g))[DOMAIN list]
  BY DEF Spot, FoldLeft, MapThenFoldSet, Spotting

\* A loop finds one that no other is closer than.
LEMMA SpotIsNearest ==
    ASSUME NEW c \in Cells, NEW list \in Seq(Cells), NEW among
    PROVE  /\ IsSpot(c, among, Spot(c, list, among, NothingYet))
           /\ \A i \in DOMAIN list : list[i] \in among =>
                Spot(c, list, among, NothingYet).distance <= Manhattan(c, list[i])
<1> DEFINE Spotted == {b \in Spots : IsSpot(c, among, b)}
<1>0. \A b : b \in Spotted <=> IsSpot(c, among, b)
  BY DEF IsSpot
<1>1. PICK n \in Nat : n = Len(list)
  BY LenProperties
<1>2. DOMAIN list = 1 .. n /\ \A i \in 1 .. n : list[i] \in Cells
  BY <1>1, LenProperties, ElementOfSeq
<1>3. NothingYet \in Spotted
  <2>1. TooFar \in Int
    BY GridAssumption DEF TooFar
  <2> QED
    BY <2>1 DEF NothingYet, Spots, IsSpot
<1> HIDE DEF Spotted
<1>4. PICK g : Spotting(c, list, among, g) /\ Spot(c, list, among, NothingYet) = g[1 .. n]
  <2> DEFINE stepping == [p \in Spotted \X (1 .. n) |-> Compare(c, among, p[1], list[p[2]])]
  <2>1. \A b \in Spotted, i \in 1 .. n : stepping[<<b, i>>] = Compare(c, among, b, list[i])
    OBVIOUS
  <2>2. \A b \in Spotted, i \in 1 .. n : Compare(c, among, b, list[i]) \in Spotted
    BY <1>0, <1>2, CompareIsSpot
  <2>3. \A b \in Spotted, i \in 1 .. n : stepping[<<b, i>>] \in Spotted
    BY <2>1, <2>2
  <2> HIDE DEF stepping
  <2>4. PICK h : Folds(h, n, Spotted, NothingYet, stepping)
    BY <1>3, <2>3, FoldExists
  <2>5. ASSUME NEW s \in SUBSET (1 .. n)
        PROVE  h[s] = IF s = {} THEN NothingYet
                      ELSE Compare(c, among, h[s \ {Max(s)}], list[Max(s)])
    <3>1. s # {} => Max(s) \in 1 .. n
      BY MaxOfNats
    <3>2. h[s \ {Max(s)}] \in Spotted
      BY <2>4 DEF Folds
    <3>3. h[s] = IF s = {} THEN NothingYet ELSE stepping[<<h[s \ {Max(s)}], Max(s)>>]
      BY <2>4 DEF Folds
    <3> QED
      BY <2>1, <3>1, <3>2, <3>3
  <2>6. h = [s \in SUBSET (1 .. n) |-> h[s]]
    BY <2>4 DEF Folds
  <2>7. Spotting(c, list, among, h)
    <3> DEFINE k == [s \in SUBSET (1 .. n) |->
                       IF s = {} THEN NothingYet
                       ELSE Compare(c, among, h[s \ {Max(s)}], list[Max(s)])]
    <3>1. \A s \in SUBSET (1 .. n) : h[s] = k[s]
      BY <2>5
    <3>2. h = k
      BY <2>6, <3>1
    <3> QED
      BY <3>2, <1>2 DEF Spotting
  <2>8. Spotting(c, list, among, CHOOSE q : Spotting(c, list, among, q))
    BY <2>7
  <2> QED
    BY <2>8, <1>2, SpotIsSpotted
<1>5. /\ g[{}] = NothingYet
      /\ \A k \in 1 .. n : g[1 .. k] = Compare(c, among, g[1 .. k - 1], list[k])
  <2>1. ASSUME NEW s \in SUBSET (1 .. n)
        PROVE  g[s] = IF s = {} THEN NothingYet
                      ELSE Compare(c, among, g[s \ {Max(s)}], list[Max(s)])
    <3> DEFINE k == [t \in SUBSET (1 .. n) |->
                       IF t = {} THEN NothingYet
                       ELSE Compare(c, among, g[t \ {Max(t)}], list[Max(t)])]
    <3>1. g = k
      BY <1>4, <1>2 DEF Spotting
    <3>2. g[s] = k[s]
      BY <3>1
    <3> QED
      BY <3>2
  <2>2. ASSUME NEW k \in 1 .. n PROVE g[1 .. k] = Compare(c, among, g[1 .. k - 1], list[k])
    <3>0. k \in Int /\ 1 <= k /\ k <= n
      OBVIOUS
    <3>a. k \in 1 .. k /\ \A i \in 1 .. k : i \in 1 .. n
      BY <3>0
    <3>1. 1 .. k \in SUBSET (1 .. n) /\ 1 .. k # {} /\ k \in 1 .. k
      BY <3>a
    <3>2. Max(1 .. k) \in 1 .. k /\ Max(1 .. k) >= k
      BY <3>1, MaxOfNats
    <3>3. Max(1 .. k) = k
      BY <3>2
    <3>4. (1 .. k) \ {k} = 1 .. k - 1
      OBVIOUS
    <3> QED
      BY <2>1, <3>1, <3>3, <3>4
  <2> QED
    BY <2>1, <2>2
<1> DEFINE Bad == {k \in 0 .. n :
                     ~ /\ IsSpot(c, among, g[1 .. k])
                       /\ \A i \in 1 .. k : list[i] \in among =>
                             g[1 .. k].distance <= Manhattan(c, list[i])}
<1>6. Bad = {}
  <2> SUFFICES ASSUME Bad # {} PROVE FALSE
    OBVIOUS
  <2>1. PICK k \in Bad : \A j \in Bad : k <= j
    <3>1. Bad \in SUBSET Nat
      OBVIOUS
    <3> HIDE DEF Bad
    <3> QED
      BY <3>1, LeastNat
  <2>2. k # 0
    <3>1. 1 .. 0 = {}
      OBVIOUS
    <3>2. IsSpot(c, among, g[1 .. 0])
      BY <1>0, <1>3, <1>5, <3>1
    <3> QED
      BY <3>1, <3>2
  <2>3. k \in 1 .. n /\ k - 1 \in 0 .. n /\ ~ (k <= k - 1)
    BY <2>2
  <2>4. k - 1 \notin Bad
    BY <2>1, <2>3
  <2>5. PICK b : b = g[1 .. k - 1]
    OBVIOUS
  <2>6. /\ IsSpot(c, among, b)
        /\ \A i \in 1 .. k - 1 : list[i] \in among => b.distance <= Manhattan(c, list[i])
    BY <2>3, <2>4, <2>5
  <2>7. PICK e : e = Compare(c, among, b, list[k]) /\ e = g[1 .. k]
    BY <1>5, <2>3, <2>5
  <2>8. /\ IsSpot(c, among, e) /\ e.distance <= b.distance
        /\ list[k] \in among => e.distance <= Manhattan(c, list[k])
    <3>1. PICK p \in Cells : p = list[k]
      BY <1>2, <2>3
    <3>2. e = Compare(c, among, b, p)
      BY <2>7, <3>1
    <3> QED
      BY <2>6, <3>1, <3>2, CompareIsSpot
  <2>9. \A i \in 1 .. k : list[i] \in among => e.distance <= Manhattan(c, list[i])
    <3> SUFFICES ASSUME NEW i \in 1 .. k, list[i] \in among
                 PROVE  e.distance <= Manhattan(c, list[i])
      OBVIOUS
    <3>1. list[i] \in Cells
      BY <1>2, <2>3
    <3>2. Manhattan(c, list[i]) \in Int
      BY <3>1, PlacesAreNotTooFar
    <3>3. e.distance \in Int /\ b.distance \in Int
      BY <2>6, <2>8 DEF IsSpot, Spots
    <3>4. i = k \/ i \in 1 .. k - 1
      BY <2>3
    <3> QED
      BY <2>6, <2>8, <3>2, <3>3, <3>4
  <2> QED
    BY <2>1, <2>7, <2>8, <2>9
<1>7. PICK b : b = g[1 .. n]
  OBVIOUS
<1>8. /\ IsSpot(c, among, b)
      /\ \A i \in 1 .. n : list[i] \in among => b.distance <= Manhattan(c, list[i])
  BY <1>6, <1>7
<1> QED
  BY <1>2, <1>4, <1>7, <1>8

\* If there are any of those it looks at, a loop finds one of the closest; if there
\* are none, it leaves closest_distance as it was.
LEMMA SpotFinds ==
    ASSUME NEW c \in Cells, NEW list \in Seq(Cells), NEW among \in SUBSET Range(list)
    PROVE  /\ among = {} => Spot(c, list, among, NothingYet) = NothingYet
           /\ among # {} =>
                /\ Spot(c, list, among, NothingYet).place # Nowhere
                /\ IsNearest(c, Spot(c, list, among, NothingYet).place, among)
<1>1. PICK b : b = Spot(c, list, among, NothingYet)
  OBVIOUS
<1>2. /\ IsSpot(c, among, b)
      /\ \A i \in DOMAIN list : list[i] \in among => b.distance <= Manhattan(c, list[i])
  BY <1>1, SpotIsNearest
<1>3. \A p \in among : p \in Cells /\ b.distance <= Manhattan(c, p)
  <2> TAKE p \in among
  <2>1. PICK i \in DOMAIN list : list[i] = p
    BY DEF Range
  <2>2. list[i] \in Cells
    BY LenProperties, ElementOfSeq
  <2> QED
    BY <1>2, <2>1, <2>2
<1>4. CASE among = {}
  BY <1>1, <1>2, <1>4 DEF IsSpot
<1>5. CASE among # {}
  <2>1. PICK p \in among : p \in Cells /\ b.distance <= Manhattan(c, p)
    BY <1>3, <1>5
  <2>2. Manhattan(c, p) \in Int /\ Manhattan(c, p) < TooFar /\ TooFar \in Int
    BY <2>1, PlacesAreNotTooFar
  <2>3. b.place # Nowhere
    <3> SUFFICES ASSUME b.place = Nowhere PROVE FALSE
      OBVIOUS
    <3>1. b.distance = TooFar
      BY <1>2 DEF IsSpot, NothingYet
    <3> QED
      BY <2>1, <2>2, <3>1
  <2>4. b.place \in among /\ b.distance = Manhattan(c, b.place)
    BY <1>2, <2>3 DEF IsSpot
  <2> QED
    BY <1>1, <1>3, <1>5, <2>3, <2>4 DEF IsNearest
<1> QED
  BY <1>4, <1>5

\* A worker finds a patch if there is any, near my bases if one is, and a base if
\* there is any, and each is one of the closest to it.
LEMMA WorkerFinds ==
    ASSUME scan \in Frames, NEW w \in Staff
    PROVE  /\ SpotPatch(w).place # Nowhere <=> Choice # {}
           /\ Choice # {} => IsNearest(At(w), SpotPatch(w).place, Choice)
           /\ SpotBase(w).place # Nowhere <=> scan.bases # <<>>
           /\ scan.bases # <<>> => IsNearest(At(w), SpotBase(w).place, Range(scan.bases))
           /\ Choice # {} => scan.patches # <<>>
<1>1. At(w) \in Cells /\ scan.patches \in Seq(Cells) /\ scan.bases \in Seq(Cells)
  BY FrameFacts, WorkersAssumption
<1>2. MyPatches \in SUBSET Range(scan.patches)
  BY DEF MyPatches
<1>3. NothingYet.place = Nowhere
  BY DEF NothingYet
<1>4. \A list \in Seq(Cells) : list = <<>> <=> Range(list) = {}
  <2> TAKE list \in Seq(Cells)
  <2>1. list = <<>> \/ Len(list) \in Nat \ {0}
    BY EmptySeq
  <2>2. DOMAIN list = 1 .. Len(list)
    BY LenProperties
  <2>3. \A n \in Nat \ {0} : 1 \in 1 .. n
    OBVIOUS
  <2>4. list # <<>> => DOMAIN list # {}
    BY <2>1, <2>2, <2>3
  <2> QED
    BY <2>4 DEF Range
<1>5. /\ SpotBase(w).place # Nowhere <=> scan.bases # <<>>
      /\ scan.bases # <<>> => IsNearest(At(w), SpotBase(w).place, Range(scan.bases))
  BY <1>1, <1>3, <1>4, SpotFinds DEF SpotBase
<1>6. CASE MyPatches # {}
  <2>1. SpotMine(w).place # Nowhere /\ IsNearest(At(w), SpotMine(w).place, MyPatches)
    BY <1>1, <1>2, <1>6, SpotFinds DEF SpotMine
  <2>2. SpotPatch(w) = SpotMine(w) /\ Choice = MyPatches
    BY <1>6, <2>1 DEF SpotPatch, Choice
  <2>3. scan.patches # <<>>
    BY <1>1, <1>2, <1>4, <1>6
  <2> QED
    BY <1>5, <1>6, <2>1, <2>2, <2>3
<1>7. CASE MyPatches = {}
  <2>1. SpotMine(w) = NothingYet
    BY <1>1, <1>2, <1>7, SpotFinds DEF SpotMine
  <2>2. SpotPatch(w) = Spot(At(w), scan.patches, Range(scan.patches), NothingYet)
    BY <1>3, <2>1 DEF SpotPatch
  <2>3. Choice = Range(scan.patches)
    BY <1>7 DEF Choice
  <2>4. /\ SpotPatch(w).place # Nowhere <=> Range(scan.patches) # {}
        /\ Range(scan.patches) # {} =>
             IsNearest(At(w), SpotPatch(w).place, Range(scan.patches))
    BY <1>1, <1>3, <2>2, SpotFinds
  <2>5. scan.patches = <<>> <=> Range(scan.patches) = {}
    BY <1>1, <1>4
  <2> QED
    BY <1>5, <2>3, <2>4, <2>5
<1> QED
  BY <1>6, <1>7

\* A worker is told what to harvest, what to go to, to search, or nothing.
LEMMA HarvestJobs ==
    ASSUME NEW w
    PROVE  /\ \A j \in HarvestJob(w) : j.worker = w /\ ~ Builds(j)
           /\ \A i, j \in HarvestJob(w) : i = j
           /\ HarvestJob(w) = {} => SpotPatch(w).place # Nowhere /\ SpotBase(w).place = Nowhere
<1>1. \/ HarvestJob(w) = {} /\ SpotPatch(w).place # Nowhere /\ SpotBase(w).place = Nowhere
      \/ \E what \in {"search", "move"} : \E where : HarvestJob(w) = {Job(w, what, where)}
      \/ \E patch, home : HarvestJob(w) = {HarvestFor(w, patch, home)}
  BY DEF HarvestJob
<1>2. \A what \in {"search", "move"} : \A where :
         Job(w, what, where).worker = w /\ ~ Builds(Job(w, what, where))
  BY DEF Job, Builds
<1>3. \A patch, home :
         HarvestFor(w, patch, home).worker = w /\ ~ Builds(HarvestFor(w, patch, home))
  BY DEF HarvestFor, Builds
<1> QED
  BY <1>1, <1>2, <1>3

LEMMA PlanBaseDeals ==
    ASSUME DealInv, PlanBase PROVE DealInv'
<1>1. /\ stage = "base" /\ stage' = "base site" /\ building' = "base"
      /\ UNCHANGED <<scan, reserved_positions, jobs>>
      /\ builder' = IF free_workers = {} THEN 1 ELSE Min(free_workers)
      /\ free_workers' = free_workers \ {builder'}
  BY DEF PlanBase
<1>2. /\ scan \in Frames /\ Staff # {} /\ free_workers = IdleWorkers(scan)
      /\ jobs = {} /\ reserved_positions = {}
  BY <1>1 DEF DealInv, HandsInv
<1>3. builder' \in Staff /\ (builder' \in IdleWorkers(scan) \/ IdleWorkers(scan) = {})
  <2>1. CASE free_workers = {}
    <3>1. 1 \in Staff
      BY <1>2, FrameFacts
    <3>2. builder' = 1
      BY <1>1, <2>1
    <3> QED
      BY <1>2, <2>1, <3>1, <3>2
  <2>2. CASE free_workers # {}
    BY <1>1, <1>2, <2>2, BuilderIsFree, FrameFacts
  <2> QED
    BY <2>1, <2>2
<1>4. BuilderWaits'
  <2>1. scan.workers[builder'].busy => IdleWorkers(scan) = {}
    BY <1>3 DEF IdleWorkers
  <2> QED
    BY <1>1, <1>2, <1>3, <2>1 DEF BuilderWaits, Staff, JobsOf
<1>5. JobsInv'
  BY <1>1, <1>2 DEF JobsInv
<1>6. HandsInv'
  <2>1. free_workers' \subseteq IdleWorkers(scan')
    BY <1>1, <1>2
  <2>2. \A w \in free_workers' : JobsOf(w)' = {}
    BY <1>1, <1>2 DEF JobsOf
  <2>3. \A w \in IdleWorkers(scan') : Accounted(w)'
    BY <1>1, <1>2 DEF Accounted
  <2> QED
    BY <1>1, <1>2, <1>4, <2>1, <2>2, <2>3 DEF HandsInv
<1> QED
  BY <1>1, <1>2, <1>5, <1>6 DEF DealInv

LEMMA BuildDeals ==
    ASSUME DealInv, Build PROVE DealInv'
<1>1. /\ stage \in {"base site", "barracks site"}
      /\ stage' = IF stage = "base site" THEN "barracks" ELSE "harvest"
      /\ UNCHANGED <<scan, free_workers, builder, building, occupied>>
      /\ BuildIfNotAlreadyBuilding(builder, building)
      /\ Found
  BY DEF Build, search_vars
<1>2. BuilderWaits /\ JobsInv /\ scan \in Frames
  BY <1>1 DEF DealInv, HandsInv
<1>3. /\ JobsInv'
      /\ \A w : w # builder => JobsOf(w)' = JobsOf(w)
      /\ JobsOf(builder)' # {} \/ scan.workers[builder].builds = building \/ Sites = {}
  <2>1. building \in {"base", "barracks"}
    BY <1>2 DEF BuilderWaits
  <2>2. builder \in Staff /\ JobsOf(builder) = {}
        /\ (scan.workers[builder].busy => building = "base" /\ IdleWorkers(scan) = {})
    BY <1>2 DEF BuilderWaits
  <2> QED
    BY <1>1, <1>2, <2>1, <2>2, BuildingIsDealt
<1>4. stage = "base site" => Sites # {}
  <2>1. Found => place \in Cells \ occupied
    BY DEF Found, Room, FreeAround
  <2>2. stage = "base site" => reserved_positions = {}
    BY DEF DealInv, HandsInv
  <2> QED
    BY <1>1, <2>1, <2>2 DEF Sites
<1>5. \A w \in IdleWorkers(scan) : Accounted(w)'
  <2> SUFFICES ASSUME NEW w \in IdleWorkers(scan) PROVE Accounted(w)'
    OBVIOUS
  <2>1. Accounted(w)
    BY <1>1 DEF DealInv, HandsInv
  <2>2. CASE w # builder
    BY <1>1, <1>3, <2>1, <2>2 DEF Accounted
  <2>3. CASE w = builder /\ stage = "base site"
    <3>1. JobsOf(w)' # {} \/ scan.workers[w].builds = "base"
      <4>1. building = "base"
        BY <1>2, <2>3 DEF BuilderWaits
      <4>2. Sites # {}
        BY <1>4, <2>3
      <4>3. JobsOf(builder)' = JobsOf(w)'
        BY <1>1, <2>3 DEF JobsOf
      <4> QED
        BY <1>3, <2>3, <4>1, <4>2, <4>3, Zenon
    <3> QED
      BY <1>1, <3>1 DEF Accounted
  <2>4. CASE w = builder /\ stage = "barracks site"
    BY <1>1, <2>4 DEF Accounted
  <2> QED
    BY <1>1, <2>2, <2>3, <2>4
<1>6. \A w \in free_workers : JobsOf(w)' = {}
  BY <1>1, <1>2, <1>3 DEF DealInv, HandsInv, BuilderWaits
<1>7. HandsInv'
  <2>1. free_workers' \subseteq IdleWorkers(scan')
    BY <1>1 DEF DealInv, HandsInv
  <2>2. stage' \notin {"base", "base site", "barracks site", "end"}
    BY <1>1
  <2> QED
    BY <1>1, <1>5, <1>6, <2>1, <2>2 DEF HandsInv
<1> QED
  BY <1>1, <1>2, <1>3, <1>7 DEF DealInv

LEMMA PlanBarracksDeals ==
    ASSUME DealInv, PlanBarracks PROVE DealInv'
<1>1. /\ stage = "barracks" /\ stage' = "barracks site" /\ building' = "barracks"
      /\ UNCHANGED <<scan, reserved_positions, jobs>>
      /\ free_workers # {}
      /\ builder' = BarracksBuilder /\ free_workers' = free_workers \ {builder'}
  BY DEF PlanBarracks, NeedsBarracks
<1>2. /\ scan \in Frames /\ JobsInv /\ free_workers \subseteq IdleWorkers(scan)
      /\ \A w \in free_workers : JobsOf(w) = {}
      /\ \A w \in IdleWorkers(scan) : Accounted(w)
  BY <1>1 DEF DealInv, HandsInv
<1>3. builder' \in free_workers
  BY <1>1, <1>2, BuilderIsFree
<1>4. BuilderWaits'
  <2>1. builder' \in Staff /\ ~ scan.workers[builder'].busy
    BY <1>2, <1>3 DEF IdleWorkers, Staff
  <2>2. JobsOf(builder)' = {}
    BY <1>1, <1>2, <1>3 DEF JobsOf
  <2> QED
    BY <1>1, <2>1, <2>2 DEF BuilderWaits, Staff
<1>5. JobsInv'
  BY <1>1, <1>2 DEF JobsInv, Staff
<1>6. HandsInv'
  <2>1. free_workers' \subseteq IdleWorkers(scan')
    BY <1>1, <1>2
  <2>2. \A w \in free_workers' : JobsOf(w)' = {}
    BY <1>1, <1>2 DEF JobsOf
  <2>3. \A w \in IdleWorkers(scan') : Accounted(w)'
    BY <1>1, <1>2 DEF Accounted, JobsOf
  <2> QED
    BY <1>1, <1>4, <2>1, <2>2, <2>3 DEF HandsInv
<1> QED
  BY <1>1, <1>2, <1>5, <1>6 DEF DealInv

LEMMA BuildHereDeals ==
    ASSUME DealInv, BuildHere PROVE DealInv'
<1>1. /\ stage = "barracks" /\ stage' = "harvest"
      /\ scan' = scan /\ free_workers # {}
      /\ builder' = BarracksBuilder /\ free_workers' = free_workers \ {builder'}
      /\ BuildIfNotAlreadyBuilding(BarracksBuilder, "barracks")
  BY DEF BuildHere, NeedsBarracks
<1>2. /\ scan \in Frames /\ JobsInv /\ free_workers \subseteq IdleWorkers(scan)
      /\ \A w \in free_workers : JobsOf(w) = {}
      /\ \A w \in IdleWorkers(scan) : Accounted(w)
  BY <1>1 DEF DealInv, HandsInv
<1>3. PICK b \in free_workers : b = BarracksBuilder
  BY <1>1, <1>2, BuilderIsFree
<1>4. /\ JobsInv'
      /\ \A w : w # b => JobsOf(w)' = JobsOf(w)
  <2>1. b \in Staff /\ ~ scan.workers[b].busy /\ JobsOf(b) = {}
    BY <1>2 DEF IdleWorkers, Staff
  <2>2. BuildIfNotAlreadyBuilding(b, "barracks")
    BY <1>1, <1>3
  <2> QED
    BY <1>1, <1>2, <2>1, <2>2, BuildingIsDealt
<1>5. HandsInv'
  <2>1. free_workers' \subseteq IdleWorkers(scan')
    BY <1>1, <1>2
  <2>2. \A w \in free_workers' : JobsOf(w)' = {}
    BY <1>1, <1>2, <1>3, <1>4
  <2>3. \A w \in IdleWorkers(scan') : Accounted(w)'
    <3> SUFFICES ASSUME NEW w \in IdleWorkers(scan) PROVE Accounted(w)'
      BY <1>1
    <3>1. CASE w = b
      BY <1>1, <1>3, <3>1 DEF Accounted
    <3>2. CASE w # b
      <4>1. Accounted(w) /\ JobsOf(w)' = JobsOf(w)
        BY <1>2, <1>4, <3>2
      <4> QED
        BY <1>1, <1>3, <3>2, <4>1 DEF Accounted
    <3> QED
      BY <3>1, <3>2
  <2> QED
    BY <1>1, <2>1, <2>2, <2>3 DEF HandsInv
<1> QED
  BY <1>1, <1>2, <1>4, <1>5 DEF DealInv

LEMMA HarvestDeals ==
    ASSUME DealInv, Harvest PROVE DealInv'
<1>1. /\ stage = "harvest" /\ stage' = "end"
      /\ UNCHANGED <<scan, free_workers, builder, reserved_positions>>
      /\ jobs' = jobs \union UNION {HarvestJob(w) : w \in free_workers}
  BY DEF Harvest
<1>2. /\ scan \in Frames /\ JobsInv /\ free_workers \subseteq IdleWorkers(scan)
      /\ \A w \in free_workers : JobsOf(w) = {}
      /\ \A w \in IdleWorkers(scan) : Accounted(w)
  BY <1>1 DEF DealInv, HandsInv
<1>3. \A j \in jobs' : j \in jobs \/ (\E w \in free_workers : j \in HarvestJob(w))
  BY <1>1
<1>4. \A j \in jobs : j.worker \notin free_workers
  BY <1>2 DEF JobsOf
<1>5. \A w \in free_workers : w \in Staff /\ ~ scan.workers[w].busy
  BY <1>2 DEF IdleWorkers, Staff
<1>6. JobsInv'
  <2>1. \A j \in jobs' : j.worker \in Staff
    BY <1>2, <1>3, <1>5, HarvestJobs DEF JobsInv
  <2>2. \A i, j \in jobs' : i.worker = j.worker => i = j
    BY <1>2, <1>3, <1>4, HarvestJobs DEF JobsInv
  <2>3. \A j \in jobs' : scan.workers[j.worker].busy => j.what = "base" /\ IdleWorkers(scan) = {}
    BY <1>2, <1>3, <1>5, HarvestJobs DEF JobsInv
  <2>4. \A j \in jobs' : Builds(j) => j \in jobs
    BY <1>3, HarvestJobs
  <2> QED
    BY <1>1, <1>2, <2>1, <2>2, <2>3, <2>4 DEF JobsInv, Staff, Builds
<1>7. \A w \in IdleWorkers(scan) : MayIdle(w)' \/ JobsOf(w)' # {}
  <2> SUFFICES ASSUME NEW w \in IdleWorkers(scan), ~ MayIdle(w)' PROVE JobsOf(w)' # {}
    OBVIOUS
  <2>1. /\ w # builder /\ scan.workers[w].builds # "base"
        /\ ~ (scan.bases = <<>> /\ scan.patches # <<>>)
    BY <1>1 DEF MayIdle
  <2>2. w \in free_workers \/ JobsOf(w) # {}
    BY <1>2, <2>1 DEF Accounted
  <2>3. CASE JobsOf(w) # {}
    BY <1>1, <2>3 DEF JobsOf
  <2>4. CASE w \in free_workers
    <3>1. HarvestJob(w) # {}
      <4>1. w \in Staff
        BY <1>2, FrameFacts
      <4> SUFFICES ASSUME HarvestJob(w) = {} PROVE FALSE
        OBVIOUS
      <4>2. SpotPatch(w).place # Nowhere /\ SpotBase(w).place = Nowhere
        BY HarvestJobs
      <4>3. scan.bases = <<>> /\ scan.patches # <<>>
        BY <1>2, <4>1, <4>2, WorkerFinds
      <4> QED
        BY <2>1, <4>3
    <3>2. PICK j \in HarvestJob(w) : TRUE
      BY <3>1
    <3>3. j \in jobs' /\ j.worker = w
      BY <1>1, <2>4, HarvestJobs
    <3> QED
      BY <3>3 DEF JobsOf
  <2> QED
    BY <2>2, <2>3, <2>4
<1>8. HandsInv'
  BY <1>1, <1>2, <1>7 DEF HandsInv
<1> QED
  BY <1>1, <1>2, <1>6, <1>8 DEF DealInv

LEMMA DealInvariant == WorkersSpec => []DealInv
<1>1. WorkersInit => DealInv
  <2> SUFFICES ASSUME WorkersInit PROVE DealInv
    OBVIOUS
  <2>1. /\ scan \in Frames /\ stage = (IF scan.workers = <<>> THEN "end" ELSE "base")
        /\ free_workers = IdleWorkers(scan) /\ jobs = {} /\ reserved_positions = {}
    BY DEF WorkersInit
  <2>2. JobsInv
    BY <2>1 DEF JobsInv
  <2>3. HandsInv
    BY <2>1, FrameFacts DEF HandsInv, JobsOf, Accounted
  <2> QED
    BY <2>1, <2>2, <2>3 DEF DealInv
<1>2. DealInv /\ [WorkersNext]_workers_vars => DealInv'
  <2> SUFFICES ASSUME DealInv, [WorkersNext]_workers_vars PROVE DealInv'
    OBVIOUS
  <2>1. CASE SkipBase
    BY <2>1 DEF SkipBase, DealInv, JobsInv, HandsInv, BuilderWaits, Accounted, JobsOf, Staff
  <2>2. CASE SkipBarracks
    BY <2>2 DEF SkipBarracks, DealInv, JobsInv, HandsInv, BuilderWaits, Accounted, JobsOf, Staff
  <2>3. CASE SearchOn \/ UNCHANGED workers_vars
    <3>1. UNCHANGED <<scan, stage, free_workers, builder, building, reserved_positions, jobs>>
      BY <2>3 DEF SearchOn, workers_vars
    <3> QED
      BY <3>1 DEF DealInv, JobsInv, HandsInv, BuilderWaits, Accounted, JobsOf, Staff, MayIdle
  <2> QED
    BY <2>1, <2>2, <2>3, PlanBaseDeals, BuildDeals, PlanBarracksDeals, BuildHereDeals,
       HarvestDeals DEF WorkersNext
<1> QED
  BY <1>1, <1>2, PTL DEF WorkersSpec

\* The jobs of workersBehavior() are dealt out once each, for any number of
\* workers and any map: no worker is told two things in a frame, a busy one only
\* to build the base that nobody else can build, no idle one is forgotten, and
\* no two buildings get the same position.
THEOREM JobsWellDealt == WorkersSpec => []JobsAreDealt
<1>1. DealInv => JobsAreDealt
  <2> SUFFICES ASSUME DealInv PROVE JobsAreDealt
    OBVIOUS
  <2>1. ASSUME NEW w \in Staff PROVE Cardinality(JobsOf(w)) <= 1
    <3>1. JobsOf(w) = {} \/ (\E j : JobsOf(w) = {j})
      BY DEF DealInv, JobsInv, JobsOf
    <3>2. Cardinality({}) = 0 /\ \A j : Cardinality({j}) = 1
      BY FS_EmptySet, FS_Singleton
    <3>3. Cardinality(JobsOf(w)) = 0 \/ Cardinality(JobsOf(w)) = 1
      BY <3>1, <3>2, Zenon
    <3> QED
      BY <3>3
  <2>2. ASSUME NEW w \in Staff, scan.workers[w].busy
        PROVE  \A j \in JobsOf(w) : j.what = "base" /\ IdleWorkers(scan) = {}
    BY <2>2 DEF DealInv, JobsInv, JobsOf
  <2>3. ASSUME NEW w \in Staff, stage = "end", w \in IdleWorkers(scan), ~ MayIdle(w)
        PROVE  JobsOf(w) # {}
    BY <2>3 DEF DealInv, HandsInv
  <2>4. \A i, j \in jobs : i # j /\ Builds(i) /\ Builds(j) => i.where # j.where
    BY DEF DealInv, JobsInv
  <2> QED
    BY <2>1, <2>2, <2>3, <2>4 DEF JobsAreDealt, Staff
<1> QED
  BY <1>1, DealInvariant, PTL

-----------------------------------------------------------------------------
(* The patches                                                             *)

\* Workers harvest around the bases as long as there is a patch, from the patch and
\* for the base closest to them, and are told to: the loops of workersBehavior(),
\* which share one distance, find them on every map and for any number of bases.
THEOREM HarvestNearest == WorkersSpec => []HarvestIsNearest
<1>1. WorkersInit => HarvestIsNearest
  <2> SUFFICES ASSUME WorkersInit PROVE HarvestIsNearest
    OBVIOUS
  <2>1. jobs = {} /\ scan \in Frames /\ free_workers = IdleWorkers(scan)
    BY DEF WorkersInit
  <2>2. stage = "end" => scan.workers = <<>>
    BY DEF WorkersInit
  <2>3. stage = "end" => free_workers = {}
    BY <2>1, <2>2, FrameFacts
  <2> QED
    BY <2>1, <2>3 DEF HarvestIsNearest
<1>2. DealInv /\ HarvestIsNearest /\ [WorkersNext]_workers_vars => HarvestIsNearest'
  <2> SUFFICES ASSUME DealInv, HarvestIsNearest, [WorkersNext]_workers_vars
               PROVE  HarvestIsNearest'
    OBVIOUS
  <2> DEFINE Fits(j) ==
        /\ j.what \in {"harvest", "move"} => IsNearest(At(j.worker), j.where, Choice)
        /\ j.what = "harvest" => IsNearest(At(j.worker), j.base, Range(scan.bases))
  <2>1. scan' = scan
    BY DEF WorkersNext, PlanBase, SkipBase, SearchOn, Build, PlanBarracks, BuildHere,
           SkipBarracks, Harvest, workers_vars
  <2>2. Choice' = Choice
    BY <2>1 DEF Choice, MyPatches
  <2>3. \A j \in jobs : Fits(j)
    BY DEF HarvestIsNearest
  <2>4. SUFFICES /\ \A j \in jobs' : j \in jobs \/ Fits(j)
                 /\ stage' = "end" /\ Choice # {} /\ scan.bases # <<>> =>
                      \A w \in free_workers' :
                        \E j \in jobs' : j.worker = w /\ j.what \in {"harvest", "move"}
    <3>1. \A j \in jobs' : Fits(j)
      BY <2>3, <2>4
    <3>2. \A j \in jobs' : Fits(j)'
      BY <2>1, <2>2, <3>1 DEF At, IsNearest
    <3> QED
      BY <2>1, <2>2, <2>4, <3>2 DEF HarvestIsNearest, JobsOf
  <2>5. CASE Harvest
    <3>1. /\ jobs' = jobs \union UNION {HarvestJob(w) : w \in free_workers}
          /\ free_workers' = free_workers /\ scan \in Frames
      BY <2>5 DEF Harvest, DealInv, HandsInv
    <3>2. ASSUME NEW w \in free_workers
          PROVE  /\ \A j \in HarvestJob(w) : Fits(j)
                 /\ Choice # {} /\ scan.bases # <<>> =>
                      \E j \in HarvestJob(w) : j.worker = w /\ j.what \in {"harvest", "move"}
      <4>1. w \in Staff
        BY <2>5, <3>1, FrameFacts DEF DealInv, HandsInv, Harvest
      <4>2. /\ SpotPatch(w).place # Nowhere <=> Choice # {}
            /\ Choice # {} => IsNearest(At(w), SpotPatch(w).place, Choice)
            /\ SpotBase(w).place # Nowhere <=> scan.bases # <<>>
            /\ scan.bases # <<>> => IsNearest(At(w), SpotBase(w).place, Range(scan.bases))
        BY <3>1, <4>1, WorkerFinds
      <4>3. CASE SpotPatch(w).place = Nowhere
        <5>1. HarvestJob(w) = {Job(w, "search", Nowhere)}
          BY <4>3 DEF HarvestJob
        <5> QED
          BY <4>2, <4>3, <5>1 DEF Job
      <4>4. CASE SpotPatch(w).place # Nowhere /\ SpotBase(w).place = Nowhere
        <5>1. HarvestJob(w) = {}
          BY <4>4 DEF HarvestJob
        <5> QED
          BY <4>2, <4>4, <5>1
      <4>5. CASE SpotPatch(w).place # Nowhere /\ SpotBase(w).place # Nowhere
        <5>1. \/ HarvestJob(w) = {Job(w, "move", SpotPatch(w).place)}
              \/ HarvestJob(w) = {HarvestFor(w, SpotPatch(w).place, SpotBase(w).place)}
          BY <4>5 DEF HarvestJob
        <5>2. CASE HarvestJob(w) = {Job(w, "move", SpotPatch(w).place)}
          BY <4>2, <4>5, <5>2 DEF Job
        <5>3. CASE HarvestJob(w) = {HarvestFor(w, SpotPatch(w).place, SpotBase(w).place)}
          BY <4>2, <4>5, <5>3 DEF HarvestFor
        <5> QED
          BY <5>1, <5>2, <5>3
      <4> QED
        BY <4>3, <4>4, <4>5
    <3> HIDE DEF Fits
    <3> QED
      BY <3>1, <3>2
  <2>6. CASE Build
    <3>1. BuildIfNotAlreadyBuilding(builder, building) /\ building \in {"base", "barracks"}
      BY <2>6 DEF Build, DealInv, HandsInv, BuilderWaits
    <3>2. stage' # "end"
      BY <2>6 DEF Build
    <3> QED
      BY <3>1, <3>2 DEF BuildIfNotAlreadyBuilding, Job
  <2>7. CASE BuildHere
    <3>1. stage' # "end"
      BY <2>7 DEF BuildHere
    <3> QED
      BY <2>7, <3>1 DEF BuildHere, BuildIfNotAlreadyBuilding, Job
  <2>8. CASE UNCHANGED workers_vars
    BY <2>8 DEF workers_vars, HarvestIsNearest, JobsOf
  <2>9. CASE PlanBase \/ SkipBase \/ SearchOn \/ PlanBarracks \/ SkipBarracks
    <3>1. jobs' = jobs /\ stage' # "end"
      BY <2>9 DEF PlanBase, SkipBase, SearchOn, PlanBarracks, SkipBarracks
    <3> QED
      BY <3>1
  <2> QED
    BY <2>5, <2>6, <2>7, <2>8, <2>9 DEF WorkersNext
<1> QED
  BY <1>1, <1>2, DealInvariant, PTL DEF WorkersSpec

-----------------------------------------------------------------------------
(* Exploration                                                             *)

\* A scan row by row comes to every place of the map, and to no other.
LEMMA RowsCover ==
    /\ DOMAIN RowByRow = 1 .. Width * Height
    /\ \A i \in 1 .. Width * Height : RowByRow[i] \in Cells
    /\ \A c \in Cells : \E i \in 1 .. Width * Height : RowByRow[i] = c
<1> USE GridAssumption
<1>1. ASSUME NEW i \in 1 .. Width * Height PROVE RowByRow[i] \in Cells
  <2>1. (i - 1) \div Width \in 0 .. Height - 1
    OBVIOUS
  <2>2. (i - 1) % Width \in 0 .. Width - 1
    OBVIOUS
  <2> QED
    BY <2>1, <2>2 DEF RowByRow, Cells
<1>2. ASSUME NEW c \in Cells PROVE \E i \in 1 .. Width * Height : RowByRow[i] = c
  <2>1. PICK x \in 0 .. Width - 1, y \in 0 .. Height - 1 : c = <<x, y>>
    BY DEF Cells
  <2>2. y * Width + x + 1 \in 1 .. Width * Height
    OBVIOUS
  <2>3. (y * Width + x) % Width = x /\ (y * Width + x) \div Width = y
    OBVIOUS
  <2>4. PICK i \in 1 .. Width * Height : i = y * Width + x + 1
    BY <2>2
  <2>5. i - 1 = y * Width + x
    BY <2>4
  <2>6. (i - 1) % Width = x /\ (i - 1) \div Width = y
    BY <2>3, <2>5
  <2>7. RowByRow[i] = <<x, y>>
    BY <2>6 DEF RowByRow
  <2> QED
    BY <2>1, <2>7
<1> QED
  BY <1>1, <1>2 DEF RowByRow

\* What the scan for the coldest place holds.
Bests == [heat : Int, tie : Int, place : Cells]

\* heats is a heat map, none of them above that of a wall.
IsHeatMap(heats) == heats \in [Cells -> Int] /\ \A c \in Cells : heats[c] <= Wall

LEMMA DistancesAreNumbers ==
    ASSUME NEW c \in Int \X Int, NEW d \in Int \X Int
    PROVE  Euclidian2(c, d) \in Int
<1>1. PICK x \in Int, y \in Int : x = d[1] - c[1] /\ y = d[2] - c[2]
  OBVIOUS
<1>2. x * x \in Int /\ y * y \in Int
  OBVIOUS
<1> QED
  BY <1>1, <1>2 DEF Euclidian2

\* The heat of the best place is the one held, or lower at the start, and it
\* never gets above a heat that was scanned.
LEMMA ColderIsLower ==
    ASSUME IsHeatMap(heat_map), NEW from \in Int \X Int, NEW b \in Bests, NEW c \in Cells
    PROVE  /\ Colder(from, b, c) \in Bests
           /\ Colder(from, b, c).heat <= b.heat
           /\ Colder(from, b, c).heat <= heat_map[c]
           /\ heat_map[b.place] <= b.heat =>
                heat_map[Colder(from, b, c).place] <= Colder(from, b, c).heat
<1>1. c \in Int \X Int
  BY GridAssumption DEF Cells
<1>2. PICK d \in Int : d = Euclidian2(from, c)
  BY <1>1, DistancesAreNumbers
<1>3. heat_map[c] \in Int /\ heat_map[b.place] \in Int
  BY DEF IsHeatMap, Bests
<1>4. CASE heat_map[c] < b.heat
  <2>1. Colder(from, b, c) = [b EXCEPT !.heat = heat_map[c], !.place = c]
    BY <1>4 DEF Colder
  <2>2. PICK e : e = [heat |-> heat_map[c], tie |-> b.tie, place |-> c]
    OBVIOUS
  <2>3. e = Colder(from, b, c)
    BY <2>1, <2>2 DEF Bests
  <2>4. e \in Bests /\ e.heat = heat_map[c] /\ e.place = c
    BY <2>2, <1>3 DEF Bests
  <2>5. b.heat \in Int
    BY DEF Bests
  <2> QED
    BY <2>3, <2>4, <2>5, <1>3, <1>4
<1>5. CASE ~ (heat_map[c] < b.heat) /\ heat_map[c] = b.heat /\ d < b.tie /\ d > 0
  <2>1. Colder(from, b, c) = [b EXCEPT !.tie = d, !.place = c]
    BY <1>2, <1>5 DEF Colder
  <2>2. PICK e : e = [heat |-> b.heat, tie |-> d, place |-> c]
    OBVIOUS
  <2>3. e = Colder(from, b, c)
    BY <2>1, <2>2 DEF Bests
  <2>4. e \in Bests /\ e.heat = b.heat /\ e.place = c
    BY <2>2, <1>2 DEF Bests
  <2>5. b.heat \in Int
    BY DEF Bests
  <2> QED
    BY <2>3, <2>4, <2>5, <1>3, <1>5
<1>6. CASE ~ (heat_map[c] < b.heat) /\ ~ (heat_map[c] = b.heat /\ d < b.tie /\ d > 0)
  <2>1. Colder(from, b, c) = b
    BY <1>2, <1>6 DEF Colder
  <2> QED
    BY <2>1, <1>3, <1>6 DEF Bests
<1> QED
  BY <1>4, <1>5, <1>6

ScanStart == [heat |-> Wall, tie |-> Far, place |-> <<0, 0>>]

\* The function that the scan iterates.
Scanning(from, g) ==
    g = [s \in SUBSET (DOMAIN RowByRow) |->
           IF s = {} THEN ScanStart
           ELSE Colder(from, g[s \ {Max(s)}], RowByRow[Max(s)])]

LEMMA ColdestIsScanned ==
    ASSUME NEW from
    PROVE  Coldest(from) = (CHOOSE g : Scanning(from, g))[DOMAIN RowByRow].place
  BY DEF Coldest, FoldLeft, MapThenFoldSet, Scanning, ScanStart

\* The scan finds a place that is as cold as any.
LEMMA ColdestIsColdest ==
    ASSUME IsHeatMap(heat_map), NEW from \in Int \X Int
    PROVE  /\ Coldest(from) \in Cells
           /\ \A c \in Cells : heat_map[Coldest(from)] <= heat_map[c]
<1>1. PICK n \in Nat : n = Width * Height
  BY GridAssumption
<1>2. /\ DOMAIN RowByRow = 1 .. n
      /\ \A i \in 1 .. n : RowByRow[i] \in Cells
      /\ \A c \in Cells : \E i \in 1 .. n : RowByRow[i] = c
  BY <1>1, RowsCover
<1>3. ScanStart \in Bests /\ heat_map[ScanStart.place] <= ScanStart.heat
  <2>1. <<0, 0>> \in Cells
    BY GridAssumption DEF Cells
  <2>2. Wall \in Int /\ Far \in Int
    BY GridAssumption DEF Wall, Far
  <2> QED
    BY <2>1, <2>2 DEF ScanStart, Bests, IsHeatMap
<1>4. PICK g : Scanning(from, g) /\ Coldest(from) = g[1 .. n].place
  <2> DEFINE stepping == [p \in Bests \X (1 .. n) |-> Colder(from, p[1], RowByRow[p[2]])]
  <2>1. \A b \in Bests, i \in 1 .. n : stepping[<<b, i>>] = Colder(from, b, RowByRow[i])
    OBVIOUS
  <2>2. \A b \in Bests, i \in 1 .. n : Colder(from, b, RowByRow[i]) \in Bests
    BY <1>2, ColderIsLower
  <2>3. \A b \in Bests, i \in 1 .. n : stepping[<<b, i>>] \in Bests
    BY <2>1, <2>2
  <2> HIDE DEF stepping
  <2>4. PICK h : Folds(h, n, Bests, ScanStart, stepping)
    BY <1>3, <2>3, FoldExists
  <2>5. ASSUME NEW s \in SUBSET (1 .. n)
        PROVE  h[s] = IF s = {} THEN ScanStart
                      ELSE Colder(from, h[s \ {Max(s)}], RowByRow[Max(s)])
    <3>1. s # {} => Max(s) \in 1 .. n
      BY MaxOfNats
    <3>2. h[s \ {Max(s)}] \in Bests
      BY <2>4 DEF Folds
    <3>3. h[s] = IF s = {} THEN ScanStart ELSE stepping[<<h[s \ {Max(s)}], Max(s)>>]
      BY <2>4 DEF Folds
    <3> QED
      BY <2>1, <3>1, <3>2, <3>3
  <2>6. h = [s \in SUBSET (1 .. n) |-> h[s]]
    BY <2>4 DEF Folds
  <2>7. Scanning(from, h)
    <3> DEFINE k == [s \in SUBSET (1 .. n) |->
                       IF s = {} THEN ScanStart
                       ELSE Colder(from, h[s \ {Max(s)}], RowByRow[Max(s)])]
    <3>1. \A s \in SUBSET (1 .. n) : h[s] = k[s]
      BY <2>5
    <3>2. h = k
      BY <2>6, <3>1
    <3> QED
      BY <3>2, <1>2 DEF Scanning
  <2>8. Scanning(from, CHOOSE q : Scanning(from, q))
    BY <2>7
  <2> QED
    BY <2>8, <1>2, ColdestIsScanned
<1>5. /\ g[{}] = ScanStart
      /\ \A k \in 1 .. n : g[1 .. k] = Colder(from, g[1 .. k - 1], RowByRow[k])
  <2>1. ASSUME NEW s \in SUBSET (1 .. n)
        PROVE  g[s] = IF s = {} THEN ScanStart
                      ELSE Colder(from, g[s \ {Max(s)}], RowByRow[Max(s)])
    <3> DEFINE k == [t \in SUBSET (1 .. n) |->
                       IF t = {} THEN ScanStart
                       ELSE Colder(from, g[t \ {Max(t)}], RowByRow[Max(t)])]
    <3>1. g = k
      BY <1>4, <1>2 DEF Scanning
    <3>2. g[s] = k[s]
      BY <3>1
    <3> QED
      BY <3>2
  <2>2. ASSUME NEW k \in 1 .. n PROVE g[1 .. k] = Colder(from, g[1 .. k - 1], RowByRow[k])
    <3>1. 1 .. k \in SUBSET (1 .. n) /\ 1 .. k # {} /\ k \in 1 .. k
      OBVIOUS
    <3>2. Max(1 .. k) \in 1 .. k /\ Max(1 .. k) >= k
      BY <3>1, MaxOfNats
    <3>3. Max(1 .. k) = k
      BY <3>2
    <3>4. (1 .. k) \ {k} = 1 .. k - 1
      OBVIOUS
    <3> QED
      BY <2>1, <3>1, <3>3, <3>4
  <2> QED
    BY <2>1, <2>2
<1> DEFINE Bad == {k \in 0 .. n : ~ /\ g[1 .. k] \in Bests
                                    /\ heat_map[g[1 .. k].place] <= g[1 .. k].heat
                                    /\ \A i \in 1 .. k : g[1 .. k].heat <= heat_map[RowByRow[i]]}
<1>6. Bad = {}
  <2> SUFFICES ASSUME Bad # {} PROVE FALSE
    OBVIOUS
  <2>1. PICK k \in Bad : \A j \in Bad : k <= j
    <3>1. Bad \in SUBSET Nat
      OBVIOUS
    <3> HIDE DEF Bad
    <3> QED
      BY <3>1, LeastNat
  <2>2. k # 0
    <3>1. 1 .. 0 = {}
      OBVIOUS
    <3> QED
      BY <1>3, <1>5, <3>1
  <2>3. k \in 1 .. n /\ k - 1 \in 0 .. n /\ ~ (k <= k - 1)
    BY <2>2
  <2>4. k - 1 \notin Bad
    BY <2>1, <2>3
  <2>5. PICK b : b = g[1 .. k - 1]
    OBVIOUS
  <2>6. /\ b \in Bests
        /\ heat_map[b.place] <= b.heat
        /\ \A i \in 1 .. k - 1 : b.heat <= heat_map[RowByRow[i]]
    BY <2>3, <2>4, <2>5
  <2>7. PICK e : e = Colder(from, b, RowByRow[k]) /\ e = g[1 .. k]
    BY <1>5, <2>3, <2>5
  <2>8. /\ e \in Bests /\ e.heat <= b.heat /\ e.heat <= heat_map[RowByRow[k]]
        /\ heat_map[e.place] <= e.heat
    <3>1. RowByRow[k] \in Cells
      BY <1>2, <2>3
    <3>2. PICK c \in Cells : c = RowByRow[k]
      BY <3>1
    <3>3. e = Colder(from, b, c)
      BY <2>7, <3>2
    <3> QED
      BY <2>6, <3>2, <3>3, ColderIsLower
  <2>9. \A i \in 1 .. k : e.heat <= heat_map[RowByRow[i]]
    <3> TAKE i \in 1 .. k
    <3>a. i \in 1 .. n
      BY <2>3
    <3>b. RowByRow[i] \in Cells
      BY <1>2, <3>a
    <3>c. e.heat \in Int /\ b.heat \in Int
      BY <2>6, <2>8 DEF Bests
    <3>1. heat_map[RowByRow[i]] \in Int /\ e.heat \in Int /\ b.heat \in Int
      BY <3>b, <3>c DEF IsHeatMap
    <3>2. i = k \/ i \in 1 .. k - 1
      BY <2>3
    <3> QED
      BY <2>6, <2>8, <3>1, <3>2
  <2> QED
    BY <2>1, <2>7, <2>8, <2>9
<1>7. PICK b : b = g[1 .. n]
  OBVIOUS
<1>8. /\ b \in Bests
      /\ heat_map[b.place] <= b.heat
      /\ \A i \in 1 .. n : b.heat <= heat_map[RowByRow[i]]
  BY <1>6, <1>7
<1>9. \A c \in Cells : heat_map[b.place] <= heat_map[c]
  <2> TAKE c \in Cells
  <2>1. b.heat <= heat_map[c]
    BY <1>2, <1>8
  <2>2. heat_map[c] \in Int /\ b.heat \in Int /\ heat_map[b.place] \in Int
    BY <1>8 DEF IsHeatMap, Bests
  <2> QED
    BY <1>8, <2>1, <2>2
<1> QED
  BY <1>4, <1>7, <1>8, <1>9 DEF Bests

\* There are as many ranks of heats as places, or fewer.
LEMMA RanksBelowWall ==
    ASSUME IsHeatMap(heat_map), NEW T \in SUBSET {heat_map[c] : c \in Cells}
    PROVE  Cardinality(T) \in Int /\ Cardinality(T) <= Wall
<1> DEFINE Heats == {heat_map[c] : c \in Cells}
<1>1. PICK n \in Nat : n = Width * Height /\ n = Wall
  BY GridAssumption DEF Wall
<1>2. IsFiniteSet(1 .. n) /\ Cardinality(1 .. n) = n
  BY FS_Interval
<1>3. RowByRow \in Surjection(1 .. n, Cells)
  BY <1>1, RowsCover DEF RowByRow, Surjection
<1>4. IsFiniteSet(Cells) /\ Cardinality(Cells) <= n
  BY <1>2, <1>3, FS_Surjection
<1>5. heat_map \in Surjection(Cells, Heats)
  BY DEF IsHeatMap, Surjection
<1> HIDE DEF Heats
<1>6. IsFiniteSet(Heats) /\ Cardinality(Heats) <= Cardinality(Cells)
  BY <1>4, <1>5, FS_Surjection
<1>7. T \in SUBSET Heats
  BY DEF Heats
<1>8. IsFiniteSet(T) /\ Cardinality(T) <= Cardinality(Heats)
  BY <1>6, <1>7, FS_Subset
<1>9. Cardinality(T) \in Nat /\ Cardinality(Heats) \in Nat /\ Cardinality(Cells) \in Nat
  BY <1>4, <1>6, <1>8, FS_CardinalityType
<1> QED
  BY <1>1, <1>4, <1>6, <1>8, <1>9

LEMMA InitialHeatIsHeatMap == IsHeatMap(InitialHeat)
<1>1. PICK n \in Nat : n = Wall
  BY GridAssumption DEF Wall
<1>2. Wall \in Int /\ 0 <= Wall /\ Unknown \in Int /\ Unknown <= Wall
  BY <1>1 DEF Unknown
<1> QED
  BY <1>2 DEF InitialHeat, IsHeatMap

LEMMA UpdatedHeatIsHeatMap ==
    ASSUME IsHeatMap(heat_map)
    PROVE  IsHeatMap(UpdatedHeat)
<1> DEFINE kept == {heat_map[c] : c \in Free \ Observable} \ {Unknown}
           Older(c) == {t \in kept : t < heat_map[c]}
           Heat(c) == CASE heat_map[c] = Wall -> Wall
                        [] c \in Observable /\ heat_map[c] # Wall -> Cardinality(kept)
                        [] c \notin Observable /\ heat_map[c] = Unknown -> Unknown
                        [] OTHER -> Cardinality(Older(c))
<1>1. UpdatedHeat = [c \in Cells |-> Heat(c)]
  BY DEF UpdatedHeat
<1>2. PICK n \in Nat : n = Wall
  BY GridAssumption DEF Wall
<1>3. Wall \in Int /\ Unknown \in Int /\ Unknown <= Wall /\ Wall # Unknown
  BY <1>2 DEF Unknown
<1>4. kept \in SUBSET {heat_map[c] : c \in Cells}
  BY DEF Free
<1>5. Cardinality(kept) \in Int /\ Cardinality(kept) <= Wall
  BY <1>4, RanksBelowWall
<1>6. ASSUME NEW c \in Cells PROVE Cardinality(Older(c)) \in Int /\ Cardinality(Older(c)) <= Wall
  <2>1. Older(c) \in SUBSET {heat_map[d] : d \in Cells}
    BY <1>4
  <2> HIDE DEF Older
  <2> QED
    BY <2>1, RanksBelowWall
<1>7. ASSUME NEW c \in Cells PROVE Heat(c) \in Int /\ Heat(c) <= Wall
  <2> HIDE DEF kept, Older
  <2>1. Heat(c) \in {Wall, Cardinality(kept), Unknown, Cardinality(Older(c))}
    <3>1. CASE heat_map[c] = Wall
      BY <1>3, <3>1
    <3>2. CASE c \in Observable /\ heat_map[c] # Wall
      BY <3>2
    <3>3. CASE c \notin Observable /\ heat_map[c] = Unknown
      BY <1>3, <3>3
    <3>4. CASE ~ (heat_map[c] = Wall) /\ ~ (c \in Observable /\ heat_map[c] # Wall)
               /\ ~ (c \notin Observable /\ heat_map[c] = Unknown)
      BY <3>4
    <3> QED
      BY <3>1, <3>2, <3>3, <3>4
  <2> QED
    BY <2>1, <1>3, <1>5, <1>6
<1> HIDE DEF Heat
<1> QED
  BY <1>1, <1>7 DEF IsHeatMap

\* What is true of the map and of the units between two steps.
MapInv ==
    /\ base \in Cells \union {NoBase}
    /\ at \in [Units -> Cells \union {NoGoal}]
    /\ heat_map = NoMap \/ IsHeatMap(heat_map)
    /\ pc = "frame" => IsHeatMap(heat_map)

LEMMA MapInvariant == Spec => []MapInv
<1>1. Init => MapInv
  <2> SUFFICES ASSUME Init PROVE MapInv
    OBVIOUS
  <2>1. PICK s \in Situations : at = s.at /\ base = s.base
    BY DEF Init
  <2>2. s.at \in [Units -> Cells \union {NoGoal}] /\ s.base \in Cells \union {NoBase}
    BY <2>1, ExplorationAssumption
  <2>3. pc = "game" /\ heat_map = NoMap
    BY DEF Init
  <2> QED
    BY <2>1, <2>2, <2>3 DEF MapInv
<1>2. MapInv /\ [Next]_vars => MapInv'
  <2> SUFFICES ASSUME MapInv, [Next]_vars PROVE MapInv'
    OBVIOUS
  <2>1. CASE Look
    <3>1. IsHeatMap(heat_map')
      <4>1. CASE heat_map = NoMap
        BY <2>1, <4>1, InitialHeatIsHeatMap DEF Look
      <4>2. CASE heat_map # NoMap
        <5>1. IsHeatMap(heat_map)
          BY <4>2 DEF MapInv
        <5>2. heat_map' = UpdatedHeat
          BY <2>1, <4>2 DEF Look
        <5> QED
          BY <5>1, <5>2, UpdatedHeatIsHeatMap
      <4> QED
        BY <4>1, <4>2
    <3> QED
      BY <2>1, <3>1 DEF Look, MapInv, IsHeatMap
  <2>2. CASE Command
    BY <2>2 DEF Command, MapInv, IsHeatMap
  <2>3. ASSUME NEW u \in Units, Step(u) PROVE MapInv'
    <3>1. PICK c \in FirstSteps(at[u], goal[u]) : at' = [at EXCEPT ![u] = c]
      BY <2>3 DEF Step
    <3>2. c \in Cells
      BY <3>1 DEF FirstSteps, Free
    <3> QED
      BY <2>3, <3>1, <3>2 DEF Step, MapInv, IsHeatMap
  <2>4. CASE GrowLate
    BY <2>4 DEF GrowLate, MapInv, IsHeatMap
  <2>5. CASE UNCHANGED vars
    BY <2>5 DEF vars, MapInv, IsHeatMap
  <2> QED
    BY <2>1, <2>2, <2>3, <2>4, <2>5 DEF Next
<1> QED
  BY <1>1, <1>2, PTL DEF Spec

\* Three army units or more that find no enemy walk to the mirror of their base
\* while nothing is known of it, and otherwise to a place that was seen least
\* lately: the distance that armyUnitBehavior_heatmap() keeps from warmer places
\* only changes which one.
THEOREM PatrolLeastKnown == Spec => PatrolGoesWhereLeastKnown
<1> DEFINE WellSent == Command /\ Cardinality(Troops) >= 3 =>
             \A u \in Idle \cap Army :
               goal'[u] # NoGoal =>
                 \/ base # NoBase /\ goal'[u] = Mirror /\ heat_map[Mirror] = Unknown
                 \/ \A c \in Free : heat_map[goal'[u]] <= heat_map[c]
<1>1. MapInv /\ [Next]_vars => [WellSent]_vars
  <2> SUFFICES ASSUME MapInv, Command, Cardinality(Troops) >= 3,
                      NEW u \in Idle \cap Army, goal'[u] # NoGoal,
                      ~ (base # NoBase /\ goal'[u] = Mirror /\ heat_map[Mirror] = Unknown)
               PROVE  \A c \in Free : heat_map[goal'[u]] <= heat_map[c]
    OBVIOUS
  <2>1. u \in Units /\ u \in Army /\ u \in Idle /\ at[u] # NoGoal
    BY DEF Idle, Present, Units
  <2>2. at[u] \in Int \X Int
    <3>1. at[u] \in Cells
      BY <2>1 DEF MapInv
    <3> QED
      BY <3>1, GridAssumption DEF Cells
  <2>3. PICK random \in [Searchers -> RandomPlaces] :
            goal'[u] = LET c == Target(u, random) IN IF Walkable(u, c) THEN c ELSE NoGoal
    BY <2>1 DEF Command
  <2>4. Target(u, random) = PatrolGoal(u)
    BY <2>1 DEF Target, ArmyGoal
  <2>5. goal'[u] = PatrolGoal(u)
    BY <2>3, <2>4
  <2>6. goal'[u] = Coldest(at[u])
    BY <2>5 DEF PatrolGoal
  <2>7. IsHeatMap(heat_map)
    BY DEF Command, MapInv
  <2> QED
    BY <2>2, <2>6, <2>7, ColdestIsColdest DEF Free
<1>2. [][WellSent]_vars => PatrolGoesWhereLeastKnown
  BY DEF PatrolGoesWhereLeastKnown
<1> QED
  BY <1>1, <1>2, MapInvariant, PTL DEF Spec

\* The heat map is right about the terrain, and warm places are below walls.
IsRanked(heats) ==
    /\ heats \in [Cells -> Int]
    /\ \A c \in walls \cap Cells : heats[c] = Wall
    /\ \A c \in Free : Unknown <= heats[c] /\ heats[c] < Wall

\* The ranks that go out of sight, and those below one of them.
Kept == {heat_map[c] : c \in Free \ Observable} \ {Unknown}
KeptBelow(h) == {t \in Kept : t < h}

\* Places have as many heats as there are places, or fewer.
LEMMA HeatsAreFew ==
    ASSUME NEW S \in SUBSET Cells, NEW f \in [Cells -> Int], NEW T \in SUBSET {f[c] : c \in S}
    PROVE  /\ IsFiniteSet(T) /\ Cardinality(T) \in Nat /\ Cardinality(T) <= Wall
           /\ S # Cells => Cardinality(T) < Wall
<1> DEFINE Heats == {f[c] : c \in S}
           g == [c \in S |-> f[c]]
<1>1. PICK n \in Nat : n = Width * Height /\ n = Wall
  BY GridAssumption DEF Wall
<1>2. IsFiniteSet(1 .. n) /\ Cardinality(1 .. n) = n
  BY FS_Interval
<1>3. RowByRow \in Surjection(1 .. n, Cells)
  BY <1>1, RowsCover DEF RowByRow, Surjection
<1>4. IsFiniteSet(Cells) /\ Cardinality(Cells) <= n
  BY <1>2, <1>3, FS_Surjection
<1>5. /\ IsFiniteSet(S) /\ Cardinality(S) <= Cardinality(Cells)
      /\ Cardinality(Cells) = Cardinality(S) => S = Cells
  BY <1>4, FS_Subset
<1>6. g \in Surjection(S, Heats)
  BY DEF Surjection
<1> HIDE DEF Heats, g
<1>7. IsFiniteSet(Heats) /\ Cardinality(Heats) <= Cardinality(S)
  BY <1>5, <1>6, FS_Surjection
<1>8. T \in SUBSET Heats
  BY DEF Heats
<1>9. IsFiniteSet(T) /\ Cardinality(T) <= Cardinality(Heats)
  BY <1>7, <1>8, FS_Subset
<1>10. /\ Cardinality(T) \in Nat /\ Cardinality(Heats) \in Nat
       /\ Cardinality(S) \in Nat /\ Cardinality(Cells) \in Nat
  BY <1>4, <1>5, <1>7, <1>9, FS_CardinalityType
<1> QED
  BY <1>1, <1>4, <1>5, <1>7, <1>9, <1>10

\* The ranks below one that is kept are fewer than those below a higher one, and
\* than all.
LEMMA RanksKeepOrder ==
    ASSUME IsRanked(heat_map), NEW h \in Kept, NEW k \in Int
    PROVE  /\ Cardinality(KeptBelow(h)) \in Nat /\ Cardinality(KeptBelow(k)) \in Nat
           /\ Cardinality(Kept) \in Nat
           /\ Cardinality(KeptBelow(h)) < Cardinality(Kept)
           /\ h < k => Cardinality(KeptBelow(h)) < Cardinality(KeptBelow(k))
<1>1. \A c \in Free \ Observable : heat_map[c] \in Int
  BY DEF IsRanked, Free
<1>2. IsFiniteSet(Kept)
  <2>1. Free \ Observable \in SUBSET Cells
    BY DEF Free
  <2>2. Kept \in SUBSET {heat_map[c] : c \in Free \ Observable}
    BY DEF Kept
  <2>3. heat_map \in [Cells -> Int]
    BY DEF IsRanked
  <2> QED
    BY <2>1, <2>2, <2>3, HeatsAreFew
<1>3. Kept \subseteq Int
  BY <1>1 DEF Kept
<1>4. /\ KeptBelow(h) \in SUBSET Kept /\ h \notin KeptBelow(h)
      /\ KeptBelow(k) \in SUBSET Kept
  BY <1>3 DEF KeptBelow
<1>5. /\ IsFiniteSet(KeptBelow(h)) /\ IsFiniteSet(KeptBelow(k))
      /\ Cardinality(KeptBelow(h)) <= Cardinality(Kept)
      /\ Cardinality(Kept) = Cardinality(KeptBelow(h)) => KeptBelow(h) = Kept
  BY <1>2, <1>4, FS_Subset
<1>6. /\ Cardinality(KeptBelow(h)) \in Nat /\ Cardinality(KeptBelow(k)) \in Nat
      /\ Cardinality(Kept) \in Nat
  BY <1>2, <1>5, FS_CardinalityType
<1>7. Cardinality(KeptBelow(h)) < Cardinality(Kept)
  BY <1>4, <1>5, <1>6
<1>8. ASSUME h < k PROVE Cardinality(KeptBelow(h)) < Cardinality(KeptBelow(k))
  <2>1. KeptBelow(h) \in SUBSET KeptBelow(k)
    <3>1. ASSUME NEW t \in Kept, t < h PROVE t < k
      <4>1. t \in Int /\ h \in Int
        BY <1>3
      <4> QED
        BY <1>8, <3>1, <4>1
    <3> QED
      BY <3>1 DEF KeptBelow
  <2>2. h \in KeptBelow(k)
    BY <1>8 DEF KeptBelow
  <2>3. /\ Cardinality(KeptBelow(h)) <= Cardinality(KeptBelow(k))
        /\ Cardinality(KeptBelow(k)) = Cardinality(KeptBelow(h)) => KeptBelow(h) = KeptBelow(k)
    BY <1>5, <2>1, FS_Subset
  <2> QED
    BY <1>4, <1>6, <2>2, <2>3
<1> QED
  BY <1>6, <1>7, <1>8

\* What updateHeatMap() makes of a heat.
LEMMA UpdatedIs ==
    ASSUME IsRanked(heat_map), NEW c \in Cells
    PROVE  /\ c \notin Free => UpdatedHeat[c] = Wall
           /\ c \in Free /\ c \in Observable => UpdatedHeat[c] = Cardinality(Kept)
           /\ c \in Free /\ c \notin Observable /\ heat_map[c] = Unknown =>
                UpdatedHeat[c] = Unknown
           /\ c \in Free /\ c \notin Observable /\ heat_map[c] # Unknown =>
                /\ heat_map[c] \in Kept
                /\ UpdatedHeat[c] = Cardinality(KeptBelow(heat_map[c]))
<1>1. UpdatedHeat[c] =
        CASE heat_map[c] = Wall -> Wall
          [] c \in Observable /\ heat_map[c] # Wall -> Cardinality(Kept)
          [] c \notin Observable /\ heat_map[c] = Unknown -> Unknown
          [] OTHER -> Cardinality(KeptBelow(heat_map[c]))
  BY DEF UpdatedHeat, Kept, KeptBelow
<1>2. c \notin Free => heat_map[c] = Wall
  BY DEF IsRanked, Free
<1>3. c \in Free => heat_map[c] # Wall
  BY GridAssumption DEF IsRanked, Wall
<1>4. Wall # Unknown
  <2>1. PICK n \in Nat : n = Wall
    BY GridAssumption DEF Wall
  <2> QED
    BY <2>1 DEF Unknown
<1>5. c \in Free /\ c \notin Observable /\ heat_map[c] # Unknown => heat_map[c] \in Kept
  BY DEF Kept
<1>a. CASE c \notin Free
  BY <1>1, <1>2, <1>4, <1>a, Zenon
<1>b. CASE c \in Free /\ c \in Observable
  BY <1>1, <1>3, <1>b, Zenon
<1>c. CASE c \in Free /\ c \notin Observable /\ heat_map[c] = Unknown
  BY <1>1, <1>3, <1>c, Zenon
<1>d. CASE c \in Free /\ c \notin Observable /\ heat_map[c] # Unknown
  BY <1>1, <1>3, <1>5, <1>d, Zenon
<1> QED
  BY <1>a, <1>b, <1>c, <1>d, Zenon

LEMMA UpdatedIsRanked ==
    ASSUME IsRanked(heat_map)
    PROVE  IsRanked(UpdatedHeat)
<1>1. PICK n \in Nat : n = Wall
  BY GridAssumption DEF Wall
<1>2. ASSUME NEW c \in Free
      PROVE  UpdatedHeat[c] \in Int /\ Unknown <= UpdatedHeat[c] /\ UpdatedHeat[c] < Wall
  <2>1. c \in Cells
    BY DEF Free
  <2>2. CASE c \in Observable
    <3>1. Free \ Observable \in SUBSET Cells /\ Free \ Observable # Cells
      BY <2>1, <2>2 DEF Free
    <3>2. Kept \in SUBSET {heat_map[d] : d \in Free \ Observable} /\ heat_map \in [Cells -> Int]
      BY DEF Kept, IsRanked
    <3>3. Cardinality(Kept) \in Nat /\ Cardinality(Kept) < Wall
      BY <3>1, <3>2, HeatsAreFew
    <3> QED
      BY <1>2, <2>1, <2>2, <3>3, UpdatedIs DEF Unknown
  <2>3. CASE c \notin Observable /\ heat_map[c] = Unknown
    <3>1. UpdatedHeat[c] = Unknown
      BY <1>2, <2>1, <2>3, UpdatedIs
    <3> QED
      BY <1>1, <3>1 DEF Unknown
  <2>4. CASE c \notin Observable /\ heat_map[c] # Unknown
    <3>1. heat_map[c] \in Kept /\ UpdatedHeat[c] = Cardinality(KeptBelow(heat_map[c]))
      BY <1>2, <2>1, <2>4, UpdatedIs
    <3>2. /\ Cardinality(KeptBelow(heat_map[c])) \in Nat /\ Cardinality(Kept) \in Nat
          /\ Cardinality(KeptBelow(heat_map[c])) < Cardinality(Kept)
      BY <3>1, RanksKeepOrder
    <3>3. Free \ Observable \in SUBSET Cells /\ heat_map \in [Cells -> Int]
          /\ Kept \in SUBSET {heat_map[d] : d \in Free \ Observable}
      BY DEF Free, Kept, IsRanked
    <3>4. Cardinality(Kept) <= Wall
      BY <3>3, HeatsAreFew
    <3> QED
      BY <1>1, <3>1, <3>2, <3>4 DEF Unknown
  <2> QED
    BY <2>2, <2>3, <2>4
<1>3. ASSUME NEW c \in Cells, c \notin Free PROVE UpdatedHeat[c] = Wall
  BY <1>3, UpdatedIs
<1>4. UpdatedHeat = [c \in Cells |-> UpdatedHeat[c]]
  BY DEF UpdatedHeat
<1>5. \A c \in Cells : UpdatedHeat[c] \in Int
  BY <1>1, <1>2, <1>3
<1>6. UpdatedHeat \in [Cells -> Int]
  BY <1>4, <1>5, Zenon
<1> HIDE DEF UpdatedHeat
<1>7. \A c \in walls \cap Cells : UpdatedHeat[c] = Wall
  BY <1>3 DEF Free
<1> QED
  BY <1>2, <1>6, <1>7 DEF IsRanked

RankInv == heat_map # NoMap => IsRanked(heat_map)

LEMMA RankInvariant == Spec => []RankInv
<1>1. Init => RankInv
  BY DEF Init, RankInv
<1>2. RankInv /\ [Next]_vars => RankInv'
  <2> SUFFICES ASSUME RankInv, [Next]_vars PROVE RankInv'
    OBVIOUS
  <2>1. CASE Look
    <3>1. IsRanked(heat_map')
      <4>1. CASE heat_map = NoMap
        <5>1. heat_map' = InitialHeat
          BY <2>1, <4>1 DEF Look
        <5>2. PICK n \in Nat : n = Wall /\ n > 0
          BY GridAssumption DEF Wall
        <5> QED
          BY <5>1, <5>2 DEF InitialHeat, IsRanked, Free, Unknown
      <4>2. CASE heat_map # NoMap
        <5>1. heat_map' = UpdatedHeat
          BY <2>1, <4>2 DEF Look
        <5> QED
          BY <4>2, <5>1, UpdatedIsRanked DEF RankInv
      <4> QED
        BY <4>1, <4>2
    <3>2. walls' = walls
      BY <2>1 DEF Look
    <3> QED
      BY <3>1, <3>2 DEF RankInv, IsRanked, Free
  <2>2. CASE Command \/ (\E u \in Units : Step(u)) \/ GrowLate \/ UNCHANGED vars
    <3>1. UNCHANGED <<heat_map, walls>>
      BY <2>2 DEF Command, Step, GrowLate, vars
    <3> QED
      BY <3>1 DEF RankInv, IsRanked, Free
  <2> QED
    BY <2>1, <2>2 DEF Next
<1> QED
  BY <1>1, <1>2, PTL DEF Spec

\* What updateHeatMap() keeps of the times at which places were seen: what is in
\* sight is warmer than what is not, places out of sight keep their order, and
\* what has been seen once is known for good.  It is why ranks may stand for the
\* times of the code, and why the fog that searches reveal only gets less.
THEOREM HeatsFollowSight ==
    Spec => [][Look /\ heat_map # NoMap =>
                 \A c, d \in Free :
                   /\ heat_map'[c] = Unknown <=> c \notin Observable /\ heat_map[c] = Unknown
                   /\ c \in Observable /\ d \in Observable => heat_map'[c] = heat_map'[d]
                   /\ c \in Observable /\ d \notin Observable => heat_map'[d] < heat_map'[c]
                   /\ c \notin Observable /\ d \notin Observable =>
                        (heat_map'[c] < heat_map'[d] <=> heat_map[c] < heat_map[d])]_vars
<1> DEFINE Follows ==
             Look /\ heat_map # NoMap =>
                 \A c, d \in Free :
                   /\ heat_map'[c] = Unknown <=> c \notin Observable /\ heat_map[c] = Unknown
                   /\ c \in Observable /\ d \in Observable => heat_map'[c] = heat_map'[d]
                   /\ c \in Observable /\ d \notin Observable => heat_map'[d] < heat_map'[c]
                   /\ c \notin Observable /\ d \notin Observable =>
                        (heat_map'[c] < heat_map'[d] <=> heat_map[c] < heat_map[d])
<1>1. RankInv /\ [Next]_vars => [Follows]_vars
  <2> SUFFICES ASSUME RankInv, Look, heat_map # NoMap, NEW c \in Free, NEW d \in Free
               PROVE
                   /\ heat_map'[c] = Unknown <=> c \notin Observable /\ heat_map[c] = Unknown
                   /\ c \in Observable /\ d \in Observable => heat_map'[c] = heat_map'[d]
                   /\ c \in Observable /\ d \notin Observable => heat_map'[d] < heat_map'[c]
                   /\ c \notin Observable /\ d \notin Observable =>
                        (heat_map'[c] < heat_map'[d] <=> heat_map[c] < heat_map[d])
    OBVIOUS
  <2>1. heat_map' = UpdatedHeat /\ IsRanked(heat_map)
    BY DEF Look, RankInv
  <2>2. c \in Cells /\ d \in Cells
    BY DEF Free
  <2>3. /\ heat_map[c] \in Int /\ heat_map[d] \in Int
        /\ Unknown <= heat_map[c] /\ Unknown <= heat_map[d]
    BY <2>1, <2>2 DEF IsRanked
  <2>4. Cardinality(Kept) \in Nat
    <3>1. Free \ Observable \in SUBSET Cells /\ heat_map \in [Cells -> Int]
          /\ Kept \in SUBSET {heat_map[e] : e \in Free \ Observable}
      BY <2>1 DEF Free, Kept, IsRanked
    <3> QED
      BY <3>1, HeatsAreFew
  <2> DEFINE Rank(e) == Cardinality(KeptBelow(heat_map[e]))
  <2>5. \A e \in {c, d} :
          /\ e \in Observable => heat_map'[e] = Cardinality(Kept)
          /\ e \notin Observable /\ heat_map[e] = Unknown => heat_map'[e] = Unknown
          /\ e \notin Observable /\ heat_map[e] # Unknown =>
               heat_map[e] \in Kept /\ heat_map'[e] = Rank(e)
    BY <2>1, <2>2, UpdatedIs
  <2>6. \A e, f \in {c, d} : heat_map[e] \in Kept =>
          /\ Rank(e) \in Nat /\ Rank(f) \in Nat /\ Rank(e) < Cardinality(Kept)
          /\ heat_map[e] < heat_map[f] => Rank(e) < Rank(f)
    BY <2>1, <2>3, RanksKeepOrder
  <2>7. heat_map[c] = heat_map[d] => Rank(c) = Rank(d)
    OBVIOUS
  <2> HIDE DEF Rank
  <2>8. Unknown = -1
    BY DEF Unknown
  <2>9. CASE c \in Observable /\ d \in Observable
    BY <2>4, <2>5, <2>8, <2>9
  <2>10. CASE c \in Observable /\ d \notin Observable
    BY <2>4, <2>5, <2>6, <2>8, <2>10
  <2>11. CASE c \notin Observable /\ d \in Observable
    BY <2>4, <2>5, <2>6, <2>8, <2>11
  <2>12. CASE c \notin Observable /\ d \notin Observable
    <3>1. CASE heat_map[c] = Unknown /\ heat_map[d] = Unknown
      BY <2>3, <2>5, <2>8, <2>12, <3>1
    <3>2. CASE heat_map[c] = Unknown /\ heat_map[d] # Unknown
      BY <2>3, <2>5, <2>6, <2>8, <2>12, <3>2
    <3>3. CASE heat_map[c] # Unknown /\ heat_map[d] = Unknown
      BY <2>3, <2>5, <2>6, <2>8, <2>12, <3>3
    <3>4. CASE heat_map[c] # Unknown /\ heat_map[d] # Unknown
      BY <2>3, <2>5, <2>6, <2>7, <2>8, <2>12, <3>4
    <3> QED
      BY <3>1, <3>2, <3>3, <3>4
  <2> QED
    BY <2>9, <2>10, <2>11, <2>12
<1> QED
  BY <1>1, RankInvariant, PTL DEF Spec

\* A scan column by column comes to every place of the map, and to no other.
LEMMA ColumnsCover ==
    /\ DOMAIN ColByCol = 1 .. Width * Height
    /\ \A i \in 1 .. Width * Height : ColByCol[i] \in Cells
    /\ \A c \in Cells : \E i \in 1 .. Width * Height : ColByCol[i] = c
<1> USE GridAssumption
<1>1. ASSUME NEW i \in 1 .. Width * Height PROVE ColByCol[i] \in Cells
  <2>1. (i - 1) \div Height \in 0 .. Width - 1
    OBVIOUS
  <2>2. (i - 1) % Height \in 0 .. Height - 1
    OBVIOUS
  <2> QED
    BY <2>1, <2>2 DEF ColByCol, Cells
<1>2. ASSUME NEW c \in Cells PROVE \E i \in 1 .. Width * Height : ColByCol[i] = c
  <2>1. PICK x \in 0 .. Width - 1, y \in 0 .. Height - 1 : c = <<x, y>>
    BY DEF Cells
  <2>2. x * Height + y + 1 \in 1 .. Width * Height
    OBVIOUS
  <2>3. (x * Height + y) % Height = y /\ (x * Height + y) \div Height = x
    OBVIOUS
  <2>4. PICK i \in 1 .. Width * Height : i = x * Height + y + 1
    BY <2>2
  <2>5. i - 1 = x * Height + y
    BY <2>4
  <2>6. (i - 1) % Height = y /\ (i - 1) \div Height = x
    BY <2>3, <2>5
  <2>7. ColByCol[i] = <<x, y>>
    BY <2>6 DEF ColByCol
  <2> QED
    BY <2>1, <2>7
<1> QED
  BY <1>1, <1>2 DEF ColByCol

\* No place of the map is as far from another as Far.
LEMMA PlacesAreNear ==
    ASSUME NEW c \in Cells, NEW d \in Cells
    PROVE  Manhattan(c, d) \in Int /\ Manhattan(c, d) < Far
<1>1. /\ c[1] \in 0 .. Width - 1 /\ c[2] \in 0 .. Height - 1
      /\ d[1] \in 0 .. Width - 1 /\ d[2] \in 0 .. Height - 1
  BY DEF Cells
<1>2. PICK w \in Nat, h \in Nat : w = Width * Width /\ h = Height * Height /\ w >= Width /\ h >= Height
  BY GridAssumption
<1>3. /\ Abs(d[1] - c[1]) \in Int /\ Abs(d[1] - c[1]) < Width
      /\ Abs(d[2] - c[2]) \in Int /\ Abs(d[2] - c[2]) < Height
  BY <1>1, GridAssumption DEF Abs
<1>4. Far = w + h
  BY <1>2 DEF Far
<1> QED
  BY <1>2, <1>3, <1>4, GridAssumption DEF Manhattan

\* What the scan for the place closest to the base holds: no place yet, or one
\* that reveals enough fog, at the distance held.
Offers == [distance : Int, tie : Int, place : Cells \union {NoGoal}]

IsOffer(b) ==
    /\ b \in Offers
    /\ b.place = NoGoal => b.distance = Far
    /\ b.place # NoGoal => RevealsEnough(b.place) /\ b.distance = Manhattan(base, b.place)

LEMMA CloserIsOffer ==
    ASSUME base \in Cells, NEW from \in Cells, NEW b, IsOffer(b), NEW c \in Cells
    PROVE  /\ IsOffer(Closer(from, b, c))
           /\ Closer(from, b, c).distance <= b.distance
           /\ RevealsEnough(c) => Closer(from, b, c).distance <= Manhattan(base, c)
<1>1. PICK d \in Int, t \in Int : d = Manhattan(base, c) /\ t = Manhattan(from, c) /\ d < Far
  BY PlacesAreNear
<1>2. b \in Offers /\ b.distance \in Int
  BY DEF IsOffer, Offers
<1>3. c # NoGoal
  BY GridAssumption DEF Cells, NoGoal
<1>4. CASE ~ RevealsEnough(c)
  <2>1. Closer(from, b, c) = b
    BY <1>4 DEF Closer
  <2> QED
    BY <2>1, <1>2, <1>4
<1>5. CASE RevealsEnough(c) /\ d < b.distance
  <2>1. Closer(from, b, c) = [b EXCEPT !.distance = d, !.place = c]
    BY <1>1, <1>5 DEF Closer
  <2>2. PICK e : e = [distance |-> d, tie |-> b.tie, place |-> c]
    OBVIOUS
  <2>3. e = Closer(from, b, c)
    BY <1>2, <2>1, <2>2 DEF Offers
  <2>4. e \in Offers /\ e.distance = d /\ e.place = c
    BY <2>2, <1>2 DEF Offers
  <2>5. IsOffer(e)
    BY <2>4, <1>1, <1>3, <1>5 DEF IsOffer
  <2>6. e.distance <= b.distance
    BY <2>4, <1>2, <1>5
  <2> QED
    BY <2>3, <2>4, <2>5, <2>6, <1>1
<1>6. CASE RevealsEnough(c) /\ ~ (d < b.distance) /\ d = b.distance /\ t < b.tie
  <2>1. Closer(from, b, c) = [b EXCEPT !.tie = t, !.place = c]
    BY <1>1, <1>6 DEF Closer
  <2>2. PICK e : e = [distance |-> b.distance, tie |-> t, place |-> c]
    OBVIOUS
  <2>3. e = Closer(from, b, c)
    BY <1>2, <2>1, <2>2 DEF Offers
  <2>4. e \in Offers /\ e.distance = d /\ e.place = c
    BY <2>2, <1>2, <1>6 DEF Offers
  <2>5. IsOffer(e)
    BY <2>4, <1>1, <1>3, <1>6 DEF IsOffer
  <2> QED
    BY <2>3, <2>4, <2>5, <1>1, <1>6
<1>7. CASE RevealsEnough(c) /\ ~ (d < b.distance) /\ ~ (d = b.distance /\ t < b.tie)
  <2>1. Closer(from, b, c) = b
    BY <1>1, <1>7 DEF Closer
  <2> QED
    BY <2>1, <1>1, <1>2, <1>7
<1> QED
  BY <1>4, <1>5, <1>6, <1>7

NoOffer == [distance |-> Far, tie |-> Far, place |-> NoGoal]

\* The function that the scan iterates.
Seeking(from, g) ==
    g = [s \in SUBSET (DOMAIN ColByCol) |->
           IF s = {} THEN NoOffer
           ELSE Closer(from, g[s \ {Max(s)}], ColByCol[Max(s)])]

LEMMA NearestIsSought ==
    ASSUME NEW from
    PROVE  Nearest(from) = (CHOOSE g : Seeking(from, g))[DOMAIN ColByCol].place
  BY DEF Nearest, FoldLeft, MapThenFoldSet, Seeking, NoOffer

\* The scan finds a place if any reveals enough fog, and then it reveals enough
\* and is as close to the base as any that does.
LEMMA NearestIsNearest ==
    ASSUME base \in Cells, NEW from \in Cells
    PROVE  /\ (\E c \in Cells : RevealsEnough(c)) => Nearest(from) # NoGoal
           /\ Nearest(from) # NoGoal =>
                /\ Nearest(from) \in Cells
                /\ RevealsEnough(Nearest(from))
                /\ \A c \in Cells : RevealsEnough(c) =>
                      Manhattan(base, Nearest(from)) <= Manhattan(base, c)
<1> DEFINE Offered == {b \in Offers : IsOffer(b)}
<1>0. \A b : b \in Offered <=> IsOffer(b)
  BY DEF IsOffer
<1>1. PICK n \in Nat : n = Width * Height
  BY GridAssumption
<1>2. /\ DOMAIN ColByCol = 1 .. n
      /\ \A i \in 1 .. n : ColByCol[i] \in Cells
      /\ \A c \in Cells : \E i \in 1 .. n : ColByCol[i] = c
  BY <1>1, ColumnsCover
<1>3. NoOffer \in Offered
  <2>1. Far \in Int
    BY GridAssumption DEF Far
  <2> QED
    BY <2>1 DEF NoOffer, Offers, IsOffer
<1> HIDE DEF Offered
<1>4. PICK g : Seeking(from, g) /\ Nearest(from) = g[1 .. n].place
  <2> DEFINE stepping == [p \in Offered \X (1 .. n) |-> Closer(from, p[1], ColByCol[p[2]])]
  <2>1. \A b \in Offered, i \in 1 .. n : stepping[<<b, i>>] = Closer(from, b, ColByCol[i])
    OBVIOUS
  <2>2. \A b \in Offered, i \in 1 .. n : Closer(from, b, ColByCol[i]) \in Offered
    BY <1>0, <1>2, CloserIsOffer
  <2>3. \A b \in Offered, i \in 1 .. n : stepping[<<b, i>>] \in Offered
    BY <2>1, <2>2
  <2> HIDE DEF stepping
  <2>4. PICK h : Folds(h, n, Offered, NoOffer, stepping)
    BY <1>3, <2>3, FoldExists
  <2>5. ASSUME NEW s \in SUBSET (1 .. n)
        PROVE  h[s] = IF s = {} THEN NoOffer
                      ELSE Closer(from, h[s \ {Max(s)}], ColByCol[Max(s)])
    <3>1. s # {} => Max(s) \in 1 .. n
      BY MaxOfNats
    <3>2. h[s \ {Max(s)}] \in Offered
      BY <2>4 DEF Folds
    <3>3. h[s] = IF s = {} THEN NoOffer ELSE stepping[<<h[s \ {Max(s)}], Max(s)>>]
      BY <2>4 DEF Folds
    <3> QED
      BY <2>1, <3>1, <3>2, <3>3
  <2>6. h = [s \in SUBSET (1 .. n) |-> h[s]]
    BY <2>4 DEF Folds
  <2>7. Seeking(from, h)
    <3> DEFINE k == [s \in SUBSET (1 .. n) |->
                       IF s = {} THEN NoOffer
                       ELSE Closer(from, h[s \ {Max(s)}], ColByCol[Max(s)])]
    <3>1. \A s \in SUBSET (1 .. n) : h[s] = k[s]
      BY <2>5
    <3>2. h = k
      BY <2>6, <3>1
    <3> QED
      BY <3>2, <1>2 DEF Seeking
  <2>8. Seeking(from, CHOOSE q : Seeking(from, q))
    BY <2>7
  <2> QED
    BY <2>8, <1>2, NearestIsSought
<1>5. /\ g[{}] = NoOffer
      /\ \A k \in 1 .. n : g[1 .. k] = Closer(from, g[1 .. k - 1], ColByCol[k])
  <2>1. ASSUME NEW s \in SUBSET (1 .. n)
        PROVE  g[s] = IF s = {} THEN NoOffer
                      ELSE Closer(from, g[s \ {Max(s)}], ColByCol[Max(s)])
    <3> DEFINE k == [t \in SUBSET (1 .. n) |->
                       IF t = {} THEN NoOffer
                       ELSE Closer(from, g[t \ {Max(t)}], ColByCol[Max(t)])]
    <3>1. g = k
      BY <1>4, <1>2 DEF Seeking
    <3>2. g[s] = k[s]
      BY <3>1
    <3> QED
      BY <3>2
  <2>2. ASSUME NEW k \in 1 .. n PROVE g[1 .. k] = Closer(from, g[1 .. k - 1], ColByCol[k])
    <3>1. 1 .. k \in SUBSET (1 .. n) /\ 1 .. k # {} /\ k \in 1 .. k
      OBVIOUS
    <3>2. Max(1 .. k) \in 1 .. k /\ Max(1 .. k) >= k
      BY <3>1, MaxOfNats
    <3>3. Max(1 .. k) = k
      BY <3>2
    <3>4. (1 .. k) \ {k} = 1 .. k - 1
      OBVIOUS
    <3> QED
      BY <2>1, <3>1, <3>3, <3>4
  <2> QED
    BY <2>1, <2>2
<1> DEFINE Bad == {k \in 0 .. n :
                     ~ /\ IsOffer(g[1 .. k])
                       /\ \A i \in 1 .. k : RevealsEnough(ColByCol[i]) =>
                             g[1 .. k].distance <= Manhattan(base, ColByCol[i])}
<1>6. Bad = {}
  <2> SUFFICES ASSUME Bad # {} PROVE FALSE
    OBVIOUS
  <2>1. PICK k \in Bad : \A j \in Bad : k <= j
    <3>1. Bad \in SUBSET Nat
      OBVIOUS
    <3> HIDE DEF Bad
    <3> QED
      BY <3>1, LeastNat
  <2>2. k # 0
    <3>1. 1 .. 0 = {}
      OBVIOUS
    <3>2. IsOffer(g[1 .. 0])
      BY <1>0, <1>3, <1>5, <3>1
    <3> QED
      BY <3>1, <3>2
  <2>3. k \in 1 .. n /\ k - 1 \in 0 .. n /\ ~ (k <= k - 1)
    BY <2>2
  <2>4. k - 1 \notin Bad
    BY <2>1, <2>3
  <2>5. PICK b : b = g[1 .. k - 1]
    OBVIOUS
  <2>6. /\ IsOffer(b)
        /\ \A i \in 1 .. k - 1 : RevealsEnough(ColByCol[i]) =>
              b.distance <= Manhattan(base, ColByCol[i])
    BY <2>3, <2>4, <2>5
  <2>7. PICK e : e = Closer(from, b, ColByCol[k]) /\ e = g[1 .. k]
    BY <1>5, <2>3, <2>5
  <2>8. /\ IsOffer(e) /\ e.distance <= b.distance
        /\ RevealsEnough(ColByCol[k]) => e.distance <= Manhattan(base, ColByCol[k])
    <3>1. PICK c \in Cells : c = ColByCol[k]
      BY <1>2, <2>3
    <3>2. e = Closer(from, b, c)
      BY <2>7, <3>1
    <3> QED
      BY <2>6, <3>1, <3>2, CloserIsOffer
  <2>9. \A i \in 1 .. k : RevealsEnough(ColByCol[i]) =>
           e.distance <= Manhattan(base, ColByCol[i])
    <3> SUFFICES ASSUME NEW i \in 1 .. k, RevealsEnough(ColByCol[i])
                 PROVE  e.distance <= Manhattan(base, ColByCol[i])
      OBVIOUS
    <3>1. ColByCol[i] \in Cells
      BY <1>2, <2>3
    <3>2. Manhattan(base, ColByCol[i]) \in Int
      BY <3>1, PlacesAreNear
    <3>3. e.distance \in Int /\ b.distance \in Int
      BY <2>6, <2>8 DEF IsOffer, Offers
    <3>4. i = k \/ i \in 1 .. k - 1
      BY <2>3
    <3> QED
      BY <2>6, <2>8, <3>2, <3>3, <3>4
  <2> QED
    BY <2>1, <2>7, <2>8, <2>9
<1>7. PICK b : b = g[1 .. n]
  OBVIOUS
<1>8. /\ IsOffer(b)
      /\ \A i \in 1 .. n : RevealsEnough(ColByCol[i]) =>
            b.distance <= Manhattan(base, ColByCol[i])
  BY <1>6, <1>7
<1>9. \A c \in Cells : RevealsEnough(c) => b.distance <= Manhattan(base, c)
  BY <1>2, <1>8
<1>10. ASSUME NEW c \in Cells, RevealsEnough(c) PROVE b.place # NoGoal
  <2>1. b.distance <= Manhattan(base, c)
    BY <1>9, <1>10
  <2>2. Manhattan(base, c) \in Int /\ Manhattan(base, c) < Far
    BY PlacesAreNear
  <2>3. Far \in Int
    BY GridAssumption DEF Far
  <2> QED
    BY <1>8, <2>1, <2>2, <2>3 DEF IsOffer
<1>11. b.place # NoGoal => b.place \in Cells /\ RevealsEnough(b.place)
                             /\ b.distance = Manhattan(base, b.place)
  BY <1>8 DEF IsOffer, Offers
<1>12. Nearest(from) = b.place
  BY <1>4, <1>7
<1> QED
  BY <1>9, <1>10, <1>11, <1>12

\* A place that reveals enough fog, and as close to the initial base as any that
\* does.
IsClosestFog(c) ==
    RevealsEnough(c) /\ \A d \in Cells : RevealsEnough(d) => Manhattan(base, c) <= Manhattan(base, d)

\* A worker that knows of no resource never searches at random while a place
\* reveals enough fog: searchResources() sends it to one as close to the initial
\* base as any, whatever distance to the worker the scan keeps from places
\* farther away; it stays only where no way leads there.
THEOREM SearchersStayNearBase ==
    Spec => [][Command /\ base # NoBase /\ (\E c \in Cells : RevealsEnough(c)) =>
                 \A u \in Idle \cap Searchers :
                    \E c \in Cells :
                       /\ IsClosestFog(c)
                       /\ goal'[u] = IF Walkable(u, c) THEN c ELSE NoGoal]_vars
<1> DEFINE WellSought ==
             Command /\ base # NoBase /\ (\E c \in Cells : RevealsEnough(c)) =>
                 \A u \in Idle \cap Searchers :
                    \E c \in Cells :
                       /\ IsClosestFog(c)
                       /\ goal'[u] = IF Walkable(u, c) THEN c ELSE NoGoal
<1>1. MapInv /\ [Next]_vars => [WellSought]_vars
  <2> SUFFICES ASSUME MapInv, Command, base # NoBase, \E c \in Cells : RevealsEnough(c),
                      NEW u \in Idle \cap Searchers
               PROVE  \E c \in Cells :
                         /\ IsClosestFog(c)
                         /\ goal'[u] = IF Walkable(u, c) THEN c ELSE NoGoal
    OBVIOUS
  <2>1. u \in Units /\ u \notin Army /\ u \in Idle /\ at[u] # NoGoal
    BY ExplorationAssumption DEF Idle, Present, Units
  <2>2. base \in Cells /\ at[u] \in Cells
    BY <2>1 DEF MapInv
  <2>3. PICK random \in [Searchers -> RandomPlaces] :
            goal'[u] = LET c == Target(u, random) IN IF Walkable(u, c) THEN c ELSE NoGoal
    BY <2>1 DEF Command
  <2>4. PICK c : c = Nearest(at[u])
    OBVIOUS
  <2>5. c \in Cells /\ c # NoGoal /\ IsClosestFog(c)
    BY <2>2, <2>4, NearestIsNearest DEF IsClosestFog
  <2>6. Target(u, random) = c
    BY <2>1, <2>4, <2>5 DEF Target, SearchGoal
  <2>7. goal'[u] = IF Walkable(u, c) THEN c ELSE NoGoal
    BY <2>3, <2>6
  <2> QED
    BY <2>5, <2>7
<1> QED
  BY <1>1, MapInvariant, PTL DEF Spec

-----------------------------------------------------------------------------
(* SpiralSearch: the walk is the spiral that the comment of the function   *)
(* draws, and what it finds is as near to the builder as can be.           *)

\* Which way the legs go.
LEMMA LegParity ==
    ASSUME NEW k \in Nat
    PROVE  /\ (2 * k + 1) % 2 = 1
           /\ (2 * k + 2) % 2 = 0
  BY SMT

LEMMA SearchTypeStep == SearchTypeOK /\ [Walk]_search_vars => SearchTypeOK'
<1> SUFFICES ASSUME SearchTypeOK, [Walk]_search_vars PROVE SearchTypeOK'
  OBVIOUS
<1>1. CASE Walk
  <2>1. Forward \in Int
    BY DEF Forward
  <2>2. place' \in Int \X Int
    BY <1>1, <2>1 DEF Walk, AlongX, AlongY, SearchTypeOK
  <2>3. step' \in Nat /\ target' \in Nat \ {0}
    BY <1>1 DEF Walk, GoOn, Turn, SearchTypeOK
  <2>4. x_turn' \in BOOLEAN
    BY <1>1, Zenon DEF Walk, GoOn, Turn, SearchTypeOK
  <2> QED BY <1>1, <2>2, <2>3, <2>4 DEF Walk, SearchTypeOK
<1>2. CASE UNCHANGED search_vars
  BY <1>2 DEF search_vars, SearchTypeOK
<1> QED BY <1>1, <1>2

\* Type correctness of the search: the place may be off the map.
THEOREM SearchTypeInv == SearchSpec => []SearchTypeOK
<1>1. SearchInit => SearchTypeOK
  BY GridAssumption DEF SearchInit, StartsAt, SearchTypeOK, Cells
<1> QED BY <1>1, SearchTypeStep, PTL DEF SearchSpec

-----------------------------------------------------------------------------
(* What has been passed is put together from rectangles.                   *)

LEMMA ClearBeside ==
    ASSUME NEW room, NEW o, NEW left \in Int, NEW middle \in Int, NEW right \in Int,
           NEW top \in Int, NEW bottom \in Int,
           Clear(room, o, left, middle, top, bottom),
           Clear(room, o, middle + 1, right, top, bottom)
    PROVE  Clear(room, o, left, right, top, bottom)
<1>1. \A dx \in left .. right : dx \in left .. middle \/ dx \in middle + 1 .. right
  OBVIOUS
<1> QED BY <1>1, Zenon DEF Clear

LEMMA ClearBelow ==
    ASSUME NEW room, NEW o, NEW left \in Int, NEW right \in Int,
           NEW top \in Int, NEW middle \in Int, NEW bottom \in Int,
           Clear(room, o, left, right, top, middle),
           Clear(room, o, left, right, middle + 1, bottom)
    PROVE  Clear(room, o, left, right, top, bottom)
<1>1. \A dy \in top .. bottom : dy \in top .. middle \/ dy \in middle + 1 .. bottom
  OBVIOUS
<1> QED BY <1>1, Zenon DEF Clear

LEMMA ClearNone ==
    ASSUME NEW room, NEW o, NEW left \in Int, NEW right \in Int,
           NEW top \in Int, NEW bottom \in Int, left > right \/ top > bottom
    PROVE  Clear(room, o, left, right, top, bottom)
<1>1. left .. right = {} \/ top .. bottom = {}
  OBVIOUS
<1> QED BY <1>1, Zenon DEF Clear

\* The place the walk leaves had no room around it.
LEMMA ClearPlace ==
    ASSUME NEW room, NEW o, NEW dx \in Int, NEW dy \in Int,
           <<o[1] + dx, o[2] + dy>> \notin room
    PROVE  Clear(room, o, dx, dx, dy, dy)
  BY DEF Clear

-----------------------------------------------------------------------------
(* The four sides of the spiral.                                           *)

\* A step of the walk changes neither the map nor the origin, and leaves a place
\* without room.
LEMMA WalkOverMap ==
    ASSUME SearchTypeOK, Walk
    PROVE  /\ Room' = Room /\ origin' = origin /\ place \notin Room
           /\ origin[1] \in Int /\ origin[2] \in Int
<1>1. Room' = Room /\ origin' = origin
  BY DEF Walk, Room, FreeAround
<1>2. origin \in Cells /\ place \notin Room
  BY DEF SearchTypeOK, Walk, Found
<1> QED BY <1>1, <1>2, GridAssumption DEF Cells

\* On to the right, or round the corner and down.
LEMMA StepRight ==
    ASSUME SearchTypeOK, Walk, NEW k \in Nat, GoesRight(k), step \in 0 .. target - 1
    PROVE  GoesRight(k)' \/ GoesDown(k)'
<1>1. /\ step \in Nat /\ target = 2 * k + 1
      /\ place = <<origin[1] + (step - k), origin[2] + (-k)>>
  BY DEF GoesRight, OnLeg, SearchTypeOK
<1>2. x_turn = TRUE
  BY Zenon DEF GoesRight, OnLeg
<1>3. place' = <<origin[1] + (step - k + 1), origin[2] + (-k)>>
  BY <1>1, <1>2, LegParity, WalkOverMap DEF Walk, AlongX, Forward
<1>4. Clear(Room, origin, -k, step - k, -k, -k)
  <2>1. Clear(Room, origin, step - k, step - k, -k, -k)
    BY <1>1, ClearPlace, WalkOverMap
  <2>2. Clear(Room, origin, -k, step - k - 1, -k, -k)
    BY DEF GoesRight, Passed
  <2>3. (step - k - 1) + 1 = step - k
    BY <1>1
  <2> QED BY <1>1, <2>1, <2>2, <2>3, ClearBeside
<1>5. CASE GoOn
  <2>1. step' = step + 1 /\ target' = target /\ x_turn' = x_turn
    BY <1>5 DEF GoOn
  <2>2. step' - k = step - k + 1 /\ step' - k - 1 = step - k
    BY <1>1, <2>1
  <2>3. OnLeg(k, TRUE, TRUE, step - k, -k)'
    BY <1>1, <1>2, <1>3, <2>1, <2>2, WalkOverMap DEF OnLeg
  <2>4. Passed(-k, k, 1 - k, k)' /\ Passed(-k, step - k - 1, -k, -k)'
    BY <1>4, <2>2, WalkOverMap DEF GoesRight, Passed
  <2> QED BY <2>3, <2>4 DEF GoesRight
<1>6. CASE Turn
  <2>1. step = 2 * k /\ step' = 0 /\ target' = target
    BY <1>1, <1>2, <1>6 DEF Turn
  <2>2. x_turn' = FALSE
    BY <1>2, <1>6, Zenon DEF Turn
  <2>3. OnLeg(k, TRUE, FALSE, k + 1, step - k)'
    <3>1. step - k + 1 = k + 1 /\ step' - k = -k
      BY <1>1, <2>1
    <3> QED BY <1>1, <1>3, <2>1, <2>2, <3>1, WalkOverMap DEF OnLeg
  <2>4. Passed(-k, k, -k, k)'
    <3>1. step - k = k /\ 1 - k = (-k) + 1
      BY <1>1, <2>1
    <3>2. Clear(Room, origin, -k, k, -k, -k) /\ Clear(Room, origin, -k, k, (-k) + 1, k)
      BY <1>4, <3>1 DEF GoesRight, Passed
    <3>3. Clear(Room, origin, -k, k, -k, k)
      BY <3>2, ClearBelow
    <3> QED BY <3>3, WalkOverMap DEF Passed
  <2>5. Passed(k + 1, k + 1, -k, step - k - 1)'
    <3>1. step' - k - 1 = -k - 1 /\ -k > -k - 1 /\ -k - 1 \in Int
      BY <2>1
    <3>2. Clear(Room, origin, k + 1, k + 1, -k, -k - 1)
      BY <3>1, ClearNone
    <3> QED BY <3>1, <3>2, WalkOverMap DEF Passed
  <2> QED BY <2>3, <2>4, <2>5 DEF GoesDown
<1> QED BY <1>5, <1>6 DEF Walk

\* On down, or round the corner and to the left.
LEMMA StepDown ==
    ASSUME SearchTypeOK, Walk, NEW k \in Nat, GoesDown(k), step \in 0 .. target - 1
    PROVE  GoesDown(k)' \/ GoesLeft(k)'
<1>1. /\ step \in Nat /\ target = 2 * k + 1
      /\ place = <<origin[1] + (k + 1), origin[2] + (step - k)>>
  BY DEF GoesDown, OnLeg, SearchTypeOK
<1>2. x_turn = FALSE
  BY Zenon DEF GoesDown, OnLeg
<1>3. place' = <<origin[1] + (k + 1), origin[2] + (step - k + 1)>>
  BY <1>1, <1>2, LegParity, WalkOverMap DEF Walk, AlongY, Forward
<1>4. Clear(Room, origin, k + 1, k + 1, -k, step - k)
  <2>1. Clear(Room, origin, k + 1, k + 1, step - k, step - k)
    BY <1>1, ClearPlace, WalkOverMap
  <2>2. Clear(Room, origin, k + 1, k + 1, -k, step - k - 1)
    BY DEF GoesDown, Passed
  <2>3. (step - k - 1) + 1 = step - k
    BY <1>1
  <2> QED BY <1>1, <2>1, <2>2, <2>3, ClearBelow
<1>5. CASE GoOn
  <2>1. step' = step + 1 /\ target' = target /\ x_turn' = x_turn
    BY <1>5 DEF GoOn
  <2>2. step' - k = step - k + 1 /\ step' - k - 1 = step - k
    BY <1>1, <2>1
  <2>3. OnLeg(k, TRUE, FALSE, k + 1, step - k)'
    BY <1>1, <1>2, <1>3, <2>1, <2>2, WalkOverMap DEF OnLeg
  <2>4. Passed(-k, k, -k, k)' /\ Passed(k + 1, k + 1, -k, step - k - 1)'
    BY <1>4, <2>2, WalkOverMap DEF GoesDown, Passed
  <2> QED BY <2>3, <2>4 DEF GoesDown
<1>6. CASE Turn
  <2>1. step = 2 * k /\ step' = 0 /\ target' = 2 * k + 2
    BY <1>1, <1>2, <1>6 DEF Turn
  <2>2. x_turn' = TRUE
    BY <1>2, <1>6, Zenon DEF Turn
  <2>3. OnLeg(k, FALSE, TRUE, k + 1 - step, k + 1)'
    <3>1. step - k + 1 = k + 1 /\ k + 1 - step' = k + 1
      BY <1>1, <2>1
    <3> QED BY <1>3, <2>1, <2>2, <3>1, WalkOverMap DEF OnLeg
  <2>4. Passed(-k, k + 1, -k, k)'
    <3>1. step - k = k
      BY <1>1, <2>1
    <3>2. Clear(Room, origin, -k, k, -k, k) /\ Clear(Room, origin, k + 1, k + 1, -k, k)
      BY <1>4, <3>1 DEF GoesDown, Passed
    <3>3. Clear(Room, origin, -k, k + 1, -k, k)
      BY <3>2, ClearBeside
    <3> QED BY <3>3, WalkOverMap DEF Passed
  <2>5. Passed(k + 2 - step, k + 1, k + 1, k + 1)'
    <3>1. k + 2 - step' = k + 2 /\ k + 2 > k + 1
      BY <2>1
    <3>2. Clear(Room, origin, k + 2, k + 1, k + 1, k + 1)
      BY <3>1, ClearNone
    <3> QED BY <3>1, <3>2, WalkOverMap DEF Passed
  <2> QED BY <2>3, <2>4, <2>5 DEF GoesLeft
<1> QED BY <1>5, <1>6 DEF Walk

\* On to the left, or round the corner and up.
LEMMA StepLeft ==
    ASSUME SearchTypeOK, Walk, NEW k \in Nat, GoesLeft(k), step \in 0 .. target - 1
    PROVE  GoesLeft(k)' \/ GoesUp(k)'
<1>1. /\ step \in Nat /\ target = 2 * k + 2
      /\ place = <<origin[1] + (k + 1 - step), origin[2] + (k + 1)>>
  BY DEF GoesLeft, OnLeg, SearchTypeOK
<1>2. x_turn = TRUE
  BY Zenon DEF GoesLeft, OnLeg
<1>3. place' = <<origin[1] + (k - step), origin[2] + (k + 1)>>
  BY <1>1, <1>2, LegParity, WalkOverMap DEF Walk, AlongX, Forward
<1>4. Clear(Room, origin, k + 1 - step, k + 1, k + 1, k + 1)
  <2>1. Clear(Room, origin, k + 1 - step, k + 1 - step, k + 1, k + 1)
    BY <1>1, ClearPlace, WalkOverMap
  <2>2. Clear(Room, origin, k + 2 - step, k + 1, k + 1, k + 1)
    BY DEF GoesLeft, Passed
  <2>3. (k + 1 - step) + 1 = k + 2 - step
    BY <1>1
  <2> QED BY <1>1, <2>1, <2>2, <2>3, ClearBeside
<1>5. CASE GoOn
  <2>1. step' = step + 1 /\ target' = target /\ x_turn' = x_turn
    BY <1>5 DEF GoOn
  <2>2. k + 1 - step' = k - step /\ k + 2 - step' = k + 1 - step
    BY <1>1, <2>1
  <2>3. OnLeg(k, FALSE, TRUE, k + 1 - step, k + 1)'
    BY <1>1, <1>2, <1>3, <2>1, <2>2, WalkOverMap DEF OnLeg
  <2>4. Passed(-k, k + 1, -k, k)' /\ Passed(k + 2 - step, k + 1, k + 1, k + 1)'
    BY <1>4, <2>2, WalkOverMap DEF GoesLeft, Passed
  <2> QED BY <2>3, <2>4 DEF GoesLeft
<1>6. CASE Turn
  <2>1. step = 2 * k + 1 /\ step' = 0 /\ target' = target
    BY <1>1, <1>2, <1>6 DEF Turn
  <2>2. x_turn' = FALSE
    BY <1>2, <1>6, Zenon DEF Turn
  <2>3. OnLeg(k, FALSE, FALSE, -k - 1, k + 1 - step)'
    <3>1. k - step = -k - 1 /\ k + 1 - step' = k + 1
      BY <1>1, <2>1
    <3> QED BY <1>1, <1>3, <2>1, <2>2, <3>1, WalkOverMap DEF OnLeg
  <2>4. Passed(-k, k + 1, -k, k + 1)'
    <3>1. k + 1 - step = -k
      BY <1>1, <2>1
    <3>2. Clear(Room, origin, -k, k + 1, -k, k) /\ Clear(Room, origin, -k, k + 1, k + 1, k + 1)
      BY <1>4, <3>1 DEF GoesLeft, Passed
    <3>3. Clear(Room, origin, -k, k + 1, -k, k + 1)
      BY <3>2, ClearBelow
    <3> QED BY <3>3, WalkOverMap DEF Passed
  <2>5. Passed(-k - 1, -k - 1, k + 2 - step, k + 1)'
    <3>1. k + 2 - step' = k + 2 /\ k + 2 > k + 1 /\ -k - 1 \in Int
      BY <2>1
    <3>2. Clear(Room, origin, -k - 1, -k - 1, k + 2, k + 1)
      BY <3>1, ClearNone
    <3> QED BY <3>1, <3>2, WalkOverMap DEF Passed
  <2> QED BY <2>3, <2>4, <2>5 DEF GoesUp
<1> QED BY <1>5, <1>6 DEF Walk

\* On up, or round the corner and to the right, one ring further out.
LEMMA StepUp ==
    ASSUME SearchTypeOK, Walk, NEW k \in Nat, GoesUp(k), step \in 0 .. target - 1
    PROVE  GoesUp(k)' \/ GoesRight(k + 1)'
<1>1. /\ step \in Nat /\ target = 2 * k + 2
      /\ place = <<origin[1] + (-k - 1), origin[2] + (k + 1 - step)>>
  BY DEF GoesUp, OnLeg, SearchTypeOK
<1>2. x_turn = FALSE
  BY Zenon DEF GoesUp, OnLeg
<1>3. place' = <<origin[1] + (-k - 1), origin[2] + (k - step)>>
  BY <1>1, <1>2, LegParity, WalkOverMap DEF Walk, AlongY, Forward
<1>4. Clear(Room, origin, -k - 1, -k - 1, k + 1 - step, k + 1)
  <2>1. Clear(Room, origin, -k - 1, -k - 1, k + 1 - step, k + 1 - step)
    BY <1>1, ClearPlace, WalkOverMap
  <2>2. Clear(Room, origin, -k - 1, -k - 1, k + 2 - step, k + 1)
    BY DEF GoesUp, Passed
  <2>3. (k + 1 - step) + 1 = k + 2 - step
    BY <1>1
  <2> QED BY <1>1, <2>1, <2>2, <2>3, ClearBelow
<1>5. CASE GoOn
  <2>1. step' = step + 1 /\ target' = target /\ x_turn' = x_turn
    BY <1>5 DEF GoOn
  <2>2. k + 1 - step' = k - step /\ k + 2 - step' = k + 1 - step
    BY <1>1, <2>1
  <2>3. OnLeg(k, FALSE, FALSE, -k - 1, k + 1 - step)'
    BY <1>1, <1>2, <1>3, <2>1, <2>2, WalkOverMap DEF OnLeg
  <2>4. Passed(-k, k + 1, -k, k + 1)' /\ Passed(-k - 1, -k - 1, k + 2 - step, k + 1)'
    BY <1>4, <2>2, WalkOverMap DEF GoesUp, Passed
  <2> QED BY <2>3, <2>4 DEF GoesUp
<1>6. CASE Turn
  <2>1. step = 2 * k + 1 /\ step' = 0 /\ target' = 2 * (k + 1) + 1
    BY <1>1, <1>2, <1>6 DEF Turn
  <2>2. x_turn' = TRUE
    BY <1>2, <1>6, Zenon DEF Turn
  <2>3. OnLeg(k + 1, TRUE, TRUE, step - (k + 1), -(k + 1))'
    <3>1. k - step = -(k + 1) /\ step' - (k + 1) = -k - 1
      BY <1>1, <2>1
    <3> QED BY <1>1, <1>3, <2>1, <2>2, <3>1, WalkOverMap DEF OnLeg
  <2>4. Passed(-(k + 1), k + 1, 1 - (k + 1), k + 1)'
    <3>1. k + 1 - step = -k /\ (-k - 1) + 1 = -k /\ -(k + 1) = -k - 1 /\ 1 - (k + 1) = -k
      BY <1>1, <2>1
    <3>2. /\ Clear(Room, origin, -k, k + 1, -k, k + 1)
          /\ Clear(Room, origin, -k - 1, -k - 1, -k, k + 1)
      BY <1>4, <3>1 DEF GoesUp, Passed
    <3>3. Clear(Room, origin, -k - 1, k + 1, -k, k + 1)
      BY <3>1, <3>2, ClearBeside
    <3> QED BY <3>1, <3>3, WalkOverMap DEF Passed
  <2>5. Passed(-(k + 1), step - (k + 1) - 1, -(k + 1), -(k + 1))'
    <3>1. step' - (k + 1) - 1 = -k - 2 /\ -(k + 1) > -k - 2 /\ -k - 2 \in Int
      BY <2>1
    <3>2. Clear(Room, origin, -(k + 1), -k - 2, -(k + 1), -(k + 1))
      BY <3>1, ClearNone
    <3> QED BY <3>1, <3>2, WalkOverMap DEF Passed
  <2> QED BY <2>3, <2>4, <2>5 DEF GoesRight
<1> QED BY <1>5, <1>6 DEF Walk

-----------------------------------------------------------------------------
(* The theorems                                                            *)

LEMMA SpiralInit == SearchInit => IsSpiral
<1> SUFFICES ASSUME SearchInit PROVE IsSpiral
  OBVIOUS
<1>1. step = 0 /\ target = 1 /\ place = origin /\ origin \in Int \X Int
  BY GridAssumption DEF SearchInit, StartsAt, Cells
<1>2. x_turn = TRUE
  BY Zenon DEF SearchInit, StartsAt
<1>3. OnLeg(0, TRUE, TRUE, step - 0, -0)
  <2>1. place = <<origin[1] + (step - 0), origin[2] + (-0)>> /\ target = 2 * 0 + 1
    BY <1>1
  <2> QED BY <1>2, <2>1 DEF OnLeg
<1>4. Passed(-0, 0, 1 - 0, 0) /\ Passed(-0, step - 0 - 1, -0, -0)
  BY <1>1, ClearNone DEF Passed
<1>5. GoesRight(0)
  BY <1>3, <1>4 DEF GoesRight
<1>6. 0 \in 0 .. MaxTarget /\ step \in 0 .. target - 1
  BY <1>1, SpiralAssumption
<1> QED BY <1>5, <1>6 DEF IsSpiral

LEMMA SpiralStep == SearchTypeOK /\ IsSpiral /\ [Walk]_search_vars => IsSpiral'
<1> SUFFICES ASSUME SearchTypeOK, IsSpiral, [Walk]_search_vars PROVE IsSpiral'
  OBVIOUS
<1>1. CASE Walk
  <2>1. PICK k \in 0 .. MaxTarget : GoesRight(k) \/ GoesDown(k) \/ GoesLeft(k) \/ GoesUp(k)
    BY DEF IsSpiral
  <2>2. k \in Nat /\ step \in 0 .. target - 1
    BY SpiralAssumption DEF IsSpiral
  <2>3. GoesUp(k) => k + 1 \in 0 .. MaxTarget
    BY <1>1, <2>2, SpiralAssumption DEF GoesUp, OnLeg, Walk
  <2>4. \E m \in 0 .. MaxTarget :
          GoesRight(m)' \/ GoesDown(m)' \/ GoesLeft(m)' \/ GoesUp(m)'
    BY <1>1, <2>1, <2>2, <2>3, StepRight, StepDown, StepLeft, StepUp
  <2>5. step' \in 0 .. target' - 1
    BY <1>1, <2>2 DEF Walk, GoOn, Turn, SearchTypeOK
  <2> QED BY <2>4, <2>5 DEF IsSpiral
<1>2. CASE UNCHANGED search_vars
  <2>1. Room' = Room /\ origin' = origin /\ place' = place /\ step' = step
        /\ target' = target /\ x_turn' = x_turn
    BY <1>2 DEF search_vars, Room, FreeAround
  <2> QED
    BY <2>1 DEF IsSpiral, GoesRight, GoesDown, GoesLeft, GoesUp, OnLeg, Passed
<1> QED BY <1>1, <1>2

\* spiralSearch() walks the spiral that its comment draws, on any map.
THEOREM WalkIsSpiral == SearchSpec => []IsSpiral
<1>1. SearchSpec => []SearchTypeOK
  BY SearchTypeInv
<1> QED BY <1>1, SpiralInit, SpiralStep, PTL DEF SearchSpec

LEMMA SpiralIsNear == SearchTypeOK /\ IsSpiral => NoneIsNearer
<1> SUFFICES ASSUME SearchTypeOK, IsSpiral, NEW c \in Room, ~ (Ring(c) >= Ring(place))
             PROVE  FALSE
  BY DEF NoneIsNearer
<1>1. PICK k \in 0 .. MaxTarget : GoesRight(k) \/ GoesDown(k) \/ GoesLeft(k) \/ GoesUp(k)
  BY DEF IsSpiral
<1>2. /\ k \in Nat /\ step \in Nat /\ step <= target - 1 /\ target \in Nat
      /\ origin[1] \in Int /\ origin[2] \in Int
  BY SpiralAssumption, GridAssumption DEF IsSpiral, SearchTypeOK, Cells
<1>3. c \in Int \X Int
  BY GridAssumption DEF Room, Cells
<1> DEFINE dx == c[1] - origin[1]
           dy == c[2] - origin[2]
<1>4. dx \in Int /\ dy \in Int /\ c = <<origin[1] + dx, origin[2] + dy>>
  BY <1>2, <1>3
<1>5. \A left, right, top, bottom \in Int :
        Passed(left, right, top, bottom) => ~ (dx \in left .. right /\ dy \in top .. bottom)
  BY <1>4 DEF Passed, Clear
<1>6. Ring(c) = Larger(Abs(dx), Abs(dy))
  BY DEF Ring
<1> HIDE DEF dx, dy
<1>7. CASE GoesRight(k)
  <2>1. Ring(place) = k
    BY <1>2, <1>7 DEF GoesRight, OnLeg, Ring, Larger, Abs
  <2>2. dx \in -k .. k /\ dy \in 1 - k .. k
    BY <1>2, <1>4, <1>6, <2>1 DEF Larger, Abs
  <2> QED BY <1>2, <1>5, <1>7, <2>2 DEF GoesRight
<1>8. CASE GoesDown(k)
  <2>1. Ring(place) = k + 1
    BY <1>2, <1>8 DEF GoesDown, OnLeg, Ring, Larger, Abs
  <2>2. dx \in -k .. k /\ dy \in -k .. k
    BY <1>2, <1>4, <1>6, <2>1 DEF Larger, Abs
  <2> QED BY <1>2, <1>5, <1>8, <2>2 DEF GoesDown
<1>9. CASE GoesLeft(k)
  <2>1. Ring(place) = k + 1
    BY <1>2, <1>9 DEF GoesLeft, OnLeg, Ring, Larger, Abs
  <2>2. dx \in -k .. k + 1 /\ dy \in -k .. k
    BY <1>2, <1>4, <1>6, <2>1 DEF Larger, Abs
  <2> QED BY <1>2, <1>5, <1>9, <2>2 DEF GoesLeft
<1>10. CASE GoesUp(k)
  <2>1. Ring(place) = k + 1
    BY <1>2, <1>10 DEF GoesUp, OnLeg, Ring, Larger, Abs
  <2>2. dx \in -k .. k + 1 /\ dy \in -k .. k + 1
    BY <1>2, <1>4, <1>6, <2>1 DEF Larger, Abs
  <2> QED BY <1>2, <1>5, <1>10, <2>2 DEF GoesUp
<1> QED BY <1>1, <1>7, <1>8, <1>9, <1>10

\* The place spiralSearch() finds is the nearest with room around it: no place
\* with room is on a ring closer to where the walk began.
THEOREM FindsNearest == SearchSpec => []NoneIsNearer
  BY SpiralIsNear, SearchTypeInv, WalkIsSpiral, PTL

LEMMA SpiralStarts == SearchInit => SearchTypeOK /\ IsSpiral
  BY SpiralInit, GridAssumption DEF SearchInit, StartsAt, SearchTypeOK, Cells

LEMMA SpiralGoesOn == SearchTypeOK /\ IsSpiral /\ [Walk]_search_vars => (SearchTypeOK /\ IsSpiral)'
  BY SearchTypeStep, SpiralStep

\* In each frame of the workers the walk is a spiral from the builder.
FrameWalkInv == DealInv /\ SearchTypeOK /\ IsSpiral

LEMMA FrameWalkInvariant == WorkersSpec => []FrameWalkInv
<1>1. WorkersInit => SearchInit
  <2> SUFFICES ASSUME WorkersInit PROVE SearchInit
    OBVIOUS
  <2>1. scan \in Frames /\ occupied = scan.occupied /\ StartsAt(<<0, 0>>)
    BY DEF WorkersInit
  <2>2. occupied \in SUBSET Cells
    BY <2>1, WorkersAssumption
  <2>3. <<0, 0>> \in Cells
    BY GridAssumption DEF Cells
  <2> QED
    BY <2>1, <2>2, <2>3 DEF SearchInit
<1>2. SearchInit' => (SearchTypeOK /\ IsSpiral)'
  BY SpiralStarts, PTL
<1>3. FrameWalkInv /\ [WorkersNext]_workers_vars => (SearchTypeOK /\ IsSpiral)'
  <2> SUFFICES ASSUME FrameWalkInv, [WorkersNext]_workers_vars
               PROVE  (SearchTypeOK /\ IsSpiral)'
    OBVIOUS
  <2>a. DealInv /\ SearchTypeOK /\ IsSpiral
    BY DEF FrameWalkInv
  <2>1. ASSUME NEW c \in Cells, StartSearch(c) PROVE SearchInit'
    <3>1. occupied' \in SUBSET Cells
      BY <2>1, <2>a DEF StartSearch, SearchTypeOK
    <3>2. StartsAt(c)'
      BY <2>1, Zenon DEF StartSearch, StartsAt
    <3> QED
      BY <3>1, <3>2 DEF SearchInit
  <2>2. CASE PlanBase
    <3>1. DealInv'
      BY <2>2, <2>a, PlanBaseDeals
    <3>2. scan' = scan /\ stage' = "base site" /\ StartSearch(At(builder'))
      BY <2>2 DEF PlanBase
    <3>3. builder' \in Staff
      BY <3>1, <3>2 DEF DealInv, HandsInv, BuilderWaits, Staff
    <3>4. At(builder') \in Cells
      BY <2>a, <3>3, FrameFacts DEF DealInv
    <3> QED
      BY <1>2, <2>1, <3>2, <3>4
  <2>3. CASE PlanBarracks
    <3>1. DealInv'
      BY <2>3, <2>a, PlanBarracksDeals
    <3>2. /\ scan' = scan /\ stage' = "barracks site" /\ builder' = BarracksBuilder
          /\ StartSearch(At(BarracksBuilder))
      BY <2>3 DEF PlanBarracks
    <3>3. BarracksBuilder \in Staff
      BY <3>1, <3>2 DEF DealInv, HandsInv, BuilderWaits, Staff
    <3>4. At(BarracksBuilder) \in Cells
      BY <2>a, <3>3, FrameFacts DEF DealInv
    <3> QED
      BY <1>2, <2>1, <3>2, <3>4
  <2>4. CASE SearchOn
    BY <2>4, <2>a, SpiralGoesOn DEF SearchOn
  <2>5. ASSUME UNCHANGED search_vars PROVE (SearchTypeOK /\ IsSpiral)'
    BY <2>5, <2>a, SpiralGoesOn
  <2>6. CASE SkipBase \/ Build \/ BuildHere \/ SkipBarracks \/ Harvest \/ UNCHANGED workers_vars
    <3>1. UNCHANGED search_vars
      BY <2>6 DEF SkipBase, Build, BuildHere, SkipBarracks, Harvest, workers_vars
    <3> QED
      BY <2>5, <3>1
  <2> QED
    BY <2>2, <2>3, <2>4, <2>6 DEF WorkersNext
<1>4. WorkersSpec => []DealInv
  BY DealInvariant
<1>5. WorkersSpec => WorkersInit /\ [][WorkersNext]_workers_vars
  BY DEF WorkersSpec
<1> QED
  BY <1>1, <1>3, <1>4, <1>5, SpiralStarts, PTL DEF FrameWalkInv

\* In every frame too, where the search starts over from each builder
\* (workersBehavior), no place with room is nearer to the builder than where the
\* search has come.
THEOREM FrameFindsNearest == WorkersSpec => []NoneIsNearer
<1>1. FrameWalkInv => NoneIsNearer
  BY SpiralIsNear DEF FrameWalkInv
<1> QED
  BY <1>1, FrameWalkInvariant, PTL

\* The iterations of the loop of spiralSearch() so far.
Walked == IF x_turn THEN target * (target - 1) + step ELSE target * target + step

\* The length of a leg, for the ring that it is on.
LEMMA LegOfRing ==
    ASSUME SearchTypeOK, IsSpiral
    PROVE  target <= 2 * Ring(place) + 1 /\ Ring(place) \in Nat
<1>1. PICK k \in 0 .. MaxTarget : GoesRight(k) \/ GoesDown(k) \/ GoesLeft(k) \/ GoesUp(k)
  BY DEF IsSpiral
<1>2. /\ k \in Nat /\ step \in Nat /\ step <= target - 1 /\ target \in Nat
      /\ origin[1] \in Int /\ origin[2] \in Int
  BY SpiralAssumption, GridAssumption DEF IsSpiral, SearchTypeOK, Cells
<1>3. CASE GoesRight(k)
  BY <1>2, <1>3 DEF GoesRight, OnLeg, Ring, Larger, Abs
<1>4. CASE GoesDown(k)
  BY <1>2, <1>4 DEF GoesDown, OnLeg, Ring, Larger, Abs
<1>5. CASE GoesLeft(k)
  BY <1>2, <1>5 DEF GoesLeft, OnLeg, Ring, Larger, Abs
<1>6. CASE GoesUp(k)
  BY <1>2, <1>6 DEF GoesUp, OnLeg, Ring, Larger, Abs
<1> QED
  BY <1>1, <1>3, <1>4, <1>5, <1>6

\* The search is short if there is room.
WalkIsShort ==
    \A c \in Room : /\ target <= 2 * Ring(c) + 1
                    /\ Walked < (2 * Ring(c) + 1) * (2 * Ring(c) + 2)

LEMMA ShortWalk == SearchTypeOK /\ IsSpiral => WalkIsShort
<1> SUFFICES ASSUME SearchTypeOK, IsSpiral, NEW c \in Room
             PROVE  /\ target <= 2 * Ring(c) + 1
                    /\ Walked < (2 * Ring(c) + 1) * (2 * Ring(c) + 2)
  BY DEF WalkIsShort
<1>1. target <= 2 * Ring(place) + 1 /\ Ring(place) \in Nat
  BY LegOfRing
<1>2. Ring(c) >= Ring(place)
  BY SpiralIsNear DEF NoneIsNearer
<1>3. Ring(c) \in Int
  <2>1. c \in Cells /\ origin \in Cells
    BY DEF Room, SearchTypeOK
  <2> QED
    BY <2>1, CellsAreInts DEF Ring, Larger, Abs
<1>4. PICK r \in Nat : r = 2 * Ring(c) + 1
  BY <1>1, <1>2, <1>3
<1>5. target \in Nat /\ target >= 1 /\ step \in Nat /\ step <= target - 1 /\ target <= r
  BY <1>1, <1>2, <1>3, <1>4 DEF IsSpiral, SearchTypeOK
<1>6. Walked <= target * target + target - 1
  BY <1>5 DEF Walked
<1>7. target * target <= r * r
  BY <1>5
<1>8. Walked \in Int
  BY <1>5 DEF Walked
<1>9. r * (r + 1) = r * r + r
  OBVIOUS
<1>10. (2 * Ring(c) + 1) * (2 * Ring(c) + 2) = r * (r + 1)
  BY <1>3, <1>4
<1>11. target * target \in Int /\ r * r \in Int
  BY <1>5
<1>12. Walked < r * r + r
  BY <1>5, <1>6, <1>7, <1>8, <1>11
<1> QED
  BY <1>4, <1>5, <1>9, <1>10, <1>12

\* An iteration of the loop is one more.
LEMMA WalkedOne ==
    ASSUME SearchTypeOK, Walk PROVE Walked' = Walked + 1
<1>1. target \in Nat /\ step \in Nat
  BY DEF SearchTypeOK
<1>2. CASE GoOn
  <2>1. step' = step + 1 /\ target' = target /\ x_turn' = x_turn
    BY <1>2 DEF GoOn
  <2>2. target * target \in Int /\ target * (target - 1) \in Int
    BY <1>1
  <2>3. CASE x_turn
    BY <1>1, <2>1, <2>2, <2>3 DEF Walked
  <2>4. CASE ~ x_turn
    BY <1>1, <2>1, <2>2, <2>4 DEF Walked
  <2> QED
    BY <2>3, <2>4
<1>3. CASE Turn
  <2>1. step + 1 = target /\ step' = 0 /\ x_turn' = ~ x_turn
        /\ target' = IF x_turn THEN target ELSE target + 1
    BY <1>3, Zenon DEF Turn
  <2>2. step = target - 1
    BY <1>1, <2>1
  <2>3. CASE x_turn
    <3>1. Walked = target * (target - 1) + (target - 1)
      BY <2>2, <2>3 DEF Walked
    <3>2. Walked' = target * target + 0
      BY <2>1, <2>3 DEF Walked
    <3>3. \A n \in Nat : n * n + 0 = (n * (n - 1) + (n - 1)) + 1
      OBVIOUS
    <3> QED
      BY <1>1, <3>1, <3>2, <3>3, Zenon
  <2>4. CASE ~ x_turn
    <3>1. Walked = target * target + (target - 1)
      BY <2>2, <2>4 DEF Walked
    <3>2. Walked' = (target + 1) * ((target + 1) - 1) + 0
      BY <2>1, <2>4 DEF Walked
    <3>3. \A n \in Nat : (n + 1) * ((n + 1) - 1) + 0 = (n * n + (n - 1)) + 1
      OBVIOUS
    <3> QED
      BY <1>1, <3>1, <3>2, <3>3, Zenon
  <2> QED
    BY <2>3, <2>4
<1> QED
  BY <1>2, <1>3 DEF Walk

\* spiralSearch() returns if there is room anywhere on the map: each iteration of
\* its loop is one more, and their number stays below a bound that depends on the
\* ring of the nearest place alone.  The legs stay short, so that the bound of the
\* model on their length (MaxTarget) is not what ends the walk.
THEOREM SearchIsShort == SearchSpec => []WalkIsShort /\ [][Walked' = Walked + 1]_search_vars
<1>1. SearchTypeOK /\ [Walk]_search_vars => [Walked' = Walked + 1]_search_vars
  BY WalkedOne
<1> QED
  BY <1>1, ShortWalk, SearchTypeInv, WalkIsSpiral, PTL DEF SearchSpec

\* So is the search of every frame: with room anywhere on the map, no builder is
\* looked for a site forever (workersBehavior, spiralSearch).
THEOREM FrameSearchIsShort == WorkersSpec => []WalkIsShort
<1>1. FrameWalkInv => WalkIsShort
  BY ShortWalk DEF FrameWalkInv
<1> QED
  BY <1>1, FrameWalkInvariant, PTL

\* The side of the map, and the iterations of a search that is the longest there is.
Side == Larger(Width, Height)
Longest == (2 * Side - 1) * (2 * Side)

Sited == stage \in {"base site", "barracks site"}

\* The stages after this one.
StagesLeft ==
    CASE stage = "base" -> 5 [] stage = "base site" -> 4 [] stage = "barracks" -> 3
      [] stage = "barracks site" -> 2 [] stage = "harvest" -> 1 [] OTHER -> 0

\* What of the frame is left to do, for it to become less by each step: the
\* stages, and then the iterations of the search that runs.
FrameLeft == StagesLeft * (Longest + 1) + (IF Sited THEN Longest - Walked ELSE 0)

LEMMA StagesAre ==
    /\ stage = "base" => StagesLeft = 5
    /\ stage = "base site" => StagesLeft = 4
    /\ stage = "barracks" => StagesLeft = 3
    /\ stage = "barracks site" => StagesLeft = 2
    /\ stage = "harvest" => StagesLeft = 1
    /\ stage = "end" => StagesLeft = 0
<1>1. CASE stage = "base"
  BY <1>1 DEF StagesLeft
<1>2. CASE stage = "base site"
  BY <1>2 DEF StagesLeft
<1>3. CASE stage = "barracks"
  BY <1>3 DEF StagesLeft
<1>4. CASE stage = "barracks site"
  BY <1>4 DEF StagesLeft
<1>5. CASE stage = "harvest"
  BY <1>5 DEF StagesLeft
<1>6. CASE stage = "end"
  BY <1>6 DEF StagesLeft
<1> QED
  BY <1>1, <1>2, <1>3, <1>4, <1>5, <1>6

\* The bound of the model does not end the search.
SearchIsNotCut == Sited => Found \/ target <= MaxTarget

LEMMA LongestIsLongest ==
    ASSUME SearchTypeOK, IsSpiral, Room # {}
    PROVE  /\ Walked \in Nat /\ Longest \in Nat
           /\ Walked < Longest /\ target <= 2 * Side - 1
<1>1. PICK c \in Room : TRUE
  OBVIOUS
<1>2. c \in Cells /\ origin \in Cells
  BY DEF Room, SearchTypeOK
<1>3. /\ c[1] \in 0 .. Width - 1 /\ c[2] \in 0 .. Height - 1
      /\ origin[1] \in 0 .. Width - 1 /\ origin[2] \in 0 .. Height - 1
  BY <1>2 DEF Cells
<1>4. Side \in Nat /\ Width <= Side /\ Height <= Side /\ Side >= 1
  BY GridAssumption DEF Side, Larger
<1>5. Ring(c) \in Nat /\ Ring(c) <= Side - 1
  BY <1>3, <1>4, GridAssumption DEF Ring, Larger, Abs
<1>6. target <= 2 * Ring(c) + 1 /\ Walked < (2 * Ring(c) + 1) * (2 * Ring(c) + 2)
  BY ShortWalk DEF WalkIsShort
<1>7. PICK r \in Nat, l \in Nat : r = 2 * Ring(c) + 1 /\ l = 2 * Side - 1 /\ r <= l
  BY <1>4, <1>5
<1>8. r * (r + 1) <= l * (l + 1) /\ r * (r + 1) \in Nat /\ l * (l + 1) \in Nat
  <2>1. r * r <= l * l /\ r * r \in Nat /\ l * l \in Nat
    BY <1>7
  <2>2. r * (r + 1) = r * r + r /\ l * (l + 1) = l * l + l
    OBVIOUS
  <2> QED
    BY <1>7, <2>1, <2>2
<1>9. Longest = l * (l + 1)
  <2>1. 2 * Side = l + 1 /\ 2 * Side - 1 = l
    BY <1>4, <1>7
  <2> QED
    BY <2>1 DEF Longest
<1>10. (2 * Ring(c) + 1) * (2 * Ring(c) + 2) = r * (r + 1)
  <2>1. 2 * Ring(c) + 2 = r + 1
    BY <1>5, <1>7
  <2> QED
    BY <1>7, <2>1
<1>11. Walked \in Nat
  <2>1. target \in Nat /\ target >= 1 /\ step \in Nat
    BY DEF SearchTypeOK, IsSpiral
  <2>2. target * (target - 1) \in Nat /\ target * target \in Nat
    BY <2>1
  <2> QED
    BY <2>1, <2>2 DEF Walked
<1>12. PICK p \in Nat, q \in Nat : p = r * (r + 1) /\ q = l * (l + 1) /\ p <= q
  BY <1>8
<1>13. Walked < p /\ Longest = q
  BY <1>6, <1>9, <1>10, <1>12
<1>14. target \in Nat
  BY DEF SearchTypeOK
<1>15. target <= r
  BY <1>6, <1>7
<1> QED
  BY <1>4, <1>7, <1>11, <1>12, <1>13, <1>14, <1>15

\* A frame of the workers ends if there is room anywhere on the map: it always
\* goes on, and each step, of the search or of workersBehavior(), leaves less to
\* do.  MaxTarget is a bound of the model, here large enough for the map.
THEOREM FrameGoesOn ==
    ASSUME MaxTarget >= 2 * Side - 1
    PROVE  WorkersSpec =>
             /\ [](Room # {} => FrameLeft \in Nat /\ SearchIsNotCut)
             /\ [][Room # {} => FrameLeft' < FrameLeft]_workers_vars
<1>1. FrameWalkInv => (Room # {} => FrameLeft \in Nat /\ SearchIsNotCut)
  <2> SUFFICES ASSUME FrameWalkInv, Room # {} PROVE FrameLeft \in Nat /\ SearchIsNotCut
    OBVIOUS
  <2>1. Walked \in Nat /\ Longest \in Nat /\ Walked < Longest /\ target <= 2 * Side - 1
    BY LongestIsLongest DEF FrameWalkInv
  <2>2. StagesLeft \in Nat
    BY DEF StagesLeft
  <2>3. StagesLeft * (Longest + 1) \in Nat
    BY <2>1, <2>2
  <2>4. target <= MaxTarget
    <3>1. target \in Nat /\ Side \in Nat
      BY GridAssumption DEF FrameWalkInv, SearchTypeOK, Side, Larger
    <3> QED
      BY <2>1, <3>1, SpiralAssumption
  <2> QED
    BY <2>1, <2>3, <2>4 DEF FrameLeft, SearchIsNotCut
<1>2. FrameWalkInv /\ FrameWalkInv' /\ [WorkersNext]_workers_vars =>
          [Room # {} => FrameLeft' < FrameLeft]_workers_vars
  <2> SUFFICES ASSUME FrameWalkInv, FrameWalkInv', WorkersNext, Room # {}
               PROVE  FrameLeft' < FrameLeft
    OBVIOUS
  <2>1. occupied' = occupied
    BY DEF WorkersNext, PlanBase, SkipBase, SearchOn, Build, PlanBarracks, BuildHere,
           SkipBarracks, Harvest, StartSearch, Walk, search_vars
  <2>2. Room' = Room
    BY <2>1 DEF Room, FreeAround
  <2>3. Walked \in Nat /\ Longest \in Nat /\ Walked < Longest
    BY LongestIsLongest DEF FrameWalkInv
  <2>4. (SearchTypeOK /\ IsSpiral /\ Room # {})' =>
            (Walked \in Nat /\ Longest \in Nat /\ Walked < Longest)'
    BY LongestIsLongest, PTL
  <2>5. Walked' \in Nat /\ Longest' = Longest /\ Walked' < Longest
    BY <2>2, <2>4 DEF FrameWalkInv, Longest, Side, Larger
  <2>6. PICK w \in Nat, v \in Nat, l \in Nat :
            w = Walked /\ v = Walked' /\ l = Longest /\ w < l /\ v < l
    BY <2>3, <2>5
  <2>7. /\ FrameLeft = StagesLeft * (l + 1) + (IF Sited THEN l - w ELSE 0)
        /\ FrameLeft' = StagesLeft' * (l + 1) + (IF Sited' THEN l - v ELSE 0)
    BY <2>5, <2>6 DEF FrameLeft
  <2>10. (/\ stage = "base" => StagesLeft = 5
          /\ stage = "base site" => StagesLeft = 4
          /\ stage = "barracks" => StagesLeft = 3
          /\ stage = "barracks site" => StagesLeft = 2
          /\ stage = "harvest" => StagesLeft = 1
          /\ stage = "end" => StagesLeft = 0)'
    BY StagesAre, PTL
  <2>8. CASE SearchOn
    <3>1. stage' = stage /\ stage \in {"base site", "barracks site"} /\ Walk
      BY <2>8 DEF SearchOn
    <3>2. v = w + 1
      BY <2>6, <3>1, WalkedOne DEF FrameWalkInv
    <3>3. Sited /\ Sited' /\ StagesLeft' = StagesLeft /\ StagesLeft \in Nat
      BY <3>1 DEF Sited, StagesLeft
    <3>4. PICK p \in Nat : p = StagesLeft * (l + 1)
      BY <3>3
    <3> QED
      BY <2>6, <2>7, <3>2, <3>3, <3>4
  <2>9. CASE ~ SearchOn
    <3>1. /\ stage \in {"base", "base site", "barracks", "barracks site", "harvest"}
          /\ stage = "base" => stage' \in {"base site", "barracks"}
          /\ stage = "base site" => stage' = "barracks"
          /\ stage = "barracks" => stage' \in {"barracks site", "harvest"}
          /\ stage = "barracks site" => stage' = "harvest"
          /\ stage = "harvest" => stage' = "end"
      BY <2>9 DEF WorkersNext, PlanBase, SkipBase, Build, PlanBarracks, BuildHere,
                  SkipBarracks, Harvest
    <3>2. StagesLeft \in Nat /\ StagesLeft' \in Nat /\ StagesLeft' <= StagesLeft - 1
      <4>1. CASE stage = "base"
        <5>1. stage' \in {"base site", "barracks"}
          BY <3>1, <4>1
        <5>2. StagesLeft = 5
          BY <4>1, StagesAre
        <5>3. StagesLeft' \in {4, 3}
          BY <5>1, <2>10
        <5> QED
          BY <5>2, <5>3
      <4>2. CASE stage = "base site"
        <5>1. stage' \in {"barracks"}
          BY <3>1, <4>2
        <5>2. StagesLeft = 4
          BY <4>2, StagesAre
        <5>3. StagesLeft' \in {3}
          BY <5>1, <2>10
        <5> QED
          BY <5>2, <5>3
      <4>3. CASE stage = "barracks"
        <5>1. stage' \in {"barracks site", "harvest"}
          BY <3>1, <4>3
        <5>2. StagesLeft = 3
          BY <4>3, StagesAre
        <5>3. StagesLeft' \in {2, 1}
          BY <5>1, <2>10
        <5> QED
          BY <5>2, <5>3
      <4>4. CASE stage = "barracks site"
        <5>1. stage' \in {"harvest"}
          BY <3>1, <4>4
        <5>2. StagesLeft = 2
          BY <4>4, StagesAre
        <5>3. StagesLeft' \in {1}
          BY <5>1, <2>10
        <5> QED
          BY <5>2, <5>3
      <4>5. CASE stage = "harvest"
        <5>1. stage' \in {"end"}
          BY <3>1, <4>5
        <5>2. StagesLeft = 1
          BY <4>5, StagesAre
        <5>3. StagesLeft' \in {0}
          BY <5>1, <2>10
        <5> QED
          BY <5>2, <5>3
      <4> QED
        BY <3>1, <4>1, <4>2, <4>3, <4>4, <4>5
    <3>3. PICK a \in Nat, b \in Nat : a = StagesLeft /\ b = StagesLeft' /\ b <= a - 1
      BY <3>2
    <3>4. b * (l + 1) <= a * (l + 1) - (l + 1) /\ a * (l + 1) \in Nat /\ b * (l + 1) \in Nat
      <4>1. \A m \in Nat, n \in Nat, k \in Nat :
                m <= n - 1 => m * k <= n * k - k /\ m * k \in Nat /\ n * k \in Nat
        <5> TAKE m \in Nat, n \in Nat, k \in Nat
        <5> HAVE m <= n - 1
        <5>1. (n - 1) * k = n * k - k
          OBVIOUS
        <5>2. m * k <= (n - 1) * k
          OBVIOUS
        <5> QED
          BY <5>1, <5>2
      <4>2. PICK k \in Nat : k = l + 1
        OBVIOUS
      <4>3. b * k <= a * k - k /\ b * k \in Nat /\ a * k \in Nat
        BY <3>3, <4>1, Zenon
      <4> QED
        BY <4>2, <4>3
    <3>5. FrameLeft >= a * (l + 1) /\ FrameLeft \in Int
      <4>a. l - w \in Nat
        BY <2>6
      <4>b. (IF Sited THEN l - w ELSE 0) \in Nat
        BY <4>a, Zenon
      <4>1. PICK d \in Nat : d = IF Sited THEN l - w ELSE 0
        BY <4>b
      <4>2. FrameLeft = a * (l + 1) + d
        BY <2>7, <3>3, <4>1
      <4> QED
        BY <3>4, <4>2
    <3>6. FrameLeft' <= b * (l + 1) + l /\ FrameLeft' \in Int
      <4>c. v < l
        BY <2>6, Zenon
      <4>a. PICK e \in Nat : e = l - v /\ e <= l
        BY <4>c
      <4>b. (IF Sited' THEN l - v ELSE 0) \in {e, 0}
        BY <4>a, Zenon
      <4>1. PICK d \in Nat : d = (IF Sited' THEN l - v ELSE 0) /\ d <= l
        <5>1. PICK n \in {e, 0} : n = (IF Sited' THEN l - v ELSE 0)
          BY <4>b, Zenon
        <5>2. n \in Nat /\ n <= l
          BY <4>a, <5>1
        <5> QED
          BY <5>1, <5>2, Zenon
      <4>2. FrameLeft' = b * (l + 1) + d
        BY <2>7, <3>3, <4>1
      <4>3. PICK k \in Nat : k = b * (l + 1)
        BY <3>4
      <4> QED
        BY <4>1, <4>2, <4>3
    <3> QED
      BY <2>6, <3>4, <3>5, <3>6
  <2> QED
    BY <2>8, <2>9
<1> QED
  BY <1>1, <1>2, FrameWalkInvariant, PTL DEF WorkersSpec
=============================================================================
