-------------------------------- MODULE Sums --------------------------------
(***************************************************************************)
(* What SumFunctionOnSet computes over a finite set.  It is a recursive    *)
(* function on the subsets of the set, and the lemmas go from a smallest   *)
(* subset on which a claim would fail to a contradiction.  The same way    *)
(* leads from 1 up to a number.                                            *)
(***************************************************************************)
EXTENDS Integers, FiniteSets, FiniteSetsExt, Functions, FiniteSetTheorems, TLAPS

-----------------------------------------------------------------------------
(* Numbers                                                                 *)

\* A set of natural numbers has a least one.
LEMMA LeastNat ==
    ASSUME NEW S \in SUBSET Nat, S # {}
    PROVE  \E x \in S : \A y \in S : x <= y
<1>1. PICK x \in S : \A y \in S : ~ (<<y, x>> \in OpToRel(<, Nat))
  BY NatLessThanWellFounded, WFMin, Zenon
<1>2. ASSUME NEW y \in S PROVE ~ (y < x)
  <2>1. <<y, x>> \in Nat \X Nat
    OBVIOUS
  <2>2. y < x => <<y, x>> \in OpToRel(<, Nat)
    BY <2>1 DEF OpToRel
  <2> QED
    BY <1>1, <2>2
<1> QED
  BY <1>2

\* What holds of 1, and of the next number with each, holds up to n.
LEMMA UpTo ==
    ASSUME NEW n \in Nat, n >= 1, NEW Good, 1 \in Good,
           \A m \in 1 .. n - 1 : m \in Good => m + 1 \in Good
    PROVE  \A m \in 1 .. n : m \in Good
<1> SUFFICES ASSUME {m \in 1 .. n : m \notin Good} # {} PROVE FALSE
  OBVIOUS
<1>1. PICK m \in 1 .. n : m \notin Good /\ \A k \in 1 .. n : k \notin Good => m <= k
  <2>1. {m \in 1 .. n : m \notin Good} \in SUBSET Nat
    OBVIOUS
  <2>2. PICK m \in {i \in 1 .. n : i \notin Good} :
            \A k \in {i \in 1 .. n : i \notin Good} : m <= k
    BY <2>1, LeastNat
  <2> QED
    BY <2>2
<1>2. m - 1 \in 1 .. n - 1 /\ m - 1 \in 1 .. n /\ (m - 1) + 1 = m /\ ~ (m <= m - 1)
  BY <1>1
<1>3. m - 1 \in Good
  BY <1>1, <1>2
<1> QED
  BY <1>1, <1>2, <1>3

\* Min and Max of the community modules are what they are called.
LEMMA MinOfNats ==
    ASSUME NEW S \in SUBSET Nat, S # {}
    PROVE  Min(S) \in S /\ \A x \in S : Min(S) <= x
<1>1. \E x \in S : \A y \in S : x =< y
  BY LeastNat
<1> QED
  BY <1>1, Zenon DEF Min

LEMMA MaxOfNats ==
    ASSUME NEW n \in Nat, NEW S \in SUBSET (1 .. n), S # {}
    PROVE  Max(S) \in S /\ \A x \in S : Max(S) >= x
<1> DEFINE T == {n - x : x \in S}
<1>1. T \in SUBSET Nat /\ T # {}
  <2>1. \A x \in 1 .. n : n - x \in Nat
    OBVIOUS
  <2> QED
    BY <2>1
<1>2. PICK t \in T : \A u \in T : t <= u
  <2> HIDE DEF T
  <2> QED
    BY <1>1, LeastNat
<1>3. PICK x \in S : t = n - x
  BY <1>2
<1>4. \A y \in S : x >= y
  <2> TAKE y \in S
  <2>1. n - y \in T
    OBVIOUS
  <2> QED
    BY <1>2, <1>3, <2>1
<1>5. \E z \in S : \A y \in S : z >= y
  BY <1>4
<1> QED
  BY <1>5, Zenon DEF Max

\* A number of the set that is below all of them is its Min.
LEMMA MinIsLeast ==
    ASSUME NEW S \in SUBSET Int, NEW x \in S, \A y \in S : x =< y
    PROVE  Min(S) = x
<1>1. Min(S) \in S /\ \A y \in S : Min(S) =< y
  <2>1. \E z \in S : \A y \in S : z =< y
    OBVIOUS
  <2> QED
    BY <2>1, Zenon DEF Min
<1>2. Min(S) =< x /\ x =< Min(S)
  BY <1>1, Zenon
<1>3. Min(S) \in Int /\ x \in Int
  BY <1>1
<1> QED
  BY <1>2, <1>3

-----------------------------------------------------------------------------
(* Finite sets                                                             *)

\* Every nonempty family of subsets of a finite set has a smallest one.
LEMMA SmallestSubset ==
    ASSUME NEW S, IsFiniteSet(S), NEW family \in SUBSET (SUBSET S), family # {}
    PROVE  \E T \in family : \A U \in family : U \subseteq T => U = T
<1>1. family \subseteq FiniteSubsetsOf(S)
  BY FS_FiniteSubsetsOfFinite
<1>2. IsWellFoundedOn(StrictSubsetOrdering(S), FiniteSubsetsOf(S))
  BY FS_StrictSubsetOrderingWellFounded
<1>3. PICK T \in family : \A U \in family : ~ (<<U, T>> \in StrictSubsetOrdering(S))
  BY <1>1, <1>2, WFMin, Zenon
<1>4. ASSUME NEW U \in family, U \subseteq T, U # T
      PROVE  FALSE
  <2>1. <<U, T>> \in (SUBSET S) \X (SUBSET S)
    OBVIOUS
  <2>2. <<U, T>>[1] \subseteq <<U, T>>[2] /\ <<U, T>>[1] # <<U, T>>[2]
    BY <1>4
  <2>3. <<U, T>> \in StrictSubsetOrdering(S)
    BY <2>1, <2>2 DEF StrictSubsetOrdering
  <2> QED
    BY <1>3, <2>3
<1> QED
  BY <1>4

-----------------------------------------------------------------------------
(* The recursion                                                           *)

\* The element that the fold takes out of a set first.
One(s) == CHOOSE x \in s : TRUE

LEMMA OneIsElement == \A s : s # {} => One(s) \in s
  BY DEF One

\* The function that the fold iterates, on a family of sets.
Summing(f, family, g) ==
    g = [s \in family |-> IF s = {} THEN 0 ELSE f[One(s)] + g[s \ {One(s)}]]

LEMMA SumIsIterated ==
    ASSUME NEW f, NEW S
    PROVE  SumFunctionOnSet(f, S) = (CHOOSE g : Summing(f, SUBSET S, g))[S]
  BY DEF SumFunctionOnSet, FoldFunctionOnSet, MapThenFoldSet, Summing, One

\* What the sum over a set is made of, for the element taken first.
Unfolds(f, T) ==
    SumFunctionOnSet(f, T) =
        IF T = {} THEN 0 ELSE f[One(T)] + SumFunctionOnSet(f, T \ {One(T)})

\* The same for every smaller set, and that g computes those sums.
UnfoldsBelow(f, S) == \A T \in SUBSET S : T # S => Unfolds(f, T)
IsSumBelow(g, f, S) == \A T \in SUBSET S : T # S => g[T] = SumFunctionOnSet(f, T)

\* A function that iterates on a set computes the sums of the smaller sets.
LEMMA SummingIsSum ==
    ASSUME NEW S, IsFiniteSet(S), NEW f, NEW g, Summing(f, SUBSET S, g),
           UnfoldsBelow(f, S)
    PROVE  IsSumBelow(g, f, S)
<1> USE DEF UnfoldsBelow, IsSumBelow
<1> DEFINE Bad == {T \in SUBSET S : T # S /\ g[T] # SumFunctionOnSet(f, T)}
<1>1. SUFFICES ASSUME Bad # {} PROVE FALSE
  OBVIOUS
<1>2. PICK T \in Bad : \A U \in Bad : U \subseteq T => U = T
  <2>1. Bad \in SUBSET (SUBSET S)
    OBVIOUS
  <2> HIDE DEF Bad
  <2> QED
    BY <1>1, <2>1, SmallestSubset
<1>3. g[T] = IF T = {} THEN 0 ELSE f[One(T)] + g[T \ {One(T)}]
  BY DEF Summing
<1>4. Unfolds(f, T)
  OBVIOUS
<1>5. CASE T = {}
  BY <1>3, <1>4, <1>5 DEF Unfolds
<1>6. CASE T # {}
  <2>1. One(T) \in T
    BY <1>6, OneIsElement
  <2>2. g[T \ {One(T)}] = SumFunctionOnSet(f, T \ {One(T)})
    BY <1>2, <2>1
  <2> QED
    BY <1>3, <1>4, <1>6, <2>2 DEF Unfolds
<1> QED
  BY <1>5, <1>6

LEMMA SumUnfolds ==
    ASSUME NEW S, IsFiniteSet(S), NEW f
    PROVE  Unfolds(f, S)
<1> DEFINE Bad == {T \in SUBSET S : ~ Unfolds(f, T)}
<1>1. SUFFICES ASSUME Bad # {} PROVE FALSE
  <2>1. S \in SUBSET S
    OBVIOUS
  <2> QED
    BY <2>1
<1>2. PICK T \in Bad : \A U \in Bad : U \subseteq T => U = T
  <2>1. Bad \in SUBSET (SUBSET S)
    OBVIOUS
  <2> HIDE DEF Bad
  <2> QED
    BY <1>1, <2>1, SmallestSubset
<1>3. IsFiniteSet(T) /\ \A U \in SUBSET T : U # T => Unfolds(f, U)
  BY <1>2, FS_Subset
<1> DEFINE Sum(U) == SumFunctionOnSet(f, U)
           h == [U \in SUBSET T |-> IF U = {} THEN 0 ELSE f[One(U)] + Sum(U \ {One(U)})]
<1>4. Summing(f, SUBSET T, h)
  <2>1. \A U \in SUBSET T : U # {} =>
          U \ {One(U)} \in SUBSET T /\ U \ {One(U)} # T
    BY OneIsElement
  <2>2. \A U \in SUBSET T : U # T => h[U] = Sum(U)
    BY <1>3 DEF Unfolds
  <2>3. \A U \in SUBSET T : U # {} => h[U \ {One(U)}] = Sum(U \ {One(U)})
    BY <2>1, <2>2
  <2>4. h = [U \in SUBSET T |-> IF U = {} THEN 0 ELSE f[One(U)] + h[U \ {One(U)}]]
    <3> DEFINE k == [U \in SUBSET T |-> IF U = {} THEN 0 ELSE f[One(U)] + h[U \ {One(U)}]]
    <3>1. \A U \in SUBSET T : h[U] = k[U]
      BY <2>3
    <3> QED
      BY <3>1
  <2> QED
    BY <2>4 DEF Summing
<1> HIDE DEF h
<1>5. PICK g : Summing(f, SUBSET T, g) /\ SumFunctionOnSet(f, T) = g[T]
  <2>1. Summing(f, SUBSET T, CHOOSE g : Summing(f, SUBSET T, g))
    BY <1>4
  <2> QED
    BY <2>1, SumIsIterated
<1>12. ~ Unfolds(f, T)
  BY <1>2
<1> HIDE DEF Bad, Sum, h
<1>6. UnfoldsBelow(f, T)
  BY <1>3 DEF UnfoldsBelow
<1>7. IsSumBelow(g, f, T)
  BY <1>3, <1>5, <1>6, SummingIsSum
<1>8. g[T] = IF T = {} THEN 0 ELSE f[One(T)] + g[T \ {One(T)}]
  <2>1. T \in SUBSET T
    OBVIOUS
  <2> QED
    BY <1>5, <2>1 DEF Summing
<1>9. T # {} => T \ {One(T)} # T
  BY OneIsElement
<1>10. CASE T = {}
  BY <1>5, <1>8, <1>10, <1>12 DEF Unfolds
<1>11. CASE T # {}
  <2>1. T \ {One(T)} \in SUBSET T
    OBVIOUS
  <2>2. g[T \ {One(T)}] = SumFunctionOnSet(f, T \ {One(T)})
    BY <1>7, <1>9, <1>11, <2>1 DEF IsSumBelow
  <2>3. Unfolds(f, T)
    BY <1>5, <1>8, <1>11, <2>2 DEF Unfolds
  <2> QED
    BY <1>12, <2>3
<1> QED
  BY <1>10, <1>11, <1>12

-----------------------------------------------------------------------------
(* The algebra of sums                                                     *)

\* What holds of a subset whenever it holds of all the smaller ones holds of
\* the whole finite set.
LEMMA SubsetInduction ==
    ASSUME NEW S, IsFiniteSet(S), NEW Good,
           \A T \in SUBSET S : (\A U \in SUBSET T : U # T => U \in Good) => T \in Good
    PROVE  S \in Good
<1> DEFINE Bad == {T \in SUBSET S : T \notin Good}
<1>1. SUFFICES ASSUME Bad # {} PROVE FALSE
  <2>1. S \in SUBSET S
    OBVIOUS
  <2> QED
    BY <2>1
<1>2. PICK T \in Bad : \A U \in Bad : U \subseteq T => U = T
  <2>1. Bad \in SUBSET (SUBSET S)
    OBVIOUS
  <2> HIDE DEF Bad
  <2> QED
    BY <1>1, <2>1, SmallestSubset
<1>3. \A U \in SUBSET T : U # T => U \in Good
  BY <1>2
<1> QED
  BY <1>2, <1>3

LEMMA SumEmpty == \A f : SumFunctionOnSet(f, {}) = 0
<1> TAKE f
<1> QED
  BY SumUnfolds, FS_EmptySet DEF Unfolds

\* The element taken first, in a form that needs no definition.
LEMMA SumTakesOne ==
    ASSUME NEW T, IsFiniteSet(T), T # {}, NEW f
    PROVE  \E x \in T : SumFunctionOnSet(f, T) = f[x] + SumFunctionOnSet(f, T \ {x})
<1>1. Unfolds(f, T) /\ One(T) \in T
  BY SumUnfolds, OneIsElement
<1> QED
  BY <1>1 DEF Unfolds

LEMMA SumInt ==
    ASSUME NEW S, IsFiniteSet(S), NEW f, \A x \in S : f[x] \in Int
    PROVE  SumFunctionOnSet(f, S) \in Int
<1> DEFINE Good == {T \in SUBSET S : SumFunctionOnSet(f, T) \in Int}
<1>1. ASSUME NEW T \in SUBSET S, \A U \in SUBSET T : U # T => U \in Good
      PROVE  SumFunctionOnSet(f, T) \in Int
  <2>1. CASE T = {}
    BY <2>1, SumEmpty
  <2>2. CASE T # {}
    <3>1. IsFiniteSet(T)
      BY FS_Subset
    <3>2. PICK x \in T : SumFunctionOnSet(f, T) = f[x] + SumFunctionOnSet(f, T \ {x})
      BY <2>2, <3>1, SumTakesOne
    <3>3. SumFunctionOnSet(f, T \ {x}) \in Int
      BY <1>1
    <3> QED
      BY <3>2, <3>3
  <2> QED
    BY <2>1, <2>2
<1>2. \A T \in SUBSET S : (\A U \in SUBSET T : U # T => U \in Good) => T \in Good
  BY <1>1
<1> HIDE DEF Good
<1>3. S \in Good
  BY <1>2, SubsetInduction
<1> QED
  BY <1>3 DEF Good

\* Any element can be taken out, the choice of the fold does not matter.
LEMMA SumRemove ==
    ASSUME NEW S, IsFiniteSet(S), NEW f, \A x \in S : f[x] \in Int, NEW e \in S
    PROVE  SumFunctionOnSet(f, S) = f[e] + SumFunctionOnSet(f, S \ {e})
<1> DEFINE Takes(T, x) == SumFunctionOnSet(f, T) = f[x] + SumFunctionOnSet(f, T \ {x})
           Good == {T \in SUBSET S : \A x \in T : Takes(T, x)}
<1>1. ASSUME NEW T \in SUBSET S, \A U \in SUBSET T : U # T => U \in Good,
             NEW x \in T
      PROVE  Takes(T, x)
  <2>1. IsFiniteSet(T) /\ T # {}
    BY FS_Subset
  <2>2. PICK y \in T : Takes(T, y)
    BY <2>1, SumTakesOne
  <2>3. CASE x # y
    <3>1. Takes(T \ {y}, x) /\ Takes(T \ {x}, y)
      BY <1>1, <2>3
    <3>2. SumFunctionOnSet(f, (T \ {y}) \ {x}) = SumFunctionOnSet(f, (T \ {x}) \ {y})
      <4>1. (T \ {y}) \ {x} = (T \ {x}) \ {y}
        OBVIOUS
      <4> QED
        BY <4>1, Zenon
    <3>3. SumFunctionOnSet(f, (T \ {x}) \ {y}) \in Int
      <4>1. IsFiniteSet((T \ {x}) \ {y})
        BY <2>1, FS_Subset
      <4> QED
        BY <4>1, SumInt
    <3>4. f[x] \in Int /\ f[y] \in Int
      OBVIOUS
    <3> QED
      BY <2>2, <3>1, <3>2, <3>3, <3>4
  <2> QED
    BY <2>2, <2>3
<1>2. \A T \in SUBSET S : (\A U \in SUBSET T : U # T => U \in Good) => T \in Good
  BY <1>1
<1> HIDE DEF Good
<1>3. S \in Good
  BY <1>2, SubsetInduction
<1> QED
  BY <1>3 DEF Good

\* Functions that are equal on the set have the same sum.
LEMMA SumAgree ==
    ASSUME NEW S, IsFiniteSet(S), NEW f, NEW g, \A x \in S : f[x] = g[x]
    PROVE  SumFunctionOnSet(f, S) = SumFunctionOnSet(g, S)
<1> DEFINE Good == {T \in SUBSET S : SumFunctionOnSet(f, T) = SumFunctionOnSet(g, T)}
<1>1. ASSUME NEW T \in SUBSET S, \A U \in SUBSET T : U # T => U \in Good
      PROVE  SumFunctionOnSet(f, T) = SumFunctionOnSet(g, T)
  <2>1. CASE T = {}
    BY <2>1, SumEmpty
  <2>2. CASE T # {}
    <3>1. IsFiniteSet(T)
      BY FS_Subset
    <3>2. Unfolds(f, T) /\ Unfolds(g, T) /\ One(T) \in T
      BY <2>2, <3>1, SumUnfolds, OneIsElement
    <3>3. SumFunctionOnSet(f, T \ {One(T)}) = SumFunctionOnSet(g, T \ {One(T)})
      BY <1>1, <3>2
    <3>4. f[One(T)] = g[One(T)]
      BY <3>2
    <3> QED
      BY <2>2, <3>2, <3>3, <3>4 DEF Unfolds
  <2> QED
    BY <2>1, <2>2
<1>2. \A T \in SUBSET S : (\A U \in SUBSET T : U # T => U \in Good) => T \in Good
  BY <1>1
<1> HIDE DEF Good
<1>3. S \in Good
  BY <1>2, SubsetInduction
<1> QED
  BY <1>3 DEF Good

\* The sum of two functions is the sum of their sums.
LEMMA SumPlus ==
    ASSUME NEW S, IsFiniteSet(S), NEW f, NEW g, NEW h,
           \A x \in S : f[x] \in Int /\ g[x] \in Int /\ h[x] = f[x] + g[x]
    PROVE  SumFunctionOnSet(h, S) = SumFunctionOnSet(f, S) + SumFunctionOnSet(g, S)
<1> DEFINE Adds(T) ==
             SumFunctionOnSet(h, T) = SumFunctionOnSet(f, T) + SumFunctionOnSet(g, T)
           Good == {T \in SUBSET S : Adds(T)}
<1>1. ASSUME NEW T \in SUBSET S, \A U \in SUBSET T : U # T => U \in Good
      PROVE  Adds(T)
  <2>1. CASE T = {}
    BY <2>1, SumEmpty
  <2>2. CASE T # {}
    <3>1. IsFiniteSet(T)
      BY FS_Subset
    <3>2. PICK x \in T : SumFunctionOnSet(h, T) = h[x] + SumFunctionOnSet(h, T \ {x})
      BY <2>2, <3>1, SumTakesOne
    <3>3. /\ SumFunctionOnSet(f, T) = f[x] + SumFunctionOnSet(f, T \ {x})
          /\ SumFunctionOnSet(g, T) = g[x] + SumFunctionOnSet(g, T \ {x})
      BY <3>1, SumRemove
    <3>4. Adds(T \ {x})
      BY <1>1
    <3>5. /\ SumFunctionOnSet(f, T \ {x}) \in Int
          /\ SumFunctionOnSet(g, T \ {x}) \in Int
      <4>1. IsFiniteSet(T \ {x})
        BY <3>1, FS_Subset
      <4> QED
        BY <4>1, SumInt
    <3>6. f[x] \in Int /\ g[x] \in Int /\ h[x] = f[x] + g[x]
      OBVIOUS
    <3> QED
      BY <3>2, <3>3, <3>4, <3>5, <3>6
  <2> QED
    BY <2>1, <2>2
<1>2. \A T \in SUBSET S : (\A U \in SUBSET T : U # T => U \in Good) => T \in Good
  BY <1>1
<1> HIDE DEF Good
<1>3. S \in Good
  BY <1>2, SubsetInduction
<1> QED
  BY <1>3 DEF Good

\* What is zero need not be summed.
LEMMA SumNonzero ==
    ASSUME NEW S, IsFiniteSet(S), NEW f, \A x \in S : f[x] \in Int,
           NEW part \in SUBSET S, \A x \in S \ part : f[x] = 0
    PROVE  SumFunctionOnSet(f, S) = SumFunctionOnSet(f, part)
<1> DEFINE Same(T) == SumFunctionOnSet(f, T) = SumFunctionOnSet(f, T \cap part)
           Good == {T \in SUBSET S : Same(T)}
<1>1. ASSUME NEW T \in SUBSET S, \A U \in SUBSET T : U # T => U \in Good
      PROVE  Same(T)
  <2>1. CASE T \subseteq part
    <3>1. T \cap part = T
      BY <2>1
    <3> QED
      BY <3>1
  <2>2. CASE \E x \in T : x \notin part
    <3>1. IsFiniteSet(T)
      BY FS_Subset
    <3>2. PICK x \in T : x \notin part
      BY <2>2
    <3>3. SumFunctionOnSet(f, T) = f[x] + SumFunctionOnSet(f, T \ {x})
      BY <3>1, SumRemove
    <3>4. SumFunctionOnSet(f, T \ {x}) = SumFunctionOnSet(f, T \cap part)
      <4>1. Same(T \ {x})
        BY <1>1
      <4>2. (T \ {x}) \cap part = T \cap part
        BY <3>2
      <4> QED
        BY <4>1, <4>2, Zenon
    <3>5. SumFunctionOnSet(f, T \ {x}) \in Int
      <4>1. IsFiniteSet(T \ {x})
        BY <3>1, FS_Subset
      <4> QED
        BY <4>1, SumInt
    <3>6. f[x] = 0
      BY <3>2
    <3> QED
      BY <3>3, <3>4, <3>5, <3>6
  <2> QED
    BY <2>1, <2>2
<1>2. \A T \in SUBSET S : (\A U \in SUBSET T : U # T => U \in Good) => T \in Good
  BY <1>1
<1> HIDE DEF Good
<1>3. S \in Good
  BY <1>2, SubsetInduction
<1>4. S \cap part = part
  OBVIOUS
<1> QED
  BY <1>3, <1>4 DEF Good

\* A sum of natural numbers is a natural number.
LEMMA SumNat ==
    ASSUME NEW S, IsFiniteSet(S), NEW f, \A x \in S : f[x] \in Nat
    PROVE  SumFunctionOnSet(f, S) \in Nat
<1> DEFINE Good == {T \in SUBSET S : SumFunctionOnSet(f, T) \in Nat}
<1>1. ASSUME NEW T \in SUBSET S, \A U \in SUBSET T : U # T => U \in Good
      PROVE  SumFunctionOnSet(f, T) \in Nat
  <2>1. CASE T = {}
    BY <2>1, SumEmpty
  <2>2. CASE T # {}
    <3>1. IsFiniteSet(T)
      BY FS_Subset
    <3>2. PICK x \in T : SumFunctionOnSet(f, T) = f[x] + SumFunctionOnSet(f, T \ {x})
      BY <2>2, <3>1, SumTakesOne
    <3>3. SumFunctionOnSet(f, T \ {x}) \in Nat
      BY <1>1
    <3> QED
      BY <3>2, <3>3
  <2> QED
    BY <2>1, <2>2
<1>2. \A T \in SUBSET S : (\A U \in SUBSET T : U # T => U \in Good) => T \in Good
  BY <1>1
<1> HIDE DEF Good
<1>3. S \in Good
  BY <1>2, SubsetInduction
<1> QED
  BY <1>3 DEF Good
-----------------------------------------------------------------------------
(* Greatest and least elements                                             *)

\* On a finite set a function has a greatest value.
LEMMA SomeGreatest ==
    ASSUME NEW S, IsFiniteSet(S), S # {}, NEW f, \A x \in S : f[x] \in Int
    PROVE  \E x \in S : \A y \in S : f[x] >= f[y]
<1> DEFINE Has(T) == \E x \in T : \A y \in T : f[x] >= f[y]
           Good == {T \in SUBSET S : T = {} \/ Has(T)}
<1>1. ASSUME NEW T \in SUBSET S, \A U \in SUBSET T : U # T => U \in Good, T # {}
      PROVE  Has(T)
  <2>1. PICK e \in T : TRUE
    BY <1>1
  <2>2. T \ {e} = {} \/ Has(T \ {e})
    <3>1. T \ {e} \in SUBSET T /\ T \ {e} # T
      OBVIOUS
    <3>2. T \ {e} \in Good
      BY <1>1, <3>1
    <3> QED
      BY <3>2
  <2>3. CASE T \ {e} = {}
    BY <2>3
  <2>4. CASE Has(T \ {e})
    <3>1. PICK x \in T \ {e} : \A y \in T \ {e} : f[x] >= f[y]
      BY <2>4
    <3>2. \A y \in T : f[y] \in Int
      OBVIOUS
    <3>3. CASE f[x] >= f[e]
      BY <3>1, <3>3
    <3>4. CASE ~ (f[x] >= f[e])
      <4>1. \A y \in T : f[e] >= f[y]
        BY <3>1, <3>2, <3>4
      <4> QED
        BY <4>1
    <3> QED
      BY <3>3, <3>4
  <2> QED
    BY <2>2, <2>3, <2>4
<1>2. \A T \in SUBSET S : (\A U \in SUBSET T : U # T => U \in Good) => T \in Good
  BY <1>1
<1> HIDE DEF Good
<1>3. S \in Good
  BY <1>2, SubsetInduction
<1> QED
  BY <1>3 DEF Good

-----------------------------------------------------------------------------
(* Intervals                                                               *)

\* The sum over an interval takes its last number last.
LEMMA SumUpTo ==
    ASSUME NEW m \in Nat, NEW f, \A i \in 1 .. m + 1 : f[i] \in Int
    PROVE  /\ SumFunctionOnSet(f, 1 .. m) \in Int
           /\ SumFunctionOnSet(f, 1 .. m + 1) = SumFunctionOnSet(f, 1 .. m) + f[m + 1]
<1>1. IsFiniteSet(1 .. m) /\ IsFiniteSet(1 .. m + 1)
  BY FS_Interval
<1>2. SumFunctionOnSet(f, 1 .. m) \in Int
  BY <1>1, SumInt
<1>3. m + 1 \in 1 .. m + 1 /\ (1 .. m + 1) \ {m + 1} = 1 .. m
  OBVIOUS
<1>4. SumFunctionOnSet(f, 1 .. m + 1) = f[m + 1] + SumFunctionOnSet(f, (1 .. m + 1) \ {m + 1})
  BY <1>1, <1>3, SumRemove
<1>5. SumFunctionOnSet(f, 1 .. m + 1) = f[m + 1] + SumFunctionOnSet(f, 1 .. m)
  BY <1>3, <1>4
<1> QED
  BY <1>2, <1>5
=============================================================================
