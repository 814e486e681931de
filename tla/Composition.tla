---------------------------- MODULE Composition -----------------------------
(***************************************************************************)
(* The problem the solver is given: which units to assign against which    *)
(* types of the opponent's army, and what to produce for it (builder.cpp,  *)
(* constraints_rts.cpp), and what a composition is worth over the sampled  *)
(* armies, a rank dependent utility (obj_rts.cpp) whose attitude to risk   *)
(* follows from the losses (decideProduction()).  The local search of      *)
(* SearchUnit changes the variables one by one.                            *)
(*                                                                         *)
(* Reals are kept in hundredths, their squares in ten-thousandths: the     *)
(* coefficients are rounded, and so are the values of Phi.                 *)
(***************************************************************************)
EXTENDS Integers, SequencesExt

CONSTANTS
    Problems,    \* what decideProduction() and the samples may give, see below
    Phi,         \* identity(), optimistic() and pessimistic() (real functions)
    MaxUnits     \* bound on the units assigned and produced

Army3 == {"heavy", "light", "ranged"}
Ratios == DOMAIN Phi[0]     \* <<N - i, N>>, for the probability (N - i) / N
Attitudes == 0 .. 2         \* solver_type

ASSUME CompositionAssumption ==
    /\ MaxUnits \in Nat
    /\ Phi \in [Attitudes -> [Ratios -> 0 .. 100]]
    /\ \A r \in Ratios : Phi[0][r] * r[2] = 100 * r[1]
    /\ \A a \in Attitudes, r, q \in Ratios :
         r[1] * q[2] <= q[1] * r[2] => Phi[a][r] <= Phi[a][q]
    /\ \A r \in Ratios : Phi[1][r] >= Phi[0][r]    \* not so for Phi[2]
    /\ \A p \in Problems :
         /\ p.possessed \in [Army3 -> Nat] /\ p.nb_barracks \in Nat
         /\ p.my_cost_loss \in Nat /\ p.enemy_cost_loss \in Nat /\ p.cheapest \in Nat
         /\ p.samples \in Seq([Army3 -> Nat]) /\ p.samples # <<>>
         /\ \A i \in 1 .. Len(p.samples) - 1 : <<i, Len(p.samples)>> \in Ratios

VARIABLES
    problem,
    solver_type,
    values       \* the current values of the variables, from 0 as in builder.cpp

composition_vars == <<problem, solver_type, values>>

-----------------------------------------------------------------------------
(* The attitude to risk                                                    *)

\* A fault that a run seeds: the side that loses takes the risk.
RiskWhenBehind(p) ==
    IF p.my_cost_loss + 2 * p.cheapest <= p.enemy_cost_loss THEN 2
    ELSE IF p.my_cost_loss >= p.enemy_cost_loss + 2 * p.cheapest THEN 1
    ELSE 0

\* decideProduction(): 1 is optimistic, 2 pessimistic.
Attitude(p) ==
    IF p.my_cost_loss + 2 * p.cheapest <= p.enemy_cost_loss THEN 1
    ELSE IF p.my_cost_loss >= p.enemy_cost_loss + 2 * p.cheapest THEN 2
    ELSE 0

-----------------------------------------------------------------------------
(* Variables and constraints                                               *)

\* declare_variables(), by their names
Assign == [heavy  |-> [heavy |-> 0, light |-> 3, ranged |-> 6],
           light  |-> [heavy |-> 1, light |-> 4, ranged |-> 7],
           ranged |-> [heavy |-> 2, light |-> 5, ranged |-> 8]]
ToProduce == [heavy |-> 9, light |-> 10, ranged |-> 11]

\* A fault that a run seeds: the assignments against a type, not of a type.
ScopeByEnemy(t) ==
    CASE t = "heavy" -> <<0, 1, 2, 9>>
      [] t = "light" -> <<3, 4, 5, 10>>
      [] OTHER       -> <<6, 7, 8, 11>>

\* The variables of an Assignment constraint in declare_constraints().
Scope(t) ==
    CASE t = "heavy" -> <<0, 3, 6, 9>>
      [] t = "light" -> <<1, 4, 7, 10>>
      [] OTHER       -> <<2, 5, 8, 11>>

\* Assignment::required_error()
AssignmentError(t) ==
    LET v == Scope(t)
        assigned == values[v[1]] + values[v[2]] + values[v[3]]
        own == problem.possessed[t] + values[v[4]]
    IN  IF assigned >= own THEN assigned - own ELSE own - assigned

\* ProductionCapacity::required_error(); Stock is in Production.
CapacityError ==
    LET sum == values[9] + values[10] + values[11]
    IN  IF sum > problem.nb_barracks THEN sum - problem.nb_barracks ELSE 0

Satisfied == CapacityError = 0 /\ \A t \in Army3 : AssignmentError(t) = 0

\* main(): the numbers of the answer.
Answer == [heavy |-> values[9], light |-> values[10], ranged |-> values[11]]

-----------------------------------------------------------------------------
(* The objective                                                           *)

Coefficient == <<100, 37, 156, 268, 100, 47, 64, 212, 100>>

\* A fault that a run seeds: the sign of the square.
RegulationUnsigned(x) == IF x >= 0 THEN 100 * x ELSE x * x - 10000

\* regulation(): a lack counts by its square, and by one more.
Regulation(x) == IF x >= 0 THEN 100 * x ELSE - (x * x) - 10000

\* The superiority over one type of a sampled army, starting at variable k;
\* beyond one unit it is worth nothing more.
Superiority(v, k, number) ==
    LET margin == Coefficient[k + 1] * v[k] + Coefficient[k + 2] * v[k + 1]
                  + Coefficient[k + 3] * v[k + 2] - 100 * number
    IN  Regulation(IF margin > 100 THEN 100 ELSE margin)

Worths(v) ==
    [i \in DOMAIN problem.samples |->
       Superiority(v, 0, problem.samples[i]["heavy"])
       + Superiority(v, 3, problem.samples[i]["light"])
       + Superiority(v, 6, problem.samples[i]["ranged"])]

\* A fault that a run seeds: the samples in the order they were drawn.
Unranked(v) == Worths(v)

\* The place of a worth, with the number of its sample, when they are sorted.
Rank(drawn, d) ==
    Cardinality({e \in drawn : e[1] < d[1] \/ (e[1] = d[1] /\ e[2] <= d[2])})

Sorted(worths) ==
    LET drawn == {<<worths[i], i>> : i \in DOMAIN worths}
    IN  [k \in DOMAIN worths |-> (CHOOSE d \in drawn : Rank(drawn, d) = k)[1]]

Ranked(v) == Sorted(Worths(v))

\* What each sample adds to rdu, the worst one apart.
Gain(sols, N) ==
    [i \in 1 .. N - 1 |-> (sols[i + 1] - sols[i]) * Phi[solver_type][<<N - i, N>>]]

\* BestComposition::required_cost(), times 100
Utility(v) ==
    LET sols == Ranked(v) IN 100 * sols[1] + SumFunction(Gain(sols, Len(problem.samples)))

-----------------------------------------------------------------------------
CompositionInit ==
    /\ problem \in Problems
    /\ solver_type = Attitude(problem)
    /\ values = [i \in 0 .. 11 |-> 0]

\* A move of the local search (SearchUnit), of one variable by one.
Move(i) ==
    /\ \E x \in {values[i] - 1, values[i] + 1} :
         /\ x >= 0
         /\ values' = [values EXCEPT ![i] = x]
    /\ FoldFunction(+, 0, values') <= MaxUnits
    /\ UNCHANGED <<problem, solver_type>>

CompositionNext == \E i \in 0 .. 11 : Move(i)

CompositionSpec == CompositionInit /\ [][CompositionNext]_composition_vars

-----------------------------------------------------------------------------
(* Properties                                                              *)

\* "assign_XL + assign_XR + assign_XH = possessed_X + to_produce_X"
\* (constraints_rts.cpp): the indices of variables, of the scopes and of the
\* answer agree, so that a solution fights with no unit that is neither
\* possessed nor ordered, and keeps none back.
UnitsFightOnce ==
    Satisfied => \A t \in Army3 :
        values[Assign[t]["heavy"]] + values[Assign[t]["light"]] + values[Assign[t]["ranged"]]
            = problem.possessed[t] + Answer[t]

\* The bot that has clearly lost less values a composition at its average over
\* the samples or above, and exactly so when losses are even; in any case
\* between its worth against the worst sample and against the best.
RiskFollowsLosses ==
    LET N == Len(problem.samples)
        worths == Range(Worths(values))
        total == SumFunction(Worths(values))
        lead == problem.enemy_cost_loss - problem.my_cost_loss
        even == 2 * problem.cheapest
        utility == Utility(values)
    IN  /\ 100 * Min(worths) <= utility /\ utility <= 100 * Max(worths)
        /\ lead >= even => N * utility >= 100 * total
        /\ -even < lead /\ lead < even => N * utility = 100 * total

\* A rank dependent utility is a property of the distribution of the worths: the
\* order in which the samples were drawn, and ties among them, do not matter.
UtilityIsOfDistribution ==
    LET sols == Worths(values)
        N == Len(sols)
        Decision(n) == CASE n = 0 -> 0 [] n = N -> 100 [] OTHER -> Phi[solver_type][<<n, N>>]
        AtLeast(x) == Cardinality({i \in 1 .. N : sols[i] >= x})
        Above(x) == Cardinality({i \in 1 .. N : sols[i] > x})
        Share == [x \in Range(sols) |-> x * (Decision(AtLeast(x)) - Decision(Above(x)))]
    IN  Utility(values) = SumFunction(Share)

\* Where regulation() jumps and where superiority is capped, for each attitude:
\* one more unit assigned never makes a composition worth less.
MoreUnitsNeverHurt ==
    [][(\A i \in 0 .. 8 : values'[i] >= values[i]) => Utility(values') >= Utility(values)]_values
=============================================================================
