----------------------------- MODULE SearchUnit -----------------------------
(***************************************************************************)
(* SearchUnit::search() (include/ghost/search_unit.hpp), the local search  *)
(* that each thread of the solver runs: the adaptive variant that the      *)
(* build selects, on a problem that is not a permutation, as the problem   *)
(* of microPhantom.  One action is one iteration of the loop.              *)
(*                                                                         *)
(* Errors and costs are tables given for every configuration (external:    *)
(* the constraints and the objective of the model); random choices are     *)
(* existential; the clock is left out, but not when it is read.            *)
(***************************************************************************)
EXTENDS Integers, FiniteSets, Functions

CONSTANTS
    Vars, Domain, Constraints,
    Scope,            \* the variables of a constraint
    Error,            \* Constraint::error(), by constraint and configuration
    Cost,             \* Objective::cost(), by configuration
    StartingPoint,    \* variables_at_start
    Worst,            \* numeric_limits<double>::max()
    TabuLocalMin, TabuSelected, ResetThreshold, RestartThreshold,
    PercentToReset,   \* a number of variables, in spite of its name
    MaxIterations     \* bound on the iterations

Configurations == [Vars -> Domain]

ASSUME SearchAssumption ==
    /\ IsFiniteSet(Vars) /\ IsFiniteSet(Domain) /\ IsFiniteSet(Constraints)
    /\ Cardinality(Domain) > 1
    /\ Scope \in [Constraints -> SUBSET Vars]
    \* A variable in no constraint has no candidate value: rng.pick() would be
    \* given an empty list.
    /\ \A v \in Vars : \E c \in Constraints : v \in Scope[c]
    /\ Error \in [Constraints -> [Configurations -> Nat]]
    \* required_error() is given the variables of the constraint, and no other.
    /\ \A c \in Constraints : \A x, y \in Configurations :
         (\A v \in Scope[c] : x[v] = y[v]) => Error[c][x] = Error[c][y]
    /\ Cost \in [Configurations -> Nat]
    /\ StartingPoint \in Configurations
    /\ {TabuLocalMin, TabuSelected} \subseteq Nat
    /\ {ResetThreshold, RestartThreshold} \subseteq Nat \ {0}
    /\ ResetThreshold <= Cardinality(Vars)
    /\ PercentToReset \in 1 .. Cardinality(Vars)
    /\ MaxIterations \in Nat
    /\ Worst \in Nat /\ \A x \in Configurations : Cost[x] < Worst

VARIABLES
    is_optimization,         \* constant during the search
    start,                   \* "sampled", or an option: "custom" or "resume"
    pc,                      \* "built", "loop" or "done" (the promise is set)
    values,                  \* model.variables
    constraint_error,        \* Constraint::_current_error
    error_variables,
    current_sat_error, current_opt_cost,
    best_sat_error, best_opt_cost,
    final_solution,
    tabu_list,               \* the count of local moves that ends the tabu
    worst_variables_list, must_compute_worst_variables_list,
    local_moves, resets, restarts, search_iterations,
    unread                   \* iterations since the clock was read

problem == <<is_optimization, start>>
errors == <<values, constraint_error, error_variables, current_sat_error>>
best == <<best_sat_error, best_opt_cost, final_solution>>
tabu == <<tabu_list, worst_variables_list, must_compute_worst_variables_list>>
vars == <<problem, pc, errors, current_opt_cost, best, tabu,
          local_moves, resets, restarts, search_iterations, unread>>

ErrorOf(x) == SumFunction([c \in Constraints |-> Error[c][x]])

\* matrix_var_ctr
ConstraintsOn(v) == {c \in Constraints : v \in Scope[c]}

VariableErrors(ctr_error) ==
    [v \in Vars |-> SumFunctionOnSet(ctr_error, ConstraintsOn(v))]

-----------------------------------------------------------------------------
(* Beginning, reset and restart                                            *)

Init ==
    /\ is_optimization \in BOOLEAN
    /\ start \in {"sampled", "custom", "resume"}
    /\ pc = "built"
    /\ values = StartingPoint
    /\ constraint_error = [c \in Constraints |-> 0]
    /\ error_variables = [v \in Vars |-> 0]
    /\ current_sat_error = Worst /\ current_opt_cost = Worst
    /\ best_sat_error = Worst /\ best_opt_cost = Worst
    /\ final_solution = StartingPoint
    /\ tabu_list = [v \in Vars |-> 0]
    /\ worst_variables_list = {}
    /\ must_compute_worst_variables_list = TRUE
    /\ local_moves = 0 /\ resets = 0 /\ restarts = 0
    /\ search_iterations = 0 /\ unread = 0

\* Any sample can be the best of those drawn; its error is recorded, without
\* its values.
SetInitialConfiguration ==
    /\ values' \in Configurations
    /\ best_sat_error' = IF ErrorOf(values') < best_sat_error
                         THEN ErrorOf(values') ELSE best_sat_error

InitializeVariableValues ==
    IF start = "sampled"
    THEN SetInitialConfiguration /\ UNCHANGED start
    ELSE /\ values' = StartingPoint
         /\ start' = IF start = "resume" THEN "sampled" ELSE start
         /\ UNCHANGED best_sat_error

\* A fault that a run seeds: the tabus survive a reset.
KeptTabus ==
    /\ must_compute_worst_variables_list' = TRUE
    /\ UNCHANGED <<tabu_list, worst_variables_list>>

FreshTabus ==
    /\ must_compute_worst_variables_list' = TRUE
    /\ tabu_list' = [v \in Vars |-> 0]
    /\ UNCHANGED worst_variables_list

InitializeDataStructures ==
    /\ FreshTabus
    /\ constraint_error' = [c \in Constraints |-> Error[c][values']]
    /\ current_sat_error' = ErrorOf(values')
    /\ current_opt_cost' =
         IF ~ is_optimization THEN current_opt_cost
         ELSE IF current_sat_error' = 0 THEN Cost[values'] ELSE Worst
    /\ error_variables' = VariableErrors(constraint_error')

Begin ==
    /\ pc = "built"
    /\ pc' = "loop"
    /\ InitializeVariableValues
    /\ InitializeDataStructures
    /\ final_solution' = values'
    /\ UNCHANGED <<is_optimization, best_opt_cost, local_moves, resets, restarts,
                   search_iterations, unread>>

-----------------------------------------------------------------------------
(* One iteration                                                           *)

Tabus == {v \in Vars : tabu_list[v] > local_moves}

\* compute_worst_variables()
ComputedList ==
    LET free == Vars \ Tabus IN
    IF Cardinality(Tabus) >= ResetThreshold THEN {}
    ELSE {v \in free : \A w \in free : error_variables[v] >= error_variables[w]}

WorstVariables ==
    IF must_compute_worst_variables_list THEN ComputedList ELSE worst_variables_list

\* The loop test, all but the clock and the stop signal, which come at any time.
Iterates ==
    /\ pc = "loop"
    /\ search_iterations < MaxIterations
    /\ best_sat_error > 0 \/ is_optimization
    /\ search_iterations' = search_iterations + 1

Restart == InitializeVariableValues /\ restarts' = restarts + 1

\* monte_carlo_sampling( percent_to_reset )
Resample ==
    /\ \E S \in SUBSET Vars :
         /\ Cardinality(S) = PercentToReset
         /\ \E x \in Configurations :
              /\ \A v \in Vars \ S : x[v] = values[v]
              /\ values' = x
    /\ UNCHANGED <<start, best_sat_error, restarts>>

\* reset(), and "continue" past the reading of the clock.
Reset ==
    /\ Iterates
    /\ WorstVariables = {}
    /\ resets' = resets + 1
    /\ IF resets' % RestartThreshold = 0 THEN Restart ELSE Resample
    /\ InitializeDataStructures
    /\ unread' = unread + 1
    /\ UNCHANGED <<is_optimization, pc, best_opt_cost, final_solution, local_moves>>

With(v, x) == [values EXCEPT ![v] = x]

\* simulate_delta(), for each constraint on v.
DeltaErrors(v, x) ==
    [c \in ConstraintsOn(v) |-> Error[c][With(v, x)] - constraint_error[c]]

Delta(v, x) == SumFunction(DeltaErrors(v, x))

\* The values of lowest conflict; the objective or chance picks one of them.
CandidateValues(v) ==
    LET others == Domain \ {values[v]} IN
    {x \in others : \A y \in others : Delta(v, x) <= Delta(v, y)}

\* A fault that a run seeds: delta_index does not advance, each constraint gets
\* the difference of the same one.
UpdateByOneDelta(v, x) ==
    LET delta == DeltaErrors(v, x)
        first == CHOOSE c \in ConstraintsOn(v) : TRUE
    IN
    /\ constraint_error' =
         [c \in Constraints |->
            constraint_error[c] + IF c \in DOMAIN delta THEN delta[first] ELSE 0]
    /\ error_variables' = VariableErrors(constraint_error')

UpdateErrors(v, x) ==
    LET delta == DeltaErrors(v, x) IN
    /\ constraint_error' =
         [c \in Constraints |->
            constraint_error[c] + IF c \in DOMAIN delta THEN delta[c] ELSE 0]
    /\ error_variables' =
         [w \in Vars |->
            error_variables[w] + SumFunctionOnSet(delta, ConstraintsOn(w) \cap DOMAIN delta)]

LocalMove(v, x, min_conflict) ==
    /\ local_moves' = local_moves + 1
    /\ current_sat_error' = current_sat_error + min_conflict
    /\ tabu_list' = [tabu_list EXCEPT ![v] = TabuSelected + local_moves']
    /\ must_compute_worst_variables_list' = TRUE
    /\ UpdateErrors(v, x)
    /\ values' = With(v, x)

MarkTabu(v) ==
    /\ tabu_list' = [tabu_list EXCEPT ![v] = TabuLocalMin + local_moves]
    /\ must_compute_worst_variables_list' = TRUE
    /\ UNCHANGED <<errors, local_moves>>

PlateauManagement(v, x) == MarkTabu(v) \/ LocalMove(v, x, 0)

\* A fault that a run seeds: no_other_variables_to_try is not looked at.
TryOthersAnyway(v, others) ==
    \/ MarkTabu(v)
    \/ /\ must_compute_worst_variables_list' = FALSE
       /\ UNCHANGED <<tabu_list, errors, local_moves>>

LocalMinimumManagement(v, others) ==
    \/ MarkTabu(v)
    \/ /\ others # {}
       /\ must_compute_worst_variables_list' = FALSE
       /\ UNCHANGED <<tabu_list, errors, local_moves>>

\* Faults that a run seeds: final_solution is left behind, or follows the errors
\* but not the costs.
NotSaved ==
    /\ best_sat_error' = IF current_sat_error' < best_sat_error
                         THEN current_sat_error' ELSE best_sat_error
    /\ UNCHANGED <<best_opt_cost, final_solution>>
SavedTogether ==
    IF best_sat_error > current_sat_error'
    THEN /\ best_sat_error' = current_sat_error'
         /\ best_opt_cost' = current_opt_cost'
         /\ final_solution' = values'
    ELSE /\ best_opt_cost' = IF best_opt_cost > current_opt_cost'
                             THEN current_opt_cost' ELSE best_opt_cost
         /\ UNCHANGED <<best_sat_error, final_solution>>

SaveBest ==
    IF best_sat_error > current_sat_error'
    THEN /\ best_sat_error' = current_sat_error'
         /\ final_solution' = values'
         /\ UNCHANGED best_opt_cost
    ELSE IF is_optimization /\ current_sat_error' = 0 /\ best_opt_cost > current_opt_cost'
    THEN /\ best_opt_cost' = current_opt_cost'
         /\ final_solution' = values'
         /\ UNCHANGED best_sat_error
    ELSE UNCHANGED best

\* The variable picked leaves the list, before its values are tried.
Erased(v) == worst_variables_list' = WorstVariables \ {v}

\* The end of an iteration that has picked a variable: the record, and the clock.
EndIteration ==
    /\ SaveBest
    /\ unread' = 0
    /\ UNCHANGED <<problem, pc, resets, restarts>>

\* 3. Error improved.
ImproveError ==
    /\ Iterates
    /\ \E v \in WorstVariables : \E x \in CandidateValues(v) :
         /\ Erased(v)
         /\ Delta(v, x) < 0
         /\ LocalMove(v, x, Delta(v, x))
         /\ current_opt_cost' = IF is_optimization THEN Cost[values'] ELSE current_opt_cost
         /\ EndIteration

ImproveCost(v, x) ==
    /\ LocalMove(v, x, 0)
    /\ current_opt_cost' = Cost[With(v, x)]

\* 4. Same error.
KeepError ==
    /\ Iterates
    /\ \E v \in WorstVariables : \E x \in CandidateValues(v) :
         /\ Erased(v)
         /\ Delta(v, x) = 0
         /\ LET candidate_opt_cost == Cost[With(v, x)] IN
            \/ /\ is_optimization /\ candidate_opt_cost < current_opt_cost
               /\ ImproveCost(v, x)
            \/ /\ is_optimization => candidate_opt_cost = current_opt_cost
               /\ PlateauManagement(v, x)
               /\ UNCHANGED current_opt_cost
            \/ /\ is_optimization /\ candidate_opt_cost > current_opt_cost
               /\ LocalMinimumManagement(v, WorstVariables \ {v})
               /\ UNCHANGED current_opt_cost
         /\ EndIteration

\* 5. Worse error.
MissError ==
    /\ Iterates
    /\ \E v \in WorstVariables :
         /\ Erased(v)
         /\ \E x \in CandidateValues(v) : Delta(v, x) > 0
         /\ LocalMinimumManagement(v, WorstVariables \ {v})
         /\ UNCHANGED current_opt_cost
         /\ EndIteration

\* The loop ends: the constraints of a satisfaction problem hold, or the clock
\* or the main thread stop it at any time.  final_solution becomes the model.
End ==
    /\ pc = "loop"
    /\ pc' = "done"
    /\ values' = final_solution
    /\ UNCHANGED <<problem, constraint_error, error_variables, current_sat_error,
                   current_opt_cost, best, tabu, local_moves, resets, restarts,
                   search_iterations, unread>>

-----------------------------------------------------------------------------
Next == Begin \/ Reset \/ ImproveError \/ KeepError \/ MissError \/ End

Spec == Init /\ [][Next]_vars

-----------------------------------------------------------------------------
(* Properties                                                              *)

\* Type invariant.
TypeOK ==
    /\ is_optimization \in BOOLEAN
    /\ start \in {"sampled", "custom", "resume"}
    /\ pc \in {"built", "loop", "done"}
    /\ values \in Configurations /\ final_solution \in Configurations
    /\ constraint_error \in [Constraints -> Nat]
    /\ error_variables \in [Vars -> Nat]
    /\ {current_sat_error, current_opt_cost, best_sat_error, best_opt_cost} \subseteq Nat
    /\ tabu_list \in [Vars -> Nat]
    /\ worst_variables_list \in SUBSET Vars
    /\ must_compute_worst_variables_list \in BOOLEAN
    /\ {local_moves, resets, restarts, unread} \subseteq Nat
    /\ search_iterations \in 0 .. MaxIterations

\* The errors are brought up to date move after move by differences, and never
\* drift: they are those of the current configuration, constraint by constraint,
\* variable by variable and in total.
ErrorsAreExact ==
    pc = "loop" =>
        /\ \A c \in Constraints : constraint_error[c] = Error[c][values]
        /\ error_variables = VariableErrors(constraint_error)
        /\ current_sat_error = ErrorOf(values)

\* The current cost, updated on some branches only, is that of the current
\* configuration, or unknown while a constraint is violated after a reset.
CostIsExact ==
    pc = "loop" /\ is_optimization =>
        \/ current_opt_cost = Cost[values]
        \/ current_opt_cost = Worst /\ current_sat_error # 0

\* What is kept instead of being computed in each iteration is what it would be.
Consistent == TypeOK /\ ErrorsAreExact /\ CostIsExact

\* A list of worst variables kept from an iteration to the next is not out of
\* date: it has a variable to pick, and its variables are the worst of those
\* that are not tabu.
KeptListIsFresh ==
    pc = "loop" /\ ~ must_compute_worst_variables_list =>
        /\ worst_variables_list # {}
        /\ worst_variables_list \subseteq ComputedList

\* A cost that has been recorded is the cost of final_solution, which satisfies
\* every constraint.
PricedIsSolution ==
    best_opt_cost < Worst =>
        /\ ErrorOf(final_solution) = 0
        /\ Cost[final_solution] = best_opt_cost

\* The lowest error recorded is that of final_solution as long as the search has
\* not started again from a sample, whose error alone is recorded.
BestIsFinal ==
    (restarts = 0 \/ start = "custom") /\ pc # "built" /\ best_opt_cost = Worst =>
        best_sat_error = Worst \/ best_sat_error = ErrorOf(final_solution)

\* What is recorded and what is kept belong together.
RecordIsKept == PricedIsSolution /\ BestIsFinal

\* A reset goes round the loop without reading the clock, but never twice in a
\* row: the timeout is noticed.
ClockIsRead == unread <= 1

\* The search keeps the promise ParallelSolve relies on.
Promise == INSTANCE SearchPromise WITH
    phase <- IF pc = "done" THEN "done" ELSE "running"

KeepsPromise == Promise!Spec

\* "Return true iff a solution has been found" (search_unit.hpp): the promise
\* is set to best_sat_error == 0.0, and the model to final_solution.
TrueMeansSolved == pc = "done" /\ best_sat_error = 0 => ErrorOf(values) = 0
=============================================================================
