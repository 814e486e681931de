-------------------------- MODULE SearchUnitProofs --------------------------
(***************************************************************************)
(* Theorems on SearchUnit, for any problem, any thresholds and any number  *)
(* of iterations: the errors kept by differences are exact, the record is  *)
(* that of final_solution, and the search keeps its promise.               *)
(***************************************************************************)
EXTENDS SearchUnit, Sums, TLAPS

\* What the records can be: no cost is recorded before the constraints hold.
RecordIsSound ==
    /\ best_sat_error <= Worst /\ best_opt_cost <= Worst
    /\ pc = "built" => best_sat_error = Worst /\ best_opt_cost = Worst
    /\ best_opt_cost < Worst => best_sat_error = 0

\* The iteration after one that has not read the clock has a variable to pick,
\* since nothing is tabu after a reset.
UnreadIsFresh ==
    /\ pc = "built" => unread = 0
    /\ pc = "loop" /\ unread > 0 =>
         must_compute_worst_variables_list /\ \A v \in Vars : tabu_list[v] = 0

-----------------------------------------------------------------------------
(* Errors                                                                  *)

ErrorsAt(x) == [c \in Constraints |-> Error[c][x]]

\* What LocalMove() leaves behind, and InitializeDataStructures too.
Exact ==
    /\ values \in Configurations
    /\ constraint_error = ErrorsAt(values)
    /\ error_variables = VariableErrors(constraint_error)
    /\ current_sat_error = ErrorOf(values)

LEMMA FiniteSets ==
    /\ IsFiniteSet(Constraints) /\ IsFiniteSet(Vars)
    /\ \A v : IsFiniteSet(ConstraintsOn(v)) /\ ConstraintsOn(v) \subseteq Constraints
<1>1. IsFiniteSet(Constraints) /\ IsFiniteSet(Vars)
  BY SearchAssumption
<1>2. \A v : ConstraintsOn(v) \subseteq Constraints
  BY DEF ConstraintsOn
<1> QED
  BY <1>1, <1>2, FS_Subset

LEMMA ErrorsAtType ==
    ASSUME NEW x \in Configurations
    PROVE  /\ ErrorsAt(x) \in [Constraints -> Nat]
           /\ ErrorOf(x) = SumFunctionOnSet(ErrorsAt(x), Constraints)
           /\ ErrorOf(x) \in Nat
           /\ VariableErrors(ErrorsAt(x)) \in [Vars -> Nat]
<1>1. ErrorsAt(x) \in [Constraints -> Nat]
  BY SearchAssumption DEF ErrorsAt
<1>2. ErrorOf(x) = SumFunctionOnSet(ErrorsAt(x), Constraints)
  BY DEF ErrorOf, ErrorsAt, SumFunction
<1>3. \A c \in Constraints : ErrorsAt(x)[c] \in Nat
  BY <1>1
<1>4. SumFunctionOnSet(ErrorsAt(x), Constraints) \in Nat
  BY <1>3, FiniteSets, SumNat
<1>5. ASSUME NEW v \in Vars
      PROVE  SumFunctionOnSet(ErrorsAt(x), ConstraintsOn(v)) \in Nat
  <2>1. \A c \in ConstraintsOn(v) : ErrorsAt(x)[c] \in Nat
    BY <1>3, FiniteSets
  <2> QED
    BY <2>1, FiniteSets, SumNat
<1> QED
  BY <1>1, <1>2, <1>4, <1>5 DEF VariableErrors

LEMMA WithType ==
    ASSUME values \in Configurations, NEW v \in Vars, NEW x \in Domain
    PROVE  /\ With(v, x) \in Configurations
           /\ \A w \in Vars : w # v => With(v, x)[w] = values[w]
  BY DEF With, Configurations

\* A change of v is nothing to the constraints that v is not in.
LEMMA OtherErrors ==
    ASSUME values \in Configurations, NEW v \in Vars, NEW x \in Domain,
           NEW c \in Constraints, c \notin ConstraintsOn(v)
    PROVE  Error[c][With(v, x)] = Error[c][values]
<1>1. v \notin Scope[c] /\ Scope[c] \subseteq Vars
  BY SearchAssumption DEF ConstraintsOn
<1>2. \A w \in Scope[c] : With(v, x)[w] = values[w]
  BY <1>1, WithType
<1>3. With(v, x) \in Configurations
  BY WithType
<1> QED
  BY <1>2, <1>3, SearchAssumption

\* The differences of all the constraints.
Differences(v, x) ==
    [c \in Constraints |-> ErrorsAt(With(v, x))[c] - ErrorsAt(values)[c]]

LEMMA DifferencesAre ==
    ASSUME Exact, NEW v \in Vars, NEW x \in Domain
    PROVE  /\ \A c \in Constraints :
                /\ ErrorsAt(values)[c] \in Int /\ ErrorsAt(With(v, x))[c] \in Int
                /\ Differences(v, x)[c] \in Int
                /\ ErrorsAt(With(v, x))[c] = ErrorsAt(values)[c] + Differences(v, x)[c]
           /\ DOMAIN DeltaErrors(v, x) = ConstraintsOn(v)
           /\ \A c \in ConstraintsOn(v) : DeltaErrors(v, x)[c] = Differences(v, x)[c]
           /\ \A c \in Constraints \ ConstraintsOn(v) : Differences(v, x)[c] = 0
<1>1. With(v, x) \in Configurations /\ values \in Configurations
  BY WithType DEF Exact
<1>2. ErrorsAt(values) \in [Constraints -> Nat] /\ ErrorsAt(With(v, x)) \in [Constraints -> Nat]
  BY <1>1, ErrorsAtType
<1>3. ASSUME NEW c \in Constraints
      PROVE  /\ ErrorsAt(values)[c] \in Int /\ ErrorsAt(With(v, x))[c] \in Int
             /\ Differences(v, x)[c] = ErrorsAt(With(v, x))[c] - ErrorsAt(values)[c]
  BY <1>2 DEF Differences
<1>4. DOMAIN DeltaErrors(v, x) = ConstraintsOn(v)
  BY DEF DeltaErrors
<1>5. ASSUME NEW c \in ConstraintsOn(v)
      PROVE  DeltaErrors(v, x)[c] = Differences(v, x)[c]
  <2>1. c \in Constraints
    BY FiniteSets
  <2>2. constraint_error[c] = ErrorsAt(values)[c]
    BY DEF Exact
  <2>3. ErrorsAt(With(v, x))[c] = Error[c][With(v, x)]
    BY <2>1 DEF ErrorsAt
  <2> QED
    BY <1>3, <2>1, <2>2, <2>3 DEF DeltaErrors
<1>6. ASSUME NEW c \in Constraints \ ConstraintsOn(v)
      PROVE  Differences(v, x)[c] = 0
  <2>1. ErrorsAt(With(v, x))[c] = ErrorsAt(values)[c]
    BY <1>1, OtherErrors DEF ErrorsAt
  <2> QED
    BY <1>3, <2>1
<1> QED
  BY <1>3, <1>4, <1>5, <1>6

\* The difference that simulate_delta() adds up is that of the total error.
LEMMA DeltaIsDifference ==
    ASSUME Exact, NEW v \in Vars, NEW x \in Domain
    PROVE  /\ Delta(v, x) \in Int
           /\ ErrorOf(With(v, x)) = ErrorOf(values) + Delta(v, x)
<1> DEFINE d == Differences(v, x)
           on == ConstraintsOn(v)
<1>1. IsFiniteSet(Constraints) /\ IsFiniteSet(on) /\ on \subseteq Constraints
  BY FiniteSets
<1>2. Delta(v, x) = SumFunctionOnSet(DeltaErrors(v, x), on)
  BY DifferencesAre DEF Delta, SumFunction
<1>3. SumFunctionOnSet(DeltaErrors(v, x), on) = SumFunctionOnSet(d, on)
  <2> HIDE DEF d, on
  <2>1. \A c \in on : DeltaErrors(v, x)[c] = d[c]
    BY DifferencesAre DEF d, on
  <2> QED
    BY <1>1, <2>1, SumAgree
<1>4. SumFunctionOnSet(d, Constraints) = SumFunctionOnSet(d, on)
  <2> HIDE DEF d, on
  <2>1. \A c \in Constraints : d[c] \in Int
    BY DifferencesAre DEF d
  <2>2. \A c \in Constraints \ on : d[c] = 0
    BY DifferencesAre DEF d, on
  <2> QED
    BY <1>1, <2>1, <2>2, SumNonzero
<1>5. SumFunctionOnSet(d, Constraints) \in Int
  <2> HIDE DEF d
  <2>1. \A c \in Constraints : d[c] \in Int
    BY DifferencesAre DEF d
  <2> QED
    BY <1>1, <2>1, SumInt
<1>6. SumFunctionOnSet(ErrorsAt(With(v, x)), Constraints)
        = SumFunctionOnSet(ErrorsAt(values), Constraints) + SumFunctionOnSet(d, Constraints)
  <2> HIDE DEF d
  <2>1. \A c \in Constraints :
          /\ ErrorsAt(values)[c] \in Int /\ d[c] \in Int
          /\ ErrorsAt(With(v, x))[c] = ErrorsAt(values)[c] + d[c]
    BY DifferencesAre DEF d
  <2> QED
    BY <1>1, <2>1, SumPlus
<1>7. /\ ErrorOf(With(v, x)) = SumFunctionOnSet(ErrorsAt(With(v, x)), Constraints)
      /\ ErrorOf(values) = SumFunctionOnSet(ErrorsAt(values), Constraints)
  BY WithType, ErrorsAtType DEF Exact
<1> QED
  BY <1>2, <1>3, <1>4, <1>5, <1>6, <1>7

\* update_errors(): what is added to the errors of constraints and variables is
\* what a computation from the new values would give.
LEMMA UpdateIsExact ==
    ASSUME Exact, NEW v \in Vars, NEW x \in Domain, UpdateErrors(v, x)
    PROVE  /\ constraint_error' = ErrorsAt(With(v, x))
           /\ error_variables' = VariableErrors(ErrorsAt(With(v, x)))
<1> DEFINE d == Differences(v, x)
           delta == DeltaErrors(v, x)
           new == ErrorsAt(With(v, x))
           old == ErrorsAt(values)
<1>1. constraint_error = old /\ error_variables = VariableErrors(old)
  BY DEF Exact
<1>2. constraint_error' = new
  <2>1. constraint_error' =
          [c \in Constraints |-> old[c] + IF c \in ConstraintsOn(v) THEN delta[c] ELSE 0]
    BY <1>1, DifferencesAre DEF UpdateErrors
  <2>2. ASSUME NEW c \in Constraints
        PROVE  old[c] + (IF c \in ConstraintsOn(v) THEN delta[c] ELSE 0) = new[c]
    <3> HIDE DEF d, delta, new, old
    <3>1. /\ old[c] \in Int /\ d[c] \in Int /\ new[c] = old[c] + d[c]
          /\ c \in ConstraintsOn(v) => delta[c] = d[c]
          /\ c \notin ConstraintsOn(v) => d[c] = 0
      BY DifferencesAre DEF d, delta, new, old
    <3> QED
      BY <3>1
  <2>3. new = [c \in Constraints |-> new[c]]
    BY DEF ErrorsAt
  <2> HIDE DEF d, delta, new, old
  <2> QED
    BY <2>1, <2>2, <2>3
<1>3. error_variables' =
        [w \in Vars |-> SumFunctionOnSet(old, ConstraintsOn(w))
                        + SumFunctionOnSet(delta, ConstraintsOn(w) \cap ConstraintsOn(v))]
  BY <1>1, DifferencesAre DEF UpdateErrors, VariableErrors
<1>4. ASSUME NEW w \in Vars
      PROVE  SumFunctionOnSet(old, ConstraintsOn(w))
               + SumFunctionOnSet(delta, ConstraintsOn(w) \cap ConstraintsOn(v))
             = SumFunctionOnSet(new, ConstraintsOn(w))
  <2> DEFINE on == ConstraintsOn(w)
             both == on \cap ConstraintsOn(v)
  <2>1. IsFiniteSet(on) /\ on \subseteq Constraints
    BY FiniteSets
  <2>2. /\ \A c \in on : old[c] \in Int /\ d[c] \in Int /\ new[c] = old[c] + d[c]
        /\ \A c \in on \ both : d[c] = 0
        /\ \A c \in both : delta[c] = d[c]
    <3> HIDE DEF d, delta, new, old
    <3>1. \A c \in Constraints : old[c] \in Int /\ d[c] \in Int /\ new[c] = old[c] + d[c]
      BY DifferencesAre DEF d, new, old
    <3>2. \A c \in Constraints \ ConstraintsOn(v) : d[c] = 0
      BY DifferencesAre DEF d
    <3>3. \A c \in ConstraintsOn(v) : delta[c] = d[c]
      BY DifferencesAre DEF d, delta
    <3> QED
      BY <2>1, <3>1, <3>2, <3>3
  <2>3. both \in SUBSET on
    OBVIOUS
  <2> HIDE DEF d, delta, new, old, on, both
  <2>4. IsFiniteSet(both)
    BY <2>1, <2>3, FS_Subset
  <2>5. SumFunctionOnSet(delta, both) = SumFunctionOnSet(d, both)
    BY <2>2, <2>4, SumAgree
  <2>6. SumFunctionOnSet(d, on) = SumFunctionOnSet(d, both)
    BY <2>1, <2>2, <2>3, SumNonzero
  <2>7. SumFunctionOnSet(new, on) = SumFunctionOnSet(old, on) + SumFunctionOnSet(d, on)
    BY <2>1, <2>2, SumPlus
  <2> QED
    BY <2>5, <2>6, <2>7 DEF on, both
<1>5. error_variables' = VariableErrors(new)
  <2> HIDE DEF delta, new, old
  <2> QED
    BY <1>3, <1>4 DEF VariableErrors
<1> QED
  BY <1>2, <1>5
-----------------------------------------------------------------------------
(* The kinds of iterations                                                 *)

\* A move, which the errors and the cost follow.
Moves(v, x) ==
    /\ LocalMove(v, x, Delta(v, x))
    /\ current_opt_cost' = IF is_optimization THEN Cost[With(v, x)] ELSE current_opt_cost

\* A variable made tabu, or left for another of the list.
Stays(v) ==
    /\ LocalMinimumManagement(v, WorstVariables \ {v})
    /\ UNCHANGED current_opt_cost

Picks(v) ==
    /\ Iterates
    /\ Erased(v)
    /\ EndIteration
    /\ (\E x \in Domain : Moves(v, x)) \/ Stays(v)

LEMMA WorstVariablesType ==
    ASSUME TypeOK
    PROVE  WorstVariables \subseteq Vars /\ ComputedList \subseteq Vars
  BY DEF TypeOK, WorstVariables, ComputedList

\* Whatever an iteration that picks a variable finds, it moves or stays.
LEMMA PickingIsMovingOrStaying ==
    ASSUME TypeOK, ImproveError \/ KeepError \/ MissError
    PROVE  \E v \in WorstVariables : Picks(v)
<1>1. \A v \in Vars : \A x \in CandidateValues(v) : x \in Domain
  BY DEF CandidateValues
<1>2. CASE ImproveError
  <2>1. PICK v \in WorstVariables : \E x \in CandidateValues(v) :
          /\ LocalMove(v, x, Delta(v, x))
          /\ current_opt_cost' = IF is_optimization THEN Cost[values'] ELSE current_opt_cost
          /\ Erased(v)
          /\ EndIteration
    BY <1>2 DEF ImproveError
  <2>2. PICK x \in CandidateValues(v) :
          /\ LocalMove(v, x, Delta(v, x))
          /\ current_opt_cost' = IF is_optimization THEN Cost[values'] ELSE current_opt_cost
          /\ Erased(v)
          /\ EndIteration
    BY <2>1
  <2>3. x \in Domain
    BY <1>1, WorstVariablesType
  <2>4. values' = With(v, x)
    BY <2>2 DEF LocalMove
  <2>5. Moves(v, x)
    BY <2>2, <2>4 DEF Moves
  <2> QED
    BY <1>2, <2>2, <2>3, <2>5 DEF Picks, ImproveError
<1>3. CASE KeepError
  <2>1. PICK v \in WorstVariables : \E x \in CandidateValues(v) :
          /\ Delta(v, x) = 0
          /\ \/ /\ is_optimization /\ Cost[With(v, x)] < current_opt_cost
                /\ ImproveCost(v, x)
             \/ /\ is_optimization => Cost[With(v, x)] = current_opt_cost
                /\ PlateauManagement(v, x)
                /\ UNCHANGED current_opt_cost
             \/ /\ is_optimization /\ Cost[With(v, x)] > current_opt_cost
                /\ LocalMinimumManagement(v, WorstVariables \ {v})
                /\ UNCHANGED current_opt_cost
          /\ Erased(v)
          /\ EndIteration
    BY <1>3 DEF KeepError
  <2>2. PICK x \in CandidateValues(v) :
          /\ Delta(v, x) = 0
          /\ \/ /\ is_optimization /\ Cost[With(v, x)] < current_opt_cost
                /\ ImproveCost(v, x)
             \/ /\ is_optimization => Cost[With(v, x)] = current_opt_cost
                /\ PlateauManagement(v, x)
                /\ UNCHANGED current_opt_cost
             \/ /\ is_optimization /\ Cost[With(v, x)] > current_opt_cost
                /\ LocalMinimumManagement(v, WorstVariables \ {v})
                /\ UNCHANGED current_opt_cost
          /\ Erased(v)
          /\ EndIteration
    BY <2>1
  <2>3. x \in Domain
    BY <1>1, WorstVariablesType
  <2>4. CASE is_optimization /\ ImproveCost(v, x)
    <3>1. Moves(v, x)
      BY <2>2, <2>4 DEF Moves, ImproveCost
    <3> QED
      BY <1>3, <2>2, <2>3, <3>1 DEF Picks, KeepError
  <2>5. CASE MarkTabu(v) /\ UNCHANGED current_opt_cost
    <3>1. Stays(v)
      BY <2>5 DEF Stays, LocalMinimumManagement
    <3> QED
      BY <1>3, <2>2, <3>1 DEF Picks, KeepError
  <2>6. CASE /\ is_optimization => Cost[With(v, x)] = current_opt_cost
             /\ LocalMove(v, x, 0)
             /\ UNCHANGED current_opt_cost
    <3>1. current_opt_cost' = IF is_optimization THEN Cost[With(v, x)] ELSE current_opt_cost
      <4>1. CASE is_optimization
        BY <2>6, <4>1
      <4>2. CASE ~ is_optimization
        BY <2>6, <4>2
      <4> QED
        BY <4>1, <4>2
    <3>2. Moves(v, x)
      BY <2>2, <2>6, <3>1 DEF Moves
    <3> QED
      BY <1>3, <2>2, <2>3, <3>2 DEF Picks, KeepError
  <2>7. CASE LocalMinimumManagement(v, WorstVariables \ {v}) /\ UNCHANGED current_opt_cost
    BY <1>3, <2>2, <2>7 DEF Picks, Stays, KeepError
  <2> QED
    BY <2>2, <2>4, <2>5, <2>6, <2>7 DEF PlateauManagement
<1>4. CASE MissError
  BY <1>4 DEF MissError, Picks, Stays
<1> QED
  BY <1>2, <1>3, <1>4

\* Where the search begins and where it starts again, the errors are computed.
Begins == Begin \/ Reset

LEMMA ConfigurationOfBeginning ==
    ASSUME TypeOK, Begins
    PROVE  /\ values' \in Configurations
           /\ InitializeDataStructures
           /\ start' \in {"sampled", "custom", "resume"}
           /\ restarts' \in Nat
           /\ \/ UNCHANGED best_sat_error
              \/ /\ start = "sampled"
                 /\ best_sat_error' = ErrorOf(values') /\ ErrorOf(values') < best_sat_error
<1>1. StartingPoint \in Configurations
  BY SearchAssumption
<1>2. ASSUME InitializeVariableValues
      PROVE  /\ values' \in Configurations
             /\ start' \in {"sampled", "custom", "resume"}
             /\ \/ UNCHANGED best_sat_error
                \/ /\ start = "sampled"
                   /\ best_sat_error' = ErrorOf(values') /\ ErrorOf(values') < best_sat_error
  BY <1>1, <1>2 DEF InitializeVariableValues, SetInitialConfiguration, TypeOK
<1>3. CASE Begin
  BY <1>2, <1>3 DEF Begin, TypeOK
<1>4. CASE Reset /\ Restart
  BY <1>2, <1>4 DEF Reset, Restart, TypeOK
<1>5. CASE Reset /\ Resample
  BY <1>5 DEF Reset, Resample, TypeOK
<1> QED
  BY <1>3, <1>4, <1>5 DEF Begins, Reset

LEMMA BeginningIsExact ==
    ASSUME TypeOK, Begins
    PROVE  Exact' /\ ErrorOf(values') \in Nat
<1>1. values' \in Configurations /\ InitializeDataStructures
  BY ConfigurationOfBeginning
<1> QED
  BY <1>1, ErrorsAtType DEF InitializeDataStructures, Exact, ErrorsAt, VariableErrors, ErrorOf

LEMMA ExactInLoop ==
    ASSUME TypeOK
    PROVE  (ErrorsAreExact /\ pc = "loop" => Exact) /\ (Exact => ErrorsAreExact)
  BY DEF TypeOK, ErrorsAreExact, Exact, ErrorsAt

\* A move keeps the errors exact, the total included.
LEMMA MoveIsExact ==
    ASSUME Exact, NEW v \in Vars, NEW x \in Domain, LocalMove(v, x, Delta(v, x))
    PROVE  Exact'
<1>1. values' = With(v, x) /\ UpdateErrors(v, x)
      /\ current_sat_error' = current_sat_error + Delta(v, x)
  BY DEF LocalMove
<1>2. values \in Configurations /\ current_sat_error = ErrorOf(values)
  BY DEF Exact
<1>3. values' \in Configurations
  BY <1>1, <1>2, WithType
<1>4. constraint_error' = ErrorsAt(values') /\ error_variables' = VariableErrors(constraint_error')
  BY <1>1, UpdateIsExact
<1>5. current_sat_error' = ErrorOf(values')
  BY <1>1, <1>2, DeltaIsDifference
<1> QED
  BY <1>3, <1>4, <1>5 DEF Exact, ErrorsAt, VariableErrors, ErrorOf
LEMMA KindsOfSteps ==
    ASSUME TypeOK, [Next]_vars
    PROVE  Begins \/ (\E v \in WorstVariables : Picks(v)) \/ End \/ UNCHANGED vars
  BY PickingIsMovingOrStaying DEF Next, Begins

LEMMA ExactType ==
    ASSUME Exact
    PROVE  /\ constraint_error \in [Constraints -> Nat]
           /\ error_variables \in [Vars -> Nat]
           /\ current_sat_error \in Nat
  BY ErrorsAtType DEF Exact

LEMMA CostType ==
    /\ Worst \in Nat
    /\ \A x \in Configurations : Cost[x] \in Nat /\ Cost[x] < Worst
  BY SearchAssumption

-----------------------------------------------------------------------------
(* What is kept is what would be computed                                  *)

LEMMA BeginningIsConsistent ==
    ASSUME Consistent, Begins
    PROVE  Consistent'
<1>1. TypeOK /\ Exact' /\ ErrorOf(values') \in Nat /\ InitializeDataStructures
  BY BeginningIsExact, ConfigurationOfBeginning DEF Consistent
<1>2. /\ values' \in Configurations /\ start' \in {"sampled", "custom", "resume"}
      /\ restarts' \in Nat /\ best_sat_error' \in Nat
  BY <1>1, ConfigurationOfBeginning DEF TypeOK
<1>3. /\ constraint_error' \in [Constraints -> Nat] /\ error_variables' \in [Vars -> Nat]
      /\ current_sat_error' \in Nat
  <2>1. ASSUME Exact
        PROVE  /\ constraint_error \in [Constraints -> Nat]
               /\ error_variables \in [Vars -> Nat]
               /\ current_sat_error \in Nat
    BY <2>1, ExactType
  <2> QED
    BY <1>1, ErrorsAtType DEF Exact, ErrorsAt, VariableErrors, ErrorOf
<1>4. current_opt_cost' \in Nat /\ CostIsExact'
  BY <1>1, <1>2, CostType
  DEF InitializeDataStructures, CostIsExact, TypeOK, Exact, Begins, Begin, Reset
<1>5. /\ tabu_list' \in [Vars -> Nat] /\ worst_variables_list' \in SUBSET Vars
      /\ must_compute_worst_variables_list' \in BOOLEAN
  BY <1>1 DEF InitializeDataStructures, FreshTabus, TypeOK
<1>6. /\ is_optimization' \in BOOLEAN /\ pc' \in {"built", "loop", "done"}
      /\ final_solution' \in Configurations /\ best_opt_cost' \in Nat
      /\ {local_moves', resets', unread'} \subseteq Nat
      /\ search_iterations' \in 0 .. MaxIterations
  <2>1. CASE Begin
    BY <1>1, <1>2, <2>1 DEF Begin, TypeOK
  <2>2. CASE Reset
    BY <1>1, <2>2, SearchAssumption DEF Reset, Iterates, TypeOK
  <2> QED
    BY <2>1, <2>2 DEF Begins
<1>7. TypeOK'
  BY <1>2, <1>3, <1>4, <1>5, <1>6 DEF TypeOK
<1>8. ErrorsAreExact'
  BY <1>1 DEF Exact, ErrorsAreExact, ErrorsAt
<1> QED
  BY <1>4, <1>7, <1>8 DEF Consistent

LEMMA PickIsExact ==
    ASSUME Consistent, NEW v \in WorstVariables, Picks(v)
    PROVE  Exact /\ Exact' /\ v \in Vars
<1>1. v \in Vars
  BY WorstVariablesType DEF Consistent
<1>2. Exact
  BY ExactInLoop DEF Consistent, Picks, Iterates
<1>3. ASSUME NEW x \in Domain, Moves(v, x)
      PROVE  Exact'
  BY <1>1, <1>2, <1>3, MoveIsExact DEF Moves
<1>4. ASSUME Stays(v) PROVE Exact'
  <2>1. UNCHANGED errors
    BY <1>4 DEF Stays, LocalMinimumManagement, MarkTabu
  <2>2. UNCHANGED <<values, constraint_error, error_variables, current_sat_error>>
    BY <2>1 DEF errors
  <2> QED
    BY <1>2, <2>2 DEF Exact, ErrorsAt, VariableErrors, ErrorOf
<1> QED
  BY <1>1, <1>2, <1>3, <1>4 DEF Picks

LEMMA PickIsConsistent ==
    ASSUME Consistent, NEW v \in WorstVariables, Picks(v)
    PROVE  Consistent'
<1>1. TypeOK /\ Exact /\ Exact' /\ v \in Vars
  BY PickIsExact DEF Consistent
<1>2. /\ values' \in Configurations
      /\ constraint_error' \in [Constraints -> Nat] /\ error_variables' \in [Vars -> Nat]
      /\ current_sat_error' \in Nat
  <2>1. ASSUME Exact
        PROVE  /\ values \in Configurations
               /\ constraint_error \in [Constraints -> Nat]
               /\ error_variables \in [Vars -> Nat]
               /\ current_sat_error \in Nat
    BY <2>1, ExactType DEF Exact
  <2> QED
    BY <1>1, ErrorsAtType DEF Exact, ErrorsAt, VariableErrors, ErrorOf
<1>3. current_opt_cost' \in Nat /\ CostIsExact'
  <2>1. ASSUME NEW x \in Domain, Moves(v, x)
        PROVE  current_opt_cost' \in Nat /\ CostIsExact'
    <3>1. values' = With(v, x) /\ With(v, x) \in Configurations
      BY <1>1, <2>1, WithType DEF Moves, LocalMove, Exact
    <3> QED
      BY <1>1, <2>1, <3>1, CostType DEF Moves, CostIsExact, TypeOK, Picks, EndIteration, Erased, problem
  <2>2. CASE Stays(v)
    <3>1. /\ UNCHANGED <<values, current_sat_error, current_opt_cost, is_optimization>>
          /\ pc = "loop"
      BY <2>2 DEF Stays, LocalMinimumManagement, MarkTabu, errors, Picks, EndIteration, Erased,
                  problem, Iterates
    <3> QED
      BY <1>1, <3>1 DEF CostIsExact, TypeOK, Consistent
  <2> QED
    BY <2>1, <2>2 DEF Picks
<1>4. /\ tabu_list' \in [Vars -> Nat] /\ local_moves' \in Nat
      /\ must_compute_worst_variables_list' \in BOOLEAN
  <2>1. ASSUME NEW x \in Domain, Moves(v, x)
        PROVE  /\ tabu_list' \in [Vars -> Nat] /\ local_moves' \in Nat
               /\ must_compute_worst_variables_list' \in BOOLEAN
    BY <1>1, <2>1, SearchAssumption DEF Moves, LocalMove, TypeOK
  <2>2. CASE Stays(v)
    <3>1. local_moves' = local_moves /\ must_compute_worst_variables_list' \in BOOLEAN
      BY <2>2 DEF Stays, LocalMinimumManagement, MarkTabu
    <3>2. \/ tabu_list' = [tabu_list EXCEPT ![v] = TabuLocalMin + local_moves]
          \/ tabu_list' = tabu_list
      BY <2>2 DEF Stays, LocalMinimumManagement, MarkTabu
    <3>3. TabuLocalMin \in Nat /\ local_moves \in Nat /\ tabu_list \in [Vars -> Nat]
      BY <1>1, SearchAssumption DEF TypeOK
    <3> QED
      BY <3>1, <3>2, <3>3
  <2> QED
    BY <2>1, <2>2 DEF Picks
<1>5. /\ final_solution' \in Configurations /\ best_opt_cost' \in Nat /\ best_sat_error' \in Nat
  BY <1>1, <1>2, <1>3 DEF Picks, EndIteration, Erased, SaveBest, best, TypeOK
<1>6. /\ is_optimization' \in BOOLEAN /\ start' \in {"sampled", "custom", "resume"}
      /\ pc' \in {"built", "loop", "done"}
      /\ {resets', restarts', unread'} \subseteq Nat
      /\ worst_variables_list' \in SUBSET Vars
  BY <1>1, WorstVariablesType DEF Picks, EndIteration, Erased, problem, TypeOK
<1>7. search_iterations' \in 0 .. MaxIterations
  BY <1>1, SearchAssumption DEF Picks, Iterates, TypeOK
<1>8. TypeOK'
  BY <1>2, <1>3, <1>4, <1>5, <1>6, <1>7 DEF TypeOK
<1>9. ErrorsAreExact'
  BY <1>1 DEF Exact, ErrorsAreExact, ErrorsAt
<1> QED
  BY <1>3, <1>8, <1>9 DEF Consistent

LEMMA InitIsConsistent == Init => Consistent
<1> SUFFICES ASSUME Init PROVE Consistent
  OBVIOUS
<1>1. TypeOK
  BY SearchAssumption DEF Init, TypeOK
<1> QED
  BY <1>1 DEF Init, Consistent, ErrorsAreExact, CostIsExact

LEMMA ConsistentStep == Consistent /\ [Next]_vars => Consistent'
<1> SUFFICES ASSUME Consistent, [Next]_vars PROVE Consistent'
  OBVIOUS
<1>1. CASE End
  <2>1. TypeOK'
    BY <1>1 DEF End, problem, best, tabu, TypeOK, Consistent
  <2> QED
    BY <1>1, <2>1 DEF End, Consistent, ErrorsAreExact, CostIsExact
<1>2. CASE UNCHANGED vars
  BY <1>2 DEF vars, problem, errors, best, tabu, Consistent, TypeOK, ErrorsAreExact,
              CostIsExact, VariableErrors, ErrorOf
<1> QED
  BY <1>1, <1>2, KindsOfSteps, BeginningIsConsistent, PickIsConsistent DEF Consistent

\* TypeOK, ErrorsAreExact and CostIsExact: the errors and the cost brought up to
\* date by differences (update_errors(), local_move() of search_unit.hpp) never drift.
THEOREM ErrorsNeverDrift == Spec => []Consistent
<1> QED
  BY InitIsConsistent, ConsistentStep, PTL DEF Spec
-----------------------------------------------------------------------------
(* What is recorded belongs to final_solution                              *)

RecordInv == RecordIsKept /\ RecordIsSound

LEMMA BeginningKeepsRecord ==
    ASSUME Consistent, RecordInv, Begins
    PROVE  RecordInv'
<1>1. TypeOK /\ ErrorOf(values') \in Nat /\ Worst \in Nat
  BY BeginningIsExact, CostType DEF Consistent
<1>2. \/ UNCHANGED best_sat_error
      \/ /\ start = "sampled"
         /\ best_sat_error' = ErrorOf(values') /\ ErrorOf(values') < best_sat_error
  BY <1>1, ConfigurationOfBeginning
<1>3. best_opt_cost' = best_opt_cost
  BY DEF Begins, Begin, Reset
<1>4. best_sat_error \in Nat /\ best_opt_cost \in Nat /\ restarts \in Nat
  BY <1>1 DEF TypeOK
<1>5. RecordIsSound'
  <2>1. pc' = "loop"
    BY DEF Begins, Begin, Reset, Iterates
  <2> QED
    BY <1>1, <1>2, <1>3, <1>4, <2>1 DEF RecordIsSound, RecordInv
<1>6. CASE Begin
  <2>1. /\ best_sat_error = Worst /\ best_opt_cost = Worst
        /\ final_solution' = values'
    BY <1>6 DEF Begin, RecordIsSound, RecordInv
  <2>2. best_sat_error' = Worst \/ best_sat_error' = ErrorOf(final_solution')
    BY <1>2, <2>1
  <2>3. RecordIsKept'
    BY <1>1, <1>3, <2>1, <2>2 DEF RecordIsKept, PricedIsSolution, BestIsFinal, ErrorOf
  <2> QED
    BY <1>5, <2>3 DEF RecordInv
<1>7. CASE Reset
  <2>1. final_solution' = final_solution /\ pc = "loop" /\ pc' = "loop"
    BY <1>7 DEF Reset, Iterates
  <2>2. PricedIsSolution'
    BY <1>3, <2>1 DEF RecordInv, RecordIsKept, PricedIsSolution, ErrorOf
  <2>3. \/ UNCHANGED <<start, best_sat_error, restarts>>
        \/ restarts' # 0 /\ start' # "custom"
        \/ start = "custom" /\ UNCHANGED best_sat_error
    BY <1>4, <1>7 DEF Reset, Restart, Resample, InitializeVariableValues
  <2>4. BestIsFinal'
    BY <1>3, <2>1, <2>3 DEF RecordInv, RecordIsKept, BestIsFinal, ErrorOf
  <2> QED
    BY <1>5, <2>2, <2>4 DEF RecordInv, RecordIsKept
<1> QED
  BY <1>6, <1>7 DEF Begins

LEMMA PickKeepsRecord ==
    ASSUME Consistent, RecordInv, NEW v \in WorstVariables, Picks(v)
    PROVE  RecordInv'
<1>1. Consistent' /\ Exact'
  BY PickIsConsistent, PickIsExact
<1>2. /\ best_sat_error \in Nat /\ best_opt_cost \in Nat /\ Worst \in Nat
      /\ current_sat_error' \in Nat /\ current_opt_cost' \in Nat
  BY <1>1, CostType DEF Consistent, TypeOK
<1>3. /\ pc = "loop" /\ pc' = "loop" /\ is_optimization' = is_optimization
      /\ start' = start /\ restarts' = restarts
      /\ SaveBest
  BY DEF Picks, Iterates, EndIteration, Erased, problem
<1>4. ErrorOf(values') = current_sat_error'
  BY <1>1 DEF Exact, ErrorOf
<1>5. CASE best_sat_error > current_sat_error'
  <2>1. /\ best_sat_error' = current_sat_error' /\ best_opt_cost' = best_opt_cost
        /\ final_solution' = values'
    BY <1>3, <1>5 DEF SaveBest
  <2>2. ~ (best_opt_cost < Worst)
    BY <1>2, <1>5 DEF RecordInv, RecordIsSound
  <2>3. RecordIsSound'
    BY <1>2, <1>3, <1>5, <2>1, <2>2 DEF RecordInv, RecordIsSound
  <2>4. ErrorOf(final_solution') = best_sat_error'
    BY <1>4, <2>1
  <2> QED
    BY <2>1, <2>2, <2>3, <2>4
    DEF RecordInv, RecordIsKept, PricedIsSolution, BestIsFinal, ErrorOf
<1>6. CASE /\ ~ (best_sat_error > current_sat_error')
           /\ is_optimization /\ current_sat_error' = 0 /\ best_opt_cost > current_opt_cost'
  <2>1. /\ best_opt_cost' = current_opt_cost' /\ best_sat_error' = best_sat_error
        /\ final_solution' = values'
    BY <1>3, <1>6 DEF SaveBest
  <2>2. best_sat_error = 0 /\ best_opt_cost' < Worst
    BY <1>2, <1>6, <2>1 DEF RecordInv, RecordIsSound
  <2>3. current_opt_cost' = Cost[values']
    BY <1>1, <1>3, <1>6 DEF Consistent, CostIsExact
  <2>4. RecordIsSound'
    BY <1>2, <1>3, <2>1, <2>2 DEF RecordInv, RecordIsSound
  <2>5. ErrorOf(final_solution') = 0 /\ Cost[final_solution'] = best_opt_cost'
    BY <1>4, <1>6, <2>1, <2>3
  <2>6. ~ (best_opt_cost' = Worst)
    BY <1>2, <2>1, <2>2
  <2> QED
    BY <2>4, <2>5, <2>6 DEF RecordInv, RecordIsKept, PricedIsSolution, BestIsFinal, ErrorOf
<1>7. CASE UNCHANGED best
  BY <1>3, <1>7 DEF best, RecordInv, RecordIsKept, RecordIsSound, PricedIsSolution, BestIsFinal,
                    ErrorOf
<1> QED
  BY <1>3, <1>5, <1>6, <1>7 DEF SaveBest

LEMMA RecordStep == Consistent /\ RecordInv /\ [Next]_vars => RecordInv'
<1> SUFFICES ASSUME Consistent, RecordInv, [Next]_vars PROVE RecordInv'
  OBVIOUS
<1>1. CASE End
  BY <1>1 DEF End, problem, best, RecordInv, RecordIsKept, RecordIsSound, PricedIsSolution,
              BestIsFinal, ErrorOf
<1>2. CASE UNCHANGED vars
  BY <1>2 DEF vars, problem, best, RecordInv, RecordIsKept, RecordIsSound, PricedIsSolution,
              BestIsFinal, ErrorOf
<1> QED
  BY <1>1, <1>2, KindsOfSteps, BeginningKeepsRecord, PickKeepsRecord DEF Consistent

LEMMA InitRecord == Init => RecordInv
<1> SUFFICES ASSUME Init PROVE RecordInv
  OBVIOUS
<1>1. Worst \in Nat
  BY CostType
<1> QED
  BY <1>1 DEF Init, RecordInv, RecordIsKept, RecordIsSound, PricedIsSolution, BestIsFinal

LEMMA RecordAlways == Spec => [](Consistent /\ RecordInv)
<1> QED
  BY InitIsConsistent, ConsistentStep, InitRecord, RecordStep, PTL DEF Spec

\* A recorded cost is that of final_solution, a configuration that satisfies the
\* constraints; a recorded error is its error until the search starts again
\* from a sample (search_unit.hpp:158-167, 1130-1151).
THEOREM RecordBelongs == Spec => []RecordIsKept
<1>1. RecordInv => RecordIsKept
  BY DEF RecordInv
<1> QED
  BY <1>1, RecordAlways, PTL

-----------------------------------------------------------------------------
(* The promise                                                             *)

\* Each step of the search is one that Solver::solve() may count on, or none
\* that it can see: whatever the iteration finds, a record never gets worse,
\* and a cost is recorded only once the constraints hold.
LEMMA StepKeepsPromise ==
    Consistent /\ RecordInv /\ [Next]_vars => [Promise!Next]_(Promise!vars)
<1> SUFFICES ASSUME Consistent, RecordInv, [Next]_vars
             PROVE  [Promise!Next]_(Promise!vars)
  OBVIOUS
<1> USE DEF Promise!Next, Promise!vars
<1>1. TypeOK /\ Worst \in Nat /\ best_sat_error \in Nat /\ best_opt_cost \in Nat
      /\ best_sat_error <= Worst /\ best_opt_cost <= Worst
  BY CostType DEF Consistent, TypeOK, RecordInv, RecordIsSound
<1>2. ASSUME Begins PROVE [Promise!Next]_(Promise!vars)
  <2>1. pc # "done" /\ pc' = "loop" /\ best_opt_cost' = best_opt_cost
    BY <1>2 DEF Begins, Begin, Reset, Iterates
  <2>2. ErrorOf(values') \in Nat
    BY <1>1, <1>2, BeginningIsExact
  <2>3. \/ best_sat_error' = best_sat_error
        \/ best_sat_error' = ErrorOf(values') /\ ErrorOf(values') < best_sat_error
    BY <1>1, <1>2, ConfigurationOfBeginning
  <2> QED
    BY <1>1, <2>1, <2>2, <2>3 DEF Promise!LowerError
<1>3. ASSUME NEW v \in WorstVariables, Picks(v) PROVE [Promise!Next]_(Promise!vars)
  <2>1. Consistent'
    BY <1>3, PickIsConsistent
  <2>2. current_sat_error' \in Nat /\ current_opt_cost' \in Nat
    BY <2>1 DEF Consistent, TypeOK
  <2>3. pc # "done" /\ pc' # "done" /\ SaveBest
    BY <1>3 DEF Picks, Iterates, EndIteration, Erased, problem
  <2>4. CASE best_sat_error > current_sat_error'
    BY <1>1, <2>2, <2>3, <2>4 DEF SaveBest, Promise!LowerError
  <2>5. CASE /\ ~ (best_sat_error > current_sat_error')
             /\ is_optimization /\ current_sat_error' = 0 /\ best_opt_cost > current_opt_cost'
    BY <1>1, <2>2, <2>3, <2>5 DEF SaveBest, Promise!LowerCost
  <2>6. CASE UNCHANGED best
    BY <2>3, <2>6 DEF best
  <2> QED
    BY <2>3, <2>4, <2>5, <2>6 DEF SaveBest
<1>4. CASE End
  BY <1>4 DEF End, best, Promise!Finish
<1>5. CASE UNCHANGED vars
  BY <1>5 DEF vars, best
<1> QED
  BY <1>1, <1>2, <1>3, <1>4, <1>5, KindsOfSteps

\* SearchUnit implements SearchPromise.
THEOREM SearchKeepsPromise == Spec => KeepsPromise
<1>1. Init => Promise!Init
  BY DEF Init, Promise!Init
<1> QED
  BY <1>1, RecordAlways, StepKeepsPromise, PTL DEF Spec, KeepsPromise, Promise!Spec
-----------------------------------------------------------------------------
(* The list of worst variables, and the clock                              *)

LEMMA WorstAreComputed ==
    ASSUME KeptListIsFresh, pc = "loop"
    PROVE  WorstVariables \subseteq ComputedList
  BY DEF KeptListIsFresh, WorstVariables

LEMMA FreshStep == TypeOK /\ KeptListIsFresh /\ [Next]_vars => KeptListIsFresh'
<1> SUFFICES ASSUME TypeOK, KeptListIsFresh, [Next]_vars PROVE KeptListIsFresh'
  OBVIOUS
<1>1. CASE Begins
  <2>1. must_compute_worst_variables_list' = TRUE
    BY <1>1, ConfigurationOfBeginning DEF InitializeDataStructures, FreshTabus
  <2> QED
    BY <2>1 DEF KeptListIsFresh
<1>2. ASSUME NEW v \in WorstVariables, Picks(v) PROVE KeptListIsFresh'
  <2>1. \/ must_compute_worst_variables_list' = TRUE
        \/ /\ WorstVariables \ {v} # {}
           /\ UNCHANGED <<tabu_list, errors, local_moves>>
    BY <1>2 DEF Picks, Moves, LocalMove, Stays, LocalMinimumManagement, MarkTabu
  <2>2. CASE must_compute_worst_variables_list' = TRUE
    BY <2>2 DEF KeptListIsFresh
  <2>3. CASE /\ WorstVariables \ {v} # {}
             /\ UNCHANGED <<tabu_list, errors, local_moves>>
    <3>1. UNCHANGED <<tabu_list, error_variables, local_moves>>
      BY <2>3 DEF errors
    <3>2. ComputedList' = ComputedList
      BY <3>1 DEF ComputedList, Tabus
    <3>3. worst_variables_list' = WorstVariables \ {v} /\ pc = "loop"
      BY <1>2 DEF Picks, EndIteration, Erased, Iterates
    <3>4. WorstVariables \subseteq ComputedList
      BY <3>3, WorstAreComputed
    <3> QED
      BY <2>3, <3>2, <3>3, <3>4 DEF KeptListIsFresh
  <2> QED
    BY <2>1, <2>2, <2>3
<1>3. CASE End
  BY <1>3 DEF End, KeptListIsFresh
<1>4. CASE UNCHANGED vars
  BY <1>4 DEF vars, tabu, errors, KeptListIsFresh, ComputedList, Tabus
<1> QED
  BY <1>1, <1>2, <1>3, <1>4, KindsOfSteps

\* A list of worst variables kept from an iteration to the next is not out of
\* date (search_unit.hpp:523, 837): it changes only with what it depends on.
THEOREM KeptListNeverStale == Spec => []KeptListIsFresh
<1>1. Init => KeptListIsFresh
  BY DEF Init, KeptListIsFresh
<1>2. Consistent => TypeOK
  BY DEF Consistent
<1> QED
  BY <1>1, <1>2, FreshStep, ErrorsNeverDrift, PTL DEF Spec

\* After a reset nothing is tabu and some variable is the worst.
LEMMA FreshTabusGiveWorst ==
    ASSUME TypeOK, \A v \in Vars : tabu_list[v] = 0
    PROVE  ComputedList # {}
<1>1. IsFiniteSet(Vars) /\ Vars # {}
  BY SearchAssumption, FS_EmptySet
<1>2. \A v \in Vars : error_variables[v] \in Int
  BY DEF TypeOK
<1>3. PICK v \in Vars : \A w \in Vars : error_variables[v] >= error_variables[w]
  BY <1>1, <1>2, SomeGreatest
<1>4. Tabus = {}
  BY DEF Tabus, TypeOK
<1>5. ~ (Cardinality(Tabus) >= ResetThreshold)
  BY <1>4, FS_EmptySet, SearchAssumption
<1> QED
  BY <1>3, <1>4, <1>5 DEF ComputedList

ClockInv == ClockIsRead /\ UnreadIsFresh

LEMMA ClockStep == TypeOK /\ ClockInv /\ [Next]_vars => ClockInv'
<1> SUFFICES ASSUME TypeOK, ClockInv, [Next]_vars PROVE ClockInv'
  OBVIOUS
<1> USE DEF ClockInv, ClockIsRead, UnreadIsFresh
<1>1. unread \in Nat
  BY DEF TypeOK
<1>2. ASSUME Begins PROVE ClockInv'
  <2>1. /\ must_compute_worst_variables_list' = TRUE
        /\ tabu_list' = [v \in Vars |-> 0]
    BY <1>2, ConfigurationOfBeginning DEF InitializeDataStructures, FreshTabus
  <2>2. CASE Begin
    BY <2>1, <2>2 DEF Begin
  <2>3. CASE Reset
    <3>1. WorstVariables = {} /\ pc = "loop" /\ pc' = "loop" /\ unread' = unread + 1
      BY <2>3 DEF Reset, Iterates
    <3>2. unread = 0
      BY <1>1, <3>1, FreshTabusGiveWorst DEF WorstVariables
    <3> QED
      BY <2>1, <3>1, <3>2
  <2> QED
    BY <1>2, <2>2, <2>3 DEF Begins
<1>3. ASSUME NEW v \in WorstVariables, Picks(v) PROVE ClockInv'
  BY <1>3 DEF Picks, EndIteration, Erased
<1>4. CASE End
  BY <1>4 DEF End
<1>5. CASE UNCHANGED vars
  BY <1>5 DEF vars, tabu
<1> QED
  BY <1>2, <1>3, <1>4, <1>5, KindsOfSteps

\* Two iterations in a row never skip the reading of the clock
\* (search_unit.hpp:780-787), since a variable can be picked after a reset.
THEOREM ClockAlwaysRead == Spec => []ClockIsRead
<1>1. Init => ClockInv
  BY DEF Init, ClockInv, ClockIsRead, UnreadIsFresh
<1>2. Consistent => TypeOK
  BY DEF Consistent
<1>3. ClockInv => ClockIsRead
  BY DEF ClockInv
<1> QED
  BY <1>1, <1>2, <1>3, ClockStep, ErrorsNeverDrift, PTL DEF Spec
=============================================================================
