------------------------- MODULE ParallelSolveProofs -------------------------
(***************************************************************************)
(* Proofs about ParallelSolve, for every number of threads, every range of *)
(* errors and costs and every number of calls.                             *)
(*                                                                         *)
(* What solve() keeps is right because it reads a unit only once its       *)
(* future is ready (the unit is then frozen), and because it waits for     *)
(* every future unless a satisfaction problem is solved: IInv says what    *)
(* the main thread knows of the frozen units at each point of its way.     *)
(***************************************************************************)
EXTENDS ParallelSolve, FiniteSetTheorems, TLAPS

\* A future is ready only when the thread has left search().
Frozen == \A i \in units_terminated : phase[i] = "done"

Fresh == pc = "spawn" => units_terminated = {} /\ solution_found = FALSE

\* FoundIffSatisfied, at every point.
Found == solution_found <=> \E i \in units_terminated : best_sat_error[i] = 0

\* A cost is computed only for a solution.
Priced == \A i \in Units : best_opt_cost[i] # Worst => best_sat_error[i] = 0

\* Only a solved satisfaction problem ends the wait early.
Waited ==
    pc \in {"stop", "collect", "join", "returned"} /\ (is_optimization \/ ~ solution_found)
        => units_terminated = Units

WinnerSatisfies ==
    ~ is_optimization /\ solution_found =>
        winning_thread \in units_terminated /\ best_sat_error[winning_thread] = 0

\* Before the winner is collected, _best_opt_cost is the lowest of the costs read.
WinnerIsCheapest ==
    solves = 1 /\ is_optimization /\ pc \notin {"join", "returned"} =>
        /\ \A i \in units_terminated :
             best_sat_error[i] = 0 => solver_opt_cost <= best_opt_cost[i]
        /\ solver_opt_cost # Worst =>
             /\ winning_thread \in units_terminated
             /\ best_opt_cost[winning_thread] = solver_opt_cost

SolverUntouched == solves = 1 /\ pc \notin {"join", "returned"} => solver_sat_error = Worst

\* What is true of the unit whose model was taken.
Kept ==
    transferred # -1 =>
        /\ pc \in {"join", "returned"}
        /\ transferred \in units_terminated
        /\ ~ is_optimization /\ solution_found => best_sat_error[transferred] = 0
        /\ solves = 1 /\ is_optimization /\ solution_found =>
             \A i \in Units : best_sat_error[i] = 0 =>
                 best_opt_cost[transferred] <= best_opt_cost[i]
        /\ solves = 1 /\ ~ solution_found =>
             \A i \in Units : best_sat_error[transferred] <= best_sat_error[i]

IInv == /\ TypeOK /\ TimeoutsMatchUnits
        /\ Frozen /\ Fresh /\ Found /\ Priced /\ Waited
        /\ WinnerSatisfies /\ WinnerIsCheapest /\ SolverUntouched /\ Kept
-----------------------------------------------------------------------------
(* Counting the units.                                                     *)

LEMMA UnitsFinite ==
    /\ IsFiniteSet(Units) /\ Cardinality(Units) = N
    /\ N \in Nat \ {0} /\ 0 \in Units /\ -1 \notin Units
    /\ 0 \in Values /\ Worst \in Values
<1>1. N \in Nat \ {0} /\ Worst \in Nat \ {0}
  BY SolveAssumption
<1>2. 0 \in Int /\ N - 1 \in Int /\ ~ (0 > N - 1) /\ (N - 1) - 0 + 1 = N
  BY <1>1
<1>3. IsFiniteSet(Units) /\ Cardinality(Units) = N
  BY <1>2, FS_Interval DEF Units
<1> QED
  BY <1>1, <1>3 DEF Units, Values

\* The cursor stays within the units.
LEMMA NextUnit ==
    ASSUME NEW c \in Units
    PROVE  (c + 1) % N \in Units
  BY UnitsFinite DEF Units

\* N futures are read: all of them are.
LEMMA AllUnits ==
    ASSUME NEW S \in SUBSET Units
    PROVE  /\ IsFiniteSet(S) /\ Cardinality(S) \in 0 .. N
           /\ Cardinality(S) >= N => S = Units
<1>1. /\ IsFiniteSet(S)
      /\ Cardinality(S) <= Cardinality(Units)
      /\ Cardinality(Units) = Cardinality(S) => S = Units
  BY UnitsFinite, FS_Subset
<1>2. Cardinality(S) \in Nat
  BY <1>1, FS_CardinalityType
<1> QED
  BY <1>1, <1>2, UnitsFinite

-----------------------------------------------------------------------------
(* Init, and a new call of solve() on a solver that has kept its errors.   *)

\* The units that TimeoutsMatchUnits counts.
Counted == {i \in units_terminated : is_optimization \/ best_sat_error[i] # 0}

LEMMA InitInv == Init => IInv
<1> SUFFICES ASSUME Init PROVE IInv
  OBVIOUS
<1> USE UnitsFinite
<1>1. TypeOK
  <2>1. 0 \in 0 .. N /\ 1 \in 1 .. MaxSolves
    BY SolveAssumption
  <2>2. /\ phase \in [Units -> {"built", "running", "done"}]
        /\ best_sat_error \in [Units -> Values] /\ best_opt_cost \in [Units -> Values]
        /\ stop_signal \in [Units -> BOOLEAN]
    BY DEF Init
  <2> QED
    BY <2>1, <2>2 DEF Init, TypeOK
<1>2. TimeoutsMatchUnits
  <2>1. Counted = {}
    BY DEF Init, Counted
  <2> QED
    BY <2>1, FS_EmptySet DEF Init, TimeoutsMatchUnits, Counted
<1>3. Frozen /\ Fresh /\ Found /\ Priced /\ Waited
  BY DEF Init, Frozen, Fresh, Found, Priced, Waited
<1>4. WinnerSatisfies /\ WinnerIsCheapest /\ SolverUntouched /\ Kept
  BY DEF Init, WinnerSatisfies, WinnerIsCheapest, SolverUntouched, Kept
<1> QED
  BY <1>1, <1>2, <1>3, <1>4 DEF IInv

LEMMA SolveAgainInv == IInv /\ SolveAgain => IInv'
<1> SUFFICES ASSUME IInv, SolveAgain PROVE IInv'
  OBVIOUS
<1> USE UnitsFinite
<1>1. TypeOK'
  <2>1. 0 \in 0 .. N /\ solves' \in 1 .. MaxSolves
    BY SolveAssumption DEF SolveAgain, IInv, TypeOK
  <2>2. /\ phase' \in [Units -> {"built", "running", "done"}]
        /\ best_sat_error' \in [Units -> Values] /\ best_opt_cost' \in [Units -> Values]
        /\ stop_signal' \in [Units -> BOOLEAN]
    BY DEF SolveAgain
  <2> QED
    BY <2>1, <2>2 DEF SolveAgain, IInv, TypeOK
<1>2. TimeoutsMatchUnits'
  <2>1. Counted' = {}
    BY DEF SolveAgain, Counted
  <2> QED
    BY <2>1, FS_EmptySet DEF SolveAgain, TimeoutsMatchUnits, Counted
<1>3. Frozen' /\ Fresh' /\ Found' /\ Priced' /\ Waited'
  BY DEF SolveAgain, Frozen, Fresh, Found, Priced, Waited
<1>4. solves' # 1
  BY DEF SolveAgain, IInv, TypeOK
<1>5. WinnerSatisfies' /\ WinnerIsCheapest' /\ SolverUntouched' /\ Kept'
  BY <1>4 DEF SolveAgain, WinnerSatisfies, WinnerIsCheapest, SolverUntouched, Kept
<1> QED
  BY <1>1, <1>2, <1>3, <1>5 DEF IInv

-----------------------------------------------------------------------------
(* The search units: a running unit has not been read.                     *)

\* What a step of a running unit leaves alone.
LEMMA UnitStepInv ==
    ASSUME IInv, NEW i \in Units, phase[i] = "running", UNCHANGED main_vars,
           phase' \in [Units -> {"built", "running", "done"}],
           best_sat_error' \in [Units -> Values],
           best_opt_cost' \in [Units -> Values],
           \A j \in Units \ {i} : /\ phase'[j] = phase[j]
                                  /\ best_sat_error'[j] = best_sat_error[j]
                                  /\ best_opt_cost'[j] = best_opt_cost[j],
           best_opt_cost'[i] # Worst => best_sat_error'[i] = 0
    PROVE  IInv'
<1> USE UnitsFinite
<1>1. i \notin units_terminated
  BY DEF IInv, Frozen
<1>2. /\ units_terminated \subseteq Units
      /\ \A j \in units_terminated : /\ phase'[j] = phase[j]
                                     /\ best_sat_error'[j] = best_sat_error[j]
                                     /\ best_opt_cost'[j] = best_opt_cost[j]
  BY <1>1 DEF IInv, TypeOK
<1>3. units_terminated # Units
  BY <1>1
<1>4. TypeOK'
  BY DEF IInv, TypeOK, main_vars
<1>5. TimeoutsMatchUnits'
  <2>1. Counted' = Counted
    BY <1>2 DEF Counted, main_vars
  <2> QED
    BY <2>1 DEF IInv, TimeoutsMatchUnits, Counted, main_vars
<1>6. Frozen' /\ Fresh' /\ Found'
  BY <1>2 DEF IInv, Frozen, Fresh, Found, main_vars
<1>7. Priced'
  BY DEF IInv, Priced
<1>8. Waited' /\ SolverUntouched'
  BY DEF IInv, Waited, SolverUntouched, main_vars
<1>9. WinnerSatisfies' /\ WinnerIsCheapest'
  BY <1>2 DEF IInv, WinnerSatisfies, WinnerIsCheapest, main_vars
<1>10. Kept'
  <2>1. CASE transferred = -1
    BY <2>1 DEF Kept, main_vars
  <2>2. CASE transferred # -1
    <3>1. ~ is_optimization /\ solution_found
      BY <1>3, <2>2 DEF IInv, Waited, Kept
    <3> QED
      BY <1>2, <2>2, <3>1 DEF IInv, Kept, main_vars
  <2> QED
    BY <2>1, <2>2
<1> QED
  BY <1>4, <1>5, <1>6, <1>7, <1>8, <1>9, <1>10 DEF IInv

LEMMA SearchInv == ASSUME IInv, NEW i \in Units, Search(i) PROVE IInv'
<1> USE DEF IInv, TypeOK
<1>1. CASE LowerError(i)
  <2>1. PICK e \in Values : /\ e < best_sat_error[i]
                            /\ best_sat_error' = [best_sat_error EXCEPT ![i] = e]
    BY <1>1 DEF LowerError
  <2>2. best_sat_error[i] # 0
    BY <2>1 DEF Values
  <2>3. best_opt_cost[i] = Worst
    BY <2>2 DEF Priced
  <2> HIDE DEF IInv
  <2>4. /\ best_sat_error' \in [Units -> Values]
        /\ \A j \in Units \ {i} : best_sat_error'[j] = best_sat_error[j]
    BY <2>1 DEF IInv
  <2> QED
    BY <1>1, <2>3, <2>4, UnitStepInv DEF LowerError, IInv
<1>2. CASE LowerCost(i)
  <2>1. PICK c \in Values : best_opt_cost' = [best_opt_cost EXCEPT ![i] = c]
    BY <1>2 DEF LowerCost
  <2>2. /\ best_opt_cost' \in [Units -> Values]
        /\ \A j \in Units \ {i} : best_opt_cost'[j] = best_opt_cost[j]
    BY <2>1
  <2> QED
    BY <1>2, <2>2, UnitStepInv DEF LowerCost
<1>3. CASE Finish(i)
  <2>1. /\ phase' \in [Units -> {"built", "running", "done"}]
        /\ \A j \in Units \ {i} : phase'[j] = phase[j]
    BY <1>3 DEF Finish
  <2> QED
    BY <1>3, <2>1, UnitStepInv DEF Finish, Priced
<1> QED
  BY <1>1, <1>2, <1>3 DEF Search

-----------------------------------------------------------------------------
(* The main thread, up to the winner.                                      *)

LEMMA SpawnInv == ASSUME IInv, Spawn PROVE IInv'
<1> USE UnitsFinite
<1>1. units_terminated = {} /\ transferred = -1
  BY DEF IInv, Fresh, Kept, Spawn
<1>2. cursor' \in Units
  BY NextUnit DEF Spawn, IInv, TypeOK
<1>3. TypeOK'
  BY <1>2 DEF Spawn, IInv, TypeOK
<1>4. TimeoutsMatchUnits'
  BY DEF Spawn, IInv, TimeoutsMatchUnits
<1>5. Frozen' /\ Fresh' /\ Found' /\ Priced' /\ Waited' /\ Kept'
  BY <1>1 DEF Spawn, IInv, Frozen, Fresh, Found, Priced, Waited, Kept
<1>6. WinnerSatisfies' /\ WinnerIsCheapest' /\ SolverUntouched'
  BY DEF Spawn, IInv, WinnerSatisfies, WinnerIsCheapest, SolverUntouched
<1> QED
  BY <1>3, <1>4, <1>5, <1>6 DEF IInv

LEMMA PollNotReadyInv == ASSUME IInv, PollNotReady PROVE IInv'
<1> USE UnitsFinite
<1>1. cursor' \in Units
  BY NextUnit DEF PollNotReady, IInv, TypeOK
<1>2. TypeOK'
  BY <1>1 DEF PollNotReady, IInv, TypeOK, unit_vars
<1>3. TimeoutsMatchUnits'
  BY DEF PollNotReady, IInv, TimeoutsMatchUnits, unit_vars
<1>4. Frozen' /\ Fresh' /\ Found' /\ Priced' /\ Waited' /\ Kept'
  BY DEF PollNotReady, IInv, Frozen, Fresh, Found, Priced, Waited, Kept, unit_vars
<1>5. WinnerSatisfies' /\ WinnerIsCheapest' /\ SolverUntouched'
  BY DEF PollNotReady, IInv, WinnerSatisfies, WinnerIsCheapest, SolverUntouched, unit_vars
<1> QED
  BY <1>2, <1>3, <1>4, <1>5 DEF IInv

\* A future is read: it is counted once, and the count stays within N.
LEMMA ReadFuture ==
    ASSUME TypeOK, TimeoutsMatchUnits, Ready(cursor), UNCHANGED <<is_optimization, unit_vars>>,
           units_terminated' = units_terminated \cup {cursor},
           number_timeouts' = IF is_optimization \/ best_sat_error[cursor] # 0
                              THEN number_timeouts + 1 ELSE number_timeouts
    PROVE  /\ TimeoutsMatchUnits'
           /\ units_terminated' \in SUBSET Units
           /\ number_timeouts' \in 0 .. N
           /\ AllReturned(number_timeouts') => units_terminated' = Units
<1>1. Counted \in SUBSET Units /\ Counted' \in SUBSET Units /\ Counted' \subseteq units_terminated'
      /\ units_terminated' \in SUBSET Units
  BY DEF Counted, TypeOK, unit_vars
<1>2. IsFiniteSet(Counted) /\ Cardinality(Counted) \in 0 .. N
  BY <1>1, AllUnits
<1>3. Cardinality(Counted') \in 0 .. N /\ (Cardinality(Counted') >= N => Counted' = Units)
  BY <1>1, AllUnits
<1>4. cursor \notin Counted
  BY DEF Ready, Counted
<1>5. number_timeouts' = Cardinality(Counted')
  <2>1. number_timeouts = Cardinality(Counted)
    BY DEF TimeoutsMatchUnits, Counted
  <2>2. CASE is_optimization \/ best_sat_error[cursor] # 0
    <3>1. Counted' = Counted \cup {cursor}
      BY <2>2 DEF Counted, unit_vars
    <3>2. Cardinality(Counted \cup {cursor}) = Cardinality(Counted) + 1
      BY <1>2, <1>4, FS_AddElement
    <3> QED
      BY <2>1, <2>2, <3>1, <3>2
  <2>3. CASE ~ (is_optimization \/ best_sat_error[cursor] # 0)
    <3>1. Counted' = Counted
      BY <2>3 DEF Counted, unit_vars
    <3> QED
      BY <2>1, <2>3, <3>1
  <2> QED
    BY <2>2, <2>3
<1>6. TimeoutsMatchUnits'
  BY <1>5 DEF TimeoutsMatchUnits, Counted
<1> QED
  BY <1>1, <1>3, <1>5, <1>6 DEF AllReturned

LEMMA PollOptimizationInv == ASSUME IInv, PollOptimization PROVE IInv'
<1> USE UnitsFinite
<1>1. /\ TypeOK /\ TimeoutsMatchUnits
      /\ pc = "poll" /\ is_optimization /\ Ready(cursor) /\ UNCHANGED <<is_optimization, unit_vars>>
      /\ cursor \in Units /\ pc' \in {"poll", "stop"}
  BY DEF PollOptimization, IInv, TypeOK
<1>2. /\ TimeoutsMatchUnits'
      /\ units_terminated' \in SUBSET Units /\ number_timeouts' \in 0 .. N
      /\ AllReturned(number_timeouts') => units_terminated' = Units
  BY <1>1, ReadFuture DEF PollOptimization
<1>3. cursor' \in Units
  BY NextUnit DEF PollOptimization, IInv, TypeOK
<1>4. transferred' = -1
  BY <1>1 DEF PollOptimization, IInv, Kept
<1>5. /\ best_sat_error' = best_sat_error /\ best_opt_cost' = best_opt_cost /\ phase' = phase
      /\ best_opt_cost \in [Units -> Values] /\ solver_opt_cost \in Values
      /\ units_terminated' = units_terminated \cup {cursor}
  BY DEF PollOptimization, unit_vars, IInv, TypeOK
<1>6. \/ /\ best_sat_error[cursor] = 0 /\ solution_found' = TRUE
         /\ \/ /\ solver_opt_cost > best_opt_cost[cursor]
               /\ solver_opt_cost' = best_opt_cost[cursor] /\ winning_thread' = cursor
            \/ /\ ~ (solver_opt_cost > best_opt_cost[cursor])
               /\ UNCHANGED <<solver_opt_cost, winning_thread>>
      \/ /\ best_sat_error[cursor] # 0
         /\ UNCHANGED <<solution_found, solver_opt_cost, winning_thread>>
  BY DEF PollOptimization, CheaperWins
<1>7. TypeOK'
  <2>1. /\ solution_found' \in BOOLEAN /\ winning_thread' \in Units
        /\ solver_opt_cost' \in Values
    <3>1. /\ solution_found \in BOOLEAN /\ winning_thread \in Units
          /\ best_opt_cost[cursor] \in Values
      BY <1>1, <1>5 DEF TypeOK
    <3> QED
      BY ONLY <1>1, <1>5, <1>6, <3>1
  <2> QED
    BY <1>1, <1>2, <1>3, <1>4, <2>1 DEF PollOptimization, IInv, TypeOK, unit_vars
<1>8. Frozen' /\ Fresh' /\ Priced'
  BY <1>1, <1>5 DEF IInv, Frozen, Fresh, Priced, Ready
<1>9. Found'
  BY <1>5, <1>6 DEF IInv, Found
<1>10. Waited'
  BY <1>1, <1>2 DEF PollOptimization, Waited
<1>11. WinnerSatisfies' /\ SolverUntouched' /\ Kept'
  BY <1>1, <1>4 DEF PollOptimization, IInv, WinnerSatisfies, SolverUntouched, Kept
<1>12. WinnerIsCheapest'
  <2> SUFFICES ASSUME solves = 1 PROVE WinnerIsCheapest'
    BY DEF WinnerIsCheapest, PollOptimization
  <2>1. /\ \A i \in units_terminated :
             best_sat_error[i] = 0 => solver_opt_cost <= best_opt_cost[i]
        /\ solver_opt_cost # Worst =>
             /\ winning_thread \in units_terminated
             /\ best_opt_cost[winning_thread] = solver_opt_cost
    BY <1>1 DEF IInv, WinnerIsCheapest
  <2>2. \A i \in Units : best_opt_cost[i] \in Int
    BY <1>5 DEF Values
  <2>3. units_terminated \subseteq Units /\ solver_opt_cost \in Int
    BY <1>1, <1>5 DEF TypeOK, Values
  <2>4. \A i \in units_terminated' :
          best_sat_error[i] = 0 => solver_opt_cost' <= best_opt_cost[i]
    <3> SUFFICES ASSUME NEW i \in units_terminated', best_sat_error[i] = 0
                 PROVE  solver_opt_cost' <= best_opt_cost[i]
      OBVIOUS
    <3>1. best_opt_cost[i] \in Int /\ best_opt_cost[cursor] \in Int
      BY <1>1, <1>5, <2>2, <2>3
    <3>2. CASE i = cursor
      BY <1>6, <2>3, <3>1, <3>2
    <3>3. CASE i # cursor
      <4>1. solver_opt_cost <= best_opt_cost[i]
        BY <1>5, <2>1, <3>3
      <4> QED
        BY <1>6, <2>3, <3>1, <4>1
    <3> QED
      BY <3>2, <3>3
  <2>5. solver_opt_cost' # Worst =>
             /\ winning_thread' \in units_terminated'
             /\ best_opt_cost[winning_thread'] = solver_opt_cost'
    BY <1>5, <1>6, <2>1
  <2> QED
    BY <1>5, <2>4, <2>5 DEF WinnerIsCheapest
<1> QED
  BY <1>2, <1>7, <1>8, <1>9, <1>10, <1>11, <1>12 DEF IInv

LEMMA PollSatisfactionInv == ASSUME IInv, PollSatisfaction PROVE IInv'
<1> USE UnitsFinite
<1>1. /\ TypeOK /\ TimeoutsMatchUnits
      /\ pc = "poll" /\ ~ is_optimization /\ Ready(cursor)
      /\ UNCHANGED <<is_optimization, unit_vars>>
      /\ cursor \in Units /\ pc' \in {"poll", "stop"}
  BY DEF PollSatisfaction, IInv, TypeOK
<1>2. number_timeouts' = IF is_optimization \/ best_sat_error[cursor] # 0
                         THEN number_timeouts + 1 ELSE number_timeouts
  BY <1>1 DEF PollSatisfaction
<1>3. /\ TimeoutsMatchUnits'
      /\ units_terminated' \in SUBSET Units /\ number_timeouts' \in 0 .. N
      /\ AllReturned(number_timeouts') => units_terminated' = Units
  BY <1>1, <1>2, ReadFuture DEF PollSatisfaction
<1>4. cursor' \in Units
  BY NextUnit DEF PollSatisfaction, IInv, TypeOK
<1>5. transferred' = -1
  BY <1>1 DEF PollSatisfaction, IInv, Kept
<1>6. /\ best_sat_error' = best_sat_error /\ best_opt_cost' = best_opt_cost /\ phase' = phase
      /\ units_terminated' = units_terminated \cup {cursor}
  BY DEF PollSatisfaction, unit_vars
<1>7. \/ best_sat_error[cursor] = 0 /\ solution_found' = TRUE /\ winning_thread' = cursor
      \/ best_sat_error[cursor] # 0 /\ UNCHANGED <<solution_found, winning_thread>>
  BY DEF PollSatisfaction, Succeeds
<1>8. TypeOK'
  <2>1. solution_found' \in BOOLEAN /\ winning_thread' \in Units
    BY <1>1, <1>7 DEF TypeOK
  <2> QED
    BY <1>1, <1>3, <1>4, <1>5, <2>1 DEF PollSatisfaction, TypeOK, unit_vars
<1>9. Frozen' /\ Fresh' /\ Priced'
  BY <1>1, <1>6 DEF IInv, Frozen, Fresh, Priced, Ready
<1>10. Found' /\ WinnerSatisfies'
  <2>1. Found /\ WinnerSatisfies
    BY DEF IInv
  <2>2. CASE best_sat_error[cursor] = 0
    BY <1>6, <1>7, <2>2 DEF Found, WinnerSatisfies
  <2>3. CASE best_sat_error[cursor] # 0
    <3>1. Found'
      BY <1>6, <1>7, <2>1, <2>3 DEF Found
    <3>2. WinnerSatisfies'
      BY <1>1, <1>6, <1>7, <2>1, <2>3 DEF WinnerSatisfies
    <3> QED
      BY <3>1, <3>2
  <2> QED
    BY <2>2, <2>3
<1>11. Waited'
  BY <1>1, <1>3 DEF PollSatisfaction, Waited
<1>12. WinnerIsCheapest' /\ SolverUntouched' /\ Kept'
  BY <1>1, <1>5 DEF PollSatisfaction, IInv, WinnerIsCheapest, SolverUntouched, Kept
<1> QED
  BY <1>3, <1>8, <1>9, <1>10, <1>11, <1>12 DEF IInv

-----------------------------------------------------------------------------
(* The main thread, from the stop signals to the return.                   *)

LEMMA StopSearchInv == ASSUME IInv, StopSearch PROVE IInv'
<1> USE UnitsFinite
<1>1. cursor' \in Units
  BY NextUnit DEF StopSearch, IInv, TypeOK
<1>2. stop_signal' \in [Units -> BOOLEAN]
  BY DEF StopSearch, IInv, TypeOK
<1>3. TypeOK'
  <2>1. pc' \in {"stop", "collect"}
    BY DEF StopSearch
  <2> QED
    BY <1>1, <1>2, <2>1 DEF StopSearch, IInv, TypeOK, unit_vars
<1>4. TimeoutsMatchUnits'
  BY DEF StopSearch, IInv, TimeoutsMatchUnits, unit_vars
<1>5. Frozen' /\ Fresh' /\ Found' /\ Priced' /\ Waited' /\ Kept'
  BY DEF StopSearch, IInv, Frozen, Fresh, Found, Priced, Waited, Kept, unit_vars
<1>6. WinnerSatisfies' /\ WinnerIsCheapest' /\ SolverUntouched'
  BY DEF StopSearch, IInv, WinnerSatisfies, WinnerIsCheapest, SolverUntouched, unit_vars
<1> QED
  BY <1>3, <1>4, <1>5, <1>6 DEF IInv

\* Nothing but the solver's own record changes when the winner is taken.
LEMMA CollectKeeps ==
    ASSUME IInv, pc = "collect", pc' = "join", solver_sat_error' \in Values,
           solver_opt_cost' \in Values, transferred' \in Units,
           UNCHANGED <<is_optimization, unit_vars, cursor, stop_signal, units_terminated,
                       number_timeouts, solution_found, winning_thread, solves>>
    PROVE  /\ TypeOK' /\ TimeoutsMatchUnits'
           /\ Frozen' /\ Fresh' /\ Found' /\ Priced' /\ Waited'
           /\ WinnerSatisfies' /\ WinnerIsCheapest' /\ SolverUntouched'
<1>1. TypeOK'
  BY DEF IInv, TypeOK, unit_vars
<1>2. TimeoutsMatchUnits'
  BY DEF IInv, TimeoutsMatchUnits, unit_vars
<1>3. Frozen' /\ Fresh' /\ Found' /\ Priced' /\ Waited'
  BY DEF IInv, Frozen, Fresh, Found, Priced, Waited, unit_vars
<1>4. WinnerSatisfies' /\ WinnerIsCheapest' /\ SolverUntouched'
  BY DEF IInv, WinnerSatisfies, WinnerIsCheapest, SolverUntouched, unit_vars
<1> QED
  BY <1>1, <1>2, <1>3, <1>4

LEMMA CollectWinnerInv == ASSUME IInv, CollectWinner PROVE IInv'
<1> USE UnitsFinite
<1> DEFINE w == winning_thread
<1>1. /\ w \in Units /\ solver_opt_cost \in Values
      /\ best_sat_error \in [Units -> Values] /\ best_opt_cost \in [Units -> Values]
  BY DEF IInv, TypeOK
<1>2. /\ pc = "collect" /\ pc' = "join" /\ solution_found /\ transferred' = w
      /\ best_sat_error' = best_sat_error /\ best_opt_cost' = best_opt_cost
      /\ UNCHANGED <<units_terminated, is_optimization, solution_found, solves>>
  BY DEF CollectWinner, unit_vars
<1>3. /\ TypeOK' /\ TimeoutsMatchUnits'
      /\ Frozen' /\ Fresh' /\ Found' /\ Priced' /\ Waited'
      /\ WinnerSatisfies' /\ WinnerIsCheapest' /\ SolverUntouched'
  BY <1>1, CollectKeeps DEF CollectWinner
<1>4. w \in units_terminated
  BY <1>1, <1>2 DEF IInv, Waited, WinnerSatisfies
<1>5. ~ is_optimization => best_sat_error[w] = 0
  BY <1>2 DEF IInv, WinnerSatisfies
<1>6. ASSUME solves = 1, is_optimization, NEW i \in Units, best_sat_error[i] = 0
      PROVE  best_opt_cost[w] <= best_opt_cost[i]
  <2>1. units_terminated = Units
    BY <1>2, <1>6 DEF IInv, Waited
  <2>2. /\ solver_opt_cost <= best_opt_cost[i]
        /\ solver_opt_cost # Worst => best_opt_cost[w] = solver_opt_cost
    BY <1>2, <1>6, <2>1 DEF IInv, WinnerIsCheapest
  <2>3. best_opt_cost[w] \in Values /\ best_opt_cost[i] \in Values
    BY <1>1, <1>6
  <2> QED
    BY <1>1, <2>2, <2>3, SolveAssumption DEF Values
<1>7. Kept'
  BY <1>2, <1>4, <1>5, <1>6 DEF Kept
<1> QED
  BY <1>3, <1>7 DEF IInv

LEMMA CollectBestNonSolutionInv == ASSUME IInv, CollectBestNonSolution PROVE IInv'
<1> USE UnitsFinite
<1>1. PICK k \in Units : /\ LeastBad(k)
                        /\ transferred' = k
                        /\ solver_sat_error' = IF best_sat_error[k] < solver_sat_error
                                               THEN best_sat_error[k] ELSE solver_sat_error
  BY DEF CollectBestNonSolution
<1>2. /\ pc = "collect" /\ pc' = "join" /\ ~ solution_found
      /\ best_sat_error' = best_sat_error /\ best_opt_cost' = best_opt_cost
      /\ UNCHANGED <<units_terminated, is_optimization, solution_found, solves>>
      /\ best_sat_error \in [Units -> Values]
      /\ solver_sat_error \in Values /\ solver_opt_cost \in Values
  BY DEF CollectBestNonSolution, unit_vars, IInv, TypeOK
<1>3. solver_sat_error' \in Values /\ solver_opt_cost' \in Values
  BY <1>1, <1>2 DEF CollectBestNonSolution
<1>4. /\ TypeOK' /\ TimeoutsMatchUnits'
      /\ Frozen' /\ Fresh' /\ Found' /\ Priced' /\ Waited'
      /\ WinnerSatisfies' /\ WinnerIsCheapest' /\ SolverUntouched'
  BY <1>1, <1>2, <1>3, CollectKeeps DEF CollectBestNonSolution
<1>5. k \in units_terminated
  BY <1>1, <1>2 DEF IInv, Waited
<1>6. ASSUME solves = 1, NEW j \in Units
      PROVE  best_sat_error[k] <= best_sat_error[j]
  <2>1. solver_sat_error = Worst
    BY <1>2, <1>6 DEF IInv, SolverUntouched
  <2>2. best_sat_error[k] \in Values /\ best_sat_error[j] \in Values
    BY <1>2
  <2>3. \/ best_sat_error[j] >= Worst
        \/ best_sat_error[k] <= best_sat_error[j]
    BY <1>1, <2>1 DEF LeastBad
  <2> QED
    BY <2>2, <2>3, SolveAssumption DEF Values
<1>7. Kept'
  BY <1>1, <1>2, <1>5, <1>6 DEF Kept
<1> QED
  BY <1>4, <1>7 DEF IInv

LEMMA JoinInv == ASSUME IInv, Join PROVE IInv'
<1>1. TypeOK'
  BY DEF Join, IInv, TypeOK, unit_vars
<1>2. TimeoutsMatchUnits'
  BY DEF Join, IInv, TimeoutsMatchUnits, unit_vars
<1>3. Frozen' /\ Fresh' /\ Found' /\ Priced' /\ Waited' /\ Kept'
  BY DEF Join, IInv, Frozen, Fresh, Found, Priced, Waited, Kept, unit_vars
<1>4. WinnerSatisfies' /\ WinnerIsCheapest' /\ SolverUntouched'
  BY DEF Join, IInv, WinnerSatisfies, WinnerIsCheapest, SolverUntouched, unit_vars
<1> QED
  BY <1>1, <1>2, <1>3, <1>4 DEF IInv

LEMMA StutterInv == IInv /\ UNCHANGED vars => IInv'
<1> SUFFICES ASSUME IInv, UNCHANGED vars PROVE IInv'
  OBVIOUS
<1>1. TypeOK' /\ TimeoutsMatchUnits'
  BY DEF IInv, TypeOK, TimeoutsMatchUnits, vars, unit_vars, main_vars
<1>2. Frozen' /\ Fresh' /\ Found' /\ Priced' /\ Waited' /\ Kept'
  BY DEF IInv, Frozen, Fresh, Found, Priced, Waited, Kept, vars, unit_vars, main_vars
<1>3. WinnerSatisfies' /\ WinnerIsCheapest' /\ SolverUntouched'
  BY DEF IInv, WinnerSatisfies, WinnerIsCheapest, SolverUntouched, vars, unit_vars, main_vars
<1> QED
  BY <1>1, <1>2, <1>3 DEF IInv

-----------------------------------------------------------------------------
\* At every point of solve() the main thread knows what IInv says of the units
\* it has waited for.
THEOREM Inductive == Spec => []IInv
<1>1. IInv /\ [Next]_vars => IInv'
  <2> SUFFICES ASSUME IInv, [Next]_vars PROVE IInv'
    OBVIOUS
  <2>1. ASSUME NEW i \in Units, Search(i) PROVE IInv'
    BY <2>1, SearchInv
  <2>2. CASE Spawn
    BY <2>2, SpawnInv
  <2>3. CASE PollNotReady
    BY <2>3, PollNotReadyInv
  <2>4. CASE PollOptimization
    BY <2>4, PollOptimizationInv
  <2>5. CASE PollSatisfaction
    BY <2>5, PollSatisfactionInv
  <2>6. CASE StopSearch
    BY <2>6, StopSearchInv
  <2>7. CASE CollectWinner
    BY <2>7, CollectWinnerInv
  <2>8. CASE CollectBestNonSolution
    BY <2>8, CollectBestNonSolutionInv
  <2>9. CASE Join
    BY <2>9, JoinInv
  <2>10. CASE SolveAgain
    BY <2>10, SolveAgainInv
  <2>11. CASE UNCHANGED vars
    BY <2>11, StutterInv
  <2> QED
    BY <2>1, <2>2, <2>3, <2>4, <2>5, <2>6, <2>7, <2>8, <2>9, <2>10, <2>11 DEF Next, Solve
<1> QED
  BY <1>1, InitInv, PTL DEF Spec

\* The variables of solve() and of its units have their types.
THEOREM TypeCorrect == Spec => []TypeOK
<1>1. IInv => TypeOK
  BY DEF IInv
<1> QED
  BY <1>1, Inductive, PTL

\* solve() returns true exactly when a unit that it waited for satisfied all the
\* constraints.
THEOREM ResultCorrect == Spec => []FoundIffSatisfied
<1>1. IInv => FoundIffSatisfied
  BY DEF IInv, Found, FoundIffSatisfied
<1> QED
  BY <1>1, Inductive, PTL

\* number_timeouts counts every future read once, so that the loop over the
\* futures cannot end before they have all been read.
THEOREM TimeoutsCorrect == Spec => []TimeoutsMatchUnits
<1>1. IInv => TimeoutsMatchUnits
  BY DEF IInv
<1> QED
  BY <1>1, Inductive, PTL

\* The thread of the unit whose model solve() takes has left search().
THEOREM ModelIsQuiet == Spec => []NoRaceOnModel
<1>1. IInv => NoRaceOnModel
  BY DEF IInv, Kept, Frozen, NoRaceOnModel
<1> QED
  BY <1>1, Inductive, PTL

\* The first call keeps the model of a unit of the lowest cost or, without a
\* solution, of the lowest error.
THEOREM BestCorrect == Spec => []BestIsKept
<1>1. IInv => BestIsKept
  BY DEF IInv, Kept, BestIsKept, CheapestIsKept, LeastBadIsKept
<1> QED
  BY <1>1, Inductive, PTL

\* The model that solve() keeps when it returns true is a solution, for a
\* satisfaction problem and, in the first call, as soon as a unit has priced a
\* solution of an optimization problem.
THEOREM PricedCorrect == Spec => []PricedIsKept
<1>1. IInv => PricedIsKept
  <2> SUFFICES ASSUME IInv, transferred # -1, solution_found,
                      is_optimization => solves = 1 /\ \E i \in Units : best_opt_cost[i] < Worst
               PROVE  best_sat_error[transferred] = 0
    BY DEF PricedIsKept, KeptIsSolution
  <2>1. CASE ~ is_optimization
    BY <2>1 DEF IInv, Kept
  <2>2. CASE is_optimization
    <3>1. PICK i \in Units : best_opt_cost[i] < Worst
      BY <2>2
    <3>2. /\ transferred \in Units /\ best_opt_cost \in [Units -> Values]
          /\ solves = 1
      BY <2>2 DEF IInv, TypeOK
    <3>3. best_opt_cost[i] \in Values /\ best_opt_cost[transferred] \in Values
      BY <3>2
    <3>4. best_opt_cost[i] # Worst
      BY <3>1, <3>3, SolveAssumption DEF Values
    <3>5. best_sat_error[i] = 0
      BY <3>4 DEF IInv, Priced
    <3>6. best_opt_cost[transferred] <= best_opt_cost[i]
      BY <2>2, <3>2, <3>5 DEF IInv, Kept
    <3>7. best_opt_cost[transferred] # Worst
      BY <3>1, <3>3, <3>6, SolveAssumption DEF Values
    <3> QED
      BY <3>2, <3>7 DEF IInv, Priced
  <2> QED
    BY <2>1, <2>2
<1> QED
  BY <1>1, Inductive, PTL

-----------------------------------------------------------------------------
(* What the main thread waits for.                                         *)

\* The units up to the cursor are started, then all of them are; while the
\* futures are polled, one is not read yet, and a satisfaction problem has no
\* solution yet.
PollInv ==
    /\ pc = "spawn" => /\ number_timeouts = 0
                       /\ \A i \in Units : phase[i] = "built" => i >= cursor
    /\ pc # "spawn" => \A i \in Units : phase[i] # "built"
    /\ pc = "poll" => number_timeouts < N /\ (is_optimization \/ ~ solution_found)

LEMMA PollInvariant == Spec => []PollInv
<1>1. Init => PollInv
  BY UnitsFinite DEF Init, PollInv, Units
<1>2. IInv /\ PollInv /\ [Next]_vars => PollInv'
  <2> SUFFICES ASSUME IInv, PollInv, [Next]_vars PROVE PollInv'
    OBVIOUS
  <2> USE UnitsFinite
  <2>0. TypeOK /\ Fresh
    BY DEF IInv
  <2>1. ASSUME NEW i \in Units, Search(i) PROVE PollInv'
    <3>1. /\ phase[i] = "running" /\ UNCHANGED main_vars
          /\ phase' = phase \/ phase' = [phase EXCEPT ![i] = "done"]
      BY <2>1 DEF Search, LowerError, LowerCost, Finish
    <3>2. \A j \in Units : phase'[j] = "built" <=> phase[j] = "built"
      BY <2>0, <3>1 DEF TypeOK
    <3> QED
      BY <3>1, <3>2 DEF PollInv, main_vars
  <2>2. CASE Spawn
    <3>1. /\ pc = "spawn" /\ cursor \in Units /\ number_timeouts = 0
          /\ phase' = [phase EXCEPT ![cursor] = "running"]
          /\ cursor' = (cursor + 1) % N
          /\ UNCHANGED <<number_timeouts, solution_found, is_optimization>>
          /\ pc' = IF cursor = N - 1 THEN "poll" ELSE "spawn"
      BY <2>2, <2>0 DEF Spawn, PollInv, TypeOK
    <3>2. \A j \in Units : phase'[j] = "built" => j # cursor /\ j >= cursor
      BY <2>0, <3>1 DEF TypeOK, PollInv
    <3>3. CASE cursor = N - 1
      <4>1. \A j \in Units : phase'[j] # "built"
        BY <3>1, <3>2, <3>3 DEF Units
      <4> QED
        BY <2>0, <3>1, <3>3, <4>1 DEF PollInv, Fresh
    <3>4. CASE cursor # N - 1
      <4>1. cursor' = cursor + 1
        BY <3>1, <3>4 DEF Units
      <4>2. \A j \in Units : phase'[j] = "built" => j >= cursor'
        BY <3>1, <3>2, <4>1 DEF Units
      <4> QED
        BY <3>1, <3>4, <4>2 DEF PollInv
    <3> QED
      BY <3>3, <3>4
  <2>3. CASE PollNotReady
    BY <2>3 DEF PollNotReady, PollInv, unit_vars
  <2>4. CASE PollOptimization
    BY <2>0, <2>4 DEF PollOptimization, PollInv, unit_vars, AllReturned, TypeOK
  <2>5. CASE PollSatisfaction
    BY <2>0, <2>5 DEF PollSatisfaction, PollInv, unit_vars, AllReturned, TypeOK
  <2>6. CASE StopSearch \/ CollectWinner \/ CollectBestNonSolution \/ Join
    BY <2>6 DEF StopSearch, CollectWinner, CollectBestNonSolution, Join, PollInv, unit_vars
  <2>7. CASE SolveAgain
    BY <2>7 DEF SolveAgain, PollInv, Units
  <2>8. CASE UNCHANGED vars
    BY <2>8 DEF vars, unit_vars, main_vars, PollInv
  <2> QED
    BY <2>1, <2>2, <2>3, <2>4, <2>5, <2>6, <2>7, <2>8 DEF Next, Solve
<1> QED
  BY <1>1, <1>2, Inductive, PTL DEF Spec

\* A unit that the main thread waits for has been started: while it polls, one that
\* it has not read yet, so that the loop over the futures has one to come, and when
\* it joins, all of them.
WaitsForStarted ==
    /\ pc = "poll" => \E i \in Units \ units_terminated : phase[i] \in {"running", "done"}
    /\ pc \in {"stop", "collect", "join"} => \A i \in Units : phase[i] \in {"running", "done"}

\* solve() never waits for nobody: its loop over the futures ends by the reading
\* that leaves none, or at the solution that it needs, whatever the number of
\* threads and the order in which they come.
THEOREM NeverWaitsForNobody == Spec => []WaitsForStarted
<1>1. IInv /\ PollInv => WaitsForStarted
  <2> SUFFICES ASSUME IInv, PollInv PROVE WaitsForStarted
    OBVIOUS
  <2> USE UnitsFinite
  <2>0. TypeOK /\ TimeoutsMatchUnits /\ Found
    BY DEF IInv
  <2>1. pc # "spawn" => \A i \in Units : phase[i] \in {"running", "done"}
    BY <2>0 DEF PollInv, TypeOK
  <2>2. ASSUME pc = "poll" PROVE Units \ units_terminated # {}
    <3>1. number_timeouts < N /\ (is_optimization \/ ~ solution_found)
      BY <2>2 DEF PollInv
    <3>2. {i \in units_terminated : is_optimization \/ best_sat_error[i] # 0} = units_terminated
      BY <2>0, <3>1 DEF Found
    <3>3. Cardinality(units_terminated) < N
      BY <2>0, <3>1, <3>2 DEF TimeoutsMatchUnits
    <3>4. units_terminated # Units
      BY <3>3
    <3> QED
      BY <2>0, <3>4 DEF TypeOK
  <2> QED
    BY <2>1, <2>2 DEF WaitsForStarted
<1> QED
  BY <1>1, Inductive, PollInvariant, PTL

-----------------------------------------------------------------------------
(* What is assumed of a search unit.                                       *)

Unit(i) == INSTANCE SearchPromise WITH
             phase <- phase[i],
             best_sat_error <- best_sat_error[i],
             best_opt_cost <- best_opt_cost[i]

\* A step of unit i, which leaves all else alone.
StepOfUnit(i) ==
    /\ phase' = [phase EXCEPT ![i] = phase'[i]]
    /\ best_sat_error' = [best_sat_error EXCEPT ![i] = best_sat_error'[i]]
    /\ best_opt_cost' = [best_opt_cost EXCEPT ![i] = best_opt_cost'[i]]
    /\ UNCHANGED main_vars

\* The steps that ParallelSolve gives to a unit are those that SearchPromise
\* allows it, and all of them, but that the cost of a satisfaction problem, which
\* solve() does not look at, is left alone.
THEOREM SearchIsPromised ==
    ASSUME TypeOK, NEW i \in Units
    PROVE  Search(i) <=> /\ StepOfUnit(i) /\ Unit(i)!Next
                         /\ is_optimization \/ best_opt_cost' = best_opt_cost
<1>1. /\ phase = [phase EXCEPT ![i] = phase[i]]
      /\ best_sat_error = [best_sat_error EXCEPT ![i] = best_sat_error[i]]
      /\ best_opt_cost = [best_opt_cost EXCEPT ![i] = best_opt_cost[i]]
      /\ i \in DOMAIN phase /\ i \in DOMAIN best_sat_error /\ i \in DOMAIN best_opt_cost
  BY DEF TypeOK
<1>2. ASSUME LowerError(i)
      PROVE  StepOfUnit(i) /\ Unit(i)!LowerError /\ best_opt_cost' = best_opt_cost
  <2>1. PICK e \in Values : /\ e < best_sat_error[i]
                            /\ best_sat_error' = [best_sat_error EXCEPT ![i] = e]
    BY <1>2 DEF LowerError
  <2>2. best_sat_error'[i] = e /\ best_sat_error' = [best_sat_error EXCEPT ![i] = best_sat_error'[i]]
    BY <1>1, <2>1
  <2>3. phase' = phase /\ best_opt_cost' = best_opt_cost /\ UNCHANGED main_vars
    BY <1>2 DEF LowerError, main_vars
  <2>4. StepOfUnit(i)
    BY <1>1, <2>2, <2>3 DEF StepOfUnit
  <2>5. Unit(i)!LowerError
    BY <1>1, <1>2, <2>1, <2>2 DEF LowerError, Unit!LowerError, Values
  <2> QED
    BY <2>3, <2>4, <2>5
<1>3. ASSUME LowerCost(i)
      PROVE  StepOfUnit(i) /\ Unit(i)!LowerCost /\ is_optimization
  <2>1. PICK c \in Values : /\ c < best_opt_cost[i]
                            /\ best_opt_cost' = [best_opt_cost EXCEPT ![i] = c]
    BY <1>3 DEF LowerCost
  <2>2. best_opt_cost'[i] = c /\ best_opt_cost' = [best_opt_cost EXCEPT ![i] = best_opt_cost'[i]]
    BY <1>1, <2>1
  <2>3. phase' = phase /\ best_sat_error' = best_sat_error /\ UNCHANGED main_vars
    BY <1>3 DEF LowerCost, main_vars
  <2>4. StepOfUnit(i)
    BY <1>1, <2>2, <2>3 DEF StepOfUnit
  <2>5. Unit(i)!LowerCost
    BY <1>1, <1>3, <2>1, <2>2 DEF LowerCost, Unit!LowerCost, Values
  <2> QED
    BY <1>3, <2>4, <2>5 DEF LowerCost
<1>4. ASSUME Finish(i)
      PROVE  StepOfUnit(i) /\ Unit(i)!Finish /\ best_opt_cost' = best_opt_cost
  <2>1. phase' = [phase EXCEPT ![i] = "done"] /\ phase'[i] = "done"
    BY <1>1, <1>4 DEF Finish
  <2>2. best_opt_cost' = best_opt_cost /\ best_sat_error' = best_sat_error /\ UNCHANGED main_vars
    BY <1>4 DEF Finish, main_vars
  <2>3. StepOfUnit(i)
    BY <1>1, <2>1, <2>2 DEF StepOfUnit
  <2>4. Unit(i)!Finish
    BY <1>4, <2>1, <2>2 DEF Finish, Unit!Finish
  <2> QED
    BY <2>2, <2>3, <2>4
<1>5. ASSUME StepOfUnit(i), Unit(i)!LowerError
      PROVE  LowerError(i)
  <2>1. /\ phase'[i] = phase[i] /\ best_opt_cost'[i] = best_opt_cost[i]
        /\ best_sat_error'[i] \in Values /\ best_sat_error'[i] < best_sat_error[i]
        /\ phase[i] = "running"
    BY <1>5 DEF Unit!LowerError, Values
  <2>2. phase' = phase /\ best_opt_cost' = best_opt_cost /\ UNCHANGED main_vars
    BY <1>1, <1>5, <2>1 DEF StepOfUnit
  <2>3. best_sat_error' = [best_sat_error EXCEPT ![i] = best_sat_error'[i]]
    BY <1>5 DEF StepOfUnit
  <2> QED
    BY <2>1, <2>2, <2>3 DEF LowerError
<1>6. ASSUME StepOfUnit(i), Unit(i)!LowerCost, is_optimization
      PROVE  LowerCost(i)
  <2>1. /\ phase'[i] = phase[i] /\ best_sat_error'[i] = best_sat_error[i]
        /\ best_opt_cost'[i] \in Values /\ best_opt_cost'[i] < best_opt_cost[i]
        /\ phase[i] = "running" /\ best_sat_error[i] = 0
    BY <1>6 DEF Unit!LowerCost, Values
  <2>2. phase' = phase /\ best_sat_error' = best_sat_error /\ UNCHANGED main_vars
    BY <1>1, <1>6, <2>1 DEF StepOfUnit
  <2>3. best_opt_cost' = [best_opt_cost EXCEPT ![i] = best_opt_cost'[i]]
    BY <1>6 DEF StepOfUnit
  <2> QED
    BY <1>6, <2>1, <2>2, <2>3 DEF LowerCost
<1>7. ASSUME StepOfUnit(i), Unit(i)!Finish
      PROVE  Finish(i)
  <2>1. /\ phase'[i] = "done" /\ best_sat_error'[i] = best_sat_error[i]
        /\ best_opt_cost'[i] = best_opt_cost[i] /\ phase[i] = "running"
    BY <1>7 DEF Unit!Finish
  <2>2. best_opt_cost' = best_opt_cost /\ best_sat_error' = best_sat_error /\ UNCHANGED main_vars
    BY <1>1, <1>7, <2>1 DEF StepOfUnit
  <2>3. phase' = [phase EXCEPT ![i] = "done"]
    BY <1>7, <2>1 DEF StepOfUnit
  <2> QED
    BY <2>1, <2>2, <2>3 DEF Finish
<1>8. ASSUME Unit(i)!LowerCost, best_opt_cost' = best_opt_cost
      PROVE  FALSE
  <2>1. best_opt_cost'[i] \in 0 .. Worst /\ best_opt_cost'[i] < best_opt_cost[i]
    BY <1>8 DEF Unit!LowerCost
  <2>2. best_opt_cost'[i] = best_opt_cost[i]
    BY <1>8
  <2> QED
    BY <2>1, <2>2
<1>9. Search(i) => /\ StepOfUnit(i) /\ Unit(i)!Next
                   /\ is_optimization \/ best_opt_cost' = best_opt_cost
  BY <1>2, <1>3, <1>4, Zenon DEF Search, Unit!Next
<1>10. ASSUME StepOfUnit(i), Unit(i)!Next, is_optimization \/ best_opt_cost' = best_opt_cost
       PROVE  Search(i)
  BY <1>5, <1>6, <1>7, <1>8, <1>10, Zenon DEF Search, Unit!Next
<1> QED
  BY <1>9, <1>10
=============================================================================
