---------------------------- MODULE ParallelSolve ----------------------------
(***************************************************************************)
(* The parallel branch of Solver::solve() (include/ghost/solver.hpp): the  *)
(* main thread starts one SearchUnit per thread, polls their futures, asks *)
(* every unit to stop, takes the model of the winner and joins the         *)
(* threads.  A SearchUnit (search_unit.hpp) is reduced to what solve()     *)
(* reads: the lowest error and the lowest cost it has met so far.          *)
(***************************************************************************)
EXTENDS Integers, FiniteSets

CONSTANTS
    N,             \* options.number_threads, threads 0 .. N - 1
    Worst,         \* numeric_limits<double>::max(): above every error and cost
    MaxSolves      \* bound on the calls of solve() on one Solver

ASSUME SolveAssumption ==
    /\ N \in Nat \ {0}
    /\ Worst \in Nat \ {0}
    /\ MaxSolves \in Nat \ {0}

Units  == 0 .. N - 1
Values == 0 .. Worst    \* errors, where 0 is a solution, and costs

VARIABLES
    is_optimization,    \* whether the model has an objective: the same for every call
    pc,                 \* "spawn", "poll", "stop", "collect", "join" or "returned"
    cursor,             \* thread_number, or the index of the loop over the units
    phase,              \* thread of a unit: "built", "running" or "done" (promise set)
    best_sat_error,     \* SearchUnit::best_sat_error
    best_opt_cost,      \* SearchUnit::best_opt_cost
    stop_signal,        \* SearchUnit::stop_search() has been called
    units_terminated,   \* the units whose future has been read
    number_timeouts,
    solution_found,     \* the result of solve()
    winning_thread,
    solver_sat_error,   \* Solver::_best_sat_error, kept from a call to the next
    solver_opt_cost,    \* Solver::_best_opt_cost, likewise
    transferred,        \* the unit whose model was moved into the solver, or -1
    solves

unit_vars == <<phase, best_sat_error, best_opt_cost>>
main_vars == <<is_optimization, pc, cursor, stop_signal, units_terminated, number_timeouts,
               solution_found, winning_thread, solver_sat_error,
               solver_opt_cost, transferred, solves>>
vars == <<unit_vars, main_vars>>

Init ==
    /\ is_optimization \in BOOLEAN
    /\ pc = "spawn"
    /\ cursor = 0
    /\ phase = [i \in Units |-> "built"]
    /\ best_sat_error = [i \in Units |-> Worst]
    /\ best_opt_cost = [i \in Units |-> Worst]
    /\ stop_signal = [i \in Units |-> FALSE]
    /\ units_terminated = {}
    /\ number_timeouts = 0
    /\ solution_found = FALSE
    /\ winning_thread = 0
    /\ transferred = -1
    /\ solver_sat_error = Worst
    /\ solver_opt_cost = Worst
    /\ solves = 1

-----------------------------------------------------------------------------
(* The search units, each as SearchPromise has it.                         *)

\* A better configuration is met.  The iteration that lowers the error does
\* not look at the cost: its test is the else branch.
LowerError(i) ==
    /\ phase[i] = "running"
    /\ \E e \in Values :
         /\ e < best_sat_error[i]
         /\ best_sat_error' = [best_sat_error EXCEPT ![i] = e]
    /\ UNCHANGED <<phase, best_opt_cost, main_vars>>

LowerCost(i) ==
    /\ phase[i] = "running"
    /\ is_optimization
    /\ best_sat_error[i] = 0
    /\ \E c \in Values :
         /\ c < best_opt_cost[i]
         /\ best_opt_cost' = [best_opt_cost EXCEPT ![i] = c]
    /\ UNCHANGED <<phase, best_sat_error, main_vars>>

\* The loop ends: timeout, stop signal, or a satisfaction problem solved.
Finish(i) ==
    /\ phase[i] = "running"
    /\ phase' = [phase EXCEPT ![i] = "done"]
    /\ UNCHANGED <<best_sat_error, best_opt_cost, main_vars>>

-----------------------------------------------------------------------------
(* The main thread                                                         *)

Spawn ==
    /\ pc = "spawn"
    /\ phase' = [phase EXCEPT ![cursor] = "running"]
    /\ cursor' = (cursor + 1) % N
    /\ pc' = IF cursor = N - 1 THEN "poll" ELSE "spawn"
    /\ UNCHANGED <<is_optimization, best_sat_error, best_opt_cost, stop_signal,
                   units_terminated, number_timeouts, solution_found, winning_thread,
                   solver_sat_error, solver_opt_cost, transferred, solves>>

\* Faults that a run seeds: the test of units_terminated or of the future is
\* dropped.
ReadyAgain(i) == phase[i] = "done"
ReadyEarly(i) == i \notin units_terminated

\* wait_for( 0 ) == ready, for a future not read yet.
Ready(i) == i \notin units_terminated /\ phase[i] = "done"

PollNotReady ==
    /\ pc = "poll"
    /\ ~ Ready(cursor)
    /\ cursor' = (cursor + 1) % N
    /\ UNCHANGED <<is_optimization, unit_vars, pc, stop_signal, units_terminated, number_timeouts,
                   solution_found, winning_thread, solver_sat_error,
                   solver_opt_cost, transferred, solves>>

\* Faults that a run seeds: the costs compared the wrong way round, a solution
\* not recorded unless it is the cheapest, an index off by one, the last
\* timeout missed.
WorstWins(i) ==
    /\ solution_found' = TRUE
    /\ IF solver_opt_cost = Worst \/ solver_opt_cost < best_opt_cost[i]
       THEN solver_opt_cost' = best_opt_cost[i] /\ winning_thread' = i
       ELSE UNCHANGED <<solver_opt_cost, winning_thread>>
CheapestOnly(i) ==
    IF solver_opt_cost > best_opt_cost[i]
    THEN /\ solution_found' = TRUE
         /\ solver_opt_cost' = best_opt_cost[i] /\ winning_thread' = i
    ELSE UNCHANGED <<solution_found, solver_opt_cost, winning_thread>>
ThreadAfterWins(i) ==
    /\ solution_found' = TRUE
    /\ IF solver_opt_cost > best_opt_cost[i]
       THEN solver_opt_cost' = best_opt_cost[i] /\ winning_thread' = i + 1
       ELSE UNCHANGED <<solver_opt_cost, winning_thread>>
AllTimedOut(n) == n > N

\* A unit satisfied all constraints: it wins if it is cheaper than the others.
CheaperWins(i) ==
    /\ solution_found' = TRUE
    /\ IF solver_opt_cost > best_opt_cost[i]
       THEN solver_opt_cost' = best_opt_cost[i] /\ winning_thread' = i
       ELSE UNCHANGED <<solver_opt_cost, winning_thread>>

AllReturned(n) == n >= N

PollOptimization ==
    /\ pc = "poll"
    /\ is_optimization
    /\ Ready(cursor)
    /\ number_timeouts' = number_timeouts + 1
    /\ units_terminated' = units_terminated \union {cursor}
    /\ IF best_sat_error[cursor] = 0
       THEN CheaperWins(cursor)
       ELSE UNCHANGED <<solution_found, solver_opt_cost, winning_thread>>
    /\ IF AllReturned(number_timeouts')
       THEN pc' = "stop" /\ cursor' = 0
       ELSE pc' = pc /\ cursor' = (cursor + 1) % N
    /\ UNCHANGED <<is_optimization, unit_vars, stop_signal, solver_sat_error, transferred, solves>>

\* A fault that a run seeds: the winner is not recorded.
SucceedsUnrecorded(i) == solution_found' = TRUE /\ UNCHANGED winning_thread

Succeeds(i) == solution_found' = TRUE /\ winning_thread' = i

\* The first unit that succeeds ends the wait for the others.
PollSatisfaction ==
    /\ pc = "poll"
    /\ ~ is_optimization
    /\ Ready(cursor)
    /\ units_terminated' = units_terminated \union {cursor}
    /\ IF best_sat_error[cursor] = 0
       THEN Succeeds(cursor) /\ UNCHANGED number_timeouts
       ELSE /\ number_timeouts' = number_timeouts + 1
            /\ UNCHANGED <<solution_found, winning_thread>>
    /\ IF solution_found' \/ AllReturned(number_timeouts')
       THEN pc' = "stop" /\ cursor' = 0
       ELSE pc' = pc /\ cursor' = (cursor + 1) % N
    /\ UNCHANGED <<is_optimization, unit_vars, stop_signal, solver_sat_error, solver_opt_cost,
                   transferred, solves>>

StopSearch ==
    /\ pc = "stop"
    /\ stop_signal' = [stop_signal EXCEPT ![cursor] = TRUE]
    /\ cursor' = (cursor + 1) % N
    /\ pc' = IF cursor = N - 1 THEN "collect" ELSE "stop"
    /\ UNCHANGED <<is_optimization, unit_vars, units_terminated, number_timeouts, solution_found,
                   winning_thread, solver_sat_error, solver_opt_cost,
                   transferred, solves>>

CollectWinner ==
    /\ pc = "collect"
    /\ solution_found
    /\ solver_sat_error' = best_sat_error[winning_thread]
    /\ solver_opt_cost' = best_opt_cost[winning_thread]
    /\ transferred' = winning_thread
    /\ pc' = "join"
    /\ UNCHANGED <<is_optimization, unit_vars, cursor, stop_signal, units_terminated,
                   number_timeouts, solution_found, winning_thread, solves>>

\* The unit that the loop over best_sat_error ends with: the first of the
\* lowest error below that of the solver, or 0.
LeastBad(i) ==
    IF \A j \in Units : best_sat_error[j] >= solver_sat_error
    THEN i = 0
    ELSE /\ \A j \in Units : best_sat_error[i] <= best_sat_error[j]
         /\ \A j \in 0 .. i - 1 : best_sat_error[i] < best_sat_error[j]

CollectBestNonSolution ==
    /\ pc = "collect"
    /\ ~ solution_found
    /\ \E i \in Units :
         /\ LeastBad(i)
         /\ transferred' = i
         /\ solver_sat_error' = IF best_sat_error[i] < solver_sat_error
                                THEN best_sat_error[i] ELSE solver_sat_error
    /\ pc' = "join"
    /\ UNCHANGED <<is_optimization, unit_vars, cursor, stop_signal, units_terminated,
                   number_timeouts, solution_found, winning_thread,
                   solver_opt_cost, solves>>

\* thread.join() blocks until the thread has returned from search().  Then
\* postprocess_optimization() may write another cost, and the cost of a maximization,
\* which is negative in the search, loses its sign: a later call compares with the
\* value left here, whatever the units had found.
Join ==
    /\ pc = "join"
    /\ \A i \in Units : phase[i] = "done"
    /\ pc' = "returned"
    /\ IF is_optimization /\ solution_found
       THEN solver_opt_cost' \in Values
       ELSE UNCHANGED solver_opt_cost
    /\ UNCHANGED <<is_optimization, unit_vars, cursor, stop_signal, units_terminated,
                   number_timeouts, solution_found, winning_thread,
                   solver_sat_error, transferred, solves>>

\* solve() is called again on the same Solver.
SolveAgain ==
    /\ pc = "returned"
    /\ solves < MaxSolves
    /\ solves' = solves + 1
    /\ pc' = "spawn"
    /\ cursor' = 0
    /\ phase' = [i \in Units |-> "built"]
    /\ best_sat_error' = [i \in Units |-> Worst]
    /\ best_opt_cost' = [i \in Units |-> Worst]
    /\ stop_signal' = [i \in Units |-> FALSE]
    /\ units_terminated' = {}
    /\ number_timeouts' = 0
    /\ solution_found' = FALSE
    /\ winning_thread' = 0
    /\ transferred' = -1
    /\ UNCHANGED <<is_optimization, solver_sat_error, solver_opt_cost>>

-----------------------------------------------------------------------------
Search(i) == LowerError(i) \/ LowerCost(i) \/ Finish(i)

Solve == \/ Spawn
         \/ PollNotReady \/ PollOptimization \/ PollSatisfaction
         \/ StopSearch
         \/ CollectWinner \/ CollectBestNonSolution
         \/ Join

Next == (\E i \in Units : Search(i)) \/ Solve \/ SolveAgain

\* Every thread runs, and a unit leaves its loop at the timeout if not before.
Fairness == WF_vars(Solve) /\ \A i \in Units : WF_vars(Search(i))

Spec == Init /\ [][Next]_vars /\ Fairness

-----------------------------------------------------------------------------
(* Properties                                                              *)

\* Type invariant.
TypeOK ==
    /\ is_optimization \in BOOLEAN
    /\ pc \in {"spawn", "poll", "stop", "collect", "join", "returned"}
    /\ cursor \in Units
    /\ phase \in [Units -> {"built", "running", "done"}]
    /\ best_sat_error \in [Units -> Values]
    /\ best_opt_cost \in [Units -> Values]
    /\ stop_signal \in [Units -> BOOLEAN]
    /\ units_terminated \in SUBSET Units
    /\ number_timeouts \in 0 .. N
    /\ solution_found \in BOOLEAN
    /\ winning_thread \in Units
    /\ solver_sat_error \in Values
    /\ solver_opt_cost \in Values
    /\ transferred \in Units \union {-1}
    /\ solves \in 1 .. MaxSolves

\* solve() returns true exactly when a unit it waited for satisfied all the
\* constraints; a satisfaction problem does not wait for the others.
FoundIffSatisfied ==
    pc \in {"collect", "join", "returned"} =>
        (solution_found <=> \E i \in units_terminated : best_sat_error[i] = 0)

\* A timeout is counted once for each future read, and a future is read once
\* (a second get() throws).
TimeoutsMatchUnits ==
    number_timeouts =
        Cardinality({i \in units_terminated : is_optimization \/ best_sat_error[i] # 0})

\* The model is moved out of a unit whose thread has left search(): the main
\* thread never reads a configuration that is still being changed.
NoRaceOnModel == transferred # -1 => phase[transferred] = "done"

\* In the first call, the model kept is that of a unit of the lowest cost among
\* those that satisfied the constraints and priced a solution.
CheapestIsKept ==
    transferred # -1 /\ solution_found /\ is_optimization /\ solves = 1 =>
        \A i \in Units : best_sat_error[i] = 0 =>
            best_opt_cost[transferred] <= best_opt_cost[i]

\* Without a solution, the model kept is that of a unit of the lowest error.
LeastBadIsKept ==
    transferred # -1 /\ ~ solution_found /\ solves = 1 =>
        \A i \in Units : best_sat_error[transferred] <= best_sat_error[i]

\* In the first call the model kept is the best there is; later calls compare with
\* the values of the earlier ones.
BestIsKept == CheapestIsKept /\ LeastBadIsKept

\* solve() returns.
SolveReturns == pc = "spawn" ~> pc = "returned"

\* "finalSolution The configuration of the best solution found" (solver.hpp),
\* when solve() says that there is one.
KeptIsSolution ==
    transferred # -1 /\ solution_found => best_sat_error[transferred] = 0

\* It holds of satisfaction problems, whatever the units that are still running
\* find, and of optimization problems if a unit has priced its solution.
PricedIsKept ==
    (is_optimization => \E i \in Units : best_opt_cost[i] < Worst /\ solves = 1)
        => KeptIsSolution
=============================================================================
