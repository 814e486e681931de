---------------------------- MODULE SearchPromise ----------------------------
(***************************************************************************)
(* What Solver::solve() may count on while a SearchUnit searches, as much  *)
(* as ParallelSolve uses: the lowest error only goes down, the lowest cost *)
(* too and only once the constraints are satisfied, never both at once,    *)
(* and nothing moves after the promise is set.                             *)
(***************************************************************************)
EXTENDS Integers

CONSTANT Worst   \* numeric_limits<double>::max()

VARIABLES
    phase,           \* "running", then "done"
    best_sat_error,
    best_opt_cost

vars == <<phase, best_sat_error, best_opt_cost>>

Init ==
    /\ phase = "running"
    /\ best_sat_error = Worst
    /\ best_opt_cost = Worst

LowerError ==
    /\ phase = "running"
    /\ best_sat_error' \in 0 .. Worst /\ best_sat_error' < best_sat_error
    /\ UNCHANGED <<phase, best_opt_cost>>

LowerCost ==
    /\ phase = "running"
    /\ best_sat_error = 0
    /\ best_opt_cost' \in 0 .. Worst /\ best_opt_cost' < best_opt_cost
    /\ UNCHANGED <<phase, best_sat_error>>

Finish ==
    /\ phase = "running"
    /\ phase' = "done"
    /\ UNCHANGED <<best_sat_error, best_opt_cost>>

Next == LowerError \/ LowerCost \/ Finish

Spec == Init /\ [][Next]_vars
=============================================================================
