--------------------------- MODULE MCParallelSolve ---------------------------
(* ParallelSolve has finite constants of its own: N threads, errors and    *)
(* costs in 0 .. Worst.                                                    *)
EXTENDS ParallelSolve
=============================================================================
