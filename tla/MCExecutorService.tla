-------------------------- MODULE MCExecutorService --------------------------
(* Four jobs: enough for a thread that a stop has left behind, the worker  *)
(* that survived it, a worker started since, and one thread too many.      *)
EXTENDS ExecutorService, TLC

CONSTANTS j1, j2, j3, j4

MCTimed == {j1}
MCJobs == {j1, j2, j3, j4}

\* Nothing tells the jobs without a deadline apart.
JobSymmetry == Permutations(MCJobs \ MCTimed)
=============================================================================
