-------------------------- MODULE ExecutorService --------------------------
(***************************************************************************)
(* The refinement mapping from BoundedExecutor to JobService.              *)
(***************************************************************************)
EXTENDS BoundedExecutor

\* A job in the hands of the pool has begun, whether or not a thread is free.
runOf == [j \in Jobs |-> IF thread[j] \in {"pooled", "running"} THEN "begun" ELSE thread[j]]

\* Once the deadline has passed the answer is decided.
answerOf == [j \in Jobs |-> CASE caller[j] = "idle" -> "none"
                              [] caller[j] = "expired" -> "SERVER_BUSY"
                              [] OTHER -> caller[j]]

Service == INSTANCE JobService WITH line <- queue, run <- runOf, answer <- answerOf

\* Every behaviour of the executor is one the service allows.
ImplementsService == Service!ServiceSpec
=============================================================================
