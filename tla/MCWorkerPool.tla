---------------------------- MODULE MCWorkerPool ----------------------------
(* Model values for WorkerPool: the tasks are interchangeable.             *)
EXTENDS WorkerPool, TLC

TaskSymmetry == Permutations(Task)
=============================================================================
