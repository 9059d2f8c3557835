---------------------------- MODULE MCWorkerFleet ---------------------------
(* One process slot with batches of two, one job with two tries and one    *)
(* job with a single try.  Attempts are tasks of their own, so two in one  *)
(* process meet in the queue as two of different processes do; what became *)
(* of a process that died lives on in the leases it left.                  *)
EXTENDS WorkerFleet

MCWorkers == {"w1"}
MCJobs == {"j1", "j2"}
MCMaxAttempts == [j1 |-> 2, j2 |-> 1]
=============================================================================
