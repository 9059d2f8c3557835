--------------------------- MODULE MCDurableJobs ---------------------------
(* The durable job queue with two jobs: j1 may be tried three times, j2 once,    *)
(* and j1 precedes j2 among jobs available at the same instant.            *)
EXTENDS DurableJobs

MCJobs == {"j1", "j2"}
MCMaxAttempts == [j1 |-> 3, j2 |-> 1]
MCRank == [j1 |-> 1, j2 |-> 2]
=============================================================================
