---------------------------- MODULE MCDeployment ----------------------------
(* One daemon and one worker over a fresh data directory; two clients use  *)
(* the same operation id for different requests.                           *)
EXTENDS Deployment

MCRequests == {[op |-> 1, body |-> "a"], [op |-> 1, body |-> "b"]}
=============================================================================
