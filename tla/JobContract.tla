---------------------------- MODULE JobContract -----------------------------
(***************************************************************************)
(* What the durable job queue promises to whoever enqueues a job, without  *)
(* clocks, leases, tokens or receipts: a submitted job is tried at most    *)
(* its number of attempts, each try ends in exactly one of success, retry  *)
(* or death, and its business effect is made by the successful try alone,  *)
(* once.  The detailed queue is shown to implement this module.            *)
(***************************************************************************)
EXTENDS Naturals

CONSTANTS Jobs, MaxAttempts

VARIABLE contract

Phases == {"none", "waiting", "running", "done", "dead"}

Contract == [phase : Phases, tries : Nat, effects : {0, 1}]

Init == contract = [j \in Jobs |-> [phase |-> "none", tries |-> 0, effects |-> 0]]

(* One job's part in a step.                                               *)
Moves(j, from, to) ==
  contract[j].phase = from /\ contract'[j].phase = to

Submit(j) ==
  /\ Moves(j, "none", "waiting")
  /\ contract'[j].tries = 0 /\ contract'[j].effects = 0

Begin(j) ==
  /\ Moves(j, "waiting", "running")
  /\ contract[j].tries < MaxAttempts[j]
  /\ contract'[j].tries = contract[j].tries + 1
  /\ contract'[j].effects = contract[j].effects

Finish(j) ==
  /\ Moves(j, "running", "done")
  /\ contract'[j].tries = contract[j].tries
  /\ contract[j].effects = 0 /\ contract'[j].effects = 1

(* The try failed or its holder vanished, and tries are left.              *)
TryAgain(j) ==
  /\ Moves(j, "running", "waiting")
  /\ contract[j].tries < MaxAttempts[j]
  /\ contract'[j].tries = contract[j].tries
  /\ contract'[j].effects = contract[j].effects

(* The try failed for good, or its holder vanished and no try is left.     *)
GiveUp(j) ==
  /\ Moves(j, "running", "dead")
  /\ contract'[j].tries = contract[j].tries
  /\ contract'[j].effects = contract[j].effects

(* A vanished holder's job goes straight to the next holder.               *)
HandOver(j) ==
  /\ Moves(j, "running", "running")
  /\ contract[j].tries < MaxAttempts[j]
  /\ contract'[j].tries = contract[j].tries + 1
  /\ contract'[j].effects = contract[j].effects

JobStep(j) ==
  \/ Submit(j)
  \/ Begin(j)
  \/ Finish(j)
  \/ TryAgain(j)
  \/ GiveUp(j)
  \/ HandOver(j)

(* One transaction may move several jobs.                                  *)
Next ==
  /\ contract' \in [Jobs -> Contract]
  /\ \A j \in Jobs : contract'[j] = contract[j] \/ JobStep(j)

Spec == Init /\ [][Next]_contract
=============================================================================
