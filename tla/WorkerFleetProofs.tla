------------------------- MODULE WorkerFleetProofs --------------------------
(***************************************************************************)
(* Theorems about the worker processes for every number of processes, jobs *)
(* and attempts, and for every number of mishaps and signals; and, in the  *)
(* second part, about the files their processors write and delete, for any *)
(* memories, recordings, tries, decisions and answers of the provider.     *)
(***************************************************************************)
EXTENDS WorkerFleet, Sidecars, TLAPS

Row == [phase : {"absent", "queued", "leased", "succeeded", "dead"},
        tries : Nat, due : BOOLEAN, lapsed : BOOLEAN]
Admission == [step : {"none", "asked", "granted"}, lease : SUBSET LeaseName]

QueueTyped ==
  /\ job \in [Jobs -> Row]
  /\ answers \subseteq [lease : LeaseName, status : Statuses]
  /\ applied \in [Jobs -> Nat]

ProcessTyped ==
  /\ up \in [Workers -> {"down", "running", "stopping"}]
  /\ loop \in [Workers -> {"off", "batch", "settle", "polling", "failed", "ended"}]
  /\ launched \in [Workers -> 0 .. BatchSize]
  /\ admission \in [Workers -> Admission]
  /\ inFlight \in [Workers -> SUBSET Attempt]
  /\ batchFailed \in [Workers -> BOOLEAN]
  /\ owed \in [Workers -> SUBSET LeaseName]
  /\ faults \in Nat

(* A job that was not submitted was not tried, and its effect was made if  *)
(* it succeeded, once.                                                     *)
RowInv ==
  \A j \in Jobs : /\ job[j].phase = "absent" => job[j].tries = 0
                  /\ applied[j] = IF job[j].phase = "succeeded" THEN 1 ELSE 0

(* Attempts that were answered were granted.                               *)
AnswerInv == \A a \in answers : a.lease.try <= job[a.lease.job].tries

QueueInv == QueueTyped /\ RowInv /\ AnswerInv /\ AnswersAgree

(* A lease is asked for while the batch has room for it.                   *)
BatchInv ==
  \A w \in Workers : admission[w] # NoLease => loop[w] = "batch" /\ launched[w] < BatchSize

(* A lease that is owed is on its way to its attempt or its attempt runs.  *)
OwedInv ==
  \A w \in Workers : \A l \in owed[w] :
    \/ l \in admission[w].lease
    \/ \E a \in inFlight[w] : a.batch /\ a.lease = l

ProcessInv == ProcessTyped /\ BatchInv /\ OwedInv

IInv == QueueInv /\ ProcessInv

-----------------------------------------------------------------------------
(* The ways a job moves in one transaction.                                *)
Stays(j) ==
  job'[j].phase = job[j].phase /\ job'[j].tries = job[j].tries /\ applied'[j] = applied[j]

Moves(j, from, to) == job[j].phase = from /\ job'[j].phase = to

Granted(j) ==
  /\ Moves(j, "queued", "leased") \/ Moves(j, "leased", "leased")
  /\ job[j].tries < MaxAttempts[j] /\ job'[j].tries = job[j].tries + 1
  /\ applied'[j] = applied[j]

Returned(j) ==
  /\ \/ Moves(j, "absent", "queued")
     \/ Moves(j, "leased", "queued") /\ job[j].tries < MaxAttempts[j]
     \/ Moves(j, "leased", "dead")
  /\ job'[j].tries = job[j].tries /\ applied'[j] = applied[j]

Finished(j) ==
  /\ Moves(j, "leased", "succeeded")
  /\ job'[j].tries = job[j].tries /\ applied'[j] = applied[j] + 1

JobMove(j) == Stays(j) \/ Granted(j) \/ Returned(j) \/ Finished(j)

(* An answer is recorded when its attempt ends.                            *)
AnswerMove ==
  \/ answers' = answers
  \/ \E a \in [lease : LeaseName, status : Statuses] :
       /\ answers' = answers \cup {a}
       /\ ~ Answered(a.lease)
       /\ job'[a.lease.job].tries = a.lease.try
       /\ job'[a.lease.job].phase # "leased"
       /\ a.status = "succeeded" => job'[a.lease.job].phase = "succeeded"
       /\ a.status = "dead" => job'[a.lease.job].phase = "dead"

QueueMoves == (\A j \in Jobs : JobMove(j)) /\ AnswerMove

(* Every such move keeps the promise of the contract.                      *)
LEMMA MovesKeepContract ==
  ASSUME QueueTyped, RowInv, QueueTyped', QueueMoves
  PROVE  Promise!Next
  <1>1. ContractState' \in [Jobs -> Promise!Contract]
    <2> SUFFICES ASSUME NEW j \in Jobs
                 PROVE  ContractState'[j] \in Promise!Contract
      BY DEF ContractState
    <2>1. job[j] \in Row /\ job'[j] \in Row /\ JobMove(j)
          /\ applied[j] = IF job[j].phase = "succeeded" THEN 1 ELSE 0
      BY DEF QueueTyped, QueueMoves, RowInv
    <2>2. applied'[j] \in {0, 1}
      BY <2>1 DEF JobMove, Stays, Granted, Returned, Finished, Moves
    <2>3. PhaseOf(job'[j]) \in Promise!Phases /\ job'[j].tries \in Nat
      BY <2>1 DEF PhaseOf, Promise!Phases, Row
    <2>4. ContractState'[j] = [phase |-> PhaseOf(job'[j]), tries |-> job'[j].tries,
                               effects |-> applied'[j]]
      BY DEF ContractState
    <2> QED
      BY <2>2, <2>3, <2>4 DEF Promise!Contract
  <1>2. ASSUME NEW j \in Jobs
        PROVE  ContractState'[j] = ContractState[j] \/ Promise!JobStep(j)
    <2>1. job[j] \in Row /\ job'[j] \in Row /\ JobMove(j)
          /\ applied[j] = (IF job[j].phase = "succeeded" THEN 1 ELSE 0)
          /\ (job[j].phase = "absent" => job[j].tries = 0)
      BY DEF QueueTyped, QueueMoves, RowInv
    <2>2. /\ ContractState[j] = [phase |-> PhaseOf(job[j]), tries |-> job[j].tries,
                                 effects |-> applied[j]]
          /\ ContractState'[j] = [phase |-> PhaseOf(job'[j]), tries |-> job'[j].tries,
                                  effects |-> applied'[j]]
      BY DEF ContractState
    <2>3. CASE Stays(j)
      BY <2>2, <2>3 DEF Stays, PhaseOf
    <2>4. CASE Granted(j)
      BY <2>1, <2>2, <2>4 DEF Granted, Moves, PhaseOf, Promise!JobStep, Promise!Begin,
         Promise!HandOver, Promise!Moves
    <2>5. CASE Returned(j)
      BY <2>1, <2>2, <2>5 DEF Returned, Moves, PhaseOf, Promise!JobStep, Promise!Submit,
         Promise!TryAgain, Promise!GiveUp, Promise!Moves
    <2>6. CASE Finished(j)
      BY <2>1, <2>2, <2>6 DEF Finished, Moves, PhaseOf, Promise!JobStep, Promise!Finish,
         Promise!Moves
    <2> QED
      BY <2>1, <2>3, <2>4, <2>5, <2>6 DEF JobMove
  <1> QED
    BY <1>1, <1>2 DEF Promise!Next

(* Every such move keeps rows and answers in agreement.                    *)
LEMMA MovesKeepQueue ==
  ASSUME QueueInv, QueueTyped', QueueMoves
  PROVE  QueueInv'
  <1>1. RowInv'
    <2> SUFFICES ASSUME NEW j \in Jobs
                 PROVE  /\ job'[j].phase = "absent" => job'[j].tries = 0
                        /\ applied'[j] = IF job'[j].phase = "succeeded" THEN 1 ELSE 0
      BY DEF RowInv
    <2>1. /\ JobMove(j)
          /\ job[j].phase = "absent" => job[j].tries = 0
          /\ applied[j] = IF job[j].phase = "succeeded" THEN 1 ELSE 0
      BY DEF QueueInv, RowInv, QueueMoves
    <2> QED
      BY <2>1 DEF JobMove, Stays, Granted, Returned, Finished, Moves
  <1>2. ASSUME NEW a \in answers
        PROVE  /\ a.lease.try <= job'[a.lease.job].tries
               /\ a.status = "succeeded" => job'[a.lease.job].phase = "succeeded"
                                            /\ job'[a.lease.job].tries = a.lease.try
               /\ a.status = "dead" => job'[a.lease.job].phase = "dead"
                                       /\ job'[a.lease.job].tries = a.lease.try
               /\ job'[a.lease.job].phase = "leased" => job'[a.lease.job].tries # a.lease.try
    <2> DEFINE j == a.lease.job
    <2>1. j \in Jobs /\ a.lease.try \in Nat
      BY DEF QueueInv, QueueTyped, LeaseName
    <2>2. job[j] \in Row /\ job'[j] \in Row /\ JobMove(j)
      BY <2>1 DEF QueueInv, QueueTyped, QueueMoves
    <2>3. /\ a.lease.try <= job[j].tries
          /\ a.status = "succeeded" => job[j].phase = "succeeded" /\ job[j].tries = a.lease.try
          /\ a.status = "dead" => job[j].phase = "dead" /\ job[j].tries = a.lease.try
          /\ job[j].phase = "leased" => job[j].tries # a.lease.try
      BY DEF QueueInv, AnswerInv, AnswersAgree
    <2> HIDE DEF j
    <2>4. job[j].tries \in Nat
      BY <2>2 DEF Row
    <2>5. CASE Stays(j)
      BY <2>3, <2>5 DEF Stays, j
    <2>6. CASE Granted(j)
      BY <2>1, <2>3, <2>4, <2>6 DEF Granted, Moves, j
    <2>7. CASE Returned(j)
      BY <2>3, <2>7 DEF Returned, Moves, j
    <2>8. CASE Finished(j)
      BY <2>3, <2>8 DEF Finished, Moves, j
    <2> QED
      BY <2>2, <2>5, <2>6, <2>7, <2>8 DEF JobMove
  <1>3. \A a, b \in answers : b.lease = a.lease => b = a
    BY DEF QueueInv, AnswersAgree
  <1>4. AnswerInv' /\ AnswersAgree'
    <2>1. CASE answers' = answers
      BY <1>2, <1>3, <2>1 DEF AnswerInv, AnswersAgree
    <2>2. CASE \E a \in [lease : LeaseName, status : Statuses] :
                 /\ answers' = answers \cup {a}
                 /\ ~ Answered(a.lease)
                 /\ job'[a.lease.job].tries = a.lease.try
                 /\ job'[a.lease.job].phase # "leased"
                 /\ a.status = "succeeded" => job'[a.lease.job].phase = "succeeded"
                 /\ a.status = "dead" => job'[a.lease.job].phase = "dead"
      <3>1. PICK a \in [lease : LeaseName, status : Statuses] :
                 /\ answers' = answers \cup {a}
                 /\ ~ Answered(a.lease)
                 /\ job'[a.lease.job].tries = a.lease.try
                 /\ job'[a.lease.job].phase # "leased"
                 /\ a.status = "succeeded" => job'[a.lease.job].phase = "succeeded"
                 /\ a.status = "dead" => job'[a.lease.job].phase = "dead"
        BY <2>2
      <3>2. \A b \in answers : b.lease # a.lease
        BY <3>1 DEF Answered
      <3>3. a.lease.try <= job'[a.lease.job].tries
        BY <3>1 DEF LeaseName
      <3>4. AnswerInv'
        BY <1>2, <3>1, <3>3 DEF AnswerInv
      <3>5. AnswersAgree'
        BY <1>2, <1>3, <3>1, <3>2 DEF AnswersAgree
      <3> QED
        BY <3>4, <3>5
    <2> QED
      BY <2>1, <2>2 DEF QueueMoves, AnswerMove
  <1> QED
    BY <1>1, <1>4 DEF QueueInv

-----------------------------------------------------------------------------
(* The rows leaseNext leaves behind its recoveries.                        *)
LEMMA RecoveredRows ==
  ASSUME QueueTyped, NEW R \in AfterRecovery
  PROVE  /\ R \in [Jobs -> Row]
         /\ \A j \in Jobs :
              \/ R[j] = job[j]
              \/ /\ job[j].phase = "leased"
                 /\ R[j].tries = job[j].tries
                 /\ \/ R[j].phase = "queued" /\ job[j].tries < MaxAttempts[j]
                    \/ R[j].phase = "dead"
  <1> DEFINE E == {j \in Jobs : job[j].phase = "leased" /\ job[j].lapsed}
  <1>1. PICK due \in [E -> BOOLEAN] :
          R = [j \in Jobs |-> IF j \in E THEN RecoveredRow(j, due[j]) ELSE job[j]]
    BY DEF AfterRecovery
  <1>2. ASSUME NEW j \in Jobs, NEW d \in BOOLEAN
        PROVE  /\ RecoveredRow(j, d) \in Row
               /\ RecoveredRow(j, d).tries = job[j].tries
               /\ \/ RecoveredRow(j, d).phase = "queued" /\ job[j].tries < MaxAttempts[j]
                  \/ RecoveredRow(j, d).phase = "dead"
    <2>1. job[j] \in Row /\ job[j].tries \in Nat /\ MaxAttempts[j] \in Nat
      BY FleetAssumption DEF QueueTyped, Row
    <2>2. CASE job[j].tries >= MaxAttempts[j]
      <3>1. RecoveredRow(j, d) = [phase |-> "dead", tries |-> job[j].tries,
                                  due |-> FALSE, lapsed |-> FALSE]
        BY <2>1, <2>2 DEF RecoveredRow, Row
      <3> QED
        BY <2>1, <3>1 DEF Row
    <2>3. CASE ~ (job[j].tries >= MaxAttempts[j])
      <3>1. RecoveredRow(j, d) = [phase |-> "queued", tries |-> job[j].tries,
                                  due |-> d, lapsed |-> FALSE]
        BY <2>1, <2>3 DEF RecoveredRow, Row
      <3> QED
        BY <2>1, <2>3, <3>1 DEF Row
    <2> QED
      BY <2>2, <2>3
  <1> QED
    BY <1>1, <1>2 DEF QueueTyped

(* Steps of the queue that no process takes part in.                       *)
LEMMA TimeMoves ==
  ASSUME QueueInv, NEW j \in Jobs, Submit(j) \/ Due(j) \/ Lapse(j)
  PROVE  QueueTyped' /\ QueueMoves
  <1>1. job[j] \in Row /\ job \in [Jobs -> Row]
    BY DEF QueueInv, QueueTyped
  <1>2. answers' = answers /\ applied' = applied
    BY DEF Submit, Due, Lapse
  <1>3. PICK entry \in Row : /\ job' = [job EXCEPT ![j] = entry]
                             /\ entry.tries = job[j].tries
                             /\ \/ entry.phase = job[j].phase
                                \/ entry.phase = "queued" /\ job[j].phase = "absent"
    <2>1. CASE Submit(j)
      <3>1. PICK due \in BOOLEAN :
              job' = [job EXCEPT ![j] = [@ EXCEPT !.phase = "queued", !.due = due]]
        BY <2>1 DEF Submit
      <3>2. job' = [job EXCEPT ![j] = [job[j] EXCEPT !.phase = "queued", !.due = due]]
        BY <3>1
      <3>3. [job[j] EXCEPT !.phase = "queued", !.due = due] \in Row
        BY <1>1 DEF Row
      <3>4. job[j].phase = "absent"
        BY <2>1 DEF Submit
      <3> QED
        BY <1>1, <3>2, <3>3, <3>4 DEF Row
    <2>2. CASE Due(j)
      <3>1. [job[j] EXCEPT !.due = TRUE] \in Row
        BY <1>1 DEF Row
      <3>2. job' = [job EXCEPT ![j] = [job[j] EXCEPT !.due = TRUE]]
        BY <2>2 DEF Due
      <3> QED
        BY <1>1, <3>1, <3>2 DEF Row
    <2>3. CASE Lapse(j)
      <3>1. [job[j] EXCEPT !.lapsed = TRUE] \in Row
        BY <1>1 DEF Row
      <3>2. job' = [job EXCEPT ![j] = [job[j] EXCEPT !.lapsed = TRUE]]
        BY <2>3 DEF Lapse
      <3> QED
        BY <1>1, <3>1, <3>2 DEF Row
    <2> QED
      BY <2>1, <2>2, <2>3
  <1>4. \A k \in Jobs : JobMove(k)
    BY <1>1, <1>2, <1>3 DEF JobMove, Stays, Returned, Moves
  <1>5. QueueTyped'
    BY <1>1, <1>2, <1>3 DEF QueueInv, QueueTyped
  <1> QED
    BY <1>2, <1>4, <1>5 DEF QueueMoves, AnswerMove

(* What leaseNext makes of the row it grants.                              *)
LEMMA LeasedRow ==
  ASSUME NEW entry \in Row, NEW n \in Nat
  PROVE  LET new == [entry EXCEPT !.phase = "leased", !.tries = n,
                                !.due = FALSE, !.lapsed = FALSE]
         IN new \in Row /\ new.phase = "leased" /\ new.tries = n
  <1>1. [entry EXCEPT !.phase = "leased", !.tries = n, !.due = FALSE, !.lapsed = FALSE] \in Row
    BY ZenonT(60) DEF Row
  <1>2. [entry EXCEPT !.phase = "leased", !.tries = n, !.due = FALSE, !.lapsed = FALSE].tries = n
    BY DEF Row
  <1>3. [entry EXCEPT !.phase = "leased", !.tries = n, !.due = FALSE, !.lapsed = FALSE].phase
          = "leased"
    BY DEF Row
  <1> QED
    BY <1>1, <1>2, <1>3

(* leaseNext grants a lease.                                               *)
LEMMA GrantMoves ==
  ASSUME QueueInv, NEW w \in Workers, LeaseGranted(w)
  PROVE  QueueTyped' /\ QueueMoves
  <1>1. PICK R \in AfterRecovery, j \in Jobs :
          /\ Leasable(R, j)
          /\ job' = [R EXCEPT ![j] =
               [@ EXCEPT !.phase = "leased",
                         !.tries = [job |-> j, try |-> R[j].tries + 1].try,
                         !.due = FALSE, !.lapsed = FALSE]]
    BY DEF LeaseGranted
  <1>2. answers' = answers /\ applied' = applied
    BY DEF LeaseGranted
  <1>3. R \in [Jobs -> Row] /\ R[j] \in Row /\ R[j].tries \in Nat
    BY RecoveredRows DEF QueueInv, Row
  <1>n. PICK n \in Nat : n = R[j].tries + 1
    BY <1>3
  <1> DEFINE entry == [R[j] EXCEPT !.phase = "leased", !.tries = n,
                                   !.due = FALSE, !.lapsed = FALSE]
  <1>4. entry \in Row /\ entry.phase = "leased" /\ entry.tries = R[j].tries + 1
    BY <1>3, <1>n, LeasedRow
  <1>5. job' = [R EXCEPT ![j] = entry]
    <2>1. [job |-> j, try |-> R[j].tries + 1].try = R[j].tries + 1
      OBVIOUS
    <2> QED
      BY <1>1, <1>n, <2>1
  <1> HIDE DEF entry
  <1>6. job' \in [Jobs -> Row] /\ job'[j] = entry /\ \A k \in Jobs \ {j} : job'[k] = R[k]
    BY <1>3, <1>4, <1>5
  <1>7. R[j].phase = "queued" /\ R[j].tries < MaxAttempts[j]
    BY <1>1 DEF Leasable
  <1>8. JobMove(j)
    BY <1>2, <1>4, <1>6, <1>7, RecoveredRows DEF QueueInv, JobMove, Granted, Moves
  <1>9. \A k \in Jobs \ {j} : JobMove(k)
    BY <1>2, <1>6, RecoveredRows DEF QueueInv, JobMove, Stays, Returned, Moves
  <1> QED
    BY <1>2, <1>6, <1>8, <1>9 DEF QueueInv, QueueTyped, QueueMoves, AnswerMove

(* leaseNext only recovers.                                                *)
LEMMA EmptyMoves ==
  ASSUME QueueInv, NEW w \in Workers, LeaseEmpty(w)
  PROVE  QueueTyped' /\ QueueMoves
  <1>1. job' \in AfterRecovery /\ answers' = answers /\ applied' = applied
    BY DEF LeaseEmpty
  <1>2. \A j \in Jobs : JobMove(j)
    BY <1>1, RecoveredRows DEF QueueInv, JobMove, Stays, Returned, Moves
  <1> QED
    BY <1>1, <1>2, RecoveredRows DEF QueueInv, QueueTyped, QueueMoves, AnswerMove

(* An attempt ends and its answer is recorded with it.                     *)
LEMMA AnswerMoves ==
  ASSUME QueueInv, NEW w \in Workers, NEW a \in Attempt, Succeed(w, a) \/ FailJob(w, a)
  PROVE  QueueTyped' /\ QueueMoves
  <1> DEFINE j == a.lease.job
             answer == [lease |-> a.lease, status |-> StatusOf(a.stage)]
  <1>1. /\ j \in Jobs /\ a.lease \in LeaseName /\ a.lease.try \in Nat
        /\ job \in [Jobs -> Row] /\ job[j] \in Row /\ applied \in [Jobs -> Nat]
    BY DEF QueueInv, QueueTyped, Attempt, LeaseName
  <1>2. /\ ~ Answered(a.lease) /\ answers' = answers \cup {answer}
        /\ job[j].phase = "leased" /\ job[j].tries = a.lease.try
    BY DEF Succeed, FailJob, Answer, Holds
  <1>3. answer \in [lease : LeaseName, status : Statuses]
        /\ answer.lease = a.lease /\ answer.status = StatusOf(a.stage)
    BY <1>1 DEF Succeed, FailJob, StatusOf, Statuses
  <1> HIDE DEF answer, j
  <1>4. CASE Succeed(w, a)
    <2>1. /\ job' = [job EXCEPT ![j] = [job[j] EXCEPT !.phase = "succeeded"]]
          /\ applied' = [applied EXCEPT ![j] = applied[j] + 1]
          /\ a.stage = "succeeding"
      BY <1>4 DEF Succeed, j
    <2>2. [job[j] EXCEPT !.phase = "succeeded"] \in Row
      BY <1>1 DEF Row
    <2>3. /\ job' \in [Jobs -> Row] /\ job'[j].phase = "succeeded"
          /\ job'[j].tries = job[j].tries /\ applied' \in [Jobs -> Nat]
          /\ applied'[j] = applied[j] + 1
          /\ \A k \in Jobs \ {j} : job'[k] = job[k] /\ applied'[k] = applied[k]
      BY <1>1, <2>1, <2>2 DEF Row
    <2>4. \A k \in Jobs : JobMove(k)
      BY <1>2, <2>3 DEF JobMove, Stays, Finished, Moves
    <2>5. StatusOf(a.stage) = "succeeded"
      BY <2>1 DEF StatusOf
    <2>6. AnswerMove
      BY <1>2, <1>3, <2>3, <2>5 DEF AnswerMove, j
    <2> QED
      BY <1>2, <1>3, <2>3, <2>4, <2>6 DEF QueueInv, QueueTyped, QueueMoves
  <1>5. CASE FailJob(w, a)
    <2> DEFINE ends == a.stage = "burying" \/ job[j].tries >= MaxAttempts[j]
    <2>1. PICK due \in BOOLEAN :
            job' = [job EXCEPT ![j] =
                      IF ends THEN [job[j] EXCEPT !.phase = "dead"]
                      ELSE [job[j] EXCEPT !.phase = "queued", !.due = due]]
      BY <1>1, <1>5 DEF FailJob, j
    <2>2. applied' = applied /\ a.stage \in {"retrying", "burying"}
      BY <1>5 DEF FailJob
    <2>3. PICK entry \in Row :
            /\ job' = [job EXCEPT ![j] = entry]
            /\ entry.tries = job[j].tries
            /\ \/ entry.phase = "dead"
               \/ /\ entry.phase = "queued" /\ a.stage # "burying"
                  /\ ~ (job[j].tries >= MaxAttempts[j])
      <3>1. [job[j] EXCEPT !.phase = "dead"] \in Row
            /\ [job[j] EXCEPT !.phase = "queued", !.due = due] \in Row
        BY <1>1 DEF Row
      <3>2. /\ [job[j] EXCEPT !.phase = "dead"].phase = "dead"
            /\ [job[j] EXCEPT !.phase = "dead"].tries = job[j].tries
            /\ [job[j] EXCEPT !.phase = "queued", !.due = due].phase = "queued"
            /\ [job[j] EXCEPT !.phase = "queued", !.due = due].tries = job[j].tries
        BY <1>1 DEF Row
      <3>3. CASE ends
        BY <2>1, <3>1, <3>2, <3>3
      <3>4. CASE ~ ends
        BY <2>1, <3>1, <3>2, <3>4
      <3> QED
        BY <3>3, <3>4
    <2>4. job[j].tries \in Nat /\ MaxAttempts[j] \in Nat
      BY <1>1, FleetAssumption DEF Row
    <2>5. /\ job' \in [Jobs -> Row] /\ job'[j] = entry
          /\ \A k \in Jobs \ {j} : job'[k] = job[k]
      BY <1>1, <2>3
    <2>6. \A k \in Jobs : JobMove(k)
      BY <1>2, <2>2, <2>3, <2>4, <2>5 DEF JobMove, Stays, Returned, Moves
    <2>7. StatusOf(a.stage) # "succeeded" /\ (StatusOf(a.stage) = "dead" => a.stage = "burying")
      BY <2>2 DEF StatusOf
    <2>8. AnswerMove
      BY <1>2, <1>3, <2>3, <2>5, <2>7 DEF AnswerMove, j
    <2> QED
      BY <1>2, <1>3, <2>2, <2>5, <2>6, <2>8 DEF QueueInv, QueueTyped, QueueMoves
  <1> QED
    BY <1>4, <1>5

-----------------------------------------------------------------------------
(* The steps of the loop of one process.                                   *)
LEMMA StartKeeps ==
  ASSUME ProcessInv, NEW w \in Workers, Start(w)
  PROVE  ProcessInv'
  <1>1. ProcessTyped'
    BY FleetAssumption DEF Start, bounds, ProcessInv, ProcessTyped
  <1>2. BatchInv'
    BY FleetAssumption DEF Start, ProcessInv, ProcessTyped, BatchInv
  <1>3. OwedInv'
    BY DEF Start, ProcessInv, OwedInv
  <1> QED
    BY <1>1, <1>2, <1>3 DEF ProcessInv

LEMMA LeasesTyped ==
  /\ NoLease \in Admission /\ Asked \in Admission /\ Asked # NoLease
  /\ NoLease.lease = {} /\ Asked.lease = {}
  /\ \A l \in LeaseName : /\ InHand(l) \in Admission /\ InHand(l) # NoLease
                          /\ InHand(l).lease = {l}
  BY DEF NoLease, Asked, InHand, Admission

LEMMA AskKeeps ==
  ASSUME ProcessInv, NEW w \in Workers, Ask(w)
  PROVE  ProcessInv'
  <1>1. ProcessTyped'
    BY LeasesTyped DEF Ask, bounds, ProcessInv, ProcessTyped
  <1>2. BatchInv'
    BY DEF Ask, ProcessInv, ProcessTyped, BatchInv
  <1>3. OwedInv'
    BY LeasesTyped DEF Ask, ProcessInv, ProcessTyped, OwedInv
  <1> QED
    BY <1>1, <1>2, <1>3 DEF ProcessInv

(* The answer of leaseNext: a lease, nothing, or trouble.                  *)
LEMMA GrantedKeeps ==
  ASSUME QueueInv, ProcessInv, NEW w \in Workers, LeaseGranted(w)
  PROVE  ProcessInv'
  <1>1. PICK lease \in LeaseName :
          /\ admission' = [admission EXCEPT ![w] = InHand(lease)]
          /\ owed' = [owed EXCEPT ![w] = @ \cup {lease}]
    <2>1. PICK R \in AfterRecovery, j \in Jobs :
            LET lease == [job |-> j, try |-> R[j].tries + 1] IN
            /\ admission' = [admission EXCEPT ![w] = InHand(lease)]
            /\ owed' = [owed EXCEPT ![w] = @ \cup {lease}]
      BY DEF LeaseGranted
    <2>2. [job |-> j, try |-> R[j].tries + 1] \in LeaseName
      BY RecoveredRows DEF QueueInv, Row, LeaseName
    <2> QED
      BY <2>1, <2>2
  <1>2. UNCHANGED <<up, loop, launched, inFlight, batchFailed, faults>>
        /\ admission[w] = Asked
    BY DEF LeaseGranted, bounds
  <1>3. ProcessTyped'
    BY <1>1, <1>2, LeasesTyped DEF ProcessInv, ProcessTyped
  <1>4. BatchInv'
    BY <1>1, <1>2, LeasesTyped DEF ProcessInv, ProcessTyped, BatchInv
  <1>5. OwedInv'
    BY <1>1, <1>2, LeasesTyped DEF ProcessInv, ProcessTyped, OwedInv
  <1> QED
    BY <1>3, <1>4, <1>5 DEF ProcessInv

LEMMA EmptyKeeps ==
  ASSUME ProcessInv, NEW w \in Workers, LeaseEmpty(w) \/ LeaseError(w)
  PROVE  ProcessInv'
  <1>1. /\ admission' = [admission EXCEPT ![w] = NoLease]
        /\ \E l \in {"settle", "failed"} : loop' = [loop EXCEPT ![w] = l]
        /\ UNCHANGED <<up, launched, inFlight, batchFailed, owed>>
        /\ admission[w] = Asked /\ faults' \in {faults, faults + 1}
    BY DEF LeaseEmpty, LeaseError, bounds
  <1>2. ProcessTyped'
    BY <1>1, LeasesTyped DEF ProcessInv, ProcessTyped
  <1>3. BatchInv'
    BY <1>1 DEF ProcessInv, ProcessTyped, BatchInv
  <1>5. \A v \in Workers : admission'[v].lease = admission[v].lease
    BY <1>1, LeasesTyped DEF ProcessInv, ProcessTyped
  <1>4. OwedInv'
    BY <1>1, <1>5 DEF ProcessInv, OwedInv
  <1> QED
    BY <1>2, <1>3, <1>4 DEF ProcessInv

LEMMA LaunchKeeps ==
  ASSUME ProcessInv, NEW w \in Workers, Launch(w)
  PROVE  ProcessInv'
  <1> DEFINE new == {[lease |-> l, stage |-> "accepted", batch |-> TRUE] : l \in admission[w].lease}
  <1>1. /\ inFlight' = [inFlight EXCEPT ![w] = @ \cup new]
        /\ launched' = [launched EXCEPT ![w] = @ + 1]
        /\ admission' = [admission EXCEPT ![w] = NoLease]
        /\ UNCHANGED <<up, loop, batchFailed, owed, faults>>
    BY DEF Launch, bounds
  <1>2. admission[w] # NoLease /\ admission[w] \in Admission /\ launched[w] \in 0 .. BatchSize
    BY DEF Launch, NoLease, ProcessInv, ProcessTyped
  <1>3. launched[w] + 1 \in 0 .. BatchSize
    BY <1>2, FleetAssumption DEF ProcessInv, BatchInv
  <1>4. ASSUME NEW l \in admission[w].lease
        PROVE  LET a == [lease |-> l, stage |-> "accepted", batch |-> TRUE]
               IN a \in new /\ a \in Attempt /\ a.batch /\ a.lease = l
    <2>1. l \in LeaseName
      BY <1>2 DEF Admission
    <2>2. [lease |-> l, stage |-> "accepted", batch |-> TRUE] \in Attempt
      BY <2>1 DEF Attempt, Stages
    <2> QED
      BY <2>2
  <1>5. /\ new \subseteq Attempt
        /\ \A l \in admission[w].lease : \E a \in new : a.batch /\ a.lease = l
    BY <1>4
  <1> HIDE DEF new
  <1>6. ProcessTyped'
    BY <1>1, <1>3, <1>5, LeasesTyped DEF ProcessInv, ProcessTyped
  <1>7. BatchInv'
    BY <1>1 DEF ProcessInv, ProcessTyped, BatchInv
  <1>8. OwedInv'
    <2> SUFFICES ASSUME NEW v \in Workers, NEW l \in owed[v]
                 PROVE  \/ l \in admission'[v].lease
                        \/ \E a \in inFlight'[v] : a.batch /\ a.lease = l
      BY <1>1 DEF OwedInv
    <2>1. \/ l \in admission[v].lease
          \/ \E a \in inFlight[v] : a.batch /\ a.lease = l
      BY DEF ProcessInv, OwedInv
    <2>2. CASE v = w
      <3>1. inFlight'[v] = inFlight[v] \cup new
        BY <1>1, <2>2 DEF ProcessInv, ProcessTyped
      <3> QED
        BY <1>5, <2>1, <2>2, <3>1
    <2>3. CASE v # w
      <3>1. inFlight'[v] = inFlight[v] /\ admission'[v] = admission[v]
        BY <1>1, <2>3 DEF ProcessInv, ProcessTyped
      <3> QED
        BY <2>1, <3>1
    <2> QED
      BY <2>2, <2>3
  <1> QED
    BY <1>6, <1>7, <1>8 DEF ProcessInv

LEMMA BatchKeeps ==
  ASSUME ProcessInv, NEW w \in Workers,
         CloseBatch(w) \/ SettleBatch(w) \/ PollAgain(w) \/ LoopFailed(w) \/ Signal(w)
  PROVE  ProcessInv'
  <1>1. UNCHANGED <<admission, inFlight, batchFailed, owed, faults>>
    BY DEF CloseBatch, SettleBatch, PollAgain, LoopFailed, Signal, bounds
  <1>2. ProcessTyped'
    BY <1>1, FleetAssumption
       DEF CloseBatch, SettleBatch, PollAgain, LoopFailed, Signal, ProcessInv, ProcessTyped
  <1>3. BatchInv'
    BY <1>1, LeasesTyped
       DEF CloseBatch, SettleBatch, PollAgain, LoopFailed, Signal, ProcessInv, ProcessTyped,
           BatchInv
  <1>4. OwedInv'
    BY <1>1 DEF ProcessInv, OwedInv
  <1> QED
    BY <1>2, <1>3, <1>4 DEF ProcessInv

LEMMA ExitKeeps ==
  ASSUME ProcessInv, NEW w \in Workers, Exit(w), faults' \in {faults, faults + 1}
  PROVE  ProcessInv'
  <1>1. ProcessTyped'
    BY LeasesTyped, FleetAssumption DEF Exit, ProcessInv, ProcessTyped
  <1>2. BatchInv'
    BY DEF Exit, ProcessInv, ProcessTyped, BatchInv
  <1>3. OwedInv'
    BY DEF Exit, ProcessInv, ProcessTyped, OwedInv
  <1> QED
    BY <1>1, <1>2, <1>3 DEF ProcessInv

(* The steps of an attempt.                                                *)
LEMMA AdvanceKeeps ==
  ASSUME ProcessInv, NEW w \in Workers, NEW a \in inFlight[w], NEW stage \in Stages,
         Advance(w, a, stage), UNCHANGED <<up, loop, launched, admission, faults>>
  PROVE  ProcessInv'
  <1> DEFINE next == [a EXCEPT !.stage = stage]
  <1>1. a \in Attempt
    BY DEF ProcessInv, ProcessTyped
  <1>2. next \in Attempt /\ next.batch = a.batch /\ next.lease = a.lease
    BY <1>1 DEF Attempt
  <1>3. inFlight' = [inFlight EXCEPT ![w] = (@ \ {a}) \cup {next}]
        /\ UNCHANGED <<batchFailed, owed>>
    BY DEF Advance
  <1> HIDE DEF next
  <1>4. ProcessTyped'
    BY <1>2, <1>3 DEF ProcessInv, ProcessTyped
  <1>5. BatchInv'
    BY DEF ProcessInv, BatchInv
  <1>6. OwedInv'
    BY <1>2, <1>3 DEF ProcessInv, ProcessTyped, OwedInv
  <1> QED
    BY <1>4, <1>5, <1>6 DEF ProcessInv

LEMMA SettleKeeps ==
  ASSUME ProcessInv, NEW w \in Workers, NEW a \in inFlight[w], NEW rejected \in BOOLEAN,
         Settle(w, a, rejected), UNCHANGED <<up, loop, launched, admission>>,
         faults' \in {faults, faults + 1}
  PROVE  ProcessInv'
  <1>1. a \in Attempt /\ a.batch \in BOOLEAN
    BY DEF ProcessInv, ProcessTyped, Attempt
  <1>2. /\ inFlight' = [inFlight EXCEPT ![w] = @ \ {a}]
        /\ batchFailed' = [batchFailed EXCEPT ![w] = @ \/ (rejected /\ a.batch)]
        /\ owed' = [owed EXCEPT ![w] = IF a.batch THEN @ \ {a.lease} ELSE @]
    BY DEF Settle
  <1>3. batchFailed' \in [Workers -> BOOLEAN]
    BY <1>1, <1>2 DEF ProcessInv, ProcessTyped
  <1>4. inFlight' \in [Workers -> SUBSET Attempt] /\ owed' \in [Workers -> SUBSET LeaseName]
    BY <1>2 DEF ProcessInv, ProcessTyped
  <1>5. ProcessTyped'
    BY <1>3, <1>4 DEF ProcessInv, ProcessTyped
  <1>6. BatchInv'
    BY DEF ProcessInv, BatchInv
  <1>7. OwedInv'
    BY <1>2 DEF ProcessInv, ProcessTyped, OwedInv
  <1> QED
    BY <1>5, <1>6, <1>7 DEF ProcessInv

LEMMA RedeliverKeeps ==
  ASSUME ProcessInv, NEW w \in Workers, NEW lease \in LeaseName, Redeliver(w, lease)
  PROVE  ProcessInv'
  <1> DEFINE new == [lease |-> lease, stage |-> "accepted", batch |-> FALSE]
  <1>1. new \in Attempt
    BY DEF Attempt, Stages
  <1>2. inFlight' = [inFlight EXCEPT ![w] = @ \cup {new}]
        /\ UNCHANGED <<up, loop, launched, admission, batchFailed, owed, faults>>
    BY DEF Redeliver
  <1> HIDE DEF new
  <1>3. ProcessTyped'
    BY <1>1, <1>2 DEF ProcessInv, ProcessTyped
  <1>4. BatchInv'
    BY <1>2 DEF ProcessInv, BatchInv
  <1>5. OwedInv'
    BY <1>2 DEF ProcessInv, ProcessTyped, OwedInv
  <1> QED
    BY <1>3, <1>4, <1>5 DEF ProcessInv

-----------------------------------------------------------------------------
(* A step that writes no row and no answer is none of the queue.           *)
LEMMA QueueStill ==
  ASSUME QueueInv, UNCHANGED queue
  PROVE  QueueTyped' /\ QueueMoves
  BY DEF queue, QueueInv, QueueTyped, QueueMoves, JobMove, Stays, AnswerMove

(* The stages an attempt moves through are stages, and what ends it is a   *)
(* rejection or not.                                                       *)
LEMMA AttemptKeeps ==
  ASSUME IInv, NEW w \in Workers, NEW a \in inFlight[w], AttemptStep(w, a)
  PROVE  ProcessInv' /\ QueueTyped' /\ QueueMoves
  <1>1. UNCHANGED <<up, loop, launched, admission, faults>>
    BY DEF AttemptStep, bounds
  <1>2. ProcessInv /\ QueueInv /\ a \in Attempt
    BY DEF IInv, ProcessInv, ProcessTyped
  <1>3. {"unanswered", "processing", "succeeding", "retrying", "burying"} \subseteq Stages
    BY DEF Stages
  <1>4. \/ \E stage \in Stages : Advance(w, a, stage)
        \/ \E rejected \in BOOLEAN : Settle(w, a, rejected)
    BY <1>3 DEF AttemptStep, ReadReplay, ReadSnapshot, Process, AnswerFound, Succeed,
       CommitRefused, FailJob, LeaseLost
  <1>5. ProcessInv'
    BY <1>1, <1>2, <1>4, AdvanceKeeps, SettleKeeps
  <1>6. \/ UNCHANGED queue
        \/ Succeed(w, a) \/ FailJob(w, a)
    BY DEF AttemptStep, ReadReplay, ReadSnapshot, Process, AnswerFound, CommitRefused, LeaseLost
  <1> QED
    BY <1>2, <1>5, <1>6, QueueStill, AnswerMoves

(* Every step keeps the processes in order and is a move of the queue.     *)
LEMMA StepMoves ==
  ASSUME IInv, [Next]_vars
  PROVE  ProcessInv' /\ QueueTyped' /\ QueueMoves
  <1>1. QueueInv /\ ProcessInv
    BY DEF IInv
  <1>2. ASSUME NEW j \in Jobs, Submit(j) \/ Due(j) \/ Lapse(j)
        PROVE  ProcessInv' /\ QueueTyped' /\ QueueMoves
    <2>1. UNCHANGED <<up, loop, launched, admission, inFlight, batchFailed, owed, faults>>
      BY <1>2 DEF Submit, Due, Lapse, process, bounds
    <2>2. ProcessInv'
      BY <1>1, <2>1 DEF ProcessInv, ProcessTyped, BatchInv, OwedInv
    <2> QED
      BY <1>1, <1>2, <2>2, TimeMoves
  <1>3. ASSUME NEW w \in Workers, Start(w)
        PROVE  ProcessInv' /\ QueueTyped' /\ QueueMoves
    BY <1>1, <1>3, StartKeeps, QueueStill DEF Start
  <1>4. ASSUME NEW w \in Workers, LoopStep(w)
        PROVE  ProcessInv' /\ QueueTyped' /\ QueueMoves
    <2>1. CASE Ask(w)
      BY <1>1, <2>1, AskKeeps, QueueStill DEF Ask
    <2>2. CASE LeaseGranted(w)
      BY <1>1, <2>2, GrantedKeeps, GrantMoves
    <2>3. CASE LeaseEmpty(w)
      BY <1>1, <2>3, EmptyKeeps, EmptyMoves
    <2>4. CASE Launch(w)
      BY <1>1, <2>4, LaunchKeeps, QueueStill DEF Launch
    <2>5. CASE CloseBatch(w) \/ SettleBatch(w) \/ PollAgain(w) \/ LoopFailed(w)
      <3>1. UNCHANGED queue
        BY <2>5 DEF CloseBatch, SettleBatch, PollAgain, LoopFailed
      <3> QED
        BY <1>1, <2>5, <3>1, BatchKeeps, QueueStill
    <2>6. CASE Close(w)
      <3>1. Exit(w) /\ faults' = faults /\ UNCHANGED queue
        BY <2>6 DEF Close, bounds
      <3> QED
        BY <1>1, <3>1, ExitKeeps, QueueStill
    <2> QED
      BY <1>4, <2>1, <2>2, <2>3, <2>4, <2>5, <2>6 DEF LoopStep
  <1>5. ASSUME NEW w \in Workers, LeaseError(w)
        PROVE  ProcessInv' /\ QueueTyped' /\ QueueMoves
    BY <1>1, <1>5, EmptyKeeps, QueueStill DEF LeaseError
  <1>6. ASSUME NEW w \in Workers, NEW a \in inFlight[w], AttemptStep(w, a)
        PROVE  ProcessInv' /\ QueueTyped' /\ QueueMoves
    BY <1>6, AttemptKeeps
  <1>7. ASSUME NEW w \in Workers, NEW a \in inFlight[w], AttemptError(w, a)
        PROVE  ProcessInv' /\ QueueTyped' /\ QueueMoves
    <2>1. /\ Settle(w, a, TRUE) /\ faults' = faults + 1 /\ UNCHANGED queue
          /\ UNCHANGED <<up, loop, launched, admission>>
      BY <1>7 DEF AttemptError
    <2> QED
      BY <1>1, <2>1, SettleKeeps, QueueStill
  <1>8. ASSUME NEW w \in Workers, NEW j \in Jobs, NEW t \in 1 .. job[j].tries,
               Redeliver(w, [job |-> j, try |-> t])
        PROVE  ProcessInv' /\ QueueTyped' /\ QueueMoves
    <2>1. [job |-> j, try |-> t] \in LeaseName
      BY <1>1 DEF QueueInv, QueueTyped, Row, LeaseName
    <2> QED
      BY <1>1, <1>8, <2>1, RedeliverKeeps, QueueStill DEF Redeliver
  <1>9. ASSUME NEW w \in Workers, Signal(w)
        PROVE  ProcessInv' /\ QueueTyped' /\ QueueMoves
    BY <1>1, <1>9, BatchKeeps, QueueStill DEF Signal
  <1>10. ASSUME NEW w \in Workers, Crash(w)
         PROVE  ProcessInv' /\ QueueTyped' /\ QueueMoves
    BY <1>1, <1>10, ExitKeeps, QueueStill DEF Crash
  <1>11. CASE UNCHANGED vars
    <2>1. UNCHANGED queue
          /\ UNCHANGED <<up, loop, launched, admission, inFlight, batchFailed, owed, faults>>
      BY <1>11 DEF vars, queue
    <2>2. ProcessInv'
      BY <1>1, <2>1 DEF ProcessInv, ProcessTyped, BatchInv, OwedInv
    <2> QED
      BY <1>1, <2>1, <2>2, QueueStill
  <1> QED
    BY <1>2, <1>3, <1>4, <1>5, <1>6, <1>7, <1>8, <1>9, <1>10, <1>11 DEF Next

LEMMA InitHolds == Init => IInv
  <1> SUFFICES ASSUME Init PROVE IInv
    OBVIOUS
  <1>1. QueueInv
    BY DEF Init, QueueInv, QueueTyped, Row, RowInv, AnswerInv, AnswersAgree
  <1>2. ProcessInv
    BY LeasesTyped, FleetAssumption DEF Init, ProcessInv, ProcessTyped, BatchInv, OwedInv
  <1> QED
    BY <1>1, <1>2 DEF IInv

LEMMA StepHolds == IInv /\ [Next]_vars => IInv'
  BY StepMoves, MovesKeepQueue DEF IInv

LEMMA AlwaysHolds == Spec => []IInv
  BY InitHolds, StepHolds, PTL DEF Spec

-----------------------------------------------------------------------------
(* The variables of the fleet keep their types.                            *)
THEOREM TypeCorrect == Spec => []TypeOK
  <1>1. IInv => TypeOK
    BY DEF IInv, QueueInv, QueueTyped, Row, ProcessInv, ProcessTyped, Admission, TypeOK
  <1> QED
    BY <1>1, AlwaysHolds, PTL

(* Whoever delivers a lease, how often, and whatever becomes of it: the    *)
(* recorded answers and the rows of their jobs agree.                      *)
THEOREM AnswersAlwaysAgree == Spec => []AnswersAgree
  <1>1. IInv => AnswersAgree
    BY DEF IInv, QueueInv
  <1> QED
    BY <1>1, AlwaysHolds, PTL

(* A stop at any await of any number of attempts leaves no lease behind.   *)
THEOREM AlwaysStopsDrained == Spec => StopsDrained
  <1>1. ASSUME IInv, [Next]_vars, NEW w \in Workers,
               up[w] = "stopping", up'[w] = "down", faults' = faults
        PROVE  owed[w] = {}
    <2>1. ProcessInv /\ ProcessTyped /\ faults \in Nat
      BY <1>1 DEF IInv, ProcessInv, ProcessTyped
    <2>2. PICK v \in Workers : Close(v)
      <3>1. ASSUME NEW j \in Jobs, Submit(j) \/ Due(j) \/ Lapse(j) PROVE up' = up
        BY <3>1 DEF Submit, Due, Lapse, process
      <3>2. ASSUME NEW v \in Workers,
                   Ask(v) \/ LeaseGranted(v) \/ LeaseEmpty(v) \/ Launch(v) \/ CloseBatch(v)
                     \/ SettleBatch(v) \/ PollAgain(v) \/ LeaseError(v)
            PROVE  up' = up
        BY <3>2 DEF Ask, LeaseGranted, LeaseEmpty, Launch, CloseBatch, SettleBatch, PollAgain,
           LeaseError
      <3>3. ASSUME NEW v \in Workers, NEW a \in inFlight[v], AttemptStep(v, a) \/ AttemptError(v, a)
            PROVE  up' = up
        BY <3>3 DEF AttemptStep, AttemptError
      <3>4. ASSUME NEW v \in Workers, NEW l, Redeliver(v, l)
            PROVE  up' = up
        BY <3>4 DEF Redeliver
      <3>5. ASSUME NEW v \in Workers, Start(v) \/ LoopFailed(v) \/ Signal(v)
            PROVE  up'[w] # "down" \/ up'[w] = up[w]
        BY <3>5, <2>1 DEF Start, LoopFailed, Signal, ProcessTyped
      <3>6. \A v \in Workers : ~ Crash(v)
        BY <1>1, <2>1 DEF Crash
      <3>7. CASE UNCHANGED vars
        BY <1>1, <3>7 DEF vars
      <3> QED
        BY <1>1, <3>1, <3>2, <3>3, <3>4, <3>5, <3>6, <3>7 DEF Next, LoopStep
    <2>3. v = w
      BY <1>1, <2>1, <2>2 DEF Close, Exit, ProcessTyped
    <2>4. admission[w].lease = {} /\ inFlight[w] = {}
      BY <2>2, <2>3, LeasesTyped DEF Close, Drained
    <2> QED
      BY <2>1, <2>4 DEF ProcessInv, OwedInv, ProcessTyped
  <1>2. IInv /\ [Next]_vars =>
          [\A w \in Workers :
             up[w] = "stopping" /\ up'[w] = "down" /\ faults' = faults => owed[w] = {}]_vars
    BY <1>1
  <1> QED
    BY <1>2, AlwaysHolds, PTL DEF Spec, StopsDrained

(* The fleet implements the contract of the queue: each step of whichever  *)
(* process maps to steps of jobs or to none.                               *)
THEOREM FleetKeepsContract == Spec => KeepsContract
  <1>1. Init => Promise!Init
    BY DEF Init, Promise!Init, ContractState, PhaseOf
  <1>2. IInv /\ [Next]_vars => [Promise!Next]_ContractState
    BY StepMoves, MovesKeepContract DEF IInv, QueueInv
  <1> QED
    BY <1>1, <1>2, AlwaysHolds, PTL DEF Spec, KeepsContract, Promise!Spec

-----------------------------------------------------------------------------
(***************************************************************************)
(* The files of the processors.                                            *)
(*                                                                         *)
(* Two facts carry the argument.  While an embedding or ann attempt holds  *)
(* its lease, no memory that it writes for is closed, so no collector runs *)
(* for one and its files stay.  Once a memory is closed, only late         *)
(* attempts add files that cover it, so what a retention attempt has       *)
(* listed, and not yet deleted, is all that the memory can keep.           *)
(***************************************************************************)

(* A memory is closed once it is archived and no job that writes a file of *)
(* it is left; what retention finds is then all there will be, but for     *)
(* what late attempts add.                                                 *)
Closed(m) == life[m] = "archived" /\ ~ Pending(m)
Kept(m) == {f \in files : m \in f.of} \ late

JobInv ==
  /\ \A e \in Batches :
       row[Ann(e)].state = "absent" <=> row[Embedding(e)].state # "succeeded"
  /\ \A m \in Memories : row[Retention(m)].state = "absent" <=> life[m] # "archived"
  /\ \A j \in FileJobs :
       /\ row[j].state = "queued" => row[j].tries < MaxTries[j[1]]
       /\ row[j].state = "leased" => row[j].tries # 0
  /\ WritersUndisturbed

DiskInv ==
  /\ \A e \in Batches : row[Embedding(e)].state = "succeeded" =>
       /\ output[e] \in Versions
       /\ \A m \in Members(e) : ~ Closed(m) => Vector(m, e, output[e]) \in files
  /\ \A e \in Batches :
       row[Ann(e)].state = "succeeded" /\ (\A m \in Members(e) : ~ Closed(m)) =>
         Segment(e, output[e]) \in files
  /\ \A m \in Memories : row[Retention(m)].state = "succeeded" =>
       Closed(m) /\ Kept(m) = {}

Writing == {"write", "held", "publish", "verify"}

EmbeddingInv(a, e) ==
  /\ run[a].pc \in {"idle", "source", "embed", "complete"} \cup Writing
  /\ run[a].pc # "idle" => run[a].at \in 1 .. Len(Of[e])
  /\ run[a].pc = "embed" => run[a].at = 1
  /\ run[a].pc \in Writing \cup {"complete"} => run[a].ver \in Versions
  /\ Held(a) /\ run[a].pc \in Writing =>
       \A k \in 1 .. (run[a].at - 1) : Vector(Of[e][k], e, run[a].ver) \in files
  /\ run[a].pc \in {"held", "verify"} => Wanted(a) \in files
  /\ run[a].pc = "complete" => \A m \in Members(e) : Vector(m, e, run[a].ver) \in files

AnnInv(a, e) ==
  /\ run[a].pc \in {"idle", "fetch", "opened", "complete"} \cup Writing
  /\ run[a].pc # "idle" =>
       /\ run[a].at \in 1 .. Len(Of[e])
       /\ run[a].ver = output[e]
       /\ row[Embedding(e)].state = "succeeded"
  /\ run[a].pc \in {"held", "verify", "complete"} => Segment(e, run[a].ver) \in files

RetentionInv(a, m) ==
  /\ run[a].pc \in {"idle", "resolve", "list", "scan", "sweep", "unlink", "complete"}
  /\ run[a].pc = "resolve" => run[a].store = "segment"
  /\ run[a].pc \notin {"idle", "resolve"} =>
       /\ Closed(m)
       /\ \A f \in run[a].doomed : m \in f.of
  /\ run[a].pc = "unlink" => Left(a) # {}
  /\ run[a].pc = "scan" =>
       \A f \in Kept(m) : f.store = run[a].store => f \in run[a].list \cup run[a].doomed
  /\ run[a].pc \in {"list", "scan"} /\ run[a].store = "vector" =>
       \A f \in Kept(m) : f.store = "segment" => f \in run[a].doomed
  /\ run[a].pc \in {"sweep", "unlink"} =>
       /\ Kept(m) \subseteq run[a].doomed
       /\ run[a].store = "vector" => \A f \in Kept(m) : f.store # "segment"
  /\ run[a].pc = "complete" => Kept(m) = {}

RunInv(a) ==
  /\ run[a].pc \in Looking => Held(a)
  /\ a[1][1] = "embedding" => EmbeddingInv(a, a[1][2])
  /\ a[1][1] = "ann" => AnnInv(a, a[1][2])
  /\ a[1][1] = "retention" => RetentionInv(a, a[1][2])

FilesInv ==
  /\ SidecarsTyped
  /\ JobInv
  /\ DiskInv
  /\ \A a \in Attempts : RunInv(a)

-----------------------------------------------------------------------------
(* Recordings, jobs and attempts.                                          *)

LEMMA Recorded ==
  ASSUME SidecarsAssumption, NEW e \in Batches
  PROVE  /\ Len(Of[e]) \in Nat \ {0} /\ DOMAIN Of[e] = 1 .. Len(Of[e])
         /\ Members(e) \subseteq Memories
         /\ \A k \in 1 .. Len(Of[e]) : Of[e][k] \in Members(e)
         /\ \A m \in Members(e) : \E k \in 1 .. Len(Of[e]) : m = Of[e][k]
<1>1. Of[e] \in Seq(Memories) /\ Of[e] # <<>>
  BY DEF SidecarsAssumption
<1>2. /\ Len(Of[e]) \in Nat /\ DOMAIN Of[e] = 1 .. Len(Of[e])
      /\ \A k \in 1 .. Len(Of[e]) : Of[e][k] \in Memories
  BY <1>1
<1>3. Len(Of[e]) # 0
  BY <1>1
<1> QED
  BY <1>2, <1>3 DEF Members

LEMMA JobCases ==
  ASSUME NEW j \in FileJobs
  PROVE  \/ \E e \in Batches : j = Embedding(e)
         \/ \E e \in Batches : j = Ann(e)
         \/ \E m \in Memories : j = Retention(m)
BY DEF FileJobs, Embedding, Ann, Retention

LEMMA JobNames ==
  /\ \A e : Embedding(e)[1] = "embedding" /\ Embedding(e)[2] = e
            /\ Ann(e)[1] = "ann" /\ Ann(e)[2] = e
            /\ Retention(e)[1] = "retention" /\ Retention(e)[2] = e
  /\ \A e \in Batches : Embedding(e) \in FileJobs /\ Ann(e) \in FileJobs
  /\ \A m \in Memories : Retention(m) \in FileJobs
BY DEF FileJobs, Embedding, Ann, Retention

LEMMA AttemptJob ==
  ASSUME NEW a \in Attempts
  PROVE  a[1] \in FileJobs /\ a[2] \in 1 .. MaxTries[a[1][1]] /\ a = <<a[1], a[2]>>
<1>1. PICK j \in FileJobs : a \in {j} \X (1 .. MaxTries[j[1]])
  BY DEF Attempts
<1> QED
  BY <1>1

LEMMA JobAttempts ==
  ASSUME NEW j \in FileJobs, NEW n \in 1 .. MaxTries[j[1]]
  PROVE  <<j, n>> \in Attempts
<1>1. <<j, n>> \in {j} \X (1 .. MaxTries[j[1]])
  OBVIOUS
<1> QED
  BY <1>1 DEF Attempts

LEMMA AttemptCases ==
  ASSUME NEW a \in Attempts
  PROVE  \/ a[1][1] = "embedding" /\ a[1][2] \in Batches /\ a[1] = Embedding(a[1][2])
         \/ a[1][1] = "ann" /\ a[1][2] \in Batches /\ a[1] = Ann(a[1][2])
         \/ a[1][1] = "retention" /\ a[1][2] \in Memories /\ a[1] = Retention(a[1][2])
BY AttemptJob, JobCases, JobNames

-----------------------------------------------------------------------------
(* What a step leaves as it is.                                            *)

(* A closed memory stays closed and gains no file but from late attempts;  *)
(* a file goes only if it covers a closed memory; what an embedding job    *)
(* has answered stands.                                                    *)
Steady ==
  /\ \A m \in Memories : Closed(m) => Closed(m)' /\ Kept(m)' \subseteq Kept(m)
  /\ \A f \in files : (\A m \in f.of : ~ Closed(m)) => f \in files'
  /\ \A e \in Batches : row[Embedding(e)].state = "succeeded" =>
       row'[Embedding(e)].state = "succeeded" /\ output'[e] = output[e]

LEMMA HeldIsOpen ==
  ASSUME NEW a \in Attempts, Held(a), NEW e \in Batches,
         a[1] = Embedding(e) \/ a[1] = Ann(e)
  PROVE  \A m \in Members(e) : ~ Closed(m)
BY DEF Held, Closed, Pending, Unfinished

LEMMA FileFields ==
  /\ \A m, e, v : Vector(m, e, v).of = {m} /\ Vector(m, e, v).store = "vector"
  /\ \A e, v : Segment(e, v).of = Members(e) /\ Segment(e, v).store = "segment"
BY DEF Vector, Segment

LEMMA VectorStays ==
  ASSUME Steady, NEW m, ~ Closed(m), NEW e, NEW v, Vector(m, e, v) \in files
  PROVE  Vector(m, e, v) \in files'
BY FileFields DEF Steady

LEMMA SegmentStays ==
  ASSUME Steady, NEW e, \A m \in Members(e) : ~ Closed(m), NEW v, Segment(e, v) \in files
  PROVE  Segment(e, v) \in files'
BY FileFields DEF Steady

LEMMA BystanderKeeps ==
  ASSUME SidecarsAssumption, Steady, NEW b \in Attempts, RunInv(b),
         run'[b] = run[b], Held(b)' => Held(b),
         run[b].pc \in Looking => Held(b)'
  PROVE  RunInv(b)'
<1>1. run'[b].pc \in Looking => Held(b)'
  OBVIOUS
<1>2. CASE b[1][1] = "embedding"
  <2> DEFINE e == b[1][2]
  <2>1. e \in Batches /\ b[1] = Embedding(e) /\ EmbeddingInv(b, e)
    BY <1>2, AttemptCases DEF RunInv
  <2>2. Held(b) => \A m \in Members(e) : ~ Closed(m)
    BY <2>1, HeldIsOpen
  <2>3. \A k \in 1 .. Len(Of[e]) : Of[e][k] \in Members(e)
    BY <2>1, Recorded
  <2> HIDE DEF e
  <2>4. /\ run[b].pc \in {"idle", "source", "embed", "complete"} \cup Writing
        /\ run[b].pc # "idle" => run[b].at \in 1 .. Len(Of[e])
        /\ run[b].pc = "embed" => run[b].at = 1
        /\ run[b].pc \in Writing \cup {"complete"} => run[b].ver \in Versions
    BY <2>1 DEF EmbeddingInv
  <2>5. Held(b)' /\ run'[b].pc \in Writing =>
          \A k \in 1 .. (run'[b].at - 1) : Vector(Of[e][k], e, run'[b].ver) \in files'
    <3> SUFFICES ASSUME Held(b), run[b].pc \in Writing, NEW k \in 1 .. (run[b].at - 1)
                 PROVE  Vector(Of[e][k], e, run[b].ver) \in files'
      OBVIOUS
    <3>1. k \in 1 .. Len(Of[e])
      BY <2>1, <2>4, Recorded DEF Writing
    <3>2. Vector(Of[e][k], e, run[b].ver) \in files
      BY <2>1 DEF EmbeddingInv
    <3> QED
      BY <2>2, <2>3, <3>1, <3>2, VectorStays
  <2>6. run'[b].pc \in {"held", "verify"} => Wanted(b)' \in files'
    <3> SUFFICES ASSUME run[b].pc \in {"held", "verify"}
                 PROVE  Vector(Of[e][run[b].at], e, run[b].ver) \in files'
      BY DEF Wanted, e
    <3>1. Vector(Of[e][run[b].at], e, run[b].ver) \in files
      BY <2>1 DEF EmbeddingInv, Wanted, e
    <3>2. Held(b)
      BY DEF RunInv, Looking
    <3> QED
      BY <2>2, <2>3, <2>4, <3>1, <3>2, VectorStays
  <2>7. run'[b].pc = "complete" =>
          \A m \in Members(e) : Vector(m, e, run'[b].ver) \in files'
    <3> SUFFICES ASSUME run[b].pc = "complete", NEW m \in Members(e)
                 PROVE  Vector(m, e, run[b].ver) \in files'
      OBVIOUS
    <3>1. Held(b) /\ Vector(m, e, run[b].ver) \in files
      BY <2>1 DEF RunInv, Looking, EmbeddingInv
    <3> QED
      BY <2>2, <3>1, VectorStays
  <2>8. EmbeddingInv(b, e)'
    BY <2>4, <2>5, <2>6, <2>7 DEF EmbeddingInv, e
  <2> QED
    BY <1>1, <1>2, <2>8 DEF RunInv, e
<1>3. CASE b[1][1] = "ann"
  <2> DEFINE e == b[1][2]
  <2>1. e \in Batches /\ b[1] = Ann(e) /\ AnnInv(b, e)
    BY <1>3, AttemptCases DEF RunInv
  <2>2. Held(b) => \A m \in Members(e) : ~ Closed(m)
    BY <2>1, HeldIsOpen
  <2> HIDE DEF e
  <2>3. run'[b].pc \in {"held", "verify", "complete"} => Segment(e, run'[b].ver) \in files'
    <3> SUFFICES ASSUME run[b].pc \in {"held", "verify", "complete"}
                 PROVE  Segment(e, run[b].ver) \in files'
      OBVIOUS
    <3>1. Held(b) /\ Segment(e, run[b].ver) \in files
      BY <2>1 DEF RunInv, Looking, AnnInv
    <3> QED
      BY <2>2, <3>1, SegmentStays
  <2>4. AnnInv(b, e)'
    BY <2>1, <2>3 DEF AnnInv, Steady
  <2> QED
    BY <1>1, <1>3, <2>4 DEF RunInv, e
<1>4. CASE b[1][1] = "retention"
  <2> DEFINE m == b[1][2]
  <2>1. m \in Memories /\ RetentionInv(b, m)
    BY <1>4, AttemptCases DEF RunInv
  <2> HIDE DEF m
  <2>2. Closed(m) => Closed(m)' /\ Kept(m)' \subseteq Kept(m)
    BY <2>1 DEF Steady
  <2>3. Left(b)' = Left(b)
    BY DEF Left
  <2>4. run[b].pc \notin {"idle", "resolve"} => Kept(m)' \subseteq Kept(m) /\ Closed(m)'
    BY <2>1, <2>2 DEF RetentionInv
  <2>5. RetentionInv(b, m)'
    BY <2>1, <2>3, <2>4 DEF RetentionInv
  <2> QED
    BY <1>1, <1>4, <2>5 DEF RunInv, m
<1> QED
  BY <1>2, <1>3, <1>4, AttemptCases

LEMMA DiskKeeps ==
  ASSUME SidecarsAssumption, Steady, JobInv, DiskInv,
         \A j \in FileJobs : row'[j].state = "succeeded" => row[j].state = "succeeded"
  PROVE  DiskInv'
<1>1. ASSUME NEW e \in Batches, row'[Embedding(e)].state = "succeeded"
      PROVE  /\ output'[e] \in Versions
             /\ \A m \in Members(e) : ~ Closed(m)' => Vector(m, e, output'[e]) \in files'
  <2>1. row[Embedding(e)].state = "succeeded" /\ output'[e] = output[e]
    BY <1>1, JobNames DEF Steady
  <2>2. ASSUME NEW m \in Members(e), ~ Closed(m)'
        PROVE  Vector(m, e, output'[e]) \in files'
    <3>1. m \in Memories
      BY Recorded
    <3>2. ~ Closed(m)
      BY <2>2, <3>1 DEF Steady
    <3> QED
      BY <2>1, <3>2, VectorStays DEF DiskInv
  <2> QED
    BY <2>1, <2>2 DEF DiskInv
<1>2. ASSUME NEW e \in Batches, row'[Ann(e)].state = "succeeded",
             \A m \in Members(e) : ~ Closed(m)'
      PROVE  Segment(e, output'[e]) \in files'
  <2>1. row[Ann(e)].state = "succeeded"
    BY <1>2, JobNames
  <2>2. output'[e] = output[e]
    BY <2>1 DEF JobInv, Steady
  <2>3. \A m \in Members(e) : ~ Closed(m)
    BY <1>2, Recorded DEF Steady
  <2> QED
    BY <2>1, <2>2, <2>3, SegmentStays DEF DiskInv
<1>3. ASSUME NEW m \in Memories, row'[Retention(m)].state = "succeeded"
      PROVE  Closed(m)' /\ Kept(m)' = {}
  <2>1. row[Retention(m)].state = "succeeded"
    BY <1>3, JobNames
  <2> QED
    BY <2>1 DEF DiskInv, Steady
<1> QED
  BY <1>1, <1>2, <1>3 DEF DiskInv

-----------------------------------------------------------------------------
(* Attempts that move on, and attempts that end.                           *)

Entry == [state : States, tries : Nat, cause : Causes]
Doing == [pc : Looking \cup Touching \cup {"idle"}, at : Nat,
          ver : Versions \cup {0}, store : {"segment", "vector"},
          list : SUBSET AllFiles, doomed : SUBSET AllFiles]

LEMMA IdleTyped == NoRun \in Doing
BY DEF NoRun, Doing

LEMMA IdleHolds ==
  ASSUME NEW a \in Attempts, run'[a] = NoRun
  PROVE  RunInv(a)'
<1>1. run'[a].pc = "idle"
  BY DEF NoRun
<1>2. \A e : EmbeddingInv(a, e)'
  BY <1>1 DEF EmbeddingInv, Writing
<1>3. \A e : AnnInv(a, e)'
  BY <1>1 DEF AnnInv, Writing
<1>4. \A m : RetentionInv(a, m)'
  BY <1>1 DEF RetentionInv
<1> QED
  BY <1>1, <1>2, <1>3, <1>4 DEF RunInv, Looking

LEMMA UnmovedIsSteady ==
  ASSUME UNCHANGED <<life, row, output, files, late>>
  PROVE  Steady
<1>1. \A m : Closed(m)' = Closed(m) /\ Kept(m)' = Kept(m)
  BY DEF Closed, Pending, Unfinished, Kept
<1> QED
  BY <1>1 DEF Steady

(* An attempt that moves on, and may touch files on the way.               *)
LEMMA TouchKeeps ==
  ASSUME SidecarsAssumption, FilesInv, Steady, NEW a \in Attempts, NEW r \in Doing,
         run' = [run EXCEPT ![a] = r],
         UNCHANGED <<life, current, row, output>>,
         files' \subseteq AllFiles, late' \subseteq AllFiles,
         RunInv(a)'
  PROVE  FilesInv'
<1>1. SidecarsTyped /\ JobInv /\ DiskInv
  BY DEF FilesInv
<1>2. SidecarsTyped'
  BY <1>1 DEF SidecarsTyped, Doing
<1>3. JobInv'
  BY <1>1 DEF JobInv, WritersUndisturbed
<1>4. DiskInv'
  BY <1>1, DiskKeeps
<1>5. ASSUME NEW b \in Attempts
      PROVE  RunInv(b)'
  <2>1. CASE b = a
    BY <2>1
  <2>2. CASE b # a
    <3>1. run'[b] = run[b]
      BY <2>2, <1>1 DEF SidecarsTyped
    <3>2. RunInv(b) /\ (Held(b)' <=> Held(b))
      BY DEF FilesInv, Held
    <3> QED
      BY <3>1, <3>2, BystanderKeeps DEF RunInv
  <2> QED
    BY <2>1, <2>2
<1> QED
  BY <1>2, <1>3, <1>4, <1>5 DEF FilesInv

LEMMA MoveKeeps ==
  ASSUME SidecarsAssumption, FilesInv, NEW a \in Attempts, NEW r \in Doing,
         run' = [run EXCEPT ![a] = r],
         UNCHANGED <<life, current, row, output, files, late>>,
         RunInv(a)'
  PROVE  FilesInv'
<1>1. Steady
  BY UnmovedIsSteady
<1>2. files' \subseteq AllFiles /\ late' \subseteq AllFiles
  BY DEF FilesInv, SidecarsTyped
<1> QED
  BY <1>1, <1>2, TouchKeeps

(* The attempt that holds a job gives it up, with a cause that is lawful   *)
(* for its role.                                                           *)
Ended(a) ==
  /\ Held(a)
  /\ \E r \in Entry :
       /\ row' = [row EXCEPT ![a[1]] = r]
       /\ r.state \in {"queued", "dead"}
       /\ r.tries = row[a[1]].tries
       /\ r.state = "queued" => r.tries < MaxTries[a[1][1]]
       /\ a[1][1] = "ann" => r.cause \in {"none", "exhausted"}
       /\ a[1][1] = "embedding" => r.cause \notin {"missing", "integrity"}

LEMMA EndedIsSteady ==
  ASSUME FilesInv, NEW a \in Attempts, Ended(a), UNCHANGED <<life, output, files, late>>
  PROVE  Steady
<1>1. \A j \in FileJobs : j # a[1] => row'[j] = row[j]
  BY DEF Ended, FilesInv, SidecarsTyped
<1>2. /\ a[1] \in FileJobs /\ row[a[1]].state = "leased"
      /\ row'[a[1]].state \in {"queued", "dead"}
  BY AttemptJob DEF Ended, Held, FilesInv, SidecarsTyped
<1>3. \A m : Closed(m) => Closed(m)'
  BY <1>1, <1>2, JobNames DEF Closed, Pending, Unfinished
<1>4. \A m : Kept(m)' = Kept(m)
  BY DEF Kept
<1>5. \A e \in Batches : row[Embedding(e)].state = "succeeded" =>
        row'[Embedding(e)].state = "succeeded"
  BY <1>1, <1>2, JobNames
<1> QED
  BY <1>3, <1>4, <1>5 DEF Steady

LEMMA EndKeeps ==
  ASSUME SidecarsAssumption, FilesInv, NEW a \in Attempts, Ended(a), NEW r \in Doing,
         run' = [run EXCEPT ![a] = r],
         UNCHANGED <<life, current, output, files, late>>,
         RunInv(a)'
  PROVE  FilesInv'
<1>1. SidecarsTyped /\ JobInv /\ DiskInv /\ a[1] \in FileJobs
  BY AttemptJob DEF FilesInv
<1>2. PICK p \in Entry :
        /\ row' = [row EXCEPT ![a[1]] = p]
        /\ p.state \in {"queued", "dead"}
        /\ p.tries = row[a[1]].tries
        /\ p.state = "queued" => p.tries < MaxTries[a[1][1]]
        /\ a[1][1] = "ann" => p.cause \in {"none", "exhausted"}
        /\ a[1][1] = "embedding" => p.cause \notin {"missing", "integrity"}
  BY DEF Ended
<1>3. /\ \A j \in FileJobs : row'[j] = IF j = a[1] THEN p ELSE row[j]
      /\ row[a[1]].state = "leased" /\ row[a[1]].tries = a[2]
  BY <1>1, <1>2 DEF SidecarsTyped, Ended, Held
<1>4. Steady
  BY EndedIsSteady
<1>5. SidecarsTyped'
  <2>1. row' \in [FileJobs -> Entry]
    BY <1>1, <1>2 DEF SidecarsTyped, Entry
  <2>2. \A j \in FileJobs : row'[j].tries <= MaxTries[j[1]]
    BY <1>1, <1>2, <1>3 DEF SidecarsTyped
  <2> QED
    BY <1>1, <2>1, <2>2 DEF SidecarsTyped, Doing, Entry
<1>6. JobInv'
  <2>1. \A e \in Batches :
          row'[Ann(e)].state = "absent" <=> row'[Embedding(e)].state # "succeeded"
    BY <1>1, <1>2, <1>3, JobNames DEF JobInv
  <2>2. \A m \in Memories : row'[Retention(m)].state = "absent" <=> life'[m] # "archived"
    BY <1>1, <1>2, <1>3, JobNames DEF JobInv
  <2>3. \A j \in FileJobs :
          /\ row'[j].state = "queued" => row'[j].tries < MaxTries[j[1]]
          /\ row'[j].state = "leased" => row'[j].tries # 0
    BY <1>1, <1>2, <1>3 DEF JobInv
  <2>4. WritersUndisturbed'
    BY <1>1, <1>2, <1>3, JobNames DEF JobInv, WritersUndisturbed
  <2> QED
    BY <2>1, <2>2, <2>3, <2>4 DEF JobInv
<1>7. DiskInv'
  <2>1. \A j \in FileJobs : row'[j].state = "succeeded" => row[j].state = "succeeded"
    BY <1>2, <1>3
  <2> QED
    BY <1>1, <1>4, <2>1, DiskKeeps
<1>8. ASSUME NEW b \in Attempts, b # a
      PROVE  RunInv(b)'
  <2>1. run'[b] = run[b]
    BY <1>8, <1>1 DEF SidecarsTyped
  <2>2. Held(b)' <=> Held(b)
    <3>1. CASE b[1] = a[1]
      <4>1. b[2] # a[2]
        BY <1>8, <3>1, AttemptJob
      <4> QED
        BY <1>1, <1>2, <1>3, <3>1, <4>1 DEF Held
    <3>2. CASE b[1] # a[1]
      BY <1>3, <3>2, AttemptJob DEF Held
    <3> QED
      BY <3>1, <3>2
  <2>3. RunInv(b)
    BY DEF FilesInv
  <2> QED
    BY <2>1, <2>2, <2>3, <1>4, BystanderKeeps DEF RunInv
<1> QED
  BY <1>5, <1>6, <1>7, <1>8 DEF FilesInv

LEMMA RetryEnds ==
  ASSUME SidecarsAssumption, FilesInv, NEW a \in Attempts, Held(a),
         row' = RetryOrExhaust(a[1])
  PROVE  Ended(a)
<1>1. /\ a[1] \in FileJobs /\ row \in [FileJobs -> Entry] /\ row[a[1]] \in Entry
      /\ row[a[1]].tries <= MaxTries[a[1][1]] /\ MaxTries[a[1][1]] \in Nat
  <2>1. a[1] \in FileJobs /\ row \in [FileJobs -> Entry]
    BY AttemptJob DEF FilesInv, SidecarsTyped, Entry
  <2>2. row[a[1]].tries <= MaxTries[a[1][1]]
    BY <2>1 DEF FilesInv, SidecarsTyped
  <2>3. a[1][1] \in Roles
    BY <2>1, JobCases, JobNames DEF Roles
  <2> QED
    BY <2>1, <2>2, <2>3 DEF SidecarsAssumption
<1>2. /\ a[1][1] = "ann" => row[a[1]].cause \in {"none", "exhausted"}
      /\ a[1][1] = "embedding" => row[a[1]].cause \notin {"missing", "integrity"}
  BY AttemptCases DEF FilesInv, JobInv, WritersUndisturbed
<1>3. CASE row[a[1]].tries < MaxTries[a[1][1]]
  <2> DEFINE p == [row[a[1]] EXCEPT !.state = "queued"]
  <2>1. row' = [row EXCEPT ![a[1]] = p]
    BY <1>1, <1>3 DEF RetryOrExhaust
  <2>2. p \in Entry /\ p.state = "queued" /\ p.tries = row[a[1]].tries
        /\ p.cause = row[a[1]].cause
    BY <1>1 DEF Entry, States
  <2> HIDE DEF p
  <2> QED
    BY <1>2, <1>3, <2>1, <2>2 DEF Ended
<1>4. CASE ~(row[a[1]].tries < MaxTries[a[1][1]])
  <2> DEFINE p == [row[a[1]] EXCEPT !.state = "dead", !.cause = "exhausted"]
  <2>1. row' = [row EXCEPT ![a[1]] = p]
    BY <1>1, <1>4 DEF RetryOrExhaust
  <2>2. p \in Entry /\ p.state = "dead" /\ p.tries = row[a[1]].tries
        /\ p.cause = "exhausted"
    BY <1>1 DEF Entry, States, Causes
  <2> HIDE DEF p
  <2> QED
    BY <1>2, <1>4, <2>1, <2>2 DEF Ended
<1> QED
  BY <1>3, <1>4

LEMMA RetryKeeps ==
  ASSUME SidecarsAssumption, FilesInv, NEW a \in Attempts, Held(a), Retry(a),
         UNCHANGED <<life, current, output, files, late>>
  PROVE  FilesInv'
<1>1. row' = RetryOrExhaust(a[1]) /\ run' = [run EXCEPT ![a] = NoRun]
  BY DEF Retry
<1>2. run'[a] = NoRun
  BY <1>1 DEF FilesInv, SidecarsTyped
<1> QED
  BY <1>1, <1>2, RetryEnds, IdleTyped, IdleHolds, EndKeeps

LEMMA BuryKeeps ==
  ASSUME SidecarsAssumption, FilesInv, NEW a \in Attempts, Held(a),
         NEW cause \in Causes, Bury(a, cause),
         a[1][1] = "ann" => cause \in {"none", "exhausted"},
         a[1][1] = "embedding" => cause \notin {"missing", "integrity"},
         UNCHANGED <<life, current, output, files, late>>
  PROVE  FilesInv'
<1> DEFINE p == [row[a[1]] EXCEPT !.state = "dead", !.cause = cause]
<1>1. a[1] \in FileJobs /\ row \in [FileJobs -> Entry] /\ row[a[1]] \in Entry
  BY AttemptJob DEF FilesInv, SidecarsTyped, Entry
<1>2. row' = [row EXCEPT ![a[1]] = p] /\ run' = [run EXCEPT ![a] = NoRun]
  BY <1>1 DEF Bury
<1>3. p \in Entry /\ p.state = "dead" /\ p.tries = row[a[1]].tries /\ p.cause = cause
  BY <1>1 DEF Entry, States
<1> HIDE DEF p
<1>4. Ended(a)
  BY <1>2, <1>3 DEF Ended
<1>5. run'[a] = NoRun
  BY <1>2 DEF FilesInv, SidecarsTyped
<1> QED
  BY <1>2, <1>4, <1>5, IdleTyped, IdleHolds, EndKeeps

LEMMA EnterHeld ==
  ASSUME NEW a, Held(a), NEW next, Enter(a, next)
  PROVE  run' = [run EXCEPT ![a] = next]
BY DEF Enter

(* What the stage of an attempt says of its role.                          *)
LEMMA RolesOfStages ==
  ASSUME FilesInv, NEW a \in Attempts
  PROVE  /\ run[a].pc \in {"source", "embed"} => a[1][1] = "embedding"
         /\ run[a].pc \in {"fetch", "opened"} => a[1][1] = "ann"
         /\ run[a].pc \in Writing => a[1][1] \in {"embedding", "ann"}
         /\ run[a].pc \in {"resolve", "list", "scan", "sweep", "unlink"} =>
              a[1][1] = "retention"
<1>1. RunInv(a)
  BY DEF FilesInv
<1>2. CASE a[1][1] = "embedding"
  BY <1>1, <1>2 DEF RunInv, EmbeddingInv, Writing
<1>3. CASE a[1][1] = "ann"
  BY <1>1, <1>3 DEF RunInv, AnnInv, Writing
<1>4. CASE a[1][1] = "retention"
  BY <1>1, <1>4 DEF RunInv, RetentionInv, Writing
<1> QED
  BY <1>2, <1>3, <1>4, AttemptCases

LEMMA Standing ==
  ASSUME FilesInv, NEW a \in Attempts
  PROVE  /\ run \in [Attempts -> Doing] /\ run[a] \in Doing
         /\ run[a].pc \in Looking => Held(a)
         /\ RunInv(a)
BY DEF FilesInv, SidecarsTyped, Doing, RunInv

(* An attempt of each role moves on to r, whose stage its record bears out. *)
LEMMA EmbeddingMoves ==
  ASSUME SidecarsAssumption, FilesInv, NEW a \in Attempts, NEW e \in Batches,
         a[1] = Embedding(e), Held(a), NEW r \in Doing,
         run' = [run EXCEPT ![a] = r],
         UNCHANGED <<life, current, row, output, files, late>>,
         r.pc \in {"source", "embed", "complete"} \cup Writing,
         r.at \in 1 .. Len(Of[e]),
         r.pc = "embed" => r.at = 1,
         r.pc \in Writing \cup {"complete"} => r.ver \in Versions,
         r.pc \in Writing =>
           \A k \in 1 .. (r.at - 1) : Vector(Of[e][k], e, r.ver) \in files,
         r.pc \in {"held", "verify"} => Vector(Of[e][r.at], e, r.ver) \in files,
         r.pc = "complete" => \A m \in Members(e) : Vector(m, e, r.ver) \in files
  PROVE  FilesInv'
<1>1. run'[a] = r
  BY Standing
<1>2. a[1][1] = "embedding" /\ a[1][2] = e
  BY JobNames
<1>3. Held(a)'
  BY DEF Held
<1>4. Wanted(a)' = Vector(Of[e][r.at], e, r.ver)
  BY <1>1, <1>2 DEF Wanted
<1>5. EmbeddingInv(a, e)'
  BY <1>1, <1>4 DEF EmbeddingInv
<1>6. RunInv(a)'
  BY <1>2, <1>3, <1>5 DEF RunInv
<1> QED
  BY <1>6, MoveKeeps

LEMMA AnnMoves ==
  ASSUME SidecarsAssumption, FilesInv, NEW a \in Attempts, NEW e \in Batches,
         a[1] = Ann(e), Held(a), NEW r \in Doing,
         run' = [run EXCEPT ![a] = r],
         UNCHANGED <<life, current, row, output, files, late>>,
         run[a].pc # "idle", r.ver = run[a].ver,
         r.pc \in {"fetch", "opened", "complete"} \cup Writing,
         r.at \in 1 .. Len(Of[e]),
         r.pc \in {"held", "verify", "complete"} => Segment(e, r.ver) \in files
  PROVE  FilesInv'
<1>1. run'[a] = r
  BY Standing
<1>2. a[1][1] = "ann" /\ a[1][2] = e
  BY JobNames
<1>3. Held(a)'
  BY DEF Held
<1>4. AnnInv(a, e)
  BY <1>2, Standing DEF RunInv
<1>5. AnnInv(a, e)'
  BY <1>1, <1>4 DEF AnnInv
<1>6. RunInv(a)'
  BY <1>2, <1>3, <1>5 DEF RunInv
<1> QED
  BY <1>6, MoveKeeps

LEMMA RetentionMoves ==
  ASSUME SidecarsAssumption, FilesInv, NEW a \in Attempts, NEW m \in Memories,
         a[1] = Retention(m), Held(a), NEW r \in Doing,
         run' = [run EXCEPT ![a] = r],
         UNCHANGED <<life, current, row, output, files, late>>,
         r.pc \in {"list", "scan", "sweep", "unlink", "complete"},
         Closed(m),
         \A f \in r.doomed : m \in f.of,
         r.pc = "unlink" => {f \in r.doomed : f.store = r.store} # {},
         r.pc = "scan" =>
           \A f \in Kept(m) : f.store = r.store => f \in r.list \cup r.doomed,
         r.pc \in {"list", "scan"} /\ r.store = "vector" =>
           \A f \in Kept(m) : f.store = "segment" => f \in r.doomed,
         r.pc \in {"sweep", "unlink"} =>
           /\ Kept(m) \subseteq r.doomed
           /\ r.store = "vector" => \A f \in Kept(m) : f.store # "segment",
         r.pc = "complete" => Kept(m) = {}
  PROVE  FilesInv'
<1>1. run'[a] = r
  BY Standing
<1>2. a[1][1] = "retention" /\ a[1][2] = m
  BY JobNames
<1>3. Held(a)'
  BY DEF Held
<1>4. Closed(m)' = Closed(m) /\ Kept(m)' = Kept(m)
  BY DEF Closed, Kept, Pending, Unfinished
<1>5. Left(a)' = {f \in r.doomed : f.store = r.store}
  BY <1>1 DEF Left
<1>6. RetentionInv(a, m)'
  BY <1>1, <1>4, <1>5 DEF RetentionInv
<1>7. RunInv(a)'
  BY <1>2, <1>3, <1>6 DEF RunInv
<1> QED
  BY <1>7, MoveKeeps

LEMMA AtNextMoves ==
  ASSUME NEW a \in Attempts, run[a] \in Doing, Held(a),
         NEW pc \in Looking, NEW next \in Looking, AtNext(a, pc, next)
  PROVE  \E r \in Doing :
           /\ run' = [run EXCEPT ![a] = r]
           /\ r.ver = run[a].ver
           /\ IF run[a].at = Len(Of[a[1][2]]) THEN r.pc = next /\ r.at = 1
                                              ELSE r.pc = pc /\ r.at = run[a].at + 1
<1>1. CASE run[a].at = Len(Of[a[1][2]])
  <2> DEFINE r == [run[a] EXCEPT !.pc = next, !.at = 1]
  <2>1. run' = [run EXCEPT ![a] = r]
    BY <1>1, EnterHeld DEF AtNext
  <2>2. r \in Doing /\ r.ver = run[a].ver /\ r.pc = next /\ r.at = 1
    BY DEF Doing
  <2> HIDE DEF r
  <2> QED
    BY <1>1, <2>1, <2>2
<1>2. CASE run[a].at # Len(Of[a[1][2]])
  <2> DEFINE r == [run[a] EXCEPT !.pc = pc, !.at = @ + 1]
  <2>1. run' = [run EXCEPT ![a] = r]
    BY <1>2, EnterHeld DEF AtNext
  <2>2. run[a].at + 1 \in Nat
    BY DEF Doing
  <2>3. r \in Doing /\ r.ver = run[a].ver /\ r.pc = pc /\ r.at = run[a].at + 1
    BY <2>2 DEF Doing
  <2> HIDE DEF r
  <2> QED
    BY <1>2, <2>1, <2>3
<1> QED
  BY <1>1, <1>2

LEMMA GotoMoves ==
  ASSUME NEW a \in Attempts, run[a] \in Doing, Held(a),
         NEW pc \in Looking \cup Touching, Goto(a, pc)
  PROVE  LET r == [run[a] EXCEPT !.pc = pc]
         IN  /\ r \in Doing /\ run' = [run EXCEPT ![a] = r]
             /\ r.pc = pc /\ r.at = run[a].at /\ r.ver = run[a].ver
             /\ r.store = run[a].store /\ r.list = run[a].list
             /\ r.doomed = run[a].doomed
BY EnterHeld DEF Goto, Doing

-----------------------------------------------------------------------------
(* The embedding and ann processors.                                       *)

LEMMA ReadSourceKeeps ==
  ASSUME SidecarsAssumption, FilesInv, NEW a \in Attempts, ReadSource(a)
  PROVE  FilesInv'
<1> DEFINE e == a[1][2]
<1>1. /\ a[1] = Embedding(e) /\ e \in Batches /\ a[1][1] = "embedding"
      /\ Held(a) /\ run[a] \in Doing /\ run[a].pc = "source"
      /\ EmbeddingInv(a, e)
  BY RolesOfStages, Standing, AttemptCases DEF ReadSource, Looking, RunInv
<1>2. run[a].at \in 1 .. Len(Of[e]) /\ Len(Of[e]) \in Nat \ {0}
  BY <1>1, Recorded DEF EmbeddingInv
<1>3. CASE AtNext(a, "source", "embed") /\ row' = row
  <2>1. PICK r \in Doing :
          /\ run' = [run EXCEPT ![a] = r]
          /\ IF run[a].at = Len(Of[e]) THEN r.pc = "embed" /\ r.at = 1
                                       ELSE r.pc = "source" /\ r.at = run[a].at + 1
    BY <1>1, <1>3, AtNextMoves DEF Looking
  <2>2. r.at \in 1 .. Len(Of[e])
    BY <1>2, <2>1
  <2> HIDE DEF e
  <2> QED
    BY <1>1, <1>3, <2>1, <2>2, EmbeddingMoves DEF ReadSource, Writing
<1>4. CASE Bury(a, "not serviceable")
  BY <1>1, <1>4, BuryKeeps DEF ReadSource, Causes
<1> QED
  BY <1>3, <1>4 DEF ReadSource

LEMMA EmbedKeeps ==
  ASSUME SidecarsAssumption, FilesInv, NEW a \in Attempts, Embed(a)
  PROVE  FilesInv'
<1> DEFINE e == a[1][2]
<1>1. /\ a[1] = Embedding(e) /\ e \in Batches /\ a[1][1] = "embedding"
      /\ Held(a) /\ run[a] \in Doing /\ run[a].pc = "embed"
      /\ EmbeddingInv(a, e)
  BY RolesOfStages, Standing, AttemptCases DEF Embed, Looking, RunInv
<1>2. ASSUME NEW v \in Versions, row' = row,
             run' = [run EXCEPT ![a].pc = "write", ![a].ver = v]
      PROVE  FilesInv'
  <2> DEFINE r == [run[a] EXCEPT !.pc = "write", !.ver = v]
  <2>1. run' = [run EXCEPT ![a] = r]
    BY <1>2, Standing
  <2>2. /\ r \in Doing /\ r.pc = "write" /\ r.ver = v /\ r.at = run[a].at
    BY <1>1 DEF Doing, Looking
  <2>3. r.at = 1 /\ r.at \in 1 .. Len(Of[e]) /\ ~ (\E k \in 1 .. (r.at - 1) : TRUE)
    BY <1>1, <2>2 DEF EmbeddingInv
  <2> HIDE DEF r, e
  <2> QED
    BY <1>1, <1>2, <2>1, <2>2, <2>3, EmbeddingMoves DEF Embed, Writing
<1> QED
  BY <1>1, <1>2, RetryKeeps, BuryKeeps DEF Embed, Causes

LEMMA FetchKeeps ==
  ASSUME SidecarsAssumption, FilesInv, NEW a \in Attempts, Fetch(a)
  PROVE  FilesInv'
<1> DEFINE e == a[1][2]
<1>1. /\ a[1] = Ann(e) /\ e \in Batches
      /\ Held(a) /\ run[a] \in Doing /\ run[a].pc = "fetch"
      /\ AnnInv(a, e)
  BY RolesOfStages, Standing, AttemptCases DEF Fetch, Looking, RunInv
<1>2. run[a].at \in 1 .. Len(Of[e]) /\ run[a].ver = output[e]
  BY <1>1 DEF AnnInv
<1>3. Wanted(a) \in files
  <2>1. Of[e][run[a].at] \in Members(e)
    BY <1>1, <1>2, Recorded
  <2>2. ~ Closed(Of[e][run[a].at])
    BY <1>1, <2>1, HeldIsOpen
  <2>3. row[Embedding(e)].state = "succeeded"
    BY <1>1 DEF AnnInv
  <2> QED
    BY <1>1, <1>2, <2>1, <2>2, <2>3 DEF FilesInv, DiskInv, Wanted
<1>4. Goto(a, "opened") /\ row' = row
  BY <1>3 DEF Fetch
<1> DEFINE r == [run[a] EXCEPT !.pc = "opened"]
<1>5. /\ r \in Doing /\ run' = [run EXCEPT ![a] = r]
      /\ r.pc = "opened" /\ r.at = run[a].at /\ r.ver = run[a].ver
  BY <1>1, <1>4, GotoMoves DEF Looking
<1> HIDE DEF r, e
<1> QED
  BY <1>1, <1>2, <1>4, <1>5, AnnMoves DEF Fetch

LEMMA FetchedKeeps ==
  ASSUME SidecarsAssumption, FilesInv, NEW a \in Attempts, Fetched(a)
  PROVE  FilesInv'
<1> DEFINE e == a[1][2]
<1>1. /\ a[1] = Ann(e) /\ e \in Batches
      /\ Held(a) /\ run[a] \in Doing /\ run[a].pc = "opened"
      /\ AnnInv(a, e)
  BY RolesOfStages, Standing, AttemptCases DEF Fetched, Looking, RunInv
<1>2. run[a].at \in 1 .. Len(Of[e]) /\ run[a].ver = output[e] /\ Len(Of[e]) \in Nat \ {0}
  BY <1>1, Recorded DEF AnnInv
<1>3. Wanted(a) \in files
  <2>1. Of[e][run[a].at] \in Members(e)
    BY <1>1, <1>2, Recorded
  <2>2. ~ Closed(Of[e][run[a].at])
    BY <1>1, <2>1, HeldIsOpen
  <2>3. row[Embedding(e)].state = "succeeded"
    BY <1>1 DEF AnnInv
  <2> QED
    BY <1>1, <1>2, <2>1, <2>2, <2>3 DEF FilesInv, DiskInv, Wanted
<1>4. AtNext(a, "fetch", "write") /\ row' = row
  BY <1>3 DEF Fetched
<1>5. PICK r \in Doing :
        /\ run' = [run EXCEPT ![a] = r]
        /\ r.ver = run[a].ver
        /\ IF run[a].at = Len(Of[e]) THEN r.pc = "write" /\ r.at = 1
                                     ELSE r.pc = "fetch" /\ r.at = run[a].at + 1
  BY <1>1, <1>4, AtNextMoves DEF Looking
<1>6. r.at \in 1 .. Len(Of[e])
  BY <1>2, <1>5
<1> HIDE DEF e
<1> QED
  BY <1>1, <1>4, <1>5, <1>6, AnnMoves DEF Fetched, Writing

(* A file that a write has met or made is still there when it is read.     *)
LEMMA WrittenKeeps ==
  ASSUME SidecarsAssumption, FilesInv, NEW a \in Attempts,
         run[a].pc \in {"held", "verify"}, Written(a),
         UNCHANGED <<life, current, row, output, files, late>>
  PROVE  FilesInv'
<1> DEFINE e == a[1][2]
<1>1. Held(a) /\ run[a] \in Doing /\ RunInv(a) /\ e \in Batches
  BY RolesOfStages, Standing, AttemptCases DEF Looking, Writing
<1>2. CASE a[1][1] = "ann"
  <2>1. a[1] = Ann(e) /\ AnnInv(a, e)
    BY <1>1, <1>2, AttemptCases DEF RunInv
  <2> DEFINE r == [run[a] EXCEPT !.pc = "complete"]
  <2>2. /\ r \in Doing /\ run' = [run EXCEPT ![a] = r]
        /\ r.pc = "complete" /\ r.at = run[a].at /\ r.ver = run[a].ver
    BY <1>1, <1>2, GotoMoves DEF Written, Looking
  <2> HIDE DEF r, e
  <2>3. r.at \in 1 .. Len(Of[e]) /\ Segment(e, r.ver) \in files
    BY <2>1, <2>2 DEF AnnInv
  <2> QED
    BY <1>1, <2>1, <2>2, <2>3, AnnMoves
<1>3. CASE a[1][1] # "ann"
  <2>1. a[1] = Embedding(e) /\ EmbeddingInv(a, e)
    BY <1>1, <1>3, RolesOfStages, AttemptCases DEF RunInv, Writing
  <2>2. /\ run[a].at \in 1 .. Len(Of[e]) /\ Len(Of[e]) \in Nat \ {0}
        /\ run[a].ver \in Versions
    BY <1>1, <2>1, Recorded DEF EmbeddingInv, Writing
  <2>3. \A k \in 1 .. run[a].at : Vector(Of[e][k], e, run[a].ver) \in files
    <3> TAKE k \in 1 .. run[a].at
    <3>1. CASE k = run[a].at
      BY <2>1, <3>1 DEF EmbeddingInv, Wanted
    <3>2. CASE k # run[a].at
      <4>1. k \in 1 .. (run[a].at - 1)
        BY <2>2, <3>2
      <4> QED
        BY <1>1, <2>1, <4>1 DEF EmbeddingInv, Writing
    <3> QED
      BY <3>1, <3>2
  <2>4. PICK r \in Doing :
          /\ run' = [run EXCEPT ![a] = r]
          /\ r.ver = run[a].ver
          /\ IF run[a].at = Len(Of[e]) THEN r.pc = "complete" /\ r.at = 1
                                       ELSE r.pc = "write" /\ r.at = run[a].at + 1
    BY <1>1, <1>3, AtNextMoves DEF Written, Looking
  <2> HIDE DEF e
  <2>5. r.at \in 1 .. Len(Of[e])
    BY <2>2, <2>4
  <2>6. r.pc = "complete" => \A m \in Members(e) : Vector(m, e, r.ver) \in files
    BY <1>1, <2>3, <2>4, Recorded
  <2>7. r.pc = "write" => \A k \in 1 .. (r.at - 1) : Vector(Of[e][k], e, r.ver) \in files
    <3> SUFFICES ASSUME r.pc = "write", NEW k \in 1 .. (r.at - 1)
                 PROVE  Vector(Of[e][k], e, r.ver) \in files
      OBVIOUS
    <3>1. k \in 1 .. run[a].at
      BY <2>2, <2>4
    <3> QED
      BY <2>3, <2>4, <3>1
  <2>8. r.pc \in {"write", "complete"}
    BY <2>4
  <2> QED
    BY <1>1, <2>1, <2>2, <2>4, <2>5, <2>6, <2>7, <2>8, EmbeddingMoves DEF Writing
<1> QED
  BY <1>2, <1>3

LEMMA TargetThere ==
  ASSUME FilesInv, NEW a \in Attempts, run[a].pc \in {"held", "verify"}
  PROVE  Target(a) \in files
<1>1. RunInv(a) /\ a[1][1] \in {"embedding", "ann"}
  BY RolesOfStages, Standing DEF Writing
<1>2. CASE a[1][1] = "ann"
  BY <1>1, <1>2 DEF RunInv, AnnInv, Target
<1>3. CASE a[1][1] = "embedding"
  BY <1>1, <1>3 DEF RunInv, EmbeddingInv, Target
<1> QED
  BY <1>1, <1>2, <1>3

LEMMA ReadHeldKeeps ==
  ASSUME SidecarsAssumption, FilesInv, NEW a \in Attempts, ReadHeld(a)
  PROVE  FilesInv'
BY TargetThere, WrittenKeeps DEF ReadHeld

LEMMA VerifyKeeps ==
  ASSUME SidecarsAssumption, FilesInv, NEW a \in Attempts, Verify(a)
  PROVE  FilesInv'
BY TargetThere, WrittenKeeps DEF Verify

LEMMA WriteKeeps ==
  ASSUME SidecarsAssumption, FilesInv, NEW a \in Attempts, Write(a)
  PROVE  FilesInv'
<1> DEFINE e == a[1][2]
           pc == IF Target(a) \in files THEN "held" ELSE "publish"
           r == [run[a] EXCEPT !.pc = pc]
<1>1. Held(a) /\ run[a] \in Doing /\ RunInv(a) /\ run[a].pc = "write"
  BY Standing DEF Looking, Write
<1>2. /\ r \in Doing /\ run' = [run EXCEPT ![a] = r]
      /\ r.pc = pc /\ r.at = run[a].at /\ r.ver = run[a].ver
  <2>1. pc \in Looking \cup Touching /\ Goto(a, pc)
    BY DEF Looking, Touching, Write
  <2> QED
    BY <1>1, <2>1, GotoMoves
<1> HIDE DEF r
<1>3. r.pc \in {"held", "publish"} /\ (r.pc = "held" => Target(a) \in files)
  BY <1>2
<1>4. CASE a[1][1] = "ann"
  <2>1. a[1] = Ann(e) /\ e \in Batches /\ AnnInv(a, e)
    BY <1>1, <1>4, AttemptCases DEF RunInv
  <2>2. Target(a) = Segment(e, r.ver)
    BY <1>2, <1>4 DEF Target
  <2> HIDE DEF e, pc
  <2>3. r.at \in 1 .. Len(Of[e])
    BY <1>1, <1>2, <2>1 DEF AnnInv
  <2> QED
    BY <1>1, <1>2, <1>3, <2>1, <2>2, <2>3, AnnMoves DEF Write, Writing
<1>5. CASE a[1][1] # "ann"
  <2>1. a[1] = Embedding(e) /\ e \in Batches /\ EmbeddingInv(a, e)
    BY <1>1, <1>5, RolesOfStages, AttemptCases DEF RunInv, Writing
  <2>2. Target(a) = Vector(Of[e][r.at], e, r.ver)
    BY <1>2, <1>5 DEF Target, Wanted
  <2> HIDE DEF e, pc
  <2>3. /\ r.at \in 1 .. Len(Of[e]) /\ r.ver \in Versions
        /\ \A k \in 1 .. (r.at - 1) : Vector(Of[e][k], e, r.ver) \in files
    BY <1>1, <1>2, <2>1 DEF EmbeddingInv, Writing
  <2> QED
    BY <1>1, <1>2, <1>3, <2>1, <2>2, <2>3, EmbeddingMoves DEF Write, Writing
<1> QED
  BY <1>4, <1>5

-----------------------------------------------------------------------------
(* The retention processor.                                                *)

LEMMA FileStores == \A f \in AllFiles : f.store \in {"segment", "vector"}
BY DEF AllFiles, Vector, Segment

LEMMA RetentionStands ==
  ASSUME FilesInv, NEW a \in Attempts,
         run[a].pc \in {"resolve", "list", "scan", "sweep", "unlink"}
  PROVE  /\ a[1] = Retention(a[1][2]) /\ a[1][2] \in Memories /\ a[1][1] = "retention"
         /\ run[a] \in Doing /\ RetentionInv(a, a[1][2])
         /\ run[a].pc # "unlink" => Held(a)
BY RolesOfStages, Standing, AttemptCases DEF RunInv, Looking

LEMMA ResolveKeeps ==
  ASSUME SidecarsAssumption, FilesInv, NEW a \in Attempts, Resolve(a)
  PROVE  FilesInv'
<1> DEFINE m == a[1][2]
<1>1. /\ a[1] = Retention(m) /\ m \in Memories /\ run[a] \in Doing
      /\ RetentionInv(a, m) /\ Held(a) /\ run[a].pc = "resolve"
  BY RetentionStands DEF Resolve
<1>2. CASE Pending(m)
  BY <1>1, <1>2, RetryKeeps DEF Resolve
<1>3. CASE ~ Pending(m)
  <2> DEFINE r == [run[a] EXCEPT !.pc = "list", !.doomed = Plan(m)]
  <2>1. run' = [run EXCEPT ![a] = r] /\ UNCHANGED <<life, current, row, output, files, late>>
    BY <1>3, Standing DEF Resolve
  <2>2. \A f \in Plan(m) : f \in AllFiles /\ m \in f.of
    <3>1. ASSUME NEW e \in Batches, output[e] # 0
          PROVE  Vector(m, e, output[e]) \in AllFiles
      <4>1. output[e] \in Versions
        BY <3>1 DEF FilesInv, SidecarsTyped
      <4> QED
        BY <1>1, <4>1 DEF AllFiles
    <3>2. ASSUME NEW e \in Batches, row[Ann(e)].state = "succeeded"
          PROVE  Segment(e, output[e]) \in AllFiles
      <4>1. output[e] \in Versions
        BY <3>2 DEF FilesInv, JobInv, DiskInv
      <4> QED
        BY <4>1 DEF AllFiles
    <3> HIDE DEF m
    <3> QED
      BY <3>1, <3>2, FileFields DEF Plan
  <2>3. r \in Doing /\ r.pc = "list" /\ r.store = "segment" /\ r.doomed = Plan(m)
    BY <1>1, <2>2 DEF Doing, Looking, RetentionInv
  <2>4. Closed(m)
    BY <1>1, <1>3 DEF FilesInv, JobInv, Held, Closed
  <2> HIDE DEF r, m
  <2> QED
    BY <1>1, <2>1, <2>2, <2>3, <2>4, RetentionMoves
<1> QED
  BY <1>2, <1>3

LEMMA ListKeeps ==
  ASSUME SidecarsAssumption, FilesInv, NEW a \in Attempts, List(a)
  PROVE  FilesInv'
<1> DEFINE m == a[1][2]
           r == [run[a] EXCEPT !.pc = "scan", !.list = InStore(run[a].store)]
<1>1. /\ a[1] = Retention(m) /\ m \in Memories /\ run[a] \in Doing
      /\ RetentionInv(a, m) /\ Held(a) /\ run[a].pc = "list"
  BY RetentionStands DEF List
<1>2. run' = [run EXCEPT ![a] = r] /\ UNCHANGED <<life, current, row, output, files, late>>
  BY Standing DEF List
<1>3. InStore(run[a].store) \subseteq AllFiles
  BY DEF FilesInv, SidecarsTyped, InStore
<1>4. /\ r \in Doing /\ r.pc = "scan" /\ r.store = run[a].store
      /\ r.doomed = run[a].doomed /\ r.list = InStore(r.store)
  BY <1>1, <1>3 DEF Doing, Looking
<1> HIDE DEF r, m
<1>5. \A f \in Kept(m) : f.store = r.store => f \in r.list
  BY <1>4 DEF Kept, InStore
<1> QED
  BY <1>1, <1>2, <1>4, <1>5, RetentionMoves DEF RetentionInv

LEMMA ScanKeeps ==
  ASSUME SidecarsAssumption, FilesInv, NEW a \in Attempts, Scan(a)
  PROVE  FilesInv'
<1> DEFINE m == a[1][2]
           f == First(run[a].list)
<1>1. /\ a[1] = Retention(m) /\ m \in Memories /\ run[a] \in Doing
      /\ RetentionInv(a, m) /\ Held(a) /\ run[a].pc = "scan" /\ a[1][1] = "retention"
  BY RetentionStands DEF Scan
<1>2. CASE f \in files
  <2> DEFINE d == IF m \in f.of THEN run[a].doomed \cup {f} ELSE run[a].doomed
             r == [run[a] EXCEPT !.list = @ \ {f}, !.doomed = d]
  <2>1. run' = [run EXCEPT ![a] = r] /\ UNCHANGED <<life, current, row, output, files, late>>
    BY <1>2, Standing DEF Scan
  <2>2. f \in AllFiles
    BY <1>2 DEF FilesInv, SidecarsTyped
  <2>3. /\ r \in Doing /\ r.pc = "scan" /\ r.store = run[a].store
        /\ r.doomed = d /\ r.list = run[a].list \ {f}
    BY <1>1, <2>2 DEF Doing
  <2>4. /\ \A g \in d : m \in g.of
        /\ run[a].doomed \subseteq d
        /\ m \in f.of => f \in d
    BY <1>1 DEF RetentionInv
  <2> HIDE DEF r, m, f, d
  <2>5. \A g \in Kept(m) : g.store = r.store => g \in r.list \cup r.doomed
    BY <1>1, <2>3, <2>4 DEF RetentionInv, Kept
  <2>6. r.store = "vector" => \A g \in Kept(m) : g.store = "segment" => g \in r.doomed
    BY <1>1, <2>3, <2>4 DEF RetentionInv
  <2> QED
    BY <1>1, <2>1, <2>3, <2>4, <2>5, <2>6, RetentionMoves DEF RetentionInv
<1>3. CASE f \notin files
  BY <1>1, <1>3, RetryKeeps, BuryKeeps DEF Scan, TornRead, Causes
<1> QED
  BY <1>2, <1>3

LEMMA ScannedKeeps ==
  ASSUME SidecarsAssumption, FilesInv, NEW a \in Attempts, Scanned(a)
  PROVE  FilesInv'
<1> DEFINE m == a[1][2]
<1>1. /\ a[1] = Retention(m) /\ m \in Memories /\ run[a] \in Doing
      /\ RetentionInv(a, m) /\ Held(a) /\ run[a].pc = "scan" /\ run[a].list = {}
  BY RetentionStands DEF Scanned
<1>2. \A f \in Kept(m) : f.store = run[a].store => f \in run[a].doomed
  BY <1>1 DEF RetentionInv
<1>3. CASE run[a].store = "segment"
  <2> DEFINE r == [run[a] EXCEPT !.pc = "list", !.store = "vector"]
  <2>1. run' = [run EXCEPT ![a] = r]
    BY <1>1, <1>3, EnterHeld DEF Scanned
  <2>2. r \in Doing /\ r.pc = "list" /\ r.doomed = run[a].doomed
    BY <1>1 DEF Doing, Looking
  <2> HIDE DEF r, m
  <2> QED
    BY <1>1, <1>2, <1>3, <2>1, <2>2, RetentionMoves DEF Scanned, RetentionInv
<1>4. CASE run[a].store # "segment"
  <2> DEFINE r == [run[a] EXCEPT !.pc = "sweep", !.store = "segment"]
  <2>1. run' = [run EXCEPT ![a] = r]
    BY <1>1, <1>4, EnterHeld DEF Scanned
  <2>2. /\ r \in Doing /\ r.pc = "sweep" /\ r.doomed = run[a].doomed
        /\ r.store = "segment"
    BY <1>1 DEF Doing, Looking
  <2> HIDE DEF r, m
  <2>3. Kept(m) \subseteq run[a].doomed
    <3>1. run[a].store = "vector"
      BY <1>1, <1>4 DEF Doing
    <3>2. \A f \in Kept(m) : f.store \in {"segment", "vector"}
      BY FileStores DEF FilesInv, SidecarsTyped, Kept
    <3> QED
      BY <1>1, <1>2, <3>1, <3>2 DEF RetentionInv
  <2> QED
    BY <1>1, <2>1, <2>2, <2>3, RetentionMoves DEF Scanned, RetentionInv
<1> QED
  BY <1>3, <1>4

LEMMA LeftFirst ==
  ASSUME NEW a, Left(a) # {}
  PROVE  /\ First(Left(a)) \in run[a].doomed
         /\ First(Left(a)).store = run[a].store
BY DEF First, Left

LEMMA SweepKeeps ==
  ASSUME SidecarsAssumption, FilesInv, NEW a \in Attempts, Sweep(a)
  PROVE  FilesInv'
<1> DEFINE m == a[1][2]
           f == First(Left(a))
<1>1. /\ a[1] = Retention(m) /\ m \in Memories /\ run[a] \in Doing
      /\ RetentionInv(a, m) /\ Held(a) /\ run[a].pc = "sweep" /\ Left(a) # {}
  BY RetentionStands DEF Sweep
<1>2. CASE f \in files
  <2> DEFINE r == [run[a] EXCEPT !.pc = "unlink"]
  <2>1. /\ r \in Doing /\ run' = [run EXCEPT ![a] = r] /\ r.pc = "unlink"
        /\ r.store = run[a].store /\ r.doomed = run[a].doomed
    BY <1>1, <1>2, GotoMoves DEF Sweep, Touching
  <2> HIDE DEF r, m
  <2>2. {g \in r.doomed : g.store = r.store} # {}
    BY <1>1, <2>1 DEF Left
  <2> QED
    BY <1>1, <2>1, <2>2, RetentionMoves DEF Sweep, RetentionInv
<1>3. CASE f \notin files
  <2> DEFINE r == [run[a] EXCEPT !.pc = "sweep", !.doomed = @ \ {f}]
  <2>1. run' = [run EXCEPT ![a] = r]
    BY <1>1, <1>3, EnterHeld DEF Sweep, Struck
  <2>2. /\ r \in Doing /\ r.pc = "sweep" /\ r.doomed = run[a].doomed \ {f}
        /\ r.store = run[a].store
    BY <1>1 DEF Doing, Looking
  <2>3. f \notin Kept(m)
    BY <1>3 DEF Kept
  <2> HIDE DEF r, m, f
  <2> QED
    BY <1>1, <2>1, <2>2, <2>3, RetentionMoves DEF Sweep, RetentionInv
<1> QED
  BY <1>2, <1>3

LEMMA SweptKeeps ==
  ASSUME SidecarsAssumption, FilesInv, NEW a \in Attempts, Swept(a)
  PROVE  FilesInv'
<1> DEFINE m == a[1][2]
<1>1. /\ a[1] = Retention(m) /\ m \in Memories /\ run[a] \in Doing
      /\ RetentionInv(a, m) /\ Held(a) /\ run[a].pc = "sweep" /\ Left(a) = {}
  BY RetentionStands DEF Swept
<1>2. Kept(m) \subseteq run[a].doomed /\ \A f \in Kept(m) : f.store # run[a].store
  BY <1>1 DEF RetentionInv, Left
<1>5. /\ UNCHANGED <<life, current, row, output, files, late>>
      /\ Closed(m) /\ \A f \in run[a].doomed : m \in f.of
  BY <1>1 DEF RetentionInv, Swept
<1>3. CASE run[a].store = "segment"
  <2> DEFINE r == [run[a] EXCEPT !.store = "vector"]
  <2>1. run' = [run EXCEPT ![a] = r]
    BY <1>3, Standing DEF Swept
  <2>2. /\ r \in Doing /\ r.pc = "sweep" /\ r.doomed = run[a].doomed
        /\ r.store = "vector"
    BY <1>1 DEF Doing
  <2> HIDE DEF r, m
  <2> QED
    BY <1>1, <1>2, <1>3, <1>5, <2>1, <2>2, RetentionMoves
<1>4. CASE run[a].store # "segment"
  <2> DEFINE r == [run[a] EXCEPT !.pc = "complete"]
  <2>1. run' = [run EXCEPT ![a] = r]
    BY <1>4, Standing DEF Swept
  <2>2. /\ r \in Doing /\ r.pc = "complete" /\ r.doomed = run[a].doomed
    BY <1>1 DEF Doing, Looking
  <2> HIDE DEF r, m
  <2>3. Kept(m) = {}
    <3>1. run[a].store = "vector"
      BY <1>1, <1>4 DEF Doing
    <3>2. \A f \in Kept(m) : f.store \in {"segment", "vector"}
      BY FileStores DEF FilesInv, SidecarsTyped, Kept
    <3> QED
      BY <1>1, <1>2, <3>1, <3>2 DEF RetentionInv
  <2> QED
    BY <1>1, <2>1, <2>2, <2>3, RetentionMoves DEF Swept, RetentionInv
<1> QED
  BY <1>3, <1>4

-----------------------------------------------------------------------------
(* The two steps that touch a file, by attempts that may be late.          *)

LEMMA PublishKeeps ==
  ASSUME SidecarsAssumption, FilesInv, NEW a \in Attempts, Publish(a)
  PROVE  FilesInv'
<1> DEFINE e == a[1][2]
           f == Target(a)
           r == [run[a] EXCEPT !.pc = "verify"]
<1>1. /\ e \in Batches /\ run[a] \in Doing /\ run[a].pc = "publish" /\ RunInv(a)
      /\ a[1] = Embedding(e) \/ a[1] = Ann(e)
      /\ a[1][1] \in {"embedding", "ann"}
      /\ a[1][1] = "ann" => a[1] = Ann(e)
  BY RolesOfStages, Standing, AttemptCases DEF Publish, Writing
<1>2. /\ files' = files \cup {f}
      /\ late' = IF f \in files THEN late
                 ELSE IF Held(a) THEN late \ {f} ELSE late \cup {f}
      /\ UNCHANGED <<life, current, row, output>>
  BY DEF Publish
<1>3. /\ f \in AllFiles /\ f.of \subseteq Members(e)
      /\ a[1][1] = "embedding" => f = Vector(Of[e][run[a].at], e, run[a].ver)
      /\ a[1][1] = "ann" => f = Segment(e, run[a].ver)
  <2>1. CASE a[1][1] = "ann"
    <3>1. run[a].ver = output[e] /\ row[Embedding(e)].state = "succeeded"
      BY <1>1, <2>1 DEF RunInv, AnnInv
    <3>2. run[a].ver \in Versions
      BY <1>1, <3>1 DEF FilesInv, DiskInv
    <3>3. f = Segment(e, run[a].ver)
      BY <2>1 DEF Target
    <3> QED
      BY <1>1, <2>1, <3>2, <3>3, FileFields DEF AllFiles
  <2>2. CASE a[1][1] = "embedding"
    <3>1. run[a].at \in 1 .. Len(Of[e]) /\ run[a].ver \in Versions
      BY <1>1, <2>2 DEF RunInv, EmbeddingInv, Writing
    <3>2. f = Vector(Of[e][run[a].at], e, run[a].ver)
      BY <2>2 DEF Target, Wanted
    <3>3. Of[e][run[a].at] \in Members(e) /\ Members(e) \subseteq Memories
      BY <1>1, <3>1, Recorded
    <3> HIDE DEF f, e
    <3> QED
      BY <1>1, <2>2, <3>1, <3>2, <3>3, FileFields DEF AllFiles
  <2> QED
    BY <1>1, <2>1, <2>2
<1>4. Steady
  <2>1. \A m : Closed(m)' = Closed(m)
    BY <1>2 DEF Closed, Pending, Unfinished
  <2>2. ASSUME NEW m \in Memories, Closed(m)
        PROVE  Kept(m)' \subseteq Kept(m)
    <3>1. Held(a) => m \notin f.of
      BY <1>1, <1>3, <2>2, HeldIsOpen
    <3> HIDE DEF f
    <3> QED
      BY <1>2, <3>1 DEF Kept
  <2> HIDE DEF f
  <2> QED
    BY <1>2, <2>1, <2>2 DEF Steady
<1>5. files' \subseteq AllFiles /\ late' \subseteq AllFiles
  BY <1>2, <1>3 DEF FilesInv, SidecarsTyped
<1>6. CASE Held(a)
  <2>1. run' = [run EXCEPT ![a] = r] /\ run'[a] = r
    BY <1>6, EnterHeld, Standing DEF Publish, Goto
  <2>2. r \in Doing /\ r.pc = "verify" /\ r.at = run[a].at /\ r.ver = run[a].ver
    BY <1>1 DEF Doing, Looking
  <2>3. Held(a)'
    BY <1>2, <1>6 DEF Held
  <2> HIDE DEF r
  <2>4. CASE a[1][1] = "ann"
    <3>1. AnnInv(a, e)
      BY <1>1, <2>4 DEF RunInv
    <3>2. Segment(e, r.ver) \in files'
      BY <1>2, <1>3, <2>2, <2>4
    <3>3. AnnInv(a, e)'
      BY <1>1, <1>2, <2>1, <2>2, <3>1, <3>2 DEF AnnInv, Writing
    <3>4. RunInv(a)'
      BY <2>3, <2>4, <3>3 DEF RunInv
    <3> QED
      BY <1>2, <1>4, <1>5, <2>1, <2>2, <3>4, TouchKeeps
  <2>5. CASE a[1][1] = "embedding"
    <3>1. EmbeddingInv(a, e)
      BY <1>1, <2>5 DEF RunInv
    <3>2. Vector(Of[e][r.at], e, r.ver) \in files'
      BY <1>2, <1>3, <2>2, <2>5
    <3>3. /\ r.at \in 1 .. Len(Of[e]) /\ r.ver \in Versions
          /\ \A k \in 1 .. (r.at - 1) : Vector(Of[e][k], e, r.ver) \in files'
      BY <1>1, <1>2, <1>6, <2>2, <3>1 DEF EmbeddingInv, Writing
    <3>4. Wanted(a)' = Vector(Of[e][r.at], e, r.ver)
      BY <2>1 DEF Wanted
    <3>5. EmbeddingInv(a, e)'
      BY <2>1, <2>2, <3>2, <3>3, <3>4 DEF EmbeddingInv, Writing
    <3>6. RunInv(a)'
      BY <2>3, <2>5, <3>5 DEF RunInv
    <3> QED
      BY <1>2, <1>4, <1>5, <2>1, <2>2, <3>6, TouchKeeps
  <2> QED
    BY <1>1, <2>4, <2>5
<1>7. CASE ~ Held(a)
  <2>1. run' = [run EXCEPT ![a] = NoRun] /\ run'[a] = NoRun
    <3>1. r.pc \in Looking
      BY <1>1 DEF Doing, Looking
    <3> QED
      BY <1>7, <3>1, Standing DEF Publish, Goto, Enter
  <2> QED
    BY <1>2, <1>4, <1>5, <2>1, IdleTyped, IdleHolds, TouchKeeps
<1> QED
  BY <1>6, <1>7

LEMMA UnlinkKeeps ==
  ASSUME SidecarsAssumption, FilesInv, NEW a \in Attempts, Unlink(a)
  PROVE  FilesInv'
<1> DEFINE m == a[1][2]
           f == First(Left(a))
           r == [run[a] EXCEPT !.pc = "sweep", !.doomed = @ \ {f}]
<1>1. /\ a[1] = Retention(m) /\ m \in Memories /\ a[1][1] = "retention"
      /\ run[a] \in Doing /\ RetentionInv(a, m) /\ run[a].pc = "unlink"
  BY RetentionStands DEF Unlink
<1>2. /\ files' = files \ {f}
      /\ UNCHANGED <<life, current, output, late>>
  BY DEF Unlink
<1>3. m \in f.of /\ Closed(m)
  BY <1>1, LeftFirst DEF RetentionInv
<1>4. files' \subseteq AllFiles /\ late' \subseteq AllFiles
  BY <1>2 DEF FilesInv, SidecarsTyped
<1>5. ASSUME f \notin files, TornRead(a)
      PROVE  FilesInv'
  <2>1. files' = files
    BY <1>2, <1>5
  <2>2. CASE Held(a)
    BY <1>1, <1>2, <1>5, <2>1, <2>2, RetryKeeps, BuryKeeps DEF TornRead, Causes
  <2>3. CASE ~ Held(a)
    <3>1. row' = row /\ run' = [run EXCEPT ![a] = NoRun]
      BY <1>5, <2>3 DEF TornRead, Retry, Bury
    <3>2. run'[a] = NoRun
      BY <3>1, Standing
    <3> QED
      BY <1>2, <2>1, <3>1, <3>2, IdleTyped, IdleHolds, MoveKeeps
  <2> QED
    BY <2>2, <2>3
<1>6. ASSUME Struck(a), row' = row
      PROVE  FilesInv'
  <2>1. \A x : Closed(x)' = Closed(x)
    BY <1>2, <1>6 DEF Closed, Pending, Unfinished
  <2>2. \A x : Kept(x)' = Kept(x) \ {f}
    BY <1>2 DEF Kept
  <2>3. Steady
    BY <1>1, <1>2, <1>3, <1>6, <2>1, <2>2 DEF Steady
  <2>4. /\ r \in Doing /\ r.pc = "sweep" /\ r.doomed = run[a].doomed \ {f}
        /\ r.store = run[a].store
    BY <1>1 DEF Doing, Looking
  <2>5. CASE Held(a)
    <3>1. run' = [run EXCEPT ![a] = r] /\ run'[a] = r
      BY <1>6, <2>5, EnterHeld, Standing DEF Struck
    <3>2. Held(a)'
      BY <1>6, <2>5 DEF Held
    <3> HIDE DEF r, m, f
    <3>3. RetentionInv(a, m)'
      BY <1>1, <1>3, <2>1, <2>2, <2>4, <3>1 DEF RetentionInv
    <3>4. RunInv(a)'
      BY <1>1, <3>2, <3>3 DEF RunInv, m
    <3> QED
      BY <1>2, <1>4, <1>6, <2>3, <2>4, <3>1, <3>4, TouchKeeps
  <2>6. CASE ~ Held(a)
    <3>1. run' = [run EXCEPT ![a] = NoRun] /\ run'[a] = NoRun
      <4>1. r.pc \in Looking
        BY <2>4 DEF Looking
      <4> QED
        BY <1>6, <2>6, <4>1, Standing DEF Struck, Enter
    <3> QED
      BY <1>2, <1>4, <1>6, <2>3, <3>1, IdleTyped, IdleHolds, TouchKeeps
  <2> QED
    BY <2>5, <2>6
<1> QED
  BY <1>5, <1>6 DEF Unlink

-----------------------------------------------------------------------------
(* Transactions: a completion, a recording, a decision, a lease, its end.  *)

(* A step in which the other attempts stand by and what is finished stays. *)
LEMMA StepKeeps ==
  ASSUME SidecarsAssumption, FilesInv, Steady, SidecarsTyped', JobInv', DiskInv',
         \A b \in Attempts :
           \/ RunInv(b)'
           \/ /\ run'[b] = run[b]
              /\ Held(b)' => Held(b)
              /\ Held(b) => Held(b)'
  PROVE  FilesInv'
<1>1. ASSUME NEW b \in Attempts
      PROVE  RunInv(b)'
  BY BystanderKeeps, Standing
<1> QED
  BY <1>1 DEF FilesInv

LEMMA FreshEntry ==
  /\ Queued \in Entry /\ Queued.state = "queued" /\ Queued.tries = 0
  /\ Queued.cause = "none"
BY DEF Queued, Entry, States, Causes

LEMMA TriesAllowed ==
  ASSUME SidecarsAssumption, NEW j \in FileJobs
  PROVE  MaxTries[j[1]] \in Nat \ {0}
<1>1. j[1] \in Roles
  BY JobCases, JobNames DEF Roles
<1> QED
  BY <1>1 DEF SidecarsAssumption

LEMMA RecordKeeps ==
  ASSUME SidecarsAssumption, FilesInv, NEW e \in Batches, Record(e)
  PROVE  FilesInv'
<1>1. /\ SidecarsTyped /\ JobInv /\ DiskInv
      /\ row[Embedding(e)].state = "absent"
      /\ \A m \in Members(e) : life[m] \in {"absent", "active"}
      /\ life' = [m \in Memories |-> IF m \in Members(e) THEN "active" ELSE life[m]]
      /\ current' = [m \in Memories |-> IF m \in Members(e) THEN {e} ELSE current[m]]
      /\ row' = [row EXCEPT ![Embedding(e)] = Queued]
      /\ UNCHANGED <<output, files, late, run>>
  BY DEF Record, FilesInv
<1>2. \A j \in FileJobs : row'[j] = IF j = Embedding(e) THEN Queued ELSE row[j]
  BY <1>1 DEF SidecarsTyped
<1>3. Steady
  <2>1. ASSUME NEW m \in Memories, Closed(m)
        PROVE  Closed(m)' /\ Kept(m)' = Kept(m)
    <3>1. m \notin Members(e) /\ life'[m] = "archived"
      BY <1>1, <2>1 DEF Closed
    <3>2. ASSUME NEW b \in Batches, m \in Members(b)
          PROVE  row'[Embedding(b)] = row[Embedding(b)] /\ row'[Ann(b)] = row[Ann(b)]
      <4>1. Embedding(b) # Embedding(e) /\ Ann(b) # Embedding(e)
        BY <3>1, <3>2, JobNames
      <4> QED
        BY <1>2, <4>1, JobNames
    <3>3. ~ Pending(m)'
      BY <2>1, <3>2 DEF Closed, Pending, Unfinished
    <3> QED
      BY <1>1, <3>1, <3>3 DEF Closed, Kept
  <2>2. \A b \in Batches : row[Embedding(b)].state = "succeeded" =>
          row'[Embedding(b)].state = "succeeded"
    BY <1>1, <1>2, JobNames
  <2> QED
    BY <1>1, <2>1, <2>2 DEF Steady
<1>4. SidecarsTyped'
  <2>1. row' \in [FileJobs -> Entry]
    BY <1>1, FreshEntry DEF SidecarsTyped, Entry
  <2>2. \A j \in FileJobs : row'[j].tries <= MaxTries[j[1]]
    BY <1>1, <1>2, FreshEntry, TriesAllowed DEF SidecarsTyped
  <2>3. life' \in [Memories -> {"absent", "active", "suppressed", "quarantined", "archived"}]
    BY <1>1 DEF SidecarsTyped
  <2>4. current' \in [Memories -> SUBSET Batches]
    BY <1>1 DEF SidecarsTyped
  <2> QED
    BY <1>1, <2>1, <2>2, <2>3, <2>4 DEF SidecarsTyped, Entry
<1>5. JobInv'
  <2>1. \A b \in Batches :
          row'[Ann(b)].state = "absent" <=> row'[Embedding(b)].state # "succeeded"
    BY <1>1, <1>2, JobNames, FreshEntry DEF JobInv
  <2>2. \A m \in Memories : row'[Retention(m)].state = "absent" <=> life'[m] # "archived"
    <3> TAKE m \in Memories
    <3>1. Retention(m) # Embedding(e) /\ Retention(m) \in FileJobs
      BY JobNames
    <3>2. row'[Retention(m)] = row[Retention(m)]
      BY <1>2, <3>1
    <3>3. life'[m] # "archived" <=> life[m] # "archived"
      BY <1>1
    <3> QED
      BY <1>1, <3>2, <3>3 DEF JobInv
  <2>3. \A j \in FileJobs :
          /\ row'[j].state = "queued" => row'[j].tries < MaxTries[j[1]]
          /\ row'[j].state = "leased" => row'[j].tries # 0
    BY <1>1, <1>2, FreshEntry, TriesAllowed DEF JobInv
  <2>4. WritersUndisturbed'
    BY <1>1, <1>2, JobNames, FreshEntry DEF JobInv, WritersUndisturbed
  <2> QED
    BY <2>1, <2>2, <2>3, <2>4 DEF JobInv
<1>6. DiskInv'
  <2>1. \A j \in FileJobs : row'[j].state = "succeeded" => row[j].state = "succeeded"
    BY <1>2, FreshEntry
  <2> QED
    BY <1>1, <1>3, <2>1, DiskKeeps
<1>7. ASSUME NEW b \in Attempts
      PROVE  run'[b] = run[b] /\ (Held(b)' <=> Held(b))
  BY <1>1, <1>2, AttemptJob, FreshEntry DEF Held
<1> QED
  BY <1>3, <1>4, <1>5, <1>6, <1>7, StepKeeps

LEMMA DecideKeeps ==
  ASSUME SidecarsAssumption, FilesInv, NEW m \in Memories,
         NEW next \in {"active", "suppressed", "quarantined", "archived"},
         Decide(m, next)
  PROVE  FilesInv'
<1>1. /\ SidecarsTyped /\ JobInv /\ DiskInv
      /\ life' = [life EXCEPT ![m] = next]
      /\ UNCHANGED <<current, output, files, late, run>>
  BY DEF Decide, FilesInv
<1>2. life[m] # "archived"
  BY DEF Decide, SidecarsAssumption, LifecycleMoves
<1>3. /\ \A j \in FileJobs :
           row'[j] = IF next = "archived" /\ j = Retention(m) THEN Queued ELSE row[j]
      /\ row' \in [FileJobs -> Entry]
  BY <1>1, FreshEntry DEF Decide, SidecarsTyped, Entry
<1>4. row[Retention(m)].state = "absent"
  BY <1>1, <1>2 DEF JobInv
<1>5. \A x \in Memories : life'[x] = IF x = m THEN next ELSE life[x]
  BY <1>1 DEF SidecarsTyped
<1>6. Steady
  <2>1. ASSUME NEW x \in Memories, Closed(x)
        PROVE  Closed(x)' /\ Kept(x)' = Kept(x)
    <3>1. life'[x] = "archived"
      BY <1>2, <1>5, <2>1 DEF Closed
    <3>2. ~ Pending(x)'
      BY <1>3, <2>1, JobNames DEF Closed, Pending, Unfinished
    <3> QED
      BY <1>1, <3>1, <3>2 DEF Closed, Kept
  <2>2. \A e \in Batches : row'[Embedding(e)] = row[Embedding(e)]
    BY <1>3, JobNames
  <2> QED
    BY <1>1, <2>1, <2>2 DEF Steady
<1>7. SidecarsTyped'
  <2>1. \A j \in FileJobs : row'[j].tries <= MaxTries[j[1]]
    BY <1>1, <1>3, FreshEntry, TriesAllowed DEF SidecarsTyped
  <2>2. life' \in [Memories -> {"absent", "active", "suppressed", "quarantined", "archived"}]
    BY <1>1 DEF SidecarsTyped
  <2> QED
    BY <1>1, <1>3, <2>1, <2>2 DEF SidecarsTyped, Entry
<1>8. JobInv'
  <2>1. \A b \in Batches :
          row'[Ann(b)].state = "absent" <=> row'[Embedding(b)].state # "succeeded"
    BY <1>1, <1>3, JobNames DEF JobInv
  <2>2. \A x \in Memories : row'[Retention(x)].state = "absent" <=> life'[x] # "archived"
    BY <1>1, <1>2, <1>3, <1>5, JobNames, FreshEntry DEF JobInv
  <2>3. \A j \in FileJobs :
          /\ row'[j].state = "queued" => row'[j].tries < MaxTries[j[1]]
          /\ row'[j].state = "leased" => row'[j].tries # 0
    BY <1>1, <1>3, FreshEntry, TriesAllowed DEF JobInv
  <2>4. WritersUndisturbed'
    BY <1>1, <1>3, JobNames DEF JobInv, WritersUndisturbed
  <2> QED
    BY <2>1, <2>2, <2>3, <2>4 DEF JobInv
<1>9. DiskInv'
  <2>1. \A j \in FileJobs : row'[j].state = "succeeded" => row[j].state = "succeeded"
    BY <1>3, FreshEntry
  <2> QED
    BY <1>1, <1>6, <2>1, DiskKeeps
<1>10. ASSUME NEW b \in Attempts
       PROVE  run'[b] = run[b] /\ (Held(b)' <=> Held(b))
  BY <1>1, <1>3, <1>4, AttemptJob, FreshEntry DEF Held
<1> QED
  BY <1>6, <1>7, <1>8, <1>9, <1>10, StepKeeps

LEMMA StartedTyped ==
  ASSUME NEW pc \in Looking, NEW ver \in Versions \cup {0}
  PROVE  /\ Started(pc, ver) \in Doing
         /\ Started(pc, ver).pc = pc /\ Started(pc, ver).at = 1
         /\ Started(pc, ver).ver = ver /\ Started(pc, ver).store = "segment"
<1> DEFINE r == [NoRun EXCEPT !.pc = pc]
           q == [r EXCEPT !.at = 1]
<1>1. r \in Doing /\ r.pc = pc /\ r.store = "segment"
  BY DEF NoRun, Doing
<1>2. q \in Doing /\ q.pc = pc /\ q.store = "segment" /\ q.at = 1
  BY <1>1 DEF Doing
<1>3. Started(pc, ver) = [q EXCEPT !.ver = ver]
  BY DEF Started
<1> HIDE DEF q
<1> QED
  BY <1>2, <1>3 DEF Doing

LEMMA LeaseKeeps ==
  ASSUME SidecarsAssumption, FilesInv, NEW j \in FileJobs, Lease(j)
  PROVE  FilesInv'
<1> DEFINE p == [row[j] EXCEPT !.state = "leased", !.tries = @ + 1]
<1>1. /\ SidecarsTyped /\ JobInv /\ DiskInv
      /\ row[j].state = "queued"
      /\ run' = [run EXCEPT ![<<j, row[j].tries + 1>>] = FirstStep(j)]
      /\ UNCHANGED <<life, current, output, files, late>>
  BY DEF Lease, FilesInv
<1>2. row[j] \in Entry /\ row[j].tries < MaxTries[j[1]] /\ MaxTries[j[1]] \in Nat \ {0}
  BY <1>1, TriesAllowed DEF SidecarsTyped, JobInv, Entry
<1>3. /\ p \in Entry /\ p.state = "leased" /\ p.tries = row[j].tries + 1
      /\ p.cause = row[j].cause
  <2>1. row[j].tries + 1 \in Nat /\ "leased" \in States
    BY <1>2 DEF Entry, States
  <2> QED
    BY <1>2, <2>1 DEF Entry
<1>4. row' = [row EXCEPT ![j] = p]
  BY <1>1 DEF Lease, SidecarsTyped
<1> HIDE DEF p
<1>5. \A i \in FileJobs : row'[i] = IF i = j THEN p ELSE row[i]
  BY <1>1, <1>4 DEF SidecarsTyped
<1>6. PICK a \in Attempts : a = <<j, row[j].tries + 1>>
  <2>1. row[j].tries + 1 \in 1 .. MaxTries[j[1]]
    BY <1>2 DEF Entry
  <2> QED
    BY <2>1, JobAttempts
<1>7. Held(a)'
  BY <1>3, <1>5, <1>6 DEF Held
<1>8. Steady
  <2>1. \A m : Closed(m) => Closed(m)'
    <3>1. \A i \in FileJobs : Unfinished(i)' => Unfinished(i)
      BY <1>1, <1>5 DEF Unfinished
    <3> QED
      BY <1>1, <3>1, JobNames DEF Closed, Pending
  <2>3. \A m : Kept(m)' = Kept(m)
    BY <1>1 DEF Kept
  <2>2. \A e \in Batches : row[Embedding(e)].state = "succeeded" =>
          row'[Embedding(e)] = row[Embedding(e)]
    BY <1>1, <1>5, JobNames
  <2> QED
    BY <1>1, <2>1, <2>2, <2>3 DEF Steady
<1>9. FirstStep(j) \in Doing /\ RunInv(a)'
  <2>1. CASE \E e \in Batches : j = Embedding(e)
    <3>1. PICK e \in Batches : j = Embedding(e)
      BY <2>1
    <3>2. FirstStep(j) = Started("source", 0)
      BY <3>1, JobNames DEF FirstStep
    <3>3. /\ FirstStep(j) \in Doing
          /\ FirstStep(j).pc = "source" /\ FirstStep(j).at = 1
      BY <3>2, StartedTyped DEF Looking
    <3>4. run'[a] = FirstStep(j)
      BY <1>1, <1>6 DEF SidecarsTyped
    <3>5. 1 \in 1 .. Len(Of[e])
      BY Recorded
    <3>6. EmbeddingInv(a, e)'
      BY <3>3, <3>4, <3>5 DEF EmbeddingInv, Writing
    <3> QED
      BY <1>6, <1>7, <3>1, <3>3, <3>6, JobNames DEF RunInv
  <2>2. CASE \E e \in Batches : j = Ann(e)
    <3>1. PICK e \in Batches : j = Ann(e)
      BY <2>2
    <3>2. FirstStep(j) = Started("fetch", output[e])
      BY <3>1, JobNames DEF FirstStep
    <3>3. output[e] \in Versions \cup {0}
      BY <1>1 DEF SidecarsTyped
    <3>4. /\ FirstStep(j) \in Doing
          /\ FirstStep(j).pc = "fetch" /\ FirstStep(j).at = 1
          /\ FirstStep(j).ver = output[e]
      BY <3>2, <3>3, StartedTyped DEF Looking
    <3>5. run'[a] = FirstStep(j)
      BY <1>1, <1>6 DEF SidecarsTyped
    <3>6. 1 \in 1 .. Len(Of[e])
      BY Recorded
    <3>7. row'[Embedding(e)].state = "succeeded"
      BY <1>1, <1>5, <3>1, JobNames DEF JobInv
    <3>8. AnnInv(a, e)'
      BY <1>1, <3>4, <3>5, <3>6, <3>7 DEF AnnInv, Writing
    <3> QED
      BY <1>6, <1>7, <3>1, <3>4, <3>8, JobNames DEF RunInv
  <2>3. CASE \E m \in Memories : j = Retention(m)
    <3>1. PICK m \in Memories : j = Retention(m)
      BY <2>3
    <3>2. FirstStep(j) = Started("resolve", 0)
      BY <3>1, JobNames DEF FirstStep
    <3>3. /\ FirstStep(j) \in Doing
          /\ FirstStep(j).pc = "resolve" /\ FirstStep(j).store = "segment"
      BY <3>2, StartedTyped DEF Looking
    <3>4. run'[a] = FirstStep(j)
      BY <1>1, <1>6 DEF SidecarsTyped
    <3>5. RetentionInv(a, m)'
      BY <3>3, <3>4 DEF RetentionInv
    <3> QED
      BY <1>6, <1>7, <3>1, <3>3, <3>5, JobNames DEF RunInv
  <2> QED
    BY <2>1, <2>2, <2>3, JobCases
<1>10. SidecarsTyped'
  <2>1. row' \in [FileJobs -> Entry]
    BY <1>1, <1>3, <1>4 DEF SidecarsTyped, Entry
  <2>2. \A i \in FileJobs : row'[i].tries <= MaxTries[i[1]]
    <3> TAKE i \in FileJobs
    <3>1. CASE i = j
      BY <1>2, <1>3, <1>5, <3>1 DEF Entry
    <3>2. CASE i # j
      BY <1>1, <1>5, <3>2 DEF SidecarsTyped
    <3> QED
      BY <3>1, <3>2
  <2>3. run' \in [Attempts -> Doing]
    BY <1>1, <1>9 DEF SidecarsTyped, Doing
  <2> QED
    BY <1>1, <2>1, <2>2, <2>3 DEF SidecarsTyped, Doing, Entry
<1>11. JobInv'
  <2>5. \A i \in FileJobs :
          /\ row'[i].state = "absent" <=> row[i].state = "absent"
          /\ row'[i].state = "succeeded" <=> row[i].state = "succeeded"
    BY <1>1, <1>3, <1>5
  <2>1. \A b \in Batches :
          row'[Ann(b)].state = "absent" <=> row'[Embedding(b)].state # "succeeded"
    BY <1>1, <2>5, JobNames DEF JobInv
  <2>2. \A m \in Memories : row'[Retention(m)].state = "absent" <=> life'[m] # "archived"
    BY <1>1, <1>3, <1>5, JobNames DEF JobInv
  <2>3. \A i \in FileJobs :
          /\ row'[i].state = "queued" => row'[i].tries < MaxTries[i[1]]
          /\ row'[i].state = "leased" => row'[i].tries # 0
    BY <1>1, <1>2, <1>3, <1>5 DEF JobInv, Entry
  <2>4. WritersUndisturbed'
    BY <1>1, <1>3, <1>5, JobNames DEF JobInv, WritersUndisturbed
  <2> QED
    BY <2>1, <2>2, <2>3, <2>4 DEF JobInv
<1>12. DiskInv'
  <2>1. \A i \in FileJobs : row'[i].state = "succeeded" => row[i].state = "succeeded"
    BY <1>3, <1>5
  <2> QED
    BY <1>1, <1>8, <2>1, DiskKeeps
<1>13. ASSUME NEW b \in Attempts, b # a
       PROVE  run'[b] = run[b] /\ (Held(b)' <=> Held(b))
  <2>1. run'[b] = run[b]
    BY <1>1, <1>6, <1>13 DEF SidecarsTyped
  <2>2. CASE b[1] = j
    <3>1. b[2] # row[j].tries + 1
      BY <1>6, <1>13, <2>2, AttemptJob
    <3> QED
      BY <1>1, <1>3, <1>5, <2>1, <2>2, <3>1 DEF Held
  <2>3. CASE b[1] # j
    BY <1>5, <2>1, <2>3, AttemptJob DEF Held
  <2> QED
    BY <2>2, <2>3
<1> QED
  BY <1>8, <1>9, <1>10, <1>11, <1>12, <1>13, StepKeeps

LEMMA LapseKeeps ==
  ASSUME SidecarsAssumption, FilesInv, NEW j \in FileJobs, LeaseEnds(j)
  PROVE  FilesInv'
<1>1. /\ row[j].state = "leased"
      /\ row' = RetryOrExhaust(j)
      /\ UNCHANGED <<life, current, output, files, late>>
  BY DEF LeaseEnds
<1>2. PICK a \in Attempts : a = <<j, row[j].tries>>
  <2>1. row[j].tries \in 1 .. MaxTries[j[1]]
    BY <1>1, TriesAllowed DEF FilesInv, SidecarsTyped, JobInv
  <2> QED
    BY <2>1, JobAttempts
<1>6. /\ a[1] = j /\ Held(a)
      /\ run' = IF run[a].pc \in Looking THEN [run EXCEPT ![a] = NoRun] ELSE run
  BY <1>1, <1>2 DEF Held, LeaseEnds
<1>3. Ended(a)
  BY <1>1, <1>6, RetryEnds
<1>4. CASE run[a].pc \in Looking
  <2>1. run' = [run EXCEPT ![a] = NoRun] /\ run'[a] = NoRun
    BY <1>4, <1>6, Standing
  <2> QED
    BY <1>1, <1>3, <2>1, IdleTyped, IdleHolds, EndKeeps
<1>5. CASE run[a].pc \notin Looking
  <2>1. run' = [run EXCEPT ![a] = run[a]] /\ run'[a] = run[a] /\ run[a] \in Doing
    BY <1>5, <1>6, Standing
  <2>2. Steady
    BY <1>1, <1>3, EndedIsSteady
  <2>4. ~ Held(a)'
    BY <1>3, <1>6 DEF Ended, Held, FilesInv, SidecarsTyped
  <2>3. RunInv(a)'
    BY <1>5, <2>1, <2>2, <2>4, Standing, BystanderKeeps
  <2> QED
    BY <1>1, <1>3, <2>1, <2>3, EndKeeps
<1> QED
  BY <1>4, <1>5

LEMMA CompleteKeeps ==
  ASSUME SidecarsAssumption, FilesInv, NEW a \in Attempts, Complete(a)
  PROVE  FilesInv'
<1> DEFINE j == a[1]
           p == [row[j] EXCEPT !.state = "succeeded"]
           done == [row EXCEPT ![j] = p]
<1>1. /\ SidecarsTyped /\ JobInv /\ DiskInv /\ RunInv(a)
      /\ run[a].pc = "complete" /\ Held(a) /\ run[a] \in Doing
      /\ UNCHANGED <<life, current, files, late>>
      /\ run' = [run EXCEPT ![a] = NoRun]
      /\ j \in FileJobs /\ row[j] \in Entry
  BY Standing, AttemptJob DEF Complete, FilesInv, Looking, SidecarsTyped, Entry
<1>2. /\ p \in Entry /\ p.state = "succeeded" /\ p.tries = row[j].tries
      /\ p.cause = row[j].cause
  BY <1>1 DEF Entry, States
<1>3. /\ row' = IF j[1] = "embedding" THEN [done EXCEPT ![Ann(j[2])] = Queued] ELSE done
      /\ output' = IF j[1] = "embedding" THEN [output EXCEPT ![j[2]] = run[a].ver]
                                         ELSE output
  BY <1>1 DEF Complete, SidecarsTyped
<1>4. row[j].state = "leased" /\ done \in [FileJobs -> Entry]
  BY <1>1, <1>2 DEF Held, SidecarsTyped, Entry
<1>5. \A i \in FileJobs : done[i] = IF i = j THEN p ELSE row[i]
  BY <1>1 DEF SidecarsTyped
<1>6. run'[a] = NoRun /\ run' \in [Attempts -> Doing]
  BY <1>1, IdleTyped DEF SidecarsTyped, Doing
<1>7. ASSUME NEW b \in Attempts, b # a
      PROVE  run'[b] = run[b] /\ (b[1] = j => b[2] # a[2])
  BY <1>1, <1>7, AttemptJob DEF SidecarsTyped
<1>8. \A m : Kept(m)' = Kept(m)
  BY <1>1 DEF Kept
<1>9. CASE j[1] = "embedding"
  <2> DEFINE e == j[2]
  <2>1. e \in Batches /\ j = Embedding(e) /\ EmbeddingInv(a, e)
    BY <1>1, <1>9, AttemptCases DEF RunInv
  <2>2. /\ row' = [done EXCEPT ![Ann(e)] = Queued]
        /\ output' = [output EXCEPT ![e] = run[a].ver]
    BY <1>3, <1>9
  <2>3. \A m \in Members(e) : ~ Closed(m)
    BY <1>1, <2>1, HeldIsOpen
  <2>4. /\ run[a].ver \in Versions
        /\ \A m \in Members(e) : Vector(m, e, run[a].ver) \in files
    BY <1>1, <2>1 DEF EmbeddingInv
  <2> HIDE DEF e, done, p, j
  <2>5. \A i \in FileJobs : row'[i] = IF i = Ann(e) THEN Queued ELSE IF i = j THEN p ELSE row[i]
    BY <1>4, <1>5, <2>2
  <2>6. row[Ann(e)].state = "absent" /\ Ann(e) \in FileJobs /\ Ann(e) # Embedding(e)
    BY <1>1, <1>4, <2>1, JobNames DEF JobInv
  <2>7. \A b \in Batches : output'[b] = IF b = e THEN run[a].ver ELSE output[b]
    BY <1>1, <2>2 DEF SidecarsTyped
  <2>8. /\ row'[Embedding(e)] = p
        /\ \A b \in Batches \ {e} : /\ row'[Embedding(b)] = row[Embedding(b)]
                                    /\ row'[Ann(b)] = row[Ann(b)]
        /\ \A m \in Memories : row'[Retention(m)] = row[Retention(m)]
    <3>1. row'[Embedding(e)] = p
      BY <2>1, <2>5, <2>6, JobNames
    <3>2. ASSUME NEW b \in Batches \ {e}
          PROVE  /\ row'[Embedding(b)] = row[Embedding(b)]
                 /\ row'[Ann(b)] = row[Ann(b)]
      <4>1. /\ Embedding(b) # Ann(e) /\ Embedding(b) # Embedding(e)
            /\ Ann(b) # Ann(e) /\ Ann(b) # Embedding(e)
        BY JobNames
      <4> QED
        BY <2>1, <2>5, <4>1, JobNames
    <3>3. ASSUME NEW m \in Memories
          PROVE  row'[Retention(m)] = row[Retention(m)]
      <4>1. Retention(m) # Ann(e) /\ Retention(m) # Embedding(e)
        BY JobNames
      <4> QED
        BY <2>1, <2>5, <4>1, JobNames
    <3> QED
      BY <3>1, <3>2, <3>3
  <2>9. Steady
    <3>1. ASSUME NEW m \in Memories, Closed(m)
          PROVE  Closed(m)'
      BY <1>1, <2>3, <2>8, <3>1 DEF Closed, Pending, Unfinished
    <3>2. \A b \in Batches : row[Embedding(b)].state = "succeeded" =>
            row'[Embedding(b)].state = "succeeded" /\ output'[b] = output[b]
      BY <1>4, <2>1, <2>7, <2>8
    <3> QED
      BY <1>1, <1>8, <3>1, <3>2 DEF Steady
  <2>10. SidecarsTyped'
    <3>1. row' \in [FileJobs -> Entry]
      BY <1>4, <2>2, FreshEntry
    <3>2. \A i \in FileJobs : row'[i].tries <= MaxTries[i[1]]
      <4> TAKE i \in FileJobs
      <4>1. CASE i = Ann(e)
        BY <2>5, <4>1, FreshEntry, TriesAllowed
      <4>2. CASE i # Ann(e) /\ i = j
        BY <1>1, <1>2, <2>5, <4>2 DEF SidecarsTyped
      <4>3. CASE i # Ann(e) /\ i # j
        BY <1>1, <2>5, <4>3 DEF SidecarsTyped
      <4> QED
        BY <4>1, <4>2, <4>3
    <3>3. output' \in [Batches -> Versions \cup {0}]
      BY <1>1, <2>2, <2>4 DEF SidecarsTyped
    <3> QED
      BY <1>1, <1>6, <3>1, <3>2, <3>3 DEF SidecarsTyped, Entry, Doing
  <2>11. JobInv'
    <3>1. \A b \in Batches :
            row'[Ann(b)].state = "absent" <=> row'[Embedding(b)].state # "succeeded"
      BY <1>1, <1>2, <2>5, <2>6, <2>8, FreshEntry DEF JobInv
    <3>2. \A m \in Memories : row'[Retention(m)].state = "absent" <=> life'[m] # "archived"
      BY <1>1, <2>8 DEF JobInv
    <3>3. \A i \in FileJobs :
            /\ row'[i].state = "queued" => row'[i].tries < MaxTries[i[1]]
            /\ row'[i].state = "leased" => row'[i].tries # 0
      BY <1>1, <1>2, <2>5, FreshEntry, TriesAllowed DEF JobInv
    <3>4. WritersUndisturbed'
      BY <1>1, <1>2, <2>1, <2>5, <2>6, <2>8, FreshEntry DEF JobInv, WritersUndisturbed
    <3> QED
      BY <3>1, <3>2, <3>3, <3>4 DEF JobInv
  <2>12. DiskInv'
    <3>1. \A b \in Batches : row'[Embedding(b)].state = "succeeded" =>
            /\ output'[b] \in Versions
            /\ \A m \in Members(b) : ~ Closed(m)' => Vector(m, b, output'[b]) \in files'
      <4> SUFFICES ASSUME NEW b \in Batches, row'[Embedding(b)].state = "succeeded"
                   PROVE  /\ output'[b] \in Versions
                          /\ \A m \in Members(b) : ~ Closed(m)' =>
                               Vector(m, b, output'[b]) \in files'
        OBVIOUS
      <4>1. CASE b = e
        BY <1>1, <2>4, <2>7, <4>1
      <4>2. CASE b # e
        <5>1. \A m \in Members(b) : ~ Closed(m)' => ~ Closed(m)
          BY <2>9, Recorded DEF Steady
        <5> QED
          BY <1>1, <2>7, <2>8, <4>2, <5>1 DEF DiskInv
      <4> QED
        BY <4>1, <4>2
    <3>2. ASSUME NEW b \in Batches, row'[Ann(b)].state = "succeeded",
                 \A m \in Members(b) : ~ Closed(m)'
          PROVE  Segment(b, output'[b]) \in files'
      <4>1. b # e
        BY <2>5, <2>6, <3>2, FreshEntry
      <4>2. \A m \in Members(b) : ~ Closed(m)
        BY <2>9, <3>2, Recorded DEF Steady
      <4> QED
        BY <1>1, <2>7, <2>8, <3>2, <4>1, <4>2 DEF DiskInv
    <3>3. \A m \in Memories : row'[Retention(m)].state = "succeeded" =>
            Closed(m)' /\ Kept(m)' = {}
      BY <1>1, <1>8, <2>8, <2>9 DEF DiskInv, Steady
    <3> QED
      BY <3>1, <3>2, <3>3 DEF DiskInv
  <2>13. ASSUME NEW b \in Attempts, b # a
         PROVE  run'[b] = run[b] /\ (Held(b)' <=> Held(b))
    <3>1. b[1] \in FileJobs
      BY AttemptJob
    <3>2. run'[b] = run[b] /\ (b[1] = j => b[2] # a[2])
      BY <1>7, <2>13
    <3>3. a[1] = j
      BY DEF j
    <3> QED
      BY <1>1, <1>2, <2>5, <2>6, <3>1, <3>2, <3>3, FreshEntry DEF Held
  <2> QED
    BY <1>6, <2>9, <2>10, <2>11, <2>12, <2>13, IdleHolds, StepKeeps
<1>10. CASE j[1] # "embedding"
  <2>1. row' = done /\ output' = output
    BY <1>3, <1>10
  <2>2. j[1] = "ann" \/ j[1] = "retention"
    BY <1>10, AttemptCases
  <2>3. j[1] = "ann" => j = Ann(j[2]) /\ j[2] \in Batches /\ AnnInv(a, j[2])
    BY <1>1, AttemptCases DEF RunInv
  <2>4. j[1] = "retention" => j = Retention(j[2]) /\ j[2] \in Memories /\ RetentionInv(a, j[2])
    BY <1>1, AttemptCases DEF RunInv
  <2>5. a[1] = j
    OBVIOUS
  <2> HIDE DEF done, p, j
  <2>6. \A i \in FileJobs : row'[i] = IF i = j THEN p ELSE row[i]
    BY <1>5, <2>1
  <2>7. \A b \in Batches : row'[Embedding(b)] = row[Embedding(b)]
    BY <1>10, <2>6, JobNames
  <2>8. Steady
    <3>1. ASSUME NEW m, Closed(m)
          PROVE  Closed(m)'
      <4>1. \A i \in FileJobs : Unfinished(i)' => Unfinished(i)
        BY <1>2, <2>6 DEF Unfinished
      <4> QED
        BY <1>1, <3>1, <4>1, JobNames DEF Closed, Pending
    <3> QED
      BY <1>1, <1>8, <2>1, <2>7, <3>1 DEF Steady
  <2>9. SidecarsTyped'
    <3>1. \A i \in FileJobs : row'[i].tries <= MaxTries[i[1]]
      BY <1>1, <1>2, <2>6 DEF SidecarsTyped
    <3> QED
      BY <1>1, <1>4, <1>6, <2>1, <3>1 DEF SidecarsTyped, Entry, Doing
  <2>10. JobInv'
    <3>1. \A i \in FileJobs :
            /\ row'[i].state = "absent" <=> row[i].state = "absent"
            /\ row'[i].cause = row[i].cause
      BY <1>2, <1>4, <2>6
    <3>2. \A b \in Batches :
            row'[Ann(b)].state = "absent" <=> row'[Embedding(b)].state # "succeeded"
      BY <1>1, <2>7, <3>1, JobNames DEF JobInv
    <3>3. \A m \in Memories : row'[Retention(m)].state = "absent" <=> life'[m] # "archived"
      BY <1>1, <3>1, JobNames DEF JobInv
    <3>4. \A i \in FileJobs :
            /\ row'[i].state = "queued" => row'[i].tries < MaxTries[i[1]]
            /\ row'[i].state = "leased" => row'[i].tries # 0
      BY <1>1, <1>2, <2>6 DEF JobInv
    <3>5. WritersUndisturbed'
      BY <1>1, <3>1, JobNames DEF JobInv, WritersUndisturbed
    <3> QED
      BY <3>2, <3>3, <3>4, <3>5 DEF JobInv
  <2>11. DiskInv'
    <3>1. \A b \in Batches : row'[Embedding(b)].state = "succeeded" =>
            /\ output'[b] \in Versions
            /\ \A m \in Members(b) : ~ Closed(m)' => Vector(m, b, output'[b]) \in files'
      BY <1>1, <2>1, <2>7, <2>8, Recorded DEF DiskInv, Steady
    <3>2. ASSUME NEW b \in Batches, row'[Ann(b)].state = "succeeded",
                 \A m \in Members(b) : ~ Closed(m)'
          PROVE  Segment(b, output'[b]) \in files'
      <4>1. CASE j = Ann(b)
        <5>1. AnnInv(a, b)
          BY <1>10, <2>2, <2>3, <4>1, JobNames
        <5> QED
          BY <1>1, <2>1, <5>1 DEF AnnInv
      <4>2. CASE j # Ann(b)
        <5>1. row[Ann(b)].state = "succeeded"
          BY <2>6, <3>2, <4>2, JobNames
        <5>2. \A m \in Members(b) : ~ Closed(m)
          BY <2>8, <3>2, Recorded DEF Steady
        <5> QED
          BY <1>1, <2>1, <5>1, <5>2 DEF DiskInv
      <4> QED
        BY <4>1, <4>2
    <3>3. ASSUME NEW m \in Memories, row'[Retention(m)].state = "succeeded"
          PROVE  Closed(m)' /\ Kept(m)' = {}
      <4>1. CASE j = Retention(m)
        <5>1. RetentionInv(a, m)
          BY <2>2, <2>4, <4>1, JobNames
        <5> QED
          BY <1>1, <1>8, <2>8, <5>1 DEF RetentionInv, Steady
      <4>2. CASE j # Retention(m)
        <5>1. row[Retention(m)].state = "succeeded"
          BY <2>6, <3>3, <4>2, JobNames
        <5> QED
          BY <1>1, <1>8, <2>8, <5>1 DEF DiskInv, Steady
      <4> QED
        BY <4>1, <4>2
    <3> QED
      BY <3>1, <3>2, <3>3 DEF DiskInv
  <2>12. ASSUME NEW b \in Attempts, b # a
         PROVE  run'[b] = run[b] /\ (Held(b)' <=> Held(b))
    <3>1. b[1] \in FileJobs
      BY AttemptJob
    <3>2. run'[b] = run[b] /\ (b[1] = j => b[2] # a[2])
      BY <1>7, <2>12
    <3> QED
      BY <1>1, <1>2, <2>5, <2>6, <3>1, <3>2 DEF Held
  <2> QED
    BY <1>6, <2>8, <2>9, <2>10, <2>11, <2>12, IdleHolds, StepKeeps
<1> QED
  BY <1>9, <1>10

-----------------------------------------------------------------------------
LEMMA SidecarsStart ==
  ASSUME SidecarsAssumption, SidecarsInit
  PROVE  FilesInv
<1>1. \A j \in FileJobs : row[j].state = "absent" /\ row[j].tries = 0 /\ row[j].cause = "none"
  BY DEF SidecarsInit, Queued
<1>2. SidecarsTyped
  <2>1. row \in [FileJobs -> Entry]
    BY DEF SidecarsInit, Queued, Entry, States, Causes
  <2>2. \A j \in FileJobs : row[j].tries <= MaxTries[j[1]]
    BY <1>1, TriesAllowed
  <2>3. run \in [Attempts -> Doing]
    BY IdleTyped DEF SidecarsInit
  <2> QED
    BY <2>1, <2>2, <2>3 DEF SidecarsInit, SidecarsTyped, Entry, Doing
<1>3. JobInv
  <2>1. \A m \in Memories : life[m] # "archived"
    BY DEF SidecarsInit
  <2> QED
    BY <1>1, <2>1, JobNames DEF JobInv, WritersUndisturbed
<1>4. DiskInv
  BY <1>1, JobNames DEF DiskInv
<1>5. ASSUME NEW a \in Attempts
      PROVE  RunInv(a)
  <2>1. run[a].pc = "idle"
    BY DEF SidecarsInit, NoRun
  <2> QED
    BY <2>1 DEF RunInv, EmbeddingInv, AnnInv, RetentionInv, Writing, Looking
<1> QED
  BY <1>2, <1>3, <1>4, <1>5 DEF FilesInv

LEMMA SidecarsStutter ==
  ASSUME SidecarsAssumption, FilesInv, UNCHANGED sidecarVars
  PROVE  FilesInv'
<1>1. Steady
  BY UnmovedIsSteady DEF sidecarVars
<1>2. SidecarsTyped' /\ JobInv'
  BY DEF FilesInv, SidecarsTyped, JobInv, WritersUndisturbed, sidecarVars
<1>3. DiskInv'
  BY <1>1, DiskKeeps DEF FilesInv, sidecarVars
<1>4. \A b \in Attempts : run'[b] = run[b] /\ (Held(b)' <=> Held(b))
  BY DEF Held, sidecarVars
<1> QED
  BY <1>1, <1>2, <1>3, <1>4, StepKeeps

LEMMA SidecarsNextKeeps ==
  ASSUME SidecarsAssumption, FilesInv, SidecarsNext
  PROVE  FilesInv'
<1>1. ASSUME NEW a \in Attempts, Progress(a)
      PROVE  FilesInv'
  BY <1>1, ReadSourceKeeps, EmbedKeeps, FetchKeeps, FetchedKeeps, WriteKeeps,
     ReadHeldKeeps, PublishKeeps, VerifyKeeps, ResolveKeeps, ListKeeps, ScanKeeps,
     ScannedKeeps, SweepKeeps, UnlinkKeeps, SweptKeeps, CompleteKeeps DEF Progress
<1> QED
  BY <1>1, RecordKeeps, DecideKeeps, LeaseKeeps, LapseKeeps DEF SidecarsNext

(* The invariant that the theorems below rest on: the files that a closed  *)
(* memory still has are known to the retention attempt that holds its job, *)
(* whatever late attempts add, and no file of an open one is ever touched. *)
THEOREM FilesInvariant == SidecarsSpec => []FilesInv
<1>1. SidecarsInit => FilesInv
  BY SidecarsStart, SidecarsAssumption
<1>2. FilesInv /\ [SidecarsNext]_sidecarVars => FilesInv'
  BY SidecarsNextKeeps, SidecarsStutter, SidecarsAssumption
<1> QED
  BY <1>1, <1>2, PTL DEF SidecarsSpec

(* The records of jobs, attempts and files keep their types; no job is     *)
(* tried more often than its role allows.                                  *)
THEOREM SidecarsTypeCorrect == SidecarsSpec => []SidecarsTyped
<1>1. FilesInv => SidecarsTyped
  BY DEF FilesInv
<1> QED
  BY <1>1, FilesInvariant, PTL

(* No writer meets the collector, for any memories shared by any           *)
(* recordings: neither the embedding nor the ann processor ever finds a    *)
(* file gone that it has seen, or that its predecessor answered for.       *)
THEOREM WritersStandApart == SidecarsSpec => []WritersUndisturbed
<1>1. FilesInv => WritersUndisturbed
  BY DEF FilesInv, JobInv
<1> QED
  BY <1>1, FilesInvariant, PTL

(* What a finished job answered for is on disk until a memory it covers is *)
(* archived: retention of one memory never costs another its files.        *)
THEOREM AnswersStay == SidecarsSpec => []AnsweredOnDisk
<1>1. FilesInv => AnsweredOnDisk
  BY DEF FilesInv, DiskInv, AnsweredOnDisk, Closed
<1> QED
  BY <1>1, FilesInvariant, PTL

(* Once the retention of a memory has succeeded, every file that still     *)
(* covers the memory came from an attempt that had lost its lease.         *)
THEOREM OnlyLateOnesAreLeft == SidecarsSpec => []LeftoversAreLate
<1>1. FilesInv => LeftoversAreLate
  BY DEF FilesInv, DiskInv, LeftoversAreLate, Kept
<1> QED
  BY <1>1, FilesInvariant, PTL
=============================================================================
