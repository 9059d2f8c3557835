----------------------------- MODULE WorkerFleet ----------------------------
(***************************************************************************)
(* The worker processes of one role against the durable job queue:         *)
(* polling, batches, lease admission, concurrent attempts, replays, stop,  *)
(* drain, crashes and restarts.                                            *)
(*                                                                         *)
(* The queue is the one of DurableJobs with its clock abstracted to what   *)
(* an attempt can tell apart: a queued job is due or not yet, and a held   *)
(* lease has lapsed or not.  Time passing is the pair of actions Due and   *)
(* Lapse.  A lease is named by its attempt number, since the queue draws   *)
(* one fresh token per attempt.  Every await of the worker service between *)
(* two transactions is a place where other processes, the clock, a signal  *)
(* or a crash may intervene, so each stage of an attempt is a step.        *)
(***************************************************************************)
EXTENDS Naturals, FiniteSets

CONSTANTS
  Workers,       \* process slots of the role; a slot is restarted when down
  Jobs,
  MaxAttempts,   \* max_attempts of each job
  BatchSize,     \* jobs.batchSize
  MaxMishaps,    \* bound: crashes, busy-store errors, and leases a caller hands
                 \* to processLeasedJob again, in a behaviour
  MaxSignals     \* bound: SIGTERM or SIGINT deliveries in a behaviour

ASSUME FleetAssumption ==
  /\ MaxAttempts \in [Jobs -> Nat \ {0}]
  /\ BatchSize \in Nat \ {0}
  /\ MaxMishaps \in Nat /\ MaxSignals \in Nat

VARIABLES
  job,           \* durable_jobs: phase, attempt_count, due and lapsed
  answers,       \* worker_completion operations by job and attempt
  applied,       \* business commits per job
  up,            \* process state: down, running, stopping
  loop,          \* where runUntilStopped of the process stands
  launched,      \* attempts the current batch has launched
  admission,     \* pendingLeaseAdmission: none, asked, or the lease granted
  inFlight,      \* inFlight and activeAttempts of the process
  batchFailed,   \* an attempt of the current batch was rejected
  owed,          \* leases admitted to this incarnation and not yet settled
  faults, signals, redeliveries

queue == <<job, answers, applied>>
process == <<up, loop, launched, admission, inFlight, batchFailed, owed>>
bounds == <<faults, signals, redeliveries>>
vars == <<job, answers, applied, up, loop, launched, admission, inFlight,
          batchFailed, owed, faults, signals, redeliveries>>

-----------------------------------------------------------------------------
LeaseName == [job : Jobs, try : Nat]

(* pendingLeaseAdmission: none, asking the store, or a lease in hand.      *)
NoLease == [step |-> "none", lease |-> {}]
Asked == [step |-> "asked", lease |-> {}]
InHand(lease) == [step |-> "granted", lease |-> {lease}]

Stages == {"accepted", "unanswered", "processing", "succeeding",
           "retrying", "burying"}

Attempt == [lease : LeaseName, stage : Stages, batch : BOOLEAN]

Statuses == {"succeeded", "retry", "dead"}

StatusOf(stage) ==
  CASE stage = "succeeding" -> "succeeded"
    [] stage = "retrying" -> "retry"
    [] stage = "burying" -> "dead"

Answered(lease) == \E a \in answers : a.lease = lease

(* Seeded fault: a lease that was taken over still counts as held.         *)
HoldsAnyTry(lease) == job[lease.job].phase = "leased" /\ ~ job[lease.job].lapsed

(* The row still carries this lease and it has not lapsed.                 *)
Holds(lease) ==
  /\ job[lease.job].phase = "leased"
  /\ job[lease.job].tries = lease.try
  /\ ~ job[lease.job].lapsed

Stopped(w) == up[w] # "running"

-----------------------------------------------------------------------------
(* A job is enqueued by another operation of the runtime.                  *)
Submit(j) ==
  /\ job[j].phase = "absent"
  /\ \E due \in BOOLEAN :
       job' = [job EXCEPT ![j] = [@ EXCEPT !.phase = "queued", !.due = due]]
  /\ UNCHANGED <<answers, applied, process, bounds>>

(* Time passes a queued job's available_at, or a held lease's end.         *)
Due(j) ==
  /\ job[j].phase = "queued" /\ ~ job[j].due
  /\ job' = [job EXCEPT ![j].due = TRUE]
  /\ UNCHANGED <<answers, applied, process, bounds>>

Lapse(j) ==
  /\ job[j].phase = "leased" /\ ~ job[j].lapsed
  /\ job' = [job EXCEPT ![j].lapsed = TRUE]
  /\ UNCHANGED <<answers, applied, process, bounds>>

-----------------------------------------------------------------------------
(* The supervisor starts a worker process.                                 *)
Start(w) ==
  /\ up[w] = "down"
  /\ up' = [up EXCEPT ![w] = "running"]
  /\ loop' = [loop EXCEPT ![w] = "batch"]
  /\ launched' = [launched EXCEPT ![w] = 0]
  /\ batchFailed' = [batchFailed EXCEPT ![w] = FALSE]
  /\ UNCHANGED <<queue, admission, inFlight, owed, bounds>>

(* leaseAndLaunch passes the stop gate and asks the store for a lease.     *)
Ask(w) ==
  /\ loop[w] = "batch" /\ admission[w] = NoLease
  /\ ~ Stopped(w) /\ launched[w] < BatchSize
  /\ admission' = [admission EXCEPT ![w] = Asked]
  /\ UNCHANGED <<queue, up, loop, launched, inFlight, batchFailed, owed, bounds>>

(* Seeded faults: the last try is granted once more; an exhausted lease is *)
(* never recovered.                                                        *)
RecoveredOnceMore(j, due) ==
  IF job[j].tries > MaxAttempts[j]
  THEN [job[j] EXCEPT !.phase = "dead", !.lapsed = FALSE, !.due = FALSE]
  ELSE [job[j] EXCEPT !.phase = "queued", !.lapsed = FALSE, !.due = due]

RecoveredUnlessExhausted(j, due) ==
  IF job[j].tries >= MaxAttempts[j]
  THEN job[j]
  ELSE [job[j] EXCEPT !.phase = "queued", !.lapsed = FALSE, !.due = due]

(* The rows leaseNext leaves when it has recovered every lapsed lease; a   *)
(* recovered job may be available at once or only a moment later.          *)
RecoveredRow(j, due) ==
  IF job[j].tries >= MaxAttempts[j]
  THEN [job[j] EXCEPT !.phase = "dead", !.lapsed = FALSE, !.due = FALSE]
  ELSE [job[j] EXCEPT !.phase = "queued", !.lapsed = FALSE, !.due = due]

AfterRecovery ==
  LET E == {j \in Jobs : job[j].phase = "leased" /\ job[j].lapsed} IN
  {[j \in Jobs |-> IF j \in E THEN RecoveredRow(j, due[j]) ELSE job[j]] :
     due \in [E -> BOOLEAN]}

Leasable(R, j) == R[j].phase = "queued" /\ R[j].due /\ R[j].tries < MaxAttempts[j]

(* leaseNext commits a lease for the asking process.                       *)
LeaseGranted(w) ==
  /\ admission[w] = Asked
  /\ \E R \in AfterRecovery : \E j \in Jobs :
       LET lease == [job |-> j, try |-> R[j].tries + 1] IN
       /\ Leasable(R, j)
       /\ job' = [R EXCEPT ![j] = [@ EXCEPT !.phase = "leased", !.tries = lease.try,
                                            !.due = FALSE, !.lapsed = FALSE]]
       /\ admission' = [admission EXCEPT ![w] = InHand(lease)]
       /\ owed' = [owed EXCEPT ![w] = @ \cup {lease}]
  /\ UNCHANGED <<answers, applied, up, loop, launched, inFlight, batchFailed, bounds>>

(* leaseNext finds nothing: its recoveries commit and the batch is closed. *)
LeaseEmpty(w) ==
  /\ admission[w] = Asked
  /\ \E R \in AfterRecovery :
       /\ \A j \in Jobs : ~ Leasable(R, j)
       /\ job' = R
  /\ admission' = [admission EXCEPT ![w] = NoLease]
  /\ loop' = [loop EXCEPT ![w] = "settle"]
  /\ UNCHANGED <<answers, applied, up, launched, inFlight, batchFailed, owed, bounds>>

(* The store is busy or fails: the batch throws at once, without waiting   *)
(* for the attempts it already launched.                                   *)
LeaseError(w) ==
  /\ admission[w] = Asked /\ faults + redeliveries < MaxMishaps
  /\ admission' = [admission EXCEPT ![w] = NoLease]
  /\ loop' = [loop EXCEPT ![w] = "failed"]
  /\ faults' = faults + 1
  /\ UNCHANGED <<queue, up, launched, inFlight, batchFailed, owed, signals, redeliveries>>

(* The granted lease reaches leaseAndLaunch, which starts its attempt even *)
(* when a stop arrived meanwhile: an admitted lease is drained, not left.  *)
Launch(w) ==
  /\ admission[w].step = "granted"
  /\ inFlight' = [inFlight EXCEPT ![w] = @ \cup
       {[lease |-> l, stage |-> "accepted", batch |-> TRUE] : l \in admission[w].lease}]
  /\ launched' = [launched EXCEPT ![w] = @ + 1]
  /\ admission' = [admission EXCEPT ![w] = NoLease]
  /\ UNCHANGED <<queue, up, loop, batchFailed, owed, bounds>>

(* The batch is full, or a stop arrived between two leases.                *)
CloseBatch(w) ==
  /\ loop[w] = "batch" /\ admission[w] = NoLease
  /\ Stopped(w) \/ launched[w] = BatchSize
  /\ loop' = [loop EXCEPT ![w] = "settle"]
  /\ UNCHANGED <<queue, up, launched, admission, inFlight, batchFailed, owed, bounds>>

(* Promise.allSettled over the batch: one rejection fails the loop.        *)
SettleBatch(w) ==
  /\ loop[w] = "settle"
  /\ \A a \in inFlight[w] : ~ a.batch
  /\ loop' = [loop EXCEPT ![w] = IF batchFailed[w] THEN "failed" ELSE "polling"]
  /\ UNCHANGED <<queue, up, launched, admission, inFlight, batchFailed, owed, bounds>>

(* The poll timer fires, or a stop wakes the poller.                       *)
PollAgain(w) ==
  /\ loop[w] = "polling"
  /\ loop' = [loop EXCEPT ![w] = IF Stopped(w) THEN "ended" ELSE "batch"]
  /\ launched' = [launched EXCEPT ![w] = 0]
  /\ UNCHANGED <<queue, up, admission, inFlight, batchFailed, owed, bounds>>

-----------------------------------------------------------------------------
(* A caller hands an old or current lease to processLeasedJob.  The        *)
(* process joins its own active attempt for that lease, which is no step;  *)
(* otherwise it starts one more.                                           *)
Redeliver(w, lease) ==
  /\ ~ Stopped(w) /\ faults + redeliveries < MaxMishaps
  /\ lease.try \in 1 .. job[lease.job].tries
  /\ \A v \in Workers : lease \notin admission[v].lease
  /\ \A a \in inFlight[w] : a.lease # lease
  /\ inFlight' = [inFlight EXCEPT ![w] = @ \cup
       {[lease |-> lease, stage |-> "accepted", batch |-> FALSE]}]
  /\ redeliveries' = redeliveries + 1
  /\ UNCHANGED <<queue, up, loop, launched, admission, batchFailed, owed,
                 faults, signals>>

(* The attempt moves on inside its process.                                *)
Advance(w, a, stage) ==
  /\ inFlight' = [inFlight EXCEPT ![w] = (@ \ {a}) \cup {[a EXCEPT !.stage = stage]}]
  /\ UNCHANGED <<batchFailed, owed>>

(* Seeded fault: a rejected attempt is never taken out of the set.         *)
SettleUnlessRejected(w, a, rejected) ==
  /\ inFlight' = [inFlight EXCEPT ![w] = IF rejected THEN @ ELSE @ \ {a}]
  /\ batchFailed' = [batchFailed EXCEPT ![w] = @ \/ (rejected /\ a.batch)]
  /\ owed' = [owed EXCEPT ![w] = IF a.batch THEN @ \ {a.lease} ELSE @]

(* The attempt's promise settles.                                          *)
Settle(w, a, rejected) ==
  /\ inFlight' = [inFlight EXCEPT ![w] = @ \ {a}]
  /\ batchFailed' = [batchFailed EXCEPT ![w] = @ \/ (rejected /\ a.batch)]
  /\ owed' = [owed EXCEPT ![w] = IF a.batch THEN @ \ {a.lease} ELSE @]

(* operations.read: an answered attempt is replayed.                       *)
ReadReplay(w, a) ==
  /\ a.stage = "accepted"
  /\ IF Answered(a.lease) THEN Settle(w, a, FALSE) ELSE Advance(w, a, "unanswered")
  /\ UNCHANGED queue

(* jobs.read: the row must still be the one the lease was returned with.   *)
ReadSnapshot(w, a) ==
  /\ a.stage = "unanswered"
  /\ IF job[a.lease.job].phase = "leased" /\ job[a.lease.job].tries = a.lease.try
     THEN Advance(w, a, "processing")
     ELSE Settle(w, a, TRUE)
  /\ UNCHANGED queue

(* runProcessor ends: with a checked output, or with a retry (deadline,    *)
(* failure) or a dead verdict (contract).  The deadline timer always ends  *)
(* it.                                                                     *)
Process(w, a) ==
  /\ a.stage = "processing"
  /\ \E stage \in {"succeeding", "retrying", "burying"} : Advance(w, a, stage)
  /\ UNCHANGED queue

(* operations.execute finds the operation row already there: the same      *)
(* request is replayed, a different one is a conflict.                     *)
AnswerFound(w, a) ==
  /\ a.stage \in {"succeeding", "retrying", "burying"} /\ Answered(a.lease)
  /\ \E conflict \in BOOLEAN :
       /\ [lease |-> a.lease, status |-> StatusOf(a.stage)] \notin answers => conflict
       /\ Settle(w, a, conflict)
  /\ UNCHANGED queue

Answer(a) == answers' = answers \cup {[lease |-> a.lease, status |-> StatusOf(a.stage)]}

(* executeSuccess commits the business result, the row and the receipt.    *)
Succeed(w, a) ==
  /\ a.stage = "succeeding" /\ ~ Answered(a.lease) /\ Holds(a.lease)
  /\ job' = [job EXCEPT ![a.lease.job].phase = "succeeded"]
  /\ applied' = [applied EXCEPT ![a.lease.job] = @ + 1]
  /\ Answer(a)
  /\ Settle(w, a, FALSE)

(* commitAuthority throws: the transaction rolls back and the attempt is   *)
(* turned into a failure of its own.                                       *)
CommitRefused(w, a) ==
  /\ a.stage = "succeeding" /\ ~ Answered(a.lease)
  /\ \E stage \in {"retrying", "burying"} : Advance(w, a, stage)
  /\ UNCHANGED queue

(* executeFailure: a retry is due after the poll interval, at once when    *)
(* that has passed; the last try, or a dead verdict, ends the job.         *)
FailJob(w, a) ==
  /\ a.stage \in {"retrying", "burying"} /\ ~ Answered(a.lease) /\ Holds(a.lease)
  /\ \E due \in BOOLEAN :
       job' = [job EXCEPT ![a.lease.job] =
                 IF a.stage = "burying" \/ @.tries >= MaxAttempts[a.lease.job]
                 THEN [@ EXCEPT !.phase = "dead"]
                 ELSE [@ EXCEPT !.phase = "queued", !.due = due]]
  /\ Answer(a)
  /\ Settle(w, a, FALSE)
  /\ UNCHANGED applied

(* complete and fail refuse a lease that lapsed or was taken over: an      *)
(* infrastructure failure, never disguised as the processor's.             *)
LeaseLost(w, a) ==
  /\ a.stage \in {"succeeding", "retrying", "burying"}
  /\ ~ Answered(a.lease) /\ ~ Holds(a.lease)
  /\ Settle(w, a, TRUE)
  /\ UNCHANGED queue

AttemptStep(w, a) ==
  /\ \/ ReadReplay(w, a)
     \/ ReadSnapshot(w, a)
     \/ Process(w, a)
     \/ AnswerFound(w, a)
     \/ Succeed(w, a)
     \/ CommitRefused(w, a)
     \/ FailJob(w, a)
     \/ LeaseLost(w, a)
  /\ UNCHANGED <<up, loop, launched, admission, bounds>>

(* A busy or failing store rejects the attempt at any of its awaits.       *)
AttemptError(w, a) ==
  /\ faults + redeliveries < MaxMishaps /\ a.stage # "processing"
  /\ faults' = faults + 1
  /\ Settle(w, a, TRUE)
  /\ UNCHANGED <<queue, up, loop, launched, admission, signals, redeliveries>>

-----------------------------------------------------------------------------
(* SIGTERM or SIGINT: requestStop fences leasing.                          *)
Signal(w) ==
  /\ up[w] = "running" /\ signals < MaxSignals
  /\ up' = [up EXCEPT ![w] = "stopping"]
  /\ signals' = signals + 1
  /\ UNCHANGED <<queue, loop, launched, admission, inFlight, batchFailed, owed,
                 faults, redeliveries>>

(* A failed loop shuts its process down in the same order.                 *)
LoopFailed(w) ==
  /\ loop[w] = "failed" /\ up[w] = "running"
  /\ up' = [up EXCEPT ![w] = "stopping"]
  /\ UNCHANGED <<queue, loop, launched, admission, inFlight, batchFailed, owed, bounds>>

(* Seeded fault: the pending lease admission is not awaited.               *)
DrainedOfAttempts(w) == inFlight[w] = {}

(* stopNewWork has awaited the pending admission and drainInFlight every   *)
(* attempt: the database is closed and the process exits.                  *)
Drained(w) == admission[w] = NoLease /\ inFlight[w] = {}

Exit(w) ==
  /\ up' = [up EXCEPT ![w] = "down"]
  /\ loop' = [loop EXCEPT ![w] = "off"]
  /\ admission' = [admission EXCEPT ![w] = NoLease]
  /\ inFlight' = [inFlight EXCEPT ![w] = {}]
  /\ owed' = [owed EXCEPT ![w] = {}]
  /\ launched' = [launched EXCEPT ![w] = 0]
  /\ batchFailed' = [batchFailed EXCEPT ![w] = FALSE]

Close(w) ==
  /\ up[w] = "stopping" /\ Drained(w)
  /\ Exit(w)
  /\ UNCHANGED <<queue, bounds>>

Crash(w) ==
  /\ up[w] # "down" /\ faults + redeliveries < MaxMishaps
  /\ Exit(w)
  /\ faults' = faults + 1
  /\ UNCHANGED <<queue, signals, redeliveries>>

-----------------------------------------------------------------------------
Init ==
  /\ job = [j \in Jobs |-> [phase |-> "absent", tries |-> 0,
                            due |-> FALSE, lapsed |-> FALSE]]
  /\ answers = {}
  /\ applied = [j \in Jobs |-> 0]
  /\ up = [w \in Workers |-> "down"]
  /\ loop = [w \in Workers |-> "off"]
  /\ launched = [w \in Workers |-> 0]
  /\ admission = [w \in Workers |-> NoLease]
  /\ inFlight = [w \in Workers |-> {}]
  /\ batchFailed = [w \in Workers |-> FALSE]
  /\ owed = [w \in Workers |-> {}]
  /\ faults = 0 /\ signals = 0 /\ redeliveries = 0

LoopStep(w) ==
  \/ Ask(w)
  \/ LeaseGranted(w)
  \/ LeaseEmpty(w)
  \/ Launch(w)
  \/ CloseBatch(w)
  \/ SettleBatch(w)
  \/ PollAgain(w)
  \/ LoopFailed(w)
  \/ Close(w)

Next ==
  \/ \E j \in Jobs : Submit(j) \/ Due(j) \/ Lapse(j)
  \/ \E w \in Workers :
       \/ Start(w)
       \/ LoopStep(w)
       \/ LeaseError(w)
       \/ \E a \in inFlight[w] : AttemptStep(w, a)
       \/ \E a \in inFlight[w] : AttemptError(w, a)
       \/ \E j \in Jobs : \E t \in 1 .. job[j].tries :
            Redeliver(w, [job |-> j, try |-> t])
       \/ Signal(w)
       \/ Crash(w)

Leases == UNION {{[job |-> j, try |-> t] : t \in 1 .. MaxAttempts[j]} : j \in Jobs}

(* Time passes; the supervisor restarts a process that is down; the event  *)
(* loop of a running process serves its loop and every attempt, and the    *)
(* deadline timer ends every processor.  Nothing is assumed of signals,    *)
(* faults, redeliveries, or which way a step goes.                         *)
Fairness ==
  /\ \A j \in Jobs : WF_vars(Due(j)) /\ WF_vars(Lapse(j))
  /\ \A w \in Workers : WF_vars(Start(w)) /\ WF_vars(LoopStep(w))
  /\ \A w \in Workers, l \in Leases :
       WF_vars(\E a \in inFlight[w] : a.lease = l /\ AttemptStep(w, a))

Spec == Init /\ [][Next]_vars /\ Fairness
-----------------------------------------------------------------------------
TypeOK ==
  /\ job \in [Jobs -> [phase : {"absent", "queued", "leased", "succeeded", "dead"},
                       tries : Nat, due : BOOLEAN, lapsed : BOOLEAN]]
  /\ answers \subseteq [lease : LeaseName, status : Statuses]
  /\ applied \in [Jobs -> Nat]
  /\ up \in [Workers -> {"down", "running", "stopping"}]
  /\ loop \in [Workers -> {"off", "batch", "settle", "polling", "failed", "ended"}]
  /\ launched \in [Workers -> 0 .. BatchSize]
  /\ \A w \in Workers :
       /\ admission[w] \in [step : {"none", "asked", "granted"}, lease : SUBSET LeaseName]
       /\ inFlight[w] \subseteq Attempt
       /\ owed[w] \subseteq LeaseName
  /\ batchFailed \in [Workers -> BOOLEAN]

(* The recorded answer of an attempt and the fate of its job agree: a      *)
(* lease has one answer, a success or a dead verdict is the last word, and *)
(* a lease that is still held has none.                                    *)
AnswersAgree ==
  \A a \in answers :
    LET row == job[a.lease.job] IN
    /\ \A b \in answers : b.lease = a.lease => b = a
    /\ a.status = "succeeded" => row.phase = "succeeded" /\ row.tries = a.lease.try
    /\ a.status = "dead" => row.phase = "dead" /\ row.tries = a.lease.try
    /\ row.phase = "leased" => row.tries # a.lease.try

(* A process that stops in order abandons no lease it was granted: each    *)
(* one was answered, or its attempt was rejected, before the exit.         *)
StopsDrained ==
  [][\A w \in Workers :
       up[w] = "stopping" /\ up'[w] = "down" /\ faults' = faults
         => owed[w] = {}]_vars

(* Every submitted job reaches its end, although processes crash, stores   *)
(* fail, signals arrive and leases lapse.                                  *)
JobsSettle ==
  \A j \in Jobs :
    job[j].phase = "queued" ~> job[j].phase \in {"succeeded", "dead"}

(* A process told to stop exits.                                           *)
StopsEventually == \A w \in Workers : up[w] = "stopping" ~> up[w] = "down"

-----------------------------------------------------------------------------
(* The fleet keeps the contract of the queue with its own view of a row.   *)
PhaseOf(row) ==
  CASE row.phase = "absent" -> "none"
    [] row.phase = "queued" -> "waiting"
    [] row.phase = "leased" -> "running"
    [] row.phase = "succeeded" -> "done"
    [] row.phase = "dead" -> "dead"

ContractState ==
  [j \in Jobs |-> [phase |-> PhaseOf(job[j]), tries |-> job[j].tries,
                   effects |-> applied[j]]]

Promise == INSTANCE JobContract WITH contract <- ContractState

(* The processes together keep the contract of JobContract.                *)
KeepsContract == Promise!Spec
=============================================================================
