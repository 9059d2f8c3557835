---------------------------- MODULE DurableJobs ----------------------------
(***************************************************************************)
(* The durable job queue of the runtime: table durable_jobs, its SQL       *)
(* guards, and the store operations enqueue, leaseNext, complete and fail. *)
(*                                                                         *)
(* The module is about the store alone.  Callers are arbitrary: whoever    *)
(* was ever handed a lease may present it again, at any later time, any    *)
(* number of times, for success or for failure.  That covers a worker that *)
(* stalls past its lease, a crashed worker whose job was re-leased, and a  *)
(* redelivered completion.  Every operation is one IMMEDIATE transaction,  *)
(* so it is one action; a transaction that throws leaves no trace and is   *)
(* therefore no step at all.                                               *)
(*                                                                         *)
(* All jobs belong to one tenant and have one job kind: rows of other      *)
(* tenants and kinds are invisible to every query modelled here.           *)
(*                                                                         *)
(* Time is counted in milliseconds from 1; 0 stands for SQL NULL.  The     *)
(* wall clock is not a variable.  A reading of the authority clock is any  *)
(* value not below the persisted floor: the wall clock may stall, jump and *)
(* step back, and each process has a floor of its own above the persisted  *)
(* one.  Inside one transaction readings never decrease.                   *)
(***************************************************************************)
EXTENDS Integers, FiniteSets

CONSTANTS
  Jobs,          \* the dedupe keys of the queue; each names at most one row
  MaxAttempts,   \* max_attempts of each job
  Rank,          \* order among jobs available at the same instant:
                 \* priority DESC, scope ASC, job_id ASC
  LeaseMs,       \* lease_duration_ms the workers pass
  Horizon        \* bound: no operation commits at a time above it

ASSUME JobsAssumption ==
  /\ MaxAttempts \in [Jobs -> Nat \ {0}]
  /\ Rank \in [Jobs -> Nat]
  /\ \A j, k \in Jobs : Rank[j] = Rank[k] => j = k
  /\ LeaseMs \in Nat \ {0}
  /\ Horizon \in Nat

VARIABLES
  rows,          \* durable_jobs, one row per job
  receipts,      \* rows of operations with kind worker_completion
  grants,        \* every lease leaseNext ever returned to a caller
  nextToken,     \* lease tokens below this one have been drawn
  floor,         \* runtime_meta.authority_clock_floor_at
  applied        \* business commits made in worker_completion transactions

vars == <<rows, receipts, grants, nextToken, floor, applied>>

-----------------------------------------------------------------------------
Null == 0
Times == 1 .. Horizon

States == {"absent", "queued", "leased", "succeeded", "dead"}
Terminal == {"succeeded", "dead"}
Reasons == {"null", "worker_succeeded", "worker_dead",
            "lease_expired_attempts_exhausted"}
Outcomes == {"success", "retry", "dead"}

(* A row.  The lease columns are set and cleared together; completion and  *)
(* previous name the attempt whose worker_completion operation the columns *)
(* completion_operation_* and previous_completion_operation_* point to.    *)
Row == [state : States, attempt : Nat, initAvail : Nat, avail : Nat,
        token : Nat, acq : Nat, exp : Nat, completedAt : Nat,
        reason : Reasons, completion : Nat, previous : Nat,
        lastError : BOOLEAN, created : Nat, updated : Nat]

NoRow == [state |-> "absent", attempt |-> 0, initAvail |-> Null,
          avail |-> Null, token |-> Null, acq |-> Null, exp |-> Null,
          completedAt |-> Null, reason |-> "null", completion |-> Null,
          previous |-> Null, lastError |-> FALSE, created |-> Null,
          updated |-> Null]

(* What a caller holds after leaseNext returned.                           *)
Lease == [job : Jobs, attempt : Nat, token : Nat, acq : Nat, exp : Nat]

(* A worker_completion operation row.  Its id is derived from the job and  *)
(* the attempt, so at most one exists per attempt.  Its result names the   *)
(* completion before it.                                                   *)
Receipt == [job : Jobs, attempt : Nat, outcome : Outcomes, previous : Nat,
            at : Nat]

HasReceipt(j, a) == \E r \in receipts : r.job = j /\ r.attempt = a

(* The stored result of a worker completion.                               *)
PersistedReceipt(j, a) == CHOOSE r \in receipts : r.job = j /\ r.attempt = a

(* The values authorityNow can return to a fresh transaction.              *)
Readings == {c \in Times : c >= floor}

(* The values mintAuthorityTime(after) can return and persist when the     *)
(* last reading of the transaction was lo: the new reading, or after + 1   *)
(* when that is not above after.                                           *)
Minted(lo, after) == {t \in Times : t >= lo /\ t > after}

MaxOf(a, b) == IF a >= b THEN a ELSE b

-----------------------------------------------------------------------------
(* enqueue: a new dedupe key inserts the row; a known one returns the      *)
(* idempotent receipt or a conflict and never touches the stored row.      *)
Enqueue(j, requested) ==
  /\ rows[j].state = "absent"
  /\ \E t \in Minted(floor, Null) :
       LET at == MaxOf(requested, t) IN
       /\ rows' = [rows EXCEPT ![j] =
                     [NoRow EXCEPT !.state = "queued", !.initAvail = at,
                                   !.avail = at, !.created = t, !.updated = t]]
       /\ floor' = t
  /\ UNCHANGED <<receipts, grants, nextToken, applied>>

(* Rows the recovery query of leaseNext selects, and the order in which it *)
(* walks them.                                                             *)
Expired(clock) == {j \in Jobs : rows[j].state = "leased" /\ rows[j].exp <= clock}

RecoveredBefore(j, k) ==
  \/ rows[j].exp < rows[k].exp
  \/ rows[j].exp = rows[k].exp /\ Rank[j] <= Rank[k]

Exhausted(j) == rows[j].attempt >= MaxAttempts[j]

(* transitionExpiredLease(row) at the minted time t.                       *)
Recovered(j, t) ==
  LET exhausted == Exhausted(j) IN
  [rows[j] EXCEPT
     !.state = IF exhausted THEN "dead" ELSE "queued",
     !.avail = IF exhausted THEN @ ELSE t,
     !.token = Null, !.acq = Null, !.exp = Null,
     !.completedAt = IF exhausted THEN t ELSE Null,
     !.reason = IF exhausted THEN "lease_expired_attempts_exhausted" ELSE "null",
     !.lastError = TRUE,
     !.updated = t]

(* Seeded fault: the mint follows a wall clock that stepped back.          *)
RecoveryTimesBackward(E, clock) ==
  {at \in [E -> Times] :
     /\ \A j \in E : at[j] \in Minted(floor, rows[j].updated)
     /\ \A j, k \in E : RecoveredBefore(j, k) => at[j] <= at[k]}

(* The minted recovery times: none is below the reading that found the     *)
(* leases expired, each is above the row's last update, and they follow    *)
(* the walk.                                                               *)
RecoveryTimes(E, clock) ==
  {at \in [E -> Times] :
     /\ \A j \in E : at[j] \in Minted(clock, rows[j].updated)
     /\ \A j, k \in E : RecoveredBefore(j, k) => at[j] <= at[k]}

AfterRecovery(at) ==
  [j \in Jobs |-> IF j \in DOMAIN at THEN Recovered(j, at[j]) ELSE rows[j]]

(* The last reading after the walk: its last minted time.                  *)
LastReading(at, clock) ==
  IF DOMAIN at = {} THEN {clock}
  ELSE {t \in Times : /\ \E j \in DOMAIN at : t = at[j]
                      /\ \A j \in DOMAIN at : at[j] <= t}

(* Seeded fault: a dead job with attempts left is leased again.            *)
LeasableDead(R, j, clock) ==
  /\ R[j].state \in {"queued", "dead"}
  /\ R[j].attempt < MaxAttempts[j]
  /\ R[j].avail <= clock

Leasable(R, j, clock) ==
  /\ R[j].state = "queued"
  /\ R[j].attempt < MaxAttempts[j]
  /\ R[j].avail <= clock

(* ORDER BY available_at ASC, priority DESC, scope ASC, job_id ASC LIMIT 1 *)
IsCandidate(R, j, clock) ==
  /\ Leasable(R, j, clock)
  /\ \A k \in Jobs : Leasable(R, k, clock) =>
       \/ R[j].avail < R[k].avail
       \/ R[j].avail = R[k].avail /\ Rank[j] <= Rank[k]

(* The leased row.                                                         *)
Granted(row, tok, t) ==
  [row EXCEPT !.state = "leased", !.attempt = @ + 1, !.token = tok,
              !.acq = t, !.exp = t + LeaseMs, !.completedAt = Null,
              !.updated = t]

AcquireTimes(R, lo, j) == Minted(lo, R[j].updated)

(* leaseNext with a candidate: every expired lease is recovered, then the  *)
(* first available job is leased, in one transaction.                      *)
LeaseNext ==
  \E clock \in Readings :
    \E at \in RecoveryTimes(Expired(clock), clock) :
      \E j \in Jobs :
        LET R == AfterRecovery(at) IN
        /\ IsCandidate(R, j, clock)
        /\ \E lo \in LastReading(at, clock), t \in Times :
             /\ t \in AcquireTimes(R, lo, j)
             /\ rows' = [R EXCEPT ![j] = Granted(@, nextToken, t)]
             /\ grants' = grants \cup
                  {[job |-> j, attempt |-> R[j].attempt + 1, token |-> nextToken,
                    acq |-> t, exp |-> t + LeaseMs]}
             /\ nextToken' = nextToken + 1
             /\ floor' = t
             /\ UNCHANGED <<receipts, applied>>

(* leaseNext without a candidate still commits the recoveries it made.     *)
RecoverOnly ==
  \E clock \in Readings :
    \E at \in RecoveryTimes(Expired(clock), clock) :
      LET R == AfterRecovery(at) IN
      /\ DOMAIN at # {}
      /\ \A j \in Jobs : ~ Leasable(R, j, clock)
      /\ rows' = R
      /\ floor' \in LastReading(at, clock)
      /\ UNCHANGED <<receipts, grants, nextToken, applied>>

-----------------------------------------------------------------------------
(* Seeded fault: any lease of a leased job is accepted.                    *)
AcceptsAnyToken(g, clock) ==
  /\ ~ HasReceipt(g.job, g.attempt)
  /\ rows[g.job].state = "leased"
  /\ rows[g.job].exp > clock

(* The checks complete and fail make on a presented lease g, read against  *)
(* a clock reading.  An attempt that already has its operation row is      *)
(* answered from that row before any of this and changes nothing.          *)
Accepts(g, clock) ==
  /\ ~ HasReceipt(g.job, g.attempt)
  /\ rows[g.job].state = "leased"
  /\ rows[g.job].token = g.token
  /\ rows[g.job].exp > clock

(* The row after a worker transition by lease g at time t: the lease       *)
(* columns are cleared and the completion lineage shifts by one.           *)
Closed(g, t) ==
  [rows[g.job] EXCEPT
     !.token = Null, !.acq = Null, !.exp = Null,
     !.previous = rows[g.job].completion, !.completion = g.attempt,
     !.updated = t]

(* The outcome a result states, by the state of the row.                   *)
OutcomeOf(state) == CASE state = "succeeded" -> "success"
                      [] state = "queued" -> "retry"
                      [] OTHER -> "dead"

(* The operation row, written last: completed_at is minted once more and   *)
(* the whole transaction fails when it passes the end of the lease, less   *)
(* one millisecond.                                                        *)
ReceiptTimes(g, t) == {r \in Minted(t, Null) : r <= rows[g.job].exp - 1}

(* Seeded fault: the lineage columns are swapped.                          *)
TransitionSwapped(row) == [outcome |-> OutcomeOf(row.state), previous |-> row.completion]

(* The result is derived from the row the transition wrote.                *)
Transition(row) == [outcome |-> OutcomeOf(row.state), previous |-> row.previous]

Record(g, closed, r) ==
  /\ receipts' = receipts \cup
       {[job |-> g.job, attempt |-> g.attempt,
         outcome |-> Transition(closed).outcome,
         previous |-> Transition(closed).previous, at |-> r]}
  /\ floor' = r

(* The producer of a successful worker_completion: commitAuthority writes  *)
(* the business result, complete closes the row, the receipt follows.      *)
Complete(g) ==
  \E clock \in Readings :
    /\ Accepts(g, clock)
    /\ \E t \in Minted(clock, rows[g.job].updated) :
         LET closed == [Closed(g, t) EXCEPT !.state = "succeeded",
                          !.completedAt = t, !.reason = "worker_succeeded",
                          !.lastError = FALSE]
         IN
         /\ t < rows[g.job].exp
         /\ rows' = [rows EXCEPT ![g.job] = closed]
         /\ applied' = [applied EXCEPT ![g.job] = @ + 1]
         /\ \E r \in ReceiptTimes(g, t) : Record(g, closed, r)
         /\ UNCHANGED <<grants, nextToken>>

(* fail: a retry re-queues the job no earlier than the retry time, the     *)
(* transition and the initial availability; a dead disposition, or a retry *)
(* of the last attempt, ends it.                                           *)
Fail(g, disposition, retryAt) ==
  \E clock \in Readings :
    /\ Accepts(g, clock)
    /\ \E t \in Minted(clock, rows[g.job].updated) :
         LET job == rows[g.job]
             dead == disposition = "dead" \/ job.attempt >= MaxAttempts[g.job]
             closed == [Closed(g, t) EXCEPT
                          !.state = IF dead THEN "dead" ELSE "queued",
                          !.avail = IF dead THEN @
                                    ELSE MaxOf(MaxOf(retryAt, t), job.initAvail),
                          !.completedAt = IF dead THEN t ELSE Null,
                          !.reason = IF dead THEN "worker_dead" ELSE "null",
                          !.lastError = TRUE]
         IN
         /\ t < job.exp
         /\ rows' = [rows EXCEPT ![g.job] = closed]
         /\ \E r \in ReceiptTimes(g, t) : Record(g, closed, r)
         /\ UNCHANGED <<grants, nextToken, applied>>

-----------------------------------------------------------------------------
Init ==
  /\ rows = [j \in Jobs |-> NoRow]
  /\ receipts = {}
  /\ grants = {}
  /\ nextToken = 1
  /\ floor = 1
  /\ applied = [j \in Jobs |-> 0]

Next ==
  \/ \E j \in Jobs, requested \in Times : Enqueue(j, requested)
  \/ LeaseNext
  \/ RecoverOnly
  \/ \E g \in grants : Complete(g)
  \/ \E g \in grants, retryAt \in Times : Fail(g, "retry", retryAt)
  \/ \E g \in grants : Fail(g, "dead", Null)

Spec == Init /\ [][Next]_vars

-----------------------------------------------------------------------------
TypeOK ==
  /\ rows \in [Jobs -> Row]
  /\ receipts \subseteq Receipt
  /\ grants \subseteq Lease
  /\ nextToken \in Nat
  /\ floor \in Nat
  /\ applied \in [Jobs -> Nat]

(* decodeRow, what it demands of the counts and times of a row.            *)
CountsDecode(j, row) ==
  /\ row.attempt <= MaxAttempts[j]
  /\ row.created <= row.updated
  /\ row.created <= row.initAvail /\ row.initAvail <= row.avail

(* ... of its two completions: a previous one needs a last one, another.   *)
LineageDecodes(row) ==
  row.previous # Null => row.completion \notin {Null, row.previous}

(* ... and of the columns that go with its state.                          *)
StateDecodes(j, row) ==
  LET leased == row.state = "leased"
      terminal == row.state \in Terminal
  IN
  /\ leased <=> row.token # Null
  /\ leased <=> row.exp # Null
  /\ leased => /\ row.exp > row.acq
               /\ row.updated = row.acq
               /\ row.avail <= row.acq
               /\ row.lastError <=> row.attempt > 1
  /\ terminal <=> row.completedAt # Null
  /\ terminal => row.updated = row.completedAt /\ row.avail <= row.completedAt
  /\ ~ terminal => row.reason = "null"
  /\ row.state = "succeeded" => /\ ~ row.lastError
                                /\ row.reason = "worker_succeeded"
                                /\ row.completion # Null
  /\ row.state = "dead" =>
       /\ row.lastError
       /\ \/ row.reason = "worker_dead" /\ row.completion # Null
          \/ /\ row.reason = "lease_expired_attempts_exhausted"
             /\ row.attempt = MaxAttempts[j]
  /\ row.state = "queued" =>
       /\ row.attempt < MaxAttempts[j]
       /\ IF row.attempt = 0
          THEN /\ row.updated = row.created /\ row.avail >= row.created
               /\ row.avail = row.initAvail
               /\ ~ row.lastError /\ row.completion = Null
          ELSE row.lastError /\ row.avail >= row.updated
  /\ leased \/ terminal => row.attempt >= 1

(* No row the operations write is one decodeRow would reject as corrupt:   *)
(* a rejected row would block its own recovery, and through the recovery   *)
(* walk of leaseNext every other job of its kind, for good.                *)
Decodable(j, row) ==
  CountsDecode(j, row) /\ LineageDecodes(row) /\ StateDecodes(j, row)

RowEnvelope == \A j \in Jobs : Decodable(j, rows[j])

(* The business result of a job is committed at most once however often a  *)
(* completion is presented, and exactly when the row says it succeeded.    *)
AppliedOnce ==
  \A j \in Jobs :
    /\ applied[j] = IF rows[j].state = "succeeded" THEN 1 ELSE 0
    /\ rows[j].state = "succeeded" =>
         \E r \in receipts : r.job = j /\ r.outcome = "success"
                             /\ r.attempt = rows[j].attempt

(* Two leases of one job never overlap in authority time: the later one    *)
(* starts after the earlier one expired or was handed back for a retry.    *)
LeasesDisjoint ==
  \A g, h \in grants :
    g.job = h.job /\ g.attempt < h.attempt =>
      \/ h.acq >= g.exp
      \/ \E r \in receipts : /\ r.job = g.job /\ r.attempt = g.attempt
                            /\ r.outcome = "retry" /\ r.at <= h.acq

(* A worker_completion row is the word of the attempt that held the lease: *)
(* it lies inside that lease, and every later lease starts after it.       *)
ReceiptInsideLease ==
  \A r \in receipts : \E g \in grants :
    /\ g.job = r.job /\ g.attempt = r.attempt
    /\ g.acq < r.at /\ r.at < g.exp
    /\ \A h \in grants : h.job = r.job /\ h.attempt > r.attempt => r.at <= h.acq

(* The lineage columns of a row name its last two worker completions:      *)
(* leases lost to expiry in between leave no gap and no duplicate.         *)
CompletionLineage ==
  \A j \in Jobs :
    LET done == {r.attempt : r \in {x \in receipts : x.job = j}}
        Last(S) == IF S = {} THEN Null
                   ELSE CHOOSE a \in S : \A b \in S : b <= a
    IN /\ rows[j].completion = Last(done)
       /\ rows[j].previous = Last(done \ {Last(done)})

(* The retry budget: leases are handed out for attempts 1, 2, ... in turn, *)
(* never more than max_attempts, and a job is only declared exhausted      *)
(* after that many leases, the last of which was never answered.           *)
RetryBudget ==
  \A j \in Jobs :
    /\ {g.attempt : g \in {x \in grants : x.job = j}} = 1 .. rows[j].attempt
    /\ rows[j].attempt <= MaxAttempts[j]
    /\ rows[j].reason = "lease_expired_attempts_exhausted" =>
         /\ rows[j].attempt = MaxAttempts[j]
         /\ ~ HasReceipt(j, rows[j].attempt)

(* A stored completion is not answered as it stands: it is looked for from *)
(* the job row back along the completions each result names, every one of  *)
(* an earlier attempt than the last.  The walk is the set of attempts this *)
(* visits; as it only goes down, it ends at the one that is looked for.    *)
Reads(j, a) ==
  \E walk \in SUBSET (1 .. rows[j].attempt) :
    /\ rows[j].completion \in walk
    /\ \A c \in walk :
         /\ HasReceipt(j, c)
         /\ c # a => LET before == PersistedReceipt(j, c).previous
                     IN before < c /\ before \in walk

(* Every completion can be read back, whatever became of its job since:    *)
(* the replay that finds it otherwise fails at each delivery.              *)
ReceiptsReadBack == \A r \in receipts : Reads(r.job, r.attempt)

-----------------------------------------------------------------------------
(* The transitions trigger durable_jobs_transition_guard lets through.     *)
LineageKept(old, new) ==
  new.completion = old.completion /\ new.previous = old.previous

LineageShifted(old, new) ==
  new.completion # Null /\ new.previous = old.completion

TransitionAllowed(j, old, new) ==
  /\ new.initAvail = old.initAvail /\ new.created = old.created
  /\ new.updated > old.updated
  /\ \/ /\ old.state = "queued" /\ new.state = "leased"
        /\ new.attempt = old.attempt + 1 /\ new.avail = old.avail
        /\ LineageKept(old, new) /\ new.lastError = old.lastError
     \/ /\ old.state = "leased" /\ new.state = "queued"
        /\ new.attempt = old.attempt /\ new.attempt < MaxAttempts[j]
        /\ new.avail >= new.updated /\ new.lastError
        /\ \/ new.updated >= old.exp /\ LineageKept(old, new)
           \/ new.updated < old.exp /\ LineageShifted(old, new)
     \/ /\ old.state = "leased" /\ new.state \in Terminal
        /\ new.attempt = old.attempt /\ new.avail = old.avail
        /\ \/ /\ new.reason \in {"worker_succeeded", "worker_dead"}
              /\ new.completedAt < old.exp /\ LineageShifted(old, new)
           \/ /\ new.reason = "lease_expired_attempts_exhausted"
              /\ new.attempt = MaxAttempts[j]
              /\ new.completedAt >= old.exp /\ LineageKept(old, new)

(* Every change of a stored row is one the trigger accepts, or two of them *)
(* when leaseNext recovers a row and leases it again.  So no operation is  *)
(* vetoed by its own schema, and a finished job never changes again.       *)
RowTransitions ==
  [][\A j \in Jobs :
       rows[j].state # "absent" /\ rows'[j] # rows[j] =>
         \/ TransitionAllowed(j, rows[j], rows'[j])
         \/ \E t \in Times : /\ TransitionAllowed(j, rows[j], Recovered(j, t))
                            /\ TransitionAllowed(j, Recovered(j, t), rows'[j])]_vars

(* The store never stands in its own way: whatever leases are presented in *)
(* whatever order, decodeRow finds each row, with the receipts its columns *)
(* name, in order and open to be read back, and the trigger lets every     *)
(* transition pass.                                                        *)
RowsStaySound ==
  /\ [](/\ RowEnvelope /\ ReceiptInsideLease /\ CompletionLineage
        /\ RetryBudget /\ ReceiptsReadBack)
  /\ RowTransitions

-----------------------------------------------------------------------------
(* The queue as its contract sees it.                                      *)
PhaseOf(row) ==
  CASE row.state = "absent" -> "none"
    [] row.state = "queued" -> "waiting"
    [] row.state = "leased" -> "running"
    [] row.state = "succeeded" -> "done"
    [] row.state = "dead" -> "dead"

ContractState ==
  [j \in Jobs |-> [phase |-> PhaseOf(rows[j]), tries |-> rows[j].attempt,
                   effects |-> applied[j]]]

Promise == INSTANCE JobContract WITH contract <- ContractState

(* The queue keeps the contract of JobContract under arbitrary callers.    *)
KeepsContract == Promise!Spec
=============================================================================
