# TLA+ models of the Aionis Continuation Runtime

This directory holds TLA+ specifications of the runtime under `src/src`, the
TLC configurations that check them on small instances, and proofs, checked by
TLAPS, that the most important properties hold for every instance.

Every definition is translated from the code. The architecture document
(`docs/architecture/AIONIS_CONTINUATION_RUNTIME_V1.md`) and the tests were read
beside it; where they disagree with the code the disagreement is recorded as a
finding or a divergence (below).

## The system

One SQLite database ("the authority") is shared by a daemon process, worker
processes and a command line. All durable state changes happen in `IMMEDIATE`
transactions that run to their end or leave nothing behind; nothing else is
shared between processes. Inside a process everything runs on one event loop,
so what interleaves is *transactions of different processes* and *code between
two awaits of different promises of one process*.

| Component | State it keeps | Operations | Interacts with | What is hard | What makes it correct |
|---|---|---|---|---|---|
| Durable job queue (`continuation-runtime-v1-durable-job-store.ts`, `-enqueuer.ts`) | `durable_jobs` rows, `worker_completion` operations | enqueue, leaseNext (recovers expired leases first), complete, fail | called by the worker service; jobs come from observation, provisioning and assignment transactions | stale leases, lapse against a late answer, a wall clock that steps back, retry budget | business result at most once, leases exclusive, receipts inside leases, no row the store itself rejects |
| Worker service and process (`worker-service.ts`, `worker-entry.ts`, `worker-composition.ts`) | in-flight attempts, the pending lease admission, stop flag | poll, batch, attempt, replay, stop, drain | queue, operation store, processors | stop during a lease call, crash between awaits, duplicate delivery | no lease stranded by an orderly stop; answers agree with rows; every job ends |
| Authority branches (`-authority-workflows.ts`, `-authority-store.ts`, `-cohort-freeze.ts`, ...) | `branch_revisions`, `branch_heads` | record_observations (drafts), advance, terminate, merge, revert, rotate | memory lifecycle, cohorts and certificates | decisions on a moving head, freeze while an experiment runs, late certificates | nothing serves that was not measured; merges atomic; capacity; only active memories are published |
| Experiment cohorts and effect certificates (`-experiment-cohort-authority.ts`, `-effect-*.ts`, `effect-worker-processor.ts`) | cohort artifacts, assignments, certificates | install, assign, settle, certify | branches, episodes, worker (settlement job) | windows and cutoffs, overlap, late evidence, a census read outside the transaction that stores it | one certificate per cohort, written after its cutoff, for the pair it was installed for, over its complete census |
| Memory lifecycle (`-memory-store.ts`, `-memory-history.ts`, `-memory-row-verification.ts`) | the chain of commits, `memory_items`, capsule revisions, serving projection | record, suppress, restore, quarantine, archive | branches (bindings), the compiler, retention | tables that later operations overwrite; audits that see only the chain; re-recording a withdrawn id | the tables are what the chain replays to; what an operator decided holds |
| Operation store (`-operation-store.ts`, `-operation-result-*.ts`) | `operations` | execute (produce once), read, replay | every command | the same operation presented twice, a receipt derived again after the tables moved on | one result per operation id, the same request replayed, another refused |
| Authority clock (`-database.ts`) | persisted floor, process floor | authorityNow, mintAuthorityTime | every transaction | wall clock steps back; several processes; rollback and restart | never below an earlier commit of any process; a commit is visible to its caller, a rollback leaves no trace |
| Transaction runner (`sqlite-transaction-runner.ts`) | the line of tasks, the owner of the open transaction, the seal | run, read, join, seal and close | all stores and the clock of one process | asynchronous bodies on one connection, contexts that outlive their transaction, close against callers in line | nobody runs in a transaction of another; every call is answered; close is final |
| Process lifecycle (`process-lifecycle.ts`, `daemon-composition.ts`, `worker-composition.ts`) | phase, first error, deadline | start, signal, stop, drain, close, exit | daemon, worker, transaction runner | shutdown deadline against phases still running, kills anywhere | nothing is closed under accepted work; a restart recovers |
| Database file (`-database.ts`, `-schema.ts`) | the SQLite file with its sidecars | claim, bootstrap, preflight, open, close | daemon and workers, started in any order | two processes that find the path missing, a bootstrap cut off | who is connected is connected to one whole file |
| Episodes and outcomes (`-episode-store.ts`) | `episode_events`: exposures, uses, outcomes, effect events | create_continuation, record_outcome, readDecision | settlement census | three times per operation (compile, event, receipt) against two windows | the census of a cohort does not change past its cutoff |
| Compiler (`compiler.ts`, `candidate-retrieval.ts`, `selection-evaluation.ts`, `contract-verifier.ts`, `renderer.ts`, `decision-assembly.ts`) | none (pure) | retrieve, evaluate, select, try arms, compile, render, verify | decision reader, episodes | limits, ties, dependency closure, an arm refused after it was assigned | what is binding is kept; `execute` is sound; nothing useful is left out |
| Vector artifacts, ANN segments, retention | directories beside the database | embed, write, build, verify, collect | worker, job queue | a crash between file and row, readers beside a collector, attempts past their lease | what a job answered for is on disk; writers are not collected |
| Signed artifacts, policies and provisioning | installed artifacts, pins of revisions and decisions | install, rotate, install a cohort | branches, cohorts, readiness | instants compared in several places, expiry while pinned | history stays readable; an installed experiment can be served and settled |
| HTTP daemon and SDK (`http-server.ts`, `http-handlers.ts`, `sdk.ts`) | in-flight requests | admit, answer, drain | all of the above | answers lost, retries, shutdown | an answer is the stored receipt |
| Configuration, authentication, command grammar, text rendering | none | parse, format | all of the above | – | – |

`PROJECT.json` lists the same components with their files and states, and every
hazard at the line where it bites, with the properties that would catch it.

## Modules

| Module | Models | Composes / refines |
|---|---|---|
| `DurableJobs` | the queue alone, with the authority clock, under arbitrary callers | implements `JobContract` |
| `JobContract` | the abstract promise of the queue, without clocks, leases or receipts | – |
| `WorkerFleet` | several worker processes over the queue, every await a step | implements `JobContract` |
| `AuthorityBranches` | the authority of one subject: revisions, candidates, cohorts, certificates, memory lifecycle | – |
| `AuthorityConnection` | the one connection of each process (line, joining, close) and the clock floors of several processes | – |
| `Episodes` | the ledger of exposures and outcomes of one cohort, and its settlement from lease to certificate | – |
| `EffectEvaluation` | the verdict on a census: intervals, differences, thresholds | extended by `Episodes` |
| `MemoryLedger` | the commit chain of a scope, the tables it projects to, their replay, the candidates a decision is compiled from | – |
| `Operations` | the operations over that memory: receipts derived from tables, replays, decisions, audits, counterfactuals | extends `MemoryLedger` |
| `CandidateRetrieval`, `SelectionEvaluation`, `DecisionAssembly` | one decision from its candidates to the verified exposure | each extends the one before |
| `Sidecars` | embedding, ann and retention attempts over the two file stores | – |
| `DatabaseFile`, `Deployment` | the file and its opening; the processes over it, from start to exit, and their clients | `Deployment` extends `DatabaseFile` and implements `OperationContract` |
| `OperationContract` | the abstract promise to a client, without processes, retries or receipts | – |
| `Policies` | the signed policies of a subject, their validity, and what is pinned to them | – |
| `DurableJobsProofs`, `WorkerFleetProofs`, `AuthorityBranchesProofs`, `EpisodesProofs`, `DecisionAssemblyProofs`, `OperationsProofs`, `PoliciesProofs`, `DeploymentProofs` | theorems and proofs | extend their component; `WorkerFleetProofs` also `Sidecars`, `AuthorityBranchesProofs` also `AuthorityConnection` |
| `MC*` | constants for TLC | extend their component |

A few definitions begin with "Seeded fault". They are mutated forms of the
definition that follows and are used by nothing: each property is known to fail
when its mutated form replaces the real one (`PROJECT.json`, "mutants").

### DurableJobs

`rows` is the table `durable_jobs`; a row has the columns the store's
transitions read or write (state, attempt_count, available_at, the lease
columns, the completion lineage, whether last_error is set). `receipts` are the
`operations` rows of kind `worker_completion`; `applied` counts commits of the
business result that `commitAuthority` writes in the same transaction. `grants`
remembers every lease that `leaseNext` ever returned: it is what makes callers
arbitrary, since `Complete` and `Fail` may be called with any of them, at any
time and any number of times.

One transaction is one action. `LeaseNext` is the whole of `leaseNext`: the
recovery walk over all expired leases, in its `ORDER BY`, then the selection
and the grant; `RecoverOnly` is the same call when nothing is leasable, which
still commits its recoveries. `Complete` and `Fail` include the receipt that
the operation store writes at their end, with the mint that must still lie
inside the lease.

*Time.* The wall clock is not a variable. A reading is any time not below the
persisted floor, so the clock may stall, jump or step back; inside a
transaction the process floor keeps readings monotonic. Only the persisted
floor and the times in rows are state.

*Left out.* Job payloads and error digests; other tenants and kinds (no query
crosses them); the length of a lease is one constant.

A receipt is read back the way the code does it: not from the row alone but from
the job, back along the completions each stored result names (`Reads`; the walk is
the set of attempts it visits, which can only go down). A result
is derived from the row the transition has just written (`Transition`). What
`decodeRow` asks of a row is in three parts: its numbers (`CountsDecode`), its
lineage (`LineageDecodes`) and what its state requires (`StateDecodes`).

### WorkerFleet

The queue without the clock: a queued job is due or not, a lease has lapsed or
not. `up`, `loop`, `launched`, `admission`, `inFlight`, `batchFailed` are the
state of each process (`runUntilStopped`, `leaseAndLaunch`, `inFlight` and
`pendingLeaseAdmission` of the worker service). Each await of an attempt is a
boundary: `ReadReplay`, `ReadSnapshot`, `Process`, then one of `Succeed`,
`CommitRefused`, `FailJob`, `LeaseLost`, `AnswerFound`. Processors are one step
with any outcome here; `Sidecars` and `Episodes` model them. `Crash` discards
the process, `LeaseError` and `AttemptError` are a busy or failing store.
`Redeliver` is a caller of `processLeasedJob` with a lease from earlier. `owed`
is a history variable: the leases granted to this incarnation that have not been
settled.

### AuthorityBranches

The authoritative branch is a sequence `auth` of revisions, so the head is its
last element and its revision number the length. Candidates are kept as their
latest row. `cohort` is a cohort artifact with its position in time, the arms it
has served and its certificate. `life` is the lifecycle of each memory.

* `Record` is `record_observations` with its lazily created genesis and the
  draft of a candidate; `Advance`, `Terminate`, `Merge`, `Revert`, `Rotate` are
  the operator commands with their whole guards (base comparison, transition
  table, freeze, capacity, writability, certificate).
* A merge mints two times: `mergeCandidate` asks for a freeze at `candidateAt`
  and stamps the new revision and head with a strictly later `authorityAt`, at
  which the triggers judge. `Merge` therefore moves the cohorts too, by one
  instant of one cohort or not at all (`Passages`), and has two outcomes: it
  commits, or the window of another candidate's cohort on the same head has
  opened and the trigger rolls it back (`FreezingMerge`). The history variable
  `aborted` keeps what was rolled back and why. More instants between the two
  times would add nothing: those before `authorityAt` can pass before the merge,
  and those that freeze nothing after it. `Revert` and `Rotate` mint once
  (`authority-workflows.ts:634`, `policy-rotation-store.ts:147`).
* Decisions carry the head they were taken on and are refused when it moved.
  The refused ones change nothing, so the actions are the decisions on the
  current head.
* `Freezes` is `continuationRuntimeV1ActiveCohortFreeze`: from the opening of
  the window up to and including the cutoff instant.
* `Certify` is the settlement. Its statistics are abstracted to a verdict; what
  is kept is that no verdict admits a cohort that did not serve both arms, that
  it happens from the cutoff on, and that it consults neither the head nor the
  candidate.

* `SchemaAdmits` states the triggers of the schema (immutability, manifests,
  transition table, certificates, freezes, head guards, capacity) of a step,
  apart from the checks of the workflows; the freeze of a revision and its head is
  judged at the later time of a merge (`HeadFreezeGuard`), that of the merged
  candidate at the earlier one (`MergeFreezeGuard`). `PublishesLawfully` says
  that what the workflows commit satisfies the triggers, that every published
  binding is of a memory active at that moment, and that only one decision dies
  in a trigger (`AbortedByOpening`): a merge between whose two times the window
  of a cohort that measures another active candidate against the same head
  opens. Nothing of it stays.

*Left out.* Contents and revisions of capsules (a binding is a disposition per
memory); expiry of capsules; the three ways to end a candidate (rejected,
quarantined, expired) are one state; all processes judge the stage of a cohort
by one clock.

### AuthorityConnection

The other modules take for granted that a transaction is one step and that time
only grows. This module is about why they may: it models what is below them.

A *call* is one use of `withTx`, `read` or `close`; `Inside` says from which
transaction body it is made, which is what the AsyncLocal context tells the
runner. `status` is where the call stands, `queue` the chain of promises behind
`tail`, `owner` is `activeOwner`. The steps of a call lie between its awaits:
`Issue` (join, queue or be refused), `Start`, `Begin` or `BeginBusy`, then
`Commit` or `Rollback`, and `AfterCommit`, which runs when the line is already
released. A call made with the context of a transaction that is over is
possible (`Issue` allows it) and queues like any other.

`floor` is the column of `runtime_meta`, `tentative` what an open transaction
sees there, `localFloor` the floor of a process. `observed` is a history
variable, the latest wall clock reading of a process; every reading may be any
instant. `Crash` discards the process and its open transaction, `Reopen` is a
new process with the committed floor; it needs the write lock because opening
checks the file in an `IMMEDIATE` transaction.

*Left out.* The retry of `BEGIN` (an option no caller passes) and the hooks and
phases that only tests use; a close from inside a transaction, which is
refused, and a second close, which returns the promise of the first; a read
made from inside a queued read, which would wait for itself and which the code
does not do; a nested transaction that its body does not await.

### Episodes

The evidence of one cohort and the job that settles it. `exposure[d].at` and
`outcome[d]` are the `created_at` of the events of a decision, 0 when there is
none; `exposure[d].cohort` says that it carries the cohort reference. `job` is
the row of the settlement job as far as a settlement depends on it, `worker[w]`
what a worker holds in memory: the attempt and time of its lease (`try`, `at`),
the decisions it has read (`read`) and the census so far. `certificate` stands
for the row and its effect events; `terms` for what was installed and varies:
the expiry of the cohort artifact and the limit of the evidence policy.

`CreateContinuation` and `RecordOutcome` are the two operations of hosts, with
the several times each of them mints: compile time, event, receipt. A
settlement is `LeaseQueued`, `BeginCensus`, one `ReadMember` per decision,
`FinishCensus`, and `Certify` or `Refuse`, which are the completion transaction;
a failure is reported by `ReportFailure` in a transaction of its own.
`StorageTrouble`, `Crash`, `Abandon` and `Recover` are what comes between.

`certificate` holds the census, the effect events and the receipt, each with its
time. `Hydrates` is the reading back of a stored certificate: the census binds
the decisions of the effect events (`Binds`), the material is selected from the
ledger again, as it has grown since (`MaterialStands`), the receipt names the
effect events (`ReceiptStands`), and every effect event was caused by the
terminal event of its decision.

*Abstracted.* `EpisodeOf` is the episode of a decision. Whether the pair of a
cohort is still current and the host eligible is left open (`Assignments`):
inside the window a decision may be assigned or not. Arms and outcome values
decide the verdict and nothing else here. `record_outcome` resolves its decision
in a read of its own before its transaction; `exposure[d].resolvable` stands for
a request that did so while the episode could be read, and may be applied at any
later time. Tampering with rows, bad signatures and keys, which the code checks
throughout, are not modelled; of the reading back of a certificate the
verification of the installed artifacts and the clock reading of its caller are
left out. The queue is reduced to one job; its clock,
ordering and receipts are the subject of `DurableJobs`.

### EffectEvaluation

Counts per arm and outcome go in, an admission comes out. The rates are Wilson
intervals, their difference Newcombe's, all bounds rounded outward to basis
points as the code does. The code computes in floating point; here the square of
z and the root are integers kept to a thousandth (`Root` is the integer root, found
to the hundred first so that TLC has little to search). `EvidenceCountsForward` says
that an admission is never lost because an outcome of the candidate's arm turned
out better (`Better`) or one of the control arm worse (`Worse`);
`AdmissionIsEarned` says that an admission has observations in both arms and
that the same counts with the arms exchanged would not have been admitted. Both
are evaluated for every outcome of up to `MaxArm` exposures per arm; `Episodes`
states them of a cohort that is certified (`VerdictHolds`, made of
`VerdictCountsForward` and `VerdictIsEarned`). That both
arms were served, which `AuthorityBranches` assumes of an admitted cohort, is
part of the latter.

### MemoryLedger and Operations

`commits` is the chain, `items` and `caps` the tables it projects to: one row
for each memory, overwritten by each mutation, and the revisions of its capsule.
`log` holds the operations and their receipts. The receipt of an operation is
*derived* from the rows that carry the operation as their source; a replay
derives it again (`ReceiptsDeriveAgain`), from tables written since. A decision
is compiled from the tables; an audit (`readDecision`) compiles it from the
chain up to the commit it names (`DecisionsReplay`), and a counterfactual with
the bindings of another branch. `Counterfactual` is the set of answers it may get:
the branch that was served is evaluated as it was, another one is refused at
admission (`Substitutable`) or by its memories, and what passes both meets retrieval
and evaluation, which may still refuse it (`Evaluations`: they are modelled in
`DecisionAssembly`, over other data). `SubstitutesAreReadable` therefore does not
say that every admitted branch is answered. It says that the history of the decision
holds every capsule an admitted branch is bound to, and that its memories refuse it
only where one of them had been recorded again before the decision. `seen` is the head an operator looked at before
deciding on a lifecycle.

The checks every read makes of the rows it finds (`-memory-row-verification.ts`)
are stated of every state (`RowsAreReadable`), and the guards the
schema puts on memory rows are stated of the steps (`WritesAreLawful`).
`HistoryHolds` compares the tables with the replay of the chain.

*Left out.* Payloads are versions; relations between memories, which nothing in
the API produces; branch revisions are rows here, and measured in
`AuthorityBranches`.

### CandidateRetrieval, SelectionEvaluation, DecisionAssembly

One decision is one initial state: the capsules, what they claim, how they are
bound in each arm, what was observed and how old it is, the budget. Every arm
that may be assigned is tried first; then the served one is retrieved,
evaluated, compiled into a contract with a mode, rendered and verified. Bytes
are a size per capsule, digests an order. The run draws three capsules from
profiles of both kinds of caller: the daemon, for which nothing is related, and
a direct caller of the exported compiler, with relations, archived capsules and
conflicts.

### Sidecars

`row` holds the rows of the three kinds of jobs (`FileJobs`), `run` the attempts
that are under way, `files` the two stores. `SidecarsNext` is a step of an
attempt, a decision of an operator on a memory (`Decisions`) or the end of a
lease (`LeaseEnds`).

A file is named by what its content is made of: the recording, the memories it
covers, and the answer of the provider, which may differ between calls. A file
appears and disappears by one rename; a read looks up and opens in two steps. An
attempt runs under a lease; the worker rejects it at its deadline and does not
wait for it, so it goes on until it next looks at its signal, and may then be
late. `late` is a history variable: files published without a lease.

*Abstracted.* Vectors are their sources; temporary and tombstone directories
have names no reader opens.

### DatabaseFile and Deployment

`DatabaseFile` follows a process from `isMissingPath` to an open connection:
claim, bootstrap in one transaction, WAL; or capture of identities, preflight on
a copy, and reopening with the identities compared again. Inodes tell the files
at the path apart. `Deployment` adds the phases of a process, the shutdown with
its deadline, kills at any step, restarts, and clients that lose answers and
send the same operation again, with the same body or another one. What clients
may rely on through all of that is `OperationContract`: the sequence of requests
that took effect, which only grows, and what each client was told, once
(`made <- ledger`, `told <- got`).

*Abstracted.* WAL and journal are there or not; an operator removes only a file
whose bootstrap was cut off; the SDK's timeout is `GivesUp`; a refused
connection and a 503 change nothing. A client that disconnects during a drain
leaves its handler running; its read after the seal is refused although the
effect is stored.

### Policies

Artifacts are their content; signatures and digests are left out. `policies`,
`rotations` and `cohorts` are the installed artifacts, `chain` and `cand` the
revisions and what they are pinned to, `contracts` the recorded decisions. Time
is cut at the instants the artifacts name. Verification of what is stored
(`ResolvesBoth`, `RotationReads`, `DecisionReplays`) is evaluated at the instants
a row names, as every read does.

*Left out.* Bindings and capacity (`AuthorityBranches`); keys of workers that a
policy does not trust; the trust root is fixed.

## Runs

| Run | Instance | Question |
|---|---|---|
| `durable_jobs` | two jobs (three tries, one try), lease of 3, times up to 7 | Is the queue safe under arbitrary redelivery of all leases, does it never stand in its own way, and does it implement `JobContract`? |
| `worker_fleet` | one process, two jobs (two tries, one), batches of two; one mishap, one signal; fairness | Do recorded answers and rows agree, does the fleet keep the contract, does a stop at any await abandon no lease, does every queued job end and every stopping process exit? |
| `authority_chain` | two memories, one candidate, one cohort, two policies, four revisions; the clock is fair | Does only what some effect decision merged serve, does it fit its policy, is it active when published, and does every freeze end? |
| `authority_race` | one memory, two candidates, two cohorts, three revisions | Do competing candidates and cohorts keep merges measured and the control arm still, and does the schema roll back only the merge that another window overtakes? |
| `connection` | two processes, one with a transaction nested in another and a close, one with a transaction and a read inside it, instants 0 and 1; fairness | Can a clock that steps back, another process, a rollback or a crash take time back or hide a commit; is every call answered? |
| `episodes` | two decisions of one episode, two workers, two attempts with leases of 2, a window of one instant, a grace of one; three terms; up to four exposures per arm for the verdict; fairness | Is a certificate the complete census and does it stay so, is its verdict earned and does it follow the evidence, what can a settlement be lost to, and does it end? |
| `episodes_unreadable` | violated, see findings | Can a decision be read after its certificate? |
| `decisions` | three capsules from two lists of profiles, two arms, three obligations, lanes and selection of two | Does the selection keep what forbids and waste nothing, is `execute` sound, and is a tried arm refused later for known reasons only? |
| `recordings` | two memories, two families, five operations | Do receipts and decisions derive again after the tables moved on, are the tables the chain, when does a family stop serving, and do operators prevail? |
| `sidecars` | one recording of two memories, two embedding and ann tries, one retention try, two provider answers | Do writers and the collector keep out of each other's way, and is what was answered on disk? |
| `deployment` | a daemon and a worker, one operation with two bodies, two faults; fairness | What is opened, what is closed under whom, do the answers keep `OperationContract`, and does everything serve again? |
| `policies` | two revisions of each policy, another compiler policy, three windows, one rotation, two cohorts, one candidate | Does history stay readable, and are experiments served and settled under the policies they were signed for? |

### Bounds, and why they are enough

* `durable_jobs`: with leases of 3 (`LeaseMs`) inside 7 milliseconds
  (`Horizon`) a job can be leased, lapse, be recovered and leased again, and
  fail with a retry in between. A lease of 3 is the shortest in which a
  completion fits: its transition and its receipt are minted above the
  acquisition and below the end. The lineage columns are two deep, so three
  tries (`MaxAttempts`) are needed to shift something out; the job with a single
  try is the one whose first lapse is already its death.
* `worker_fleet`: one process slot with batches of two. Two attempts of one
  process meet in the queue as those of two processes do, and a crash and
  restart leaves the leases of the process before. One mishap (`MaxMishaps`: a
  crash, a failing lease call or attempt, or a redelivery) and one signal
  (`MaxSignals`) are the disturbances of a behaviour that is otherwise free. The
  safety properties are proved for any number of processes, jobs, mishaps and
  signals.
* `authority_chain`: `MaxRevisions` of 4 leaves room for a genesis, a merge and
  two more decisions (a rotation and a revert, in any order). Policies with
  limits 1 and 2 over two memories are the smallest instance in which capacity
  distinguishes policies. `authority_race`: 3 revisions suffice for two merges,
  and two candidates and cohorts for a race, in which one merge meets the opening
  of the other's window. Its one policy leaves rotations to `authority_chain`, so
  that `PublishesLawfully` is checked in both.
* `connection`: a call waits behind another, joins, outlives its context and
  is overtaken by the seal, while another process holds the write lock. With
  the instants 0 and 1 there are a commit, a clock behind it and a mint above
  it.
* `episodes`: the window holds one instant, the deadline is its end and the
  cutoff one later, so that an exposure can straddle the end of the window and
  an outcome fall on the cutoff. Two decisions of one episode are what it takes
  for one to lengthen the episode of the other, or to exceed a limit of one.
  Two attempts are a retry and a death by exhaustion; two workers a stale lease
  against a live one. Past `Horizon` (one beyond the cutoff) operations commit
  at the earliest time only, which leaves every order of events possible and
  bounds the clock. `MaxArm` is 4 where the code allows 4096: with up to four
  exposures per arm the margins of both policies are crossed in either
  direction.
* `decisions`: three capsules compete for lanes of two and a selection of two
  (`LaneLimit`, `SelectedLimit`), so that every limit is exceeded and a tie is
  broken; capsules are larger than what the frame has left (`FrameBytes`,
  `RefBytes`) in some profiles and not in others.
* `recordings`: five operations (`MaxOps`) are enough for a recording that is
  promoted, merged and served, and for one disturbance of it: a lifecycle
  decision, or a second recording of the same memory. Where the candidate is
  served before its merge, there is room for the disturbance between two
  decisions.
* `sidecars`: two tries of the embedding and ann jobs are a late attempt beside
  a live one, and a retention job collects
  beside both. Two answers of the provider make two files
  for one job.
* `deployment`: two faults (`MaxFaults`) of any kind, such as a crash in the
  middle of a bootstrap and a lost answer, or a failing close and a signal; two
  processes, and one operation id used for two bodies. The safety properties are
  proved for any number of processes, requests and faults.
* `policies`: time is cut at the instants artifacts name (`MaxTime` of 4 lies
  beyond the expiry of the first compiler policy); 3 revisions are a genesis, a
  rotation and a merge or revert; two cohorts can overlap or follow each other;
  one decision (`MaxContracts`) can belong to either. The safety properties are
  proved without bounds.
* Symmetry is used for memories, candidates and cohorts in `authority_race`
  only, which checks no liveness; no constant expression distinguishes their
  elements.
* Deadlock is checked for `worker_fleet`, `decisions` and `deployment`. The
  other models stop where a bound is reached or everything is settled: the
  horizon ends time, every call is answered, every memory is archived, every
  job has ended.

### Fairness

* `WorkerFleet`: time passes (`Due`, `Lapse`); a supervisor restarts a process
  that is down; the event loop of a running process serves its poll loop and
  each attempt; the deadline timer of `runProcessor` ends every processor. All
  weak. Nothing is assumed of the outcome of steps, of signals or of faults.
  A stop waits for attempts, and each attempt has fairness of its own, because
  promises on an event loop do not starve each other.
* `AuthorityConnection`: a task whose turn has come proceeds, transaction bodies
  end and `BEGIN` is granted or refused (`busy_timeout`). Weak, per call.
* `Episodes`: each worker goes on with what it holds, polls, and recovers what
  has lapsed (the loop of the worker service, which `WorkerFleet` shows to go
  on until it is stopped). Weak, per worker, over all its steps except trouble
  and crashes. Nothing is assumed of hosts.
* `AuthorityBranches`: only the clock is fair. `FreezeEnds` therefore does not
  rest on a settlement job running, which is the point of the cutoff.
* `Deployment`: a process that is down is started, one that shuts down goes on
  and its deadline timer fires, handlers run on, a client that was not answered
  sends again, and an operator clears a file whose bootstrap was cut off. All
  weak. The first is the `restart: unless-stopped` of `docker-compose.yml`,
  whose `stop_grace_period` of 305 s lies above the largest shutdown timeout of
  300 s; processes and handlers are driven by their event loops; and since an
  existing file is never bootstrapped again (lines 888–901 of the architecture
  text), only an operator can clear one that was cut off. Nothing makes a batch of a worker end: a provider may hang, and the
  deadline has to do.

## Proofs

TLAPS checks the theorems below for every value of the constants allowed by the
assumptions `JobsAssumption`, `FleetAssumption`, `AuthorityAssumption`,
`ConnectionAssumption`, `CohortAssumption`, `SettlementAssumption`,
`EvidenceAssumption`, `RetrievalAssumption`, `ProblemsAssumption`,
`EvaluationAssumption`, `LedgerAssumption`, `OperationsAssumption`,
`SidecarsAssumption`, `PoliciesAssumption`, `DeploymentAssumption` and
`DatabaseFileAssumption`. Each stands in the module that declares the constants
and says what kind of values they are, or what the code checks of an input
before it gets here (`EvidenceAssumption` is the closed parser of an admission
policy, `ProblemsAssumption` that of a request).

`DurableJobsProofs`: `TypeCorrect` (`TypeOK`), `BusinessOnce` (`AppliedOnce`),
`LeaseExclusion` (`LeasesDisjoint`) and `QueueKeepsContract`, that the queue
implements `JobContract`. Neither of the two in the middle is inductive.
The invariant (`Inv`) adds: the lease a leased row carries is among the grants
(`HolderInv`); no grant is ahead of its row, of `nextToken` or of the floor
(`GrantInv`); tokens and attempts name a grant uniquely (`GrantUnique`); and a
grant that is not the one its row carries is over, by expiry before the floor or
by a receipt (`GrantOver`). From it: a completion that is accepted is presented by the holder of
the current lease (tokens are unique), so the row was not succeeded and
`applied` was 0; and a new grant is acquired at a time not below the recovery of
the previous lease, which itself was minted above the end of that lease. The
refinement looks at one row at a time: what `leaseNext` does to it, recovery and
grant together, is one step of the contract (`JobMove`).
Relative to `Inv` the books are inductive (`Books`), from which the parts of
`RowsStaySound` follow: `RowsAlwaysDecode` (`RowEnvelope`),
`ReceiptsAlwaysInside` (`ReceiptInsideLease`), `LineageAlwaysHeld`
(`CompletionLineage`), `BudgetAlwaysKept` (`RetryBudget`) and
`TransitionsAlwaysPass` (`RowTransitions`). What ties them is that the last
completion of a leased row is of an earlier attempt (`Sound`), so that a lease
that is answered always shifts the lineage and one that lapses never does.
`RowsAlwaysDecode` is proved in the three parts of `decodeRow`. That a completion
can be read back (`AlwaysReadBack`, `ReceiptsReadBack`) needs one more invariant,
that each result names the completion before it (`Chained`); the attempts answered
since are then the walk from the row back to it. `AlwaysSound` puts the parts
together to `RowsStaySound`.

`WorkerFleetProofs`: `TypeCorrect`, `AnswersAlwaysAgree` (`AnswersAgree`),
`AlwaysStopsDrained` (`StopsDrained`) and `FleetKeepsContract`. The invariant is
in two halves. `QueueInv` ties rows and answers: an answer was given to an
attempt the row has had (`AnswerInv`), and the state of the row is what the last
one says; hence a second delivery can only find that answer. `ProcessInv` ties a
process to what it was granted: whatever it owes is in flight or in the lease
call it still waits for (`OwedInv`), so that a loop that left with nothing in
flight owes nothing.

The second part of `WorkerFleetProofs` is about `Sidecars`:
`SidecarsTypeCorrect`, `WritersStandApart` (`WritersUndisturbed`), `AnswersStay`
(`AnsweredOnDisk`) and `OnlyLateOnesAreLeft` (`LeftoversAreLate`). A memory is
*closed* (`Closed`) when it is archived and no job that writes for it can be
tried again; its *kept* files (`Kept`) are those no late attempt published. The
invariant `FilesInv` says of each attempt what its place in the code lets it
rely on (`RunInv`): an embedding or ann attempt that holds its lease writes for
memories that are not closed, and finds what it has seen; a retention attempt
has every kept file of its memory either before it in its walk or on the list of
what it will remove, so that none is left when it completes. What makes this
survive the steps of the others is one fact about every action (`Steady`): once a
memory is closed it stays closed and its kept files only become fewer, and a
file no closed memory is covered by is not removed. Each action is one lemma
that proves `Steady` and its own part, and one lemma carries the other attempts
over a steady step.

`AuthorityBranchesProofs`: `TypeCorrect`, `EffectsMeasured`, `MergesAtomic`,
`LearnedOnlyByEffect`, `ControlStaysHead`, `CapacityHeld`,
`OnlyActivePublished`, `WithdrawalFinal`. The inductive invariant `IInv` is the
conjunction of `TypeOK`, `FrozenWhileMeasured`, `MeasuredMerges` and three
facts that make them inductive:

* `DraftsOnChain`: a candidate keeps the policy of the revision it was drafted
  on, which is in the chain;
* `PairsStand`: an installed cohort controls the base of its candidate, which is
  in the chain, and the candidate is still active or closed;
* `EvidenceInOrder`: arms are served only after the opening and a certificate
  is written only from the cutoff on, with both arms if admitted.

A merge needs an admitted certificate for exactly this candidate and this head,
hence (`EvidenceInOrder`) a cohort with both arms, and (`PairsStand`) the
candidate is based on the head it was measured against. A head can only move when no cohort
freezes it; a served and uncertified cohort of an active candidate freezes its
control, hence `FrozenWhileMeasured`. The other invariants follow from `IInv`
or are inductive beside it.

In the same module, `WorkflowsImplySchema` (`PublishesLawfully`). From `IInv`,
and from the fact that only a merged candidate carries a certificate
(`OpenUncertified`), the checks of each workflow
imply each trigger of the schema on what is committed: one lemma per workflow,
and in it one step per trigger. For a merge, what the triggers find at the later
time is `FreezingMerge`, and a merge commits only if that is empty. If it is not
(`AbortStep`), the check at the earlier time has excluded that the cohort was
measuring then, and in one instant (`PassageMoves`) only an installed one can
have come to measure: its window has opened.

The last part of `AuthorityBranchesProofs` is about `AuthorityConnection`:
`ConnectionTypeCorrect`, `NobodyElseEverInside`, `ClosedStaysQuiet`,
`NeverBehind`, `NoRegress`, `OwnCommitAlwaysVisible` and `FlatLeavesNoTrace`. The
argument has two layers.

* `ConnectionInv` is about the line alone: the owner is the running call and
  runs at the head of its queue; who joined is inside the owner; a call is in a
  queue once and only in the queue of its process; a close is the last in line,
  and behind a closed handle the line is empty. None of these is inductive
  alone: that a queue can be released needs to know who is at its head, that a
  close is last needs the seal.
* `ClockInv` rests on it: one writer among all processes (`OneWriter`), the
  writer is not behind the file (`NeverBehindACommit`), and what a call minted
  is bounded by what its transaction, or after the commit the file, has reached
  (`HookInv`). A commit can then only raise the floor, because no other
  transaction committed since this one began.

`FlatLeavesNoTrace` is about processes that nest no transactions; of the others
it is false (see the third divergence).

`EpisodesProofs`: `TypeCorrect`, `CertificateAlwaysCensus`, `AlwaysClosed`,
`AlwaysSettledTogether`, `DriftAlwaysAtTheCutoff`, `AlwaysDiesForCause`,
and `VerdictsHold` (`VerdictHolds`), which joins `VerdictsAreEarned` and
`VerdictsCountForward`; `AlwaysSettledForGood`, that a settlement is final, is
proved and not in a run. The inductive invariant `IInv` ties times together: the
job is not due before the cutoff (`JobInv`), so what a worker holds is from the
cutoff on (`LeaseInv`), when no exposure can become a member any more; a
completion is stamped above the lease, so a certificate is past the cutoff
(`CertificateInv`), when no member can get an outcome any more. What a worker
has read is therefore what the ledger says (`ReadInv`), except under a lease of
the very millisecond of the cutoff, and there the completion compares. `CauseInv`
keeps, for what a worker gave up for, that it is so and stays so. The lemma
`HostAdds` says what hosts can still add at which time and carries the rest.
That a certificate can always be read back (`Hydrates`, part of
`CertificateIsCensus`) needs in addition that an outcome follows its exposure and
that outcomes of members lie within the cutoff (`LedgerInv`): the ledger has
grown when it is read, but not where the certificate looks.

`VerdictsAreEarned` is arithmetic. The integer root brackets its argument
(`RootBrackets`), so it is at least 1 where there are observations; an interval
rounded outward therefore has a width, and excludes certainty on either side
(`IntervalBounds`), while without observations it is everything. An admission
puts the lower bound of one arm at or above the upper bound of the other, which
neither an empty interval nor both orders allow. No bound on exposures is used.

`VerdictsCountForward` is arithmetic too, and the hardest of it: that a Wilson
bound is monotone in its counts is nonlinear, and rounding could undo it, twice
under the root and once outside. It is proved for every pair of arms of up to
4096 exposures (`EvidenceAssumption`; the code takes no more, `counts` in
`effect-evaluation.ts`). The steps are

* *Counted instead of not* (`LowerInCounted`): the quotient under the root grows
  by at most 4000 thousandths, the root by at most 2000, the center by 2000.
* *Observed and counted instead of missing* (`LowerInObserved`): center and
  scale both move. `RootStep` says that the root does not grow by more than the
  rest of the interval allows. If it did, its square would have grown by more
  than that of the argument (`RootGrowth`, `ShiftGrows`, `Weighed`), and this is
  refuted apart for arms in which at least half of the outcomes are of the other
  kind (`Many`) and those in which fewer are (`Few`, `SmallCount`); the latter,
  and that the rounding of the root does not matter in the former, need the bound.
* `UpperMirrors`: the upper bound of a rate is the mirror image of the lower bound
  of its complement, after rounding too; the facts about lower bounds therefore
  are facts about upper ones (`UpperInCounted`, `UpperInOthers`).
* `LowerIsRate`: a bound lies between none and all, so that the clamps of
  `rateInterval` and `difference`, which the model leaves out, change nothing.
* `TurnedRates` counts what each change of an outcome does to an arm; with it
  `BetterRates` and `WorseRates` move every check of `Admitted` the right way.

What is proved is proved of whole numbers; what floating point does to the last
digit of a bound is not.

`DecisionAssemblyProofs`: `TypeCorrect`, `SelectionSound` (`SelectionIsSound`),
`ExecutionSound` (`ExecuteIsSound`) and `LateRefusals` (`LateRefusalsAreKnown`),
for any capsules, obligations, problems and limits. The assembly runs twice, once
as the trial of each arm and once for the arm that is served; `On(a, D)` is the
evaluation for arm `a` with the disputes `D`, and the invariant has a part for
each stage (`ArmInv`, `RetrievalInv`, `EvaluationInv`, `LateRefusalsAreKnown`).
The lemma that carries it is `OneMatching`: the set of disputes a run ends with is
determined by its pairs, since a pair is disputed exactly when no earlier disputed
pair shares a capsule with it. Trial and serving therefore leave the same capsules
to select from, and what passed its trial can be refused later only for the order
in which its capsules are rendered (fifth divergence), for an archived capsule
(sixth), for a mandatory capsule that nothing protects, or, for a caller that
skips the trials, for what a trial would have found.

`OperationsProofs`: `HistoryStands` (`HistoryHolds`), `DecisionsAudited`
(`AuditsReplay`), `OutageIsKnown` (`OutageIsRerecorded`) and `WritesLawful`
(`WritesAreLawful`), for any number of operations. The tables are overwritten all
the time; the invariant `IInv` says how every part of them follows from the chain,
which only grows:

* `LedgerInv`: the tables are the replay of the chain, they hold what each commit
  wrote or something later (`CensusHolds`), the capsules of a memory are numbered
  without a gap at each revision (`NumbersFilled`, without which a replay would
  not be defined), every commit was a legal step (`ChainLegal`), and the latest
  capsule of a memory stands for its row until the memory is archived
  (`LastStands`);
* `BranchInv`: what is bound is a learned capsule the tables hold;
* `SourceInv`: rows, branches and decisions name operations that completed;
* `RecordInv`: receipts and decisions derive again, and a branch that was there at
  a decision is bound to what its history holds, in capsules that stand for their
  rows there unless a later one does (`HeldThen`, `LatestStands`).

Every operation is shown to be of one form (`OperationRuns`): it appends rows
under its own number, leaves the rest of the ledger alone (`LedgerKept`) and lets
branches only grow (`BranchesGrow`). Receipts of earlier operations then derive
from the rows they did before, and the past of the chain does not change
(`HistorySame`).

`PoliciesProofs`: `PinsAlwaysHold` (`PinsHold`), `AlwaysSettles`
(`SettlesWithItsPolicies`) and `MeasuredAlwaysServes` (`MeasuredFamilyServes`).
Everything rests on `Keeps`: installed artifacts, revisions and the pins of
candidates are never changed by a later step, so that what resolved at an
instant a row names goes on resolving there. A cohort was installed for a
revision and a candidate with its pins and under policies that cover its window
(`CohortInv`); windows lie apart (`ApartInv`), so at most one is open; and a
decision that names a cohort was made in its window (`ContractInv`), where the
compiler policy is valid. A rotation is signed for one predecessor, so that it
cannot be spent twice.

`DeploymentProofs`: `TypeCorrect`, `AlwaysWhole` (`ServedWhole`),
`AlwaysUnsevered` (`NeverSevered`) and `DeploymentKeepsContract`
(`KeepsContract`). `FileInv`: whoever bootstraps has an inode of its own,
not yet whole and not cut off (`HolderInv`, `ApartInv`); no inode is both whole
and cut off (`WholeInv`); who is connected looks at the path, at a whole file
(`OpenInv`). It survives other processes because a claim needs an empty path and
an operator removes only what was cut off. `ProcInv` says which phase, result
and deadline go together, in particular that a deadline that found a process
stopping or draining keeps it from ever closing its database; with it, no
request is handled or read behind a closed connection (`TaskInv`). In `LedgerInv`
effects and receipts name each other, and an answer is backed by both (`Backed`);
`AlwaysAnsweredAsStored` is what that says of one state. For the refinement of
`OperationContract` one more fact is needed, that a client that waits was not
answered (`WaitInv`): it is why no handler that runs on behind a lost connection
revises an answer. Then each step of the deployment is matched (`NextKept`): the
transaction that stores a receipt is `Apply`, since no effect of the same id
stands in the ledger; the read of a receipt is `Confirm` when its client still
waits and nothing otherwise; a refused body is `Refuse`; a 500, a crash, a
shutdown and a restart leave ledger and answers alone.

*Only model-checked* are the liveness properties (`JobsSettle`, `StopsEventually`,
`FreezeEnds`, `EveryCallAnswered`, `SettlementEnds`, `Recovers`), which are outside
the prover's reach. Every invariant and every action property a run checks is
also a theorem.

## Findings

1. **A certified episode cannot be read** (`episodes_unreadable`). `readEpisode`
   takes an event that does not stem from a trusted host for corruption; effect
   events stem from a worker. Once a certificate has a member in an episode,
   `readDecision` fails for all its decisions, and with it the resolution of any
   `record_outcome` and the answer of any `create_continuation` in that episode,
   after the latter has committed. The verification of the certificate itself
   expects the worker, and the decision reader looks for effect events in what
   it cannot get. The text lists effect certificates among what a decision is
   reconstructed from.

## Divergences

Places where the code and a text, comment or test disagree, met while modelling.
The named definitions are kept in the modules and checked by no run.

1. *A revert drops newer prohibitions* (`AuthorityBranches.RevertKeepsProhibitions`).
   `authority-workflows.ts:654` publishes the bindings of its target as they
   were; `AIONIS_CONTINUATION_RUNTIME_V1.md:614`: a revert "must retain all newer
   privacy, quarantine, scope, and hard-safety blocks". Withdrawn memories are
   kept out by the writability check; a `prohibit` binding merged after the
   target is lost.
2. *Two freezes at once* (`AuthorityBranches.OneFreeze`). `cohort-freeze.ts:104`
   takes two freezing cohorts for corruption, but the overlap guard of the schema
   separates assignment windows, not the time between a window and its cutoff.
   While the first of two cohorts settles and the second runs, every merge,
   revert and rotation is refused as corruption.
3. *A nested transaction leaks an uncommitted floor*
   (`AuthorityConnection.RollbackLeavesNoTrace`). The text (line 916) says that a
   rollback "advances neither the durable floor nor the committed process floor".
   `withTx` (`database.ts:500`) raises the process floor to the stored one when
   it begins, also inside an open transaction, where the stored floor may be a
   mint that is not committed. Nothing is ordered wrongly by it (the other
   properties hold with nesting); the clock runs ahead until the wall clock has
   caught up.
4. *An assigned decision that is counted nowhere* (`Episodes.EveryAssignedIsCounted`).
   The text (lines 716–720) says that the census "contains every exposure
   carrying an exact `ExperimentCohortV1` reference". The assignment window is
   tested at the compile time, the exposure is stamped by a later mint of the
   same transaction, and the census selects by the stamp
   (`effect-certificate-support.ts:554`). A decision compiled in the last instant
   of the window and stamped after it keeps its cohort and arm and is in no
   census.
5. *A trial that succeeded does not decide* (`DecisionAssembly.TrialsDecide`).
   The renderer takes capsules in the order of their ids (`renderer.ts:288`), the
   contract lists them in the order of their digests
   (`selection-evaluation.ts:995`); with the same contents an arm that was tried
   may be refused when it is assigned (text, line 484; `decision-assembly.ts:585`).
6. *A compiled contract is refused* (`DecisionAssembly.VerifierAccepts`). The
   contract verifier (`contract-verifier.ts:800`) refuses an archived capsule to
   rehydrate, which the compiler emits (`lite-continuation-compiler.test.ts:1060`).
   No caller in the daemon reaches it.
7. *A cohort that can never be settled* (`Policies.CoversItsSettlement`, with the
   windows `MCWindowsToTheCutoff`). "artifact validity must cover the full cohort
   settlement window" (`experiment-cohort.ts:408`) is tested with `>=`, while the
   artifact must still be valid *at* the cutoff to resolve
   (`experiment-cohort-authority.ts:289`).
8. *A retention job dies before its attempts are spent*
   (`Sidecars.RetentionDiesExhausted`). A file that is replaced under the walk is
   an error no attempt may mend (`vector-artifact-store.ts:703`,
   `ann-index-segment-store.ts:960`, `retention-worker-processor.ts:97`); the
   comment at line 695 and `CHANGELOG.md:23` say that it is tried again.
9. *Continuity depends on the learning branch*
   (`DecisionAssembly.ContinuityStandsAlone`). The retrieval contract lists the
   invariant `continuity_selection_has_no_learning_lane_dependency`
   (`candidate-retrieval.ts:43`), and a test is named after it
   (`lite-continuation-candidate-retrieval.test.ts:268`). The continuity lane is
   filled by what a candidate adds to the protected ones of *both* lanes
   (line 755): with room for one of two continuity candidates, one for an
   obligation that a protected learning candidate covers too and one for another,
   it depends on the arm which is selected. The test covers no obligation by both
   lanes. A counterfactual that meets this is refused as
   `counterfactual_continuity_universe_drift`, a 500 (`decision-reader.ts:679`).

## Noticed

Behaviour that no text speaks against, for whoever works on this code.

* Settlement. Any event later than the lease in the episode of a member, of a
  decision outside the cohort too, makes a settlement dead at its first attempt
  (`DiesOnlyForCause` names it). `min_evidence_window_ms` and
  `max_evidence_window_ms` are not checked at installation, only when a
  certificate is signed; the job then dies, as it does when the policy does not
  trust the key of the worker.
* Counterfactuals. A branch that passes the checks of a substitute
  (`decision-reader.ts:606`) may still be refused: with a 500 where one of its
  memories was recorded again before the decision or where continuity drifts
  (line 679, ninth divergence), with 422 where its candidates exceed a lane
  (line 667), and with a 500 for whatever the evaluation throws (line 719). `exclude_capsule`, which can be refused too, is not
  modelled.
* Branches. A candidate whose base is no longer the head, or one that binds a
  withdrawn memory, can be neither merged nor closed by `terminateCandidate`; the
  text asks that stale candidates be rejected and rebuilt but is open on who does
  so. A merge that the opening of another window overtakes fails in a trigger
  ("active experiment cohort freezes its learning pair"), not with the workflow's
  own refusal of a frozen head; a retry meets the latter (`AbortedByOpening`).
  Lifecycle decisions are not subject to the freeze, so a memory under
  measurement may be suppressed and restored.
* Policies. Readiness stays true when a policy the head is pinned to has expired,
  so that its decisions and learning fail until a rotation; it becomes false when
  a second artifact id is installed, while existing families go on. The compiler
  policy is required until the window closes and the evidence policy until the
  cutoff; a certified candidate whose policy expires before its merge can neither
  be advanced, merged nor ended, and a rotation strands it.
* Memory. Recording again a memory that is learned on the authoritative branch,
  in the same or another kind, makes every later decision of that family fail
  until the memory is suppressed or the branch reverted (intended:
  `memory-history.test.ts:440`; `OutageIsRerecorded` shows that nothing else
  does). The writability check does not compare the projection, so a draft that
  has drifted can be merged. A lifecycle decision under one family may touch a memory of
  another. The limits on the depth and size of a history bound its replay but not
  its recording, so that beyond them decisions can be served that cannot be
  audited.
* Compiler. A candidate of influence `block` that is none of prohibit, constraint
  or counter would be a mandatory seed but not a protected one
  (`candidate-retrieval.ts:728`), which the verifier of receipts refuses;
  admission does not let one arise.
* Deployment. Processes that start together right after a clean stop may take
  each other's checkpoint for a torn file and fail once; the restart heals it. A
  kill in the middle of a bootstrap leaves a file nobody accepts until an
  operator removes it.

## Not modelled

* Configuration, authentication, the grammar of commands, validation and the
  rendering of text: closed parsers and formatters without state.
* Signatures, keys, digests and canonical encoding: artifacts are their content,
  and what a signature excludes cannot happen in the models.
* Tampering with rows or files behind the runtime's back, which it checks
  throughout.
* HTTP routing, body limits and headers; the admission, drain and retry of
  requests are in `Deployment`.
* Contents of capsules, scores beyond their order, embeddings beyond their
  sources; the limits on histories named above.
* The benchmark, packaging and CI scripts.

## Plan

What is left, in this order:

| What | Where | Kind |
|---|---|---|
| `record_outcome` with its attestation and dispositions, several outcomes per decision | `Episodes` | TLC, and the proofs extended |
| relations between memories, once the API produces them | `MemoryLedger` | TLC |
| two signed trust roots and the one-time bootstrap of a root | `Policies` | TLC, proof |

## How to run

```
tlc -workers 2 -config MCDurableJobs.cfg MCDurableJobs
tlc -workers 2 -config MCAuthorityChain.cfg MCAuthorityBranches
tlapm DeploymentProofs.tla
```

The `.cfg` and the module of each run are in `PROJECT.json`. Every run ends
within five minutes with two workers.
