------------------------------ MODULE Episodes ------------------------------
(***************************************************************************)
(* The evidence behind one experiment cohort: the exposures and outcomes   *)
(* hosts append to the ledger of episodes, and the settlement job that     *)
(* takes the census of them once the cutoff has passed and certifies it.   *)
(*                                                                         *)
(* Every operation of the ledger is one IMMEDIATE transaction and so one   *)
(* action.  The settlement is not: a worker leases the job, reads the      *)
(* census outside any transaction, decision by decision, signs it, and     *)
(* commits certificate, effect events and completion together in a later   *)
(* transaction, which rebuilds the census and compares.  Hosts, other      *)
(* workers, crashes and lapsed leases come in between.                     *)
(*                                                                         *)
(* The cohort is installed in the initial state, and its job is queued.    *)
(* Which arm a decision is assigned to, and what its outcome was, decide   *)
(* the verdict and nothing below; they are left out.                       *)
(*                                                                         *)
(* Time is counted in milliseconds from 1; 0 stands for "never".  clock is *)
(* the persisted authority clock floor, and a minted time is any value not *)
(* below the last one: see AuthorityConnection.                            *)
(***************************************************************************)
EXTENDS Integers, FiniteSets, EffectEvaluation

CONSTANTS
  Decisions,     \* the decisions hosts may ask for, one create_continuation each
  EpisodeOf,     \* the episode of each decision
  Open, Close,   \* assignment_window_opened_at and ..._closed_at
  Deadline,      \* outcome_deadline
  Cutoff,        \* settlement_cutoff_at: deadline and grace
  Terms,         \* expiry of the cohort artifact, and of the evidence policy
                 \* max_eligible_decisions and the evidence windows it takes,
                 \* as they may be installed together
  MaxAttempts,   \* max_attempts of the settlement job
  LeaseMs,       \* duration of a lease
  PollMs,        \* a retry is due this long after its lease began
  Workers,       \* the effect workers
  Horizon        \* bound: up to here an operation may commit at any time
                 \* the clock allows, beyond only at the earliest

Term == [expires : Nat, limit : Nat, least : Nat, most : Nat]

(* What an evidence policy may ask of a cohort.  Installing a cohort under *)
(* it does not ask whether its window is one the policy takes.             *)
PolicyAccepted(x) ==
  /\ x.limit >= 1
  /\ 1 <= x.least /\ x.least <= x.most

(* The window of a cohort as its verification accepts it, and the validity *)
(* of its artifact as its installation does.                               *)
ASSUME CohortAssumption ==
  /\ {Open, Close, Deadline, Cutoff} \subseteq Nat
  /\ 1 < Open /\ Open < Close /\ Close <= Deadline /\ Deadline <= Cutoff
  /\ Terms \subseteq Term
  /\ \A x \in Terms : PolicyAccepted(x) /\ Cutoff <= x.expires

ASSUME SettlementAssumption ==
  /\ MaxAttempts \in Nat \ {0}
  /\ LeaseMs \in Nat \ {0}
  /\ PollMs \in Nat
  /\ Horizon \in Nat

VARIABLES
  clock,         \* runtime_meta.authority_clock_floor_at
  exposure,      \* contract_exposed event of each decision
  outcome,       \* created_at of its outcome_observed event
  terms,         \* what was installed
  job,           \* the settlement job
  worker,        \* what each worker holds of it
  certificate    \* the effect certificate with its effect_certified events

vars == <<clock, exposure, outcome, terms, job, worker, certificate>>

-----------------------------------------------------------------------------
Never == 0

Phases == {"idle", "leased", "reading", "prepared", "failed"}
Causes == {"none", "binding", "expired", "overflow", "storage", "drift",
           "unsigned", "overtaken", "lapsed"}
Retryable == {"storage", "drift"}

Census == [members : SUBSET Decisions, answered : SUBSET Decisions]
NoCensus == [members |-> {}, answered |-> {}]

Exposure == [at : Nat, cohort : BOOLEAN, resolvable : BOOLEAN]

(* An effect event: the member it certifies, whether its terminal event is *)
(* an outcome and when it happened, and created_at.                        *)
Effect == [decision : Decisions, answered : BOOLEAN, cause : Nat, at : Nat]

(* The operation that wrote a certificate: how many decisions and effect   *)
(* events its result names, and completed_at.                              *)
Receipt == [eligible : Nat, effects : Nat, at : Nat]

Certificate == [try : Nat, census : Census, created : Nat,
                effects : SUBSET Effect, receipt : Receipt]
NoCertificate == [try |-> 0, census |-> NoCensus, created |-> Never, effects |-> {},
                  receipt |-> [eligible |-> 0, effects |-> 0, at |-> Never]]

Job == [state : {"queued", "leased", "succeeded", "dead"}, tries : Nat,
        next : Nat, acq : Nat, exp : Nat, cause : Causes]
Attempt == [phase : Phases, try : Nat, at : Nat, read : SUBSET Decisions,
            census : Census, cause : Causes]
Outset(phase, try, at, cause) ==
  [phase |-> phase, try |-> try, at |-> at, read |-> {}, census |-> NoCensus,
   cause |-> cause]
Idle == Outset("idle", 0, Never, "none")

MaxOf(a, b) == IF a >= b THEN a ELSE b

(* The times mintAuthorityTime can return when nothing below lo may be     *)
(* returned any more.                                                      *)
Instants(lo) == {lo} \cup lo .. Horizon

Exposed(d) == exposure[d].at # Never
Certified == certificate.try # 0

-----------------------------------------------------------------------------
(* Reading the ledger.                                                     *)

(* The exposures the census query selects.                                 *)
CensusMembers ==
  {d \in Decisions : /\ exposure[d].cohort
                     /\ Open <= exposure[d].at /\ exposure[d].at < Close}

(* rebuildEffectSettlementCensusV1: each member with its terminal event,   *)
(* its outcome where there is one and its exposure where there is not.     *)
LedgerCensus ==
  [members |-> CensusMembers,
   answered |-> {d \in CensusMembers : outcome[d] # Never}]

(* The terminal event of an exposed decision.                              *)
Terminal(d) == IF outcome[d] = Never THEN exposure[d].at ELSE outcome[d]

(* readEpisode: every event must stem from an operation of a trusted host. *)
(* Effect events stem from a worker, so an episode with one is unreadable. *)
Readable(e) ==
  \A d \in certificate.census.members : EpisodeOf[d] # e

(* Some episode a member belongs to has an event younger than the lease:   *)
(* its head is past the created_at the effect event would carry.           *)
Overtaken(at) ==
  \E d \in CensusMembers, f \in Decisions :
    /\ EpisodeOf[f] = EpisodeOf[d]
    /\ exposure[f].at > at \/ outcome[f] > at

-----------------------------------------------------------------------------
(* The certificate, and what it takes to read one back.                    *)

(* buildSignedEffectCertificateV1 signs for an evidence window of a length *)
(* the policy takes.                                                       *)
WindowTaken == Deadline - Open \in terms.least .. terms.most

(* What may be certified at all, and when.                                 *)
Signable(members, created) ==
  /\ Cardinality(members) <= terms.limit
  /\ WindowTaken
  /\ Cutoff <= created

(* The effect events that go with a certificate, one for each member; and  *)
(* the census such events amount to.                                       *)
EffectsOf(census, created) ==
  {[decision |-> d, answered |-> d \in census.answered, cause |-> Terminal(d),
    at |-> created] : d \in census.members}

MembersOf(effects) ==
  [members |-> {e.decision : e \in effects},
   answered |-> {e.decision : e \in {x \in effects : x.answered}}]

(* The certificate as the result of its operation names it.                *)
Named(effects, completed) ==
  [eligible |-> Cardinality(MembersOf(effects).members),
   effects |-> Cardinality(effects), at |-> completed]

(* verifySignedEffectCertificateV1: it binds these members, and could be   *)
(* signed for them still.                                                  *)
Binds(census, created, members) ==
  census = members /\ Signable(members.members, created)

(* verifyEffectCertificateMaterialV1: they are the census the ledger gives *)
(* now, and each came to its end within the window and its cutoff.         *)
MaterialStands(census, created) ==
  /\ Binds(census, created, LedgerCensus)
  /\ \A d \in CensusMembers : Open <= Terminal(d) /\ Terminal(d) <= Cutoff

(* The operation is replayed from the tables, and is not older than what   *)
(* it wrote.                                                               *)
ReceiptStands(c) ==
  /\ c.receipt = Named(c.effects, c.receipt.at)
  /\ c.created <= c.receipt.at

(* hydrateEffectCertificateRowV1 reads it without complaint.               *)
Hydrates(c) ==
  /\ Binds(c.census, c.created, MembersOf(c.effects))
  /\ MaterialStands(c.census, c.created)
  /\ ReceiptStands(c)
  /\ \A e \in c.effects : e.at = c.created /\ e.cause = Terminal(e.decision)

-----------------------------------------------------------------------------
(* The hosts.                                                              *)

(* What resolveActive may answer at the compile time a: the cohort only    *)
(* inside its window.  Whether its branches are still the newest, and      *)
(* whether it grants the host, is left open.                               *)
Assignments(a) == IF Open <= a /\ a < Close THEN BOOLEAN ELSE {FALSE}

(* create_continuation: the assignment is made at the compile time a, the  *)
(* exposure is appended at a later time c, the receipt at f.  From then on *)
(* a request for an outcome may resolve its binding, which reads the whole *)
(* episode, in a step of its own: the request that did so while it could   *)
(* may come to record the outcome at any later time.                       *)
CreateContinuation(d) ==
  /\ ~ Exposed(d)
  /\ \E a \in Instants(clock) : \E c \in Instants(a) : \E f \in Instants(c) :
       /\ \E cohort \in Assignments(a) :
            exposure' = [exposure EXCEPT ![d] =
                           [at |-> c, cohort |-> cohort,
                            resolvable |-> Readable(EpisodeOf[d])]]
       /\ clock' = f
  /\ UNCHANGED <<outcome, terms, job, worker, certificate>>

(* Only an assigned decision has a window to keep.                         *)
Windowed(d) == exposure[d].cohort

(* What the window of its cohort asks of an outcome: observed by the       *)
(* deadline, appended and completed no later than the cutoff.              *)
InTime(d, observed, f) ==
  Windowed(d) => observed <= Deadline /\ f <= Cutoff

(* record_outcome: use and outcome are appended together at c, at most     *)
(* once per decision, the receipt follows at f.                            *)
RecordOutcome(d) ==
  /\ Exposed(d) /\ exposure[d].resolvable /\ outcome[d] = Never
  /\ \E c \in Instants(clock) : \E f \in Instants(c) :
       /\ \E observed \in exposure[d].at .. c : InTime(d, observed, f)
       /\ outcome' = [outcome EXCEPT ![d] = c]
       /\ clock' = f
  /\ UNCHANGED <<exposure, terms, job, worker, certificate>>

-----------------------------------------------------------------------------
(* The settlement job.  See DurableJobs for the queue; next is the first   *)
(* instant a lease may begin, no earlier than available_at and above       *)
(* updated_at.                                                             *)

(* Seeded fault: the settlement is available once outcomes are due.        *)
SettlementFromDeadline == Deadline

SettlementFrom == Cutoff

(* The job handed to w at t, and what w then holds.                        *)
Hand(w, t) ==
  /\ job' = [job EXCEPT !.state = "leased", !.tries = @ + 1, !.next = Never,
                        !.acq = t, !.exp = t + LeaseMs]
  /\ worker' = [worker EXCEPT ![w] = Outset("leased", job.tries + 1, t, "none")]
  /\ clock' = t

LeaseQueued(w) ==
  /\ worker[w].phase = "idle"
  /\ job.state = "queued"
  /\ \E t \in Instants(MaxOf(clock, job.next)) : Hand(w, t)
  /\ UNCHANGED <<exposure, outcome, terms, certificate>>

(* Seeded fault: only leases that may be tried again are walked.           *)
LapsedRetryable == job.state = "leased" /\ job.tries < MaxAttempts

Lapsed == job.state = "leased"

(* leaseNext recovers a lapsed lease at r: the job is due again, or with   *)
(* its attempts spent it is dead.  The lease of the same call may follow   *)
(* at once, and so is left to LeaseQueued.                                 *)
Recover(w) ==
  /\ worker[w].phase = "idle"
  /\ Lapsed
  /\ \E r \in Instants(MaxOf(clock, job.exp)) :
       /\ clock' = r
       /\ job' = IF job.tries < MaxAttempts
                 THEN [job EXCEPT !.state = "queued", !.acq = Never,
                                  !.exp = Never, !.next = r + 1]
                 ELSE [job EXCEPT !.state = "dead", !.cause = "lapsed",
                                  !.acq = Never, !.exp = Never]
  /\ UNCHANGED <<exposure, outcome, terms, worker, certificate>>

(* w's lease is the one the row names.                                     *)
Holds(w) == job.state = "leased" /\ job.tries = worker[w].try

(* Seeded fault: the transition may carry the time the lease was given.    *)
CompletionTimesEqual(w) == {t \in Instants(MaxOf(clock, job.acq)) : t < job.exp}

(* The times at which complete and fail accept w's lease: minted above     *)
(* updated_at, below the end of the lease.                                 *)
CompletionTimes(w) == {t \in Instants(MaxOf(clock, job.acq + 1)) : t < job.exp}

-----------------------------------------------------------------------------
(* The settlement of one attempt.                                          *)

(* w gives up with a code, which the next transaction will report.         *)
GiveUp(w, cause) ==
  worker' = [worker EXCEPT ![w] =
               Outset("failed", worker[w].try, worker[w].at, cause)]

LedgerUnchanged ==
  UNCHANGED <<clock, exposure, outcome, terms, job, certificate>>

(* prepare, up to the census query: the cohort must be due and its         *)
(* artifact valid at its own cutoff.                                       *)
BeginCensus(w) ==
  /\ worker[w].phase = "leased"
  /\ IF worker[w].at < Cutoff THEN GiveUp(w, "binding")
     ELSE IF Cutoff >= terms.expires THEN GiveUp(w, "expired")
     ELSE worker' = [worker EXCEPT ![w].phase = "reading",
                                   ![w].census.members = CensusMembers]
  /\ LedgerUnchanged

(* One member of the census: the events of its decision.                   *)
ReadMember(w, d) ==
  /\ worker[w].phase = "reading"
  /\ d \in worker[w].census.members \ worker[w].read
  /\ worker' = [worker EXCEPT ![w].read = @ \cup {d},
                               ![w].census.answered =
                                 IF outcome[d] = Never THEN @ ELSE @ \cup {d}]
  /\ LedgerUnchanged

(* The census is complete: the policy's limit, then the evaluation and the *)
(* signature.                                                              *)
FinishCensus(w) ==
  /\ worker[w].phase = "reading"
  /\ worker[w].read = worker[w].census.members
  /\ IF Cardinality(worker[w].read) > terms.limit THEN GiveUp(w, "overflow")
     ELSE IF ~ Signable(worker[w].read, worker[w].at) THEN GiveUp(w, "unsigned")
     ELSE worker' = [worker EXCEPT ![w].phase = "prepared"]
  /\ LedgerUnchanged

(* The database is busy, or the process was told to stop.                  *)
StorageTrouble(w) ==
  /\ worker[w].phase \in {"leased", "reading", "prepared"}
  /\ GiveUp(w, "storage")
  /\ LedgerUnchanged

(* resolveEffectMembers: the ledger still says what was prepared.          *)
SameCensus(w) == worker[w].census = LedgerCensus

(* The certificate w signed, with the events and the receipt of its        *)
(* transaction.                                                            *)
Written(w, completed) ==
  LET effects == EffectsOf(worker[w].census, worker[w].at)
  IN  [try |-> worker[w].try, census |-> worker[w].census,
       created |-> worker[w].at, effects |-> effects,
       receipt |-> Named(effects, completed)]

(* The completion transaction: the census is rebuilt, the certificate and  *)
(* its effect events are written, the job is completed, the receipt made.  *)
Certify(w) ==
  /\ worker[w].phase = "prepared" /\ Holds(w)
  /\ MaterialStands(worker[w].census, worker[w].at) /\ ~ Overtaken(worker[w].at)
  /\ \E t \in CompletionTimes(w) : \E f \in Instants(t) :
       /\ f < job.exp
       /\ clock' = f
       /\ job' = [job EXCEPT !.state = "succeeded", !.acq = Never, !.exp = Never]
       /\ certificate' = Written(w, f)
  /\ worker' = [worker EXCEPT ![w] = Idle]
  /\ UNCHANGED <<exposure, outcome, terms>>

(* The completion transaction fails and is rolled back as a whole.         *)
Refuse(w) ==
  /\ worker[w].phase = "prepared"
  /\ IF ~ SameCensus(w) THEN GiveUp(w, "drift")
     ELSE /\ \/ Overtaken(worker[w].at)
             \/ ~ MaterialStands(worker[w].census, worker[w].at)
          /\ GiveUp(w, "overtaken")
  /\ LedgerUnchanged

DeadAfter(w) ==
  worker[w].cause \notin Retryable \/ job.tries >= MaxAttempts

(* The code under which the row of a dead job keeps its error.             *)
Reported(w) == worker[w].cause

(* fail, in a transaction of its own.                                      *)
ReportFailure(w) ==
  /\ worker[w].phase = "failed" /\ Holds(w)
  /\ \E t \in CompletionTimes(w) : \E f \in Instants(t) :
       /\ f < job.exp /\ clock' = f
       /\ job' = IF DeadAfter(w)
                 THEN [job EXCEPT !.state = "dead", !.cause = Reported(w),
                                  !.acq = Never, !.exp = Never]
                 ELSE [job EXCEPT !.state = "queued", !.acq = Never, !.exp = Never,
                                  !.next = MaxOf(job.acq + PollMs, t + 1)]
  /\ worker' = [worker EXCEPT ![w] = Idle]
  /\ UNCHANGED <<exposure, outcome, terms, certificate>>

(* Complete and fail refuse a lease that was handed on or has lapsed.      *)
Abandon(w) ==
  /\ worker[w].phase # "idle"
  /\ ~ Holds(w) \/ CompletionTimes(w) = {}
  /\ worker' = [worker EXCEPT ![w] = Idle]
  /\ LedgerUnchanged

(* A worker dies, or finds by its own clock that its lease has lapsed.     *)
Crash(w) ==
  /\ worker[w].phase # "idle"
  /\ worker' = [worker EXCEPT ![w] = Idle]
  /\ LedgerUnchanged

-----------------------------------------------------------------------------
Init ==
  /\ clock = 1
  /\ exposure = [d \in Decisions |-> [at |-> Never, cohort |-> FALSE,
                                   resolvable |-> FALSE]]
  /\ outcome = [d \in Decisions |-> Never]
  /\ terms \in Terms
  /\ job = [state |-> "queued", tries |-> 0, next |-> SettlementFrom,
            acq |-> Never, exp |-> Never, cause |-> "none"]
  /\ worker = [w \in Workers |-> Idle]
  /\ certificate = NoCertificate

(* A worker's steps other than misfortune.                                 *)
Works(w) ==
  \/ LeaseQueued(w) \/ Recover(w)
  \/ BeginCensus(w) \/ FinishCensus(w)
  \/ \E d \in Decisions : ReadMember(w, d)
  \/ Certify(w) \/ Refuse(w)
  \/ ReportFailure(w) \/ Abandon(w)

Next ==
  \/ \E d \in Decisions : CreateContinuation(d) \/ RecordOutcome(d)
  \/ \E w \in Workers : Works(w) \/ StorageTrouble(w) \/ Crash(w)

(* The worker loop polls until it is stopped, and leases lapse.            *)
Fairness == \A w \in Workers : WF_vars(Works(w))

Spec == Init /\ [][Next]_vars /\ Fairness

-----------------------------------------------------------------------------
TypeOK ==
  /\ clock \in Nat
  /\ exposure \in [Decisions -> Exposure]
  /\ outcome \in [Decisions -> Nat]
  /\ terms \in Terms
  /\ job \in Job
  /\ worker \in [Workers -> Attempt]
  /\ certificate \in Certificate

(* What a certificate says of the ledger stays true: its members are all   *)
(* the exposures of the census, and those it counts as missing an outcome  *)
(* never get one.  record_outcome admits an outcome in the millisecond of  *)
(* the cutoff, and a settlement may be leased in that same millisecond.    *)
(* So the certificate can be read back at any time, which rebuilds census, *)
(* effect events and receipt and compares.                                 *)
CertificateIsCensus ==
  Certified => certificate.census = LedgerCensus /\ Hydrates(certificate)

(* The evidence of a cohort is closed once the clock is past its cutoff,   *)
(* whatever a request was resolved for before.                             *)
CensusClosed ==
  [][clock > Cutoff => LedgerCensus' = LedgerCensus]_vars

(* Certificate and completion are one, and the certificate is that of the  *)
(* job's last lease: a stalled worker cannot slip in its own.              *)
SettledTogether ==
  /\ job.state = "succeeded" <=> Certified
  /\ Certified => certificate.try = job.tries

(* A settlement is final.                                                  *)
SettledForGood ==
  [][job.state \in {"succeeded", "dead"} =>
       job' = job /\ certificate' = certificate]_vars

(* A census only drifts under a worker that was leased the job in the very *)
(* millisecond of the cutoff: another attempt cannot meet it again.        *)
DriftOnlyAtTheCutoff ==
  \A w \in Workers : worker[w].cause = "drift" => worker[w].at = Cutoff

(* The one settlement of a cohort is lost only when every attempt was      *)
(* spent, or for one of four reasons no attempt can mend: an artifact that *)
(* expires with the cutoff, more members than the policy takes, a window   *)
(* of a length the policy does not take, or an event after the cutoff in   *)
(* the episode of a member.                                                *)
DiesOnlyForCause ==
  job.state = "dead" =>
    \/ job.tries = MaxAttempts /\ job.cause \in Retryable \cup {"lapsed"}
    \/ job.cause = "expired" /\ terms.expires = Cutoff
    \/ job.cause = "overflow" /\ Cardinality(CensusMembers) > terms.limit
    \/ job.cause = "unsigned" /\ ~ WindowTaken
    \/ job.cause = "overtaken" /\ Overtaken(Cutoff)

(* The settlement job comes to an end, with a certificate or without.      *)
SettlementEnds == <>(job.state \in {"succeeded", "dead"})

-----------------------------------------------------------------------------
(* What the architecture document promises and the code does not keep.     *)

(* "It contains every exposure carrying an exact ExperimentCohortV1        *)
(* reference": the census reads by the time of the exposure, which may be  *)
(* past the window its assignment was made in.                             *)
EveryAssignedIsCounted ==
  Certified =>
    \A d \in Decisions : exposure[d].cohort => d \in certificate.census.members

(* A decision can be reconstructed with its effect certificate: the episode *)
(* store takes an effect event for corruption, since a worker wrote it.    *)
EveryDecisionReadable ==
  \A d \in Decisions : Exposed(d) => Readable(EpisodeOf[d])

-----------------------------------------------------------------------------
(* The evidence and its verdict.                                           *)

(* The verdict of a certificate moves the way the evidence points: see     *)
(* EvidenceCountsForward.                                                  *)
VerdictCountsForward == Certified => EvidenceCountsForward

(* The verdict of a certificate is earned: see AdmissionIsEarned.          *)
VerdictIsEarned == Certified => AdmissionIsEarned

(* The verdict of a certificate holds: what the evidence points at moves it *)
(* that way and no other, and it is never admitted for nothing.            *)
VerdictHolds == VerdictCountsForward /\ VerdictIsEarned
=============================================================================
