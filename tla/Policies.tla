------------------------------ MODULE Policies ------------------------------
(***************************************************************************)
(* The signed policies of one authority subject, and what is pinned to     *)
(* them.  An operator has artifacts signed offline and installs them: pairs *)
(* of a compiler and an evidence policy, rotations from one pair to another *)
(* and experiment cohorts.  Revisions of branches, decisions and cohorts   *)
(* are pinned to a pair and are verified again, whenever they are read, at *)
(* the times they name themselves.                                         *)
(*                                                                         *)
(* Signatures and digests are not modelled: an artifact is its content, and *)
(* the identities of rotations and cohorts are distinct.  Time is cut at   *)
(* the instants the artifacts name; what happens between two of them       *)
(* happens at the same time.  Bindings, capacity and memory are those of   *)
(* AuthorityBranches and are left out; a revision stands for its bindings. *)
(***************************************************************************)
EXTENDS Integers, Sequences, FiniteSets

CONSTANTS
  Signed,        \* compiler and evidence policies the trust root has signed
  Bundles,       \* pairs of them an operator may install or rotate to
  Windows,       \* windows and expiry a cohort may be signed with
  Spans,         \* validity a rotation may be signed with
  Cands,         \* candidate branches
  MaxTime,       \* bound: the last instant
  MaxRevisions,  \* bound: length of the authoritative branch
  MaxRotations,  \* bound: rotations installed
  MaxCohorts,    \* bound: cohorts installed
  MaxContracts   \* bound: decisions recorded

Instants == 0 .. MaxTime
Kinds == {"compiler_policy", "evidence_policy"}

(* validateValidity; an expiry of null lies beyond every instant.          *)
Valid(span) == span.from < span.until

ASSUME PoliciesAssumption ==
  /\ \A p \in Signed : p.kind \in Kinds /\ p.from \in Nat /\ p.until \in Nat /\ Valid(p)
  /\ \A s \in Spans : s.from \in Nat /\ s.until \in Nat /\ Valid(s)
  /\ \A w \in Windows :
       /\ {w.opened, w.closed, w.cutoff, w.until} \subseteq Nat
       /\ w.opened < w.closed /\ w.closed <= w.cutoff
  /\ \A b \in Bundles : {b.compiler, b.evidence} \subseteq Signed
  /\ MaxTime \in Nat

VARIABLES
  now,
  policies,      \* authority_artifacts of the two policy kinds
  rotations,     \* authority_artifacts of kind policy_rotation
  cohorts,       \* authority_artifacts of kind experiment_cohort
  chain,         \* authoritative revisions, oldest first
  cand,          \* branch_revisions of each candidate
  contracts,     \* decisions and what they were compiled under
  certs          \* effect_certificates: cohort and verdict

artifacts == <<policies, rotations, cohorts>>
branches == <<chain, cand>>
vars == <<now, artifacts, branches, contracts, certs>>

-----------------------------------------------------------------------------
Pins(compiler, evidence) == [compiler |-> compiler, evidence |-> evidence]
Of(kind) == {p \in Signed : p.kind = kind}
Pairs == {Pins(c, e) : c \in Of("compiler_policy"), e \in Of("evidence_policy")}

In(span, at) == span.from <= at /\ at < span.until

(* Seeded fault: a policy is judged at the time it is read.                *)
ResolvesToday(policy, at) == policy \in policies /\ In(policy, now)

(* What is read by its digest is what was installed.                       *)
Installed(policy) == policy \in policies

(* resolveExact: an installed policy, valid at the time asked for.         *)
Resolves(policy, at) == Installed(policy) /\ In(policy, at)

ResolvesBoth(pins, at) == Resolves(pins.compiler, at) /\ Resolves(pins.evidence, at)

(* resolveCurrent: the latest revision among those valid now, of which all *)
(* must be revisions of one artifact.                                      *)
Eligible(kind, at) == {p \in policies : p.kind = kind /\ In(p, at)}
Unambiguous(kind, at) == Cardinality({p.id : p \in Eligible(kind, at)}) = 1
IsCurrent(p, at) ==
  /\ p \in Eligible(p.kind, at)
  /\ Unambiguous(p.kind, at)
  /\ \A q \in Eligible(p.kind, at) : q.rev <= p.rev

(* A revision: how it came about, its pins, its creation, and its rotation *)
(* artifact if it has one.                                                 *)
NoRotation == [prev |-> 0]
Revision(cause, pins, at, rotation) ==
  [cause |-> cause, pins |-> pins, at |-> at, rotation |-> rotation]
HeadRev == Len(chain)
Head0 == chain[HeadRev]

CandStates == {"absent", "draft", "shadow", "eligible", "active_candidate",
               "merged", "ended"}
Open(c) == cand[c].state \in {"draft", "shadow", "eligible", "active_candidate"}
OnHead(c) == cand[c].base = HeadRev

(* A rotation artifact is signed for one authoritative revision, which it  *)
(* names with the policies it had, and changes at least one of them.       *)
Rotations ==
  {[prev |-> n, old |-> old, new |-> new, from |-> s.from, until |-> s.until] :
     n \in 1 .. HeadRev, old \in {chain[i].pins : i \in 1 .. HeadRev},
     new \in Bundles, s \in Spans}

Changes(rotation) == rotation.new # rotation.old

Signs(rotation, n) ==
  /\ rotation.prev = n
  /\ rotation.old = chain[n].pins

(* experiment_cohort_v1 with the validity of its artifact.                 *)
Cohorts ==
  {[of |-> c, control |-> n, pins |-> pins, opened |-> w.opened, closed |-> w.closed,
    cutoff |-> w.cutoff, until |-> w.until] :
     c \in Cands, n \in 1 .. HeadRev, pins \in Pairs, w \in Windows}

Certified(k) == \E verdict \in {"admitted", "rejected"} : <<k, verdict>> \in certs

(* The head and the active candidate are still those k was signed for.     *)
CurrentPair(k) ==
  /\ k.control = HeadRev
  /\ cand[k.of].state = "active_candidate"

Freezes(k) ==
  /\ CurrentPair(k)
  /\ k.opened <= now /\ now <= k.cutoff
  /\ ~ Certified(k)
Frozen == \E k \in cohorts : Freezes(k)

(* fullyVerifyBranch for a revision created now, before it is committed.   *)
Readback(pins) == ResolvesBoth(pins, now)

-----------------------------------------------------------------------------
(* Installation, offline.  putBundle installs both policies or none; an    *)
(* identity or a digest that is already there is refused.                  *)
Fresh(p) == \A q \in policies : q.id # p.id \/ q.rev # p.rev

IsBundle(pins) ==
  /\ pins.compiler.kind = "compiler_policy" /\ pins.evidence.kind = "evidence_policy"
  /\ pins.compiler.id # pins.evidence.id \/ pins.compiler.rev # pins.evidence.rev

InstallBundle(pins) ==
  /\ IsBundle(pins)
  /\ Fresh(pins.compiler) /\ Fresh(pins.evidence)
  /\ policies' = policies \cup {pins.compiler, pins.evidence}
  /\ UNCHANGED <<now, rotations, cohorts, branches, contracts, certs>>

InstallRotation(rotation) ==
  /\ Cardinality(rotations) < MaxRotations
  /\ rotation \notin rotations
  /\ Changes(rotation)
  /\ rotations' = rotations \cup {rotation}
  /\ UNCHANGED <<now, policies, cohorts, branches, contracts, certs>>

(* Seeded fault: the compiler policy need only be valid when the window    *)
(* opens.                                                                  *)
CoversOpening(k) ==
  /\ Installed(k.pins.compiler) /\ In(k.pins.compiler, k.opened)
  /\ Installed(k.pins.evidence)
  /\ k.pins.evidence.from <= k.opened /\ k.cutoff < k.pins.evidence.until

(* Seeded fault: the evidence policy need only outlive the assignments.    *)
CoversAssignments(k) ==
  /\ Installed(k.pins.compiler)
  /\ k.pins.compiler.from <= k.opened /\ k.closed < k.pins.compiler.until
  /\ Installed(k.pins.evidence)
  /\ k.pins.evidence.from <= k.opened /\ k.closed < k.pins.evidence.until

(* The policies a cohort may be installed with.                            *)
PoliciesCover(k) ==
  /\ Installed(k.pins.compiler)
  /\ k.pins.compiler.from <= k.opened /\ k.closed < k.pins.compiler.until
  /\ Installed(k.pins.evidence)
  /\ k.pins.evidence.from <= k.opened /\ k.cutoff < k.pins.evidence.until

(* assertExperimentCohortArtifactWindowV1                                  *)
ArtifactCovers(k) == k.until >= k.cutoff

LearningPair(k) ==
  /\ CurrentPair(k) /\ OnHead(k.of)
  /\ Head0.pins = k.pins
  /\ cand[k.of].pins = k.pins

Apart(k) == \A other \in cohorts : k.closed <= other.opened \/ other.closed <= k.opened

(* putExperimentCohort; its operation must complete before the window      *)
(* opens.                                                                  *)
InstallCohort(k) ==
  /\ Cardinality(cohorts) < MaxCohorts
  /\ k \notin cohorts
  /\ ArtifactCovers(k)
  /\ PoliciesCover(k)
  /\ LearningPair(k)
  /\ Apart(k)
  /\ now < k.opened
  /\ cohorts' = cohorts \cup {k}
  /\ UNCHANGED <<now, policies, rotations, branches, contracts, certs>>

-----------------------------------------------------------------------------
(* record_observations: the subject gets its genesis revision under the    *)
(* current policies, and what was learned a draft on the head.             *)
Genesis(pins) ==
  /\ IsCurrent(pins.compiler, now) /\ IsCurrent(pins.evidence, now)
  /\ chain' = <<Revision("genesis", pins, now, NoRotation)>>

Draft(c, pins, base) ==
  /\ cand[c].state = "absent"
  /\ Readback(pins)
  /\ cand' = [cand EXCEPT ![c] =
       [state |-> "draft", base |-> base, pins |-> pins, times |-> {now}]]

RecordFirst(learned, c, pins) ==
  /\ chain = <<>>
  /\ Genesis(pins)
  /\ IF learned THEN Draft(c, pins, 1) ELSE UNCHANGED cand
  /\ UNCHANGED <<now, artifacts, contracts, certs>>

(* Observations nothing is learned from write no branch.                   *)
RecordLearning(c) ==
  /\ chain # <<>>
  /\ Draft(c, Head0.pins, HeadRev)
  /\ UNCHANGED <<now, artifacts, chain, contracts, certs>>

-----------------------------------------------------------------------------
(* advanceCandidate and terminateCandidate write a revision pinned like    *)
(* the one before.                                                         *)
Following(state) ==
  CASE state = "draft" -> "shadow" [] state = "shadow" -> "eligible"
    [] OTHER -> "active_candidate"

Transition(c, state) ==
  cand' = [cand EXCEPT ![c].state = state, ![c].times = @ \cup {now}]

Advance(c) ==
  /\ Open(c) /\ cand[c].state # "active_candidate"
  /\ OnHead(c)
  /\ Readback(cand[c].pins)
  /\ Transition(c, Following(cand[c].state))
  /\ UNCHANGED <<now, artifacts, chain, contracts, certs>>

Terminate(c) ==
  /\ Open(c)
  /\ OnHead(c)
  /\ Readback(cand[c].pins)
  /\ Transition(c, "ended")
  /\ UNCHANGED <<now, artifacts, chain, contracts, certs>>

(* A new head; times of revisions increase.                                *)
Publishes(cause, pins, rotation) ==
  /\ HeadRev < MaxRevisions
  /\ ~ Frozen
  /\ Readback(pins)
  /\ chain' = Append(chain, Revision(cause, pins, now, rotation))

Merge(c, k) ==
  /\ cand[c].state = "active_candidate" /\ OnHead(c)
  /\ <<k, "admitted">> \in certs
  /\ k.of = c /\ k.control = HeadRev
  /\ Publishes("effect", cand[c].pins, NoRotation)
  /\ Transition(c, "merged")
  /\ UNCHANGED <<now, artifacts, contracts, certs>>

Revert ==
  /\ chain # <<>>
  /\ Publishes("revert", Head0.pins, NoRotation)
  /\ UNCHANGED <<now, artifacts, cand, contracts, certs>>

(* rotateContinuationRuntimeV1Policies                                     *)
Rotate(rotation) ==
  /\ chain # <<>>
  /\ rotation \in rotations /\ In(rotation, now)
  /\ Signs(rotation, HeadRev)
  /\ Publishes("policy_rotation", rotation.new, rotation)
  /\ UNCHANGED <<now, artifacts, cand, contracts, certs>>

-----------------------------------------------------------------------------
(* ExperimentCohortAuthority.resolve: the artifact at the time asked for,  *)
(* its policies at the times of its window, and its pair as it was.        *)
CohortResolves(k, at) ==
  /\ k \in cohorts /\ at < k.until
  /\ Resolves(k.pins.compiler, k.opened)
  /\ Resolves(k.pins.evidence, k.cutoff)
  /\ chain[k.control].pins = k.pins /\ cand[k.of].pins = k.pins
  /\ cand[k.of].base = k.control

(* resolveActive finds the cohorts whose window is open.                   *)
Assigning == {k \in cohorts : k.opened <= now /\ now < k.closed}

Compilable == chain # <<>> /\ ResolvesBoth(Head0.pins, now)
CohortsCompile ==
  /\ Cardinality(Assigning) <= 1
  /\ \A k \in Assigning : /\ CohortResolves(k, now)
                          /\ CurrentPair(k) => Head0.pins = k.pins

(* create_continuation: the contract names the cohort it was assigned by.  *)
NoCohort == [control |-> 0]
Serving == LET served == {k \in Assigning : CurrentPair(k)}
           IN  IF served = {} THEN NoCohort ELSE CHOOSE k \in served : TRUE

Decide ==
  /\ Cardinality(contracts) < MaxContracts
  /\ Compilable /\ CohortsCompile
  /\ contracts' = contracts \cup
       {[at |-> now, rev |-> HeadRev, pins |-> Head0.pins, cohort |-> Serving]}
  /\ UNCHANGED <<now, artifacts, branches, certs>>

(* The certificate is verified when it is written, as when it is read:     *)
(* evidence policy at the opening, compiler policy at every exposure.      *)
Exposures(k) == {d.at : d \in {x \in contracts : x.cohort = k}}
CertificateVerifies(k) ==
  /\ Resolves(k.pins.evidence, k.opened)
  /\ \A at \in Exposures(k) : Resolves(k.pins.compiler, at)

(* EffectSettlementPreparation and the certificate; which verdict it has   *)
(* the evidence decides.                                                   *)
Settleable(k) == CohortResolves(k, k.cutoff) /\ CertificateVerifies(k)

Settle(k, verdict) ==
  /\ k \in cohorts /\ k.cutoff <= now
  /\ ~ Certified(k)
  /\ Settleable(k)
  /\ certs' = certs \cup {<<k, verdict>>}
  /\ UNCHANGED <<now, artifacts, branches, contracts>>

-----------------------------------------------------------------------------
Undrafted == [state |-> "absent", base |-> 0, pins |-> CHOOSE p \in Pairs : TRUE,
              times |-> {}]

Init ==
  /\ now = 0
  /\ policies = {} /\ rotations = {} /\ cohorts = {}
  /\ chain = <<>>
  /\ cand = [c \in Cands |-> Undrafted]
  /\ contracts = {} /\ certs = {}

Tick ==
  /\ now < MaxTime
  /\ now' = now + 1
  /\ UNCHANGED <<artifacts, branches, contracts, certs>>

Provision ==
  \/ \E pins \in Bundles : InstallBundle(pins)
  \/ \E rotation \in Rotations : InstallRotation(rotation)
  \/ \E k \in Cohorts : InstallCohort(k)

Record ==
  \E c \in Cands : \/ RecordLearning(c)
                   \/ \E learned \in BOOLEAN, pins \in Pairs : RecordFirst(learned, c, pins)

Govern ==
  \/ \E c \in Cands : Advance(c) \/ Terminate(c) \/ \E k \in cohorts : Merge(c, k)
  \/ Revert
  \/ \E rotation \in rotations : Rotate(rotation)

Next ==
  \/ Tick
  \/ Provision
  \/ Record
  \/ Govern
  \/ Decide
  \/ \E k \in cohorts, verdict \in {"admitted", "rejected"} : Settle(k, verdict)

Spec == Init /\ [][Next]_vars

-----------------------------------------------------------------------------
(* The rotation of a revision as fullyVerifyBranch checks it on every read. *)
RotationReads(n) ==
  LET revision == chain[n]
  IN  revision.rotation # NoRotation =>
        /\ n > 1
        /\ revision.rotation \in rotations /\ In(revision.rotation, revision.at)
        /\ Signs(revision.rotation, n - 1)
        /\ ResolvesBoth(revision.rotation.old, chain[n - 1].at)
        /\ revision.rotation.new = revision.pins

(* A decision is audited under the compiler policy it was compiled by.      *)
DecisionReplays(d) == Resolves(d.pins.compiler, d.at)

(* History stays readable: whatever has expired, been installed or been    *)
(* rotated since, every revision, candidate and decision still verifies    *)
(* when it is read.                                                        *)
ReadableForever ==
  /\ \A n \in 1 .. HeadRev : ResolvesBoth(chain[n].pins, chain[n].at) /\ RotationReads(n)
  /\ \A c \in Cands : \A at \in cand[c].times : ResolvesBoth(cand[c].pins, at)
  /\ \A d \in contracts : DecisionReplays(d)

(* An experiment that was installed can be settled: at its cutoff, and     *)
(* however long after, its policies and its pair still resolve, if the     *)
(* artifact of the cohort outlives the cutoff.                             *)
SettlesWithItsPolicies ==
  \A k \in cohorts : k.cutoff < k.until => Settleable(k)

(* The message of assertExperimentCohortArtifactWindowV1: the validity of  *)
(* an installed cohort covers its full settlement window.                  *)
CoversItsSettlement == \A k \in cohorts : Settleable(k)

(* An experiment is not interrupted: while its window is open and its pair *)
(* is current, decisions of its subject can be compiled and are assigned.  *)
MeasuredFamilyServes ==
  \A k \in Assigning : CurrentPair(k) => Compilable /\ CohortsCompile /\ Serving = k

(* The policies of a subject change only as signed for: a revision pinned  *)
(* otherwise than its predecessor rests on an artifact signed for exactly  *)
(* that predecessor, and no artifact is spent twice.                       *)
RotationIsSigned ==
  /\ \A n \in 2 .. HeadRev : chain[n].pins # chain[n - 1].pins =>
       /\ chain[n].cause = "policy_rotation"
       /\ Signs(chain[n].rotation, n - 1) /\ chain[n].rotation.new = chain[n].pins
  /\ \A n, i \in 2 .. HeadRev :
       chain[n].rotation = chain[i].rotation /\ chain[n].cause = "policy_rotation" => n = i

(* What a revision is pinned to was signed for and stays readable.         *)
PinsHold == ReadableForever /\ RotationIsSigned
=============================================================================
