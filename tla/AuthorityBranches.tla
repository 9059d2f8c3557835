-------------------------- MODULE AuthorityBranches --------------------------
(***************************************************************************)
(* Learning authority of one authority subject: the chain of authoritative *)
(* branch revisions, the isolated candidates drafted beside it, the        *)
(* experiment cohorts that measure a candidate against the head, and the   *)
(* operator decisions that merge, revert, rotate, advance or end them.     *)
(*                                                                         *)
(* Every operation is one IMMEDIATE transaction and so one action; one     *)
(* that throws leaves nothing behind and is no step, but for the merge     *)
(* that a trigger aborts after the workflow has let it through: a merge    *)
(* mints two times, and a window may open between them.  A decision names  *)
(* the head it was taken on and is refused once the head has moved         *)
(* (assertCas), so the actions below are the decisions taken on the        *)
(* current head.                                                           *)
(*                                                                         *)
(* Revision n of the one authoritative branch is auth[n]; head_revision    *)
(* and branch_revision advance together and are both Len(auth).  A branch  *)
(* binds at most one capsule per memory, so its bindings are a function    *)
(* from memories to a disposition.  A policy stands for the pair of        *)
(* compiler and evidence policy a revision is pinned to.  Time appears as  *)
(* the stage of each cohort; all processes judge it by one clock.  Expiry  *)
(* of capsules, which also makes a binding unwritable, is left out.        *)
(***************************************************************************)
EXTENDS Integers, Sequences, FiniteSets

CONSTANTS
  Memories,      \* memory items of the scope
  Cands,         \* candidate branches that can be drafted
  Cohorts,       \* experiment cohort artifacts that can be installed
  Policies,      \* installed policy pairs
  Limit,         \* learning_candidate_limit of each policy
  MaxDelta,      \* max_treatment_delta_count of each policy
  NoCand,        \* a cohort not installed yet measures no candidate
  NoCohort,      \* a revision or candidate without effect certificate
  MaxRevisions   \* bound: length of the authoritative branch

ASSUME AuthorityAssumption ==
  /\ IsFiniteSet(Memories)
  /\ Limit \in [Policies -> Nat]
  /\ MaxDelta \in [Policies -> Nat]
  /\ NoCand \notin Cands
  /\ NoCohort \notin Cohorts
  /\ Policies # {}
  /\ MaxRevisions \in Nat \ {0}

VARIABLES
  auth,          \* branch_revisions of kind authoritative, oldest first
  cand,          \* latest branch_revisions row of each candidate
  cohort,        \* experiment_cohort artifacts and their certificates
  life,          \* memory_items.lifecycle
  aborted        \* history: merges rolled back, with what froze them

vars == <<auth, cand, cohort, life, aborted>>

-----------------------------------------------------------------------------
Lifecycles == {"absent", "active", "suppressed", "quarantined", "archived"}
Dispositions == {"none", "include", "prohibit"}
Bindings == [Memories -> Dispositions]
Causes == {"genesis", "effect", "revert", "policy_rotation"}
Arms == {"control", "candidate"}

(* An authoritative revision: cert names the cohort whose certificate is   *)
(* its cause, target the revision it reverts to (0 for none).              *)
Revision == [bind : Bindings, policy : Policies, cause : Causes,
             cert : Cohorts \cup {NoCohort}, target : Nat]

(* "ended" stands for the three states in which terminateCandidate closes  *)
(* a candidate: rejected, quarantined and expired.                         *)
Closed == {"merged", "ended"}
CandStates == {"absent", "draft", "shadow", "eligible", "active_candidate"}
                \cup Closed

(* base is the revision the candidate was drafted on, 0 before its draft.  *)
Candidate == [state : CandStates, base : Nat, bind : Bindings,
              policy : Policies, cert : Cohorts \cup {NoCohort}]

(* The instants of a cohort: before its assignment window opens, inside    *)
(* it, after it and before the settlement cutoff, the cutoff itself, and   *)
(* later.                                                                  *)
Stages == {"absent", "installed", "assigning", "settling", "cutoff", "past"}
Measuring == {"assigning", "settling", "cutoff"}
Certs == {"none", "admitted", "rejected"}

Cohort == [stage : Stages, control : Nat, of : Cands \cup {NoCand},
           arms : SUBSET Arms, cert : Certs]

HeadRev == Len(auth)
Current == auth[HeadRev]

Bound(bind) == {m \in Memories : bind[m] # "none"}

(* Seeded fault: a suppressed memory still passes as writable.             *)
WritableWhileSuppressed(bind) ==
  \A m \in Bound(bind) : life[m] \in {"active", "suppressed"}

(* assertWritableAuthorityBindingsV1: every bound capsule belongs to an    *)
(* active, hydrated memory.                                                *)
Writable(bind) == \A m \in Bound(bind) : life[m] = "active"

(* assertLearningCapacity                                                  *)
Within(bind, policy) == Cardinality(Bound(bind)) <= Limit[policy]

(* treatment_delta_count of a learning pair                                *)
Delta(control, candidate) ==
  Cardinality({m \in Memories : control[m] # candidate[m]})

-----------------------------------------------------------------------------
(* Seeded fault: the freeze ends with the assignment window.               *)
FreezesWhileAssigning(k) ==
  /\ cohort[k].control = HeadRev
  /\ cohort[k].stage = "assigning"
  /\ cand[cohort[k].of].state = "active_candidate"

(* Seeded fault: the freeze ends with the certificate only.                *)
FreezesUntilCertified(k) ==
  /\ cohort[k].control = HeadRev
  /\ cohort[k].stage \in Measuring \cup {"past"}
  /\ cand[cohort[k].of].state = "active_candidate"
  /\ cohort[k].cert = "none"

(* A cohort freezes the head it controls from the opening of its window to *)
(* its cutoff, as long as its candidate is still active and no certificate *)
(* was recorded.  Two such cohorts at once are refused like one.           *)
Freezes(k) ==
  /\ cohort[k].control = HeadRev
  /\ cohort[k].stage \in Measuring
  /\ cand[cohort[k].of].state = "active_candidate"
  /\ cohort[k].cert = "none"

(* Seeded fault: the freeze begins with the first assignment.              *)
FrozenOnceServed == \E k \in Cohorts : Freezes(k) /\ cohort[k].arms # {}

Frozen == \E k \in Cohorts : Freezes(k)

(* The latest row of c is based on the head the decision was taken on.     *)
OnHead(c) == cand[c].state # "absent" /\ cand[c].base = HeadRev

Genesis(p) == [bind |-> [m \in Memories |-> "none"], policy |-> p,
               cause |-> "genesis", cert |-> NoCohort, target |-> 0]

(* replaceAuthorityBindingsForMemoryKindsV1: the bindings of the head, with *)
(* those of the learned memories replaced.                                 *)
Drafted(head, learned) ==
  [m \in Memories |->
     IF m \in DOMAIN learned THEN learned[m] ELSE head.bind[m]]

(* assertMemoryItemMutationSemantics for a recording, which always writes  *)
(* an active item.                                                         *)
Recordable(m) == life[m] \in {"absent", "active"}

(* record_observations with learning memories L: the memories are written, *)
(* the subject gets its genesis revision if it has none, and if L is not   *)
(* empty a candidate is drafted on the head.                               *)
Record(c, L, learned, p) ==
  LET chain == IF auth = <<>> THEN <<Genesis(p)>> ELSE auth
      head == chain[Len(chain)]
  IN  /\ \A m \in L : Recordable(m)
      /\ auth' = chain
      /\ life' = [m \in Memories |-> IF m \in L THEN "active" ELSE life[m]]
      /\ IF L = {}
         THEN UNCHANGED cand
         ELSE /\ cand[c].state = "absent"
              /\ cand' = [cand EXCEPT ![c] =
                   [state |-> "draft", base |-> Len(chain),
                    bind |-> Drafted(head, learned),
                    policy |-> head.policy, cert |-> NoCohort]]
      /\ UNCHANGED <<cohort, aborted>>

-----------------------------------------------------------------------------
(* CANDIDATE_TRANSITIONS on the way to serving authority.                  *)
Following(state, next) ==
  <<state, next>> \in {<<"draft", "shadow">>, <<"shadow", "eligible">>,
                       <<"eligible", "active_candidate">>}

Advance(c, next) ==
  /\ OnHead(c)
  /\ Following(cand[c].state, next)
  /\ next # "shadow" => Within(cand[c].bind, cand[c].policy)
  /\ Writable(cand[c].bind)
  /\ cand' = [cand EXCEPT ![c].state = next]
  /\ UNCHANGED <<auth, cohort, life, aborted>>

Terminate(c) ==
  /\ OnHead(c)
  /\ cand[c].state \notin Closed
  /\ Writable(cand[c].bind)
  /\ cand' = [cand EXCEPT ![c].state = "ended"]
  /\ UNCHANGED <<auth, cohort, life, aborted>>

(* Seeded fault: the certificate of another candidate measured on the head *)
(* is accepted.                                                            *)
ProvesOtherCandidate(k, c) ==
  cohort[k].cert = "admitted" /\ cohort[k].control = HeadRev

(* An admitted certificate for exactly this candidate and this head.       *)
Proves(k, c) ==
  /\ cohort[k].cert = "admitted"
  /\ cohort[k].of = c
  /\ cohort[k].control = HeadRev

Published(bind, policy, cause, k, target) ==
  Append(auth, [bind |-> bind, policy |-> policy, cause |-> cause,
                cert |-> k, target |-> target])

(* The next instant of cohort k.  The overlap guard keeps the assignment   *)
(* windows of the cohorts of a subject apart.                              *)
NextStage(stage) ==
  CASE stage = "installed" -> "assigning"
    [] stage = "assigning" -> "settling"
    [] stage = "settling" -> "cutoff"
    [] OTHER -> "past"

MayTick(k) ==
  /\ cohort[k].stage \notin {"absent", "past"}
  /\ cohort[k].stage = "installed" =>
       \A other \in Cohorts : cohort[other].stage # "assigning"

Ticked(k) == [cohort EXCEPT ![k].stage = NextStage(cohort[k].stage)]

(* What the cohorts may be when the second time of a merge is minted: what *)
(* they were, or one instant later.                                        *)
Passages == {cohort} \cup {Ticked(k) : k \in {t \in Cohorts : MayTick(t)}}

(* What the freeze triggers find on the revision and the head of a merge:  *)
(* they judge at authorityAt, when c itself is closed already.             *)
FreezingMerge(c) ==
  {k \in Cohorts :
     /\ cohort[k].control = HeadRev /\ cohort[k].cert = "none"
     /\ cohort'[k].stage \in Measuring
     /\ cohort[k].of # c /\ cand[cohort[k].of].state = "active_candidate"}

(* mergeCandidate asks for a freeze at candidateAt, closes the candidate,  *)
(* and publishes its bindings as the next authoritative revision at a      *)
(* strictly later authorityAt.  A cohort that freezes the head by then     *)
(* makes the trigger roll the transaction back.                            *)
Merge(c, k) ==
  /\ HeadRev < MaxRevisions
  /\ OnHead(c)
  /\ cand[c].state = "active_candidate"
  /\ ~Frozen
  /\ Within(cand[c].bind, cand[c].policy)
  /\ Proves(k, c)
  /\ Writable(cand[c].bind)
  /\ cohort' \in Passages
  /\ \/ /\ FreezingMerge(c) = {}
        /\ cand' = [cand EXCEPT ![c].state = "merged", ![c].cert = k]
        /\ auth' = Published(cand[c].bind, cand[c].policy, "effect", k, 0)
        /\ UNCHANGED aborted
     \/ /\ FreezingMerge(c) # {}
        /\ aborted' = aborted \cup ({c} \X FreezingMerge(c))
        /\ UNCHANGED <<auth, cand>>
  /\ UNCHANGED life

(* Seeded fault: the target of a revert is looked up without asking for    *)
(* its branch kind.                                                        *)
RevertBindingsOfAnyKind(target) ==
  IF \E c \in Cands : cand[c].base = target
  THEN cand[CHOOSE c \in Cands : cand[c].base = target].bind
  ELSE auth[target].bind

(* revertAuthority: the bindings of an earlier revision (or of the head    *)
(* itself) under the policy of the head.                                   *)
RevertBindings(target) == auth[target].bind

Revert(target) ==
  LET bind == RevertBindings(target)
  IN  /\ HeadRev < MaxRevisions
      /\ target \in 1 .. HeadRev
      /\ ~Frozen
      /\ Within(bind, Current.policy)
      /\ Writable(bind)
      /\ auth' = Published(bind, Current.policy, "revert", NoCohort, target)
      /\ UNCHANGED <<cand, cohort, life, aborted>>

(* Seeded fault: the capacity of a rotation is judged by the policy it     *)
(* replaces.                                                               *)
RotateUnderOldLimit(p) ==
  /\ auth # <<>>
  /\ HeadRev < MaxRevisions
  /\ p # Current.policy
  /\ ~Frozen
  /\ Within(Current.bind, Current.policy)
  /\ Writable(Current.bind)
  /\ auth' = Published(Current.bind, p, "policy_rotation", NoCohort, 0)
  /\ UNCHANGED <<cand, cohort, life, aborted>>

(* rotatePolicies: other policies, the same bindings.                      *)
Rotate(p) ==
  /\ auth # <<>>
  /\ HeadRev < MaxRevisions
  /\ p # Current.policy
  /\ ~Frozen
  /\ Within(Current.bind, p)
  /\ Writable(Current.bind)
  /\ auth' = Published(Current.bind, p, "policy_rotation", NoCohort, 0)
  /\ UNCHANGED <<cand, cohort, life, aborted>>

-----------------------------------------------------------------------------
(* lifecycle_suppress, _restore, _quarantine and _archive.  No freeze of a *)
(* cohort applies to them.                                                 *)
LifecycleMoves ==
  {<<"active", "suppressed">>, <<"suppressed", "active">>,
   <<"active", "quarantined">>, <<"suppressed", "quarantined">>,
   <<"active", "archived">>, <<"suppressed", "archived">>}

LifecycleDecision(m, next) ==
  /\ auth # <<>>
  /\ <<life[m], next>> \in LifecycleMoves
  /\ life' = [life EXCEPT ![m] = next]
  /\ UNCHANGED <<auth, cand, cohort, aborted>>

-----------------------------------------------------------------------------
(* A learning pair a cohort may measure: the head, and an active candidate *)
(* based on it and pinned to its policies, both within capacity, differing *)
(* in at least one binding and at most as many as the policy allows.       *)
LearningPair(c) ==
  /\ OnHead(c)
  /\ cand[c].state = "active_candidate"
  /\ cand[c].policy = Current.policy
  /\ Within(Current.bind, Current.policy)
  /\ Within(cand[c].bind, Current.policy)
  /\ Delta(Current.bind, cand[c].bind) \in 1 .. MaxDelta[Current.policy]

(* putExperimentCohort, before the assignment window opens.                *)
InstallCohort(k, c) ==
  /\ cohort[k].stage = "absent"
  /\ LearningPair(c)
  /\ cohort' = [cohort EXCEPT ![k] =
       [stage |-> "installed", control |-> HeadRev, of |-> c,
        arms |-> {}, cert |-> "none"]]
  /\ UNCHANGED <<auth, cand, life, aborted>>

(* Time passes for cohort k.                                               *)
Tick(k) ==
  /\ MayTick(k)
  /\ cohort' = Ticked(k)
  /\ UNCHANGED <<auth, cand, life, aborted>>

(* resolveActive and the exposure of the assigned arm: only while the pair *)
(* of the cohort is the current head and its active candidate.             *)
Serving(k) ==
  /\ cohort[k].stage = "assigning"
  /\ cohort[k].control = HeadRev
  /\ cand[cohort[k].of].state = "active_candidate"

Assign(k, arm) ==
  /\ Serving(k)
  /\ cohort' = [cohort EXCEPT ![k].arms = cohort[k].arms \cup {arm}]
  /\ UNCHANGED <<auth, cand, life, aborted>>

(* The settlement job records the one certificate of a cohort, from its    *)
(* cutoff on.  The statistics decide; they never admit a cohort that did   *)
(* not serve both arms.  Neither the head nor the candidate is consulted.  *)
Certify(k, verdict) ==
  /\ cohort[k].stage \in {"cutoff", "past"}
  /\ cohort[k].cert = "none"
  /\ verdict = "admitted" => cohort[k].arms = Arms
  /\ cohort' = [cohort EXCEPT ![k].cert = verdict]
  /\ UNCHANGED <<auth, cand, life, aborted>>

-----------------------------------------------------------------------------
Undrafted == [state |-> "absent", base |-> 0,
              bind |-> [m \in Memories |-> "none"],
              policy |-> CHOOSE p \in Policies : TRUE, cert |-> NoCohort]

Init ==
  /\ auth = <<>>
  /\ cand = [c \in Cands |-> Undrafted]
  /\ cohort = [k \in Cohorts |->
       [stage |-> "absent", control |-> 0, of |-> NoCand,
        arms |-> {}, cert |-> "none"]]
  /\ life = [m \in Memories |-> "absent"]
  /\ aborted = {}

RecordObservations ==
  \E c \in Cands, L \in SUBSET Memories, p \in Policies :
    \E learned \in [L -> Dispositions \ {"none"}] : Record(c, L, learned, p)

CandidateDecision ==
  \E c \in Cands : \/ \E next \in CandStates : Advance(c, next)
                   \/ Terminate(c)

AuthorityDecision ==
  \/ \E c \in Cands, k \in Cohorts : Merge(c, k)
  \/ \E target \in 1 .. MaxRevisions : Revert(target)
  \/ \E p \in Policies : Rotate(p)

MemoryDecision ==
  \E m \in Memories, next \in Lifecycles : LifecycleDecision(m, next)

Experiment ==
  \E k \in Cohorts : \/ \E c \in Cands : InstallCohort(k, c)
                     \/ Tick(k)
                     \/ \E arm \in Arms : Assign(k, arm)
                     \/ \E verdict \in Certs \ {"none"} : Certify(k, verdict)

Next ==
  \/ RecordObservations
  \/ CandidateDecision
  \/ AuthorityDecision
  \/ MemoryDecision
  \/ Experiment

Spec == Init /\ [][Next]_vars

(* The clock reaches the instants of every installed cohort.               *)
LiveSpec == Spec /\ \A k \in Cohorts : WF_vars(Tick(k))

-----------------------------------------------------------------------------
(* The types of the persisted rows.                                        *)
TypeOK ==
  /\ auth \in Seq(Revision) /\ HeadRev <= MaxRevisions
  /\ cand \in [Cands -> Candidate]
  /\ cohort \in [Cohorts -> Cohort]
  /\ life \in [Memories -> Lifecycles]
  /\ aborted \subseteq Cands \X Cohorts

(* What an effect revision n rests on: one candidate that was active, was  *)
(* based on the revision just before, and was measured against exactly     *)
(* that revision by a cohort that served both arms and was certified; the  *)
(* revision has the bindings and policies that were measured.              *)
Measured(n) ==
  LET k == auth[n].cert
  IN  /\ k \in Cohorts /\ cohort[k].of \in Cands
      /\ cohort[k].cert = "admitted" /\ cohort[k].arms = Arms
      /\ cohort[k].control = n - 1
      /\ LET c == cand[cohort[k].of]
         IN  /\ c.state = "merged" /\ c.cert = k /\ c.base = n - 1
             /\ c.bind = auth[n].bind
             /\ c.policy = auth[n].policy /\ c.policy = auth[n - 1].policy

(* No authority without measured effect: every revision that mergeCandidate *)
(* published still stands on the evidence it was merged for.               *)
MeasuredMerges ==
  \A n \in 1 .. HeadRev : auth[n].cause = "effect" => Measured(n)

(* Merging is one transaction: a candidate is closed as merged exactly     *)
(* when the revision its certificate paid for is part of the chain, and no *)
(* certificate pays for two revisions.                                     *)
MergedOnce ==
  /\ \A c \in Cands : cand[c].state = "merged" =>
       \E n \in 1 .. HeadRev :
         auth[n].cause = "effect" /\ auth[n].cert = cand[c].cert
           /\ cohort[cand[c].cert].of = c
  /\ \A n, i \in 1 .. HeadRev :
       auth[n].cause = "effect" /\ auth[i].cause = "effect"
         /\ auth[n].cert = auth[i].cert => n = i

(* Nothing learned serves on the authoritative branch, by merge, revert or *)
(* rotation, unless some earlier or equal revision brought exactly this    *)
(* binding in as a measured effect.                                        *)
LearnedByEffect ==
  \A n \in 1 .. HeadRev, m \in Memories : auth[n].bind[m] # "none" =>
    \E i \in 1 .. n : auth[i].cause = "effect"
                      /\ auth[i].bind[m] = auth[n].bind[m]

(* While a cohort still collects evidence for an active candidate it has   *)
(* served, the revision it measures against stays the head: the control    *)
(* arm does not move under the experiment.                                 *)
FrozenWhileMeasured ==
  \A k \in Cohorts :
    /\ cohort[k].stage \in Measuring /\ cohort[k].arms # {}
    /\ cohort[k].cert = "none"
    /\ cand[cohort[k].of].state = "active_candidate"
    => cohort[k].control = HeadRev

(* Capacity: no authoritative revision, and no candidate on its way into   *)
(* service, binds more than the policies it is pinned to allow, however    *)
(* rotations and reverts alternate.                                        *)
WithinCapacity ==
  /\ \A n \in 1 .. HeadRev : Within(auth[n].bind, auth[n].policy)
  /\ \A c \in Cands :
       cand[c].state \in {"eligible", "active_candidate", "merged"}
         => Within(cand[c].bind, cand[c].policy)

(* A published revision binds only memories that are active at that        *)
(* moment: what was suppressed, quarantined or archived meanwhile is       *)
(* neither merged nor brought back by a revert or a rotation.              *)
ActivePublished ==
  \A n \in 1 .. Len(auth') : n > HeadRev =>
    \A m \in Bound(auth'[n].bind) : life'[m] = "active"

PublishesActive == [][ActivePublished]_vars

-----------------------------------------------------------------------------
(* The schema has guards of its own on the rows a transaction inserts, and *)
(* the manifest of a revision is checked when it is sealed; a step they    *)
(* refuse would abort.  Here they are, of a step.                          *)
Added == HeadRev + 1 .. Len(auth')
Moved == {c \in Cands : cand'[c] # cand[c]}

RevisionsImmutable ==
  /\ Len(auth') >= HeadRev
  /\ \A n \in 1 .. HeadRev : auth'[n] = auth[n]

(* After genesis a revision has exactly one cause, and a revert names an   *)
(* earlier revision.                                                       *)
ManifestConsistent ==
  /\ \A n \in Added :
       LET r == auth'[n] IN
       /\ (r.cause = "genesis") = (n = 1)
       /\ (r.cause = "effect") = (r.cert # NoCohort)
       /\ (r.cause = "revert") = (r.target # 0)
       /\ r.target < n
  /\ \A c \in Moved : (cand'[c].state = "merged") = (cand'[c].cert # NoCohort)

(* A revision keeps the policies of the one before or rotates them; a      *)
(* candidate starts as a draft of an authoritative revision under the same *)
(* policies, and keeps its base and its policies through every transition. *)
SchemaTransitions ==
  {"draft", "shadow", "eligible", "active_candidate"} \X {"ended"} \cup
  {<<"draft", "shadow">>, <<"shadow", "eligible">>,
   <<"eligible", "active_candidate">>, <<"active_candidate", "merged">>}

TransitionGuard ==
  /\ \A n \in Added : n > 1 =>
       (auth'[n].policy = auth'[n - 1].policy) = (auth'[n].cause # "policy_rotation")
  /\ \A c \in Moved :
       IF cand[c].state = "absent"
       THEN /\ cand'[c].state = "draft" /\ cand'[c].base \in 1 .. Len(auth')
            /\ cand'[c].policy = auth'[cand'[c].base].policy
       ELSE /\ cand'[c].base = cand[c].base /\ cand'[c].policy = cand[c].policy
            /\ <<cand[c].state, cand'[c].state>> \in SchemaTransitions

(* A merged candidate names the admitted certificate of its own pair, under *)
(* its own policies.                                                       *)
MergeCertificateGuard ==
  \A c \in Moved : cand'[c].state = "merged" =>
    LET k == cohort[cand'[c].cert] IN
    /\ k.cert = "admitted" /\ k.of = c /\ k.control = cand'[c].base
    /\ auth[k.control].policy = cand'[c].policy

(* The revision it becomes names a certificate measured on its predecessor. *)
AuthoritativeCertificateGuard ==
  \A n \in Added : auth'[n].cert # NoCohort =>
    LET k == cohort[auth'[n].cert] IN
    /\ k.cert = "admitted" /\ k.control = n - 1
    /\ auth[k.control].policy = auth'[n].policy

(* The first head is the genesis revision that observations brought.       *)
HeadInsertGuard ==
  auth = <<>> /\ auth' # auth => Len(auth') = 1 /\ Bound(auth'[1].bind) = {}

(* The head advances by one revision, and only to one that was inserted.   *)
HeadAdvanceGuard == auth # <<>> => Len(auth') \in HeadRev .. HeadRev + 1

(* A candidate is closed as merged only while no cohort measures it, at     *)
(* candidateAt.                                                            *)
MergeFreezeGuard ==
  \A c \in Moved : cand'[c].state = "merged" =>
    ~\E k \in Cohorts :
       /\ cohort[k].control = HeadRev /\ cohort[k].stage \in Measuring
       /\ cohort[k].of = c /\ cohort[k].cert = "none"

(* The revision and the head are written after the candidate was closed:   *)
(* their freeze is judged at their own time, by the rows the transaction   *)
(* has written so far.                                                     *)
HeadFreezeGuard ==
  auth # <<>> /\ auth' # auth =>
    \A k \in Cohorts :
      /\ cohort[k].control = HeadRev /\ cohort'[k].stage \in Measuring
      /\ cand'[cohort[k].of].state = "active_candidate"
      => cohort[k].cert # "none"

RotationBindingsGuard ==
  \A n \in Added : auth'[n].cause = "policy_rotation" => auth'[n].bind = auth[n - 1].bind

CapacityGuard ==
  /\ \A n \in Added : Within(auth'[n].bind, auth'[n].policy)
  /\ \A c \in Moved : cand'[c].state \in {"eligible", "active_candidate", "merged"}
       => Within(cand'[c].bind, cand'[c].policy)

SchemaAdmits ==
  /\ RevisionsImmutable /\ ManifestConsistent /\ TransitionGuard
  /\ MergeCertificateGuard /\ AuthoritativeCertificateGuard
  /\ HeadInsertGuard /\ HeadAdvanceGuard /\ MergeFreezeGuard /\ HeadFreezeGuard
  /\ RotationBindingsGuard /\ CapacityGuard

(* The one decision the schema rolls back is a merge during which the      *)
(* window of a cohort that measures another active candidate against the   *)
(* same head opens: nothing of it stays.                                   *)
AbortedByOpening ==
  \A r \in aborted' \ aborted :
    /\ cohort[r[2]].stage = "installed" /\ cohort'[r[2]].stage = "assigning"
    /\ cohort[r[2]].control = HeadRev /\ cohort[r[2]].of # r[1]
    /\ cand[cohort[r[2]].of].state = "active_candidate"
    /\ UNCHANGED <<auth, cand, life>>

(* The checks of the workflows imply the guards of the schema on all they  *)
(* commit, whatever was suppressed, rotated, frozen or merged before, and  *)
(* what is published is active when it is published.  No decision is       *)
(* rolled back by a trigger, but a merge that a window overtakes.          *)
PublishesLawfully ==
  [][ActivePublished /\ SchemaAdmits /\ AbortedByOpening]_vars

(* Quarantine and archive are final, and only a decision restores what was *)
(* suppressed: recording observations never does.                          *)
WithdrawalSticks ==
  [][\A m \in Memories :
       /\ life[m] \in {"quarantined", "archived"} => life'[m] = life[m]
       /\ life[m] = "suppressed" /\ life'[m] = "active"
            => UNCHANGED <<auth, cand, cohort, aborted>>]_vars

(* A freeze ends: no cohort withholds decisions on the head for ever.      *)
FreezeEnds == Frozen ~> ~Frozen

(* What continuationRuntimeV1ActiveCohortFreeze asserts: at most one cohort *)
(* of a subject freezes its head.  The overlap guard keeps only assignment *)
(* windows apart, and a freeze lasts until the cutoff.                     *)
OneFreeze ==
  \A k, other \in Cohorts : Freezes(k) /\ Freezes(other) => k = other

(* What the architecture text says of a revert: that it retains all newer  *)
(* blocks.  The code publishes the bindings of the target as they were, so *)
(* a prohibition bound after the target is dropped.                        *)
RevertKeepsProhibitions ==
  [][\A n \in 1 .. Len(auth') :
       n > HeadRev /\ auth'[n].cause = "revert" =>
         \A m \in Memories : Current.bind[m] = "prohibit"
           => auth'[n].bind[m] = "prohibit"]_vars

=============================================================================
