----------------------- MODULE AuthorityBranchesProofs -----------------------
(***************************************************************************)
(* Theorems about the authority store: its branches, for every set of      *)
(* memories, candidates, cohorts and policies, and, in the last part, the  *)
(* connection and the clock they are written through, for any number of    *)
(* processes and calls.                                                    *)
(*                                                                         *)
(* The inductive invariant adds to the properties what the transactions    *)
(* maintain together: a candidate keeps the base and the policy it was     *)
(* drafted with, a cohort keeps the pair it was installed for, and a       *)
(* certificate is written last.  That of the connection says how the       *)
(* status of a call and its place in the line correspond, and that there   *)
(* is one writer, never behind the committed floor.                        *)
(***************************************************************************)
EXTENDS AuthorityBranches, AuthorityConnection,
        FiniteSetTheorems, SequenceTheorems, TLAPS

-----------------------------------------------------------------------------
(* Appending a revision keeps the chain below it.                          *)
LEMMA AppendRevision ==
  ASSUME auth \in Seq(Revision), NEW r \in Revision
  PROVE  /\ Append(auth, r) \in Seq(Revision)
         /\ Len(Append(auth, r)) = HeadRev + 1
         /\ Append(auth, r)[HeadRev + 1] = r
         /\ \A n \in 1 .. HeadRev : Append(auth, r)[n] = auth[n]
         /\ HeadRev \in Nat
  BY DEF HeadRev

(* A revision of the chain is a revision.                                  *)
LEMMA ChainElement ==
  ASSUME auth \in Seq(Revision), NEW n \in 1 .. HeadRev
  PROVE  /\ auth[n] \in Revision
         /\ auth[n].bind \in Bindings
         /\ auth[n].policy \in Policies
  <1>1. auth[n] \in Revision
    BY DEF HeadRev
  <1> QED
    BY <1>1 DEF Revision

(* The genesis revision binds nothing.                                     *)
LEMMA GenesisChain ==
  ASSUME NEW p \in Policies
  PROVE  /\ Genesis(p) \in Revision
         /\ <<Genesis(p)>> \in Seq(Revision)
         /\ Len(<<Genesis(p)>>) = 1
         /\ <<Genesis(p)>>[1] = Genesis(p)
  <1>1. [m \in Memories |-> "none"] \in Bindings
    BY DEF Bindings, Dispositions
  <1>2. Genesis(p) \in Revision
    BY <1>1 DEF Genesis, Revision, Causes
  <1> QED
    BY <1>2

(* What record_observations leaves in the chain.                           *)
LEMMA RecordedChain ==
  ASSUME TypeOK, NEW c \in Cands, NEW L \in SUBSET Memories, NEW p \in Policies,
         NEW learned \in [L -> Dispositions \ {"none"}],
         Record(c, L, learned, p)
  PROVE  /\ auth' \in Seq(Revision)
         /\ \/ auth = <<>> /\ auth' = <<Genesis(p)>>
            \/ auth # <<>> /\ auth' = auth
         /\ Len(auth') \in 1 .. MaxRevisions
  <1>1. CASE auth = <<>>
    BY <1>1, GenesisChain, AuthorityAssumption DEF Record, TypeOK
  <1>2. CASE auth # <<>>
    BY <1>2 DEF Record, TypeOK, HeadRev
  <1> QED
    BY <1>1, <1>2

(* The step to the next instant is well typed and changes nothing but the  *)
(* stage of one cohort.                                                    *)
LEMMA PassageMoves ==
  ASSUME TypeOK, cohort' \in Passages
  PROVE  /\ cohort' \in [Cohorts -> Cohort]
         /\ \A k \in Cohorts :
              /\ cohort'[k].of = cohort[k].of
              /\ cohort'[k].control = cohort[k].control
              /\ cohort'[k].arms = cohort[k].arms
              /\ cohort'[k].cert = cohort[k].cert
              /\ \/ cohort'[k] = cohort[k]
                 \/ /\ cohort[k].stage \notin {"absent", "past"}
                    /\ cohort'[k].stage = NextStage(cohort[k].stage)
  <1>1. cohort \in [Cohorts -> Cohort]
    BY DEF TypeOK
  <1>2. CASE cohort' = cohort
    BY <1>1, <1>2
  <1>3. ASSUME NEW t \in Cohorts, MayTick(t), cohort' = Ticked(t)
        PROVE  /\ cohort' \in [Cohorts -> Cohort]
               /\ \A k \in Cohorts :
                    /\ cohort'[k].of = cohort[k].of
                    /\ cohort'[k].control = cohort[k].control
                    /\ cohort'[k].arms = cohort[k].arms
                    /\ cohort'[k].cert = cohort[k].cert
                    /\ \/ cohort'[k] = cohort[k]
                       \/ /\ cohort[k].stage \notin {"absent", "past"}
                          /\ cohort'[k].stage = NextStage(cohort[k].stage)
    <2>1. NextStage(cohort[t].stage) \in Stages
      BY DEF NextStage, Stages
    <2>2. cohort' = [cohort EXCEPT ![t].stage = NextStage(cohort[t].stage)]
      BY <1>3 DEF Ticked
    <2>3. cohort[t].stage \notin {"absent", "past"}
      BY <1>3 DEF MayTick
    <2> QED
      BY <1>1, <2>1, <2>2, <2>3 DEF Cohort
  <1> QED
    BY <1>2, <1>3 DEF Passages

(* A merge that commits.                                                   *)
Merges(c, k) == Merge(c, k) /\ FreezingMerge(c) = {}

(* A merge commits, or it is rolled back and leaves the rows as they were. *)
LEMMA MergeOutcome ==
  ASSUME NEW c \in Cands, NEW k \in Cohorts, Merge(c, k)
  PROVE  \/ /\ Merges(c, k)
            /\ cand' = [cand EXCEPT ![c].state = "merged", ![c].cert = k]
            /\ auth' = Published(cand[c].bind, cand[c].policy, "effect", k, 0)
         \/ UNCHANGED <<auth, cand>>
  BY DEF Merge, Merges

(* What a merge that commits writes.                                       *)
LEMMA MergeWrites ==
  ASSUME NEW c \in Cands, NEW k \in Cohorts, Merges(c, k)
  PROVE  /\ cand' = [cand EXCEPT ![c].state = "merged", ![c].cert = k]
         /\ auth' = Published(cand[c].bind, cand[c].policy, "effect", k, 0)
         /\ HeadRev < MaxRevisions
         /\ OnHead(c)
         /\ cand[c].state = "active_candidate"
         /\ ~Frozen
         /\ Within(cand[c].bind, cand[c].policy)
         /\ Proves(k, c)
         /\ Writable(cand[c].bind)
         /\ cohort' \in Passages
         /\ UNCHANGED <<life, aborted>>
  BY DEF Merge, Merges

(* What becomes of the merged candidate, and of the others.                *)
LEMMA MergedRow ==
  ASSUME TypeOK, NEW c \in Cands, NEW k \in Cohorts, Merges(c, k)
  PROVE  /\ cand'[c].state = "merged" /\ cand'[c].cert = k
         /\ cand'[c].base = cand[c].base /\ cand'[c].bind = cand[c].bind
         /\ cand'[c].policy = cand[c].policy
         /\ \A d \in Cands \ {c} : cand'[d] = cand[d]
  <1>1. cand' = [cand EXCEPT ![c].state = "merged", ![c].cert = k]
    BY MergeWrites
  <1>2. cand \in [Cands -> Candidate]
    BY DEF TypeOK
  <1> QED
    BY <1>1, <1>2 DEF Candidate

(* Type correctness: every reachable state consists of well-formed rows,   *)
(* and the chain stays within its bound.                                   *)
LEMMA TypeStep == TypeOK /\ [Next]_vars => TypeOK'
  <1> SUFFICES ASSUME TypeOK, [Next]_vars PROVE TypeOK'
    OBVIOUS
  <1> USE DEF TypeOK
  <1>1. ASSUME NEW c \in Cands, NEW L \in SUBSET Memories, NEW p \in Policies,
               NEW learned \in [L -> Dispositions \ {"none"}],
               Record(c, L, learned, p)
        PROVE  TypeOK'
    <2>1. /\ auth' \in Seq(Revision)
          /\ Len(auth') \in 1 .. MaxRevisions
      BY <1>1, RecordedChain
    <2>2. cohort' = cohort
      BY <1>1 DEF Record
    <2>3. life' \in [Memories -> Lifecycles]
      BY <1>1 DEF Record, Lifecycles
    <2>4. cand' \in [Cands -> Candidate]
      <3>1. CASE L = {}
        BY <1>1, <3>1 DEF Record
      <3>2. CASE L # {}
        <4> DEFINE head == auth'[Len(auth')]
        <4>1. head \in Revision
          BY <2>1
        <4>2. head.bind \in Bindings /\ head.policy \in Policies
          BY <4>1 DEF Revision
        <4>3. Drafted(head, learned) \in Bindings
          BY <4>2, <1>1 DEF Drafted, Bindings
        <4>4. Len(auth') \in Nat
          BY <2>1
        <4>5. [state |-> "draft", base |-> Len(auth'),
               bind |-> Drafted(head, learned), policy |-> head.policy,
               cert |-> NoCohort] \in Candidate
          BY <4>2, <4>3, <4>4 DEF Candidate, CandStates
        <4>6. cand' = [cand EXCEPT ![c] =
                 [state |-> "draft", base |-> Len(auth'),
                  bind |-> Drafted(head, learned), policy |-> head.policy,
                  cert |-> NoCohort]]
          BY <1>1, <3>2 DEF Record
        <4> QED
          BY <4>5, <4>6
      <3> QED
        BY <3>1, <3>2
    <2>5. aborted' = aborted
      BY <1>1 DEF Record
    <2> QED
      BY <2>1, <2>2, <2>3, <2>4, <2>5, AuthorityAssumption DEF HeadRev
  <1>2. ASSUME NEW c \in Cands, NEW next \in CandStates, Advance(c, next)
        PROVE  TypeOK'
    <2>1. cand' \in [Cands -> Candidate]
      BY <1>2 DEF Advance, Candidate
    <2> QED
      BY <1>2, <2>1 DEF Advance, HeadRev
  <1>3. ASSUME NEW c \in Cands, Terminate(c)
        PROVE  TypeOK'
    <2>1. cand' \in [Cands -> Candidate]
      BY <1>3 DEF Terminate, Candidate, CandStates, Closed
    <2> QED
      BY <1>3, <2>1 DEF Terminate, HeadRev
  <1>4. ASSUME NEW c \in Cands, NEW k \in Cohorts, Merge(c, k)
        PROVE  TypeOK'
    <2>1. cohort' \in [Cohorts -> Cohort] /\ life' = life
      BY <1>4, PassageMoves DEF Merge
    <2>2. aborted' \subseteq Cands \X Cohorts
      BY <1>4 DEF Merge, FreezingMerge
    <2>3. CASE Merges(c, k)
      <3> DEFINE r == [bind |-> cand[c].bind, policy |-> cand[c].policy,
                       cause |-> "effect", cert |-> k, target |-> 0]
      <3>1. r \in Revision
        BY DEF Candidate, Revision, Causes
      <3>2. auth' = Append(auth, r) /\ HeadRev < MaxRevisions
        BY <2>3, MergeWrites DEF Published
      <3>3. cand' = [cand EXCEPT ![c].state = "merged", ![c].cert = k]
        BY <2>3, MergeWrites
      <3>4. cand' \in [Cands -> Candidate]
        BY <3>3 DEF Candidate, CandStates, Closed
      <3>5. auth' \in Seq(Revision) /\ HeadRev' <= MaxRevisions
        BY <3>1, <3>2, AppendRevision, AuthorityAssumption DEF HeadRev
      <3> QED
        BY <2>1, <2>2, <3>4, <3>5
    <2>4. CASE UNCHANGED <<auth, cand>>
      BY <2>1, <2>2, <2>4 DEF HeadRev
    <2> QED
      BY <1>4, <2>3, <2>4, MergeOutcome
  <1>5. ASSUME NEW t \in 1 .. MaxRevisions, Revert(t)
        PROVE  TypeOK'
    <2> DEFINE r == [bind |-> auth[t].bind, policy |-> auth[HeadRev].policy,
                     cause |-> "revert", cert |-> NoCohort, target |-> t]
    <2>1. t \in 1 .. HeadRev /\ HeadRev \in 1 .. HeadRev
      BY <1>5 DEF Revert, HeadRev
    <2>2. r \in Revision
      <3>1. auth[t].bind \in Bindings /\ auth[HeadRev].policy \in Policies
        BY <2>1, ChainElement
      <3>2. t \in Nat
        BY <2>1
      <3> QED
        BY <3>1, <3>2 DEF Revision, Causes
    <2>3. auth' = Append(auth, r) /\ HeadRev < MaxRevisions
      BY <1>5 DEF Revert, Published, RevertBindings, Current
    <2>4. auth' \in Seq(Revision) /\ HeadRev' <= MaxRevisions
      BY <2>2, <2>3, AppendRevision, AuthorityAssumption DEF HeadRev
    <2> QED
      BY <1>5, <2>4 DEF Revert
  <1>6. ASSUME NEW p \in Policies, Rotate(p)
        PROVE  TypeOK'
    <2> DEFINE r == [bind |-> auth[HeadRev].bind, policy |-> p,
                     cause |-> "policy_rotation", cert |-> NoCohort,
                     target |-> 0]
    <2>1. HeadRev \in 1 .. HeadRev
      BY <1>6 DEF Rotate, HeadRev
    <2>2. r \in Revision
      <3>1. auth[HeadRev].bind \in Bindings
        BY <2>1, ChainElement
      <3> QED
        BY <3>1 DEF Revision, Causes
    <2>3. auth' = Append(auth, r) /\ HeadRev < MaxRevisions
      BY <1>6 DEF Rotate, Published, Current
    <2>4. auth' \in Seq(Revision) /\ HeadRev' <= MaxRevisions
      BY <2>2, <2>3, AppendRevision, AuthorityAssumption DEF HeadRev
    <2> QED
      BY <1>6, <2>4 DEF Rotate
  <1>7. ASSUME NEW m \in Memories, NEW next \in Lifecycles,
               LifecycleDecision(m, next)
        PROVE  TypeOK'
    BY <1>7 DEF LifecycleDecision, HeadRev
  <1>8. ASSUME NEW k \in Cohorts, NEW c \in Cands, InstallCohort(k, c)
        PROVE  TypeOK'
    <2>1. HeadRev \in Nat
      BY DEF HeadRev
    <2>2. cohort' \in [Cohorts -> Cohort]
      BY <1>8, <2>1 DEF InstallCohort, Cohort, Stages, Certs
    <2> QED
      BY <1>8, <2>2 DEF InstallCohort, HeadRev
  <1>9. ASSUME NEW k \in Cohorts, Tick(k)
        PROVE  TypeOK'
    <2>1. cohort' \in [Cohorts -> Cohort]
      BY <1>9, PassageMoves DEF Tick, Passages
    <2> QED
      BY <1>9, <2>1 DEF Tick, HeadRev
  <1>10. ASSUME NEW k \in Cohorts, NEW arm \in Arms, Assign(k, arm)
         PROVE  TypeOK'
    <2>1. cohort' \in [Cohorts -> Cohort]
      BY <1>10 DEF Assign, Cohort
    <2> QED
      BY <1>10, <2>1 DEF Assign, HeadRev
  <1>11. ASSUME NEW k \in Cohorts, NEW verdict \in Certs \ {"none"},
                Certify(k, verdict)
         PROVE  TypeOK'
    <2>1. cohort' \in [Cohorts -> Cohort]
      BY <1>11 DEF Certify, Cohort
    <2> QED
      BY <1>11, <2>1 DEF Certify, HeadRev
  <1>12. CASE UNCHANGED vars
    BY <1>12 DEF vars, HeadRev
  <1> QED
    BY <1>1, <1>2, <1>3, <1>4, <1>5, <1>6, <1>7, <1>8, <1>9, <1>10, <1>11,
       <1>12
    DEF Next, RecordObservations, CandidateDecision, AuthorityDecision,
        MemoryDecision, Experiment

(* The initial state is well typed.                                        *)
LEMMA TypeInit == Init => TypeOK
  <1> SUFFICES ASSUME Init PROVE TypeOK
    OBVIOUS
  <1>1. (CHOOSE p \in Policies : TRUE) \in Policies
    BY AuthorityAssumption
  <1>2. [m \in Memories |-> "none"] \in Bindings
    BY DEF Bindings, Dispositions
  <1>3. Undrafted \in Candidate
    BY <1>1, <1>2 DEF Undrafted, Candidate, CandStates
  <1>4. cohort \in [Cohorts -> Cohort]
    BY DEF Init, Cohort, Stages, Certs
  <1>5. auth \in Seq(Revision) /\ Len(auth) = 0
    BY DEF Init
  <1>6. HeadRev <= MaxRevisions
    BY <1>5, AuthorityAssumption DEF HeadRev
  <1>7. cand \in [Cands -> Candidate]
    BY <1>3 DEF Init
  <1>8. life \in [Memories -> Lifecycles] /\ aborted = {}
    BY DEF Init, Lifecycles
  <1> QED
    BY <1>4, <1>5, <1>6, <1>7, <1>8 DEF TypeOK

(* Every reachable state of the authority store is well typed.             *)
THEOREM TypeCorrect == Spec => []TypeOK
  BY TypeInit, TypeStep, PTL DEF Spec

-----------------------------------------------------------------------------
(* What the decisions and the experiments maintain together.               *)

(* A drafted candidate keeps the base and the policy of its draft.         *)
DraftsOnChain ==
  \A c \in Cands : cand[c].state # "absent" =>
    /\ cand[c].base \in 1 .. HeadRev
    /\ cand[c].policy = auth[cand[c].base].policy

(* An installed cohort measures a candidate that once was active against   *)
(* the base of that candidate.                                             *)
PairsStand ==
  \A k \in Cohorts : cohort[k].stage # "absent" =>
    /\ cohort[k].of \in Cands
    /\ cohort[k].control \in 1 .. HeadRev
    /\ cand[cohort[k].of].base = cohort[k].control
    /\ cand[cohort[k].of].state \in {"active_candidate"} \cup Closed

(* Nobody is assigned before the window opens, nothing is certified before *)
(* the cutoff, and an admitted certificate rests on both arms.             *)
EvidenceInOrder ==
  \A k \in Cohorts :
    /\ cohort[k].stage \in {"absent", "installed"} => cohort[k].arms = {}
    /\ cohort[k].cert # "none" => cohort[k].stage \in {"cutoff", "past"}
    /\ cohort[k].cert = "admitted" => cohort[k].arms = Arms

IInv ==
  /\ TypeOK
  /\ DraftsOnChain
  /\ PairsStand
  /\ EvidenceInOrder
  /\ FrozenWhileMeasured
  /\ MeasuredMerges

-----------------------------------------------------------------------------
(* A decision that publishes extends the chain by one revision.            *)
LEMMA Publication ==
  ASSUME TypeOK, NEW bind \in Bindings, NEW policy \in Policies,
         NEW cause \in Causes, NEW k \in Cohorts \cup {NoCohort},
         NEW target \in Nat, auth' = Published(bind, policy, cause, k, target)
  PROVE  /\ HeadRev' = HeadRev + 1
         /\ HeadRev \in Nat
         /\ auth'[HeadRev + 1].bind = bind
         /\ auth'[HeadRev + 1].policy = policy
         /\ auth'[HeadRev + 1].cause = cause
         /\ auth'[HeadRev + 1].cert = k
         /\ auth'[HeadRev + 1].target = target
         /\ \A n \in 1 .. HeadRev : auth'[n] = auth[n]
  <1> DEFINE r == [bind |-> bind, policy |-> policy, cause |-> cause,
                   cert |-> k, target |-> target]
  <1>1. r \in Revision
    BY DEF Revision
  <1>2. auth' = Append(auth, r) /\ auth \in Seq(Revision)
    BY DEF Published, TypeOK
  <1>3. HeadRev' = Len(auth')
    BY DEF HeadRev
  <1> HIDE DEF r
  <1>4. /\ HeadRev' = HeadRev + 1
        /\ HeadRev \in Nat
        /\ auth'[HeadRev + 1] = r
        /\ \A n \in 1 .. HeadRev : auth'[n] = auth[n]
    BY <1>1, <1>2, <1>3, AppendRevision
  <1> QED
    BY <1>4 DEF r

(* What a merge publishes.                                                 *)
LEMMA MergePublishes ==
  ASSUME TypeOK, NEW c \in Cands, NEW k \in Cohorts, Merges(c, k)
  PROVE  /\ HeadRev' = HeadRev + 1
         /\ HeadRev \in Nat
         /\ auth'[HeadRev + 1].bind = cand[c].bind
         /\ auth'[HeadRev + 1].policy = cand[c].policy
         /\ auth'[HeadRev + 1].cause = "effect"
         /\ auth'[HeadRev + 1].cert = k
         /\ auth'[HeadRev + 1].target = 0
         /\ \A n \in 1 .. HeadRev : auth'[n] = auth[n]
  <1>1. cand[c].bind \in Bindings /\ cand[c].policy \in Policies
    BY DEF TypeOK, Candidate
  <1>2. "effect" \in Causes /\ k \in Cohorts \cup {NoCohort} /\ 0 \in Nat
    BY DEF Causes
  <1>3. auth' = Published(cand[c].bind, cand[c].policy, "effect", k, 0)
    BY MergeWrites
  <1> QED
    BY <1>1, <1>2, <1>3, Publication

(* What a revert publishes.                                                *)
LEMMA RevertPublishes ==
  ASSUME TypeOK, NEW t \in 1 .. MaxRevisions, Revert(t)
  PROVE  /\ t \in 1 .. HeadRev
         /\ HeadRev' = HeadRev + 1
         /\ HeadRev \in Nat
         /\ auth'[HeadRev + 1].bind = auth[t].bind
         /\ auth'[HeadRev + 1].policy = Current.policy
         /\ auth'[HeadRev + 1].cause = "revert"
         /\ auth'[HeadRev + 1].cert = NoCohort
         /\ auth'[HeadRev + 1].target = t
         /\ \A n \in 1 .. HeadRev : auth'[n] = auth[n]
  <1>1. t \in 1 .. HeadRev
    BY DEF Revert
  <1>2. t \in Nat /\ HeadRev \in 1 .. HeadRev
    BY <1>1 DEF HeadRev, TypeOK
  <1>3. auth \in Seq(Revision)
    BY DEF TypeOK
  <1> DEFINE bind == auth[t].bind
             policy == Current.policy
  <1>4. bind \in Bindings /\ policy \in Policies
    BY <1>1, <1>2, <1>3, ChainElement DEF Current
  <1>5. auth' = Published(bind, policy, "revert", NoCohort, t)
    BY DEF Revert, RevertBindings
  <1>6. "revert" \in Causes /\ NoCohort \in Cohorts \cup {NoCohort}
    BY DEF Causes
  <1> HIDE DEF bind, policy
  <1>7. /\ HeadRev' = HeadRev + 1
        /\ HeadRev \in Nat
        /\ auth'[HeadRev + 1].bind = bind
        /\ auth'[HeadRev + 1].policy = policy
        /\ auth'[HeadRev + 1].cause = "revert"
        /\ auth'[HeadRev + 1].cert = NoCohort
        /\ auth'[HeadRev + 1].target = t
        /\ \A n \in 1 .. HeadRev : auth'[n] = auth[n]
    BY <1>2, <1>4, <1>5, <1>6, Publication
  <1> QED
    BY <1>1, <1>7 DEF bind, policy

(* What a rotation publishes.                                              *)
LEMMA RotatePublishes ==
  ASSUME TypeOK, NEW p \in Policies, Rotate(p)
  PROVE  /\ HeadRev \in 1 .. HeadRev
         /\ HeadRev' = HeadRev + 1
         /\ HeadRev \in Nat
         /\ auth'[HeadRev + 1].bind = Current.bind
         /\ auth'[HeadRev + 1].policy = p
         /\ auth'[HeadRev + 1].cause = "policy_rotation"
         /\ auth'[HeadRev + 1].cert = NoCohort
         /\ auth'[HeadRev + 1].target = 0
         /\ \A n \in 1 .. HeadRev : auth'[n] = auth[n]
  <1>1. auth \in Seq(Revision) /\ auth # <<>>
    BY DEF TypeOK, Rotate
  <1>2. HeadRev \in 1 .. HeadRev
    BY <1>1 DEF HeadRev
  <1>3. Current.bind \in Bindings
    BY <1>1, <1>2, ChainElement DEF Current
  <1>4. auth' = Published(Current.bind, p, "policy_rotation", NoCohort, 0)
    BY DEF Rotate
  <1>5. /\ "policy_rotation" \in Causes
        /\ NoCohort \in Cohorts \cup {NoCohort} /\ 0 \in Nat
    BY DEF Causes
  <1> QED
    BY <1>2, <1>3, <1>4, <1>5, Publication

(* The chain changes by its genesis, a merge, a revert or a rotation, and  *)
(* what is published stays.                                                *)
LEMMA ChainMoves ==
  ASSUME TypeOK, [Next]_vars
  PROVE  /\ HeadRev \in Nat
         /\ HeadRev' \in Nat
         /\ HeadRev <= HeadRev'
         /\ \A n \in 1 .. HeadRev : auth'[n] = auth[n]
         /\ \/ auth' = auth /\ HeadRev' = HeadRev
            \/ /\ HeadRev = 0 /\ HeadRev' = 1
               /\ \E p \in Policies : auth'[1] = Genesis(p)
               /\ UNCHANGED cohort
            \/ \E c \in Cands, k \in Cohorts : Merges(c, k)
            \/ \E t \in 1 .. MaxRevisions : Revert(t)
            \/ \E p \in Policies : Rotate(p)
  <1>1. HeadRev \in Nat
    BY DEF TypeOK, HeadRev
  <1>2. ASSUME NEW c \in Cands, NEW L \in SUBSET Memories, NEW p \in Policies,
               NEW learned \in [L -> Dispositions \ {"none"}],
               Record(c, L, learned, p)
        PROVE  \/ auth' = auth /\ HeadRev' = HeadRev
               \/ /\ HeadRev = 0 /\ HeadRev' = 1
                  /\ auth'[1] = Genesis(p)
                  /\ UNCHANGED cohort
    BY <1>2, RecordedChain DEF HeadRev, Record
  <1>3. CASE RecordObservations
    BY <1>1, <1>2, <1>3 DEF RecordObservations
  <1>4. ASSUME auth' = auth
        PROVE  HeadRev' = HeadRev
    BY <1>4 DEF HeadRev
  <1>5. CASE CandidateDecision
    BY <1>1, <1>4, <1>5 DEF CandidateDecision, Advance, Terminate
  <1>6. CASE MemoryDecision
    BY <1>1, <1>4, <1>6 DEF MemoryDecision, LifecycleDecision
  <1>7. CASE Experiment
    BY <1>1, <1>4, <1>7 DEF Experiment, InstallCohort, Tick, Assign, Certify
  <1>8. CASE UNCHANGED vars
    BY <1>1, <1>4, <1>8 DEF vars
  <1>9. ASSUME NEW c \in Cands, NEW k \in Cohorts, Merges(c, k)
        PROVE  HeadRev' = HeadRev + 1 /\ \A n \in 1 .. HeadRev : auth'[n] = auth[n]
    BY <1>9, MergePublishes
  <1>10. ASSUME NEW t \in 1 .. MaxRevisions, Revert(t)
         PROVE  HeadRev' = HeadRev + 1 /\ \A n \in 1 .. HeadRev : auth'[n] = auth[n]
    BY <1>10, RevertPublishes
  <1>11. ASSUME NEW p \in Policies, Rotate(p)
         PROVE  HeadRev' = HeadRev + 1 /\ \A n \in 1 .. HeadRev : auth'[n] = auth[n]
    BY <1>11, RotatePublishes
  <1>12. ASSUME NEW c \in Cands, NEW k \in Cohorts, Merge(c, k)
         PROVE  Merges(c, k) \/ auth' = auth
    BY <1>12, MergeOutcome
  <1>13. CASE AuthorityDecision
    BY <1>1, <1>4, <1>9, <1>10, <1>11, <1>12, <1>13 DEF AuthorityDecision
  <1> QED
    BY <1>3, <1>5, <1>6, <1>7, <1>8, <1>13 DEF Next

-----------------------------------------------------------------------------
(* A publication keeps LearnedByEffect if it is an effect itself or takes  *)
(* its bindings from a revision of the chain.                              *)
LEMMA LearnedKept ==
  ASSUME LearnedByEffect, HeadRev \in Nat, HeadRev' = HeadRev + 1,
         \A n \in 1 .. HeadRev : auth'[n] = auth[n],
         \/ auth'[HeadRev + 1].cause = "effect"
         \/ \E t \in 1 .. HeadRev : auth'[HeadRev + 1].bind = auth[t].bind
  PROVE  LearnedByEffect'
  <1> SUFFICES ASSUME NEW n \in 1 .. HeadRev', NEW m \in Memories,
                      auth'[n].bind[m] # "none"
               PROVE  \E i \in 1 .. n : auth'[i].cause = "effect"
                                       /\ auth'[i].bind[m] = auth'[n].bind[m]
    BY DEF LearnedByEffect
  <1>1. ASSUME NEW t \in 1 .. HeadRev, t <= n,
               auth'[n].bind = auth[t].bind
        PROVE  \E i \in 1 .. n : auth'[i].cause = "effect"
                                /\ auth'[i].bind[m] = auth'[n].bind[m]
    <2>1. auth[t].bind[m] # "none"
      BY <1>1
    <2>2. PICK i \in 1 .. t : /\ auth[i].cause = "effect"
                             /\ auth[i].bind[m] = auth[t].bind[m]
      BY <2>1 DEF LearnedByEffect
    <2>3. i \in 1 .. HeadRev /\ i \in 1 .. n
      BY <1>1
    <2>4. auth'[i] = auth[i]
      BY <2>3
    <2> QED
      BY <1>1, <2>2, <2>3, <2>4
  <1>2. CASE n \in 1 .. HeadRev
    BY <1>1, <1>2
  <1>3. CASE n = HeadRev + 1
    BY <1>1, <1>3
  <1> QED
    BY <1>2, <1>3

(* Every step keeps LearnedByEffect.                                       *)
LEMMA LearnedStep ==
  ASSUME TypeOK, LearnedByEffect, [Next]_vars
  PROVE  LearnedByEffect'
  <1>1. CASE auth' = auth
    BY <1>1 DEF LearnedByEffect, HeadRev
  <1>2. CASE HeadRev' = 1 /\ \E p \in Policies : auth'[1] = Genesis(p)
    <2>1. \A m \in Memories : auth'[1].bind[m] = "none"
      BY <1>2 DEF Genesis
    <2> QED
      BY <1>2, <2>1 DEF LearnedByEffect
  <1>3. ASSUME NEW c \in Cands, NEW k \in Cohorts, Merges(c, k)
        PROVE  LearnedByEffect'
    <2>1. /\ HeadRev' = HeadRev + 1 /\ HeadRev \in Nat
          /\ \A n \in 1 .. HeadRev : auth'[n] = auth[n]
      BY <1>3, MergePublishes
    <2>2. auth'[HeadRev + 1].cause = "effect"
      BY <1>3, MergePublishes
    <2> QED
      BY <2>1, <2>2, LearnedKept
  <1>4. ASSUME NEW t \in 1 .. MaxRevisions, Revert(t)
        PROVE  LearnedByEffect'
    <2>1. /\ HeadRev' = HeadRev + 1 /\ HeadRev \in Nat
          /\ \A n \in 1 .. HeadRev : auth'[n] = auth[n]
      BY <1>4, RevertPublishes
    <2>2. t \in 1 .. HeadRev /\ auth'[HeadRev + 1].bind = auth[t].bind
      BY <1>4, RevertPublishes
    <2> QED
      BY <2>1, <2>2, LearnedKept
  <1>5. ASSUME NEW p \in Policies, Rotate(p)
        PROVE  LearnedByEffect'
    <2>1. /\ HeadRev' = HeadRev + 1 /\ HeadRev \in Nat
          /\ \A n \in 1 .. HeadRev : auth'[n] = auth[n]
      BY <1>5, RotatePublishes
    <2>2. /\ HeadRev \in 1 .. HeadRev
          /\ auth'[HeadRev + 1].bind = auth[HeadRev].bind
      BY <1>5, RotatePublishes DEF Current
    <2> QED
      BY <2>1, <2>2, LearnedKept
  <1> QED
    BY <1>1, <1>2, <1>3, <1>4, <1>5, ChainMoves

(* Nothing learned serves unless an effect was measured for it: in every   *)
(* reachable state each binding of each authoritative revision was brought *)
(* in by an effect revision before it, whatever was reverted or rotated.   *)
THEOREM LearnedOnlyByEffect == Spec => []LearnedByEffect
  <1>1. Init => LearnedByEffect
    BY DEF Init, LearnedByEffect, HeadRev
  <1>2. TypeOK /\ LearnedByEffect /\ [Next]_vars => LearnedByEffect'
    BY LearnedStep
  <1> QED
    BY <1>1, <1>2, TypeCorrect, PTL DEF Spec

-----------------------------------------------------------------------------
(* A genesis revision is within every limit.                               *)
LEMMA NothingWithin ==
  ASSUME NEW p \in Policies
  PROVE  Within(Genesis(p).bind, Genesis(p).policy)
  <1>1. Bound(Genesis(p).bind) = {}
    BY DEF Bound, Genesis
  <1>2. Cardinality({}) = 0
    BY FS_EmptySet
  <1>3. Genesis(p).policy = p /\ Limit[p] \in Nat
    BY AuthorityAssumption DEF Genesis
  <1> QED
    BY <1>1, <1>2, <1>3 DEF Within

(* How the row of a candidate changes: it is drafted on the head, or it is *)
(* on the head, open, and keeps all but its state and certificate.         *)
LEMMA CandMoves ==
  ASSUME TypeOK, [Next]_vars, NEW c \in Cands
  PROVE  \/ cand'[c] = cand[c]
         \/ /\ cand[c].state = "absent"
            /\ cand'[c].state = "draft"
            /\ cand'[c].base = HeadRev'
            /\ HeadRev' \in 1 .. HeadRev'
            /\ cand'[c].policy = auth'[HeadRev'].policy
         \/ \E next \in CandStates : Advance(c, next)
         \/ Terminate(c)
         \/ \E k \in Cohorts : Merges(c, k)
  <1>1. ASSUME NEW d \in Cands, NEW L \in SUBSET Memories, NEW p \in Policies,
               NEW learned \in [L -> Dispositions \ {"none"}],
               Record(d, L, learned, p), cand'[c] # cand[c]
        PROVE  /\ cand[c].state = "absent"
               /\ cand'[c].state = "draft"
               /\ cand'[c].base = HeadRev'
               /\ HeadRev' \in 1 .. HeadRev'
               /\ cand'[c].policy = auth'[HeadRev'].policy
    <2> DEFINE head == auth'[Len(auth')]
    <2>1. L # {}
      BY <1>1 DEF Record
    <2>2. /\ cand[d].state = "absent"
          /\ cand' = [cand EXCEPT ![d] =
               [state |-> "draft", base |-> Len(auth'),
                bind |-> Drafted(head, learned), policy |-> head.policy,
                cert |-> NoCohort]]
      BY <1>1, <2>1 DEF Record
    <2>3. c = d
      BY <1>1, <2>2 DEF TypeOK
    <2>4. HeadRev' = Len(auth') /\ Len(auth') \in 1 .. MaxRevisions
      BY <1>1, RecordedChain DEF HeadRev
    <2> HIDE DEF head
    <2>5. /\ cand'[c].state = "draft"
          /\ cand'[c].base = Len(auth')
          /\ cand'[c].policy = head.policy
      BY <2>2, <2>3 DEF TypeOK
    <2> QED
      BY <2>2, <2>3, <2>4, <2>5 DEF head
  <1>2. CASE RecordObservations
    BY <1>1, <1>2 DEF RecordObservations
  <1>3. ASSUME NEW d \in Cands, NEW next \in CandStates, Advance(d, next)
        PROVE  cand'[c] = cand[c] \/ Advance(c, next)
    BY <1>3 DEF Advance, TypeOK
  <1>4. ASSUME NEW d \in Cands, Terminate(d)
        PROVE  cand'[c] = cand[c] \/ Terminate(c)
    BY <1>4 DEF Terminate, TypeOK
  <1>5. ASSUME NEW d \in Cands, NEW k \in Cohorts, Merge(d, k)
        PROVE  cand'[c] = cand[c] \/ Merges(c, k)
    BY <1>5, MergeOutcome DEF TypeOK
  <1>6. CASE CandidateDecision
    BY <1>3, <1>4, <1>6 DEF CandidateDecision
  <1>7. CASE AuthorityDecision
    BY <1>5, <1>7 DEF AuthorityDecision, Revert, Rotate
  <1>8. CASE MemoryDecision \/ Experiment \/ UNCHANGED vars
    BY <1>8 DEF MemoryDecision, LifecycleDecision, Experiment, InstallCohort,
                Tick, Assign, Certify, vars
  <1> QED
    BY <1>2, <1>6, <1>7, <1>8 DEF Next

(* A publication within the limit of its policies keeps the chain so.      *)
LEMMA ChainWithin ==
  ASSUME WithinCapacity, HeadRev \in Nat, HeadRev' = HeadRev + 1,
         \A n \in 1 .. HeadRev : auth'[n] = auth[n],
         Within(auth'[HeadRev + 1].bind, auth'[HeadRev + 1].policy)
  PROVE  \A n \in 1 .. HeadRev' : Within(auth'[n].bind, auth'[n].policy)
  <1> SUFFICES ASSUME NEW n \in 1 .. HeadRev'
               PROVE  Within(auth'[n].bind, auth'[n].policy)
    OBVIOUS
  <1>1. CASE n \in 1 .. HeadRev
    BY <1>1 DEF WithinCapacity
  <1>2. CASE n = HeadRev + 1
    BY <1>2
  <1> QED
    BY <1>1, <1>2

(* Every step keeps WithinCapacity.                                        *)
LEMMA CapacityStep ==
  ASSUME TypeOK, WithinCapacity, [Next]_vars
  PROVE  WithinCapacity'
  <1>1. \A n \in 1 .. HeadRev' : Within(auth'[n].bind, auth'[n].policy)
    <2>1. CASE auth' = auth /\ HeadRev' = HeadRev
      BY <2>1 DEF WithinCapacity
    <2>2. CASE HeadRev' = 1 /\ \E p \in Policies : auth'[1] = Genesis(p)
      BY <2>2, NothingWithin
    <2>3. ASSUME NEW c \in Cands, NEW k \in Cohorts, Merges(c, k)
          PROVE  \A n \in 1 .. HeadRev' : Within(auth'[n].bind, auth'[n].policy)
      <3>1. Within(cand[c].bind, cand[c].policy)
        BY <2>3, MergeWrites
      <3>2. /\ HeadRev' = HeadRev + 1 /\ HeadRev \in Nat
            /\ \A n \in 1 .. HeadRev : auth'[n] = auth[n]
            /\ auth'[HeadRev + 1].bind = cand[c].bind
            /\ auth'[HeadRev + 1].policy = cand[c].policy
        BY <2>3, MergePublishes
      <3> QED
        BY <3>1, <3>2, ChainWithin
    <2>4. ASSUME NEW t \in 1 .. MaxRevisions, Revert(t)
          PROVE  \A n \in 1 .. HeadRev' : Within(auth'[n].bind, auth'[n].policy)
      <3>1. Within(auth[t].bind, Current.policy)
        BY <2>4 DEF Revert, RevertBindings
      <3>2. /\ HeadRev' = HeadRev + 1 /\ HeadRev \in Nat
            /\ \A n \in 1 .. HeadRev : auth'[n] = auth[n]
            /\ auth'[HeadRev + 1].bind = auth[t].bind
            /\ auth'[HeadRev + 1].policy = Current.policy
        BY <2>4, RevertPublishes
      <3> QED
        BY <3>1, <3>2, ChainWithin
    <2>5. ASSUME NEW p \in Policies, Rotate(p)
          PROVE  \A n \in 1 .. HeadRev' : Within(auth'[n].bind, auth'[n].policy)
      <3>1. Within(Current.bind, p)
        BY <2>5 DEF Rotate
      <3>2. /\ HeadRev' = HeadRev + 1 /\ HeadRev \in Nat
            /\ \A n \in 1 .. HeadRev : auth'[n] = auth[n]
            /\ auth'[HeadRev + 1].bind = Current.bind
            /\ auth'[HeadRev + 1].policy = p
        BY <2>5, RotatePublishes
      <3> QED
        BY <3>1, <3>2, ChainWithin
    <2> QED
      BY <2>1, <2>2, <2>3, <2>4, <2>5, ChainMoves
  <1>2. ASSUME NEW c \in Cands,
               cand'[c].state \in {"eligible", "active_candidate", "merged"}
        PROVE  Within(cand'[c].bind, cand'[c].policy)
    <2>1. CASE cand'[c] = cand[c]
      BY <1>2, <2>1 DEF WithinCapacity
    <2>2. ASSUME NEW next \in CandStates, Advance(c, next)
          PROVE  Within(cand'[c].bind, cand'[c].policy)
      <3>1. cand'[c].state = next /\ next # "shadow"
        BY <1>2, <2>2 DEF Advance, TypeOK, Candidate
      <3>2. /\ cand'[c].bind = cand[c].bind
            /\ cand'[c].policy = cand[c].policy
        BY <2>2 DEF Advance, TypeOK, Candidate
      <3>3. Within(cand[c].bind, cand[c].policy)
        BY <2>2, <3>1 DEF Advance
      <3> QED
        BY <3>2, <3>3
    <2>3. CASE Terminate(c)
      BY <1>2, <2>3 DEF Terminate, TypeOK, Candidate
    <2>4. ASSUME NEW k \in Cohorts, Merges(c, k)
          PROVE  Within(cand'[c].bind, cand'[c].policy)
      <3>1. /\ cand'[c].bind = cand[c].bind
            /\ cand'[c].policy = cand[c].policy
        BY <2>4, MergedRow
      <3>2. Within(cand[c].bind, cand[c].policy)
        BY <2>4, MergeWrites
      <3> QED
        BY <3>1, <3>2
    <2> QED
      BY <1>2, <2>1, <2>2, <2>3, <2>4, CandMoves
  <1> QED
    BY <1>1, <1>2 DEF WithinCapacity, Within, Bound

(* Capacity: in every reachable state no authoritative revision, and no    *)
(* candidate on its way into service, exceeds the limit of its policies.   *)
THEOREM CapacityHeld == Spec => []WithinCapacity
  <1>1. Init => WithinCapacity
    BY DEF Init, WithinCapacity, HeadRev, Undrafted
  <1>2. TypeOK /\ WithinCapacity /\ [Next]_vars => WithinCapacity'
    BY CapacityStep
  <1> QED
    BY <1>1, <1>2, TypeCorrect, PTL DEF Spec

-----------------------------------------------------------------------------
(* How a cohort changes: it is installed for an active candidate on the    *)
(* head, or it keeps its pair and takes a tick, an arm or a certificate.   *)
(* Only a tick may fall into a decision, and this is a merge.              *)
LEMMA CohortMoves ==
  ASSUME TypeOK, [Next]_vars, NEW k \in Cohorts
  PROVE  \/ cohort'[k] = cohort[k]
         \/ /\ UNCHANGED <<auth, cand>>
            /\ cohort[k].stage = "absent"
            /\ cohort'[k].stage = "installed"
            /\ cohort'[k].arms = {}
            /\ cohort'[k].cert = "none"
            /\ cohort'[k].control = HeadRev
            /\ cohort'[k].of \in Cands
            /\ OnHead(cohort'[k].of)
            /\ cand[cohort'[k].of].state = "active_candidate"
         \/ /\ cohort'[k].of = cohort[k].of
            /\ cohort'[k].control = cohort[k].control
            /\ \/ /\ cohort[k].stage \notin {"absent", "past"}
                  /\ cohort'[k].stage = NextStage(cohort[k].stage)
                  /\ cohort'[k].arms = cohort[k].arms
                  /\ cohort'[k].cert = cohort[k].cert
               \/ /\ UNCHANGED <<auth, cand>>
                  /\ Serving(k)
                  /\ cohort'[k].stage = cohort[k].stage
                  /\ cohort'[k].cert = cohort[k].cert
               \/ /\ UNCHANGED <<auth, cand>>
                  /\ cohort[k].stage \in {"cutoff", "past"}
                  /\ cohort'[k].stage = cohort[k].stage
                  /\ cohort'[k].arms = cohort[k].arms
                  /\ cohort[k].cert = "none"
                  /\ cohort'[k].cert # "none"
                  /\ cohort'[k].cert = "admitted" => cohort[k].arms = Arms
  <1>1. CASE RecordObservations \/ CandidateDecision \/ MemoryDecision
             \/ UNCHANGED vars
    BY <1>1 DEF RecordObservations, Record, CandidateDecision, Advance,
                Terminate, MemoryDecision, LifecycleDecision, vars
  <1>2. ASSUME cohort' \in Passages
        PROVE  \/ cohort'[k] = cohort[k]
               \/ /\ cohort'[k].of = cohort[k].of
                  /\ cohort'[k].control = cohort[k].control
                  /\ cohort[k].stage \notin {"absent", "past"}
                  /\ cohort'[k].stage = NextStage(cohort[k].stage)
                  /\ cohort'[k].arms = cohort[k].arms
                  /\ cohort'[k].cert = cohort[k].cert
    BY <1>2, PassageMoves
  <1>3. ASSUME AuthorityDecision
        PROVE  cohort' \in Passages
    BY <1>3 DEF AuthorityDecision, Merge, Revert, Rotate, Passages
  <1>4. ASSUME NEW j \in Cohorts, j # k,
               \/ \E c \in Cands : InstallCohort(j, c)
               \/ Tick(j)
               \/ \E arm \in Arms : Assign(j, arm)
               \/ \E verdict \in Certs \ {"none"} : Certify(j, verdict)
        PROVE  cohort'[k] = cohort[k]
    BY <1>4 DEF InstallCohort, Tick, Ticked, Assign, Certify, TypeOK
  <1>5. ASSUME NEW c \in Cands, InstallCohort(k, c)
        PROVE  /\ UNCHANGED <<auth, cand>>
               /\ cohort[k].stage = "absent"
               /\ cohort'[k].stage = "installed"
               /\ cohort'[k].arms = {}
               /\ cohort'[k].cert = "none"
               /\ cohort'[k].control = HeadRev
               /\ cohort'[k].of = c
               /\ OnHead(c)
               /\ cand[c].state = "active_candidate"
    BY <1>5 DEF InstallCohort, TypeOK, LearningPair
  <1>6. ASSUME Tick(k)
        PROVE  cohort' \in Passages
    BY <1>6 DEF Tick, Passages
  <1>7. ASSUME NEW arm \in Arms, Assign(k, arm)
        PROVE  /\ UNCHANGED <<auth, cand>>
               /\ cohort'[k].of = cohort[k].of
               /\ cohort'[k].control = cohort[k].control
               /\ Serving(k)
               /\ cohort'[k].stage = cohort[k].stage
               /\ cohort'[k].cert = cohort[k].cert
    BY <1>7 DEF Assign, TypeOK, Cohort
  <1>8. ASSUME NEW verdict \in Certs \ {"none"}, Certify(k, verdict)
        PROVE  /\ UNCHANGED <<auth, cand>>
               /\ cohort'[k].of = cohort[k].of
               /\ cohort'[k].control = cohort[k].control
               /\ cohort[k].stage \in {"cutoff", "past"}
               /\ cohort'[k].stage = cohort[k].stage
               /\ cohort'[k].arms = cohort[k].arms
               /\ cohort[k].cert = "none"
               /\ cohort'[k].cert = verdict
               /\ cohort'[k].cert = "admitted" => cohort[k].arms = Arms
    BY <1>8 DEF Certify, TypeOK, Cohort
  <1>9. CASE Experiment
    BY <1>2, <1>4, <1>5, <1>6, <1>7, <1>8, <1>9 DEF Experiment
  <1> QED
    BY <1>1, <1>2, <1>3, <1>9 DEF Next

(* What becomes of a candidate once it is drafted: base, bindings and      *)
(* policies stay, a closed one stays closed with its certificate, an       *)
(* active one can only be closed, and only a merge makes it merged.        *)
LEMMA CandKept ==
  ASSUME TypeOK, [Next]_vars, NEW c \in Cands, cand[c].state # "absent"
  PROVE  /\ cand'[c].state # "absent"
         /\ cand'[c].base = cand[c].base
         /\ cand'[c].bind = cand[c].bind
         /\ cand'[c].policy = cand[c].policy
         /\ cand[c].state \in Closed => cand'[c] = cand[c]
         /\ cand[c].state = "active_candidate" =>
              cand'[c].state \in {"active_candidate"} \cup Closed
         /\ cand'[c].state = "merged" /\ cand[c].state # "merged" =>
              \E k \in Cohorts : Merges(c, k)
  <1>1. CASE cand'[c] = cand[c]
    BY <1>1
  <1>2. ASSUME NEW next \in CandStates, Advance(c, next)
        PROVE  /\ cand'[c].state = next
               /\ next \in {"shadow", "eligible", "active_candidate"}
               /\ cand[c].state \in {"draft", "shadow", "eligible"}
               /\ cand'[c].base = cand[c].base
               /\ cand'[c].bind = cand[c].bind
               /\ cand'[c].policy = cand[c].policy
    BY <1>2 DEF Advance, Following, TypeOK, Candidate
  <1>3. CASE Terminate(c)
    BY <1>3 DEF Terminate, TypeOK, Candidate, Closed
  <1>4. ASSUME NEW k \in Cohorts, Merges(c, k)
        PROVE  /\ cand'[c].state = "merged"
               /\ cand[c].state = "active_candidate"
               /\ cand'[c].base = cand[c].base
               /\ cand'[c].bind = cand[c].bind
               /\ cand'[c].policy = cand[c].policy
    BY <1>4, MergedRow, MergeWrites
  <1> QED
    BY <1>1, <1>2, <1>3, <1>4, CandMoves DEF Closed

(* Every step keeps a draft on the chain.                                  *)
LEMMA DraftsStep ==
  ASSUME IInv, [Next]_vars
  PROVE  DraftsOnChain'
  <1> USE DEF IInv
  <1> SUFFICES ASSUME NEW c \in Cands, cand'[c].state # "absent"
               PROVE  /\ cand'[c].base \in 1 .. HeadRev'
                      /\ cand'[c].policy = auth'[cand'[c].base].policy
    BY DEF DraftsOnChain
  <1>1. CASE cand[c].state = "absent"
    BY <1>1, CandMoves, MergeWrites DEF OnHead, Advance, Terminate
  <1>2. CASE cand[c].state # "absent"
    <2>1. /\ cand[c].base \in 1 .. HeadRev
          /\ cand[c].policy = auth[cand[c].base].policy
      BY <1>2 DEF DraftsOnChain
    <2>2. cand'[c].base = cand[c].base /\ cand'[c].policy = cand[c].policy
      BY <1>2, CandKept
    <2>3. /\ HeadRev <= HeadRev' /\ HeadRev \in Nat /\ HeadRev' \in Nat
          /\ \A n \in 1 .. HeadRev : auth'[n] = auth[n]
      BY ChainMoves
    <2> QED
      BY <2>1, <2>2, <2>3
  <1> QED
    BY <1>1, <1>2

(* Every step keeps the pair of an installed cohort.                       *)
LEMMA PairsStep ==
  ASSUME IInv, [Next]_vars
  PROVE  PairsStand'
  <1> USE DEF IInv
  <1> SUFFICES ASSUME NEW k \in Cohorts, cohort'[k].stage # "absent"
               PROVE  /\ cohort'[k].of \in Cands
                      /\ cohort'[k].control \in 1 .. HeadRev'
                      /\ cand'[cohort'[k].of].base = cohort'[k].control
                      /\ cand'[cohort'[k].of].state
                           \in {"active_candidate"} \cup Closed
    BY DEF PairsStand
  <1>1. HeadRev <= HeadRev' /\ HeadRev \in Nat /\ HeadRev' \in Nat
    BY ChainMoves
  <1>2. CASE cohort[k].stage = "absent"
    <2>1. /\ UNCHANGED <<auth, cand>>
          /\ cohort'[k].control = HeadRev
          /\ cohort'[k].of \in Cands
          /\ OnHead(cohort'[k].of)
          /\ cand[cohort'[k].of].state = "active_candidate"
      BY <1>2, CohortMoves DEF Serving
    <2>2. cohort'[k].control \in 1 .. HeadRev
      BY <2>1 DEF OnHead, DraftsOnChain
    <2> QED
      BY <1>1, <2>1, <2>2 DEF OnHead
  <1>3. CASE cohort[k].stage # "absent"
    <2> DEFINE c == cohort[k].of
    <2>1. cohort'[k].of = c /\ cohort'[k].control = cohort[k].control
      BY <1>3, CohortMoves
    <2>2. /\ c \in Cands /\ cohort[k].control \in 1 .. HeadRev
          /\ cand[c].base = cohort[k].control
          /\ cand[c].state \in {"active_candidate"} \cup Closed
      BY <1>3 DEF PairsStand
    <2> HIDE DEF c
    <2>3. cand[c].state # "absent"
      BY <2>2 DEF Closed
    <2>4. /\ cand'[c].base = cand[c].base
          /\ cand[c].state \in Closed => cand'[c] = cand[c]
          /\ cand[c].state = "active_candidate" =>
               cand'[c].state \in {"active_candidate"} \cup Closed
      BY <2>2, <2>3, CandKept
    <2>5. cand'[c].state \in {"active_candidate"} \cup Closed
      BY <2>2, <2>4
    <2> QED
      BY <1>1, <2>1, <2>2, <2>4, <2>5
  <1> QED
    BY <1>2, <1>3

(* Every step keeps the evidence of a cohort in order.                     *)
LEMMA EvidenceStep ==
  ASSUME IInv, [Next]_vars
  PROVE  EvidenceInOrder'
  <1> USE DEF IInv
  <1> SUFFICES ASSUME NEW k \in Cohorts
               PROVE  /\ cohort'[k].stage \in {"absent", "installed"}
                           => cohort'[k].arms = {}
                      /\ cohort'[k].cert # "none"
                           => cohort'[k].stage \in {"cutoff", "past"}
                      /\ cohort'[k].cert = "admitted" => cohort'[k].arms = Arms
    BY DEF EvidenceInOrder
  <1>1. /\ cohort[k].stage \in {"absent", "installed"} => cohort[k].arms = {}
        /\ cohort[k].cert # "none" => cohort[k].stage \in {"cutoff", "past"}
        /\ cohort[k].cert = "admitted" => cohort[k].arms = Arms
    BY DEF EvidenceInOrder
  <1>2. /\ NextStage(cohort[k].stage) \notin {"absent", "installed"}
        /\ cohort[k].stage = "cutoff" => NextStage(cohort[k].stage) = "past"
    BY DEF NextStage
  <1> QED
    BY <1>1, <1>2, CohortMoves DEF Serving

(* No step moves the head away under a cohort that still measures: the     *)
(* three decisions that would are refused by the freeze.                   *)
LEMMA FrozenStep ==
  ASSUME IInv, [Next]_vars
  PROVE  FrozenWhileMeasured'
  <1> USE DEF IInv
  <1> SUFFICES ASSUME NEW k \in Cohorts,
                      cohort'[k].stage \in Measuring, cohort'[k].arms # {},
                      cohort'[k].cert = "none",
                      cand'[cohort'[k].of].state = "active_candidate"
               PROVE  cohort'[k].control = HeadRev'
    BY DEF FrozenWhileMeasured
  <1>1. ASSUME cohort[k].stage \in Measuring,
               cohort'[k].of = cohort[k].of,
               cohort'[k].control = cohort[k].control,
               cohort'[k].arms = cohort[k].arms,
               cohort'[k].cert = cohort[k].cert
        PROVE  cohort'[k].control = HeadRev'
    <2> DEFINE c == cohort[k].of
    <2>1. /\ c \in Cands /\ cohort[k].control \in 1 .. HeadRev
          /\ cand[c].state \in {"active_candidate"} \cup Closed
      BY <1>1 DEF PairsStand, Measuring
    <2>2. cohort'[k].of = c
      BY <1>1
    <2> HIDE DEF c
    <2>3. cand[c].state = "active_candidate"
      <3>1. cand[c].state # "absent"
        BY <2>1 DEF Closed
      <3>2. cand[c].state \in Closed => cand'[c] = cand[c]
        BY <2>1, <3>1, CandKept
      <3> QED
        BY <2>1, <2>2, <3>2 DEF Closed
    <2>4. cohort[k].control = HeadRev
      BY <1>1, <2>3 DEF FrozenWhileMeasured, c
    <2>5. Frozen
      BY <1>1, <2>3, <2>4 DEF Frozen, Freezes, c
    <2>6. HeadRev' = HeadRev
      <3>1. ~ \E d \in Cands, j \in Cohorts : Merges(d, j)
        BY <2>5, MergeWrites
      <3>2. ~ \E t \in 1 .. MaxRevisions : Revert(t)
        BY <2>5 DEF Revert
      <3>3. ~ \E p \in Policies : Rotate(p)
        BY <2>5 DEF Rotate
      <3>4. HeadRev # 0
        BY <2>1, <2>4
      <3> QED
        BY <3>1, <3>2, <3>3, <3>4, ChainMoves
    <2> QED
      BY <1>1, <2>4, <2>6
  <1>2. CASE cohort'[k] = cohort[k]
    BY <1>1, <1>2
  <1>3. CASE /\ cohort'[k].of = cohort[k].of
             /\ cohort'[k].control = cohort[k].control
             /\ cohort[k].stage \notin {"absent", "past"}
             /\ cohort'[k].stage = NextStage(cohort[k].stage)
             /\ cohort'[k].arms = cohort[k].arms
             /\ cohort'[k].cert = cohort[k].cert
    <2>1. cohort[k].stage # "installed"
      BY <1>3 DEF EvidenceInOrder
    <2>2. cohort[k].stage \in Stages
      BY DEF TypeOK, Cohort
    <2>3. cohort[k].stage \in Measuring
      BY <1>3, <2>1, <2>2 DEF Stages, Measuring
    <2> QED
      BY <1>1, <1>3, <2>3
  <1>4. CASE /\ UNCHANGED <<auth, cand>> /\ Serving(k)
             /\ cohort'[k].control = cohort[k].control
    BY <1>4 DEF Serving, HeadRev
  <1>5. CASE UNCHANGED <<auth, cand>> /\ cohort'[k].control = HeadRev
    BY <1>5 DEF HeadRev
  <1> QED
    BY <1>2, <1>3, <1>4, <1>5, CohortMoves

(* The ground of a published effect revision does not move any more.       *)
LEMMA MeasuredKept ==
  ASSUME IInv, [Next]_vars, NEW n \in 1 .. HeadRev, Measured(n)
  PROVE  Measured(n)'
  <1> USE DEF IInv
  <1> DEFINE k == auth[n].cert
             c == cohort[k].of
  <1>1. /\ k \in Cohorts /\ c \in Cands
        /\ cohort[k].cert = "admitted" /\ cohort[k].arms = Arms
        /\ cohort[k].control = n - 1
        /\ cand[c].state = "merged" /\ cand[c].cert = k
        /\ cand[c].base = n - 1
        /\ cand[c].bind = auth[n].bind
        /\ cand[c].policy = auth[n].policy
        /\ cand[c].policy = auth[n - 1].policy
    BY DEF Measured
  <1>2. auth'[n] = auth[n]
    BY ChainMoves
  <1> HIDE DEF k, c
  <1>3. cohort[k].stage \in {"cutoff", "past"}
    BY <1>1 DEF EvidenceInOrder
  <1>4. /\ cohort'[k].of = cohort[k].of
        /\ cohort'[k].cert = "admitted" /\ cohort'[k].arms = Arms
        /\ cohort'[k].control = n - 1
    BY <1>1, <1>3, CohortMoves DEF Serving
  <1>5. cand'[c] = cand[c]
    BY <1>1, CandKept DEF Closed
  <1>6. n - 1 \in 1 .. HeadRev
    BY <1>1, <1>3 DEF PairsStand
  <1>7. auth'[n - 1] = auth[n - 1]
    BY <1>6, ChainMoves
  <1>8. auth'[n].cert = k /\ cohort'[k].of = c
    BY <1>2, <1>4 DEF k, c
  <1> QED
    BY <1>1, <1>2, <1>4, <1>5, <1>7, <1>8 DEF Measured

(* A merge rests on what it just checked.                                  *)
LEMMA MergeMeasured ==
  ASSUME IInv, NEW c \in Cands, NEW k \in Cohorts, Merges(c, k),
         NEW n, n = HeadRev'
  PROVE  Measured(n)'
  <1> USE DEF IInv
  <1>1. /\ HeadRev' = HeadRev + 1 /\ HeadRev \in Nat
        /\ auth'[HeadRev + 1].bind = cand[c].bind
        /\ auth'[HeadRev + 1].policy = cand[c].policy
        /\ auth'[HeadRev + 1].cert = k
        /\ \A i \in 1 .. HeadRev : auth'[i] = auth[i]
    BY MergePublishes
  <1>2. /\ cohort[k].cert = "admitted" /\ cohort[k].of = c
        /\ cohort[k].control = HeadRev
        /\ cohort'[k].cert = cohort[k].cert /\ cohort'[k].of = cohort[k].of
        /\ cohort'[k].control = cohort[k].control
        /\ cohort'[k].arms = cohort[k].arms
    BY MergeWrites, PassageMoves DEF Proves
  <1>3. cohort[k].arms = Arms
    BY <1>2 DEF EvidenceInOrder
  <1>4. cand[c].state # "absent" /\ cand[c].base = HeadRev
    BY MergeWrites DEF OnHead
  <1>5. HeadRev \in 1 .. HeadRev /\ cand[c].policy = auth[HeadRev].policy
    BY <1>4 DEF DraftsOnChain
  <1>6. /\ cand'[c].state = "merged" /\ cand'[c].cert = k
        /\ cand'[c].base = cand[c].base /\ cand'[c].bind = cand[c].bind
        /\ cand'[c].policy = cand[c].policy
    BY MergedRow
  <1>7. auth'[HeadRev] = auth[HeadRev]
    BY <1>1, <1>5
  <1>8. n = HeadRev + 1 /\ n - 1 = HeadRev
    BY <1>1
  <1>9. /\ auth'[n].bind = cand[c].bind /\ auth'[n].policy = cand[c].policy
        /\ auth'[n].cert = k /\ auth'[n - 1] = auth[HeadRev]
    BY <1>1, <1>7, <1>8
  <1> QED
    BY <1>2, <1>3, <1>4, <1>5, <1>6, <1>8, <1>9 DEF Measured

(* Every step keeps MeasuredMerges.                                        *)
LEMMA MeasuredStep ==
  ASSUME IInv, [Next]_vars
  PROVE  MeasuredMerges'
  <1> USE DEF IInv
  <1> SUFFICES ASSUME NEW n \in 1 .. HeadRev', auth'[n].cause = "effect"
               PROVE  Measured(n)'
    BY DEF MeasuredMerges
  <1>1. CASE n \in 1 .. HeadRev
    <2>1. auth[n].cause = "effect"
      BY <1>1, ChainMoves
    <2>2. Measured(n)
      BY <1>1, <2>1 DEF MeasuredMerges
    <2> QED
      BY <1>1, <2>2, MeasuredKept
  <1>2. CASE n \notin 1 .. HeadRev
    <2>1. ASSUME NEW c \in Cands, NEW k \in Cohorts, Merges(c, k)
          PROVE  Measured(n)'
      <3>1. n = HeadRev'
        BY <1>2, <2>1, MergePublishes
      <3> QED
        BY <2>1, <3>1, MergeMeasured
    <2>2. ASSUME NEW t \in 1 .. MaxRevisions, Revert(t)
          PROVE  FALSE
      BY <1>2, <2>2, RevertPublishes
    <2>3. ASSUME NEW p \in Policies, Rotate(p)
          PROVE  FALSE
      BY <1>2, <2>3, RotatePublishes
    <2>4. ASSUME NEW p \in Policies, HeadRev' = 1, auth'[1] = Genesis(p)
          PROVE  FALSE
      BY <2>4 DEF Genesis
    <2> QED
      BY <1>2, <2>1, <2>2, <2>3, <2>4, ChainMoves
  <1> QED
    BY <1>1, <1>2

(* The inductive invariant holds initially.                                *)
LEMMA InvInit == Init => IInv
  <1> SUFFICES ASSUME Init PROVE IInv
    OBVIOUS
  <1>1. HeadRev = 0
    BY DEF Init, HeadRev
  <1>2. \A k \in Cohorts : /\ cohort[k].stage = "absent"
                           /\ cohort[k].arms = {}
                           /\ cohort[k].cert = "none"
    BY DEF Init
  <1>3. \A c \in Cands : cand[c].state = "absent"
    BY DEF Init, Undrafted
  <1> QED
    BY <1>1, <1>2, <1>3, TypeInit
    DEF IInv, DraftsOnChain, PairsStand, EvidenceInOrder, FrozenWhileMeasured,
        MeasuredMerges, Measuring

(* The inductive invariant is kept by every step.                          *)
LEMMA InvStep == IInv /\ [Next]_vars => IInv'
  BY TypeStep, DraftsStep, PairsStep, EvidenceStep, FrozenStep, MeasuredStep
  DEF IInv

(* The inductive invariant holds in every reachable state.                 *)
LEMMA InvHolds == Spec => []IInv
  BY InvInit, InvStep, PTL DEF Spec

(* No authority without measured effect: in every reachable state each     *)
(* effect revision is the merge of the one candidate a certified cohort    *)
(* measured against exactly the revision before it.                        *)
THEOREM EffectsMeasured == Spec => []MeasuredMerges
  <1>1. IInv => MeasuredMerges
    BY DEF IInv
  <1> QED
    BY <1>1, InvHolds, PTL

(* The control arm stays the head while a cohort measures against it.      *)
THEOREM ControlStaysHead == Spec => []FrozenWhileMeasured
  <1>1. IInv => FrozenWhileMeasured
    BY DEF IInv
  <1> QED
    BY <1>1, InvHolds, PTL

-----------------------------------------------------------------------------
(* Every step keeps MergedOnce.                                            *)
LEMMA MergedStep ==
  ASSUME IInv, MergedOnce, [Next]_vars
  PROVE  MergedOnce'
  <1> USE DEF IInv
  <1>0. IInv'
    BY InvStep
  <1>1. ASSUME NEW c \in Cands, cand'[c].state = "merged"
        PROVE  \E n \in 1 .. HeadRev' :
                 auth'[n].cause = "effect" /\ auth'[n].cert = cand'[c].cert
                   /\ cohort'[cand'[c].cert].of = c
    <2>1. CASE cand[c].state = "merged"
      <3>1. PICK n \in 1 .. HeadRev :
              auth[n].cause = "effect" /\ auth[n].cert = cand[c].cert
                /\ cohort[cand[c].cert].of = c
        BY <2>1 DEF MergedOnce
      <3>2. Measured(n)
        BY <3>1 DEF MeasuredMerges
      <3> DEFINE k == cand[c].cert
      <3>3. k \in Cohorts /\ cohort[k].cert = "admitted"
        BY <3>1, <3>2 DEF Measured
      <3>4. cand'[c] = cand[c]
        BY <2>1, CandKept DEF Closed
      <3> HIDE DEF k
      <3>5. cohort'[k].of = cohort[k].of
        BY <3>3, CohortMoves DEF EvidenceInOrder
      <3>6. /\ auth'[n] = auth[n] /\ n \in 1 .. HeadRev'
        BY ChainMoves
      <3> QED
        BY <3>1, <3>4, <3>5, <3>6 DEF k
    <2>2. CASE cand[c].state # "merged"
      <3>1. PICK k \in Cohorts : Merges(c, k)
        <4>1. CASE cand[c].state = "absent"
          BY <1>1, <4>1, CandMoves DEF Advance, Terminate, OnHead
        <4>2. CASE cand[c].state # "absent"
          BY <1>1, <2>2, <4>2, CandKept
        <4> QED
          BY <4>1, <4>2
      <3>2. /\ HeadRev' = HeadRev + 1 /\ HeadRev \in Nat
            /\ auth'[HeadRev + 1].cause = "effect"
            /\ auth'[HeadRev + 1].cert = k
        BY <3>1, MergePublishes
      <3>3. cand'[c].cert = k
        BY <3>1, MergedRow
      <3>4. cohort'[k].of = c
        BY <3>1, MergeWrites, PassageMoves DEF Proves
      <3> QED
        BY <3>2, <3>3, <3>4
    <2> QED
      BY <2>1, <2>2
  <1>2. ASSUME NEW n \in 1 .. HeadRev', NEW i \in 1 .. HeadRev',
               auth'[n].cause = "effect", auth'[i].cause = "effect",
               auth'[n].cert = auth'[i].cert
        PROVE  n = i
    <2>1. Measured(n)' /\ Measured(i)'
      BY <1>0, <1>2 DEF MeasuredMerges
    <2>2. n \in Nat /\ i \in Nat /\ n - 1 = i - 1
      BY <1>2, <2>1, ChainMoves DEF Measured
    <2> QED
      BY <2>2
  <1> QED
    BY <1>1, <1>2 DEF MergedOnce

(* Merging is atomic for every number of candidates and cohorts: a         *)
(* candidate is merged exactly when its revision is in the chain, and no   *)
(* certificate pays for two revisions.                                     *)
THEOREM MergesAtomic == Spec => []MergedOnce
  <1>1. Init => MergedOnce
    BY DEF Init, MergedOnce, HeadRev, Undrafted
  <1>2. IInv /\ MergedOnce /\ [Next]_vars => MergedOnce'
    BY MergedStep
  <1> QED
    BY <1>1, <1>2, InvHolds, PTL DEF Spec

-----------------------------------------------------------------------------
(* A revision is published only with bindings to active memories.          *)
LEMMA PublishStep ==
  ASSUME TypeOK, [Next]_vars
  PROVE  ActivePublished
  <1> SUFFICES ASSUME NEW n \in 1 .. Len(auth'), n > HeadRev,
                      NEW m \in Bound(auth'[n].bind)
               PROVE  life'[m] = "active"
    BY DEF ActivePublished
  <1>1. HeadRev' = Len(auth')
    BY DEF HeadRev
  <1>2. ASSUME NEW bind, Writable(bind), UNCHANGED life, auth'[n].bind = bind
        PROVE  life'[m] = "active"
    BY <1>2 DEF Writable
  <1>3. ASSUME NEW c \in Cands, NEW k \in Cohorts, Merges(c, k)
        PROVE  life'[m] = "active"
    <2>1. HeadRev' = HeadRev + 1 /\ auth'[HeadRev + 1].bind = cand[c].bind
      BY <1>3, MergePublishes
    <2>2. HeadRev \in Nat /\ n = HeadRev + 1
      BY <1>1, <1>3, <2>1, MergePublishes
    <2>3. Writable(cand[c].bind) /\ UNCHANGED life
      BY <1>3, MergeWrites
    <2> QED
      BY <1>2, <2>1, <2>2, <2>3
  <1>4. ASSUME NEW t \in 1 .. MaxRevisions, Revert(t)
        PROVE  life'[m] = "active"
    <2>1. HeadRev' = HeadRev + 1 /\ auth'[HeadRev + 1].bind = auth[t].bind
      BY <1>4, RevertPublishes
    <2>2. HeadRev \in Nat /\ n = HeadRev + 1
      BY <1>1, <1>4, <2>1, RevertPublishes
    <2>3. Writable(auth[t].bind) /\ UNCHANGED life
      BY <1>4 DEF Revert, RevertBindings
    <2> QED
      BY <1>2, <2>1, <2>2, <2>3
  <1>5. ASSUME NEW p \in Policies, Rotate(p)
        PROVE  life'[m] = "active"
    <2>1. HeadRev' = HeadRev + 1 /\ auth'[HeadRev + 1].bind = Current.bind
      BY <1>5, RotatePublishes
    <2>2. HeadRev \in Nat /\ n = HeadRev + 1
      BY <1>1, <1>5, <2>1, RotatePublishes
    <2>3. Writable(Current.bind) /\ UNCHANGED life
      BY <1>5 DEF Rotate
    <2> QED
      BY <1>2, <2>1, <2>2, <2>3
  <1>6. ASSUME NEW p \in Policies, HeadRev = 0, HeadRev' = 1,
               auth'[1] = Genesis(p)
        PROVE  FALSE
    <2>1. n = 1
      BY <1>1, <1>6
    <2> QED
      BY <1>6, <2>1 DEF Bound, Genesis
  <1>7. CASE HeadRev' = HeadRev
    BY <1>1, <1>7, ChainMoves
  <1> QED
    BY <1>3, <1>4, <1>5, <1>6, <1>7, ChainMoves

(* No step publishes a binding of a memory that is not active at that      *)
(* moment, whatever was decided before.                                    *)
THEOREM OnlyActivePublished == Spec => PublishesActive
  BY PublishStep, TypeCorrect, PTL DEF Spec, PublishesActive

(* A withdrawn memory comes back only by a lifecycle decision.             *)
LEMMA WithdrawalStep ==
  ASSUME TypeOK, [Next]_vars
  PROVE  [\A m \in Memories :
           /\ life[m] \in {"quarantined", "archived"} => life'[m] = life[m]
           /\ life[m] = "suppressed" /\ life'[m] = "active"
                => UNCHANGED <<auth, cand, cohort, aborted>>]_vars
  <1> SUFFICES ASSUME NEW m \in Memories, life'[m] # life[m]
               PROVE  /\ life[m] \notin {"quarantined", "archived"}
                      /\ life[m] = "suppressed" /\ life'[m] = "active"
                           => UNCHANGED <<auth, cand, cohort, aborted>>
    OBVIOUS
  <1>1. CASE RecordObservations
    BY <1>1 DEF RecordObservations, Record, Recordable
  <1>2. CASE MemoryDecision
    BY <1>2 DEF MemoryDecision, LifecycleDecision, LifecycleMoves, TypeOK
  <1>3. CASE CandidateDecision \/ AuthorityDecision \/ Experiment
             \/ UNCHANGED vars
    BY <1>3 DEF CandidateDecision, Advance, Terminate, AuthorityDecision,
                Merge, Revert, Rotate, Experiment, InstallCohort, Tick,
                Assign, Certify, vars
  <1> QED
    BY <1>1, <1>2, <1>3 DEF Next

(* Withdrawal is final unless a decision restores it.                      *)
THEOREM WithdrawalFinal == Spec => WithdrawalSticks
  BY WithdrawalStep, TypeCorrect, PTL DEF Spec, WithdrawalSticks

-----------------------------------------------------------------------------
(* The checks of the authority workflows imply the guards of the schema on *)
(* what is committed; a merge is rolled back only when a window opens      *)
(* between its two times.  IInv carries what the guards rest on, that a    *)
(* candidate keeps the base and the policies of its draft; here it is      *)
(* joined by what a manifest says of certificates.                         *)

(* Only a merged candidate carries a certificate.                          *)
OpenUncertified ==
  \A c \in Cands : cand[c].state # "merged" => cand[c].cert = NoCohort

LEMMA UncertifiedStep ==
  ASSUME TypeOK, OpenUncertified, [Next]_vars
  PROVE  OpenUncertified'
  <1> SUFFICES ASSUME NEW c \in Cands, cand'[c].state # "merged"
               PROVE  cand'[c].cert = NoCohort
    BY DEF OpenUncertified
  <1>1. CASE cand'[c] = cand[c]
    BY <1>1 DEF OpenUncertified
  <1>2. ASSUME NEW next \in CandStates, Advance(c, next)
        PROVE  cand'[c].cert = cand[c].cert /\ cand[c].state # "merged"
    BY <1>2 DEF Advance, Following, TypeOK, Candidate
  <1>3. CASE Terminate(c)
    BY <1>3 DEF Terminate, Closed, TypeOK, Candidate, OpenUncertified
  <1>4. ASSUME NEW k \in Cohorts, Merges(c, k)
        PROVE  FALSE
    BY <1>4, MergedRow
  <1>5. ASSUME NEW d \in Cands, NEW L \in SUBSET Memories, NEW p \in Policies,
               NEW learned \in [L -> Dispositions \ {"none"}],
               Record(d, L, learned, p), cand'[c] # cand[c]
        PROVE  cand'[c].cert = NoCohort
    <2>1. cand \in [Cands -> Candidate] /\ L # {}
      BY <1>5 DEF TypeOK, Record
    <2> DEFINE head == (IF auth = <<>> THEN <<Genesis(p)>> ELSE auth)[Len(auth')]
               bind == Drafted(head, learned)
               policy == head.policy
    <2>2. cand' = [cand EXCEPT ![d] =
             [state |-> "draft", base |-> Len(auth'), bind |-> bind,
              policy |-> policy, cert |-> NoCohort]]
      BY <1>5, <2>1 DEF Record
    <2> HIDE DEF head, bind, policy
    <2> QED
      BY <1>5, <2>1, <2>2
  <1>6. CASE RecordObservations
    BY <1>1, <1>5, <1>6 DEF RecordObservations
  <1>7. CASE cand'[c] # cand[c] /\ ~RecordObservations
    <2>1. \/ \E next \in CandStates : Advance(c, next)
          \/ Terminate(c)
          \/ \E k \in Cohorts : Merges(c, k)
      <3>1. CASE CandidateDecision
        BY <1>7, <3>1 DEF CandidateDecision, Advance, Terminate, TypeOK
      <3>2. ASSUME NEW d \in Cands, NEW k \in Cohorts, Merge(d, k)
            PROVE  Merges(c, k)
        BY <1>7, <3>2, MergeOutcome DEF TypeOK
      <3>3. CASE AuthorityDecision
        BY <1>7, <3>2, <3>3 DEF AuthorityDecision, Revert, Rotate
      <3>4. CASE MemoryDecision \/ Experiment \/ UNCHANGED vars
        BY <1>7, <3>4 DEF MemoryDecision, LifecycleDecision, Experiment,
                          InstallCohort, Tick, Assign, Certify, vars
      <3> QED
        BY <1>7, <3>1, <3>3, <3>4 DEF Next
    <2> QED
      BY <1>2, <1>3, <1>4, <2>1 DEF OpenUncertified
  <1> QED
    BY <1>1, <1>6, <1>7

-----------------------------------------------------------------------------
(* What every revision that is added satisfies.                            *)
RevisionLawful(n) ==
  LET r == auth'[n] IN
  /\ (r.cause = "genesis") = (n = 1)
  /\ (r.cause = "effect") = (r.cert # NoCohort)
  /\ (r.cause = "revert") = (r.target # 0)
  /\ r.target < n
  /\ n > 1 => (r.policy = auth'[n - 1].policy) = (r.cause # "policy_rotation")
  /\ r.cert # NoCohort =>
       /\ cohort[r.cert].cert = "admitted" /\ cohort[r.cert].control = n - 1
       /\ auth[cohort[r.cert].control].policy = r.policy
  /\ r.cause = "policy_rotation" => r.bind = auth[n - 1].bind
  /\ Within(r.bind, r.policy)

LEMMA RevisionsLawful ==
  ASSUME IInv, [Next]_vars, NEW n \in Added
  PROVE  RevisionLawful(n)
  <1> USE DEF IInv
  <1>1. HeadRev \in Nat /\ HeadRev' = Len(auth')
    BY ChainMoves DEF HeadRev
  <1>2. n \in Nat /\ n > HeadRev /\ n <= HeadRev'
    BY <1>1, ChainMoves DEF Added
  <1>3. ASSUME NEW p \in Policies, HeadRev = 0, HeadRev' = 1, auth'[1] = Genesis(p)
        PROVE  RevisionLawful(n)
    <2>1. n = 1
      BY <1>2, <1>3
    <2>2. Within(Genesis(p).bind, p)
      BY NothingWithin DEF Genesis
    <2> QED
      BY <1>3, <2>1, <2>2 DEF RevisionLawful, Genesis
  <1>4. ASSUME NEW c \in Cands, NEW k \in Cohorts, Merges(c, k)
        PROVE  RevisionLawful(n)
    <2>1. /\ HeadRev' = HeadRev + 1
          /\ auth'[HeadRev + 1].bind = cand[c].bind
          /\ auth'[HeadRev + 1].policy = cand[c].policy
          /\ auth'[HeadRev + 1].cause = "effect"
          /\ auth'[HeadRev + 1].cert = k
          /\ auth'[HeadRev + 1].target = 0
          /\ \A i \in 1 .. HeadRev : auth'[i] = auth[i]
      BY <1>4, MergePublishes
    <2>2. n = HeadRev + 1 /\ n - 1 = HeadRev
      BY <1>1, <1>2, <2>1
    <2>3. cand[c].base = HeadRev /\ cand[c].state # "absent"
      BY <1>4, MergeWrites DEF OnHead
    <2>4. HeadRev \in 1 .. HeadRev /\ cand[c].policy = auth[HeadRev].policy
      BY <2>3 DEF DraftsOnChain
    <2>5. cohort[k].cert = "admitted" /\ cohort[k].control = HeadRev
      BY <1>4, MergeWrites DEF Proves
    <2>6. Within(cand[c].bind, cand[c].policy) /\ k # NoCohort
      BY <1>4, MergeWrites, AuthorityAssumption
    <2>7. auth'[HeadRev] = auth[HeadRev] /\ n # 1 /\ 0 < n
      BY <1>2, <2>1, <2>2, <2>4
    <2> HIDE DEF IInv
    <2> QED
      BY <2>1, <2>2, <2>4, <2>5, <2>6, <2>7 DEF RevisionLawful
  <1>5. ASSUME NEW t \in 1 .. MaxRevisions, Revert(t)
        PROVE  RevisionLawful(n)
    <2>1. /\ t \in 1 .. HeadRev
          /\ HeadRev' = HeadRev + 1
          /\ auth'[HeadRev + 1].bind = auth[t].bind
          /\ auth'[HeadRev + 1].policy = Current.policy
          /\ auth'[HeadRev + 1].cause = "revert"
          /\ auth'[HeadRev + 1].cert = NoCohort
          /\ auth'[HeadRev + 1].target = t
          /\ \A i \in 1 .. HeadRev : auth'[i] = auth[i]
      BY <1>5, RevertPublishes
    <2>2. n = HeadRev + 1 /\ n - 1 = HeadRev
      BY <1>1, <1>2, <2>1
    <2>3. t \in Nat /\ t # 0 /\ t < n /\ n # 1 /\ HeadRev \in 1 .. HeadRev
      BY <1>1, <2>1, <2>2
    <2>4. auth'[HeadRev] = Current
      BY <2>1, <2>3 DEF Current
    <2>5. Within(auth[t].bind, Current.policy)
      BY <1>5 DEF Revert, RevertBindings
    <2> HIDE DEF IInv
    <2> QED
      BY <2>1, <2>2, <2>3, <2>4, <2>5 DEF RevisionLawful
  <1>6. ASSUME NEW p \in Policies, Rotate(p)
        PROVE  RevisionLawful(n)
    <2>1. /\ HeadRev \in 1 .. HeadRev
          /\ HeadRev' = HeadRev + 1
          /\ auth'[HeadRev + 1].bind = Current.bind
          /\ auth'[HeadRev + 1].policy = p
          /\ auth'[HeadRev + 1].cause = "policy_rotation"
          /\ auth'[HeadRev + 1].cert = NoCohort
          /\ auth'[HeadRev + 1].target = 0
          /\ \A i \in 1 .. HeadRev : auth'[i] = auth[i]
      BY <1>6, RotatePublishes
    <2>2. n = HeadRev + 1 /\ n - 1 = HeadRev /\ n # 1 /\ 0 < n
      BY <1>1, <1>2, <2>1
    <2>3. auth'[HeadRev] = Current /\ auth[HeadRev] = Current
      BY <2>1 DEF Current
    <2>4. p # Current.policy /\ Within(Current.bind, p)
      BY <1>6 DEF Rotate
    <2> HIDE DEF IInv
    <2> QED
      BY <2>1, <2>2, <2>3, <2>4 DEF RevisionLawful
  <1>7. CASE HeadRev' = HeadRev
    BY <1>1, <1>2, <1>7
  <1> QED
    BY <1>3, <1>4, <1>5, <1>6, <1>7, ChainMoves

-----------------------------------------------------------------------------
(* What every candidate that moves satisfies.                              *)
CandidateLawful(c) ==
  /\ (cand'[c].state = "merged") = (cand'[c].cert # NoCohort)
  /\ IF cand[c].state = "absent"
     THEN /\ cand'[c].state = "draft" /\ cand'[c].base \in 1 .. Len(auth')
          /\ cand'[c].policy = auth'[cand'[c].base].policy
     ELSE /\ cand'[c].base = cand[c].base /\ cand'[c].policy = cand[c].policy
          /\ <<cand[c].state, cand'[c].state>> \in SchemaTransitions
  /\ cand'[c].state = "merged" =>
       LET k == cohort[cand'[c].cert] IN
       /\ k.cert = "admitted" /\ k.of = c /\ k.control = cand'[c].base
       /\ auth[k.control].policy = cand'[c].policy
  /\ cand'[c].state \in {"eligible", "active_candidate", "merged"}
       => Within(cand'[c].bind, cand'[c].policy)

LEMMA CandidatesLawful ==
  ASSUME IInv, OpenUncertified, [Next]_vars, NEW c \in Moved
  PROVE  CandidateLawful(c)
  <1>0. c \in Cands /\ cand'[c] # cand[c] /\ cand[c] \in Candidate
    BY DEF Moved, IInv, TypeOK
  <1>c. cand \in [Cands -> Candidate]
    BY DEF IInv, TypeOK
  <1>1. CASE /\ cand[c].state = "absent"
             /\ cand'[c].state = "draft"
             /\ cand'[c].base = HeadRev'
             /\ HeadRev' \in 1 .. HeadRev'
             /\ cand'[c].policy = auth'[HeadRev'].policy
    <2>1. OpenUncertified'
      BY UncertifiedStep DEF IInv
    <2>2. cand'[c].cert = NoCohort
      BY <1>0, <1>1, <2>1 DEF OpenUncertified
    <2>3. HeadRev' = Len(auth')
      BY DEF HeadRev
    <2> QED
      BY <1>1, <2>2, <2>3 DEF CandidateLawful
  <1>2. ASSUME NEW next \in CandStates, Advance(c, next)
        PROVE  CandidateLawful(c)
    <2>1. /\ cand'[c].state = next /\ cand'[c].base = cand[c].base
          /\ cand'[c].policy = cand[c].policy /\ cand'[c].bind = cand[c].bind
          /\ cand'[c].cert = cand[c].cert
      BY <1>0, <1>c, <1>2 DEF Advance, Candidate
    <2>2. /\ <<cand[c].state, next>> \in
               {<<"draft", "shadow">>, <<"shadow", "eligible">>,
                <<"eligible", "active_candidate">>}
          /\ next # "shadow" => Within(cand[c].bind, cand[c].policy)
      BY <1>2 DEF Advance, Following
    <2>3. cand[c].state \notin {"absent", "merged"} /\ next # "merged"
      BY <2>2
    <2>4. cand[c].cert = NoCohort
      BY <1>0, <2>3 DEF OpenUncertified
    <2>5. <<cand[c].state, next>> \in SchemaTransitions
      BY <2>2 DEF SchemaTransitions
    <2> QED
      BY <2>1, <2>2, <2>3, <2>4, <2>5 DEF CandidateLawful
  <1>3. CASE Terminate(c)
    <2>1. /\ cand'[c].state = "ended" /\ cand'[c].base = cand[c].base
          /\ cand'[c].policy = cand[c].policy /\ cand'[c].cert = cand[c].cert
      BY <1>0, <1>c, <1>3 DEF Terminate, Candidate
    <2>2. /\ cand[c].state \in {"draft", "shadow", "eligible", "active_candidate"}
          /\ cand[c].state \notin {"absent", "merged"}
      BY <1>0, <1>3 DEF Terminate, OnHead, Closed, Candidate, CandStates
    <2>3. cand[c].cert = NoCohort
      BY <1>0, <2>2 DEF OpenUncertified
    <2>4. <<cand[c].state, "ended">> \in SchemaTransitions
      BY <2>2 DEF SchemaTransitions
    <2> QED
      BY <2>1, <2>2, <2>3, <2>4 DEF CandidateLawful
  <1>4. ASSUME NEW k \in Cohorts, Merges(c, k)
        PROVE  CandidateLawful(c)
    <2>1. /\ cand'[c].state = "merged" /\ cand'[c].base = cand[c].base
          /\ cand'[c].policy = cand[c].policy /\ cand'[c].bind = cand[c].bind
          /\ cand'[c].cert = k
      BY <1>0, <1>4, MergedRow DEF IInv
    <2>2. /\ cohort[k].cert = "admitted" /\ cohort[k].of = c
          /\ cohort[k].control = HeadRev /\ cand[c].base = HeadRev
          /\ cand[c].state = "active_candidate"
          /\ Within(cand[c].bind, cand[c].policy)
      BY <1>0, <1>4, MergeWrites DEF Proves, OnHead
    <2>3. cand[c].policy = auth[HeadRev].policy /\ k # NoCohort
      BY <1>0, <2>2, AuthorityAssumption DEF IInv, DraftsOnChain
    <2>4. <<cand[c].state, "merged">> \in SchemaTransitions
      BY <2>2 DEF SchemaTransitions
    <2> QED
      BY <2>1, <2>2, <2>3, <2>4 DEF CandidateLawful
  <1> QED
    BY <1>0, <1>1, <1>2, <1>3, <1>4, CandMoves DEF IInv

-----------------------------------------------------------------------------
(* The guards on the head.                                                 *)
LEMMA HeadGuards ==
  ASSUME IInv, [Next]_vars
  PROVE  /\ RevisionsImmutable
         /\ HeadInsertGuard /\ HeadAdvanceGuard
         /\ MergeFreezeGuard /\ HeadFreezeGuard
  <1>1. /\ HeadRev \in Nat /\ HeadRev' = Len(auth') /\ HeadRev' \in Nat
        /\ HeadRev <= HeadRev' /\ auth \in Seq(Revision)
    BY ChainMoves DEF HeadRev, IInv, TypeOK
  <1>2. RevisionsImmutable
    BY <1>1, ChainMoves DEF RevisionsImmutable, IInv
  <1>3. auth = <<>> <=> HeadRev = 0
    BY <1>1 DEF HeadRev
  <1>4. ASSUME NEW c \in Cands, NEW k \in Cohorts, Merges(c, k)
        PROVE  HeadRev' = HeadRev + 1 /\ HeadRev # 0
    <2>1. c \in Cands /\ cand[c].state # "absent" /\ cand[c].base = HeadRev
      BY <1>4, MergeWrites DEF OnHead
    <2> QED
      BY <1>1, <1>4, <2>1, MergePublishes DEF IInv, DraftsOnChain
  <1>5. ASSUME NEW t \in 1 .. MaxRevisions, Revert(t)
        PROVE  HeadRev' = HeadRev + 1 /\ HeadRev # 0
    BY <1>1, <1>5, RevertPublishes DEF IInv
  <1>6. ASSUME NEW p \in Policies, Rotate(p)
        PROVE  HeadRev' = HeadRev + 1 /\ HeadRev # 0
    BY <1>1, <1>6, RotatePublishes DEF IInv
  <1>7. HeadAdvanceGuard
    BY <1>1, <1>3, <1>4, <1>5, <1>6, ChainMoves DEF HeadAdvanceGuard, IInv
  <1>8. HeadInsertGuard
    <2>1. ASSUME NEW p \in Policies, HeadRev' = 1, auth'[1] = Genesis(p)
          PROVE  Len(auth') = 1 /\ Bound(auth'[1].bind) = {}
      BY <1>1, <2>1 DEF Genesis, Bound
    <2> QED
      BY <1>1, <1>3, <1>4, <1>5, <1>6, <2>1, ChainMoves DEF HeadInsertGuard, IInv
  <1>9. HeadFreezeGuard
    <2> SUFFICES ASSUME auth # <<>>, auth' # auth, NEW k \in Cohorts,
                        cohort[k].control = HeadRev,
                        cohort'[k].stage \in Measuring,
                        cand'[cohort[k].of].state = "active_candidate"
                 PROVE  cohort[k].cert # "none"
      BY DEF HeadFreezeGuard
    <2>1. ASSUME UNCHANGED <<cand, cohort>>, ~Frozen
          PROVE  cohort[k].cert # "none"
      BY <2>1 DEF Frozen, Freezes
    <2>2. ASSUME NEW c \in Cands, NEW j \in Cohorts, Merges(c, j)
          PROVE  cohort[k].cert # "none"
      <3>1. cohort[k].stage # "absent"
        BY <2>2, MergeWrites, PassageMoves DEF IInv, Measuring
      <3>2. cohort[k].of \in Cands
        BY <3>1 DEF IInv, PairsStand
      <3>3. cohort[k].of # c
        BY <2>2, MergedRow DEF IInv
      <3>4. cand'[cohort[k].of] = cand[cohort[k].of]
        BY <2>2, <3>2, <3>3, MergedRow DEF IInv
      <3> QED
        BY <2>2, <3>3, <3>4 DEF Merges, FreezingMerge
    <2>3. ASSUME NEW t \in 1 .. MaxRevisions, Revert(t)
          PROVE  cohort[k].cert # "none"
      BY <2>1, <2>3 DEF Revert
    <2>4. ASSUME NEW p \in Policies, Rotate(p)
          PROVE  cohort[k].cert # "none"
      BY <2>1, <2>4 DEF Rotate
    <2> QED
      BY <1>3, <2>2, <2>3, <2>4, ChainMoves DEF IInv
  <1>10. MergeFreezeGuard
    <2> SUFFICES ASSUME NEW c \in Cands, cand'[c] # cand[c],
                        cand'[c].state = "merged", NEW k \in Cohorts,
                        cohort[k].control = HeadRev,
                        cohort[k].stage \in Measuring,
                        cohort[k].of = c, cohort[k].cert = "none"
                 PROVE  FALSE
      BY DEF MergeFreezeGuard, Moved
    <2>1. ASSUME NEW j \in Cohorts, Merges(c, j)
          PROVE  FALSE
      BY <2>1, MergeWrites DEF Frozen, Freezes
    <2>2. cand[c].state # "absent"
      BY DEF IInv, PairsStand, Measuring, Closed
    <2>3. cand[c].state # "merged"
      BY <2>2, CandKept DEF IInv, Closed
    <2> QED
      BY <2>1, <2>2, <2>3, CandKept DEF IInv
  <1> QED
    BY <1>2, <1>7, <1>8, <1>9, <1>10

(* Only a merge is rolled back by a trigger, and only because the window   *)
(* of a cohort that measures another candidate opened during it: nothing   *)
(* froze the head when it was let through, and the other instants a cohort *)
(* may reach meanwhile either freeze already or do not.                    *)
LEMMA AbortStep ==
  ASSUME TypeOK, [Next]_vars
  PROVE  AbortedByOpening
  <1> SUFFICES ASSUME NEW r \in aborted' \ aborted
               PROVE  /\ cohort[r[2]].stage = "installed"
                      /\ cohort'[r[2]].stage = "assigning"
                      /\ cohort[r[2]].control = HeadRev
                      /\ cohort[r[2]].of # r[1]
                      /\ cand[cohort[r[2]].of].state = "active_candidate"
                      /\ UNCHANGED <<auth, cand, life>>
    BY DEF AbortedByOpening
  <1>1. PICK c \in Cands, j \in Cohorts : Merge(c, j)
    BY DEF Next, vars, RecordObservations, Record, CandidateDecision, Advance,
           Terminate, AuthorityDecision, Revert, Rotate, MemoryDecision,
           LifecycleDecision, Experiment, InstallCohort, Tick, Assign, Certify
  <1>2. r \in {c} \X FreezingMerge(c) /\ UNCHANGED <<auth, cand, life>>
    BY <1>1 DEF Merge
  <1>3. PICK k \in FreezingMerge(c) : r = <<c, k>>
    BY <1>2
  <1>4. /\ k \in Cohorts
        /\ cohort[k].control = HeadRev /\ cohort[k].cert = "none"
        /\ cohort'[k].stage \in Measuring
        /\ cohort[k].of # c /\ cand[cohort[k].of].state = "active_candidate"
    BY <1>3 DEF FreezingMerge
  <1>5. cohort[k].stage \notin Measuring
    BY <1>1, <1>4 DEF Merge, Frozen, Freezes
  <1>6. /\ cohort' \in Passages
        /\ cohort[k].stage \in Stages
    BY <1>1, <1>4 DEF Merge, TypeOK, Cohort
  <1>7. /\ cohort[k].stage \notin {"absent", "past"}
        /\ cohort'[k].stage = NextStage(cohort[k].stage)
    BY <1>4, <1>5, <1>6, PassageMoves
  <1>8. cohort[k].stage = "installed" /\ cohort'[k].stage = "assigning"
    BY <1>5, <1>6, <1>7 DEF Stages, Measuring, NextStage
  <1> QED
    BY <1>2, <1>3, <1>4, <1>8

(* Every step passes every guard on what it commits.                       *)
LEMMA GuardStep ==
  ASSUME IInv, OpenUncertified, [Next]_vars
  PROVE  SchemaAdmits
  <1>1. \A n \in Added : RevisionLawful(n)
    BY RevisionsLawful
  <1>2. \A c \in Moved : CandidateLawful(c)
    BY CandidatesLawful
  <1>3. ManifestConsistent
    BY <1>1, <1>2 DEF ManifestConsistent, RevisionLawful, CandidateLawful
  <1>4. TransitionGuard
    BY <1>1, <1>2 DEF TransitionGuard, RevisionLawful, CandidateLawful
  <1>5. MergeCertificateGuard
    BY <1>2 DEF MergeCertificateGuard, CandidateLawful
  <1>6. AuthoritativeCertificateGuard
    BY <1>1 DEF AuthoritativeCertificateGuard, RevisionLawful
  <1>7. RotationBindingsGuard /\ CapacityGuard
    BY <1>1, <1>2 DEF RotationBindingsGuard, CapacityGuard, RevisionLawful,
                      CandidateLawful
  <1> QED
    BY <1>3, <1>4, <1>5, <1>6, <1>7, HeadGuards DEF SchemaAdmits

(* Whatever was recorded, decided, measured and withdrawn before: what a   *)
(* decision commits satisfies every guard of the schema and binds active   *)
(* memories only, and no trigger rolls a decision back but a merge during  *)
(* which the window of a cohort of another candidate opened.               *)
THEOREM WorkflowsImplySchema == Spec => PublishesLawfully
  <1>1. Init => OpenUncertified
    BY DEF Init, Undrafted, OpenUncertified
  <1>2. TypeOK /\ OpenUncertified /\ [Next]_vars => OpenUncertified'
    BY UncertifiedStep
  <1>3. IInv /\ OpenUncertified /\ [Next]_vars
          => [ActivePublished /\ SchemaAdmits /\ AbortedByOpening]_vars
    BY GuardStep, PublishStep, AbortStep DEF IInv
  <1> QED
    BY <1>1, <1>2, <1>3, TypeCorrect, InvHolds, PTL DEF Spec, PublishesLawfully

-----------------------------------------------------------------------------
(* The connection and the clock.  The invariant has two halves.  LineInv   *)
(* says how the status of a call and its place in the line correspond:     *)
(* what runs is first in line, what is open is owned, what joined is       *)
(* inside the open transaction, and a close is last.  ClockInv says that   *)
(* there is one writer and that it is never behind the committed floor.    *)

Running == {"begin", "body", "reading"}
InLine == {"queued"} \cup Running

OwnerRuns ==
  \A p \in Process : owner[p] # None =>
    Of[owner[p]] = p /\ status[owner[p]] \in {"begin", "body"}
    /\ Kind[owner[p]] # "read"

RunnerOwns ==
  \A c \in Call : status[c] \in {"begin", "body"} => owner[Of[c]] = c

RunnerFirst ==
  \A c \in Call : status[c] \in Running =>
    queue[Of[c]] # << >> /\ Head(queue[Of[c]]) = c

JoinedInside ==
  \A c \in Call : status[c] = "joined" =>
    Inside[c] # None /\ owner[Of[c]] = Inside[c] /\ status[Inside[c]] = "body"

PlacesKept ==
  \A c \in Call : status[c] \in InLine =>
    \E i \in 1 .. Len(queue[Of[c]]) : queue[Of[c]][i] = c

CloseLast ==
  \A p \in Process :
    /\ \A i \in 1 .. Len(queue[p]) - 1 : Kind[queue[p][i]] # "close"
    /\ ~sealed[p] => \A i \in 1 .. Len(queue[p]) : Kind[queue[p][i]] # "close"

ClosedEmpty == \A p \in Process : ~open[p] => queue[p] = << >>

LineInv ==
  /\ OwnerRuns
  /\ RunnerOwns
  /\ RunnerFirst
  /\ JoinedInside
  /\ PlacesKept
  /\ CloseLast
  /\ ClosedEmpty

ConnectionTypeOK ==
  /\ status \in [Call -> Statuses]
  /\ queue \in [Process -> Seq(Call)]
  /\ owner \in [Process -> Call \cup {None}]
  /\ sealed \in [Process -> BOOLEAN]
  /\ open \in [Process -> BOOLEAN]

ClockTypeOK ==
  /\ floor \in Instants
  /\ tentative \in [Process -> Instants]
  /\ localFloor \in [Process -> Instants]
  /\ hook \in [Call -> Instants]
  /\ observed \in [Process -> Instants]

OneWriter ==
  \A p, q \in Process : InTransaction(p) /\ InTransaction(q) => p = q

ConnectionInv == ConnectionTypeOK /\ LineInv

(* A line whose only place before the last is none has one place.          *)
LEMMA OnePlace ==
  ASSUME NEW n \in Nat, n >= 1, ~(1 \in 1 .. n - 1)
  PROVE  n = 1
  OBVIOUS

(* The task at the head of the line ends: it gives up the line and the     *)
(* transaction, and nothing that joined it is left.                        *)
LEMMA ReleaseKeepsLine ==
  ASSUME ConnectionAssumption, ConnectionInv, NEW c \in Call,
         NEW outcome \in {"done", "failed", "refused", "committed"},
         status[c] \in Running, Settled(c), Release(c, outcome),
         UNCHANGED sealed
  PROVE  ConnectionInv'
<1> DEFINE p == Of[c]
<1>1. /\ p \in Process
      /\ queue[p] \in Seq(Call) /\ queue[p] # << >> /\ Head(queue[p]) = c
  BY DEF ConnectionAssumption, ConnectionInv, ConnectionTypeOK, LineInv, RunnerFirst
<1>2. /\ Tail(queue[p]) \in Seq(Call)
      /\ Len(Tail(queue[p])) = Len(queue[p]) - 1
      /\ \A i \in 1 .. Len(queue[p]) - 1 : Tail(queue[p])[i] = queue[p][i + 1]
      /\ queue[p][1] = c
      /\ Len(queue[p]) \in Nat \ {0}
  BY <1>1
<1>3. /\ status' = [status EXCEPT ![c] = outcome]
      /\ owner' = [owner EXCEPT ![p] = IF @ = c THEN None ELSE @]
      /\ open' = [open EXCEPT ![p] = @ /\ Kind[c] # "close"]
      /\ queue' = [queue EXCEPT ![p] = Tail(@)]
      /\ sealed' = sealed
  BY DEF Release
<1>4. ConnectionTypeOK'
  BY <1>1, <1>2, <1>3 DEF ConnectionInv, ConnectionTypeOK, Statuses
<1> USE DEF ConnectionInv, ConnectionTypeOK, LineInv
<1>5. \A d \in Call : Of[d] = p /\ status[d] \in Running => d = c
  BY <1>1 DEF RunnerFirst
<1>6. \A q \in Process : queue'[q] = IF q = p THEN Tail(queue[p]) ELSE queue[q]
  BY <1>1, <1>3
<1>7. \A d \in Call : status'[d] = IF d = c THEN outcome ELSE status[d]
  BY <1>3
<1>8. \A q \in Process : owner'[q] = IF q = p /\ owner[q] = c THEN None ELSE owner[q]
  BY <1>3
<1>9. Of \in [Call -> Process]
  BY DEF ConnectionAssumption
<1>10. OwnerRuns'
  <2> SUFFICES ASSUME NEW q \in Process, owner'[q] # None
               PROVE  /\ Of[owner'[q]] = q
                      /\ status'[owner'[q]] \in {"begin", "body"}
                      /\ Kind[owner'[q]] # "read"
    BY DEF OwnerRuns
  <2>1. owner'[q] = owner[q] /\ owner[q] # None /\ owner[q] \in Call
    BY <1>8
  <2>2. /\ Of[owner[q]] = q /\ status[owner[q]] \in {"begin", "body"}
        /\ Kind[owner[q]] # "read"
    BY <2>1 DEF OwnerRuns
  <2>3. owner[q] # c
    BY <2>1, <2>2, <1>8
  <2> QED
    BY <2>1, <2>2, <2>3, <1>7
<1>11. RunnerOwns'
  <2> SUFFICES ASSUME NEW d \in Call, status'[d] \in {"begin", "body"}
               PROVE  owner'[Of[d]] = d
    BY DEF RunnerOwns
  <2>1. d # c /\ status[d] \in {"begin", "body"} /\ owner[Of[d]] = d
    BY <1>7 DEF RunnerOwns
  <2> QED
    BY <2>1, <1>8, <1>9
<1>12. RunnerFirst'
  <2> SUFFICES ASSUME NEW d \in Call, status'[d] \in Running
               PROVE  queue'[Of[d]] # << >> /\ Head(queue'[Of[d]]) = d
    BY DEF RunnerFirst
  <2>1. d # c /\ status[d] \in Running
    BY <1>7 DEF Running
  <2>2. Of[d] # p
    BY <2>1, <1>5
  <2> QED
    BY <2>1, <2>2, <1>6, <1>9 DEF RunnerFirst
<1>13. JoinedInside'
  <2> SUFFICES ASSUME NEW d \in Call, status'[d] = "joined"
               PROVE  /\ Inside[d] # None
                      /\ owner'[Of[d]] = Inside[d]
                      /\ status'[Inside[d]] = "body"
    BY DEF JoinedInside
  <2>1. d # c /\ status[d] = "joined"
    BY <1>7
  <2>2. /\ Inside[d] # None /\ owner[Of[d]] = Inside[d]
        /\ status[Inside[d]] = "body" /\ Inside[d] # c
    BY <2>1 DEF JoinedInside, Settled
  <2>3. Inside[d] \in Call
    BY <2>2 DEF ConnectionAssumption
  <2> QED
    BY <2>1, <2>2, <2>3, <1>7, <1>8, <1>9
<1>14. PlacesKept'
  <2> SUFFICES ASSUME NEW d \in Call, status'[d] \in InLine
               PROVE  \E i \in 1 .. Len(queue'[Of[d]]) : queue'[Of[d]][i] = d
    BY DEF PlacesKept
  <2>1. d # c /\ status[d] \in InLine
    BY <1>7 DEF InLine, Running
  <2>2. PICK i \in 1 .. Len(queue[Of[d]]) : queue[Of[d]][i] = d
    BY <2>1 DEF PlacesKept
  <2>3. CASE Of[d] # p
    BY <2>2, <2>3, <1>6, <1>9
  <2>4. CASE Of[d] = p
    <3>1. i # 1
      BY <2>1, <2>2, <2>4, <1>2
    <3>2. /\ i - 1 \in 1 .. Len(Tail(queue[p]))
          /\ Tail(queue[p])[i - 1] = d
      BY <3>1, <2>2, <2>4, <1>2
    <3> QED
      BY <3>2, <2>4, <1>1, <1>6
  <2> QED
    BY <2>3, <2>4
<1>15. CloseLast'
  <2> SUFFICES ASSUME NEW q \in Process
               PROVE  /\ \A i \in 1 .. Len(queue'[q]) - 1 : Kind[queue'[q][i]] # "close"
                      /\ ~sealed'[q] =>
                           \A i \in 1 .. Len(queue'[q]) : Kind[queue'[q][i]] # "close"
    BY DEF CloseLast
  <2>1. CASE q # p
    <3>1. queue'[q] = queue[q] /\ sealed'[q] = sealed[q]
      BY <2>1, <1>3, <1>6
    <3> QED
      BY <3>1 DEF CloseLast
  <2>2. CASE q = p
    <3>1. /\ \A i \in 1 .. Len(queue[p]) - 1 : Kind[queue[p][i]] # "close"
          /\ ~sealed[p] => \A i \in 1 .. Len(queue[p]) : Kind[queue[p][i]] # "close"
      BY <1>1 DEF CloseLast
    <3>2. queue'[q] = Tail(queue[p]) /\ sealed'[q] = sealed[p]
      BY <2>2, <1>1, <1>3, <1>6
    <3>3. ASSUME NEW i \in 1 .. Len(Tail(queue[p]))
          PROVE  /\ Tail(queue[p])[i] = queue[p][i + 1]
                 /\ i + 1 \in 1 .. Len(queue[p])
                 /\ i <= Len(Tail(queue[p])) - 1 => i + 1 \in 1 .. Len(queue[p]) - 1
      BY <1>2
    <3>4. ASSUME NEW i \in 1 .. Len(Tail(queue[p])) - 1
          PROVE  Kind[Tail(queue[p])[i]] # "close"
      <4>1. i \in 1 .. Len(Tail(queue[p])) /\ i <= Len(Tail(queue[p])) - 1
        BY <1>2
      <4> QED
        BY <4>1, <3>1, <3>3
    <3>5. ASSUME ~sealed[p], NEW i \in 1 .. Len(Tail(queue[p]))
          PROVE  Kind[Tail(queue[p])[i]] # "close"
      BY <3>1, <3>3, <3>5
    <3> QED
      BY <3>2, <3>4, <3>5
  <2> QED
    BY <2>1, <2>2
<1>16. ClosedEmpty'
  <2> SUFFICES ASSUME NEW q \in Process, ~open'[q]
               PROVE  queue'[q] = << >>
    BY DEF ClosedEmpty
  <2>1. CASE q # p
    BY <2>1, <1>1, <1>3, <1>6 DEF ClosedEmpty
  <2>2. CASE q = p
    <3>1. open[p]
      BY <1>1 DEF ClosedEmpty
    <3>2. Kind[c] = "close"
      BY <3>1, <2>2, <1>1, <1>3
    <3>3. Len(queue[p]) = 1
      <4> HIDE DEF ConnectionInv, ConnectionTypeOK, LineInv
      <4>1. \A i \in 1 .. Len(queue[p]) - 1 : Kind[queue[p][i]] # "close"
        BY <1>1 DEF CloseLast, ConnectionInv, LineInv
      <4>2. Kind[queue[p][1]] = "close"
        BY <3>2, <1>2
      <4>3. ~(1 \in 1 .. Len(queue[p]) - 1)
        BY <4>1, <4>2
      <4>4. Len(queue[p]) \in Nat /\ Len(queue[p]) >= 1
        BY <1>2
      <4> QED
        BY <4>3, <4>4, OnePlace
    <3>4. Len(Tail(queue[p])) = 0 /\ Tail(queue[p]) \in Seq(Call)
      BY <3>3, <1>2
    <3>5. Tail(queue[p]) = << >>
      BY <3>4, EmptySeq
    <3> QED
      BY <3>5, <2>2, <1>6
  <2> QED
    BY <2>1, <2>2
<1> QED
  BY <1>4, <1>10, <1>11, <1>12, <1>13, <1>14, <1>15, <1>16

(* A call that queues takes the last place, which only an unsealed line    *)
(* has to give.                                                            *)
LEMMA EnqueueKeepsLine ==
  ASSUME ConnectionAssumption, ConnectionInv, NEW c \in Call,
         status[c] = "idle", open[Of[c]], ~sealed[Of[c]], Enqueue(c),
         UNCHANGED <<owner, open>>
  PROVE  ConnectionInv'
<1> DEFINE p == Of[c]
<1>1. p \in Process /\ queue[p] \in Seq(Call) /\ Of \in [Call -> Process]
  BY DEF ConnectionAssumption, ConnectionInv, ConnectionTypeOK
<1>2. /\ Append(queue[p], c) \in Seq(Call)
      /\ Len(Append(queue[p], c)) = Len(queue[p]) + 1
      /\ Append(queue[p], c) # << >>
      /\ queue[p] # << >> => Head(Append(queue[p], c)) = Head(queue[p])
      /\ \A i \in 1 .. Len(queue[p]) : Append(queue[p], c)[i] = queue[p][i]
      /\ Append(queue[p], c)[Len(queue[p]) + 1] = c
      /\ Len(queue[p]) \in Nat
  BY <1>1
<1>3. /\ status' = [status EXCEPT ![c] = "queued"]
      /\ queue' = [queue EXCEPT ![p] = Append(@, c)]
      /\ sealed' = [sealed EXCEPT ![p] = Kind[c] = "close"]
      /\ owner' = owner /\ open' = open
  BY DEF Enqueue
<1>4. ConnectionTypeOK'
  BY <1>1, <1>2, <1>3 DEF ConnectionInv, ConnectionTypeOK, Statuses
<1> USE DEF ConnectionInv, ConnectionTypeOK, LineInv
<1>5. \A q \in Process : queue'[q] = IF q = p THEN Append(queue[p], c) ELSE queue[q]
  BY <1>1, <1>3
<1>6. \A d \in Call : status'[d] = IF d = c THEN "queued" ELSE status[d]
  BY <1>3
<1>7. OwnerRuns'
  BY <1>3, <1>6 DEF OwnerRuns
<1>8. RunnerOwns'
  BY <1>3, <1>6 DEF RunnerOwns
<1>9. RunnerFirst'
  <2> SUFFICES ASSUME NEW d \in Call, status'[d] \in Running
               PROVE  queue'[Of[d]] # << >> /\ Head(queue'[Of[d]]) = d
    BY DEF RunnerFirst
  <2>1. status[d] \in Running
    BY <1>6 DEF Running
  <2>2. queue[Of[d]] # << >> /\ Head(queue[Of[d]]) = d
    BY <2>1 DEF RunnerFirst
  <2> QED
    BY <2>2, <1>1, <1>2, <1>5
<1>10. JoinedInside'
  <2> SUFFICES ASSUME NEW d \in Call, status'[d] = "joined"
               PROVE  /\ Inside[d] # None
                      /\ owner'[Of[d]] = Inside[d]
                      /\ status'[Inside[d]] = "body"
    BY DEF JoinedInside
  <2>1. /\ Inside[d] # None /\ owner[Of[d]] = Inside[d]
        /\ status[Inside[d]] = "body"
    BY <1>6 DEF JoinedInside
  <2>2. Inside[d] \in Call
    BY <2>1 DEF ConnectionAssumption
  <2> QED
    BY <2>1, <2>2, <1>3, <1>6
<1>11. PlacesKept'
  <2> SUFFICES ASSUME NEW d \in Call, status'[d] \in InLine
               PROVE  \E i \in 1 .. Len(queue'[Of[d]]) : queue'[Of[d]][i] = d
    BY DEF PlacesKept
  <2>1. CASE d = c
    <3> HIDE DEF ConnectionInv, ConnectionTypeOK, LineInv
    <3> DEFINE s == Append(queue[p], c)
               last == Len(queue[p]) + 1
    <3>1. queue'[p] = s
      BY <1>1, <1>5
    <3>2. Len(s) = last /\ s[last] = c /\ last \in Nat /\ last >= 1
      BY <1>2
    <3> HIDE DEF s, last
    <3>3. last \in 1 .. Len(s)
      BY <3>2
    <3> QED
      BY <3>1, <3>2, <3>3, <2>1
  <2>2. CASE d # c
    <3>1. status[d] \in InLine
      BY <2>2, <1>6
    <3>2. PICK i \in 1 .. Len(queue[Of[d]]) : queue[Of[d]][i] = d
      BY <3>1 DEF PlacesKept
    <3>3. CASE Of[d] # p
      BY <3>2, <3>3, <1>1, <1>5
    <3>4. CASE Of[d] = p
      <4>1. i \in 1 .. Len(Append(queue[p], c)) /\ Append(queue[p], c)[i] = d
        BY <3>2, <3>4, <1>2
      <4> QED
        BY <4>1, <3>4, <1>1, <1>5
    <3> QED
      BY <3>3, <3>4
  <2> QED
    BY <2>1, <2>2
<1>12. CloseLast'
  <2> SUFFICES ASSUME NEW q \in Process
               PROVE  /\ \A i \in 1 .. Len(queue'[q]) - 1 : Kind[queue'[q][i]] # "close"
                      /\ ~sealed'[q] =>
                           \A i \in 1 .. Len(queue'[q]) : Kind[queue'[q][i]] # "close"
    BY DEF CloseLast
  <2>1. CASE q # p
    <3>1. queue'[q] = queue[q] /\ sealed'[q] = sealed[q]
      BY <2>1, <1>3, <1>5
    <3> QED
      BY <3>1 DEF CloseLast
  <2>2. CASE q = p
    <3>1. \A i \in 1 .. Len(queue[p]) : Kind[queue[p][i]] # "close"
      BY <1>1 DEF CloseLast
    <3>2. queue'[q] = Append(queue[p], c) /\ sealed'[q] = (Kind[c] = "close")
      BY <2>2, <1>1, <1>3, <1>5
    <3> HIDE DEF ConnectionInv, ConnectionTypeOK, LineInv
    <3>3. ASSUME NEW i \in 1 .. Len(Append(queue[p], c)) - 1
          PROVE  Kind[Append(queue[p], c)[i]] # "close"
      <4>1. i \in 1 .. Len(queue[p])
        BY <1>2
      <4> QED
        BY <4>1, <3>1, <1>2
    <3>4. ASSUME Kind[c] # "close", NEW i \in 1 .. Len(Append(queue[p], c))
          PROVE  Kind[Append(queue[p], c)[i]] # "close"
      <4>1. i \in 1 .. Len(Append(queue[p], c)) - 1 \/ i = Len(queue[p]) + 1
        BY <1>2
      <4> QED
        BY <4>1, <3>3, <3>4, <1>2
    <3> QED
      BY <3>2, <3>3, <3>4
  <2> QED
    BY <2>1, <2>2
<1>13. ClosedEmpty'
  BY <1>1, <1>3, <1>5 DEF ClosedEmpty
<1> QED
  BY <1>4, <1>7, <1>8, <1>9, <1>10, <1>11, <1>12, <1>13

(* No step of any process breaks the correspondence of status and line.    *)
LEMMA LineStep ==
  ASSUME ConnectionAssumption, ConnectionInv, [ConnectionNext]_connectionVars
  PROVE  ConnectionInv'
<1> USE DEF ConnectionInv, ConnectionTypeOK
<1>1. ASSUME NEW c \in Call, Issue(c) PROVE ConnectionInv'
  <2>1. /\ status[c] = "idle" /\ open[Of[c]] /\ open' = open
        /\ Of[c] \in Process
    BY <1>1 DEF Issue, ConnectionAssumption
  <2>2. CASE Joins(c) /\ status' = [status EXCEPT ![c] = "joined"]
             /\ UNCHANGED <<queue, owner, sealed>>
    <3>1. /\ Inside[c] \in Call /\ owner[Of[c]] = Inside[c]
          /\ status[Inside[c]] = "body" /\ Inside[c] # c
      BY <2>1, <2>2 DEF Joins, InContext, InTransaction, ConnectionAssumption
    <3>2. \A d \in Call : status'[d] = IF d = c THEN "joined" ELSE status[d]
      BY <2>2
    <3>3. ConnectionTypeOK'
      BY <2>1, <2>2 DEF Statuses
    <3>4. OwnerRuns' /\ RunnerOwns'
      BY <2>1, <2>2, <3>1, <3>2 DEF LineInv, OwnerRuns, RunnerOwns
    <3>5. RunnerFirst' /\ PlacesKept'
      BY <2>2, <3>2 DEF LineInv, RunnerFirst, PlacesKept, Running, InLine
    <3>6. JoinedInside'
      <4> SUFFICES ASSUME NEW d \in Call, status'[d] = "joined"
                   PROVE  /\ Inside[d] # None
                          /\ owner'[Of[d]] = Inside[d]
                          /\ status'[Inside[d]] = "body"
        BY DEF JoinedInside
      <4>1. /\ Inside[d] # None /\ owner[Of[d]] = Inside[d]
            /\ status[Inside[d]] = "body"
        BY <3>1, <3>2, <2>2 DEF LineInv, JoinedInside, Joins
      <4>2. Inside[d] \in Call /\ Inside[d] # c
        BY <4>1, <2>1 DEF ConnectionAssumption
      <4> QED
        BY <4>1, <4>2, <3>2, <2>2
    <3>7. CloseLast' /\ ClosedEmpty'
      BY <2>1, <2>2 DEF LineInv, CloseLast, ClosedEmpty
    <3> QED
      BY <3>3, <3>4, <3>5, <3>6, <3>7 DEF LineInv
  <2>3. CASE ~sealed[Of[c]] /\ Enqueue(c) /\ UNCHANGED owner
    BY <2>1, <2>3, EnqueueKeepsLine
  <2>4. CASE status' = [status EXCEPT ![c] = "refused"]
             /\ UNCHANGED <<queue, owner, sealed>>
    BY <2>1, <2>4 DEF LineInv, OwnerRuns, RunnerOwns, RunnerFirst, JoinedInside,
       PlacesKept, CloseLast, ClosedEmpty, Statuses, Running, InLine,
       ConnectionAssumption
  <2> QED
    BY <1>1, <2>2, <2>3, <2>4 DEF Issue
<1>2. ASSUME NEW c \in Call, Start(c) PROVE ConnectionInv'
  <2>1. /\ status[c] = "queued" /\ queue[Of[c]] # << >> /\ Head(queue[Of[c]]) = c
        /\ status' = [status EXCEPT ![c] =
                        IF Kind[c] = "read" THEN "reading" ELSE "begin"]
        /\ owner' = IF Kind[c] = "read" THEN owner ELSE [owner EXCEPT ![Of[c]] = c]
        /\ UNCHANGED <<queue, sealed, open>>
        /\ Of \in [Call -> Process]
    BY <1>2 DEF Start, FirstInLine, ConnectionAssumption
  <2>2. owner[Of[c]] = None
    BY <2>1 DEF LineInv, OwnerRuns, RunnerFirst, Running
  <2>3. \A d \in Call : Of[d] = Of[c] => status[d] \notin Running \cup {"joined"}
    BY <2>1, <2>2 DEF LineInv, RunnerFirst, JoinedInside, Running
  <2>4. ConnectionTypeOK'
    BY <2>1 DEF Statuses
  <2>5. OwnerRuns' /\ RunnerOwns'
    <3>1. \A d \in Call : d # c => status'[d] = status[d]
      BY <2>1
    <3>2. Of[c] \in Process /\ None \notin Call
      BY DEF ConnectionAssumption
    <3>3. CASE Kind[c] = "read"
      BY <2>1, <2>2, <3>1, <3>3 DEF LineInv, OwnerRuns, RunnerOwns
    <3>4. CASE Kind[c] # "read"
      <4>1. status'[c] = "begin" /\ owner'[Of[c]] = c
        BY <2>1, <3>2, <3>4
      <4>2. \A q \in Process : q # Of[c] => owner'[q] = owner[q]
        BY <2>1, <3>4
      <4>3. OwnerRuns'
        <5> SUFFICES ASSUME NEW q \in Process, owner'[q] # None
                     PROVE  /\ Of[owner'[q]] = q
                            /\ status'[owner'[q]] \in {"begin", "body"}
                            /\ Kind[owner'[q]] # "read"
          BY DEF OwnerRuns
        <5>1. CASE q = Of[c]
          BY <5>1, <4>1, <3>4
        <5>2. CASE q # Of[c]
          <6>1. owner'[q] = owner[q] /\ owner[q] \in Call
            BY <5>2, <4>2
          <6>2. /\ Of[owner[q]] = q /\ status[owner[q]] \in {"begin", "body"}
                /\ Kind[owner[q]] # "read"
            BY <6>1 DEF LineInv, OwnerRuns
          <6> QED
            BY <6>1, <6>2, <5>2, <3>1
        <5> QED
          BY <5>1, <5>2
      <4>4. RunnerOwns'
        <5> SUFFICES ASSUME NEW d \in Call, status'[d] \in {"begin", "body"}
                     PROVE  owner'[Of[d]] = d
          BY DEF RunnerOwns
        <5>1. CASE d = c
          BY <5>1, <4>1
        <5>2. CASE d # c
          <6>1. status[d] \in {"begin", "body"} /\ owner[Of[d]] = d
            BY <5>2, <3>1 DEF LineInv, RunnerOwns
          <6>2. Of[d] # Of[c]
            BY <6>1, <2>2 DEF ConnectionAssumption
          <6> QED
            BY <6>1, <6>2, <4>2, <2>1
        <5> QED
          BY <5>1, <5>2
      <4> QED
        BY <4>3, <4>4
    <3> QED
      BY <3>3, <3>4
  <2>6. RunnerFirst' /\ PlacesKept'
    BY <2>1 DEF LineInv, RunnerFirst, PlacesKept, Running, InLine
  <2>7. JoinedInside'
    BY <2>1, <2>3 DEF LineInv, JoinedInside, ConnectionAssumption
  <2>8. CloseLast' /\ ClosedEmpty'
    BY <2>1 DEF LineInv, CloseLast, ClosedEmpty
  <2> QED
    BY <2>4, <2>5, <2>6, <2>7, <2>8 DEF LineInv
<1>3. ASSUME NEW c \in Call, Begin(c) PROVE ConnectionInv'
  <2>1. /\ status[c] = "begin" /\ status' = [status EXCEPT ![c] = "body"]
        /\ UNCHANGED <<queue, owner, sealed, open>>
    BY <1>3 DEF Begin
  <2> QED
    BY <2>1 DEF LineInv, OwnerRuns, RunnerOwns, RunnerFirst, JoinedInside,
       PlacesKept, CloseLast, ClosedEmpty, Statuses, Running, InLine,
       ConnectionAssumption
<1>4. ASSUME NEW c \in Call, BeginBusy(c) PROVE ConnectionInv'
  <2>1. status[c] = "begin" /\ Release(c, "refused") /\ UNCHANGED sealed
    BY <1>4 DEF BeginBusy
  <2>2. Settled(c)
    BY <2>1 DEF Settled, LineInv, JoinedInside
  <2> QED
    BY <2>1, <2>2, ReleaseKeepsLine DEF Running
<1>5. ASSUME NEW c \in Call, Leave(c) PROVE ConnectionInv'
  <2>1. CASE status[c] = "joined" /\ status' = [status EXCEPT ![c] = "done"]
             /\ UNCHANGED <<queue, owner, open, sealed>>
    BY <2>1 DEF LineInv, OwnerRuns, RunnerOwns, RunnerFirst, JoinedInside,
       PlacesKept, CloseLast, ClosedEmpty, Statuses, Running, InLine,
       ConnectionAssumption
  <2>2. CASE status[c] = "reading" /\ Release(c, "done") /\ UNCHANGED sealed
    <3>1. Settled(c)
      BY <2>2 DEF Settled, LineInv, JoinedInside
    <3> QED
      BY <2>2, <3>1, ReleaseKeepsLine DEF Running
  <2> QED
    BY <1>5, <2>1, <2>2 DEF Leave
<1>6. ASSUME NEW c \in Call, Commit(c) PROVE ConnectionInv'
  BY <1>6, ReleaseKeepsLine DEF Commit, Running
<1>7. ASSUME NEW c \in Call, Rollback(c) PROVE ConnectionInv'
  BY <1>7, ReleaseKeepsLine DEF Rollback, Running
<1>8. ASSUME NEW c \in Call, AfterCommit(c) PROVE ConnectionInv'
  <2>1. /\ status[c] = "committed" /\ status' = [status EXCEPT ![c] = "done"]
        /\ UNCHANGED <<queue, owner, sealed, open>>
    BY <1>8 DEF AfterCommit
  <2> QED
    BY <2>1 DEF LineInv, OwnerRuns, RunnerOwns, RunnerFirst, JoinedInside,
       PlacesKept, CloseLast, ClosedEmpty, Statuses, Running, InLine,
       ConnectionAssumption
<1>9. ASSUME NEW p \in Process, Crash(p) PROVE ConnectionInv'
  <2>1. /\ open' = [open EXCEPT ![p] = FALSE]
        /\ status' = [c \in Call |->
             IF Of[c] = p /\ status[c] \in OnConnection \cup {"queued", "committed"}
             THEN "lost" ELSE status[c]]
        /\ queue' = [queue EXCEPT ![p] = << >>]
        /\ owner' = [owner EXCEPT ![p] = None]
        /\ UNCHANGED sealed
        /\ Of \in [Call -> Process]
    BY <1>9 DEF Crash, ConnectionAssumption
  <2>2. \A c \in Call :
          /\ Of[c] = p => status'[c] \notin InLine \cup {"joined"}
          /\ Of[c] # p => status'[c] = status[c]
    BY <2>1 DEF OnConnection, InLine, Running
  <2>3. ConnectionTypeOK'
    BY <2>1, EmptySeq DEF Statuses
  <2>4. \A q \in Process : q # p => queue'[q] = queue[q] /\ owner'[q] = owner[q]
                                     /\ open'[q] = open[q] /\ sealed'[q] = sealed[q]
    BY <2>1
  <2>5. queue'[p] = << >> /\ owner'[p] = None
    BY <2>1
  <2>6. OwnerRuns' /\ RunnerOwns'
    BY <2>1, <2>2, <2>4, <2>5 DEF LineInv, OwnerRuns, RunnerOwns, InLine, Running
  <2>7. RunnerFirst' /\ PlacesKept'
    BY <2>1, <2>2, <2>4 DEF LineInv, RunnerFirst, PlacesKept, InLine, Running
  <2>8. JoinedInside'
    BY <2>1, <2>2, <2>4 DEF LineInv, JoinedInside, ConnectionAssumption
  <2>9. CloseLast'
    <3>1. Len(<< >>) = 0
      BY EmptySeq
    <3> QED
      BY <2>4, <2>5, <3>1 DEF LineInv, CloseLast
  <2>10. ClosedEmpty'
    BY <2>4, <2>5 DEF LineInv, ClosedEmpty
  <2> QED
    BY <2>3, <2>6, <2>7, <2>8, <2>9, <2>10 DEF LineInv
<1>10. ASSUME NEW p \in Process, Reopen(p) PROVE ConnectionInv'
  <2>1. /\ ~open[p]
        /\ open' = [open EXCEPT ![p] = TRUE]
        /\ sealed' = [sealed EXCEPT ![p] = FALSE]
        /\ status' = [c \in Call |->
             IF Of[c] = p /\ status[c] # "idle" THEN "lost" ELSE status[c]]
        /\ UNCHANGED <<queue, owner>>
        /\ Of \in [Call -> Process]
    BY <1>10 DEF Reopen, ConnectionAssumption
  <2>2. queue[p] = << >> /\ Len(<< >>) = 0
    BY <2>1, EmptySeq DEF LineInv, ClosedEmpty
  <2>3. owner[p] = None
    BY <2>2 DEF LineInv, OwnerRuns, RunnerFirst, Running
  <2>4. \A c \in Call :
          /\ Of[c] = p => status'[c] \notin InLine \cup {"joined"}
          /\ Of[c] # p => status'[c] = status[c]
    BY <2>1 DEF InLine, Running
  <2>5. ConnectionTypeOK'
    BY <2>1 DEF Statuses
  <2>6. OwnerRuns' /\ RunnerOwns'
    BY <2>1, <2>3, <2>4 DEF LineInv, OwnerRuns, RunnerOwns, InLine, Running
  <2>7. RunnerFirst' /\ PlacesKept'
    BY <2>1, <2>4 DEF LineInv, RunnerFirst, PlacesKept, InLine, Running
  <2>8. JoinedInside'
    BY <2>1, <2>4 DEF LineInv, JoinedInside, ConnectionAssumption
  <2>9. CloseLast' /\ ClosedEmpty'
    BY <2>1, <2>2 DEF LineInv, CloseLast, ClosedEmpty
  <2> QED
    BY <2>5, <2>6, <2>7, <2>8, <2>9 DEF LineInv
<1>11. ASSUME UNCHANGED connection PROVE ConnectionInv'
  BY <1>11 DEF connection, LineInv, OwnerRuns, RunnerOwns, RunnerFirst,
     JoinedInside, PlacesKept, CloseLast, ClosedEmpty
<1> QED
  BY <1>1, <1>2, <1>3, <1>4, <1>5, <1>6, <1>7, <1>8, <1>9, <1>10, <1>11
     DEF ConnectionNext, Progress, ReadClock, Mint, connectionVars, connection

(* The status of every call and its place in the line always correspond.   *)
THEOREM LineCorrect == ConnectionSpec => []ConnectionInv
<1>1. ASSUME ConnectionAssumption, ConnectionInit PROVE ConnectionInv
  <2>1. Len(<< >>) = 0 /\ << >> \in Seq(Call)
    BY EmptySeq
  <2> QED
    BY <1>1, <2>1 DEF ConnectionInit, ConnectionInv, ConnectionTypeOK, LineInv, OwnerRuns,
       RunnerOwns, RunnerFirst, JoinedInside, PlacesKept, CloseLast,
       ClosedEmpty, Statuses, Running, InLine
<1>2. ConnectionInit => ConnectionInv
  BY <1>1, ConnectionAssumption
<1>3. ConnectionInv /\ [ConnectionNext]_connectionVars => ConnectionInv'
  BY LineStep, ConnectionAssumption
<1> QED
  BY <1>2, <1>3, PTL DEF ConnectionSpec

(* A connection does one thing at a time, and only what was called from    *)
(* inside a transaction runs in it.                                        *)
THEOREM NobodyElseEverInside == ConnectionSpec => []NobodyElseInside
<1>1. ConnectionInv => NobodyElseInside
  <2> SUFFICES ASSUME ConnectionInv, NEW c \in Call PROVE
        /\ status[c] \in {"begin", "body", "reading"} =>
             \A d \in Call \ {c} : Of[d] = Of[c] /\ status[d] \in OnConnection =>
               status[d] = "joined" /\ Inside[d] = c /\ status[c] = "body"
        /\ status[c] = "joined" =>
             owner[Of[c]] = Inside[c] /\ status[Inside[c]] = "body"
    BY DEF NobodyElseInside
  <2> USE ConnectionAssumption DEF ConnectionInv, LineInv
  <2>1. ASSUME status[c] \in Running, NEW d \in Call \ {c}, Of[d] = Of[c],
               status[d] \in OnConnection
        PROVE  status[d] = "joined" /\ Inside[d] = c /\ status[c] = "body"
    <3>1. status[d] \notin Running
      BY <2>1 DEF RunnerFirst
    <3>2. status[d] = "joined"
      BY <2>1, <3>1 DEF OnConnection, Running
    <3>3. /\ Inside[d] # None /\ owner[Of[d]] = Inside[d]
          /\ status[Inside[d]] = "body"
      BY <3>2 DEF JoinedInside
    <3>4. Inside[d] \in Call /\ Of[Inside[d]] = Of[c]
      BY <2>1, <3>3 DEF ConnectionAssumption
    <3>5. Inside[d] = c
      BY <2>1, <3>3, <3>4 DEF RunnerFirst, Running
    <3> QED
      BY <3>2, <3>3, <3>5
  <2>2. status[c] = "joined" =>
          owner[Of[c]] = Inside[c] /\ status[Inside[c]] = "body"
    BY DEF JoinedInside
  <2> QED
    BY <2>1, <2>2 DEF Running
<1> QED
  BY <1>1, LineCorrect, PTL

(* Once the handle is closed nothing runs or waits on the connection.      *)
THEOREM ClosedStaysQuiet == ConnectionSpec => []ClosedIsQuiet
<1>1. ConnectionInv => ClosedIsQuiet
  <2> SUFFICES ASSUME ConnectionInv, NEW c \in Call, ~open[Of[c]]
               PROVE  status[c] \notin OnConnection \cup {"queued"}
    BY DEF ClosedIsQuiet
  <2> USE ConnectionAssumption DEF ConnectionInv, LineInv
  <2>1. Of[c] \in Process /\ queue[Of[c]] = << >> /\ Len(<< >>) = 0
    BY EmptySeq DEF ConnectionAssumption, ClosedEmpty
  <2>2. \A d \in Call : Of[d] = Of[c] => status[d] \notin InLine
    BY <2>1 DEF PlacesKept
  <2>3. status[c] # "joined"
    <3> SUFFICES ASSUME status[c] = "joined" PROVE FALSE
      OBVIOUS
    <3>1. Inside[c] # None /\ status[Inside[c]] = "body"
      BY DEF JoinedInside
    <3>2. Inside[c] \in Call /\ Of[Inside[c]] = Of[c]
      BY <3>1 DEF ConnectionAssumption
    <3> QED
      BY <3>1, <3>2, <2>2 DEF InLine, Running
  <2> QED
    BY <2>2, <2>3 DEF OnConnection, InLine, Running
<1> QED
  BY <1>1, LineCorrect, PTL

-----------------------------------------------------------------------------
HookInv ==
  \A c \in Call :
    /\ status[c] \in {"idle", "queued", "begin", "joined", "reading"} => hook[c] = 0
    /\ status[c] = "body" => hook[c] <= tentative[Of[c]]
    /\ status[c] = "committed" => hook[c] <= floor

ClockInv == ClockTypeOK /\ OneWriter /\ NeverBehindACommit /\ HookInv

(* The later of two instants is one of them and not before either.         *)
LEMMA LaterIsLater ==
  ASSUME NEW a \in Instants, NEW b \in Instants
  PROVE  /\ Later(a, b) \in Instants
         /\ Later(a, b) >= a
         /\ Later(a, b) >= b
         /\ Later(a, b) \in {a, b}
  BY ConnectionAssumption DEF Later, Instants

(* Instants are numbers.                                                   *)
LEMMA InstantsAreInt ==
  0 \in Instants /\ Instants \subseteq Int /\ \A i \in Instants : i >= 0 /\ i >= i
  BY ConnectionAssumption DEF Instants

(* What a mint returns is no earlier than the floor the transaction sees.  *)
LEMMA MintAdvances ==
  ASSUME ClockTypeOK, NEW p \in Process, NEW now \in Instants,
         NEW after \in LowerBounds, Mint(p, now, after)
  PROVE  /\ InTransaction(p)
         /\ owner[p] \in Call => Kind[owner[p]] = "tx"
         /\ \E at \in Instants :
              /\ at >= tentative[p]
              /\ tentative' = [tentative EXCEPT ![p] = at]
              /\ hook' = [hook EXCEPT ![owner[p]] = Later(@, at)]
         /\ localFloor' = [localFloor EXCEPT ![p] = Later(@, now)]
         /\ observed' = [observed EXCEPT ![p] = Later(@, now)]
         /\ UNCHANGED <<status, queue, owner, sealed, open, floor>>
<1> DEFINE e == Effective(p, now)
           at == IF after >= e THEN after + 1 ELSE e
<1>1. /\ InTransaction(p) /\ Kind[owner[p]] = "tx" /\ at <= Horizon
      /\ tentative' = [tentative EXCEPT ![p] = at]
      /\ hook' = [hook EXCEPT ![owner[p]] = Later(@, at)]
      /\ observed' = [observed EXCEPT ![p] = Later(@, now)]
      /\ localFloor' = [localFloor EXCEPT ![p] = Later(@, now)]
      /\ UNCHANGED <<status, queue, owner, sealed, open, floor>>
  BY DEF Mint, Publish, connection
<1>2. /\ Later(localFloor[p], now) \in Instants
      /\ Stored(p) = tentative[p] /\ tentative[p] \in Instants
  BY <1>1, LaterIsLater DEF ClockTypeOK, Stored
<1>3. e \in Instants /\ e >= tentative[p]
  BY <1>2, LaterIsLater DEF Effective
<1>4. at \in Instants /\ at >= tentative[p]
  <2> HIDE DEF e
  <2> QED
    BY <1>1, <1>2, <1>3, ConnectionAssumption DEF Instants, LowerBounds
<1> HIDE DEF at
<1> QED
  BY <1>1, <1>4

(* Taking the line and releasing it do not touch the clock.                *)
LEMMA ReleaseKeepsWriters ==
  ASSUME ConnectionAssumption, ConnectionInv, NEW c \in Call, NEW outcome,
         outcome # "body", Release(c, outcome)
  PROVE  \A p \in Process : InTransaction(p)' => InTransaction(p) /\ owner[p] # c
<1> SUFFICES ASSUME NEW p \in Process, InTransaction(p)'
             PROVE  InTransaction(p) /\ owner[p] # c
  OBVIOUS
<1>1. /\ status' = [status EXCEPT ![c] = outcome]
      /\ owner' = [owner EXCEPT ![Of[c]] = IF @ = c THEN None ELSE @]
  BY DEF Release
<1>2. owner'[p] # None /\ owner'[p] = owner[p] /\ owner[p] \in Call
  BY <1>1 DEF InTransaction, ConnectionInv, ConnectionTypeOK
<1>3. status'[owner[p]] = "body"
  BY <1>2 DEF InTransaction
<1> QED
  BY <1>1, <1>2, <1>3 DEF InTransaction, ConnectionInv, ConnectionTypeOK

(* A step that opens no transaction and leaves floors alone.               *)
LEMMA QuietStep ==
  ASSUME OneWriter, NeverBehindACommit, floor' = floor,
         \A p \in Process : InTransaction(p)' =>
           InTransaction(p) /\ tentative'[p] = tentative[p]
  PROVE  OneWriter' /\ NeverBehindACommit'
  BY DEF OneWriter, NeverBehindACommit

(* One writer at a time, and it is not behind; what a call minted lies     *)
(* below what its transaction, or the file, has reached.                   *)
LEMMA ClockStep ==
  ASSUME ConnectionAssumption, ConnectionInv, ClockInv, [ConnectionNext]_connectionVars
  PROVE  ClockInv'
<1> USE DEF ClockInv
<1>1. ASSUME NEW c \in Call, Issue(c) PROVE ClockInv'
  <2>1. /\ status[c] = "idle" /\ Of[c] \in Process /\ hook[c] = 0
        /\ \E s \in {"joined", "queued", "refused"} : status' = [status EXCEPT ![c] = s]
        /\ UNCHANGED <<owner, open, floor, tentative, hook, observed>>
        /\ \/ UNCHANGED localFloor
           \/ localFloor' = [localFloor EXCEPT ![Of[c]] = Later(@, Stored(Of[c]))]
    BY <1>1 DEF Issue, Enqueue, ConnectionAssumption, HookInv
  <2>2. Stored(Of[c]) \in Instants
    BY <2>1 DEF Stored, ClockTypeOK
  <2>3. ClockTypeOK'
    BY <2>1, <2>2, LaterIsLater DEF ClockTypeOK
  <2>4. \A p \in Process : InTransaction(p)' => InTransaction(p)
    BY <2>1 DEF InTransaction, ConnectionInv, ConnectionTypeOK
  <2>5. OneWriter' /\ NeverBehindACommit'
    BY <2>1, <2>4, QuietStep
  <2>6. HookInv'
    BY <2>1 DEF HookInv, ConnectionInv, ConnectionTypeOK
  <2> QED
    BY <2>3, <2>5, <2>6
<1>2. ASSUME NEW c \in Call, Start(c) PROVE ClockInv'
  <2>1. /\ status[c] = "queued"
        /\ status' = [status EXCEPT ![c] =
                        IF Kind[c] = "read" THEN "reading" ELSE "begin"]
        /\ owner' = IF Kind[c] = "read" THEN owner ELSE [owner EXCEPT ![Of[c]] = c]
        /\ UNCHANGED <<floor, tentative, localFloor, hook, observed>>
    BY <1>2 DEF Start, clock
  <2>2. status'[c] # "body" /\ \A d \in Call : d # c => status'[d] = status[d]
    BY <2>1 DEF ConnectionInv, ConnectionTypeOK
  <2>3. \A p \in Process : owner'[p] = owner[p] \/ owner'[p] = c
    BY <2>1 DEF ConnectionInv, ConnectionTypeOK
  <2>4. \A p \in Process : InTransaction(p)' => InTransaction(p)
    BY <2>1, <2>2, <2>3 DEF InTransaction, ConnectionInv, ConnectionTypeOK
  <2>5. OneWriter' /\ NeverBehindACommit'
    BY <2>1, <2>4, QuietStep
  <2> QED
    BY <2>1, <2>5 DEF ClockTypeOK, HookInv, ConnectionInv, ConnectionTypeOK
<1>3. ASSUME NEW c \in Call, Begin(c) PROVE ClockInv'
  <2> DEFINE p == Of[c]
  <2>1. /\ status[c] = "begin" /\ p \in Process /\ hook[c] = 0
        /\ \A q \in Process : ~InTransaction(q)
        /\ status' = [status EXCEPT ![c] = "body"]
        /\ tentative' = [tentative EXCEPT ![p] = floor]
        /\ UNCHANGED <<owner, floor, hook, observed>>
        /\ \/ UNCHANGED localFloor
           \/ localFloor' = [localFloor EXCEPT ![p] = Later(@, floor)]
    BY <1>3 DEF Begin, ConnectionAssumption, HookInv
  <2>2. ClockTypeOK'
    BY <2>1, LaterIsLater DEF ClockTypeOK
  <2>3. \A q \in Process : InTransaction(q)' => q = p
    BY <2>1 DEF InTransaction, ConnectionInv, ConnectionTypeOK, LineInv, OwnerRuns
  <2>4. tentative'[p] = floor /\ floor' = floor /\ floor \in Int
    BY <2>1, InstantsAreInt DEF ClockTypeOK
  <2>5. OneWriter' /\ NeverBehindACommit'
    BY <2>3, <2>4 DEF OneWriter, NeverBehindACommit
  <2>6. HookInv'
    <3> SUFFICES ASSUME NEW d \in Call PROVE
          /\ status'[d] \in {"idle", "queued", "begin", "joined", "reading"}
               => hook'[d] = 0
          /\ status'[d] = "body" => hook'[d] <= tentative'[Of[d]]
          /\ status'[d] = "committed" => hook'[d] <= floor'
      BY DEF HookInv
    <3>1. d # c => status[d] # "body"
      BY <2>1 DEF ConnectionInv, ConnectionTypeOK, LineInv, RunnerOwns,
         InTransaction, ConnectionAssumption
    <3>2. hook[c] <= floor
      BY <2>1, InstantsAreInt DEF ClockTypeOK
    <3> QED
      BY <2>1, <2>4, <3>1, <3>2 DEF HookInv, ConnectionInv, ConnectionTypeOK
  <2> QED
    BY <2>2, <2>5, <2>6
<1>4. ASSUME NEW c \in Call, BeginBusy(c) \/ (status[c] = "reading" /\ Leave(c))
      PROVE  ClockInv'
  <2>1. /\ status[c] \in {"begin", "reading"}
        /\ \E s \in {"refused", "done"} : Release(c, s)
        /\ UNCHANGED <<floor, tentative, localFloor, hook, observed>>
    BY <1>4 DEF BeginBusy, Leave, clock
  <2>2. \A p \in Process : InTransaction(p)' => InTransaction(p)
    BY <2>1, ReleaseKeepsWriters
  <2>3. OneWriter' /\ NeverBehindACommit'
    BY <2>1, <2>2, QuietStep
  <2> QED
    BY <2>1, <2>3 DEF Release, ClockTypeOK, HookInv, ConnectionInv, ConnectionTypeOK
<1>5. ASSUME NEW c \in Call, status[c] = "joined", Leave(c) PROVE ClockInv'
  <2>1. /\ status' = [status EXCEPT ![c] = "done"]
        /\ UNCHANGED <<owner, floor, tentative, localFloor, hook, observed>>
    BY <1>5 DEF Leave, clock
  <2>2. \A p \in Process : InTransaction(p)' => InTransaction(p)
    BY <2>1 DEF InTransaction, ConnectionInv, ConnectionTypeOK
  <2>3. OneWriter' /\ NeverBehindACommit'
    BY <2>1, <2>2, QuietStep
  <2> QED
    BY <2>1, <2>3 DEF ClockTypeOK, HookInv, ConnectionInv, ConnectionTypeOK
<1>6. ASSUME NEW c \in Call, Commit(c) PROVE ClockInv'
  <2> DEFINE p == Of[c]
  <2>1. /\ status[c] = "body" /\ p \in Process /\ Release(c, "committed")
        /\ status' = [status EXCEPT ![c] = "committed"]
        /\ floor' = tentative[p]
        /\ tentative' = [tentative EXCEPT ![p] = 0]
        /\ UNCHANGED <<localFloor, hook, observed>>
    BY <1>6 DEF Commit, Release, ConnectionAssumption
  <2>2. owner[p] = c /\ InTransaction(p)
    BY <2>1 DEF ConnectionInv, LineInv, RunnerOwns, InTransaction, ConnectionAssumption
  <2>3. \A q \in Process : ~InTransaction(q)'
    BY <2>1, <2>2, ReleaseKeepsWriters DEF OneWriter
  <2>4. ClockTypeOK'
    BY <2>1, InstantsAreInt DEF ClockTypeOK
  <2>5. OneWriter' /\ NeverBehindACommit'
    BY <2>3 DEF OneWriter, NeverBehindACommit
  <2>6. HookInv'
    <3> SUFFICES ASSUME NEW d \in Call PROVE
          /\ status'[d] \in {"idle", "queued", "begin", "joined", "reading"}
               => hook'[d] = 0
          /\ status'[d] = "body" => hook'[d] <= tentative'[Of[d]]
          /\ status'[d] = "committed" => hook'[d] <= floor'
      BY DEF HookInv
    <3>1. floor' >= floor /\ floor' \in Int /\ floor \in Int /\ hook[d] \in Int
      BY <2>1, <2>2, InstantsAreInt DEF NeverBehindACommit, ClockTypeOK
    <3>2. CASE d = c
      BY <3>2, <2>1 DEF HookInv, ConnectionInv, ConnectionTypeOK
    <3>3. CASE d # c
      <4>1. status'[d] = status[d] /\ hook'[d] = hook[d]
        BY <3>3, <2>1
      <4>2. status[d] # "body"
        BY <3>3, <2>2 DEF OneWriter, InTransaction, ConnectionInv,
           ConnectionTypeOK, LineInv, RunnerOwns, ConnectionAssumption
      <4>3. status[d] = "committed" => hook[d] <= floor'
        BY <3>1 DEF HookInv
      <4> QED
        BY <4>1, <4>2, <4>3 DEF HookInv
    <3> QED
      BY <3>2, <3>3
  <2> QED
    BY <2>4, <2>5, <2>6
<1>7. ASSUME NEW c \in Call, Rollback(c) PROVE ClockInv'
  <2> DEFINE p == Of[c]
  <2>1. /\ status[c] = "body" /\ p \in Process /\ Release(c, "failed")
        /\ status' = [status EXCEPT ![c] = "failed"]
        /\ tentative' = [tentative EXCEPT ![p] = 0]
        /\ hook' = [hook EXCEPT ![c] = 0]
        /\ UNCHANGED <<floor, localFloor, observed>>
    BY <1>7 DEF Rollback, Release, ConnectionAssumption
  <2>2. owner[p] = c /\ InTransaction(p)
    BY <2>1 DEF ConnectionInv, LineInv, RunnerOwns, InTransaction, ConnectionAssumption
  <2>3. \A q \in Process : ~InTransaction(q)'
    BY <2>1, <2>2, ReleaseKeepsWriters DEF OneWriter
  <2>4. ClockTypeOK'
    BY <2>1, InstantsAreInt DEF ClockTypeOK
  <2>5. OneWriter' /\ NeverBehindACommit'
    BY <2>3 DEF OneWriter, NeverBehindACommit
  <2>6. \A d \in Call : d # c => status[d] # "body"
    BY <2>2 DEF OneWriter, InTransaction, ConnectionInv,
       ConnectionTypeOK, LineInv, RunnerOwns, ConnectionAssumption
  <2>7. HookInv'
    BY <2>1, <2>6 DEF HookInv, ClockTypeOK, ConnectionInv, ConnectionTypeOK
  <2> QED
    BY <2>4, <2>5, <2>7
<1>8. ASSUME NEW c \in Call, AfterCommit(c) PROVE ClockInv'
  <2>1. /\ status[c] = "committed"
        /\ status' = [status EXCEPT ![c] = "done"]
        /\ localFloor' = [localFloor EXCEPT ![Of[c]] = Later(@, hook[c])]
        /\ UNCHANGED <<owner, floor, tentative, hook, observed>>
        /\ Of[c] \in Process
    BY <1>8 DEF AfterCommit, HookPublished, ConnectionAssumption
  <2>2. \A p \in Process : InTransaction(p)' => InTransaction(p)
    BY <2>1 DEF InTransaction, ConnectionInv, ConnectionTypeOK
  <2>3. OneWriter' /\ NeverBehindACommit'
    BY <2>1, <2>2, QuietStep
  <2> QED
    BY <2>1, <2>3, LaterIsLater DEF ClockTypeOK, HookInv, ConnectionInv, ConnectionTypeOK
<1>9. ASSUME NEW p \in Process, Crash(p) PROVE ClockInv'
  <2>1. /\ status' = [c \in Call |->
             IF Of[c] = p /\ status[c] \in OnConnection \cup {"queued", "committed"}
             THEN "lost" ELSE status[c]]
        /\ owner' = [owner EXCEPT ![p] = None]
        /\ tentative' = [tentative EXCEPT ![p] = 0]
        /\ localFloor' = [localFloor EXCEPT ![p] = 0]
        /\ observed' = [observed EXCEPT ![p] = 0]
        /\ UNCHANGED <<floor, hook>>
    BY <1>9 DEF Crash
  <2>2. ClockTypeOK'
    BY <2>1, InstantsAreInt DEF ClockTypeOK
  <2>3. \A q \in Process : InTransaction(q)' => q # p /\ InTransaction(q)
    BY <2>1 DEF InTransaction, ConnectionInv, ConnectionTypeOK
  <2>4. OneWriter' /\ NeverBehindACommit'
    BY <2>1, <2>3, QuietStep DEF ClockTypeOK
  <2>5. HookInv'
    BY <2>1 DEF HookInv, OnConnection, ClockTypeOK, ConnectionAssumption
  <2> QED
    BY <2>2, <2>4, <2>5
<1>10. ASSUME NEW p \in Process, Reopen(p) PROVE ClockInv'
  <2>1. /\ status' = [c \in Call |->
             IF Of[c] = p /\ status[c] # "idle" THEN "lost" ELSE status[c]]
        /\ localFloor' = [localFloor EXCEPT ![p] = floor]
        /\ hook' = [c \in Call |-> IF Of[c] = p THEN 0 ELSE hook[c]]
        /\ observed' = [observed EXCEPT ![p] = 0]
        /\ UNCHANGED <<owner, floor, tentative>>
    BY <1>10 DEF Reopen
  <2>2. ClockTypeOK'
    BY <2>1, InstantsAreInt DEF ClockTypeOK
  <2>3. \A q \in Process : InTransaction(q)' => InTransaction(q)
    BY <2>1 DEF InTransaction, ConnectionInv, ConnectionTypeOK
  <2>4. OneWriter' /\ NeverBehindACommit'
    BY <2>1, <2>3, QuietStep
  <2>5. HookInv'
    BY <2>1 DEF HookInv
  <2> QED
    BY <2>2, <2>4, <2>5
<1>11. ASSUME NEW p \in Process, NEW now \in Instants, NEW after \in LowerBounds,
              Mint(p, now, after)
       PROVE  ClockInv'
  <2>1. PICK at \in Instants :
          /\ InTransaction(p) /\ at >= tentative[p]
          /\ tentative' = [tentative EXCEPT ![p] = at]
          /\ hook' = [hook EXCEPT ![owner[p]] = Later(@, at)]
          /\ localFloor' = [localFloor EXCEPT ![p] = Later(@, now)]
          /\ observed' = [observed EXCEPT ![p] = Later(@, now)]
          /\ UNCHANGED <<status, owner, floor>>
    BY <1>11, MintAdvances
  <2>2. owner[p] \in Call /\ status[owner[p]] = "body" /\ Of[owner[p]] = p
    BY <2>1 DEF InTransaction, ConnectionInv, ConnectionTypeOK, LineInv, OwnerRuns
  <2>3. ClockTypeOK'
    BY <2>1, <2>2, LaterIsLater DEF ClockTypeOK
  <2>4. \A q \in Process : InTransaction(q)' <=> InTransaction(q)
    BY <2>1 DEF InTransaction
  <2>5. OneWriter'
    BY <2>4 DEF OneWriter
  <2>6. NeverBehindACommit'
    <3>1. tentative'[p] >= floor'
      <4>1. /\ tentative'[p] = at /\ floor' = floor
            /\ at \in Int /\ tentative[p] \in Int /\ floor \in Int
        BY <2>1, InstantsAreInt DEF ClockTypeOK
      <4>2. tentative[p] >= floor /\ at >= tentative[p]
        BY <2>1 DEF NeverBehindACommit
      <4> QED
        BY <4>1, <4>2
    <3>2. \A q \in Process : q # p => tentative'[q] = tentative[q] /\ floor' = floor
      BY <2>1 DEF ClockTypeOK
    <3> QED
      BY <2>4, <3>1, <3>2 DEF NeverBehindACommit
  <2>7. HookInv'
    <3> SUFFICES ASSUME NEW d \in Call PROVE
          /\ status'[d] \in {"idle", "queued", "begin", "joined", "reading"}
               => hook'[d] = 0
          /\ status'[d] = "body" => hook'[d] <= tentative'[Of[d]]
          /\ status'[d] = "committed" => hook'[d] <= floor'
      BY DEF HookInv
    <3>1. CASE d = owner[p]
      <4>1. Later(hook[d], at) \in {hook[d], at} /\ hook[d] <= tentative[p]
        BY <3>1, <2>2, LaterIsLater DEF ClockTypeOK, HookInv
      <4>2. at \in Int /\ tentative[p] \in Int /\ hook[d] \in Int
        BY <3>1, <2>2, InstantsAreInt DEF ClockTypeOK
      <4>3. Later(hook[d], at) <= at
        BY <4>1, <4>2, <2>1
      <4>4. hook'[d] = Later(hook[d], at) /\ tentative'[Of[d]] = at
        BY <3>1, <2>1, <2>2 DEF ClockTypeOK
      <4> QED
        BY <4>3, <4>4, <3>1, <2>1, <2>2
    <3>2. CASE d # owner[p]
      <4>1. status[d] = "body" => Of[d] # p
        BY <3>2 DEF ConnectionInv, LineInv, RunnerOwns
      <4>2. /\ hook'[d] = hook[d] /\ status'[d] = status[d] /\ floor' = floor
            /\ Of[d] # p => tentative'[Of[d]] = tentative[Of[d]]
        BY <3>2, <2>1 DEF ClockTypeOK, ConnectionAssumption
      <4> QED
        BY <4>1, <4>2 DEF HookInv
    <3> QED
      BY <3>1, <3>2
  <2> QED
    BY <2>3, <2>5, <2>6, <2>7
<1>12. ASSUME NEW p \in Process, NEW now \in Instants, ReadClock(p, now)
       PROVE  ClockInv'
  <2>1. /\ observed' = [observed EXCEPT ![p] = Later(@, now)]
        /\ localFloor' = [localFloor EXCEPT ![p] = Later(@, now)]
        /\ UNCHANGED <<status, owner, floor, tentative, hook>>
    BY <1>12 DEF ReadClock, connection
  <2> QED
    BY <2>1, LaterIsLater DEF ClockTypeOK, OneWriter, NeverBehindACommit,
       HookInv, InTransaction
<1>13. ASSUME UNCHANGED connectionVars PROVE ClockInv'
  BY <1>13 DEF connectionVars, ClockTypeOK, OneWriter, NeverBehindACommit, HookInv, InTransaction
<1>14. \A c \in Call : Leave(c) => status[c] \in {"joined", "reading"}
  BY DEF Leave
<1> QED
  BY <1>1, <1>2, <1>3, <1>4, <1>5, <1>6, <1>7, <1>8, <1>9, <1>10, <1>11,
     <1>12, <1>13, <1>14 DEF ConnectionNext, Progress

ConnectionFacts == ConnectionInv /\ ClockInv

LEMMA FactsAlways == ConnectionSpec => []ConnectionFacts
<1>1. ConnectionInit => ClockInv
  <2>1. ASSUME ConnectionInit PROVE ClockTypeOK
    BY <2>1, InstantsAreInt DEF ConnectionInit, ClockTypeOK
  <2>2. ASSUME ConnectionInit PROVE OneWriter /\ NeverBehindACommit
    BY <2>2 DEF ConnectionInit, OneWriter, NeverBehindACommit, InTransaction
  <2>3. ASSUME ConnectionInit PROVE HookInv
    BY <2>3, ConnectionAssumption DEF ConnectionInit, HookInv
  <2> QED
    BY <2>1, <2>2, <2>3 DEF ClockInv
<1>2. ConnectionInv /\ ClockInv /\ [ConnectionNext]_connectionVars => ClockInv'
  BY ClockStep, ConnectionAssumption
<1> QED
  BY <1>1, <1>2, LineCorrect, PTL DEF ConnectionSpec, ConnectionFacts

(* Type correctness of the connection and the clock.                       *)
THEOREM ConnectionTypeCorrect == ConnectionSpec => []ConnectionTyped
<1>1. ConnectionFacts => ConnectionTyped
  BY DEF ConnectionFacts, ConnectionInv, ConnectionTypeOK, ClockInv, ClockTypeOK, ConnectionTyped
<1> QED
  BY <1>1, FactsAlways, PTL

(* No open transaction of any process is behind a committed time.          *)
THEOREM NeverBehind == ConnectionSpec => []NeverBehindACommit
<1>1. ConnectionFacts => NeverBehindACommit
  BY DEF ConnectionFacts, ClockInv
<1> QED
  BY <1>1, FactsAlways, PTL

(* What no step may turn back: the committed floor, and within a           *)
(* transaction the floor it sees.                                          *)
Forward ==
  /\ floor' >= floor
  /\ \A p \in Process :
       InTransaction(p) /\ InTransaction(p)' => tentative'[p] >= tentative[p]

LEMMA StepsForward ==
  ASSUME ConnectionFacts, ConnectionAssumption, ConnectionNext
  PROVE  Forward
<1> USE DEF ConnectionFacts, ClockInv, Forward
<1>0. /\ floor >= floor
      /\ \A q \in Process : tentative[q] >= tentative[q]
  BY InstantsAreInt DEF ClockTypeOK
<1>1. ASSUME UNCHANGED <<floor, tentative>> PROVE Forward
  BY <1>0, <1>1
<1>2. ASSUME NEW c \in Call, Issue(c) \/ Start(c) \/ BeginBusy(c) \/ Leave(c)
                              \/ AfterCommit(c)
      PROVE  Forward
  BY <1>1, <1>2 DEF Issue, Start, BeginBusy, Leave, AfterCommit, clock
<1>3. ASSUME NEW c \in Call, Begin(c) PROVE Forward
  BY <1>3, InstantsAreInt DEF Begin, ClockTypeOK
<1>4. ASSUME NEW c \in Call, Commit(c) PROVE Forward
  <2>1. /\ status[c] = "body" /\ Release(c, "committed") /\ Of[c] \in Process
        /\ floor' = tentative[Of[c]]
    BY <1>4 DEF Commit, ConnectionAssumption
  <2>2. owner[Of[c]] = c /\ InTransaction(Of[c])
    BY <2>1 DEF ConnectionInv, LineInv, RunnerOwns, InTransaction, ConnectionAssumption
  <2>3. \A q \in Process : ~InTransaction(q)'
    BY <2>1, <2>2, ReleaseKeepsWriters DEF OneWriter
  <2> QED
    BY <2>1, <2>2, <2>3 DEF NeverBehindACommit
<1>5. ASSUME NEW c \in Call, Rollback(c) PROVE Forward
  <2>1. /\ status[c] = "body" /\ Release(c, "failed") /\ Of[c] \in Process
        /\ floor' = floor
    BY <1>5 DEF Rollback, ConnectionAssumption
  <2>2. owner[Of[c]] = c /\ InTransaction(Of[c])
    BY <2>1 DEF ConnectionInv, LineInv, RunnerOwns, InTransaction, ConnectionAssumption
  <2>3. \A q \in Process : ~InTransaction(q)'
    BY <2>1, <2>2, ReleaseKeepsWriters DEF OneWriter
  <2> QED
    BY <2>1, <2>3, <1>0
<1>6. ASSUME NEW p \in Process, Crash(p) PROVE Forward
  <2>1. /\ owner' = [owner EXCEPT ![p] = None] /\ floor' = floor
        /\ tentative' = [tentative EXCEPT ![p] = 0]
    BY <1>6 DEF Crash
  <2>2. ~InTransaction(p)'
    BY <2>1 DEF InTransaction, ConnectionInv, ConnectionTypeOK
  <2>3. \A q \in Process : q # p => tentative'[q] = tentative[q]
    BY <2>1 DEF ClockTypeOK
  <2> QED
    BY <2>1, <2>2, <2>3, <1>0
<1>7. ASSUME NEW p \in Process, Reopen(p) PROVE Forward
  BY <1>1, <1>7 DEF Reopen
<1>8. ASSUME NEW p \in Process, NEW now \in Instants, ReadClock(p, now)
      PROVE  Forward
  BY <1>1, <1>8 DEF ReadClock
<1>9. ASSUME NEW p \in Process, NEW now \in Instants, NEW after \in LowerBounds,
             Mint(p, now, after)
      PROVE  Forward
  <2>1. PICK at \in Instants :
          at >= tentative[p] /\ tentative' = [tentative EXCEPT ![p] = at]
          /\ floor' = floor
    BY <1>9, MintAdvances
  <2>2. \A q \in Process : q # p => tentative'[q] = tentative[q]
    BY <2>1 DEF ClockTypeOK
  <2>3. tentative'[p] >= tentative[p]
    BY <2>1 DEF ClockTypeOK
  <2> QED
    BY <2>1, <2>2, <2>3, <1>0
<1> QED
  BY <1>2, <1>3, <1>4, <1>5, <1>6, <1>7, <1>8, <1>9 DEF ConnectionNext, Progress

(* Authority time never regresses, whatever the wall clocks show.          *)
THEOREM NoRegress == ConnectionSpec => TimeNeverRegresses
<1>1. ConnectionFacts /\ [ConnectionNext]_connectionVars => [Forward]_connectionVars
  BY StepsForward, ConnectionAssumption
<1> QED
  BY <1>1, FactsAlways, PTL DEF ConnectionSpec, TimeNeverRegresses, Forward

(* While a process has the file open, its clock never goes back.           *)
LEMMA ClockForward ==
  ASSUME ConnectionAssumption, ConnectionFacts, ConnectionNext,
         NEW q \in Process, open[q], open'[q]
  PROVE  localFloor'[q] >= localFloor[q]
<1>1. ClockTypeOK
  BY DEF ConnectionFacts, ClockInv
<1>2. localFloor[q] \in Instants /\ localFloor[q] >= localFloor[q]
  BY <1>1, InstantsAreInt DEF ClockTypeOK
<1>3. ASSUME NEW p \in Process, NEW i \in Instants,
             \/ localFloor' = [localFloor EXCEPT ![p] = Later(@, i)]
             \/ localFloor' = localFloor
      PROVE  localFloor'[q] >= localFloor[q]
  BY <1>1, <1>2, <1>3, LaterIsLater DEF ClockTypeOK
<1>4. ASSUME NEW c \in Call, Issue(c) \/ Start(c) \/ Begin(c) \/ BeginBusy(c)
        PROVE localFloor'[q] >= localFloor[q]
  <2>1. Of[c] \in Process /\ Stored(Of[c]) \in Instants /\ floor \in Instants
    BY <1>1 DEF ConnectionAssumption, ClockTypeOK, Stored
  <2>2. \/ localFloor' = localFloor
        \/ localFloor' = [localFloor EXCEPT ![Of[c]] = Later(@, Stored(Of[c]))]
        \/ localFloor' = [localFloor EXCEPT ![Of[c]] = Later(@, floor)]
    BY <1>4 DEF Issue, Start, Begin, BeginBusy, clock
  <2> QED
    BY <2>1, <2>2, <1>3
<1>5. ASSUME NEW c \in Call, Leave(c) \/ Commit(c) \/ Rollback(c) \/ AfterCommit(c)
      PROVE localFloor'[q] >= localFloor[q]
  <2>1. Of[c] \in Process /\ hook[c] \in Instants
    BY <1>1 DEF ConnectionAssumption, ClockTypeOK
  <2>2. \/ localFloor' = localFloor
        \/ localFloor' = [localFloor EXCEPT ![Of[c]] = Later(@, hook[c])]
    BY <1>5 DEF Leave, Commit, Rollback, AfterCommit, HookPublished, clock
  <2> QED
    BY <2>1, <2>2, <1>3
<1>6. ASSUME NEW p \in Process, Crash(p) \/ Reopen(p)
      PROVE  localFloor'[q] >= localFloor[q]
  <2>1. q # p /\ \E i : localFloor' = [localFloor EXCEPT ![p] = i]
    BY <1>6 DEF Crash, Reopen, ConnectionFacts, ConnectionInv, ConnectionTypeOK
  <2> QED
    BY <2>1, <1>1, <1>2 DEF ClockTypeOK
<1>7. ASSUME NEW p \in Process, NEW now \in Instants, ReadClock(p, now)
      PROVE  localFloor'[q] >= localFloor[q]
  BY <1>3, <1>7 DEF ReadClock
<1>8. ASSUME NEW p \in Process, NEW now \in Instants, NEW after \in LowerBounds,
             Mint(p, now, after)
      PROVE  localFloor'[q] >= localFloor[q]
  BY <1>1, <1>3, <1>8, MintAdvances
<1> QED
  BY <1>4, <1>5, <1>6, <1>7, <1>8 DEF ConnectionNext, Progress

(* An answered call stays answered, and what it minted is in the clock.    *)
LEMMA OwnCommitStep ==
  ASSUME ConnectionAssumption, ConnectionFacts, ConnectionFacts', ConnectionNext,
         OwnCommitVisible
  PROVE  OwnCommitVisible'
<1>1. /\ ClockTypeOK /\ ClockTypeOK' /\ HookInv
      /\ Of \in [Call -> Process]
  BY DEF ConnectionFacts, ClockInv, ConnectionAssumption
<1> SUFFICES ASSUME NEW d \in Call, open'[Of[d]], status'[d] = "done"
             PROVE  localFloor'[Of[d]] >= hook'[d]
  BY DEF OwnCommitVisible
<1>2. /\ localFloor[Of[d]] \in Int /\ localFloor'[Of[d]] \in Int
      /\ hook[d] \in Int /\ localFloor'[Of[d]] >= 0
  BY <1>1, InstantsAreInt DEF ClockTypeOK
<1>3. ASSUME hook'[d] = 0 PROVE localFloor'[Of[d]] >= hook'[d]
  BY <1>2, <1>3
<1>4. ASSUME open[Of[d]], status[d] = "done", hook'[d] = hook[d]
      PROVE  localFloor'[Of[d]] >= hook'[d]
  <2>1. localFloor'[Of[d]] >= localFloor[Of[d]]
    BY <1>1, <1>4, ClockForward
  <2>2. localFloor[Of[d]] >= hook[d]
    BY <1>4 DEF OwnCommitVisible
  <2> QED
    BY <1>2, <1>4, <2>1, <2>2
<1>5. ASSUME NEW c \in Call, NEW outcome, c # d, Release(c, outcome), hook'[d] = hook[d]
      PROVE  localFloor'[Of[d]] >= hook'[d]
  <2>1. /\ status' = [status EXCEPT ![c] = outcome]
        /\ open' = [open EXCEPT ![Of[c]] = @ /\ Kind[c] # "close"]
    BY <1>5 DEF Release
  <2>2. status[d] = "done"
    BY <1>5, <2>1 DEF ConnectionFacts, ConnectionInv, ConnectionTypeOK
  <2>3. open[Of[d]]
    BY <2>1, ZenonT(30) DEF ConnectionFacts, ConnectionInv, ConnectionTypeOK
  <2> QED
    BY <1>4, <1>5, <2>2, <2>3
<1>6. ASSUME NEW c \in Call, Issue(c) \/ Start(c) \/ Begin(c)
      PROVE  localFloor'[Of[d]] >= hook'[d]
  <2>1. /\ hook' = hook /\ open' = open
        /\ \E s : s # "done" /\ status' = [status EXCEPT ![c] = s]
    BY <1>6 DEF Issue, Enqueue, Start, Begin, clock
  <2>2. status[d] = "done"
    BY <2>1 DEF ConnectionFacts, ConnectionInv, ConnectionTypeOK
  <2> QED
    BY <2>1, <2>2, <1>4
<1>7. ASSUME NEW c \in Call, BeginBusy(c) \/ Commit(c) \/ Rollback(c)
      PROVE  localFloor'[Of[d]] >= hook'[d]
  <2>1. \E outcome : outcome # "done" /\ Release(c, outcome)
    BY <1>7 DEF BeginBusy, Commit, Rollback
  <2>2. c # d
    BY <2>1 DEF Release, ConnectionFacts, ConnectionInv, ConnectionTypeOK
  <2>3. hook'[d] = hook[d]
    BY <1>7, <2>2, <1>1 DEF BeginBusy, Commit, Rollback, clock, ClockTypeOK
  <2> QED
    BY <1>5, <2>1, <2>2, <2>3
<1>8. ASSUME NEW c \in Call, Leave(c) PROVE localFloor'[Of[d]] >= hook'[d]
  <2>1. hook' = hook /\ status[c] \in {"joined", "reading"}
    BY <1>8 DEF Leave, clock
  <2>2. CASE c = d
    BY <2>1, <2>2, <1>3 DEF HookInv, ConnectionFacts, ClockInv
  <2>3. CASE c # d /\ Release(c, "done")
    BY <2>1, <2>3, <1>5
  <2>4. CASE c # d /\ status' = [status EXCEPT ![c] = "done"] /\ UNCHANGED open
    BY <2>1, <2>4, <1>4 DEF ConnectionFacts, ConnectionInv, ConnectionTypeOK
  <2> QED
    BY <1>8, <2>2, <2>3, <2>4 DEF Leave
<1>9. ASSUME NEW c \in Call, AfterCommit(c) PROVE localFloor'[Of[d]] >= hook'[d]
  <2>1. /\ status' = [status EXCEPT ![c] = "done"] /\ hook' = hook /\ open' = open
        /\ localFloor' = [localFloor EXCEPT ![Of[c]] = Later(@, hook[c])]
    BY <1>9 DEF AfterCommit, HookPublished
  <2>2. CASE c = d
    BY <2>1, <2>2, <1>1, LaterIsLater DEF ClockTypeOK
  <2>3. CASE c # d
    BY <2>1, <2>3, <1>4 DEF ConnectionFacts, ConnectionInv, ConnectionTypeOK
  <2> QED
    BY <2>2, <2>3
<1>10. ASSUME NEW p \in Process, Crash(p) PROVE localFloor'[Of[d]] >= hook'[d]
  <2>1. /\ open' = [open EXCEPT ![p] = FALSE] /\ hook' = hook
        /\ status' = [c \in Call |->
             IF Of[c] = p /\ status[c] \in OnConnection \cup {"queued", "committed"}
             THEN "lost" ELSE status[c]]
    BY <1>10 DEF Crash
  <2>2. Of[d] # p
    BY <2>1, <1>1 DEF ConnectionFacts, ConnectionInv, ConnectionTypeOK
  <2> QED
    BY <2>1, <2>2, <1>1, <1>4 DEF ConnectionFacts, ConnectionInv, ConnectionTypeOK
<1>11. ASSUME NEW p \in Process, Reopen(p) PROVE localFloor'[Of[d]] >= hook'[d]
  <2>1. /\ open' = [open EXCEPT ![p] = TRUE]
        /\ status' = [c \in Call |->
             IF Of[c] = p /\ status[c] # "idle" THEN "lost" ELSE status[c]]
        /\ hook' = [c \in Call |-> IF Of[c] = p THEN 0 ELSE hook[c]]
    BY <1>11 DEF Reopen
  <2>2. Of[d] # p
    BY <2>1
  <2> QED
    BY <2>1, <2>2, <1>1, <1>4 DEF ConnectionFacts, ConnectionInv, ConnectionTypeOK
<1>12. ASSUME NEW p \in Process, NEW now \in Instants, ReadClock(p, now)
       PROVE  localFloor'[Of[d]] >= hook'[d]
  BY <1>4, <1>12 DEF ReadClock, connection
<1>13. ASSUME NEW p \in Process, NEW now \in Instants, NEW after \in LowerBounds,
              Mint(p, now, after)
       PROVE  localFloor'[Of[d]] >= hook'[d]
  <2>1. /\ InTransaction(p) /\ UNCHANGED <<status, open>>
        /\ \E at : hook' = [hook EXCEPT ![owner[p]] = Later(@, at)]
    BY <1>1, <1>13, MintAdvances
  <2>2. owner[p] # d
    BY <2>1 DEF InTransaction
  <2> QED
    BY <2>1, <2>2, <1>1, <1>4 DEF ClockTypeOK
<1> QED
  BY <1>6, <1>7, <1>8, <1>9, <1>10, <1>11, <1>12, <1>13 DEF ConnectionNext, Progress

(* A caller whose transaction was answered reads no clock behind it.       *)
THEOREM OwnCommitAlwaysVisible == ConnectionSpec => []OwnCommitVisible
<1>1. ConnectionInit => OwnCommitVisible
  BY DEF ConnectionInit, OwnCommitVisible
<1>2. ConnectionFacts /\ ConnectionFacts'
     /\ OwnCommitVisible /\ [ConnectionNext]_connectionVars
        => OwnCommitVisible'
  <2>1. ASSUME OwnCommitVisible, UNCHANGED connectionVars PROVE OwnCommitVisible'
    BY <2>1 DEF OwnCommitVisible, connectionVars
  <2> QED
    BY <2>1, OwnCommitStep, ConnectionAssumption
<1> QED
  BY <1>1, <1>2, FactsAlways, PTL DEF ConnectionSpec

(* What the clock of a process that does not nest transactions rests on,   *)
(* inside a transaction or not: a reading of its own or a committed time.  *)
Traceless ==
  \A p \in Process :
    open[p] /\ ~Nests(p) => localFloor[p] <= observed[p] \/ localFloor[p] <= floor

(* A later of two instants is no later than what either is bounded by.     *)
LEMMA LaterBounded ==
  ASSUME NEW a \in Instants, NEW b \in Instants, NEW v \in Instants,
         NEW f \in Instants, NEW g \in Instants,
         a <= v \/ a <= f, b <= v \/ b <= f, g >= f
  PROVE  Later(a, b) <= v \/ Later(a, b) <= g
<1>1. a \in Int /\ b \in Int /\ v \in Int /\ f \in Int /\ g \in Int
  BY InstantsAreInt
<1> QED
  BY <1>1 DEF Later

(* A clock of which neither the reading nor the file's floor was undercut. *)
LEMMA TracelessKept ==
  ASSUME ClockTypeOK, ClockTypeOK', Traceless, floor' >= floor,
         NEW p \in Process, open[p], ~Nests(p), localFloor'[p] = localFloor[p],
         observed'[p] = observed[p]
  PROVE  localFloor'[p] <= observed'[p] \/ localFloor'[p] <= floor'
<1>1. /\ localFloor[p] \in Int /\ observed[p] \in Int
      /\ floor \in Int /\ floor' \in Int
  BY InstantsAreInt DEF ClockTypeOK
<1>2. localFloor[p] <= observed[p] \/ localFloor[p] <= floor
  BY DEF Traceless
<1> QED
  BY <1>1, <1>2

(* A wall clock reading raises both sides.                                 *)
LEMMA TracelessRead ==
  ASSUME ClockTypeOK, Traceless, NEW p \in Process, open[p], ~Nests(p), floor' = floor,
         NEW now \in Instants,
         localFloor'[p] = Later(localFloor[p], now),
         observed'[p] = Later(observed[p], now)
  PROVE  localFloor'[p] <= observed'[p] \/ localFloor'[p] <= floor'
<1>1. /\ localFloor[p] \in Int /\ observed[p] \in Int
      /\ floor \in Int /\ now \in Int
  BY InstantsAreInt DEF ClockTypeOK
<1>2. localFloor[p] <= observed[p] \/ localFloor[p] <= floor
  BY DEF Traceless
<1> QED
  BY <1>1, <1>2 DEF Later

LEMMA TracelessStep ==
  ASSUME ConnectionAssumption, ConnectionFacts, ConnectionFacts', Traceless, ConnectionNext
  PROVE  Traceless'
<1>1. /\ ClockTypeOK /\ ClockTypeOK' /\ floor' >= floor
      /\ HookInv /\ Of \in [Call -> Process]
  BY StepsForward DEF ConnectionFacts, ClockInv, Forward, ConnectionAssumption
<1> DEFINE Fine(q) == localFloor'[q] <= observed'[q] \/ localFloor'[q] <= floor'
<1>2. SUFFICES ASSUME NEW q \in Process, open'[q], ~Nests(q) PROVE Fine(q)
  BY DEF Traceless, Nests
<1>3. ASSUME open[q], localFloor'[q] = localFloor[q], observed'[q] = observed[q]
      PROVE  Fine(q)
  BY <1>1, <1>2, <1>3, TracelessKept
<1>4. /\ localFloor[q] \in Instants /\ observed[q] \in Instants
      /\ floor \in Instants /\ floor' \in Instants
  BY <1>1 DEF ClockTypeOK
<1>5. open[q] => localFloor[q] <= observed[q] \/ localFloor[q] <= floor
  BY <1>2 DEF Traceless
<1>6. ASSUME NEW c \in Call, Issue(c) PROVE Fine(q)
  <2>1. observed' = observed /\ open' = open
    BY <1>6 DEF Issue
  <2>2. localFloor'[q] = localFloor[q]
    <3>1. CASE Inside[c] # None /\ Kind[c] = "tx"
      <4>1. Of[c] # q
        BY <3>1, <1>2 DEF Nests
      <4> QED
        BY <4>1, <1>6, <1>1 DEF Issue, ClockTypeOK
    <3>2. CASE ~(Inside[c] # None /\ Kind[c] = "tx")
      BY <3>2, <1>6 DEF Issue, Joins
    <3> QED
      BY <3>1, <3>2
  <2> QED
    BY <2>1, <2>2, <1>2, <1>3
<1>7. ASSUME NEW c \in Call, Start(c) PROVE Fine(q)
  BY <1>7, <1>2, <1>3 DEF Start, clock
<1>8. ASSUME NEW c \in Call, Begin(c) PROVE Fine(q)
  <2>1. /\ localFloor' = IF Kind[c] = "tx"
             THEN [localFloor EXCEPT ![Of[c]] = Later(@, floor)] ELSE localFloor
        /\ observed' = observed /\ open' = open /\ floor' = floor
    BY <1>8 DEF Begin
  <2>2. CASE Kind[c] = "tx" /\ Of[c] = q
    <3>1. localFloor'[q] = Later(localFloor[q], floor)
      BY <2>1, <2>2, <1>1 DEF ClockTypeOK
    <3>2. floor <= floor
      BY <1>4, InstantsAreInt
    <3> QED
      BY <3>1, <3>2, <2>1, <1>1, <1>2, <1>4, <1>5, LaterBounded
  <2>3. CASE ~(Kind[c] = "tx" /\ Of[c] = q)
    BY <2>1, <2>3, <1>1, <1>2, <1>3 DEF ClockTypeOK
  <2> QED
    BY <2>2, <2>3
<1>9. ASSUME NEW c \in Call, NEW outcome, Release(c, outcome),
             UNCHANGED <<localFloor, observed>>
      PROVE  Fine(q)
  <2>1. open' = [open EXCEPT ![Of[c]] = @ /\ Kind[c] # "close"]
    BY <1>9 DEF Release
  <2>2. open[q]
    BY <2>1, <1>2, ZenonT(30) DEF ConnectionFacts, ConnectionInv, ConnectionTypeOK
  <2> QED
    BY <2>2, <1>3, <1>9
<1>10. ASSUME NEW c \in Call, BeginBusy(c) PROVE Fine(q)
  BY <1>9, <1>10 DEF BeginBusy, clock
<1>11. ASSUME NEW c \in Call, Leave(c) PROVE Fine(q)
  <2>1. UNCHANGED <<localFloor, observed>>
    BY <1>11 DEF Leave, clock
  <2>2. open' = open \/ Release(c, "done")
    BY <1>11 DEF Leave
  <2> QED
    BY <2>1, <2>2, <1>2, <1>3, <1>9
<1>12. ASSUME NEW c \in Call, Commit(c) PROVE Fine(q)
  BY <1>9, <1>12 DEF Commit
<1>13. ASSUME NEW c \in Call, Rollback(c) PROVE Fine(q)
  BY <1>9, <1>13 DEF Rollback
<1>14. ASSUME NEW c \in Call, AfterCommit(c) PROVE Fine(q)
  <2>1. /\ localFloor' = [localFloor EXCEPT ![Of[c]] = Later(@, hook[c])]
        /\ observed' = observed /\ open' = open /\ floor' = floor
        /\ status[c] = "committed"
    BY <1>14 DEF AfterCommit, HookPublished
  <2>2. CASE Of[c] = q
    <3>1. localFloor'[q] = Later(localFloor[q], hook[c])
      BY <2>1, <2>2, <1>1 DEF ClockTypeOK
    <3>2. hook[c] <= floor /\ hook[c] \in Instants /\ floor >= floor
      BY <2>1, <1>1, InstantsAreInt DEF HookInv, ClockTypeOK
    <3> QED
      BY <3>1, <3>2, <2>1, <1>2, <1>4, <1>5, LaterBounded
  <2>3. CASE Of[c] # q
    BY <2>1, <2>3, <1>1, <1>2, <1>3 DEF ClockTypeOK
  <2> QED
    BY <2>2, <2>3
<1>15. ASSUME NEW p \in Process, Crash(p) PROVE Fine(q)
  <2>1. /\ open' = [open EXCEPT ![p] = FALSE]
        /\ localFloor' = [localFloor EXCEPT ![p] = 0]
        /\ observed' = [observed EXCEPT ![p] = 0]
    BY <1>15 DEF Crash
  <2>2. q # p
    BY <2>1, <1>2 DEF ConnectionFacts, ConnectionInv, ConnectionTypeOK
  <2> QED
    BY <2>1, <2>2, <1>1, <1>2, <1>3
       DEF ClockTypeOK, ConnectionFacts, ConnectionInv, ConnectionTypeOK
<1>16. ASSUME NEW p \in Process, Reopen(p) PROVE Fine(q)
  <2>1. /\ open' = [open EXCEPT ![p] = TRUE] /\ floor' = floor
        /\ localFloor' = [localFloor EXCEPT ![p] = floor]
        /\ observed' = [observed EXCEPT ![p] = 0]
    BY <1>16 DEF Reopen
  <2>2. CASE q = p
    <3>1. localFloor'[q] = floor /\ floor <= floor
      BY <2>1, <2>2, <1>1, <1>4, InstantsAreInt DEF ClockTypeOK
    <3> QED
      BY <3>1, <2>1
  <2>3. CASE q # p
    BY <2>1, <2>3, <1>1, <1>2, <1>3
       DEF ClockTypeOK, ConnectionFacts, ConnectionInv, ConnectionTypeOK
  <2> QED
    BY <2>2, <2>3
<1>17. ASSUME NEW p \in Process, NEW now \in Instants, open[p] \/ p # q,
              localFloor' = [localFloor EXCEPT ![p] = Later(@, now)],
              observed' = [observed EXCEPT ![p] = Later(@, now)],
              open' = open, floor' = floor
       PROVE  Fine(q)
  <2>1. CASE q = p
    BY <2>1, <1>1, <1>2, <1>17, TracelessRead DEF ClockTypeOK
  <2>2. CASE q # p
    BY <2>2, <1>1, <1>2, <1>3, <1>17 DEF ClockTypeOK
  <2> QED
    BY <2>1, <2>2
<1>18. ASSUME NEW p \in Process, NEW now \in Instants, ReadClock(p, now)
       PROVE  Fine(q)
  BY <1>17, <1>18 DEF ReadClock, connection
<1>19. ASSUME NEW p \in Process, NEW now \in Instants, NEW after \in LowerBounds,
              Mint(p, now, after)
       PROVE  Fine(q)
  BY <1>1, <1>2, <1>17, <1>19, MintAdvances
<1> QED
  BY <1>6, <1>7, <1>8, <1>10, <1>11, <1>12, <1>13, <1>14, <1>15, <1>16,
     <1>18, <1>19 DEF ConnectionNext, Progress

(* In a process that does not nest transactions a rolled back mint leaves  *)
(* no trace in the clock.                                                  *)
THEOREM FlatLeavesNoTrace == ConnectionSpec => []FlatRollbackLeavesNoTrace
<1>1. ConnectionInit => Traceless
  <2> SUFFICES ASSUME ConnectionInit, NEW p \in Process PROVE localFloor[p] <= observed[p]
    BY DEF Traceless
  <2>1. localFloor[p] = 0 /\ observed[p] = 0
    BY DEF ConnectionInit
  <2> QED
    BY <2>1
<1>2. ConnectionFacts /\ ConnectionFacts' /\ Traceless /\ [ConnectionNext]_connectionVars
        => Traceless'
  <2>1. ASSUME Traceless, UNCHANGED connectionVars PROVE Traceless'
    BY <2>1 DEF Traceless, Nests, connectionVars
  <2> QED
    BY <2>1, TracelessStep, ConnectionAssumption
<1>3. ConnectionFacts /\ Traceless => FlatRollbackLeavesNoTrace
  <2> SUFFICES ASSUME ConnectionFacts, Traceless, NEW p \in Process,
                      open[p], ~Nests(p)
               PROVE  localFloor[p] <= Later(observed[p], floor)
    BY DEF FlatRollbackLeavesNoTrace, NoTrace
  <2>1. /\ localFloor[p] \in Int /\ observed[p] \in Int /\ floor \in Int
    BY InstantsAreInt DEF ConnectionFacts, ClockInv, ClockTypeOK
  <2>2. localFloor[p] <= observed[p] \/ localFloor[p] <= floor
    BY DEF Traceless
  <2> QED
    BY <2>1, <2>2 DEF Later
<1> QED
  BY <1>1, <1>2, <1>3, FactsAlways, PTL DEF ConnectionSpec
=============================================================================
