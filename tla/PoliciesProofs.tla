--------------------------- MODULE PoliciesProofs ---------------------------
(***************************************************************************)
(* Theorems about the policies of a subject for every set of signed        *)
(* policies, rotations, windows and candidates, and without the bounds.    *)
(***************************************************************************)
EXTENDS Policies, FiniteSetTheorems, SequenceTheorems, TLAPS

(* What the variables range over.                                          *)
PinSet == Pairs \cup Bundles
RotationSet ==
  {[prev |-> n, old |-> old, new |-> new, from |-> s.from, until |-> s.until] :
     n \in Nat \ {0}, old \in PinSet, new \in Bundles, s \in Spans}
CohortSet ==
  {[of |-> c, control |-> n, pins |-> pins, opened |-> w.opened, closed |-> w.closed,
    cutoff |-> w.cutoff, until |-> w.until] :
     c \in Cands, n \in Nat \ {0}, pins \in Pairs, w \in Windows}
RevisionSet ==
  [cause : {"genesis", "effect", "revert", "policy_rotation"}, pins : PinSet, at : Nat,
   rotation : RotationSet \cup {NoRotation}]
CandSet ==
  [state : CandStates, base : Nat, pins : PinSet \cup {Undrafted.pins}, times : SUBSET Nat]
ContractSet ==
  [at : Nat, rev : Nat, pins : PinSet, cohort : CohortSet \cup {NoCohort}]

Typed ==
  /\ now \in Nat
  /\ policies \subseteq Signed
  /\ rotations \subseteq RotationSet
  /\ cohorts \subseteq CohortSet
  /\ chain \in Seq(RevisionSet)
  /\ cand \in [Cands -> CandSet]
  /\ contracts \subseteq ContractSet

(* A candidate is pinned as the revision it was drafted on.                *)
CandInv ==
  \A c \in Cands : cand[c].state # "absent" =>
    cand[c].base \in 1 .. HeadRev /\ cand[c].pins = chain[cand[c].base].pins

(* A cohort keeps what it was installed for.                               *)
CohortInv ==
  \A k \in cohorts :
    /\ ArtifactCovers(k) /\ PoliciesCover(k)
    /\ k.control \in 1 .. HeadRev /\ chain[k.control].pins = k.pins
    /\ cand[k.of].state # "absent"
    /\ cand[k.of].pins = k.pins /\ cand[k.of].base = k.control

ApartInv ==
  \A k, l \in cohorts : k # l => k.closed <= l.opened \/ l.closed <= k.opened

(* A decision that names a cohort was made in its window.                  *)
ContractInv ==
  \A d \in contracts : d.cohort = NoCohort \/
    (d.cohort \in cohorts /\ d.cohort.opened <= d.at /\ d.at < d.cohort.closed)

(* The revisions of the chain, one by one.                                 *)
Sound(n) ==
  /\ ResolvesBoth(chain[n].pins, chain[n].at)
  /\ RotationReads(n)
  /\ chain[n].cause = "policy_rotation" => chain[n].rotation # NoRotation
  /\ n > 1 /\ chain[n].pins # chain[n - 1].pins => chain[n].cause = "policy_rotation"

RevisionInv == \A n \in 1 .. HeadRev : Sound(n)

TimesInv == \A c \in Cands : \A at \in cand[c].times : ResolvesBoth(cand[c].pins, at)

DecisionInv == \A d \in contracts : DecisionReplays(d)

IInv ==
  Typed /\ CandInv /\ CohortInv /\ ApartInv /\ ContractInv /\ RevisionInv /\ TimesInv
    /\ DecisionInv

-----------------------------------------------------------------------------
(* The instants of policies and cohorts.                                   *)
LEMMA PolicyTimes ==
  ASSUME NEW p \in Signed
  PROVE  p.from \in Nat /\ p.until \in Nat
  BY PoliciesAssumption

LEMMA CohortFields ==
  ASSUME NEW k \in CohortSet
  PROVE  /\ k.of \in Cands /\ k.control \in Nat \ {0} /\ k.pins \in Pairs
         /\ k.opened \in Nat /\ k.closed \in Nat /\ k.cutoff \in Nat /\ k.until \in Nat
         /\ k.opened < k.closed /\ k.closed <= k.cutoff
         /\ k.pins.compiler \in Signed /\ k.pins.evidence \in Signed
         /\ k # NoCohort
  <1>1. PICK c \in Cands, n \in Nat \ {0}, pins \in Pairs, w \in Windows :
          k = [of |-> c, control |-> n, pins |-> pins, opened |-> w.opened,
               closed |-> w.closed, cutoff |-> w.cutoff, until |-> w.until]
    BY DEF CohortSet
  <1>2. /\ w.opened \in Nat /\ w.closed \in Nat /\ w.cutoff \in Nat /\ w.until \in Nat
        /\ w.opened < w.closed /\ w.closed <= w.cutoff
    BY PoliciesAssumption
  <1>3. pins.compiler \in Signed /\ pins.evidence \in Signed
    BY DEF Pairs, Pins, Of
  <1>4. k.control # 0 /\ NoCohort.control = 0
    BY <1>1 DEF NoCohort
  <1> QED
    BY <1>1, <1>2, <1>3, <1>4

(* Rotations are not mistaken for none.                                    *)
LEMMA RotationFields ==
  ASSUME NEW r \in RotationSet
  PROVE  r # NoRotation /\ r.prev \in Nat /\ r.new \in Bundles /\ r.old \in PinSet
  <1>1. r.prev \in Nat \ {0} /\ r.new \in Bundles /\ r.old \in PinSet
    BY DEF RotationSet
  <1>2. NoRotation.prev = 0
    BY DEF NoRotation
  <1> QED
    BY <1>1, <1>2

(* What is installed stays installed, and what resolves goes on resolving. *)
LEMMA ResolvesStays ==
  ASSUME policies \subseteq policies', NEW pins, NEW at, ResolvesBoth(pins, at)
  PROVE  ResolvesBoth(pins, at)'
  BY DEF ResolvesBoth, Resolves, Installed, In

(* Nothing that was written or installed is changed by a later step.       *)
Grows ==
  /\ policies \subseteq policies' /\ rotations \subseteq rotations'
  /\ HeadRev <= Len(chain') /\ \A n \in 1 .. HeadRev : chain'[n] = chain[n]

Keeps ==
  /\ Grows
  /\ \A c \in Cands : cand[c].state # "absent" =>
       /\ cand'[c].state # "absent"
       /\ cand'[c].pins = cand[c].pins /\ cand'[c].base = cand[c].base

(* A revision stays sound.                                                 *)
LEMMA RevisionsStay ==
  ASSUME Typed, RevisionInv, Grows, NEW n \in 1 .. HeadRev
  PROVE  Sound(n)'
  <1>1. chain'[n] = chain[n] /\ n \in Nat /\ HeadRev \in Nat
    BY DEF Grows, HeadRev, Typed
  <1>2. n > 1 => n - 1 \in 1 .. HeadRev /\ chain'[n - 1] = chain[n - 1]
    BY <1>1 DEF Grows
  <1>3. Sound(n)
    BY DEF RevisionInv
  <1>4. ResolvesBoth(chain[n].pins, chain[n].at)'
    BY <1>1, <1>3 DEF Sound, Grows, ResolvesBoth, Resolves, Installed, In
  <1>5. RotationReads(n)'
    BY <1>1, <1>2, <1>3
    DEF Sound, Grows, RotationReads, Signs, In, ResolvesBoth, Resolves, Installed
  <1> QED
    BY <1>1, <1>2, <1>3, <1>4, <1>5 DEF Sound

(* Steps that write no revision.                                           *)
LEMMA ChainStays ==
  ASSUME IInv, Keeps, chain' = chain
  PROVE  RevisionInv'
  BY RevisionsStay DEF IInv, Keeps, RevisionInv, HeadRev

(* Steps that write one.                                                   *)
LEMMA ChainGrows ==
  ASSUME IInv, Keeps, NEW m, m = HeadRev + 1, Len(chain') = m, Sound(m)'
  PROVE  RevisionInv'
  <1>1. HeadRev \in Nat
    BY DEF IInv, Typed, HeadRev
  <1> SUFFICES ASSUME NEW n \in 1 .. m
               PROVE  Sound(n)'
    BY DEF RevisionInv, HeadRev
  <1>2. CASE n = m
    BY <1>2
  <1>3. CASE n # m
    <2>1. n \in 1 .. HeadRev
      BY <1>1, <1>3
    <2> QED
      BY <2>1, RevisionsStay DEF IInv, Keeps
  <1> QED
    BY <1>2, <1>3

(* What is pinned to what, for the cohorts, candidates and decisions that  *)
(* were there before the step.                                             *)
LEMMA CohortsStay ==
  ASSUME IInv, Keeps, NEW k \in cohorts
  PROVE  /\ ArtifactCovers(k) /\ PoliciesCover(k)'
         /\ k.control \in 1 .. Len(chain') /\ chain'[k.control].pins = k.pins
         /\ cand'[k.of].state # "absent"
         /\ cand'[k.of].pins = k.pins /\ cand'[k.of].base = k.control
  <1>1. k \in CohortSet /\ HeadRev \in Nat
    BY DEF IInv, Typed, HeadRev
  <1>2. /\ ArtifactCovers(k) /\ PoliciesCover(k)
        /\ k.control \in 1 .. HeadRev /\ chain[k.control].pins = k.pins
        /\ cand[k.of].state # "absent"
        /\ cand[k.of].pins = k.pins /\ cand[k.of].base = k.control
    BY DEF IInv, CohortInv
  <1>3. PoliciesCover(k)'
    BY <1>2 DEF Keeps, Grows, PoliciesCover, Installed
  <1>4. k.control \in 1 .. Len(chain') /\ chain'[k.control].pins = k.pins
    BY <1>1, <1>2 DEF Keeps, Grows, IInv, Typed
  <1>5. k.of \in Cands
    BY <1>1, CohortFields
  <1> QED
    BY <1>2, <1>3, <1>4, <1>5 DEF Keeps

LEMMA CohortsKept ==
  ASSUME IInv, Keeps, cohorts' = cohorts
  PROVE  CohortInv' /\ ApartInv'
  <1>1. CohortInv'
    BY CohortsStay DEF CohortInv, ArtifactCovers, HeadRev
  <1>2. ApartInv'
    BY DEF IInv, ApartInv
  <1> QED
    BY <1>1, <1>2

LEMMA CandStays ==
  ASSUME IInv, Keeps, NEW c \in Cands, cand[c].state # "absent"
  PROVE  cand'[c].base \in 1 .. Len(chain') /\ cand'[c].pins = chain'[cand'[c].base].pins
  <1>1. HeadRev \in Nat /\ Len(chain') >= HeadRev
    BY DEF IInv, Typed, HeadRev, Keeps, Grows
  <1>2. cand[c].base \in 1 .. HeadRev /\ cand[c].pins = chain[cand[c].base].pins
    BY DEF IInv, CandInv
  <1>3. cand'[c].base = cand[c].base /\ cand'[c].pins = cand[c].pins
    BY DEF Keeps
  <1>4. chain'[cand[c].base] = chain[cand[c].base]
    BY <1>2 DEF Keeps, Grows
  <1>5. cand[c].base \in 1 .. Len(chain')
    BY <1>1, <1>2
  <1> QED
    BY <1>2, <1>3, <1>4, <1>5

LEMMA CandsKept ==
  ASSUME IInv, Keeps, cand' = cand
  PROVE  CandInv' /\ TimesInv'
  <1>1. CandInv'
    <2> SUFFICES ASSUME NEW c \in Cands, cand'[c].state # "absent"
                 PROVE  cand'[c].base \in 1 .. Len(chain')
                          /\ cand'[c].pins = chain'[cand'[c].base].pins
      BY DEF CandInv, HeadRev
    <2> QED
      BY CandStays
  <1>2. TimesInv'
    BY DEF IInv, TimesInv, ResolvesBoth, Resolves, Installed, In, Keeps, Grows
  <1> QED
    BY <1>1, <1>2

LEMMA ContractsKept ==
  ASSUME IInv, Keeps, contracts' = contracts, cohorts \subseteq cohorts'
  PROVE  ContractInv' /\ DecisionInv'
  <1>1. ContractInv'
    BY DEF IInv, ContractInv
  <1>2. DecisionInv'
    BY DEF IInv, DecisionInv, DecisionReplays, Resolves, Installed, In, Keeps, Grows
  <1> QED
    BY <1>1, <1>2

-----------------------------------------------------------------------------
(* Installations and the clock.                                            *)
OnlyInstalls ==
  policies \subseteq policies' /\ rotations \subseteq rotations' /\ UNCHANGED <<branches, contracts>>

LEMMA InstallsKeep ==
  ASSUME IInv, OnlyInstalls
  PROVE  Keeps /\ chain' = chain /\ cand' = cand /\ contracts' = contracts
  BY DEF OnlyInstalls, Keeps, Grows, branches, HeadRev, IInv, Typed

LEMMA ArtifactStep ==
  ASSUME IInv, OnlyInstalls, cohorts' = cohorts, Typed'
  PROVE  IInv'
  BY InstallsKeep, ChainStays, CohortsKept, CandsKept, ContractsKept DEF IInv

LEMMA TickStep ==
  ASSUME IInv, Tick
  PROVE  IInv'
  <1>1. OnlyInstalls /\ cohorts' = cohorts
    BY DEF Tick, OnlyInstalls, artifacts
  <1>2. Typed'
    BY DEF Tick, Typed, IInv, artifacts, branches
  <1> QED
    BY <1>1, <1>2, ArtifactStep

LEMMA InstallBundleStep ==
  ASSUME IInv, NEW pins \in Bundles, InstallBundle(pins)
  PROVE  IInv'
  <1>1. OnlyInstalls /\ cohorts' = cohorts
    BY DEF InstallBundle, OnlyInstalls
  <1>2. Typed'
    BY PoliciesAssumption DEF InstallBundle, Typed, IInv, branches
  <1> QED
    BY <1>1, <1>2, ArtifactStep

(* What may be signed ranges over what it is made of.                      *)
LEMMA ChainPins ==
  ASSUME Typed, NEW n \in 1 .. HeadRev
  PROVE  chain[n] \in RevisionSet /\ chain[n].pins \in PinSet /\ chain[n].at \in Nat
  <1>1. chain[n] \in RevisionSet
    BY DEF Typed, HeadRev
  <1> QED
    BY <1>1 DEF RevisionSet

LEMMA RotationsTyped ==
  ASSUME Typed, NEW rotation \in Rotations
  PROVE  rotation \in RotationSet
  <1>1. PICK n \in 1 .. HeadRev, old \in {chain[i].pins : i \in 1 .. HeadRev}, new \in Bundles,
             s \in Spans :
          rotation = [prev |-> n, old |-> old, new |-> new, from |-> s.from, until |-> s.until]
    BY DEF Rotations
  <1>2. old \in PinSet /\ n \in Nat \ {0}
    BY ChainPins DEF Typed, HeadRev
  <1> QED
    BY <1>1, <1>2 DEF RotationSet

LEMMA CohortsTyped ==
  ASSUME Typed, NEW k \in Cohorts
  PROVE  k \in CohortSet /\ k.control \in 1 .. HeadRev
  <1>1. PICK c \in Cands, n \in 1 .. HeadRev, pins \in Pairs, w \in Windows :
          k = [of |-> c, control |-> n, pins |-> pins, opened |-> w.opened,
               closed |-> w.closed, cutoff |-> w.cutoff, until |-> w.until]
    BY DEF Cohorts
  <1>2. n \in Nat \ {0}
    BY DEF Typed, HeadRev
  <1> QED
    BY <1>1, <1>2 DEF CohortSet

LEMMA InstallRotationStep ==
  ASSUME IInv, NEW rotation \in Rotations, InstallRotation(rotation)
  PROVE  IInv'
  <1>1. OnlyInstalls /\ cohorts' = cohorts
    BY DEF InstallRotation, OnlyInstalls
  <1>2. Typed'
    BY RotationsTyped DEF InstallRotation, Typed, IInv, branches
  <1> QED
    BY <1>1, <1>2, ArtifactStep

LEMMA InstallCohortStep ==
  ASSUME IInv, NEW k \in Cohorts, InstallCohort(k)
  PROVE  IInv'
  <1>1. OnlyInstalls /\ cohorts' = cohorts \cup {k}
    BY DEF InstallCohort, OnlyInstalls
  <1>2. k \in CohortSet /\ k.control \in 1 .. HeadRev
    BY CohortsTyped DEF IInv
  <1>3. Typed'
    BY <1>2 DEF InstallCohort, Typed, IInv, branches
  <1>4. Keeps /\ chain' = chain /\ cand' = cand /\ contracts' = contracts
    BY <1>1, InstallsKeep
  <1>5. ContractInv' /\ DecisionInv'
    BY <1>1, <1>4, ContractsKept
  <1>6. ApartInv'
    <2>1. Apart(k)
      BY DEF InstallCohort
    <2> QED
      BY <1>1, <2>1 DEF ApartInv, Apart, IInv
  <1>7. CohortInv'
    <2> SUFFICES ASSUME NEW l \in cohorts'
                 PROVE  /\ ArtifactCovers(l) /\ PoliciesCover(l)'
                        /\ l.control \in 1 .. Len(chain') /\ chain'[l.control].pins = l.pins
                        /\ cand'[l.of].state # "absent"
                        /\ cand'[l.of].pins = l.pins /\ cand'[l.of].base = l.control
      BY DEF CohortInv, ArtifactCovers, HeadRev
    <2>1. CASE l \in cohorts
      BY <2>1, <1>4, CohortsStay
    <2>2. CASE l = k
      <3>1. ArtifactCovers(k) /\ PoliciesCover(k)
        BY DEF InstallCohort
      <3>2. PoliciesCover(k)'
        BY <3>1, <1>4 DEF PoliciesCover, Installed, Keeps, Grows
      <3>3. /\ chain[k.control].pins = k.pins /\ cand[k.of].state # "absent"
            /\ cand[k.of].pins = k.pins /\ cand[k.of].base = k.control
        BY DEF InstallCohort, LearningPair, CurrentPair, OnHead, Head0
      <3> QED
        BY <2>2, <3>1, <3>2, <3>3, <1>2, <1>4 DEF HeadRev
    <2> QED
      BY <1>1, <2>1, <2>2
  <1>8. CandInv' /\ TimesInv'
    BY <1>4, CandsKept
  <1>9. RevisionInv'
    BY <1>4, ChainStays
  <1> QED
    BY <1>3, <1>5, <1>6, <1>7, <1>8, <1>9 DEF IInv

-----------------------------------------------------------------------------
(* Recording.                                                              *)
LEMMA DraftRow ==
  ASSUME IInv, NEW c \in Cands, NEW pins \in PinSet, NEW base \in Nat, Draft(c, pins, base)
  PROVE  /\ cand' \in [Cands -> CandSet]
         /\ cand[c].state = "absent"
         /\ cand'[c].state = "draft" /\ cand'[c].pins = pins /\ cand'[c].base = base
         /\ cand'[c].times = {now}
         /\ \A d \in Cands \ {c} : cand'[d] = cand[d]
  <1> DEFINE row == [state |-> "draft", base |-> base, pins |-> pins, times |-> {now}]
  <1>1. row \in CandSet
    BY DEF CandSet, CandStates, IInv, Typed
  <1>2. cand' = [cand EXCEPT ![c] = row] /\ cand \in [Cands -> CandSet]
    BY DEF Draft, IInv, Typed
  <1>3. cand' \in [Cands -> CandSet] /\ cand'[c] = row /\ \A d \in Cands \ {c} : cand'[d] = cand[d]
    <2> HIDE DEF row
    <2> QED
      BY <1>1, <1>2
  <1> QED
    BY <1>3 DEF Draft

LEMMA DraftCands ==
  ASSUME IInv, NEW c \in Cands, NEW pins \in PinSet, NEW base \in Nat, Draft(c, pins, base),
         Grows, policies' = policies, base \in 1 .. Len(chain'), pins = chain'[base].pins
  PROVE  /\ Keeps /\ CandInv' /\ TimesInv' /\ cand' \in [Cands -> CandSet]
  <1>1. /\ cand' \in [Cands -> CandSet]
        /\ cand[c].state = "absent"
        /\ cand'[c].state = "draft" /\ cand'[c].pins = pins /\ cand'[c].base = base
        /\ cand'[c].times = {now}
        /\ \A d \in Cands \ {c} : cand'[d] = cand[d]
    BY DraftRow
  <1>2. Keeps
    BY <1>1 DEF Keeps
  <1>3. CandInv'
    <2> SUFFICES ASSUME NEW d \in Cands, cand'[d].state # "absent"
                 PROVE  cand'[d].base \in 1 .. Len(chain')
                          /\ cand'[d].pins = chain'[cand'[d].base].pins
      BY DEF CandInv, HeadRev
    <2>1. CASE d = c
      BY <2>1, <1>1
    <2>2. CASE d # c
      BY <2>2, <1>1, <1>2, CandStays
    <2> QED
      BY <2>1, <2>2
  <1>4. TimesInv'
    <2> SUFFICES ASSUME NEW d \in Cands, NEW at \in cand'[d].times
                 PROVE  ResolvesBoth(cand'[d].pins, at)
      BY <1>1 DEF TimesInv, ResolvesBoth, Resolves, Installed, In
    <2>1. ResolvesBoth(pins, now)
      BY DEF Draft, Readback
    <2>2. CASE d = c
      BY <2>1, <2>2, <1>1
    <2>3. CASE d # c
      BY <2>3, <1>1 DEF IInv, TimesInv
    <2> QED
      BY <2>2, <2>3
  <1> QED
    BY <1>1, <1>2, <1>3, <1>4

LEMMA RecordFirstStep ==
  ASSUME IInv, NEW learned \in BOOLEAN, NEW c \in Cands, NEW pins \in Pairs,
         RecordFirst(learned, c, pins)
  PROVE  IInv'
  <1> DEFINE revision == Revision("genesis", pins, now, NoRotation)
  <1>1. chain' = <<revision>> /\ chain = <<>>
    BY DEF RecordFirst, Genesis
  <1>2. /\ revision.pins = pins /\ revision.at = now /\ revision.rotation = NoRotation
        /\ revision.cause = "genesis" /\ revision \in RevisionSet
    BY DEF Revision, RevisionSet, PinSet, IInv, Typed
  <1> HIDE DEF revision
  <1>3. chain'[1] = revision /\ Len(chain') = 1 /\ HeadRev = 0 /\ chain' \in Seq(RevisionSet)
    BY <1>1, <1>2 DEF HeadRev
  <1>4. Grows
    BY <1>3 DEF Grows, RecordFirst, artifacts
  <1>5. Keeps /\ CandInv' /\ TimesInv' /\ cand' \in [Cands -> CandSet]
    <2>1. CASE learned
      <3>1. Draft(c, pins, 1) /\ policies' = policies
        BY <2>1 DEF RecordFirst, artifacts
      <3> QED
        BY <3>1, <1>2, <1>3, <1>4, DraftCands DEF PinSet
    <2>2. CASE ~ learned
      <3>1. cand' = cand
        BY <2>2 DEF RecordFirst
      <3>2. Keeps
        BY <3>1, <1>4 DEF Keeps
      <3> QED
        BY <3>1, <3>2, CandsKept DEF IInv, Typed
    <2> QED
      BY <2>1, <2>2
  <1>6. Typed'
    BY <1>3, <1>5 DEF RecordFirst, Typed, IInv, artifacts
  <1>7. RevisionInv'
    <2>1. ResolvesBoth(pins, now) /\ policies' = policies
      BY DEF RecordFirst, Genesis, IsCurrent, Eligible, ResolvesBoth, Resolves, Installed, artifacts
    <2>2. ResolvesBoth(chain[1].pins, chain[1].at)'
      BY <2>1, <1>2, <1>3 DEF ResolvesBoth, Resolves, Installed, In
    <2>3. RotationReads(1)'
      BY <1>2, <1>3 DEF RotationReads
    <2>4. Sound(1)'
      BY <2>2, <2>3, <1>2, <1>3 DEF Sound
    <2> QED
      BY <2>4, <1>3, <1>5, ChainGrows
  <1>8. cohorts' = cohorts /\ contracts' = contracts
    BY DEF RecordFirst, artifacts
  <1>9. CohortInv' /\ ApartInv' /\ ContractInv' /\ DecisionInv'
    BY <1>5, <1>8, CohortsKept, ContractsKept
  <1> QED
    BY <1>5, <1>6, <1>7, <1>9 DEF IInv

LEMMA RecordLearningStep ==
  ASSUME IInv, NEW c \in Cands, RecordLearning(c)
  PROVE  IInv'
  <1>1. /\ Draft(c, Head0.pins, HeadRev) /\ chain # <<>>
        /\ chain' = chain /\ cohorts' = cohorts /\ contracts' = contracts
        /\ policies' = policies /\ rotations' = rotations /\ now' = now
    BY DEF RecordLearning, artifacts
  <1>2. HeadRev \in 1 .. Len(chain) /\ Head0.pins \in PinSet /\ HeadRev \in Nat
    <2>1. HeadRev \in 1 .. HeadRev /\ HeadRev \in Nat
      BY <1>1 DEF HeadRev, IInv, Typed
    <2> QED
      BY <2>1, ChainPins DEF Head0, HeadRev, IInv
  <1>3. Grows
    BY <1>1, <1>2 DEF Grows, HeadRev
  <1>4. Keeps /\ CandInv' /\ TimesInv' /\ cand' \in [Cands -> CandSet]
    BY <1>1, <1>2, <1>3, DraftCands DEF Head0
  <1>5. Typed'
    BY <1>1, <1>4 DEF Typed, IInv
  <1>6. RevisionInv'
    BY <1>1, <1>4, ChainStays
  <1>7. CohortInv' /\ ApartInv' /\ ContractInv' /\ DecisionInv'
    BY <1>1, <1>4, CohortsKept, ContractsKept
  <1> QED
    BY <1>4, <1>5, <1>6, <1>7 DEF IInv

-----------------------------------------------------------------------------
(* Transitions of candidates.                                              *)
LEMMA TransitionRow ==
  ASSUME IInv, NEW c \in Cands, NEW state \in CandStates, Transition(c, state)
  PROVE  /\ cand' \in [Cands -> CandSet]
         /\ cand'[c].state = state
         /\ cand'[c].pins = cand[c].pins /\ cand'[c].base = cand[c].base
         /\ cand'[c].times = cand[c].times \cup {now}
         /\ \A d \in Cands \ {c} : cand'[d] = cand[d]
  <1> DEFINE row == [cand[c] EXCEPT !.state = state, !.times = cand[c].times \cup {now}]
  <1>1. cand[c] \in CandSet /\ now \in Nat
    BY DEF IInv, Typed
  <1>2. row \in CandSet
    BY <1>1 DEF CandSet
  <1>3. /\ row.state = state /\ row.pins = cand[c].pins /\ row.base = cand[c].base
        /\ row.times = cand[c].times \cup {now}
    BY <1>1 DEF CandSet
  <1>4. cand' = [cand EXCEPT ![c] = row] /\ cand \in [Cands -> CandSet]
    BY DEF Transition, IInv, Typed
  <1> HIDE DEF row
  <1> QED
    BY <1>2, <1>3, <1>4

LEMMA TransitionCands ==
  ASSUME IInv, NEW c \in Cands, NEW state \in CandStates, Transition(c, state), Grows,
         state # "absent", cand[c].state # "absent", Readback(cand[c].pins), policies' = policies
  PROVE  Keeps /\ CandInv' /\ TimesInv' /\ cand' \in [Cands -> CandSet]
  <1>1. /\ cand' \in [Cands -> CandSet]
        /\ cand'[c].state = state
        /\ cand'[c].pins = cand[c].pins /\ cand'[c].base = cand[c].base
        /\ cand'[c].times = cand[c].times \cup {now}
        /\ \A d \in Cands \ {c} : cand'[d] = cand[d]
    BY TransitionRow
  <1>2. Keeps
    BY <1>1 DEF Keeps
  <1>3. CandInv'
    <2> SUFFICES ASSUME NEW d \in Cands, cand'[d].state # "absent"
                 PROVE  cand'[d].base \in 1 .. Len(chain')
                          /\ cand'[d].pins = chain'[cand'[d].base].pins
      BY DEF CandInv, HeadRev
    <2> QED
      BY <1>1, <1>2, CandStays
  <1>4. TimesInv'
    <2> SUFFICES ASSUME NEW d \in Cands, NEW at \in cand'[d].times
                 PROVE  cand'[d].pins = cand[d].pins /\ ResolvesBoth(cand[d].pins, at)
      BY DEF TimesInv, ResolvesBoth, Resolves, Installed, In
    <2> QED
      BY <1>1 DEF IInv, TimesInv, Readback
  <1> QED
    BY <1>1, <1>2, <1>3, <1>4

LEMMA AdvanceStep ==
  ASSUME IInv, NEW c \in Cands, Advance(c) \/ Terminate(c)
  PROVE  IInv'
  <1>1. PICK state \in CandStates \ {"absent"} : Transition(c, state)
    BY DEF Advance, Terminate, Following, CandStates
  <1>2. /\ chain' = chain /\ cohorts' = cohorts /\ contracts' = contracts
        /\ policies' = policies /\ rotations' = rotations /\ now' = now
        /\ Readback(cand[c].pins) /\ cand[c].state # "absent"
    BY DEF Advance, Terminate, artifacts, Open
  <1>3. Grows
    BY <1>2 DEF Grows, HeadRev, IInv, Typed
  <1>4. Keeps /\ CandInv' /\ TimesInv' /\ cand' \in [Cands -> CandSet]
    BY <1>1, <1>2, <1>3, TransitionCands
  <1>5. Typed'
    BY <1>2, <1>4 DEF Typed, IInv
  <1>6. RevisionInv'
    BY <1>2, <1>4, ChainStays
  <1>7. CohortInv' /\ ApartInv' /\ ContractInv' /\ DecisionInv'
    BY <1>2, <1>4, CohortsKept, ContractsKept
  <1> QED
    BY <1>4, <1>5, <1>6, <1>7 DEF IInv

-----------------------------------------------------------------------------
(* New heads.                                                              *)
NewHead(cause, pins, rotation) ==
  /\ cause \in {"effect", "revert", "policy_rotation"} /\ pins \in PinSet
  /\ rotation \in RotationSet \cup {NoRotation}
  /\ chain # <<>>
  /\ Publishes(cause, pins, rotation)
  /\ policies' = policies /\ rotations' = rotations

LEMMA HeadWritten ==
  ASSUME IInv, NEW cause, NEW pins, NEW rotation, NewHead(cause, pins, rotation),
         NEW m, m = HeadRev + 1
  PROVE  /\ Grows
         /\ HeadRev \in 1 .. HeadRev /\ HeadRev \in Nat
         /\ chain' \in Seq(RevisionSet) /\ Len(chain') = m
         /\ chain'[m].cause = cause /\ chain'[m].pins = pins
         /\ chain'[m].at = now /\ chain'[m].rotation = rotation
         /\ chain'[m - 1] = Head0
         /\ ResolvesBoth(chain[m].pins, chain[m].at)'
  <1> DEFINE revision == Revision(cause, pins, now, rotation)
  <1>1. /\ revision.cause = cause /\ revision.pins = pins /\ revision.at = now
        /\ revision.rotation = rotation /\ revision \in RevisionSet
    BY DEF Revision, RevisionSet, NewHead, IInv, Typed
  <1>2. chain' = Append(chain, revision) /\ chain # <<>> /\ chain \in Seq(RevisionSet)
    BY DEF NewHead, Publishes, IInv, Typed
  <1> HIDE DEF revision
  <1>3. HeadRev \in Nat /\ HeadRev \in 1 .. HeadRev
    BY <1>2 DEF HeadRev
  <1>4. /\ chain' \in Seq(RevisionSet) /\ Len(chain') = m /\ chain'[m] = revision
        /\ \A n \in 1 .. HeadRev : chain'[n] = chain[n]
    BY <1>1, <1>2, <1>3 DEF HeadRev
  <1>5. Grows
    BY <1>3, <1>4 DEF Grows, NewHead
  <1>6. ResolvesBoth(pins, now) /\ policies' = policies
    BY DEF NewHead, Publishes, Readback
  <1>7. ResolvesBoth(chain[m].pins, chain[m].at)'
    BY <1>1, <1>4, <1>6 DEF ResolvesBoth, Resolves, Installed, In
  <1>8. chain'[m - 1] = Head0
    BY <1>3, <1>4 DEF Head0
  <1> QED
    BY <1>1, <1>3, <1>4, <1>5, <1>7, <1>8

LEMMA PublishedStep ==
  ASSUME IInv, NEW cause, NEW pins, NEW rotation, NewHead(cause, pins, rotation),
         Keeps, CandInv', TimesInv', cand' \in [Cands -> CandSet],
         UNCHANGED <<now, artifacts, contracts>>,
         rotation = NoRotation => pins = Head0.pins /\ cause # "policy_rotation",
         rotation # NoRotation => /\ cause = "policy_rotation"
                                  /\ rotation \in rotations /\ In(rotation, now)
                                  /\ Signs(rotation, HeadRev) /\ rotation.new = pins
  PROVE  IInv'
  <1>1. PICK m : m = HeadRev + 1
    OBVIOUS
  <1>2. /\ HeadRev \in 1 .. HeadRev /\ HeadRev \in Nat
        /\ chain' \in Seq(RevisionSet) /\ Len(chain') = m
        /\ chain'[m].cause = cause /\ chain'[m].pins = pins
        /\ chain'[m].at = now /\ chain'[m].rotation = rotation
        /\ chain'[m - 1] = Head0
        /\ ResolvesBoth(chain[m].pins, chain[m].at)'
    BY <1>1, HeadWritten
  <1>3. m - 1 = HeadRev /\ m > 1
    BY <1>1, <1>2
  <1>4. RotationReads(m)'
    <2> SUFFICES ASSUME rotation # NoRotation
                 PROVE  /\ rotation \in rotations' /\ In(rotation, now)
                        /\ rotation.prev = m - 1 /\ rotation.old = Head0.pins
                        /\ ResolvesBoth(rotation.old, chain[m - 1].at)'
                        /\ rotation.new = pins
      BY <1>2, <1>3 DEF RotationReads, Signs, In
    <2>1. rotation.prev = HeadRev /\ rotation.old = Head0.pins
      BY DEF Signs, Head0
    <2>2. ResolvesBoth(Head0.pins, Head0.at)
      BY <1>2 DEF IInv, RevisionInv, Sound, Head0
    <2>3. ResolvesBoth(rotation.old, chain[m - 1].at)'
      BY <2>1, <2>2, <1>2 DEF ResolvesBoth, Resolves, Installed, In, artifacts
    <2> QED
      BY <2>1, <2>3, <1>3 DEF artifacts
  <1>5. Sound(m)'
    BY <1>2, <1>3, <1>4 DEF Sound
  <1>6. RevisionInv'
    BY <1>1, <1>2, <1>5, ChainGrows
  <1>7. Typed'
    BY <1>2 DEF Typed, IInv, artifacts
  <1>8. CohortInv' /\ ApartInv' /\ ContractInv' /\ DecisionInv'
    BY CohortsKept, ContractsKept DEF artifacts
  <1> QED
    BY <1>6, <1>7, <1>8 DEF IInv

LEMMA MergeStep ==
  ASSUME IInv, NEW c \in Cands, NEW k \in cohorts, Merge(c, k)
  PROVE  IInv'
  <1>1. /\ cand[c].state = "active_candidate" /\ cand[c].base = HeadRev
        /\ Publishes("effect", cand[c].pins, NoRotation) /\ Transition(c, "merged")
        /\ UNCHANGED <<now, artifacts, contracts>>
    BY DEF Merge, OnHead
  <1>2. cand[c].pins = Head0.pins /\ HeadRev \in 1 .. HeadRev
    BY <1>1 DEF IInv, CandInv, Head0
  <1>3. chain # <<>> /\ Head0.pins \in PinSet
    BY <1>2, ChainPins DEF IInv, HeadRev, Head0
  <1>4. NewHead("effect", Head0.pins, NoRotation)
    BY <1>1, <1>2, <1>3 DEF NewHead, artifacts
  <1>5. Grows
    BY <1>4, HeadWritten
  <1>6. Readback(cand[c].pins)
    BY <1>1 DEF Publishes
  <1>7. Keeps /\ CandInv' /\ TimesInv' /\ cand' \in [Cands -> CandSet]
    BY <1>1, <1>5, <1>6, TransitionCands DEF CandStates, artifacts
  <1> QED
    BY <1>1, <1>4, <1>7, PublishedStep

LEMMA RevertStep ==
  ASSUME IInv, Revert
  PROVE  IInv'
  <1>1. /\ chain # <<>> /\ Publishes("revert", Head0.pins, NoRotation)
        /\ UNCHANGED <<now, artifacts, contracts>> /\ cand' = cand
    BY DEF Revert
  <1>2. Head0.pins \in PinSet
    BY <1>1, ChainPins DEF IInv, Typed, HeadRev, Head0
  <1>3. NewHead("revert", Head0.pins, NoRotation)
    BY <1>1, <1>2 DEF NewHead, artifacts
  <1>4. Grows
    BY <1>3, HeadWritten
  <1>5. Keeps
    BY <1>1, <1>4 DEF Keeps
  <1>6. CandInv' /\ TimesInv' /\ cand' \in [Cands -> CandSet]
    BY <1>1, <1>5, CandsKept DEF IInv, Typed
  <1> QED
    BY <1>1, <1>3, <1>5, <1>6, PublishedStep

LEMMA RotateStep ==
  ASSUME IInv, NEW rotation \in rotations, Rotate(rotation)
  PROVE  IInv'
  <1>1. /\ chain # <<>> /\ Publishes("policy_rotation", rotation.new, rotation)
        /\ In(rotation, now) /\ Signs(rotation, HeadRev)
        /\ UNCHANGED <<now, artifacts, contracts>> /\ cand' = cand
    BY DEF Rotate
  <1>2. rotation \in RotationSet /\ rotation # NoRotation /\ rotation.new \in PinSet
    BY RotationFields DEF IInv, Typed, PinSet
  <1>3. NewHead("policy_rotation", rotation.new, rotation)
    BY <1>1, <1>2 DEF NewHead, artifacts
  <1>4. Grows
    BY <1>3, HeadWritten
  <1>5. Keeps
    BY <1>1, <1>4 DEF Keeps
  <1>6. CandInv' /\ TimesInv' /\ cand' \in [Cands -> CandSet]
    BY <1>1, <1>5, CandsKept DEF IInv, Typed
  <1> QED
    BY <1>1, <1>2, <1>3, <1>5, <1>6, PublishedStep

-----------------------------------------------------------------------------
(* Decisions and settlements.                                              *)
LEMMA ServingCohort ==
  Serving = NoCohort \/ (Serving \in Assigning /\ CurrentPair(Serving))
  BY DEF Serving

LEMMA BranchesKeep ==
  ASSUME IInv, UNCHANGED <<artifacts, branches>>
  PROVE  /\ Keeps /\ CandInv' /\ TimesInv' /\ RevisionInv' /\ CohortInv' /\ ApartInv'
  <1>1. Keeps /\ chain' = chain /\ cand' = cand /\ cohorts' = cohorts
    BY DEF Keeps, Grows, artifacts, branches, HeadRev, IInv, Typed
  <1> QED
    BY <1>1, ChainStays, CandsKept, CohortsKept

LEMMA DecideStep ==
  ASSUME IInv, Decide
  PROVE  IInv'
  <1> DEFINE d == [at |-> now, rev |-> HeadRev, pins |-> Head0.pins, cohort |-> Serving]
  <1>1. /\ contracts' = contracts \cup {d} /\ now' = now
        /\ UNCHANGED <<artifacts, branches>>
        /\ chain # <<>> /\ ResolvesBoth(Head0.pins, now)
    BY DEF Decide, Compilable
  <1>2. Head0.pins \in PinSet /\ HeadRev \in Nat
    BY <1>1, ChainPins DEF IInv, Typed, HeadRev, Head0
  <1>3. Serving = NoCohort \/
          (Serving \in cohorts /\ Serving.opened <= now /\ now < Serving.closed)
    BY ServingCohort DEF Assigning
  <1>4. d \in ContractSet
    BY <1>2, <1>3 DEF ContractSet, IInv, Typed
  <1>5. /\ Keeps /\ CandInv' /\ TimesInv' /\ RevisionInv' /\ CohortInv' /\ ApartInv'
    BY <1>1, BranchesKeep
  <1>6. Typed'
    BY <1>1, <1>4 DEF Typed, IInv, artifacts, branches
  <1>7. ContractInv'
    BY <1>1, <1>3 DEF ContractInv, IInv, artifacts
  <1>8. DecisionInv'
    <2>1. Resolves(d.pins.compiler, d.at)
      BY <1>1 DEF ResolvesBoth
    <2> HIDE DEF d
    <2> QED
      BY <1>1, <2>1 DEF IInv, DecisionInv, DecisionReplays, Resolves, Installed, In, artifacts
  <1> QED
    BY <1>5, <1>6, <1>7, <1>8 DEF IInv

LEMMA SettleStep ==
  ASSUME IInv, UNCHANGED <<now, artifacts, branches, contracts>>
  PROVE  IInv'
  <1>1. /\ Keeps /\ CandInv' /\ TimesInv' /\ RevisionInv' /\ CohortInv' /\ ApartInv'
    BY BranchesKeep
  <1>2. Typed'
    BY DEF Typed, IInv, artifacts, branches
  <1>3. ContractInv' /\ DecisionInv'
    BY <1>1, ContractsKept DEF artifacts
  <1> QED
    BY <1>1, <1>2, <1>3 DEF IInv

LEMMA InitHolds == Init => IInv
  BY DEF Init, IInv, Typed, CandInv, CohortInv, ApartInv, ContractInv, RevisionInv, TimesInv,
     DecisionInv, HeadRev, Undrafted, CandSet, CandStates

LEMMA NextHolds == IInv /\ [Next]_vars => IInv'
  <1> SUFFICES ASSUME IInv, [Next]_vars
               PROVE  IInv'
    OBVIOUS
  <1>1. CASE UNCHANGED vars
    BY <1>1, SettleStep DEF vars
  <1>2. CASE Tick
    BY <1>2, TickStep
  <1>3. CASE Provision
    BY <1>3, InstallBundleStep, InstallRotationStep, InstallCohortStep DEF Provision
  <1>4. CASE Record
    BY <1>4, RecordLearningStep, RecordFirstStep DEF Record
  <1>5. CASE Govern
    BY <1>5, AdvanceStep, MergeStep, RevertStep, RotateStep DEF Govern
  <1>6. CASE Decide
    BY <1>6, DecideStep
  <1>7. CASE \E k \in cohorts, verdict \in {"admitted", "rejected"} : Settle(k, verdict)
    BY <1>7, SettleStep DEF Settle
  <1> QED
    BY <1>1, <1>2, <1>3, <1>4, <1>5, <1>6, <1>7 DEF Next

LEMMA InvariantHolds == Spec => []IInv
  <1>1. Init => IInv
    BY InitHolds
  <1>2. IInv /\ [Next]_vars => IInv'
    BY NextHolds
  <1> QED
    BY <1>1, <1>2, PTL DEF Spec

-----------------------------------------------------------------------------
(* A revision's rotation names its predecessor, so no other revision can    *)
(* rest on it.                                                             *)
LEMMA PinsInv == ASSUME IInv PROVE PinsHold
  <1>1. ReadableForever
    BY DEF IInv, ReadableForever, RevisionInv, Sound, TimesInv, DecisionInv
  <1>2. HeadRev \in Nat
    BY DEF IInv, Typed, HeadRev
  <1>3. ASSUME NEW n \in 2 .. HeadRev, chain[n].cause = "policy_rotation"
        PROVE  Signs(chain[n].rotation, n - 1) /\ chain[n].rotation.new = chain[n].pins
    BY <1>2, <1>3 DEF IInv, RevisionInv, Sound, RotationReads
  <1>4. ASSUME NEW n \in 2 .. HeadRev, chain[n].pins # chain[n - 1].pins
        PROVE  chain[n].cause = "policy_rotation"
    BY <1>2, <1>4 DEF IInv, RevisionInv, Sound
  <1>5. ASSUME NEW n \in 2 .. HeadRev, NEW i \in 2 .. HeadRev,
               chain[n].rotation = chain[i].rotation, chain[n].cause = "policy_rotation"
        PROVE  n = i
    <2>1. chain[n].rotation # NoRotation /\ RotationReads(i) /\ RotationReads(n)
      BY <1>2, <1>5 DEF IInv, RevisionInv, Sound
    <2>2. chain[n].rotation.prev = n - 1 /\ chain[n].rotation.prev = i - 1
      BY <2>1, <1>5 DEF RotationReads, Signs
    <2> QED
      BY <2>2, <1>2
  <1>6. RotationIsSigned
    BY <1>3, <1>4, <1>5 DEF RotationIsSigned
  <1> QED
    BY <1>1, <1>6 DEF PinsHold

LEMMA SettlesInv == ASSUME IInv PROVE SettlesWithItsPolicies
  <1> SUFFICES ASSUME NEW k \in cohorts, k.cutoff < k.until
               PROVE  Settleable(k)
    BY DEF SettlesWithItsPolicies
  <1>1. /\ k.opened \in Nat /\ k.closed \in Nat /\ k.cutoff \in Nat /\ k # NoCohort
        /\ k.opened < k.closed /\ k.closed <= k.cutoff
        /\ k.pins.compiler \in Signed /\ k.pins.evidence \in Signed
    BY CohortFields DEF IInv, Typed
  <1>2. /\ k.pins.compiler.from \in Nat /\ k.pins.compiler.until \in Nat
        /\ k.pins.evidence.from \in Nat /\ k.pins.evidence.until \in Nat
    BY <1>1, PolicyTimes
  <1>3. /\ PoliciesCover(k) /\ chain[k.control].pins = k.pins
        /\ cand[k.of].pins = k.pins /\ cand[k.of].base = k.control
    BY DEF IInv, CohortInv
  <1>4. Resolves(k.pins.compiler, k.opened) /\ Resolves(k.pins.evidence, k.cutoff)
          /\ Resolves(k.pins.evidence, k.opened)
    BY <1>1, <1>2, <1>3 DEF PoliciesCover, Resolves, In
  <1>5. ASSUME NEW at \in Exposures(k)
        PROVE  Resolves(k.pins.compiler, at)
    <2>1. PICK d \in contracts : d.cohort = k /\ at = d.at
      BY DEF Exposures
    <2>2. k.opened <= at /\ at < k.closed /\ at \in Nat
      BY <2>1, <1>1 DEF IInv, ContractInv, Typed, ContractSet
    <2> QED
      BY <2>2, <1>1, <1>2, <1>3 DEF PoliciesCover, Resolves, In
  <1> QED
    BY <1>3, <1>4, <1>5 DEF Settleable, CohortResolves, CertificateVerifies

LEMMA ServesInv == ASSUME IInv PROVE MeasuredFamilyServes
  <1> SUFFICES ASSUME NEW k \in Assigning, CurrentPair(k)
               PROVE  Compilable /\ CohortsCompile /\ Serving = k
    BY DEF MeasuredFamilyServes
  <1>1. k \in cohorts /\ k.opened <= now /\ now < k.closed /\ now \in Nat
    BY DEF Assigning, IInv, Typed
  <1>2. /\ k.opened \in Nat /\ k.closed \in Nat /\ k.cutoff \in Nat /\ k.until \in Nat
        /\ k.opened < k.closed /\ k.closed <= k.cutoff
        /\ k.pins.compiler \in Signed /\ k.pins.evidence \in Signed
    BY <1>1, CohortFields DEF IInv, Typed
  <1>3. /\ k.pins.compiler.from \in Nat /\ k.pins.compiler.until \in Nat
        /\ k.pins.evidence.from \in Nat /\ k.pins.evidence.until \in Nat
    BY <1>2, PolicyTimes
  <1>4. /\ PoliciesCover(k) /\ ArtifactCovers(k) /\ chain[k.control].pins = k.pins
        /\ cand[k.of].pins = k.pins /\ cand[k.of].base = k.control
        /\ k.control \in 1 .. HeadRev
    BY <1>1 DEF IInv, CohortInv
  <1>5. Head0.pins = k.pins
    BY <1>4 DEF CurrentPair, Head0
  <1>6. Resolves(k.pins.compiler, now) /\ Resolves(k.pins.evidence, now)
    BY <1>1, <1>2, <1>3, <1>4 DEF PoliciesCover, Resolves, In
  <1>7. Compilable
    BY <1>4, <1>5, <1>6 DEF Compilable, ResolvesBoth, HeadRev
  <1>8. Assigning = {k}
    <2> SUFFICES ASSUME NEW l \in Assigning
                 PROVE  l = k
      OBVIOUS
    <2>1. l \in cohorts /\ l.opened <= now /\ now < l.closed
      BY DEF Assigning
    <2>2. l.opened \in Nat /\ l.closed \in Nat
      BY <2>1, CohortFields DEF IInv, Typed
    <2>3. l # k => l.closed <= k.opened \/ k.closed <= l.opened
      BY <1>1, <2>1 DEF IInv, ApartInv
    <2> QED
      BY <1>1, <1>2, <2>1, <2>2, <2>3
  <1>9. Cardinality(Assigning) = 1
    BY <1>8, FS_Singleton
  <1>10. CohortResolves(k, now)
    <2>1. Resolves(k.pins.compiler, k.opened) /\ Resolves(k.pins.evidence, k.cutoff)
      BY <1>2, <1>3, <1>4 DEF PoliciesCover, Resolves, In
    <2>2. now < k.until
      BY <1>1, <1>2, <1>4 DEF ArtifactCovers
    <2> QED
      BY <1>1, <1>4, <2>1, <2>2 DEF CohortResolves
  <1>11. CohortsCompile
    BY <1>5, <1>8, <1>9, <1>10 DEF CohortsCompile
  <1>12. {l \in Assigning : CurrentPair(l)} = {k}
    BY <1>8
  <1>13. Serving = k
    BY <1>12 DEF Serving
  <1> QED
    BY <1>7, <1>11, <1>13

-----------------------------------------------------------------------------
(* History stays readable and policies change only as signed for: whatever *)
(* expires, is installed or is rotated, every revision, candidate and      *)
(* decision verifies at the times it names, and no rotation is spent twice. *)
THEOREM PinsAlwaysHold == Spec => []PinsHold
  <1>1. IInv => PinsHold
    BY PinsInv
  <1> QED
    BY <1>1, InvariantHolds, PTL

(* A cohort that was installed with an artifact that outlives its cutoff    *)
(* can be settled from then on, whatever happened in between.              *)
THEOREM AlwaysSettles == Spec => []SettlesWithItsPolicies
  <1>1. IInv => SettlesWithItsPolicies
    BY SettlesInv
  <1> QED
    BY <1>1, InvariantHolds, PTL

(* While the window of a cohort is open and its pair is current, decisions *)
(* of the subject compile and are assigned to that cohort.                 *)
THEOREM MeasuredAlwaysServes == Spec => []MeasuredFamilyServes
  <1>1. IInv => MeasuredFamilyServes
    BY ServesInv
  <1> QED
    BY <1>1, InvariantHolds, PTL
=============================================================================
