--------------------------- MODULE EpisodesProofs ---------------------------
(***************************************************************************)
(* Proofs about Episodes, for any decisions, workers, windows and terms:   *)
(* a certificate is the census of its cohort and stays so, the evidence is *)
(* closed past the cutoff, and the settlement is lost only for cause.      *)
(*                                                                         *)
(* The argument rests on the order of times.  The job is not due before    *)
(* the cutoff, so a worker holds it from the cutoff on, when no exposure   *)
(* can become a member any more; and a completion is stamped above the     *)
(* lease, so past the cutoff, when no member can get an outcome any more.  *)
(* Only a worker leased in the millisecond of the cutoff can read a census *)
(* that is not the last, and its completion transaction compares.  What a  *)
(* certificate is read back against is the same ledger, whose members keep *)
(* their terminal events within the window and its cutoff.                 *)
(***************************************************************************)
EXTENDS Episodes, FiniteSetTheorems, WellFoundedInduction, TLAPS

(* Outcomes come after their exposures, those of a cohort by its cutoff.   *)
LedgerInv ==
  /\ IsFiniteSet({d \in Decisions : Exposed(d)})
  /\ \A d \in Decisions :
       outcome[d] # Never =>
         /\ Exposed(d) /\ exposure[d].at <= outcome[d]
         /\ Windowed(d) => outcome[d] <= Cutoff

JobInv ==
  /\ job.tries <= MaxAttempts
  /\ job.state = "queued" => Cutoff <= job.next /\ job.tries < MaxAttempts
  /\ job.state = "leased" =>
       1 <= job.tries /\ Cutoff <= job.acq /\ job.acq <= clock /\ job.acq < job.exp
  /\ job.state \in {"leased", "dead"} => Cutoff <= clock
  /\ DiesOnlyForCause

CertificateInv ==
  /\ SettledTogether
  /\ CertificateIsCensus
  /\ Certified => Cutoff < clock

(* The lease w was given, and what it may be given up for.                 *)
LeaseInv(w) ==
  /\ worker[w].phase = "idle" <=> worker[w].try = 0
  /\ worker[w].phase # "failed" <=> worker[w].cause = "none"
  /\ worker[w].phase # "idle" =>
       /\ worker[w].try <= job.tries
       /\ Cutoff <= worker[w].at /\ worker[w].at <= clock
  /\ Holds(w) => worker[w].at = job.acq

CauseInv(w) ==
  /\ worker[w].cause \notin {"binding", "lapsed"}
  /\ worker[w].cause = "expired" => terms.expires = Cutoff
  /\ worker[w].cause = "overflow" => Cardinality(CensusMembers) > terms.limit
  /\ worker[w].cause = "unsigned" => ~ WindowTaken
  /\ worker[w].cause = "drift" => worker[w].at = Cutoff
  /\ worker[w].cause = "overtaken" => Overtaken(Cutoff)

(* What w has read: the members are final, and so is which of them have an *)
(* outcome, but for a lease of the millisecond of the cutoff.              *)
ReadInv(w) ==
  /\ worker[w].phase = "leased" =>
       worker[w].read = {} /\ worker[w].census.answered = {}
  /\ worker[w].phase \in {"reading", "prepared"} =>
       /\ worker[w].census.members = CensusMembers
       /\ worker[w].read \subseteq CensusMembers
       /\ worker[w].phase = "prepared" =>
            /\ worker[w].read = CensusMembers
            /\ Signable(CensusMembers, worker[w].at)
       /\ Cutoff < worker[w].at =>
            worker[w].census.answered = {d \in worker[w].read : outcome[d] # Never}

WorkerInv(w) == LeaseInv(w) /\ CauseInv(w) /\ ReadInv(w)

IInv ==
  /\ TypeOK
  /\ LedgerInv
  /\ JobInv
  /\ CertificateInv
  /\ \A w \in Workers : WorkerInv(w)

-----------------------------------------------------------------------------
LEMMA Minted ==
  ASSUME SettlementAssumption, NEW lo \in Nat, NEW t \in Instants(lo)
  PROVE  t \in Nat /\ lo <= t
BY DEF Instants, SettlementAssumption

LEMMA Later ==
  ASSUME NEW a \in Nat, NEW b \in Nat
  PROVE  MaxOf(a, b) \in Nat /\ a <= MaxOf(a, b) /\ b <= MaxOf(a, b)
BY DEF MaxOf

(* What a host adds to the ledger: exposures from the clock on, outcomes   *)
(* of members up to the cutoff.                                            *)
LEMMA HostAdds ==
  ASSUME CohortAssumption, SettlementAssumption, TypeOK, LedgerInv,
         NEW d \in Decisions, CreateContinuation(d) \/ RecordOutcome(d)
  PROVE  /\ TypeOK' /\ LedgerInv'
         /\ clock <= clock'
         /\ UNCHANGED <<terms, job, worker, certificate>>
         /\ \A x \in Decisions : exposure[x].at # Never => exposure'[x] = exposure[x]
         /\ \A x \in Decisions : outcome[x] # Never => outcome'[x] = outcome[x]
         /\ Cutoff <= clock => CensusMembers' = CensusMembers
         /\ Cutoff < clock =>
              \A x \in CensusMembers : outcome'[x] = outcome[x]
<1>1. CASE CreateContinuation(d)
  <2>a. PICK a \in Instants(clock) : \E c \in Instants(a) : \E f \in Instants(c) :
          /\ \E cohort \in Assignments(a) :
               exposure' = [exposure EXCEPT ![d] =
                              [at |-> c, cohort |-> cohort,
                               resolvable |-> Readable(EpisodeOf[d])]]
          /\ clock' = f
    BY <1>1 DEF CreateContinuation
  <2>b. PICK c \in Instants(a) : \E f \in Instants(c) :
          /\ \E cohort \in Assignments(a) :
               exposure' = [exposure EXCEPT ![d] =
                              [at |-> c, cohort |-> cohort,
                               resolvable |-> Readable(EpisodeOf[d])]]
          /\ clock' = f
    BY <2>a
  <2>1. PICK f \in Instants(c), cohort \in Assignments(a) :
          /\ exposure' = [exposure EXCEPT ![d] =
                            [at |-> c, cohort |-> cohort,
                             resolvable |-> Readable(EpisodeOf[d])]]
          /\ clock' = f
    BY <2>b
  <2>2. clock \in Nat /\ a \in Nat /\ c \in Nat /\ f \in Nat
        /\ clock <= a /\ a <= c /\ c <= f
    BY <2>1, Minted DEF TypeOK
  <2>3. cohort \in BOOLEAN
    BY <2>1 DEF Assignments
  <2>4. Readable(EpisodeOf[d]) \in BOOLEAN
    BY DEF Readable
  <2> DEFINE e == [at |-> c, cohort |-> cohort, resolvable |-> Readable(EpisodeOf[d])]
  <2>5. e \in Exposure /\ e.at = c
    BY <2>2, <2>3, <2>4 DEF Exposure
  <2>6. exposure' = [exposure EXCEPT ![d] = e]
    BY <2>1
  <2> HIDE DEF e
  <2>7. /\ UNCHANGED <<outcome, terms, job, worker, certificate>>
        /\ exposure[d].at = Never
    BY <1>1 DEF CreateContinuation, Exposed
  <2>8. TypeOK'
    BY <2>1, <2>2, <2>5, <2>6, <2>7 DEF TypeOK
  <2>9. \A x \in Decisions : exposure'[x] = IF x = d THEN e ELSE exposure[x]
    BY <2>6 DEF TypeOK
  <2>10. ASSUME Cutoff <= clock
         PROVE  CensusMembers' = CensusMembers
    <3>1. c >= Close /\ ~(exposure[d].at >= Open)
      BY <2>2, <2>7, <2>10 DEF CohortAssumption, Never
    <3> QED
      BY <3>1, <2>5, <2>9, <2>2 DEF CensusMembers, CohortAssumption
  <2>11. IsFiniteSet({x \in Decisions : Exposed(x)}')
    <3>1. {x \in Decisions : Exposed(x)'} \subseteq {x \in Decisions : Exposed(x)} \cup {d}
      BY <2>9 DEF Exposed
    <3>2. IsFiniteSet({x \in Decisions : Exposed(x)} \cup {d})
      BY FS_AddElement DEF LedgerInv
    <3>3. IsFiniteSet({x \in Decisions : Exposed(x)'})
      BY <3>1, <3>2, FS_Subset
    <3> QED
      BY <3>3
  <2>12. LedgerInv'
    BY <2>7, <2>9, <2>11 DEF LedgerInv, Exposed, Windowed
  <2> QED
    BY <2>1, <2>2, <2>7, <2>8, <2>9, <2>10, <2>12
<1>2. CASE RecordOutcome(d)
  <2>a. PICK c \in Instants(clock) : \E f \in Instants(c) :
          /\ \E observed \in exposure[d].at .. c : InTime(d, observed, f)
          /\ outcome' = [outcome EXCEPT ![d] = c]
          /\ clock' = f
    BY <1>2 DEF RecordOutcome
  <2>1. PICK f \in Instants(c) :
          /\ \E observed \in exposure[d].at .. c : InTime(d, observed, f)
          /\ outcome' = [outcome EXCEPT ![d] = c]
          /\ clock' = f
    BY <2>a
  <2>2. clock \in Nat /\ c \in Nat /\ f \in Nat /\ clock <= c /\ c <= f
    BY <2>1, Minted DEF TypeOK
  <2>3. UNCHANGED <<exposure, terms, job, worker, certificate>> /\ outcome[d] = Never
    BY <1>2 DEF RecordOutcome
  <2>4. TypeOK'
    BY <2>1, <2>2, <2>3 DEF TypeOK
  <2>5. \A x \in Decisions : outcome'[x] = IF x = d THEN c ELSE outcome[x]
    BY <2>1 DEF TypeOK
  <2>6. CensusMembers' = CensusMembers
    BY <2>3 DEF CensusMembers
  <2>7. Cutoff < clock => d \notin CensusMembers
    BY <2>1, <2>2 DEF CensusMembers, InTime, Windowed, CohortAssumption
  <2>8. CensusMembers \subseteq Decisions
    BY DEF CensusMembers
  <2>9. LedgerInv'
    <3>1. Exposed(d) /\ exposure[d].at \in Nat
      BY <1>2 DEF RecordOutcome, TypeOK, Exposure
    <3>2. exposure[d].at <= c /\ (Windowed(d) => c <= Cutoff)
      BY <2>1, <2>2, <3>1 DEF InTime, CohortAssumption
    <3> QED
      BY <2>3, <2>5, <3>1, <3>2 DEF LedgerInv, Exposed, Windowed
  <2> QED
    BY <2>1, <2>2, <2>3, <2>4, <2>5, <2>6, <2>7, <2>8, <2>9
<1> QED
  BY <1>1, <1>2

(* An event past the cutoff in the episode of a member stays there.        *)
LEMMA OvertakenStays ==
  ASSUME TypeOK, CensusMembers' = CensusMembers, Cutoff \in Nat,
         \A x \in Decisions : exposure[x].at # Never => exposure'[x] = exposure[x],
         \A x \in Decisions : outcome[x] # Never => outcome'[x] = outcome[x],
         Overtaken(Cutoff)
  PROVE  Overtaken(Cutoff)'
<1>1. PICK d \in CensusMembers, f \in Decisions :
        /\ EpisodeOf[f] = EpisodeOf[d]
        /\ exposure[f].at > Cutoff \/ outcome[f] > Cutoff
  BY DEF Overtaken
<1>2. exposure[f].at \in Nat /\ outcome[f] \in Nat
  BY DEF TypeOK, Exposure
<1>3. exposure'[f].at > Cutoff \/ outcome'[f] > Cutoff
  BY <1>1, <1>2 DEF Never
<1> QED
  BY <1>1, <1>3 DEF Overtaken

(* The census is finite, and its terminal events keep to the window.       *)
LEMMA MembersFinite ==
  ASSUME CohortAssumption, LedgerInv
  PROVE  IsFiniteSet(CensusMembers) /\ Cardinality(CensusMembers) \in Nat
<1>1. CensusMembers \subseteq {d \in Decisions : Exposed(d)}
  BY DEF CensusMembers, Exposed, Never, CohortAssumption
<1>2. IsFiniteSet(CensusMembers)
  BY <1>1, FS_Subset DEF LedgerInv
<1> QED
  BY <1>2, FS_CardinalityType

LEMMA TerminalsInWindow ==
  ASSUME CohortAssumption, TypeOK, LedgerInv, NEW d \in CensusMembers
  PROVE  Terminal(d) \in Nat /\ Open <= Terminal(d) /\ Terminal(d) <= Cutoff
<1>1. /\ d \in Decisions /\ exposure[d].at \in Nat /\ outcome[d] \in Nat
      /\ exposure[d].cohort /\ Open <= exposure[d].at /\ exposure[d].at < Close
  BY DEF CensusMembers, TypeOK, Exposure
<1>2. outcome[d] # Never => exposure[d].at <= outcome[d] /\ outcome[d] <= Cutoff
  BY <1>1 DEF LedgerInv, Windowed
<1> QED
  BY <1>1, <1>2 DEF Terminal, CohortAssumption

(* What was prepared of the census the ledger gives passes the comparison. *)
LEMMA MaterialHolds ==
  ASSUME CohortAssumption, TypeOK, LedgerInv, NEW created,
         Signable(CensusMembers, created)
  PROVE  MaterialStands(LedgerCensus, created)
<1>1. LedgerCensus.members = CensusMembers
  BY DEF LedgerCensus
<1>2. Binds(LedgerCensus, created, LedgerCensus)
  BY <1>1 DEF Binds
<1> QED
  BY <1>2, TerminalsInWindow DEF MaterialStands

(* The effect events of a census amount to that census again.              *)
LEMMA EffectsReadBack ==
  ASSUME NEW census \in Census, census.answered \subseteq census.members, NEW created
  PROVE  MembersOf(EffectsOf(census, created)) = census
<1> DEFINE E(d) == [decision |-> d, answered |-> d \in census.answered,
                    cause |-> Terminal(d), at |-> created]
           effects == EffectsOf(census, created)
<1>1. effects = {E(d) : d \in census.members}
  BY DEF EffectsOf
<1>2. \A d : E(d).decision = d /\ (E(d).answered <=> d \in census.answered)
  OBVIOUS
<1> HIDE DEF E, effects
<1>3. {e.decision : e \in effects} = census.members
  BY <1>1, <1>2
<1>4. {e.decision : e \in {x \in effects : x.answered}} = census.answered
  <2>1. ASSUME NEW e \in effects, e.answered
        PROVE  e.decision \in census.answered
    BY <1>1, <1>2, <2>1
  <2>2. ASSUME NEW d \in census.answered
        PROVE  E(d) \in effects /\ E(d).answered /\ E(d).decision = d
    BY <1>1, <1>2
  <2> QED
    BY <2>1, <2>2
<1>5. census = [members |-> census.members, answered |-> census.answered]
  BY DEF Census
<1>6. MembersOf(effects) = census
  BY <1>3, <1>4, <1>5 DEF MembersOf
<1> QED
  BY <1>6 DEF effects

LEMMA EffectsFinite ==
  ASSUME NEW census, IsFiniteSet(census.members), NEW created
  PROVE  Cardinality(EffectsOf(census, created)) \in Nat
<1> DEFINE E(d) == [decision |-> d, answered |-> d \in census.answered,
                    cause |-> Terminal(d), at |-> created]
           effects == EffectsOf(census, created)
           f == [d \in census.members |-> E(d)]
<1>1. effects = {E(d) : d \in census.members}
  BY DEF EffectsOf
<1> HIDE DEF E, effects
<1>2. f \in Surjection(census.members, effects)
  BY <1>1 DEF Surjection
<1> HIDE DEF f
<1>3. IsFiniteSet(effects)
  BY <1>2, FS_Surjection
<1> QED
  BY <1>3, FS_CardinalityType DEF effects

(* What put writes is a certificate, and reads back as it stands.          *)
LEMMA WrittenHydrates ==
  ASSUME CohortAssumption, TypeOK, LedgerInv, NEW w \in Workers,
         MaterialStands(worker[w].census, worker[w].at),
         NEW f \in Nat, worker[w].at <= f
  PROVE  Written(w, f) \in Certificate /\ Hydrates(Written(w, f))
<1> DEFINE census == worker[w].census
           created == worker[w].at
           effects == EffectsOf(census, created)
           c == Written(w, f)
<1>1. worker[w] \in Attempt /\ census \in Census /\ created \in Nat /\ worker[w].try \in Nat
  BY DEF TypeOK, Attempt
<1>2. census = LedgerCensus /\ Signable(census.members, created)
  BY DEF MaterialStands, Binds
<1>3. census.members = CensusMembers /\ census.answered \subseteq census.members
  BY <1>2 DEF LedgerCensus
<1>4. MembersOf(effects) = census
  BY <1>1, <1>3, EffectsReadBack
<1>5. Cardinality(census.members) \in Nat /\ Cardinality(effects) \in Nat
  BY <1>3, MembersFinite, EffectsFinite
<1>6. c = [try |-> worker[w].try, census |-> census, created |-> created,
           effects |-> effects, receipt |-> Named(effects, f)]
  BY DEF Written
<1>7. \A e \in effects : /\ e \in Effect
                         /\ e.at = created /\ e.cause = Terminal(e.decision)
  <2>1. \A d \in census.members : d \in Decisions /\ Terminal(d) \in Nat
    BY <1>3, TerminalsInWindow DEF CensusMembers
  <2>2. ASSUME NEW d \in census.members,
               NEW e, e = [decision |-> d, answered |-> d \in census.answered,
                           cause |-> Terminal(d), at |-> created]
        PROVE  e \in Effect /\ e.at = created /\ e.cause = Terminal(e.decision)
    <3> DEFINE answered == d \in census.answered
    <3>1. answered \in BOOLEAN
      OBVIOUS
    <3>2. e = [decision |-> d, answered |-> answered, cause |-> Terminal(d), at |-> created]
      BY <2>2
    <3> HIDE DEF answered
    <3> QED
      BY <1>1, <2>1, <3>1, <3>2 DEF Effect
  <2> QED
    BY <2>2 DEF EffectsOf
<1>8. Named(effects, f) \in Receipt /\ Named(effects, f).at = f
  BY <1>4, <1>5 DEF Named, Receipt
<1>9. c \in Certificate
  BY <1>1, <1>6, <1>7, <1>8 DEF Certificate
<1>10. Binds(c.census, c.created, MembersOf(c.effects))
  BY <1>2, <1>4, <1>6 DEF Binds
<1>11. MaterialStands(c.census, c.created)
  BY <1>6
<1>12. ReceiptStands(c)
  BY <1>6, <1>8 DEF ReceiptStands
<1> QED
  BY <1>6, <1>7, <1>9, <1>10, <1>11, <1>12 DEF Hydrates

(* A certificate stands while the census and its terminal events do.       *)
LEMMA CertificateStands ==
  ASSUME CertificateIsCensus, UNCHANGED <<terms, certificate>>,
         Certified =>
           /\ LedgerCensus' = LedgerCensus /\ CensusMembers' = CensusMembers
           /\ \A d \in CensusMembers : Terminal(d)' = Terminal(d)
  PROVE  CertificateIsCensus'
<1> SUFFICES ASSUME Certified
             PROVE  (certificate.census = LedgerCensus /\ Hydrates(certificate))'
  BY DEF CertificateIsCensus, Certified
<1>1. certificate.census = LedgerCensus /\ Hydrates(certificate)
  BY DEF CertificateIsCensus
<1>2. /\ MembersOf(certificate.effects).members = CensusMembers
      /\ \A e \in certificate.effects : e.decision \in CensusMembers
  <2>1. MembersOf(certificate.effects) = LedgerCensus
    BY <1>1 DEF Hydrates, Binds
  <2> QED
    BY <2>1 DEF LedgerCensus, MembersOf
<1>3. \A members, created : Signable(members, created)' <=> Signable(members, created)
  BY DEF Signable, WindowTaken
<1>4. MaterialStands(certificate.census, certificate.created)'
  BY <1>1, <1>3 DEF Hydrates, MaterialStands, Binds
<1>5. Binds(certificate.census, certificate.created, MembersOf(certificate.effects))'
  BY <1>1, <1>3 DEF Hydrates, Binds, MembersOf
<1>6. ReceiptStands(certificate)'
  BY <1>1 DEF Hydrates, ReceiptStands, Named, MembersOf
<1>7. (\A e \in certificate.effects : e.at = certificate.created /\ e.cause = Terminal(e.decision))'
  BY <1>1, <1>2 DEF Hydrates
<1> QED
  BY <1>1, <1>4, <1>5, <1>6, <1>7 DEF Hydrates

LEMMA LedgerStays ==
  ASSUME UNCHANGED <<exposure, outcome, terms>>
  PROVE  /\ CensusMembers' = CensusMembers /\ LedgerCensus' = LedgerCensus
         /\ \A d : Terminal(d)' = Terminal(d)
         /\ \A members, created : Signable(members, created)' <=> Signable(members, created)
         /\ Overtaken(Cutoff)' = Overtaken(Cutoff)
         /\ LedgerInv => LedgerInv'
<1>1. CensusMembers' = CensusMembers /\ LedgerCensus' = LedgerCensus
      /\ Overtaken(Cutoff)' = Overtaken(Cutoff)
  BY DEF CensusMembers, LedgerCensus, Overtaken
<1>2. \A d : Terminal(d)' = Terminal(d)
  BY DEF Terminal
<1>3. \A members, created : Signable(members, created)' <=> Signable(members, created)
  BY DEF Signable, WindowTaken
<1>4. LedgerInv => LedgerInv'
  BY DEF LedgerInv, Exposed, Windowed
<1> QED
  BY <1>1, <1>2, <1>3, <1>4

LEMMA HostKeeps ==
  ASSUME CohortAssumption, SettlementAssumption, IInv, NEW d \in Decisions,
         CreateContinuation(d) \/ RecordOutcome(d)
  PROVE  IInv'
<1>1. TypeOK /\ LedgerInv /\ JobInv /\ CertificateInv
  BY DEF IInv
<1>2. /\ TypeOK' /\ LedgerInv' /\ clock <= clock'
      /\ UNCHANGED <<terms, job, worker, certificate>>
      /\ \A x \in Decisions : exposure[x].at # Never => exposure'[x] = exposure[x]
      /\ \A x \in Decisions : outcome[x] # Never => outcome'[x] = outcome[x]
      /\ Cutoff <= clock => CensusMembers' = CensusMembers
      /\ Cutoff < clock => \A x \in CensusMembers : outcome'[x] = outcome[x]
  BY <1>1, HostAdds
<1>3. clock \in Nat /\ clock' \in Nat /\ Cutoff \in Nat /\ job.acq \in Nat
  BY <1>1, <1>2 DEF TypeOK, CohortAssumption, Job
<1>4. Cutoff <= clock /\ Overtaken(Cutoff) => Overtaken(Cutoff)'
  BY <1>1, <1>2, <1>3, OvertakenStays
<1>5. JobInv'
  BY <1>1, <1>2, <1>3, <1>4 DEF JobInv, DiesOnlyForCause, WindowTaken
<1>6. CertificateInv'
  <2>1. Certified =>
          /\ LedgerCensus' = LedgerCensus /\ CensusMembers' = CensusMembers
          /\ \A x \in CensusMembers : Terminal(x)' = Terminal(x)
    <3> SUFFICES ASSUME Certified
                 PROVE  /\ LedgerCensus' = LedgerCensus /\ CensusMembers' = CensusMembers
                        /\ \A x \in CensusMembers : Terminal(x)' = Terminal(x)
      OBVIOUS
    <3>1. Cutoff < clock
      BY <1>1 DEF CertificateInv
    <3>2. CensusMembers' = CensusMembers
      BY <3>1, <1>2, <1>3
    <3>3. {x \in CensusMembers : outcome'[x] # Never} =
          {x \in CensusMembers : outcome[x] # Never}
      BY <3>1, <1>2
    <3>4. \A x \in CensusMembers : exposure'[x] = exposure[x] /\ outcome'[x] = outcome[x]
      BY <3>1, <1>2 DEF CensusMembers, CohortAssumption, Never
    <3> QED
      BY <3>2, <3>3, <3>4 DEF LedgerCensus, Terminal
  <2>2. CertificateIsCensus'
    BY <2>1, <1>1, <1>2, CertificateStands DEF CertificateInv
  <2> QED
    BY <2>2, <1>1, <1>2, <1>3 DEF CertificateInv, SettledTogether, Certified
<1>7. ASSUME NEW w \in Workers
      PROVE  WorkerInv(w)'
  <2>1. WorkerInv(w)
    BY DEF IInv
  <2>2. worker[w] \in Attempt /\ worker[w].at \in Nat
    BY <1>1 DEF TypeOK, Attempt
  <2>3. worker[w].phase # "idle" => Cutoff <= clock /\ worker[w].at <= clock
    BY <2>1, <2>2, <1>3 DEF WorkerInv, LeaseInv
  <2>4. LeaseInv(w)'
    BY <2>1, <2>2, <1>2, <1>3 DEF WorkerInv, LeaseInv, Holds
  <2>5. CauseInv(w)'
    <3>1. worker[w].phase = "idle" => worker[w].cause = "none"
      BY <2>1 DEF WorkerInv, LeaseInv
    <3> QED
      BY <3>1, <2>1, <2>3, <1>2, <1>4 DEF WorkerInv, CauseInv, WindowTaken
  <2>6. ReadInv(w)'
    <3> SUFFICES ASSUME worker[w].phase \in {"reading", "prepared"}
                 PROVE  ReadInv(w)'
      BY <2>1, <1>2 DEF WorkerInv, ReadInv
    <3>1. /\ worker[w].census.members = CensusMembers
          /\ worker[w].read \subseteq CensusMembers
          /\ worker[w].phase = "prepared" =>
               /\ worker[w].read = CensusMembers
               /\ Signable(CensusMembers, worker[w].at)
          /\ Cutoff < worker[w].at =>
               worker[w].census.answered = {x \in worker[w].read : outcome[x] # Never}
      BY <2>1 DEF WorkerInv, ReadInv
    <3>2. CensusMembers' = CensusMembers
      BY <2>3, <1>2
    <3>3. Cutoff < worker[w].at =>
            {x \in worker[w].read : outcome'[x] # Never} =
            {x \in worker[w].read : outcome[x] # Never}
      BY <3>1, <2>2, <2>3, <1>2, <1>3
    <3> QED
      BY <3>1, <3>2, <3>3, <1>2 DEF ReadInv, Signable, WindowTaken
  <2> QED
    BY <2>4, <2>5, <2>6 DEF WorkerInv
<1> QED
  BY <1>2, <1>5, <1>6, <1>7 DEF IInv
-----------------------------------------------------------------------------
(* What a step of one worker leaves to another, and to the ledger.         *)
LEMMA BystanderKeeps ==
  ASSUME IInv, NEW v \in Workers, worker'[v] = worker[v],
         UNCHANGED <<exposure, outcome, terms>>,
         clock \in Nat, clock' \in Nat, clock <= clock',
         job \in Job, job' \in Job,
         job.tries <= job'.tries,
         job'.state = "leased" /\ job'.tries <= job.tries => job' = job
  PROVE  WorkerInv(v)'
<1>1. WorkerInv(v) /\ worker[v] \in Attempt
  BY DEF IInv, TypeOK
<1>2. /\ worker[v].at \in Nat /\ worker[v].try \in Nat
      /\ job.tries \in Nat /\ job'.tries \in Nat
  BY <1>1 DEF Attempt, Job
<1>3. LeaseInv(v)'
  <2>1. /\ worker'[v].phase = "idle" <=> worker'[v].try = 0
        /\ worker'[v].phase # "failed" <=> worker'[v].cause = "none"
    BY <1>1 DEF WorkerInv, LeaseInv
  <2>2. worker'[v].phase # "idle" =>
          /\ worker'[v].try <= job'.tries
          /\ Cutoff <= worker'[v].at /\ worker'[v].at <= clock'
    BY <1>1, <1>2 DEF WorkerInv, LeaseInv
  <2>3. worker[v].try <= job.tries
    BY <1>1, <1>2 DEF WorkerInv, LeaseInv
  <2>4. Holds(v)' => job' = job
    BY <1>2, <2>3 DEF Holds
  <2>5. Holds(v)' => worker'[v].at = job'.acq
    BY <1>1, <2>4 DEF WorkerInv, LeaseInv, Holds
  <2> QED
    BY <2>1, <2>2, <2>5 DEF LeaseInv
<1>4. CauseInv(v)'
  BY <1>1 DEF WorkerInv, CauseInv, WindowTaken, Overtaken, CensusMembers
<1>5. ReadInv(v)'
  BY <1>1, LedgerStays DEF WorkerInv, ReadInv
<1> QED
  BY <1>3, <1>4, <1>5 DEF WorkerInv

LEMMA QuietKeeps ==
  ASSUME CohortAssumption, IInv, LedgerUnchanged, NEW w \in Workers,
         NEW a, a \in Attempt, worker' = [worker EXCEPT ![w] = a],
         WorkerInv(w)'
  PROVE  IInv'
<1>1. UNCHANGED <<clock, exposure, outcome, terms, job, certificate>>
  BY DEF LedgerUnchanged
<1>2. TypeOK /\ LedgerInv /\ JobInv /\ CertificateInv
  BY DEF IInv
<1>3. TypeOK' /\ LedgerInv'
  BY <1>1, <1>2, LedgerStays DEF TypeOK
<1>4. JobInv'
  BY <1>1, <1>2 DEF JobInv, DiesOnlyForCause, WindowTaken, Overtaken, CensusMembers
<1>5. CertificateInv'
  BY <1>1, <1>2, LedgerStays, CertificateStands
  DEF CertificateInv, SettledTogether, Certified
<1>6. ASSUME NEW v \in Workers
      PROVE  WorkerInv(v)'
  <2>1. CASE v = w
    BY <2>1
  <2>2. CASE v # w
    <3>1. worker'[v] = worker[v]
      BY <2>2, <1>2 DEF TypeOK
    <3>2. clock \in Nat /\ clock' \in Nat /\ clock <= clock' /\ job \in Job /\ job' = job
      BY <1>1, <1>2 DEF TypeOK
    <3>3. job.tries <= job'.tries
      BY <3>2 DEF Job
    <3> QED
      BY <1>1, <3>1, <3>2, <3>3, BystanderKeeps
  <2> QED
    BY <2>1, <2>2
<1> QED
  BY <1>3, <1>4, <1>5, <1>6 DEF IInv

(* An attempt that ends, or ends with a code, keeps nothing of its census. *)
LEMMA IdleKeeps ==
  ASSUME CohortAssumption, IInv, LedgerUnchanged, NEW w \in Workers,
         worker' = [worker EXCEPT ![w] = Idle]
  PROVE  IInv'
<1>1. Idle \in Attempt
  BY DEF Idle, Outset, Attempt, Phases, Causes, Never, Census, NoCensus
<1>2. worker'[w] = Idle
  BY DEF IInv, TypeOK
<1>3. job.tries \in Nat /\ (job.state = "leased" => 1 <= job.tries) /\ job' = job
  BY DEF IInv, TypeOK, Job, JobInv, LedgerUnchanged
<1>4. WorkerInv(w)'
  BY <1>2, <1>3 DEF Idle, Outset, WorkerInv, LeaseInv, CauseInv, WindowTaken, ReadInv, Holds
<1> HIDE DEF Idle
<1> QED
  BY <1>1, <1>4, QuietKeeps

LEMMA GiveUpKeeps ==
  ASSUME CohortAssumption, IInv, LedgerUnchanged, NEW w \in Workers,
         worker[w].phase # "idle",
         NEW cause \in Causes \ {"none", "binding", "lapsed"}, GiveUp(w, cause),
         cause = "expired" => terms.expires = Cutoff,
         cause = "overflow" => Cardinality(CensusMembers) > terms.limit,
         cause = "unsigned" => ~ WindowTaken,
         cause = "drift" => worker[w].at = Cutoff,
         cause = "overtaken" => Overtaken(Cutoff)
  PROVE  IInv'
<1> DEFINE a == Outset("failed", worker[w].try, worker[w].at, cause)
<1>1. worker[w] \in Attempt /\ WorkerInv(w) /\ worker \in [Workers -> Attempt]
  BY DEF IInv, TypeOK
<1>3. /\ a.phase = "failed" /\ a.try = worker[w].try /\ a.at = worker[w].at
      /\ a.cause = cause /\ a \in Attempt
  BY <1>1 DEF Outset, Attempt, Phases, Causes, Census, NoCensus
<1>4. worker' = [worker EXCEPT ![w] = a]
  BY DEF GiveUp
<1> HIDE DEF a
<1>5. worker'[w] = a
  BY <1>1, <1>4
<1>6. UNCHANGED <<clock, exposure, outcome, terms, job, certificate>>
  BY DEF LedgerUnchanged
<1>7. LeaseInv(w)'
  BY <1>1, <1>3, <1>5, <1>6 DEF WorkerInv, LeaseInv, Holds
<1>8. CauseInv(w)'
  BY <1>3, <1>5, <1>6 DEF CauseInv, WindowTaken, Overtaken, CensusMembers
<1>9. ReadInv(w)'
  BY <1>3, <1>5 DEF ReadInv
<1> QED
  BY <1>3, <1>4, <1>7, <1>8, <1>9, QuietKeeps DEF WorkerInv

-----------------------------------------------------------------------------
(* The steps of an attempt.                                                *)

LEMMA BeginCensusKeeps ==
  ASSUME CohortAssumption, IInv, NEW w \in Workers, BeginCensus(w)
  PROVE  IInv'
<1>1. /\ worker[w].phase = "leased" /\ LedgerUnchanged
      /\ worker[w] \in Attempt /\ WorkerInv(w) /\ worker \in [Workers -> Attempt]
      /\ terms.expires \in Nat /\ Cutoff <= terms.expires /\ Cutoff \in Nat
  BY DEF BeginCensus, IInv, TypeOK, CohortAssumption, Term
<1>2. worker[w].at \in Nat /\ ~(worker[w].at < Cutoff)
  BY <1>1 DEF WorkerInv, LeaseInv, Attempt
<1>3. CASE Cutoff >= terms.expires
  <2>1. terms.expires = Cutoff
    BY <1>1, <1>3
  <2>2. GiveUp(w, "expired")
    BY <1>2, <1>3 DEF BeginCensus
  <2> QED
    BY <1>1, <2>1, <2>2, GiveUpKeeps DEF Causes
<1>4. CASE ~(Cutoff >= terms.expires)
  <2> DEFINE a == [worker[w] EXCEPT !.phase = "reading", !.census.members = CensusMembers]
  <2>1. worker' = [worker EXCEPT ![w].phase = "reading",
                                 ![w].census.members = CensusMembers]
    BY <1>2, <1>4 DEF BeginCensus
  <2>2. worker' = [worker EXCEPT ![w] = a]
    BY <2>1, <1>1
  <2>3. /\ a.phase = "reading" /\ a.try = worker[w].try /\ a.at = worker[w].at
        /\ a.read = worker[w].read /\ a.cause = worker[w].cause
        /\ a.census.members = CensusMembers
        /\ a.census.answered = worker[w].census.answered
    BY <1>1 DEF Attempt, Census
  <2>4. a \in Attempt
    <3>1. a = [worker[w] EXCEPT !.phase = "reading",
                                !.census = [worker[w].census EXCEPT !.members = CensusMembers]]
      BY <1>1 DEF Attempt
    <3>2. CensusMembers \in SUBSET Decisions
      BY DEF CensusMembers
    <3>3. [worker[w].census EXCEPT !.members = CensusMembers] \in Census
      BY <1>1, <3>2 DEF Attempt, Census
    <3> QED
      BY <1>1, <3>1, <3>3 DEF Attempt, Phases
  <2> HIDE DEF a
  <2>5. worker'[w] = a
    BY <1>1, <2>2
  <2>6. UNCHANGED <<clock, exposure, outcome, terms, job, certificate>>
    BY <1>1 DEF LedgerUnchanged
  <2>7. LeaseInv(w)'
    BY <1>1, <2>3, <2>5, <2>6 DEF WorkerInv, LeaseInv, Holds
  <2>8. CauseInv(w)'
    BY <1>1, <2>3, <2>5, <2>6 DEF WorkerInv, LeaseInv, CauseInv, WindowTaken
  <2>9. ReadInv(w)'
    <3>1. worker[w].read = {} /\ worker[w].census.answered = {}
      BY <1>1 DEF WorkerInv, ReadInv
    <3>2. CensusMembers' = CensusMembers
      BY <2>6 DEF CensusMembers
    <3> QED
      BY <2>3, <2>5, <3>1, <3>2 DEF ReadInv
  <2> QED
    BY <1>1, <2>2, <2>4, <2>7, <2>8, <2>9, QuietKeeps DEF WorkerInv
<1> QED
  BY <1>3, <1>4

LEMMA ReadMemberKeeps ==
  ASSUME CohortAssumption, IInv, NEW w \in Workers, NEW d \in Decisions,
         ReadMember(w, d)
  PROVE  IInv'
<1>1. /\ worker[w].phase = "reading" /\ LedgerUnchanged
      /\ worker[w] \in Attempt /\ WorkerInv(w) /\ worker \in [Workers -> Attempt]
      /\ d \in worker[w].census.members
  BY DEF ReadMember, IInv, TypeOK
<1> DEFINE answers == IF outcome[d] = Never THEN worker[w].census.answered
                      ELSE worker[w].census.answered \cup {d}
           a == [worker[w] EXCEPT !.read = @ \cup {d},
                                  !.census = [worker[w].census EXCEPT !.answered = answers]]
<1>2. worker' = [worker EXCEPT ![w] = a]
  BY <1>1 DEF ReadMember, Attempt, Census
<1>3. /\ a.phase = "reading" /\ a.try = worker[w].try /\ a.at = worker[w].at
      /\ a.read = worker[w].read \cup {d} /\ a.cause = worker[w].cause
      /\ a.census.members = worker[w].census.members
      /\ a.census.answered = answers
  BY <1>1 DEF Attempt, Census
<1>4. a \in Attempt
  <2>1. answers \in SUBSET Decisions
    BY <1>1 DEF Attempt, Census
  <2> HIDE DEF answers
  <2>2. [worker[w].census EXCEPT !.answered = answers] \in Census
    BY <1>1, <2>1 DEF Attempt, Census
  <2> QED
    BY <1>1, <2>2 DEF Attempt
<1> HIDE DEF a
<1>5. worker'[w] = a
  BY <1>1, <1>2
<1>6. UNCHANGED <<clock, exposure, outcome, terms, job, certificate>>
  BY <1>1 DEF LedgerUnchanged
<1>7. LeaseInv(w)'
  BY <1>1, <1>3, <1>5, <1>6 DEF WorkerInv, LeaseInv, Holds
<1>8. CauseInv(w)'
  BY <1>1, <1>3, <1>5, <1>6 DEF WorkerInv, LeaseInv, CauseInv, WindowTaken
<1>9. ReadInv(w)'
  <2>1. CensusMembers' = CensusMembers
    BY <1>6 DEF CensusMembers
  <2>2. worker[w].census.members = CensusMembers /\ worker[w].read \subseteq CensusMembers
    BY <1>1 DEF WorkerInv, ReadInv
  <2>3. Cutoff < worker[w].at =>
          answers = {x \in worker[w].read \cup {d} : outcome[x] # Never}
    BY <1>1 DEF WorkerInv, ReadInv
  <2> QED
    BY <1>1, <1>3, <1>5, <1>6, <2>1, <2>2, <2>3 DEF ReadInv
<1> QED
  BY <1>1, <1>2, <1>4, <1>7, <1>8, <1>9, QuietKeeps DEF WorkerInv

LEMMA FinishCensusKeeps ==
  ASSUME CohortAssumption, IInv, NEW w \in Workers, FinishCensus(w)
  PROVE  IInv'
<1>1. /\ worker[w].phase = "reading" /\ LedgerUnchanged
      /\ worker[w] \in Attempt /\ WorkerInv(w) /\ worker \in [Workers -> Attempt]
      /\ worker[w].read = worker[w].census.members
  BY DEF FinishCensus, IInv, TypeOK
<1>2. worker[w].read = CensusMembers
  BY <1>1 DEF WorkerInv, ReadInv
<1>3. /\ Cutoff <= worker[w].at /\ terms.limit \in Nat
      /\ Cardinality(worker[w].read) \in Nat
  BY <1>1, <1>2, MembersFinite
  DEF WorkerInv, LeaseInv, IInv, TypeOK, CohortAssumption, Term
<1>4. ~(Cardinality(worker[w].read) > terms.limit) =>
        (Signable(worker[w].read, worker[w].at) <=> WindowTaken)
  BY <1>3 DEF Signable
<1>5. CASE Cardinality(worker[w].read) > terms.limit
  <2>1. GiveUp(w, "overflow")
    BY <1>5 DEF FinishCensus
  <2> QED
    BY <1>1, <1>2, <1>5, <2>1, GiveUpKeeps DEF Causes
<1>6. CASE ~(Cardinality(worker[w].read) > terms.limit) /\ ~ WindowTaken
  <2>1. GiveUp(w, "unsigned")
    BY <1>6, <1>4 DEF FinishCensus
  <2> QED
    BY <1>1, <1>6, <2>1, GiveUpKeeps DEF Causes
<1>7. CASE ~(Cardinality(worker[w].read) > terms.limit) /\ WindowTaken
  <2> DEFINE a == [worker[w] EXCEPT !.phase = "prepared"]
  <2>1. worker' = [worker EXCEPT ![w] = a]
    BY <1>1, <1>7, <1>4 DEF FinishCensus
  <2>2. /\ a.phase = "prepared" /\ a.try = worker[w].try /\ a.at = worker[w].at
        /\ a.read = worker[w].read /\ a.cause = worker[w].cause
        /\ a.census = worker[w].census /\ a \in Attempt
    BY <1>1 DEF Attempt, Phases
  <2> HIDE DEF a
  <2>3. worker'[w] = a
    BY <1>1, <2>1
  <2>4. UNCHANGED <<clock, exposure, outcome, terms, job, certificate>>
    BY <1>1 DEF LedgerUnchanged
  <2>5. LeaseInv(w)'
    BY <1>1, <2>2, <2>3, <2>4 DEF WorkerInv, LeaseInv, Holds
  <2>6. CauseInv(w)'
    BY <1>1, <2>2, <2>3, <2>4 DEF WorkerInv, LeaseInv, CauseInv, WindowTaken
  <2>7. ReadInv(w)'
    <3>1. Signable(CensusMembers, worker[w].at)
      BY <1>2, <1>7, <1>4
    <3> QED
      BY <1>1, <1>2, <2>2, <2>3, <2>4, <3>1, LedgerStays DEF WorkerInv, ReadInv
  <2> QED
    BY <1>1, <2>1, <2>2, <2>5, <2>6, <2>7, QuietKeeps DEF WorkerInv
<1> QED
  BY <1>5, <1>6, <1>7

(* A worker leased past the cutoff meets its own census again.             *)
LEMMA NoDriftPastTheCutoff ==
  ASSUME CohortAssumption, IInv, NEW w \in Workers,
         worker[w].phase = "prepared", Cutoff < worker[w].at
  PROVE  SameCensus(w)
<1>1. worker[w].census \in Census
  BY DEF IInv, TypeOK, Attempt
<1>2. worker[w].census = [members |-> worker[w].census.members,
                          answered |-> worker[w].census.answered]
  BY <1>1 DEF Census
<1>3. /\ worker[w].census.members = CensusMembers
      /\ worker[w].census.answered = {d \in CensusMembers : outcome[d] # Never}
  BY DEF IInv, WorkerInv, ReadInv
<1> QED
  BY <1>2, <1>3 DEF SameCensus, LedgerCensus

LEMMA RefuseKeeps ==
  ASSUME CohortAssumption, IInv, NEW w \in Workers, Refuse(w)
  PROVE  IInv'
<1>1. /\ worker[w].phase = "prepared" /\ LedgerUnchanged
      /\ worker[w] \in Attempt /\ WorkerInv(w) /\ TypeOK
  BY DEF Refuse, IInv, TypeOK
<1>2. worker[w].at \in Nat /\ Cutoff \in Nat /\ Cutoff <= worker[w].at
  BY <1>1 DEF Attempt, CohortAssumption, WorkerInv, LeaseInv
<1>3. CASE ~ SameCensus(w)
  <2>1. worker[w].at = Cutoff
    BY <1>1, <1>2, <1>3, NoDriftPastTheCutoff
  <2>2. GiveUp(w, "drift")
    BY <1>3 DEF Refuse
  <2> QED
    BY <1>1, <2>1, <2>2, GiveUpKeeps DEF Causes
<1>4. CASE SameCensus(w)
  <2>1. MaterialStands(worker[w].census, worker[w].at)
    BY <1>1, <1>4, MaterialHolds DEF IInv, WorkerInv, ReadInv, SameCensus
  <2>2. GiveUp(w, "overtaken") /\ Overtaken(worker[w].at)
    BY <1>4, <2>1 DEF Refuse
  <2>3. Overtaken(Cutoff)
    BY <2>2, <1>1, <1>2 DEF Overtaken, TypeOK, Exposure
  <2> QED
    BY <1>1, <2>2, <2>3, GiveUpKeeps DEF Causes
<1> QED
  BY <1>3, <1>4

-----------------------------------------------------------------------------
(* The steps that write the job.                                           *)

LEMMA LeaseQueuedKeeps ==
  ASSUME CohortAssumption, SettlementAssumption, IInv, NEW w \in Workers,
         LeaseQueued(w)
  PROVE  IInv'
<1>1. PICK t \in Instants(MaxOf(clock, job.next)) : Hand(w, t)
  BY DEF LeaseQueued
<1>2. /\ clock \in Nat /\ job \in Job /\ job.next \in Nat /\ job.tries \in Nat
      /\ MaxAttempts \in Nat /\ LeaseMs \in Nat \ {0} /\ Cutoff \in Nat
      /\ worker \in [Workers -> Attempt]
  BY DEF IInv, TypeOK, Job, SettlementAssumption, CohortAssumption
<1>3. t \in Nat /\ clock <= t /\ job.next <= t
  <2>1. /\ MaxOf(clock, job.next) \in Nat
        /\ clock <= MaxOf(clock, job.next) /\ job.next <= MaxOf(clock, job.next)
    BY <1>2, Later
  <2>2. t \in Nat /\ MaxOf(clock, job.next) <= t
    BY <2>1, <1>1, Minted
  <2> QED
    BY <1>2, <2>1, <2>2
<1>4. /\ job.state = "queued" /\ Cutoff <= job.next /\ job.tries < MaxAttempts
      /\ UNCHANGED <<exposure, outcome, terms, certificate>>
  BY DEF LeaseQueued, IInv, JobInv
<1>5. /\ job'.state = "leased" /\ job'.tries = job.tries + 1 /\ job'.acq = t
      /\ job'.exp = t + LeaseMs /\ job'.cause = job.cause /\ job' \in Job
  <2>1. job' = [job EXCEPT !.state = "leased", !.tries = @ + 1, !.next = Never,
                           !.acq = t, !.exp = t + LeaseMs]
    BY <1>1 DEF Hand
  <2>2. /\ job.tries + 1 \in Nat /\ t + LeaseMs \in Nat /\ Never \in Nat
        /\ job.cause \in Causes
    BY <1>2, <1>3 DEF Never, Job
  <2>3. job' = [state |-> "leased", tries |-> job.tries + 1, next |-> Never,
                acq |-> t, exp |-> t + LeaseMs, cause |-> job.cause]
    BY <1>2, <2>1 DEF Job
  <2> QED
    BY <2>2, <2>3, <1>3 DEF Job
<1> DEFINE a == Outset("leased", job.tries + 1, t, "none")
<1>6. a \in Attempt /\ a.phase = "leased" /\ a.try = job.tries + 1 /\ a.at = t
      /\ a.read = {} /\ a.census.answered = {} /\ a.cause = "none"
  BY <1>2, <1>3 DEF Outset, Attempt, Phases, Causes, Census, NoCensus
<1>7. worker' = [worker EXCEPT ![w] = a] /\ clock' = t
  BY <1>1 DEF Hand
<1> HIDE DEF a
<1>8. TypeOK' /\ LedgerInv'
  BY <1>2, <1>3, <1>4, <1>5, <1>6, <1>7, LedgerStays DEF IInv, TypeOK
<1>9. JobInv'
  BY <1>2, <1>3, <1>4, <1>5, <1>7 DEF JobInv, DiesOnlyForCause, WindowTaken
<1>10. CertificateInv'
  BY <1>4, <1>5 DEF IInv, CertificateInv, SettledTogether, CertificateIsCensus, Certified
<1>11. ASSUME NEW v \in Workers
       PROVE  WorkerInv(v)'
  <2>1. CASE v = w
    <3>1. worker'[w] = a
      BY <1>2, <1>7
    <3> QED
      BY <2>1, <3>1, <1>2, <1>3, <1>4, <1>5, <1>6, <1>7
      DEF WorkerInv, LeaseInv, CauseInv, WindowTaken, ReadInv, Holds
  <2>2. CASE v # w
    <3>1. worker'[v] = worker[v] /\ clock' \in Nat /\ clock <= clock'
      BY <2>2, <1>2, <1>3, <1>7
    <3>2. job.tries <= job'.tries /\ ~(job'.tries <= job.tries)
      BY <1>2, <1>5
    <3> QED
      BY <1>2, <1>4, <1>5, <3>1, <3>2, BystanderKeeps
  <2> QED
    BY <2>1, <2>2
<1> QED
  BY <1>8, <1>9, <1>10, <1>11 DEF IInv

LEMMA RecoverKeeps ==
  ASSUME CohortAssumption, SettlementAssumption, IInv, NEW w \in Workers,
         Recover(w)
  PROVE  IInv'
<1>1. PICK r \in Instants(MaxOf(clock, job.exp)) :
        /\ clock' = r
        /\ job' = IF job.tries < MaxAttempts
                  THEN [job EXCEPT !.state = "queued", !.acq = Never,
                                   !.exp = Never, !.next = r + 1]
                  ELSE [job EXCEPT !.state = "dead", !.cause = "lapsed",
                                   !.acq = Never, !.exp = Never]
  BY DEF Recover
<1>2. /\ clock \in Nat /\ job \in Job /\ job.exp \in Nat /\ job.tries \in Nat
      /\ MaxAttempts \in Nat /\ Cutoff \in Nat /\ job.cause \in Causes /\ job.next \in Nat
  BY DEF IInv, TypeOK, Job, SettlementAssumption, CohortAssumption
<1>3. r \in Nat /\ clock <= r
  <2>1. MaxOf(clock, job.exp) \in Nat /\ clock <= MaxOf(clock, job.exp)
    BY <1>2, Later
  <2>2. r \in Nat /\ MaxOf(clock, job.exp) <= r
    BY <2>1, <1>1, Minted
  <2> QED
    BY <1>2, <2>1, <2>2
<1>4. /\ job.state = "leased" /\ job.tries <= MaxAttempts /\ Cutoff <= clock
      /\ UNCHANGED <<exposure, outcome, terms, worker, certificate>>
  BY DEF Recover, Lapsed, IInv, JobInv
<1>5. /\ job' \in Job /\ job'.tries = job.tries
      /\ \/ /\ job.tries < MaxAttempts /\ job'.state = "queued" /\ job'.next = r + 1
         \/ job.tries = MaxAttempts /\ job'.state = "dead" /\ job'.cause = "lapsed"
  <2>1. Never \in Nat /\ r + 1 \in Nat
    BY <1>3 DEF Never
  <2>2. CASE job.tries < MaxAttempts
    <3>1. job' = [state |-> "queued", tries |-> job.tries, next |-> r + 1,
                  acq |-> Never, exp |-> Never, cause |-> job.cause]
      BY <1>1, <1>2, <2>2 DEF Job
    <3> QED
      BY <1>2, <2>1, <2>2, <3>1 DEF Job
  <2>3. CASE ~(job.tries < MaxAttempts)
    <3>1. job' = [state |-> "dead", tries |-> job.tries, next |-> job.next,
                  acq |-> Never, exp |-> Never, cause |-> "lapsed"]
      BY <1>1, <1>2, <2>3 DEF Job
    <3>2. job.tries = MaxAttempts
      BY <1>2, <1>4, <2>3
    <3> QED
      BY <1>2, <2>1, <3>1, <3>2 DEF Job, Causes
  <2> QED
    BY <2>2, <2>3
<1>6. TypeOK' /\ LedgerInv'
  BY <1>1, <1>3, <1>4, <1>5, LedgerStays DEF IInv, TypeOK
<1>7. JobInv'
  <2>1. Cutoff <= r + 1 /\ Cutoff <= r
    BY <1>2, <1>3, <1>4
  <2> QED
    BY <1>1, <1>2, <1>3, <1>5, <2>1 DEF JobInv, DiesOnlyForCause, WindowTaken
<1>8. CertificateInv'
  <2>1. ~ Certified
    BY <1>4 DEF IInv, CertificateInv, SettledTogether
  <2> QED
    BY <2>1, <1>4, <1>5 DEF CertificateInv, SettledTogether, CertificateIsCensus, Certified
<1>9. ASSUME NEW v \in Workers
      PROVE  WorkerInv(v)'
  <2>1. /\ worker'[v] = worker[v] /\ clock' \in Nat /\ clock <= clock'
        /\ job'.state # "leased" /\ job.tries <= job'.tries
    BY <1>1, <1>2, <1>3, <1>4, <1>5
  <2> QED
    BY <1>2, <1>4, <1>5, <2>1, BystanderKeeps
<1> QED
  BY <1>6, <1>7, <1>8, <1>9 DEF IInv

(* The end of an attempt in a transaction: w is idle, the others look on.  *)
LEMMA OthersKeep ==
  ASSUME CohortAssumption, IInv, NEW w \in Workers,
         worker' = [worker EXCEPT ![w] = Idle],
         UNCHANGED <<exposure, outcome, terms>>,
         clock' \in Nat, clock <= clock', job' \in Job,
         job'.state # "leased", job'.tries = job.tries
  PROVE  worker' \in [Workers -> Attempt] /\ \A v \in Workers : WorkerInv(v)'
<1>1. clock \in Nat /\ job \in Job /\ worker \in [Workers -> Attempt]
      /\ job.tries \in Nat
  BY DEF IInv, TypeOK, Job
<1>2. Idle \in Attempt
  BY DEF Idle, Outset, Attempt, Phases, Causes, Never, Census, NoCensus
<1>3. worker'[w] = Idle
  BY <1>1
<1>4. WorkerInv(w)'
  BY <1>3 DEF Idle, Outset, WorkerInv, LeaseInv, CauseInv, WindowTaken, ReadInv, Holds
<1> HIDE DEF Idle
<1>5. worker' \in [Workers -> Attempt]
  BY <1>1, <1>2
<1>6. ASSUME NEW v \in Workers, v # w
      PROVE  WorkerInv(v)'
  <2>1. worker'[v] = worker[v] /\ job.tries <= job'.tries
    BY <1>1, <1>6
  <2> QED
    BY <1>1, <2>1, BystanderKeeps
<1> QED
  BY <1>4, <1>5, <1>6

(* A completion or a failure is stamped above the beginning of its lease.  *)
LEMMA Completed ==
  ASSUME SettlementAssumption, CohortAssumption, IInv, NEW w \in Workers, Holds(w),
         NEW t \in CompletionTimes(w), NEW f \in Instants(t)
  PROVE  t \in Nat /\ f \in Nat /\ clock <= f /\ job.acq < t /\ t <= f /\ Cutoff < f
<1>1. clock \in Nat /\ job.acq \in Nat /\ Cutoff \in Nat /\ job.acq + 1 \in Nat
  BY DEF IInv, TypeOK, Job, CohortAssumption
<1>2. Cutoff <= job.acq
  BY DEF Holds, IInv, JobInv
<1>3. /\ MaxOf(clock, job.acq + 1) \in Nat /\ clock <= MaxOf(clock, job.acq + 1)
      /\ job.acq + 1 <= MaxOf(clock, job.acq + 1)
  BY <1>1, Later
<1>4. t \in Nat /\ MaxOf(clock, job.acq + 1) <= t
  BY <1>3, Minted DEF CompletionTimes
<1>5. f \in Nat /\ t <= f
  BY <1>4, Minted
<1> QED
  BY <1>1, <1>2, <1>3, <1>4, <1>5

LEMMA CertifyKeeps ==
  ASSUME CohortAssumption, SettlementAssumption, IInv, NEW w \in Workers,
         Certify(w)
  PROVE  IInv'
<1>1. PICK t \in CompletionTimes(w) : \E f \in Instants(t) :
        /\ clock' = f
        /\ job' = [job EXCEPT !.state = "succeeded", !.acq = Never, !.exp = Never]
        /\ certificate' = Written(w, f)
  BY DEF Certify
<1>2. PICK f \in Instants(t) :
        /\ clock' = f
        /\ job' = [job EXCEPT !.state = "succeeded", !.acq = Never, !.exp = Never]
        /\ certificate' = Written(w, f)
  BY <1>1
<1>3. /\ worker[w].phase = "prepared" /\ Holds(w)
      /\ MaterialStands(worker[w].census, worker[w].at)
      /\ worker' = [worker EXCEPT ![w] = Idle] /\ UNCHANGED <<exposure, outcome, terms>>
  BY DEF Certify
<1>4. t \in Nat /\ f \in Nat /\ clock <= f /\ Cutoff < f /\ job.acq < t /\ t <= f
  BY <1>3, Completed
<1>5. /\ job \in Job /\ worker[w] \in Attempt /\ job.tries \in Nat /\ job.cause \in Causes
      /\ job.next \in Nat /\ job.tries <= MaxAttempts /\ Cutoff \in Nat
      /\ worker[w].try = job.tries /\ 1 <= job.tries
  BY <1>3 DEF IInv, TypeOK, Job, JobInv, CohortAssumption, Holds
<1>6. job' = [state |-> "succeeded", tries |-> job.tries, next |-> job.next,
              acq |-> Never, exp |-> Never, cause |-> job.cause]
  BY <1>2, <1>5 DEF Job
<1>7. job' \in Job /\ job'.tries = job.tries /\ job'.state = "succeeded"
  BY <1>5, <1>6 DEF Job, Never
<1>8. worker' \in [Workers -> Attempt] /\ \A v \in Workers : WorkerInv(v)'
  BY <1>2, <1>3, <1>4, <1>7, OthersKeep
<1>9. worker[w].at \in Nat /\ worker[w].at <= f
  <2>1. worker[w].at \in Nat /\ job.acq \in Nat /\ worker[w].at = job.acq
    BY <1>3, <1>5 DEF IInv, WorkerInv, LeaseInv, Attempt, Job
  <2> QED
    BY <2>1, <1>4
<1>10. certificate' \in Certificate /\ Hydrates(certificate')
  BY <1>2, <1>3, <1>4, <1>9, WrittenHydrates DEF IInv
<1>11. TypeOK' /\ LedgerInv'
  BY <1>2, <1>3, <1>4, <1>7, <1>8, <1>10, LedgerStays DEF IInv, TypeOK
<1>12. JobInv'
  BY <1>2, <1>4, <1>5, <1>7 DEF JobInv, DiesOnlyForCause, WindowTaken
<1>13. CertificateInv'
  <2>1. certificate'.try = job.tries /\ certificate'.census = LedgerCensus
    BY <1>2, <1>3, <1>5 DEF Written, MaterialStands, Binds
  <2>2. LedgerCensus' = LedgerCensus /\ Hydrates(certificate)'
    BY <1>3, <1>10, LedgerStays
    DEF Hydrates, Binds, MaterialStands, ReceiptStands, Named, MembersOf
  <2> QED
    BY <2>1, <2>2, <1>2, <1>4, <1>5, <1>7
    DEF CertificateInv, SettledTogether, CertificateIsCensus, Certified
<1> QED
  BY <1>8, <1>11, <1>12, <1>13 DEF IInv

LEMMA ReportFailureKeeps ==
  ASSUME CohortAssumption, SettlementAssumption, IInv, NEW w \in Workers,
         ReportFailure(w)
  PROVE  IInv'
<1>1. PICK t \in CompletionTimes(w) : \E f \in Instants(t) :
        /\ f < job.exp /\ clock' = f
        /\ job' = IF DeadAfter(w)
                  THEN [job EXCEPT !.state = "dead", !.cause = Reported(w),
                                   !.acq = Never, !.exp = Never]
                  ELSE [job EXCEPT !.state = "queued", !.acq = Never, !.exp = Never,
                                   !.next = MaxOf(job.acq + PollMs, t + 1)]
  BY DEF ReportFailure
<1>2. PICK f \in Instants(t) :
        /\ clock' = f
        /\ job' = IF DeadAfter(w)
                  THEN [job EXCEPT !.state = "dead", !.cause = Reported(w),
                                   !.acq = Never, !.exp = Never]
                  ELSE [job EXCEPT !.state = "queued", !.acq = Never, !.exp = Never,
                                   !.next = MaxOf(job.acq + PollMs, t + 1)]
  BY <1>1
<1>3. /\ worker[w].phase = "failed" /\ Holds(w)
      /\ worker' = [worker EXCEPT ![w] = Idle]
      /\ UNCHANGED <<exposure, outcome, terms, certificate>>
  BY DEF ReportFailure
<1>4. t \in Nat /\ f \in Nat /\ clock <= f /\ Cutoff < f /\ job.acq < t
  BY <1>3, Completed
<1>5. /\ job \in Job /\ worker[w] \in Attempt /\ job.tries \in Nat /\ job.cause \in Causes
      /\ job.next \in Nat /\ job.tries <= MaxAttempts /\ Cutoff \in Nat
      /\ MaxAttempts \in Nat /\ job.acq \in Nat /\ PollMs \in Nat
      /\ worker[w].cause \in Causes /\ Cutoff <= job.acq /\ job.state = "leased"
  BY <1>3 DEF IInv, TypeOK, Job, Attempt, JobInv, CohortAssumption,
              SettlementAssumption, Holds
<1> DEFINE due == MaxOf(job.acq + PollMs, t + 1)
<1>6. due \in Nat /\ Cutoff <= due
  <2>1. job.acq + PollMs \in Nat /\ t + 1 \in Nat
    BY <1>4, <1>5
  <2>2. due \in Nat /\ t + 1 <= due
    BY <2>1, Later
  <2> HIDE DEF due
  <2> QED
    BY <1>4, <1>5, <2>2
<1>7. CauseInv(w) /\ worker[w].cause # "none"
  BY <1>3 DEF IInv, WorkerInv, LeaseInv
<1>8. CASE DeadAfter(w)
  <2>1. job' = [state |-> "dead", tries |-> job.tries, next |-> job.next,
                acq |-> Never, exp |-> Never, cause |-> worker[w].cause]
    BY <1>2, <1>5, <1>8 DEF Job, Reported
  <2>2. job' \in Job /\ job'.tries = job.tries /\ job'.state = "dead"
        /\ job'.cause = worker[w].cause
    BY <1>5, <2>1 DEF Job, Never
  <2>3. worker' \in [Workers -> Attempt] /\ \A v \in Workers : WorkerInv(v)'
    BY <1>2, <1>3, <1>4, <2>2, OthersKeep
  <2>4. TypeOK' /\ LedgerInv'
    BY <1>2, <1>3, <1>4, <2>2, <2>3, LedgerStays DEF IInv, TypeOK
  <2>5. JobInv'
    <3>1. DiesOnlyForCause'
      <4>1. CASE worker[w].cause \in Retryable
        <5>1. job.tries = MaxAttempts
          BY <1>5, <1>8, <4>1 DEF DeadAfter
        <5> QED
          BY <5>1, <2>2, <4>1 DEF DiesOnlyForCause, WindowTaken
      <4>2. CASE worker[w].cause \notin Retryable
        <5>1. worker[w].cause \in {"expired", "overflow", "unsigned", "overtaken"}
          BY <1>5, <1>7, <4>2 DEF CauseInv, Causes, Retryable
        <5>2. CensusMembers' = CensusMembers /\ Overtaken(Cutoff)' = Overtaken(Cutoff)
          BY <1>3, LedgerStays
        <5> QED
          BY <5>1, <5>2, <1>3, <1>7, <2>2 DEF CauseInv, WindowTaken, DiesOnlyForCause
      <4> QED
        BY <4>1, <4>2
    <3> QED
      BY <3>1, <1>2, <1>4, <1>5, <2>2 DEF JobInv
  <2>6. CertificateInv'
    BY <1>3, <1>5, <2>2 DEF IInv, CertificateInv, SettledTogether, CertificateIsCensus,
                            Certified
  <2> QED
    BY <2>3, <2>4, <2>5, <2>6 DEF IInv
<1>9. CASE ~ DeadAfter(w)
  <2>1. job' = [state |-> "queued", tries |-> job.tries, next |-> due,
                acq |-> Never, exp |-> Never, cause |-> job.cause]
    BY <1>2, <1>5, <1>9 DEF Job
  <2> HIDE DEF due
  <2>2. job' \in Job /\ job'.tries = job.tries /\ job'.state = "queued" /\ job'.next = due
    BY <1>5, <1>6, <2>1 DEF Job, Never
  <2>3. worker' \in [Workers -> Attempt] /\ \A v \in Workers : WorkerInv(v)'
    BY <1>2, <1>3, <1>4, <2>2, OthersKeep
  <2>4. TypeOK' /\ LedgerInv'
    BY <1>2, <1>3, <1>4, <2>2, <2>3, LedgerStays DEF IInv, TypeOK
  <2>5. JobInv'
    <3>1. job.tries < MaxAttempts
      BY <1>5, <1>9 DEF DeadAfter
    <3> QED
      BY <3>1, <1>5, <1>6, <2>2 DEF JobInv, DiesOnlyForCause, WindowTaken
  <2>6. CertificateInv'
    BY <1>3, <1>5, <2>2 DEF IInv, CertificateInv, SettledTogether, CertificateIsCensus,
                            Certified
  <2> QED
    BY <2>3, <2>4, <2>5, <2>6 DEF IInv
<1> QED
  BY <1>8, <1>9

-----------------------------------------------------------------------------
LEMMA InitInv ==
  ASSUME CohortAssumption, SettlementAssumption, Init
  PROVE  IInv
<1>1. Cutoff \in Nat /\ MaxAttempts \in Nat \ {0} /\ Never \in Nat /\ 1 \in Nat
  BY DEF CohortAssumption, SettlementAssumption, Never
<1>2. Idle \in Attempt
  BY DEF Idle, Outset, Attempt, Phases, Causes, Never, Census, NoCensus
<1>3. NoCertificate \in Certificate
  <2>1. NoCensus \in Census
    BY DEF NoCensus, Census
  <2> QED
    BY <1>1, <2>1 DEF NoCertificate, Certificate, Receipt
<1>4. TypeOK
  <2>1. exposure \in [Decisions -> Exposure]
    BY <1>1 DEF Init, Exposure
  <2>2. job \in Job
    BY <1>1 DEF Init, Job, Causes, SettlementFrom
  <2>3. worker \in [Workers -> Attempt]
    BY <1>2 DEF Init
  <2> QED
    BY <1>1, <1>3, <2>1, <2>2, <2>3 DEF Init, TypeOK
<1>5. JobInv
  BY <1>1 DEF Init, JobInv, DiesOnlyForCause, WindowTaken, SettlementFrom
<1>6. LedgerInv
  <2>1. {d \in Decisions : Exposed(d)} = {}
    BY DEF Init, Exposed
  <2> QED
    BY <2>1, FS_EmptySet DEF Init, LedgerInv
<1>7. CertificateInv
  BY DEF Init, NoCertificate, CertificateInv, SettledTogether, CertificateIsCensus, Certified
<1>8. ASSUME NEW w \in Workers
      PROVE  WorkerInv(w)
  <2>1. worker[w] = Idle
    BY DEF Init
  <2> QED
    BY <2>1 DEF Init, Idle, Outset, WorkerInv, LeaseInv, CauseInv, WindowTaken, ReadInv, Holds
<1> QED
  BY <1>4, <1>5, <1>6, <1>7, <1>8 DEF IInv

LEMMA WorkKeeps ==
  ASSUME CohortAssumption, SettlementAssumption, IInv, NEW w \in Workers,
         Works(w) \/ StorageTrouble(w) \/ Crash(w)
  PROVE  IInv'
<1>1. CASE LeaseQueued(w)
  BY <1>1, LeaseQueuedKeeps
<1>2. CASE Recover(w)
  BY <1>2, RecoverKeeps
<1>3. CASE BeginCensus(w)
  BY <1>3, BeginCensusKeeps
<1>4. CASE FinishCensus(w)
  BY <1>4, FinishCensusKeeps
<1>5. ASSUME NEW d \in Decisions, ReadMember(w, d)
      PROVE  IInv'
  BY <1>5, ReadMemberKeeps
<1>6. CASE Certify(w)
  BY <1>6, CertifyKeeps
<1>7. CASE Refuse(w)
  BY <1>7, RefuseKeeps
<1>8. CASE ReportFailure(w)
  BY <1>8, ReportFailureKeeps
<1>9. CASE Abandon(w)
  BY <1>9, IdleKeeps DEF Abandon
<1>10. CASE Crash(w)
  BY <1>10, IdleKeeps DEF Crash
<1>11. CASE StorageTrouble(w)
  <2>1. worker[w].phase # "idle" /\ GiveUp(w, "storage") /\ LedgerUnchanged
    BY <1>11 DEF StorageTrouble
  <2> QED
    BY <2>1, GiveUpKeeps DEF Causes
<1> QED
  BY <1>1, <1>2, <1>3, <1>4, <1>5, <1>6, <1>7, <1>8, <1>9, <1>10, <1>11 DEF Works

LEMMA StutterKeeps ==
  ASSUME IInv, UNCHANGED vars
  PROVE  IInv'
<1>1. UNCHANGED <<clock, exposure, outcome, terms, job, worker, certificate>>
  BY DEF vars
<1>2. TypeOK' /\ LedgerInv'
  BY <1>1, LedgerStays DEF IInv, TypeOK
<1>3. JobInv'
  BY <1>1 DEF IInv, JobInv, DiesOnlyForCause, WindowTaken, Overtaken, CensusMembers
<1>4. CertificateInv'
  BY <1>1, LedgerStays, CertificateStands
  DEF IInv, CertificateInv, SettledTogether, Certified
<1>5. ASSUME NEW w \in Workers
      PROVE  WorkerInv(w)'
  BY <1>1, LedgerStays
  DEF IInv, WorkerInv, LeaseInv, CauseInv, WindowTaken, ReadInv, Holds
<1> QED
  BY <1>2, <1>3, <1>4, <1>5 DEF IInv

LEMMA NextInv ==
  ASSUME CohortAssumption, SettlementAssumption, IInv, [Next]_vars
  PROVE  IInv'
<1>1. ASSUME NEW d \in Decisions, CreateContinuation(d) \/ RecordOutcome(d)
      PROVE  IInv'
  BY <1>1, HostKeeps
<1>2. ASSUME NEW w \in Workers, Works(w) \/ StorageTrouble(w) \/ Crash(w)
      PROVE  IInv'
  BY <1>2, WorkKeeps
<1>3. CASE UNCHANGED vars
  BY <1>3, StutterKeeps
<1> QED
  BY <1>1, <1>2, <1>3 DEF Next

THEOREM Inductive == Spec => []IInv
<1>1. Init => IInv
  BY InitInv, CohortAssumption, SettlementAssumption
<1>2. IInv /\ [Next]_vars => IInv'
  BY NextInv, CohortAssumption, SettlementAssumption
<1> QED
  BY <1>1, <1>2, PTL DEF Spec

(* Every reachable state of ledger, job and workers is well typed.         *)
THEOREM TypeCorrect == Spec => []TypeOK
<1>1. IInv => TypeOK
  BY DEF IInv
<1> QED
  BY <1>1, Inductive, PTL

(* A certificate is the census of its cohort, and stays so whatever hosts  *)
(* append afterwards (rebuildEffectSettlementCensusV1, the window of       *)
(* appendOutcomeBundle): hydrateEffectCertificateRowV1 never finds fault   *)
(* with it, its effect events or its receipt.                              *)
THEOREM CertificateAlwaysCensus == Spec => []CertificateIsCensus
<1>1. IInv => CertificateIsCensus
  BY DEF IInv, CertificateInv
<1> QED
  BY <1>1, Inductive, PTL

(* Certificate and completed job come together, under the last lease.      *)
THEOREM AlwaysSettledTogether == Spec => []SettledTogether
<1>1. IInv => SettledTogether
  BY DEF IInv, CertificateInv
<1> QED
  BY <1>1, Inductive, PTL

(* The retry of a drifted census is for leases of the cutoff's millisecond *)
(* alone (settlementCensusChangedDuringCommit).                            *)
THEOREM DriftAlwaysAtTheCutoff == Spec => []DriftOnlyAtTheCutoff
<1>1. IInv => DriftOnlyAtTheCutoff
  BY DEF IInv, WorkerInv, CauseInv, DriftOnlyAtTheCutoff
<1> QED
  BY <1>1, Inductive, PTL

(* A settlement that is lost has spent its attempts, or was lost to one of *)
(* four causes that no attempt can mend.                                   *)
THEOREM AlwaysDiesForCause == Spec => []DiesOnlyForCause
<1>1. IInv => DiesOnlyForCause
  BY DEF IInv, JobInv
<1> QED
  BY <1>1, Inductive, PTL

(* Past the cutoff the census of the ledger does not change any more.      *)
THEOREM AlwaysClosed == Spec => CensusClosed
<1>1. IInv /\ [Next]_vars => (clock > Cutoff => LedgerCensus' = LedgerCensus)
  <2> SUFFICES ASSUME IInv, [Next]_vars, clock > Cutoff
               PROVE  LedgerCensus' = LedgerCensus
    OBVIOUS
  <2>1. clock \in Nat /\ Cutoff \in Nat /\ Cutoff < clock /\ Cutoff <= clock
    BY CohortAssumption DEF IInv, TypeOK, CohortAssumption
  <2>2. ASSUME NEW d \in Decisions, CreateContinuation(d) \/ RecordOutcome(d)
        PROVE  LedgerCensus' = LedgerCensus
    <3>1. CensusMembers' = CensusMembers
      BY <2>1, <2>2, HostAdds, CohortAssumption, SettlementAssumption DEF IInv
    <3>2. \A x \in CensusMembers : outcome'[x] = outcome[x]
      BY <2>1, <2>2, HostAdds, CohortAssumption, SettlementAssumption DEF IInv
    <3>3. {x \in CensusMembers : outcome'[x] # Never} =
          {x \in CensusMembers : outcome[x] # Never}
      BY <3>2
    <3> QED
      BY <3>1, <3>3 DEF LedgerCensus
  <2>3. ASSUME NEW w \in Workers, Works(w) \/ StorageTrouble(w) \/ Crash(w)
        PROVE  UNCHANGED <<exposure, outcome, terms>>
    BY <2>3 DEF Works, LeaseQueued, Recover, BeginCensus, FinishCensus, ReadMember,
                Certify, Refuse, ReportFailure, Abandon, StorageTrouble, Crash,
                LedgerUnchanged
  <2>4. CASE UNCHANGED vars
    BY <2>4, LedgerStays DEF vars
  <2> QED
    BY <2>2, <2>3, <2>4, LedgerStays DEF Next
<1> QED
  BY <1>1, Inductive, PTL DEF Spec, CensusClosed, vars

(* Neither a certificate nor the end of a settlement is ever revised.      *)
THEOREM AlwaysSettledForGood == Spec => SettledForGood
<1>1. [Next]_vars =>
        (job.state \in {"succeeded", "dead"} =>
           job' = job /\ certificate' = certificate)
  <2> SUFFICES ASSUME [Next]_vars, job.state \in {"succeeded", "dead"}
               PROVE  job' = job /\ certificate' = certificate
    OBVIOUS
  <2>1. ASSUME NEW d \in Decisions, CreateContinuation(d) \/ RecordOutcome(d)
        PROVE  job' = job /\ certificate' = certificate
    BY <2>1 DEF CreateContinuation, RecordOutcome
  <2>2. ASSUME NEW w \in Workers, Works(w) \/ StorageTrouble(w) \/ Crash(w)
        PROVE  job' = job /\ certificate' = certificate
    BY <2>2 DEF Works, LeaseQueued, Recover, Lapsed, BeginCensus, FinishCensus,
                ReadMember, Certify, Refuse, ReportFailure, Holds, Abandon,
                StorageTrouble, Crash, LedgerUnchanged
  <2>3. CASE UNCHANGED vars
    BY <2>3 DEF vars
  <2> QED
    BY <2>1, <2>2, <2>3 DEF Next
<1> QED
  BY <1>1, PTL DEF Spec, SettledForGood, vars

-----------------------------------------------------------------------------
(* The verdict: what the intervals say of two arms.                        *)

LEMMA LeastNatural ==
  ASSUME NEW T \in SUBSET Nat, T # {}
  PROVE  \E x \in T : \A y \in T : x =< y
  <1> DEFINE Less == {p \in Nat \X Nat : p[1] < p[2]}
  <1>1. IsWellFoundedOn(Less, Nat)
    BY NatLessThanWellFounded DEF OpToRel
  <1>2. \A x, y \in Nat : x < y => <<x, y>> \in Less
    OBVIOUS
  <1> HIDE DEF Less
  <1>3. PICK x \in T : \A y \in T : <<y, x>> \notin Less
    BY <1>1, WFMin
  <1>4. \A y \in T : ~(y < x)
    BY <1>2, <1>3
  <1> QED
    BY <1>3, <1>4

(* Squares order numbers as the numbers do.                                *)
LEMMA SquaresOrder ==
  ASSUME NEW x \in Nat, NEW y \in Nat, x * x < y * y
  PROVE  x < y
<1>1. ASSUME y <= x PROVE FALSE
  <2>1. PICK d \in Nat : x = y + d
    <3>1. x - y \in Nat /\ x = y + (x - y)
      BY <1>1
    <3> QED
      BY <3>1
  <2>2. x * x = y * y + 2 * y * d + d * d
    BY <2>1
  <2>3. y * d \in Nat /\ d * d \in Nat
    OBVIOUS
  <2> QED
    BY <2>2, <2>3
<1> QED
  BY <1>1

(* The floor of a quotient.                                                *)
LEMMA FloorBounds ==
  ASSUME NEW a \in Int, NEW b \in Nat \ {0}
  PROVE  a \div b \in Int /\ b * (a \div b) <= a /\ a < b * (a \div b) + b
OBVIOUS

LEMMA RootBrackets ==
  ASSUME NEW n \in Nat
  PROVE  Root(n) \in Nat /\ Brackets(Root(n), 1, n)
<1> DEFINE H == {h \in Nat : n < (100 * h + 100) * (100 * h + 100)}
           R == {r \in Nat : n < (r + 1) * (r + 1)}
<1>1. PICK h \in H : \A k \in H : h =< k
  <2>1. n * n \in Nat /\ (100 * n + 100) * (100 * n + 100) = 10000 * (n * n) + 20000 * n + 10000
    OBVIOUS
  <2>2. n \in H
    BY <2>1
  <2>3. H \in SUBSET Nat /\ H # {}
    BY <2>2
  <2> HIDE DEF H
  <2> QED
    BY <2>3, LeastNatural
<1>2. PICK r \in R : \A k \in R : r =< k
  <2>1. n * n \in Nat /\ (n + 1) * (n + 1) = n * n + 2 * n + 1
    OBVIOUS
  <2>2. n \in R
    BY <2>1
  <2>3. R \in SUBSET Nat /\ R # {}
    BY <2>2
  <2> HIDE DEF R
  <2> QED
    BY <2>3, LeastNatural
<1>3. Brackets(100 * h, 100, n)
  <2>1. CASE h = 0
    BY <2>1, <1>1 DEF Brackets
  <2>2. CASE h # 0
    <3>1. h - 1 \in Nat /\ h - 1 \notin H
      BY <1>1, <2>2
    <3>2. 100 * (h - 1) + 100 = 100 * h
      OBVIOUS
    <3> QED
      BY <1>1, <3>1, <3>2 DEF Brackets
  <2> QED
    BY <2>1, <2>2
<1>4. Brackets(r, 1, n)
  <2>1. CASE r = 0
    BY <2>1, <1>2 DEF Brackets
  <2>2. CASE r # 0
    <3>1. r - 1 \in Nat /\ r - 1 \notin R
      BY <1>2, <2>2
    <3>2. r - 1 + 1 = r
      OBVIOUS
    <3> QED
      BY <1>2, <3>1, <3>2 DEF Brackets
  <2> QED
    BY <2>1, <2>2
<1> HIDE DEF H, R
<1>5. h \in Nat /\ r \in Nat
  BY DEF H, R
<1>6. h \in 0 .. (n \div 10000)
  <2>1. h * h \in Nat /\ (100 * h) * (100 * h) = 10000 * (h * h)
    BY <1>5
  <2>2. h <= h * h
    BY <1>5
  <2>3. 10000 * h <= n
    BY <1>3, <1>5, <2>1, <2>2 DEF Brackets
  <2> QED
    BY <1>5, <2>3
<1> DEFINE g == Hundreds(n)
<1>7. g \in Nat /\ Brackets(100 * g, 100, n)
  <2> DEFINE Below == 0 .. (n \div 10000)
             P(x) == Brackets(100 * x, 100, n)
  <2>0. \E x \in Below : P(x)
    BY <1>3, <1>6
  <2>1. g \in Below /\ P(g)
    <3> HIDE DEF Below, P
    <3>1. (CHOOSE x \in Below : P(x)) \in Below /\ P(CHOOSE x \in Below : P(x))
      BY <2>0, Zenon
    <3> QED
      BY <3>1 DEF Hundreds, g, Below, P
  <2> QED
    BY <2>1
<1> HIDE DEF g
<1>8. r \in 100 * g .. 100 * g + 99
  <2>1. 100 * g < r + 1
    BY <1>4, <1>5, <1>7, SquaresOrder DEF Brackets
  <2>2. r < 100 * g + 100
    BY <1>4, <1>5, <1>7, SquaresOrder DEF Brackets
  <2> QED
    BY <1>5, <1>7, <2>1, <2>2
<1>9. Root(n) \in 100 * g .. 100 * g + 99 /\ Brackets(Root(n), 1, n)
  BY <1>4, <1>8 DEF Root, g
<1> QED
  BY <1>7, <1>9

(* A rate estimated from observations has an interval of some width, and   *)
(* excludes neither certainty by nature; from none it may be anything.     *)
LEMMA IntervalBounds ==
  ASSUME NEW s \in Nat, NEW n \in Nat, s <= n, NEW confidence \in Confidences
  PROVE  /\ RateInterval(s, n, confidence).lower \in Int
         /\ RateInterval(s, n, confidence).upper \in Int
         /\ RateInterval(s, n, confidence).lower < RateInterval(s, n, confidence).upper
         /\ IF n = 0 THEN /\ RateInterval(s, n, confidence).lower = 0
                          /\ RateInterval(s, n, confidence).upper = 10000
                     ELSE /\ RateInterval(s, n, confidence).lower < 10000
                          /\ RateInterval(s, n, confidence).upper > 0
<1>1. CASE n = 0
  BY <1>1 DEF RateInterval
<1>2. CASE n # 0
  <2> DEFINE z2 == ZSquared[confidence]
             shifted == (4 * Thousand * s * (n - s)) \div n
             arg == z2 * (shifted + z2)
             root == Root(arg)
             center == 2 * Thousand * s + z2
             scale == 2 * (Thousand * n + z2)
             low == 10000 * (center - root)
             high == 10000 * (center + root)
  <2>1. z2 \in {2706, 3841, 6635}
    BY DEF ZSquared, Confidences
  <2>2. shifted \in Nat
    <3>1. s * (n - s) \in Nat
      OBVIOUS
    <3>2. 4 * Thousand * s * (n - s) = 4000 * (s * (n - s))
      BY DEF Thousand
    <3>3. 4 * Thousand * s * (n - s) \in Nat
      BY <3>1, <3>2
    <3> HIDE DEF z2
    <3> QED
      BY <1>2, <3>3, FloorBounds
  <2> HIDE DEF shifted, z2
  <2>3. arg \in Nat /\ arg >= 1
    BY <2>1, <2>2
  <2> HIDE DEF arg
  <2>4. root \in Nat /\ root >= 1
    <3>1. root \in Nat /\ arg < (root + 1) * (root + 1)
      BY <2>3, RootBrackets DEF Brackets
    <3> HIDE DEF root
    <3>2. root # 0
      BY <2>3, <3>1
    <3> QED
      BY <3>1, <3>2
  <2>5. /\ RateInterval(s, n, confidence).lower = low \div scale
        /\ RateInterval(s, n, confidence).upper = - ((- high) \div scale)
    BY <1>2 DEF RateInterval, Ceiling, z2, shifted, arg
  <2> HIDE DEF root
  <2>6. /\ scale \in Nat \ {0} /\ low \in Int /\ high \in Int /\ - high \in Int
        /\ low < high /\ low < 10000 * scale /\ 0 < high
    BY <1>2, <2>1, <2>4 DEF Thousand
  <2> HIDE DEF low, high, scale
  <2> DEFINE a == low \div scale
             b == (- high) \div scale
  <2>7. a \in Int /\ b \in Int /\ scale * a <= low /\ scale * b <= - high
    BY <2>6, FloorBounds
  <2> HIDE DEF a, b
  <2>8. a < 10000
    <3>1. ASSUME a >= 10000 PROVE FALSE
      <4>1. scale * a >= scale * 10000
        BY <2>6, <2>7, <3>1
      <4> QED
        BY <2>6, <2>7, <4>1
    <3> QED
      BY <2>7, <3>1
  <2>9. b < 0
    <3>1. ASSUME b >= 0 PROVE FALSE
      <4>1. scale * b >= 0
        BY <2>6, <2>7, <3>1
      <4> QED
        BY <2>6, <2>7, <4>1
    <3> QED
      BY <2>7, <3>1
  <2>10. a + b < 0
    <3>1. scale * (a + b) = scale * a + scale * b
      BY <2>6, <2>7
    <3>2. scale * (a + b) < 0
      BY <2>6, <2>7, <3>1
    <3>3. ASSUME a + b >= 0 PROVE FALSE
      <4>1. scale * (a + b) >= 0
        BY <2>6, <2>7, <3>3
      <4> QED
        BY <3>2, <4>1, <2>6, <2>7
    <3> QED
      BY <2>7, <3>3
  <2> QED
    BY <1>2, <2>5, <2>7, <2>8, <2>9, <2>10 DEF a, b
<1> QED
  BY <1>1, <1>2

LEMMA ArmFields ==
  ASSUME NEW arm \in ArmCounts
  PROVE  /\ Observed(arm) \in Nat
         /\ arm.failed \in Nat /\ arm.failed <= Observed(arm)
         /\ arm.succeeded \in Nat /\ arm.succeeded <= Observed(arm)
<1>1. arm.succeeded \in Nat /\ arm.partial \in Nat /\ arm.failed \in Nat
  BY EvidenceAssumption DEF ArmCounts, Outcomes
<1> QED
  BY <1>1 DEF Observed

LEMMA PolicyFields ==
  ASSUME NEW p \in AdmissionPolicy
  PROVE  /\ p.confidence \in Confidences /\ p.maxMissingness \in Nat
         /\ p.harmMargin \in Nat /\ p.utilityLift \in Nat
<1>1. /\ p.confidence \in Confidences /\ p.maxMissingness \in BasisPoints
      /\ p.harmMargin \in BasisPoints /\ p.utilityLift \in BasisPoints
  BY DEF AdmissionPolicy
<1>2. \A x : x \in BasisPoints => x \in Nat
  BY DEF BasisPoints
<1> QED
  BY <1>1, <1>2, Zenon

LEMMA EarnedByObservations ==
  AdmissionIsEarned
<1> SUFFICES ASSUME NEW p \in EvidencePolicies,
                    NEW control \in ArmCounts, NEW candidate \in ArmCounts,
                    Admitted(p, control, candidate)
             PROVE  /\ Observed(control) > 0 /\ Observed(candidate) > 0
                    /\ ~ Admitted(p, candidate, control)
  BY DEF AdmissionIsEarned
<1>1. p.confidence \in Confidences /\ p.utilityLift \in Nat
  BY EvidenceAssumption, PolicyFields
<1> DEFINE of(arm) == RateInterval(arm.succeeded, Observed(arm), p.confidence)
<1>2. \A arm \in ArmCounts :
        /\ of(arm).lower \in Int /\ of(arm).upper \in Int
        /\ of(arm).lower < of(arm).upper
        /\ IF Observed(arm) = 0 THEN of(arm).lower = 0 /\ of(arm).upper = 10000
                                ELSE of(arm).lower < 10000 /\ of(arm).upper > 0
  BY <1>1, ArmFields, IntervalBounds
<1>3. \A x, y \in ArmCounts : Admitted(p, x, y) => of(y).lower - of(x).upper >= p.utilityLift
  BY DEF Admitted, Utility, Difference
<1> HIDE DEF of
<1>4. of(candidate).lower >= of(control).upper
  BY <1>1, <1>2, <1>3
<1>5. Observed(control) # 0
  BY <1>2, <1>4
<1>6. Observed(candidate) # 0
  BY <1>2, <1>4
<1>7. ~ Admitted(p, candidate, control)
  BY <1>1, <1>2, <1>3, <1>4
<1> QED
  BY <1>5, <1>6, <1>7, ArmFields

(* Whatever the policy and however many exposures, a treatment is admitted *)
(* only on observations of both arms, and the same counts with the arms    *)
(* exchanged would not have been: the intervals the code rounds outward    *)
(* never touch from both sides.                                            *)
THEOREM VerdictsAreEarned == Spec => []VerdictIsEarned
<1>1. VerdictIsEarned
  BY EarnedByObservations DEF VerdictIsEarned
<1> QED
  BY <1>1, PTL

-----------------------------------------------------------------------------
(* How a bound moves when one outcome more is of the counted kind: the     *)
(* arithmetic, of whole numbers only.  s of n were counted and m were not, *)
(* z2 is the square of z; the root of z2 * (a + z2), where a is the        *)
(* quotient of 4000 * s * m by n, is the width of the interval.            *)

(* Multiples of numbers are ordered as the numbers are.                    *)
LEMMA Scaled ==
  ASSUME NEW k \in Nat, NEW x \in Int, NEW y \in Int, x <= y
  PROVE  k * x <= k * y
<1>1. y - x \in Nat /\ k * (y - x) \in Nat /\ k * y = k * x + k * (y - x)
  OBVIOUS
<1> QED
  BY <1>1

(* The quotient under the root grows by little when s and n grow by one.   *)
LEMMA ShiftGrows ==
  ASSUME NEW s \in Nat, NEW m \in Nat, NEW n \in Nat \ {0}, n = s + m,
         NEW a \in Nat, 4000 * (s * m) < n * a + n,
         NEW b \in Nat, (n + 1) * b <= 4000 * ((s + 1) * m)
  PROVE  (n * (n + 1)) * (b - a) <= 4000 * (m * m) + n * (n + 1)
<1>1. n * ((n + 1) * b) <= n * (4000 * ((s + 1) * m))
  OBVIOUS
<1>2. (n + 1) * (4000 * (s * m)) <= (n + 1) * (n * a + n)
  <2>1. \A x, y \in Nat : x < y => (n + 1) * x <= (n + 1) * y
    OBVIOUS
  <2>2. 4000 * (s * m) \in Nat /\ n * a + n \in Nat
    OBVIOUS
  <2> QED
    BY <2>1, <2>2
<1>3. n * ((s + 1) * m) = (n + 1) * (s * m) + m * m
  <2>1. n * ((s + 1) * m) = n * (s * m) + n * m
    OBVIOUS
  <2>2. n * m = s * m + m * m
    OBVIOUS
  <2> QED
    BY <2>1, <2>2
<1>4. /\ n * ((n + 1) * b) = (n * (n + 1)) * b
      /\ (n + 1) * (n * a + n) = (n * (n + 1)) * a + n * (n + 1)
  OBVIOUS
<1>5. (n * (n + 1)) * (b - a) = (n * (n + 1)) * b - (n * (n + 1)) * a
  OBVIOUS
<1>6. /\ n * (4000 * ((s + 1) * m)) = 4000 * (n * ((s + 1) * m))
      /\ (n + 1) * (4000 * (s * m)) = 4000 * ((n + 1) * (s * m))
  OBVIOUS
<1> DEFINE x == n * ((s + 1) * m)  y == (n + 1) * (s * m)
           u == n * (n + 1) q == m * m
<1> QED
  BY <1>1, <1>2, <1>3, <1>4, <1>5, <1>6

(* A root that grows by more than t / h grows by the square of that and by *)
(* what the old root adds to it, less what its rounding hid.               *)
LEMMA RootGrowth ==
  ASSUME NEW r \in Nat, NEW q \in Nat, NEW g \in Nat,
         NEW h \in Nat, NEW t \in Nat,
         q * q <= (r + 1) * (r + 1) + g,
         h * (q - r) > t
  PROVE  t * t + 2 * (h * (r * t)) <= (h * h) * (2 * r + 1 + g)
<1>1. q > r
  <2>1. ASSUME q <= r PROVE FALSE
    <3>1. h * (q - r) <= h * 0
      BY <2>1, Scaled
    <3> QED
      BY <3>1
  <2> QED
    BY <2>1
<1> DEFINE d == q - r
<1>2. d \in Nat /\ q = r + d
  BY <1>1
<1> HIDE DEF d
<1>3. d * d + 2 * (r * d) <= 2 * r + 1 + g
  BY <1>2
<1>4. (h * h) * (d * d + 2 * (r * d)) <= (h * h) * (2 * r + 1 + g)
  <2>1. h * h \in Nat /\ d * d + 2 * (r * d) \in Int
    BY <1>2
  <2> QED
    BY <2>1, <1>3, Scaled
<1>5. (h * h) * (d * d + 2 * (r * d)) = (h * d) * (h * d) + 2 * ((h * r) * (h * d))
  BY <1>2
<1>6. h * d \in Nat /\ t <= h * d
  BY <1>2
<1>7. t * t <= (h * d) * (h * d)
  <2>1. t * t <= t * (h * d) /\ (h * d) * t <= (h * d) * (h * d)
    BY <1>6, Scaled
  <2> QED
    BY <2>1, <1>6
<1>8. (h * r) * t <= (h * r) * (h * d)
  BY <1>6, Scaled
<1>9. (h * r) * t = h * (r * t)
  OBVIOUS
<1> QED
  BY <1>4, <1>5, <1>7, <1>8, <1>9

(* The bound of RootGrowth for the growth of the quotient, which ShiftGrows *)
(* gives in P-ths.                                                         *)
LEMMA Weighed ==
  ASSUME NEW z2 \in Nat, NEW r \in Nat, NEW P \in Nat, NEW M \in Nat,
         NEW h \in Nat, NEW x \in Nat, NEW w \in Nat,
         P * w <= 4000 * M + P,
         x <= (h * h) * (2 * r + 1 + z2 * w)
  PROVE  P * x <= (h * h) * (P * (2 * r + 1 + z2) + 4000 * (z2 * M))
<1>1. P * x <= P * ((h * h) * (2 * r + 1 + z2 * w))
  BY Scaled
<1>2. z2 * (P * w) <= z2 * (4000 * M + P)
  BY Scaled
<1>3. P * (2 * r + 1 + z2 * w) <= P * (2 * r + 1 + z2) + 4000 * (z2 * M)
  <2>1. P * (2 * r + 1 + z2 * w) = P * (2 * r + 1) + z2 * (P * w)
    OBVIOUS
  <2>2. P * (2 * r + 1 + z2) = P * (2 * r + 1) + z2 * P
    OBVIOUS
  <2>3. z2 * (4000 * M + P) = 4000 * (z2 * M) + z2 * P
    OBVIOUS
  <2> QED
    BY <1>2, <2>1, <2>2, <2>3
<1>4. (h * h) * (P * (2 * r + 1 + z2 * w))
        <= (h * h) * (P * (2 * r + 1 + z2) + 4000 * (z2 * M))
  BY <1>3, Scaled
<1>5. P * ((h * h) * (2 * r + 1 + z2 * w)) = (h * h) * (P * (2 * r + 1 + z2 * w))
  OBVIOUS
<1> QED
  BY <1>1, <1>4, <1>5

(* The contradiction where at least half of the outcomes are not of the    *)
(* counted kind: first the growth of the quotient,                         *)
LEMMA ManyFailed ==
  ASSUME NEW z2 \in Nat, NEW r \in Nat, NEW P \in Nat, NEW M \in Nat,
         NEW h \in Nat, NEW t \in Nat, NEW v \in Nat,
         z2 <= r, 2000 * v <= t, M * h <= P * v
  PROVE  (h * h) * (4000 * (z2 * M)) <= P * (2 * (h * (r * t)))
<1>1. z2 * (2000 * v) <= r * t
  <2>1. z2 * (2000 * v) <= z2 * t
    BY Scaled
  <2>2. t * z2 <= t * r
    BY Scaled
  <2> QED
    BY <2>1, <2>2
<1>2. (2000 * z2) * (M * h) <= P * (r * t)
  <2>1. (2000 * z2) * (M * h) <= (2000 * z2) * (P * v)
    BY Scaled
  <2>2. P * (z2 * (2000 * v)) <= P * (r * t)
    BY <1>1, Scaled
  <2>3. P * (z2 * (2000 * v)) = (2000 * z2) * (P * v)
    OBVIOUS
  <2> QED
    BY <2>1, <2>2, <2>3
<1>3. (2 * h) * ((2000 * z2) * (M * h)) <= (2 * h) * (P * (r * t))
  BY <1>2, Scaled
<1>4. /\ (2 * h) * ((2000 * z2) * (M * h)) = (h * h) * (4000 * (z2 * M))
      /\ (2 * h) * (P * (r * t)) = P * (2 * (h * (r * t)))
  OBVIOUS
<1> QED
  BY <1>3, <1>4

(* then what the rounding of the root hides,                               *)
LEMMA ManyRounded ==
  ASSUME NEW c \in Nat, NEW P \in Nat, NEW h \in Nat, NEW t \in Nat,
         c < 1000000, 1000 * h <= t, P > 0, h > 0
  PROVE  (h * h) * (P * c) < P * (t * t)
<1>1. 1000000 * (h * h) <= t * t
  <2>1. (1000 * h) * (1000 * h) <= (1000 * h) * t /\ t * (1000 * h) <= t * t
    BY Scaled
  <2> QED
    BY <2>1
<1>2. (h * h) * c < t * t
  <2>1. (h * h) * (c + 1) <= (h * h) * 1000000
    BY Scaled
  <2>2. h * h > 0 /\ (h * h) * (c + 1) = (h * h) * c + h * h
    OBVIOUS
  <2> QED
    BY <1>1, <2>1, <2>2
<1>3. P * ((h * h) * c + 1) <= P * (t * t)
  BY <1>2, Scaled
<1>4. /\ P * ((h * h) * c + 1) = (h * h) * (P * c) + P
  OBVIOUS
<1> QED
  BY <1>3, <1>4

(* and both together.                                                      *)
LEMMA Many ==
  ASSUME NEW z2 \in Nat, NEW r \in Nat, NEW P \in Nat, NEW M \in Nat,
         NEW h \in Nat, NEW t \in Nat, NEW v \in Nat,
         z2 <= r, 2 * r + 1 + z2 < 1000000, P > 0, h > 0,
         2000 * v <= t, 1000 * h <= t, M * h <= P * v
  PROVE  (h * h) * (P * (2 * r + 1 + z2) + 4000 * (z2 * M))
           < P * (t * t + 2 * (h * (r * t)))
<1> DEFINE a == (h * h) * (4000 * (z2 * M))
           b == P * (2 * (h * (r * t)))
           c == (h * h) * (P * (2 * r + 1 + z2))
           d == P * (t * t)
<1>1. a \in Int /\ b \in Int /\ c \in Int /\ d \in Int
  OBVIOUS
<1>2. a <= b
  BY ManyFailed
<1>3. c < d
  <2> DEFINE k == 2 * r + 1 + z2
  <2>1. k \in Nat /\ k < 1000000
    OBVIOUS
  <2> HIDE DEF k
  <2>2. (h * h) * (P * k) < P * (t * t)
    BY <2>1, ManyRounded
  <2> QED
    BY <2>2 DEF k
<1>4. /\ (h * h) * (P * (2 * r + 1 + z2) + 4000 * (z2 * M)) = c + a
      /\ P * (t * t + 2 * (h * (r * t))) = d + b
  OBVIOUS
<1> SUFFICES c + a < d + b
  BY <1>4
<1> HIDE DEF a, b, c, d
<1> QED
  BY <1>1, <1>2, <1>3

(* The contradiction where fewer than half are not of the counted kind,    *)
LEMMA Few ==
  ASSUME NEW z2 \in Nat, NEW r \in Nat, NEW P \in Nat, NEW M \in Nat,
         NEW h \in Nat, NEW t \in Nat, NEW e \in Nat, P > 0, h > 0,
         4 * (h * M) <= P * e,
         h * (2 * r + 1 + z2) + 1000 * (z2 * e) < 2 * (r * t)
  PROVE  (h * h) * (P * (2 * r + 1 + z2) + 4000 * (z2 * M))
           < P * (t * t + 2 * (h * (r * t)))
<1> DEFINE c == 2 * r + 1 + z2
<1>0. c \in Nat
  OBVIOUS
<1> SUFFICES (h * h) * (P * c + 4000 * (z2 * M))
               < P * (t * t + 2 * (h * (r * t)))
  OBVIOUS
<1>a. h * c + 1000 * (z2 * e) < 2 * (r * t)
  OBVIOUS
<1> HIDE DEF c
<1>1. (1000 * z2) * (4 * (h * M)) <= (1000 * z2) * (P * e)
  BY Scaled
<1>2. P * (h * c + 1000 * (z2 * e) + 1) <= P * (2 * (r * t))
  BY <1>0, <1>a, Scaled
<1>3. h * (P * c + 4000 * (z2 * M)) + P <= P * (2 * (r * t))
  <2>1. (1000 * z2) * (4 * (h * M)) = h * (4000 * (z2 * M)) 
    OBVIOUS
  <2>2. (1000 * z2) * (P * e) = P * (1000 * (z2 * e))
    OBVIOUS
  <2>3. P * (h * c + 1000 * (z2 * e) + 1) = h * (P * c) + P * (1000 * (z2 * e)) + P
    BY <1>0
  <2>4. h * (P * c + 4000 * (z2 * M)) = h * (P * c) + h * (4000 * (z2 * M))
    BY <1>0
  <2> QED
    BY <1>0, <1>1, <1>2, <2>1, <2>2, <2>3, <2>4
<1>4. h * (h * (P * c + 4000 * (z2 * M)) + P) <= h * (P * (2 * (r * t)))
  BY <1>0, <1>3, Scaled
<1>5. /\ h * (h * (P * c + 4000 * (z2 * M)) + P)
            = (h * h) * (P * c + 4000 * (z2 * M)) + h * P
      /\ h * (P * (2 * (r * t))) = P * (2 * (h * (r * t)))
  BY <1>0
<1>6. P * (t * t + 2 * (h * (r * t))) = P * (t * t) + P * (2 * (h * (r * t)))
  OBVIOUS
<1>7. h * P > 0 /\ P * (t * t) \in Nat
  OBVIOUS
<1> QED
  BY <1>0, <1>4, <1>5, <1>6, <1>7

(* for which the root must be large against the scale: here the number of  *)
(* exposures must be bounded.                                              *)
LEMMA SmallCount ==
  ASSUME NEW z2 \in {2706, 3841, 6635}, NEW r \in Nat, NEW m \in Nat \ {0},
         NEW e \in Nat, e = 2000 * m + z2,
         NEW h \in Nat, h <= 4096000 + z2,
         z2 * (2000 + z2) < (r + 1) * (r + 1),
         NEW t \in Nat, t = 1000 * (e + r)
  PROVE  h * (2 * r + 1 + z2) + 1000 * (z2 * e) < 2 * (r * t)
<1> DEFINE k == CASE z2 = 2706 -> 3568
                  [] z2 = 3841 -> 4736
                  [] z2 = 6635 -> 7569
<1>1. k \in Nat /\ k <= r /\ z2 <= r
  <2>1. k * k <= z2 * (2000 + z2)
    OBVIOUS
  <2>2. k < r + 1
    BY <2>1, SquaresOrder
  <2> QED
    BY <2>2
<1> HIDE DEF k
<1>2. k * r <= r * r
  BY <1>1, Scaled
<1>3. h * (2 * r + 1 + z2) <= (4096000 + z2) * (2 * r + 1 + z2)
  <2>1. (2 * r + 1 + z2) * h <= (2 * r + 1 + z2) * (4096000 + z2)
    BY Scaled
  <2> QED
    BY <2>1
<1>4. (2 * r - z2) * (2000 + z2) <= (2 * r - z2) * e
  BY <1>1, Scaled
<1>5. 2 * (r * t) - 1000 * (z2 * e) = 1000 * ((2 * r - z2) * e) + 2000 * (r * r)
  OBVIOUS
<1>6. (4096000 + z2) * (2 * r + 1 + z2)
        < 1000 * ((2 * r - z2) * (2000 + z2)) + 2000 * (k * r)
  BY <1>1 DEF k
<1> QED
  BY <1>2, <1>3, <1>4, <1>5, <1>6

(* The products of counts that the two cases compare.                      *)
LEMMA PairMore ==
  ASSUME NEW z2 \in Nat, NEW m \in Nat, NEW n \in Nat, m <= n
  PROVE  (m * m) * (1000 * n + z2) <= (n * (n + 1)) * (1000 * m + z2)
<1>1. m * m <= n * m /\ n * m <= n * (n + 1)
  BY Scaled
<1>2. (n * m) * m <= (n * m) * (n + 1)
  BY Scaled
<1>3. z2 * (m * m) <= z2 * (n * (n + 1))
  BY <1>1, Scaled
<1>4. /\ (m * m) * (1000 * n + z2) = 1000 * ((n * m) * m) + z2 * (m * m)
      /\ (n * (n + 1)) * (1000 * m + z2)
            = 1000 * ((n * m) * (n + 1)) + z2 * (n * (n + 1))
  OBVIOUS
<1> QED
  BY <1>2, <1>3, <1>4

LEMMA PairFewer ==
  ASSUME NEW z2 \in Nat, NEW m \in Nat, NEW n \in Nat, 2 * m <= n
  PROVE  4 * ((1000 * n + z2) * (m * m)) <= (n * (n + 1)) * (2000 * m + z2)
<1>1. m * (2 * m) <= m * n /\ n * (2 * m) <= n * n
  BY Scaled
<1>2. (2 * (1000 * n + z2)) * (m * (2 * m)) <= (2 * (1000 * n + z2)) * (m * n)
  BY <1>1, Scaled
<1>3. (n * m) * n <= (n * m) * (n + 1)
  BY Scaled
<1>4. z2 * (n * (2 * m)) <= z2 * (n * n) /\ z2 * (n * n) <= z2 * (n * (n + 1))
  BY <1>1, Scaled
<1>5. /\ (2 * (1000 * n + z2)) * (m * (2 * m)) = 4 * ((1000 * n + z2) * (m * m))
      /\ (2 * (1000 * n + z2)) * (m * n) = 2000 * ((n * m) * n) + z2 * (n * (2 * m))
      /\ (n * (n + 1)) * (2000 * m + z2)
            = 2000 * ((n * m) * (n + 1)) + z2 * (n * (n + 1))
  OBVIOUS
<1> QED
  BY <1>2, <1>3, <1>4, <1>5

(* The root is no smaller than z2 and far below the scale.                 *)
LEMMA RootRange ==
  ASSUME NEW z2 \in {2706, 3841, 6635}, NEW s \in Nat, NEW m \in Nat,
         NEW n \in Nat, n = s + m, n <= 4096, n > 0,
         NEW a \in Nat, n * a <= 4000 * (s * m), 4000 * (s * m) < n * a + n,
         NEW r \in Nat, r * r <= z2 * (a + z2), z2 * (a + z2) < (r + 1) * (r + 1)
  PROVE  /\ z2 <= r /\ 2 * r + 1 + z2 < 1000000
         /\ 2 * m < n /\ m > 0 => z2 * (2000 + z2) < (r + 1) * (r + 1)
<1>1. z2 <= r
  <2>1. z2 * z2 <= z2 * (a + z2)
    BY Scaled
  <2>2. z2 < r + 1
    BY <2>1, SquaresOrder
  <2> QED
    BY <2>2
<1>2. a <= 4000 * m
  <2>1. m * s <= m * n
    BY Scaled
  <2>2. n * a <= n * (4000 * m)
    BY <2>1
  <2>3. ASSUME a > 4000 * m PROVE FALSE
    <3>1. n * (4000 * m + 1) <= n * a
      BY <2>3, Scaled
    <3>2. n * (4000 * m + 1) = n * (4000 * m) + n
      OBVIOUS
    <3> QED
      BY <2>2, <3>1, <3>2
  <2> QED
    BY <2>3
<1>3. r < 400000
  <2>1. z2 * (a + z2) <= z2 * (16384000 + z2)
    BY <1>2, Scaled
  <2>2. z2 * (16384000 + z2) < 400000 * 400000
    OBVIOUS
  <2>3. r * r < 400000 * 400000
    BY <2>1, <2>2
  <2> QED
    BY <2>3, SquaresOrder
<1>4. ASSUME 2 * m < n, m > 0 PROVE z2 * (2000 + z2) < (r + 1) * (r + 1)
  <2>1. 2000 <= a
    <3>1. m * n <= m * (2 * s)
      BY <1>4, Scaled
    <3>2. n * (2000 * m) < n * a + n
      BY <3>1
    <3>3. n * 2000 <= n * (2000 * m)
      BY <1>4, Scaled
    <3>4. ASSUME a < 2000 PROVE FALSE
      <4>1. n * (a + 1) <= n * 2000
        BY <3>4, Scaled
      <4>2. n * (a + 1) = n * a + n
        OBVIOUS
      <4> QED
        BY <3>2, <3>3, <4>1, <4>2
    <3> QED
      BY <3>4
  <2>2. z2 * (2000 + z2) <= z2 * (a + z2)
    BY <2>1, Scaled
  <2> QED
    BY <2>2
<1> QED
  BY <1>1, <1>3, <1>4

(* One outcome more, and of the counted kind: the root does not grow by    *)
(* more than the center of the interval moves, in the scale of the         *)
(* interval.                                                               *)
Squares == {2706, 3841, 6635}

RootMoves(z2, s, m, n, a, b, r, q) ==
  (/\ n = s + m /\ n <= 4096
   /\ n * a <= 4000 * (s * m) /\ 4000 * (s * m) < n * a + n
   /\ (n + 1) * b <= 4000 * ((s + 1) * m)
   /\ r * r <= z2 * (a + z2) /\ z2 * (a + z2) < (r + 1) * (r + 1)
   /\ q * q <= z2 * (b + z2))
  => (1000 * n + z2) * (q - r) <= 1000 * (2000 * m + z2 + r)

LEMMA RootStep ==
  ASSUME NEW z2 \in Squares, NEW s \in Nat, NEW m \in Nat,
         NEW n \in Nat \ {0}, NEW a \in Nat, NEW b \in Nat,
         NEW r \in Nat, NEW q \in Nat
  PROVE  RootMoves(z2, s, m, n, a, b, r, q)
<1> SUFFICES ASSUME z2 \in {2706, 3841, 6635}, n = s + m, n <= 4096,
                    n * a <= 4000 * (s * m), 4000 * (s * m) < n * a + n,
                    (n + 1) * b <= 4000 * ((s + 1) * m),
                    r * r <= z2 * (a + z2),
                    z2 * (a + z2) < (r + 1) * (r + 1),
                    q * q <= z2 * (b + z2)
             PROVE  (1000 * n + z2) * (q - r) <= 1000 * (2000 * m + z2 + r)
  BY DEF RootMoves, Squares
<1>0. z2 \in Nat /\ n \in Nat \ {0} /\ m \in Nat
  OBVIOUS
<1>1. CASE b <= a
  <2>1. z2 * (b + z2) <= z2 * (a + z2)
    BY <1>1, Scaled
  <2>2. q < r + 1
    BY <2>1, SquaresOrder
  <2>3. (1000 * n + z2) * (q - r) <= (1000 * n + z2) * 0
    BY <2>2, Scaled
  <2> QED
    BY <2>3
<1>2. CASE b > a
  <2> DEFINE h == 1000 * n + z2
             t == 1000 * (2000 * m + z2 + r)
             P == n * (n + 1)
             M == m * m
             w == b - a
             e == 2000 * m + z2
  <2>0. /\ h \in Nat /\ t \in Nat /\ P \in Nat /\ M \in Nat /\ w \in Nat /\ e \in Nat
        /\ h > 0 /\ P > 0
    BY <1>2
  <2>1. P * w <= 4000 * M + P
    BY <1>0, ShiftGrows
  <2>2. q * q <= (r + 1) * (r + 1) + z2 * w
    <3>1. z2 * (b + z2) = z2 * (a + z2) + z2 * w
      OBVIOUS
    <3> QED
      BY <3>1, <2>0
  <2>10. m # 0 /\ m \in Nat \ {0}
    BY <1>2
  <2>3. /\ z2 <= r /\ 2 * r + 1 + z2 < 1000000
        /\ 2 * m < n => z2 * (2000 + z2) < (r + 1) * (r + 1)
    BY <1>0, <2>10, RootRange
  <2>4. (h * h) * (P * (2 * r + 1 + z2) + 4000 * (z2 * M))
          < P * (t * t + 2 * (h * (r * t)))
    <3>1. CASE 2 * m < n
      <4>1. h <= 4096000 + z2 /\ e = 2000 * m + z2 /\ t = 1000 * (e + r)
        OBVIOUS
      <4>2. 4 * (h * M) <= P * e
        BY <1>0, <3>1, PairFewer
      <4>3. z2 * (2000 + z2) < (r + 1) * (r + 1)
        BY <2>3, <3>1
      <4> HIDE DEF h, t, P, M, e
      <4>4. h * (2 * r + 1 + z2) + 1000 * (z2 * e) < 2 * (r * t)
        BY <2>0, <2>10, <4>1, <4>3, SmallCount
      <4> QED
        BY <1>0, <2>0, <4>2, <4>4, Few
    <3>2. CASE n <= 2 * m
      <4> DEFINE v == 1000 * m + z2
      <4>1. v \in Nat /\ 2000 * v <= t /\ 1000 * h <= t
        BY <2>3, <3>2
      <4>2. M * h <= P * v
        BY <1>0, PairMore
      <4> HIDE DEF h, t, P, M, v
      <4> QED
        BY <1>0, <2>0, <2>3, <4>1, <4>2, Many
    <3> QED
      BY <3>1, <3>2
  <2>5. ASSUME h * (q - r) > t PROVE FALSE
    <3> HIDE DEF h, t, P, M, w
    <3> DEFINE x == t * t + 2 * (h * (r * t))
    <3>1. x \in Nat /\ x <= (h * h) * (2 * r + 1 + z2 * w)
      <4>1. z2 * w \in Nat
        BY <1>0, <2>0
      <4> QED
        BY <2>0, <2>2, <2>5, <4>1, RootGrowth
    <3> HIDE DEF x
    <3>2. P * x <= (h * h) * (P * (2 * r + 1 + z2) + 4000 * (z2 * M))
      BY <1>0, <2>0, <2>1, <3>1, Weighed
    <3> DEFINE y == (h * h) * (P * (2 * r + 1 + z2) + 4000 * (z2 * M))
    <3>3. y < P * x /\ y \in Int /\ P * x \in Int
      BY <1>0, <2>0, <2>4, <3>1 DEF x
    <3> QED
      BY <3>2, <3>3
  <2>6. h * (q - r) <= t
    <3>1. h * (q - r) \in Int
      BY <2>0
    <3> QED
      BY <2>0, <2>5, <3>1
  <2> QED
    BY <2>6
<1> QED
  BY <1>1, <1>2

-----------------------------------------------------------------------------
(* How a bound moves: the intervals.                                       *)

(* Quotients are ordered as the fractions are.                             *)
LEMMA FloorOrder ==
  ASSUME NEW x \in Int, NEW b \in Nat \ {0}, NEW y \in Int, NEW d \in Nat \ {0},
         x * d <= y * b
  PROVE  x \div b <= y \div d
<1> DEFINE f == x \div b
           g == y \div d
<1>1. f \in Int /\ g \in Int /\ b * f <= x /\ y + 1 <= d * g + d
  BY FloorBounds
<1> HIDE DEF f, g
<1>2. ASSUME f >= g + 1 PROVE FALSE
  <2>1. d * (b * f) <= d * x /\ b * (y + 1) <= b * (d * g + d)
    BY <1>1, Scaled
  <2>2. (b * d) * (g + 1) <= (b * d) * f
    BY <1>1, <1>2, Scaled
  <2>3. /\ d * (b * f) = (b * d) * f /\ b * (d * g + d) = (b * d) * (g + 1)
        /\ b * (y + 1) = y * b + b
    BY <1>1
  <2> QED
    BY <1>1, <2>1, <2>2, <2>3
<1> QED
  BY <1>1, <1>2 DEF f, g

(* Whole numbers pass through a quotient.                                  *)
LEMMA FloorShift ==
  ASSUME NEW x \in Int, NEW k \in Int, NEW b \in Nat \ {0}
  PROVE  (x - k * b) \div b = (x \div b) - k
<1> DEFINE y == x - k * b
           f == x \div b
           g == y \div b
<1>1. /\ f \in Int /\ g \in Int /\ y \in Int
      /\ b * f <= x /\ x < b * f + b /\ b * g <= y /\ y < b * g + b
  BY FloorBounds
<1>2. b * (g + k) = b * g + k * b /\ b * (f + 1) = b * f + b
      /\ b * (g + k + 1) = b * g + k * b + b
  BY <1>1
<1>3. y + k * b = x
  OBVIOUS
<1> HIDE DEF f, g, y
<1>4. ASSUME g + k >= f + 1 PROVE FALSE
  <2>1. b * (f + 1) <= b * (g + k)
    BY <1>1, <1>4, Scaled
  <2> QED
    BY <1>1, <1>2, <1>3, <2>1
<1>5. ASSUME f >= g + k + 1 PROVE FALSE
  <2>1. b * (g + k + 1) <= b * f
    BY <1>1, <1>5, Scaled
  <2> QED
    BY <1>1, <1>2, <1>3, <2>1
<1>6. g = f - k
  BY <1>1, <1>4, <1>5
<1> QED
  BY <1>6 DEF f, g, y

(* The quotient under the root, and the root, of RateInterval.             *)
Shifted(s, n) == (4 * Thousand * s * (n - s)) \div n
Spread(z2, s, n) == Root(z2 * (Shifted(s, n) + z2))

LEMMA SpreadBounds ==
  ASSUME NEW z2 \in Nat, NEW s \in Nat, NEW n \in Nat \ {0}, s <= n
  PROVE  /\ Shifted(s, n) \in Nat
         /\ n * Shifted(s, n) <= 4000 * (s * (n - s))
         /\ 4000 * (s * (n - s)) < n * Shifted(s, n) + n
         /\ Spread(z2, s, n) \in Nat
         /\ Spread(z2, s, n) * Spread(z2, s, n) <= z2 * (Shifted(s, n) + z2)
         /\ z2 * (Shifted(s, n) + z2)
              < (Spread(z2, s, n) + 1) * (Spread(z2, s, n) + 1)
<1>1. s * (n - s) \in Nat /\ 4 * Thousand * s * (n - s) = 4000 * (s * (n - s))
  BY DEF Thousand
<1> DEFINE x == 4000 * (s * (n - s))
           a == Shifted(s, n)
<1>2. x \in Nat /\ a = x \div n
  BY <1>1 DEF Shifted
<1> HIDE DEF x, a
<1>3. a \in Nat /\ n * a <= x /\ x < n * a + n
  BY <1>2, FloorBounds
<1> DEFINE arg == z2 * (a + z2)
           r == Spread(z2, s, n)
<1>4. arg \in Nat /\ r = Root(arg)
  BY <1>3 DEF Spread, a
<1> HIDE DEF arg, r
<1>5. r \in Nat /\ r * r <= arg /\ arg < (r + 1) * (r + 1)
  BY <1>4, RootBrackets DEF Brackets
<1> QED
  BY <1>3, <1>5 DEF x, a, arg, r

LEMMA RateParts ==
  ASSUME NEW s \in Nat, NEW n \in Nat \ {0}, s <= n,
         NEW confidence \in Confidences
  PROVE  LET z2 == ZSquared[confidence]
             r == Spread(z2, s, n)
             D == 2 * (1000 * n + z2)
             I == RateInterval(s, n, confidence)
         IN  /\ z2 \in {2706, 3841, 6635} /\ r \in Nat
             /\ I.lower = (10000 * (2000 * s + z2 - r)) \div D
             /\ I.upper = - ((- (10000 * (2000 * s + z2 + r))) \div D)
<1> DEFINE z2 == ZSquared[confidence]
           r == Spread(z2, s, n)
           center == 2 * Thousand * s + z2
           scale == 2 * (Thousand * n + z2)
           low == 10000 * (center - r)
           high == 10000 * (center + r)
           D == 2 * (1000 * n + z2)
           I == RateInterval(s, n, confidence)
<1>1. z2 \in {2706, 3841, 6635}
  BY DEF ZSquared, Confidences
<1>2. r \in Nat
  <2>1. z2 \in Nat
    BY <1>1
  <2> HIDE DEF z2
  <2> QED
    BY <2>1, SpreadBounds
<1>3. /\ I.lower = low \div scale
      /\ I.upper = - ((- high) \div scale)
  <2>1. n # 0
    OBVIOUS
  <2> QED
    BY <2>1 DEF RateInterval, Ceiling, Spread, Shifted
<1> HIDE DEF z2, r, I
<1>4. /\ scale = D /\ low = 10000 * (2000 * s + z2 - r)
      /\ high = 10000 * (2000 * s + z2 + r)
  BY <1>1, <1>2 DEF Thousand
<1> HIDE DEF low, high, scale, D
<1>5. /\ I.lower = (10000 * (2000 * s + z2 - r)) \div D
      /\ I.upper = - ((- (10000 * (2000 * s + z2 + r))) \div D)
  BY <1>3, <1>4
<1> QED
  BY <1>1, <1>2, <1>5 DEF z2, r, D, I

(* The interval of the others is the mirror image.                         *)
LEMMA UpperMirrors ==
  ASSUME NEW s \in Nat, NEW n \in Nat, s <= n, NEW confidence \in Confidences
  PROVE  RateInterval(n - s, n, confidence).upper
           = 10000 - RateInterval(s, n, confidence).lower
<1>1. CASE n = 0
  BY <1>1 DEF RateInterval
<1>2. CASE n # 0
  <2> DEFINE z2 == ZSquared[confidence]
             r == Spread(z2, s, n)
             D == 2 * (1000 * n + z2)
             x == 10000 * (2000 * s + z2 - r)
             y == - (10000 * (2000 * (n - s) + z2 + r))
             k == 10000
             low == RateInterval(s, n, confidence).lower
             high == RateInterval(n - s, n, confidence).upper
  <2>0. n \in Nat \ {0} /\ n - s \in Nat /\ n - s <= n
    BY <1>2
  <2>1. z2 \in {2706, 3841, 6635} /\ r \in Nat /\ low = x \div D
    BY <2>0, RateParts
  <2>2. high = - ((- (10000 * (2000 * (n - s) + z2 + Spread(z2, n - s, n)))) \div D)
    BY <2>0, RateParts
  <2>3. Spread(z2, n - s, n) = r
    <3>1. 4 * Thousand * (n - s) * (n - (n - s)) = 4 * Thousand * s * (n - s)
      BY DEF Thousand
    <3>2. Shifted(n - s, n) = Shifted(s, n)
      BY <3>1 DEF Shifted
    <3> QED
      BY <3>2 DEF Spread
  <2>4. high = - (y \div D)
    BY <2>2, <2>3
  <2> HIDE DEF z2, r, low, high
  <2>5. D \in Nat \ {0} /\ x \in Int /\ k \in Int /\ y = x - k * D
    BY <2>0, <2>1
  <2> HIDE DEF D, x, y, k
  <2>6. y \div D = (x \div D) - k
    BY <2>5, FloorShift
  <2>7. x \div D \in Int
    BY <2>5, FloorBounds
  <2> QED
    BY <2>1, <2>4, <2>6, <2>7 DEF low, high, k
<1> QED
  BY <1>1, <1>2

(* One of n more is counted: neither bound falls.                          *)
LEMMA LowerInCounted ==
  ASSUME NEW s \in Nat, NEW n \in Nat, s < n, NEW confidence \in Confidences
  PROVE  RateInterval(s, n, confidence).lower
           <= RateInterval(s + 1, n, confidence).lower
<1> DEFINE z2 == ZSquared[confidence]
           a == Shifted(s, n)
           b == Shifted(s + 1, n)
           r == Spread(z2, s, n)
           q == Spread(z2, s + 1, n)
           D == 2 * (1000 * n + z2)
           x == 10000 * (2000 * s + z2 - r)
           y == 10000 * (2000 * (s + 1) + z2 - q)
<1>0. n \in Nat \ {0} /\ s <= n /\ s + 1 \in Nat /\ s + 1 <= n
  OBVIOUS
<1>1. /\ z2 \in {2706, 3841, 6635} /\ r \in Nat /\ q \in Nat
      /\ RateInterval(s, n, confidence).lower = x \div D
      /\ RateInterval(s + 1, n, confidence).lower = y \div D
  <2>1. /\ z2 \in {2706, 3841, 6635} /\ r \in Nat
        /\ RateInterval(s, n, confidence).lower = x \div D
    BY <1>0, RateParts
  <2>2. /\ q \in Nat
        /\ RateInterval(s + 1, n, confidence).lower = y \div D
    BY <1>0, RateParts
  <2> QED
    BY <2>1, <2>2
<1>2. z2 \in Nat
  BY <1>1
<1> HIDE DEF z2
<1>3. /\ a \in Nat /\ 4000 * (s * (n - s)) < n * a + n
      /\ z2 * (a + z2) < (r + 1) * (r + 1)
  BY <1>0, <1>2, SpreadBounds
<1>4. /\ b \in Nat /\ n * b <= 4000 * ((s + 1) * (n - (s + 1)))
      /\ q * q <= z2 * (b + z2)
  BY <1>0, <1>2, SpreadBounds
<1> HIDE DEF a, b, r, q
<1>5. b <= a + 4000
  <2>1. (s + 1) * (n - (s + 1)) = s * (n - s) + n - 2 * s - 1
    BY <1>0
  <2>2. n * b <= n * (a + 4001)
    BY <1>0, <1>3, <1>4, <2>1
  <2>3. ASSUME b > a + 4000 PROVE FALSE
    <3>1. n * (a + 4001) <= n * b
      BY <1>3, <1>4, <2>3, Scaled
    <3>2. n * b < n * (a + 4001)
      <4>1. n * (a + 4001) = n * a + n + 4000 * n
        BY <1>3
      <4>2. 4000 * (s * (n - s) + n - 2 * s - 1)
              = 4000 * (s * (n - s)) + 4000 * (n - 2 * s - 1)
        BY <1>0
      <4>3. s * (n - s) \in Int /\ n * b \in Int /\ n * a \in Int
        BY <1>0, <1>3, <1>4
      <4> QED
        BY <1>0, <1>3, <1>4, <2>1, <4>1, <4>2, <4>3
    <3> QED
      BY <1>3, <1>4, <3>1, <3>2
  <2> QED
    BY <1>3, <1>4, <2>3
<1>6. z2 <= r
  <2>1. z2 * z2 <= z2 * (a + z2)
    BY <1>2, <1>3, Scaled
  <2>2. z2 < r + 1
    <3>1. z2 * z2 < (r + 1) * (r + 1)
      BY <1>1, <1>2, <1>3, <2>1
    <3> QED
      BY <1>1, <1>2, <3>1, SquaresOrder
  <2> QED
    BY <1>1, <1>2, <2>2
<1>7. q <= r + 2000
  <2>1. z2 * (b + z2) <= z2 * (a + z2) + 4000 * z2
    <3>1. z2 * (b + z2) <= z2 * (a + 4000 + z2)
      BY <1>2, <1>3, <1>4, <1>5, Scaled
    <3>2. z2 * (a + 4000 + z2) = z2 * (a + z2) + 4000 * z2
      BY <1>2, <1>3
    <3> QED
      BY <3>1, <3>2
  <2>2. (r + 2001) * (r + 2001) = (r + 1) * (r + 1) + 4000 * r + 4004000
    BY <1>1
  <2>3. q * q < (r + 2001) * (r + 2001)
    <3>1. z2 * (a + z2) \in Int /\ z2 * (b + z2) \in Int /\ q * q \in Int
          /\ (r + 1) * (r + 1) \in Int
      BY <1>1, <1>2, <1>3, <1>4
    <3> QED
      BY <1>1, <1>2, <1>3, <1>4, <1>6, <2>1, <2>2, <3>1
  <2>4. q < r + 2001
    BY <1>1, <2>3, SquaresOrder
  <2> QED
    BY <1>1, <2>4
<1>8. D \in Nat \ {0} /\ x \in Int /\ y \in Int /\ x <= y
  BY <1>0, <1>1, <1>2, <1>7
<1> HIDE DEF D, x, y
<1>9. x * D <= y * D
  <2>1. D * x <= D * y
    BY <1>8, Scaled
  <2> QED
    BY <1>8, <2>1
<1>10. x \div D <= y \div D
  BY <1>8, <1>9, FloorOrder
<1> QED
  BY <1>1, <1>10

(* The bounds are rates: the clamps of the code to none and to all have    *)
(* nothing to do but where there are no outcomes.                          *)
LEMMA LowerIsRate ==
  ASSUME NEW s \in Nat, NEW n \in Nat, s <= n, NEW confidence \in Confidences
  PROVE  RateInterval(s, n, confidence).lower \in Nat
<1>1. CASE n = 0
  BY <1>1 DEF RateInterval
<1>2. CASE n # 0
  <2> DEFINE z2 == ZSquared[confidence]
             a == Shifted(s, n)
             r == Spread(z2, s, n)
             D == 2 * (1000 * n + z2)
             c == 2000 * s + z2
             x == 10000 * (2000 * s + z2 - r)
  <2>0. n \in Nat \ {0}
    BY <1>2
  <2>1. /\ z2 \in {2706, 3841, 6635} /\ r \in Nat
        /\ RateInterval(s, n, confidence).lower = x \div D
    BY <2>0, RateParts
  <2>2. z2 \in Nat
    BY <2>1
  <2> HIDE DEF z2
  <2>3. /\ a \in Nat /\ n * a <= 4000 * (s * (n - s))
        /\ r * r <= z2 * (a + z2)
    BY <2>0, <2>2, SpreadBounds
  <2> HIDE DEF a, r
  <2>4. a <= 4000 * s
    <3>1. s * (n - s) <= s * n
      BY Scaled
    <3>2. n * a <= n * (4000 * s)
      BY <2>3, <3>1
    <3>3. ASSUME a > 4000 * s PROVE FALSE
      <4>1. n * (4000 * s + 1) <= n * a
        BY <2>3, <3>3, Scaled
      <4>2. n * (4000 * s + 1) = n * (4000 * s) + n
        OBVIOUS
      <4>3. n * a \in Int /\ n * (4000 * s) \in Int
        BY <2>3
      <4> QED
        BY <2>0, <3>2, <4>1, <4>2, <4>3
    <3> QED
      BY <2>3, <3>3
  <2>5. r < c + 1
    <3>1. z2 * (a + z2) <= z2 * (4000 * s + z2)
      BY <2>2, <2>3, <2>4, Scaled
    <3>2. (c + 1) * (c + 1) = z2 * (4000 * s + z2) + 4000000 * (s * s) + 2 * c + 1
      BY <2>2
    <3>3. s * s \in Nat /\ c \in Nat /\ z2 * (a + z2) \in Nat /\ r * r \in Nat
          /\ z2 * (4000 * s + z2) \in Nat
      BY <2>1, <2>2, <2>3
    <3> HIDE DEF c
    <3>4. r * r < (c + 1) * (c + 1)
      BY <2>3, <3>1, <3>2, <3>3
    <3> QED
      BY <2>1, <3>3, <3>4, SquaresOrder
  <2>6. D \in Nat \ {0} /\ x \in Nat
    BY <2>1, <2>2, <2>5
  <2> HIDE DEF D, x
  <2>7. x \div D \in Nat
    <3>1. 0 * D <= x * 1 /\ 0 \div 1 = 0
      BY <2>6
    <3>2. 0 \div 1 <= x \div D
      <4>1. 0 * D <= x * 1
        BY <2>6
      <4> QED
        BY <2>6, <4>1, FloorOrder
    <3>3. x \div D \in Int
      BY <2>6, FloorBounds
    <3> QED
      BY <3>1, <3>2, <3>3
  <2> QED
    BY <2>1, <2>7
<1> QED
  BY <1>1, <1>2

(* One outcome more, and counted: neither bound falls, for as many         *)
(* exposures as the code takes.                                            *)
LEMMA LowerInObserved ==
  ASSUME NEW s \in Nat, NEW n \in Nat, s <= n, n <= 4096,
         NEW confidence \in Confidences
  PROVE  RateInterval(s, n, confidence).lower
           <= RateInterval(s + 1, n + 1, confidence).lower
<1>1. CASE n = 0
  <2>1. RateInterval(s, n, confidence).lower = 0
    BY <1>1 DEF RateInterval
  <2>2. s + 1 \in Nat /\ n + 1 \in Nat /\ s + 1 <= n + 1
    OBVIOUS
  <2>3. RateInterval(s + 1, n + 1, confidence).lower \in Nat
    BY <2>2, LowerIsRate
  <2> QED
    BY <2>1, <2>3
<1>2. CASE n # 0
  <2> DEFINE z2 == ZSquared[confidence]
             m == n - s
             a == Shifted(s, n)
             b == Shifted(s + 1, n + 1)
             r == Spread(z2, s, n)
             q == Spread(z2, s + 1, n + 1)
             D == 2 * (1000 * n + z2)
             E == 2 * (1000 * (n + 1) + z2)
             x == 10000 * (2000 * s + z2 - r)
             y == 10000 * (2000 * (s + 1) + z2 - q)
  <2>10. n \in Nat \ {0}
    BY <1>2
  <2>0. /\ n + 1 \in Nat \ {0}
        /\ s + 1 \in Nat /\ s + 1 <= n + 1
        /\ m \in Nat /\ n = s + m /\ (n + 1) - (s + 1) = m
    BY <1>2
  <2>1. /\ z2 \in {2706, 3841, 6635} /\ r \in Nat /\ q \in Nat
        /\ RateInterval(s, n, confidence).lower = x \div D
        /\ RateInterval(s + 1, n + 1, confidence).lower = y \div E
    <3>1. /\ z2 \in {2706, 3841, 6635} /\ r \in Nat
          /\ RateInterval(s, n, confidence).lower = x \div D
      BY <2>10, RateParts
    <3>2. /\ q \in Nat
          /\ RateInterval(s + 1, n + 1, confidence).lower = y \div E
      BY <2>0, RateParts
    <3> QED
      BY <3>1, <3>2
  <2>2. z2 \in Nat
    BY <2>1
  <2> HIDE DEF z2
  <2>3. /\ a \in Nat /\ n * a <= 4000 * (s * m) /\ 4000 * (s * m) < n * a + n
        /\ r * r <= z2 * (a + z2) /\ z2 * (a + z2) < (r + 1) * (r + 1)
    BY <2>10, <2>2, SpreadBounds
  <2>4. /\ b \in Nat /\ (n + 1) * b <= 4000 * ((s + 1) * ((n + 1) - (s + 1)))
        /\ q * q <= z2 * (b + z2)
    BY <2>0, <2>2, SpreadBounds
  <2> HIDE DEF a, b, r, q, m
  <2>5. (n + 1) * b <= 4000 * ((s + 1) * m)
    BY <2>0, <2>4
  <2>6. (1000 * n + z2) * (q - r) <= 1000 * (2000 * m + z2 + r)
    <3>1. m \in Nat /\ a \in Nat /\ b \in Nat /\ r \in Nat /\ q \in Nat
      BY <2>0, <2>1, <2>3, <2>4
    <3>2. RootMoves(z2, s, m, n, a, b, r, q)
      <4>1. z2 \in Squares
        BY <2>1 DEF Squares
      <4> QED
        BY <2>10, <3>1, <4>1, RootStep
    <3>3. n = s + m
      BY <2>0
    <3> QED
      BY <2>3, <2>4, <2>5, <3>2, <3>3 DEF RootMoves
  <2>7. /\ D \in Nat \ {0} /\ E \in Nat \ {0} /\ x \in Int /\ y \in Int
        /\ E = D + 2000 /\ y = x + 10000 * (2000 - (q - r))
        /\ D * (q - r) <= 2000 * (2000 * m + z2 + r)
        /\ 10000 * (2000 * m + z2 + r) = 10000 * D - x
    BY <2>10, <2>0, <2>1, <2>2, <2>6
  <2> HIDE DEF D, E, x, y
  <2>8. x * E <= y * D
    <3>1. /\ x * E = x * D + 2000 * x
          /\ y * D = x * D + 20000000 * D - 10000 * (D * (q - r))
      BY <2>1, <2>7
    <3>2. x * D \in Int /\ D * (q - r) \in Int
      BY <2>1, <2>7
    <3> QED
      BY <2>0, <2>1, <2>2, <2>7, <3>1, <3>2
  <2>9. x \div D <= y \div E
    <3>1. D \in Nat \ {0} /\ E \in Nat \ {0} /\ x \in Int /\ y \in Int
      BY <2>7
    <3> QED
      BY <2>8, <3>1, FloorOrder
  <2> QED
    BY <2>1, <2>9
<1> QED
  BY <1>1, <1>2

(* The upper bounds follow, from the mirror images.                        *)
LEMMA UpperInCounted ==
  ASSUME NEW s \in Nat, NEW n \in Nat, s < n, NEW confidence \in Confidences
  PROVE  RateInterval(s, n, confidence).upper
           <= RateInterval(s + 1, n, confidence).upper
<1> DEFINE m == n - (s + 1)
           I(t) == RateInterval(t, n, confidence)
<1>1. /\ m \in Nat /\ m < n /\ m + 1 \in Nat /\ m + 1 <= n /\ m <= n
      /\ n - m = s + 1 /\ n - (m + 1) = s
  OBVIOUS
<1> HIDE DEF m
<1>2. I(m).lower <= I(m + 1).lower
  BY <1>1, LowerInCounted
<1>3. I(n - m).upper = 10000 - I(m).lower
  BY <1>1, UpperMirrors
<1>4. I(n - (m + 1)).upper = 10000 - I(m + 1).lower
  BY <1>1, UpperMirrors
<1>5. I(m).lower \in Nat /\ I(m + 1).lower \in Nat
  BY <1>1, LowerIsRate
<1>6. I(s + 1).upper = 10000 - I(m).lower /\ I(s).upper = 10000 - I(m + 1).lower
  BY <1>1, <1>3, <1>4
<1> HIDE DEF I
<1>7. I(s).upper <= I(s + 1).upper
  BY <1>2, <1>5, <1>6
<1> QED
  BY <1>7 DEF I

LEMMA UpperInOthers ==
  ASSUME NEW s \in Nat, NEW n \in Nat, s <= n, n <= 4096,
         NEW confidence \in Confidences
  PROVE  RateInterval(s, n + 1, confidence).upper
           <= RateInterval(s, n, confidence).upper
<1> DEFINE m == n - s
           I(t, k) == RateInterval(t, k, confidence)
<1>1. /\ m \in Nat /\ m <= n /\ m + 1 \in Nat /\ n + 1 \in Nat
      /\ m + 1 <= n + 1 /\ n - m = s /\ (n + 1) - (m + 1) = s
  OBVIOUS
<1> HIDE DEF m
<1>2. I(m, n).lower <= I(m + 1, n + 1).lower
  BY <1>1, LowerInObserved
<1>3. I(n - m, n).upper = 10000 - I(m, n).lower
  BY <1>1, UpperMirrors
<1>4. I((n + 1) - (m + 1), n + 1).upper = 10000 - I(m + 1, n + 1).lower
  BY <1>1, UpperMirrors
<1>5. I(m, n).lower \in Nat /\ I(m + 1, n + 1).lower \in Nat
  BY <1>1, LowerIsRate
<1>6. /\ I(s, n).upper = 10000 - I(m, n).lower
      /\ I(s, n + 1).upper = 10000 - I(m + 1, n + 1).lower
  BY <1>1, <1>3, <1>4
<1> HIDE DEF I
<1>7. I(s, n + 1).upper <= I(s, n).upper
  BY <1>2, <1>5, <1>6
<1> QED
  BY <1>7 DEF I

-----------------------------------------------------------------------------
(* Evidence counts in the direction it points.                             *)

LEMMA ArmCount ==
  ASSUME NEW arm \in ArmCounts
  PROVE  /\ \A o \in Outcomes : arm[o] \in Nat
         /\ arm.succeeded \in Nat /\ arm.partial \in Nat /\ arm.failed \in Nat
         /\ arm.unknown \in Nat /\ arm.missing \in Nat
         /\ Observed(arm) \in Nat /\ Observed(arm) <= 4096
         /\ Assigned(arm) \in Nat /\ Missing(arm) \in Nat
<1>1. /\ \A o \in Outcomes : arm[o] \in Nat
      /\ arm.succeeded \in Nat /\ arm.partial \in Nat /\ arm.failed \in Nat
      /\ arm.unknown \in Nat /\ arm.missing \in Nat
  BY EvidenceAssumption DEF ArmCounts, Outcomes
<1>2. Assigned(arm) <= MaxArm
  BY DEF ArmCounts
<1> QED
  BY <1>1, <1>2, EvidenceAssumption DEF Observed, Assigned, Missing

LEMMA TurnedCounts ==
  ASSUME NEW arm \in ArmCounts, NEW from \in Outcomes, NEW to \in Outcomes,
         from # to
  PROVE  \A o \in Outcomes :
           Turned(arm, from, to)[o] = IF o = from THEN arm[o] - 1
                                      ELSE IF o = to THEN arm[o] + 1
                                      ELSE arm[o]
BY DEF ArmCounts, Turned

(* What each turn does to the counts the rates are made of.                *)
LEMMA TurnedRates ==
  ASSUME NEW arm \in ArmCounts, NEW t \in Better \cup Worse, arm[t[1]] > 0
  PROVE  LET u == Turned(arm, t[1], t[2])
         IN  /\ Assigned(u) = Assigned(arm)
             /\ Missing(u) \in Nat /\ Missing(u) <= Missing(arm)
             /\ t = <<"failed", "partial">> =>
                  /\ u.failed = arm.failed - 1 /\ u.succeeded = arm.succeeded
                  /\ Observed(u) = Observed(arm)
             /\ t = <<"partial", "succeeded">> =>
                  /\ u.failed = arm.failed /\ u.succeeded = arm.succeeded + 1
                  /\ Observed(u) = Observed(arm)
             /\ t = <<"succeeded", "partial">> =>
                  /\ u.failed = arm.failed /\ u.succeeded = arm.succeeded - 1
                  /\ Observed(u) = Observed(arm)
             /\ t = <<"partial", "failed">> =>
                  /\ u.failed = arm.failed + 1 /\ u.succeeded = arm.succeeded
                  /\ Observed(u) = Observed(arm)
             /\ t \in {<<"missing", "succeeded">>, <<"unknown", "succeeded">>} =>
                  /\ u.failed = arm.failed /\ u.succeeded = arm.succeeded + 1
                  /\ Observed(u) = Observed(arm) + 1
             /\ t \in {<<"missing", "failed">>, <<"unknown", "failed">>} =>
                  /\ u.failed = arm.failed + 1 /\ u.succeeded = arm.succeeded
                  /\ Observed(u) = Observed(arm) + 1
<1> DEFINE u == Turned(arm, t[1], t[2])
<1>1. t[1] \in Outcomes /\ t[2] \in Outcomes /\ t[1] # t[2]
  BY DEF Better, Worse, Outcomes
<1>2. \A o \in Outcomes : u[o] = IF o = t[1] THEN arm[o] - 1
                                 ELSE IF o = t[2] THEN arm[o] + 1
                                 ELSE arm[o]
  BY <1>1, TurnedCounts
<1> HIDE DEF u
<1>3. \A o \in Outcomes : arm[o] \in Nat
  BY ArmCount
<1>4. \A o \in Outcomes : o = "succeeded" \/ o = "partial" \/ o = "failed"
                          \/ o = "unknown" \/ o = "missing"
  BY DEF Outcomes
<1>5. /\ "succeeded" \in Outcomes /\ "partial" \in Outcomes
      /\ "failed" \in Outcomes /\ "unknown" \in Outcomes
      /\ "missing" \in Outcomes
  BY DEF Outcomes
<1>6. CASE t = <<"failed", "partial">>
  BY <1>2, <1>3, <1>5, <1>6 DEF Assigned, Observed, Missing, u
<1>7. CASE t = <<"partial", "succeeded">>
  BY <1>2, <1>3, <1>5, <1>7 DEF Assigned, Observed, Missing, u
<1>8. CASE t = <<"succeeded", "partial">>
  BY <1>2, <1>3, <1>5, <1>8 DEF Assigned, Observed, Missing, u
<1>9. CASE t = <<"partial", "failed">>
  BY <1>2, <1>3, <1>5, <1>9 DEF Assigned, Observed, Missing, u
<1>10. CASE t = <<"missing", "succeeded">>
  BY <1>2, <1>3, <1>5, <1>10 DEF Assigned, Observed, Missing, u
<1>11. CASE t = <<"unknown", "succeeded">>
  BY <1>2, <1>3, <1>5, <1>11 DEF Assigned, Observed, Missing, u
<1>12. CASE t = <<"missing", "failed">>
  BY <1>2, <1>3, <1>5, <1>12 DEF Assigned, Observed, Missing, u
<1>13. CASE t = <<"unknown", "failed">>
  BY <1>2, <1>3, <1>5, <1>13 DEF Assigned, Observed, Missing, u
<1> QED
  BY <1>6, <1>7, <1>8, <1>9, <1>10, <1>11, <1>12, <1>13 DEF Better, Worse

(* A decision that turned out better: the rates of its arm speak no less   *)
(* for it, and as many outcomes are missing or fewer.                      *)
LEMMA BetterRates ==
  ASSUME NEW arm \in ArmCounts, NEW t \in Better, arm[t[1]] > 0,
         NEW confidence \in Confidences
  PROVE  LET u == Turned(arm, t[1], t[2])
         IN  /\ Harm(u, confidence).upper <= Harm(arm, confidence).upper
             /\ Harm(u, confidence).upper \in Int
             /\ Utility(arm, confidence).lower <= Utility(u, confidence).lower
             /\ Utility(u, confidence).lower \in Int
<1> DEFINE u == Turned(arm, t[1], t[2])
           n == Observed(arm)
           f == arm.failed
           s == arm.succeeded
           I(x, k) == RateInterval(x, k, confidence)
<1>1. /\ t = <<"failed", "partial">> =>
           u.failed = f - 1 /\ u.succeeded = s /\ Observed(u) = n
      /\ t = <<"partial", "succeeded">> =>
           u.failed = f /\ u.succeeded = s + 1 /\ Observed(u) = n
      /\ t \in {<<"missing", "succeeded">>, <<"unknown", "succeeded">>} =>
           u.failed = f /\ u.succeeded = s + 1 /\ Observed(u) = n + 1
  BY TurnedRates
<1>2. /\ n \in Nat /\ f \in Nat /\ s \in Nat /\ n <= 4096 /\ f <= n /\ s <= n
  BY ArmCount, ArmFields
<1>3. /\ t = <<"failed", "partial">> => f > 0
      /\ t = <<"partial", "succeeded">> => s < n
  BY ArmCount DEF Observed
<1>4. /\ Harm(arm, confidence) = I(f, n) /\ Utility(arm, confidence) = I(s, n)
      /\ Harm(u, confidence) = I(u.failed, Observed(u))
      /\ Utility(u, confidence) = I(u.succeeded, Observed(u))
  BY DEF Harm, Utility
<1> HIDE DEF u, n, f, s
<1>5. \A x, k \in Nat : x <= k => I(x, k).lower \in Int /\ I(x, k).upper \in Int
  BY IntervalBounds
<1>6. CASE t = <<"failed", "partial">>
  <2>1. f - 1 \in Nat /\ f - 1 < n /\ f - 1 <= n /\ (f - 1) + 1 = f
    BY <1>2, <1>3, <1>6
  <2>2. I(f - 1, n).upper <= I((f - 1) + 1, n).upper
    BY <1>2, <2>1, UpperInCounted
  <2> HIDE DEF I
  <2>3. /\ I(f - 1, n).upper <= I(f, n).upper
        /\ I(f - 1, n).upper \in Int /\ I(s, n).lower \in Int
    BY <1>2, <1>5, <2>1, <2>2
  <2> QED
    BY <1>1, <1>4, <1>6, <2>3 DEF u
<1>7. CASE t = <<"partial", "succeeded">>
  <2>1. s + 1 \in Nat /\ s < n /\ s + 1 <= n
    BY <1>2, <1>3, <1>7
  <2>2. I(s, n).lower <= I(s + 1, n).lower
    BY <1>2, <2>1, LowerInCounted
  <2> HIDE DEF I
  <2>3. I(s + 1, n).lower \in Int /\ I(f, n).upper \in Int
    BY <1>2, <1>5, <2>1
  <2> QED
    BY <1>1, <1>4, <1>7, <2>2, <2>3 DEF u
<1>8. CASE t \in {<<"missing", "succeeded">>, <<"unknown", "succeeded">>}
  <2>1. s + 1 \in Nat /\ n + 1 \in Nat /\ s + 1 <= n + 1 /\ f <= n + 1
    BY <1>2
  <2>2. I(s, n).lower <= I(s + 1, n + 1).lower
    BY <1>2, LowerInObserved
  <2>3. I(f, n + 1).upper <= I(f, n).upper
    BY <1>2, UpperInOthers
  <2> HIDE DEF I
  <2>4. I(s + 1, n + 1).lower \in Int /\ I(f, n + 1).upper \in Int
    BY <1>2, <1>5, <2>1
  <2> QED
    BY <1>1, <1>4, <1>8, <2>2, <2>3, <2>4 DEF u
<1> QED
  BY <1>6, <1>7, <1>8 DEF Better

(* And one that turned out worse.                                          *)
LEMMA WorseRates ==
  ASSUME NEW arm \in ArmCounts, NEW t \in Worse, arm[t[1]] > 0,
         NEW confidence \in Confidences
  PROVE  LET u == Turned(arm, t[1], t[2])
         IN  /\ Harm(arm, confidence).lower <= Harm(u, confidence).lower
             /\ Harm(u, confidence).lower \in Int
             /\ Utility(u, confidence).upper <= Utility(arm, confidence).upper
             /\ Utility(u, confidence).upper \in Int
<1> DEFINE u == Turned(arm, t[1], t[2])
           n == Observed(arm)
           f == arm.failed
           s == arm.succeeded
           I(x, k) == RateInterval(x, k, confidence)
<1>1. /\ t = <<"succeeded", "partial">> =>
           u.failed = f /\ u.succeeded = s - 1 /\ Observed(u) = n
      /\ t = <<"partial", "failed">> =>
           u.failed = f + 1 /\ u.succeeded = s /\ Observed(u) = n
      /\ t \in {<<"missing", "failed">>, <<"unknown", "failed">>} =>
           u.failed = f + 1 /\ u.succeeded = s /\ Observed(u) = n + 1
  BY TurnedRates
<1>2. /\ n \in Nat /\ f \in Nat /\ s \in Nat /\ n <= 4096 /\ f <= n /\ s <= n
  BY ArmCount, ArmFields
<1>3. /\ t = <<"succeeded", "partial">> => s > 0
      /\ t = <<"partial", "failed">> => f < n
  BY ArmCount DEF Observed
<1>4. /\ Harm(arm, confidence) = I(f, n) /\ Utility(arm, confidence) = I(s, n)
      /\ Harm(u, confidence) = I(u.failed, Observed(u))
      /\ Utility(u, confidence) = I(u.succeeded, Observed(u))
  BY DEF Harm, Utility
<1> HIDE DEF u, n, f, s
<1>5. \A x, k \in Nat : x <= k => I(x, k).lower \in Int /\ I(x, k).upper \in Int
  BY IntervalBounds
<1>6. CASE t = <<"succeeded", "partial">>
  <2>1. s - 1 \in Nat /\ s - 1 < n /\ s - 1 <= n /\ (s - 1) + 1 = s
    BY <1>2, <1>3, <1>6
  <2>2. I(s - 1, n).upper <= I((s - 1) + 1, n).upper
    BY <1>2, <2>1, UpperInCounted
  <2> HIDE DEF I
  <2>3. /\ I(s - 1, n).upper <= I(s, n).upper
        /\ I(s - 1, n).upper \in Int /\ I(f, n).lower \in Int
    BY <1>2, <1>5, <2>1, <2>2
  <2> QED
    BY <1>1, <1>4, <1>6, <2>3 DEF u
<1>7. CASE t = <<"partial", "failed">>
  <2>1. f + 1 \in Nat /\ f < n /\ f + 1 <= n
    BY <1>2, <1>3, <1>7
  <2>2. I(f, n).lower <= I(f + 1, n).lower
    BY <1>2, <2>1, LowerInCounted
  <2> HIDE DEF I
  <2>3. I(f + 1, n).lower \in Int /\ I(s, n).upper \in Int
    BY <1>2, <1>5, <2>1
  <2> QED
    BY <1>1, <1>4, <1>7, <2>2, <2>3 DEF u
<1>8. CASE t \in {<<"missing", "failed">>, <<"unknown", "failed">>}
  <2>1. f + 1 \in Nat /\ n + 1 \in Nat /\ f + 1 <= n + 1 /\ s <= n + 1
    BY <1>2
  <2>2. I(f, n).lower <= I(f + 1, n + 1).lower
    BY <1>2, LowerInObserved
  <2>3. I(s, n + 1).upper <= I(s, n).upper
    BY <1>2, UpperInOthers
  <2> HIDE DEF I
  <2>4. I(f + 1, n + 1).lower \in Int /\ I(s, n + 1).upper \in Int
    BY <1>2, <1>5, <2>1
  <2> QED
    BY <1>1, <1>4, <1>8, <2>2, <2>3, <2>4 DEF u
<1> QED
  BY <1>6, <1>7, <1>8 DEF Worse

(* The share of missing outcomes follows their number.                     *)
LEMMA MissingnessOrder ==
  ASSUME NEW x \in Nat, NEW y \in Nat, NEW n \in Nat \ {0}, x <= y
  PROVE  /\ Ceiling(10000 * x, n) <= Ceiling(10000 * y, n)
         /\ Ceiling(10000 * x, n) \in Int /\ Ceiling(10000 * y, n) \in Int
<1> DEFINE a == - (10000 * x)
           b == - (10000 * y)
<1>1. a \in Int /\ b \in Int /\ b <= a
  OBVIOUS
<1>2. Ceiling(10000 * x, n) = - (a \div n) /\ Ceiling(10000 * y, n) = - (b \div n)
  BY DEF Ceiling
<1> HIDE DEF a, b
<1>3. a \div n \in Int /\ b \div n \in Int
  BY <1>1, FloorBounds
<1>4. b \div n <= a \div n
  <2>1. n * b <= n * a
    BY <1>1, Scaled
  <2>2. b * n <= a * n
    BY <1>1, <2>1
  <2> QED
    BY <1>1, <2>2, FloorOrder
<1> QED
  BY <1>2, <1>3, <1>4

LEMMA MissingnessFalls ==
  ASSUME NEW x \in ArmCounts, NEW y \in ArmCounts, NEW v, NEW w,
         Assigned(v) = Assigned(x), Missing(v) \in Nat, Missing(v) <= Missing(x),
         Assigned(w) = Assigned(y), Missing(w) \in Nat, Missing(w) <= Missing(y)
  PROVE  /\ Missingness(v, w) <= Missingness(x, y)
         /\ Missingness(v, w) \in Int /\ Missingness(x, y) \in Int
<1> DEFINE total == Assigned(x) + Assigned(y)
           few == Missing(v) + Missing(w)
           many == Missing(x) + Missing(y)
<1>1. /\ total \in Nat /\ few \in Nat /\ many \in Nat /\ few <= many
      /\ Assigned(v) + Assigned(w) = total
  BY ArmCount
<1>2. /\ Missingness(x, y) =
           IF total = 0 THEN 10000 ELSE Ceiling(10000 * many, total)
      /\ Missingness(v, w) =
           IF total = 0 THEN 10000 ELSE Ceiling(10000 * few, total)
  BY <1>1 DEF Missingness
<1> HIDE DEF total, few, many
<1>3. CASE total = 0
  BY <1>2, <1>3
<1>4. CASE total # 0
  <2>1. total \in Nat \ {0}
    BY <1>1, <1>4
  <2> QED
    BY <1>1, <1>2, <1>4, <2>1, MissingnessOrder
<1> QED
  BY <1>3, <1>4

LEMMA EvidenceForward ==
  EvidenceCountsForward
<1> SUFFICES ASSUME NEW p \in EvidencePolicies,
                    NEW control \in ArmCounts, NEW candidate \in ArmCounts,
                    Admitted(p, control, candidate)
             PROVE  /\ \A t \in Better : candidate[t[1]] > 0 =>
                         Admitted(p, control, Turned(candidate, t[1], t[2]))
                    /\ \A t \in Worse : control[t[1]] > 0 =>
                         Admitted(p, Turned(control, t[1], t[2]), candidate)
  BY DEF EvidenceCountsForward
<1> DEFINE c == p.confidence
<1>1. /\ c \in Confidences /\ p.maxMissingness \in Nat
      /\ p.harmMargin \in Nat /\ p.utilityLift \in Nat
  BY EvidenceAssumption, PolicyFields
<1>2. \A arm \in ArmCounts :
        /\ Harm(arm, c).lower \in Int /\ Harm(arm, c).upper \in Int
        /\ Utility(arm, c).lower \in Int /\ Utility(arm, c).upper \in Int
  BY <1>1, ArmFields, IntervalBounds DEF Harm, Utility
<1>3. \A x, y : Admitted(p, x, y) <=>
        /\ Assigned(x) >= p.minControl /\ Assigned(y) >= p.minCandidate
        /\ Missingness(x, y) <= p.maxMissingness
        /\ Harm(y, c).upper - Harm(x, c).lower <= p.harmMargin
        /\ Utility(y, c).lower - Utility(x, c).upper >= p.utilityLift
  BY DEF Admitted, Difference
<1> HIDE DEF c
<1>4. \A arm \in ArmCounts : Missing(arm) \in Nat /\ Missing(arm) <= Missing(arm)
  BY ArmCount
<1>5. ASSUME NEW t \in Better, candidate[t[1]] > 0
      PROVE  Admitted(p, control, Turned(candidate, t[1], t[2]))
  <2> DEFINE u == Turned(candidate, t[1], t[2])
  <2>1. /\ Assigned(u) = Assigned(candidate)
        /\ Missing(u) \in Nat /\ Missing(u) <= Missing(candidate)
    BY <1>5, TurnedRates
  <2>2. /\ Harm(u, c).upper <= Harm(candidate, c).upper /\ Harm(u, c).upper \in Int
        /\ Utility(candidate, c).lower <= Utility(u, c).lower
        /\ Utility(u, c).lower \in Int
    BY <1>1, <1>5, BetterRates
  <2> HIDE DEF u
  <2>3. /\ Missingness(control, u) <= Missingness(control, candidate)
        /\ Missingness(control, u) \in Int
        /\ Missingness(control, candidate) \in Int
    BY <1>4, <2>1, MissingnessFalls
  <2>4. Admitted(p, control, u)
    BY <1>1, <1>2, <1>3, <2>1, <2>2, <2>3
  <2> QED
    BY <2>4 DEF u
<1>6. ASSUME NEW t \in Worse, control[t[1]] > 0
      PROVE  Admitted(p, Turned(control, t[1], t[2]), candidate)
  <2> DEFINE u == Turned(control, t[1], t[2])
  <2>1. /\ Assigned(u) = Assigned(control)
        /\ Missing(u) \in Nat /\ Missing(u) <= Missing(control)
    BY <1>6, TurnedRates
  <2>2. /\ Harm(control, c).lower <= Harm(u, c).lower /\ Harm(u, c).lower \in Int
        /\ Utility(u, c).upper <= Utility(control, c).upper
        /\ Utility(u, c).upper \in Int
    BY <1>1, <1>6, WorseRates
  <2> HIDE DEF u
  <2>3. /\ Missingness(u, candidate) <= Missingness(control, candidate)
        /\ Missingness(u, candidate) \in Int
        /\ Missingness(control, candidate) \in Int
    BY <1>4, <2>1, MissingnessFalls
  <2>4. Admitted(p, u, candidate)
    BY <1>1, <1>2, <1>3, <2>1, <2>2, <2>3
  <2> QED
    BY <2>4 DEF u
<1> QED
  BY <1>5, <1>6

(* Whatever the policy, and for every number of exposures the code takes,  *)
(* no treatment loses its admission because a decision it served turned    *)
(* out better or one of the control worse: neither the rounding of the     *)
(* bounds nor the outcome that becomes an observation can turn the verdict *)
(* of certifyEffect against what was observed.                             *)
THEOREM VerdictsCountForward == Spec => []VerdictCountsForward
<1>1. VerdictCountsForward
  BY EvidenceForward DEF VerdictCountsForward
<1> QED
  BY <1>1, PTL

(* The verdict of every certificate holds: it counts forward and is earned. *)
THEOREM VerdictsHold == Spec => []VerdictHolds
<1>1. VerdictCountsForward /\ VerdictIsEarned => VerdictHolds
  BY DEF VerdictHolds
<1> QED
  BY <1>1, VerdictsAreEarned, VerdictsCountForward, PTL
=============================================================================
