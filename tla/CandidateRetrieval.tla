------------------------ MODULE CandidateRetrieval ------------------------
(***************************************************************************)
(* The first half of a continuation decision: the candidates that an arm   *)
(* of the experiment offers, and the bounded set of them that retrieval    *)
(* hands to the compiler.                                                  *)
(*                                                                         *)
(* One decision is one problem: the capsules that the memory projection    *)
(* and the branch manifests hold, the obligations of the host, what the    *)
(* world snapshot observed, and the render budget.  Capsules are numbered  *)
(* in the order of their ids.  Retrieval protects what the decision must   *)
(* see and its whole relationship component, refuses when that alone is    *)
(* too much, and fills each lane with the best of the rest, one component  *)
(* at a time.                                                              *)
(***************************************************************************)
EXTENDS Naturals, FiniteSets

CONSTANTS
  Capsules,       \* capsule ids, as numbers in their canonical order
  Obligations,    \* obligations of the host that a capsule may claim
  Hard,           \* those whose requirement is hard
  Prohibitions,   \* those of kind prohibition
  Requires,       \* the probes an obligation requires, none: runtime state
  Problems,       \* the decisions to assemble
  LaneLimit,      \* continuity_candidate_limit and learning_candidate_limit
  SelectedLimit   \* selected_capsule_limit

Lanes == {"continuity", "learning"}
Arms == {"authoritative", "candidate"}

ASSUME RetrievalAssumption ==
  /\ Capsules \subseteq Nat /\ IsFiniteSet(Capsules)
  /\ IsFiniteSet(Obligations)
  /\ Hard \subseteq Obligations /\ Prohibitions \subseteq Obligations
  /\ DOMAIN Requires = Obligations
  /\ LaneLimit \in [Lanes -> Nat \ {0}] /\ SelectedLimit \in Nat \ {0}

(* What the schemas of the compiler admit of a capsule, of where a         *)
(* candidate comes from, and of a request.  No capsule is related to       *)
(* itself; where the relations of a candidate lead, retrieval looks at.    *)
CapsuleParsed(facts) ==
  /\ facts.influence \in {"use", "inspect", "rehydrate", "block"}
  /\ facts.bytes \in Nat /\ facts.claims \subseteq Obligations
  /\ facts.influence = "use" =>
       facts.kind # "counter_evidence" /\ facts.claims \cap Prohibitions = {}
  /\ \A s, t \in facts.specs : s.probe = t.probe => s = t

CandidateParsed(facts) ==
  /\ facts.authority \in 0 .. 2
  /\ facts.lifecycle \in {"active", "suppressed", "archived", "quarantined"}
  /\ facts.bound \in [Arms -> {"include", "prohibit", "exclude", "unbound"}]
  /\ \/ facts.lane = "learning" /\ facts.kind \in {"procedure", "counter_evidence"}
     \/ facts.lane = "continuity" /\ facts.kind \in {"current_state", "verified_fact", "constraint"}

RequestParsed(p) ==
  /\ \A c \in Capsules : CapsuleParsed(p.capsules[c]) /\ CandidateParsed(p.capsules[c])
  /\ \A r \in p.conflicts \cup p.supersedes : r \in Capsules \X Capsules /\ r[1] # r[2]
  /\ "authoritative" \in p.arms /\ p.arms \subseteq Arms
  /\ p.budget \in Nat /\ p.direct \in BOOLEAN

ASSUME ProblemsAssumption == \A p \in Problems : RequestParsed(p)

VARIABLES
  problem,     \* the decision being assembled
  phase,       \* what the assembly does next
  arm,         \* the arm under evaluation
  kept,        \* the candidates retrieval selected, per arm
  lane,        \* the lane being filled
  pool,        \* its candidates not looked at yet
  cause        \* why the decision was refused

retrieval == <<problem, phase, arm, kept, lane, pool, cause>>

-----------------------------------------------------------------------------
Facts(c) == problem.capsules[c]

(* A continuity capsule is prohibited by its own influence, a learned one  *)
(* by the manifest of the arm.                                             *)
Disposition(c) ==
  IF Facts(c).lane = "learning" THEN Facts(c).bound[arm]
  ELSE IF Facts(c).influence = "block" THEN "prohibit" ELSE "include"

(* The materializer passes over what is not active; a caller of the        *)
(* exported compiler may offer anything.                                   *)
Source ==
  {c \in Capsules :
     /\ Disposition(c) # "unbound"
     /\ problem.direct \/ Facts(c).lifecycle = "active"}

Relations == problem.conflicts \cup problem.supersedes
Linked(c, d) == <<c, d>> \in Relations \/ <<d, c>> \in Relations
RelationsHold ==
  \A r \in Relations : r[1] \in Source =>
    /\ r[2] \in Source
    /\ Facts(r[1]).lane = Facts(r[2]).lane

(* The candidates reachable from c over relations: every closed set that   *)
(* holds c holds them.                                                     *)
Closed(S) == \A c \in S : \A d \in Source : Linked(c, d) => d \in S
Component(c) ==
  {d \in Source : \A S \in SUBSET Source : (c \in S /\ Closed(S)) => d \in S}

-----------------------------------------------------------------------------
Applicable(c) == Facts(c).fits /\ Facts(c).claims # {}
AuditOnly(c) ==
  /\ Applicable(c)
  /\ Facts(c).lifecycle # "active" \/ Disposition(c) = "exclude"
Live(c) == Applicable(c) /\ ~AuditOnly(c)

Guarding(c) ==
  \/ Disposition(c) = "prohibit"
  \/ Facts(c).kind \in {"constraint", "counter_evidence"}

HardSeedsOnly ==  \* seeded fault: guards of advisory obligations are optional
  {c \in Source : Live(c) /\ Facts(c).claims \cap Hard # {}}
ProtectedSeeds == {c \in Source : Live(c) /\ (Guarding(c) \/ Facts(c).claims \cap Hard # {})}
MandatorySeeds ==
  {c \in Source : Live(c) /\ (Guarding(c) \/ Facts(c).influence = "block")}

Protected == UNION {Component(c) : c \in ProtectedSeeds}
MandatoryProtected == UNION {Component(c) : c \in MandatorySeeds}

InLane(S, l) == {c \in S : Facts(c).lane = l}

Overflow ==
  \/ \E l \in Lanes : Cardinality(InLane(Protected, l)) > LaneLimit[l]
  \/ Cardinality(MandatoryProtected) > SelectedLimit

-----------------------------------------------------------------------------
(* The two rankings.  Digests of whole candidates break their ties, an     *)
(* order that nothing else depends on: any of the tied may come first.     *)
CoveredBy(S) == UNION {Facts(c).claims : c \in {d \in S : Live(d)}}

Precedes(c, d, value) ==
  \/ value[c] > value[d]
  \/ /\ value[c] = value[d]
     /\ \/ Facts(c).authority > Facts(d).authority
        \/ /\ Facts(c).authority = Facts(d).authority
           /\ Facts(c).born > Facts(d).born

Marginal == [c \in pool |-> Cardinality(Facts(c).claims \ CoveredBy(kept[arm]))]
Claimed == [c \in pool |-> Cardinality(Facts(c).claims)]

BestSeeds == {c \in pool : ~\E d \in pool : Precedes(d, c, Marginal)}
BestAudits == {c \in pool : ~\E d \in pool : Precedes(d, c, Claimed)}

Fits(S) == Cardinality(InLane(kept[arm] \cup S, lane)) =< LaneLimit[lane]

(* What one look at a seed makes of the selection and of the pool.         *)
TakeComponent(c) ==
  LET whole == Component(c) IN
  IF Fits(whole)
  THEN /\ kept' = [kept EXCEPT ![arm] = @ \cup whole]
       /\ pool' = pool \ (whole \cup {c})
  ELSE pool' = pool \ {c} /\ UNCHANGED kept

Unseen(S, l) == {c \in InLane(Source, l) \ S : Live(c)}
UnseenAudit(S, l) == {c \in InLane(Source, l) \ S : AuditOnly(c)}

-----------------------------------------------------------------------------
Refuse(why) == phase' = "refused" /\ cause' = why

(* Protect what must be seen, or refuse to see a part of it.               *)
Protect ==
  /\ phase = "retrieve"
  /\ RelationsHold /\ ~Overflow
  /\ kept' = [kept EXCEPT ![arm] = Protected]
  /\ lane' = "continuity"
  /\ pool' = Unseen(Protected, "continuity")
  /\ phase' = "fill"
  /\ UNCHANGED <<problem, arm, cause>>

RefuseSource ==
  /\ phase = "retrieve"
  /\ ~RelationsHold \/ Overflow
  /\ Refuse(IF RelationsHold THEN "policy_capacity" ELSE "relationship")
  /\ UNCHANGED <<problem, arm, kept, lane, pool>>

TakeSeed ==
  /\ phase = "fill"
  /\ \E c \in BestSeeds : TakeComponent(c)
  /\ UNCHANGED <<problem, phase, arm, lane, cause>>

TakeAudit ==
  /\ phase = "audit"
  /\ \E c \in BestAudits : TakeComponent(c)
  /\ UNCHANGED <<problem, phase, arm, lane, cause>>

(* The pool of a lane is empty: its audit-only candidates are next, then   *)
(* the other lane, and after both the candidates are evaluated.            *)
NextPool ==
  /\ phase \in {"fill", "audit"} /\ pool = {}
  /\ IF phase = "fill"
     THEN phase' = "audit" /\ pool' = UnseenAudit(kept[arm], lane) /\ UNCHANGED lane
     ELSE IF lane = "continuity"
     THEN phase' = "fill" /\ lane' = "learning" /\ pool' = Unseen(kept[arm], "learning")
     ELSE phase' = "retrieved" /\ UNCHANGED <<lane, pool>>
  /\ UNCHANGED <<problem, arm, kept, cause>>

Retrieve == Protect \/ RefuseSource \/ TakeSeed \/ TakeAudit \/ NextPool
============================================================================
