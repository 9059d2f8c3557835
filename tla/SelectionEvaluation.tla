------------------------ MODULE SelectionEvaluation ------------------------
(***************************************************************************)
(* The second half of a continuation decision: which of the retrieved      *)
(* candidates are shown to the agent, how, and whether together they       *)
(* complete the obligations.                                               *)
(*                                                                         *)
(* A candidate is excluded or prepared with a surface; supersession and    *)
(* authority thin the prepared; what must not be used is mandatory; the    *)
(* rest is picked greedily by benefit per byte, hard obligations first.    *)
(* Bytes are the measured projection bytes of a capsule: what a selection  *)
(* costs is the frame, the rehydration refs, and its capsules with the     *)
(* commas between them.                                                    *)
(***************************************************************************)
EXTENDS CandidateRetrieval, Integers

CONSTANTS
  FrameBytes,       \* projection frame of a contract; an arm's trial has none
  RefBytes,         \* bytes of one rehydration ref
  HardWeight, AdvisoryWeight, AuthorityBonus, FreshnessBonus

ASSUME EvaluationAssumption ==
  /\ {FrameBytes, RefBytes, HardWeight, AdvisoryWeight} \subseteq Nat
  /\ AuthorityBonus \in [0 .. 2 -> Nat]

VARIABLES
  served,      \* the arm whose contract is compiled, NoArm on trial
  disputed,    \* pairs of direct uses of equal authority that contradict
  selected     \* the capsules selected so far

evaluation == <<served, disputed, selected>>
NoArm == "none"

Universe == kept[arm]
Conflict(c, d) == <<c, d>> \in problem.conflicts \/ <<d, c>> \in problem.conflicts

-----------------------------------------------------------------------------
(* evaluatePreconditionV1: what an observation, by its age and the time it *)
(* has left, says of a typed precondition.                                 *)
Trusted(spec, seen) ==  \* seeded fault: the age of an observation is not looked at
  seen.probe = spec.probe /\ seen.trusted
Usable(spec, seen) ==
  /\ seen.probe = spec.probe /\ seen.trusted
  /\ seen.age >= 0 /\ seen.left >= 0
  /\ seen.age =< spec.max_age
  /\ seen.age + seen.left =< spec.max_age
Status(spec) ==
  IF ~\E seen \in problem.seen : Usable(spec, seen) THEN "unknown"
  ELSE IF \E seen \in problem.seen : Usable(spec, seen) /\ seen.value = spec.expects
  THEN "satisfied" ELSE "unsatisfied"

Unprobed(c) == \E o \in Facts(c).claims : ~(Requires[o] \subseteq {s.probe : s \in Facts(c).specs})
Some(c, status) == {s \in Facts(c).specs : Status(s) = status}
Satisfied(c) == {s.probe : s \in Some(c, "satisfied")}

Archived(c) == Facts(c).lifecycle = "archived"
Servable(c) ==
  /\ Disposition(c) # "exclude" /\ Facts(c).lifecycle \notin {"suppressed", "quarantined"}
  /\ Applicable(c)
Prepared == {c \in Universe : Servable(c) /\ ~Archived(c)}
Rehydrations == {c \in Universe : Servable(c) /\ Archived(c)}

BaseSurface(c) ==
  LET proposed == CASE Facts(c).influence = "use" -> "use_now"
                    [] Facts(c).influence = "inspect" -> "inspect_before_use"
                    [] Facts(c).influence = "rehydrate" -> "rehydrate"
                    [] OTHER -> "do_not_use"
      unknown == {s.on_unknown : s \in Some(c, "unknown")}
  IN IF \/ Disposition(c) = "prohibit" \/ Facts(c).kind = "counter_evidence"
        \/ Some(c, "unsatisfied") # {} \/ "block" \in unknown
     THEN "do_not_use"
     ELSE IF "rehydrate" \in unknown THEN "rehydrate"
     ELSE IF (unknown # {} \/ Unprobed(c)) /\ proposed = "use_now" THEN "inspect_before_use"
     ELSE proposed

Superseding(c, d) == {c, d} \subseteq Prepared /\ <<c, d>> \in problem.supersedes
SupersessionValid ==
  /\ \A c, d \in Prepared : Superseding(c, d) => Facts(c).authority >= Facts(d).authority
  /\ ~\E S \in SUBSET Prepared \ {{}} : \A c \in S : \E d \in S : Superseding(c, d)

Superseded == {d \in Prepared : \E c \in Prepared : Superseding(c, d)}
Current == Prepared \ Superseded

Contend(c, d) ==
  Conflict(c, d) /\ BaseSurface(c) = "use_now" /\ BaseSurface(d) = "use_now"
Outranked ==
  {c \in Current : \E d \in Universe :
     Contend(c, d) /\ d \in Current /\ Facts(c).authority < Facts(d).authority}
Eligible == Current \ Outranked

-----------------------------------------------------------------------------
Disputed(c) == \E p \in disputed : c \in {p[1], p[2]}
Surface(c) == IF Disputed(c) THEN "inspect_before_use" ELSE BaseSurface(c)
Mandatory == {c \in Eligible : Disputed(c) \/ BaseSurface(c) = "do_not_use"}

Shared(c, d) == (Facts(c).claims \cap Facts(d).claims) \ Prohibitions

(* The pairs still to be disputed, in the order of the conflict graph: by  *)
(* the lower capsule, and for it first the ones that it names itself.      *)
Disputes ==
  {p \in Eligible \X Eligible :
     /\ p[1] < p[2] /\ Conflict(p[1], p[2])
     /\ Facts(p[1]).authority = Facts(p[2]).authority
     /\ Surface(p[1]) = "use_now" /\ Surface(p[2]) = "use_now"
     /\ Shared(p[1], p[2]) # {}}
Earlier(p, q) ==
  \/ p[1] < q[1]
  \/ /\ p[1] = q[1]
     /\ \/ p \in problem.conflicts /\ q \notin problem.conflicts
        \/ (p \in problem.conflicts <=> q \in problem.conflicts) /\ p[2] < q[2]

(* Obligations that a disputed pair shares stay unresolved.                *)
Unresolved == UNION {Shared(p[1], p[2]) : p \in disputed}

Covers(c, o) ==
  /\ o \in Facts(c).claims
  /\ IF o \in Prohibitions
     THEN Surface(c) = "do_not_use" /\ Guarding(c)
     ELSE Surface(c) = "use_now" /\ Requires[o] \subseteq Satisfied(c)
Covered(S) == {o \in Obligations : \E c \in S : Covers(c, o)}
NotExecutable(S) ==
  {o \in Hard : \E c \in S : o \in Facts(c).claims /\ Surface(c) # "use_now"}

-----------------------------------------------------------------------------
Frame == IF served = NoArm THEN 0 ELSE FrameBytes
RefsBytes ==
  LET n == Cardinality(Rehydrations) IN IF n = 0 THEN 0 ELSE n * RefBytes + n - 1
Bytes(c) == Facts(c).bytes
Part(c) == {c} \X (1 .. Bytes(c))  \* one element for each byte
Size(S) == Cardinality(UNION {Part(c) : c \in S})
Comma == IF selected = {} THEN 0 ELSE 1
Increment(c) == Bytes(c) + Comma
Cost(S) ==
  Frame + RefsBytes + Size(S) + (IF S = {} THEN 0 ELSE Cardinality(S) - 1)

ConflictsSelected(c) == \E d \in selected : Conflict(c, d)
Affordable(c) ==
  /\ Cardinality(selected) < SelectedLimit
  /\ Cost(selected \cup {c}) =< problem.budget
  /\ ~ConflictsSelected(c)

Gain(c, requirement) ==
  {o \in (IF requirement = "hard" THEN Hard ELSE Obligations \ Hard) \ Covered(selected) :
     Covers(c, o)}
Benefit(c, requirement) ==
  AuthorityBonus[Facts(c).authority] + FreshnessBonus[Facts(c).born]
    + Cardinality(Gain(c, requirement))
        * (IF requirement = "hard" THEN HardWeight ELSE AdvisoryWeight)
Picks(requirement) ==
  {c \in Eligible \ selected :
     c \notin Mandatory /\ Gain(c, requirement) # {} /\ Affordable(c)}

Prefer(c, d, requirement) ==
  LET left == Benefit(c, requirement) * Increment(d)
      right == Benefit(d, requirement) * Increment(c)
  IN \/ left > right
     \/ left = right /\ Facts(c).authority > Facts(d).authority
     \/ /\ left = right /\ Facts(c).authority = Facts(d).authority
        /\ \/ Bytes(c) < Bytes(d)
           \/ Bytes(c) = Bytes(d) /\ problem.sha[c] < problem.sha[d]

(* Ways out for hard obligations that nothing covers.                      *)
Open == Hard \ Covered(selected)
Way(c) == (Facts(c).claims \cap Open) \ NotExecutable(selected)
Ways ==
  {c \in Eligible \ selected : Surface(c) # "use_now" /\ Way(c) # {} /\ Affordable(c)}
SurfaceRank(c) ==
  CASE Surface(c) = "rehydrate" -> 2 [] Surface(c) = "inspect_before_use" -> 1 [] OTHER -> 0
PreferWay(c, d) ==
  LET left == Cardinality(Way(c)) * Increment(d)
      right == Cardinality(Way(d)) * Increment(c)
      rank(e) == SurfaceRank(e) * 3 + Facts(e).authority
  IN \/ left > right
     \/ left = right /\ rank(c) > rank(d)
     \/ left = right /\ rank(c) = rank(d) /\ problem.sha[c] < problem.sha[d]

-----------------------------------------------------------------------------
Select(S) == selected' = selected \cup S /\ UNCHANGED <<served, disputed>>

Prepare ==
  /\ phase = "evaluate"
  /\ IF SupersessionValid
     THEN phase' = "dispute" /\ UNCHANGED cause
     ELSE Refuse("supersession")
  /\ disputed' = {} /\ selected' = {}
  /\ UNCHANGED <<problem, arm, kept, lane, pool, served>>

Dispute ==
  /\ phase = "dispute"
  /\ LET open == Disputes IN
     \E p \in open :
       ~(\E q \in open : Earlier(q, p)) /\ disputed' = disputed \cup {p}
  /\ UNCHANGED <<retrieval, served, selected>>

SelectMandatory ==
  /\ phase = "dispute" /\ Disputes = {}
  /\ Select(Mandatory)
  /\ IF Cardinality(Mandatory) =< SelectedLimit
     THEN phase' = "hard" /\ UNCHANGED cause
     ELSE Refuse("policy_capacity")
  /\ UNCHANGED <<problem, arm, kept, lane, pool>>

SelectPass(requirement) ==
  /\ phase = requirement
  /\ LET picks == Picks(requirement) IN
     \E c \in picks :
       ~(\E d \in picks : Prefer(d, c, requirement)) /\ Select({c})
  /\ UNCHANGED retrieval

SelectWay ==
  /\ phase = "path"
  /\ LET ways == Ways IN
     \E c \in ways : ~(\E d \in ways : PreferWay(d, c)) /\ Select({c})
  /\ UNCHANGED retrieval

NextPass ==
  /\ \/ phase = "hard" /\ Picks("hard") = {} /\ phase' = "path"
     \/ phase = "path" /\ Ways = {} /\ phase' = "advisory"
     \/ phase = "advisory" /\ Picks("advisory") = {} /\ phase' = "evaluated"
  /\ UNCHANGED <<problem, arm, kept, lane, pool, cause, evaluation>>

Evaluate ==
  \/ Prepare \/ Dispute \/ SelectMandatory
  \/ SelectPass("hard") \/ SelectWay \/ SelectPass("advisory") \/ NextPass
============================================================================
