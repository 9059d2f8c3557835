------------------------- MODULE DecisionAssembly -------------------------
(***************************************************************************)
(* The assembly of one continuation decision.  Before a cohort assigns the *)
(* arm, every arm that may be assigned goes through retrieval and a trial  *)
(* evaluation, so that an arm that cannot be served does not bias the      *)
(* assignment.  The served arm is then compiled into a contract, rendered, *)
(* and verified as the exposure that the episode ledger stores.  A caller  *)
(* of the exported compiler goes straight from retrieval to the contract.  *)
(***************************************************************************)
EXTENDS SelectionEvaluation

VARIABLE
  tried        \* the arms that passed their trial

vars == <<retrieval, evaluation, tried>>

-----------------------------------------------------------------------------
(* The contract of the selection just evaluated.                           *)
Related(o) == {c \in selected : o \in Facts(c).claims}
CoverageStatus(o) ==
  IF o \in Covered(selected) /\ o \notin Unresolved THEN "covered"
  ELSE IF o \in Unresolved \/ Related(o) # {} THEN "conflicted" ELSE "uncovered"

OpenHard == {o \in Hard : CoverageStatus(o) # "covered"}
HardComplete == OpenHard = {}
DirectUseComplete ==
  \A c \in selected : Surface(c) = "use_now" => Facts(c).specs = Some(c, "satisfied")
ConflictFree == ~\E c, d \in selected : Conflict(c, d)
BudgetSatisfied == Cost(selected) =< problem.budget
Complete ==
  HardComplete /\ DirectUseComplete /\ ConflictFree /\ BudgetSatisfied /\ Rehydrations = {}

Paths == {Surface(c) : c \in {d \in selected : Facts(d).claims \cap OpenHard # {}}}
BlockLast ==  \* seeded fault: what is shown as do_not_use does not block first
  IF Complete THEN "execute"
  ELSE IF Rehydrations # {} \/ "rehydrate" \in Paths THEN "rehydrate"
  ELSE IF ~ConflictFree \/ "inspect_before_use" \in Paths THEN "inspect"
  ELSE IF ~BudgetSatisfied \/ "do_not_use" \in Paths THEN "block" ELSE "report_unresolved"
Mode ==
  CASE Complete -> "execute"
    [] ~Complete /\ (~BudgetSatisfied \/ "do_not_use" \in Paths) -> "block"
    [] OTHER -> IF Rehydrations # {} \/ "rehydrate" \in Paths THEN "rehydrate"
                ELSE IF ~ConflictFree \/ "inspect_before_use" \in Paths THEN "inspect"
                ELSE "report_unresolved"

(* verifyContinuationCandidateRetrievalReceiptV1, over the counts.         *)
ReceiptValid ==
  /\ Cardinality(MandatoryProtected) =< Cardinality(Protected)
  /\ \A l \in Lanes :
       /\ Cardinality(InLane(Protected, l)) =< Cardinality(InLane(kept[arm], l))
       /\ Cardinality(InLane(kept[arm], l)) =< LaneLimit[l]
  /\ Cardinality(MandatoryProtected) =< Cardinality(kept[arm])

(* A set listed by digest is in the order of its ids.                      *)
SameOrder(S) == \A c, d \in S : c < d <=> problem.sha[c] < problem.sha[d]

(* verifyClosedContinuationExposureProjectionV1 derives the status and the *)
(* fallback again, from what the contract persists.                        *)
DerivedComplete == HardComplete /\ DirectUseComplete /\ ConflictFree /\ BudgetSatisfied
DerivedMode ==
  CASE Complete -> "execute"
    [] ~Complete /\ (~BudgetSatisfied \/ "do_not_use" \in Paths) -> "block"
    [] OTHER -> IF "rehydrate" \in Paths THEN "rehydrate"
                ELSE IF ~ConflictFree \/ "inspect_before_use" \in Paths THEN "inspect"
                ELSE "report_unresolved"
ContractVerifies ==
  /\ \A o \in Obligations : SameOrder(Related(o))
  /\ \A o \in Obligations \ Prohibitions : CoverageStatus(o) = "covered" =>
       \E c \in Related(o) : Surface(c) = "use_now" /\ Requires[o] \subseteq Satisfied(c)
  /\ Complete <=> DerivedComplete
  /\ Rehydrations = {}  \* its reason is none of the four the certificate may give
  /\ Mode = DerivedMode

-----------------------------------------------------------------------------
Init ==
  /\ problem \in Problems
  /\ phase = "retrieve" /\ arm = "authoritative" /\ served = NoArm
  /\ kept = [a \in Arms |-> {}] /\ lane = "continuity" /\ pool = {}
  /\ disputed = {} /\ selected = {} /\ tried = {} /\ cause = "none"

(* A direct caller compiles what it retrieved.                             *)
Retrieved ==
  /\ phase = "retrieved"
  /\ IF problem.direct
     THEN phase' = "compile" /\ served' = arm
     ELSE phase' = "evaluate" /\ UNCHANGED served
  /\ UNCHANGED <<problem, arm, kept, lane, pool, cause, disputed, selected, tried>>

(* A trial is over: the next arm, or the assignment of one.                *)
Tried ==
  /\ phase = "evaluated" /\ served = NoArm
  /\ tried' = tried \cup {arm}
  /\ IF problem.arms \subseteq tried'
     THEN phase' = "assign" /\ UNCHANGED arm
     ELSE phase' = "retrieve" /\ arm' \in problem.arms \ tried'
  /\ UNCHANGED <<problem, kept, lane, pool, cause, evaluation>>

Assign ==
  /\ phase = "assign"
  /\ \E a \in problem.arms : served' = a /\ arm' = a
  /\ phase' = "compile"
  /\ UNCHANGED <<problem, kept, lane, pool, cause, disputed, selected, tried>>

(* compileContinuationV1 looks at the receipt and evaluates once more, now *)
(* with the frame of the contract.                                         *)
Compile ==
  /\ phase = "compile"
  /\ IF ReceiptValid
     THEN phase' = "evaluate" /\ UNCHANGED cause
     ELSE Refuse("receipt")
  /\ UNCHANGED <<problem, arm, kept, lane, pool, evaluation, tried>>

Render ==
  /\ phase = "evaluated" /\ served # NoArm
  /\ IF SameOrder(selected) THEN phase' = "rendered" /\ UNCHANGED cause ELSE Refuse("order")
  /\ UNCHANGED <<problem, arm, kept, lane, pool, evaluation, tried>>

Expose ==
  /\ phase = "rendered"
  /\ IF ContractVerifies THEN phase' = "served" /\ UNCHANGED cause ELSE Refuse("contract")
  /\ UNCHANGED <<problem, arm, kept, lane, pool, evaluation, tried>>

(* The decision is made or refused.                                        *)
Decided == phase \in {"served", "refused"} /\ UNCHANGED vars

Next ==
  \/ Retrieve /\ UNCHANGED <<evaluation, tried>>
  \/ Retrieved
  \/ Evaluate /\ UNCHANGED tried
  \/ Tried \/ Assign \/ Compile \/ Render \/ Expose \/ Decided

Spec == Init /\ [][Next]_vars

-----------------------------------------------------------------------------
TypeOK ==
  /\ problem \in Problems
  /\ phase \in {"retrieve", "fill", "audit", "retrieved", "evaluate", "dispute", "hard",
                "path", "advisory", "evaluated", "assign", "compile", "rendered",
                "served", "refused"}
  /\ arm \in Arms /\ served \in problem.arms \cup {NoArm} /\ tried \subseteq problem.arms
  /\ kept \in [Arms -> SUBSET Capsules] /\ pool \subseteq Capsules /\ lane \in Lanes
  /\ disputed \subseteq Capsules \X Capsules /\ selected \subseteq Capsules

Selected == phase \in {"hard", "path", "advisory", "evaluated", "rendered", "served"}

(* What retrieval hands to the evaluator is complete and within the lanes: *)
(* no relation of a retrieved candidate leads outside, so the evaluator    *)
(* never meets a reference it cannot resolve.                              *)
RetrievedIsClosed ==
  phase \in {"fill", "audit", "retrieved", "evaluate"} \/ Selected =>
    /\ Closed(kept[arm])
    /\ \A l \in Lanes : Cardinality(InLane(kept[arm], l)) =< LaneLimit[l]

(* A prohibition, a constraint or counter-evidence that applies to the     *)
(* request reaches the agent as something not to use, whatever the limits  *)
(* and the budget, unless a capsule of at least its authority replaced it. *)
Enforced(c) ==
  \/ c \in selected /\ (Disposition(c) = "prohibit" \/ Facts(c).kind = "counter_evidence"
                          => Surface(c) = "do_not_use")
  \/ \E d \in Source :
       <<d, c>> \in problem.supersedes /\ Facts(d).authority >= Facts(c).authority
SafetyNeverDropped ==
  Selected =>
    \A c \in Source :
      Live(c) /\ (Disposition(c) = "prohibit" \/ Facts(c).kind = "counter_evidence") =>
        Enforced(c)

(* What is picked by its benefit fits: the limit is never exceeded, the    *)
(* budget only by what may not be dropped, and a pick contradicts nothing  *)
(* that is already selected.                                               *)
PicksFit ==
  Selected =>
    /\ Cardinality(selected) =< SelectedLimit
    /\ selected # Mandatory => Cost(selected) =< problem.budget
    /\ \A c \in selected \ Mandatory : ~\E d \in selected : Conflict(c, d)

(* At the end nothing is left that would cover one more hard obligation    *)
(* within the limit, the budget and the conflicts.                         *)
NothingLeftOut ==
  phase \in {"evaluated", "rendered", "served"} =>
    \A c \in Eligible \ selected :
      (\E o \in Hard : Covers(c, o) /\ ~\E d \in selected : Covers(d, o)) =>
        ~Affordable(c)

(* The selection keeps what is binding, fits what is limited and uses what *)
(* is left, whatever relations, conflicts and budgets it meets.            *)
SelectionIsSound ==
  RetrievedIsClosed /\ SafetyNeverDropped /\ PicksFit /\ NothingLeftOut

(* A contract that says execute is sound: each hard obligation is carried  *)
(* by a capsule in force that is used now on fresh evidence for every      *)
(* probe it requires, or is prohibited where the obligation forbids;       *)
(* nothing that is shown contradicts another; no capsule of a higher       *)
(* authority contradicts what is used, and no equal that is itself not     *)
(* outranked; all of it fits the budget.                                   *)
Evidence(c, o) ==
  \A p \in Requires[o] : \E s \in Facts(c).specs, seen \in problem.seen :
    /\ s.probe = p /\ seen.probe = p /\ seen.trusted /\ seen.value = s.expects
    /\ 0 =< seen.age /\ 0 =< seen.left /\ seen.age + seen.left =< s.max_age
Carries(c, o) ==
  /\ o \in Facts(c).claims /\ Facts(c).lifecycle = "active" /\ Facts(c).fits
  /\ Disposition(c) # "exclude"
  /\ IF o \in Prohibitions THEN Guarding(c)
     ELSE Disposition(c) = "include" /\ Evidence(c, o)
          /\ ~\E d \in kept[arm] :
                /\ Conflict(c, d) /\ BaseSurface(d) = "use_now"
                /\ \/ d \in Current /\ Facts(d).authority > Facts(c).authority
                   \/ d \in Eligible /\ Facts(d).authority = Facts(c).authority
                      /\ Shared(c, d) # {}
ExecuteIsSound ==
  phase = "served" /\ Mode = "execute" =>
    /\ \A o \in Hard : \E c \in selected : Carries(c, o)
    /\ ~\E c, d \in selected : Conflict(c, d)
    /\ Cost(selected) =< problem.budget

(* A refusal after the assignment has one of three causes: two selected    *)
(* capsules whose digests order them otherwise than their ids, an archived *)
(* capsule, or a mandatory capsule that nothing protects.  Everything else *)
(* that is compiled is served.                                             *)
LateRefusalsAreKnown ==
  phase = "refused" /\ served # NoArm =>
    \/ cause \in {"order", "contract"} /\ ~SameOrder(selected)
    \/ cause = "contract" /\ Rehydrations # {}
    \/ cause = "receipt" /\ ~(MandatorySeeds \subseteq Protected)
    \/ problem.direct /\ cause \in {"policy_capacity", "supersession"}

(* What the assembly says of the trials (decision-assembly.ts:599): once   *)
(* every arm has passed, no arm is refused any more.                       *)
TrialsDecide == phase = "refused" => served = NoArm

(* What the compiler emits, the closed contract verifier accepts.          *)
VerifierAccepts == cause # "contract"

(* What the retrieval contract says of its lanes: which continuity is      *)
(* selected does not depend on the learning branch.  Retrieval fills the   *)
(* continuity lane by what it adds to the protected candidates of both     *)
(* lanes, so that it does.                                                 *)
ContinuityStandsAlone ==
  phase = "assign" /\ problem.arms = Arms =>
    InLane(kept["authoritative"], "continuity") = InLane(kept["candidate"], "continuity")
============================================================================
