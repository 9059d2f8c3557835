-------------------------- MODULE EffectEvaluation --------------------------
(***************************************************************************)
(* The verdict on the evidence of one cohort: from the counts of outcomes  *)
(* in the control and the candidate arm and the thresholds of an evidence  *)
(* policy to an admission.                                                 *)
(*                                                                         *)
(* A rate is estimated by a Wilson score interval, two rates are compared  *)
(* by Newcombe's difference of their intervals, and every bound is rounded *)
(* outward to basis points.  The code computes in floating point; here the *)
(* square of z and the root are kept to a thousandth.                      *)
(***************************************************************************)
EXTENDS Integers

CONSTANTS
  EvidencePolicies, \* thresholds an evidence policy may set
  MaxArm            \* bound: exposures of one arm; 4096 in the code

BasisPoints == 0 .. 10000
ExposureCounts == 1 .. 4096
Confidences == {9000, 9500, 9900}

AdmissionPolicy ==
  [minControl : ExposureCounts, minCandidate : ExposureCounts,
   maxMissingness : BasisPoints, harmMargin : BasisPoints,
   utilityLift : BasisPoints, confidence : Confidences]

ASSUME EvidenceAssumption ==
  /\ EvidencePolicies \subseteq AdmissionPolicy
  /\ MaxArm \in Nat /\ MaxArm <= 4096

-----------------------------------------------------------------------------
(* One arm.                                                                *)

Outcomes == {"succeeded", "partial", "failed", "unknown", "missing"}

Assigned(arm) ==
  arm.succeeded + arm.partial + arm.failed + arm.unknown + arm.missing
Observed(arm) == arm.succeeded + arm.partial + arm.failed

(* What an outcome of status "unknown" says counts as little as none.      *)
Missing(arm) == arm.unknown + arm.missing

ArmCounts ==
  {arm \in [Outcomes -> 0 .. MaxArm] : Assigned(arm) <= MaxArm}

Thousand == 1000

(* z^2 of each closed confidence, in thousandths.                          *)
ZSquared == [confidence \in Confidences |->
               CASE confidence = 9000 -> 2706
                 [] confidence = 9500 -> 3841
                 [] confidence = 9900 -> 6635]

(* The integer root, found to the hundred first.                           *)
Brackets(r, step, n) == r * r <= n /\ n < (r + step) * (r + step)
Hundreds(n) == CHOOSE h \in 0 .. (n \div 10000) : Brackets(100 * h, 100, n)
Root(n) ==
  LET least == 100 * Hundreds(n)
  IN  CHOOSE r \in least .. least + 99 : Brackets(r, 1, n)

Ceiling(a, b) == -((-a) \div b)

(* The bounds of a rate of s in n, in basis points.                        *)
RateInterval(s, n, confidence) ==
  IF n = 0 THEN [lower |-> 0, upper |-> 10000]
  ELSE LET z2 == ZSquared[confidence]
           center == 2 * Thousand * s + z2
           root == Root(z2 * (((4 * Thousand * s * (n - s)) \div n) + z2))
           scale == 2 * (Thousand * n + z2)
       IN  [lower |-> (10000 * (center - root)) \div scale,
            upper |-> Ceiling(10000 * (center + root), scale)]

Harm(arm, confidence) == RateInterval(arm.failed, Observed(arm), confidence)
Utility(arm, confidence) ==
  RateInterval(arm.succeeded, Observed(arm), confidence)

(* Seeded fault: the arms are taken the other way round.                   *)
DifferenceReversed(candidate, control) ==
  [lower |-> control.lower - candidate.upper,
   upper |-> control.upper - candidate.lower]

(* The least and the most by which the candidate's rate may be the higher. *)
Difference(candidate, control) ==
  [lower |-> candidate.lower - control.upper,
   upper |-> candidate.upper - control.lower]

Missingness(control, candidate) ==
  LET total == Assigned(control) + Assigned(candidate)
  IN  IF total = 0 THEN 10000
      ELSE Ceiling(10000 * (Missing(control) + Missing(candidate)), total)

(* evaluateEffectEvidenceV1: a treatment is admitted when every check of   *)
(* the policy passes.                                                      *)
Admitted(p, control, candidate) ==
  LET harm == Difference(Harm(candidate, p.confidence),
                         Harm(control, p.confidence))
      utility == Difference(Utility(candidate, p.confidence),
                            Utility(control, p.confidence))
  IN  /\ Assigned(control) >= p.minControl
      /\ Assigned(candidate) >= p.minCandidate
      /\ Missingness(control, candidate) <= p.maxMissingness
      /\ harm.upper <= p.harmMargin
      /\ utility.lower >= p.utilityLift

-----------------------------------------------------------------------------
(* The counts of an arm in which one decision had turned out as "to"       *)
(* instead of "from".                                                      *)
Turned(arm, from, to) ==
  [arm EXCEPT ![from] = @ - 1, ![to] = @ + 1]

Better == {<<"failed", "partial">>, <<"partial", "succeeded">>,
           <<"missing", "succeeded">>, <<"unknown", "succeeded">>}
Worse == {<<"succeeded", "partial">>, <<"partial", "failed">>,
          <<"missing", "failed">>, <<"unknown", "failed">>}

(* Evidence counts in the direction it points: no treatment loses its      *)
(* admission because a decision it served turned out better, or one the    *)
(* control served turned out worse, whatever the rounding of the bounds    *)
(* and however the observed counts shift with it.                          *)
EvidenceCountsForward ==
  \A p \in EvidencePolicies : \A control, candidate \in ArmCounts :
    Admitted(p, control, candidate) =>
      /\ \A t \in Better : candidate[t[1]] > 0 =>
           Admitted(p, control, Turned(candidate, t[1], t[2]))
      /\ \A t \in Worse : control[t[1]] > 0 =>
           Admitted(p, Turned(control, t[1], t[2]), candidate)

(* An admission is earned by observations: both arms have some, although   *)
(* no check asks for them, and the same counts with the arms exchanged     *)
(* would not have been admitted, even where no lift is required.           *)
AdmissionIsEarned ==
  \A p \in EvidencePolicies : \A control, candidate \in ArmCounts :
    Admitted(p, control, candidate) =>
      /\ Observed(control) > 0 /\ Observed(candidate) > 0
      /\ ~ Admitted(p, candidate, control)
=============================================================================
