----------------------------- MODULE MCEpisodes -----------------------------
(* One cohort with a window of one instant and a grace of one, and two     *)
(* decisions of one episode.  Either may be asked for inside the window,   *)
(* and then counts, or after it, and then is ordinary traffic that         *)
(* lengthens the episode of the other.  The statistics behind the verdict  *)
(* are checked for every outcome of up to four exposures in each arm.      *)
EXTENDS Episodes

MCEpisodeOf == [d1 |-> "e1", d2 |-> "e1"]
MCDecisions == DOMAIN MCEpisodeOf

(* Terms under which it can be settled; whose artifact expires with the    *)
(* cutoff; whose policy takes one decision and a longer window.            *)
MCTerms == {[expires |-> 5, limit |-> 2, least |-> 1, most |-> 1],
            [expires |-> 4, limit |-> 2, least |-> 1, most |-> 1],
            [expires |-> 5, limit |-> 1, least |-> 2, most |-> 3]}

(* A policy with some patience and one that lets nothing but the intervals *)
(* themselves decide.                                                      *)
MCEvidencePolicies ==
  {[minControl |-> 2, minCandidate |-> 2, maxMissingness |-> 3400,
    harmMargin |-> 4000, utilityLift |-> 0, confidence |-> 9000],
   [minControl |-> 1, minCandidate |-> 1, maxMissingness |-> 10000,
    harmMargin |-> 10000, utilityLift |-> 0, confidence |-> 9500]}
=============================================================================
