----------------------------- MODULE MCPolicies -----------------------------
(* Two revisions of each policy, the first of which expire, and a second   *)
(* compiler policy beside them; a cohort that ends before any of them      *)
(* expires, one that outlives a policy, and one whose artifact expires at  *)
(* its cutoff.                                                             *)
EXTENDS Policies

Policy(kind, id, rev, from, until) ==
  [kind |-> kind, id |-> id, rev |-> rev, from |-> from, until |-> until]
Never == MaxTime + 9
C1 == Policy("compiler_policy", "c", 1, 0, 4)
C2 == Policy("compiler_policy", "c", 2, 1, Never)
D1 == Policy("compiler_policy", "d", 1, 2, Never)
E1 == Policy("evidence_policy", "e", 1, 0, 6)
E2 == Policy("evidence_policy", "e", 2, 1, Never)
MCSigned == {C1, C2, D1, E1, E2}
MCBundles == {Pins(C1, E1), Pins(C2, E2), Pins(D1, E2)}

Window(opened, closed, cutoff, until) ==
  [opened |-> opened, closed |-> closed, cutoff |-> cutoff, until |-> until]
MCWindows == {Window(1, 2, 3, 5), Window(1, 5, 5, 7), Window(2, 3, 6, 7)}
MCWindowsToTheCutoff == MCWindows \cup {Window(1, 2, 3, 3)}
MCSpans == {[from |-> 0, until |-> 4]}
=============================================================================
