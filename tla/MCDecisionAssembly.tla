------------------------ MODULE MCDecisionAssembly ------------------------
(***************************************************************************)
(* Decisions over three capsules drawn from a set of profiles, for the     *)
(* assembly (nothing is related, as admission writes capsules) and for     *)
(* direct callers of the compiler, with relations and archived capsules.   *)
(***************************************************************************)
EXTENDS DecisionAssembly

MCRequires == [o \in Obligations |-> IF o = "fix" THEN {"tests"} ELSE {}]
MCAuthorityBonus == [a \in 0 .. 2 |-> a]
MCFreshnessBonus == [b \in 0 .. 1 |-> b]
MCLaneLimit == [l \in Lanes |-> 2]

Both(d) == [a \in Arms |-> d]
Tests(expects, max_age, on_unknown) ==
  {[probe |-> "tests", expects |-> expects, max_age |-> max_age, on_unknown |-> on_unknown]}
Pass == Tests("pass", 2, "inspect")

Procedure ==
  [lane |-> "learning", kind |-> "procedure", influence |-> "use", authority |-> 0,
   born |-> 0, bytes |-> 3, claims |-> {"fix"}, fits |-> TRUE, lifecycle |-> "active",
   specs |-> Pass, bound |-> Both("include")]
Fact == [Procedure EXCEPT !.lane = "continuity", !.kind = "verified_fact", !.authority = 1]
Counter == [Procedure EXCEPT !.kind = "counter_evidence", !.influence = "block",
                             !.bound = Both("prohibit")]
Constraint == [Fact EXCEPT !.kind = "constraint", !.influence = "block",
                           !.claims = {"avoid", "note"}, !.specs = {}]

Admitted ==
  <<Procedure, Fact, Counter, Constraint,
   [Procedure EXCEPT !.bound = [Both("unbound") EXCEPT !["candidate"] = "include"], !.born = 1],
   [Counter EXCEPT !.bound = [Both("unbound") EXCEPT !["candidate"] = "prohibit"], !.born = 1],
   [Procedure EXCEPT !.bound = [Both("include") EXCEPT !["candidate"] = "exclude"],
                     !.claims = {"fix", "note"}, !.bytes = 6],
   [Fact EXCEPT !.specs = Tests("fail", 2, "inspect"), !.born = 1],
   [Fact EXCEPT !.specs = Tests("pass", 1, "block")],
   [Fact EXCEPT !.specs = {}, !.claims = {"note"}, !.authority = 2],
   [Constraint EXCEPT !.claims = {"note"}],
   [Constraint EXCEPT !.fits = FALSE]>>

Offered ==
  {Procedure, Counter, [Procedure EXCEPT !.born = 1, !.claims = {"fix", "note"}],
   [Procedure EXCEPT !.authority = 2, !.bytes = 4],
   [Procedure EXCEPT !.lifecycle = "archived"],
   [Procedure EXCEPT !.influence = "block", !.claims = {"note"}, !.specs = {}],
   [Procedure EXCEPT !.specs = Tests("pass", 0, "rehydrate")],
   [Procedure EXCEPT !.specs = {}, !.claims = {"fix", "note"}],
   [Counter EXCEPT !.claims = {"avoid"}, !.specs = {}, !.authority = 2]}

Seen(age) ==
  {[probe |-> "tests", trusted |-> TRUE, age |-> age, left |-> 1, value |-> "pass"]}
Straight == [c \in Capsules |-> c]

(* Without relations the ids of the capsules matter only against their     *)
(* digests: the profiles are taken in the order of their list.             *)
Drawn ==
  {[c \in Capsules |-> Admitted[i[c]]] :
     i \in {j \in [Capsules -> DOMAIN Admitted] : j[1] =< j[2] /\ j[2] =< j[3]}}
Orders == {Straight, <<3, 2, 1>>, <<2, 3, 1>>}
Worlds ==  \* observation, budget, digests
  {<<Seen(2), 20, Straight>>, <<Seen(0), 6, Straight>>, <<Seen(1), 20, Straight>>}
    \cup ({Seen(0)} \X {20} \X Orders)
AssemblyProblems ==
  UNION {[capsules : Drawn, conflicts : {{}}, supersedes : {{}},
          sha : {world[3]}, seen : {world[1]}, budget : {world[2]},
          arms : {{"authoritative"}, Arms}, direct : {FALSE}] : world \in Worlds}

Webs ==  \* conflicts, supersedes
  {<<{}, {}>>, <<{<<1, 2>>}, {}>>, <<{<<1, 2>>, <<3, 2>>}, {}>>, <<{}, {<<1, 2>>}>>,
   <<{<<1, 2>>}, {<<3, 1>>}>>}
DirectProblems ==
  UNION {[capsules : [Capsules -> Offered], conflicts : {web[1]}, supersedes : {web[2]},
          sha : {Straight}, seen : {Seen(0)}, budget : {6, 20},
          arms : {{"authoritative"}}, direct : {TRUE}] : web \in Webs}
MCProblems == AssemblyProblems \cup DirectProblems
============================================================================
