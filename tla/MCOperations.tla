---------------------------- MODULE MCOperations ----------------------------
(* Two memories, recorded as learning and as continuity, again in the same *)
(* kind or in the other, and one that expires.                             *)
EXTENDS Operations

MCMemories == {"a", "b"}
MCFamilies == {"f", "g"}
As(kind, expires) == [kind |-> kind, expires |-> expires]
Of(family, memory) == [family |-> family, memory |-> memory]
MCInputs == {
  Of("f", <<>>),
  Of("f", [a |-> As("procedure", Never)]),
  Of("f", [a |-> As("verified_fact", Never)]),
  Of("f", [a |-> As("procedure", Never), b |-> As("current_state", 4)]),
  Of("g", [b |-> As("constraint", Never)])}
MCMoves == {<<"active", "suppressed">>, <<"suppressed", "active">>,
            <<"active", "quarantined">>, <<"suppressed", "archived">>}
=============================================================================
