------------------------------ MODULE MCSidecars ----------------------------
(* Two memories recorded together.                                         *)
EXTENDS Sidecars

MCMemories == {"a", "b"}
MCOf == [e |-> <<"a", "b">>]
MCBatches == DOMAIN MCOf
MCMaxTries == [embedding |-> 2, ann |-> 2, retention |-> 1]
MCDecisions == {<<"active", "suppressed">>, <<"active", "archived">>, <<"suppressed", "archived">>}
=============================================================================
