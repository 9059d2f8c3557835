------------------------ MODULE MCAuthorityBranches ------------------------
(* One authority subject, with a narrow and a wide policy or the wide one. *)
EXTENDS AuthorityBranches, TLC

MCLimit == [narrow |-> 1, wide |-> 2]
MCPolicies == DOMAIN MCLimit
MCWide == [wide |-> 2]
MCWidePolicy == DOMAIN MCWide
MCSymmetry == Permutations(Memories) \cup Permutations(Cands)
                \cup Permutations(Cohorts)
=============================================================================
