---------------------------- MODULE MCTaskStore ----------------------------
(* Instances for TLC: two agents of one workspace, or a single agent.      *)
EXTENDS TaskStore, TLC

CONSTANTS a1, a2, w1, k1, k2

MCSameWorkspace == (a1 :> w1) @@ (a2 :> w1)

MCOneAgent == a1 :> w1

MCOneKey == a1 :> k1

MCKeys == (a1 :> k1) @@ (a2 :> k2)

Symmetry ==
  Permutations(Messages) \cup Permutations(Requests) \cup Permutations(Correlations)
    \cup Permutations(Resumers)

=============================================================================
