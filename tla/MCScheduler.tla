---------------------------- MODULE MCScheduler ----------------------------
(* Instances for TLC: one agent, or two agents of one or two workspaces.   *)
EXTENDS Scheduler, TLC

CONSTANTS a1, a2, w1, w2, k1, k2

MCOneAgent == a1 :> w1

MCOneKey == a1 :> k1

MCSameWorkspace == (a1 :> w1) @@ (a2 :> w1)

MCTwoWorkspaces == (a1 :> w1) @@ (a2 :> w2)

MCKeys == (a1 :> k1) @@ (a2 :> k2)

=============================================================================
