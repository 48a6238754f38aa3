---------------------------- MODULE MC_ExecList ----------------------------
(* Three nodes, two of them of equal priority, and two lists.              *)
EXTENDS ExecListRefinement, TLC

CONSTANTS n1, n2, n3, l1, l2

MCNode == {n1, n2, n3}
MCList == {l1, l2}
MCPri == n1 :> 0 @@ n2 :> 0 @@ n3 :> 1
=============================================================================
