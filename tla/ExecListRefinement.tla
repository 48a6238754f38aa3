------------------------- MODULE ExecListRefinement -------------------------
(***************************************************************************)
(* The pointers of ExecList implement the sequences of PriorityLists: list *)
(* l is the sequence of nodes found by following next from its header.     *)
(***************************************************************************)
EXTENDS ExecList, Sequences, SequencesExt, FiniteSets

\* The nodes reached from cell c in at most k steps of f, up to the last cell.
Walk(f) ==
    LET walk[k \in Nat] ==
          [c \in Cell |-> IF k = 0 \/ f[c] \notin Node THEN <<>>
                          ELSE <<f[c]>> \o walk[k - 1][f[c]]]
    IN walk

Forward(l)  == Walk(next)[Cardinality(Node) + 1][HeadCell(l)]
Backward(l) == Walk(prev)[Cardinality(Node) + 1][TailCell(l)]

\* What a loop "for (n = get_head(l); n; n = get_next(n))" visits.
Visited(l) ==
    LET visit[k \in Nat] ==
          [n \in Node \cup {NULL} |-> IF k = 0 \/ n = NULL THEN <<>>
                                      ELSE <<n>> \o visit[k - 1][get_next(n)]]
    IN visit[Cardinality(Node) + 1][get_head(l)]

Abstract == INSTANCE PriorityLists WITH lists <- [l \in List |-> Forward(l)]

(* Every list operation, the stepwise enqueue() included, has the effect   *)
(* PriorityLists gives it, at the step that links or unlinks the node.     *)
ImplementsPriorityLists == Abstract!Spec

(* Walking forwards, walking backwards and the get_head/get_next/get_tail  *)
(* loops of the kernel see the same nodes, each exactly once.              *)
WalksAgree ==
    \A l \in List :
        /\ Backward(l) = Reverse(Forward(l))
        /\ Visited(l) = Forward(l)
        /\ ToSet(Forward(l)) = {n \in Node : where[n] = l}
        /\ get_tail(l) = (IF Forward(l) = <<>> THEN NULL
                          ELSE Forward(l)[Len(Forward(l))])

=============================================================================
