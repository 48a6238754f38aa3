--------------------------- MODULE PriorityOrder ---------------------------
(***************************************************************************)
(* A kernel list seen as the sequence of its nodes: where enqueue() puts a *)
(* node, what remove() leaves and what get_next() finds (src/list.c).      *)
(***************************************************************************)
EXTENDS Integers, Sequences, SequencesExt

CONSTANT pri    \* pri[n]: the priority of node n

\* The position a node of priority p gets: before the first lower priority.
Place(s, p) ==
    CHOOSE i \in 1..(Len(s) + 1) :
        /\ \A j \in 1..(i - 1) : pri[s[j]] >= p
        /\ i <= Len(s) => pri[s[i]] < p

Insert_Fault(s, n) == Append(s, n)     \* enqueue() that only adds at the tail
Insert(s, n) == InsertAt(s, Place(s, pri[n]), n)

IndexOf(s, n) == CHOOSE i \in DOMAIN s : s[i] = n

\* s without node n, which it may not hold.
Without(s, n) == IF n \in ToSet(s) THEN RemoveAt(s, IndexOf(s, n)) ELSE s

\* The node behind n in s, none if n is the last.
After(s, n, none) ==
    IF \E i \in 1..(Len(s) - 1) : s[i] = n
    THEN s[1 + CHOOSE i \in 1..(Len(s) - 1) : s[i] = n] ELSE none

NoDuplicates(s) == \A i, j \in DOMAIN s : s[i] = s[j] => i = j
ByPriority(s) == \A i, j \in DOMAIN s : i < j => pri[s[i]] >= pri[s[j]]
=============================================================================
