------------------------------ MODULE ExecList ------------------------------
(***************************************************************************)
(* The kernel's doubly linked lists (src/list.c), pointer by pointer.      *)
(*                                                                         *)
(* A list header is three words: head, tail (always NULL) and tailPrev.    *)
(* The code treats &list->head and &list->tail as two nodes that share the *)
(* NULL word: the first has next = head and prev = NULL, the second has    *)
(* next = NULL and prev = tailPrev.  They are the cells HeadCell(l) and    *)
(* TailCell(l) here.                                                       *)
(*                                                                         *)
(* enqueue() walks its list with interrupts enabled, so its walk is        *)
(* modelled step by step and other list operations run in between.  The    *)
(* other routines are a handful of pointer writes and are atomic here.     *)
(***************************************************************************)
EXTENDS Integers, FiniteSets

CONSTANTS
    Node,   \* list nodes: tasks, messages, devices
    List,   \* list headers
    NULL,   \* the null pointer
    pri     \* pri[n]: the priority field of node n, never written by list.c

HeadCell(l) == <<l, "head">>
TailCell(l) == <<l, "tail">>
Cell == Node \cup {HeadCell(l) : l \in List} \cup {TailCell(l) : l \in List}

ASSUME ListAssumption ==
    /\ NULL \notin Cell
    /\ NULL \notin List
    /\ \A l \in List : HeadCell(l) \notin Node /\ TailCell(l) \notin Node
    /\ pri \in [Node -> Int]
    /\ IsFiniteSet(Node)   \* they are in memory

VARIABLES
    next,   \* next[c]: the node that follows cell c
    prev,   \* prev[c]: the node before cell c
    where,  \* where[n]: the list n was put in, NULL when it is in none
    op,     \* the enqueue() in progress: list, node, cursor; list = NULL if none
    ret,    \* what the last remove_head() or remove_tail() returned
    fault   \* a routine dereferenced NULL

vars == <<next, prev, where, op, ret, fault>>

Idle == [list |-> NULL, node |-> NULL, cursor |-> NULL]

-----------------------------------------------------------------------------
(* Reading a list.  The _Fault operators of this module are plausible      *)
(* slips of the code; no action uses them.                                 *)

get_next(n) ==
    IF n # NULL /\ next[n] # NULL /\ next[next[n]] # NULL THEN next[n] ELSE NULL

get_head_Fault(l) == next[HeadCell(l)]      \* no test for the empty list
get_head(l) ==
    IF next[next[HeadCell(l)]] # NULL THEN next[HeadCell(l)] ELSE NULL

get_tail_Fault(l) == prev[TailCell(l)]      \* no test for the empty list
get_tail(l) ==
    IF next[next[HeadCell(l)]] # NULL THEN prev[TailCell(l)] ELSE NULL

-----------------------------------------------------------------------------
(* new_list() on every header.                                             *)
Init ==
    /\ next = [c \in Cell |->
                 IF \E l \in List : c = HeadCell(l)
                 THEN TailCell(CHOOSE l \in List : c = HeadCell(l)) ELSE NULL]
    /\ prev = [c \in Cell |->
                 IF \E l \in List : c = TailCell(l)
                 THEN HeadCell(CHOOSE l \in List : c = TailCell(l)) ELSE NULL]
    /\ where = [n \in Node |-> NULL]
    /\ op = Idle
    /\ ret = NULL
    /\ fault = FALSE

\* The contract the callers keep: a node is in one list at a time, and nobody
\* touches the list, or the node, of an enqueue() in progress.
Quiet(l) == ~fault /\ op.list # l
Loose(n) == where[n] = NULL /\ op.node # n

Splice_Fault(p, n, s) ==        \* the back pointer of s is forgotten
    /\ next' = [next EXCEPT ![n] = s, ![p] = n]
    /\ prev' = [prev EXCEPT ![n] = p]

\* The four pointer writes that put n between the neighbours p and s.
Splice(p, n, s) ==
    /\ next' = [next EXCEPT ![n] = s, ![p] = n]
    /\ prev' = [prev EXCEPT ![n] = p, ![s] = n]

AddHead(l, n) ==
    /\ Quiet(l) /\ Loose(n)
    /\ Splice(HeadCell(l), n, next[HeadCell(l)])
    /\ where' = [where EXCEPT ![n] = l]
    /\ UNCHANGED <<op, ret, fault>>

AddTail(l, n) ==
    /\ Quiet(l) /\ Loose(n)
    /\ Splice(prev[TailCell(l)], n, TailCell(l))
    /\ where' = [where EXCEPT ![n] = l]
    /\ UNCHANGED <<op, ret, fault>>

\* Unlinking writes the neighbours only; n keeps its stale pointers.
Unlink(n) ==
    /\ next' = [next EXCEPT ![prev[n]] = next[n]]
    /\ prev' = [prev EXCEPT ![next[n]] = prev[n]]
    /\ where' = [where EXCEPT ![n] = NULL]

RemoveNode(n) ==
    /\ where[n] # NULL
    /\ Quiet(where[n])
    /\ Unlink(n)
    /\ UNCHANGED <<op, ret, fault>>

RemoveHead_Fault(l) ==          \* returns the node it tested
    /\ Quiet(l)
    /\ LET second == next[next[HeadCell(l)]]
           first  == next[HeadCell(l)]
       IN IF second # NULL THEN Unlink(first) /\ ret' = second
          ELSE ret' = NULL /\ UNCHANGED <<next, prev, where>>
    /\ UNCHANGED <<op, fault>>

\* remove_head() tests the second node of the header chain, then pops the first.
RemoveHead(l) ==
    /\ Quiet(l)
    /\ LET second == next[next[HeadCell(l)]]
           first  == next[HeadCell(l)]
       IN IF second # NULL
          THEN /\ prev' = [prev EXCEPT ![second] = HeadCell(l)]
               /\ next' = [next EXCEPT ![HeadCell(l)] = next[first]]
               /\ where' = [where EXCEPT ![first] = NULL]
               /\ ret' = first
          ELSE ret' = NULL /\ UNCHANGED <<next, prev, where>>
    /\ UNCHANGED <<op, fault>>

\* remove_tail() tests tailPrev, which is never NULL: on an empty list it is
\* the header itself, whose prev is the NULL word.
RemoveTail(l) ==
    /\ Quiet(l)
    /\ LET last == prev[TailCell(l)]
       IN IF prev[last] = NULL
          THEN fault' = TRUE /\ UNCHANGED <<next, prev, where, ret>>
          ELSE Unlink(last) /\ ret' = last /\ UNCHANGED fault
    /\ UNCHANGED op

EnqueueBegin(l, n) ==
    /\ ~fault /\ op = Idle /\ Loose(n)
    /\ op' = [list |-> l, node |-> n, cursor |-> get_head(l)]
    /\ UNCHANGED <<next, prev, where, ret, fault>>

Walking == ~fault /\ op # Idle

\* The test of the walk: nodes of equal priority are passed.
Overtakes_Fault(n, c) == pri[n] >= pri[c]
Overtakes(n, c) == pri[n] > pri[c]

EnqueueNext ==
    /\ Walking /\ op.cursor # NULL
    /\ ~Overtakes(op.node, op.cursor)
    /\ op' = [op EXCEPT !.cursor = get_next(op.cursor)]
    /\ UNCHANGED <<next, prev, where, ret, fault>>

EnqueueInsert ==
    /\ Walking /\ op.cursor # NULL
    /\ Overtakes(op.node, op.cursor)
    /\ Splice(prev[op.cursor], op.node, op.cursor)
    /\ where' = [where EXCEPT ![op.node] = op.list]
    /\ op' = Idle
    /\ UNCHANGED <<ret, fault>>

EnqueueAppend ==
    /\ Walking /\ op.cursor = NULL
    /\ Splice(prev[TailCell(op.list)], op.node, TailCell(op.list))
    /\ where' = [where EXCEPT ![op.node] = op.list]
    /\ op' = Idle
    /\ UNCHANGED <<ret, fault>>

EnqueueStep == EnqueueNext \/ EnqueueInsert \/ EnqueueAppend

Next ==
    \/ \E l \in List, n \in Node :
          AddHead(l, n) \/ AddTail(l, n) \/ EnqueueBegin(l, n)
    \/ \E l \in List : RemoveHead(l) \/ RemoveTail(l)
    \/ \E n \in Node : RemoveNode(n)
    \/ EnqueueStep

Spec == Init /\ [][Next]_vars

-----------------------------------------------------------------------------
(* Type invariant: every pointer points into the cells.                    *)
TypeOK ==
    /\ next \in [Cell -> Cell \cup {NULL}]
    /\ prev \in [Cell -> Cell \cup {NULL}]
    /\ where \in [Node -> List \cup {NULL}]
    /\ op \in [list : List \cup {NULL}, node : Node \cup {NULL},
               cursor : Node \cup {NULL}]
    /\ ret \in Node \cup {NULL}
    /\ fault \in BOOLEAN

\* The cells of list l: its two header words and the nodes put in it.
CellsOf(l) == {HeadCell(l), TailCell(l)} \cup {n \in Node : where[n] = l}

\* Following next (prev) from any cell of a list but the last (first) stays in
\* that list, and prev (next) undoes it.
Chained ==
    \A l \in List :
        /\ \A c \in CellsOf(l) \ {TailCell(l)} :
              next[c] \in CellsOf(l) \ {HeadCell(l)} /\ prev[next[c]] = c
        /\ \A c \in CellsOf(l) \ {HeadCell(l)} :
              prev[c] \in CellsOf(l) \ {TailCell(l)} /\ next[prev[c]] = c

\* The NULL word both header cells share is never written.
SharedNull == \A l \in List : next[TailCell(l)] = NULL /\ prev[HeadCell(l)] = NULL

\* enqueue() in progress: its node is loose and its cursor is in its list.
WalkInList ==
    op # Idle =>
        /\ op.list \in List
        /\ op.node \in Node /\ where[op.node] = NULL
        /\ op.cursor # NULL => where[op.cursor] = op.list

(* The links of every list are consistent in both directions, whatever     *)
(* operations of other lists interleave with an enqueue() (list.c).        *)
LinkInv == Chained /\ SharedNull /\ WalkInList
=============================================================================
