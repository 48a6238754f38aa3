--------------------------- MODULE PriorityLists ---------------------------
(***************************************************************************)
(* What src/list.c promises: every list is a sequence of nodes; enqueue()  *)
(* is a stable insertion by descending priority; the other routines work   *)
(* at the two ends.  No pointers.                                          *)
(***************************************************************************)
EXTENDS PriorityOrder

CONSTANTS Node, List, NULL

VARIABLES lists, ret

Free(n) == \A l \in List : n \notin ToSet(lists[l])

Init == lists = [l \in List |-> <<>>] /\ ret = NULL

Put(l, n, i) ==
    /\ Free(n)
    /\ lists' = [lists EXCEPT ![l] = InsertAt(@, i, n)]
    /\ UNCHANGED ret

AddHead(l, n) == Put(l, n, 1)
AddTail(l, n) == Put(l, n, Len(lists[l]) + 1)
Enqueue(l, n) == Put(l, n, Place(lists[l], pri[n]))

Take(l, i) == lists' = [lists EXCEPT ![l] = RemoveAt(@, i)]

RemoveHead(l) ==
    IF lists[l] = <<>>
    THEN ret' = NULL /\ UNCHANGED lists
    ELSE ret' = lists[l][1] /\ Take(l, 1)

RemoveTail(l) ==
    /\ lists[l] # <<>>
    /\ ret' = lists[l][Len(lists[l])]
    /\ Take(l, Len(lists[l]))

RemoveNode(n) ==
    /\ \E l \in List : \E i \in DOMAIN lists[l] : lists[l][i] = n /\ Take(l, i)
    /\ UNCHANGED ret

Next ==
    \/ \E l \in List, n \in Node : AddHead(l, n) \/ AddTail(l, n) \/ Enqueue(l, n)
    \/ \E l \in List : RemoveHead(l) \/ RemoveTail(l)
    \/ \E n \in Node : RemoveNode(n)

Spec == Init /\ [][Next]_<<lists, ret>>
=============================================================================
