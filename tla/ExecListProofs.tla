--------------------------- MODULE ExecListProofs ---------------------------
(***************************************************************************)
(* For any number of lists and nodes: the pointers of every list stay      *)
(* consistent in both directions (LinkInv), and no pointer leaves the      *)
(* cells (TypeOK).  The conjunction of the two is inductive.               *)
(*                                                                         *)
(* Following next from a list's head therefore finds a sequence of nodes   *)
(* (Chains).  Linking and unlinking act on it as InsertAt and RemoveAt do, *)
(* so the pointers implement PriorityLists, and every way of walking a     *)
(* list agrees (WalksAgree).                                               *)
(***************************************************************************)
EXTENDS ExecListRefinement, FiniteSetTheorems, SequenceTheorems,
        WellFoundedInduction, TLAPS

(* The header cells of distinct lists, and the nodes, are distinct cells.  *)
LEMMA CellFacts ==
    /\ \A l, m \in List : HeadCell(l) # TailCell(m)
    /\ \A l, m \in List : HeadCell(l) = HeadCell(m) => l = m
    /\ \A l, m \in List : TailCell(l) = TailCell(m) => l = m
    /\ \A l \in List : HeadCell(l) \notin Node /\ TailCell(l) \notin Node
    /\ \A l \in List : HeadCell(l) \in Cell /\ TailCell(l) \in Cell
    /\ Node \subseteq Cell
    /\ NULL \notin Cell /\ NULL \notin List
BY ListAssumption DEF HeadCell, TailCell, Cell

Links == Chained /\ SharedNull

(* Linking a loose node between two neighbours of list l keeps all links.  *)
LEMMA SpliceKeepsLinks ==
    ASSUME TypeOK, Links,
           NEW l \in List, NEW n \in Node, where[n] = NULL,
           NEW p \in CellsOf(l), NEW s \in CellsOf(l),
           p # TailCell(l), s # HeadCell(l), next[p] = s, prev[s] = p,
           Splice(p, n, s), where' = [where EXCEPT ![n] = l]
    PROVE  /\ next' \in [Cell -> Cell \cup {NULL}]
           /\ prev' \in [Cell -> Cell \cup {NULL}]
           /\ where' \in [Node -> List \cup {NULL}]
           /\ Links'
<1>1. /\ p \in Cell /\ s \in Cell /\ n \in Cell
      /\ p # n /\ s # n
  BY CellFacts DEF TypeOK, CellsOf
<1>2. /\ next' \in [Cell -> Cell \cup {NULL}]
      /\ prev' \in [Cell -> Cell \cup {NULL}]
      /\ where' \in [Node -> List \cup {NULL}]
  BY <1>1 DEF TypeOK, Splice
<1>3. /\ next'[n] = s /\ next'[p] = n
      /\ prev'[n] = p /\ prev'[s] = n
      /\ \A c \in Cell \ {n, p} : next'[c] = next[c]
      /\ \A c \in Cell \ {n, s} : prev'[c] = prev[c]
  BY <1>1 DEF TypeOK, Splice
<1>4. /\ CellsOf(l)' = CellsOf(l) \cup {n}
      /\ \A m \in List : m # l => CellsOf(m)' = CellsOf(m)
      /\ \A m \in List : CellsOf(m) \subseteq Cell /\ n \notin CellsOf(m)
      /\ \A m \in List : m # l => p \notin CellsOf(m) /\ s \notin CellsOf(m)
  BY CellFacts DEF TypeOK, CellsOf
<1>5. SharedNull'
  BY <1>1, <1>3, <1>4, CellFacts DEF Links, SharedNull, CellsOf
<1>6. ASSUME NEW m \in List
      PROVE  /\ \A c \in CellsOf(m)' \ {TailCell(m)} :
                   next'[c] \in CellsOf(m)' \ {HeadCell(m)} /\ prev'[next'[c]] = c
             /\ \A c \in CellsOf(m)' \ {HeadCell(m)} :
                   prev'[c] \in CellsOf(m)' \ {TailCell(m)} /\ next'[prev'[c]] = c
  <2>0. /\ \A c \in CellsOf(m) \ {TailCell(m)} :
              next[c] \in CellsOf(m) \ {HeadCell(m)} /\ prev[next[c]] = c
        /\ \A c \in CellsOf(m) \ {HeadCell(m)} :
              prev[c] \in CellsOf(m) \ {TailCell(m)} /\ next[prev[c]] = c
    BY DEF Links, Chained
  <2>1. CASE m = l
    <3>1. n # HeadCell(l) /\ n # TailCell(l)
      BY CellFacts
    <3> QED BY <1>1, <1>3, <1>4, <2>0, <2>1, <3>1
  <2>2. CASE m # l
    BY <1>1, <1>3, <1>4, <2>0, <2>2
  <2> QED BY <2>1, <2>2
<1>7. Chained'
  BY <1>6 DEF Chained
<1> QED BY <1>2, <1>5, <1>7 DEF Links

(* Unlinking a node of list l keeps all links.                             *)
LEMMA UnlinkKeepsLinks ==
    ASSUME TypeOK, Links,
           NEW l \in List, NEW n \in Node, where[n] = l, Unlink(n)
    PROVE  /\ next' \in [Cell -> Cell \cup {NULL}]
           /\ prev' \in [Cell -> Cell \cup {NULL}]
           /\ where' \in [Node -> List \cup {NULL}]
           /\ Links'
<1> DEFINE p == prev[n]
           s == next[n]
<1>0. \A m \in List :
         /\ \A c \in CellsOf(m) \ {TailCell(m)} :
              next[c] \in CellsOf(m) \ {HeadCell(m)} /\ prev[next[c]] = c
         /\ \A c \in CellsOf(m) \ {HeadCell(m)} :
              prev[c] \in CellsOf(m) \ {TailCell(m)} /\ next[prev[c]] = c
  BY DEF Links, Chained
<1>1. /\ n \in CellsOf(l) /\ n # HeadCell(l) /\ n # TailCell(l)
      /\ \A m \in List : CellsOf(m) \subseteq Cell
      /\ \A m \in List : m # l => CellsOf(m) \cap CellsOf(l) = {}
  BY CellFacts DEF CellsOf
<1>2. /\ p \in CellsOf(l) /\ p # TailCell(l) /\ next[p] = n
      /\ s \in CellsOf(l) /\ s # HeadCell(l) /\ prev[s] = n
      /\ p \in Cell /\ s \in Cell
  BY <1>0, <1>1
<1>3. HeadCell(l) # TailCell(l) /\ n \in Cell
  BY CellFacts
<1>4. /\ \A c \in Cell : next'[c] = IF c = p THEN s ELSE next[c]
      /\ \A c \in Cell : prev'[c] = IF c = s THEN p ELSE prev[c]
      /\ next' \in [Cell -> Cell \cup {NULL}]
      /\ prev' \in [Cell -> Cell \cup {NULL}]
      /\ where' \in [Node -> List \cup {NULL}]
  BY <1>2 DEF TypeOK, Unlink
<1>5. /\ CellsOf(l)' = CellsOf(l) \ {n}
      /\ \A m \in List : m # l => CellsOf(m)' = CellsOf(m)
  BY <1>1, CellFacts DEF TypeOK, CellsOf, Unlink
<1>6. SharedNull'
  <2>1. \A m \in List : p # TailCell(m) /\ s # HeadCell(m)
    BY <1>1, <1>2, CellFacts DEF CellsOf
  <2> QED BY <1>4, <2>1, CellFacts DEF Links, SharedNull
<1>7. ASSUME NEW m \in List
      PROVE  /\ \A c \in CellsOf(m)' \ {TailCell(m)} :
                   next'[c] \in CellsOf(m)' \ {HeadCell(m)} /\ prev'[next'[c]] = c
             /\ \A c \in CellsOf(m)' \ {HeadCell(m)} :
                   prev'[c] \in CellsOf(m)' \ {TailCell(m)} /\ next'[prev'[c]] = c
  <2>1. CASE m = l
    <3>1. ASSUME NEW c \in CellsOf(l), c # n, c # TailCell(l)
          PROVE  next'[c] \in CellsOf(l) \ {HeadCell(l), n} /\ prev'[next'[c]] = c
      <4>1. CASE c = p
        BY <1>0, <1>1, <1>2, <1>4, <3>1, <4>1
      <4>2. CASE c # p
        BY <1>0, <1>1, <1>2, <1>4, <3>1, <4>2
      <4> QED BY <4>1, <4>2
    <3>2. ASSUME NEW c \in CellsOf(l), c # n, c # HeadCell(l)
          PROVE  prev'[c] \in CellsOf(l) \ {TailCell(l), n} /\ next'[prev'[c]] = c
      <4>1. CASE c = s
        BY <1>0, <1>1, <1>2, <1>4, <3>2, <4>1
      <4>2. CASE c # s
        BY <1>0, <1>1, <1>2, <1>4, <3>2, <4>2
      <4> QED BY <4>1, <4>2
    <3> QED BY <1>5, <2>1, <3>1, <3>2
  <2>2. CASE m # l
    BY <1>0, <1>1, <1>2, <1>4, <1>5, <2>2
  <2> QED BY <2>1, <2>2
<1>8. Chained'
  BY <1>7 DEF Chained
<1> QED BY <1>4, <1>6, <1>8 DEF Links

(* The first and the last cell of a list, as the code reads them.          *)
LEMMA EndsOfList ==
    ASSUME TypeOK, Links, NEW l \in List
    PROVE  /\ next[HeadCell(l)] \in CellsOf(l) \ {HeadCell(l)}
           /\ prev[next[HeadCell(l)]] = HeadCell(l)
           /\ prev[TailCell(l)] \in CellsOf(l) \ {TailCell(l)}
           /\ next[prev[TailCell(l)]] = TailCell(l)
           /\ HeadCell(l) \in CellsOf(l) /\ TailCell(l) \in CellsOf(l)
           /\ HeadCell(l) # TailCell(l)
BY CellFacts DEF Links, Chained, CellsOf

LEMMA InitLinks == Init => TypeOK /\ LinkInv
<1> SUFFICES ASSUME Init PROVE TypeOK /\ LinkInv
  OBVIOUS
<1>1. ASSUME NEW l \in List
      PROVE  /\ next[HeadCell(l)] = TailCell(l) /\ next[TailCell(l)] = NULL
             /\ prev[TailCell(l)] = HeadCell(l) /\ prev[HeadCell(l)] = NULL
             /\ CellsOf(l) = {HeadCell(l), TailCell(l)}
  BY CellFacts DEF Init, CellsOf
<1>2. TypeOK
  BY CellFacts DEF Init, TypeOK, Idle
<1>3. Chained /\ SharedNull
  BY <1>1 DEF Chained, SharedNull
<1>4. WalkInList
  BY DEF Init, WalkInList
<1> QED BY <1>2, <1>3, <1>4 DEF LinkInv

LEMMA NextLinks == TypeOK /\ LinkInv /\ [Next]_vars => TypeOK' /\ LinkInv'
<1> SUFFICES ASSUME TypeOK, LinkInv, [Next]_vars PROVE TypeOK' /\ LinkInv'
  OBVIOUS
<1>0. Links /\ WalkInList
  BY DEF LinkInv, Links
<1>1. ASSUME NEW l \in List, NEW n \in Node, AddHead(l, n)
      PROVE  TypeOK' /\ LinkInv'
  <2>1. Splice(HeadCell(l), n, next[HeadCell(l)]) /\ where[n] = NULL
    BY <1>1 DEF AddHead, Loose
  <2>2. Links' /\ next' \in [Cell -> Cell \cup {NULL}]
        /\ prev' \in [Cell -> Cell \cup {NULL}] /\ where' \in [Node -> List \cup {NULL}]
    BY <1>0, <1>1, <2>1, EndsOfList, SpliceKeepsLinks DEF AddHead
  <2>3. WalkInList'
    BY <1>0, <1>1, CellFacts DEF AddHead, Loose, WalkInList, TypeOK, Idle
  <2> QED BY <1>1, <2>2, <2>3 DEF AddHead, TypeOK, LinkInv, Links
<1>2. ASSUME NEW l \in List, NEW n \in Node, AddTail(l, n)
      PROVE  TypeOK' /\ LinkInv'
  <2>1. Splice(prev[TailCell(l)], n, TailCell(l)) /\ where[n] = NULL
    BY <1>2 DEF AddTail, Loose
  <2>2. Links' /\ next' \in [Cell -> Cell \cup {NULL}]
        /\ prev' \in [Cell -> Cell \cup {NULL}] /\ where' \in [Node -> List \cup {NULL}]
    BY <1>0, <1>2, <2>1, EndsOfList, SpliceKeepsLinks DEF AddTail
  <2>3. WalkInList'
    BY <1>0, <1>2, CellFacts DEF AddTail, Loose, WalkInList, TypeOK, Idle
  <2> QED BY <1>2, <2>2, <2>3 DEF AddTail, TypeOK, LinkInv, Links
<1>3. ASSUME NEW n \in Node, NEW l \in List, where[n] = l, op.list # l, Unlink(n),
             UNCHANGED op
      PROVE  /\ Links' /\ WalkInList' /\ next' \in [Cell -> Cell \cup {NULL}]
             /\ prev' \in [Cell -> Cell \cup {NULL}]
             /\ where' \in [Node -> List \cup {NULL}]
  <2>1. WalkInList'
    BY <1>0, <1>3, CellFacts DEF Unlink, WalkInList, TypeOK, Idle
  <2> QED BY <1>0, <1>3, <2>1, UnlinkKeepsLinks
<1>4. ASSUME NEW n \in Node, RemoveNode(n)
      PROVE  TypeOK' /\ LinkInv'
  <2>1. where[n] \in List /\ op.list # where[n] /\ Unlink(n)
    BY <1>4 DEF RemoveNode, Quiet, TypeOK
  <2> QED BY <1>3, <1>4, <2>1 DEF RemoveNode, TypeOK, LinkInv, Links
<1>5. ASSUME NEW l \in List, RemoveHead(l)
      PROVE  TypeOK' /\ LinkInv'
  <2> DEFINE first == next[HeadCell(l)]
  <2>1. CASE next[first] = NULL
    BY <1>0, <1>5, <2>1 DEF RemoveHead, TypeOK, LinkInv, Links, Chained, SharedNull,
       WalkInList, CellsOf
  <2>2. CASE next[first] # NULL
    <3>1. first \in Node /\ where[first] = l /\ prev[first] = HeadCell(l)
      BY <1>0, <2>2, EndsOfList DEF CellsOf, Links, SharedNull
    <3>2. Unlink(first) /\ op.list # l /\ ret' = first
      BY <1>5, <2>2, <3>1 DEF RemoveHead, Unlink, Quiet
    <3> QED BY <1>3, <1>5, <3>1, <3>2 DEF RemoveHead, TypeOK, LinkInv, Links
  <2> QED BY <2>1, <2>2
<1>6. ASSUME NEW l \in List, RemoveTail(l)
      PROVE  TypeOK' /\ LinkInv'
  <2> DEFINE last == prev[TailCell(l)]
  <2>1. CASE prev[last] = NULL
    BY <1>0, <1>6, <2>1 DEF RemoveTail, TypeOK, LinkInv, Links, Chained, SharedNull,
       WalkInList, CellsOf
  <2>2. CASE prev[last] # NULL
    <3>1. last \in Node /\ where[last] = l
      BY <1>0, <2>2, EndsOfList DEF CellsOf, Links, SharedNull
    <3>2. Unlink(last) /\ op.list # l /\ ret' = last
      BY <1>6, <2>2 DEF RemoveTail, Quiet
    <3> QED BY <1>3, <1>6, <3>1, <3>2 DEF RemoveTail, TypeOK, LinkInv, Links
  <2> QED BY <2>1, <2>2
<1>7. ASSUME NEW l \in List, NEW n \in Node, EnqueueBegin(l, n)
      PROVE  TypeOK' /\ LinkInv'
  <2>1. get_head(l) # NULL => get_head(l) \in Node /\ where[get_head(l)] = l
    <3>1. next[HeadCell(l)] \in CellsOf(l) \ {HeadCell(l)} /\ next[TailCell(l)] = NULL
      BY <1>0, EndsOfList DEF Links, SharedNull
    <3>2. CASE next[next[HeadCell(l)]] = NULL
      BY <3>2 DEF get_head
    <3>3. CASE next[next[HeadCell(l)]] # NULL
      <4>1. next[HeadCell(l)] \in Node /\ where[next[HeadCell(l)]] = l
        BY <3>1, <3>3 DEF CellsOf
      <4> QED BY <3>3, <4>1 DEF get_head
    <3> QED BY <3>2, <3>3
  <2>2. Links'
    BY <1>0, <1>7 DEF EnqueueBegin, Links, Chained, SharedNull, CellsOf
  <2>3. WalkInList'
    BY <1>7, <2>1 DEF EnqueueBegin, WalkInList, Loose
  <2>4. TypeOK'
    BY <1>7, <2>1 DEF EnqueueBegin, TypeOK
  <2> QED BY <2>2, <2>3, <2>4 DEF LinkInv, Links
<1>8. CASE EnqueueNext
  <2>1. op.list \in List /\ op.cursor \in Node /\ where[op.cursor] = op.list
    BY <1>0, <1>8 DEF EnqueueNext, Walking, WalkInList, TypeOK
  <2> DEFINE c == get_next(op.cursor)
  <2>2. c # NULL => c \in Node /\ where[c] = op.list
    <3>1. op.cursor \in CellsOf(op.list) \ {TailCell(op.list)}
      BY <2>1, CellFacts DEF CellsOf
    <3>2. next[op.cursor] \in CellsOf(op.list) \ {HeadCell(op.list)}
      BY <1>0, <2>1, <3>1 DEF Links, Chained
    <3>3. CASE c = NULL
      BY <3>3
    <3>4. CASE c # NULL
      <4>1. c = next[op.cursor] /\ next[c] # NULL
        BY <3>4 DEF get_next
      <4>2. next[TailCell(op.list)] = NULL
        BY <1>0, <2>1 DEF Links, SharedNull
      <4>3. c \in CellsOf(op.list) /\ c # HeadCell(op.list) /\ c # TailCell(op.list)
        BY <3>2, <4>1, <4>2
      <4> QED BY <4>3 DEF CellsOf
    <3> QED BY <3>3, <3>4
  <2>3. /\ op'.list = op.list /\ op'.node = op.node /\ op'.cursor = c
        /\ op' \in [list : List \cup {NULL}, node : Node \cup {NULL},
                    cursor : Node \cup {NULL}]
        /\ op # Idle
    BY <1>8, <2>2 DEF EnqueueNext, Walking, TypeOK
  <2>4. Links' /\ WalkInList'
    BY <1>0, <1>8, <2>2, <2>3
       DEF EnqueueNext, Links, Chained, SharedNull, CellsOf, WalkInList
  <2> QED BY <1>8, <2>3, <2>4 DEF EnqueueNext, TypeOK, LinkInv, Links
<1>9. CASE EnqueueInsert
  <2>1. /\ op.list \in List /\ op.node \in Node /\ where[op.node] = NULL
        /\ op.cursor \in Node /\ where[op.cursor] = op.list
    BY <1>0, <1>9 DEF EnqueueInsert, Walking, WalkInList, TypeOK
  <2>2. op.cursor \in CellsOf(op.list) /\ op.cursor # HeadCell(op.list)
    BY <2>1, CellFacts DEF CellsOf
  <2>3. /\ prev[op.cursor] \in CellsOf(op.list) \ {TailCell(op.list)}
        /\ next[prev[op.cursor]] = op.cursor
    BY <1>0, <2>1, <2>2 DEF Links, Chained
  <2>4. Splice(prev[op.cursor], op.node, op.cursor)
        /\ where' = [where EXCEPT ![op.node] = op.list] /\ op' = Idle
        /\ UNCHANGED <<ret, fault>>
    BY <1>9 DEF EnqueueInsert
  <2>5. Links' /\ next' \in [Cell -> Cell \cup {NULL}]
        /\ prev' \in [Cell -> Cell \cup {NULL}] /\ where' \in [Node -> List \cup {NULL}]
    BY <1>0, <2>1, <2>2, <2>3, <2>4, SpliceKeepsLinks
  <2> QED BY <2>4, <2>5 DEF TypeOK, LinkInv, Links, WalkInList, Idle
<1>10. CASE EnqueueAppend
  <2>1. op.list \in List /\ op.node \in Node /\ where[op.node] = NULL
    BY <1>0, <1>10 DEF EnqueueAppend, Walking, WalkInList
  <2>2. Splice(prev[TailCell(op.list)], op.node, TailCell(op.list))
        /\ where' = [where EXCEPT ![op.node] = op.list] /\ op' = Idle
        /\ UNCHANGED <<ret, fault>>
    BY <1>10 DEF EnqueueAppend
  <2>3. Links' /\ next' \in [Cell -> Cell \cup {NULL}]
        /\ prev' \in [Cell -> Cell \cup {NULL}] /\ where' \in [Node -> List \cup {NULL}]
    BY <1>0, <2>1, <2>2, EndsOfList, SpliceKeepsLinks
  <2> QED BY <2>2, <2>3 DEF TypeOK, LinkInv, Links, WalkInList, Idle
<1>11. CASE UNCHANGED vars
  BY <1>0, <1>11 DEF vars, TypeOK, LinkInv, Links, Chained, SharedNull, CellsOf,
     WalkInList
<1> QED
  BY <1>1, <1>2, <1>4, <1>5, <1>6, <1>7, <1>8, <1>9, <1>10, <1>11
     DEF Next, EnqueueStep

(* Every pointer of list.c points into a list, in every reachable state.   *)
THEOREM ExecListTypeOK == Spec => []TypeOK
<1>1. Spec => [](TypeOK /\ LinkInv)
  BY InitLinks, NextLinks, PTL DEF Spec
<1> QED BY <1>1, PTL

(* Following next and prev are inverse in every list at every moment an    *)
(* interrupt can look at one, an enqueue() half way included.              *)
THEOREM ExecListLinked == Spec => []LinkInv
<1>1. Spec => [](TypeOK /\ LinkInv)
  BY InitLinks, NextLinks, PTL DEF Spec
<1> QED BY <1>1, PTL

-----------------------------------------------------------------------------
(* Recursive loops over a list.                                            *)

(* A set of natural numbers has a least element.                           *)
LEMMA Least ==
    ASSUME NEW S \in SUBSET Nat, S # {}
    PROVE  \E k \in S : \A x \in S : k <= x
<1> DEFINE R == OpToRel(<, Nat)
<1>1. PICK k \in S : \A x \in S : <<x, k>> \notin R
  <2>1. IsWellFoundedOn(R, Nat)
    BY NatLessThanWellFounded
  <2> HIDE DEF R
  <2> QED BY <2>1, WFMin
<1>2. \A x \in S : x \in Nat /\ k \in Nat /\ ~(x < k)
  BY <1>1 DEF OpToRel
<1>3. \A x \in S : k <= x
  BY <1>2
<1> QED BY <1>3

\* w is a loop over a list, as a recursion over the steps that are left: at c
\* it stops in stop, else it notes label[c] and goes on at nxt[c].
IsLoop(D, stop, label, nxt, w) ==
    w = [k \in Nat |-> [c \in D |-> IF k = 0 \/ c \in stop THEN <<>>
                                    ELSE <<label[c]>> \o w[k - 1][nxt[c]]]]

(* The recursion has a solution.                                            *)
LEMMA LoopExists ==
    ASSUME NEW D, NEW stop, NEW label, NEW nxt
    PROVE  \E w : IsLoop(D, stop, label, nxt, w)
<1> DEFINE Step(k, v) == [c \in D |-> IF k = 0 \/ c \in stop THEN <<>>
                                      ELSE <<label[c]>> \o v[nxt[c]]]
           Upto(n, h) == \A k \in 0..n : h[k] = Step(k, h[k - 1])
           Bad == {n \in Nat : ~ \E h : Upto(n, h)}
<1>0. \A u, v : Step(0, u) = Step(0, v)
  OBVIOUS
<1> HIDE DEF Step
<1>1. \A n \in Nat : \E h : Upto(n, h)
  <2>1. SUFFICES ASSUME Bad # {} PROVE FALSE
    OBVIOUS
  <2>2. PICK n \in Bad : \A x \in Bad : n <= x
    <3> HIDE DEF Bad
    <3>1. Bad \in SUBSET Nat
      BY DEF Bad
    <3> QED BY <3>1, <2>1, Least
  <2>3. CASE n = 0
    <3> DEFINE h == [k \in 0..0 |-> Step(0, 0)]
    <3>1. h[0] = Step(0, 0) /\ Step(0, h[0 - 1]) = Step(0, 0)
      BY <1>0
    <3> HIDE DEF h
    <3>2. \A k \in 0..0 : k = 0
      OBVIOUS
    <3>3. Upto(0, h)
      BY <3>1, <3>2
    <3> QED BY <2>2, <2>3, <3>3
  <2>4. CASE n # 0
    <3>0. n \in Nat
      BY <2>2
    <3>1. n - 1 \in Nat /\ n - 1 \notin Bad
      <4> HIDE DEF Bad
      <4> QED BY <2>2, <2>4, <3>0
    <3>2. PICK g : Upto(n - 1, g)
      BY <3>1
    <3> DEFINE h == [k \in 0..n |-> IF k = n THEN Step(n, g[n - 1]) ELSE g[k]]
    <3>3. \A k \in 0..n : h[k] = Step(k, h[k - 1])
      <4> TAKE k \in 0..n
      <4>1. CASE k = n
        <5>1. h[k] = Step(n, g[n - 1]) /\ h[k - 1] = g[n - 1]
          BY <4>1, <3>1
        <5> HIDE DEF h
        <5> QED BY <5>1, <4>1
      <4>2. CASE k # n
        <5>1. k \in 0..(n - 1) /\ h[k] = g[k]
          BY <4>2, <3>1
        <5>2. k # 0 => h[k - 1] = g[k - 1]
          BY <5>1, <3>1
        <5>3. g[k] = Step(k, g[k - 1])
          BY <3>2, <5>1
        <5> HIDE DEF h
        <5> QED BY <1>0, <5>1, <5>2, <5>3
      <4> QED BY <4>1, <4>2
    <3> QED BY <2>2, <3>3
  <2> QED BY <2>3, <2>4
<1>2. ASSUME NEW n \in Nat, NEW m \in Nat, NEW g, NEW h, Upto(n, g), Upto(m, h)
      PROVE  \A k \in 0..n : k <= m => g[k] = h[k]
  <2> DEFINE Wrong == {k \in 0..n : k <= m /\ g[k] # h[k]}
  <2>1. SUFFICES ASSUME Wrong # {} PROVE FALSE
    OBVIOUS
  <2>2. PICK k \in Wrong : \A x \in Wrong : k <= x
    <3>1. Wrong \in SUBSET Nat
      OBVIOUS
    <3> HIDE DEF Wrong
    <3> QED BY <3>1, <2>1, Least
  <2>3. k \in 0..n /\ k \in 0..m /\ g[k] # h[k]
    BY <2>2
  <2>4. g[k] = Step(k, g[k - 1]) /\ h[k] = Step(k, h[k - 1])
    BY <1>2, <2>3
  <2>5. k # 0
    BY <1>0, <2>3, <2>4
  <2>6. k - 1 \in 0..n /\ k - 1 <= m /\ k - 1 \notin Wrong
    BY <2>2, <2>3, <2>5
  <2> QED BY <2>3, <2>4, <2>5, <2>6
<1> DEFINE w == [n \in Nat |-> (CHOOSE h : Upto(n, h))[n]]
<1>3. \A n \in Nat : w[n] = Step(n, w[n - 1])
  <2> TAKE n \in Nat
  <2>1. ASSUME NEW m \in Nat PROVE Upto(m, CHOOSE h : Upto(m, h))
    BY <1>1
  <2> DEFINE h1 == CHOOSE h : Upto(n, h)
  <2>2. w[n] = h1[n] /\ Upto(n, h1)
    BY <2>1
  <2>3. CASE n = 0
    <3> HIDE DEF h1, w
    <3> QED BY <1>0, <2>2, <2>3
  <2>4. CASE n # 0
    <3> DEFINE g == CHOOSE h : Upto(n - 1, h)
    <3>1. n - 1 \in Nat
      BY <2>4
    <3>2. Upto(n - 1, g) /\ w[n - 1] = g[n - 1]
      BY <2>1, <3>1
    <3> HIDE DEF g, h1, w
    <3>3. g[n - 1] = h1[n - 1]
      BY <1>2, <2>2, <3>1, <3>2
    <3> QED BY <2>2, <3>2, <3>3
  <2> QED BY <2>3, <2>4
<1>4. w = [k \in Nat |-> w[k]]
  OBVIOUS
<1> HIDE DEF w
<1>5. w = [k \in Nat |-> Step(k, w[k - 1])]
  BY <1>3, <1>4
<1> QED BY <1>5 DEF Step, IsLoop

\* The cells cs that the loop passes carry s.
Passes(D, stop, label, nxt, s, cs) ==
    /\ \A i \in 0..Len(s) : cs[i] \in D
    /\ cs[Len(s)] \in stop
    /\ \A i \in 0..(Len(s) - 1) :
          cs[i] \notin stop /\ label[cs[i]] = s[i + 1] /\ nxt[cs[i]] = cs[i + 1]

(* The loop finds what the cells it passes carry.                           *)
LEMMA LoopRuns ==
    ASSUME NEW D, NEW stop, NEW label, NEW nxt, NEW w, IsLoop(D, stop, label, nxt, w),
           NEW s \in Seq(Node), NEW cs, Passes(D, stop, label, nxt, s, cs),
           NEW K \in Nat, K >= Len(s)
    PROVE  w[K][cs[0]] = s
<1>l. \A k \in Nat : \A c \in D :
         w[k][c] = IF k = 0 \/ c \in stop THEN <<>> ELSE <<label[c]>> \o w[k - 1][nxt[c]]
  <2> DEFINE Row(v, k) == [c \in D |-> IF k = 0 \/ c \in stop THEN <<>>
                                      ELSE <<label[c]>> \o v[nxt[c]]]
  <2>1. w = [k \in Nat |-> Row(w[k - 1], k)]
    BY DEF IsLoop
  <2>2. \A v, k : \A c \in D : Row(v, k)[c] = IF k = 0 \/ c \in stop THEN <<>>
                                              ELSE <<label[c]>> \o v[nxt[c]]
    OBVIOUS
  <2> HIDE DEF Row
  <2>3. \A k \in Nat : w[k] = Row(w[k - 1], k)
    <3>1. PICK v : v = w
      OBVIOUS
    <3>2. w = [k \in Nat |-> Row(v[k - 1], k)]
      BY <2>1, <3>1
    <3>3. ASSUME NEW k \in Nat PROVE w[k] = Row(v[k - 1], k)
      BY <3>2
    <3> QED BY <3>1, <3>3
  <2>4. ASSUME NEW k \in Nat, NEW c \in D
        PROVE  w[k][c] = IF k = 0 \/ c \in stop THEN <<>>
                         ELSE <<label[c]>> \o w[k - 1][nxt[c]]
    <3>1. w[k] = Row(w[k - 1], k)
      BY <2>3
    <3>2. Row(w[k - 1], k)[c] = IF k = 0 \/ c \in stop THEN <<>>
                                ELSE <<label[c]>> \o w[k - 1][nxt[c]]
      BY <2>2
    <3> QED BY <3>1, <3>2
  <2> QED BY <2>4
<1>p. /\ \A i \in 0..Len(s) : cs[i] \in D
      /\ cs[Len(s)] \in stop
      /\ \A i \in 0..(Len(s) - 1) :
            cs[i] \notin stop /\ label[cs[i]] = s[i + 1] /\ nxt[cs[i]] = cs[i + 1]
  BY DEF Passes
<1> DEFINE m == Len(s)
           Rest(d) == SubSeq(s, m - d + 1, m)
           Bad == {d \in 0..m : \E k \in Nat : k >= d /\ w[k][cs[m - d]] # Rest(d)}
<1>1. m \in Nat /\ \A i \in 1..m : s[i] \in Node
  BY LenProperties
<1>2. Rest(m) = s
  <2>1. m - m + 1 = 1
    BY <1>1
  <2>2. SubSeq(s, 1, m) = s
    BY SubSeqFull
  <2> QED BY <2>1, <2>2
<1>3. Rest(0) = <<>>
  <2>1. m - 0 + 1 = m + 1 /\ m < m + 1
    BY <1>1
  <2>2. SubSeq(s, m + 1, m) = <<>>
    BY <1>1, SubSeqEmpty
  <2> QED BY <2>1, <2>2
<1>4. ASSUME NEW d \in 1..m
      PROVE  Rest(d) = <<s[m - d + 1]>> \o Rest(d - 1)
  <2>1. m - d + 1 \in 1..m /\ (m - d + 1) + 1 = m - (d - 1) + 1
    BY <1>1
  <2>2. SubSeq(s, m - d + 1, m) = <<s[m - d + 1]>> \o SubSeq(s, (m - d + 1) + 1, m)
    BY <1>1, <2>1, SubSeqRecursiveFirst
  <2> QED BY <2>1, <2>2
<1> HIDE DEF Rest
<1>5. Bad = {}
  <2>1. SUFFICES ASSUME Bad # {} PROVE FALSE
    OBVIOUS
  <2>2. PICK d \in Bad : \A x \in Bad : d <= x
    <3>1. Bad \in SUBSET Nat
      BY <1>1
    <3> HIDE DEF Bad
    <3> QED BY <3>1, <2>1, Least
  <2>3. PICK k \in Nat : k >= d /\ w[k][cs[m - d]] # Rest(d)
    BY <2>2
  <2>4. d \in 0..m
    BY <2>2
  <2>5. CASE d = 0
    <3>1. cs[m - d] \in D /\ cs[m - d] \in stop
      BY <1>1, <1>p, <2>5
    <3>2. w[k][cs[m - d]] = <<>>
      BY <1>l, <3>1
    <3> QED BY <1>3, <2>3, <2>5, <3>2
  <2>6. CASE d # 0
    <3>1. /\ m - d \in 0..(m - 1) /\ m - d \in 0..m /\ m - (d - 1) = (m - d) + 1
          /\ k - 1 \in Nat /\ k # 0 /\ k - 1 >= d - 1 /\ d - 1 \in 0..m /\ d \in 1..m
      BY <1>1, <2>3, <2>4, <2>6
    <3>2. w[k][cs[m - d]] = <<label[cs[m - d]]>> \o w[k - 1][nxt[cs[m - d]]]
      BY <1>l, <1>p, <3>1
    <3>3. label[cs[m - d]] = s[(m - d) + 1] /\ nxt[cs[m - d]] = cs[m - (d - 1)]
      BY <1>p, <3>1
    <3>4. d - 1 \notin Bad
      <4>1. ~(d <= d - 1)
        BY <2>4
      <4> HIDE DEF Bad
      <4> QED BY <2>2, <4>1
    <3>5. w[k - 1][cs[m - (d - 1)]] = Rest(d - 1)
      BY <3>1, <3>4
    <3> QED BY <1>4, <2>3, <3>1, <3>2, <3>3, <3>5
  <2> QED BY <2>5, <2>6
<1>6. m \in 0..m /\ m - m = 0
  BY <1>1
<1>7. w[K][cs[m - m]] = Rest(m)
  BY <1>5, <1>6
<1> QED BY <1>2, <1>6, <1>7

\* The cells of a chain: a, the elements of s, z.
Nth(a, s, z, i) == IF i = 0 THEN a ELSE IF i <= Len(s) THEN s[i] ELSE z

Distinct(s) == \A i, j \in 1..Len(s) : s[i] = s[j] => i = j

\* Following f from cell a passes the nodes of s and ends at cell z.
ChainOf(f, a, s, z) ==
    /\ s \in Seq(Node)
    /\ Distinct(s)
    /\ \A i \in 0..Len(s) : f[Nth(a, s, z, i)] = Nth(a, s, z, i + 1)

(* Walk is such a loop.                                                     *)
LEMMA WalkLoops == \A f : IsLoop(Cell, {c \in Cell : f[c] \notin Node}, f, f, Walk(f))
<1> TAKE f
<1> DEFINE Body(w) == [k \in Nat |-> [c \in Cell |->
                         IF k = 0 \/ f[c] \notin Node THEN <<>>
                         ELSE <<f[c]>> \o w[k - 1][f[c]]]]
           stop == {c \in Cell : f[c] \notin Node}
           fix == CHOOSE v : v = Body(v)
<1>1. ASSUME NEW w PROVE IsLoop(Cell, stop, f, f, w) <=> w = Body(w)
  <2>1. \A k \in Nat : \A c \in Cell : (k = 0 \/ c \in stop) <=> (k = 0 \/ f[c] \notin Node)
    OBVIOUS
  <2> HIDE DEF stop
  <2> QED BY <2>1 DEF IsLoop
<1>2. PICK w : IsLoop(Cell, stop, f, f, w)
  <2> HIDE DEF stop
  <2> QED BY LoopExists
<1>3. Walk(f) = fix
  BY DEF Walk
<1>4. fix = Body(fix)
  <2> HIDE DEF Body
  <2> QED BY <1>1, <1>2
<1> HIDE DEF Body, fix, stop
<1>5. IsLoop(Cell, stop, f, f, fix)
  BY <1>1, <1>4
<1> QED BY <1>3, <1>5 DEF stop

(* A list is at most as long as there are nodes.                            *)
LEMMA ShortList ==
    ASSUME NEW s \in Seq(Node), Distinct(s)
    PROVE  Len(s) \in Nat /\ Cardinality(Node) \in Nat /\ Len(s) <= Cardinality(Node)
<1>1. Len(s) \in Nat /\ s \in [1..Len(s) -> Node]
  BY LenProperties
<1>2. s \in Injection(1..Len(s), Node)
  BY <1>1 DEF Distinct, Injection, IsInjective
<1>3. IsFiniteSet(Node) /\ Cardinality(Node) \in Nat
  BY ListAssumption, FS_CardinalityType
<1>4. IsFiniteSet(1..Len(s)) /\ Cardinality(1..Len(s)) = Len(s)
  BY <1>1, FS_Interval
<1>5. Cardinality(1..Len(s)) <= Cardinality(Node)
  BY <1>2, <1>3, FS_Injection
<1> QED BY <1>1, <1>3, <1>4, <1>5

(* Walk finds the nodes of a chain.                                         *)
LEMMA WalkOfChain ==
    ASSUME NEW f, NEW a \in Cell, NEW z, z \notin Node, NEW s, ChainOf(f, a, s, z)
    PROVE  Walk(f)[Cardinality(Node) + 1][a] = s
<1> DEFINE stop == {c \in Cell : f[c] \notin Node}
           w == Walk(f)
           cs == [i \in 0..Len(s) |-> Nth(a, s, z, i)]
           K == Cardinality(Node) + 1
<1>1. IsLoop(Cell, stop, f, f, w)
  BY WalkLoops
<1>2. /\ s \in Seq(Node) /\ Len(s) \in Nat /\ \A i \in 1..Len(s) : s[i] \in Node
      /\ K \in Nat /\ K >= Len(s)
  BY ShortList, LenProperties DEF ChainOf
<1>3. Node \subseteq Cell
  BY DEF Cell
<1>4. \A i \in 0..Len(s) : cs[i] \in Cell /\ f[cs[i]] = Nth(a, s, z, i + 1)
  BY <1>2, <1>3 DEF Nth, ChainOf
<1>5. cs[Len(s)] \in stop
  <2>1. Len(s) \in 0..Len(s) /\ Nth(a, s, z, Len(s) + 1) = z
    BY <1>2 DEF Nth
  <2> QED BY <1>4, <2>1
<1>6. ASSUME NEW i \in 0..(Len(s) - 1)
      PROVE  cs[i] \notin stop /\ f[cs[i]] = s[i + 1] /\ f[cs[i]] = cs[i + 1]
  <2>1. i \in 0..Len(s) /\ i + 1 \in 0..Len(s) /\ i + 1 \in 1..Len(s)
    BY <1>2
  <2>2. Nth(a, s, z, i + 1) = s[i + 1] /\ cs[i + 1] = s[i + 1]
    BY <2>1 DEF Nth
  <2> QED BY <1>2, <1>4, <2>1, <2>2
<1>7. cs[0] = a
  BY <1>2 DEF Nth
<1> HIDE DEF cs, stop, w, K
<1>9. \A i \in 0..Len(s) : cs[i] \in Cell
  BY <1>4
<1>10. \A i \in 0..(Len(s) - 1) :
          cs[i] \notin stop /\ f[cs[i]] = s[i + 1] /\ f[cs[i]] = cs[i + 1]
  BY <1>6
<1>11. Passes(Cell, stop, f, f, s, cs)
  BY <1>5, <1>9, <1>10 DEF Passes
<1>8. w[K][cs[0]] = s
  BY <1>1, <1>2, <1>11, LoopRuns
<1> QED BY <1>7, <1>8 DEF w, K

(* What get_head() and get_next() find in a list.                           *)
LEMMA ReadList ==
    ASSUME NEW l \in List, NEW s, ChainOf(next, HeadCell(l), s, TailCell(l)),
           next[TailCell(l)] = NULL
    PROVE  /\ get_head(l) = IF Len(s) > 0 THEN s[1] ELSE NULL
           /\ \A i \in 1..Len(s) : get_next(s[i]) = IF i < Len(s) THEN s[i + 1] ELSE NULL
<1>6. s \in Seq(Node) /\ Len(s) \in Nat /\ \A i \in 1..Len(s) : s[i] \in Node
  BY LenProperties DEF ChainOf
<1>7. /\ NULL \notin Node /\ TailCell(l) # NULL
      /\ \A i \in 0..Len(s) : next[Nth(HeadCell(l), s, TailCell(l), i)]
                               = Nth(HeadCell(l), s, TailCell(l), i + 1)
      /\ \A i \in 1..(Len(s) + 1) : Nth(HeadCell(l), s, TailCell(l), i) # NULL
  <2>1. NULL \notin Node /\ TailCell(l) # NULL
    BY CellFacts
  <2>2. \A i \in 1..(Len(s) + 1) : Nth(HeadCell(l), s, TailCell(l), i) # NULL
    BY <1>6, <2>1 DEF Nth
  <2> QED BY <2>1, <2>2 DEF ChainOf
<1>8. ASSUME NEW i \in 1..Len(s)
      PROVE  get_next(s[i]) = IF i < Len(s) THEN s[i + 1] ELSE NULL
  <2>1. /\ s[i] = Nth(HeadCell(l), s, TailCell(l), i) /\ i + 1 \in 1..(Len(s) + 1)
        /\ i \in 0..Len(s)
    BY <1>6 DEF Nth
  <2>2. next[s[i]] = Nth(HeadCell(l), s, TailCell(l), i + 1) /\ next[s[i]] # NULL /\ s[i] # NULL
    BY <1>6, <1>7, <2>1
  <2>3. CASE i < Len(s)
    <3>1. i + 1 \in 0..Len(s) /\ (i + 1) + 1 \in 1..(Len(s) + 1)
      BY <1>6, <2>3
    <3>2. next[next[s[i]]] # NULL
      BY <1>7, <2>2, <3>1
    <3>3. next[s[i]] = s[i + 1]
      BY <1>6, <2>2, <2>3 DEF Nth
    <3> QED BY <2>2, <2>3, <3>2, <3>3 DEF get_next
  <2>4. CASE i = Len(s)
    <3>1. next[s[i]] = TailCell(l)
      BY <1>6, <2>2, <2>4 DEF Nth
    <3> QED BY <1>6, <2>2, <2>4, <3>1 DEF get_next
  <2> QED BY <1>6, <2>3, <2>4
<1>9. get_head(l) = IF Len(s) > 0 THEN s[1] ELSE NULL
  <2>1. next[HeadCell(l)] = Nth(HeadCell(l), s, TailCell(l), 1)
    <3>1. 0 \in 0..Len(s) /\ Nth(HeadCell(l), s, TailCell(l), 0) = HeadCell(l)
      BY <1>6 DEF Nth
    <3> QED BY <1>7, <3>1
  <2>2. CASE Len(s) = 0
    <3>1. next[HeadCell(l)] = TailCell(l)
      BY <2>1, <2>2 DEF Nth
    <3> QED BY <2>2, <3>1 DEF get_head
  <2>3. CASE Len(s) > 0
    <3>1. 1 \in 0..Len(s) /\ 1 + 1 \in 1..(Len(s) + 1)
      BY <1>6, <2>3
    <3>2. next[HeadCell(l)] = s[1] /\ next[next[HeadCell(l)]] # NULL
      BY <1>6, <1>7, <2>1, <2>3, <3>1 DEF Nth
    <3> QED BY <2>3, <3>2 DEF get_head
  <2> QED BY <1>6, <2>2, <2>3
<1> QED BY <1>8, <1>9

(* Visited finds the nodes of a list.                                       *)
LEMMA VisitedOfChain ==
    ASSUME NEW l \in List, NEW s, ChainOf(next, HeadCell(l), s, TailCell(l)),
           next[TailCell(l)] = NULL
    PROVE  Visited(l) = s
<1> DEFINE D == Node \cup {NULL}
           label == [n \in D |-> n]
           nxt == [n \in D |-> get_next(n)]
           K == Cardinality(Node) + 1
           cs == [i \in 0..Len(s) |-> IF i < Len(s) THEN s[i + 1] ELSE NULL]
           Body(w) == [k \in Nat |-> [n \in D |-> IF k = 0 \/ n = NULL THEN <<>>
                                                  ELSE <<n>> \o w[k - 1][get_next(n)]]]
           fix == CHOOSE v : v = Body(v)
<1>1. ASSUME NEW w PROVE IsLoop(D, {NULL}, label, nxt, w) <=> w = Body(w)
  <2>1. \A n \in D : label[n] = n /\ nxt[n] = get_next(n)
    OBVIOUS
  <2> DEFINE Row(k) == [n \in D |-> IF k = 0 \/ n \in {NULL} THEN <<>>
                                    ELSE <<label[n]>> \o w[k - 1][nxt[n]]]
             Row1(k) == [n \in D |-> IF k = 0 \/ n = NULL THEN <<>>
                                     ELSE <<n>> \o w[k - 1][get_next(n)]]
  <2> HIDE DEF D, label, nxt
  <2>2. ASSUME NEW k \in Nat PROVE Row(k) = Row1(k)
    <3>1. ASSUME NEW n \in D PROVE Row(k)[n] = Row1(k)[n]
      BY <2>1
    <3>2. Row(k) = [n \in D |-> Row(k)[n]] /\ Row1(k) = [n \in D |-> Row1(k)[n]]
      OBVIOUS
    <3> HIDE DEF Row, Row1
    <3> QED BY <3>1, <3>2
  <2>3. IsLoop(D, {NULL}, label, nxt, w) <=> w = [k \in Nat |-> Row(k)]
    BY DEF IsLoop
  <2>4. Body(w) = [k \in Nat |-> Row1(k)]
    OBVIOUS
  <2> HIDE DEF Row, Row1, Body
  <2> QED BY <2>2, <2>3, <2>4
<1>2. PICK w : IsLoop(D, {NULL}, label, nxt, w)
  <2> HIDE DEF D, label, nxt
  <2> QED BY LoopExists
<1>3. Visited(l) = fix[K][get_head(l)]
  BY DEF Visited
<1>4. fix = Body(fix)
  <2> HIDE DEF Body, D, label, nxt
  <2> QED BY <1>1, <1>2
<1>5. IsLoop(D, {NULL}, label, nxt, fix)
  <2> HIDE DEF Body, D, label, nxt, fix
  <2> QED BY <1>1, <1>4
<1>6. /\ s \in Seq(Node) /\ Len(s) \in Nat /\ \A i \in 1..Len(s) : s[i] \in Node
      /\ K \in Nat /\ K >= Len(s)
  BY ShortList, LenProperties DEF ChainOf
<1> HIDE DEF Body, fix, K
<1>7. NULL \notin Node
  BY CellFacts
<1>8. \A i \in 1..Len(s) : get_next(s[i]) = IF i < Len(s) THEN s[i + 1] ELSE NULL
  BY ReadList
<1>9. get_head(l) = IF Len(s) > 0 THEN s[1] ELSE NULL
  BY ReadList
<1>10. cs[0] = get_head(l)
  BY <1>6, <1>9
<1>11. \A i \in 0..Len(s) : cs[i] \in D
  BY <1>6
<1>12. cs[Len(s)] \in {NULL}
  BY <1>6
<1>13. ASSUME NEW i \in 0..(Len(s) - 1)
       PROVE  cs[i] \notin {NULL} /\ label[cs[i]] = s[i + 1] /\ nxt[cs[i]] = cs[i + 1]
  <2>1. i + 1 \in 1..Len(s) /\ i < Len(s) /\ i \in 0..Len(s) /\ i + 1 \in 0..Len(s)
    BY <1>6
  <2>2. cs[i] = s[i + 1] /\ s[i + 1] \in Node
    BY <1>6, <2>1
  <2>3. cs[i + 1] = get_next(s[i + 1])
    <3>1. cs[i + 1] = IF i + 1 < Len(s) THEN s[(i + 1) + 1] ELSE NULL
      BY <2>1
    <3> HIDE DEF cs
    <3> QED BY <1>8, <2>1, <3>1
  <2> HIDE DEF cs
  <2> QED BY <1>7, <2>2, <2>3
<1> HIDE DEF cs, D, label, nxt
<1>14. Passes(D, {NULL}, label, nxt, s, cs)
  BY <1>11, <1>12, <1>13 DEF Passes
<1>15. fix[K][cs[0]] = s
  BY <1>5, <1>6, <1>14, LoopRuns
<1> QED BY <1>3, <1>10, <1>15

(* What putting a node into a sequence, and taking one out, does.           *)
LEMMA InsertAtFacts ==
    ASSUME NEW s \in Seq(Node), NEW k \in 1..(Len(s) + 1), NEW n \in Node
    PROVE  /\ InsertAt(s, k, n) \in Seq(Node)
           /\ Len(InsertAt(s, k, n)) = Len(s) + 1
           /\ \A i \in 1..(Len(s) + 1) :
                 InsertAt(s, k, n)[i] = IF i < k THEN s[i] ELSE IF i = k THEN n ELSE s[i - 1]
<1> DEFINE a == SubSeq(s, 1, k - 1)
           b == SubSeq(s, k, Len(s))
           o == <<n>>
           c == a \o o
           q == c \o b
           m == Len(s)
<1>1. m \in Nat /\ k \in 1..(m + 1) /\ k \in Nat
  BY LenProperties
<1>2. /\ a \in Seq(Node) /\ Len(a) = k - 1
      /\ \A i \in 1..(k - 1) : a[i] = s[i]
  BY <1>1, SubSeqProperties
<1>3. /\ b \in Seq(Node) /\ Len(b) = m - k + 1
      /\ \A i \in 1..(m - k + 1) : b[i] = s[k + i - 1]
  BY <1>1, SubSeqProperties
<1>4. o \in Seq(Node) /\ Len(o) = 1 /\ o[1] = n
  OBVIOUS
<1>5. InsertAt(s, k, n) = q
  BY DEF InsertAt
<1> HIDE DEF a, b, o, m
<1>6. /\ c \in Seq(Node) /\ Len(c) = Len(a) + Len(o)
      /\ \A i \in 1..(Len(a) + Len(o)) : c[i] = IF i <= Len(a) THEN a[i] ELSE o[i - Len(a)]
  BY <1>2, <1>4, ConcatProperties
<1> HIDE DEF c
<1>7. /\ q \in Seq(Node) /\ Len(q) = Len(c) + Len(b)
      /\ \A i \in 1..(Len(c) + Len(b)) : q[i] = IF i <= Len(c) THEN c[i] ELSE b[i - Len(c)]
  BY <1>3, <1>6, ConcatProperties
<1> HIDE DEF q
<1>8. Len(a) = k - 1 /\ Len(o) = 1 /\ Len(c) = k /\ Len(b) = m - k + 1 /\ Len(q) = m + 1
  BY <1>1, <1>2, <1>3, <1>4, <1>6, <1>7
<1>9. ASSUME NEW i \in 1..(m + 1)
      PROVE  q[i] = IF i < k THEN s[i] ELSE IF i = k THEN n ELSE s[i - 1]
  <2>1. CASE i < k
    <3>1. /\ i \in 1..(Len(c) + Len(b)) /\ i <= Len(c)
          /\ i \in 1..(Len(a) + Len(o)) /\ i <= Len(a) /\ i \in 1..(k - 1)
      BY ONLY <1>1, <1>8, <2>1, i \in 1..(m + 1)
    <3>2. q[i] = c[i]
      BY <1>7, <3>1
    <3>3. c[i] = a[i]
      BY <1>6, <3>1
    <3> QED BY <1>2, <2>1, <3>1, <3>2, <3>3
  <2>2. CASE i = k
    <3>1. /\ i \in 1..(Len(c) + Len(b)) /\ i <= Len(c)
          /\ i \in 1..(Len(a) + Len(o)) /\ ~(i <= Len(a)) /\ i - Len(a) = 1
      BY ONLY <1>1, <1>8, <2>2, i \in 1..(m + 1)
    <3>2. q[i] = c[i]
      BY <1>7, <3>1
    <3>3. c[i] = o[1]
      BY <1>6, <3>1
    <3> QED BY <1>1, <1>4, <2>2, <3>2, <3>3
  <2>3. CASE i > k
    <3>1. /\ i \in 1..(Len(c) + Len(b)) /\ ~(i <= Len(c))
          /\ i - k \in 1..(m - k + 1) /\ k + (i - k) - 1 = i - 1
      BY ONLY <1>1, <1>8, <2>3, i \in 1..(m + 1)
    <3>2. q[i] = b[i - k]
      BY <1>7, <1>8, <3>1
    <3>3. b[i - k] = s[i - 1]
      BY <1>3, <3>1
    <3> QED BY <1>1, <2>3, <3>2, <3>3
  <2> QED BY <1>1, <2>1, <2>2, <2>3
<1> QED BY <1>5, <1>7, <1>8, <1>9 DEF m

LEMMA RemoveAtFacts ==
    ASSUME NEW s \in Seq(Node), NEW k \in 1..Len(s)
    PROVE  /\ RemoveAt(s, k) \in Seq(Node)
           /\ Len(RemoveAt(s, k)) = Len(s) - 1
           /\ \A i \in 1..(Len(s) - 1) :
                 RemoveAt(s, k)[i] = IF i < k THEN s[i] ELSE s[i + 1]
<1> DEFINE a == SubSeq(s, 1, k - 1)
           b == SubSeq(s, k + 1, Len(s))
           q == a \o b
           m == Len(s)
<1>1. m \in Nat /\ k \in 1..m /\ k \in Nat
  BY LenProperties
<1>2. /\ a \in Seq(Node) /\ Len(a) = k - 1
      /\ \A i \in 1..(k - 1) : a[i] = s[i]
  BY <1>1, SubSeqProperties
<1>3. /\ b \in Seq(Node) /\ Len(b) = m - k
      /\ \A i \in 1..(m - k) : b[i] = s[k + i]
  <2>1. /\ b \in Seq(Node) /\ Len(b) = (IF k + 1 <= m THEN m - (k + 1) + 1 ELSE 0)
        /\ \A i \in 1..(m - (k + 1) + 1) : b[i] = s[(k + 1) + i - 1]
    BY <1>1, SubSeqProperties
  <2> HIDE DEF b, m
  <2>2. Len(b) = m - k
    BY ONLY <1>1, <2>1
  <2>3. ASSUME NEW i \in 1..(m - k) PROVE b[i] = s[k + i]
    <3>1. i \in 1..(m - (k + 1) + 1) /\ (k + 1) + i - 1 = k + i
      BY <1>1
    <3> QED BY <2>1, <3>1
  <2> QED BY <2>1, <2>2, <2>3
<1>5. RemoveAt(s, k) = q
  BY DEF RemoveAt
<1> HIDE DEF a, b, m
<1>7. /\ q \in Seq(Node) /\ Len(q) = Len(a) + Len(b)
      /\ \A i \in 1..(Len(a) + Len(b)) : q[i] = IF i <= Len(a) THEN a[i] ELSE b[i - Len(a)]
  BY <1>2, <1>3, ConcatProperties
<1> HIDE DEF q
<1>8. Len(a) = k - 1 /\ Len(b) = m - k /\ Len(q) = m - 1
  BY <1>1, <1>2, <1>3, <1>7
<1>9. ASSUME NEW i \in 1..(m - 1)
      PROVE  q[i] = IF i < k THEN s[i] ELSE s[i + 1]
  <2>1. CASE i < k
    <3>1. i \in 1..(Len(a) + Len(b)) /\ i <= Len(a) /\ i \in 1..(k - 1)
      BY ONLY <1>1, <1>8, <2>1, i \in 1..(m - 1)
    <3> QED BY <1>2, <1>7, <2>1, <3>1
  <2>2. CASE i >= k
    <3>1. /\ i \in 1..(Len(a) + Len(b)) /\ ~(i <= Len(a)) /\ ~(i < k)
          /\ i - Len(a) \in 1..(m - k) /\ k + (i - Len(a)) = i + 1
      BY ONLY <1>1, <1>8, <2>2, i \in 1..(m - 1)
    <3>2. q[i] = b[i - Len(a)]
      BY <1>7, <3>1
    <3>3. b[i - Len(a)] = s[i + 1]
      BY <1>3, <3>1
    <3> QED BY <3>1, <3>2, <3>3
  <2> QED BY <1>1, <2>1, <2>2
<1> QED BY <1>5, <1>7, <1>8, <1>9 DEF m

(* The cells of a chain are distinct.                                       *)
LEMMA NthDistinct ==
    ASSUME NEW a, NEW z, a \notin Node, z \notin Node, a # z,
           NEW s \in Seq(Node), Distinct(s),
           NEW i \in 0..(Len(s) + 1), NEW j \in 0..(Len(s) + 1),
           Nth(a, s, z, i) = Nth(a, s, z, j)
    PROVE  i = j
<1>1. Len(s) \in Nat /\ \A x \in 1..Len(s) : s[x] \in Node
  BY LenProperties
<1>2. ASSUME NEW x \in 0..(Len(s) + 1)
      PROVE  \/ x = 0 /\ Nth(a, s, z, x) = a
             \/ x \in 1..Len(s) /\ Nth(a, s, z, x) = s[x]
             \/ x = Len(s) + 1 /\ Nth(a, s, z, x) = z
  BY <1>1 DEF Nth
<1> QED BY <1>1, <1>2 DEF Distinct

(* The cells of the chain after either.                                     *)
LEMMA NthInsert ==
    ASSUME NEW a, NEW z, NEW s \in Seq(Node), NEW k \in 1..(Len(s) + 1), NEW n \in Node
    PROVE  \A i \in 0..(Len(s) + 2) :
              Nth(a, InsertAt(s, k, n), z, i)
                = IF i < k THEN Nth(a, s, z, i) ELSE IF i = k THEN n ELSE Nth(a, s, z, i - 1)
<1> DEFINE q == InsertAt(s, k, n)
           m == Len(s)
<1>1. m \in Nat /\ k \in 1..(m + 1)
  BY LenProperties
<1>2. /\ Len(q) = m + 1
      /\ \A i \in 1..(m + 1) : q[i] = IF i < k THEN s[i] ELSE IF i = k THEN n ELSE s[i - 1]
  BY InsertAtFacts
<1> HIDE DEF q
<1>3. ASSUME NEW i \in 0..(m + 2)
      PROVE  Nth(a, q, z, i)
                = IF i < k THEN Nth(a, s, z, i) ELSE IF i = k THEN n ELSE Nth(a, s, z, i - 1)
  <2>1. CASE i = 0
    BY <1>1, <2>1 DEF Nth
  <2>2. CASE i \in 1..(m + 1)
    <3>1. Nth(a, q, z, i) = q[i]
      BY <1>1, <1>2, <2>2 DEF Nth
    <3>2. q[i] = IF i < k THEN s[i] ELSE IF i = k THEN n ELSE s[i - 1]
      BY <1>2, <2>2
    <3>3. i < k => Nth(a, s, z, i) = s[i]
      BY <1>1, <2>2 DEF Nth
    <3>4. i > k => Nth(a, s, z, i - 1) = s[i - 1]
      BY <1>1, <2>2 DEF Nth
    <3> QED BY <1>1, <2>2, <3>1, <3>2, <3>3, <3>4
  <2>3. CASE i = m + 2
    BY <1>1, <1>2, <2>3 DEF Nth
  <2> QED BY <1>1, <2>1, <2>2, <2>3
<1> QED BY <1>3 DEF q

LEMMA NthRemove ==
    ASSUME NEW a, NEW z, NEW s \in Seq(Node), NEW k \in 1..Len(s)
    PROVE  \A i \in 0..Len(s) :
              Nth(a, RemoveAt(s, k), z, i)
                = IF i < k THEN Nth(a, s, z, i) ELSE Nth(a, s, z, i + 1)
<1> DEFINE q == RemoveAt(s, k)
           m == Len(s)
<1>1. m \in Nat /\ k \in 1..m
  BY LenProperties
<1>2. /\ Len(q) = m - 1
      /\ \A i \in 1..(m - 1) : q[i] = IF i < k THEN s[i] ELSE s[i + 1]
  BY RemoveAtFacts
<1> HIDE DEF q
<1>3. ASSUME NEW i \in 0..m
      PROVE  Nth(a, q, z, i) = IF i < k THEN Nth(a, s, z, i) ELSE Nth(a, s, z, i + 1)
  <2>1. CASE i = 0
    BY <1>1, <2>1 DEF Nth
  <2>2. CASE i \in 1..(m - 1)
    <3>1. Nth(a, q, z, i) = q[i]
      BY <1>1, <1>2, <2>2 DEF Nth
    <3>2. q[i] = IF i < k THEN s[i] ELSE s[i + 1]
      BY <1>2, <2>2
    <3>3. Nth(a, s, z, i) = s[i] /\ Nth(a, s, z, i + 1) = s[i + 1]
      BY <1>1, <2>2 DEF Nth
    <3> QED BY <3>1, <3>2, <3>3
  <2>3. CASE i = m /\ i # 0
    BY <1>1, <1>2, <2>3 DEF Nth
  <2> QED BY <1>1, <2>1, <2>2, <2>3
<1> QED BY <1>3 DEF q

\* List l is the sequence s: the chain from its head to its tail, and the nodes
\* put in it.
ListIs(f, w, l, s) ==
    /\ ChainOf(f, HeadCell(l), s, TailCell(l))
    /\ \A n \in Node : w[n] = l <=> \E i \in 1..Len(s) : s[i] = n

\* What is known of the sequence of a list and of its cells.
ListShape(f, w, l, s) ==
    LET At(i) == Nth(HeadCell(l), s, TailCell(l), i) IN
    /\ s \in Seq(Node) /\ Distinct(s) /\ Len(s) \in Nat
    /\ \A i \in 1..Len(s) : s[i] \in Node /\ w[s[i]] = l /\ At(i) = s[i]
    /\ At(0) = HeadCell(l) /\ At(Len(s) + 1) = TailCell(l)
    /\ \A i \in 0..Len(s) : f[At(i)] = At(i + 1)
    /\ \A i, j \in 0..(Len(s) + 1) : At(i) = At(j) => i = j

LEMMA ListFields ==
    ASSUME NEW f, NEW w, NEW l \in List, NEW s, ListIs(f, w, l, s)
    PROVE  ListShape(f, w, l, s)
<1>1. ChainOf(f, HeadCell(l), s, TailCell(l))
  BY DEF ListIs
<1>2. s \in Seq(Node) /\ Distinct(s) /\ Len(s) \in Nat /\ \A i \in 1..Len(s) : s[i] \in Node
  BY <1>1, LenProperties DEF ChainOf
<1>3. \A i \in 1..Len(s) : w[s[i]] = l
  BY <1>2 DEF ListIs
<1>4. /\ \A i \in 1..Len(s) : Nth(HeadCell(l), s, TailCell(l), i) = s[i]
      /\ Nth(HeadCell(l), s, TailCell(l), 0) = HeadCell(l)
      /\ Nth(HeadCell(l), s, TailCell(l), Len(s) + 1) = TailCell(l)
  BY <1>2 DEF Nth
<1>5. \A i, j \in 0..(Len(s) + 1) :
         Nth(HeadCell(l), s, TailCell(l), i) = Nth(HeadCell(l), s, TailCell(l), j) => i = j
  BY <1>2, CellFacts, NthDistinct
<1> QED BY <1>1, <1>2, <1>3, <1>4, <1>5 DEF ChainOf, ListShape

(* Writes to other cells leave a list as it is.                             *)
LEMMA OtherList ==
    ASSUME NEW f, NEW w, NEW l \in List, NEW s, ListIs(f, w, l, s), NEW g, NEW v,
           g[HeadCell(l)] = f[HeadCell(l)],
           \A n \in Node : w[n] = l => g[n] = f[n],
           \A n \in Node : v[n] = l <=> w[n] = l
    PROVE  ListIs(g, v, l, s)
<1>1. /\ s \in Seq(Node) /\ Distinct(s) /\ Len(s) \in Nat
      /\ \A i \in 1..Len(s) : s[i] \in Node /\ w[s[i]] = l
      /\ \A i \in 1..Len(s) : Nth(HeadCell(l), s, TailCell(l), i) = s[i]
      /\ Nth(HeadCell(l), s, TailCell(l), 0) = HeadCell(l)
      /\ \A i \in 0..Len(s) : f[Nth(HeadCell(l), s, TailCell(l), i)]
                              = Nth(HeadCell(l), s, TailCell(l), i + 1)
  <2>1. ListShape(f, w, l, s)
    BY ListFields
  <2> QED BY <2>1 DEF ListShape
<1>2. ASSUME NEW i \in 0..Len(s)
      PROVE  g[Nth(HeadCell(l), s, TailCell(l), i)] = Nth(HeadCell(l), s, TailCell(l), i + 1)
  <2>1. i = 0 \/ i \in 1..Len(s)
    BY <1>1
  <2>2. g[Nth(HeadCell(l), s, TailCell(l), i)] = f[Nth(HeadCell(l), s, TailCell(l), i)]
    BY <1>1, <2>1
  <2> QED BY <1>1, <2>2
<1>3. \A n \in Node : v[n] = l <=> \E i \in 1..Len(s) : s[i] = n
  BY DEF ListIs
<1> QED BY <1>1, <1>2, <1>3 DEF ListIs, ChainOf

\* The next and where pointers f, w become g, v when n is linked at place k of
\* list l, and when the node there is unlinked.
Linked(f, w, g, v, l, s, k, n) ==
    /\ g = [f EXCEPT ![n] = Nth(HeadCell(l), s, TailCell(l), k),
                     ![Nth(HeadCell(l), s, TailCell(l), k - 1)] = n]
    /\ v = [w EXCEPT ![n] = l]
Unlinked(f, w, g, v, l, s, k) ==
    /\ g = [f EXCEPT ![Nth(HeadCell(l), s, TailCell(l), k - 1)]
                       = Nth(HeadCell(l), s, TailCell(l), k + 1)]
    /\ v = [w EXCEPT ![s[k]] = NULL]

(* Linking a loose node into a list puts it into the sequence.              *)
LEMMA InsertChain ==
    ASSUME NEW f \in [Cell -> Cell \cup {NULL}], NEW w \in [Node -> List \cup {NULL}],
           NEW l \in List, NEW s, ListIs(f, w, l, s),
           NEW n \in Node, w[n] = NULL, NEW k \in 1..(Len(s) + 1), NEW g, NEW v,
           Linked(f, w, g, v, l, s, k, n)
    PROVE  /\ ListIs(g, v, l, InsertAt(s, k, n))
           /\ \A m \in List : \A t : m # l /\ ListIs(f, w, m, t) => ListIs(g, v, m, t)
<1> DEFINE q == InsertAt(s, k, n)
           At(i) == Nth(HeadCell(l), s, TailCell(l), i)
<1>1. /\ s \in Seq(Node) /\ Distinct(s) /\ Len(s) \in Nat
      /\ \A i \in 1..Len(s) : s[i] \in Node /\ w[s[i]] = l
      /\ \A i \in 1..Len(s) : At(i) = s[i]
      /\ At(0) = HeadCell(l)
      /\ \A i \in 0..Len(s) : f[At(i)] = At(i + 1)
      /\ \A i, j \in 0..(Len(s) + 1) : At(i) = At(j) => i = j
  <2>1. ListShape(f, w, l, s)
    BY ListFields
  <2> QED BY <2>1 DEF ListShape
<1>2. /\ q \in Seq(Node) /\ Len(q) = Len(s) + 1
      /\ \A i \in 1..(Len(s) + 1) : q[i] = IF i < k THEN s[i] ELSE IF i = k THEN n ELSE s[i - 1]
  BY <1>1, InsertAtFacts
<1>3. \A i \in 0..(Len(s) + 2) :
         Nth(HeadCell(l), q, TailCell(l), i)
           = IF i < k THEN At(i) ELSE IF i = k THEN n ELSE At(i - 1)
  BY <1>1, NthInsert
<1> HIDE DEF q, At
<1>4. k \in 1..(Len(s) + 1) /\ k - 1 \in 0..Len(s) /\ k \in Nat
  BY <1>1
<1>5. \A i \in 0..Len(s) : At(i) \in Cell /\ At(i) # n /\ (At(i) = HeadCell(l) \/ w[At(i)] = l)
  <2>1. ASSUME NEW i \in 0..Len(s)
        PROVE  At(i) \in Cell /\ At(i) # n /\ (At(i) = HeadCell(l) \/ w[At(i)] = l)
    <3>1. i = 0 \/ i \in 1..Len(s)
      BY <1>1
    <3>2. CASE i = 0
      BY <1>1, <3>2, CellFacts
    <3>3. CASE i \in 1..Len(s)
      BY <1>1, <3>3, CellFacts
    <3> QED BY <3>1, <3>2, <3>3
  <2> QED BY <2>1
<1>6. /\ g[n] = At(k) /\ g[At(k - 1)] = n
      /\ \A c \in Cell : c # n /\ c # At(k - 1) => g[c] = f[c]
  <2>1. g = [f EXCEPT ![n] = At(k), ![At(k - 1)] = n]
    BY DEF At, Linked
  <2>2. n \in Cell /\ At(k - 1) \in Cell /\ At(k - 1) # n
    BY <1>4, <1>5, CellFacts
  <2> QED BY <2>1, <2>2
<1>7. v[n] = l /\ \A x \in Node : x # n => v[x] = w[x]
  BY DEF Linked
<1>8. ASSUME NEW i \in 0..(Len(s) + 1)
      PROVE  g[Nth(HeadCell(l), q, TailCell(l), i)] = Nth(HeadCell(l), q, TailCell(l), i + 1)
  <2>0. /\ i \in 0..(Len(s) + 2) /\ i + 1 \in 0..(Len(s) + 2)
    BY <1>1
  <2>1. CASE i < k - 1
    <3>1. /\ i \in 0..Len(s) /\ i < k /\ i + 1 < k /\ i # k - 1
          /\ i \in 0..(Len(s) + 1) /\ k - 1 \in 0..(Len(s) + 1)
      BY <1>1, <1>4, <2>1
    <3>2. At(i) \in Cell /\ At(i) # n /\ At(i) # At(k - 1)
      BY <1>1, <1>5, <3>1
    <3>3. g[At(i)] = At(i + 1)
      BY <1>1, <1>6, <3>1, <3>2
    <3> QED BY <1>3, <2>0, <3>1, <3>3
  <2>2. CASE i = k - 1
    <3>1. i < k /\ i + 1 = k
      BY <1>4, <2>2
    <3> QED BY <1>3, <1>6, <2>0, <2>2, <3>1
  <2>3. CASE i = k
    <3>1. ~(i < k) /\ ~(i + 1 < k) /\ i + 1 # k /\ (i + 1) - 1 = k
      BY <1>4, <2>3
    <3> QED BY <1>3, <1>6, <2>0, <2>3, <3>1
  <2>4. CASE i > k
    <3>1. /\ ~(i < k) /\ i # k /\ ~(i + 1 < k) /\ i + 1 # k /\ (i + 1) - 1 = (i - 1) + 1
          /\ i - 1 \in 0..Len(s) /\ i - 1 # k - 1
          /\ i - 1 \in 0..(Len(s) + 1) /\ k - 1 \in 0..(Len(s) + 1)
      BY <1>1, <1>4, <2>4
    <3>2. At(i - 1) \in Cell /\ At(i - 1) # n /\ At(i - 1) # At(k - 1)
      BY <1>1, <1>5, <3>1
    <3>3. g[At(i - 1)] = At((i - 1) + 1)
      BY <1>1, <1>6, <3>1, <3>2
    <3> QED BY <1>3, <2>0, <3>1, <3>3
  <2>5. i < k - 1 \/ i = k - 1 \/ i = k \/ i > k
    BY <1>1, <1>4
  <2> QED BY <2>1, <2>2, <2>3, <2>4, <2>5
<1>9. ASSUME NEW x \in Node
      PROVE  v[x] = l <=> \E i \in 1..(Len(s) + 1) : q[i] = x
  <2>1. CASE x = n
    <3>1. q[k] = n
      BY <1>2, <1>4
    <3> QED BY <1>4, <1>7, <2>1, <3>1
  <2>2. CASE x # n
    <3>1. v[x] = l <=> \E i \in 1..Len(s) : s[i] = x
      BY <1>7, <2>2 DEF ListIs
    <3>2. ASSUME NEW i \in 1..Len(s) PROVE \E j \in 1..(Len(s) + 1) : q[j] = s[i]
      <4>1. CASE i < k
        <5>1. i \in 1..(Len(s) + 1)
          BY <1>1
        <5> QED BY <1>2, <4>1, <5>1
      <4>2. CASE i >= k
        <5>1. i + 1 \in 1..(Len(s) + 1) /\ ~(i + 1 < k) /\ i + 1 # k /\ (i + 1) - 1 = i
          BY <1>1, <1>4, <4>2
        <5>2. q[i + 1] = s[i]
          BY <1>2, <5>1
        <5> QED BY <5>1, <5>2
      <4> QED BY <1>1, <1>4, <4>1, <4>2
    <3>3. ASSUME NEW j \in 1..(Len(s) + 1), q[j] # n PROVE \E i \in 1..Len(s) : s[i] = q[j]
      <4>1. j # k
        BY <1>2, <3>3
      <4>2. CASE j < k
        <5>1. j \in 1..Len(s)
          BY <1>1, <1>4, <4>2
        <5> QED BY <1>2, <4>2, <5>1
      <4>3. CASE j > k
        <5>1. j - 1 \in 1..Len(s) /\ ~(j < k) /\ j # k
          BY <1>1, <1>4, <4>3
        <5>2. q[j] = s[j - 1]
          BY <1>2, <5>1
        <5> QED BY <5>1, <5>2
      <4> QED BY <1>1, <1>4, <4>1, <4>2, <4>3
    <3> QED BY <2>2, <3>1, <3>2, <3>3
  <2> QED BY <2>1, <2>2
<1>10. Distinct(q)
  <2>1. SUFFICES ASSUME NEW i \in 1..(Len(s) + 1), NEW j \in 1..(Len(s) + 1), q[i] = q[j]
                 PROVE  i = j
    BY <1>2 DEF Distinct
  <2> DEFINE From(x) == IF x < k THEN x ELSE x - 1
  <2>2. ASSUME NEW x \in 1..(Len(s) + 1), x # k
        PROVE  From(x) \in 1..Len(s) /\ q[x] = s[From(x)]
    <3>1. From(x) \in 1..Len(s)
      BY ONLY <1>1, <1>4, <2>2, x \in 1..(Len(s) + 1)
    <3> QED BY <1>2, <2>2, <3>1
  <2>3. q[k] = n /\ \A x \in 1..Len(s) : s[x] # n
    BY <1>1, <1>2, <1>4, CellFacts
  <2>4. CASE i = k \/ j = k
    <3>1. ASSUME i # k PROVE FALSE
      BY <2>1, <2>2, <2>3, <2>4, <3>1
    <3>2. ASSUME j # k PROVE FALSE
      BY <2>1, <2>2, <2>3, <2>4, <3>2
    <3> QED BY <3>1, <3>2
  <2>5. CASE i # k /\ j # k
    <3>1. From(i) = From(j)
      <4> HIDE DEF From
      <4>1. \A x, y \in 1..Len(s) : s[x] = s[y] => x = y
        BY <1>1 DEF Distinct
      <4>2. From(i) \in 1..Len(s) /\ From(j) \in 1..Len(s) /\ s[From(i)] = s[From(j)]
        BY <2>1, <2>2, <2>5
      <4> QED BY <4>1, <4>2
    <3> QED BY ONLY <1>1, <1>4, <2>5, <3>1, i \in 1..(Len(s) + 1), j \in 1..(Len(s) + 1)
  <2> QED BY <2>4, <2>5
<1>11. ListIs(g, v, l, q)
  BY <1>2, <1>8, <1>9, <1>10 DEF ListIs, ChainOf
<1>12. ASSUME NEW m \in List, NEW t, m # l, ListIs(f, w, m, t) PROVE ListIs(g, v, m, t)
  <2>1. At(k - 1) \in Cell /\ (At(k - 1) = HeadCell(l) \/ w[At(k - 1)] = l)
    BY <1>4, <1>5
  <2>2. g[HeadCell(m)] = f[HeadCell(m)]
    <3>1. HeadCell(m) # n /\ HeadCell(m) \in Cell /\ HeadCell(m) # HeadCell(l)
      BY <1>12, CellFacts
    <3>2. HeadCell(m) # At(k - 1)
      <4>1. k - 1 = 0 \/ k - 1 \in 1..Len(s)
        BY <1>1, <1>4
      <4> QED BY <1>1, <3>1, <4>1, CellFacts
    <3> QED BY <1>6, <3>1, <3>2
  <2>3. \A x \in Node : w[x] = m => g[x] = f[x]
    BY <1>6, <1>12, <2>1, CellFacts
  <2>4. \A x \in Node : v[x] = m <=> w[x] = m
    BY <1>7, <1>12, CellFacts
  <2>5. ListIs(f, w, m, t)
    BY <1>12
  <2> QED BY ONLY <2>2, <2>3, <2>4, <2>5, m \in List, OtherList
<1> QED BY <1>11, <1>12 DEF q

(* Unlinking a node takes it out of the sequence.                           *)
LEMMA RemoveChain ==
    ASSUME NEW f \in [Cell -> Cell \cup {NULL}], NEW w \in [Node -> List \cup {NULL}],
           NEW l \in List, NEW s, ListIs(f, w, l, s), NEW k \in 1..Len(s), NEW g, NEW v,
           Unlinked(f, w, g, v, l, s, k)
    PROVE  /\ ListIs(g, v, l, RemoveAt(s, k))
           /\ \A m \in List : \A t : m # l /\ ListIs(f, w, m, t) => ListIs(g, v, m, t)
<1> DEFINE q == RemoveAt(s, k)
           At(i) == Nth(HeadCell(l), s, TailCell(l), i)
<1>1. /\ s \in Seq(Node) /\ Distinct(s) /\ Len(s) \in Nat
      /\ \A i \in 1..Len(s) : s[i] \in Node /\ w[s[i]] = l
      /\ \A i \in 1..Len(s) : At(i) = s[i]
      /\ At(0) = HeadCell(l)
      /\ \A i \in 0..Len(s) : f[At(i)] = At(i + 1)
      /\ \A i, j \in 0..(Len(s) + 1) : At(i) = At(j) => i = j
  <2>1. ListShape(f, w, l, s)
    BY ListFields
  <2> QED BY <2>1 DEF ListShape
<1>2. /\ q \in Seq(Node) /\ Len(q) = Len(s) - 1
      /\ \A i \in 1..(Len(s) - 1) : q[i] = IF i < k THEN s[i] ELSE s[i + 1]
  BY <1>1, RemoveAtFacts
<1>3. \A i \in 0..Len(s) :
         Nth(HeadCell(l), q, TailCell(l), i) = IF i < k THEN At(i) ELSE At(i + 1)
  BY <1>1, NthRemove
<1> HIDE DEF q, At
<1>4. k \in 1..Len(s) /\ k - 1 \in 0..Len(s) /\ k \in Nat
  BY <1>1
<1>5. \A i \in 0..Len(s) : At(i) \in Cell /\ (At(i) = HeadCell(l) \/ (At(i) \in Node /\ w[At(i)] = l))
  <2>1. ASSUME NEW i \in 0..Len(s)
        PROVE  At(i) \in Cell /\ (At(i) = HeadCell(l) \/ (At(i) \in Node /\ w[At(i)] = l))
    <3>1. i = 0 \/ i \in 1..Len(s)
      BY <1>1
    <3>2. CASE i = 0
      BY <1>1, <3>2, CellFacts
    <3>3. CASE i \in 1..Len(s)
      BY <1>1, <3>3, CellFacts
    <3> QED BY <3>1, <3>2, <3>3
  <2> QED BY <2>1
<1>6. g[At(k - 1)] = At(k + 1) /\ \A c \in Cell : c # At(k - 1) => g[c] = f[c]
  <2>1. g = [f EXCEPT ![At(k - 1)] = At(k + 1)]
    BY DEF At, Unlinked
  <2> QED BY <1>4, <1>5, <2>1
<1>7. s[k] \in Node /\ v[s[k]] = NULL /\ \A x \in Node : x # s[k] => v[x] = w[x]
  BY <1>1, <1>4 DEF Unlinked
<1>8. ASSUME NEW i \in 0..(Len(s) - 1)
      PROVE  g[Nth(HeadCell(l), q, TailCell(l), i)] = Nth(HeadCell(l), q, TailCell(l), i + 1)
  <2>0. i \in 0..Len(s) /\ i + 1 \in 0..Len(s)
    BY <1>1
  <2>1. CASE i < k - 1
    <3>1. /\ i < k /\ i + 1 < k /\ i # k - 1
          /\ i \in 0..(Len(s) + 1) /\ k - 1 \in 0..(Len(s) + 1)
      BY <1>1, <1>4, <2>1
    <3>2. At(i) \in Cell /\ At(i) # At(k - 1)
      BY <1>1, <1>5, <2>0, <3>1
    <3>3. g[At(i)] = At(i + 1)
      BY <1>1, <1>6, <2>0, <3>2
    <3> QED BY <1>3, <2>0, <3>1, <3>3
  <2>2. CASE i = k - 1
    <3>1. i < k /\ ~(i + 1 < k) /\ (i + 1) + 1 = k + 1
      BY <1>4, <2>2
    <3> QED BY <1>3, <1>6, <2>0, <2>2, <3>1
  <2>4. CASE i >= k
    <3>1. /\ ~(i < k) /\ ~(i + 1 < k) /\ i + 1 # k - 1
          /\ i + 1 \in 0..(Len(s) + 1) /\ k - 1 \in 0..(Len(s) + 1)
      BY <1>1, <1>4, <2>4
    <3>2. At(i + 1) \in Cell /\ At(i + 1) # At(k - 1)
      BY <1>1, <1>5, <2>0, <3>1
    <3>3. g[At(i + 1)] = At((i + 1) + 1)
      BY <1>1, <1>6, <2>0, <3>2
    <3> QED BY <1>3, <2>0, <3>1, <3>3
  <2>5. i < k - 1 \/ i = k - 1 \/ i >= k
    BY <1>1, <1>4
  <2> QED BY <2>1, <2>2, <2>4, <2>5
<1> DEFINE From(x) == IF x < k THEN x ELSE x + 1
<1>13. ASSUME NEW x \in 1..(Len(s) - 1)
       PROVE  From(x) \in 1..Len(s) /\ From(x) # k /\ q[x] = s[From(x)]
  <2>1. From(x) \in 1..Len(s) /\ From(x) # k
    BY ONLY <1>1, <1>4, x \in 1..(Len(s) - 1)
  <2> QED BY <1>2, <2>1
<1>14. \A x, y \in 1..Len(s) : s[x] = s[y] => x = y
  BY <1>1 DEF Distinct
<1>9. ASSUME NEW x \in Node
      PROVE  v[x] = l <=> \E i \in 1..(Len(s) - 1) : q[i] = x
  <2>1. v[x] = l <=> x # s[k] /\ w[x] = l
    BY <1>7, CellFacts
  <2>2. w[x] = l <=> \E i \in 1..Len(s) : s[i] = x
    BY DEF ListIs
  <2>3. ASSUME NEW i \in 1..Len(s), s[i] # s[k] PROVE \E j \in 1..(Len(s) - 1) : q[j] = s[i]
    <3>1. CASE i < k
      <4>1. i \in 1..(Len(s) - 1)
        BY <1>1, <1>4, <3>1
      <4> QED BY <1>2, <3>1, <4>1
    <3>2. CASE i > k
      <4>1. i - 1 \in 1..(Len(s) - 1) /\ ~(i - 1 < k) /\ (i - 1) + 1 = i
        BY <1>1, <1>4, <3>2
      <4>2. q[i - 1] = s[i]
        BY <1>2, <4>1
      <4> QED BY <4>1, <4>2
    <3>3. i < k \/ i > k
      BY <1>4, <2>3
    <3> QED BY <3>1, <3>2, <3>3
  <2>4. ASSUME NEW j \in 1..(Len(s) - 1) PROVE q[j] # s[k] /\ \E i \in 1..Len(s) : s[i] = q[j]
    <3>1. From(j) \in 1..Len(s) /\ From(j) # k /\ q[j] = s[From(j)]
      BY <1>13
    <3> HIDE DEF From
    <3> QED BY <1>4, <1>14, <3>1
  <2> QED BY <2>1, <2>2, <2>3, <2>4
<1>10. Distinct(q)
  <2>1. SUFFICES ASSUME NEW i \in 1..(Len(s) - 1), NEW j \in 1..(Len(s) - 1), q[i] = q[j]
                 PROVE  i = j
    BY <1>2 DEF Distinct
  <2>2. From(i) = From(j)
    <3> HIDE DEF From
    <3>1. From(i) \in 1..Len(s) /\ From(j) \in 1..Len(s) /\ s[From(i)] = s[From(j)]
      BY <1>13, <2>1
    <3> QED BY <1>14, <3>1
  <2> QED BY ONLY <1>1, <1>4, <2>2, i \in 1..(Len(s) - 1), j \in 1..(Len(s) - 1)
<1>11. ListIs(g, v, l, q)
  <2>1. 0..Len(q) = 0..(Len(s) - 1) /\ 1..Len(q) = 1..(Len(s) - 1)
    BY <1>2
  <2> QED BY <1>2, <1>8, <1>9, <1>10, <2>1 DEF ListIs, ChainOf
<1>12. ASSUME NEW m \in List, NEW t, m # l, ListIs(f, w, m, t) PROVE ListIs(g, v, m, t)
  <2>1. At(k - 1) = HeadCell(l) \/ (At(k - 1) \in Node /\ w[At(k - 1)] = l)
    BY <1>4, <1>5
  <2>2. g[HeadCell(m)] = f[HeadCell(m)]
    <3>1. HeadCell(m) \in Cell /\ HeadCell(m) # HeadCell(l) /\ HeadCell(m) \notin Node
      BY <1>12, CellFacts
    <3> QED BY <1>6, <2>1, <3>1
  <2>3. \A x \in Node : w[x] = m => g[x] = f[x]
    BY <1>6, <1>12, <2>1, CellFacts
  <2>4. \A x \in Node : v[x] = m <=> w[x] = m
    BY <1>1, <1>4, <1>7, <1>12, CellFacts
  <2>5. ListIs(f, w, m, t)
    BY <1>12
  <2> HIDE DEF From
  <2> QED BY ONLY <2>2, <2>3, <2>4, <2>5, m \in List, OtherList
<1> QED BY <1>11, <1>12 DEF q

-----------------------------------------------------------------------------
(* The invariant of the refinement.                                        *)

\* Forward(l) is the chain of list l.
Chains == \A l \in List : ListIs(next, where, l, Forward(l))

\* The enqueue() in progress has passed only nodes of no lower priority.
WalkPassed ==
    \A l \in List : op.list = l =>
        \E i \in 1..(Len(Forward(l)) + 1) :
           /\ op.cursor = IF i <= Len(Forward(l)) THEN Forward(l)[i] ELSE NULL
           /\ \A j \in 1..(i - 1) : pri[Forward(l)[j]] >= pri[op.node]

(* Walking a list finds its chain.                                          *)
LEMMA WalkOfList ==
    ASSUME NEW f, NEW w, NEW l \in List, NEW s, ListIs(f, w, l, s)
    PROVE  Walk(f)[Cardinality(Node) + 1][HeadCell(l)] = s
<1>1. ChainOf(f, HeadCell(l), s, TailCell(l))
  BY DEF ListIs
<1>2. HeadCell(l) \in Cell /\ TailCell(l) \notin Node
  BY CellFacts
<1> QED BY <1>1, <1>2, WalkOfChain

LEMMA ForwardNow ==
    ASSUME NEW l \in List, NEW s, ListIs(next, where, l, s) PROVE Forward(l) = s
BY WalkOfList DEF Forward

LEMMA ForwardNext ==
    ASSUME NEW l \in List, NEW s, ListIs(next', where', l, s) PROVE Forward(l)' = s
<1>1. Forward(l)' = Walk(next')[Cardinality(Node) + 1][HeadCell(l)]
  BY DEF Forward
<1> QED BY <1>1, WalkOfList

LEMMA ChainsNext ==
    ASSUME \A l \in List : \E s : ListIs(next', where', l, s)
    PROVE  Chains'
<1>1. ASSUME NEW l \in List PROVE ListIs(next', where', l, Forward(l)')
  BY ForwardNext
<1> QED BY <1>1 DEF Chains

(* The links back undo the links forward.                                   *)
LEMMA LinksBack ==
    ASSUME Links, NEW l \in List, NEW s, ListIs(next, where, l, s)
    PROVE  \A i \in 0..Len(s) : prev[Nth(HeadCell(l), s, TailCell(l), i + 1)]
                                = Nth(HeadCell(l), s, TailCell(l), i)
<1> DEFINE At(i) == Nth(HeadCell(l), s, TailCell(l), i)
<1>1. /\ Len(s) \in Nat
      /\ \A i \in 1..Len(s) : s[i] \in Node /\ where[s[i]] = l
      /\ \A i \in 1..Len(s) : At(i) = s[i]
      /\ At(0) = HeadCell(l)
      /\ \A i \in 0..Len(s) : next[At(i)] = At(i + 1)
  <2>1. ListShape(next, where, l, s)
    BY ListFields
  <2> QED BY <2>1 DEF ListShape
<1> HIDE DEF At
<1>2. ASSUME NEW i \in 0..Len(s) PROVE prev[At(i + 1)] = At(i)
  <2>1. At(i) \in CellsOf(l) \ {TailCell(l)}
    <3>1. i = 0 \/ i \in 1..Len(s)
      BY <1>1
    <3> QED BY <1>1, <3>1, CellFacts DEF CellsOf
  <2>2. prev[next[At(i)]] = At(i)
    BY <2>1 DEF Links, Chained
  <2> QED BY <1>1, <2>2
<1> QED BY <1>2 DEF At

(* Linking a node: its list gets it at that place, the others stay.         *)
LEMMA PutStep ==
    ASSUME TypeOK, Chains, NEW l \in List, NEW n \in Node, where[n] = NULL,
           NEW s, s = Forward(l), NEW k \in 1..(Len(s) + 1),
           Splice(Nth(HeadCell(l), s, TailCell(l), k - 1), n, Nth(HeadCell(l), s, TailCell(l), k)),
           where' = [where EXCEPT ![n] = l]
    PROVE  /\ Chains' /\ Forward(l)' = InsertAt(s, k, n)
           /\ \A m \in List : m # l => Forward(m)' = Forward(m)
<1>1. (\A m \in List : ListIs(next, where, m, Forward(m))) /\ ListIs(next, where, l, s)
  BY DEF Chains
<1>2. /\ next \in [Cell -> Cell \cup {NULL}] /\ where \in [Node -> List \cup {NULL}]
  BY DEF TypeOK
<1>3. Linked(next, where, next', where', l, s, k, n)
  BY DEF Splice, Linked
<1>4. /\ ListIs(next', where', l, InsertAt(s, k, n))
      /\ \A m \in List : \A t : m # l /\ ListIs(next, where, m, t) => ListIs(next', where', m, t)
  BY <1>1, <1>2, <1>3, InsertChain
<1>5. \A m \in List : m # l => ListIs(next', where', m, Forward(m))
  BY <1>1, <1>4
<1>6. Chains'
  BY <1>4, <1>5, ChainsNext
<1>7. Forward(l)' = InsertAt(s, k, n)
  BY <1>4, ForwardNext
<1>8. \A m \in List : m # l => Forward(m)' = Forward(m)
  BY <1>5, ForwardNext
<1> QED BY <1>6, <1>7, <1>8

(* Unlinking a node: its list loses it, the others stay.                    *)
LEMMA TakeStep ==
    ASSUME TypeOK, Links, Chains, NEW l \in List, NEW s, s = Forward(l), NEW k \in 1..Len(s),
           Unlink(s[k])
    PROVE  /\ Chains' /\ Forward(l)' = RemoveAt(s, k)
           /\ \A m \in List : m # l => Forward(m)' = Forward(m)
<1>1. (\A m \in List : ListIs(next, where, m, Forward(m))) /\ ListIs(next, where, l, s)
  BY DEF Chains
<1>2. /\ next \in [Cell -> Cell \cup {NULL}] /\ where \in [Node -> List \cup {NULL}]
  BY DEF TypeOK
<1> DEFINE At(i) == Nth(HeadCell(l), s, TailCell(l), i)
<1>3. /\ Len(s) \in Nat
      /\ \A i \in 1..Len(s) : At(i) = s[i]
      /\ \A i \in 0..Len(s) : next[At(i)] = At(i + 1)
  <2>1. ListShape(next, where, l, s)
    BY <1>1, ListFields
  <2> QED BY <2>1 DEF ListShape
<1>4. \A i \in 0..Len(s) : prev[At(i + 1)] = At(i)
  BY <1>1, LinksBack
<1>5. k \in 0..Len(s) /\ k - 1 \in 0..Len(s) /\ (k - 1) + 1 = k
  BY <1>3
<1>6. prev[s[k]] = At(k - 1) /\ next[s[k]] = At(k + 1)
  <2> HIDE DEF At
  <2> QED BY <1>3, <1>4, <1>5
<1>7. Unlinked(next, where, next', where', l, s, k)
  BY <1>6 DEF Unlink, Unlinked
<1>8. /\ ListIs(next', where', l, RemoveAt(s, k))
      /\ \A m \in List : \A t : m # l /\ ListIs(next, where, m, t) => ListIs(next', where', m, t)
  BY <1>1, <1>2, <1>7, RemoveChain
<1>9. \A m \in List : m # l => ListIs(next', where', m, Forward(m))
  BY <1>1, <1>8
<1>10. Chains'
  BY <1>8, <1>9, ChainsNext
<1>11. Forward(l)' = RemoveAt(s, k)
  BY <1>8, ForwardNext
<1>12. \A m \in List : m # l => Forward(m)' = Forward(m)
  BY <1>9, ForwardNext
<1> QED BY <1>10, <1>11, <1>12

(* The other steps leave every list as it is.                               *)
LEMMA SameStep ==
    ASSUME Chains, UNCHANGED <<next, where>>
    PROVE  Chains' /\ \A m \in List : Forward(m)' = Forward(m)
<1>1. \A m \in List : ListIs(next', where', m, Forward(m))
  BY DEF Chains
<1>2. Chains'
  BY <1>1, ChainsNext
<1>3. \A m \in List : Forward(m)' = Forward(m)
  BY <1>1, ForwardNext
<1> QED BY <1>2, <1>3

(* The sequence of a list, and the pointers the routines read.              *)
LEMMA ListNow ==
    ASSUME LinkInv, Chains, NEW l \in List, NEW s, s = Forward(l)
    PROVE  /\ ListIs(next, where, l, s) /\ ListShape(next, where, l, s)
           /\ ChainOf(next, HeadCell(l), s, TailCell(l)) /\ next[TailCell(l)] = NULL
           /\ next[HeadCell(l)] = Nth(HeadCell(l), s, TailCell(l), 1)
           /\ prev[TailCell(l)] = Nth(HeadCell(l), s, TailCell(l), Len(s))
           /\ \A k \in 1..Len(s) : prev[s[k]] = Nth(HeadCell(l), s, TailCell(l), k - 1)
           /\ s \in Seq(Node) /\ Len(s) \in Nat /\ \A k \in 1..Len(s) : s[k] \in Node /\ where[s[k]] = l
<1> DEFINE At(i) == Nth(HeadCell(l), s, TailCell(l), i)
<1>1. ListIs(next, where, l, s)
  BY DEF Chains
<1>2. ListShape(next, where, l, s) /\ ChainOf(next, HeadCell(l), s, TailCell(l))
  BY <1>1, ListFields DEF ListIs
<1>3. Links /\ next[TailCell(l)] = NULL
  BY DEF LinkInv, Links, SharedNull
<1>4. \A i \in 0..Len(s) : prev[At(i + 1)] = At(i)
  BY <1>1, <1>3, LinksBack
<1>5. /\ s \in Seq(Node) /\ Len(s) \in Nat
      /\ \A k \in 1..Len(s) : s[k] \in Node /\ where[s[k]] = l /\ At(k) = s[k]
      /\ At(0) = HeadCell(l) /\ At(Len(s) + 1) = TailCell(l)
      /\ \A i \in 0..Len(s) : next[At(i)] = At(i + 1)
  BY <1>2 DEF ListShape
<1> HIDE DEF At
<1>6. next[HeadCell(l)] = At(1)
  <2>1. 0 \in 0..Len(s)
    BY <1>5
  <2> QED BY <1>5, <2>1
<1>7. prev[TailCell(l)] = At(Len(s))
  <2>1. Len(s) \in 0..Len(s)
    BY <1>5
  <2> QED BY <1>4, <1>5, <2>1
<1>8. ASSUME NEW k \in 1..Len(s) PROVE prev[s[k]] = At(k - 1)
  <2>1. k - 1 \in 0..Len(s) /\ (k - 1) + 1 = k
    BY <1>5
  <2> QED BY <1>4, <1>5, <2>1
<1> QED BY <1>1, <1>2, <1>3, <1>5, <1>6, <1>7, <1>8 DEF At

(* A loose node is in no sequence.                                          *)
LEMMA LooseIsFree ==
    ASSUME LinkInv, Chains, NEW n \in Node, where[n] = NULL
    PROVE  Abstract!Free(n)
<1>1. ASSUME NEW l \in List PROVE n \notin Abstract!ToSet(Forward(l))
  <2> DEFINE s == Forward(l)
  <2>1. Len(s) \in Nat /\ DOMAIN s = 1..Len(s) /\ \A k \in 1..Len(s) : where[s[k]] = l
    <3>1. s \in Seq(Node) /\ \A k \in 1..Len(s) : where[s[k]] = l
      BY ListNow
    <3> HIDE DEF s
    <3> QED BY <3>1, LenProperties
  <2> HIDE DEF s
  <2>2. n \notin Abstract!ToSet(s)
    BY <2>1, CellFacts DEF Abstract!ToSet
  <2> QED BY <2>2 DEF s
<1> QED BY <1>1 DEF Abstract!Free

LEMMA AbstractPut ==
    ASSUME LinkInv, Chains, NEW l \in List, NEW n \in Node, where[n] = NULL,
           NEW s, s = Forward(l), NEW k, Forward(l)' = InsertAt(s, k, n),
           \A m \in List : m # l => Forward(m)' = Forward(m), ret' = ret
    PROVE  Abstract!Put(l, n, k)
<1>1. Abstract!Free(n)
  BY LooseIsFree
<1>2. InsertAt(s, k, n) = Abstract!InsertAt(s, k, n)
  BY DEF InsertAt, Abstract!InsertAt
<1> DEFINE L == [m \in List |-> Forward(m)]
<1>3. L' = [L EXCEPT ![l] = Abstract!InsertAt(@, k, n)]
  <2>1. L[l] = s
    OBVIOUS
  <2>2. ASSUME NEW m \in List
        PROVE  Forward(m)' = [L EXCEPT ![l] = Abstract!InsertAt(@, k, n)][m]
    BY <1>2
  <2> QED BY <2>2
<1> QED BY <1>1, <1>3 DEF Abstract!Put

LEMMA AbstractTake ==
    ASSUME NEW l \in List, NEW s, s = Forward(l), NEW k, Forward(l)' = RemoveAt(s, k),
           \A m \in List : m # l => Forward(m)' = Forward(m)
    PROVE  Abstract!Take(l, k)
<1>2. RemoveAt(s, k) = Abstract!RemoveAt(s, k)
  BY DEF RemoveAt, Abstract!RemoveAt
<1> DEFINE L == [m \in List |-> Forward(m)]
<1>3. L' = [L EXCEPT ![l] = Abstract!RemoveAt(@, k)]
  <2>2. ASSUME NEW m \in List
        PROVE  Forward(m)' = [L EXCEPT ![l] = Abstract!RemoveAt(@, k)][m]
    BY <1>2
  <2> QED BY <2>2
<1> QED BY <1>3 DEF Abstract!Take

(* The place of a node is where the walk of enqueue() ends.                 *)
LEMMA PlaceIs ==
    ASSUME NEW s \in Seq(Node), NEW p \in Int, NEW i \in 1..(Len(s) + 1),
           \A j \in 1..(i - 1) : pri[s[j]] >= p, i <= Len(s) => pri[s[i]] < p
    PROVE  Abstract!Place(s, p) = i
<1>1. Len(s) \in Nat /\ \A j \in 1..Len(s) : s[j] \in Node /\ pri[s[j]] \in Int
  BY LenProperties, ListAssumption
<1> DEFINE Fits(k) == /\ \A j \in 1..(k - 1) : pri[s[j]] >= p
                      /\ k <= Len(s) => pri[s[k]] < p
<1>2. ASSUME NEW k \in 1..(Len(s) + 1), Fits(k) PROVE k = i
  <2>1. ASSUME k < i PROVE FALSE
    <3>1. k \in 1..(i - 1) /\ k <= Len(s) /\ k \in 1..Len(s)
      BY <1>1, <2>1
    <3> QED BY <1>1, <1>2, <3>1
  <2>2. ASSUME i < k PROVE FALSE
    <3>1. i \in 1..(k - 1) /\ i <= Len(s) /\ i \in 1..Len(s)
      BY <1>1, <2>2
    <3> QED BY <1>1, <1>2, <3>1
  <2> QED BY <1>1, <2>1, <2>2
<1>3. Abstract!Place(s, p) = CHOOSE k \in 1..(Len(s) + 1) : Fits(k)
  BY DEF Abstract!Place
<1>4. Fits(i)
  OBVIOUS
<1> HIDE DEF Fits
<1> QED BY <1>2, <1>3, <1>4

(* A step of another list leaves the walk of enqueue() as it is.            *)
LEMMA WalkKept ==
    ASSUME WalkPassed, op' = op, \A m \in List : op.list = m => Forward(m)' = Forward(m)
    PROVE  WalkPassed'
<1>1. ASSUME NEW m \in List, op.list = m
      PROVE  \E i \in 1..(Len(Forward(m)') + 1) :
                /\ op.cursor = IF i <= Len(Forward(m)') THEN Forward(m)'[i] ELSE NULL
                /\ \A j \in 1..(i - 1) : pri[Forward(m)'[j]] >= pri[op.node]
  <2>1. Forward(m)' = Forward(m)
    BY <1>1
  <2>2. PICK i \in 1..(Len(Forward(m)) + 1) :
           /\ op.cursor = IF i <= Len(Forward(m)) THEN Forward(m)[i] ELSE NULL
           /\ \A j \in 1..(i - 1) : pri[Forward(m)[j]] >= pri[op.node]
    BY <1>1 DEF WalkPassed
  <2> QED BY <2>1, <2>2
<1> QED BY <1>1 DEF WalkPassed

StepKeeps ==
    /\ Chains' /\ WalkPassed'
    /\ Abstract!Next \/ UNCHANGED <<[l \in List |-> Forward(l)], ret>>

(* add_head(), add_tail().                                                  *)
LEMMA AddSteps ==
    ASSUME TypeOK, LinkInv, Chains, WalkPassed, NEW l \in List, NEW n \in Node,
           AddHead(l, n) \/ AddTail(l, n)
    PROVE  StepKeeps
<1>1. PICK s : s = Forward(l)
  OBVIOUS
<1>2. /\ where[n] = NULL /\ where' = [where EXCEPT ![n] = l] /\ op' = op /\ ret' = ret
      /\ op.list # l
  BY DEF AddHead, AddTail, Loose, Quiet
<1>3. /\ s \in Seq(Node) /\ Len(s) \in Nat
      /\ next[HeadCell(l)] = Nth(HeadCell(l), s, TailCell(l), 1)
      /\ prev[TailCell(l)] = Nth(HeadCell(l), s, TailCell(l), Len(s))
  BY <1>1, ListNow
<1>4. /\ Nth(HeadCell(l), s, TailCell(l), 0) = HeadCell(l)
      /\ Nth(HeadCell(l), s, TailCell(l), Len(s) + 1) = TailCell(l)
  BY <1>3 DEF Nth
<1>5. ASSUME NEW k \in 1..(Len(s) + 1),
             Splice(Nth(HeadCell(l), s, TailCell(l), k - 1), n, Nth(HeadCell(l), s, TailCell(l), k))
      PROVE  Chains' /\ WalkPassed' /\ Abstract!Put(l, n, k)
  <2>1. /\ Chains' /\ Forward(l)' = InsertAt(s, k, n)
        /\ \A m \in List : m # l => Forward(m)' = Forward(m)
    BY <1>1, <1>2, <1>5, PutStep
  <2>2. WalkPassed'
    BY <1>2, <2>1, WalkKept
  <2>3. Abstract!Put(l, n, k)
    BY <1>1, <1>2, <2>1, AbstractPut
  <2> QED BY <2>1, <2>2, <2>3
<1>6. CASE AddHead(l, n)
  <2>1. 1 \in 1..(Len(s) + 1) /\ 1 - 1 = 0
    BY <1>3
  <2>2. Splice(Nth(HeadCell(l), s, TailCell(l), 1 - 1), n, Nth(HeadCell(l), s, TailCell(l), 1))
    BY <1>3, <1>4, <1>6, <2>1 DEF AddHead
  <2>3. Chains' /\ WalkPassed' /\ Abstract!Put(l, n, 1)
    BY <1>5, <2>1, <2>2
  <2>4. Abstract!AddHead(l, n)
    BY <2>3 DEF Abstract!AddHead
  <2> QED BY <2>3, <2>4 DEF StepKeeps, Abstract!Next
<1>7. CASE AddTail(l, n)
  <2>1. Len(s) + 1 \in 1..(Len(s) + 1) /\ (Len(s) + 1) - 1 = Len(s)
    BY <1>3
  <2>2. Splice(Nth(HeadCell(l), s, TailCell(l), (Len(s) + 1) - 1), n,
               Nth(HeadCell(l), s, TailCell(l), Len(s) + 1))
    BY <1>3, <1>4, <1>7, <2>1 DEF AddTail
  <2>3. Chains' /\ WalkPassed' /\ Abstract!Put(l, n, Len(s) + 1)
    BY <1>5, <2>1, <2>2
  <2>4. Abstract!AddTail(l, n)
    BY <1>1, <2>3 DEF Abstract!AddTail
  <2> QED BY <2>3, <2>4 DEF StepKeeps, Abstract!Next
<1> QED BY <1>6, <1>7

(* Taking the k-th node out of a list that no enqueue() walks.              *)
LEMMA TakeNode ==
    ASSUME TypeOK, LinkInv, Chains, WalkPassed, NEW l \in List, NEW s, s = Forward(l),
           NEW k \in 1..Len(s), Unlink(s[k]), op.list # l, op' = op
    PROVE  Chains' /\ WalkPassed' /\ Abstract!Take(l, k)
<1>1. Links
  BY DEF LinkInv, Links
<1>2. /\ Chains' /\ Forward(l)' = RemoveAt(s, k)
      /\ \A m \in List : m # l => Forward(m)' = Forward(m)
  BY <1>1, TakeStep
<1>3. WalkPassed'
  BY <1>2, WalkKept
<1>4. Abstract!Take(l, k)
  BY <1>2, AbstractTake
<1> QED BY <1>2, <1>3, <1>4

(* A step that writes no list.                                              *)
LEMMA NoListStep ==
    ASSUME Chains, UNCHANGED <<next, where, ret>>
    PROVE  Chains' /\ UNCHANGED <<[l \in List |-> Forward(l)], ret>>
<1>1. Chains' /\ \A m \in List : Forward(m)' = Forward(m)
  BY SameStep
<1> QED BY <1>1

(* remove_node().                                                           *)
LEMMA RemoveNodeStep ==
    ASSUME TypeOK, LinkInv, Chains, WalkPassed, NEW n \in Node, RemoveNode(n)
    PROVE  StepKeeps
<1>1. PICK l \in List : l = where[n]
  BY DEF RemoveNode, TypeOK
<1>2. PICK s : s = Forward(l)
  OBVIOUS
<1>3. ListIs(next, where, l, s) /\ s \in Seq(Node)
  BY <1>2, ListNow
<1>4. PICK k \in 1..Len(s) : s[k] = n
  BY <1>1, <1>3 DEF ListIs
<1>5. Unlink(s[k]) /\ op.list # l /\ op' = op /\ ret' = ret
  BY <1>1, <1>4 DEF RemoveNode, Quiet
<1>6. Chains' /\ WalkPassed' /\ Abstract!Take(l, k)
  BY <1>2, <1>5, TakeNode
<1>7. k \in DOMAIN s
  BY <1>3, LenProperties
<1>8. Abstract!RemoveNode(n)
  <2> DEFINE L == [m \in List |-> Forward(m)]
  <2>1. L[l] = s
    BY <1>2
  <2> QED BY <1>4, <1>5, <1>6, <1>7, <2>1 DEF Abstract!RemoveNode
<1> QED BY <1>6, <1>8 DEF StepKeeps, Abstract!Next

(* remove_head(): NULL from an empty list, else the first node.             *)
LEMMA RemoveHeadStep ==
    ASSUME TypeOK, LinkInv, Chains, WalkPassed, NEW l \in List, RemoveHead(l)
    PROVE  StepKeeps
<1> DEFINE first == next[HeadCell(l)]
           second == next[first]
<1>1. PICK s : s = Forward(l)
  OBVIOUS
<1>2. /\ ListShape(next, where, l, s) /\ s \in Seq(Node) /\ Len(s) \in Nat
      /\ first = Nth(HeadCell(l), s, TailCell(l), 1) /\ next[TailCell(l)] = NULL
      /\ \A k \in 1..Len(s) : prev[s[k]] = Nth(HeadCell(l), s, TailCell(l), k - 1)
  BY <1>1, ListNow
<1>3. op' = op /\ op.list # l
  BY DEF RemoveHead, Quiet
<1>4. CASE Len(s) = 0
  <2>1. s = <<>> /\ second = NULL
    BY <1>2, <1>4, EmptySeq DEF Nth
  <2>2. ret' = NULL /\ UNCHANGED <<next, prev, where>>
    BY <2>1 DEF RemoveHead
  <2>3. Chains' /\ \A m \in List : Forward(m)' = Forward(m)
    BY <2>2, SameStep
  <2>4. WalkPassed'
    BY <1>3, <2>3, WalkKept
  <2>5. Abstract!RemoveHead(l)
    BY <1>1, <2>1, <2>2, <2>3 DEF Abstract!RemoveHead
  <2> QED BY <2>3, <2>4, <2>5 DEF StepKeeps, Abstract!Next
<1>5. CASE Len(s) > 0
  <2>1. /\ 1 \in 1..Len(s) /\ 1 \in 0..Len(s) /\ 1 + 1 \in 1..(Len(s) + 1)
        /\ s[1] \in Node /\ 1 - 1 = 0
    BY <1>2, <1>5, LenProperties
  <2>2. first = s[1] /\ prev[first] = HeadCell(l)
    BY <1>2, <2>1 DEF Nth
  <2>3. second # NULL
    <3>1. second = Nth(HeadCell(l), s, TailCell(l), 1 + 1)
      BY <1>2, <2>1 DEF ListShape
    <3>2. CASE Len(s) = 1
      BY <3>1, <3>2, CellFacts DEF Nth
    <3>3. CASE Len(s) > 1
      <4>1. 2 \in 1..Len(s) /\ second = s[2]
        BY <1>2, <3>1, <3>3 DEF Nth
      <4>2. s[2] \in Node
        BY <1>2, <4>1, LenProperties
      <4> QED BY <4>1, <4>2, CellFacts
    <3>5. PICK m \in Nat : m = Len(s)
      BY <1>2
    <3>6. m = 1 \/ m > 1
      BY <3>5, <1>5
    <3>4. Len(s) = 1 \/ Len(s) > 1
      BY <3>5, <3>6
    <3> QED BY <3>2, <3>3, <3>4
  <2>4. Unlink(s[1]) /\ ret' = s[1]
    BY <2>2, <2>3 DEF RemoveHead, Unlink
  <2>5. Chains' /\ WalkPassed' /\ Abstract!Take(l, 1)
    BY <1>1, <1>3, <2>1, <2>4, TakeNode
  <2>6. s # <<>>
    BY <1>5
  <2>7. Abstract!RemoveHead(l)
    BY <1>1, <2>4, <2>5, <2>6 DEF Abstract!RemoveHead
  <2> QED BY <2>5, <2>7 DEF StepKeeps, Abstract!Next
<1> QED BY <1>2, <1>4, <1>5

(* remove_tail(): the last node; the NULL access on an empty list changes   *)
(* no list.                                                                 *)
LEMMA RemoveTailStep ==
    ASSUME TypeOK, LinkInv, Chains, WalkPassed, NEW l \in List, RemoveTail(l)
    PROVE  StepKeeps
<1> DEFINE last == prev[TailCell(l)]
<1>1. PICK s : s = Forward(l)
  OBVIOUS
<1>2. /\ s \in Seq(Node) /\ Len(s) \in Nat
      /\ last = Nth(HeadCell(l), s, TailCell(l), Len(s))
      /\ \A k \in 1..Len(s) : prev[s[k]] = Nth(HeadCell(l), s, TailCell(l), k - 1)
  BY <1>1, ListNow
<1>3. op' = op /\ op.list # l
  BY DEF RemoveTail, Quiet
<1>4. CASE Len(s) = 0
  <2>1. prev[last] = NULL
    BY <1>2, <1>4 DEF Nth, LinkInv, SharedNull
  <2>2. UNCHANGED <<next, where, ret>>
    BY <2>1 DEF RemoveTail
  <2>3. Chains' /\ UNCHANGED <<[m \in List |-> Forward(m)], ret>>
    BY <2>2, NoListStep
  <2>4. \A m \in List : Forward(m)' = Forward(m)
    BY <2>2, SameStep
  <2>5. WalkPassed'
    BY <1>3, <2>4, WalkKept
  <2> QED BY <2>3, <2>5 DEF StepKeeps
<1>5. CASE Len(s) > 0
  <2>1. Len(s) \in 1..Len(s)
    BY <1>2, <1>5
  <2>2. last = s[Len(s)]
    BY <1>2, <1>5 DEF Nth
  <2>3. prev[last] # NULL
    <3>1. prev[last] = Nth(HeadCell(l), s, TailCell(l), Len(s) - 1)
      BY <1>2, <2>1, <2>2
    <3>2. CASE Len(s) = 1
      BY <3>1, <3>2, CellFacts DEF Nth
    <3>3. CASE Len(s) > 1
      <4>1. Len(s) - 1 \in 1..Len(s) /\ prev[last] = s[Len(s) - 1]
        BY <1>2, <3>1, <3>3 DEF Nth
      <4>2. s[Len(s) - 1] \in Node
        BY <1>2, <4>1, LenProperties
      <4> QED BY <4>1, <4>2, CellFacts
    <3>5. PICK m \in Nat : m = Len(s)
      BY <1>2
    <3>6. m = 1 \/ m > 1
      BY <3>5, <1>5
    <3>4. Len(s) = 1 \/ Len(s) > 1
      BY <3>5, <3>6
    <3> QED BY <3>2, <3>3, <3>4
  <2>4. Unlink(s[Len(s)]) /\ ret' = s[Len(s)]
    BY <2>2, <2>3 DEF RemoveTail
  <2>5. Chains' /\ WalkPassed' /\ Abstract!Take(l, Len(s))
    BY <1>1, <1>3, <2>1, <2>4, TakeNode
  <2>6. s # <<>>
    BY <1>5
  <2>7. Abstract!RemoveTail(l)
    BY <1>1, <2>4, <2>5, <2>6 DEF Abstract!RemoveTail
  <2> QED BY <2>5, <2>7 DEF StepKeeps, Abstract!Next
<1> QED BY <1>2, <1>4, <1>5

(* enqueue() starts before the first node and moves on past one of no lower *)
(* priority.                                                                *)
LEMMA EnqueueWalkStep ==
    ASSUME TypeOK, LinkInv, Chains, WalkPassed,
           EnqueueNext \/ \E l \in List, n \in Node : EnqueueBegin(l, n)
    PROVE  StepKeeps
<1>1. UNCHANGED <<next, where, ret>>
  BY DEF EnqueueNext, EnqueueBegin
<1>2. Chains' /\ UNCHANGED <<[m \in List |-> Forward(m)], ret>>
  BY <1>1, NoListStep
<1>3. \A m \in List : Forward(m)' = Forward(m)
  BY <1>1, SameStep
<1>4. ASSUME NEW l \in List, op'.list = l, NEW s, s = Forward(l)
      PROVE  \E i \in 1..(Len(s) + 1) :
                /\ op'.cursor = IF i <= Len(s) THEN s[i] ELSE NULL
                /\ \A j \in 1..(i - 1) : pri[s[j]] >= pri[op'.node]
  <2>1. /\ s \in Seq(Node) /\ Len(s) \in Nat /\ \A k \in 1..Len(s) : s[k] \in Node
        /\ ChainOf(next, HeadCell(l), s, TailCell(l)) /\ next[TailCell(l)] = NULL
    BY <1>4, ListNow
  <2>2. /\ get_head(l) = IF Len(s) > 0 THEN s[1] ELSE NULL
        /\ \A i \in 1..Len(s) : get_next(s[i]) = IF i < Len(s) THEN s[i + 1] ELSE NULL
    BY <2>1, ReadList
  <2>3. CASE \E m \in List, n \in Node : EnqueueBegin(m, n)
    <3>1. op'.cursor = get_head(l)
      BY <1>4, <2>3 DEF EnqueueBegin
    <3>2. 1 \in 1..(Len(s) + 1) /\ 1..(1 - 1) = {} /\ (1 <= Len(s) <=> Len(s) > 0)
      BY <2>1
    <3> QED BY <2>2, <3>1, <3>2
  <2>4. CASE EnqueueNext
    <3>1. /\ op'.list = op.list /\ op'.node = op.node /\ op'.cursor = get_next(op.cursor)
          /\ op.cursor # NULL /\ ~(pri[op.node] > pri[op.cursor]) /\ op # Idle
      BY <2>4 DEF EnqueueNext, Walking, Overtakes, TypeOK
    <3>2. PICK i \in 1..(Len(s) + 1) :
             /\ op.cursor = IF i <= Len(s) THEN s[i] ELSE NULL
             /\ \A j \in 1..(i - 1) : pri[s[j]] >= pri[op.node]
      BY <1>4, <3>1 DEF WalkPassed
    <3>3. i \in 1..Len(s) /\ op.cursor = s[i]
      BY <2>1, <3>1, <3>2
    <3>4. pri[s[i]] >= pri[op.node]
      <4>1. pri[s[i]] \in Int /\ pri[op.node] \in Int
        BY <2>1, <3>1, <3>3, ListAssumption DEF LinkInv, WalkInList
      <4> QED BY <3>1, <3>3, <4>1
    <3>5. /\ i + 1 \in 1..(Len(s) + 1) /\ (i + 1 <= Len(s) <=> i < Len(s))
          /\ (i + 1) - 1 = i
      BY <2>1, <3>3
    <3>6. op'.cursor = IF i + 1 <= Len(s) THEN s[i + 1] ELSE NULL
      BY <2>2, <3>1, <3>3, <3>5
    <3>7. \A j \in 1..i : pri[s[j]] >= pri[op.node]
      <4>1. \A j \in 1..i : j = i \/ j \in 1..(i - 1)
        BY <3>3
      <4> QED BY <3>2, <3>4, <4>1
    <3> QED BY <3>1, <3>5, <3>6, <3>7
  <2> QED BY <2>3, <2>4
<1>5. WalkPassed'
  <2>1. ASSUME NEW l \in List, op'.list = l
        PROVE  \E i \in 1..(Len(Forward(l)') + 1) :
                  /\ op'.cursor = IF i <= Len(Forward(l)') THEN Forward(l)'[i] ELSE NULL
                  /\ \A j \in 1..(i - 1) : pri[Forward(l)'[j]] >= pri[op'.node]
    <3>1. PICK s : s = Forward(l)
      OBVIOUS
    <3>2. Forward(l)' = s
      BY <1>3, <3>1
    <3> QED BY <1>4, <2>1, <3>1, <3>2
  <2> QED BY <2>1 DEF WalkPassed
<1> QED BY <1>2, <1>5 DEF StepKeeps

(* enqueue() links its node before the first one of lower priority, or at   *)
(* the end.                                                                 *)
LEMMA EnqueueLinkStep ==
    ASSUME TypeOK, LinkInv, Chains, WalkPassed, EnqueueInsert \/ EnqueueAppend
    PROVE  StepKeeps
<1>1. op # Idle /\ op.list \in List /\ op.node \in Node /\ where[op.node] = NULL
  BY DEF EnqueueInsert, EnqueueAppend, Walking, LinkInv, WalkInList
<1>2. PICK l \in List, n \in Node : l = op.list /\ n = op.node
  BY <1>1
<1>3. PICK s : s = Forward(l)
  OBVIOUS
<1>4. /\ s \in Seq(Node) /\ Len(s) \in Nat /\ \A k \in 1..Len(s) : s[k] \in Node
      /\ prev[TailCell(l)] = Nth(HeadCell(l), s, TailCell(l), Len(s))
      /\ \A k \in 1..Len(s) : prev[s[k]] = Nth(HeadCell(l), s, TailCell(l), k - 1)
  BY <1>3, ListNow
<1>5. PICK i \in 1..(Len(s) + 1) :
         /\ op.cursor = IF i <= Len(s) THEN s[i] ELSE NULL
         /\ \A j \in 1..(i - 1) : pri[s[j]] >= pri[n]
  BY <1>2, <1>3 DEF WalkPassed
<1>6. pri[n] \in Int /\ NULL \notin Node
  BY ListAssumption, CellFacts
<1>7. /\ where' = [where EXCEPT ![n] = l] /\ op' = Idle /\ ret' = ret /\ where[n] = NULL
  BY <1>1, <1>2 DEF EnqueueInsert, EnqueueAppend
<1>8. /\ i <= Len(s) => pri[s[i]] < pri[n]
      /\ Splice(Nth(HeadCell(l), s, TailCell(l), i - 1), n, Nth(HeadCell(l), s, TailCell(l), i))
  <2>1. CASE EnqueueInsert
    <3>1. i \in 1..Len(s) /\ op.cursor = s[i]
      BY <1>4, <1>5, <2>1 DEF EnqueueInsert
    <3>2. pri[n] > pri[s[i]] /\ Splice(prev[s[i]], n, s[i])
      BY <1>2, <2>1, <3>1 DEF EnqueueInsert, Overtakes
    <3>3. Nth(HeadCell(l), s, TailCell(l), i) = s[i]
      BY <1>4, <3>1 DEF Nth
    <3>4. pri[s[i]] \in Int
      BY <1>4, <3>1, ListAssumption
    <3> QED BY <1>4, <1>6, <3>1, <3>2, <3>3, <3>4
  <2>2. CASE EnqueueAppend
    <3>1. i = Len(s) + 1
      BY <1>4, <1>5, <1>6, <2>2 DEF EnqueueAppend
    <3>2. Splice(prev[TailCell(l)], n, TailCell(l))
      BY <1>2, <2>2 DEF EnqueueAppend
    <3>3. Nth(HeadCell(l), s, TailCell(l), i) = TailCell(l) /\ i - 1 = Len(s) /\ ~(i <= Len(s))
      BY <1>4, <3>1 DEF Nth
    <3> QED BY <1>4, <3>2, <3>3
  <2> QED BY <2>1, <2>2
<1>9. /\ Chains' /\ Forward(l)' = InsertAt(s, i, n)
      /\ \A m \in List : m # l => Forward(m)' = Forward(m)
  BY <1>3, <1>7, <1>8, PutStep
<1>10. Abstract!Put(l, n, i)
  BY <1>3, <1>7, <1>9, AbstractPut
<1>11. Abstract!Place(s, pri[n]) = i
  BY <1>4, <1>5, <1>6, <1>8, PlaceIs
<1>12. Abstract!Enqueue(l, n)
  BY <1>3, <1>10, <1>11 DEF Abstract!Enqueue
<1>13. WalkPassed'
  BY <1>7, CellFacts DEF WalkPassed, Idle
<1> QED BY <1>9, <1>12, <1>13 DEF StepKeeps, Abstract!Next

(* In Init every list is the empty sequence.                                *)
LEMMA InitChains == Init => Chains /\ WalkPassed /\ Abstract!Init
<1> SUFFICES ASSUME Init PROVE Chains /\ WalkPassed /\ Abstract!Init
  OBVIOUS
<1>1. ASSUME NEW l \in List PROVE ListIs(next, where, l, <<>>)
  <2>1. next[HeadCell(l)] = TailCell(l)
    BY CellFacts DEF Init
  <2>2. /\ <<>> \in Seq(Node) /\ Len(<<>>) = 0
        /\ 1..0 = {} /\ \A i \in 0..0 : i = 0
    OBVIOUS
  <2>3. \A i \in 0..0 : next[Nth(HeadCell(l), <<>>, TailCell(l), i)]
                        = Nth(HeadCell(l), <<>>, TailCell(l), i + 1)
    BY <2>1 DEF Nth
  <2>4. \A n \in Node : where[n] # l
    BY CellFacts DEF Init
  <2> QED BY <2>2, <2>3, <2>4 DEF ListIs, ChainOf, Distinct
<1>2. \A l \in List : Forward(l) = <<>>
  BY <1>1, ForwardNow
<1>3. Chains
  BY <1>1, <1>2 DEF Chains
<1>4. WalkPassed
  BY CellFacts DEF Init, Idle, WalkPassed
<1>5. Abstract!Init
  BY <1>2 DEF Init, Abstract!Init
<1> QED BY <1>3, <1>4, <1>5

ListInv == TypeOK /\ LinkInv /\ Chains /\ WalkPassed

LEMMA NextChains == ListInv /\ [Next]_vars => StepKeeps
<1> SUFFICES ASSUME ListInv, [Next]_vars PROVE StepKeeps
  OBVIOUS
<1>0. TypeOK /\ LinkInv /\ Chains /\ WalkPassed
  BY DEF ListInv
<1>1. CASE \E l \in List, n \in Node : AddHead(l, n) \/ AddTail(l, n)
  BY <1>0, <1>1, AddSteps
<1>2. CASE EnqueueNext \/ \E l \in List, n \in Node : EnqueueBegin(l, n)
  BY <1>0, <1>2, EnqueueWalkStep
<1>3. CASE \E l \in List : RemoveHead(l)
  BY <1>0, <1>3, RemoveHeadStep
<1>4. CASE \E l \in List : RemoveTail(l)
  BY <1>0, <1>4, RemoveTailStep
<1>5. CASE \E n \in Node : RemoveNode(n)
  BY <1>0, <1>5, RemoveNodeStep
<1>6. CASE EnqueueInsert \/ EnqueueAppend
  BY <1>0, <1>6, EnqueueLinkStep
<1>7. CASE UNCHANGED vars
  <2>1. UNCHANGED <<next, where, ret>> /\ op' = op
    BY <1>7 DEF vars
  <2>2. Chains' /\ UNCHANGED <<[m \in List |-> Forward(m)], ret>>
    BY <1>0, <2>1, NoListStep
  <2>3. \A m \in List : Forward(m)' = Forward(m)
    BY <1>0, <2>1, SameStep
  <2>4. WalkPassed'
    BY <1>0, <2>1, <2>3, WalkKept
  <2> QED BY <2>2, <2>4 DEF StepKeeps
<1> QED BY <1>1, <1>2, <1>3, <1>4, <1>5, <1>6, <1>7 DEF Next, EnqueueStep

(* What the walks of the kernel find in a list whose chain is known.        *)
LEMMA WalksOfChains == ListInv => WalksAgree
<1> SUFFICES ASSUME ListInv, NEW l \in List
             PROVE  /\ Backward(l) = Reverse(Forward(l))
                    /\ Visited(l) = Forward(l)
                    /\ ToSet(Forward(l)) = {n \in Node : where[n] = l}
                    /\ get_tail(l) = (IF Forward(l) = <<>> THEN NULL
                                      ELSE Forward(l)[Len(Forward(l))])
  BY DEF WalksAgree
<1>0. TypeOK /\ LinkInv /\ Chains
  BY DEF ListInv
<1>1. PICK s : s = Forward(l)
  OBVIOUS
<1> DEFINE At(i) == Nth(HeadCell(l), s, TailCell(l), i)
<1>2. /\ ListIs(next, where, l, s) /\ ListShape(next, where, l, s)
      /\ ChainOf(next, HeadCell(l), s, TailCell(l)) /\ next[TailCell(l)] = NULL
      /\ prev[TailCell(l)] = At(Len(s))
  BY <1>0, <1>1, ListNow
<1>3. /\ s \in Seq(Node) /\ Distinct(s) /\ Len(s) \in Nat /\ DOMAIN s = 1..Len(s)
      /\ \A i \in 1..Len(s) : s[i] \in Node /\ At(i) = s[i]
      /\ At(0) = HeadCell(l) /\ At(Len(s) + 1) = TailCell(l)
  BY <1>2, LenProperties DEF ListShape
<1>4. \A i \in 0..Len(s) : prev[At(i + 1)] = At(i)
  BY <1>0, <1>2, LinksBack DEF LinkInv, Links
<1> HIDE DEF At
<1>5. Visited(l) = s
  BY <1>2, VisitedOfChain
<1>6. ToSet(s) = {n \in Node : where[n] = l}
  BY <1>2, <1>3 DEF ListIs, ToSet
<1>7. get_tail(l) = IF s = <<>> THEN NULL ELSE s[Len(s)]
  <2>1. get_head(l) = IF Len(s) > 0 THEN s[1] ELSE NULL
    BY <1>2, ReadList
  <2>2. (s = <<>>) <=> ~(Len(s) > 0)
    BY <1>3, EmptySeq
  <2>3. Len(s) > 0 => prev[TailCell(l)] = s[Len(s)]
    BY <1>2, <1>3
  <2>4. Len(s) > 0 => s[1] \in Node /\ NULL \notin Node
    BY <1>3, CellFacts
  <2>5. CASE Len(s) > 0
    <3>1. next[next[HeadCell(l)]] # NULL
      BY <2>1, <2>4, <2>5 DEF get_head
    <3> QED BY <2>2, <2>3, <2>5, <3>1 DEF get_tail
  <2>6. CASE ~(Len(s) > 0)
    <3>1. next[HeadCell(l)] = TailCell(l)
      <4>1. next[HeadCell(l)] = At(1)
        BY <1>0, <1>1, ListNow DEF At
      <4>2. Len(s) + 1 = 1
        BY <1>3, <2>6
      <4> QED BY <1>3, <4>1, <4>2
    <3> QED BY <1>2, <2>2, <2>6, <3>1 DEF get_tail
  <2> QED BY <2>5, <2>6
<1>8. Backward(l) = Reverse(s)
  <2> DEFINE r == Reverse(s)
  <2>1. /\ r \in Seq(Node) /\ Len(r) = Len(s)
        /\ \A i \in 1..Len(s) : r[i] = s[Len(s) - i + 1]
    <3>1. r = [i \in 1..Len(s) |-> s[(Len(s) - i) + 1]]
      BY DEF Reverse
    <3>2. \A i \in 1..Len(s) : (Len(s) - i) + 1 \in 1..Len(s)
      BY <1>3
    <3>3. r \in [1..Len(s) -> Node]
      BY <1>3, <3>1, <3>2
    <3> HIDE DEF r
    <3>4. r \in Seq(Node)
      BY <1>3, <3>3, SeqDef
    <3>5. Len(r) = Len(s)
      BY <1>3, <3>3, <3>4, LenProperties
    <3> QED BY <3>1, <3>4, <3>5
  <2> HIDE DEF r
  <2>2. Distinct(r)
    <3>1. \A i \in 1..Len(s) : Len(s) - i + 1 \in 1..Len(s)
      BY <1>3
    <3> QED BY <1>3, <2>1, <3>1 DEF Distinct
  <2>3. \A i \in 0..(Len(s) + 1) : Nth(TailCell(l), r, HeadCell(l), i) = At(Len(s) + 1 - i)
    <3>1. ASSUME NEW i \in 0..(Len(s) + 1)
          PROVE  Nth(TailCell(l), r, HeadCell(l), i) = At(Len(s) + 1 - i)
      <4>1. CASE i = 0
        BY <1>3, <4>1 DEF Nth
      <4>2. CASE i \in 1..Len(s)
        <5>1. Len(s) + 1 - i = Len(s) - i + 1 /\ Len(s) - i + 1 \in 1..Len(s)
          BY <1>3, <4>2
        <5>2. Nth(TailCell(l), r, HeadCell(l), i) = r[i]
          BY <1>3, <2>1, <4>2 DEF Nth
        <5> QED BY <1>3, <2>1, <4>2, <5>1, <5>2
      <4>3. CASE i = Len(s) + 1
        <5>1. Nth(TailCell(l), r, HeadCell(l), i) = HeadCell(l) /\ Len(s) + 1 - i = 0
          BY <1>3, <2>1, <4>3 DEF Nth
        <5> QED BY <1>3, <5>1
      <4> QED BY <1>3, <4>1, <4>2, <4>3
    <3> QED BY <3>1
  <2>4. ASSUME NEW i \in 0..Len(r)
        PROVE  prev[Nth(TailCell(l), r, HeadCell(l), i)] = Nth(TailCell(l), r, HeadCell(l), i + 1)
    <3>1. /\ i \in 0..(Len(s) + 1) /\ i + 1 \in 0..(Len(s) + 1)
          /\ Len(s) - i \in 0..Len(s) /\ Len(s) + 1 - i = (Len(s) - i) + 1
          /\ Len(s) + 1 - (i + 1) = Len(s) - i
      <4>1. Len(s) \in Nat /\ i \in 0..Len(s)
        BY <1>3, <2>1
      <4> QED BY ONLY <4>1
    <3>2. prev[At((Len(s) - i) + 1)] = At(Len(s) - i)
      BY <1>4, <3>1
    <3>3. /\ Nth(TailCell(l), r, HeadCell(l), i) = At((Len(s) - i) + 1)
          /\ Nth(TailCell(l), r, HeadCell(l), i + 1) = At(Len(s) - i)
      BY <2>3, <3>1
    <3> QED BY <3>2, <3>3
  <2>5. ChainOf(prev, TailCell(l), r, HeadCell(l))
    BY <2>1, <2>2, <2>4 DEF ChainOf
  <2>6. TailCell(l) \in Cell /\ HeadCell(l) \notin Node
    BY CellFacts
  <2> QED BY <2>5, <2>6, WalkOfChain DEF Backward, r
<1> QED BY <1>1, <1>5, <1>6, <1>7, <1>8

(* Walking a list forwards, backwards and with get_head() and get_next()    *)
(* finds the same nodes, each once, at every moment an interrupt can look.  *)
THEOREM ExecListWalksAgree == Spec => []WalksAgree
<1>1. Init => ListInv
  BY InitLinks, InitChains DEF ListInv
<1>2. ListInv /\ [Next]_vars => ListInv'
  BY NextLinks, NextChains DEF ListInv, StepKeeps
<1>3. Spec => []ListInv
  BY <1>1, <1>2, PTL DEF Spec
<1> QED BY <1>3, WalksOfChains, PTL

(* Every routine of list.c has the effect PriorityLists gives it, enqueue() *)
(* in steps included.                                                       *)
THEOREM ExecListImplementsPriorityLists == Spec => ImplementsPriorityLists
<1>1. Init => ListInv /\ Abstract!Init
  BY InitLinks, InitChains DEF ListInv
<1>2. ListInv /\ [Next]_vars
        => ListInv' /\ [Abstract!Next]_<<[l \in List |-> Forward(l)], ret>>
  BY NextLinks, NextChains DEF ListInv, StepKeeps
<1>3. Spec => Abstract!Init /\ [][Abstract!Next]_<<[l \in List |-> Forward(l)], ret>>
  BY <1>1, <1>2, PTL DEF Spec
<1> QED BY <1>3, PTL DEF ImplementsPriorityLists, Abstract!Spec
=============================================================================
