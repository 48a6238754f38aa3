-------------------------------- MODULE Heap --------------------------------
(***************************************************************************)
(* The kernel heap (src/kmalloc.c) on the pages of PageAlloc: a free list  *)
(* ordered by address, split and merged, and a heap end that moves up and  *)
(* down by pages.                                                          *)
(*                                                                         *)
(* Addresses and sizes are in units of 16 bytes, the alignment of          *)
(* _kmalloc() and sizeof(chunk_t): chunk a has its header at unit a and    *)
(* its memory at a + 1 .. a + size[a].  Unit 0 is HEAP_START.              *)
(*                                                                         *)
(* A system call runs with interrupts enabled and is never switched away   *)
(* from, so one task at a time is in the heap; the keyboard interrupt may  *)
(* come wherever the code has not cleared IF, and its queue_send()         *)
(* allocates to completion before the task goes on.  Interrupts never      *)
(* free.  An action is a stretch no interrupt can split.                   *)
(***************************************************************************)
EXTENDS PageAlloc

CONSTANTS
    NIL,          \* a NULL chunk pointer
    PageUnits,    \* PAGE_SIZE in units
    TaskSizes,    \* the sizes tasks ask for
    IrqSizes,     \* the sizes the keyboard interrupt asks for
    MemoryMaps    \* the memory maps the boot loader may leave

ASSUME HeapAssumption ==
    /\ PageUnits \in Nat \ {0, 1}
    /\ TaskSizes \cup IrqSizes \subseteq Nat \ {0}
    /\ NIL \notin Nat
    /\ \A map \in MemoryMaps : map \in Seq(Entry) /\ HoldsKernel(map)

Unit == 0..(LowPages * PageUnits - 1)
Context == {"task", "irq"}
Step == {"idle", "head", "end", "search", "take"}

VARIABLES
    k_heap_start,  \* the chunks on the free list, which is ordered by address
    k_heap_end,
    size,          \* the size fields of the chunks
    live,          \* the chunks handed out
    stale,         \* where chunks taken off the list since the task's call began still point
    call,          \* call[c]: the _kmalloc() context c is in, with its local variables
    memory,        \* the state of mm.c
    damaged,       \* ghost: the heap's structure has been destroyed
    exposed,       \* ghost: an interrupt changed the heap inside a task's search, or a
                   \* chunk of two units at the heap end served a request of one
    panicked

vars == <<k_heap_start, k_heap_end, size, live, stale, call, memory, damaged, exposed, panicked>>

NoCall == [at |-> "idle", alloc_sz |-> 0, chunk |-> NIL, heap_end_addr |-> 0]

Init ==
    /\ k_heap_start = {} /\ k_heap_end = 0
    /\ size = <<>> /\ live = {} /\ stale = <<>>
    /\ call = [c \in Context |-> NoCall]
    /\ memory \in {mm_init(map) : map \in MemoryMaps}
    /\ damaged = FALSE /\ exposed = FALSE /\ panicked = FALSE

-----------------------------------------------------------------------------
\* The free list.
First(S) == IF S = {} THEN NIL ELSE Min(S)
After(S, a) == First({b \in S : b > a})
End(sz, a) == a + 1 + sz[a]

\* get_next(): a chunk that was taken off the list still points to its successor.
get_next_Fault(a) == a
get_next(a) == IF a \in k_heap_start THEN After(k_heap_start, a) ELSE stale[a]

-----------------------------------------------------------------------------
\* The machine goes on, and in this context: the interrupt before the task.
Running(c) ==
    /\ ~damaged /\ ~panicked
    /\ c = "task" => call["irq"].at = "idle"

\* The interrupt is in the middle of a task's search.
Interrupts(c) == c = "irq" /\ call["task"].at \in {"end", "search", "take"}

Local(c, at, chunk, heap_end_addr) ==
    call' = [call EXCEPT ![c].at = at, ![c].chunk = chunk, ![c].heap_end_addr = heap_end_addr]

\* kmalloc(), up to the entry of _kmalloc().
Call(c) ==
    /\ Running(c) /\ call[c].at = "idle"
    /\ \E sz \in IF c = "task" THEN TaskSizes ELSE IrqSizes :
          call' = [call EXCEPT ![c] = [NoCall EXCEPT !.at = "head", !.alloc_sz = sz]]
    /\ UNCHANGED <<k_heap_start, k_heap_end, size, live, stale, memory, damaged, exposed, panicked>>

ReadHead(c) ==
    /\ Running(c) /\ call[c].at = "head"
    /\ Local(c, "end", First(k_heap_start), 0)
    /\ UNCHANGED <<k_heap_start, k_heap_end, size, live, stale, memory, damaged, exposed, panicked>>

ReadEnd(c) ==
    /\ Running(c) /\ call[c].at = "end"
    /\ Local(c, "search", call[c].chunk, k_heap_end)
    /\ UNCHANGED <<k_heap_start, k_heap_end, size, live, stale, memory, damaged, exposed, panicked>>

\* One turn of the search: a chunk must hold the request twice.
Fits_Fault(c, sz) == sz + 1 >= call[c].alloc_sz    \* counts the header
Fits(c, sz) == sz >= 2 * call[c].alloc_sz

Search(c) ==
    LET a == call[c].chunk IN
    /\ Running(c) /\ call[c].at = "search" /\ a # NIL
    /\ IF Fits(c, size[a])
       THEN Local(c, "take", a, call[c].heap_end_addr)
       ELSE Local(c, "search", get_next(a), call[c].heap_end_addr)
    /\ UNCHANGED <<k_heap_start, k_heap_end, size, live, stale, memory, damaged, exposed, panicked>>

-----------------------------------------------------------------------------
\* With interrupts off again the chunk is split if a header fits behind the
\* request, and taken off the list.
Splits_Fault(n, sz) == 2 * n < sz
Splits(n, sz) == n < sz - 1

Rest(a, n) == a + 1 + n
RestSize_Fault(sz, n) == sz - n
RestSize(sz, n) == sz - n - 1

\* What remove() leaves in the chunk; only the search of an interrupted task reads it.
Leave(a, next) ==
    IF call["task"].at \in {"end", "search"} THEN Put(stale, a, next) ELSE stale

Take(c) ==
    LET a == call[c].chunk
        n == call[c].alloc_sz
        rest == Rest(a, n)
    IN
    /\ Running(c) /\ call[c].at = "take"
    /\ a \in k_heap_start
    /\ \/ /\ Splits(n, size[a])
          /\ size' = Put([size EXCEPT ![a] = n], rest, RestSize(size[a], n))
          /\ k_heap_start' = (k_heap_start \ {a}) \cup {rest}
       \/ /\ ~Splits(n, size[a])
          /\ size' = size
          /\ k_heap_start' = k_heap_start \ {a}
    /\ live' = live \cup {a}
    /\ call' = [call EXCEPT ![c] = NoCall]
    /\ stale' = IF c = "task" THEN <<>> ELSE Leave(a, After(k_heap_start', a))
    /\ exposed' = (exposed \/ Interrupts(c) \/ (n = 1 /\ size[a] = 2 /\ End(size, a) = k_heap_end))
    /\ UNCHANGED <<k_heap_end, memory, damaged, panicked>>

\* The chunk was handed out between the size test and cli: the code splits or
\* hands out live memory and unlinks a chunk that is not linked.
TakeTaken(c) ==
    /\ Running(c) /\ call[c].at = "take"
    /\ call[c].chunk \notin k_heap_start
    /\ call' = [call EXCEPT ![c] = NoCall]
    /\ damaged' = TRUE
    /\ UNCHANGED <<k_heap_start, k_heap_end, size, live, stale, memory, exposed, panicked>>

-----------------------------------------------------------------------------
\* No chunk fits: map a page at the heap end read at entry, give it to the last
\* free chunk or make it one, and start again.
Exhausted(v) ==
    \/ OutOfMemory(memory)
    \/ NeedsTable(memory, v) /\ OutOfMemory(pa_alloc(memory).mem)

Grow(c) ==
    LET from == call[c].heap_end_addr
        v == from \div PageUnits
        page == pa_alloc(memory)
        last == Max(k_heap_start)
    IN
    /\ Running(c) /\ call[c].at = "search" /\ call[c].chunk = NIL
    /\ ~Exhausted(v)
    /\ memory' = mm_map(page.mem, page.page, v)
    /\ k_heap_end' = k_heap_end + PageUnits
    /\ \/ /\ k_heap_start # {}
          /\ size' = [size EXCEPT ![last] = @ + PageUnits]
          /\ damaged' = (from # k_heap_end \/ End(size, last) # from)
          /\ UNCHANGED k_heap_start
       \/ /\ k_heap_start = {}
          /\ size' = Put(size, from, k_heap_end' - from - 1)
          /\ k_heap_start' = {from}
          /\ damaged' = (from # k_heap_end)
    /\ call' = [call EXCEPT ![c] = [NoCall EXCEPT !.at = "head", !.alloc_sz = call[c].alloc_sz]]
    /\ stale' = IF c = "task" THEN <<>> ELSE stale
    /\ exposed' = (exposed \/ Interrupts(c))
    /\ UNCHANGED <<live, panicked>>

\* pa_alloc() finds no page.
GrowPanics(c) ==
    /\ Running(c) /\ call[c].at = "search" /\ call[c].chunk = NIL
    /\ Exhausted(call[c].heap_end_addr \div PageUnits)
    /\ panicked' = TRUE
    /\ UNCHANGED <<k_heap_start, k_heap_end, size, live, stale, call, memory, damaged, exposed>>

-----------------------------------------------------------------------------
\* merge_heap() from the head of the list S: every run of adjacent free chunks
\* becomes its first one, which ends where the run does.
Heads(S, sz) == {a \in S : \A b \in S : End(sz, b) # a}
RunEnd(S, sz, a) == Min({e \in {End(sz, b) : b \in S} : e > a /\ e \notin S})

merge_heap_Fault(S, sz) == [a \in S |-> sz[a]]
merge_heap(S, sz) == [a \in Heads(S, sz) |-> RunEnd(S, sz, a) - a - 1]

\* Pages a last chunk of this size gives back: it keeps at most one.
Surplus_Fault(sz) == (sz + PageUnits - 1) \div PageUnits    \* until nothing is left
Surplus(sz) == IF sz > PageUnits THEN (sz - 1) \div PageUnits ELSE 0

give_back_Fault(m, V) == mm_unmap(m, V)
give_back(m, V) == pa_free(mm_unmap(m, V), {get_physaddr(m, v) : v \in V})

\* _kfree(): one stretch with interrupts off.
Free(a) ==
    LET merged == merge_heap(k_heap_start \cup {a}, size)
        last == Max(DOMAIN merged)
        surplus == Surplus(merged[last])
        top == k_heap_end \div PageUnits
    IN
    /\ Running("task") /\ call["task"].at = "idle"
    /\ a \in live
    /\ live' = live \ {a}
    /\ k_heap_start' = DOMAIN merged
    /\ size' = Over([merged EXCEPT ![last] = @ - surplus * PageUnits], Restrict(size, live \ {a}))
    /\ k_heap_end' = k_heap_end - surplus * PageUnits
    /\ memory' = give_back(memory, (top - surplus)..(top - 1))
    /\ damaged' = (surplus > 0 /\ End(merged, last) # k_heap_end)
    /\ UNCHANGED <<stale, call, exposed, panicked>>

-----------------------------------------------------------------------------
Kmalloc(c) ==
    \/ ReadHead(c)
    \/ ReadEnd(c)
    \/ Search(c)
    \/ Take(c)
    \/ TakeTaken(c)
    \/ Grow(c)
    \/ GrowPanics(c)

Next ==
    \/ \E c \in Context : Call(c) \/ Kmalloc(c)
    \/ \E a \in live : Free(a)

Spec == Init /\ [][Next]_vars

\* The processor executes a call it is in.
FairSpec == Spec /\ \A c \in Context : WF_vars(Kmalloc(c))
=============================================================================
