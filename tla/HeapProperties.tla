--------------------------- MODULE HeapProperties ---------------------------
(***************************************************************************)
(* The correctness of the heap and of the pages under it.  The invariants  *)
(* hold up to the first step that destroys the heap's structure (damaged), *)
(* and SoundHeap says when there is no such step.                         *)
(***************************************************************************)
EXTENDS Heap

Chunk == k_heap_start \cup live
Cells(a) == a..(End(size, a) - 1)

\* The fields have their types, and exactly the chunks have a size.
TypeOK ==
    /\ k_heap_start \subseteq Unit /\ live \subseteq Unit /\ k_heap_end \in 0..(LowPages * PageUnits)
    /\ DOMAIN size = Chunk /\ \A a \in Chunk : size[a] \in Nat
    /\ call \in [Context -> [at: Step, alloc_sz: Nat, chunk: Unit \cup {NIL}, heap_end_addr: Nat]]
    /\ DOMAIN stale \subseteq Unit /\ \A a \in DOMAIN stale : stale[a] \in Unit \cup {NIL}
    /\ IsMemory(memory)
    /\ damaged \in BOOLEAN /\ exposed \in BOOLEAN /\ panicked \in BOOLEAN

\* The chunks, free and live, cover the heap from HEAP_START to k_heap_end with
\* no gap and no overlap: splitting, merging, growing and shrinking all do their
\* arithmetic on headers, and one unit of error corrupts a neighbour.
Tiling ==
    ~damaged =>
       /\ k_heap_start \cap live = {}
       /\ UNION {Cells(a) : a \in Chunk} = 0..(k_heap_end - 1)
       /\ \A a, b \in Chunk : a # b => Cells(a) \cap Cells(b) = {}

\* Exactly the pages of the heap are mapped: a page given back while a chunk
\* lies in it, or mapped anywhere else, is a page fault to come.
MappedExactly ==
    ~damaged =>
       /\ k_heap_end % PageUnits = 0
       /\ DOMAIN memory.pages = 0..(k_heap_end \div PageUnits - 1)

\* The pages that are free, mapped or page tables.
Accounted(m) == m.free \cup Range(m.pages) \cup Range(m.tables)

\* A physical page has one owner (the bitmap, one mapping or one page table), page
\* 0 and the kernel's have none of these, and LowRamFreeCount counts the bits that
\* are set: pa_alloc() searches past the bitmap when the count is too high, and
\* panics too early when it is too low.
PagesOwnedOnce ==
    ~damaged =>
       /\ memory.count = Cardinality(memory.free)
       /\ IsInjective(memory.pages) /\ IsInjective(memory.tables)
       /\ Range(memory.pages) \cap Range(memory.tables) = {}
       /\ (Range(memory.pages) \cup Range(memory.tables)) \cap memory.free = {}
       /\ Accounted(memory) \cap Locked = {}

\* What is mapped and what is free agree with the heap and with one another.
PagesAgree == MappedExactly /\ PagesOwnedOnce

\* No page leaks: a page taken from the bitmap is mapped or a page table, and
\* one that is neither any more is back in the bitmap.
NoPageLeaks == [][damaged' \/ Accounted(memory') = Accounted(memory)]_vars

\* Free chunks are never adjacent, so a free list entry is as large as the free
\* space around it: growth and the split of an interrupted search must keep what
\* merge_heap() established at the last kfree().
Coalesced ==
    ~damaged => \A a, b \in k_heap_start : End(size, a) # b

\* Chunks cover the heap, the free ones as far as they can be merged.
ChunksTile == Tiling /\ Coalesced

\* kmalloc() and kfree() as their callers see them.
Store == INSTANCE BlockStore WITH
    Client <- Context,
    Request <- TaskSizes \cup IrqSizes,
    blocks <- {[at |-> a + 1, length |-> size[a]] : a \in live},
    wanted <- [c \in Context |-> call[c].alloc_sz],
    spoiled <- damaged

\* The heap keeps the promise of BlockStore until it is damaged: whatever an
\* interrupt allocates in the middle of a task's search, no two holders share a
\* cell and a block is never shorter than the request.
ImplementsBlockStore == Store!Spec

-----------------------------------------------------------------------------
\* The structure is destroyed only after an interrupt has allocated in the middle
\* of a task's search, or a request of one unit has taken a chunk of two at the
\* heap end, which is too small to split (kmalloc.c:135): until then the last free
\* chunk ends at k_heap_end, as growth and shrinking take for granted (kmalloc.c:155).
LastFreeEndsHeap ==
    k_heap_start # {} => End(size, Max(k_heap_start)) = k_heap_end
SoundHeap == ~exposed => ~damaged /\ LastFreeEndsHeap

\* Every call of kmalloc() returns, or stops the machine with "out of memory", or
\* has destroyed the heap: the recursion after each page ends as the last free
\* chunk grows, and interrupts run out of memory before they hold it up for ever.
CallsEnd ==
    \A c \in Context : (call[c].at # "idle") ~> (call[c].at = "idle" \/ panicked \/ damaged)

-----------------------------------------------------------------------------
(* What comments of the code say, and the code does not do.                *)

\* "map it in front of the current heap end" (kmalloc.c:185): when the heap grows,
\* the page at its end gets mapped.
MapsAtHeapEnd ==
    [][k_heap_end' > k_heap_end => k_heap_end \div PageUnits \in DOMAIN memory'.pages]_vars
=============================================================================
