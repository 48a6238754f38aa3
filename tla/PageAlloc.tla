----------------------------- MODULE PageAlloc -----------------------------
(***************************************************************************)
(* Physical pages and the mapping of virtual ones (src/mm.c): the bitmap   *)
(* of free low pages with its count, the page tables, and what mm_init()   *)
(* makes of the memory map the boot loader leaves.                         *)
(*                                                                         *)
(* The state is one record, which the operators below take and return:     *)
(*   free    the pages whose bit is set in LowRamBitF                      *)
(*   count   LowRamFreeCount                                               *)
(*   tables  the page tables present in the directory, each with its page  *)
(*   pages   the virtual pages present in the tables, each with its page   *)
(* Virtual pages are numbered from HEAP_START, where a page table begins.  *)
(***************************************************************************)
EXTENDS Integers, FiniteSetsExt, SequencesExt

CONSTANTS
    LowPages,     \* the pages the bitmap describes are 0..LowPages-1
    KernelPages,  \* the pages from 1 MiB to the end of the kernel
    PageBytes,    \* PAGE_SIZE, in the unit of the memory map
    TableSpan     \* pages one page table maps

LowPage == 0..(LowPages - 1)

ASSUME PageAllocAssumption ==
    /\ LowPages \in Nat \ {0} /\ PageBytes \in Nat \ {0} /\ TableSpan \in Nat \ {0}
    /\ KernelPages \subseteq LowPage

\* Two functions in one, and f with a value for x.
Over(f, g) == [x \in DOMAIN f \cup DOMAIN g |-> IF x \in DOMAIN f THEN f[x] ELSE g[x]]
Put(f, x, y) == Over([z \in {x} |-> y], f)

PageMap(f) == DOMAIN f \subseteq LowPage /\ Range(f) \subseteq LowPage

IsMemory(m) ==
    /\ DOMAIN m = {"free", "count", "tables", "pages"}
    /\ m.free \subseteq LowPage /\ m.count \in Int
    /\ PageMap(m.tables) /\ PageMap(m.pages)

-----------------------------------------------------------------------------
\* The bitmap, called for each page of P.  Both routines count whatever the bit
\* was before.
set_page_bit(m, P) == [m EXCEPT !.free = @ \ P, !.count = @ - Cardinality(P)]
clr_page_bit(m, P) == [m EXCEPT !.free = @ \cup P, !.count = @ + Cardinality(P)]

pa_free_Fault(m, P) == clr_page_bit(m, P)
pa_free(m, P) == clr_page_bit(m, P \ m.free)

\* pa_alloc() panics on a count of 0; otherwise the lowest set bit is taken.
OutOfMemory(m) == m.count <= 0
pa_alloc(m) == LET p == Min(m.free) IN [page |-> p, mem |-> set_page_bit(m, {p})]

-----------------------------------------------------------------------------
\* get_physaddr() of a mapped page, mm_map(), and mm_unmap() of each page of V.
\* A page table that is not present gets a page of its own, and keeps it.  Page 0, for which
\* mm_map() would do nothing, is never p: mm_init() locks it and nobody gives it back.
get_physaddr(m, v) == m.pages[v]

NeedsTable(m, v) == v \div TableSpan \notin DOMAIN m.tables

WithTable(m, v) ==
    LET a == pa_alloc(m) IN
    IF NeedsTable(m, v)
    THEN [a.mem EXCEPT !.tables = Put(@, v \div TableSpan, a.page)]
    ELSE m

mm_map(m, p, v) ==
    LET w == WithTable(m, v) IN [w EXCEPT !.pages = Put(@, v, p)]

mm_unmap_Fault(m, V) == m
mm_unmap(m, V) == [m EXCEPT !.pages = Restrict(@, DOMAIN @ \ V)]

-----------------------------------------------------------------------------
\* mm_init(): an entry of the memory map is a piece of memory that is usable or
\* not; the addresses of its pages are base, base + PAGE_SIZE, ... up to its end.  The code
\* reads the low halves of the two 64-bit fields, and these are base and length here: memory
\* above 4 GiB is in the map at the address it is taken for.
Entry == [base: Nat, length: Nat, usable: BOOLEAN]

PagesOf(e) ==
    {(e.base + k * PageBytes) \div PageBytes : k \in {i \in 0..e.length : i * PageBytes < e.length}}

FreeEntry(e, m) == IF e.usable THEN pa_free(m, PagesOf(e) \cap LowPage) ELSE m

NoPages == [free |-> {}, count |-> 0, tables |-> <<>>, pages |-> <<>>]

\* Page 0 (the BIOS data area) and the kernel are locked after the map is read.
Locked == {0} \cup KernelPages

mm_init(map) ==
    LET read[i \in 0..Len(map)] == IF i = 0 THEN NoPages ELSE FreeEntry(map[i], read[i - 1])
    IN  set_page_bit(read[Len(map)], Locked)

\* The boot loader has put the kernel into usable memory.
HoldsKernel(map) ==
    \A p \in Locked : \E i \in DOMAIN map : map[i].usable /\ p \in PagesOf(map[i])
=============================================================================
