------------------------------ MODULE MC_Heap ------------------------------
(***************************************************************************)
(* Small machines for TLC: a page of four units, a page table for two      *)
(* pages, the memory map in half pages.                                    *)
(***************************************************************************)
EXTENDS HeapProperties

\* Usable memory in two pieces that meet inside a page, a hole, the rest; and
\* one piece.
Usable(b, l) == [base |-> b, length |-> l, usable |-> TRUE]
Reserved(b, l) == [base |-> b, length |-> l, usable |-> FALSE]
Maps == {<<Usable(0, 3), Usable(3, 5), Reserved(8, 2), Usable(10, 10)>>,
         <<Usable(0, 12)>>}
=============================================================================
