----------------------------- MODULE HeapProofs -----------------------------
(***************************************************************************)
(* Proofs about the kernel heap, for any number of pages, any page and     *)
(* request sizes and any memory map that has the kernel in usable memory.  *)
(*                                                                         *)
(* Tiling and the pages are not inductive by themselves: what a call does  *)
(* at the end of its search rests on what it has read before, while an     *)
(* interrupt may have allocated.  Calls says what still holds of the local *)
(* variables then; Walking, that a search never leaves the chunks, because *)
(* a chunk taken off the list points to where the list went on; and        *)
(* Undisturbed calls find everything as they read it.                      *)
(***************************************************************************)
EXTENDS HeapProperties, FiniteSetTheorems, FunctionTheorems, WellFoundedInduction, TLAPS

-----------------------------------------------------------------------------
(***************************************************************************)
(* What the arithmetic of kmalloc.c does to a heap of any size: chunks     *)
(* that cover it without gap or overlap (Tiles) still do after a split, a  *)
(* merge, growth and shrinking.                                            *)
(***************************************************************************)

(* A set of natural numbers has a least element.                           *)
LEMMA MinFacts ==
    ASSUME NEW S \in SUBSET Nat, S # {}
    PROVE  Min(S) \in S /\ \A x \in S : Min(S) <= x
<1> DEFINE R == OpToRel(<, Nat)
<1>1. PICK k \in S : \A x \in S : <<x, k>> \notin R
  <2>1. IsWellFoundedOn(R, Nat)
    BY NatLessThanWellFounded
  <2> HIDE DEF R
  <2> QED BY <2>1, WFMin
<1>2. S \subseteq Nat /\ k \in S
  OBVIOUS
<1>3. \A x \in S : ~(x < k)
  BY <1>1, <1>2 DEF OpToRel
<1>4. \A x \in S : k <= x
  BY <1>2, <1>3
<1> QED BY <1>4 DEF Min

(* A bounded one has a greatest.                                           *)
LEMMA MaxFacts ==
    ASSUME NEW S \in SUBSET Nat, S # {}, NEW n \in Nat, \A x \in S : x <= n
    PROVE  Max(S) \in S /\ \A x \in S : Max(S) >= x
<1> DEFINE D == {n - x : x \in S}
<1>1. D \in SUBSET Nat /\ D # {}
  <2>1. ASSUME NEW x \in S PROVE n - x \in Nat
    BY n >= x, x \in Nat
  <2> QED BY <2>1
<1>2. Min(D) \in D /\ \A d \in D : Min(D) <= d
  BY <1>1, MinFacts
<1>3. PICK k \in S : Min(D) = n - k
  BY <1>2
<1>4. ASSUME NEW x \in S PROVE k >= x
  <2>1. n - x \in D /\ x \in Nat /\ k \in Nat
    OBVIOUS
  <2>2. n - k <= n - x
    BY <1>2, <1>3, <2>1
  <2> QED BY <2>1, <2>2
<1> QED BY <1>4 DEF Max

(* Division by a page or a page table.                                     *)
LEMMA DivFacts ==
    ASSUME NEW d \in Nat \ {0}, NEW a \in Nat
    PROVE  /\ a \div d \in Nat /\ a % d \in 0..(d - 1)
           /\ a = d * (a \div d) + (a % d) /\ a \div d <= a
OBVIOUS

LEMMA DivExact ==
    ASSUME NEW d \in Nat \ {0}, NEW q \in Nat
    PROVE  (q * d) \div d = q /\ (q * d) % d = 0
OBVIOUS

-----------------------------------------------------------------------------
\* The chunks of C, with their sizes, lie side by side from 0 to e.
Tiles(C, sz, e) ==
    /\ C \subseteq Nat /\ e \in Nat
    /\ \A a \in C : sz[a] \in Nat /\ End(sz, a) <= e
    /\ \A a, b \in C : a # b => End(sz, a) <= b \/ End(sz, b) <= a
    /\ \A x \in 0..(e - 1) : \E a \in C : a <= x /\ x < End(sz, a)

(* Tiling says of the sets of cells what Tiles says of their bounds.        *)
LEMMA TilingIsTiles ==
    ASSUME NEW C \in SUBSET Nat, NEW sz, \A a \in C : sz[a] \in Nat, NEW e \in Nat
    PROVE  Tiles(C, sz, e) <=>
              /\ UNION {a..(End(sz, a) - 1) : a \in C} = 0..(e - 1)
              /\ \A a, b \in C : a # b => (a..(End(sz, a) - 1)) \cap (b..(End(sz, b) - 1)) = {}
<1> DEFINE Span(a) == a..(End(sz, a) - 1)
<1>1. \A a \in C : End(sz, a) \in Nat /\ End(sz, a) > a /\ a \in Nat
  BY DEF End
<1>2. \A a \in C : \A x : x \in Span(a) <=> x \in Nat /\ a <= x /\ x < End(sz, a)
  BY <1>1
<1>3. ASSUME Tiles(C, sz, e)
      PROVE  /\ UNION {Span(a) : a \in C} = 0..(e - 1)
             /\ \A a, b \in C : a # b => Span(a) \cap Span(b) = {}
  <2>1. ASSUME NEW a \in C, NEW b \in C, a # b PROVE Span(a) \cap Span(b) = {}
    <3>1. End(sz, a) <= b \/ End(sz, b) <= a
      BY <1>3, <2>1 DEF Tiles
    <3> HIDE DEF Span
    <3>2. \A x : ~(x \in Span(a) /\ x \in Span(b))
      BY <1>1, <1>2, <3>1
    <3> QED BY <3>2
  <2>2. ASSUME NEW x \in UNION {Span(a) : a \in C} PROVE x \in 0..(e - 1)
    <3>1. PICK a \in C : x \in Span(a)
      OBVIOUS
    <3> QED BY <1>1, <1>2, <1>3, <3>1 DEF Tiles
  <2>3. ASSUME NEW x \in 0..(e - 1) PROVE x \in UNION {Span(a) : a \in C}
    <3>1. PICK a \in C : a <= x /\ x < End(sz, a)
      BY <1>3 DEF Tiles
    <3>2. x \in Span(a)
      BY <1>2, <3>1
    <3> QED BY <3>2
  <2> QED BY <2>1, <2>2, <2>3
<1>4. ASSUME UNION {Span(a) : a \in C} = 0..(e - 1),
             \A a, b \in C : a # b => Span(a) \cap Span(b) = {}
      PROVE  Tiles(C, sz, e)
  <2>1. ASSUME NEW a \in C PROVE End(sz, a) <= e
    <3>1. End(sz, a) - 1 \in Span(a)
      BY <1>1, <1>2
    <3>2. End(sz, a) - 1 \in 0..(e - 1)
      BY <1>4, <3>1
    <3> QED BY <1>1, <3>2
  <2>2. ASSUME NEW a \in C, NEW b \in C, a # b PROVE End(sz, a) <= b \/ End(sz, b) <= a
    <3>1. CASE a < b
      <4>1. b \in Span(b) /\ b \notin Span(a)
        BY <1>1, <1>2, <1>4, <2>2
      <4> QED BY <1>1, <1>2, <3>1, <4>1
    <3>2. CASE b < a
      <4>1. a \in Span(a) /\ a \notin Span(b)
        BY <1>1, <1>2, <1>4, <2>2
      <4> QED BY <1>1, <1>2, <3>2, <4>1
    <3> QED BY <1>1, <2>2, <3>1, <3>2
  <2>3. ASSUME NEW x \in 0..(e - 1) PROVE \E a \in C : a <= x /\ x < End(sz, a)
    <3>1. PICK a \in C : x \in Span(a)
      BY <1>4
    <3> QED BY <1>2, <3>1
  <2> QED BY <2>1, <2>2, <2>3 DEF Tiles
<1> QED BY <1>3, <1>4

(* The bounds of the chunks of a heap.                                     *)
LEMMA TilesFacts ==
    ASSUME NEW C, NEW sz, NEW e, Tiles(C, sz, e), NEW a \in C
    PROVE  /\ a \in Nat /\ sz[a] \in Nat /\ End(sz, a) = a + 1 + sz[a]
           /\ a < End(sz, a) /\ End(sz, a) <= e /\ e \in Nat
BY DEF Tiles, End

(* Only sizes of the chunks matter.                                        *)
LEMMA TilesSame ==
    ASSUME NEW C, NEW sz, NEW e, Tiles(C, sz, e), NEW w, \A a \in C : w[a] = sz[a]
    PROVE  Tiles(C, w, e) /\ \A a \in C : End(w, a) = End(sz, a)
BY DEF Tiles, End

(* A split puts a new chunk behind the request (kmalloc.c:142-150).         *)
LEMMA TilesSplit ==
    ASSUME NEW C, NEW sz, NEW e, Tiles(C, sz, e), NEW a \in C,
           NEW n \in Nat, n < sz[a] - 1, NEW w,
           w[a] = n, w[Rest(a, n)] = sz[a] - n - 1,
           \A b \in C \ {a} : w[b] = sz[b]
    PROVE  /\ Rest(a, n) \notin C /\ Rest(a, n) < e /\ a < Rest(a, n) /\ Rest(a, n) \in Nat
           /\ Rest(a, n) < End(sz, a)
           /\ Tiles(C \cup {Rest(a, n)}, w, e)
           /\ End(w, Rest(a, n)) = End(sz, a) /\ End(w, a) = Rest(a, n)
           /\ \A b \in C \ {a} : End(w, b) = End(sz, b) /\ b # Rest(a, n)
<1> DEFINE r == Rest(a, n)
<1>1. a \in Nat /\ sz[a] \in Nat /\ End(sz, a) = a + 1 + sz[a] /\ End(sz, a) <= e /\ e \in Nat
  BY TilesFacts
<1>2. r = a + 1 + n /\ r \in Nat /\ a < r /\ r < End(sz, a) /\ r < e
  BY <1>1 DEF Rest
<1>3. End(w, r) = End(sz, a) /\ End(w, a) = r
  BY <1>1, <1>2 DEF End
<1>4. \A b \in C \ {a} : /\ End(w, b) = End(sz, b) /\ b \in Nat /\ b < End(sz, b)
                         /\ End(sz, b) <= e /\ End(sz, b) \in Nat /\ w[b] \in Nat
                         /\ End(sz, b) <= a \/ End(sz, a) <= b
  BY DEF Tiles, End
<1>5. r \notin C
  <2>1. ASSUME NEW b \in C, b = r PROVE FALSE
    <3>1. b # a
      BY <1>1, <1>2, <2>1
    <3>2. End(sz, b) <= a \/ End(sz, a) <= b
      BY <1>4, <3>1
    <3> QED BY <1>1, <1>2, <1>4, <2>1, <3>1, <3>2
  <2> QED BY <2>1
<1> HIDE DEF r
<1>6. \A x \in 0..(e - 1) : \E b \in C \cup {r} : b <= x /\ x < End(w, b)
  <2>1. SUFFICES ASSUME NEW x \in 0..(e - 1) PROVE \E b \in C \cup {r} : b <= x /\ x < End(w, b)
    OBVIOUS
  <2>2. PICK b \in C : b <= x /\ x < End(sz, b)
    BY DEF Tiles
  <2>3. CASE b # a
    BY <1>4, <2>2, <2>3
  <2>4. CASE b = a /\ x < r
    BY <1>1, <1>2, <1>3, <2>2, <2>4
  <2>5. CASE b = a /\ r <= x
    BY <1>1, <1>2, <1>3, <2>2, <2>5
  <2> QED BY <1>2, <2>3, <2>4, <2>5
<1>7. \A b, c \in C \cup {r} : b # c => End(w, b) <= c \/ End(w, c) <= b
  <2>1. ASSUME NEW b \in C \ {a}, NEW c \in C \ {a}, b # c PROVE End(w, b) <= c \/ End(w, c) <= b
    BY <1>4, <2>1 DEF Tiles
  <2>2. ASSUME NEW b \in C \ {a}
        PROVE  /\ End(w, b) <= a \/ End(w, a) <= b
               /\ End(w, b) <= r \/ End(w, r) <= b
    BY <1>1, <1>2, <1>3, <1>4
  <2>3. End(w, a) <= r
    BY <1>2, <1>3
  <2> QED BY <2>1, <2>2, <2>3
<1>8. \A b \in C \cup {r} : w[b] \in Nat /\ End(w, b) <= e /\ b \in Nat
  BY <1>1, <1>2, <1>3, <1>4 DEF r, Rest
<1> QED BY <1>1, <1>2, <1>3, <1>4, <1>5, <1>6, <1>7, <1>8 DEF Tiles, r

(* Growth enlarges the chunk that ends at the heap end, and pages given     *)
(* back shrink it (kmalloc.c:197-199, 262-268).                             *)
LEMMA TilesResize ==
    ASSUME NEW C, NEW sz, NEW e, Tiles(C, sz, e), NEW a \in C, End(sz, a) = e,
           NEW p \in Int, sz[a] + p \in Nat, NEW w, w[a] = sz[a] + p, \A b \in C \ {a} : w[b] = sz[b]
    PROVE  Tiles(C, w, e + p) /\ End(w, a) = e + p /\ \A b \in C \ {a} : End(w, b) = End(sz, b)
<1>1. a \in Nat /\ sz[a] \in Nat /\ e \in Nat /\ e = a + 1 + sz[a]
  BY TilesFacts
<1>2. End(w, a) = e + p /\ a < e + p /\ e + p \in Nat /\ w[a] \in Nat
  BY <1>1 DEF End
<1>3. \A b \in C \ {a} : /\ End(w, b) = End(sz, b) /\ b \in Nat /\ b < End(sz, b) /\ End(sz, b) \in Nat
                         /\ End(sz, b) <= a /\ w[b] \in Nat
  <2>1. SUFFICES ASSUME NEW b \in C \ {a}
                 PROVE /\ End(w, b) = End(sz, b) /\ b \in Nat /\ b < End(sz, b) /\ End(sz, b) \in Nat
                       /\ End(sz, b) <= a /\ w[b] \in Nat
    OBVIOUS
  <2>2. b \in Nat /\ sz[b] \in Nat /\ End(sz, b) = b + 1 + sz[b] /\ End(sz, b) <= e
    BY TilesFacts
  <2>3. End(sz, b) <= a \/ e <= b
    BY DEF Tiles
  <2> QED BY <1>1, <2>2, <2>3 DEF End
<1>4. \A x \in 0..(e + p - 1) : \E b \in C : b <= x /\ x < End(w, b)
  <2>1. SUFFICES ASSUME NEW x \in 0..(e + p - 1) PROVE \E b \in C : b <= x /\ x < End(w, b)
    OBVIOUS
  <2>2. CASE x < a
    <3>1. PICK b \in C : b <= x /\ x < End(sz, b)
      BY <1>1, <2>2 DEF Tiles
    <3>2. b # a
      BY <1>1, <2>2, <3>1
    <3> QED BY <1>3, <3>1, <3>2
  <2>3. CASE a <= x
    BY <1>1, <1>2, <2>3
  <2> QED BY <1>1, <2>2, <2>3
<1>5. \A b, c \in C : b # c => End(w, b) <= c \/ End(w, c) <= b
  BY <1>3 DEF Tiles
<1> QED BY <1>1, <1>2, <1>3, <1>4, <1>5 DEF Tiles
(* Growth of a heap without free chunks makes one of the new page           *)
(* (kmalloc.c:200-208).                                                     *)
LEMMA TilesAppend ==
    ASSUME NEW C, NEW sz, NEW e, Tiles(C, sz, e), NEW p \in Nat \ {0},
           NEW w, w[e] = p - 1, \A b \in C : w[b] = sz[b]
    PROVE  Tiles(C \cup {e}, w, e + p) /\ End(w, e) = e + p /\ e \notin C
<1>1. e \in Nat /\ End(w, e) = e + p
  BY DEF Tiles, End
<1>2. \A b \in C : /\ End(w, b) = End(sz, b) /\ b \in Nat /\ b < End(sz, b) /\ End(sz, b) \in Nat
                   /\ End(sz, b) <= e /\ w[b] \in Nat
  BY DEF Tiles, End
<1>3. e \notin C
  BY <1>1, <1>2
<1>4. \A x \in 0..(e + p - 1) : \E b \in C \cup {e} : b <= x /\ x < End(w, b)
  <2>1. SUFFICES ASSUME NEW x \in 0..(e + p - 1) PROVE \E b \in C \cup {e} : b <= x /\ x < End(w, b)
    OBVIOUS
  <2>2. CASE x < e
    <3>1. PICK b \in C : b <= x /\ x < End(sz, b)
      BY <1>1, <2>2 DEF Tiles
    <3> QED BY <1>2, <3>1
  <2>3. CASE e <= x
    BY <1>1, <2>3
  <2> QED BY <1>1, <2>2, <2>3
<1>5. \A b, c \in C \cup {e} : b # c => End(w, b) <= c \/ End(w, c) <= b
  BY <1>1, <1>2 DEF Tiles
<1> QED BY <1>1, <1>2, <1>3, <1>4, <1>5 DEF Tiles

-----------------------------------------------------------------------------
(* merge_heap(): S is the free list, C all the chunks.                     *)

(* The end of a run of free chunks exists: none of its chunks begins there, *)
(* and all the cells up to it are in free chunks (kmalloc.c:250-257).       *)
LEMMA RunFacts ==
    ASSUME NEW C, NEW sz, NEW e, Tiles(C, sz, e), NEW S \in SUBSET C, NEW a \in S
    PROVE  /\ RunEnd(S, sz, a) \in Nat /\ RunEnd(S, sz, a) > a /\ RunEnd(S, sz, a) \notin S
           /\ \E b \in S : End(sz, b) = RunEnd(S, sz, a)
           /\ \A x \in a..(RunEnd(S, sz, a) - 1) : \E b \in S : b <= x /\ x < End(sz, b)
<1> DEFINE Ends == {End(sz, b) : b \in S}
           Stops == {x \in Ends : x > a /\ x \notin S}
           r == RunEnd(S, sz, a)
<1>1. \A b \in S : /\ b \in Nat /\ b < End(sz, b) /\ End(sz, b) \in Nat /\ End(sz, b) <= e /\ e \in Nat
  BY TilesFacts
<1>2. Stops # {}
  <2>1. Ends \in SUBSET Nat /\ Ends # {} /\ e \in Nat /\ \A x \in Ends : x <= e
    BY <1>1
  <2>2. PICK m \in Ends : \A x \in Ends : m >= x
    BY <2>1, MaxFacts
  <2>3. m \notin S
    <3>1. SUFFICES ASSUME m \in S PROVE FALSE
      OBVIOUS
    <3>2. End(sz, m) \in Ends /\ m < End(sz, m) /\ m \in Nat /\ End(sz, m) \in Nat
      BY <1>1, <3>1
    <3>3. m >= End(sz, m)
      BY <2>2, <3>2
    <3> QED BY <3>2, <3>3
  <2>4. End(sz, a) \in Ends /\ End(sz, a) > a /\ m \in Nat /\ a \in Nat /\ End(sz, a) \in Nat
    BY <1>1, <2>1
  <2>5. m >= End(sz, a)
    BY <2>2, <2>4
  <2>6. m > a
    BY <2>4, <2>5
  <2> QED BY <2>3, <2>6
<1>3. Stops \in SUBSET Nat
  BY <1>1
<1>4. r \in Stops /\ \A x \in Stops : r <= x
  <2>1. r = Min(Stops)
    BY DEF RunEnd
  <2> HIDE DEF r, Stops
  <2> QED BY <1>2, <1>3, <2>1, MinFacts
<1>5. r \in Nat /\ r > a /\ r \notin S /\ \E b \in S : End(sz, b) = r
  BY <1>3, <1>4
<1>6. ASSUME NEW y \in a..(r - 1) PROVE \E b \in S : b <= y /\ y < End(sz, b)
  <2> DEFINE Bare == {x \in a..(r - 1) : ~\E b \in S : b <= x /\ x < End(sz, b)}
  <2>1. SUFFICES ASSUME Bare # {} PROVE FALSE
    OBVIOUS
  <2>2. Bare \in SUBSET Nat
    BY <1>1, <1>5
  <2>3. PICK x \in Bare : \A z \in Bare : x <= z
    BY <2>1, <2>2, MinFacts
  <2>4. x \in a..(r - 1) /\ x # a
    BY <1>1, <2>3
  <2>5. x - 1 \in a..(r - 1) /\ x - 1 \notin Bare
    BY <1>1, <1>5, <2>2, <2>3, <2>4
  <2>6. PICK b \in S : b <= x - 1 /\ x - 1 < End(sz, b)
    BY <2>5
  <2>7. End(sz, b) = x
    BY <1>1, <1>5, <2>3, <2>4, <2>6
  <2>8. x \notin S
    BY <1>1, <2>3
  <2>9. x \in Stops
    BY <1>1, <1>5, <2>4, <2>7, <2>8
  <2> QED BY <1>1, <1>4, <1>5, <2>4, <2>9
<1> QED BY <1>5, <1>6

(* Every cell of a free chunk lies in the run of some head.                *)
LEMMA HeadFacts ==
    ASSUME NEW C, NEW sz, NEW e, Tiles(C, sz, e), NEW S \in SUBSET C,
           NEW b \in S, NEW x \in Nat, b <= x, x < End(sz, b)
    PROVE  \E h \in Heads(S, sz) : h <= x /\ x < RunEnd(S, sz, h)
<1> DEFINE Taken(y) == \E c \in S : c <= y /\ y < End(sz, c)
           Starts == {c \in S : c <= x /\ \A y \in c..x : Taken(y)}
<1>1. \A c \in S : c \in Nat /\ c < End(sz, c) /\ End(sz, c) \in Nat
  BY TilesFacts
<1>2. b \in Starts
  <2>1. \A y \in b..x : b <= y /\ y < End(sz, b)
    BY <1>1
  <2> QED BY <2>1
<1>3. Starts \in SUBSET Nat
  BY <1>1
<1>4. PICK h \in Starts : \A c \in Starts : h <= c
  BY <1>2, <1>3, MinFacts
<1>5. h \in Nat /\ h \in S /\ h <= x /\ \A y \in h..x : Taken(y)
  BY <1>3
<1>6. ASSUME NEW c \in S, End(sz, c) = h PROVE FALSE
  <2>1. ASSUME NEW y \in c..x PROVE Taken(y)
    <3>1. CASE y < h
      BY <1>1, <1>6, <3>1
    <3>2. CASE h <= y
      BY <1>1, <1>5, <3>2
    <3> QED BY <1>1, <1>5, <3>1, <3>2
  <2>2. c \in Starts /\ c < h
    BY <1>1, <1>5, <1>6, <2>1
  <2> QED BY <1>1, <1>4, <1>5, <2>2
<1>7. h \in Heads(S, sz)
  BY <1>5, <1>6 DEF Heads
<1>8. x < RunEnd(S, sz, h)
  <2> DEFINE r == RunEnd(S, sz, h)
  <2>1. r \in Nat /\ r > h /\ r \notin S
    BY <1>5, RunFacts
  <2>2. PICK c \in S : End(sz, c) = r
    BY <1>5, RunFacts
  <2> HIDE DEF r
  <2>3. SUFFICES ASSUME r <= x PROVE FALSE
    BY <1>5, <2>1 DEF r
  <2>4. PICK d \in S : d <= r /\ r < End(sz, d)
    BY <1>5, <2>1, <2>3
  <2>5. d # c /\ d < r
    BY <1>1, <2>1, <2>2, <2>4
  <2>6. End(sz, d) <= c \/ End(sz, c) <= d
    BY <2>5 DEF Tiles
  <2> QED BY <1>1, <2>2, <2>4, <2>5, <2>6
<1> QED BY <1>5, <1>7, <1>8

(* Runs do not overlap.                                                    *)
LEMMA RunsApart ==
    ASSUME NEW C, NEW sz, NEW e, Tiles(C, sz, e), NEW S \in SUBSET C,
           NEW g \in Heads(S, sz), NEW h \in Heads(S, sz), g < h
    PROVE  RunEnd(S, sz, g) <= h
<1>1. \A c \in C : c \in Nat /\ c < End(sz, c) /\ End(sz, c) \in Nat
  BY TilesFacts
<1>2. g \in S /\ h \in S /\ g \in Nat /\ h \in Nat /\ \A b \in S : End(sz, b) # h
  BY <1>1 DEF Heads
<1> DEFINE r == RunEnd(S, sz, g)
<1>3. r \in Nat /\ \A x \in g..(r - 1) : \E b \in S : b <= x /\ x < End(sz, b)
  BY <1>2, RunFacts
<1> HIDE DEF r
<1>4. SUFFICES ASSUME h < r PROVE FALSE
  BY <1>2, <1>3 DEF r
<1>5. PICK c \in S : c <= h - 1 /\ h - 1 < End(sz, c)
  BY <1>2, <1>3, <1>4
<1>6. End(sz, c) <= h \/ End(sz, h) <= c
  BY <1>1, <1>2, <1>5 DEF Tiles
<1> QED BY <1>1, <1>2, <1>5, <1>6

\* w: what becomes of the sizes of the chunks C when merge_heap() goes through S.
MergesTo(C, sz, S, w) ==
    /\ \A h \in Heads(S, sz) : w[h] = merge_heap(S, sz)[h]
    /\ \A b \in C \ S : w[b] = sz[b]

(* A free list that merge_heap() has gone through covers the same cells,   *)
(* with no two chunks adjacent (kmalloc.c:237-260).                         *)
LEMMA MergeFacts ==
    ASSUME NEW C, NEW sz, NEW e, Tiles(C, sz, e), NEW S \in SUBSET C,
           NEW w, MergesTo(C, sz, S, w)
    PROVE  /\ DOMAIN merge_heap(S, sz) = Heads(S, sz) /\ Heads(S, sz) \subseteq S
           /\ \A h \in Heads(S, sz) : merge_heap(S, sz)[h] \in Nat /\ End(w, h) = RunEnd(S, sz, h)
           /\ Tiles(Heads(S, sz) \cup (C \ S), w, e)
           /\ \A g, h \in Heads(S, sz) : End(w, g) # h
<1> DEFINE H == Heads(S, sz)
           m == merge_heap(S, sz)
<1>0. /\ \A h \in Heads(S, sz) : w[h] = merge_heap(S, sz)[h]
      /\ \A b \in C \ S : w[b] = sz[b]
  BY DEF MergesTo
<1>1. \A c \in C : c \in Nat /\ c < End(sz, c) /\ End(sz, c) \in Nat /\ End(sz, c) <= e /\ e \in Nat
  BY TilesFacts
<1>2. H \subseteq S /\ \A h \in H, b \in S : End(sz, b) # h
  BY DEF Heads
<1>3. DOMAIN m = H /\ \A h \in H : m[h] = RunEnd(S, sz, h) - h - 1
  BY DEF merge_heap
<1>4. ASSUME NEW h \in H
      PROVE  /\ RunEnd(S, sz, h) \in Nat /\ RunEnd(S, sz, h) > h /\ RunEnd(S, sz, h) \notin S
             /\ \E b \in S : End(sz, b) = RunEnd(S, sz, h)
             /\ \A x \in h..(RunEnd(S, sz, h) - 1) : \E b \in S : b <= x /\ x < End(sz, b)
  BY <1>2, RunFacts
<1>5. ASSUME NEW h \in H
      PROVE  m[h] \in Nat /\ w[h] \in Nat /\ End(w, h) = RunEnd(S, sz, h) /\ End(w, h) <= e
  BY <1>0, <1>1, <1>2, <1>3, <1>4 DEF End
<1>6. \A b \in C \ S : End(w, b) = End(sz, b) /\ w[b] \in Nat
  BY <1>0 DEF Tiles, End
<1> HIDE DEF H, m
<1>7. ASSUME NEW h \in H, NEW b \in C, b # h, b < End(w, h), h < End(sz, b), b \notin S \/ b \in H
      PROVE  FALSE
  <2>1. h \in Nat /\ b \in Nat /\ h \in S /\ h \in C
    BY <1>1, <1>2
  <2>2. CASE h < b
    <3>1. b - 1 \in h..(End(w, h) - 1) /\ b \in h..(End(w, h) - 1)
      BY <1>4, <1>5, <1>7, <2>1, <2>2
    <3>2. PICK c \in S : c <= b - 1 /\ b - 1 < End(sz, c)
      BY <1>4, <1>5, <3>1
    <3>3. PICK d \in S : d <= b /\ b < End(sz, d)
      BY <1>4, <1>5, <3>1
    <3>4. c # b
      BY <1>1, <2>1, <3>2
    <3>5. CASE b \notin S
      <4>1. End(sz, d) <= b \/ End(sz, b) <= d
        BY <3>5 DEF Tiles
      <4> QED BY <1>1, <2>1, <3>3, <4>1
    <3>6. CASE b \in H
      <4>1. End(sz, c) # b
        BY <1>2, <3>6
      <4>2. End(sz, c) <= b \/ End(sz, b) <= c
        BY <3>4 DEF Tiles
      <4> QED BY <1>1, <2>1, <3>2, <4>1, <4>2
    <3> QED BY <1>7, <3>5, <3>6
  <2>3. CASE b < h
    <3>1. End(sz, h) <= b \/ End(sz, b) <= h
      BY <1>7, <2>1 DEF Tiles
    <3> QED BY <1>1, <1>7, <2>1, <2>3, <3>1
  <2> QED BY <1>7, <2>1, <2>2, <2>3
<1>8. ASSUME NEW h \in H, NEW b \in C \ S PROVE End(w, h) <= b \/ End(w, b) <= h
  <2>1. h # b
    BY <1>2
  <2>2. ~(b < End(w, h) /\ h < End(sz, b))
    BY <1>7, <2>1
  <2> QED BY <1>1, <1>2, <1>4, <1>5, <1>6, <2>2
<1>9. ASSUME NEW g \in H, NEW h \in H, g < h PROVE End(w, g) < h
  <2>1. RunEnd(S, sz, g) <= h
    BY <1>9, RunsApart DEF H
  <2>2. End(w, g) # h
    BY <1>2, <1>4, <1>5
  <2> QED BY <1>1, <1>2, <1>4, <1>5, <2>1, <2>2
<1>10. \A x \in 0..(e - 1) : \E b \in H \cup (C \ S) : b <= x /\ x < End(w, b)
  <2>1. SUFFICES ASSUME NEW x \in 0..(e - 1) PROVE \E b \in H \cup (C \ S) : b <= x /\ x < End(w, b)
    OBVIOUS
  <2>2. PICK b \in C : b <= x /\ x < End(sz, b)
    BY DEF Tiles
  <2>3. CASE b \notin S
    BY <1>6, <2>2, <2>3
  <2>4. CASE b \in S
    <3>1. PICK h \in H : h <= x /\ x < RunEnd(S, sz, h)
      BY <2>2, <2>4, HeadFacts DEF H
    <3> QED BY <1>5, <3>1
  <2> QED BY <2>3, <2>4
<1>11. Tiles(H \cup (C \ S), w, e)
  <2>1. \A a, b \in H \cup (C \ S) : a # b => End(w, a) <= b \/ End(w, b) <= a
    <3>1. ASSUME NEW a \in H, NEW b \in H, a # b PROVE End(w, a) <= b \/ End(w, b) <= a
      <4>1. a < b \/ b < a
        BY <1>1, <1>2, <3>1
      <4> QED BY <1>1, <1>2, <1>4, <1>5, <1>9, <4>1
    <3>2. ASSUME NEW a \in C \ S, NEW b \in C \ S, a # b PROVE End(w, a) <= b \/ End(w, b) <= a
      BY <1>6, <3>2 DEF Tiles
    <3> QED BY <1>8, <3>1, <3>2
  <2>2. H \cup (C \ S) \subseteq Nat /\ e \in Nat
    BY <1>1, <1>2 DEF Tiles
  <2>3. \A a \in H \cup (C \ S) : w[a] \in Nat /\ End(w, a) <= e
    BY <1>1, <1>5, <1>6
  <2> QED BY <1>10, <2>1, <2>2, <2>3 DEF Tiles
<1>12. \A g, h \in H : End(w, g) # h
  BY <1>2, <1>4, <1>5
<1> QED BY <1>2, <1>3, <1>5, <1>11, <1>12 DEF H, m

(* The last run ends at the heap end if a free chunk did.                  *)
LEMMA MergeLast ==
    ASSUME NEW C, NEW sz, NEW e, Tiles(C, sz, e), NEW S \in SUBSET C, S # {}
    PROVE  /\ Heads(S, sz) # {}
           /\ Max(Heads(S, sz)) \in Heads(S, sz)
           /\ \A h \in Heads(S, sz) : h <= Max(Heads(S, sz))
           /\ RunEnd(S, sz, Max(Heads(S, sz))) <= e
           /\ (\E b \in S : End(sz, b) = e) => RunEnd(S, sz, Max(Heads(S, sz))) = e
<1> DEFINE H == Heads(S, sz)
<1>1. \A c \in C : c \in Nat /\ c < End(sz, c) /\ End(sz, c) \in Nat /\ End(sz, c) <= e /\ e \in Nat
  BY TilesFacts
<1>2. H \in SUBSET Nat /\ H \subseteq S /\ \A h \in H : h <= e
  BY <1>1 DEF Heads
<1>3. H # {}
  <2>1. PICK b \in S : TRUE
    OBVIOUS
  <2> QED BY <1>1, <2>1, HeadFacts
<1>4. PICK l \in H : l = Max(H) /\ \A h \in H : h <= l
  BY <1>1, <1>2, <1>3, MaxFacts
<1>5. RunEnd(S, sz, l) \in Nat /\ RunEnd(S, sz, l) <= e
  BY <1>1, <1>2, RunFacts
<1>6. ASSUME NEW b \in S, End(sz, b) = e PROVE RunEnd(S, sz, l) = e
  <2>1. e - 1 \in Nat /\ b <= e - 1 /\ e - 1 < End(sz, b)
    BY <1>1, <1>6
  <2>2. PICK h \in H : h <= e - 1 /\ e - 1 < RunEnd(S, sz, h)
    BY <2>1, HeadFacts
  <2>3. RunEnd(S, sz, h) \in Nat /\ RunEnd(S, sz, h) <= e
    BY <1>1, <1>2, RunFacts
  <2>4. RunEnd(S, sz, h) = e
    BY <1>1, <2>2, <2>3
  <2>5. h = l
    <3>1. ASSUME h # l PROVE FALSE
      <4>1. RunEnd(S, sz, h) <= l
        BY <1>1, <1>2, <1>4, <3>1, RunsApart
      <4> QED BY <1>1, <1>2, <2>4, <4>1
    <3> QED BY <3>1
  <2> QED BY <2>4, <2>5
<1> QED BY <1>3, <1>4, <1>5, <1>6

-----------------------------------------------------------------------------
\* The local variables of a call (kmalloc.c:97-117).
Calls ==
    \A c \in Context :
       /\ call[c].at = "idle" <=> call[c].alloc_sz = 0
       /\ call[c].at # "idle" => call[c].alloc_sz \in TaskSizes \cup IrqSizes
       /\ call[c].at \in {"search", "take"} => call[c].heap_end_addr <= k_heap_end
       /\ call[c].at = "take" =>
             /\ call[c].chunk \in Chunk
             /\ call[c].chunk \in k_heap_start => size[call[c].chunk] >= 2 * call[c].alloc_sz

\* The places a task's search can come to (list.c:74-93).
Reach == k_heap_start \cup DOMAIN stale \cup {NIL}
Walking ==
    /\ DOMAIN stale \subseteq live
    /\ call["task"].at \in {"idle", "head"} => DOMAIN stale = {}
    /\ call["task"].at \in {"end", "search"} =>
          call["task"].chunk \in Reach /\ \A a \in DOMAIN stale : stale[a] \in Reach

\* A call during which no interrupt has changed the heap.
Undisturbed(c) == c = "irq" \/ ~exposed
Steady ==
    \A c \in Context : Undisturbed(c) =>
       /\ call[c].at \in {"search", "take"} => call[c].heap_end_addr = k_heap_end
       /\ call[c].at \in {"end", "search"} => call[c].chunk \in k_heap_start \cup {NIL}
       /\ call[c].at = "take" => call[c].chunk \in k_heap_start

\* Without a free chunk there is no heap yet (kmalloc.c:44-48).
Intact == ~exposed => ~damaged /\ LastFreeEndsHeap /\ (k_heap_start = {} => live = {})

HeapInv ==
    /\ TypeOK /\ ChunksTile /\ PagesAgree /\ Intact
    /\ ~damaged => Calls /\ Walking /\ Steady

-----------------------------------------------------------------------------
(* The pages.                                                              *)

\* PagesOwnedOnce of a memory.
Owned(m) ==
    /\ m.count = Cardinality(m.free)
    /\ IsInjective(m.pages) /\ IsInjective(m.tables)
    /\ Range(m.pages) \cap Range(m.tables) = {}
    /\ (Range(m.pages) \cup Range(m.tables)) \cap m.free = {}
    /\ Accounted(m) \cap Locked = {}

(* Pages are numbered from 0 to LowPages - 1, so sets of them are finite.   *)
LEMMA LowPageFinite ==
    /\ LowPages \in Nat \ {0} /\ LowPage \subseteq Nat /\ Locked \subseteq LowPage
    /\ IsFiniteSet(LowPage) /\ Cardinality(LowPage) = LowPages
    /\ \A S \in SUBSET LowPage : IsFiniteSet(S) /\ Cardinality(S) \in Nat
<1>1. LowPages \in Nat \ {0} /\ LowPage \subseteq Nat /\ Locked \subseteq LowPage
  BY PageAllocAssumption DEF LowPage, Locked
<1>2. IsFiniteSet(LowPage) /\ Cardinality(LowPage) = LowPages
  BY <1>1, FS_Interval DEF LowPage
<1>3. \A S \in SUBSET LowPage : IsFiniteSet(S)
  BY <1>2, FS_Subset
<1> QED BY <1>1, <1>2, <1>3, FS_CardinalityType

(* A page that is put into a mapping nobody has it in.                     *)
LEMMA PutInjective ==
    ASSUME NEW f, IsInjective(f), NEW x, x \notin DOMAIN f, NEW y, y \notin Range(f)
    PROVE  IsInjective(Put(f, x, y)) /\ Range(Put(f, x, y)) = Range(f) \cup {y}
<1> DEFINE g == Put(f, x, y)
<1>1. DOMAIN g = DOMAIN f \cup {x} /\ g[x] = y /\ \A z \in DOMAIN f : g[z] = f[z]
  BY DEF Put, Over
<1> HIDE DEF g
<1>2. IsInjective(g)
  BY <1>1 DEF IsInjective, Range
<1>3. ASSUME NEW v \in Range(g) PROVE v \in Range(f) \cup {y}
  <2>1. PICK z \in DOMAIN g : v = g[z]
    BY DEF Range
  <2> QED BY <1>1, <2>1 DEF Range
<1>4. ASSUME NEW v \in Range(f) PROVE v \in Range(g)
  <2>1. PICK z \in DOMAIN f : v = f[z]
    BY DEF Range
  <2> QED BY <1>1, <2>1 DEF Range
<1>5. y \in Range(g)
  BY <1>1 DEF Range
<1> QED BY <1>2, <1>3, <1>4, <1>5 DEF g

(* pa_alloc() takes a page out of the bitmap, and counts it (mm.c:99-118).  *)
LEMMA AllocFacts ==
    ASSUME NEW m, IsMemory(m), m.count = Cardinality(m.free), ~OutOfMemory(m)
    PROVE  LET a == pa_alloc(m) IN
           /\ a.page \in m.free /\ a.page \in LowPage
           /\ IsMemory(a.mem) /\ a.mem.free = m.free \ {a.page}
           /\ a.mem.count = Cardinality(a.mem.free)
           /\ a.mem.tables = m.tables /\ a.mem.pages = m.pages
<1> DEFINE a == pa_alloc(m)
           p == Min(m.free)
<1>1. m.free \in SUBSET LowPage /\ m.count \in Int /\ m.count > 0
  BY DEF IsMemory, OutOfMemory
<1>2. IsFiniteSet(m.free) /\ m.free \in SUBSET Nat /\ m.free # {}
  <2>1. IsFiniteSet(m.free) /\ m.free \in SUBSET Nat
    BY <1>1, LowPageFinite
  <2>2. Cardinality(m.free) # 0
    BY <1>1
  <2> QED BY <2>1, <2>2, FS_EmptySet
<1>3. p \in m.free
  BY <1>2, MinFacts
<1>4. Cardinality({p}) = 1 /\ Cardinality(m.free \ {p}) = Cardinality(m.free) - 1
  <2>1. Cardinality({p}) = 1
    BY FS_Singleton
  <2>2. Cardinality(m.free \ {p}) = Cardinality(m.free) - 1
    BY <1>2, <1>3, FS_RemoveElement
  <2> QED BY <2>1, <2>2
<1>5. a.page = p /\ a.mem = [m EXCEPT !.free = m.free \ {p}, !.count = m.count - Cardinality({p})]
  BY DEF pa_alloc, set_page_bit
<1>6. /\ DOMAIN a.mem = DOMAIN m /\ a.mem.free = m.free \ {p} /\ a.mem.count = m.count - 1
      /\ a.mem.tables = m.tables /\ a.mem.pages = m.pages
  BY <1>4, <1>5 DEF IsMemory
<1> HIDE DEF a, p
<1>7. IsMemory(a.mem)
  BY <1>1, <1>6 DEF IsMemory
<1> QED BY <1>1, <1>3, <1>4, <1>5, <1>6, <1>7 DEF a

(* A page table, if one is missing, comes out of the bitmap too             *)
(* (mm.c:286-291).                                                          *)
LEMMA TableFacts ==
    ASSUME NEW m, IsMemory(m), m.count = Cardinality(m.free), NEW v \in LowPage,
           NeedsTable(m, v) => ~OutOfMemory(m)
    PROVE  LET w == WithTable(m, v) IN
           /\ IsMemory(w) /\ w.pages = m.pages /\ w.count = Cardinality(w.free)
           /\ w = m \/ \E p \in m.free, k \in LowPage : /\ k \notin DOMAIN m.tables
                                                        /\ w.free = m.free \ {p} /\ w.tables = Put(m.tables, k, p)
<1>1. CASE ~NeedsTable(m, v)
  BY <1>1 DEF WithTable
<1>2. CASE NeedsTable(m, v)
  <2> DEFINE a == pa_alloc(m)
             k == v \div TableSpan
             w == WithTable(m, v)
  <2>1. /\ a.page \in m.free /\ a.page \in LowPage
        /\ IsMemory(a.mem) /\ a.mem.free = m.free \ {a.page}
        /\ a.mem.count = Cardinality(a.mem.free)
        /\ a.mem.tables = m.tables /\ a.mem.pages = m.pages
    BY <1>2, AllocFacts
  <2>2. k \in LowPage
    <3>1. TableSpan \in Nat \ {0} /\ v \in Nat
      BY PageAllocAssumption, LowPageFinite
    <3>2. k \in Nat /\ k <= v
      BY <3>1, DivFacts
    <3> QED BY <3>1, <3>2, LowPageFinite DEF LowPage
  <2>3. w = [a.mem EXCEPT !.tables = Put(m.tables, k, a.page)]
    BY <1>2, <2>1 DEF WithTable
  <2> HIDE DEF a, k, w
  <2>4. /\ DOMAIN w = DOMAIN a.mem /\ w.free = a.mem.free /\ w.count = a.mem.count
        /\ w.pages = a.mem.pages /\ w.tables = Put(m.tables, k, a.page)
    BY <2>1, <2>3 DEF IsMemory
  <2>5. PageMap(w.tables)
    <3>1. PageMap(m.tables)
      BY DEF IsMemory
    <3> QED BY <2>1, <2>2, <2>4, <3>1 DEF PageMap, Put, Over, Range
  <2>6. IsMemory(w)
    BY <2>1, <2>4, <2>5 DEF IsMemory
  <2>7. k \notin DOMAIN m.tables
    BY <1>2 DEF NeedsTable, k
  <2>8. \E p \in m.free, j \in LowPage : /\ j \notin DOMAIN m.tables
                                         /\ w.free = m.free \ {p} /\ w.tables = Put(m.tables, j, p)
    BY <2>1, <2>2, <2>4, <2>7
  <2> QED BY <2>4, <2>6, <2>8, <2>1 DEF w
<1> QED BY <1>1, <1>2

(* mm_map(pa_alloc()) maps a page at v.  No page gets a second owner, unless *)
(* there was a mapping at v already (mm.c:272-304).                          *)
LEMMA MapFacts ==
    ASSUME NEW m, IsMemory(m), Owned(m), NEW v \in LowPage,
           ~OutOfMemory(m), NeedsTable(m, v) => ~OutOfMemory(pa_alloc(m).mem)
    PROVE  LET n == mm_map(pa_alloc(m).mem, pa_alloc(m).page, v) IN
           /\ IsMemory(n) /\ DOMAIN n.pages = DOMAIN m.pages \cup {v}
           /\ v \notin DOMAIN m.pages => Owned(n) /\ Accounted(n) = Accounted(m)
<1> DEFINE a == pa_alloc(m)
           w == WithTable(a.mem, v)
           n == mm_map(a.mem, a.page, v)
<1>1. /\ a.page \in m.free /\ a.page \in LowPage
      /\ IsMemory(a.mem) /\ a.mem.free = m.free \ {a.page}
      /\ a.mem.count = Cardinality(a.mem.free)
      /\ a.mem.tables = m.tables /\ a.mem.pages = m.pages
  BY AllocFacts DEF Owned
<1>2. NeedsTable(a.mem, v) => ~OutOfMemory(a.mem)
  BY <1>1 DEF NeedsTable
<1>3. /\ IsMemory(w) /\ w.pages = m.pages /\ w.count = Cardinality(w.free)
      /\ w = a.mem \/ \E p \in a.mem.free, k \in LowPage : /\ k \notin DOMAIN a.mem.tables
                                                           /\ w.free = a.mem.free \ {p} /\ w.tables = Put(a.mem.tables, k, p)
  <2> DEFINE b == a.mem
  <2>1. IsMemory(b) /\ b.count = Cardinality(b.free) /\ (NeedsTable(b, v) => ~OutOfMemory(b))
    BY <1>1, <1>2
  <2> HIDE DEF a, b
  <2>2. /\ IsMemory(WithTable(b, v)) /\ WithTable(b, v).pages = b.pages
        /\ WithTable(b, v).count = Cardinality(WithTable(b, v).free)
        /\ WithTable(b, v) = b \/ \E p \in b.free, k \in LowPage :
              /\ k \notin DOMAIN b.tables
              /\ WithTable(b, v).free = b.free \ {p} /\ WithTable(b, v).tables = Put(b.tables, k, p)
    BY <2>1, TableFacts
  <2> QED BY <1>1, <2>2 DEF b
<1>4. n = [w EXCEPT !.pages = Put(m.pages, v, a.page)]
  BY <1>3 DEF mm_map
<1> HIDE DEF a, w, n
<1>5. /\ DOMAIN n = DOMAIN w /\ n.free = w.free /\ n.count = w.count /\ n.tables = w.tables
      /\ n.pages = Put(m.pages, v, a.page)
  BY <1>3, <1>4 DEF IsMemory
<1>6. IsMemory(n) /\ DOMAIN n.pages = DOMAIN m.pages \cup {v}
  <2>1. PageMap(m.pages)
    BY DEF IsMemory
  <2>2. PageMap(n.pages) /\ DOMAIN n.pages = DOMAIN m.pages \cup {v}
    BY <1>1, <1>5, <2>1 DEF PageMap, Put, Over, Range
  <2> QED BY <1>3, <1>5, <2>2 DEF IsMemory
<1>7. ASSUME v \notin DOMAIN m.pages PROVE Owned(n) /\ Accounted(n) = Accounted(m)
  <2>1. a.page \notin Range(m.pages)
    BY <1>1 DEF Owned
  <2>2. IsInjective(n.pages) /\ Range(n.pages) = Range(m.pages) \cup {a.page}
    BY <1>5, <1>7, <2>1, PutInjective DEF Owned
  <2>3. CASE w = a.mem
    <3>1. n.free = m.free \ {a.page} /\ n.tables = m.tables
      BY <1>1, <1>5, <2>3
    <3>2. n.count = Cardinality(n.free)
      BY <1>3, <1>5
    <3> QED BY <1>1, <2>2, <3>1, <3>2 DEF Owned, Accounted
  <2>4. ASSUME NEW p \in a.mem.free, NEW k, k \notin DOMAIN a.mem.tables,
               w.free = a.mem.free \ {p}, w.tables = Put(a.mem.tables, k, p)
        PROVE  Owned(n) /\ Accounted(n) = Accounted(m)
    <3>1. p \in m.free /\ p # a.page /\ p \notin Range(m.tables)
      BY <1>1 DEF Owned
    <3>2. IsInjective(n.tables) /\ Range(n.tables) = Range(m.tables) \cup {p}
      BY <1>1, <1>5, <2>4, <3>1, PutInjective DEF Owned
    <3>3. n.free = (m.free \ {a.page}) \ {p} /\ n.count = Cardinality(n.free)
      BY <1>1, <1>3, <1>5, <2>4
    <3> QED BY <1>1, <2>2, <3>1, <3>2, <3>3 DEF Owned, Accounted
  <2> QED BY <1>3, <2>3, <2>4
<1> QED BY <1>6, <1>7 DEF n, a

(* Disjoint sets of pages.                                                 *)
LEMMA DisjointCount ==
    ASSUME NEW S, NEW T, IsFiniteSet(S), IsFiniteSet(T), S \cap T = {}
    PROVE  Cardinality(S \cup T) = Cardinality(S) + Cardinality(T)
<1>1. Cardinality(S \cup T) = Cardinality(S) + Cardinality(T) - Cardinality(S \cap T)
  BY FS_Union
<1>2. Cardinality(S \cap T) = 0
  BY FS_EmptySet
<1>3. Cardinality(S) \in Nat /\ Cardinality(T) \in Nat
  BY FS_CardinalityType
<1> QED BY <1>1, <1>2, <1>3

(* pa_free() of every page of P counts those that were not free yet         *)
(* (mm.c:120-123).                                                          *)
LEMMA FreeFacts ==
    ASSUME NEW m, IsMemory(m), m.count = Cardinality(m.free), NEW P \in SUBSET LowPage
    PROVE  LET n == pa_free(m, P) IN
           /\ IsMemory(n) /\ n.free = m.free \cup P /\ n.count = Cardinality(n.free)
           /\ n.tables = m.tables /\ n.pages = m.pages
<1> DEFINE D == P \ m.free
           n == pa_free(m, P)
<1>1. n = [m EXCEPT !.free = m.free \cup D, !.count = m.count + Cardinality(D)]
  BY DEF pa_free, clr_page_bit
<1>2. D \in SUBSET LowPage /\ m.free \in SUBSET LowPage /\ D \cap m.free = {} /\ m.free \cup D = m.free \cup P
  BY DEF IsMemory
<1> HIDE DEF D, n
<1>3. /\ IsFiniteSet(D) /\ IsFiniteSet(m.free) /\ IsFiniteSet(m.free \cup D)
      /\ Cardinality(D) \in Nat /\ Cardinality(m.free) \in Nat
  BY <1>2, LowPageFinite
<1>4. Cardinality(m.free \cup D) = Cardinality(m.free) + Cardinality(D)
  BY <1>2, <1>3, DisjointCount
<1>5. /\ DOMAIN n = DOMAIN m /\ n.free = m.free \cup D /\ n.count = m.count + Cardinality(D)
      /\ n.tables = m.tables /\ n.pages = m.pages
  BY <1>1 DEF IsMemory
<1>6. IsMemory(n)
  BY <1>2, <1>3, <1>5 DEF IsMemory
<1> QED BY <1>2, <1>4, <1>5, <1>6 DEF n

(* Unmapped pages go back to the bitmap (kmalloc.c:266-268, mm.c:120-123).  *)
LEMMA GiveBackFacts ==
    ASSUME NEW m, IsMemory(m), Owned(m), NEW V \in SUBSET DOMAIN m.pages
    PROVE  LET n == give_back(m, V) IN
           /\ IsMemory(n) /\ DOMAIN n.pages = DOMAIN m.pages \ V
           /\ Owned(n) /\ Accounted(n) = Accounted(m)
<1> DEFINE P == {m.pages[v] : v \in V}
           u == mm_unmap(m, V)
           n == give_back(m, V)
<1>1. PageMap(m.pages) /\ P \subseteq Range(m.pages) /\ P \subseteq LowPage /\ P \cap m.free = {}
  BY DEF IsMemory, PageMap, Range, Owned
<1>2. u = [m EXCEPT !.pages = Restrict(m.pages, DOMAIN m.pages \ V)]
  BY DEF mm_unmap
<1>3. n = pa_free(u, P)
  BY DEF give_back, get_physaddr
<1> HIDE DEF u, n, P
<1>4. /\ DOMAIN u = DOMAIN m /\ u.free = m.free /\ u.count = m.count /\ u.tables = m.tables
      /\ u.pages = Restrict(m.pages, DOMAIN m.pages \ V)
  BY <1>2 DEF IsMemory
<1>5. PageMap(u.pages)
  BY <1>1, <1>4 DEF PageMap, Range, Restrict
<1>6. IsMemory(u) /\ u.count = Cardinality(u.free)
  BY <1>4, <1>5 DEF IsMemory, Owned
<1>7. /\ IsMemory(n) /\ n.free = m.free \cup P /\ n.count = Cardinality(n.free)
      /\ n.tables = m.tables /\ n.pages = Restrict(m.pages, DOMAIN m.pages \ V)
  BY <1>1, <1>3, <1>4, <1>6, FreeFacts
<1>8. DOMAIN n.pages = DOMAIN m.pages \ V /\ \A v \in DOMAIN n.pages : n.pages[v] = m.pages[v]
  BY <1>7 DEF Restrict
<1>9. IsInjective(n.pages) /\ IsInjective(m.pages)
  BY <1>8 DEF Owned, IsInjective
<1>10. Range(n.pages) \cup P = Range(m.pages) /\ Range(n.pages) \cap P = {}
  <2>1. ASSUME NEW p \in Range(m.pages) PROVE p \in Range(n.pages) \cup P
    <3>1. PICK v \in DOMAIN m.pages : p = m.pages[v]
      BY DEF Range
    <3> QED BY <1>8, <3>1 DEF Range, P
  <2>2. ASSUME NEW p \in Range(n.pages) PROVE p \in Range(m.pages) /\ p \notin P
    <3>1. PICK v \in DOMAIN n.pages : p = n.pages[v]
      BY DEF Range
    <3> QED BY <1>8, <1>9, <3>1 DEF Range, P, IsInjective
  <2> QED BY <1>1, <2>1, <2>2
<1>11. Owned(n) /\ Accounted(n) = Accounted(m)
  <2>1. P \cap Range(m.tables) = {} /\ P \cap Locked = {}
    BY <1>1 DEF Owned, Accounted
  <2>2. Accounted(n) = Accounted(m)
    BY <1>7, <1>10 DEF Accounted
  <2>3. /\ Range(n.pages) \cap Range(n.tables) = {} /\ IsInjective(n.tables)
        /\ (Range(n.pages) \cup Range(n.tables)) \cap n.free = {}
        /\ Accounted(n) \cap Locked = {}
    BY <1>7, <1>10, <2>1, <2>2 DEF Owned
  <2> QED BY <1>7, <1>9, <2>2, <2>3 DEF Owned
<1> QED BY <1>7, <1>8, <1>11 DEF n

(* The function by which mm_init() goes through the memory map is the one   *)
(* its recursion describes (mm.c:205-215).                                  *)
LEMMA ReadExists ==
    ASSUME NEW map, NEW n \in Nat
    PROVE  \E f : f = [i \in 0..n |-> IF i = 0 THEN NoPages ELSE FreeEntry(map[i], f[i - 1])]
<1> DEFINE Good(k) == \E f : f = [i \in 0..k |-> IF i = 0 THEN NoPages ELSE FreeEntry(map[i], f[i - 1])]
           Bad == {k \in 0..n : ~Good(k)}
<1>1. SUFFICES ASSUME Bad # {} PROVE FALSE
  BY n \in 0..n
<1>2. PICK k \in Bad : \A j \in Bad : k <= j
  BY <1>1, Bad \in SUBSET Nat, MinFacts
<1>3. k # 0
  <2> DEFINE f == [i \in 0..0 |-> NoPages]
  <2>1. f = [i \in 0..0 |-> IF i = 0 THEN NoPages ELSE FreeEntry(map[i], f[i - 1])]
    OBVIOUS
  <2>2. Good(0)
    BY <2>1
  <2> QED BY <2>2
<1>4. k \in Nat /\ k - 1 \in 0..n /\ k - 1 \notin Bad
  BY <1>2, <1>3
<1>5. PICK f : f = [i \in 0..(k - 1) |-> IF i = 0 THEN NoPages ELSE FreeEntry(map[i], f[i - 1])]
  BY <1>4
<1> DEFINE g == [i \in 0..k |-> IF i = k THEN FreeEntry(map[k], f[k - 1]) ELSE f[i]]
<1>6. \A i \in 0..(k - 1) : g[i] = f[i] /\ f[i] = IF i = 0 THEN NoPages ELSE FreeEntry(map[i], f[i - 1])
  BY <1>4, <1>5
<1>7. ASSUME NEW i \in 0..k PROVE g[i] = IF i = 0 THEN NoPages ELSE FreeEntry(map[i], g[i - 1])
  <2>1. CASE i = k
    <3>1. g[k] = FreeEntry(map[k], f[k - 1]) /\ g[k - 1] = f[k - 1]
      BY <1>3, <1>4
    <3> QED BY <1>3, <2>1, <3>1
  <2>2. CASE i # k
    <3>1. i \in 0..(k - 1) /\ (i # 0 => i - 1 \in 0..(k - 1))
      BY <1>4, <2>2
    <3> QED BY <1>6, <3>1
  <2> QED BY <2>1, <2>2
<1> HIDE DEF g
<1>8. g = [i \in 0..k |-> g[i]]
  BY DEF g
<1>9. g = [i \in 0..k |-> IF i = 0 THEN NoPages ELSE FreeEntry(map[i], g[i - 1])]
  BY <1>7, <1>8
<1>10. Good(k)
  BY <1>9
<1> QED BY <1>2, <1>10

(* What mm_init() leaves: every page but page 0 and the kernel's is free if *)
(* some usable entry has it, however the entries overlap (mm.c:196-229).    *)
LEMMA BootFacts ==
    ASSUME NEW map \in MemoryMaps
    PROVE  LET m == mm_init(map) IN IsMemory(m) /\ Owned(m) /\ DOMAIN m.pages = {}
<1> DEFINE n == Len(map)
           read == CHOOSE f : f = [i \in 0..n |-> IF i = 0 THEN NoPages ELSE FreeEntry(map[i], f[i - 1])]
           Pages(i) == IF map[i].usable THEN PagesOf(map[i]) \cap LowPage ELSE {}
           Done(i) ==
              /\ IsMemory(read[i]) /\ read[i].count = Cardinality(read[i].free)
              /\ DOMAIN read[i].pages = {} /\ DOMAIN read[i].tables = {}
              /\ \A j \in 1..i : Pages(j) \subseteq read[i].free
<1>1. map \in Seq(Entry) /\ HoldsKernel(map) /\ n \in Nat /\ DOMAIN map = 1..n
  BY HeapAssumption
<1>2. read = [i \in 0..n |-> IF i = 0 THEN NoPages ELSE FreeEntry(map[i], read[i - 1])]
  BY <1>1, ReadExists
<1>3. \A i \in 0..n : read[i] = IF i = 0 THEN NoPages ELSE FreeEntry(map[i], read[i - 1])
  BY <1>2
<1>4. mm_init(map) = set_page_bit(read[n], Locked)
  BY DEF mm_init
<1> HIDE DEF read, n
<1>5. Done(0)
  <2>1. read[0] = NoPages
    BY <1>1, <1>3
  <2>2. IsMemory(NoPages)
    BY DEF IsMemory, NoPages, PageMap, Range
  <2>3. NoPages.count = Cardinality(NoPages.free)
    BY FS_EmptySet DEF NoPages
  <2> QED BY <2>1, <2>2, <2>3 DEF NoPages
<1>6. ASSUME NEW i \in 1..n, Done(i - 1) PROVE Done(i)
  <2> DEFINE m == read[i - 1]
  <2>1. read[i] = FreeEntry(map[i], m) /\ i \in Nat
    BY <1>1, <1>3
  <2>2. CASE ~map[i].usable
    <3>1. read[i] = m /\ Pages(i) = {}
      BY <2>1, <2>2 DEF FreeEntry
    <3>2. \A j \in 1..i : j = i \/ j \in 1..(i - 1)
      BY <2>1
    <3> QED BY <1>6, <3>1, <3>2
  <2>3. CASE map[i].usable
    <3>1. read[i] = pa_free(m, Pages(i)) /\ Pages(i) \in SUBSET LowPage
      BY <2>1, <2>3 DEF FreeEntry
    <3>2. IsMemory(m) /\ m.count = Cardinality(m.free) /\ DOMAIN m.pages = {} /\ DOMAIN m.tables = {}
      BY <1>6
    <3>3. \A j \in 1..(i - 1) : Pages(j) \subseteq m.free
      BY <1>6
    <3> HIDE DEF m, Pages
    <3>4. /\ IsMemory(read[i]) /\ read[i].free = m.free \cup Pages(i)
          /\ read[i].count = Cardinality(read[i].free)
          /\ read[i].tables = m.tables /\ read[i].pages = m.pages
      BY <3>1, <3>2, FreeFacts
    <3>5. \A j \in 1..i : j = i \/ j \in 1..(i - 1)
      BY <2>1
    <3> QED BY <3>2, <3>3, <3>4, <3>5
  <2> QED BY <2>2, <2>3
<1>7. Done(n)
  <2> DEFINE Bad == {i \in 0..n : ~Done(i)}
  <2> HIDE DEF Done
  <2>1. SUFFICES ASSUME Bad # {} PROVE FALSE
    BY <1>1, n \in 0..n
  <2>2. PICK k \in Bad : \A j \in Bad : k <= j
    BY <2>1, Bad \in SUBSET Nat, MinFacts
  <2>3. k \in 1..n /\ k - 1 \in 0..n
    BY <1>1, <1>5, <2>2
  <2>4. Done(k - 1)
    BY <2>2, <2>3
  <2> QED BY <1>6, <2>2, <2>3, <2>4
<1> DEFINE m == read[n]
           b == mm_init(map)
<1>8. Locked \subseteq m.free
  <2>1. ASSUME NEW p \in Locked PROVE p \in m.free
    <3>1. PICK j \in 1..n : map[j].usable /\ p \in PagesOf(map[j])
      BY <1>1 DEF HoldsKernel
    <3>2. p \in Pages(j)
      BY <3>1, LowPageFinite
    <3> QED BY <1>7, <3>2
  <2> QED BY <2>1
<1>9. b = [m EXCEPT !.free = m.free \ Locked, !.count = m.count - Cardinality(Locked)]
  BY <1>4 DEF set_page_bit
<1>10. /\ IsMemory(m) /\ m.count = Cardinality(m.free)
       /\ DOMAIN m.pages = {} /\ DOMAIN m.tables = {}
  BY <1>7
<1> HIDE DEF b, m
<1>11. /\ DOMAIN b = DOMAIN m /\ b.free = m.free \ Locked /\ b.count = m.count - Cardinality(Locked)
       /\ b.pages = m.pages /\ b.tables = m.tables
  BY <1>9, <1>10 DEF IsMemory
<1>12. b.count = Cardinality(b.free) /\ b.count \in Int
  <2>1. /\ m.free \in SUBSET LowPage /\ IsFiniteSet(m.free) /\ IsFiniteSet(Locked)
        /\ Cardinality(m.free) \in Nat /\ Cardinality(Locked) \in Nat
    BY <1>10, LowPageFinite DEF IsMemory
  <2>2. Cardinality(m.free \ Locked) = Cardinality(m.free) - Cardinality(m.free \cap Locked)
    BY <2>1, FS_Difference
  <2>3. Cardinality(m.free \cap Locked) = Cardinality(Locked)
    <3>1. m.free \cap Locked = Locked
      BY <1>8
    <3> QED BY <3>1
  <2>4. Cardinality(m.free \ Locked) = Cardinality(m.free) - Cardinality(Locked)
    BY <2>2, <2>3
  <2>5. Cardinality(b.free) = b.count
    BY <1>10, <1>11, <2>4
  <2> QED BY <1>10, <1>11, <2>1, <2>5
<1>13. IsMemory(b)
  BY <1>10, <1>11, <1>12 DEF IsMemory
<1>14. Range(b.pages) = {} /\ Range(b.tables) = {}
  BY <1>10, <1>11 DEF Range
<1>15. Owned(b)
  <2>1. IsInjective(b.pages) /\ IsInjective(b.tables)
    BY <1>10, <1>11 DEF IsInjective
  <2>2. Accounted(b) \cap Locked = {}
    BY <1>11, <1>14 DEF Accounted
  <2> QED BY <1>12, <1>14, <2>1, <2>2 DEF Owned
<1> QED BY <1>10, <1>11, <1>13, <1>15 DEF b

-----------------------------------------------------------------------------
(* What the invariant says of a heap that is not damaged.                  *)

LEMMA Units ==
    /\ PageUnits \in Nat \ {0, 1} /\ LowPages \in Nat \ {0} /\ LowPages * PageUnits \in Nat
    /\ Unit \subseteq Nat /\ \A x \in Nat : x \in Unit <=> x < LowPages * PageUnits
    /\ NIL \notin Nat
<1>1. PageUnits \in Nat \ {0, 1} /\ LowPages \in Nat \ {0} /\ NIL \notin Nat
  BY HeapAssumption, PageAllocAssumption
<1>2. LowPages * PageUnits \in Nat
  BY <1>1
<1> DEFINE U == LowPages * PageUnits
<1> HIDE DEF U
<1>3. U \in Nat /\ Unit = 0..(U - 1)
  BY <1>2 DEF U, Unit
<1> QED BY <1>1, <1>3 DEF U

LEMMA FirstFacts ==
    ASSUME NEW S \in SUBSET Nat
    PROVE  /\ First(S) \in S \cup {NIL} /\ (S = {} <=> First(S) = NIL)
           /\ \A a \in Nat : After(S, a) \in S \cup {NIL}
<1>1. ASSUME NEW T \in SUBSET Nat PROVE First(T) \in T \cup {NIL} /\ (T = {} <=> First(T) = NIL)
  <2>1. CASE T = {}
    BY <2>1 DEF First
  <2>2. CASE T # {}
    BY <2>2, MinFacts, Units DEF First
  <2> QED BY <2>1, <2>2
<1>2. ASSUME NEW a \in Nat PROVE After(S, a) \in S \cup {NIL}
  <2> DEFINE T == {b \in S : b > a}
  <2>1. T \in SUBSET Nat /\ T \subseteq S /\ After(S, a) = First(T)
    BY DEF After
  <2> QED BY <1>1, <2>1
<1> QED BY <1>1, <1>2

LEMMA HeapFacts ==
    ASSUME HeapInv, ~damaged
    PROVE  /\ k_heap_start \in SUBSET Nat /\ live \in SUBSET Nat /\ k_heap_end \in Nat
           /\ k_heap_start \cap live = {} /\ Tiles(Chunk, size, k_heap_end)
           /\ \A a, b \in k_heap_start : End(size, a) # b
<1>1. /\ k_heap_start \in SUBSET Nat /\ live \in SUBSET Nat /\ k_heap_end \in Nat
      /\ \A a \in Chunk : size[a] \in Nat
  BY Units DEF HeapInv, TypeOK
<1>2. Tiling /\ \A a, b \in k_heap_start : End(size, a) # b
  BY DEF HeapInv, ChunksTile, Coalesced
<1>3. Chunk \in SUBSET Nat
  BY <1>1 DEF Chunk
<1>4. Tiles(Chunk, size, k_heap_end)
  BY <1>1, <1>2, <1>3, TilingIsTiles DEF Tiling, Cells
<1> QED BY <1>1, <1>2, <1>4 DEF Tiling

LEMMA NewTiling ==
    ASSUME k_heap_start' \in SUBSET Nat, live' \in SUBSET Nat, k_heap_end' \in Nat,
           k_heap_start' \cap live' = {}, Tiles(Chunk', size', k_heap_end')
    PROVE  Tiling'
<1>1. Chunk' \in SUBSET Nat /\ \A a \in Chunk' : size'[a] \in Nat
  BY DEF Tiles
<1>2. /\ UNION {a..(End(size', a) - 1) : a \in Chunk'} = 0..(k_heap_end' - 1)
      /\ \A a, b \in Chunk' : a # b => (a..(End(size', a) - 1)) \cap (b..(End(size', b) - 1)) = {}
  BY <1>1, TilingIsTiles
<1> QED BY <1>2 DEF Tiling, Cells, End

(* The chunk that ends the heap is the last one of its list.               *)
LEMMA LastEnds ==
    ASSUME NEW C, NEW sz, NEW e, Tiles(C, sz, e), NEW S \in SUBSET C, NEW b \in S, End(sz, b) = e
    PROVE  Max(S) = b
<1>1. /\ e \in Nat /\ S \in SUBSET Nat
      /\ \A x \in S : x \in Nat /\ End(sz, x) \in Nat /\ x < End(sz, x) /\ End(sz, x) <= e
  BY TilesFacts
<1>2. \A x \in S : x # b => End(sz, x) <= b \/ End(sz, b) <= x
  BY DEF Tiles
<1>3. \A x \in S : x <= b
  BY <1>1, <1>2
<1> DEFINE m == Max(S)
<1>4. b \in Nat /\ m \in S /\ \A x \in S : m >= x
  BY <1>1, <1>3, MaxFacts
<1> HIDE DEF m
<1>5. m \in Nat /\ m <= b /\ b <= m
  BY <1>1, <1>3, <1>4
<1> QED BY <1>4, <1>5 DEF m

(* The last of some chunks is one of them.                                 *)
LEMMA LastFacts ==
    ASSUME NEW C, NEW sz, NEW e, Tiles(C, sz, e), NEW S \in SUBSET C, S # {}
    PROVE  Max(S) \in S
<1>1. e \in Nat /\ S \in SUBSET Nat /\ \A x \in S : x <= e
  BY DEF Tiles, End
<1> QED BY <1>1, MaxFacts

-----------------------------------------------------------------------------
(* Steps that only read the heap.                                          *)

LEMMA Kept ==
    ASSUME HeapInv, UNCHANGED <<k_heap_start, k_heap_end, size, live, memory, damaged, exposed>>
    PROVE  ChunksTile' /\ PagesAgree' /\ Intact'
<1>1. ChunksTile'
  BY DEF HeapInv, ChunksTile, Tiling, Coalesced, Chunk, Cells
<1>2. PagesAgree'
  BY DEF HeapInv, PagesAgree, MappedExactly, PagesOwnedOnce
<1>3. Intact'
  BY DEF HeapInv, Intact, LastFreeEndsHeap
<1> QED BY <1>1, <1>2, <1>3

Locals == [at: Step, alloc_sz: Nat, chunk: Unit \cup {NIL}, heap_end_addr: Nat]

LEMMA CallFacts ==
    ASSUME TypeOK, NEW c \in Context, NEW r \in Locals, call' = [call EXCEPT ![c] = r]
    PROVE  call' \in [Context -> Locals] /\ call'[c] = r /\ \A d \in Context \ {c} : call'[d] = call[d]
BY DEF TypeOK, Locals

LEMMA LocalFacts ==
    ASSUME TypeOK, NEW c \in Context, NEW at \in Step, NEW a \in Unit \cup {NIL}, NEW e \in Nat,
           Local(c, at, a, e)
    PROVE  /\ call' \in [Context -> Locals]
           /\ call'[c] = [at |-> at, alloc_sz |-> call[c].alloc_sz, chunk |-> a, heap_end_addr |-> e]
           /\ \A d \in Context \ {c} : call'[d] = call[d]
<1>1. call \in [Context -> Locals]
  BY DEF TypeOK, Locals
<1> DEFINE r == [at |-> at, alloc_sz |-> call[c].alloc_sz, chunk |-> a, heap_end_addr |-> e]
<1>2. DOMAIN call' = Context /\ \A d \in Context \ {c} : call'[d] = call[d]
  BY <1>1 DEF Local, Locals
<1>3. call[c] \in Locals /\ r \in Locals
  BY <1>1 DEF Locals
<1>4. call'[c] = [call[c] EXCEPT !.at = at, !.chunk = a, !.heap_end_addr = e]
  BY <1>1 DEF Local
<1>5. call'[c] = r
  BY <1>3, <1>4 DEF Locals
<1>6. call' = [d \in Context |-> call'[d]]
  BY <1>1, <1>2 DEF Local
<1> HIDE DEF r
<1> QED BY <1>1, <1>2, <1>3, <1>5, <1>6 DEF r

LEMMA NoCallFacts ==
    NoCall \in Locals /\ NoCall.at = "idle" /\ NoCall.alloc_sz = 0 /\ NoCall.chunk = NIL
BY DEF NoCall, Locals, Step

(* kmalloc() is called (kmalloc.c:86-92).                                   *)
LEMMA CallInv ==
    ASSUME HeapInv, NEW c \in Context, Call(c)
    PROVE  HeapInv'
<1>1. PICK sz \in TaskSizes \cup IrqSizes : call' = [call EXCEPT ![c] = [NoCall EXCEPT !.at = "head", !.alloc_sz = sz]]
  BY DEF Call
<1> DEFINE r == [NoCall EXCEPT !.at = "head", !.alloc_sz = sz]
<1>2. call' = [call EXCEPT ![c] = r] /\ sz \in Nat \ {0}
  BY <1>1, HeapAssumption
<1>3. TypeOK /\ ~damaged /\ call[c].at = "idle"
  BY DEF HeapInv, Call, Running
<1>4. r \in Locals /\ r.at = "head" /\ r.alloc_sz = sz
  BY <1>2, NoCallFacts DEF Locals, Step
<1> HIDE DEF r
<1>5. call' \in [Context -> Locals] /\ call'[c] = r /\ \A d \in Context \ {c} : call'[d] = call[d]
  BY <1>2, <1>3, <1>4, CallFacts
<1>6. UNCHANGED <<k_heap_start, k_heap_end, size, live, stale, memory, damaged, exposed, panicked>>
  BY DEF Call
<1>7. TypeOK'
  BY <1>3, <1>5, <1>6 DEF TypeOK, Chunk, Locals
<1>8. Calls'
  BY <1>2, <1>3, <1>4, <1>5, <1>6 DEF HeapInv, Calls, Chunk
<1>9. Walking'
  BY <1>3, <1>4, <1>5, <1>6 DEF HeapInv, Walking, Reach, Context
<1>10. Steady'
  BY <1>3, <1>4, <1>5, <1>6 DEF HeapInv, Steady, Undisturbed
<1>11. ChunksTile' /\ PagesAgree' /\ Intact'
  BY <1>6, Kept
<1> QED BY <1>7, <1>8, <1>9, <1>10, <1>11 DEF HeapInv

(* The search starts at the head of the list (kmalloc.c:97).                *)
LEMMA ReadHeadInv ==
    ASSUME HeapInv, NEW c \in Context, ReadHead(c)
    PROVE  HeapInv'
<1> DEFINE a == First(k_heap_start)
<1>1. TypeOK /\ ~damaged /\ call[c].at = "head" /\ Local(c, "end", a, 0)
  BY DEF HeapInv, ReadHead, Running
<1>2. UNCHANGED <<k_heap_start, k_heap_end, size, live, stale, memory, damaged, exposed, panicked>>
  BY DEF ReadHead
<1>3. a \in k_heap_start \cup {NIL} /\ a \in Unit \cup {NIL}
  BY <1>1, HeapFacts, FirstFacts DEF TypeOK
<1> HIDE DEF a
<1>4. /\ call' \in [Context -> Locals] /\ \A d \in Context \ {c} : call'[d] = call[d]
      /\ call'[c] = [at |-> "end", alloc_sz |-> call[c].alloc_sz, chunk |-> a, heap_end_addr |-> 0]
  BY <1>1, <1>3, LocalFacts DEF Step
<1>5. TypeOK'
  BY <1>1, <1>2, <1>4 DEF TypeOK, Chunk, Locals
<1>6. Calls'
  BY <1>1, <1>2, <1>4 DEF HeapInv, Calls, Chunk
<1>7. Walking'
  BY <1>1, <1>2, <1>3, <1>4 DEF HeapInv, Walking, Reach, Context
<1>8. Steady'
  BY <1>1, <1>2, <1>3, <1>4 DEF HeapInv, Steady, Undisturbed
<1>9. ChunksTile' /\ PagesAgree' /\ Intact'
  BY <1>2, Kept
<1> QED BY <1>5, <1>6, <1>7, <1>8, <1>9 DEF HeapInv

(* The heap end is read (kmalloc.c:100).                                    *)
LEMMA ReadEndInv ==
    ASSUME HeapInv, NEW c \in Context, ReadEnd(c)
    PROVE  HeapInv'
<1> DEFINE a == call[c].chunk
<1>1. TypeOK /\ ~damaged /\ call[c].at = "end" /\ Local(c, "search", a, k_heap_end)
  BY DEF HeapInv, ReadEnd, Running
<1>2. UNCHANGED <<k_heap_start, k_heap_end, size, live, stale, memory, damaged, exposed, panicked>>
  BY DEF ReadEnd
<1>3. a \in Unit \cup {NIL} /\ k_heap_end \in Nat
  BY <1>1, HeapFacts DEF TypeOK
<1>4. /\ call' \in [Context -> Locals] /\ \A d \in Context \ {c} : call'[d] = call[d]
      /\ call'[c] = [at |-> "search", alloc_sz |-> call[c].alloc_sz, chunk |-> a, heap_end_addr |-> k_heap_end]
  BY <1>1, <1>3, LocalFacts DEF Step
<1>5. TypeOK'
  BY <1>1, <1>2, <1>4 DEF TypeOK, Chunk, Locals
<1>6. Calls'
  BY <1>1, <1>2, <1>3, <1>4 DEF HeapInv, Calls, Chunk
<1>7. Walking'
  BY <1>1, <1>2, <1>4 DEF HeapInv, Walking, Reach, Context
<1>8. Steady'
  BY <1>1, <1>2, <1>4 DEF HeapInv, Steady, Undisturbed
<1>9. ChunksTile' /\ PagesAgree' /\ Intact'
  BY <1>2, Kept
<1> QED BY <1>5, <1>6, <1>7, <1>8, <1>9 DEF HeapInv

(* One turn of the search, wherever it has come to (kmalloc.c:107-118).     *)
LEMMA SearchInv ==
    ASSUME HeapInv, NEW c \in Context, Search(c)
    PROVE  HeapInv'
<1> DEFINE a == call[c].chunk
           e == call[c].heap_end_addr
           n == call[c].alloc_sz
<1>1. /\ TypeOK /\ Calls /\ Walking /\ Steady /\ ~damaged
      /\ call[c].at = "search" /\ a # NIL /\ e \in Nat /\ n \in Nat /\ a \in Unit /\ a \in Nat
  BY Units DEF HeapInv, Search, Running, TypeOK
<1>2. UNCHANGED <<k_heap_start, k_heap_end, size, live, stale, memory, damaged, exposed, panicked>>
  BY DEF Search
<1>3. c = "irq" => a \in k_heap_start
  BY <1>1 DEF Steady, Undisturbed
<1>4. a \in Chunk
  BY <1>1, <1>3 DEF Walking, Reach, Chunk, Context
<1>5. ChunksTile' /\ PagesAgree' /\ Intact'
  BY <1>2, Kept
<1>6. CASE Fits(c, size[a])
  <2>1. Local(c, "take", a, e) /\ size[a] >= 2 * n
    BY <1>6 DEF Search, Fits
  <2>2. /\ call' \in [Context -> Locals] /\ \A d \in Context \ {c} : call'[d] = call[d]
        /\ call'[c] = [at |-> "take", alloc_sz |-> n, chunk |-> a, heap_end_addr |-> e]
    BY <1>1, <2>1, LocalFacts DEF Step
  <2>3. TypeOK'
    BY <1>1, <1>2, <2>2 DEF TypeOK, Chunk, Locals
  <2>4. Calls'
    BY <1>1, <1>2, <1>4, <2>1, <2>2 DEF Calls, Chunk
  <2>5. Walking'
    BY <1>1, <1>2, <2>2 DEF Walking, Reach, Context
  <2>6. Steady'
    BY <1>1, <1>2, <2>2 DEF Steady, Undisturbed
  <2> QED BY <1>5, <2>3, <2>4, <2>5, <2>6 DEF HeapInv
<1>7. CASE ~Fits(c, size[a])
  <2> DEFINE next == get_next(a)
  <2>1. Local(c, "search", next, e)
    BY <1>7 DEF Search
  <2>2. a \in k_heap_start => next \in k_heap_start \cup {NIL}
    BY <1>1, HeapFacts, FirstFacts DEF get_next
  <2>3. next \in Unit \cup {NIL}
    BY <1>1, <1>4, <2>2 DEF TypeOK, get_next, Walking, Reach, Context, Chunk, Steady, Undisturbed
  <2>4. c = "task" => next \in Reach
    BY <1>1, <2>2 DEF Walking, Reach, get_next
  <2> HIDE DEF next
  <2>5. /\ call' \in [Context -> Locals] /\ \A d \in Context \ {c} : call'[d] = call[d]
        /\ call'[c] = [at |-> "search", alloc_sz |-> n, chunk |-> next, heap_end_addr |-> e]
    BY <1>1, <2>1, <2>3, LocalFacts DEF Step
  <2>6. TypeOK'
    BY <1>1, <1>2, <2>5 DEF TypeOK, Chunk, Locals
  <2>7. Calls'
    BY <1>1, <1>2, <2>5 DEF Calls, Chunk
  <2>8. Walking'
    BY <1>1, <1>2, <2>4, <2>5 DEF Walking, Reach, Context
  <2>9. Steady'
    BY <1>1, <1>2, <2>2, <2>5 DEF Steady, Undisturbed
  <2> QED BY <1>5, <2>6, <2>7, <2>8, <2>9 DEF HeapInv
<1> QED BY <1>6, <1>7

(* A chunk that is handed out twice ends what the invariant says of calls   *)
(* (kmalloc.c:123-177).                                                     *)
LEMMA TakeTakenInv ==
    ASSUME HeapInv, NEW c \in Context, TakeTaken(c)
    PROVE  HeapInv'
<1>1. TypeOK /\ ~damaged /\ Steady /\ Calls /\ call[c].at = "take" /\ call[c].chunk \notin k_heap_start
  BY DEF HeapInv, TakeTaken, Running
<1>2. /\ UNCHANGED <<k_heap_start, k_heap_end, size, live, stale, memory, exposed, panicked>>
      /\ damaged' = TRUE /\ call' = [call EXCEPT ![c] = NoCall]
  BY DEF TakeTaken
<1>3. call' \in [Context -> Locals]
  BY <1>1, <1>2, NoCallFacts, CallFacts
<1>4. TypeOK'
  BY <1>1, <1>2, <1>3 DEF TypeOK, Chunk, Locals
<1>5. Intact'
  BY <1>1, <1>2 DEF Intact, Steady, Undisturbed
<1>6. ChunksTile' /\ PagesAgree'
  BY <1>2 DEF ChunksTile, Tiling, Coalesced, PagesAgree, MappedExactly, PagesOwnedOnce
<1> QED BY <1>2, <1>4, <1>5, <1>6 DEF HeapInv

(* pa_alloc() stops the machine (mm.c:104-106).                             *)
LEMMA GrowPanicsInv ==
    ASSUME HeapInv, NEW c \in Context, GrowPanics(c)
    PROVE  HeapInv'
<1>1. TypeOK /\ ~damaged /\ Calls /\ Walking /\ Steady
  BY DEF HeapInv, GrowPanics, Running
<1>2. /\ UNCHANGED <<k_heap_start, k_heap_end, size, live, stale, call, memory, damaged, exposed>>
      /\ panicked' = TRUE
  BY DEF GrowPanics
<1>3. TypeOK'
  BY <1>1, <1>2 DEF TypeOK, Chunk
<1>4. Calls' /\ Walking' /\ Steady'
  BY <1>1, <1>2 DEF Calls, Walking, Steady, Reach, Chunk, Undisturbed
<1>5. ChunksTile' /\ PagesAgree' /\ Intact'
  BY <1>2, Kept
<1> QED BY <1>3, <1>4, <1>5 DEF HeapInv

-----------------------------------------------------------------------------
(* A chunk is taken off the list.                                          *)

(* What a split leaves: the request, and a free chunk up to where the old   *)
(* one ended (kmalloc.c:142-151, 163-172).                                  *)
LEMMA SplitFacts ==
    ASSUME HeapInv, NEW c \in Context, Take(c), Splits(call[c].alloc_sz, size[call[c].chunk])
    PROVE  LET a == call[c].chunk
               r == Rest(a, call[c].alloc_sz)
           IN /\ r \in Unit /\ r \notin Chunk
              /\ k_heap_start' = (k_heap_start \ {a}) \cup {r} /\ DOMAIN size' = Chunk'
              /\ Tiles(Chunk', size', k_heap_end)
              /\ size'[a] = call[c].alloc_sz /\ \A b \in Chunk \ {a} : size'[b] = size[b]
              /\ End(size', r) = End(size, a) /\ End(size', a) = r
              /\ \A b \in Chunk \ {a} : End(size', b) = End(size, b)
<1> DEFINE a == call[c].chunk
           n == call[c].alloc_sz
           r == Rest(a, n)
<1>1. TypeOK /\ ~damaged /\ a \in k_heap_start /\ n \in Nat /\ a \in Nat
  BY Units DEF HeapInv, Take, Running, TypeOK
<1>2. Tiles(Chunk, size, k_heap_end) /\ a \in Chunk /\ size[a] \in Nat
  BY <1>1, HeapFacts DEF Chunk, TypeOK
<1>3. /\ n < size[a] - 1 /\ live' = live \cup {a}
      /\ size' = Put([size EXCEPT ![a] = n], r, size[a] - n - 1)
      /\ k_heap_start' = (k_heap_start \ {a}) \cup {r}
  BY DEF Take, Splits, RestSize
<1>4. r \in Nat /\ r # a
  BY <1>1 DEF Rest
<1> HIDE DEF a, n, r
<1>5. DOMAIN size = Chunk
  BY <1>1 DEF TypeOK
<1>6. DOMAIN size' = Chunk \cup {r} /\ size'[r] = size[a] - n - 1 /\ size'[a] = n
  BY <1>2, <1>3, <1>4, <1>5 DEF Put, Over
<1>7. \A b \in Chunk \ {a} : b # r => size'[b] = size[b]
  BY <1>2, <1>3, <1>4, <1>5 DEF Put, Over
<1>8. r \notin Chunk
  <2>1. a < r /\ r < End(size, a)
    BY <1>1, <1>2, <1>3 DEF Rest, End, r, a, n
  <2>2. ASSUME r \in Chunk PROVE FALSE
    <3>1. End(size, a) <= r \/ End(size, r) <= a
      BY <1>2, <1>4, <2>2 DEF Tiles
    <3>2. r < End(size, r) /\ End(size, r) \in Nat /\ End(size, a) \in Nat
      BY <1>2, <2>2, TilesFacts
    <3> QED BY <1>1, <1>4, <2>1, <3>1, <3>2 DEF a
  <2> QED BY <2>2
<1>9. \A b \in Chunk \ {a} : size'[b] = size[b]
  BY <1>7, <1>8
<1>10. /\ r < k_heap_end /\ Tiles(Chunk \cup {r}, size', k_heap_end)
       /\ End(size', r) = End(size, a) /\ End(size', a) = r
       /\ \A b \in Chunk \ {a} : End(size', b) = End(size, b)
  <2> DEFINE w == size'
  <2>1. /\ n \in Nat /\ n < size[a] - 1 /\ w[a] = n /\ w[Rest(a, n)] = size[a] - n - 1
        /\ \A b \in Chunk \ {a} : w[b] = size[b]
    BY <1>1, <1>3, <1>6, <1>9 DEF r, n
  <2> HIDE DEF w
  <2>2. /\ Rest(a, n) < k_heap_end /\ Tiles(Chunk \cup {Rest(a, n)}, w, k_heap_end)
        /\ End(w, Rest(a, n)) = End(size, a) /\ End(w, a) = Rest(a, n)
        /\ \A b \in Chunk \ {a} : End(w, b) = End(size, b)
    BY <1>2, <2>1, TilesSplit
  <2> QED BY <2>2 DEF w, r
<1>11. Chunk' = Chunk \cup {r}
  BY <1>1, <1>3 DEF Chunk, a
<1>12. r \in Unit
  <2>1. k_heap_end \in 0..(LowPages * PageUnits)
    BY <1>1 DEF TypeOK
  <2> QED BY <1>4, <1>10, <2>1, Units
<1> QED BY <1>3, <1>6, <1>8, <1>9, <1>10, <1>11, <1>12 DEF a, n, r

(* Either way the chunks still tile the heap, the block is as large as the  *)
(* request, and nothing else has changed its size (kmalloc.c:123-181).      *)
LEMMA TakeFacts ==
    ASSUME HeapInv, NEW c \in Context, Take(c)
    PROVE  LET a == call[c].chunk IN
           /\ a \in k_heap_start /\ live' = live \cup {a} /\ UNCHANGED <<k_heap_end, memory, damaged>>
           /\ k_heap_start' \subseteq Unit /\ k_heap_start' \cap live' = {} /\ DOMAIN size' = Chunk'
           /\ k_heap_start \ {a} \subseteq k_heap_start' /\ (k_heap_start' \ k_heap_start) \cap Chunk = {}
           /\ Tiles(Chunk', size', k_heap_end)
           /\ size'[a] >= call[c].alloc_sz /\ \A b \in Chunk \ {a} : size'[b] = size[b]
           /\ \A b, d \in k_heap_start' : End(size', b) # d
           /\ exposed' \/ End(size, a) # k_heap_end
              \/ \E r \in k_heap_start' : End(size', r) = k_heap_end
<1> DEFINE a == call[c].chunk
           n == call[c].alloc_sz
           r == Rest(a, n)
<1>1. /\ TypeOK /\ Calls /\ ~damaged /\ call[c].at = "take" /\ a \in k_heap_start /\ n \in Nat
      /\ live' = live \cup {a} /\ UNCHANGED <<k_heap_end, memory, damaged>>
  BY DEF HeapInv, Take, Running, TypeOK
<1>2. n >= 1 /\ size[a] >= 2 * n
  BY <1>1, HeapAssumption DEF Calls
<1>3. /\ Tiles(Chunk, size, k_heap_end) /\ k_heap_start \cap live = {} /\ a \in Chunk
      /\ \A b, d \in k_heap_start : End(size, b) # d
      /\ size[a] \in Nat /\ DOMAIN size = Chunk /\ k_heap_start \subseteq Unit
  BY <1>1, HeapFacts DEF Chunk, TypeOK
<1>4. CASE Splits(n, size[a])
  <2>1. /\ r \in Unit /\ r \notin Chunk
        /\ k_heap_start' = (k_heap_start \ {a}) \cup {r} /\ DOMAIN size' = Chunk'
        /\ Tiles(Chunk', size', k_heap_end)
        /\ size'[a] = n /\ \A b \in Chunk \ {a} : size'[b] = size[b]
        /\ End(size', r) = End(size, a) /\ End(size', a) = r
        /\ \A b \in Chunk \ {a} : End(size', b) = End(size, b)
    BY <1>4, SplitFacts
  <2> HIDE DEF a, n, r
  <2>2. k_heap_start' \cap live' = {} /\ (k_heap_start' \ k_heap_start) \cap Chunk = {}
    BY <1>1, <1>3, <2>1 DEF Chunk
  <2>3. ASSUME NEW b \in k_heap_start', NEW d \in k_heap_start' PROVE End(size', b) # d
    <3>1. Chunk' = Chunk \cup {r} /\ b \in Chunk' /\ d \in Chunk'
      BY <1>1, <2>1 DEF Chunk
    <3>2. \A x \in Chunk : x < End(size, x) /\ End(size, x) \in Nat /\ x \in Nat
      BY <1>3, TilesFacts
    <3>3. CASE b = r /\ d = r
      <4>1. r < End(size', r) /\ r \in Nat
        BY <2>1, <3>1, <3>3, TilesFacts
      <4> QED BY <3>3, <4>1
    <3>4. CASE b = r /\ d # r
      BY <1>1, <1>3, <2>1, <3>4
    <3>5. CASE b # r /\ d = r
      <4>1. b \in Chunk \ {a} /\ End(size', b) = End(size, b) /\ b \in k_heap_start
        BY <1>3, <2>1, <3>1, <3>5
      <4>2. End(size, b) <= a \/ End(size, a) <= b
        BY <1>3, <4>1 DEF Tiles
      <4>3. a < r /\ r < End(size, a) /\ r \in Nat
        BY <1>3, <2>1, <3>1, TilesFacts
      <4> QED BY <1>3, <3>2, <3>5, <4>1, <4>2, <4>3
    <3>6. CASE b # r /\ d # r
      BY <1>3, <2>1, <3>6 DEF Chunk
    <3> QED BY <3>3, <3>4, <3>5, <3>6
  <2>4. n \in Nat /\ n >= n
    BY <1>1
  <2> QED BY <1>1, <1>3, <2>1, <2>2, <2>3, <2>4 DEF a, n
<1>5. CASE ~Splits(n, size[a])
  <2>1. size' = size /\ k_heap_start' = k_heap_start \ {a} /\ Chunk' = Chunk
    BY <1>1, <1>5 DEF Take, Chunk
  <2>2. n = 1 /\ size[a] = 2
    BY <1>1, <1>2, <1>3, <1>5 DEF Splits
  <2>3. exposed' \/ End(size, a) # k_heap_end
    BY <2>2 DEF Take
  <2> HIDE DEF a, n
  <2> QED BY <1>1, <1>2, <1>3, <2>1, <2>3 DEF a, n, End
<1> QED BY <1>4, <1>5

LEMMA TakeInv ==
    ASSUME HeapInv, NEW c \in Context, Take(c)
    PROVE  HeapInv'
<1> DEFINE a == call[c].chunk
           n == call[c].alloc_sz
<1>1. /\ TypeOK /\ Calls /\ Walking /\ Steady /\ PagesAgree /\ Intact /\ ~damaged
      /\ call[c].at = "take" /\ n \in Nat
      /\ c = "task" => call["irq"].at = "idle"
  BY DEF HeapInv, Take, Running, TypeOK
<1>2. /\ a \in k_heap_start /\ live' = live \cup {a} /\ UNCHANGED <<k_heap_end, memory, damaged>>
      /\ k_heap_start' \subseteq Unit /\ k_heap_start' \cap live' = {} /\ DOMAIN size' = Chunk'
      /\ k_heap_start \ {a} \subseteq k_heap_start' /\ (k_heap_start' \ k_heap_start) \cap Chunk = {}
      /\ Tiles(Chunk', size', k_heap_end)
      /\ size'[a] >= n /\ \A b \in Chunk \ {a} : size'[b] = size[b]
      /\ \A b, d \in k_heap_start' : End(size', b) # d
      /\ exposed' \/ End(size, a) # k_heap_end \/ \E r \in k_heap_start' : End(size', r) = k_heap_end
  BY TakeFacts
<1>3. /\ call' = [call EXCEPT ![c] = NoCall] /\ UNCHANGED panicked
      /\ stale' = IF c = "task" THEN <<>> ELSE Leave(a, After(k_heap_start', a))
      /\ exposed' = (exposed \/ Interrupts(c) \/ (n = 1 /\ size[a] = 2 /\ End(size, a) = k_heap_end))
  BY DEF Take
<1>4. /\ call' \in [Context -> Locals] /\ call'[c] = NoCall
      /\ \A d \in Context \ {c} : call'[d] = call[d]
  BY <1>1, <1>3, NoCallFacts, CallFacts
<1> HIDE DEF a, n
<1>5. /\ live \subseteq Unit /\ live' \subseteq Unit /\ k_heap_start \subseteq Unit
      /\ k_heap_end \in Nat /\ a \in Unit /\ a \in Chunk /\ exposed \in BOOLEAN
  BY <1>1, <1>2, Units DEF TypeOK, Chunk
<1>6. ASSUME c = "task"
      PROVE  /\ Calls' /\ Walking' /\ Steady'
             /\ DOMAIN stale' \subseteq Unit /\ \A b \in DOMAIN stale' : stale'[b] \in Unit \cup {NIL}
  <2>1. stale' = <<>> /\ DOMAIN stale' = {}
    BY <1>3, <1>6
  <2>2. call["irq"].at = "idle" /\ call["irq"].alloc_sz = 0 /\ call'["irq"] = call["irq"]
    BY <1>1, <1>4, <1>6 DEF Calls, Context
  <2>3. DOMAIN stale' \subseteq Unit /\ \A b \in DOMAIN stale' : stale'[b] \in Unit \cup {NIL}
    BY <2>1
  <2>4. \A d \in Context : call'[d].at = "idle" /\ call'[d].alloc_sz = 0
    BY <1>4, <1>6, <2>2, NoCallFacts DEF Context
  <2>5. Calls' /\ Walking' /\ Steady'
    BY <2>1, <2>4 DEF Calls, Walking, Steady, Context
  <2> QED BY <2>3, <2>5
<1>7. ASSUME c = "irq"
      PROVE  /\ Calls' /\ Walking' /\ Steady'
             /\ DOMAIN stale' \subseteq Unit /\ \A b \in DOMAIN stale' : stale'[b] \in Unit \cup {NIL}
  <2> DEFINE next == After(k_heap_start', a)
  <2>1. next \in k_heap_start' \cup {NIL}
    BY <1>2, <1>5, FirstFacts, Units
  <2> HIDE DEF next
  <2>2. \/ stale' = stale /\ ~(call["task"].at \in {"end", "search"})
        \/ DOMAIN stale' = DOMAIN stale \cup {a} /\ stale'[a] = next /\ \A b \in DOMAIN stale \ {a} : stale'[b] = stale[b]
    <3>1. CASE call["task"].at \in {"end", "search"}
      BY <1>3, <1>7, <3>1 DEF Leave, Put, Over, next
    <3>2. CASE ~(call["task"].at \in {"end", "search"})
      BY <1>3, <1>7, <3>2 DEF Leave
    <3> QED BY <3>1, <3>2
  <2>3. DOMAIN stale' \subseteq Unit /\ \A b \in DOMAIN stale' : stale'[b] \in Unit \cup {NIL}
    BY <1>1, <1>2, <1>5, <2>1, <2>2 DEF TypeOK
  <2>4. call'["task"] = call["task"] /\ call'["irq"] = NoCall
    BY <1>4, <1>7 DEF Context
  <2>5. Calls'
    <3>1. \A x \in Chunk : x \in Chunk'
      BY <1>2 DEF Chunk
    <3>2. \A x \in Chunk : x \in k_heap_start' => x \in k_heap_start /\ size'[x] = size[x]
      BY <1>2
    <3>3. ASSUME NEW d \in Context PROVE d = "task" \/ d = "irq"
      BY DEF Context
    <3> QED BY <1>1, <1>2, <2>4, <3>1, <3>2, <3>3, NoCallFacts DEF Calls
  <2>6. Walking'
    <3>1. Reach \subseteq Reach' \/ ~(call["task"].at \in {"end", "search"})
      BY <1>2, <2>2 DEF Reach
    <3>2. DOMAIN stale' \subseteq live'
      BY <1>1, <1>2, <2>2 DEF Walking
    <3>3. call["task"].at \in {"idle", "head"} => DOMAIN stale' = {}
      BY <1>1, <1>3, <1>7 DEF Walking, Leave
    <3>4. ASSUME call["task"].at \in {"end", "search"} PROVE \A b \in DOMAIN stale' : stale'[b] \in Reach'
      BY <1>1, <2>1, <2>2, <3>1, <3>4 DEF Walking, Reach
    <3> QED BY <1>1, <2>4, <3>1, <3>2, <3>3, <3>4 DEF Walking
  <2>7. Steady'
    <3>1. ~exposed' => ~exposed /\ ~(call["task"].at \in {"end", "search", "take"})
      BY <1>3, <1>7 DEF Interrupts
    <3>2. ASSUME NEW d \in Context PROVE d = "task" \/ d = "irq"
      BY DEF Context
    <3> QED BY <2>4, <3>1, <3>2, NoCallFacts DEF Steady, Undisturbed
  <2> QED BY <2>3, <2>5, <2>6, <2>7
<1>8. TypeOK'
  <2>1. DOMAIN stale' \subseteq Unit /\ \A b \in DOMAIN stale' : stale'[b] \in Unit \cup {NIL}
    BY <1>6, <1>7 DEF Context
  <2>2. \A b \in Chunk' : size'[b] \in Nat
    BY <1>2 DEF Tiles
  <2>3. exposed' \in BOOLEAN
    BY <1>3, <1>5
  <2> QED BY <1>1, <1>2, <1>3, <1>4, <1>5, <2>1, <2>2, <2>3 DEF TypeOK, Locals
<1>9. ChunksTile'
  <2>1. Tiling'
    BY <1>2, <1>5, NewTiling, Units
  <2>2. Coalesced'
    BY <1>2 DEF Coalesced, End
  <2> QED BY <2>1, <2>2 DEF ChunksTile
<1>10. PagesAgree'
  BY <1>1, <1>2 DEF PagesAgree, MappedExactly, PagesOwnedOnce
<1>11. Intact'
  <2> SUFFICES ASSUME ~exposed' PROVE ~damaged' /\ LastFreeEndsHeap' /\ (k_heap_start' = {} => live' = {})
    BY DEF Intact
  <2>1. ~damaged /\ LastFreeEndsHeap
    BY <1>1, <1>3 DEF Intact
  <2> DEFINE last == Max(k_heap_start)
  <2>2. Tiles(Chunk, size, k_heap_end) /\ k_heap_start \in SUBSET Chunk
    BY <1>1, HeapFacts DEF Chunk
  <2>3. last \in k_heap_start /\ End(size, last) = k_heap_end
    BY <1>2, <2>1, <2>2, LastFacts DEF LastFreeEndsHeap
  <2> HIDE DEF last
  <2>4. \E r \in k_heap_start' : End(size', r) = k_heap_end
    <3>1. CASE last = a
      BY <1>2, <2>3, <3>1
    <3>2. CASE last # a
      <4>1. last \in Chunk \ {a} /\ last \in k_heap_start'
        BY <1>2, <2>3, <3>2 DEF Chunk
      <4> QED BY <1>2, <2>3, <4>1 DEF End
    <3> QED BY <3>1, <3>2
  <2>5. PICK r \in k_heap_start' : End(size', r) = k_heap_end
    BY <2>4
  <2> DEFINE w == size'
             S == k_heap_start'
  <2>6. Tiles(Chunk', w, k_heap_end) /\ S \in SUBSET Chunk' /\ r \in S /\ End(w, r) = k_heap_end
    BY <1>2, <2>5 DEF Chunk
  <2> HIDE DEF w, S
  <2>7. Max(S) = r
    BY <2>6, LastEnds
  <2> QED BY <1>2, <2>1, <2>5, <2>7 DEF LastFreeEndsHeap, S, End
<1> QED BY <1>6, <1>7, <1>8, <1>9, <1>10, <1>11 DEF HeapInv, Context

-----------------------------------------------------------------------------
(* The heap grows.                                                         *)

(* While a page is free not all pages are mapped, so the heap may grow by   *)
(* one: the pages below its end have different physical pages.             *)
LEMMA RoomToGrow ==
    ASSUME HeapInv, ~damaged, ~OutOfMemory(memory)
    PROVE  /\ k_heap_end + PageUnits <= LowPages * PageUnits
           /\ \E n \in LowPage : k_heap_end = n * PageUnits /\ DOMAIN memory.pages = 0..(n - 1)
<1> DEFINE n == k_heap_end \div PageUnits
           P == DOMAIN memory.pages
<1>1. /\ k_heap_end % PageUnits = 0 /\ P = 0..(n - 1)
      /\ IsMemory(memory) /\ Owned(memory)
  BY DEF HeapInv, TypeOK, PagesAgree, MappedExactly, PagesOwnedOnce, Owned
<1>2. k_heap_end \in Nat /\ n \in Nat /\ k_heap_end = n * PageUnits
  <2>1. PageUnits \in Nat \ {0} /\ k_heap_end \in Nat
    BY Units, HeapFacts
  <2>2. n \in Nat /\ k_heap_end = PageUnits * n + (k_heap_end % PageUnits)
    BY <2>1, DivFacts
  <2> HIDE DEF n
  <2> QED BY <1>1, <2>1, <2>2
<1> HIDE DEF n
<1>3. PICK p \in memory.free : p \in LowPage
  BY <1>1, AllocFacts DEF Owned
<1> DEFINE T == LowPage \ {p}
<1> DEFINE f == [v \in P |-> memory.pages[v]]
<1>4. f \in Injection(P, T)
  <2>1. \A v \in P : memory.pages[v] \in T
    BY <1>1, <1>3 DEF IsMemory, PageMap, Owned, Range
  <2>2. f \in [P -> T]
    BY <2>1
  <2>3. IsInjective(f)
    BY <1>1 DEF IsInjective, Owned
  <2> QED BY <2>2, <2>3 DEF Injection
<1>5. IsFiniteSet(T) /\ Cardinality(T) = LowPages - 1
  BY <1>3, LowPageFinite, FS_RemoveElement
<1>6. Cardinality(P) <= LowPages - 1
  <2> HIDE DEF T, P, f
  <2> QED BY <1>4, <1>5, FS_Injection
<1>7. n <= LowPages - 1
  <2>1. 0 \in Int /\ n - 1 \in Int
    BY <1>2
  <2>2. Cardinality(0..(n - 1)) = IF 0 > n - 1 THEN 0 ELSE (n - 1) - 0 + 1
    BY <2>1, FS_Interval
  <2>3. Cardinality(P) = n
    BY <1>1, <1>2, <2>2
  <2> QED BY <1>6, <2>3
<1>8. n \in LowPage
  BY <1>2, <1>7, LowPageFinite DEF LowPage
<1>9. k_heap_end + PageUnits <= LowPages * PageUnits
  <2>1. LowPages \in Nat /\ PageUnits \in Nat
    BY Units
  <2>2. (n + 1) * PageUnits <= LowPages * PageUnits
    BY <1>2, <1>7, <2>1
  <2> QED BY <1>2, <2>1, <2>2
<1> QED BY <1>1, <1>2, <1>8, <1>9

LEMMA DivMonotone ==
    ASSUME NEW d \in Nat \ {0}, NEW a \in Nat, NEW q \in Nat, a <= q * d
    PROVE  a \div d \in Nat /\ a \div d <= q
<1> DEFINE p == a \div d
<1>1. p \in Nat /\ d * p <= a
  BY DivFacts
<1> HIDE DEF p
<1>2. ~(p >= q + 1)
  <2> SUFFICES ASSUME p >= q + 1 PROVE FALSE
    OBVIOUS
  <2>1. d * p >= d * (q + 1) /\ d * (q + 1) = q * d + d
    BY <1>1
  <2> QED BY <1>1, <2>1
<1> QED BY <1>1, <1>2 DEF p

(* Mapping the page at the heap end read at entry keeps the owners of the   *)
(* pages, if that is still the heap end (kmalloc.c:187-190).                *)
LEMMA GrowPages ==
    ASSUME HeapInv, NEW c \in Context, Grow(c)
    PROVE  /\ call[c].heap_end_addr \in Unit /\ call[c].heap_end_addr <= k_heap_end
           /\ k_heap_end' = k_heap_end + PageUnits /\ k_heap_end' \in 0..(LowPages * PageUnits)
           /\ IsMemory(memory')
           /\ call[c].heap_end_addr = k_heap_end =>
                 /\ k_heap_end' % PageUnits = 0
                 /\ DOMAIN memory'.pages = 0..(k_heap_end' \div PageUnits - 1)
                 /\ Owned(memory') /\ Accounted(memory') = Accounted(memory)
<1> DEFINE from == call[c].heap_end_addr
           v == from \div PageUnits
<1>1. /\ TypeOK /\ Calls /\ ~damaged /\ call[c].at = "search" /\ ~Exhausted(v)
      /\ memory' = mm_map(pa_alloc(memory).mem, pa_alloc(memory).page, v)
      /\ k_heap_end' = k_heap_end + PageUnits
  BY DEF HeapInv, Grow, Running
<1>2. ~OutOfMemory(memory) /\ (NeedsTable(memory, v) => ~OutOfMemory(pa_alloc(memory).mem))
  BY <1>1 DEF Exhausted
<1>3. IsMemory(memory) /\ Owned(memory)
  BY <1>1 DEF HeapInv, TypeOK, PagesAgree, PagesOwnedOnce, Owned
<1>4. PICK n \in LowPage : k_heap_end = n * PageUnits /\ DOMAIN memory.pages = 0..(n - 1)
  BY <1>1, <1>2, RoomToGrow
<1>5. k_heap_end + PageUnits <= LowPages * PageUnits
  BY <1>1, <1>2, RoomToGrow
<1>6. from \in Nat /\ from <= k_heap_end /\ n \in Nat /\ PageUnits \in Nat \ {0} /\ k_heap_end \in Nat
  BY <1>1, LowPageFinite, Units DEF Calls, TypeOK
<1>7. v \in Nat /\ v <= n /\ v \in LowPage
  <2>1. v \in Nat /\ v <= n
    BY <1>4, <1>6, DivMonotone
  <2> HIDE DEF v
  <2> QED BY <1>4, <2>1, LowPageFinite DEF LowPage
<1>8. from \in Unit
  <2> DEFINE U == LowPages * PageUnits
  <2>1. U \in Nat /\ from < U
    <3> HIDE DEF from
    <3>1. U \in Nat /\ k_heap_end + PageUnits <= U
      BY <1>5, Units
    <3> HIDE DEF U
    <3> QED BY <1>6, <3>1
  <2> QED BY <1>6, <2>1, Units
<1>9. /\ IsMemory(memory') /\ DOMAIN memory'.pages = DOMAIN memory.pages \cup {v}
      /\ v \notin DOMAIN memory.pages => Owned(memory') /\ Accounted(memory') = Accounted(memory)
  <2> HIDE DEF v
  <2> QED BY <1>1, <1>2, <1>3, <1>7, MapFacts
<1>10. k_heap_end' \in 0..(LowPages * PageUnits)
  <2> DEFINE U == LowPages * PageUnits
  <2>1. U \in Nat /\ k_heap_end + PageUnits <= U
    BY <1>5, Units
  <2> HIDE DEF U
  <2>2. k_heap_end' \in 0..U
    BY <1>1, <1>6, <2>1
  <2> QED BY <2>2 DEF U
<1>11. ASSUME from = k_heap_end
       PROVE  /\ k_heap_end' % PageUnits = 0
              /\ DOMAIN memory'.pages = 0..(k_heap_end' \div PageUnits - 1)
              /\ Owned(memory') /\ Accounted(memory') = Accounted(memory)
  <2>1. v = n
    BY <1>4, <1>6, <1>11, DivExact
  <2>2. k_heap_end' = (n + 1) * PageUnits
    BY <1>1, <1>4, <1>6
  <2>3. k_heap_end' % PageUnits = 0 /\ k_heap_end' \div PageUnits = n + 1
    <3> DEFINE q == n + 1
    <3>1. q \in Nat /\ k_heap_end' = q * PageUnits
      BY <1>6, <2>2
    <3> HIDE DEF q
    <3>2. k_heap_end' % PageUnits = 0 /\ k_heap_end' \div PageUnits = q
      BY <1>6, <3>1, DivExact
    <3> QED BY <3>2 DEF q
  <2> HIDE DEF v
  <2>4. v \notin DOMAIN memory.pages /\ 0..(n - 1) \cup {n} = 0..n
    BY <1>4, <1>6, <2>1
  <2>5. (n + 1) - 1 = n
    BY <1>6
  <2> QED BY <1>4, <1>9, <2>1, <2>3, <2>4, <2>5
<1> QED BY <1>1, <1>6, <1>8, <1>9, <1>10, <1>11

(* The new page is the last free chunk's, or a chunk: the chunks tile the   *)
(* grown heap unless the step has damaged it (kmalloc.c:191-208).           *)
LEMMA GrowFacts ==
    ASSUME HeapInv, NEW c \in Context, Grow(c)
    PROVE  /\ UNCHANGED live /\ k_heap_start \subseteq k_heap_start' /\ k_heap_start' \subseteq Unit
           /\ DOMAIN size' = Chunk' /\ \A b \in Chunk' : size'[b] \in Nat
           /\ ~damaged' =>
                 /\ call[c].heap_end_addr = k_heap_end
                 /\ Tiles(Chunk', size', k_heap_end') /\ k_heap_start' \cap live = {}
                 /\ (k_heap_start' \ k_heap_start) \cap Chunk = {}
                 /\ \A b \in k_heap_start : size'[b] >= size[b]
                 /\ \A b \in live : size'[b] = size[b]
                 /\ \A b, d \in k_heap_start' : End(size', b) # d
                 /\ \E r \in k_heap_start' : End(size', r) = k_heap_end'
           /\ ~exposed' => ~damaged'
<1> DEFINE from == call[c].heap_end_addr
           last == Max(k_heap_start)
           e == k_heap_end
           w == size'
<1>1. /\ TypeOK /\ Calls /\ Steady /\ Intact /\ ~damaged /\ call[c].at = "search" /\ UNCHANGED live
      /\ exposed' = (exposed \/ Interrupts(c))
  BY DEF HeapInv, Grow, Running
<1>2. from \in Unit /\ from <= e /\ k_heap_end' = e + PageUnits
  BY GrowPages
<1>3. /\ Tiles(Chunk, size, e) /\ k_heap_start \cap live = {} /\ e \in Nat
      /\ \A b, d \in k_heap_start : End(size, b) # d
  BY <1>1, HeapFacts
<1>4. /\ DOMAIN size = Chunk /\ k_heap_start \subseteq Unit /\ from \in Nat
      /\ PageUnits \in Nat \ {0, 1} /\ \A b \in Chunk : size[b] \in Nat
  BY <1>1, <1>2, Units DEF TypeOK
<1>5. ~exposed' => ~exposed /\ from = e /\ LastFreeEndsHeap
  BY <1>1 DEF Steady, Undisturbed, Intact, Interrupts, Context
<1>6. CASE k_heap_start # {}
  <2>1. /\ size' = [size EXCEPT ![last] = @ + PageUnits] /\ k_heap_start' = k_heap_start
        /\ damaged' = (from # e \/ End(size, last) # from)
    BY <1>6 DEF Grow
  <2>2. last \in k_heap_start
    <3> DEFINE S == k_heap_start
    <3>1. S \in SUBSET Chunk /\ S # {}
      BY <1>6 DEF Chunk
    <3> QED BY <1>3, <3>1, LastFacts
  <2> HIDE DEF last
  <2>3. /\ Chunk' = Chunk /\ last \in Chunk /\ DOMAIN size' = Chunk
        /\ size'[last] = size[last] + PageUnits /\ \A b \in Chunk \ {last} : size'[b] = size[b]
    BY <1>1, <1>4, <2>1, <2>2 DEF Chunk
  <2>4. \A b \in Chunk' : size'[b] \in Nat
    BY <1>4, <2>3
  <2>5. ~exposed' => ~damaged'
    BY <1>5, <1>6, <2>1 DEF LastFreeEndsHeap, last
  <2>6. ASSUME ~damaged'
        PROVE  /\ from = e /\ Tiles(Chunk, w, e + PageUnits) /\ End(w, last) = e + PageUnits
               /\ \A b \in Chunk \ {last} : End(w, b) = End(size, b)
    <3>1. from = e /\ End(size, last) = e
      BY <2>1, <2>6
    <3>2. /\ PageUnits \in Int /\ size[last] + PageUnits \in Nat
          /\ w[last] = size[last] + PageUnits /\ \A b \in Chunk \ {last} : w[b] = size[b]
      BY <1>4, <2>3
    <3> HIDE DEF w, e, from
    <3> QED BY <1>3, <2>3, <3>1, <3>2, TilesResize
  <2>7. ASSUME ~damaged', NEW b \in k_heap_start, NEW d \in k_heap_start PROVE End(w, b) # d
    <3>1. d \in Nat /\ d < End(size, d) /\ End(size, d) <= e /\ End(size, d) \in Nat
      BY <1>3, TilesFacts DEF Chunk
    <3>2. CASE b = last
      BY <1>3, <1>4, <2>6, <2>7, <3>1, <3>2
    <3>3. CASE b # last
      BY <1>3, <2>6, <2>7, <3>3 DEF Chunk
    <3> QED BY <3>2, <3>3
  <2>8. \A b \in live : size'[b] = size[b]
    BY <1>3, <2>2, <2>3 DEF Chunk
  <2>9. \A b \in k_heap_start : size'[b] >= size[b]
    BY <1>4, <2>3 DEF Chunk
  <2>10. ~damaged' => \A b, d \in k_heap_start' : End(size', b) # d
    BY <2>1, <2>7
  <2>11. ~damaged' => Tiles(Chunk', size', k_heap_end') /\ \E r \in k_heap_start' : End(size', r) = k_heap_end'
    BY <1>2, <2>1, <2>2, <2>3, <2>6
  <2> HIDE DEF w
  <2> QED BY <1>1, <1>3, <1>4, <2>1, <2>3, <2>4, <2>5, <2>6, <2>8, <2>9, <2>10, <2>11
<1>7. CASE k_heap_start = {}
  <2>1. /\ size' = Put(size, from, k_heap_end' - from - 1) /\ k_heap_start' = {from}
        /\ damaged' = (from # e)
    BY <1>7 DEF Grow
  <2>2. Chunk' = Chunk \cup {from} /\ DOMAIN size' = Chunk' /\ Chunk = live
    BY <1>1, <1>4, <1>7, <2>1 DEF Chunk, Put, Over
  <2>3. size'[from] = k_heap_end' - from - 1 /\ \A b \in Chunk \ {from} : size'[b] = size[b]
    BY <1>4, <2>1 DEF Put, Over
  <2>4. k_heap_end' - from - 1 \in Nat
    BY <1>2, <1>3, <1>4
  <2>5. \A b \in Chunk' : size'[b] \in Nat
    BY <1>4, <2>2, <2>3, <2>4
  <2>6. ~exposed' => ~damaged'
    BY <1>5, <2>1
  <2>7. ASSUME ~damaged'
        PROVE  /\ from = e /\ e \notin Chunk /\ Tiles(Chunk \cup {e}, w, e + PageUnits)
               /\ End(w, e) = e + PageUnits
    <3>1. from = e /\ w[e] = PageUnits - 1
      <4>1. from = e
        BY <2>1, <2>7
      <4> HIDE DEF w, e, from
      <4>2. w[from] = (e + PageUnits) - from - 1
        BY <1>2, <2>3 DEF w
      <4> QED BY <1>3, <1>4, <4>1, <4>2
    <3>2. e \notin Chunk
      <4> SUFFICES ASSUME e \in Chunk PROVE FALSE
        OBVIOUS
      <4>1. e < End(size, e) /\ End(size, e) <= e /\ End(size, e) = e + 1 + size[e] /\ size[e] \in Nat
        BY <1>3, TilesFacts
      <4> QED BY <1>3, <4>1
    <3>3. PageUnits \in Nat \ {0} /\ \A b \in Chunk : w[b] = size[b]
      BY <1>4, <2>3, <3>1, <3>2
    <3> HIDE DEF w, e, from
    <3> QED BY <1>3, <3>1, <3>2, <3>3, TilesAppend
  <2>8. ~damaged' =>
           /\ Tiles(Chunk', size', k_heap_end') /\ k_heap_start' \cap live = {}
           /\ (k_heap_start' \ k_heap_start) \cap Chunk = {}
           /\ \A b \in live : size'[b] = size[b]
           /\ \A b, d \in k_heap_start' : End(size', b) # d
           /\ \E r \in k_heap_start' : End(size', r) = k_heap_end'
    <3> SUFFICES ASSUME ~damaged'
                 PROVE  /\ Tiles(Chunk', size', k_heap_end') /\ k_heap_start' \cap live = {}
                        /\ (k_heap_start' \ k_heap_start) \cap Chunk = {}
                        /\ \A b \in live : size'[b] = size[b]
                        /\ \A b, d \in k_heap_start' : End(size', b) # d
                        /\ \E r \in k_heap_start' : End(size', r) = k_heap_end'
      OBVIOUS
    <3>1. from = e /\ e \notin Chunk
      BY <2>7
    <3>2. Tiles(Chunk', size', k_heap_end') /\ End(size', e) = k_heap_end'
      BY <1>2, <2>2, <2>7, <3>1
    <3>3. End(size', e) # e
      BY <1>2, <1>3, <1>4, <3>2
    <3> HIDE DEF w, e, from
    <3> QED BY <2>1, <2>2, <2>3, <3>1, <3>2, <3>3
  <2> HIDE DEF w
  <2> QED BY <1>1, <1>2, <1>7, <2>1, <2>2, <2>5, <2>6, <2>8
<1> QED BY <1>6, <1>7

LEMMA GrowInv ==
    ASSUME HeapInv, NEW c \in Context, Grow(c)
    PROVE  HeapInv'
<1> DEFINE n == call[c].alloc_sz
           r == [NoCall EXCEPT !.at = "head", !.alloc_sz = n]
           from == call[c].heap_end_addr
<1>1. /\ TypeOK /\ Calls /\ Walking /\ Steady /\ ~damaged
      /\ call[c].at = "search" /\ n \in Nat /\ (c = "task" => call["irq"].at = "idle")
  BY DEF HeapInv, Grow, Running, TypeOK
<1>2. /\ call' = [call EXCEPT ![c] = r] /\ UNCHANGED panicked
      /\ stale' = (IF c = "task" THEN <<>> ELSE stale)
      /\ exposed' = (exposed \/ Interrupts(c)) /\ damaged' \in BOOLEAN
  BY DEF Grow
<1>3. /\ from \in Unit /\ from <= k_heap_end
      /\ k_heap_end' = k_heap_end + PageUnits /\ k_heap_end' \in 0..(LowPages * PageUnits)
      /\ IsMemory(memory')
      /\ from = k_heap_end =>
            /\ k_heap_end' % PageUnits = 0
            /\ DOMAIN memory'.pages = 0..(k_heap_end' \div PageUnits - 1)
            /\ Owned(memory') /\ Accounted(memory') = Accounted(memory)
  BY GrowPages
<1>4. /\ UNCHANGED live /\ k_heap_start \subseteq k_heap_start' /\ k_heap_start' \subseteq Unit
      /\ DOMAIN size' = Chunk' /\ \A b \in Chunk' : size'[b] \in Nat
      /\ ~damaged' =>
            /\ from = k_heap_end
            /\ Tiles(Chunk', size', k_heap_end') /\ k_heap_start' \cap live = {}
            /\ (k_heap_start' \ k_heap_start) \cap Chunk = {}
            /\ \A b \in k_heap_start : size'[b] >= size[b]
            /\ \A b \in live : size'[b] = size[b]
            /\ \A b, d \in k_heap_start' : End(size', b) # d
            /\ \E x \in k_heap_start' : End(size', x) = k_heap_end'
      /\ ~exposed' => ~damaged'
  BY GrowFacts
<1>5. r \in Locals /\ r.at = "head" /\ r.alloc_sz = n
  BY <1>1, NoCallFacts DEF Locals, Step
<1> HIDE DEF r
<1>6. call' \in [Context -> Locals] /\ call'[c] = r /\ \A d \in Context \ {c} : call'[d] = call[d]
  BY <1>1, <1>2, <1>5, CallFacts
<1>7. k_heap_end \in Nat /\ PageUnits \in Nat /\ \A b \in Chunk : size[b] \in Nat
  BY <1>1, HeapFacts, Units DEF TypeOK
<1> HIDE DEF n, from
<1>8. TypeOK'
  <2>1. live' \subseteq Unit
    BY <1>1, <1>4 DEF TypeOK
  <2>2. DOMAIN stale' \subseteq Unit /\ \A a \in DOMAIN stale' : stale'[a] \in Unit \cup {NIL}
    BY <1>1, <1>2 DEF TypeOK
  <2>3. panicked' \in BOOLEAN /\ exposed' \in BOOLEAN
    BY <1>1, <1>2 DEF TypeOK
  <2> QED BY <1>2, <1>3, <1>4, <1>6, <2>1, <2>2, <2>3 DEF TypeOK, Locals
<1>9. ChunksTile'
  <2>1. Tiling'
    <3>1. CASE damaged'
      BY <3>1 DEF Tiling
    <3>2. CASE ~damaged'
      <4>1. k_heap_start' \in SUBSET Nat /\ live' \in SUBSET Nat /\ k_heap_end' \in Nat
        BY <1>3, <1>8, Units DEF TypeOK
      <4> QED BY <1>4, <3>2, <4>1, NewTiling
    <3> QED BY <3>1, <3>2
  <2>2. Coalesced'
    BY <1>4 DEF Coalesced, End
  <2> QED BY <2>1, <2>2 DEF ChunksTile
<1>10. PagesAgree'
  BY <1>3, <1>4 DEF PagesAgree, MappedExactly, PagesOwnedOnce, Owned, Accounted
<1>11. Intact'
  <2> SUFFICES ASSUME ~exposed' PROVE ~damaged' /\ LastFreeEndsHeap' /\ (k_heap_start' = {} => live' = {})
    BY DEF Intact
  <2>1. PICK x \in k_heap_start' : End(size', x) = k_heap_end'
    BY <1>4
  <2> DEFINE w == size'
             S == k_heap_start'
             e == k_heap_end'
  <2>2. Tiles(Chunk', w, e) /\ S \in SUBSET Chunk' /\ x \in S /\ End(w, x) = e
    BY <1>4, <2>1 DEF Chunk
  <2> HIDE DEF w, S, e
  <2>3. Max(S) = x
    BY <2>2, LastEnds
  <2> QED BY <1>4, <2>1, <2>3 DEF LastFreeEndsHeap, S, End
<1>12. ASSUME ~damaged' PROVE Calls' /\ Walking' /\ Steady'
  <2>1. \A d \in Context : d = "task" \/ d = "irq"
    BY DEF Context
  <2>2. ASSUME NEW d \in Context, d # c PROVE (c = "irq" /\ d = "task") \/ call'[d].at = "idle"
    BY <1>1, <1>6, <2>1, <2>2
  <2>3. Calls'
    <3>1. n \in TaskSizes \cup IrqSizes /\ n # 0
      BY <1>1, HeapAssumption DEF Calls, n
    <3>2. ASSUME NEW d \in Context, d # c, call[d].at = "take"
          PROVE  /\ call[d].chunk \in Chunk'
                 /\ call[d].chunk \in k_heap_start' => size'[call[d].chunk] >= 2 * call[d].alloc_sz
      <4> DEFINE a == call[d].chunk
                 m == 2 * call[d].alloc_sz
      <4>1. a \in Chunk /\ (a \in k_heap_start => size[a] >= m) /\ m \in Nat
        BY <1>1, <3>2 DEF Calls, TypeOK
      <4> HIDE DEF a, m
      <4>2. a \in Chunk' /\ size'[a] \in Nat /\ size[a] \in Nat
        BY <1>4, <1>7, <4>1 DEF Chunk
      <4>3. a \in k_heap_start' => a \in k_heap_start /\ size'[a] >= size[a]
        BY <1>4, <1>12, <4>1
      <4>4. a \in k_heap_start' => size'[a] >= m
        BY <4>1, <4>2, <4>3
      <4> QED BY <4>2, <4>4 DEF a, m
    <3>3. ASSUME NEW d \in Context, d # c, call[d].at \in {"search", "take"}
          PROVE  call[d].heap_end_addr <= k_heap_end'
      <4>1. call[d].heap_end_addr \in Nat /\ call[d].heap_end_addr <= k_heap_end
        BY <1>1, <3>3 DEF Calls, TypeOK
      <4> QED BY <1>3, <1>7, <4>1
    <3> QED BY <1>1, <1>5, <1>6, <3>1, <3>2, <3>3 DEF Calls
  <2>4. Walking'
    <3>1. CASE c = "task"
      <4>1. stale' = <<>> /\ DOMAIN stale' = {}
        BY <1>2, <3>1
      <4> QED BY <1>5, <1>6, <3>1, <4>1 DEF Walking
    <3>2. CASE c = "irq"
      <4>1. stale' = stale /\ call'["task"] = call["task"] /\ Reach \subseteq Reach'
        BY <1>2, <1>4, <1>6, <3>2 DEF Context, Reach
      <4> QED BY <1>1, <1>4, <4>1 DEF Walking
    <3> QED BY <2>1, <3>1, <3>2
  <2>5. Steady'
    <3>1. c = "irq" => exposed' \/ ~(call["task"].at \in {"end", "search", "take"})
      BY <1>2 DEF Interrupts
    <3>2. ASSUME NEW d \in Context, Undisturbed(d)'
          PROVE  call'[d].at \in {"idle", "head"}
      <4>1. CASE d = c
        BY <1>5, <1>6, <4>1
      <4>2. CASE d # c
        <5>1. call'[d].at \in Step /\ call'[d] = call[d]
          BY <1>6, <4>2 DEF Locals
        <5> QED BY <1>2, <2>2, <3>1, <3>2, <4>2, <5>1 DEF Undisturbed, Step
      <4> QED BY <4>1, <4>2
    <3> QED BY <3>2 DEF Steady
  <2> QED BY <2>3, <2>4, <2>5
<1> QED BY <1>8, <1>9, <1>10, <1>11, <1>12 DEF HeapInv

-----------------------------------------------------------------------------
(* A chunk is freed.                                                       *)

(* The last chunk gives up whole pages, and keeps a part of one             *)
(* (kmalloc.c:255-262).                                                     *)
LEMMA SurplusFacts ==
    ASSUME NEW sz \in Nat
    PROVE  /\ Surplus(sz) \in Nat /\ Surplus(sz) * PageUnits \in Nat
           /\ Surplus(sz) * PageUnits <= sz
<1>1. PageUnits \in Nat \ {0}
  BY Units
<1>2. CASE sz > PageUnits
  <2> DEFINE q == (sz - 1) \div PageUnits
  <2>1. sz - 1 \in Nat
    BY <1>1, <1>2
  <2>2. q \in Nat /\ q * PageUnits <= sz - 1
    <3> DEFINE t == sz - 1
    <3>1. t \in Nat
      BY <2>1
    <3> HIDE DEF t
    <3>2. t \div PageUnits \in Nat /\ PageUnits * (t \div PageUnits) <= t
      BY <1>1, <3>1, DivFacts
    <3>3. q = t \div PageUnits
      BY DEF t
    <3> HIDE DEF q
    <3>4. q \in Nat /\ q * PageUnits <= t
      BY <1>1, <3>2, <3>3
    <3> QED BY <3>4 DEF t
  <2>3. Surplus(sz) = q
    BY <1>2 DEF Surplus
  <2> HIDE DEF q
  <2> QED BY <1>1, <2>2, <2>3
<1>3. CASE ~(sz > PageUnits)
  BY <1>1, <1>3 DEF Surplus
<1> QED BY <1>2, <1>3

(* What _kfree() does to the list before it gives pages back: the chunks    *)
(* still tile the heap and no two free ones are adjacent (kmalloc.c:78,     *)
(* 239-262).                                                                *)
LEMMA MergedFacts ==
    ASSUME HeapInv, ~damaged, NEW a \in live
    PROVE  LET S == k_heap_start \cup {a}
               merged == merge_heap(S, size)
               last == Max(DOMAIN merged)
               w == Over(merged, Restrict(size, live \ {a}))
           IN /\ DOMAIN merged \subseteq S /\ DOMAIN merged # {} /\ last \in DOMAIN merged
              /\ \A h \in DOMAIN merged : merged[h] \in Nat /\ w[h] = merged[h] /\ h \notin live \ {a}
              /\ \A b \in live \ {a} : w[b] = size[b]
              /\ DOMAIN w = DOMAIN merged \cup (live \ {a})
              /\ Tiles(DOMAIN merged \cup (live \ {a}), w, k_heap_end)
              /\ \A g, h \in DOMAIN merged : End(w, g) # h
              /\ ~exposed => End(merged, last) = k_heap_end
<1> DEFINE S == k_heap_start \cup {a}
           merged == merge_heap(S, size)
           H == Heads(S, size)
           L == live \ {a}
           last == Max(DOMAIN merged)
           w == Over(merged, Restrict(size, L))
<1>1. TypeOK /\ Intact
  BY DEF HeapInv
<1>2. /\ Tiles(Chunk, size, k_heap_end) /\ k_heap_start \cap live = {}
      /\ DOMAIN size = Chunk
  BY <1>1, HeapFacts DEF TypeOK
<1>3. /\ S \in SUBSET Chunk /\ S # {} /\ Chunk \ S = L /\ S \cap L = {}
  BY <1>2 DEF Chunk
<1>4. DOMAIN merged = H /\ H \subseteq S
  BY DEF merge_heap, Heads
<1>5. DOMAIN w = H \cup L /\ (\A h \in H : w[h] = merged[h]) /\ \A b \in L : w[b] = size[b]
  BY <1>2, <1>3, <1>4 DEF Over, Restrict, Chunk
<1>6. Tiles(H \cup L, w, k_heap_end) /\ \A h \in H : merged[h] \in Nat
  <2>1. MergesTo(Chunk, size, S, w)
    BY <1>3, <1>5 DEF MergesTo
  <2>2. S \in SUBSET Chunk /\ Tiles(Chunk, size, k_heap_end)
    BY <1>2, <1>3
  <2> HIDE DEF S, w, L, H, merged, last
  <2>3. Tiles(Heads(S, size) \cup (Chunk \ S), w, k_heap_end)
    BY <2>1, <2>2, MergeFacts
  <2>4. \A h \in Heads(S, size) : merge_heap(S, size)[h] \in Nat
    BY <2>1, <2>2, MergeFacts
  <2> QED BY <1>3, <2>3, <2>4 DEF H, merged
<1>7. ASSUME NEW h \in H PROVE End(w, h) = RunEnd(S, size, h) /\ End(w, h) \notin H
  <2>1. h \in S /\ h \in Nat /\ merged[h] = RunEnd(S, size, h) - h - 1
    BY <1>2, <1>3, <1>4 DEF merge_heap, Tiles
  <2> HIDE DEF S
  <2>2. RunEnd(S, size, h) \in Nat /\ RunEnd(S, size, h) \notin S
    BY <1>2, <1>3, <2>1, RunFacts
  <2>3. w[h] = merged[h]
    BY <1>5
  <2> HIDE DEF w, merged, H
  <2>4. End(w, h) = RunEnd(S, size, h)
    BY <2>1, <2>2, <2>3 DEF End
  <2> QED BY <1>4, <2>2, <2>4
<1>8. H # {} /\ last \in H /\ ((\E b \in S : End(size, b) = k_heap_end) => RunEnd(S, size, last) = k_heap_end)
  <2> HIDE DEF S
  <2> QED BY <1>2, <1>3, <1>4, MergeLast
<1>9. ASSUME ~exposed PROVE End(merged, last) = k_heap_end
  <2>1. LastFreeEndsHeap /\ k_heap_start # {}
    BY <1>1, <1>9 DEF Intact
  <2> DEFINE K == k_heap_start
  <2>2. K \in SUBSET Chunk /\ K # {}
    BY <2>1 DEF Chunk
  <2>3. Max(K) \in K
    <3> HIDE DEF K
    <3> QED BY <1>2, <2>2, LastFacts
  <2>4. \E b \in S : End(size, b) = k_heap_end
    BY <2>1, <2>3 DEF LastFreeEndsHeap
  <2> HIDE DEF S, merged, H, L, w
  <2>5. End(w, last) = k_heap_end
    BY <1>7, <1>8, <2>4
  <2> HIDE DEF last
  <2> QED BY <1>5, <1>8, <2>5 DEF End
<1>10. \A h \in H : h \notin L
  BY <1>3, <1>4
<1> HIDE DEF S, merged, H, L, w, last
<1>11. /\ DOMAIN merged \subseteq S /\ DOMAIN merged # {} /\ last \in DOMAIN merged
       /\ \A h \in DOMAIN merged : merged[h] \in Nat /\ w[h] = merged[h] /\ h \notin L
       /\ \A b \in L : w[b] = size[b]
       /\ DOMAIN w = DOMAIN merged \cup L
       /\ Tiles(DOMAIN merged \cup L, w, k_heap_end)
       /\ \A g, h \in DOMAIN merged : End(w, g) # h
       /\ ~exposed => End(merged, last) = k_heap_end
  BY <1>4, <1>5, <1>6, <1>7, <1>8, <1>9, <1>10
<1> QED BY <1>11 DEF S, merged, H, L, w, last

(* _kfree() gives up what of the last chunk takes whole pages, as far as    *)
(* the chunk ends the heap, and unmaps just those (kmalloc.c:262-269).      *)
LEMMA ReleaseFacts ==
    ASSUME HeapInv, NEW a \in live, Free(a)
    PROVE  /\ live' = live \ {a} /\ k_heap_start' \subseteq k_heap_start \cup {a} /\ k_heap_start' # {}
           /\ k_heap_start' \cap live' = {}
           /\ DOMAIN size' = Chunk' /\ \A b \in Chunk' : size'[b] \in Nat
           /\ \A b \in live' : size'[b] = size[b]
           /\ \E s \in Nat : /\ s * PageUnits <= k_heap_end /\ k_heap_end' = k_heap_end - s * PageUnits
                             /\ memory' = give_back(memory, (k_heap_end \div PageUnits - s)..(k_heap_end \div PageUnits - 1))
           /\ ~damaged' => Tiles(Chunk', size', k_heap_end') /\ \A g, h \in k_heap_start' : End(size', g) # h
           /\ ~exposed => ~damaged' /\ \E b \in k_heap_start' : End(size', b) = k_heap_end'
<1> DEFINE S == k_heap_start \cup {a}
           merged == merge_heap(S, size)
           H == DOMAIN merged
           L == live \ {a}
           last == Max(H)
           w == Over(merged, Restrict(size, L))
           s == Surplus(merged[last])
           p == s * PageUnits
           new == size'
           e == k_heap_end
<1>1. /\ ~damaged /\ live' = L /\ k_heap_start' = H
      /\ size' = Over([merged EXCEPT ![last] = @ - p], Restrict(size, L))
      /\ k_heap_end' = e - p
      /\ memory' = give_back(memory, (e \div PageUnits - s)..(e \div PageUnits - 1))
      /\ damaged' = (s > 0 /\ End(merged, last) # e)
  BY DEF Free, Running
<1>2. /\ H \subseteq S /\ H # {} /\ last \in H
      /\ \A h \in H : merged[h] \in Nat /\ w[h] = merged[h] /\ h \notin L
      /\ \A b \in L : w[b] = size[b]
      /\ DOMAIN w = H \cup L
      /\ Tiles(H \cup L, w, e)
      /\ \A g, h \in H : End(w, g) # h
      /\ ~exposed => End(merged, last) = e
  BY <1>1, MergedFacts
<1>3. DOMAIN merged = H /\ DOMAIN Restrict(size, L) = L
  <2>1. L \subseteq DOMAIN size
    BY DEF HeapInv, TypeOK, Chunk
  <2> QED BY <2>1 DEF Restrict
<1> HIDE DEF merged, w, last
<1>4. s \in Nat /\ p \in Nat /\ p <= merged[last]
  BY <1>2, SurplusFacts
<1>5. e \in Nat /\ PageUnits \in Nat \ {0}
  BY <1>1, HeapFacts, Units
<1> HIDE DEF s, p
<1>6. /\ DOMAIN new = H \cup L /\ new[last] = w[last] - p
      /\ \A b \in (H \cup L) \ {last} : new[b] = w[b]
  <2>1. DOMAIN [merged EXCEPT ![last] = @ - p] = H
    BY <1>3
  <2>2. DOMAIN new = H \cup L
    BY <1>1, <1>3, <2>1 DEF Over
  <2>3. new[last] = w[last] - p
    BY <1>1, <1>2, <1>3 DEF Over
  <2>4. ASSUME NEW b \in (H \cup L) \ {last} PROVE new[b] = w[b]
    BY <1>1, <1>2, <1>3, <2>1, <2>2 DEF Over, w
  <2> QED BY <2>2, <2>3, <2>4
<1> HIDE DEF H, L, new, e
<1>7. last < End(w, last) /\ End(w, last) <= e /\ End(w, last) = last + 1 + w[last] /\ last \in Nat
  BY <1>2, TilesFacts
<1>8. w[last] \in Nat /\ w[last] = merged[last] /\ w[last] - p \in Nat /\ p <= e
  BY <1>2, <1>4, <1>5, <1>7
<1>9. \A b \in H \cup L : w[b] \in Nat
  BY <1>2 DEF Tiles
<1>10. \A b \in H \cup L : new[b] \in Nat
  BY <1>6, <1>8, <1>9
<1>11. last \notin L /\ \A b \in L : new[b] = size[b]
  BY <1>2, <1>6
<1>12. ASSUME ~damaged'
       PROVE  /\ Tiles(H \cup L, new, e - p) /\ \A g, h \in H : End(new, g) # h
              /\ End(w, last) = e => End(new, last) = e - p
  <2>1. CASE s = 0
    <3>1. p = 0 /\ e - p = e
      BY <1>5, <2>1 DEF p
    <3>2. \A b \in H \cup L : new[b] = w[b]
      BY <1>2, <1>6, <1>8, <3>1
    <3>3. Tiles(H \cup L, new, e) /\ \A b \in H \cup L : End(new, b) = End(w, b)
      <4> DEFINE C == H \cup L
      <4>1. Tiles(C, w, e) /\ \A b \in C : new[b] = w[b]
        BY <1>2, <3>2
      <4> HIDE DEF C
      <4>2. Tiles(C, new, e) /\ \A b \in C : End(new, b) = End(w, b)
        BY <4>1, TilesSame
      <4> QED BY <4>2 DEF C
    <3> QED BY <1>2, <3>1, <3>3
  <2>2. CASE s # 0
    <3>1. End(w, last) = e
      <4>1. s > 0
        BY <1>4, <2>2
      <4>2. End(merged, last) = e
        BY <1>1, <1>12, <4>1
      <4> QED BY <1>8, <4>2 DEF End
    <3>2. /\ Tiles(H \cup L, new, e - p) /\ End(new, last) = e - p
          /\ \A b \in (H \cup L) \ {last} : End(new, b) = End(w, b)
      <4> DEFINE q == 0 - p
                 C == H \cup L
      <4>1. /\ q \in Int /\ w[last] + q \in Nat /\ new[last] = w[last] + q /\ e + q = e - p
            /\ last \in C /\ Tiles(C, w, e) /\ \A b \in C \ {last} : new[b] = w[b]
        BY <1>2, <1>4, <1>5, <1>6, <1>8
      <4> HIDE DEF q, C
      <4>2. /\ Tiles(C, new, e + q) /\ End(new, last) = e + q
            /\ \A b \in C \ {last} : End(new, b) = End(w, b)
        BY <3>1, <4>1, TilesResize
      <4> QED BY <4>1, <4>2 DEF C
    <3>3. ASSUME NEW g \in H, NEW h \in H PROVE End(new, g) # h
      <4>1. h < End(new, h) /\ End(new, h) <= e - p /\ h \in Nat /\ End(new, h) \in Nat
        BY <3>2, TilesFacts
      <4>2. CASE g = last
        BY <1>4, <1>5, <3>2, <4>1, <4>2
      <4>3. CASE g # last
        BY <1>2, <3>2, <4>3
      <4> QED BY <4>2, <4>3
    <3> QED BY <3>2, <3>3
  <2> QED BY <2>1, <2>2
<1>13. ASSUME ~exposed PROVE ~damaged' /\ \E b \in H : End(new, b) = e - p
  <2>1. End(merged, last) = e /\ End(w, last) = e
    BY <1>2, <1>8, <1>13 DEF End
  <2>2. ~damaged'
    BY <1>1, <2>1
  <2> QED BY <1>2, <1>12, <2>1, <2>2
<1>14. Chunk' = H \cup L
  BY <1>1 DEF Chunk
<1>15. \E t \in Nat : /\ t * PageUnits <= k_heap_end /\ k_heap_end' = k_heap_end - t * PageUnits
                      /\ memory' = give_back(memory, (k_heap_end \div PageUnits - t)..(k_heap_end \div PageUnits - 1))
  BY <1>1, <1>4, <1>8 DEF e, p
<1>16. H \subseteq k_heap_start \cup {a} /\ H \cap L = {}
  BY <1>2
<1>17. ~damaged' => Tiles(Chunk', size', k_heap_end') /\ \A g, h \in k_heap_start' : End(size', g) # h
  BY <1>1, <1>12, <1>14 DEF new
<1>18. ~exposed => ~damaged' /\ \E b \in k_heap_start' : End(size', b) = k_heap_end'
  BY <1>1, <1>13 DEF new
<1>19. DOMAIN size' = Chunk' /\ (\A b \in Chunk' : size'[b] \in Nat) /\ \A b \in live' : size'[b] = size[b]
  BY <1>1, <1>6, <1>10, <1>11, <1>14 DEF new
<1> HIDE DEF S
<1> QED BY <1>1, <1>2, <1>15, <1>16, <1>17, <1>18, <1>19 DEF L

LEMMA ReleasePages ==
    ASSUME HeapInv, NEW a \in live, Free(a)
    PROVE  /\ k_heap_end' \in 0..(LowPages * PageUnits) /\ k_heap_end' % PageUnits = 0
           /\ DOMAIN memory'.pages = 0..(k_heap_end' \div PageUnits - 1)
           /\ IsMemory(memory') /\ Owned(memory') /\ Accounted(memory') = Accounted(memory)
<1> DEFINE n == k_heap_end \div PageUnits
           d == PageUnits
           m == memory
<1>1. PICK s \in Nat : /\ s * d <= k_heap_end /\ k_heap_end' = k_heap_end - s * d
                       /\ memory' = give_back(m, (n - s)..(n - 1))
  BY ReleaseFacts
<1>2. ~damaged /\ TypeOK /\ PagesAgree
  BY DEF HeapInv, Free, Running
<1>3. /\ d \in Nat \ {0} /\ k_heap_end \in Nat /\ k_heap_end % d = 0
      /\ DOMAIN m.pages = 0..(n - 1) /\ IsMemory(m) /\ Owned(m)
  BY <1>2, HeapFacts, Units DEF TypeOK, PagesAgree, MappedExactly, PagesOwnedOnce, Owned
<1>4. n \in Nat /\ k_heap_end = d * n
  <2>1. n \in Nat /\ k_heap_end = d * n + (k_heap_end % d)
    BY <1>3, DivFacts
  <2> HIDE DEF n, d
  <2> QED BY <1>3, <2>1
<1> HIDE DEF n, d, m
<1>5. s <= n
  <2> SUFFICES ASSUME s >= n + 1 PROVE FALSE
    BY <1>4
  <2> DEFINE r == s - (n + 1)
  <2>1. r \in Nat /\ s = n + 1 + r
    BY <1>4
  <2> HIDE DEF r
  <2>2. s * d = d * n + d + r * d /\ r * d \in Nat
    BY <1>3, <1>4, <2>1
  <2> QED BY <1>1, <1>3, <1>4, <2>2
<1> DEFINE q == n - s
           V == q..(n - 1)
<1>6. q \in Nat /\ k_heap_end' = q * d
  <2>1. (n - s) * d = d * n - s * d
    BY <1>3, <1>4
  <2> QED BY <1>1, <1>4, <1>5, <2>1
<1>7. V \in SUBSET DOMAIN m.pages /\ (0..(n - 1)) \ V = 0..(q - 1)
  BY <1>3, <1>4, <1>5, <1>6
<1> HIDE DEF q
<1>8. k_heap_end' % d = 0 /\ k_heap_end' \div d = q
  BY <1>3, <1>6, DivExact
<1>9. /\ IsMemory(memory') /\ DOMAIN memory'.pages = DOMAIN m.pages \ V
      /\ Owned(memory') /\ Accounted(memory') = Accounted(m)
  <2>1. memory' = give_back(m, V)
    BY <1>1 DEF q
  <2> HIDE DEF V
  <2> QED BY <1>3, <1>7, <2>1, GiveBackFacts
<1>10. k_heap_end' \in 0..(LowPages * PageUnits)
  <2> DEFINE U == LowPages * PageUnits
             t == s * d
  <2>1. k_heap_end \in 0..U /\ U \in Nat /\ t \in Nat
    BY <1>2, <1>3, Units DEF TypeOK
  <2>2. t <= k_heap_end /\ k_heap_end' = k_heap_end - t
    BY <1>1
  <2> HIDE DEF U, t
  <2>3. k_heap_end' \in 0..U
    BY <2>1, <2>2
  <2> QED BY <2>3 DEF U
<1> HIDE DEF V
<1> QED BY <1>3, <1>7, <1>8, <1>9, <1>10 DEF d, m

LEMMA FreeInv ==
    ASSUME HeapInv, NEW a \in live, Free(a)
    PROVE  HeapInv'
<1>1. /\ TypeOK /\ Calls /\ Walking /\ ~damaged /\ call["task"].at = "idle" /\ call["irq"].at = "idle"
      /\ UNCHANGED <<stale, call, exposed, panicked>> /\ damaged' \in BOOLEAN
  BY DEF HeapInv, Free, Running
<1>2. /\ live' = live \ {a} /\ k_heap_start' \subseteq k_heap_start \cup {a} /\ k_heap_start' # {}
      /\ k_heap_start' \cap live' = {}
      /\ DOMAIN size' = Chunk' /\ \A b \in Chunk' : size'[b] \in Nat
      /\ ~damaged' => Tiles(Chunk', size', k_heap_end') /\ \A g, h \in k_heap_start' : End(size', g) # h
      /\ ~exposed => ~damaged' /\ \E b \in k_heap_start' : End(size', b) = k_heap_end'
  BY ReleaseFacts
<1>3. /\ k_heap_end' \in 0..(LowPages * PageUnits) /\ k_heap_end' % PageUnits = 0
      /\ DOMAIN memory'.pages = 0..(k_heap_end' \div PageUnits - 1)
      /\ IsMemory(memory') /\ Owned(memory')
  BY ReleasePages
<1>4. \A c \in Context : call[c].at = "idle"
  BY <1>1 DEF Context
<1>5. TypeOK'
  BY <1>1, <1>2, <1>3 DEF TypeOK
<1>6. ChunksTile'
  <2>1. Tiling'
    <3>1. CASE damaged'
      BY <3>1 DEF Tiling
    <3>2. CASE ~damaged'
      <4>1. k_heap_start' \in SUBSET Nat /\ live' \in SUBSET Nat /\ k_heap_end' \in Nat
        BY <1>3, <1>5, Units DEF TypeOK
      <4> QED BY <1>2, <3>2, <4>1, NewTiling
    <3> QED BY <3>1, <3>2
  <2>2. Coalesced'
    BY <1>2 DEF Coalesced, End
  <2> QED BY <2>1, <2>2 DEF ChunksTile
<1>7. PagesAgree'
  BY <1>3 DEF PagesAgree, MappedExactly, PagesOwnedOnce, Owned, Accounted
<1>8. Intact'
  <2> SUFFICES ASSUME ~exposed' PROVE ~damaged' /\ LastFreeEndsHeap' /\ (k_heap_start' = {} => live' = {})
    BY DEF Intact
  <2>1. PICK b \in k_heap_start' : End(size', b) = k_heap_end'
    BY <1>1, <1>2
  <2> DEFINE w == size'
             S == k_heap_start'
             e == k_heap_end'
  <2>2. Tiles(Chunk', w, e) /\ S \in SUBSET Chunk' /\ b \in S /\ End(w, b) = e
    BY <1>1, <1>2, <2>1 DEF Chunk
  <2> HIDE DEF w, S, e
  <2>3. Max(S) = b
    BY <2>2, LastEnds
  <2> QED BY <1>1, <1>2, <2>1, <2>3 DEF LastFreeEndsHeap, S, End
<1>9. Calls' /\ Walking' /\ Steady'
  <2>1. Calls'
    BY <1>1, <1>4 DEF Calls
  <2>2. Walking'
    BY <1>1 DEF Walking
  <2>3. Steady'
    BY <1>1, <1>4 DEF Steady
  <2> QED BY <2>1, <2>2, <2>3
<1> QED BY <1>5, <1>6, <1>7, <1>8, <1>9 DEF HeapInv

-----------------------------------------------------------------------------
(* The invariant.                                                          *)

LEMMA InitHeap == Init => HeapInv
<1> SUFFICES ASSUME Init PROVE HeapInv
  OBVIOUS
<1>1. PICK map \in MemoryMaps : memory = mm_init(map)
  BY DEF Init
<1>2. IsMemory(memory) /\ Owned(memory) /\ DOMAIN memory.pages = {}
  BY <1>1, BootFacts
<1>3. /\ k_heap_start = {} /\ live = {} /\ k_heap_end = 0 /\ DOMAIN size = {} /\ DOMAIN stale = {}
      /\ call = [c \in Context |-> NoCall] /\ damaged = FALSE /\ exposed = FALSE /\ panicked = FALSE
  BY DEF Init
<1>4. \A c \in Context : call[c] = NoCall
  BY <1>3
<1>5. TypeOK
  <2>1. call \in [Context -> Locals]
    BY <1>3, NoCallFacts
  <2>2. 0 \in 0..(LowPages * PageUnits)
    BY Units
  <2> QED BY <1>2, <1>3, <2>1, <2>2 DEF TypeOK, Chunk, Locals
<1>6. ChunksTile
  BY <1>3 DEF ChunksTile, Tiling, Coalesced, Chunk
<1>7. PagesAgree
  <2>1. 0 % PageUnits = 0 /\ 0 \div PageUnits = 0
    BY Units
  <2> QED BY <1>2, <1>3, <2>1 DEF PagesAgree, MappedExactly, PagesOwnedOnce, Owned
<1>8. Intact
  BY <1>3 DEF Intact, LastFreeEndsHeap
<1>9. Calls /\ Walking /\ Steady
  BY <1>3, <1>4, NoCallFacts DEF Calls, Walking, Steady, Context
<1> QED BY <1>5, <1>6, <1>7, <1>8, <1>9 DEF HeapInv

LEMMA NextHeap == HeapInv /\ [Next]_vars => HeapInv'
<1> SUFFICES ASSUME HeapInv, [Next]_vars PROVE HeapInv'
  OBVIOUS
<1>1. ASSUME NEW c \in Context, Call(c) PROVE HeapInv'
  BY <1>1, CallInv
<1>2. ASSUME NEW c \in Context, ReadHead(c) PROVE HeapInv'
  BY <1>2, ReadHeadInv
<1>3. ASSUME NEW c \in Context, ReadEnd(c) PROVE HeapInv'
  BY <1>3, ReadEndInv
<1>4. ASSUME NEW c \in Context, Search(c) PROVE HeapInv'
  BY <1>4, SearchInv
<1>5. ASSUME NEW c \in Context, Take(c) PROVE HeapInv'
  BY <1>5, TakeInv
<1>6. ASSUME NEW c \in Context, TakeTaken(c) PROVE HeapInv'
  BY <1>6, TakeTakenInv
<1>7. ASSUME NEW c \in Context, Grow(c) PROVE HeapInv'
  BY <1>7, GrowInv
<1>8. ASSUME NEW c \in Context, GrowPanics(c) PROVE HeapInv'
  BY <1>8, GrowPanicsInv
<1>9. ASSUME NEW a \in live, Free(a) PROVE HeapInv'
  BY <1>9, FreeInv
<1>10. CASE UNCHANGED vars
  <2>1. ChunksTile' /\ PagesAgree' /\ Intact'
    BY <1>10, Kept DEF vars
  <2>2. TypeOK'
    BY <1>10 DEF vars, HeapInv, TypeOK, Chunk
  <2>3. ~damaged' => Calls' /\ Walking' /\ Steady'
    BY <1>10 DEF vars, HeapInv, Calls, Walking, Steady, Reach, Chunk, Undisturbed
  <2> QED BY <2>1, <2>2, <2>3 DEF HeapInv
<1> QED BY <1>1, <1>2, <1>3, <1>4, <1>5, <1>6, <1>7, <1>8, <1>9, <1>10 DEF Next, Kmalloc

(* HeapInv holds in every state the heap can reach.                         *)
LEMMA HeapInvariant == Spec => []HeapInv
BY InitHeap, NextHeap, PTL DEF Spec

(* The fields keep their types, after a step that damages the heap too.     *)
THEOREM HeapTypeOK == Spec => []TypeOK
<1>1. HeapInv => TypeOK
  BY DEF HeapInv
<1> QED BY <1>1, HeapInvariant, PTL

(* Splitting (kmalloc.c:142-151), merging (kmalloc.c:253-257), growing      *)
(* (kmalloc.c:195-205) and shrinking (kmalloc.c:264-265) leave chunks that  *)
(* cover the heap without gap or overlap, the free ones never adjacent.     *)
THEOREM HeapChunksTile == Spec => []ChunksTile
<1>1. HeapInv => ChunksTile
  BY DEF HeapInv
<1> QED BY <1>1, HeapInvariant, PTL

(* The heap's pages are mapped, no other, and every page is free, mapped or *)
(* a page table and never two of these; LowRamFreeCount counts the free     *)
(* ones (mm.c:99-123, kmalloc.c:187-190, 263-269).                          *)
THEOREM HeapPagesAgree == Spec => []PagesAgree
<1>1. HeapInv => PagesAgree
  BY DEF HeapInv
<1> QED BY <1>1, HeapInvariant, PTL

(* Nothing damages the heap before an interrupt allocates in a task's       *)
(* search, or a request of one unit takes two at the heap end               *)
(* (kmalloc.c:100, 123, 157, 191-195).                                      *)
THEOREM HeapSoundHeap == Spec => []SoundHeap
<1>1. HeapInv => SoundHeap
  BY DEF HeapInv, Intact, SoundHeap
<1> QED BY <1>1, HeapInvariant, PTL

(* Pages move between the bitmap and the mapping, and none gets lost        *)
(* (kmalloc.c:187-188, 266-268).                                            *)
THEOREM HeapNoPageLeaks == Spec => NoPageLeaks
<1>1. HeapInv /\ [Next]_vars => [damaged' \/ Accounted(memory') = Accounted(memory)]_vars
  <2> SUFFICES ASSUME HeapInv, Next PROVE damaged' \/ Accounted(memory') = Accounted(memory)
    OBVIOUS
  <2>1. ASSUME NEW c \in Context, Grow(c) PROVE damaged' \/ Accounted(memory') = Accounted(memory)
    BY <2>1, GrowFacts, GrowPages
  <2>2. ASSUME NEW a \in live, Free(a) PROVE Accounted(memory') = Accounted(memory)
    BY <2>2, ReleasePages
  <2>3. ASSUME NEW c \in Context,
               Call(c) \/ ReadHead(c) \/ ReadEnd(c) \/ Search(c) \/ Take(c) \/ TakeTaken(c) \/ GrowPanics(c)
        PROVE  Accounted(memory') = Accounted(memory)
    <3>1. memory' = memory
      BY <2>3 DEF Call, ReadHead, ReadEnd, Search, Take, TakeTaken, GrowPanics
    <3> QED BY <3>1
  <2> QED BY <2>1, <2>2, <2>3 DEF Next, Kmalloc
<1> QED BY <1>1, HeapInvariant, PTL DEF Spec, NoPageLeaks

-----------------------------------------------------------------------------
(* The refinement of BlockStore.                                           *)

BlockOf(a) == [at |-> a + 1, length |-> size[a]]
Blocks == {BlockOf(a) : a \in live}
Wanted == [c \in Context |-> call[c].alloc_sz]

(* Blocks are told apart by where they are.                                *)
LEMMA BlockFacts ==
    ASSUME HeapInv
    PROVE  /\ \A a, b \in Nat : BlockOf(a) = BlockOf(b) => a = b
           /\ \A a \in live : a \in Nat /\ size[a] \in Nat /\ BlockOf(a) \in Store!Block
<1>1. \A a \in live : a \in Nat /\ size[a] \in Nat
  BY Units DEF HeapInv, TypeOK, Chunk
<1>2. \A a \in Nat : BlockOf(a).at = a + 1
  BY DEF BlockOf
<1>3. \A a, b \in Nat : a + 1 = b + 1 => a = b
  OBVIOUS
<1>4. \A a, b \in Nat : BlockOf(a) = BlockOf(b) => a = b
  BY <1>2, <1>3
<1>5. \A a \in live : BlockOf(a) \in Store!Block
  BY <1>1 DEF BlockOf, Store!Block
<1> QED BY <1>1, <1>4, <1>5

(* Taking a chunk answers the call.                                        *)
LEMMA TakeAnswers ==
    ASSUME HeapInv, HeapInv', NEW c \in Context, Take(c)
    PROVE  Store!Answer(c)
<1> DEFINE a == call[c].chunk
           n == call[c].alloc_sz
           new == [at |-> a + 1, length |-> size'[a]]
<1>1. /\ TypeOK /\ Calls /\ ~damaged /\ call[c].at = "take" /\ n \in Nat
      /\ call' = [call EXCEPT ![c] = NoCall]
  BY DEF HeapInv, Take, Running, TypeOK
<1>2. /\ a \in k_heap_start /\ live' = live \cup {a} /\ UNCHANGED <<k_heap_end, damaged>>
      /\ Tiles(Chunk', size', k_heap_end)
      /\ size'[a] >= n /\ \A b \in Chunk \ {a} : size'[b] = size[b]
  BY TakeFacts
<1>3. k_heap_start \cap live = {} /\ a \in Nat
  BY <1>1, <1>2, HeapFacts
<1> HIDE DEF a, n
<1>4. \A b \in live : size'[b] = size[b] /\ BlockOf(b)' = BlockOf(b)
  BY <1>2, <1>3 DEF Chunk, BlockOf
<1>5. n # 0 /\ Wanted' = [Wanted EXCEPT ![c] = 0]
  <2>1. n # 0
    BY <1>1, HeapAssumption DEF Calls, n
  <2>2. \A d \in Context : call'[d].alloc_sz = IF d = c THEN 0 ELSE call[d].alloc_sz
    BY <1>1, NoCallFacts DEF TypeOK
  <2> QED BY <2>1, <2>2 DEF Wanted
<1>6. size'[a] \in Nat /\ new \in Store!Block
  <2>1. a \in live'
    BY <1>2
  <2>2. size'[a] \in Nat
    BY <1>2, <2>1 DEF Tiles, Chunk
  <2> QED BY <1>3, <2>2 DEF Store!Block
<1>7. Blocks' = Blocks \cup {new} /\ new \notin Blocks
  <2>1. Blocks' = Blocks \cup {new}
    <3> DEFINE B(x) == [at |-> x + 1, length |-> size'[x]]
    <3>1. Blocks' = {B(b) : b \in live \cup {a}} /\ B(a) = new
      BY <1>2 DEF Blocks, BlockOf
    <3>2. \A b \in live : B(b) = BlockOf(b)
      BY <1>4 DEF BlockOf
    <3> HIDE DEF B, new
    <3> QED BY <3>1, <3>2 DEF Blocks
  <2>2. ASSUME NEW b \in live, BlockOf(b) = new PROVE FALSE
    <3>1. BlockOf(b).at = b + 1 /\ new.at = a + 1 /\ b \in Nat
      BY BlockFacts DEF BlockOf
    <3> QED BY <1>2, <1>3, <2>2, <3>1
  <2> QED BY <2>1, <2>2 DEF Blocks
<1>8. ASSUME NEW b \in live PROVE Store!Cells(BlockOf(b)) \cap Store!Cells(new) = {}
  <2> DEFINE w == size'
  <2>1. Tiles(Chunk', w, k_heap_end) /\ a \in Chunk' /\ b \in Chunk' /\ a # b
    BY <1>2, <1>3 DEF Chunk
  <2>2. Store!Cells(BlockOf(b)) = (b + 1)..(b + 1 + w[b] - 1) /\ Store!Cells(new) = (a + 1)..(a + 1 + w[a] - 1)
    BY <1>4 DEF Store!Cells, BlockOf
  <2> HIDE DEF w, new
  <2>3. End(w, a) <= b \/ End(w, b) <= a
    BY <2>1 DEF Tiles
  <2>4. a \in Nat /\ b \in Nat /\ w[a] \in Nat /\ w[b] \in Nat /\ End(w, a) = a + 1 + w[a] /\ End(w, b) = b + 1 + w[b]
    BY <2>1, TilesFacts
  <2> QED BY <2>2, <2>3, <2>4
<1>9. \A b \in Blocks : Store!Cells(b) \cap Store!Cells(new) = {}
  BY <1>8 DEF Blocks
<1>10. new.length >= n /\ Wanted[c] = n
  BY <1>2, <1>6 DEF Wanted, n
<1> HIDE DEF new
<1> QED BY <1>2, <1>5, <1>6, <1>7, <1>9, <1>10 DEF Store!Answer, Blocks, BlockOf, Wanted

(* Every step of the heap is one of BlockStore's, or changes nothing there. *)
LEMMA StoreStep ==
    ASSUME HeapInv, HeapInv', [Next]_vars
    PROVE  [Store!Next]_(Store!vars)
<1>1. ASSUME NEW c \in Context, Call(c) PROVE Store!Next
  <2>1. PICK sz \in TaskSizes \cup IrqSizes : call' = [call EXCEPT ![c] = [NoCall EXCEPT !.at = "head", !.alloc_sz = sz]]
    BY <1>1 DEF Call
  <2> DEFINE r == [NoCall EXCEPT !.at = "head", !.alloc_sz = sz]
  <2>2. r.alloc_sz = sz
    BY NoCallFacts DEF Locals
  <2> HIDE DEF r
  <2>3. TypeOK /\ Calls /\ call[c].at = "idle" /\ UNCHANGED <<live, size, damaged>> /\ call' = [call EXCEPT ![c] = r]
    BY <1>1, <2>1 DEF HeapInv, Call, Running, r
  <2>4. Wanted[c] = 0 /\ Wanted' = [Wanted EXCEPT ![c] = sz]
    <3>1. \A d \in Context : call'[d].alloc_sz = IF d = c THEN sz ELSE call[d].alloc_sz
      BY <2>2, <2>3 DEF TypeOK
    <3>2. call[c].alloc_sz = 0
      BY <2>3 DEF Calls
    <3> QED BY <3>1, <3>2 DEF Wanted
  <2>5. Blocks' = Blocks
    BY <2>3 DEF Blocks, BlockOf
  <2>6. Store!Ask(c, sz)
    BY <2>3, <2>4, <2>5 DEF Store!Ask, Wanted, Blocks, BlockOf
  <2> QED BY <2>6 DEF Store!Next
<1>2. ASSUME NEW c \in Context, ReadHead(c) \/ ReadEnd(c) \/ Search(c)
      PROVE  UNCHANGED Store!vars
  <2>1. TypeOK /\ UNCHANGED <<live, size, damaged>>
    BY <1>2 DEF HeapInv, ReadHead, ReadEnd, Search
  <2>2. PICK at, chunk, e : Local(c, at, chunk, e)
    BY <1>2 DEF ReadHead, ReadEnd, Search
  <2>3. \A d \in Context : call'[d].alloc_sz = call[d].alloc_sz
    BY <2>1, <2>2 DEF TypeOK, Local
  <2>4. Wanted' = Wanted /\ Blocks' = Blocks
    BY <2>1, <2>3 DEF Wanted, Blocks, BlockOf
  <2> QED BY <2>1, <2>4 DEF Store!vars, Wanted, Blocks, BlockOf
<1>3. ASSUME NEW c \in Context, Take(c) PROVE Store!Next
  <2>1. Store!Answer(c)
    BY <1>3, TakeAnswers
  <2> QED BY <2>1 DEF Store!Next
<1>4. ASSUME ~damaged, damaged' PROVE Store!Next
  <2>1. Store!Spoil
    BY <1>4 DEF Store!Spoil
  <2> QED BY <2>1 DEF Store!Next
<1>5. ASSUME NEW c \in Context, TakeTaken(c) PROVE Store!Next
  <2>1. ~damaged /\ damaged'
    BY <1>5 DEF TakeTaken, Running
  <2> QED BY <1>4, <2>1
<1>6. ASSUME NEW c \in Context, Grow(c), ~damaged' PROVE UNCHANGED Store!vars
  <2> DEFINE r == [NoCall EXCEPT !.at = "head", !.alloc_sz = call[c].alloc_sz]
  <2>1. TypeOK /\ ~damaged /\ call' = [call EXCEPT ![c] = r] /\ damaged' \in BOOLEAN
    BY <1>6 DEF HeapInv, Grow, Running
  <2>2. r.alloc_sz = call[c].alloc_sz
    BY NoCallFacts DEF Locals
  <2> HIDE DEF r
  <2>3. \A d \in Context : call'[d].alloc_sz = call[d].alloc_sz
    BY <2>1, <2>2 DEF TypeOK
  <2>4. live' = live /\ \A b \in live : size'[b] = size[b]
    BY <1>6, GrowFacts
  <2>5. Wanted' = Wanted /\ Blocks' = Blocks
    BY <2>3, <2>4 DEF Wanted, Blocks, BlockOf
  <2>6. damaged' = damaged
    BY <1>6, <2>1 DEF HeapInv, TypeOK
  <2> QED BY <2>5, <2>6 DEF Store!vars, Wanted, Blocks, BlockOf
<1>7. ASSUME NEW c \in Context, GrowPanics(c) PROVE UNCHANGED Store!vars
  BY <1>7 DEF GrowPanics, Store!vars
<1>8. ASSUME NEW a \in live, Free(a), ~damaged' PROVE Store!Next
  <2>1. ~damaged /\ call' = call /\ damaged' \in BOOLEAN
    BY <1>8 DEF Free, Running
  <2>2. live' = live \ {a} /\ \A b \in live' : size'[b] = size[b]
    BY <1>8, ReleaseFacts
  <2>3. Blocks' = Blocks \ {BlockOf(a)}
    <3>1. Blocks' = {BlockOf(b) : b \in live \ {a}}
      BY <2>2 DEF Blocks, BlockOf
    <3>2. \A b \in live : BlockOf(b) = BlockOf(a) => b = a
      BY BlockFacts
    <3> HIDE DEF BlockOf
    <3> QED BY <3>1, <3>2 DEF Blocks
  <2>4. damaged' = damaged
    BY <1>8, <2>1 DEF HeapInv, TypeOK
  <2>5. PICK b \in {[at |-> x + 1, length |-> size[x]] : x \in live} : b = BlockOf(a)
    BY DEF BlockOf
  <2>6. Store!GiveBack(b)
    BY <2>1, <2>3, <2>4, <2>5 DEF Store!GiveBack, Blocks, BlockOf
  <2> QED BY <2>6 DEF Store!Next
<1>9. CASE UNCHANGED vars
  BY <1>9 DEF vars, Store!vars
<1>10. ASSUME NEW a \in live, Free(a) PROVE ~damaged
  BY <1>10 DEF Free, Running
<1>11. ASSUME NEW c \in Context, Grow(c) PROVE ~damaged
  BY <1>11 DEF Grow, Running
<1> QED
  <2>1. CASE \E c \in Context : Grow(c)
    BY <1>4, <1>6, <1>11, <2>1
  <2>2. CASE \E a \in live : Free(a)
    BY <1>4, <1>8, <1>10, <2>2
  <2>3. CASE \E c \in Context : Call(c) \/ ReadHead(c) \/ ReadEnd(c) \/ Search(c) \/ Take(c) \/ TakeTaken(c) \/ GrowPanics(c)
    BY <1>1, <1>2, <1>3, <1>5, <1>7, <2>3
  <2> QED BY <1>9, <2>1, <2>2, <2>3 DEF Next, Kmalloc

(* kmalloc() and kfree() keep the promise of BlockStore until the heap is   *)
(* damaged: whatever an interrupt allocates in a task's search, a block     *)
(* holds the request and no cell of another's (kmalloc.c:65-270).           *)
THEOREM HeapIsBlockStore == Spec => ImplementsBlockStore
<1>1. Init => Store!Init
  <2> SUFFICES ASSUME Init PROVE Store!Init
    OBVIOUS
  <2>1. live = {} /\ damaged = FALSE /\ \A c \in Context : call[c] = NoCall
    BY DEF Init
  <2>2. Wanted = [c \in Context |-> 0] /\ Blocks = {}
    BY <2>1, NoCallFacts DEF Wanted, Blocks
  <2> QED BY <2>1, <2>2 DEF Store!Init, Wanted, Blocks, BlockOf
<1>2. HeapInv /\ HeapInv' /\ [Next]_vars => [Store!Next]_(Store!vars)
  BY StoreStep
<1> QED BY <1>1, <1>2, HeapInvariant, PTL DEF Spec, ImplementsBlockStore, Store!Spec
=============================================================================
