------------------------ MODULE PriorityOrderProofs ------------------------
(***************************************************************************)
(* What enqueue() and remove() do to a list, for every list.               *)
(***************************************************************************)
EXTENDS PriorityOrder, SequenceTheorems, WellFoundedInduction, TLAPS

(* The position enqueue() finds exists: behind everything of no lower      *)
(* priority that precedes it, before a lower one or at the end.            *)
LEMMA PlaceFacts ==
    ASSUME NEW T, NEW s \in Seq(T), pri \in [T -> Int], NEW p \in Int
    PROVE  /\ Place(s, p) \in 1..(Len(s) + 1)
           /\ \A j \in 1..(Place(s, p) - 1) : pri[s[j]] >= p
           /\ Place(s, p) <= Len(s) => pri[s[Place(s, p)]] < p
<1> DEFINE Lower == {i \in 1..(Len(s) + 1) : i <= Len(s) => pri[s[i]] < p}
           R == OpToRel(<, Nat)
<1>1. Len(s) \in Nat /\ \A i \in 1..Len(s) : pri[s[i]] \in Int
  BY LenProperties
<1>2. Len(s) + 1 \in Lower /\ Lower \subseteq Nat
  BY <1>1
<1>3. PICK k \in Lower : \A i \in Lower : <<i, k>> \notin R
  <2>1. Lower # {}
    BY <1>2
  <2> HIDE DEF Lower, R
  <2>2. IsWellFoundedOn(R, Nat)
    BY NatLessThanWellFounded DEF R
  <2> QED BY <1>2, <2>1, <2>2, WFMin
<1>4. \A i \in Lower : ~(i < k)
  BY <1>2, <1>3 DEF OpToRel
<1>5. \A j \in 1..(k - 1) : pri[s[j]] >= p
  <2>1. SUFFICES ASSUME NEW j \in 1..(k - 1) PROVE pri[s[j]] >= p
    OBVIOUS
  <2>2. j \in 1..Len(s) /\ j < k /\ j \notin Lower
    BY <1>1, <1>2, <1>4, <2>1
  <2> QED BY <1>1, <2>2
<1>6. k \in 1..(Len(s) + 1) /\ (k <= Len(s) => pri[s[k]] < p)
  OBVIOUS
<1> QED BY <1>5, <1>6 DEF Place

\* q is s with n put in at position k.
Inserted(s, q, n, k) ==
    \A i \in 1..(Len(s) + 1) :
        q[i] = IF i < k THEN s[i] ELSE IF i = k THEN n ELSE s[i - 1]

(* enqueue() adds one element, at the position Place gives.                *)
LEMMA InsertFacts ==
    ASSUME NEW T, NEW s \in Seq(T), pri \in [T -> Int], NEW n \in T
    PROVE  /\ Insert(s, n) \in Seq(T)
           /\ Len(Insert(s, n)) = Len(s) + 1
           /\ Place(s, pri[n]) \in 1..(Len(s) + 1)
           /\ Inserted(s, Insert(s, n), n, Place(s, pri[n]))
<1> DEFINE k == Place(s, pri[n])
           a == SubSeq(s, 1, k - 1)
           b == SubSeq(s, k, Len(s))
<1>1. Len(s) \in Nat /\ \A i \in 1..Len(s) : s[i] \in T
  BY LenProperties
<1>2. k \in 1..(Len(s) + 1)
  BY PlaceFacts
<1> HIDE DEF k
<1>3. /\ a \in Seq(T) /\ Len(a) = k - 1
      /\ \A i \in 1..(k - 1) : a[i] = s[i]
  BY <1>1, <1>2, SubSeqProperties
<1>4. /\ b \in Seq(T) /\ Len(b) = Len(s) - k + 1
      /\ \A i \in 1..(Len(s) - k + 1) : b[i] = s[k + i - 1]
  BY <1>1, <1>2, SubSeqProperties
<1> HIDE DEF a, b
<1> DEFINE o == <<n>>
           c == a \o o
           q == c \o b
<1>5. o \in Seq(T) /\ Len(o) = 1 /\ o[1] = n
  OBVIOUS
<1> HIDE DEF o
<1>6. /\ c \in Seq(T) /\ Len(c) = Len(a) + Len(o)
      /\ \A i \in 1..(Len(a) + Len(o)) : c[i] = IF i <= Len(a) THEN a[i] ELSE o[i - Len(a)]
  BY <1>3, <1>5, ConcatProperties
<1> HIDE DEF c
<1>7. /\ q \in Seq(T) /\ Len(q) = Len(c) + Len(b)
      /\ \A i \in 1..(Len(c) + Len(b)) : q[i] = IF i <= Len(c) THEN c[i] ELSE b[i - Len(c)]
  BY <1>4, <1>6, ConcatProperties
<1>8. Insert(s, n) = q
  BY DEF Insert, InsertAt, k, a, b, c, o
<1> HIDE DEF q
<1>9. Len(c) = k /\ Len(q) = Len(s) + 1
  BY <1>1, <1>2, <1>3, <1>4, <1>5, <1>6, <1>7
<1>10. ASSUME NEW i \in 1..(Len(s) + 1)
       PROVE  q[i] = IF i < k THEN s[i] ELSE IF i = k THEN n ELSE s[i - 1]
  <2>4. /\ Len(s) \in Nat /\ k \in 1..(Len(s) + 1) /\ Len(a) = k - 1 /\ Len(o) = 1
        /\ Len(c) = k /\ Len(b) = Len(s) - k + 1
    BY <1>1, <1>2, <1>3, <1>4, <1>5, <1>9
  <2>1. CASE i < k
    <3>4. /\ i \in 1..(Len(c) + Len(b)) /\ i <= Len(c)
          /\ i \in 1..(Len(a) + Len(o)) /\ i <= Len(a) /\ i \in 1..(k - 1)
      BY ONLY <2>1, <2>4, i \in 1..(Len(s) + 1)
    <3>1. q[i] = c[i]
      BY <1>7, <3>4
    <3>2. c[i] = a[i]
      BY <1>6, <3>4
    <3>3. a[i] = s[i]
      BY <1>3, <3>4
    <3> QED BY <2>1, <3>1, <3>2, <3>3
  <2>2. CASE i = k
    <3>3. /\ i \in 1..(Len(c) + Len(b)) /\ i <= Len(c)
          /\ i \in 1..(Len(a) + Len(o)) /\ ~(i <= Len(a)) /\ i - Len(a) = 1
      BY ONLY <2>2, <2>4, i \in 1..(Len(s) + 1)
    <3>1. q[i] = c[i]
      BY <1>7, <3>3
    <3>2. c[i] = o[1]
      BY <1>6, <3>3
    <3> QED BY <1>2, <1>5, <2>2, <3>1, <3>2
  <2>3. CASE i > k
    <3>1. q[i] = b[i - k]
      <4>1. Len(s) \in Nat /\ k \in Int /\ Len(c) = k /\ Len(b) = Len(s) - k + 1
        BY <1>1, <1>2, <1>4, <1>9
      <4>2. i \in 1..(Len(c) + Len(b)) /\ ~(i <= Len(c))
        BY ONLY <2>3, <4>1, i \in 1..(Len(s) + 1)
      <4> QED BY <1>7, <4>1, <4>2
    <3>2. i - k \in 1..(Len(s) - k + 1) /\ k + (i - k) - 1 = i - 1
      BY <1>1, <1>2, <2>3
    <3>3. b[i - k] = s[k + (i - k) - 1]
      BY <1>4, <3>2
    <3> QED BY <1>1, <1>2, <2>3, <3>1, <3>2, <3>3
  <2> QED BY <1>1, <1>2, <2>1, <2>2, <2>3
<1>11. Inserted(s, q, n, k)
  BY <1>10 DEF Inserted
<1> QED BY <1>2, <1>7, <1>8, <1>9, <1>11 DEF k

(* The elements of a list.                                                 *)
LEMMA ElementsAt ==
    ASSUME NEW T, NEW s \in Seq(T)
    PROVE  /\ Len(s) \in Nat /\ DOMAIN s = 1..Len(s)
           /\ \A i \in 1..Len(s) : s[i] \in T /\ s[i] \in ToSet(s)
           /\ \A x \in ToSet(s) : \E i \in 1..Len(s) : s[i] = x
BY LenProperties DEF ToSet

(* enqueue() of an unlinked node keeps a list free of duplicates and in    *)
(* order of priority.                                                      *)
LEMMA InsertKeepsQueue ==
    ASSUME NEW T, NEW s \in Seq(T), pri \in [T -> Int], NEW n \in T
    PROVE  /\ ToSet(Insert(s, n)) = ToSet(s) \cup {n}
           /\ NoDuplicates(s) /\ n \notin ToSet(s) => NoDuplicates(Insert(s, n))
           /\ ByPriority(s) => ByPriority(Insert(s, n))
<1> DEFINE k == Place(s, pri[n])
           q == Insert(s, n)
<1>1. /\ Len(s) \in Nat /\ DOMAIN s = 1..Len(s) /\ \A i \in 1..Len(s) : s[i] \in T
      /\ \A i \in 1..Len(s) : pri[s[i]] \in Int
      /\ pri[n] \in Int
  BY LenProperties
<1>2. /\ q \in Seq(T) /\ Len(q) = Len(s) + 1 /\ DOMAIN q = 1..(Len(s) + 1)
      /\ k \in 1..(Len(s) + 1)
      /\ \A i \in 1..(Len(s) + 1) :
            q[i] = IF i < k THEN s[i] ELSE IF i = k THEN n ELSE s[i - 1]
  <2>1. q \in Seq(T) /\ Len(q) = Len(s) + 1 /\ k \in 1..(Len(s) + 1)
    BY InsertFacts
  <2>3. Inserted(s, q, n, k)
    BY InsertFacts
  <2> HIDE DEF q, k
  <2>2. DOMAIN q = 1..(Len(s) + 1)
    BY <2>1, LenProperties
  <2> QED BY <2>1, <2>2, <2>3 DEF Inserted
<1>3. /\ \A j \in 1..(k - 1) : pri[s[j]] >= pri[n]
      /\ k <= Len(s) => pri[s[k]] < pri[n]
  BY <1>1, PlaceFacts
<1> HIDE DEF k, q
<1>4. ToSet(q) = ToSet(s) \cup {n}
  <2>1. ASSUME NEW x \in ToSet(q) PROVE x \in ToSet(s) \cup {n}
    <3>1. PICK i \in 1..(Len(s) + 1) : q[i] = x
      BY <1>2, ElementsAt
    <3>2. CASE i < k
      <4>1. i \in 1..Len(s) /\ q[i] = s[i]
        BY <1>1, <1>2, <3>2
      <4> QED BY <3>1, <4>1, ElementsAt
    <3>3. CASE i = k
      BY <1>2, <3>1, <3>3
    <3>4. CASE i > k
      <4>1. i - 1 \in 1..Len(s) /\ q[i] = s[i - 1]
        BY <1>1, <1>2, <3>4
      <4> QED BY <3>1, <4>1, ElementsAt
    <3> QED BY <1>2, <3>2, <3>3, <3>4
  <2>2. ASSUME NEW x \in ToSet(s) PROVE x \in ToSet(q)
    <3>1. PICK i \in 1..Len(s) : s[i] = x
      BY ElementsAt
    <3>2. CASE i < k
      <4>1. i \in 1..Len(q) /\ q[i] = s[i]
        BY <1>1, <1>2, <3>2
      <4> QED BY <1>2, <3>1, <4>1, ElementsAt
    <3>3. CASE i >= k
      <4>1. i + 1 \in 1..Len(q) /\ q[i + 1] = s[i]
        <5>1. Len(s) \in Nat /\ k \in Int /\ Len(q) = Len(s) + 1
          BY <1>1, <1>2
        <5>2. /\ i + 1 \in 1..(Len(s) + 1) /\ (i + 1) - 1 = i
              /\ ~(i + 1 < k) /\ i + 1 # k
          BY ONLY <3>3, <5>1, i \in 1..Len(s)
        <5> QED BY <1>2, <5>1, <5>2
      <4> QED BY <1>2, <3>1, <4>1, ElementsAt
    <3> QED BY <1>1, <1>2, <3>2, <3>3
  <2>3. n \in ToSet(q)
    <3>1. k \in 1..Len(q) /\ q[k] = n
      BY <1>1, <1>2
    <3> QED BY <1>2, <3>1, ElementsAt
  <2> QED BY <2>1, <2>2, <2>3
<1>5. ASSUME NoDuplicates(s), n \notin ToSet(s) PROVE NoDuplicates(q)
  <2>1. \A i \in 1..Len(s) : s[i] # n
    BY <1>1, <1>5 DEF ToSet
  <2>2. \A i, j \in 1..Len(s) : s[i] = s[j] => i = j
    BY <1>1, <1>5 DEF NoDuplicates
  <2>3. SUFFICES ASSUME NEW i \in 1..(Len(s) + 1), NEW j \in 1..(Len(s) + 1), q[i] = q[j]
                 PROVE  i = j
    BY <1>2 DEF NoDuplicates
  <2> DEFINE From(m) == IF m < k THEN m ELSE m - 1
  <2>4. ASSUME NEW m \in 1..(Len(s) + 1), m # k
        PROVE  From(m) \in 1..Len(s) /\ q[m] = s[From(m)]
    <3>1. Len(s) \in Nat /\ k \in 1..(Len(s) + 1)
      BY <1>1, <1>2
    <3>2. From(m) \in 1..Len(s)
      BY ONLY <2>4, <3>1, m \in 1..(Len(s) + 1)
    <3> QED BY <1>2, <2>4, <3>2
  <2>5. q[k] = n
    BY <1>2
  <2>6. CASE i = k \/ j = k
    <3>1. ASSUME i # k PROVE FALSE
      BY <2>1, <2>3, <2>4, <2>5, <2>6, <3>1
    <3>2. ASSUME j # k PROVE FALSE
      BY <2>1, <2>3, <2>4, <2>5, <2>6, <3>2
    <3> QED BY <3>1, <3>2
  <2>7. CASE i # k /\ j # k
    <3>1. From(i) = From(j)
      <4> HIDE DEF From
      <4> QED BY <2>2, <2>3, <2>4, <2>7
    <3>2. Len(s) \in Nat /\ k \in Int
      BY <1>1, <1>2
    <3> QED BY ONLY <2>7, <3>1, <3>2, i \in 1..(Len(s) + 1), j \in 1..(Len(s) + 1)
  <2> QED BY <2>6, <2>7
<1>6. ASSUME ByPriority(s) PROVE ByPriority(q)
  <2>1. \A i, j \in 1..Len(s) : i <= j => pri[s[i]] >= pri[s[j]]
    BY <1>1, <1>6 DEF ByPriority
  <2>2. \A j \in 1..Len(s) : j >= k => pri[s[j]] < pri[n]
    BY <1>1, <1>2, <1>3, <2>1
  <2>3. SUFFICES ASSUME NEW i \in 1..(Len(s) + 1), NEW j \in 1..(Len(s) + 1), i < j
                 PROVE  pri[q[i]] >= pri[q[j]]
    BY <1>2 DEF ByPriority
  <2>9. /\ Len(s) \in Nat /\ k \in 1..(Len(s) + 1)
        /\ i \in 1..(Len(s) + 1) /\ j \in 1..(Len(s) + 1) /\ i < j
    BY <1>1, <1>2, <2>3
  <2>4. CASE j < k
    <3>1. i < k /\ i <= j /\ i \in 1..Len(s) /\ j \in 1..Len(s)
      BY ONLY <2>4, <2>9
    <3>2. q[i] = s[i] /\ q[j] = s[j]
      BY <1>2, <2>4, <3>1
    <3> QED BY <2>1, <3>1, <3>2
  <2>5. CASE j = k
    <3>1. i < k /\ i \in 1..(k - 1) /\ ~(j < k)
      BY ONLY <2>5, <2>9
    <3>2. q[i] = s[i] /\ q[j] = n
      BY <1>2, <2>5, <3>1
    <3> QED BY <1>3, <3>1, <3>2
  <2>6. CASE j > k /\ i < k
    <3>1. /\ i <= j - 1 /\ i \in 1..Len(s) /\ j - 1 \in 1..Len(s)
          /\ ~(j < k) /\ j # k
      BY ONLY <2>6, <2>9
    <3>2. q[i] = s[i] /\ q[j] = s[j - 1]
      BY <1>2, <2>6, <3>1
    <3> QED BY <2>1, <3>1, <3>2
  <2>7. CASE j > k /\ i = k
    <3>2. j - 1 >= k /\ j - 1 \in 1..Len(s) /\ ~(j < k) /\ j # k /\ ~(i < k)
      BY ONLY <2>7, <2>9
    <3>1. q[i] = n /\ q[j] = s[j - 1] /\ j - 1 >= k /\ j - 1 \in 1..Len(s)
      BY <1>2, <2>7, <3>2
    <3> QED BY <1>1, <2>2, <3>1
  <2>8. CASE j > k /\ i > k
    <3>1. q[i] = s[i - 1] /\ q[j] = s[j - 1] /\ i - 1 <= j - 1
          /\ i - 1 \in 1..Len(s) /\ j - 1 \in 1..Len(s)
      <4>1. /\ i - 1 <= j - 1 /\ i - 1 \in 1..Len(s) /\ j - 1 \in 1..Len(s)
            /\ ~(i < k) /\ i # k /\ ~(j < k) /\ j # k
        BY ONLY <2>8, <2>9
      <4> QED BY <1>2, <4>1
    <3> QED BY <2>1, <3>1
  <2>10. j < k \/ j = k \/ (j > k /\ (i < k \/ i = k \/ i > k))
    BY ONLY <2>9
  <2> QED BY <2>4, <2>5, <2>6, <2>7, <2>8, <2>10
<1> QED BY <1>4, <1>5, <1>6 DEF q

(* remove() takes one element out and keeps the others in their order.     *)
LEMMA WithoutFacts ==
    ASSUME NEW T, NEW s \in Seq(T), NEW n \in ToSet(s)
    PROVE  /\ Without(s, n) \in Seq(T)
           /\ Len(Without(s, n)) = Len(s) - 1
           /\ IndexOf(s, n) \in 1..Len(s) /\ s[IndexOf(s, n)] = n
           /\ \A i \in 1..(Len(s) - 1) :
                 Without(s, n)[i] = IF i < IndexOf(s, n) THEN s[i] ELSE s[i + 1]
<1> DEFINE k == IndexOf(s, n)
           a == SubSeq(s, 1, k - 1)
           b == SubSeq(s, k + 1, Len(s))
<1>1. Len(s) \in Nat /\ DOMAIN s = 1..Len(s) /\ \A i \in 1..Len(s) : s[i] \in T
  BY LenProperties
<1>2. k \in 1..Len(s) /\ s[k] = n
  BY <1>1 DEF ToSet, IndexOf
<1>3. Without(s, n) = a \o b
  BY DEF Without, RemoveAt
<1> HIDE DEF k
<1>4. /\ a \in Seq(T) /\ Len(a) = k - 1
      /\ \A i \in 1..(k - 1) : a[i] = s[i]
  BY <1>1, <1>2, SubSeqProperties
<1>5. /\ b \in Seq(T) /\ Len(b) = Len(s) - k
      /\ \A i \in 1..(Len(s) - k) : b[i] = s[k + i]
  <2>1. /\ b \in Seq(T) /\ Len(b) = (IF k + 1 <= Len(s) THEN Len(s) - (k + 1) + 1 ELSE 0)
        /\ \A i \in 1..(Len(s) - (k + 1) + 1) : b[i] = s[(k + 1) + i - 1]
    BY <1>1, <1>2, SubSeqProperties
  <2> HIDE DEF b
  <2>2. Len(b) = Len(s) - k
    <3>1. Len(s) \in Nat /\ k \in 1..Len(s)
      BY <1>1, <1>2
    <3>2. Len(b) = IF k + 1 <= Len(s) THEN Len(s) - (k + 1) + 1 ELSE 0
      BY <2>1
    <3> QED BY ONLY <3>1, <3>2
  <2>3. ASSUME NEW i \in 1..(Len(s) - k) PROVE b[i] = s[k + i]
    <3>1. i \in 1..(Len(s) - (k + 1) + 1) /\ (k + 1) + i - 1 = k + i
      BY <1>1, <1>2
    <3> QED BY <2>1, <3>1
  <2> QED BY <2>1, <2>2, <2>3
<1> HIDE DEF a, b
<1> DEFINE q == a \o b
<1>6. /\ q \in Seq(T) /\ Len(q) = Len(a) + Len(b)
      /\ \A i \in 1..(Len(a) + Len(b)) : q[i] = IF i <= Len(a) THEN a[i] ELSE b[i - Len(a)]
  BY <1>4, <1>5, ConcatProperties
<1> HIDE DEF q
<1>7. Len(q) = Len(s) - 1
  BY <1>1, <1>2, <1>4, <1>5, <1>6
<1>8. ASSUME NEW i \in 1..(Len(s) - 1)
      PROVE  q[i] = IF i < k THEN s[i] ELSE s[i + 1]
  <2>1. CASE i < k
    <3>1. q[i] = a[i]
      <4>1. i \in 1..(Len(a) + Len(b)) /\ i <= Len(a)
        BY <1>1, <1>2, <1>4, <1>5, <2>1
      <4> QED BY <1>6, <4>1
    <3>2. a[i] = s[i]
      BY <1>1, <1>2, <1>4, <2>1
    <3> QED BY <2>1, <3>1, <3>2
  <2>2. CASE i >= k
    <3>1. q[i] = b[i - (k - 1)]
      <4>1. i \in 1..(Len(a) + Len(b)) /\ ~(i <= Len(a)) /\ Len(a) = k - 1
        BY <1>1, <1>2, <1>4, <1>5, <2>2
      <4> QED BY <1>6, <4>1
    <3>2. i - (k - 1) \in 1..(Len(s) - k) /\ k + (i - (k - 1)) = i + 1
      BY <1>1, <1>2, <2>2
    <3>3. b[i - (k - 1)] = s[k + (i - (k - 1))]
      BY <1>5, <3>2
    <3> QED BY <1>1, <1>2, <2>2, <3>1, <3>2, <3>3
  <2> QED BY <1>1, <1>2, <2>1, <2>2
<1> QED BY <1>2, <1>3, <1>6, <1>7, <1>8 DEF k, q

(* remove() keeps a list free of duplicates and in order, and its node is  *)
(* gone from a list that held it once.                                     *)
LEMMA WithoutKeepsQueue ==
    ASSUME NEW T, NEW s \in Seq(T), pri \in [T -> Int], NEW n
    PROVE  /\ Without(s, n) \in Seq(T)
           /\ ToSet(Without(s, n)) \subseteq ToSet(s)
           /\ NoDuplicates(s) => /\ NoDuplicates(Without(s, n))
                                 /\ ToSet(Without(s, n)) = ToSet(s) \ {n}
           /\ ByPriority(s) => ByPriority(Without(s, n))
<1>1. CASE n \notin ToSet(s)
  BY <1>1 DEF Without
<1>2. CASE n \in ToSet(s)
  <2> DEFINE q == Without(s, n)
             k == IndexOf(s, n)
  <2>1. /\ Len(s) \in Nat /\ DOMAIN s = 1..Len(s) /\ \A i \in 1..Len(s) : s[i] \in T
        /\ \A i \in 1..Len(s) : pri[s[i]] \in Int
    BY LenProperties
  <2>2. /\ q \in Seq(T) /\ DOMAIN q = 1..(Len(s) - 1)
        /\ Len(q) = Len(s) - 1 /\ k \in 1..Len(s) /\ s[k] = n
        /\ \A i \in 1..(Len(s) - 1) : q[i] = IF i < k THEN s[i] ELSE s[i + 1]
    <3>1. /\ q \in Seq(T) /\ Len(q) = Len(s) - 1 /\ k \in 1..Len(s) /\ s[k] = n
          /\ \A i \in 1..(Len(s) - 1) : q[i] = IF i < k THEN s[i] ELSE s[i + 1]
      BY <1>2, WithoutFacts
    <3> HIDE DEF q, k
    <3>2. DOMAIN q = 1..(Len(s) - 1)
      BY <3>1, LenProperties
    <3> QED BY <3>1, <3>2
  <2> HIDE DEF q, k
  <2> DEFINE From(m) == IF m < k THEN m ELSE m + 1
  <2>3. ASSUME NEW m \in 1..(Len(s) - 1)
        PROVE  From(m) \in 1..Len(s) /\ q[m] = s[From(m)]
    <3>1. Len(s) \in Nat /\ k \in 1..Len(s)
      BY <2>1, <2>2
    <3>2. From(m) \in 1..Len(s)
      BY ONLY <3>1, m \in 1..(Len(s) - 1)
    <3> QED BY <2>2, <3>2
  <2>7. \A i, j \in 1..(Len(s) - 1) : i < j => From(i) < From(j)
    <3>1. Len(s) \in Nat /\ k \in Int
      BY <2>1, <2>2
    <3> QED BY ONLY <3>1
  <2>4. ToSet(q) \subseteq ToSet(s)
    <3>1. SUFFICES ASSUME NEW i \in 1..(Len(s) - 1) PROVE q[i] \in ToSet(s)
      BY <2>2, ElementsAt
    <3> QED BY <2>3, ElementsAt
  <2>5. ASSUME NoDuplicates(s)
        PROVE  NoDuplicates(q) /\ ToSet(q) = ToSet(s) \ {n}
    <3>1. \A i, j \in 1..Len(s) : s[i] = s[j] => i = j
      BY <2>1, <2>5 DEF NoDuplicates
    <3>2. NoDuplicates(q)
      <4>1. SUFFICES ASSUME NEW i \in 1..(Len(s) - 1), NEW j \in 1..(Len(s) - 1), q[i] = q[j]
                     PROVE  i = j
        BY <2>2 DEF NoDuplicates
      <4>2. From(i) = From(j)
        BY <2>3, <3>1, <4>1
      <4>3. i \in Int /\ j \in Int /\ From(i) \in Int
        BY <2>1, <2>3
      <4> HIDE DEF From
      <4> QED BY <2>7, <4>2, <4>3
    <3>3. n \notin ToSet(q)
      <4>1. SUFFICES ASSUME NEW i \in 1..(Len(s) - 1), q[i] = n PROVE FALSE
        BY <2>2, ElementsAt
      <4>2. From(i) = k
        <5>1. q[i] = s[From(i)] /\ From(i) \in 1..Len(s)
          BY <2>3
        <5>2. s[k] = n /\ k \in 1..Len(s)
          BY <2>2
        <5> HIDE DEF From
        <5> QED BY <3>1, <4>1, <5>1, <5>2
      <4>3. k \in Int
        BY <2>1, <2>2
      <4> QED BY <4>2, <4>3
    <3>4. ASSUME NEW i \in 1..Len(s), s[i] # n PROVE s[i] \in ToSet(q)
      <4>1. CASE i < k
        <5>1. i \in 1..(Len(s) - 1) /\ q[i] = s[i]
          BY <2>1, <2>2, <4>1
        <5> QED BY <2>2, <5>1 DEF ToSet
      <4>2. CASE i > k
        <5>1. i - 1 \in 1..(Len(s) - 1) /\ q[i - 1] = s[i]
          BY <2>1, <2>2, <4>2
        <5> QED BY <2>2, <5>1 DEF ToSet
      <4> QED BY <2>1, <2>2, <3>4, <4>1, <4>2
    <3> QED BY <2>1, <2>4, <3>2, <3>3, <3>4 DEF ToSet
  <2>6. ASSUME ByPriority(s) PROVE ByPriority(q)
    <3>1. SUFFICES ASSUME NEW i \in 1..(Len(s) - 1), NEW j \in 1..(Len(s) - 1), i < j
                   PROVE  pri[q[i]] >= pri[q[j]]
      BY <2>2 DEF ByPriority
    <3>2. From(i) < From(j)
      BY <2>7, <3>1
    <3> QED BY <2>1, <2>3, <2>6, <3>2 DEF ByPriority
  <2> QED BY <2>2, <2>4, <2>5, <2>6 DEF q
<1> QED BY <1>1, <1>2

(* get_next() stays in its list.                                           *)
LEMMA AfterFacts ==
    ASSUME NEW T, NEW s \in Seq(T), NEW n, NEW none
    PROVE  After(s, n, none) \in T \cup {none}
<1>1. CASE \E i \in 1..(Len(s) - 1) : s[i] = n
  <2> DEFINE i == CHOOSE i \in 1..(Len(s) - 1) : s[i] = n
  <2>1. i \in 1..(Len(s) - 1)
    BY <1>1
  <2>2. 1 + i \in 1..Len(s)
    BY <2>1, LenProperties
  <2> QED BY <1>1, <2>2, ElementOfSeq DEF After
<1>2. CASE ~\E i \in 1..(Len(s) - 1) : s[i] = n
  BY <1>2 DEF After
<1> QED BY <1>1, <1>2
=============================================================================
