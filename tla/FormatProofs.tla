---------------------------- MODULE FormatProofs ----------------------------
(***************************************************************************)
(* What is printed, for every int size, width, precision and text, and     *)
(* which strings strcmp() is wrong about.  The recursions                  *)
(* (digits, powers, readings) are solved once (Solvable); what they return *)
(* follows for all inputs from a least counterexample (Least).             *)
(***************************************************************************)
EXTENDS FormatProperties, SequenceTheorems, WellFoundedInduction, TLAPS

-----------------------------------------------------------------------------
(* Recursion over the natural numbers.                                     *)

(* A set of natural numbers has a least element.                           *)
LEMMA Least ==
    ASSUME NEW S \in SUBSET Nat, S # {}
    PROVE  \E k \in S : \A x \in S : k <= x
<1> DEFINE R == OpToRel(<, Nat)
<1>1. PICK k \in S : \A x \in S : <<x, k>> \notin R
  <2>1. IsWellFoundedOn(R, Nat)
    BY NatLessThanWellFounded
  <2> HIDE DEF R
  <2> QED BY <2>1, WFMin
<1>2. \A x \in S : x \in Nat /\ k \in Nat /\ ~(x < k)
  BY <1>1 DEF OpToRel
<1> QED BY <1>2

\* w is the recursion on D that starts with base and takes step k from the value at prev[k].
Solves(D, base, prev, step, w) ==
    w = [k \in D |-> IF k = 0 THEN base ELSE step[k][w[prev[k]]]]

\* D is a beginning of the natural numbers, or all of them.
Beginning(D) == D \in SUBSET Nat /\ 0 \in D /\ \A k \in D : 0..k \subseteq D

(* Such a recursion has a solution, and its values are where the steps put  *)
(* them.                                                                    *)
LEMMA Solvable ==
    ASSUME NEW D, Beginning(D), NEW V, NEW base \in V,
           NEW prev, \A k \in D \ {0} : prev[k] \in 0..(k - 1),
           NEW step, \A k \in D \ {0} : step[k] \in [V -> V]
    PROVE  \E w \in [D -> V] : Solves(D, base, prev, step, w)
<1> DEFINE Val(k, h) == IF k = 0 THEN base ELSE step[k][h[prev[k]]]
           Upto(n, h) == h \in [0..n -> V] /\ \A k \in 0..n : h[k] = Val(k, h)
           Bad == {n \in D : ~ \E h : Upto(n, h)}
<1>0. /\ D \in SUBSET Nat /\ 0 \in D
      /\ \A n \in D : \A k \in 0..n : k \in D /\ (k # 0 => prev[k] \in 0..n /\ prev[k] \in 0..(k - 1))
  BY DEF Beginning
<1>1. ASSUME NEW n \in D, NEW k \in 0..n, NEW g, NEW h,
             k # 0 => g[prev[k]] = h[prev[k]]
      PROVE  Val(k, g) = Val(k, h)
  BY <1>1
<1>2. ASSUME NEW n \in D, NEW h \in [0..n -> V], NEW k \in 0..n
      PROVE  Val(k, h) \in V
  BY <1>0
<1> HIDE DEF Val
<1>3. ASSUME NEW m \in D, NEW n \in D, NEW g, NEW h, Upto(m, g), Upto(n, h)
      PROVE  \A k \in 0..m : k <= n => g[k] = h[k]
  <2> DEFINE Wrong == {k \in 0..m : k <= n /\ g[k] # h[k]}
  <2>1. SUFFICES ASSUME Wrong # {} PROVE FALSE
    OBVIOUS
  <2>2. PICK k \in Wrong : \A x \in Wrong : k <= x
    <3>1. Wrong \in SUBSET Nat
      BY <1>0
    <3> HIDE DEF Wrong
    <3> QED BY <3>1, <2>1, Least
  <2>3. m \in Nat /\ n \in Nat /\ k \in 0..m /\ k \in 0..n /\ g[k] # h[k]
    BY <1>0, <2>2
  <2>4. k # 0 => g[prev[k]] = h[prev[k]]
    <3>1. SUFFICES ASSUME k # 0 PROVE prev[k] \notin Wrong /\ prev[k] \in 0..m /\ prev[k] <= n
      OBVIOUS
    <3>2. prev[k] \in 0..(k - 1)
      BY <1>0, <2>3, <3>1
    <3> QED BY <2>2, <2>3, <3>2
  <2>5. g[k] = Val(k, g) /\ h[k] = Val(k, h)
    BY <1>3, <2>3
  <2> QED BY <1>1, <2>3, <2>4, <2>5
<1>4. \A n \in D : \E h : Upto(n, h)
  <2>1. SUFFICES ASSUME Bad # {} PROVE FALSE
    OBVIOUS
  <2>2. PICK n \in Bad : \A x \in Bad : n <= x
    <3>1. Bad \in SUBSET Nat
      BY <1>0
    <3> HIDE DEF Bad
    <3> QED BY <3>1, <2>1, Least
  <2>3. n \in D /\ n \in Nat /\ ~ \E h : Upto(n, h)
    BY <1>0, <2>2
  <2>4. PICK g : n # 0 => Upto(n - 1, g)
    <3>1. CASE n = 0
      BY <3>1
    <3>2. CASE n # 0
      <4>1. n - 1 \in D /\ n - 1 \notin Bad
        <5>1. n - 1 \in 0..n /\ ~(n <= n - 1)
          BY <2>3, <3>2
        <5> HIDE DEF Bad
        <5> QED BY <1>0, <2>2, <2>3, <5>1
      <4> QED BY <4>1
    <3> QED BY <3>1, <3>2
  <2> DEFINE h == [k \in 0..n |-> IF k = n THEN Val(n, g) ELSE g[k]]
  <2>5. \A k \in 0..n : k # n => k \in 0..(n - 1) /\ g[k] \in V /\ g[k] = Val(k, g) /\ h[k] = g[k]
    <3> TAKE k \in 0..n
    <3> HAVE k # n
    <3>1. k \in 0..(n - 1) /\ n # 0
      BY <2>3
    <3>2. h[k] = g[k]
      OBVIOUS
    <3> HIDE DEF h
    <3> QED BY <2>4, <3>1, <3>2
  <2>6. h[n] = Val(n, g) /\ n \in 0..n
    BY <2>3
  <2>7. h = [k \in 0..n |-> h[k]]
    OBVIOUS
  <2> HIDE DEF h
  <2>8. Val(n, g) \in V
    <3>1. CASE n = 0
      BY <3>1 DEF Val
    <3>2. CASE n # 0
      <4>1. prev[n] \in 0..(n - 1) /\ step[n] \in [V -> V]
        BY <1>0, <2>3, <3>2
      <4>2. g[prev[n]] \in V
        BY <2>4, <3>2, <4>1
      <4> QED BY <3>2, <4>1, <4>2 DEF Val
    <3> QED BY <3>1, <3>2
  <2>9. \A k \in 0..n : h[k] \in V /\ h[k] = Val(k, h)
    <3> TAKE k \in 0..n
    <3>1. k # 0 => h[prev[k]] = g[prev[k]]
      <4>1. SUFFICES ASSUME k # 0 PROVE prev[k] \in 0..n /\ prev[k] # n
        BY <2>5
      <4> QED BY <1>0, <2>3, <4>1
    <3>2. Val(k, g) = Val(k, h)
      BY <1>1, <2>3, <3>1
    <3> QED BY <2>5, <2>6, <2>8, <3>2
  <2>10. h \in [0..n -> V]
    BY <2>7, <2>9
  <2> QED BY <2>3, <2>9, <2>10
<1> DEFINE Sol(n) == CHOOSE h : Upto(n, h)
           w == [k \in D |-> Sol(k)[k]]
<1>5. \A n \in D : Upto(n, Sol(n))
  BY <1>4
<1> HIDE DEF Sol
<1>6. \A n \in D : \A k \in 0..n : w[k] = Sol(n)[k] /\ k \in D
  <2> TAKE n \in D
  <2> TAKE k \in 0..n
  <2>1. k \in D /\ k \in 0..k /\ k <= n
    BY <1>0
  <2>2. Upto(k, Sol(k)) /\ Upto(n, Sol(n))
    BY <1>5, <2>1
  <2>3. Sol(k)[k] = Sol(n)[k]
    <3> HIDE DEF Upto
    <3> QED BY <1>3, <2>1, <2>2
  <2> QED BY <2>1, <2>3
<1>7. w = [k \in D |-> w[k]]
  OBVIOUS
<1> HIDE DEF w
<1>8. \A k \in D : w[k] \in V /\ w[k] = Val(k, w)
  <2> TAKE k \in D
  <2>1. k \in Nat /\ k \in 0..k
    BY <1>0
  <2>2. Upto(k, Sol(k)) /\ w[k] = Sol(k)[k] /\ (k # 0 => w[prev[k]] = Sol(k)[prev[k]])
    BY <1>0, <1>5, <1>6, <2>1
  <2>3. Val(k, w) = Val(k, Sol(k))
    BY <1>1, <2>1, <2>2
  <2> QED BY <2>1, <2>2, <2>3
<1> QED BY <1>7, <1>8 DEF Val, Solves

-----------------------------------------------------------------------------
(* Powers, digits and readings.                                            *)

(* Values is the power.                                                     *)
LEMMA ValuesFacts ==
    /\ Values(0) = 1
    /\ \A k \in Nat : Values(k) \in Nat \ {0} /\ Values(k + 1) = 16 * Values(k)
<1> DEFINE V == Nat \ {0}
           prev == [k \in Nat |-> k - 1]
           step == [k \in Nat |-> [v \in V |-> 16 * v]]
           Body(w) == [i \in Nat |-> IF i = 0 THEN 1 ELSE 16 * w[i - 1]]
           power == CHOOSE w : w = Body(w)
<1>0. \A i \in Nat : i # 0 => /\ prev[i] = i - 1
                               /\ \A w \in [Nat -> V] : w[i - 1] \in V /\ step[i][w[i - 1]] = 16 * w[i - 1]
  <2> TAKE i \in Nat
  <2> HAVE i # 0
  <2>1. prev[i] = i - 1 /\ step[i] = [v \in V |-> 16 * v] /\ i - 1 \in Nat
    OBVIOUS
  <2> HIDE DEF prev, step
  <2> QED BY <2>1
<1>1. PICK w \in [Nat -> V] : Solves(Nat, 1, prev, step, w)
  <2>1. Beginning(Nat)
    BY DEF Beginning
  <2>2. \A k \in Nat \ {0} : prev[k] \in 0..(k - 1) /\ step[k] \in [V -> V]
    OBVIOUS
  <2> HIDE DEF prev, step
  <2>3. 1 \in V
    OBVIOUS
  <2> HIDE DEF V
  <2> QED BY Solvable, <2>1, <2>2, <2>3
<1>2. w = Body(w)
  <2>1. \A i \in Nat : w[i] = IF i = 0 THEN 1 ELSE 16 * w[i - 1]
    <3> TAKE i \in Nat
    <3> HIDE DEF prev, step, V
    <3> QED BY <1>0, <1>1 DEF Solves
  <2> QED BY <1>1, <2>1
<1>3. power = Body(power)
  <2> HIDE DEF Body
  <2> QED BY <1>2
<1>4. \A k \in Nat : Values(k) = power[k]
  BY DEF Values
<1> DEFINE Bad == {k \in Nat : power[k] \notin V}
<1>5. \A k \in Nat : power[k] = IF k = 0 THEN 1 ELSE 16 * power[k - 1]
  <2> HIDE DEF power
  <2> QED BY <1>3
<1> HIDE DEF power
<1>6. \A k \in Nat : power[k] \in V
  <2>1. SUFFICES ASSUME Bad # {} PROVE FALSE
    OBVIOUS
  <2>2. PICK k \in Bad : \A x \in Bad : k <= x
    BY <2>1, Least
  <2>3. k # 0 => k - 1 \in Nat /\ k - 1 \notin Bad
    BY <2>2
  <2> QED BY <1>5, <2>2, <2>3
<1>7. \A k \in Nat : power[k + 1] = 16 * power[k]
  <2> TAKE k \in Nat
  <2>1. k + 1 \in Nat /\ k + 1 # 0 /\ (k + 1) - 1 = k
    OBVIOUS
  <2>2. power[k + 1] = IF k + 1 = 0 THEN 1 ELSE 16 * power[(k + 1) - 1]
    BY <1>5, <2>1
  <2> QED BY <2>1, <2>2
<1>8. power[0] = 1
  BY <1>5
<1> HIDE DEF V
<1>9. \A k \in Nat : k + 1 \in Nat
  OBVIOUS
<1> QED BY <1>4, <1>6, <1>7, <1>8, <1>9 DEF V

Bases == {2, 8, 10, 16}
Tables == {Lower, Upper}

\* The characters numbers are printed with.
LowerDigits == {"0", "1", "2", "3", "4", "5", "6", "7", "8", "9", "a", "b", "c", "d", "e", "f"}
UpperDigits == {"0", "1", "2", "3", "4", "5", "6", "7", "8", "9", "A", "B", "C", "D", "E", "F"}
NoDigits == {Blank, "-", "+", "x", "X", ":"}
Symbols == LowerDigits \cup UpperDigits \cup NoDigits

\* from is the recursion of digits().
IsDigits(base, table, from) ==
    /\ from \in [Nat -> Seq(Symbols)]
    /\ from[0] = <<>>
    /\ \A m \in Nat \ {0} : from[m] = <<table[(m % base) + 1]>> \o from[m \div base]

(* The divisions of number(): what is left gets smaller.                    *)
LEMMA Divide ==
    ASSUME NEW base \in Bases, NEW m \in Nat
    PROVE  /\ m \div base \in Nat /\ m % base \in 0..(base - 1)
           /\ m = (m \div base) * base + (m % base)
           /\ m # 0 => m \div base <= m - 1
           /\ m < base => m \div base = 0 /\ m % base = m
<1>1. CASE base = 2
  BY <1>1
<1>2. CASE base = 8
  BY <1>2
<1>3. CASE base = 10
  BY <1>3
<1>4. CASE base = 16
  BY <1>4
<1> QED BY <1>1, <1>2, <1>3, <1>4 DEF Bases

(* A digit of a table is a symbol, and not one of another digit.            *)
LEMMA TableFacts ==
    ASSUME NEW table \in Tables
    PROVE  /\ \A d \in 0..15 : table[d + 1] \in Symbols \ NoDigits
           /\ \A d, e \in 0..15 : Lower[d + 1] = Lower[e + 1] => d = e
           /\ \A d, e \in 0..15 : Upper[d + 1] = Upper[e + 1] => d = e
           /\ \A d, e \in 0..15 : Lower[d + 1] = Upper[e + 1] => d = e
<1>1. \A d \in 0..15 : Lower[d + 1] \in LowerDigits
  BY SMTT(60) DEF Lower, LowerDigits
<1>2. \A d \in 0..15 : Upper[d + 1] \in UpperDigits
  BY SMTT(60) DEF Upper, UpperDigits
<1>3. \A d, e \in 0..15 : Lower[d + 1] = Lower[e + 1] => d = e
  BY SMTT(60) DEF Lower
<1>4. \A d, e \in 0..15 : Upper[d + 1] = Upper[e + 1] => d = e
  BY SMTT(60) DEF Upper
<1>5. \A d, e \in 0..15 : Lower[d + 1] = Upper[e + 1] => d = e
  BY SMTT(60) DEF Lower, Upper
<1>6. \A c \in LowerDigits \cup UpperDigits : c \notin NoDigits
  BY Zenon DEF LowerDigits, UpperDigits, NoDigits, Blank
<1> QED BY <1>1, <1>2, <1>3, <1>4, <1>5, <1>6 DEF Tables, Symbols

(* The recursion of digits() has a solution.                                *)
LEMMA DigitsRecursion ==
    ASSUME NEW base \in Bases, NEW table \in Tables
    PROVE  \E from : /\ IsDigits(base, table, from)
                     /\ \A n \in Nat : digits(n, base, table) = IF n = 0 THEN <<"0">> ELSE from[n]
<1> DEFINE V == Seq(Symbols)
           prev == [k \in Nat |-> k \div base]
           step == [k \in Nat |-> [v \in V |-> <<table[(k % base) + 1]>> \o v]]
           Body(w) == [m \in Nat |-> IF m = 0 THEN <<>>
                                     ELSE <<table[(m % base) + 1]>> \o w[m \div base]]
           from == CHOOSE w : w = Body(w)
<1>0. \A k \in Nat : k % base \in 0..15 /\ <<table[(k % base) + 1]>> \in V
  <2> TAKE k \in Nat
  <2>1. k % base \in 0..15
    <3>1. k % base \in 0..(base - 1) /\ base \in 2..16
      BY Divide DEF Bases
    <3> QED BY <3>1
  <2>2. table[(k % base) + 1] \in Symbols
    BY <2>1, TableFacts
  <2> QED BY <2>1, <2>2
<1>1. PICK w \in [Nat -> V] : Solves(Nat, <<>>, prev, step, w)
  <2>1. Beginning(Nat)
    BY DEF Beginning
  <2>2. \A k \in Nat \ {0} : prev[k] \in 0..(k - 1)
    BY Divide
  <2>3. \A k \in Nat \ {0} : step[k] \in [V -> V]
    BY <1>0
  <2>4. <<>> \in V
    OBVIOUS
  <2> HIDE DEF prev, step, V
  <2> QED BY Solvable, <2>1, <2>2, <2>3, <2>4
<1>2. w = Body(w)
  <2>1. \A m \in Nat : w[m] = IF m = 0 THEN <<>> ELSE <<table[(m % base) + 1]>> \o w[m \div base]
    <3> TAKE m \in Nat
    <3>1. prev[m] = m \div base
      OBVIOUS
    <3>2. m \div base \in Nat /\ w[m \div base] \in V
      BY <1>1, Divide
    <3>3. step[m][w[m \div base]] = <<table[(m % base) + 1]>> \o w[m \div base]
      BY <3>2
    <3> HIDE DEF prev, step
    <3> QED BY <1>1, <3>1, <3>3 DEF Solves
  <2> QED BY <1>1, <2>1
<1>3. from = Body(from)
  <2> HIDE DEF Body
  <2> QED BY <1>2
<1>4. \A n \in Nat : digits(n, base, table) = IF n = 0 THEN <<"0">> ELSE from[n]
  BY DEF digits
<1> HIDE DEF from
<1>5. \A m \in Nat : from[m] = IF m = 0 THEN <<>> ELSE <<table[(m % base) + 1]>> \o from[m \div base]
  BY <1>3
<1> DEFINE Bad == {k \in Nat : from[k] \notin V}
<1>6. \A k \in Nat : from[k] \in V
  <2>1. SUFFICES ASSUME Bad # {} PROVE FALSE
    OBVIOUS
  <2>2. PICK k \in Bad : \A x \in Bad : k <= x
    <3> HIDE DEF V
    <3> QED BY <2>1, Least
  <2>3. k \in Nat /\ from[k] \notin V
    BY <2>2
  <2>4. k # 0 => k \div base \in Nat /\ ~(k <= k \div base)
    BY <2>3, Divide
  <2>5. k # 0 => from[k \div base] \in V
    <3> HIDE DEF V
    <3> QED BY <2>2, <2>4
  <2> HIDE DEF Bad
  <2>6. CASE k = 0
    <3>1. from[k] = <<>>
      BY <1>5, <2>3, <2>6
    <3>2. <<>> \in V
      OBVIOUS
    <3> QED BY <2>3, <3>1, <3>2
  <2>7. CASE k # 0
    <3>1. from[k] = <<table[(k % base) + 1]>> \o from[k \div base]
      BY <1>5, <2>3, <2>7
    <3>2. <<table[(k % base) + 1]>> \in V
      BY <1>0, <2>3
    <3> QED BY <2>3, <2>5, <2>7, <3>1, <3>2, ConcatProperties
  <2> QED BY <2>6, <2>7
<1>7. from \in [Nat -> V]
  BY <1>3, <1>6
<1>8. IsDigits(base, table, from)
  BY <1>5, <1>7 DEF IsDigits
<1> QED BY <1>4, <1>8

\* u is the recursion of Reading().
IsReading(s, base, u) ==
    /\ u \in [0..Len(s) -> Nat]
    /\ u[0] = 0
    /\ \A k \in 1..Len(s) :
          u[k] = IF IsDigit(s[k], base) THEN u[k - 1] * base + Digit(s[k], base) ELSE u[k - 1]

(* The recursion of Reading() has a solution.                               *)
LEMMA ReadingRecursion ==
    ASSUME NEW S, NEW s \in Seq(S), NEW base \in Bases
    PROVE  \E u : IsReading(s, base, u) /\ Reading(s, base) = u[Len(s)]
<1> DEFINE D == 0..Len(s)
           prev == [k \in D |-> k - 1]
           step == [k \in D |-> [v \in Nat |-> IF IsDigit(s[k], base) THEN v * base + Digit(s[k], base)
                                               ELSE v]]
           Body(w) == [k \in D |-> CASE k = 0 -> 0
                                     [] k > 0 /\ IsDigit(s[k], base) -> w[k - 1] * base + Digit(s[k], base)
                                     [] OTHER -> w[k - 1]]
           upto == CHOOSE w : w = Body(w)
<1>0. Len(s) \in Nat
  BY LenProperties
<1>1. \A c : IsDigit(c, base) => Digit(c, base) \in Nat
  BY DEF IsDigit, Digit
<1>2. Beginning(D)
  BY <1>0 DEF Beginning
<1>3. \A k \in D \ {0} : prev[k] \in 0..(k - 1)
  BY <1>0
<1>4. \A k \in D \ {0} : step[k] \in [Nat -> Nat]
  <2> TAKE k \in D \ {0}
  <2>1. step[k] = [v \in Nat |-> IF IsDigit(s[k], base) THEN v * base + Digit(s[k], base) ELSE v]
    OBVIOUS
  <2>2. base \in Nat
    BY DEF Bases
  <2>3. \A v \in Nat : v * base + 0 \in Nat /\ \A d \in Nat : v * base + d \in Nat
    BY <2>2
  <2>4. \A v \in Nat : (IF IsDigit(s[k], base) THEN v * base + Digit(s[k], base) ELSE v) \in Nat
    BY <1>1, <2>3
  <2> HIDE DEF step
  <2> QED BY <2>1, <2>4
<1>5. PICK w \in [D -> Nat] : Solves(D, 0, prev, step, w)
  <2> HIDE DEF D, prev, step
  <2> QED BY Solvable, <1>2, <1>3, <1>4
<1>6. w = Body(w)
  <2>1. \A k \in D : w[k] = CASE k = 0 -> 0
                              [] k > 0 /\ IsDigit(s[k], base) -> w[k - 1] * base + Digit(s[k], base)
                              [] OTHER -> w[k - 1]
    <3> TAKE k \in D
    <3>1. CASE k = 0
      <4> HIDE DEF D, prev, step
      <4> QED BY <1>5, <3>1 DEF Solves
    <3>2. CASE k # 0
      <4>1. prev[k] = k - 1 /\ k > 0 /\ k - 1 \in D
            /\ step[k] = [v \in Nat |-> IF IsDigit(s[k], base) THEN v * base + Digit(s[k], base) ELSE v]
        BY <1>0, <3>2
      <4> HIDE DEF D, prev, step
      <4>2. w[k] = step[k][w[k - 1]] /\ w[k - 1] \in Nat
        BY <1>5, <3>2, <4>1 DEF Solves
      <4> QED BY <3>2, <4>1, <4>2
    <3> QED BY <3>1, <3>2
  <2> QED BY <1>5, <2>1
<1>7. upto = Body(upto)
  <2> HIDE DEF Body
  <2> QED BY <1>6
<1>8. Reading(s, base) = upto[Len(s)]
  BY DEF Reading
<1>9. \A v : v = Body(v) => /\ v[0] = 0
                            /\ \A k \in 1..Len(s) : v[k] = IF IsDigit(s[k], base)
                                                           THEN v[k - 1] * base + Digit(s[k], base) ELSE v[k - 1]
  <2> TAKE v
  <2> HAVE v = Body(v)
  <2>1. \A k \in D : v[k] = CASE k = 0 -> 0
                              [] k > 0 /\ IsDigit(s[k], base) -> v[k - 1] * base + Digit(s[k], base)
                              [] OTHER -> v[k - 1]
    OBVIOUS
  <2> HIDE DEF Body
  <2> QED BY <1>0, <2>1
<1>10. upto = [k \in D |-> upto[k]]
  BY <1>7
<1> HIDE DEF upto, Body
<1>11. \A k \in D : upto[k] \in Nat
  <2> DEFINE Bad == {k \in D : upto[k] \notin Nat}
  <2>1. SUFFICES ASSUME Bad # {} PROVE FALSE
    OBVIOUS
  <2>2. PICK k \in Bad : \A x \in Bad : k <= x
    <3>1. Bad \in SUBSET Nat
      BY <1>0
    <3> HIDE DEF Bad
    <3> QED BY <2>1, <3>1, Least
  <2>3. k # 0
    BY <1>7, <1>9, <2>2
  <2>4. k \in 1..Len(s) /\ k - 1 \in D /\ k - 1 \notin Bad
    BY <1>0, <2>2, <2>3
  <2>5. base \in Nat
    BY DEF Bases
  <2> QED BY <1>1, <1>7, <1>9, <2>2, <2>4, <2>5
<1>12. upto \in [0..Len(s) -> Nat]
  BY <1>10, <1>11
<1>13. IsReading(s, base, upto)
  BY <1>7, <1>9, <1>12 DEF IsReading
<1> QED BY <1>8, <1>13

(* Two readings of texts that begin alike agree on the beginning.           *)
LEMMA ReadingsAgree ==
    ASSUME NEW S, NEW s \in Seq(S), NEW t \in Seq(S), NEW base \in Bases,
           NEW u, IsReading(s, base, u), NEW v, IsReading(t, base, v),
           NEW n \in Nat, n <= Len(s), n <= Len(t), \A k \in 1..n : s[k] = t[k]
    PROVE  u[n] = v[n]
<1> DEFINE Wrong == {k \in 0..n : u[k] # v[k]}
<1>1. SUFFICES ASSUME Wrong # {} PROVE FALSE
  OBVIOUS
<1>2. PICK k \in Wrong : \A x \in Wrong : k <= x
  <2>1. Wrong \in SUBSET Nat
    OBVIOUS
  <2> HIDE DEF Wrong
  <2> QED BY <1>1, <2>1, Least
<1>3. k # 0
  BY <1>2 DEF IsReading
<1>4. k \in 1..n /\ k - 1 \in 0..n /\ k - 1 \notin Wrong /\ k \in 1..Len(s) /\ k \in 1..Len(t)
  BY <1>2, <1>3, LenProperties
<1>5. u[k - 1] = v[k - 1] /\ s[k] = t[k]
  BY <1>4
<1> HIDE DEF Wrong
<1>6. u[k] = v[k]
  BY <1>4, <1>5 DEF IsReading
<1> QED BY <1>2, <1>6 DEF Wrong

(* A character more: a digit counts, anything else does not.                *)
LEMMA ReadingAppend ==
    ASSUME NEW S, NEW s \in Seq(S), NEW c \in S, NEW base \in Bases
    PROVE  /\ Reading(<<>>, base) = 0
           /\ Reading(s, base) \in Nat
           /\ Reading(Append(s, c), base)
                 = IF IsDigit(c, base) THEN Reading(s, base) * base + Digit(c, base) ELSE Reading(s, base)
<1> DEFINE t == Append(s, c)
           e == <<>>
<1>1. /\ t \in Seq(S) /\ Len(t) = Len(s) + 1 /\ Len(s) \in Nat
      /\ t[Len(s) + 1] = c /\ \A k \in 1..Len(s) : t[k] = s[k]
      /\ e \in Seq(S) /\ Len(e) = 0
  BY AppendProperties, LenProperties, EmptySeq
<1> HIDE DEF t, e
<1>2. PICK u : IsReading(s, base, u) /\ Reading(s, base) = u[Len(s)]
  BY ReadingRecursion
<1>3. PICK v : IsReading(t, base, v) /\ Reading(t, base) = v[Len(t)]
  BY <1>1, ReadingRecursion
<1>4. PICK w : IsReading(e, base, w) /\ Reading(e, base) = w[Len(e)]
  BY <1>1, ReadingRecursion
<1>5. v[Len(s)] = u[Len(s)]
  BY <1>1, <1>2, <1>3, ReadingsAgree
<1>6. v[Len(t)] = IF IsDigit(c, base) THEN v[Len(s)] * base + Digit(c, base) ELSE v[Len(s)]
  <2>1. Len(t) \in 1..Len(t) /\ Len(t) - 1 = Len(s) /\ t[Len(t)] = c
    BY <1>1
  <2> QED BY <1>3, <2>1 DEF IsReading
<1>7. u[Len(s)] \in Nat /\ w[Len(e)] = 0
  BY <1>1, <1>2, <1>4 DEF IsReading
<1> QED BY <1>2, <1>3, <1>4, <1>5, <1>6, <1>7 DEF t, e

(* A digit is read as what it was written for; signs and spaces are no      *)
(* digits.                                                                  *)
LEMMA DigitFacts ==
    ASSUME NEW base \in Bases
    PROVE  /\ \A table \in Tables : \A d \in 0..(base - 1) :
                 IsDigit(table[d + 1], base) /\ Digit(table[d + 1], base) = d
           /\ \A c \in NoDigits : ~IsDigit(c, base)
           /\ IsDigit("0", base) /\ Digit("0", base) = 0
<1>0. base \in 2..16
  BY DEF Bases
<1>1. ASSUME NEW table \in Tables, NEW d \in 0..(base - 1)
      PROVE  IsDigit(table[d + 1], base) /\ Digit(table[d + 1], base) = d
  <2>1. table = Lower \/ table = Upper
    BY DEF Tables
  <2>2. table[d + 1] \in {Lower[d + 1], Upper[d + 1]}
    BY <2>1
  <2>3. d \in 0..15 /\ \A e \in 0..(base - 1) : e \in 0..15
    BY <1>0
  <2>4. \A e \in 0..(base - 1) : table[d + 1] \in {Lower[e + 1], Upper[e + 1]} => e = d
    BY <2>1, <2>3, TableFacts
  <2> QED BY <2>1, <2>2, <2>4 DEF IsDigit, Digit
<1>2. ASSUME NEW c \in NoDigits PROVE ~IsDigit(c, base)
  <2>1. \A d \in 0..(base - 1) : d \in 0..15
    BY <1>0
  <2>2. \A d \in 0..15 : Lower[d + 1] # c /\ Upper[d + 1] # c
    BY TableFacts DEF Tables
  <2> QED BY <2>1, <2>2 DEF IsDigit
<1>3. Lower[0 + 1] = "0" /\ Lower \in Tables /\ 0 \in 0..(base - 1)
  BY <1>0 DEF Lower, Tables
<1> QED BY <1>1, <1>2, <1>3

(* Signs, spaces, "0x" and zeros are read as 0.                             *)
LEMMA ReadingNought ==
    ASSUME NEW base \in Bases, NEW s \in Seq(Symbols),
           \A k \in 1..Len(s) : s[k] \in NoDigits \cup {"0"}
    PROVE  Reading(s, base) = 0
<1>1. PICK u : IsReading(s, base, u) /\ Reading(s, base) = u[Len(s)]
  BY ReadingRecursion
<1> DEFINE Bad == {k \in 0..Len(s) : u[k] # 0}
<1>2. SUFFICES ASSUME Bad # {} PROVE FALSE
  BY <1>1, LenProperties
<1>3. PICK k \in Bad : \A x \in Bad : k <= x
  <2>1. Bad \in SUBSET Nat
    BY LenProperties
  <2> HIDE DEF Bad
  <2> QED BY <1>2, <2>1, Least
<1>4. k \in 1..Len(s) /\ k - 1 \in 0..Len(s) /\ k - 1 \notin Bad
  BY <1>1, <1>3, LenProperties DEF IsReading
<1>5. u[k - 1] = 0 /\ s[k] \in NoDigits \cup {"0"} /\ base \in Nat
  BY <1>4 DEF Bases
<1>6. u[k] = IF IsDigit(s[k], base) THEN u[k - 1] * base + Digit(s[k], base) ELSE u[k - 1]
  BY <1>1, <1>4 DEF IsReading
<1>7. s[k] \in NoDigits => u[k] = 0
  BY <1>5, <1>6, DigitFacts
<1>8. s[k] = "0" => u[k] = 0
  <2>1. IsDigit("0", base) /\ Digit("0", base) = 0
    BY DigitFacts
  <2>2. s[k] = "0" => u[k] = 0 * base + 0
    BY <1>5, <1>6, <2>1
  <2> QED BY <1>5, <2>2
<1> QED BY <1>3, <1>5, <1>7, <1>8

(* Spaces behind a text do not change its reading.                          *)
LEMMA ReadingTrailing ==
    ASSUME NEW base \in Bases, NEW s \in Seq(Symbols), NEW t \in Seq(Symbols),
           \A k \in 1..Len(t) : t[k] \in NoDigits
    PROVE  Reading(s \o t, base) = Reading(s, base)
<1> DEFINE st == s \o t
           n == Len(s)
           N == Len(st)
<1>1. /\ st \in Seq(Symbols) /\ n \in Nat /\ N \in Nat /\ n <= N
      /\ \A k \in 1..n : st[k] = s[k]
      /\ \A k \in (n + 1)..N : st[k] \in NoDigits
  <2>1. st \in Seq(Symbols) /\ Len(st) = Len(s) + Len(t) /\ Len(s) \in Nat /\ Len(t) \in Nat
    BY ConcatProperties, LenProperties
  <2>2. \A k \in 1..Len(st) : st[k] = IF k <= Len(s) THEN s[k] ELSE t[k - Len(s)]
    BY ConcatProperties
  <2> HIDE DEF st
  <2>3. \A k \in (n + 1)..N : k \in 1..Len(st) /\ ~(k <= Len(s)) /\ k - Len(s) \in 1..Len(t)
    BY <2>1
  <2>4. \A k \in 1..n : k \in 1..Len(st) /\ k <= Len(s)
    BY <2>1
  <2>5. \A k \in (n + 1)..N : st[k] \in NoDigits
    <3> TAKE k \in (n + 1)..N
    <3>1. st[k] = t[k - Len(s)]
      BY <2>2, <2>3
    <3> QED BY <2>3, <3>1
  <2>6. \A k \in 1..n : st[k] = s[k]
    BY <2>2, <2>4
  <2>7. n <= N
    BY <2>1
  <2> QED BY <2>1, <2>5, <2>6, <2>7
<1> HIDE DEF st
<1>2. PICK u : IsReading(s, base, u) /\ Reading(s, base) = u[n]
  BY ReadingRecursion
<1>3. PICK v : IsReading(st, base, v) /\ Reading(st, base) = v[N]
  BY <1>1, ReadingRecursion
<1>4. u[n] = v[n]
  BY <1>1, <1>2, <1>3, ReadingsAgree
<1> HIDE DEF n, N
<1> DEFINE Bad == {k \in n..N : v[k] # v[n]}
<1>5. SUFFICES ASSUME Bad # {} PROVE FALSE
  <2>1. N \in n..N
    BY <1>1
  <2> QED BY <1>2, <1>3, <1>4, <2>1 DEF st
<1>6. PICK k \in Bad : \A x \in Bad : k <= x
  <2>1. Bad \in SUBSET Nat
    BY <1>1
  <2> HIDE DEF Bad
  <2> QED BY <1>5, <2>1, Least
<1>7. k # n /\ k \in n..N
  BY <1>6
<1>8. k \in (n + 1)..N /\ k \in 1..N /\ k - 1 \in n..N /\ ~(k <= k - 1)
  BY <1>1, <1>7
<1>9. v[k - 1] = v[n]
  BY <1>6, <1>8
<1>10. ~IsDigit(st[k], base)
  BY <1>1, <1>8, DigitFacts
<1>11. v[k] = v[k - 1]
  BY <1>3, <1>8, <1>10 DEF IsReading, N
<1> QED BY <1>6, <1>9, <1>11

(* A digit more in front of the least ones, which come first.               *)
LEMMA ReverseCons ==
    ASSUME NEW z \in Seq(Symbols), NEW r \in Seq(Symbols), NEW d \in Symbols
    PROVE  /\ Reverse(r) \in Seq(Symbols) /\ Len(Reverse(r)) = Len(r)
           /\ z \o Reverse(<<d>> \o r) = Append(z \o Reverse(r), d)
<1>1. ASSUME NEW q \in Seq(Symbols)
      PROVE  /\ Reverse(q) \in Seq(Symbols) /\ Len(Reverse(q)) = Len(q)
             /\ \A k \in 1..Len(q) : Reverse(q)[k] = q[(Len(q) - k) + 1]
  <2>1. Len(q) \in Nat /\ \A k \in 1..Len(q) : (Len(q) - k) + 1 \in 1..Len(q) /\ q[k] \in Symbols
    BY LenProperties, ElementOfSeq
  <2>2. Reverse(q) \in [1..Len(q) -> Symbols]
    BY <2>1 DEF Reverse
  <2> QED BY <2>1, <2>2, IsASeq, LenProperties DEF Reverse
<1> DEFINE c == <<d>> \o r
<1>2. /\ c \in Seq(Symbols) /\ Len(c) = Len(r) + 1 /\ Len(r) \in Nat
      /\ c[1] = d /\ \A k \in 1..Len(r) : c[k + 1] = r[k]
  BY LenProperties
<1> HIDE DEF c
<1>3. /\ Reverse(c) \in Seq(Symbols) /\ Len(Reverse(c)) = Len(r) + 1
      /\ Reverse(c)[Len(r) + 1] = d
      /\ \A k \in 1..Len(r) : Reverse(c)[k] = Reverse(r)[k]
  <2>1. Reverse(c) \in Seq(Symbols) /\ Len(Reverse(c)) = Len(r) + 1
    BY <1>1, <1>2
  <2>2. Reverse(c)[Len(r) + 1] = d
    <3>1. Len(r) + 1 \in 1..Len(c) /\ (Len(c) - (Len(r) + 1)) + 1 = 1
      BY <1>2
    <3> QED BY <1>1, <1>2, <3>1
  <2>3. ASSUME NEW k \in 1..Len(r) PROVE Reverse(c)[k] = Reverse(r)[k]
    <3>1. k \in 1..Len(c) /\ (Len(c) - k) + 1 = ((Len(r) - k) + 1) + 1 /\ (Len(r) - k) + 1 \in 1..Len(r)
      BY <1>2
    <3>2. Reverse(c)[k] = c[((Len(r) - k) + 1) + 1]
      BY <1>1, <1>2, <3>1
    <3>3. c[((Len(r) - k) + 1) + 1] = r[(Len(r) - k) + 1]
      BY <1>2, <3>1
    <3> QED BY <1>1, <3>2, <3>3
  <2> QED BY <2>1, <2>2, <2>3
<1> DEFINE R == Reverse(r)
           C == Reverse(c)
<1>4. R \in Seq(Symbols) /\ Len(R) = Len(r) /\ C \in Seq(Symbols) /\ Len(C) = Len(R) + 1
      /\ C[Len(R) + 1] = d /\ \A k \in 1..Len(R) : C[k] = R[k]
  BY <1>1, <1>3
<1> HIDE DEF R, C
<1>5. C = Append(R, d)
  BY <1>4
<1>6. z \o Append(R, d) = Append(z \o R, d)
  BY <1>4
<1> QED BY <1>1, <1>4, <1>5, <1>6 DEF R, C, c

(* What digits() returns: symbols, at least one, of which the first is the  *)
(* least; and what it was given is what they are read as.                   *)
LEMMA DigitsFacts ==
    ASSUME NEW base \in Bases, NEW table \in Tables, NEW n \in Nat
    PROVE  LET ds == digits(n, base, table) IN
           /\ ds \in Seq(Symbols) /\ Len(ds) \in Nat \ {0}
           /\ \A k \in 1..Len(ds) : ds[k] \in Symbols \ NoDigits
           /\ \A z \in Seq(Symbols) : Reading(z, base) = 0 => Reading(z \o Reverse(ds), base) = n
           /\ base = 10 /\ n < 10 => Len(ds) = 1
           /\ base = 10 /\ 10 <= n /\ n < 100 => Len(ds) = 2
<1>1. PICK from : /\ IsDigits(base, table, from)
                  /\ \A m \in Nat : digits(m, base, table) = IF m = 0 THEN <<"0">> ELSE from[m]
  BY DigitsRecursion
<1> DEFINE Dig(m) == table[(m % base) + 1]
           Good(m) == /\ \A k \in 1..Len(from[m]) : from[m][k] \in Symbols \ NoDigits
                      /\ \A z \in Seq(Symbols) :
                            Reading(z, base) = 0 => Reading(z \o Reverse(from[m]), base) = m
           Bad == {m \in Nat : ~Good(m)}
<1>2. ASSUME NEW m \in Nat
      PROVE  /\ m % base \in 0..15 /\ m % base \in 0..(base - 1) /\ m \div base \in Nat
             /\ Dig(m) \in Symbols \ NoDigits
             /\ IsDigit(Dig(m), base) /\ Digit(Dig(m), base) = m % base
  <2>1. m % base \in 0..(base - 1) /\ m \div base \in Nat /\ base \in 2..16
    BY Divide DEF Bases
  <2>2. m % base \in 0..15
    BY <2>1
  <2> QED BY <2>1, <2>2, TableFacts, DigitFacts
<1> HIDE DEF Dig
<1>3. ASSUME NEW m \in Nat \ {0}, Good(m \div base) PROVE Good(m)
  <2> DEFINE r == from[m \div base]
  <2>1. from[m] = <<Dig(m)>> \o r /\ r \in Seq(Symbols) /\ Dig(m) \in Symbols
    BY <1>1, <1>2 DEF IsDigits, Dig
  <2>2. \A k \in 1..Len(r) : r[k] \in Symbols \ NoDigits
    BY <1>3
  <2>3. \A z \in Seq(Symbols) : Reading(z, base) = 0 => Reading(z \o Reverse(r), base) = m \div base
    BY <1>3
  <2> HIDE DEF r, Good
  <2>4. \A k \in 1..Len(from[m]) : from[m][k] \in Symbols \ NoDigits
    <3> TAKE k \in 1..Len(from[m])
    <3>1. Len(from[m]) = Len(r) + 1 /\ Len(r) \in Nat
      BY <2>1, LenProperties
    <3>2. from[m][k] = IF k = 1 THEN Dig(m) ELSE r[k - 1]
      BY <2>1, <3>1
    <3>3. k # 1 => k - 1 \in 1..Len(r)
      BY <3>1
    <3> QED BY <1>2, <2>2, <3>2, <3>3
  <2>5. ASSUME NEW z \in Seq(Symbols), Reading(z, base) = 0
        PROVE  Reading(z \o Reverse(from[m]), base) = m
    <3>1. z \o Reverse(r) \in Seq(Symbols) /\ z \o Reverse(from[m]) = Append(z \o Reverse(r), Dig(m))
      BY <2>1, ReverseCons, ConcatProperties
    <3> DEFINE y == z \o Reverse(r)
    <3>a. y \in Seq(Symbols) /\ Dig(m) \in Symbols /\ IsDigit(Dig(m), base) /\ Digit(Dig(m), base) = m % base
      BY <1>2, <2>1, <3>1
    <3> HIDE DEF y
    <3>b. Reading(Append(y, Dig(m)), base) = Reading(y, base) * base + (m % base)
      BY <3>a, ReadingAppend
    <3>2. Reading(z \o Reverse(from[m]), base) = Reading(z \o Reverse(r), base) * base + (m % base)
      BY <3>1, <3>b DEF y
    <3>3. Reading(z \o Reverse(r), base) = m \div base
      BY <2>3, <2>5
    <3> QED BY <3>2, <3>3, Divide
  <2> QED BY <2>4, <2>5 DEF Good
<1>4. Good(0)
  <2>1. from[0] = <<>> /\ Reverse(<<>>) = <<>> /\ Len(<<>>) = 0
    BY <1>1 DEF IsDigits, Reverse
  <2>2. \A z \in Seq(Symbols) : z \o <<>> = z
    OBVIOUS
  <2>3. \A z \in Seq(Symbols) : z \o Reverse(from[0]) = z
    BY <2>1, <2>2
  <2>4. 1..Len(from[0]) = {}
    BY <2>1
  <2> QED BY <2>3, <2>4
<1> HIDE DEF Good
<1>5. \A m \in Nat : Good(m)
  <2>1. SUFFICES ASSUME Bad # {} PROVE FALSE
    OBVIOUS
  <2>2. PICK m \in Bad : \A x \in Bad : m <= x
    <3> HIDE DEF Bad
    <3>1. Bad \in SUBSET Nat
      BY DEF Bad
    <3> QED BY <2>1, <3>1, Least
  <2>3. m \in Nat \ {0}
    BY <1>4, <2>2
  <2>4. m \div base \in Nat /\ ~(m <= m \div base)
    BY <2>3, Divide
  <2>5. Good(m \div base)
    BY <2>2, <2>4
  <2> QED BY <1>3, <2>2, <2>3, <2>5
<1>6. ASSUME NEW m \in Nat \ {0} PROVE from[m] \in Seq(Symbols) /\ Len(from[m]) = 1 + Len(from[m \div base])
  <2>1. from[m] = <<Dig(m)>> \o from[m \div base] /\ from[m \div base] \in Seq(Symbols) /\ Dig(m) \in Symbols
    BY <1>1, <1>2 DEF IsDigits, Dig
  <2>2. <<Dig(m)>> \in Seq(Symbols) /\ Len(<<Dig(m)>>) = 1
    BY <2>1
  <2> HIDE DEF Dig
  <2> QED BY <2>1, <2>2, ConcatProperties
<1>7. CASE n = 0
  <2>1. digits(n, base, table) = <<"0">>
    BY <1>1, <1>7
  <2>2. "0" \in Symbols \ NoDigits
    BY Zenon DEF Symbols, LowerDigits, NoDigits, Blank
  <2>3. <<"0">> \in Seq(Symbols) /\ Len(<<"0">>) = 1 /\ Reverse(<<"0">>) = <<"0">>
    BY <2>2 DEF Reverse
  <2>4. ASSUME NEW z \in Seq(Symbols), Reading(z, base) = 0 PROVE Reading(z \o <<"0">>, base) = 0
    <3>1. z \o <<"0">> = Append(z, "0")
      BY <2>3
    <3>2. Reading(Append(z, "0"), base) = Reading(z, base) * base + 0
      BY <2>2, ReadingAppend, DigitFacts
    <3>3. 0 * base + 0 = 0
      BY DEF Bases
    <3>4. Reading(Append(z, "0"), base) = 0 * base + 0
      BY <2>4, <3>2
    <3> QED BY <3>1, <3>3, <3>4
  <2>5. \A k \in 1..1 : <<"0">>[k] = "0"
    OBVIOUS
  <2> DEFINE ds == digits(n, base, table)
  <2>6. /\ ds \in Seq(Symbols) /\ Len(ds) = 1 /\ \A k \in 1..1 : ds[k] = "0"
        /\ \A z \in Seq(Symbols) : Reading(z, base) = 0 => Reading(z \o Reverse(ds), base) = n
    BY <1>7, <2>1, <2>3, <2>4, <2>5
  <2> HIDE DEF ds
  <2>7. \A k \in 1..Len(ds) : ds[k] \in Symbols \ NoDigits
    BY <2>2, <2>6
  <2> QED BY <1>7, <2>6, <2>7 DEF ds
<1>8. CASE n # 0
  <2>1. digits(n, base, table) = from[n] /\ Good(n)
    BY <1>1, <1>5, <1>8
  <2>2. /\ from[n] \in Seq(Symbols) /\ from[n \div base] \in Seq(Symbols) /\ n \div base \in Nat
        /\ Len(from[n]) = 1 + Len(from[n \div base]) /\ Len(from[n \div base]) \in Nat
    BY <1>1, <1>6, <1>8, Divide, LenProperties DEF IsDigits
  <2>3. Len(from[0]) = 0
    BY <1>1 DEF IsDigits
  <2>4. ASSUME base = 10, n < 10 PROVE Len(from[n]) = 1
    <3>1. n \div base = 0
      BY <2>4
    <3>2. Len(from[n \div base]) = 0
      BY <2>3, <3>1
    <3> QED BY <2>2, <3>2
  <2>5. ASSUME base = 10, 10 <= n, n < 100 PROVE Len(from[n]) = 2
    <3> DEFINE q == n \div 10
    <3>1. q \in Nat \ {0} /\ q < 10 /\ q \div 10 = 0
      BY <2>5
    <3> HIDE DEF q
    <3>2. Len(from[q]) = 1 + Len(from[q \div 10])
      BY <1>6, <2>5, <3>1
    <3> QED BY <2>2, <2>3, <2>5, <3>1, <3>2 DEF q
  <2> QED BY <2>1, <2>2, <2>4, <2>5 DEF Good
<1> QED BY <1>7, <1>8

-----------------------------------------------------------------------------
(* Fields.                                                                 *)

(* Padding is as long as asked for, or empty.                               *)
LEMMA RepeatFacts ==
    ASSUME NEW S, NEW c \in S, NEW n \in Int
    PROVE  /\ Repeat(c, n) \in Seq(S) /\ Len(Repeat(c, n)) = AtLeast(n, 0)
           /\ AtLeast(n, 0) \in Nat
           /\ \A k \in 1..Len(Repeat(c, n)) : Repeat(c, n)[k] = c
           /\ n <= 0 => Repeat(c, n) = <<>>
<1>1. CASE n >= 0
  <2>1. Repeat(c, n) \in [1..n -> S] /\ \A k \in 1..n : Repeat(c, n)[k] = c
    BY DEF Repeat
  <2>2. n \in Nat
    BY <1>1
  <2>3. Repeat(c, n) \in Seq(S) /\ Len(Repeat(c, n)) = n
    <3> HIDE DEF Repeat
    <3> QED BY <2>1, <2>2, IsASeq, LenProperties
  <2>4. n = 0 => Repeat(c, n) = <<>>
    BY <2>3, EmptySeq
  <2> QED BY <1>1, <2>1, <2>2, <2>3, <2>4 DEF AtLeast
<1>2. CASE n < 0
  <2>1. 1..n = {}
    BY <1>2
  <2>2. Repeat(c, n) = <<>>
    BY <2>1 DEF Repeat
  <2>3. AtLeast(n, 0) = 0
    BY <1>2 DEF AtLeast
  <2> QED BY <2>2, <2>3
<1> QED BY <1>1, <1>2

(* A concatenation taken apart.                                             *)
LEMMA PartsOfConcat ==
    ASSUME NEW S, NEW s \in Seq(S), NEW t \in Seq(S)
    PROVE  /\ SubSeq(s \o t, 1, Len(s)) = s
           /\ SubSeq(s \o t, Len(s) + 1, Len(s \o t)) = t
<1> DEFINE st == s \o t
           m == Len(s)
           n == Len(t)
<1>1. /\ st \in Seq(S) /\ m \in Nat /\ n \in Nat /\ Len(st) = m + n
      /\ \A i \in 1..(m + n) : st[i] = IF i <= m THEN s[i] ELSE t[i - m]
  BY ConcatProperties, LenProperties
<1> HIDE DEF st
<1>2. SubSeq(st, 1, m) = s
  <2>1. SubSeq(st, 1, m) \in Seq(S) /\ Len(SubSeq(st, 1, m)) = m
        /\ \A i \in 1..m : SubSeq(st, 1, m)[i] = st[1 + i - 1]
    BY <1>1
  <2>2. \A i \in 1..m : 1 + i - 1 = i /\ st[i] = s[i]
    BY <1>1
  <2>3. \A i \in 1..m : SubSeq(st, 1, m)[i] = s[i]
    BY <2>1, <2>2
  <2> QED BY <1>1, <2>1, <2>3, SeqEqual
<1>3. SubSeq(st, m + 1, Len(st)) = t
  <2> DEFINE r == SubSeq(st, m + 1, m + n)
  <2>1. r \in Seq(S) /\ Len(r) = n /\ \A i \in 1..n : r[i] = st[(m + 1) + i - 1]
    BY <1>1
  <2>2. \A i \in 1..n : (m + 1) + i - 1 = m + i /\ st[m + i] = t[i]
    <3> TAKE i \in 1..n
    <3>1. m + i \in 1..(m + n) /\ ~(m + i <= m) /\ (m + i) - m = i /\ (m + 1) + i - 1 = m + i
      BY <1>1
    <3> QED BY <1>1, <3>1
  <2> HIDE DEF r
  <2>3. \A i \in 1..n : r[i] = t[i]
    BY <2>1, <2>2
  <2>4. r = t
    BY <2>1, <2>3, SeqEqual
  <2> QED BY <1>1, <2>4 DEF r
<1> QED BY <1>2, <1>3 DEF st

\* A field of the characters S: bare, with padding at one end or behind its head.
IsField(S, pad, type, head, body, bare, out) ==
    /\ bare \in Seq(S) /\ out \in Seq(S)
    /\ Len(bare) \in Nat /\ Len(out) = Len(bare) + pad
    /\ Padded(0, type, head, body) = bare
    /\ "LEFT" \in type => out = bare \o Repeat(Blank, pad)
    /\ "LEFT" \notin type /\ "ZEROPAD" \in type =>
          out = SubSeq(bare, 1, Len(head)) \o Repeat("0", pad) \o SubSeq(bare, Len(head) + 1, Len(bare))
    /\ "LEFT" \notin type /\ "ZEROPAD" \notin type => out = Repeat(Blank, pad) \o bare

(* Where the padding goes.                                                  *)
LEMMA PaddedFacts ==
    ASSUME NEW S, NEW head \in Seq(S), NEW body \in Seq(S), Blank \in S, "0" \in S,
           NEW type, NEW pad \in Nat,
           NEW bare, bare = head \o body, NEW out, out = Padded(pad, type, head, body)
    PROVE  IsField(S, pad, type, head, body, bare, out)
<1> DEFINE sp == Repeat(Blank, pad)
           ze == Repeat("0", pad)
<1>0. pad \in Int /\ AtLeast(pad, 0) = pad /\ 0 \in Int /\ 0 <= 0
  <2>1. pad > 0 \/ pad = 0
    OBVIOUS
  <2> QED BY <2>1 DEF AtLeast
<1>1. sp \in Seq(S) /\ ze \in Seq(S) /\ Len(sp) = pad /\ Len(ze) = pad
  BY <1>0, RepeatFacts
<1>2. Repeat(Blank, 0) = <<>> /\ Repeat("0", 0) = <<>>
  BY <1>0, RepeatFacts
<1>3. bare \in Seq(S) /\ Len(bare) = Len(head) + Len(body) /\ Len(head) \in Nat /\ Len(body) \in Nat
  BY ConcatProperties, LenProperties
<1> HIDE DEF sp, ze
<1>4. Padded(0, type, head, body) = bare
  <2>1. bare \o <<>> = bare /\ <<>> \o head = head /\ head \o <<>> = head
    <3> QED BY <1>3, ConcatEmptySeq
  <2> QED BY <1>2, <2>1 DEF Padded
<1>5. SubSeq(bare, 1, Len(head)) = head /\ SubSeq(bare, Len(head) + 1, Len(bare)) = body
  BY PartsOfConcat
<1>6. CASE "LEFT" \in type
  <2>1. Padded(pad, type, head, body) = bare \o sp
    BY <1>6 DEF Padded, sp
  <2>2. bare \o sp \in Seq(S) /\ Len(bare \o sp) = Len(bare) + pad /\ Len(bare) \in Nat
    <3>1. sp \in Seq(S) /\ bare \in Seq(S)
      BY <1>1, <1>3
    <3>2. bare \o sp \in Seq(S) /\ Len(bare \o sp) = Len(bare) + Len(sp) /\ Len(bare) \in Nat
      BY <3>1, ConcatProperties, LenProperties
    <3> QED BY <1>1, <3>2
  <2> QED BY <1>3, <1>4, <1>6, <2>1, <2>2 DEF sp, IsField
<1>7. CASE "LEFT" \notin type /\ "ZEROPAD" \in type
  <2>1. Padded(pad, type, head, body) = (head \o ze) \o body
    BY <1>7 DEF Padded, ze
  <2>2. head \o ze \in Seq(S) /\ Len(head \o ze) = Len(head) + pad
    BY <1>1, ConcatProperties
  <2> DEFINE hz == head \o ze
  <2> HIDE DEF hz
  <2>3. hz \o body \in Seq(S) /\ Len(hz \o body) = Len(hz) + Len(body)
    BY <1>1, <2>2, ConcatProperties DEF hz
  <2>4. Len(hz \o body) = Len(bare) + pad /\ Len(bare) \in Nat
    <3>1. Len(hz) = Len(head) + pad
      BY <2>2 DEF hz
    <3> QED BY <1>3, <2>3, <3>1
  <2> QED BY <1>3, <1>4, <1>5, <1>7, <2>1, <2>3, <2>4 DEF ze, hz, IsField
<1>8. CASE "LEFT" \notin type /\ "ZEROPAD" \notin type
  <2>1. Padded(pad, type, head, body) = (sp \o head) \o body
    BY <1>8 DEF Padded, sp
  <2>2. (sp \o head) \o body = sp \o bare
    BY <1>1, ConcatAssociative
  <2>3. sp \o bare \in Seq(S) /\ Len(sp \o bare) = Len(bare) + pad /\ Len(bare) \in Nat
    <3>1. sp \in Seq(S) /\ bare \in Seq(S)
      BY <1>1, <1>3
    <3>2. sp \o bare \in Seq(S) /\ Len(sp \o bare) = Len(sp) + Len(bare) /\ Len(bare) \in Nat
      BY <3>1, ConcatProperties, LenProperties
    <3> QED BY <1>1, <3>2
  <2> QED BY <1>3, <1>4, <1>8, <2>1, <2>2, <2>3 DEF sp, IsField
<1> QED BY <1>6, <1>7, <1>8

(* The characters of a concatenation are those of its parts.                *)
LEMMA CharsFacts ==
    /\ \A S : \A s, t \in Seq(S) : Chars(s \o t) = Chars(s) \cup Chars(t)
    /\ \A S : \A s \in Seq(S) : Chars(s) \subseteq S /\ \A k \in 1..Len(s) : s[k] \in Chars(s)
    /\ Chars(<<>>) = {}
    /\ \A c : Chars(<<c>>) = {c}
    /\ \A S : \A c \in S : \A n \in Int : Chars(Repeat(c, n)) \subseteq {c}
<1>1. ASSUME NEW S, NEW s \in Seq(S)
      PROVE  /\ Chars(s) = {s[k] : k \in 1..Len(s)} /\ Chars(s) \subseteq S
             /\ \A k \in 1..Len(s) : s[k] \in Chars(s)
  BY LenProperties, ElementOfSeq DEF Chars
<1>2. ASSUME NEW S, NEW s \in Seq(S), NEW t \in Seq(S)
      PROVE  Chars(s \o t) = Chars(s) \cup Chars(t)
  <2> DEFINE st == s \o t
             m == Len(s)
             n == Len(t)
  <2>1. /\ st \in Seq(S) /\ m \in Nat /\ n \in Nat /\ Len(st) = m + n
        /\ \A i \in 1..(m + n) : st[i] = IF i <= m THEN s[i] ELSE t[i - m]
    BY ConcatProperties, LenProperties
  <2> HIDE DEF st
  <2>2. /\ Chars(st) = {st[k] : k \in 1..(m + n)}
        /\ Chars(s) = {s[k] : k \in 1..m} /\ Chars(t) = {t[k] : k \in 1..n}
    BY <1>1, <2>1
  <2> HIDE DEF m, n
  <2>3. ASSUME NEW c \in Chars(st) PROVE c \in Chars(s) \cup Chars(t)
    <3>1. PICK k \in 1..(m + n) : c = st[k]
      BY <2>2
    <3>2. CASE k <= m
      BY <2>1, <2>2, <3>1, <3>2
    <3>3. CASE ~(k <= m)
      <4>1. k - m \in 1..n /\ c = t[k - m]
        BY <2>1, <3>1, <3>3
      <4> QED BY <2>2, <4>1
    <3> QED BY <3>2, <3>3
  <2>4. ASSUME NEW c \in Chars(s) PROVE c \in Chars(st)
    <3>1. PICK k \in 1..m : c = s[k]
      BY <2>2
    <3>2. k \in 1..(m + n) /\ st[k] = c
      BY <2>1, <3>1
    <3> QED BY <2>2, <3>2
  <2>5. ASSUME NEW c \in Chars(t) PROVE c \in Chars(st)
    <3>1. PICK k \in 1..n : c = t[k]
      BY <2>2
    <3>2. m + k \in 1..(m + n) /\ ~(m + k <= m) /\ (m + k) - m = k
      BY <2>1
    <3>3. st[m + k] = c
      BY <2>1, <3>1, <3>2
    <3> QED BY <2>2, <3>2, <3>3
  <2> QED BY <2>3, <2>4, <2>5 DEF st
<1>3. Chars(<<>>) = {} /\ \A c : Chars(<<c>>) = {c}
  BY DEF Chars
<1>4. ASSUME NEW S, NEW c \in S, NEW n \in Int PROVE Chars(Repeat(c, n)) \subseteq {c}
  BY DEF Chars, Repeat
<1> QED BY <1>1, <1>2, <1>3, <1>4

\* A text that is read as 0 whatever the base: signs, spaces, "0x" and zeros.
Nought(z) == z \in Seq(Symbols) /\ Chars(z) \subseteq NoDigits \cup {"0"}

(* Which symbol is which.                                                   *)
LEMMA SymbolFacts ==
    /\ "0" \in Symbols \ NoDigits /\ NoDigits \subseteq Symbols
    /\ Blank \in NoDigits /\ "-" \in NoDigits /\ "+" \in NoDigits /\ "x" \in NoDigits /\ "X" \in NoDigits
    /\ Blank # "-" /\ "0" # "-" /\ "+" # "-" /\ "x" # "-" /\ "X" # "-"
    /\ \A c \in Symbols \ NoDigits : IsDigit(c, 16)
<1>1. /\ "0" \in Symbols \ NoDigits /\ NoDigits \subseteq Symbols
      /\ Blank \in NoDigits /\ "-" \in NoDigits /\ "+" \in NoDigits /\ "x" \in NoDigits /\ "X" \in NoDigits
  BY Zenon DEF Symbols, LowerDigits, NoDigits, Blank
<1>2. Blank # "-" /\ "0" # "-" /\ "+" # "-" /\ "x" # "-" /\ "X" # "-"
  BY Zenon DEF Blank
<1>3. \A c \in LowerDigits : \E d \in 0..15 : c = Lower[d + 1]
  <2>1. /\ Lower[0 + 1] = "0" /\ Lower[1 + 1] = "1" /\ Lower[2 + 1] = "2" /\ Lower[3 + 1] = "3"
        /\ Lower[4 + 1] = "4" /\ Lower[5 + 1] = "5" /\ Lower[6 + 1] = "6" /\ Lower[7 + 1] = "7"
        /\ Lower[8 + 1] = "8" /\ Lower[9 + 1] = "9" /\ Lower[10 + 1] = "a" /\ Lower[11 + 1] = "b"
        /\ Lower[12 + 1] = "c" /\ Lower[13 + 1] = "d" /\ Lower[14 + 1] = "e" /\ Lower[15 + 1] = "f"
    BY DEF Lower
  <2> QED BY <2>1 DEF LowerDigits
<1>4. \A c \in UpperDigits : \E d \in 0..15 : c = Upper[d + 1]
  <2>1. /\ Upper[0 + 1] = "0" /\ Upper[1 + 1] = "1" /\ Upper[2 + 1] = "2" /\ Upper[3 + 1] = "3"
        /\ Upper[4 + 1] = "4" /\ Upper[5 + 1] = "5" /\ Upper[6 + 1] = "6" /\ Upper[7 + 1] = "7"
        /\ Upper[8 + 1] = "8" /\ Upper[9 + 1] = "9" /\ Upper[10 + 1] = "A" /\ Upper[11 + 1] = "B"
        /\ Upper[12 + 1] = "C" /\ Upper[13 + 1] = "D" /\ Upper[14 + 1] = "E" /\ Upper[15 + 1] = "F"
    BY DEF Upper
  <2> QED BY <2>1 DEF UpperDigits
<1>5. 16 - 1 = 15
  OBVIOUS
<1>6. \A c \in Symbols \ NoDigits : c \in LowerDigits \cup UpperDigits
  BY DEF Symbols
<1>7. \A c \in Symbols \ NoDigits : IsDigit(c, 16)
  BY <1>3, <1>4, <1>5, <1>6 DEF IsDigit
<1> QED BY <1>1, <1>2, <1>7

(* Such texts put together are read as 0, too.                              *)
LEMMA NoughtFacts ==
    /\ \A y, z : Nought(y) /\ Nought(z) => Nought(y \o z)
    /\ \A n \in Int : Nought(Repeat(Blank, n)) /\ Nought(Repeat("0", n))
    /\ Nought(<<>>)
    /\ \A z : \A base \in Bases : Nought(z) => Reading(z, base) = 0
<1>1. ASSUME NEW y, NEW z, Nought(y), Nought(z) PROVE Nought(y \o z)
  <2>1. y \in Seq(Symbols) /\ z \in Seq(Symbols)
    BY <1>1 DEF Nought
  <2>2. y \o z \in Seq(Symbols) /\ Chars(y \o z) = Chars(y) \cup Chars(z)
    BY <2>1, ConcatProperties, CharsFacts
  <2> QED BY <1>1, <2>2 DEF Nought
<1>2. ASSUME NEW n \in Int PROVE Nought(Repeat(Blank, n)) /\ Nought(Repeat("0", n))
  <2>1. Blank \in Symbols /\ "0" \in Symbols /\ Blank \in NoDigits
    BY SymbolFacts
  <2>2. Repeat(Blank, n) \in Seq(Symbols) /\ Repeat("0", n) \in Seq(Symbols)
    BY <2>1, RepeatFacts
  <2>3. Chars(Repeat(Blank, n)) \subseteq {Blank} /\ Chars(Repeat("0", n)) \subseteq {"0"}
    BY <2>1, CharsFacts
  <2> QED BY <2>1, <2>2, <2>3 DEF Nought
<1>3. Nought(<<>>)
  BY CharsFacts DEF Nought
<1>4. ASSUME NEW z, NEW base \in Bases, Nought(z) PROVE Reading(z, base) = 0
  <2>1. z \in Seq(Symbols) /\ \A k \in 1..Len(z) : z[k] \in NoDigits \cup {"0"}
    BY <1>4, CharsFacts DEF Nought
  <2> QED BY <2>1, ReadingNought
<1> QED BY <1>1, <1>2, <1>3, <1>4


-----------------------------------------------------------------------------
(* Numbers.                                                                *)

(* What number() prints the digits of: an int without sign, the negation of *)
(* the least int included.                                                  *)
LEMMA MagnitudeFacts ==
    ASSUME NEW num \in Ints, NEW type
    PROVE  /\ num \in Int /\ Magnitude(num, type) \in Nat
           /\ Magnitude(num, type) = IF Negative(num, type) THEN -num ELSE Unsigned(num)
           /\ num >= 0 => Unsigned(num) = num
<1> DEFINE V == Values(Nibbles)
           K == Values(Nibbles - 1)
<1>1. V = 16 * K /\ K \in Nat \ {0}
  <2>1. Nibbles - 1 \in Nat /\ (Nibbles - 1) + 1 = Nibbles
    BY FormatAssumption
  <2> QED BY <2>1, ValuesFacts
<1> HIDE DEF V, K
<1>2. V \in Nat \ {0} /\ V \div 2 = 8 * K /\ 8 * K < V
  BY <1>1
<1>3. num \in Int /\ -(8 * K) <= num /\ num <= 8 * K - 1
  <2>1. num \in (-(V \div 2))..((V \div 2) - 1)
    BY DEF Ints, Limit, V
  <2> QED BY <1>1, <1>2, <2>1
<1>4. Negative(num, type) => num < 0
  BY DEF Negative
<1>5. num < 0 => (-num) \in Nat /\ (-num) % V = -num
  BY <1>1, <1>2, <1>3
<1>6. num >= 0 => num % V = num
  BY <1>1, <1>2, <1>3
<1>7. num % V \in Nat
  BY <1>2, <1>3
<1> QED BY <1>3, <1>4, <1>5, <1>6, <1>7 DEF Magnitude, Unsigned, V

(* The sign and the prefix: a "-" for negative numbers only.                *)
LEMMA HeadFacts ==
    ASSUME NEW num, NEW type, NEW base
    PROVE  LET head == Sign(num, type) \o Special(base, type) IN
           /\ Nought(head) /\ Len(head) \in Nat
           /\ "-" \in Chars(head) <=> Negative(num, type)
<1> DEFINE sign == Sign(num, type)
           special == Special(base, type)
<1>1. Nought(sign) /\ ("-" \in Chars(sign) <=> Negative(num, type))
  <2>1. sign \in {<<>>, <<"-">>, <<"+">>, <<Blank>>} /\ (sign = <<"-">> <=> Negative(num, type))
    <3>1. <<"-">> # <<"+">> /\ <<"-">> # <<Blank>> /\ <<"-">> # <<>>
      BY SymbolFacts
    <3> QED BY <3>1 DEF Sign
  <2>2. \A c \in NoDigits : Nought(<<c>>)
    BY SymbolFacts, CharsFacts DEF Nought
  <2>3. Nought(<<>>) /\ Chars(<<>>) = {}
    BY NoughtFacts, CharsFacts
  <2> HIDE DEF sign
  <2>4. Nought(sign)
    BY <2>1, <2>2, <2>3, SymbolFacts
  <2>5. "-" \in Chars(sign) <=> sign = <<"-">>
    BY <2>1, <2>3, CharsFacts, SymbolFacts
  <2> QED BY <2>1, <2>4, <2>5
<1>2. Nought(special) /\ "-" \notin Chars(special)
  <2>1. special \in {<<>>, <<"0">>, <<"0", "x">>, <<"0", "X">>}
    BY DEF Special
  <2>2. Nought(<<"0">>) /\ "-" \notin Chars(<<"0">>)
    BY SymbolFacts, CharsFacts DEF Nought
  <2>3. ASSUME NEW c \in {"x", "X"} PROVE Nought(<<"0", c>>) /\ "-" \notin Chars(<<"0", c>>)
    <3>1. Chars(<<"0", c>>) = {"0", c}
      BY DEF Chars
    <3>2. <<"0", c>> \in Seq(Symbols)
      BY SymbolFacts
    <3> QED BY <3>1, <3>2, SymbolFacts DEF Nought
  <2>4. Nought(<<>>) /\ Chars(<<>>) = {}
    BY NoughtFacts, CharsFacts
  <2> QED BY <2>1, <2>2, <2>3, <2>4
<1> HIDE DEF sign, special
<1>3. Nought(sign \o special)
  BY <1>1, <1>2, NoughtFacts
<1>4. Chars(sign \o special) = Chars(sign) \cup Chars(special)
  BY <1>1, <1>2, CharsFacts DEF Nought
<1>5. Len(sign \o special) \in Nat
  BY <1>3, LenProperties DEF Nought
<1> QED BY <1>1, <1>2, <1>3, <1>4, <1>5 DEF sign, special

\* The zeros of the precision and the digits.
BodyFor(n, base, table, precision) ==
    LET ds == digits(n, base, table) IN Repeat("0", precision - Len(ds)) \o Reverse(ds)

(* They are read as the number.                                             *)
LEMMA BodyFacts ==
    ASSUME NEW base \in Bases, NEW table \in Tables, NEW n \in Nat, NEW precision \in Int
    PROVE  LET body == BodyFor(n, base, table, precision)
               ds == digits(n, base, table)
           IN  /\ body \in Seq(Symbols) /\ Len(body) \in Nat /\ Chars(body) \subseteq Symbols \ NoDigits
               /\ \A z : Nought(z) => Reading(z \o body, base) = n
               /\ precision <= 0 => body = Reverse(ds) /\ Len(body) = Len(ds)
<1> DEFINE ds == digits(n, base, table)
           zs == Repeat("0", precision - Len(ds))
           rev == Reverse(ds)
<1>1. /\ ds \in Seq(Symbols) /\ Len(ds) \in Nat \ {0} /\ Chars(ds) \subseteq Symbols \ NoDigits
      /\ \A z \in Seq(Symbols) : Reading(z, base) = 0 => Reading(z \o rev, base) = n
  <2>1. /\ ds \in Seq(Symbols) /\ Len(ds) \in Nat \ {0}
        /\ \A k \in 1..Len(ds) : ds[k] \in Symbols \ NoDigits
        /\ \A z \in Seq(Symbols) : Reading(z, base) = 0 => Reading(z \o rev, base) = n
    BY DigitsFacts
  <2> HIDE DEF ds, rev
  <2>2. Chars(ds) = {ds[k] : k \in 1..Len(ds)}
    BY <2>1, LenProperties DEF Chars
  <2> QED BY <2>1, <2>2
<1> HIDE DEF ds
<1>2. rev \in Seq(Symbols) /\ Len(rev) = Len(ds) /\ Chars(rev) \subseteq Chars(ds)
  <2>1. Len(ds) \in Nat /\ \A k \in 1..Len(ds) : (Len(ds) - k) + 1 \in 1..Len(ds) /\ ds[k] \in Symbols
    BY <1>1, ElementOfSeq
  <2>2. rev \in [1..Len(ds) -> Symbols] /\ \A k \in 1..Len(ds) : rev[k] = ds[(Len(ds) - k) + 1]
    BY <2>1 DEF Reverse
  <2> HIDE DEF rev
  <2>3. rev \in Seq(Symbols) /\ Len(rev) = Len(ds)
    BY <2>1, <2>2, IsASeq, LenProperties
  <2>4. Chars(rev) = {rev[k] : k \in 1..Len(ds)}
    BY <2>2 DEF Chars
  <2>5. \A k \in 1..Len(ds) : rev[k] \in Chars(ds)
    BY <1>1, <2>1, <2>2, CharsFacts
  <2> QED BY <2>3, <2>4, <2>5
<1> HIDE DEF rev
<1>3. Nought(zs) /\ Chars(zs) \subseteq {"0"} /\ (precision <= 0 => zs = <<>>)
  <2>1. precision - Len(ds) \in Int /\ (precision <= 0 => precision - Len(ds) <= 0)
    BY <1>1
  <2> QED BY <2>1, NoughtFacts, CharsFacts, RepeatFacts, SymbolFacts
<1> HIDE DEF zs
<1>4. zs \in Seq(Symbols)
  BY <1>3 DEF Nought
<1>5. zs \o rev \in Seq(Symbols) /\ Len(zs \o rev) \in Nat
  BY <1>2, <1>4, ConcatProperties, LenProperties
<1>6. Chars(zs \o rev) \subseteq Symbols \ NoDigits
  BY <1>1, <1>2, <1>3, <1>4, CharsFacts, SymbolFacts
<1>7. ASSUME NEW z, Nought(z) PROVE Reading(z \o (zs \o rev), base) = n
  <2>1. z \in Seq(Symbols)
    BY <1>7 DEF Nought
  <2>2. z \o (zs \o rev) = (z \o zs) \o rev
    BY <1>2, <1>4, <2>1, ConcatAssociative
  <2>3. Nought(z \o zs)
    BY <1>3, <1>7, NoughtFacts
  <2>4. z \o zs \in Seq(Symbols) /\ Reading(z \o zs, base) = 0
    BY <2>3, NoughtFacts DEF Nought
  <2> QED BY <1>1, <2>2, <2>4
<1>8. precision <= 0 => zs \o rev = rev
  BY <1>2, <1>3, ConcatEmptySeq
<1> QED BY <1>2, <1>5, <1>6, <1>7, <1>8 DEF zs, rev, ds, BodyFor

\* The table, and what number() puts between the padding.
TableOf(type) == IF "SMALL" \in type THEN Lower ELSE Upper
HeadOf(num, base, type) == Sign(num, type) \o Special(base, type)
BodyOf(num, base, precision, type) == BodyFor(Magnitude(num, type), base, TableOf(type), precision)
PadOf(num, base, size, precision, type) ==
    AtLeast(size - Len(HeadOf(num, base, type)) - Len(BodyOf(num, base, precision, type)), 0)

\* A head and digits between paddings that stand for num.
IsNumber(num, base, type, out, head, body, pad) ==
    /\ out = Padded(pad, type, head, body)
    /\ head \in Seq(Symbols) /\ body \in Seq(Symbols) /\ pad \in Nat
    /\ Len(head) \in Nat /\ Len(body) \in Nat
    /\ \A k \in 1..Len(body) : IsDigit(body[k], 16)
    /\ out \in Seq(Symbols)
    /\ Reading(out, base) = Magnitude(num, type)
    /\ "-" \in Chars(out) <=> Negative(num, type)

(* A number between paddings: it is read as itself, behind its sign.        *)
LEMMA NumberFacts ==
    ASSUME NEW num \in Ints, NEW base \in Bases, NEW size \in Int, NEW precision \in Int, NEW type
    PROVE  IsNumber(num, base, type, number(num, base, size, precision, type), HeadOf(num, base, type),
                    BodyOf(num, base, precision, type), PadOf(num, base, size, precision, type))
<1> DEFINE out == number(num, base, size, precision, type)
           head == HeadOf(num, base, type)
           body == BodyOf(num, base, precision, type)
           pad == PadOf(num, base, size, precision, type)
           n == Magnitude(num, type)
           sp == Repeat(Blank, pad)
           ze == Repeat("0", pad)
<1>1. out = Padded(pad, type, head, body)
  BY DEF number, HeadOf, BodyOf, PadOf, BodyFor, TableOf
<1>2. Nought(head) /\ Len(head) \in Nat /\ ("-" \in Chars(head) <=> Negative(num, type))
  BY HeadFacts DEF HeadOf
<1>3. /\ body \in Seq(Symbols) /\ Len(body) \in Nat /\ Chars(body) \subseteq Symbols \ NoDigits
      /\ \A z : Nought(z) => Reading(z \o body, base) = n
  <2>1. TableOf(type) \in Tables
    BY DEF TableOf, Tables
  <2>2. n \in Nat
    BY MagnitudeFacts, Zenon
  <2>3. body = BodyFor(n, base, TableOf(type), precision)
    BY DEF BodyOf
  <2> HIDE DEF n, body
  <2> QED BY <2>1, <2>2, <2>3, BodyFacts
<1> HIDE DEF body, n
<1>4. \A k \in 1..Len(body) : IsDigit(body[k], 16)
  <2>1. \A k \in 1..Len(body) : body[k] \in Chars(body)
    BY <1>3, CharsFacts
  <2> QED BY <1>3, <2>1, SymbolFacts
<1>5. "-" \notin Chars(body)
  BY <1>3, SymbolFacts
<1>6. pad \in Nat
  <2>1. size - Len(head) - Len(body) \in Int
    BY <1>2, <1>3
  <2> QED BY <2>1, RepeatFacts, SymbolFacts DEF PadOf, body
<1>7. Nought(sp) /\ Nought(ze) /\ "-" \notin Chars(sp) /\ "-" \notin Chars(ze)
  <2>1. Chars(sp) \subseteq {Blank} /\ Chars(ze) \subseteq {"0"}
    BY <1>6, CharsFacts, SymbolFacts
  <2>2. Nought(sp) /\ Nought(ze)
    BY <1>6, NoughtFacts
  <2> QED BY <2>1, <2>2, SymbolFacts
<1> HIDE DEF out, head, body, pad, sp, ze, n
<1>8. head \in Seq(Symbols) /\ sp \in Seq(Symbols) /\ ze \in Seq(Symbols)
  BY <1>2, <1>7 DEF Nought
<1>9. head \o body \in Seq(Symbols) /\ Chars(head \o body) = Chars(head) \cup Chars(body)
  BY <1>3, <1>8, ConcatProperties, CharsFacts
<1>10. CASE "LEFT" \in type
  <2>1. out = (head \o body) \o sp
    BY <1>1, <1>10 DEF Padded, sp
  <2>2. \A k \in 1..Len(sp) : sp[k] \in NoDigits
    <3>1. \A k \in 1..Len(sp) : sp[k] = Blank
      BY <1>6, RepeatFacts, SymbolFacts DEF sp
    <3> QED BY <3>1, SymbolFacts
  <2>3. Reading(out, base) = Reading(head \o body, base)
    BY <1>8, <1>9, <2>1, <2>2, ReadingTrailing
  <2>4. Reading(head \o body, base) = n
    BY <1>2, <1>3
  <2> DEFINE hb == head \o body
  <2>5. out \in Seq(Symbols) /\ Chars(out) = Chars(head \o body) \cup Chars(sp)
    <3>1. hb \in Seq(Symbols) /\ out = hb \o sp
      BY <1>9, <2>1
    <3> HIDE DEF hb
    <3>2. hb \o sp \in Seq(Symbols)
      BY <1>8, <3>1, ConcatProperties
    <3>3. Chars(hb \o sp) = Chars(hb) \cup Chars(sp)
      BY <1>8, <3>1, CharsFacts
    <3> QED BY <3>1, <3>2, <3>3 DEF hb
  <2> QED BY <1>1, <1>2, <1>3, <1>4, <1>5, <1>6, <1>7, <1>8, <1>9, <2>3, <2>4, <2>5
          DEF out, head, body, pad, n, IsNumber
<1>11. ASSUME NEW y, NEW z, Nought(y), y = head \o ze \/ y = sp \o head, out = y \o body
       PROVE  /\ out \in Seq(Symbols) /\ Reading(out, base) = n
              /\ "-" \in Chars(out) <=> Negative(num, type)
  <2>1. y \in Seq(Symbols) /\ ("-" \in Chars(y) <=> "-" \in Chars(head))
    <3>1. y \in Seq(Symbols)
      BY <1>11 DEF Nought
    <3>2. CASE y = head \o ze
      BY <1>7, <1>8, <3>1, <3>2, CharsFacts
    <3>3. CASE y = sp \o head
      BY <1>7, <1>8, <3>1, <3>3, CharsFacts
    <3> QED BY <1>11, <3>1, <3>2, <3>3
  <2>2. out \in Seq(Symbols) /\ Chars(out) = Chars(y) \cup Chars(body)
    BY <1>3, <1>11, <2>1, ConcatProperties, CharsFacts
  <2>3. Reading(out, base) = n
    BY <1>3, <1>11
  <2> QED BY <1>2, <1>5, <1>7, <2>1, <2>2, <2>3
<1>12. CASE "LEFT" \notin type
  <2>1. PICK y : Nought(y) /\ (y = head \o ze \/ y = sp \o head) /\ out = y \o body
    <3>1. Nought(head \o ze) /\ Nought(sp \o head)
      BY <1>2, <1>7, NoughtFacts
    <3>2. out = (head \o ze) \o body \/ out = (sp \o head) \o body
      BY <1>1, <1>12 DEF Padded, sp, ze
    <3> QED BY <3>1, <3>2
  <2> QED BY <1>1, <1>2, <1>3, <1>4, <1>6, <1>8, <1>11, <2>1
          DEF out, head, body, pad, n, IsNumber
<1> QED BY <1>10, <1>12

\* A field of the given size: bare, with the padding that type asks for.
IsFieldOf(size, type, out, bare) ==
    LET pad == Len(out) - Len(bare) IN
    /\ Len(bare) \in Nat /\ Len(out) = AtLeast(size, Len(bare))
    /\ "LEFT" \in type => out = bare \o Repeat(Blank, pad)
    /\ "LEFT" \notin type /\ "ZEROPAD" \in type =>
          \E n \in 0..Len(bare) :
             /\ \A k \in (n + 1)..Len(bare) : IsDigit(bare[k], 16)
             /\ out = SubSeq(bare, 1, n) \o Repeat("0", pad) \o SubSeq(bare, n + 1, Len(bare))
    /\ "LEFT" \notin type /\ "ZEROPAD" \notin type => out = Repeat(Blank, pad) \o bare

(* A number's field: as wide as asked for, with the padding at one end or   *)
(* between its head and its digits.                                         *)
LEMMA NumberField ==
    ASSUME NEW num \in Ints, NEW base \in Bases, NEW size \in Int, NEW precision \in Int,
           NEW type, NEW plain, type \ {"ZEROPAD"} = plain \ {"ZEROPAD"}
    PROVE  IsFieldOf(size, type, number(num, base, size, precision, type),
                     number(num, base, 0, precision, plain))
<1> DEFINE out == number(num, base, size, precision, type)
           bare == number(num, base, 0, precision, plain)
           head == HeadOf(num, base, type)
           body == BodyOf(num, base, precision, type)
           pad == PadOf(num, base, size, precision, type)
           P(t) == Padded(pad, t, head, body)
<1>1. \A x \in {"SIGN", "PLUS", "SPACE", "SPECIAL", "SMALL"} : x \in type <=> x \in plain
  <2>1. \A x \in {"SIGN", "PLUS", "SPACE", "SPECIAL", "SMALL"} : x # "ZEROPAD"
    OBVIOUS
  <2> QED BY <2>1
<1>2. Magnitude(num, plain) = Magnitude(num, type) /\ Sign(num, plain) = Sign(num, type)
      /\ Special(base, plain) = Special(base, type) /\ TableOf(plain) = TableOf(type)
  BY <1>1 DEF Magnitude, Negative, Sign, Special, TableOf
<1>3. HeadOf(num, base, plain) = head /\ BodyOf(num, base, precision, plain) = body
  BY <1>2 DEF HeadOf, BodyOf
<1>4. /\ out = P(type) /\ head \in Seq(Symbols) /\ body \in Seq(Symbols) /\ pad \in Nat
      /\ Len(head) \in Nat /\ Len(body) \in Nat /\ \A k \in 1..Len(body) : IsDigit(body[k], 16)
  <2>1. IsNumber(num, base, type, out, head, body, pad)
    BY NumberFacts, Zenon
  <2> HIDE DEF out, head, body, pad
  <2> QED BY <2>1 DEF IsNumber
<1>5. bare = Padded(0, plain, head, body)
  <2>1. bare = Padded(PadOf(num, base, 0, precision, plain), plain, head, body)
    <3>1. IsNumber(num, base, plain, bare, head, body, PadOf(num, base, 0, precision, plain))
      <4>1. 0 \in Int
        OBVIOUS
      <4> QED BY <1>3, <4>1, NumberFacts, Zenon
    <3> QED BY <3>1 DEF IsNumber
  <2>2. PadOf(num, base, 0, precision, plain) = 0
    <3>1. ~(0 - Len(head) - Len(body) > 0)
      BY <1>4
    <3> QED BY <1>3, <3>1 DEF PadOf, AtLeast
  <2> QED BY <2>1, <2>2
<1>6. pad = IF size - Len(head) - Len(body) > 0 THEN size - Len(head) - Len(body) ELSE 0
  BY DEF PadOf, AtLeast
<1> HIDE DEF out, bare, head, body, pad
<1>7. Blank \in Symbols /\ "0" \in Symbols
  BY SymbolFacts
<1> DEFINE hb == head \o body
<1>8. /\ bare = hb /\ hb \in Seq(Symbols) /\ out \in Seq(Symbols)
      /\ Len(hb) \in Nat /\ Len(out) = Len(hb) + pad
      /\ "LEFT" \in type => out = hb \o Repeat(Blank, pad)
      /\ "LEFT" \notin type /\ "ZEROPAD" \in type =>
            out = SubSeq(hb, 1, Len(head)) \o Repeat("0", pad) \o SubSeq(hb, Len(head) + 1, Len(hb))
      /\ "LEFT" \notin type /\ "ZEROPAD" \notin type => out = Repeat(Blank, pad) \o hb
  <2> HIDE DEF hb
  <2>1. hb = head \o body
    BY DEF hb
  <2>2. out = Padded(pad, type, head, body)
    BY <1>4
  <2>3. /\ hb \in Seq(Symbols) /\ out \in Seq(Symbols)
        /\ Len(hb) \in Nat /\ Len(out) = Len(hb) + pad
        /\ "LEFT" \in type => out = hb \o Repeat(Blank, pad)
        /\ "LEFT" \notin type /\ "ZEROPAD" \in type =>
              out = SubSeq(hb, 1, Len(head)) \o Repeat("0", pad) \o SubSeq(hb, Len(head) + 1, Len(hb))
        /\ "LEFT" \notin type /\ "ZEROPAD" \notin type => out = Repeat(Blank, pad) \o hb
    <3>1. IsField(Symbols, pad, type, head, body, hb, out)
      BY <1>4, <1>7, <2>1, <2>2, PaddedFacts, Zenon
    <3> QED BY <3>1 DEF IsField
  <2>4. Padded(0, plain, head, body) = hb
    <3>1. 0 \in Nat
      OBVIOUS
    <3> DEFINE none == Padded(0, plain, head, body)
    <3>2. none = Padded(0, plain, head, body)
      OBVIOUS
    <3> HIDE DEF none
    <3>3. IsField(Symbols, 0, plain, head, body, hb, none)
      BY <1>4, <1>7, <2>1, <3>1, <3>2, PaddedFacts, Zenon
    <3> QED BY <3>3 DEF IsField
  <2> QED BY <1>5, <2>3, <2>4
<1>9. Len(hb) = Len(head) + Len(body) /\ \A k \in (Len(head) + 1)..Len(hb) : IsDigit(hb[k], 16)
  <2>1. Len(hb) = Len(head) + Len(body)
        /\ \A k \in 1..(Len(head) + Len(body)) : hb[k] = IF k <= Len(head) THEN head[k] ELSE body[k - Len(head)]
    BY <1>4, ConcatProperties
  <2> HIDE DEF hb
  <2>2. ASSUME NEW k \in (Len(head) + 1)..Len(hb) PROVE IsDigit(hb[k], 16)
    <3>1. k \in 1..(Len(head) + Len(body)) /\ ~(k <= Len(head)) /\ k - Len(head) \in 1..Len(body)
      BY <1>4, <2>1
    <3>2. hb[k] = body[k - Len(head)]
      BY <2>1, <3>1
    <3> QED BY <1>4, <3>1, <3>2
  <2> QED BY <2>1, <2>2
<1> HIDE DEF hb
<1>10. Len(out) = AtLeast(size, Len(bare)) /\ Len(out) - Len(bare) = pad
  <2>1. /\ Len(head) \in Nat /\ Len(body) \in Nat /\ pad \in Nat
        /\ Len(bare) = Len(head) + Len(body) /\ Len(out) = Len(bare) + pad
    BY <1>4, <1>8, <1>9
  <2> DEFINE b == Len(bare)
             o == Len(out)
  <2>2. AtLeast(size, b) = IF size > b THEN size ELSE b
    BY DEF AtLeast
  <2>3. b \in Nat /\ o = b + pad
    BY <2>1
  <2>4. pad = IF size - b > 0 THEN size - b ELSE 0
    BY <1>6, <2>1
  <2> HIDE DEF b, o
  <2>5. o = AtLeast(size, b) /\ o - b = pad
    BY <2>1, <2>2, <2>3, <2>4
  <2> QED BY <2>5 DEF b, o
<1>11. Len(head) \in 0..Len(bare)
  BY <1>4, <1>8, <1>9
<1>12. IsFieldOf(size, type, out, bare)
  BY <1>8, <1>9, <1>10, <1>11 DEF IsFieldOf
<1> QED BY <1>12 DEF out, bare

-----------------------------------------------------------------------------
(* Conversions.                                                            *)

\* What Convert() hands number() for a specification of a number.
SizeOf(f) == IF f.conv = "p" /\ f.width = -1 THEN 8 ELSE f.width
TypeOf(f) ==
    f.flags \cup (IF f.conv = "p" /\ f.width = -1 THEN {"ZEROPAD"} ELSE {})
            \cup (IF f.conv = "x" THEN {"SMALL"} ELSE {})
            \cup (IF f.conv = "d" THEN {"SIGN"} ELSE {})

\* ReadsBack and FieldsFilled of one specification, argument and output.
Reads(f, num, out) ==
    /\ Reading(out, Base(f.conv)) = IF f.conv = "d" THEN (IF num < 0 THEN -num ELSE num) ELSE Unsigned(num)
    /\ "-" \in Chars(out) <=> f.conv = "d" /\ num < 0
Zeros(f) ==
    /\ Numeric(f) /\ "LEFT" \notin f.flags
    /\ "ZEROPAD" \in f.flags \/ (f.conv = "p" /\ f.width = -1)
Fills(f, out, bare) ==
    LET pad == Len(out) - Len(bare) IN
    /\ Len(out) = AtLeast(SizeOf(f), Len(bare))
    /\ \/ Zeros(f) /\ \E n \in 0..Len(bare) :
             /\ \A k \in (n + 1)..Len(bare) : IsDigit(bare[k], 16)
             /\ out = SubSeq(bare, 1, n) \o Repeat("0", pad) \o SubSeq(bare, n + 1, Len(bare))
       \/ ~Zeros(f) /\ "LEFT" \in f.flags /\ out = bare \o Repeat(Blank, pad)
       \/ ~Zeros(f) /\ "LEFT" \notin f.flags /\ out = Repeat(Blank, pad) \o bare

(* What a specification says of numbers.                                    *)
LEMMA SpecificationFacts ==
    ASSUME NEW f \in Specifications
    PROVE  /\ f.flags \subseteq {"ZEROPAD", "PLUS", "SPACE", "LEFT", "SPECIAL"}
           /\ f.width \in Int /\ f.precision \in Int /\ SizeOf(f) \in Int
           /\ "plain" \notin DOMAIN f /\ Base(f.conv) \in Bases
           /\ LET g == [f EXCEPT !.width = 0] IN
              /\ g \in Specifications /\ g.width = 0 /\ g.conv = f.conv
              /\ g.flags = f.flags /\ g.precision = f.precision
           /\ "SIGN" \in TypeOf(f) <=> f.conv = "d"
           /\ "LEFT" \in TypeOf(f) <=> "LEFT" \in f.flags
           /\ "ZEROPAD" \in TypeOf(f) <=> "ZEROPAD" \in f.flags \/ (f.conv = "p" /\ f.width = -1)
<1>1. /\ f.flags \subseteq {"ZEROPAD", "PLUS", "SPACE", "LEFT", "SPECIAL"}
      /\ f.width \in Int /\ f.precision \in Int
      /\ f.conv \in {"c", "s", "d", "u", "x", "X", "o", "b", "p"}
      /\ DOMAIN f = {"flags", "width", "precision", "conv"}
  BY DEF Specifications
<1>2. SizeOf(f) \in Int /\ "plain" \notin DOMAIN f
  BY <1>1 DEF SizeOf
<1>3. Base(f.conv) \in Bases
  BY DEF Base, Bases
<1>4. LET g == [f EXCEPT !.width = 0] IN
      /\ g \in Specifications /\ g.width = 0 /\ g.conv = f.conv
      /\ g.flags = f.flags /\ g.precision = f.precision
  BY DEF Specifications
<1>5. "SIGN" \in TypeOf(f) <=> f.conv = "d"
  BY <1>1 DEF TypeOf
<1>6. "LEFT" \in TypeOf(f) <=> "LEFT" \in f.flags
  BY <1>1 DEF TypeOf
<1>7. "ZEROPAD" \in TypeOf(f) <=> "ZEROPAD" \in f.flags \/ (f.conv = "p" /\ f.width = -1)
  BY <1>1 DEF TypeOf
<1> QED BY <1>1, <1>2, <1>3, <1>4, <1>5, <1>6, <1>7

(* Numbers are printed by number().                                         *)
LEMMA ConvertNumber ==
    ASSUME NEW f \in Specifications, f.conv \notin {"c", "s"}, NEW a
    PROVE  Convert(f, a) = number(a.num, Base(f.conv), SizeOf(f), f.precision, TypeOf(f))
<1>1. CASE f.conv = "p" /\ f.width = -1
  <2>1. TypeOf(f) = f.flags \cup {"ZEROPAD"} /\ SizeOf(f) = 8 /\ Base(f.conv) = 16
    BY <1>1 DEF TypeOf, SizeOf, Base
  <2>2. Convert(f, a) = number(a.num, 16, 8, f.precision, f.flags \cup {"ZEROPAD"})
    BY <1>1 DEF Convert
  <2> QED BY <2>1, <2>2
<1>2. CASE ~(f.conv = "p" /\ f.width = -1)
  <2> DEFINE t == f.flags \cup (IF f.conv = "x" THEN {"SMALL"} ELSE {})
                          \cup (IF f.conv = "d" THEN {"SIGN"} ELSE {})
  <2>1. TypeOf(f) = t /\ SizeOf(f) = f.width
    BY <1>2 DEF TypeOf, SizeOf
  <2>2. Convert(f, a) = number(a.num, Base(f.conv), f.width, f.precision, t)
    BY <1>2 DEF Convert
  <2> HIDE DEF t
  <2> QED BY <2>1, <2>2
<1> QED BY <1>1, <1>2

(* A number comes out as itself, behind its sign.                           *)
LEMMA ConvertReads ==
    ASSUME NEW f \in Specifications, f.conv \notin {"c", "s"}, NEW a, a.num \in Ints
    PROVE  Reads(f, a.num, Convert(f, a))
<1> DEFINE num == a.num
           base == Base(f.conv)
           type == TypeOf(f)
           out == Convert(f, a)
           n == Magnitude(num, type)
<1>1. base \in Bases /\ SizeOf(f) \in Int /\ f.precision \in Int
      /\ ("SIGN" \in type <=> f.conv = "d")
  BY SpecificationFacts
<1>2. out = number(num, base, SizeOf(f), f.precision, type)
  BY ConvertNumber
<1>3. /\ num \in Int /\ n = (IF Negative(num, type) THEN -num ELSE Unsigned(num))
      /\ (num >= 0 => Unsigned(num) = num)
  BY MagnitudeFacts
<1>4. num \in Ints
  OBVIOUS
<1> HIDE DEF num, base, type, out, n
<1>5. Reading(out, base) = n /\ ("-" \in Chars(out) <=> Negative(num, type))
  <2>1. IsNumber(num, base, type, out, HeadOf(num, base, type), BodyOf(num, base, f.precision, type),
                 PadOf(num, base, SizeOf(f), f.precision, type))
    BY <1>1, <1>2, <1>4, NumberFacts, Zenon
  <2> QED BY <2>1 DEF IsNumber, n
<1>6. Negative(num, type) <=> f.conv = "d" /\ num < 0
  BY <1>1 DEF Negative
<1>7. n = IF f.conv = "d" THEN (IF num < 0 THEN -num ELSE num) ELSE Unsigned(num)
  BY <1>3, <1>6
<1>8. Reads(f, num, out)
  BY <1>5, <1>6, <1>7 DEF Reads, base
<1> QED BY <1>8 DEF num, out


(* The field of a number.                                                   *)
LEMMA ConvertFillsNumber ==
    ASSUME NEW f \in Specifications, f.conv \notin {"c", "s"}, f.width # Star,
           NEW a, a.num \in Ints
    PROVE  Fills(f, Convert(f, a), Convert([f EXCEPT !.width = 0], a))
<1> DEFINE num == a.num
           base == Base(f.conv)
           type == TypeOf(f)
           out == Convert(f, a)
           g == [f EXCEPT !.width = 0]
           bare == Convert(g, a)
<1>1. /\ base \in Bases /\ SizeOf(f) \in Int /\ f.precision \in Int /\ Numeric(f)
      /\ g \in Specifications /\ g.width = 0 /\ g.conv = f.conv /\ g.flags = f.flags
      /\ g.precision = f.precision
      /\ ("LEFT" \in type <=> "LEFT" \in f.flags)
      /\ ("ZEROPAD" \in type <=> "ZEROPAD" \in f.flags \/ (f.conv = "p" /\ f.width = -1))
  BY SpecificationFacts DEF Numeric
<1>2. out = number(num, base, SizeOf(f), f.precision, type)
  BY ConvertNumber
<1>3. bare = number(num, base, 0, f.precision, TypeOf(g))
  <2>1. SizeOf(g) = 0
    BY <1>1 DEF SizeOf
  <2> HIDE DEF g
  <2>2. Convert(g, a) = number(a.num, Base(g.conv), SizeOf(g), g.precision, TypeOf(g))
    BY <1>1, ConvertNumber
  <2> QED BY <1>1, <2>1, <2>2
<1>4. type \ {"ZEROPAD"} = TypeOf(g) \ {"ZEROPAD"}
  <2> HIDE DEF g
  <2> QED BY <1>1 DEF TypeOf
<1>5. num \in Ints
  OBVIOUS
<1> SUFFICES Fills(f, out, bare)
  OBVIOUS
<1> HIDE DEF num, base, type, out, g, bare
<1>6. IsFieldOf(SizeOf(f), type, out, bare)
  BY <1>1, <1>2, <1>3, <1>4, <1>5, NumberField, Zenon
<1>7. Len(out) = AtLeast(SizeOf(f), Len(bare))
  BY <1>6 DEF IsFieldOf
<1>8. CASE "LEFT" \in f.flags
  <2>1. ~Zeros(f)
    BY <1>8 DEF Zeros
  <2>2. out = bare \o Repeat(Blank, Len(out) - Len(bare))
    BY <1>1, <1>6, <1>8 DEF IsFieldOf
  <2> QED BY <1>7, <1>8, <2>1, <2>2, Zenon DEF Fills
<1>9. CASE "LEFT" \notin f.flags /\ "ZEROPAD" \in type
  <2>1. Zeros(f)
    BY <1>1, <1>9 DEF Zeros
  <2>2. \E n \in 0..Len(bare) :
           /\ \A k \in (n + 1)..Len(bare) : IsDigit(bare[k], 16)
           /\ out = SubSeq(bare, 1, n) \o Repeat("0", Len(out) - Len(bare)) \o SubSeq(bare, n + 1, Len(bare))
    BY <1>1, <1>6, <1>9 DEF IsFieldOf
  <2> QED BY <1>7, <2>1, <2>2, Zenon DEF Fills
<1>10. CASE "LEFT" \notin f.flags /\ "ZEROPAD" \notin type
  <2>1. ~Zeros(f)
    BY <1>1, <1>10 DEF Zeros
  <2>2. out = Repeat(Blank, Len(out) - Len(bare)) \o bare
    BY <1>1, <1>6, <1>10 DEF IsFieldOf
  <2> QED BY <1>7, <1>10, <2>1, <2>2, Zenon DEF Fills
<1> QED BY <1>8, <1>9, <1>10


\* The characters of texts and of their padding.
Letters == STRING \cup {Blank, "0"}

(* A text and what a precision leaves of it.                                *)
LEMMA TextFacts ==
    ASSUME NEW s \in Seq(STRING), NEW precision \in Int
    PROVE  s \in Seq(Letters) /\ Cut(s, precision) \in Seq(Letters)
<1> DEFINE n == Len(s)
<1>1. n \in Nat /\ s \in Seq(Letters) /\ \A k \in 1..n : s[k] \in Letters
  <2>1. n \in Nat /\ s \in [1..n -> STRING]
    BY LenProperties
  <2> HIDE DEF n
  <2>2. s \in [1..n -> Letters]
    BY <2>1 DEF Letters
  <2> QED BY <2>1, <2>2
<1> HIDE DEF n
<1>2. CASE precision < 0 \/ n <= precision
  BY <1>1, <1>2 DEF Cut, n
<1>3. CASE ~(precision < 0 \/ n <= precision)
  <2>1. precision \in 0..n /\ 1 \in 1..(n + 1)
    BY <1>1, <1>3
  <2>2. SubSeq(s, 1, precision) \in Seq(Letters)
    BY <1>1, <2>1, SubSeqProperties DEF n
  <2> QED BY <1>1, <1>3, <2>2 DEF Cut, n
<1> QED BY <1>2, <1>3

(* The field of a text.                                                     *)
LEMMA JustifiedFacts ==
    ASSUME NEW f \in Specifications, f.conv \in {"c", "s"}, NEW t \in Seq(Letters)
    PROVE  Fills(f, Justified(t, f.width, f.flags), Justified(t, 0, f.flags))
<1> DEFINE out == Justified(t, f.width, f.flags)
           left == f.flags \cap {"LEFT"}
           pad == AtLeast(f.width - Len(t), 0)
<1>1. ("LEFT" \in left <=> "LEFT" \in f.flags) /\ "ZEROPAD" \notin left
  OBVIOUS
<1>2. out = Padded(pad, left, <<>>, t) /\ Justified(t, 0, f.flags) = Padded(AtLeast(0 - Len(t), 0), left, <<>>, t)
  BY DEF Justified
<1> HIDE DEF left, out
<1>3. Blank \in Letters /\ "0" \in Letters /\ <<>> \in Seq(Letters) /\ t = <<>> \o t /\ Len(t) \in Nat
  BY ConcatEmptySeq, EmptySeq, LenProperties DEF Letters
<1>4. /\ AtLeast(0 - Len(t), 0) = 0 /\ pad \in Nat
      /\ pad = IF f.width - Len(t) > 0 THEN f.width - Len(t) ELSE 0
  <2>1. f.width \in Int
    BY SpecificationFacts
  <2> QED BY <1>3, <2>1 DEF AtLeast
<1> HIDE DEF pad
<1>5. IsField(Letters, pad, left, <<>>, t, t, out)
  BY <1>2, <1>3, <1>4, PaddedFacts, Zenon
<1>6. Justified(t, 0, f.flags) = t
  BY <1>2, <1>4, <1>5 DEF IsField
<1>7. SizeOf(f) = f.width /\ ~Zeros(f)
  BY DEF SizeOf, Zeros, Numeric
<1>8. Len(out) = AtLeast(SizeOf(f), Len(t)) /\ Len(out) - Len(t) = pad
  <2>1. f.width \in Int
    BY SpecificationFacts
  <2> DEFINE len == Len(t)
             o == Len(out)
  <2>2. len \in Nat /\ o = len + pad /\ pad = IF f.width - len > 0 THEN f.width - len ELSE 0
    BY <1>3, <1>4, <1>5 DEF IsField
  <2>3. AtLeast(f.width, len) = IF f.width > len THEN f.width ELSE len
    BY DEF AtLeast
  <2> HIDE DEF len, o
  <2>4. o = AtLeast(f.width, len) /\ o - len = pad
    BY <2>1, <2>2, <2>3
  <2> QED BY <1>7, <2>4 DEF len, o
<1>9. out = IF "LEFT" \in f.flags THEN t \o Repeat(Blank, pad) ELSE Repeat(Blank, pad) \o t
  BY <1>1, <1>5 DEF IsField
<1>10. Fills(f, out, t)
  <2>1. CASE "LEFT" \in f.flags
    <3>1. out = t \o Repeat(Blank, Len(out) - Len(t))
      BY <1>8, <1>9, <2>1
    <3> QED BY <1>7, <1>8, <2>1, <3>1, Zenon DEF Fills
  <2>2. CASE "LEFT" \notin f.flags
    <3>1. out = Repeat(Blank, Len(out) - Len(t)) \o t
      BY <1>8, <1>9, <2>2
    <3> QED BY <1>7, <1>8, <2>2, <3>1, Zenon DEF Fills
  <2> QED BY <2>1, <2>2
<1> QED BY <1>6, <1>10 DEF out

(* The field of every conversion.                                           *)
LEMMA ConvertFills ==
    ASSUME NEW f \in Specifications, f.width # Star, NEW a, Suits(f, a)
    PROVE  Fills(f, Convert(f, a), Convert([f EXCEPT !.width = 0], a))
<1> DEFINE g == [f EXCEPT !.width = 0]
<1>1. g.width = 0 /\ g.conv = f.conv /\ g.flags = f.flags /\ g.precision = f.precision
      /\ f.precision \in Int
  BY SpecificationFacts
<1> HIDE DEF g
<1>2. CASE f.conv = "c"
  <2>1. a.text \in Seq(Letters)
    <3>1. a.text \in Seq(STRING)
      BY <1>2 DEF Suits
    <3> QED BY <1>1, <3>1, TextFacts
  <2>2. Convert(f, a) = Justified(a.text, f.width, f.flags) /\ Convert(g, a) = Justified(a.text, 0, f.flags)
    BY <1>1, <1>2 DEF Convert
  <2>3. Fills(f, Convert(f, a), Convert(g, a))
    BY <1>2, <2>1, <2>2, JustifiedFacts
  <2> QED BY <2>3 DEF g
<1>3. CASE f.conv = "s"
  <2> DEFINE t == Cut(a.text, f.precision)
  <2>1. t \in Seq(Letters)
    <3>1. a.text \in Seq(STRING)
      BY <1>3 DEF Suits
    <3> QED BY <1>1, <3>1, TextFacts
  <2>2. Convert(f, a) = Justified(t, f.width, f.flags) /\ Convert(g, a) = Justified(t, 0, f.flags)
    BY <1>1, <1>3 DEF Convert
  <2> HIDE DEF t
  <2>3. Fills(f, Convert(f, a), Convert(g, a))
    BY <1>3, <2>1, <2>2, JustifiedFacts
  <2> QED BY <2>3 DEF g
<1>4. CASE f.conv \notin {"c", "s"}
  <2>1. a.num \in Ints
    BY <1>4 DEF Suits
  <2> QED BY <1>4, <2>1, ConvertFillsNumber
<1> QED BY <1>2, <1>3, <1>4


(* What a conversion prints is a text.                                      *)
LEMMA ConvertText ==
    ASSUME NEW f \in Specifications, f.width # Star, NEW a, Suits(f, a)
    PROVE  /\ f.conv \notin {"c", "s"} => Convert(f, a) \in Seq(Symbols)
           /\ f.conv \in {"c", "s"} => Convert(f, a) \in Seq(Letters)
<1>1. CASE f.conv \notin {"c", "s"}
  <2> DEFINE base == Base(f.conv)
             type == TypeOf(f)
  <2>1. a.num \in Ints
    BY <1>1 DEF Suits
  <2>2. base \in Bases /\ SizeOf(f) \in Int /\ f.precision \in Int
    BY SpecificationFacts
  <2>3. Convert(f, a) = number(a.num, base, SizeOf(f), f.precision, type)
    BY <1>1, ConvertNumber
  <2> HIDE DEF base, type
  <2>4. IsNumber(a.num, base, type, Convert(f, a), HeadOf(a.num, base, type),
                 BodyOf(a.num, base, f.precision, type), PadOf(a.num, base, SizeOf(f), f.precision, type))
    BY <2>1, <2>2, <2>3, NumberFacts, Zenon
  <2> QED BY <1>1, <2>4 DEF IsNumber
<1>2. ASSUME NEW t \in Seq(Letters)
      PROVE  Justified(t, f.width, f.flags) \in Seq(Letters)
  <2> DEFINE left == f.flags \cap {"LEFT"}
             pad == AtLeast(f.width - Len(t), 0)
             out == Padded(pad, left, <<>>, t)
             bare == <<>> \o t
  <2>1. f.width - Len(t) \in Int /\ Blank \in Letters /\ "0" \in Letters /\ <<>> \in Seq(Letters)
    <3>1. f.width \in Int /\ Len(t) \in Nat
      BY SpecificationFacts, LenProperties
    <3> QED BY <3>1, EmptySeq DEF Letters
  <2>2. pad \in Nat
    BY <2>1, RepeatFacts
  <2>3. out = Padded(pad, left, <<>>, t) /\ bare = <<>> \o t
    OBVIOUS
  <2> HIDE DEF left, pad, out, bare
  <2>4. IsField(Letters, pad, left, <<>>, t, bare, out)
    BY <2>1, <2>2, <2>3, PaddedFacts, Zenon
  <2> QED BY <2>4 DEF IsField, Justified, out, pad, left
<1>3. CASE f.conv = "c"
  <2>1. a.text \in Seq(Letters)
    <3>1. a.text \in Seq(STRING) /\ f.precision \in Int
      BY <1>3, SpecificationFacts DEF Suits
    <3> QED BY <3>1, TextFacts
  <2> QED BY <1>2, <1>3, <2>1 DEF Convert
<1>4. CASE f.conv = "s"
  <2>1. Cut(a.text, f.precision) \in Seq(Letters)
    <3>1. a.text \in Seq(STRING) /\ f.precision \in Int
      BY <1>4, SpecificationFacts DEF Suits
    <3> QED BY <3>1, TextFacts
  <2> QED BY <1>2, <1>4, <2>1 DEF Convert
<1> QED BY <1>1, <1>3, <1>4

-----------------------------------------------------------------------------
(* Formats.                                                                *)

\* w holds what vsprintf() has printed and the arguments left after each item.
Formats(fmt, args, w) ==
    w = [k \in 0..Len(fmt) |->
            IF k = 0 THEN [out |-> <<>>, args |-> args] ELSE Item(w[k - 1], fmt[k])]

(* What vsprintf() returns is what the last item leaves.                    *)
LEMMA FormatRecursion ==
    ASSUME NEW fmt, NEW args, \E w : Formats(fmt, args, w)
    PROVE  \E w : Formats(fmt, args, w) /\ vsprintf(fmt, args) = w[Len(fmt)].out
<1> DEFINE w == CHOOSE w : Formats(fmt, args, w)
<1>1. Formats(fmt, args, w)
  OBVIOUS
<1>2. vsprintf(fmt, args) = w[Len(fmt)].out
  BY DEF vsprintf, Formats
<1> QED BY <1>1, <1>2

(* One conversion is all that is printed.                                   *)
LEMMA OneItem ==
    ASSUME NEW fmt, Len(fmt) = 1, NEW args, NEW f, f = fmt[1], f \in Specifications, f.width # Star,
           Suits(f, args[1])
    PROVE  vsprintf(fmt, args) = Convert(f, args[1])
<1> DEFINE start == [out |-> <<>>, args |-> args]
           v == [k \in 0..1 |-> IF k = 0 THEN start ELSE Item(start, f)]
<1>1. Formats(fmt, args, v)
  <2>1. \A k \in 0..1 : k = 0 \/ (k = 1 /\ k - 1 = 0)
    OBVIOUS
  <2> QED BY <2>1 DEF Formats
<1>2. PICK w : Formats(fmt, args, w) /\ vsprintf(fmt, args) = w[Len(fmt)].out
  BY <1>1, FormatRecursion
<1>3. w[0] = start /\ w[1] = Item(w[0], f)
  <2>1. 0 \in 0..Len(fmt) /\ 1 \in 0..Len(fmt) /\ 1 # 0 /\ 1 - 1 = 0
    OBVIOUS
  <2> QED BY <1>2, <2>1 DEF Formats
<1>4. Head(args) = args[1]
  OBVIOUS
<1>5. Item(start, f).out = <<>> \o Convert(f, args[1])
  <2>1. "plain" \notin DOMAIN f
    BY SpecificationFacts
  <2> QED BY <1>4, <2>1 DEF Item
<1>6. <<>> \o Convert(f, args[1]) = Convert(f, args[1])
  BY ConvertText, ConcatEmptySeq
<1> QED BY <1>2, <1>3, <1>5, <1>6


(* The digits of a number below 100 fill at most two characters.            *)
LEMMA ClockField ==
    ASSUME NEW num \in Ints, num >= 0,
           NEW f \in {Clock[1], Clock[3]}, NEW a, a.num = num
    PROVE  /\ f \in Specifications /\ f.width # Star /\ Suits(f, a)
           /\ Convert(f, a) \in Seq(Symbols) /\ Reading(Convert(f, a), 10) = num
           /\ Len(Convert(f, a)) \in Nat \ {0}
           /\ f = Clock[3] /\ num < 60 => Len(Convert(f, a)) = 2
<1> DEFINE out == Convert(f, a)
           g == [f EXCEPT !.width = 0]
           bare == Convert(g, a)
           type == TypeOf(g)
           ds == digits(num, 10, Upper)
<1>1. /\ f.conv = "d" /\ f.precision = -1 /\ f.flags \subseteq {"ZEROPAD"}
      /\ f.width \in {-1, 2} /\ (f = Clock[3] => f.width = 2)
      /\ f \in Specifications
  BY DEF Clock, Specifications
<1>2. f.width # Star /\ Suits(f, a) /\ Base(f.conv) = 10
  BY <1>1 DEF Star, Suits, Base
<1>3. num \in Int /\ Magnitude(num, type) = num /\ ~Negative(num, type)
  <2>1. num \in Int
    BY MagnitudeFacts
  <2>2. ~Negative(num, type)
    BY <2>1 DEF Negative
  <2> QED BY <2>1, <2>2, MagnitudeFacts
<1>4. g \in Specifications /\ g.width = 0 /\ g.conv = "d" /\ g.precision = -1 /\ g.flags \subseteq {"ZEROPAD"}
  BY <1>1, SpecificationFacts
<1> HIDE DEF g, type
<1>5. HeadOf(num, 10, type) = <<>> /\ TableOf(type) = Upper
  <2>1. \A x \in {"PLUS", "SPACE", "SPECIAL", "SMALL"} : x \notin type
    BY <1>4 DEF type, TypeOf
  <2>2. Sign(num, type) = <<>> /\ Special(10, type) = <<>> /\ TableOf(type) = Upper
    BY <1>3, <2>1 DEF Sign, Special, TableOf
  <2> QED BY <2>2 DEF HeadOf
<1>6. BodyOf(num, 10, -1, type) = Reverse(ds) /\ Len(BodyOf(num, 10, -1, type)) = Len(ds)
  <2>1. 10 \in Bases /\ Upper \in Tables /\ num \in Nat /\ -1 \in Int /\ -1 <= 0
    BY <1>3 DEF Bases, Tables
  <2>2. LET body == BodyFor(num, 10, Upper, -1) IN body = Reverse(ds) /\ Len(body) = Len(ds)
    BY <2>1, BodyFacts
  <2> QED BY <1>3, <1>5, <2>2 DEF BodyOf
<1>7. Len(ds) \in Nat \ {0} /\ (num < 60 => Len(ds) <= 2)
  <2>1. 10 \in Bases /\ Upper \in Tables /\ num \in Nat
    BY <1>3 DEF Bases, Tables
  <2>2. Len(ds) \in Nat \ {0} /\ (num < 10 => Len(ds) = 1) /\ (10 <= num /\ num < 100 => Len(ds) = 2)
    BY <2>1, DigitsFacts
  <2> DEFINE len == Len(ds)
  <2> HIDE DEF len
  <2>3. len \in Nat \ {0} /\ (num < 10 => len = 1) /\ (10 <= num /\ num < 100 => len = 2)
    BY <2>2 DEF len
  <2>4. len \in Nat \ {0} /\ (num < 60 => len <= 2)
    BY <1>3, <2>3
  <2> QED BY <2>4 DEF len
<1> HIDE DEF ds
<1>8. Len(bare) = Len(ds)
  <2>1. bare = number(num, 10, 0, -1, type)
    <3>1. bare = number(a.num, Base(g.conv), SizeOf(g), g.precision, TypeOf(g))
      BY <1>4, ConvertNumber
    <3> QED BY <1>2, <1>1, <1>4, <3>1 DEF type, SizeOf
  <2> DEFINE body == BodyOf(num, 10, -1, type)
             pad == PadOf(num, 10, 0, -1, type)
  <2>2. 10 \in Bases /\ 0 \in Int /\ -1 \in Int
    BY DEF Bases
  <2> HIDE DEF bare, body, pad
  <2>3. IsNumber(num, 10, type, bare, <<>>, body, pad)
    BY <1>5, <2>1, <2>2, NumberFacts, Zenon DEF body, pad
  <2>4. pad = 0
    <3>1. Len(body) \in Nat
      BY <2>3 DEF IsNumber
    <3>2. pad = AtLeast(0 - Len(<<>>) - Len(body), 0)
      BY <1>5 DEF pad, PadOf, body
    <3> QED BY <3>1, <3>2 DEF AtLeast
  <2>5. body = <<>> \o body /\ bare = Padded(0, type, <<>>, body) /\ Blank \in Symbols /\ "0" \in Symbols
        /\ <<>> \in Seq(Symbols) /\ body \in Seq(Symbols) /\ 0 \in Nat
    BY <2>3, <2>4, ConcatEmptySeq, EmptySeq, SymbolFacts DEF IsNumber
  <2>6. IsField(Symbols, 0, type, <<>>, body, body, bare)
    BY <2>5, PaddedFacts, Zenon
  <2>7. bare = body
    BY <2>5, <2>6 DEF IsField
  <2> QED BY <1>6, <2>7 DEF body
<1>9. Fills(f, out, bare) /\ out \in Seq(Symbols) /\ Reads(f, num, out)
  <2>1. f.conv \notin {"c", "s"}
    BY <1>1
  <2> QED BY <1>1, <1>2, <2>1, ConvertFills, ConvertText, ConvertReads DEF g
<1>10. Reading(out, 10) = num
  BY <1>1, <1>2, <1>3, <1>9 DEF Reads
<1> HIDE DEF out, bare
<1>11. Len(out) = AtLeast(f.width, Len(ds))
  BY <1>1, <1>8, <1>9 DEF Fills, SizeOf
<1>12. Len(out) \in Nat \ {0} /\ (f.width = 2 /\ num < 60 => Len(out) = 2)
  <2> DEFINE len == Len(ds)
  <2>1. AtLeast(f.width, len) = IF f.width > len THEN f.width ELSE len
    BY DEF AtLeast
  <2>2. len \in Nat \ {0} /\ (num < 60 => len <= 2)
    BY <1>7
  <2> HIDE DEF len
  <2>3. AtLeast(f.width, len) \in Nat \ {0} /\ (f.width = 2 /\ num < 60 => AtLeast(f.width, len) = 2)
    BY <1>1, <2>1, <2>2
  <2> QED BY <1>11, <2>3 DEF len
<1> QED BY <1>1, <1>2, <1>9, <1>10, <1>12 DEF out


\* Hours, minutes and seconds with colons between them.
ClockText(h, m, s) == Append(Append(h, ":") \o m, ":") \o s

(* The clock is its three fields and the colons between them.               *)
LEMMA ClockItems ==
    ASSUME NEW args \in Seq([num : Ints]), Len(args) = 3,
           NEW h \in Seq(Symbols), h = Convert(Clock[1], args[1]),
           NEW m \in Seq(Symbols), m = Convert(Clock[3], args[2]),
           NEW s \in Seq(Symbols), s = Convert(Clock[3], args[3])
    PROVE  vsprintf(Clock, args) = ClockText(h, m, s)
<1> DEFINE s0 == [out |-> <<>>, args |-> args]
           s1 == Item(s0, Clock[1])
           s2 == Item(s1, Clock[2])
           s3 == Item(s2, Clock[3])
           s4 == Item(s3, Clock[4])
           s5 == Item(s4, Clock[5])
           v == [k \in 0..5 |-> CASE k = 0 -> s0 [] k = 1 -> s1 [] k = 2 -> s2 [] k = 3 -> s3
                                  [] k = 4 -> s4 [] OTHER -> s5]
<1>1. Len(Clock) = 5 /\ Clock[5] = Clock[3] /\ Clock[4] = Clock[2]
  BY DEF Clock
<1>2. Formats(Clock, args, v)
  <2> HIDE DEF s0, s1, s2, s3, s4, s5
  <2>1. v[0] = s0 /\ v[1] = s1 /\ v[2] = s2 /\ v[3] = s3 /\ v[4] = s4 /\ v[5] = s5
    OBVIOUS
  <2> DEFINE Value(k) == IF k = 0 THEN s0 ELSE Item(v[k - 1], Clock[k])
  <2>2. v[1] = Value(1) /\ v[2] = Value(2) /\ v[3] = Value(3) /\ v[4] = Value(4) /\ v[5] = Value(5)
    <3> HIDE DEF v
    <3>1. 1 - 1 = 0 /\ 2 - 1 = 1 /\ 3 - 1 = 2 /\ 4 - 1 = 3 /\ 5 - 1 = 4
          /\ 1 # 0 /\ 2 # 0 /\ 3 # 0 /\ 4 # 0 /\ 5 # 0
      OBVIOUS
    <3> QED BY <2>1, <3>1 DEF s1, s2, s3, s4, s5
  <2>3. \A k \in 0..5 : v[k] = Value(k)
    <3>1. \A k \in 0..5 : k = 0 \/ k = 1 \/ k = 2 \/ k = 3 \/ k = 4 \/ k = 5
      OBVIOUS
    <3>2. v[0] = Value(0)
      BY <2>1
    <3> HIDE DEF v, Value
    <3> QED BY <2>2, <3>1, <3>2
  <2>4. v = [k \in 0..5 |-> v[k]]
    OBVIOUS
  <2> HIDE DEF v
  <2>5. v = [k \in 0..5 |-> Value(k)]
    BY <2>3, <2>4
  <2> QED BY <1>1, <2>5 DEF Formats, s0
<1>3. PICK w : Formats(Clock, args, w) /\ vsprintf(Clock, args) = w[Len(Clock)].out
  BY <1>2, FormatRecursion
<1>4. /\ w[0] = s0 /\ w[1] = Item(w[0], Clock[1]) /\ w[2] = Item(w[1], Clock[2])
      /\ w[3] = Item(w[2], Clock[3]) /\ w[4] = Item(w[3], Clock[4]) /\ w[5] = Item(w[4], Clock[5])
  <2>1. w = [k \in 0..5 |-> IF k = 0 THEN s0 ELSE Item(w[k - 1], Clock[k])]
    BY <1>1, <1>3 DEF Formats
  <2> HIDE DEF s0
  <2> QED BY <2>1
<1>5. /\ Clock[1] \in Specifications /\ Clock[1].width # Star
      /\ Clock[3] \in Specifications /\ Clock[3].width # Star
      /\ Clock[2] = [plain |-> ":"]
  BY DEF Clock, Specifications, Star
<1>6. ASSUME NEW d, NEW f \in Specifications, f.width # Star
      PROVE  Item(d, f) = [out |-> d.out \o Convert(f, Head(d.args)), args |-> Tail(d.args)]
  <2>1. "plain" \notin DOMAIN f
    BY SpecificationFacts
  <2> QED BY <1>6, <2>1 DEF Item
<1>7. ASSUME NEW out, NEW rest
      PROVE  Item([out |-> out, args |-> rest], [plain |-> ":"])
                = [out |-> Append(out, ":"), args |-> rest]
  <2> DEFINE d == [out |-> out, args |-> rest]
             f == [plain |-> ":"]
  <2>1. "plain" \in DOMAIN f /\ f.plain = ":"
    OBVIOUS
  <2> HIDE DEF f
  <2>2. [d EXCEPT !.out = Append(@, f.plain)] = [out |-> Append(out, f.plain), args |-> rest]
    <3>1. d.out = out
      OBVIOUS
    <3>2. ASSUME NEW x PROVE [d EXCEPT !.out = x] = [out |-> x, args |-> rest]
      OBVIOUS
    <3> HIDE DEF d
    <3> QED BY <3>1, <3>2
  <2> HIDE DEF d
  <2>3. Item(d, f) = [d EXCEPT !.out = Append(@, f.plain)]
    BY <2>1 DEF Item
  <2>4. Item(d, f) = [out |-> Append(out, ":"), args |-> rest]
    BY <2>1, <2>2, <2>3
  <2> QED BY <2>4 DEF d, f
<1>8. /\ Head(args) = args[1] /\ Head(Tail(args)) = args[2] /\ Head(Tail(Tail(args))) = args[3]
  <2> DEFINE t == Tail(args)
             u == Tail(t)
  <2>1. t \in Seq([num : Ints]) /\ Len(t) = 2 /\ t[1] = args[2] /\ t[2] = args[3]
    <3>1. args # <<>>
      <4>1. Len(<<>>) = 0 /\ Len(args) # 0
        OBVIOUS
      <4> QED BY <4>1, Zenon
    <3>2. t \in Seq([num : Ints]) /\ Len(t) = 3 - 1 /\ \A i \in 1..Len(t) : t[i] = args[i + 1]
      BY <3>1, HeadTailProperties
    <3> HIDE DEF t
    <3> QED BY <3>2
  <2> HIDE DEF t
  <2>2. u \in Seq([num : Ints]) /\ Len(u) = 1 /\ u[1] = t[2]
    <3>1. t # <<>>
      <4>1. Len(<<>>) = 0 /\ Len(t) # 0
        BY <2>1
      <4> QED BY <4>1, Zenon
    <3>2. u \in Seq([num : Ints]) /\ Len(u) = 2 - 1 /\ \A i \in 1..Len(u) : u[i] = t[i + 1]
      BY <2>1, <3>1, HeadTailProperties
    <3> HIDE DEF u
    <3> QED BY <3>2
  <2> HIDE DEF u
  <2>3. Head(args) = args[1] /\ Head(t) = t[1] /\ Head(u) = u[1]
    OBVIOUS
  <2> QED BY <2>1, <2>2, <2>3 DEF t, u
<1> HIDE DEF s0
<1>9. w[1] = [out |-> h, args |-> Tail(args)]
  <2>1. <<>> \o h = h
    BY ConcatEmptySeq
  <2>2. w[1] = [out |-> w[0].out \o Convert(Clock[1], Head(w[0].args)), args |-> Tail(w[0].args)]
    BY <1>4, <1>5, <1>6
  <2>3. w[0].out = <<>> /\ w[0].args = args
    BY <1>4 DEF s0
  <2> QED BY <1>8, <2>1, <2>2, <2>3
<1> DEFINE a == Append(h, ":")
           b == a \o m
           c == Append(b, ":")
           e == c \o s
           u == Tail(Tail(args))
<1> HIDE DEF a, b, c, e, u
<1>10. w[2] = [out |-> a, args |-> Tail(args)]
  BY <1>4, <1>5, <1>7, <1>9 DEF a
<1>11. w[3] = [out |-> b, args |-> u]
  <2>1. w[3] = [out |-> w[2].out \o Convert(Clock[3], Head(w[2].args)), args |-> Tail(w[2].args)]
    BY <1>1, <1>4, <1>5, <1>6
  <2>2. w[2].out = a /\ w[2].args = Tail(args)
    BY <1>10
  <2> QED BY <1>8, <2>1, <2>2 DEF b, u
<1>12. w[4] = [out |-> c, args |-> u]
  <2>1. w[4] = Item(w[3], Clock[2])
    BY <1>1, <1>4
  <2> QED BY <1>5, <1>7, <1>11, <2>1 DEF c
<1>13. w[5].out = e
  <2>1. w[5] = [out |-> c \o Convert(Clock[3], Head(u)), args |-> Tail(u)]
    <3>1. w[5] = Item(w[4], Clock[3])
      BY <1>1, <1>4
    <3>2. w[4].out = c /\ w[4].args = u
      BY <1>12
    <3> QED BY <1>5, <1>6, <3>1, <3>2
  <2>2. Convert(Clock[3], Head(u)) = s
    BY <1>8 DEF u
  <2> DEFINE rest == Tail(u)
  <2>3. w[5] = [out |-> e, args |-> rest]
    BY <2>1, <2>2 DEF e
  <2> HIDE DEF rest
  <2> QED BY <2>3
<1>14. ClockText(h, m, s) = e
  BY DEF a, b, c, e, ClockText
<1> QED BY <1>1, <1>3, <1>13, <1>14

\* out shows h, m and s at its end, and nothing but h before.
IsClock(out, h, m, s) ==
    LET n == Len(out) IN
    /\ n > 6 /\ out[n - 5] = ":" /\ out[n - 2] = ":"
    /\ SubSeq(out, 1, n - 6) = h
    /\ SubSeq(out, n - 4, n - 3) = m
    /\ SubSeq(out, n - 1, n) = s

(* Such a text has its colons and its fields where they are looked for.     *)
LEMMA ClockPlaces ==
    ASSUME NEW h \in Seq(Symbols), NEW m \in Seq(Symbols), NEW s \in Seq(Symbols),
           Len(h) > 0, Len(m) = 2, Len(s) = 2
    PROVE  IsClock(ClockText(h, m, s), h, m, s)
<1> DEFINE a == Append(h, ":")
           b == a \o m
           c == Append(b, ":")
           l == Len(h)
           out == ClockText(h, m, s)
<1>1. ":" \in Symbols /\ l \in Nat /\ l > 0
  BY LenProperties, Zenon DEF Symbols, NoDigits
<1>2. /\ a \in Seq(Symbols) /\ Len(a) = l + 1 /\ a[l + 1] = ":"
      /\ \A i \in 1..l : a[i] = h[i]
  BY <1>1
<1> HIDE DEF a, l
<1>3. /\ b \in Seq(Symbols) /\ Len(b) = l + 3
      /\ \A i \in 1..(l + 3) : b[i] = IF i <= l + 1 THEN a[i] ELSE m[i - (l + 1)]
  <2>1. b \in Seq(Symbols) /\ Len(b) = Len(a) + Len(m)
        /\ \A i \in 1..(Len(a) + Len(m)) : b[i] = IF i <= Len(a) THEN a[i] ELSE m[i - Len(a)]
    BY <1>2, ConcatProperties
  <2>2. Len(a) = l + 1 /\ Len(m) = 2 /\ (l + 1) + 2 = l + 3
    BY <1>1, <1>2
  <2> HIDE DEF b
  <2> QED BY <2>1, <2>2
<1> HIDE DEF b
<1>4. /\ c \in Seq(Symbols) /\ Len(c) = l + 4 /\ c[l + 4] = ":"
      /\ \A i \in 1..(l + 3) : c[i] = b[i]
  BY <1>1, <1>3
<1> HIDE DEF c
<1>5. out = c \o s
  BY DEF a, b, c, ClockText
<1> HIDE DEF out
<1>6. /\ out \in Seq(Symbols) /\ Len(out) = l + 6
      /\ \A i \in 1..(l + 6) : out[i] = IF i <= l + 4 THEN c[i] ELSE s[i - (l + 4)]
  <2> DEFINE cs == c \o s
  <2>1. cs \in Seq(Symbols) /\ Len(cs) = Len(c) + Len(s)
        /\ \A i \in 1..(Len(c) + Len(s)) : cs[i] = IF i <= Len(c) THEN c[i] ELSE s[i - Len(c)]
    BY <1>4, ConcatProperties
  <2>2. Len(c) = l + 4 /\ Len(s) = 2 /\ (l + 4) + 2 = l + 6 /\ out = cs
    BY <1>1, <1>4, <1>5
  <2> HIDE DEF cs
  <2> QED BY <2>1, <2>2
<1>7. /\ \A i \in 1..l : out[i] = h[i]
      /\ out[l + 1] = ":" /\ out[l + 4] = ":"
      /\ out[l + 2] = m[1] /\ out[l + 3] = m[2] /\ out[l + 5] = s[1] /\ out[l + 6] = s[2]
  <2>1. ASSUME NEW i \in 1..(l + 1) PROVE out[i] = a[i]
    BY <1>1, <1>3, <1>4, <1>6
  <2>2. ASSUME NEW i \in 1..2 PROVE out[l + 1 + i] = m[i] /\ out[l + 4 + i] = s[i]
    <3>1. /\ l + 1 + i \in 1..(l + 6) /\ l + 1 + i \in 1..(l + 3)
          /\ l + 1 + i <= l + 4 /\ ~(l + 1 + i <= l + 1) /\ (l + 1 + i) - (l + 1) = i
          /\ l + 4 + i \in 1..(l + 6) /\ ~(l + 4 + i <= l + 4) /\ (l + 4 + i) - (l + 4) = i
      BY <1>1
    <3> DEFINE p == l + 1 + i
               q == l + 4 + i
    <3> HIDE DEF p, q
    <3>2. /\ p \in 1..(l + 6) /\ p \in 1..(l + 3) /\ p <= l + 4 /\ ~(p <= l + 1) /\ p - (l + 1) = i
          /\ q \in 1..(l + 6) /\ ~(q <= l + 4) /\ q - (l + 4) = i
      BY <3>1 DEF p, q
    <3>3. out[p] = c[p] /\ out[q] = s[i]
      BY <1>6, <3>2
    <3>4. c[p] = b[p]
      BY <1>4, <3>2
    <3>5. b[p] = m[i]
      BY <1>3, <3>2
    <3> QED BY <3>3, <3>4, <3>5 DEF p, q
  <2>3. out[l + 4] = ":"
    BY <1>1, <1>4, <1>6
  <2>4. 1 \in 1..2 /\ 2 \in 1..2 /\ l + 1 + 1 = l + 2 /\ l + 1 + 2 = l + 3
        /\ l + 4 + 1 = l + 5 /\ l + 4 + 2 = l + 6 /\ l + 1 \in 1..(l + 1)
    BY <1>1
  <2>5. out[l + 2] = m[1] /\ out[l + 3] = m[2] /\ out[l + 5] = s[1] /\ out[l + 6] = s[2]
    BY <2>2, <2>4
  <2>6. \A i \in 1..l : out[i] = h[i]
    BY <1>1, <1>2, <2>1
  <2> QED BY <1>2, <2>1, <2>3, <2>4, <2>5, <2>6
<1>8. SubSeq(out, 1, l) = h
  <2>1. SubSeq(out, 1, l) \in Seq(Symbols) /\ Len(SubSeq(out, 1, l)) = l
        /\ \A i \in 1..l : SubSeq(out, 1, l)[i] = out[i]
    <3>1. 1 \in 1..(Len(out) + 1) /\ l \in 0..Len(out) /\ l - 1 + 1 = l /\ (1 <= l)
      BY <1>1, <1>6
    <3>2. \A i \in 1..l : 1 + i - 1 = i
      BY <1>1
    <3> QED BY <1>1, <1>6, <3>1, <3>2, SubSeqProperties
  <2> QED BY <1>1, <1>7, <2>1, SeqEqual DEF l
<1>9. ASSUME NEW k \in 1..(l + 5), NEW t \in Seq(Symbols), Len(t) = 2, t[1] = out[k], t[2] = out[k + 1]
      PROVE  SubSeq(out, k, k + 1) = t
  <2>1. SubSeq(out, k, k + 1) \in Seq(Symbols) /\ Len(SubSeq(out, k, k + 1)) = 2
        /\ SubSeq(out, k, k + 1)[1] = out[k] /\ SubSeq(out, k, k + 1)[2] = out[k + 1]
    BY <1>1, <1>6
  <2>2. \A i \in 1..2 : i = 1 \/ i = 2
    OBVIOUS
  <2> QED BY <1>9, <2>1, <2>2, SeqEqual
<1>10. SubSeq(out, l + 2, l + 3) = m
  <2>1. l + 2 \in 1..(l + 5) /\ (l + 2) + 1 = l + 3
    BY <1>1
  <2> QED BY <1>7, <1>9, <2>1
<1>11. SubSeq(out, l + 5, l + 6) = s
  <2>1. l + 5 \in 1..(l + 5) /\ (l + 5) + 1 = l + 6
    BY <1>1
  <2> QED BY <1>7, <1>9, <2>1
<1> DEFINE n == Len(out)
<1>12. n > 6 /\ n - 5 = l + 1 /\ n - 2 = l + 4 /\ n - 6 = l /\ n - 4 = l + 2 /\ n - 3 = l + 3
       /\ n - 1 = l + 5 /\ n = l + 6
  BY <1>1, <1>6
<1> HIDE DEF n
<1>13. /\ n > 6 /\ out[n - 5] = ":" /\ out[n - 2] = ":"
       /\ SubSeq(out, 1, n - 6) = h /\ SubSeq(out, n - 4, n - 3) = m /\ SubSeq(out, n - 1, n) = s
  BY <1>7, <1>8, <1>10, <1>11, <1>12
<1> QED BY <1>13 DEF n, out, IsClock


\* The clock's arguments, and what ReadsBack says of it.
ClockArgs(args) ==
    /\ args \in Seq([num : Ints]) /\ Len(args) = 3
    /\ args[1].num >= 0 /\ args[2].num \in 0..59 /\ args[3].num \in 0..59
ReadsClock(args, out) ==
    LET n == Len(out) IN
    /\ n > 6 /\ out[n - 5] = ":" /\ out[n - 2] = ":"
    /\ Reading(SubSeq(out, 1, n - 6), 10) = args[1].num
    /\ Reading(SubSeq(out, n - 4, n - 3), 10) = args[2].num
    /\ Reading(SubSeq(out, n - 1, n), 10) = args[3].num

(* The clock reads as its hours, minutes and seconds.                       *)
LEMMA ClockReads ==
    ASSUME NEW args, ClockArgs(args)
    PROVE  ReadsClock(args, vsprintf(Clock, args))
<1> DEFINE h == Convert(Clock[1], args[1])
           m == Convert(Clock[3], args[2])
           s == Convert(Clock[3], args[3])
           out == vsprintf(Clock, args)
<1>1. \A k \in 1..3 : args[k].num \in Ints
  <2>1. \A k \in 1..3 : args[k] \in [num : Ints]
    BY ElementOfSeq DEF ClockArgs
  <2> QED BY <2>1
<1>2. h \in Seq(Symbols) /\ Reading(h, 10) = args[1].num /\ Len(h) > 0
  <2>1. args[1].num \in Ints /\ Clock[1] \in {Clock[1], Clock[3]} /\ args[1].num >= 0
    BY <1>1 DEF ClockArgs
  <2>2. h \in Seq(Symbols) /\ Reading(h, 10) = args[1].num /\ Len(h) \in Nat \ {0}
    BY <2>1, ClockField
  <2> HIDE DEF h
  <2> QED BY <2>2
<1>3. ASSUME NEW k \in {2, 3}
      PROVE  LET x == Convert(Clock[3], args[k]) IN
             x \in Seq(Symbols) /\ Reading(x, 10) = args[k].num /\ Len(x) = 2
  <2>1. args[k].num \in Ints /\ Clock[3] \in {Clock[1], Clock[3]}
        /\ args[k].num >= 0 /\ args[k].num < 60
    <3>1. k \in 1..3 /\ args[k].num \in 0..59
      <4>1. CASE k = 2
        BY <4>1 DEF ClockArgs
      <4>2. CASE k = 3
        BY <4>2 DEF ClockArgs
      <4> QED BY <4>1, <4>2
    <3>2. args[k].num \in Ints
      BY <1>1, <3>1
    <3>3. \A x \in 0..59 : x >= 0 /\ x < 60
      OBVIOUS
    <3> QED BY <3>1, <3>2, <3>3, Zenon
  <2> QED BY <2>1, ClockField
<1>4. /\ m \in Seq(Symbols) /\ Reading(m, 10) = args[2].num /\ Len(m) = 2
      /\ s \in Seq(Symbols) /\ Reading(s, 10) = args[3].num /\ Len(s) = 2
  BY <1>3
<1>5. out = ClockText(h, m, s)
  BY <1>2, <1>4, ClockItems DEF ClockArgs
<1> HIDE DEF h, m, s, out
<1>6. IsClock(out, h, m, s)
  BY <1>2, <1>4, <1>5, ClockPlaces
<1>7. ReadsClock(args, out)
  BY <1>2, <1>4, <1>6, Zenon DEF ReadsClock, IsClock
<1> QED BY <1>7 DEF out

-----------------------------------------------------------------------------
(* The numbers of src/monitor.c.                                           *)

(* A decimal number reads as itself.                                        *)
LEMMA DecReads ==
    ASSUME NEW n \in Nat
    PROVE  Reading(monitor_write_dec(n), 10) = n
<1> DEFINE ds == digits(n, 10, Lower)
           body == BodyFor(n, 10, Lower, 0)
<1>1. 10 \in Bases /\ Lower \in Tables /\ 0 \in Int /\ 0 <= 0
  BY DEF Bases, Tables
<1>2. body \in Seq(Symbols) /\ body = Reverse(ds) /\ \A z : Nought(z) => Reading(z \o body, 10) = n
  BY <1>1, BodyFacts
<1> HIDE DEF body
<1>3. Reading(<<>> \o body, 10) = n /\ <<>> \o body = body
  BY <1>2, NoughtFacts, ConcatEmptySeq
<1> QED BY <1>2, <1>3 DEF monitor_write_dec

\* The nibble taken in step k, and what is printed after it.
Nibble(n, k) == (n \div Values(Nibbles - k)) % 16
PrintsHex(n, w) ==
    w = [k \in 0..Nibbles |->
            CASE k = 0 -> <<>>
              [] k > 0 /\ Nibble(n, k) = 0 /\ w[k - 1] = <<>> -> <<>>
              [] OTHER -> Append(w[k - 1], Lower[Nibble(n, k) + 1])]

(* The loop of monitor_write_hex() has a solution.                          *)
LEMMA HexRecursion ==
    ASSUME NEW n \in Nat
    PROVE  \E w : /\ PrintsHex(n, w) /\ w \in [0..Nibbles -> Seq(Symbols)]
                  /\ monitor_write_hex(n) = <<"0", "x">> \o w[Nibbles]
<1> DEFINE D == 0..Nibbles
           V == Seq(Symbols)
           none == <<>>
           next(k, v) == IF Nibble(n, k) = 0 /\ v = <<>> THEN <<>> ELSE Append(v, Lower[Nibble(n, k) + 1])
           prev == [k \in D |-> k - 1]
           step == [k \in D |-> [v \in V |-> next(k, v)]]
           printed == CHOOSE w : PrintsHex(n, w)
<1>0. Nibbles \in Nat \ {0}
  BY FormatAssumption
<1>1. \A k \in D : Nibble(n, k) \in 0..15 /\ Lower[Nibble(n, k) + 1] \in Symbols
  <2> TAKE k \in D
  <2> DEFINE p == Values(Nibbles - k)
             q == n \div p
  <2>1. p \in Nat \ {0}
    <3>1. Nibbles - k \in Nat
      BY <1>0
    <3> QED BY <3>1, ValuesFacts
  <2> HIDE DEF p
  <2>2. q \in Nat
    BY <2>1
  <2> HIDE DEF q
  <2>3. q % 16 \in 0..15
    BY <2>2
  <2>4. Lower \in Tables
    BY DEF Tables
  <2> QED BY <2>3, <2>4, TableFacts DEF Nibble, p, q
<1>2. none \in V /\ \A k \in D : \A v \in V : next(k, v) \in V
  <2>1. <<>> \in V
    BY EmptySeq
  <2>2. \A k \in D : \A v \in V : Append(v, Lower[Nibble(n, k) + 1]) \in V
    BY <1>1, AppendProperties
  <2> QED BY <2>1, <2>2
<1> HIDE DEF V, none
<1>3. Beginning(D)
  BY <1>0 DEF Beginning
<1>4. \A k \in D \ {0} : prev[k] = k - 1 /\ k - 1 \in 0..(k - 1) /\ k - 1 \in D /\ k > 0
  BY <1>0
<1> HIDE DEF next
<1>5. \A k \in D \ {0} : step[k] \in [V -> V] /\ \A v \in V : step[k][v] = next(k, v)
  BY <1>2
<1>6. PICK w \in [D -> V] : Solves(D, none, prev, step, w)
  <2>1. \A k \in D \ {0} : prev[k] \in 0..(k - 1)
    BY <1>4
  <2>2. \A k \in D \ {0} : step[k] \in [V -> V]
    BY <1>5
  <2> HIDE DEF D, prev, step
  <2> QED BY <1>2, <1>3, <2>1, <2>2, Solvable
<1>7. w = [k \in D |-> IF k = 0 THEN none ELSE next(k, w[k - 1])]
  <2>1. w = [k \in D |-> IF k = 0 THEN none ELSE step[k][w[prev[k]]]]
    BY <1>6, Zenon DEF Solves
  <2>2. \A k \in D \ {0} : step[k][w[prev[k]]] = next(k, w[k - 1])
    <3> HIDE DEF D, prev, step
    <3> QED BY <1>4, <1>5, <1>6
  <2>3. \A k \in D : w[k] = IF k = 0 THEN none ELSE step[k][w[prev[k]]]
    <3> HIDE DEF D, prev, step
    <3> QED BY <2>1, Zenon
  <2>4. \A k \in D : w[k] = IF k = 0 THEN none ELSE next(k, w[k - 1])
    <3> HIDE DEF D, prev, step
    <3> QED BY <2>2, <2>3
  <2>5. w = [k \in D |-> w[k]]
    OBVIOUS
  <2> QED BY <2>4, <2>5
<1>8. \A v : PrintsHex(n, v) <=> v = [k \in D |-> IF k = 0 THEN none ELSE next(k, v[k - 1])]
  <2> TAKE v
  <2>1. \A k \in D : (CASE k = 0 -> <<>>
                         [] k > 0 /\ Nibble(n, k) = 0 /\ v[k - 1] = <<>> -> <<>>
                         [] OTHER -> Append(v[k - 1], Lower[Nibble(n, k) + 1]))
                       = IF k = 0 THEN none ELSE next(k, v[k - 1])
    BY <1>0 DEF next, none
  <2> QED BY <2>1 DEF PrintsHex
<1>9. PrintsHex(n, printed)
  <2>1. PrintsHex(n, w)
    BY <1>7, <1>8
  <2> QED BY <2>1
<1>10. monitor_write_hex(n) = <<"0", "x">> \o printed[Nibbles]
  BY DEF monitor_write_hex, PrintsHex, Nibble
<1> HIDE DEF printed
<1>11. printed = [k \in D |-> IF k = 0 THEN none ELSE next(k, printed[k - 1])]
  BY <1>8, <1>9
<1>12. \A k \in D : printed[k] \in V
  <2> DEFINE Bad == {k \in D : printed[k] \notin V}
  <2>1. SUFFICES ASSUME Bad # {} PROVE FALSE
    OBVIOUS
  <2>2. PICK k \in Bad : \A x \in Bad : k <= x
    <3>1. Bad \in SUBSET Nat
      BY <1>0
    <3> HIDE DEF Bad
    <3> QED BY <2>1, <3>1, Least
  <2>3. k \in D /\ printed[k] = IF k = 0 THEN none ELSE next(k, printed[k - 1])
    BY <1>11, <2>2
  <2>4. k # 0 => k - 1 \in D /\ k - 1 \notin Bad
    BY <1>0, <2>2
  <2> QED BY <1>2, <2>2, <2>3, <2>4
<1>13. printed \in [D -> V]
  BY <1>11, <1>12
<1> QED BY <1>9, <1>10, <1>13 DEF V


(* A hexadecimal number reads as itself, whatever zeros are left out.       *)
LEMMA HexReads ==
    ASSUME NEW n \in 0..(Values(Nibbles) - 1)
    PROVE  Reading(monitor_write_hex(n), 16) = n
<1> DEFINE D == 0..Nibbles
           prefix == <<"0", "x">>
           value(k) == n \div Values(Nibbles - k)
<1>0. Nibbles \in Nat \ {0} /\ n \in Nat /\ Values(Nibbles) \in Nat \ {0}
  <2>1. Nibbles \in Nat \ {0}
    BY FormatAssumption
  <2>2. Values(Nibbles) \in Nat \ {0}
    BY <2>1, ValuesFacts
  <2> QED BY <2>1, <2>2
<1>1. PICK w : /\ PrintsHex(n, w) /\ w \in [D -> Seq(Symbols)]
               /\ monitor_write_hex(n) = <<"0", "x">> \o w[Nibbles]
  BY <1>0, HexRecursion
<1>2. Nought(prefix) /\ prefix \in Seq(Symbols)
  <2>1. prefix \in Seq(Symbols) /\ Chars(prefix) = {"0", "x"}
    BY SymbolFacts DEF Chars
  <2> QED BY <2>1, SymbolFacts DEF Nought
<1>3. value(0) = 0 /\ value(Nibbles) = n
  <2>1. Nibbles - 0 = Nibbles /\ Nibbles - Nibbles = 0 /\ Values(0) = 1
    BY <1>0, ValuesFacts
  <2>2. n < Values(Nibbles) /\ n \div 1 = n
    BY <1>0
  <2>3. n \div Values(Nibbles) = 0
    BY <1>0, <2>2
  <2> QED BY <2>1, <2>2, <2>3
<1>4. ASSUME NEW k \in 1..Nibbles
      PROVE  /\ value(k - 1) \in Nat /\ Nibble(n, k) \in 0..15
             /\ value(k) = value(k - 1) * 16 + Nibble(n, k)
  <2> DEFINE j == Nibbles - k
             p == Values(j)
             q == n \div p
  <2>1. j \in Nat /\ Nibbles - (k - 1) = j + 1
    BY <1>0
  <2>2. p \in Nat \ {0} /\ Values(Nibbles - (k - 1)) = 16 * p
    BY <2>1, ValuesFacts
  <2> HIDE DEF p
  <2>3. q \in Nat /\ n \div (16 * p) = q \div 16
    BY <1>0, <2>2
  <2> HIDE DEF q
  <2>4. q \div 16 \in Nat /\ q % 16 \in 0..15 /\ q = (q \div 16) * 16 + (q % 16)
    BY <2>3
  <2>5. value(k) = q /\ value(k - 1) = q \div 16 /\ Nibble(n, k) = q % 16
    BY <2>2, <2>3 DEF Nibble, q, p
  <2> DEFINE d == q \div 16
             r == q % 16
  <2> HIDE DEF value, d, r
  <2>6. d \in Nat /\ r \in 0..15 /\ q = d * 16 + r /\ value(k) = q /\ value(k - 1) = d /\ Nibble(n, k) = r
    BY <2>4, <2>5 DEF d, r
  <2> QED BY <2>6
<1>5. /\ w[0] = <<>>
      /\ \A k \in 1..Nibbles : w[k] = IF Nibble(n, k) = 0 /\ w[k - 1] = <<>> THEN <<>>
                                      ELSE Append(w[k - 1], Lower[Nibble(n, k) + 1])
  <2>1. \A k \in D : w[k] = CASE k = 0 -> <<>>
                               [] k > 0 /\ Nibble(n, k) = 0 /\ w[k - 1] = <<>> -> <<>>
                               [] OTHER -> Append(w[k - 1], Lower[Nibble(n, k) + 1])
    BY <1>1 DEF PrintsHex
  <2>2. 0 \in D /\ \A k \in 1..Nibbles : k \in D /\ k > 0 /\ k # 0
    BY <1>0
  <2> QED BY <2>1, <2>2
<1> HIDE DEF prefix, value
<1> DEFINE Good(k) == Reading(prefix \o w[k], 16) = value(k)
<1>6. Good(0)
  <2>1. prefix \o <<>> = prefix
    BY <1>2, ConcatEmptySeq
  <2>2. Reading(prefix, 16) = 0
    BY <1>2, NoughtFacts DEF Bases
  <2> QED BY <1>3, <1>5, <2>1, <2>2
<1>7. ASSUME NEW k \in 1..Nibbles, Good(k - 1) PROVE Good(k)
  <2> DEFINE x == Nibble(n, k)
             v == w[k - 1]
  <2>1. x \in 0..15 /\ value(k - 1) \in Nat /\ value(k) = value(k - 1) * 16 + x
    BY <1>4
  <2>2. v \in Seq(Symbols) /\ Reading(prefix \o v, 16) = value(k - 1)
    <3>1. k - 1 \in D
      BY <1>0
    <3> HIDE DEF D
    <3> QED BY <1>1, <1>7, <3>1
  <2>3. w[k] = IF x = 0 /\ v = <<>> THEN <<>> ELSE Append(v, Lower[x + 1])
    BY <1>5
  <2> HIDE DEF x, v
  <2>4. CASE x = 0 /\ v = <<>>
    <3>1. value(k - 1) = 0
      <4>1. prefix \o <<>> = prefix /\ Reading(prefix, 16) = 0
        BY <1>2, ConcatEmptySeq, NoughtFacts DEF Bases
      <4> QED BY <2>2, <2>4, <4>1
    <3>2. w[k] = v /\ value(k) = value(k - 1)
      BY <2>1, <2>3, <2>4, <3>1
    <3> QED BY <2>2, <3>2
  <2>5. CASE ~(x = 0 /\ v = <<>>)
    <3> DEFINE c == Lower[x + 1]
               pv == prefix \o v
    <3>1. w[k] = Append(v, c)
      BY <2>3, <2>5
    <3>2. c \in Symbols /\ IsDigit(c, 16) /\ Digit(c, 16) = x
      <4>1. Lower \in Tables /\ 16 \in Bases /\ 16 - 1 = 15
        BY DEF Tables, Bases
      <4> QED BY <2>1, <4>1, TableFacts, DigitFacts
    <3> HIDE DEF c
    <3>3. prefix \o Append(v, c) = Append(pv, c) /\ pv \in Seq(Symbols)
      <4>1. Append(v, c) = v \o <<c>> /\ <<c>> \in Seq(Symbols)
        BY <2>2, <3>2, AppendIsConcat
      <4>2. prefix \o (v \o <<c>>) = pv \o <<c>> /\ pv \in Seq(Symbols)
        BY <1>2, <2>2, <4>1, ConcatAssociative, ConcatProperties
      <4> HIDE DEF pv
      <4>3. Append(pv, c) = pv \o <<c>>
        BY <3>2, <4>2, AppendIsConcat
      <4> QED BY <4>1, <4>2, <4>3
    <3> HIDE DEF pv
    <3>4. Reading(Append(pv, c), 16) = Reading(pv, 16) * 16 + x
      <4>1. 16 \in Bases
        BY DEF Bases
      <4> QED BY <3>2, <3>3, <4>1, ReadingAppend
    <3>5. Reading(pv, 16) = value(k - 1)
      BY <2>2 DEF pv
    <3> QED BY <2>1, <3>1, <3>3, <3>4, <3>5
  <2> QED BY <2>4, <2>5
<1>8. \A k \in D : Good(k)
  <2> DEFINE Bad == {k \in D : ~Good(k)}
  <2> HIDE DEF Good
  <2>1. SUFFICES ASSUME Bad # {} PROVE FALSE
    OBVIOUS
  <2>2. PICK k \in Bad : \A x \in Bad : k <= x
    <3>1. Bad \in SUBSET Nat
      BY <1>0
    <3> HIDE DEF Bad
    <3> QED BY <2>1, <3>1, Least
  <2>3. k \in 0..Nibbles /\ k # 0
    BY <1>6, <2>2
  <2>4. k \in 1..Nibbles /\ k - 1 \in D /\ k - 1 \notin Bad
    BY <1>0, <2>2, <2>3
  <2> QED BY <1>7, <2>2, <2>4
<1>9. Good(Nibbles)
  <2>1. Nibbles \in D
    BY <1>0
  <2> HIDE DEF D, Good
  <2> QED BY <1>8, <2>1
<1> QED BY <1>1, <1>3, <1>9 DEF prefix

-----------------------------------------------------------------------------
(* String comparison.                                                      *)

(* strcmp() stops at the first position where a string ends or they differ, *)
(* and takes a difference in the last character for none.                   *)
LEMMA StrcmpFacts ==
    ASSUME NEW s \in Seq(STRING), NEW t \in Seq(STRING)
    PROVE  strcmp(s, t) = 0 <=> Len(s) = Len(t) /\ \A k \in 1..(Len(s) - 1) : s[k] = t[k]
<1> DEFINE m == Len(s)
           n == Len(t)
           Stop(k) == k > m \/ k > n \/ s[k] # t[k]
           First(k) == Stop(k) /\ \A j \in 1..(k - 1) : j <= n /\ s[j] = t[j]
           at == CHOOSE k \in 1..(m + 1) : First(k)
           end == IF at > m \/ at > n THEN at ELSE at + 1
<1>1. m \in Nat /\ n \in Nat
  BY LenProperties
<1>2. strcmp(s, t) = CASE end > m /\ end > n -> 0
                       [] end > m /\ end <= n -> -1
                       [] OTHER -> 1
  BY DEF strcmp
<1> HIDE DEF m, n
<1>3. \E k \in 1..(m + 1) : First(k)
  <2> DEFINE S == {k \in 1..(m + 1) : Stop(k)}
  <2>1. S \in SUBSET Nat /\ m + 1 \in S
    BY <1>1
  <2>2. PICK k \in S : \A x \in S : k <= x
    <3> HIDE DEF S
    <3> QED BY <2>1, Least
  <2>3. ASSUME NEW j \in 1..(k - 1) PROVE j <= n /\ s[j] = t[j]
    <3>1. j \in 1..(m + 1) /\ j \notin S
      BY <1>1, <2>2
    <3>2. ~Stop(j)
      BY <3>1
    <3> QED BY <1>1, <3>2
  <2> QED BY <2>2, <2>3
<1>4. at \in 1..(m + 1) /\ First(at)
  BY <1>3
<1> HIDE DEF at
<1>5. at \in Nat /\ at >= 1 /\ at <= m + 1 /\ at <= n + 1
  <2>1. at \in 1..(m + 1)
    BY <1>4
  <2>2. at - 1 \in 1..(at - 1) => at - 1 <= n
    BY <1>4
  <2>3. at \in Nat /\ at >= 1 /\ at <= m + 1
    BY <1>1, <2>1
  <2> QED BY <1>1, <2>2, <2>3
<1>6. end > m /\ end > n <=> m = n /\ at >= m
  BY <1>1, <1>5
<1>7. (strcmp(s, t) = 0) <=> (end > m /\ end > n)
  <2>1. end \in Int
    BY <1>5
  <2> HIDE DEF end
  <2>2. CASE end > m /\ end > n
    BY <1>1, <1>2, <2>1, <2>2
  <2>3. CASE end > m /\ ~(end > n)
    <3>1. end <= n
      BY <1>1, <2>1, <2>3
    <3> QED BY <1>2, <2>3, <3>1
  <2>4. CASE ~(end > m)
    BY <1>2, <2>4
  <2> QED BY <2>2, <2>3, <2>4
<1>8. ASSUME m = n PROVE at >= m <=> \A k \in 1..(m - 1) : s[k] = t[k]
  <2>1. ASSUME at >= m, NEW k \in 1..(m - 1) PROVE s[k] = t[k]
    <3>1. k \in 1..(at - 1)
      BY <1>1, <1>5, <2>1
    <3> QED BY <1>4, <3>1
  <2>2. ASSUME ~(at >= m) PROVE ~ \A k \in 1..(m - 1) : s[k] = t[k]
    <3>1. at \in 1..(m - 1) /\ ~(at > m) /\ ~(at > n)
      BY <1>1, <1>5, <1>8, <2>2
    <3> QED BY <1>4, <3>1
  <2> QED BY <2>1, <2>2
<1> QED BY <1>6, <1>7, <1>8 DEF m, n


-----------------------------------------------------------------------------
(* Every call.                                                             *)

\* The call is one of those the properties speak of, and returned what it computes.
FormatInv == call \in Calls /\ (returned => output = Result(call))

(* A call keeps its arguments and returns its result.                       *)
LEMMA FormatInductive == Spec => []FormatInv
<1>1. Init => FormatInv
  BY DEF Init, FormatInv
<1>2. FormatInv /\ [Return]_vars => FormatInv'
  BY DEF FormatInv, Return, vars
<1> QED BY <1>1, <1>2, PTL DEF Spec

(* The first conjunct of PrintsAsAsked.                                     *)
LEMMA AllReadBack == FormatInv => ReadsBack
<1> SUFFICES ASSUME FormatInv PROVE ReadsBack
  OBVIOUS
<1>0. call \in Calls /\ (returned => output = Result(call))
  BY DEF FormatInv
<1>1. ASSUME OneConversion, Numeric(call.fmt[1])
      PROVE  Reads(call.fmt[1], call.args[1].num, output)
  <2> DEFINE f == call.fmt[1]
             a == call.args[1]
  <2>1. returned /\ call.op = "vsprintf" /\ Len(call.fmt) = 1
    BY <1>1 DEF OneConversion
  <2>2. f.conv \notin {"c", "s"} /\ f.width # Star
    BY <1>1 DEF Numeric
  <2>3. f \in Specifications /\ Suits(f, a)
    BY <1>0, <2>1, <2>2, FormatAssumption
  <2>4. output = vsprintf(call.fmt, call.args)
    BY <1>0, <2>1 DEF Result
  <2>5. vsprintf(call.fmt, call.args) = Convert(f, a)
    BY <2>1, <2>2, <2>3, OneItem
  <2>6. a.num \in Ints
    BY <2>2, <2>3 DEF Suits
  <2> HIDE DEF f, a
  <2>7. Reads(f, a.num, output)
    BY <2>2, <2>3, <2>4, <2>5, <2>6, ConvertReads
  <2> QED BY <2>7 DEF f, a
<1>2. ASSUME returned, call.op = "vsprintf", call.fmt = Clock
      PROVE  ReadsClock(call.args, output)
  <2>1. ClockArgs(call.args)
    BY <1>0, <1>2, FormatAssumption DEF ClockArgs
  <2>2. output = vsprintf(Clock, call.args)
    BY <1>0, <1>2 DEF Result
  <2> QED BY <2>1, <2>2, ClockReads
<1>3. ASSUME returned, call.op \in {"dec", "hex"}
      PROVE  Reading(output, IF call.op = "dec" THEN 10 ELSE 16) = call.num
  <2>1. call.num \in 0..(Values(Nibbles) - 1)
    BY <1>0, <1>3, FormatAssumption
  <2>2. CASE call.op = "dec"
    <3>1. output = monitor_write_dec(call.num)
      BY <1>0, <1>3, <2>2 DEF Result
    <3>2. call.num \in Nat
      BY <2>1
    <3> QED BY <2>2, <3>1, <3>2, DecReads
  <2>3. CASE call.op = "hex"
    <3>1. output = monitor_write_hex(call.num)
      BY <1>0, <1>3, <2>3 DEF Result
    <3> QED BY <2>1, <2>3, <3>1, HexReads
  <2> QED BY <1>3, <2>2, <2>3
<1> QED BY <1>1, <1>2, <1>3, Zenon DEF ReadsBack, Reads, ReadsClock

(* The second conjunct of PrintsAsAsked.                                    *)
LEMMA AllFieldsFilled == FormatInv => FieldsFilled
<1> SUFFICES ASSUME FormatInv, OneConversion, call.fmt[1].width # Star
             PROVE  Fills(call.fmt[1], output, Convert([call.fmt[1] EXCEPT !.width = 0], call.args[1]))
  BY Zenon DEF FieldsFilled, Fills, Zeros, SizeOf
<1> DEFINE f == call.fmt[1]
           a == call.args[1]
<1>1. call \in Calls /\ output = Result(call) /\ call.op = "vsprintf" /\ Len(call.fmt) = 1
  BY DEF FormatInv, OneConversion
<1>2. f \in Specifications /\ Suits(f, a)
  BY <1>1, FormatAssumption
<1>3. output = vsprintf(call.fmt, call.args)
  BY <1>1 DEF Result
<1>4. vsprintf(call.fmt, call.args) = Convert(f, a)
  BY <1>1, <1>2, OneItem
<1> HIDE DEF f, a
<1>5. Fills(f, output, Convert([f EXCEPT !.width = 0], a))
  <2>1. f.width # Star
    BY DEF f
  <2> QED BY <1>2, <1>3, <1>4, <2>1, ConvertFills
<1> QED BY <1>5 DEF f, a

(* Every number is printed as itself by number(), monitor_write_hex(),      *)
(* monitor_write_dec() and the format of timer_task(), in every base, width,*)
(* precision and flag and for ints of any number of nibbles, and every field*)
(* of vsprintf() is filled the way its flags ask for.                       *)
THEOREM FormatPrintsAsAsked == Spec => []PrintsAsAsked
<1>1. FormatInv => PrintsAsAsked
  BY AllReadBack, AllFieldsFilled DEF PrintsAsAsked
<1> QED BY <1>1, FormatInductive, PTL

\* strcmp() is wrong about no strings but those of one length that differ in the last
\* character alone: these it takes for equal.
MissesLastCharacterOnly ==
    returned /\ call.op = "strcmp" /\ ~(output = <<0>> <=> call.left = call.right) =>
       LET s == call.left  t == call.right IN
       /\ output = <<0>> /\ Len(s) = Len(t) /\ Len(s) > 0 /\ s[Len(s)] # t[Len(s)]
       /\ \A k \in 1..(Len(s) - 1) : s[k] = t[k]

(* How far strcmp() is from what its comment says (common.c:39-52): it     *)
(* never takes equal strings for different, and different ones for equal   *)
(* only if they differ in the last character alone.                        *)
THEOREM FormatMissesLastCharacterOnly == Spec => []MissesLastCharacterOnly
<1>1. FormatInv => MissesLastCharacterOnly
  <2> DEFINE s == call.left
             t == call.right
  <2> SUFFICES ASSUME FormatInv, returned, call.op = "strcmp", ~(output = << 0 >> <=> s = t)
               PROVE  /\ output = <<0>> /\ Len(s) = Len(t) /\ Len(s) > 0 /\ s[Len(s)] # t[Len(s)]
                      /\ \A k \in 1..(Len(s) - 1) : s[k] = t[k]
    BY DEF MissesLastCharacterOnly
  <2>1. s \in Seq(STRING) /\ t \in Seq(STRING)
    BY FormatAssumption DEF FormatInv
  <2>2. output = <<strcmp(s, t)>>
    BY DEF FormatInv, Result
  <2>3. output = <<0>> <=> strcmp(s, t) = 0
    BY <2>2
  <2> HIDE DEF s, t
  <2>4. output = <<0>> <=> Len(s) = Len(t) /\ \A k \in 1..(Len(s) - 1) : s[k] = t[k]
    BY <2>1, <2>3, StrcmpFacts
  <2>5. output = <<0>> /\ s # t
    BY <2>4
  <2>6. Len(s) = Len(t) /\ Len(s) \in Nat /\ \A k \in 1..(Len(s) - 1) : s[k] = t[k]
    BY <2>1, <2>4, <2>5, LenProperties
  <2>7. PICK k \in 1..Len(s) : s[k] # t[k]
    BY <2>1, <2>5, <2>6, SeqEqual
  <2>8. k = Len(s)
    BY <2>6, <2>7
  <2> QED BY <2>5, <2>6, <2>7, <2>8
<1> QED BY <1>1, FormatInductive, PTL

=============================================================================
