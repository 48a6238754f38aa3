--------------------------- MODULE ConsoleProofs ---------------------------
(***************************************************************************)
(* Proofs about the console, for any size of screen and buffer, any texts  *)
(* and any keys.                                                           *)
(*                                                                         *)
(* Screen first: with p the place of the cursor, counted along the rows, a *)
(* character goes to p and the cursor to p + 1, a backspace blanks p - 1   *)
(* and goes there, whether or not the row ends; scrolling moves the cursor *)
(* and what stands before it back by the same Width cells.  So a text that *)
(* is shorter than the rows that stay keeps standing before the cursor.    *)
(* ConsoleInv says which text that is at each stage of a read, whose turn  *)
(* it is to print, and what the buffer and the clock hold.                 *)
(***************************************************************************)
EXTENDS ConsoleProperties, SequenceTheorems, TLAPS

Cursor(s) == At(s.x, s.y)

\* The first n characters of text stand in the cells before the cursor.
Stands(s, n, text) ==
    /\ Cursor(s) >= n
    /\ \A k \in 1..n : s.cell[Cursor(s) - n + k - 1] = text[k]

\* Prompt and line, and how much of them a client can see (kernel_main.c:107-110).
Shown ==
    [k \in 1..(Len(Prompt) + io_sz) |-> IF k <= Len(Prompt) THEN Prompt[k] ELSE buf[k - Len(Prompt) - 1]]
HowMuch ==
    IF boot = "prompt" THEN IF Len(out) <= Len(Prompt) THEN Len(Prompt) - Len(out) ELSE 0
    ELSE IF requested THEN Len(Prompt)
    ELSE IF console = "edit" THEN Len(Prompt) + i
    ELSE 0
LineStands == Stands(screen, HowMuch, Shown)

\* The request is in one place: with the boot task, in a queue or with the console.
Handover ==
    /\ boot \in {"prompt", "wait"} /\ requested \in BOOLEAN /\ replied \in BOOLEAN
    /\ console \in {"request", "edit", "newline", "reply"}
    /\ OneWriter
    /\ boot = "wait" =>
          /\ out = <<>>
          /\ requested => ~replied
          /\ console = "request" <=> requested \/ replied

\* The boot task prints text and ends with the prompt.
Output ==
    /\ out \in Seq(Characters \cup {"\n"})
    /\ \A k \in 1..Len(out) :
          Len(out) - k < Len(Prompt) => out[k] = Prompt[Len(Prompt) - (Len(out) - k)]

\* No rest of an earlier line stands before the index, and a line that is not edited has
\* its end there.
LineInBuffer ==
    /\ i \in Index /\ buf \in [Index -> Printable \cup {NUL}]
    /\ \A k \in 0..(i - 1) : buf[k] \in Printable
    /\ ~Editing => buf[i] = NUL

Glyph == Characters \cup {Digits(n) : n \in Nat}
Screens(G) == [cell : [Cells -> G], x : 0..(Width - 1), y : 0..(Rows - 1)]
TextOnScreen ==
    /\ screen \in Screens(Glyph)
    /\ \A k \in 0..(Width * Rows - 1) : screen.cell[k] \in Characters

ClockRuns ==
    /\ hours \in Nat /\ mins \in 0..(Base - 1) /\ seconds \in 0..(Base - 1)
    /\ elapsed = (hours * Base + mins) * Base + seconds

ConsoleInv ==
    /\ Handover /\ Output /\ LineInBuffer
    /\ TextOnScreen /\ LineStands
    /\ ClockRuns /\ StatusShowsTime

-----------------------------------------------------------------------------
(* The screen.                                                             *)

(* The cells in the order of the rows (monitor.c:80 * y + x).               *)
LEMMA Places ==
    /\ Width \in Nat \ {0} /\ Rows \in Nat \ {0}
    /\ Width * Rows \in Nat /\ Width * (Rows - 1) \in Nat
    /\ Width * Rows = Width * (Rows - 1) + Width
    /\ Width * (Rows + 1) = Width * Rows + Width
BY ScreenAssumption

(* Every cursor position is a cell above the status line.                  *)
LEMMA PlaceFacts ==
    ASSUME NEW x \in 0..(Width - 1), NEW y \in 0..(Rows - 1)
    PROVE  /\ At(x, y) \in 0..(Width * Rows - 1)
           /\ y < Rows - 1 => At(x, y) < Width * (Rows - 1)
           /\ y = Rows - 1 => At(x, y) = Width * (Rows - 1) + x
           /\ At(0, y + 1) = At(x, y) + Width - x
           /\ At(x, y) = 0 <=> x = 0 /\ y = 0
           /\ At(x, Rows) = Width * Rows + x
<1>1. PICK d \in Nat : d = Rows - 1 - y
  BY ScreenAssumption
<1>2. Width * d \in Nat /\ Width * d = Width * (Rows - 1) - Width * y
  BY <1>1, ScreenAssumption
<1>3. (d > 0 => Width * d >= Width) /\ (d = 0 => Width * d = 0)
  BY <1>1, ScreenAssumption
<1>4. Width * y \in Nat /\ Width * (y + 1) = Width * y + Width /\ (y > 0 => Width * y >= Width)
  BY ScreenAssumption
<1>5. Width \in Nat \ {0} /\ Rows \in Nat \ {0}
  BY ScreenAssumption
<1> DEFINE top == Width * y
           rest == Width * d
           all == Width * Rows
           upper == Width * (Rows - 1)
<1>6. all = upper + Width /\ all \in Nat /\ upper \in Nat
  BY Places
<1>7. top \in Nat /\ rest \in Nat /\ rest = upper - top
       /\ (d > 0 => rest >= Width) /\ (d = 0 => rest = 0)
  BY <1>2, <1>3, <1>4
<1>8. At(x, y) = x + top /\ At(0, y + 1) = top + Width /\ At(x, Rows) = all + x
  BY <1>4, ScreenAssumption DEF At
<1>9. y > 0 => top >= Width
  BY <1>4
<1>10. y = 0 => top = 0
  BY ScreenAssumption
<1> HIDE DEF top, rest, all, upper
<1>11. x \in Nat /\ y \in Nat /\ x < Width /\ y <= Rows - 1
  BY <1>5
<1>12. /\ x + top \in 0..(all - 1)
       /\ y < Rows - 1 => x + top < upper
       /\ y = Rows - 1 => x + top = upper + x
       /\ x + top = 0 <=> x = 0 /\ y = 0
  BY <1>1, <1>5, <1>6, <1>7, <1>9, <1>10, <1>11
<1>13. top + Width = x + top + Width - x
  BY <1>5, <1>7, <1>11
<1> QED BY <1>8, <1>12, <1>13 DEF all, upper

\* The cells after a scroll (monitor.c:44-56).
Shifted(cell) ==
    [j \in Cells |-> IF j < Width * (Rows - 1) THEN cell[j + Width]
                     ELSE IF j >= Width * Rows THEN cell[j] ELSE Blank]
Screen(cell, x, y) == [cell |-> cell, x |-> x, y |-> y]

(* Scrolling happens exactly below the last row of text.                   *)
LEMMA ScrollFacts ==
    ASSUME NEW cell, NEW x, NEW y \in Nat
    PROVE  scroll(Screen(cell, x, y)) =
              IF y < Rows THEN Screen(cell, x, y) ELSE Screen(Shifted(cell), x, Rows - 1)
<1>1. CASE y < Rows
  BY <1>1 DEF scroll, Screen
<1>2. CASE ~(y < Rows)
  <2>1. \A j \in Cells :
           (CASE j < Width * (Rows - 1) -> cell[j + Width]
              [] j >= Width * Rows -> cell[j]
              [] OTHER -> Blank)
           = Shifted(cell)[j]
    <3> TAKE j \in Cells
    <3>1. j \in Int
      BY Places DEF Cells
    <3>2. Shifted(cell)[j] = IF j < Width * (Rows - 1) THEN cell[j + Width]
                             ELSE IF j >= Width * Rows THEN cell[j] ELSE Blank
      BY DEF Shifted
    <3> DEFINE upper == Width * (Rows - 1)
               all == Width * Rows
    <3>3. upper \in Nat /\ all \in Nat /\ all >= upper
      BY Places
    <3> HIDE DEF upper, all
    <3>4. (CASE j < upper -> cell[j + Width] [] j >= all -> cell[j] [] OTHER -> Blank)
          = IF j < upper THEN cell[j + Width] ELSE IF j >= all THEN cell[j] ELSE Blank
      BY <3>1, <3>3
    <3> QED BY <3>2, <3>4 DEF upper, all
  <2>2. [j \in Cells |-> CASE j < Width * (Rows - 1) -> cell[j + Width]
                           [] j >= Width * Rows -> cell[j]
                           [] OTHER -> Blank] = Shifted(cell)
    BY <2>1 DEF Shifted
  <2>3. ASSUME NEW s, s = Screen(cell, x, y) PROVE scroll(s) = Screen(Shifted(cell), x, Rows - 1)
    <3>1. s.cell = cell /\ s.y = y
      BY <2>3 DEF Screen
    <3>2. scroll(s) = [s EXCEPT !.y = Rows - 1, !.cell = Shifted(cell)]
      BY <1>2, <2>2, <3>1 DEF scroll
    <3> QED BY <2>3, <3>2 DEF Screen
  <2> QED BY <1>2, <2>3
<1> QED BY <1>1, <1>2

(* A scroll keeps the type of the cells.                                   *)
LEMMA ShiftedType ==
    ASSUME NEW G, Blank \in G, NEW cell \in [Cells -> G]
    PROVE  Shifted(cell) \in [Cells -> G]
<1>1. ASSUME NEW j \in Cells, j < Width * (Rows - 1) PROVE j + Width \in Cells
  BY <1>1, Places DEF Cells
<1> QED BY <1>1 DEF Shifted

(* A screen is a record of its three fields.                               *)
LEMMA ScreenFields ==
    ASSUME NEW G, NEW s \in Screens(G)
    PROVE  /\ s = Screen(s.cell, s.x, s.y)
           /\ s.cell \in [Cells -> G] /\ s.x \in 0..(Width - 1) /\ s.y \in 0..(Rows - 1)
BY DEF Screens, Screen

(* The cursor is on the screen, above the status line.                      *)
LEMMA CursorOnScreen ==
    ASSUME NEW G, NEW s \in Screens(G)
    PROVE  /\ DOMAIN s.cell = Cells /\ Width * Rows \in Nat
           /\ Cursor(s) \in Nat /\ Cursor(s) \in 0..(Width * Rows - 1)
<1>1. s.x \in 0..(Width - 1) /\ s.y \in 0..(Rows - 1) /\ DOMAIN s.cell = Cells
  BY ScreenFields
<1>2. Cursor(s) \in 0..(Width * Rows - 1)
  BY <1>1, PlaceFacts DEF Cursor
<1> QED BY <1>1, <1>2, Places

(* A character goes to the cursor's place and the cursor to the next.       *)
LEMMA PutCharacter ==
    ASSUME NEW G, Blank \in G, NEW s \in Screens(G), NEW c \in G, c \notin Controls
    PROVE  LET t == monitor_put(s, c)
               stored == [s.cell EXCEPT ![Cursor(s)] = c]
           IN
           /\ t \in Screens(G)
           /\ \/ /\ Cursor(s) < Width * Rows - 1
                 /\ Cursor(t) = Cursor(s) + 1 /\ t.cell = stored
              \/ /\ Cursor(s) = Width * Rows - 1
                 /\ Cursor(t) = Width * (Rows - 1) /\ t.cell = Shifted(stored)
<1> DEFINE x == s.x
           y == s.y
           stored == [s.cell EXCEPT ![Cursor(s)] = c]
<1>1. s = Screen(s.cell, x, y) /\ s.cell \in [Cells -> G] /\ x \in 0..(Width - 1) /\ y \in 0..(Rows - 1)
  BY ScreenFields
<1>2. Width \in Nat \ {0} /\ Rows \in Nat \ {0}
  BY Places
<1>3. Moved(s, c) = Screen(stored, x + 1, y)
  <2>1. c # BS /\ c # "\t" /\ c # "\r" /\ c # "\n"
    BY DEF Controls
  <2>2. Moved(s, c) = [Store(s, c) EXCEPT !.x = @ + 1]
    BY <2>1 DEF Moved
  <2>3. Store(s, c) = Screen(stored, x, y)
    BY <1>1 DEF Store, Screen, Cursor
  <2> QED BY <2>2, <2>3 DEF Screen
<1>4. stored \in [Cells -> G] /\ Shifted(stored) \in [Cells -> G]
  BY <1>1, ShiftedType
<1>p. /\ Cursor(s) \in 0..(Width * Rows - 1)
      /\ y < Rows - 1 => Cursor(s) < Width * (Rows - 1)
      /\ y = Rows - 1 => Cursor(s) = Width * (Rows - 1) + x
      /\ At(0, y + 1) = Cursor(s) + Width - x
  BY <1>1, PlaceFacts DEF Cursor
<1>5. CASE x + 1 < Width
  <2>1. Wrapped(Screen(stored, x + 1, y)) = Screen(stored, x + 1, y)
    BY <1>5, <1>1, <1>2 DEF Wrapped, Screen
  <2>2. monitor_put(s, c) = Screen(stored, x + 1, y)
    BY <1>1, <1>2, <1>3, <2>1, ScrollFacts DEF monitor_put
  <2>3. Cursor(s) < Width * Rows - 1
    <3> DEFINE upper == Width * (Rows - 1)
               all == Width * Rows
    <3>1. /\ upper \in Nat /\ all = upper + Width /\ Cursor(s) \in 0..(all - 1)
          /\ y < Rows - 1 => Cursor(s) < upper
          /\ y = Rows - 1 => Cursor(s) = upper + x
      BY <1>p, Places
    <3> HIDE DEF upper, all
    <3>2. Cursor(s) < all - 1
      BY <3>1, <1>1, <1>2, <1>5
    <3> QED BY <3>2 DEF all
  <2>4. Cursor(Screen(stored, x + 1, y)) = Cursor(s) + 1
    BY <1>1, <1>2 DEF Cursor, At, Screen
  <2>5. Screen(stored, x + 1, y) \in Screens(G)
    BY <1>1, <1>2, <1>4, <1>5 DEF Screens, Screen
  <2>6. Screen(stored, x + 1, y).cell = stored
    BY DEF Screen
  <2> QED BY <2>2, <2>3, <2>4, <2>5, <2>6
<1>6. CASE x + 1 = Width
  <2>1. Wrapped(Screen(stored, x + 1, y)) = Screen(stored, 0, y + 1)
    <3>1. ASSUME NEW t, t = Screen(stored, x + 1, y) PROVE Wrapped(t) = Screen(stored, 0, y + 1)
      <4>1. t.x >= Width /\ t.y = y
        BY <3>1, <1>6, <1>1, <1>2 DEF Screen
      <4>2. Wrapped(t) = [t EXCEPT !.x = 0, !.y = @ + 1]
        BY <4>1 DEF Wrapped
      <4> QED BY <3>1, <4>2 DEF Screen
    <3> QED BY <3>1
  <2>2. monitor_put(s, c) = scroll(Screen(stored, 0, y + 1))
    BY <1>3, <2>1 DEF monitor_put
  <2>3. y + 1 \in 0..Rows
    BY <1>1, <1>2
  <2>4. scroll(Screen(stored, 0, y + 1)) = IF y + 1 < Rows THEN Screen(stored, 0, y + 1)
                                           ELSE Screen(Shifted(stored), 0, Rows - 1)
    BY <2>3, ScrollFacts
  <2>5. CASE y + 1 < Rows
    <3>1. Screen(stored, 0, y + 1) \in Screens(G) /\ Screen(stored, 0, y + 1).cell = stored
      BY <1>1, <1>2, <1>4, <2>5 DEF Screens, Screen
    <3>2. Cursor(Screen(stored, 0, y + 1)) = At(0, y + 1)
      BY DEF Cursor, Screen
    <3>3. Cursor(s) < Width * Rows - 1 /\ At(0, y + 1) = Cursor(s) + 1
      BY <1>p, <1>6, <2>5, <1>1, <1>2, Places
    <3> QED BY <2>2, <2>4, <2>5, <3>1, <3>2, <3>3
  <2>6. CASE ~(y + 1 < Rows)
    <3>1. /\ Screen(Shifted(stored), 0, Rows - 1) \in Screens(G)
          /\ Screen(Shifted(stored), 0, Rows - 1).cell = Shifted(stored)
      BY <1>1, <1>2, <1>4 DEF Screens, Screen
    <3>2. Cursor(Screen(Shifted(stored), 0, Rows - 1)) = Width * (Rows - 1)
      BY Places DEF Cursor, Screen, At
    <3>3. Cursor(s) = Width * Rows - 1
      BY <1>p, <1>6, <2>6, <1>1, <1>2, Places
    <3> QED BY <2>2, <2>4, <2>6, <3>1, <3>2, <3>3
  <2> QED BY <2>5, <2>6
<1> QED BY <1>1, <1>2, <1>5, <1>6

(* Backspace takes back the character before the cursor, in the row above   *)
(* if need be.                                                              *)
LEMMA PutBackspace ==
    ASSUME NEW G, Blank \in G, NEW s \in Screens(G), Cursor(s) > 0
    PROVE  LET t == monitor_put(s, BS) IN
           /\ t \in Screens(G)
           /\ Cursor(t) = Cursor(s) - 1 /\ t.cell = [s.cell EXCEPT ![Cursor(s) - 1] = Blank]
<1> DEFINE x == s.x
           y == s.y
           u == IF x = 0 THEN Width - 1 ELSE x - 1
           v == IF x = 0 THEN y - 1 ELSE y
           stored == [s.cell EXCEPT ![Cursor(s) - 1] = Blank]
<1>1. s = Screen(s.cell, x, y) /\ s.cell \in [Cells -> G] /\ x \in 0..(Width - 1) /\ y \in 0..(Rows - 1)
  BY ScreenFields
<1>2. Width \in Nat \ {0} /\ Rows \in Nat \ {0}
  BY Places
<1>3. x = 0 => y > 0
  BY <1>1, PlaceFacts DEF Cursor
<1>4. u \in 0..(Width - 1) /\ v \in 0..(Rows - 1)
  BY <1>1, <1>2, <1>3
<1>5. At(u, v) = Cursor(s) - 1
  <2>1. CASE x = 0
    <3>1. At(0, v + 1) = At(u, v) + Width - u
      BY <1>4, PlaceFacts
    <3>2. v + 1 = y /\ u = Width - 1 /\ At(u, v) \in Int
      BY <2>1, <1>1, <1>2, <1>4, PlaceFacts, Places
    <3> QED BY <3>1, <3>2, <2>1, <1>2 DEF Cursor
  <2>2. CASE x # 0
    BY <2>2, <1>1, <1>2 DEF At, Cursor
  <2> QED BY <2>1, <2>2
<1>6. Back(s) = Screen(s.cell, u, v)
  <2>1. CASE x = 0
    <3>1. Back(s) = [s EXCEPT !.x = Width - 1, !.y = @ - 1]
      BY <2>1, <1>3 DEF Back
    <3> QED BY <3>1, <2>1, <1>1 DEF Screen
  <2>2. CASE x # 0
    <3>1. Back(s) = [s EXCEPT !.x = IF @ > 0 THEN @ - 1 ELSE @]
      BY <2>2, <1>1, <1>2 DEF Back
    <3>2. x > 0
      BY <2>2, <1>1, <1>2
    <3> QED BY <3>1, <3>2, <1>1 DEF Screen
  <2> QED BY <2>1, <2>2
<1> HIDE DEF u, v
<1>7. Store(Screen(s.cell, u, v), Blank) = Screen(stored, u, v)
  BY <1>5 DEF Store, Screen
<1>8. Moved(s, BS) = Screen(stored, u, v)
  BY <1>6, <1>7 DEF Moved, BS
<1>9. Wrapped(Screen(stored, u, v)) = Screen(stored, u, v)
  BY <1>2, <1>4 DEF Wrapped, Screen
<1>10. monitor_put(s, BS) = Screen(stored, u, v)
  BY <1>2, <1>4, <1>8, <1>9, ScrollFacts DEF monitor_put
<1>11. stored \in [Cells -> G]
  BY <1>1
<1>12. Screen(stored, u, v) \in Screens(G) /\ Screen(stored, u, v).cell = stored
  BY <1>4, <1>11 DEF Screens, Screen
<1>13. Cursor(Screen(stored, u, v)) = Cursor(s) - 1
  BY <1>5 DEF Cursor, Screen
<1> QED BY <1>10, <1>12, <1>13

(* A new line changes what is written only by scrolling.                    *)
LEMMA PutNewLine ==
    ASSUME NEW G, Blank \in G, NEW s \in Screens(G)
    PROVE  LET t == monitor_put(s, "\n") IN
           /\ t \in Screens(G)
           /\ t.cell = s.cell \/ t.cell = Shifted(s.cell)
<1>1. /\ s = Screen(s.cell, s.x, s.y) /\ s.cell \in [Cells -> G]
      /\ s.x \in 0..(Width - 1) /\ s.y \in 0..(Rows - 1)
  BY ScreenFields
<1>2. Width \in Nat \ {0} /\ Rows \in Nat \ {0}
  BY Places
<1>3. Moved(s, "\n") = Screen(s.cell, 0, s.y + 1)
  BY <1>1 DEF Moved, Screen, BS
<1>4. Wrapped(Screen(s.cell, 0, s.y + 1)) = Screen(s.cell, 0, s.y + 1)
  BY <1>2 DEF Wrapped, Screen
<1>5. s.y + 1 \in 0..Rows
  BY <1>1, <1>2
<1>6. monitor_put(s, "\n") = IF s.y + 1 < Rows THEN Screen(s.cell, 0, s.y + 1)
                             ELSE Screen(Shifted(s.cell), 0, Rows - 1)
  BY <1>3, <1>4, <1>5, ScrollFacts DEF monitor_put
<1>7. ASSUME NEW y \in 0..(Rows - 1), NEW cell \in [Cells -> G]
      PROVE  Screen(cell, 0, y) \in Screens(G) /\ Screen(cell, 0, y).cell = cell
  BY <1>2 DEF Screens, Screen
<1>8. CASE s.y + 1 < Rows
  <2>1. s.y + 1 \in 0..(Rows - 1)
    BY <1>8, <1>1, <1>2
  <2> QED BY <2>1, <1>8, <1>1, <1>6, <1>7
<1>9. CASE ~(s.y + 1 < Rows)
  <2>1. Rows - 1 \in 0..(Rows - 1) /\ Shifted(s.cell) \in [Cells -> G]
    BY <1>1, <1>2, ShiftedType
  <2> QED BY <2>1, <1>9, <1>6, <1>7
<1> QED BY <1>8, <1>9

\* From s to t the text rows still hold members of T, and the status line what it held.
Keeps(s, t, T) ==
    /\ \A k \in 0..(Width * Rows - 1) : t.cell[k] \in T
    /\ \A k \in Cells : k >= Width * Rows => t.cell[k] = s.cell[k]

(* A character in a text row keeps the status line.                        *)
LEMMA StoreKeeps ==
    ASSUME NEW G, NEW T, NEW s \in Screens(G), NEW p \in 0..(Width * Rows - 1), NEW c \in T,
           NEW t, t.cell = [s.cell EXCEPT ![p] = c],
           \A k \in 0..(Width * Rows - 1) : s.cell[k] \in T
    PROVE  Keeps(s, t, T)
<1>1. DOMAIN s.cell = Cells
  BY ScreenFields
<1>2. \A k \in Cells : t.cell[k] = IF k = p THEN c ELSE s.cell[k]
  BY <1>1
<1> DEFINE all == Width * Rows
<1>3. all \in Nat /\ 0..(all - 1) \subseteq Cells /\ Cells \subseteq Nat
  BY Places DEF Cells
<1>4. \A k \in Cells : k >= all => k # p
  BY <1>3
<1> QED BY <1>2, <1>3, <1>4 DEF Keeps

(* And so does a scroll.                                                   *)
LEMMA ShiftKeeps ==
    ASSUME NEW G, NEW T, Blank \in T, NEW s \in Screens(G), NEW u, Keeps(s, u, T),
           NEW t, t.cell = Shifted(u.cell)
    PROVE  Keeps(s, t, T)
<1> DEFINE all == Width * Rows
           upper == Width * (Rows - 1)
<1>1. all \in Nat /\ upper \in Nat /\ all = upper + Width /\ Width \in Nat \ {0}
  BY Places
<1>2. 0..(all - 1) \subseteq Cells /\ Cells \subseteq Nat
  BY Places DEF Cells
<1>3. \A k \in Cells : t.cell[k] = IF k < upper THEN u.cell[k + Width]
                                   ELSE IF k >= all THEN u.cell[k] ELSE Blank
  BY DEF Shifted
<1>4. \A k \in 0..(all - 1) : u.cell[k] \in T
  BY DEF Keeps
<1>5. \A k \in Cells : k >= all => u.cell[k] = s.cell[k]
  BY DEF Keeps
<1> HIDE DEF all, upper
<1>6. \A k \in 0..(all - 1) : t.cell[k] \in T
  <2> TAKE k \in 0..(all - 1)
  <2>1. CASE k < upper
    <3>1. k + Width \in 0..(all - 1)
      BY <2>1, <1>1
    <3> QED BY <2>1, <3>1, <1>2, <1>3, <1>4
  <2>2. CASE ~(k < upper)
    <3>1. ~(k >= all)
      BY <1>1
    <3> QED BY <2>2, <3>1, <1>2, <1>3
  <2> QED BY <2>1, <2>2
<1>7. \A k \in Cells : k >= all => t.cell[k] = s.cell[k]
  <2> TAKE k \in Cells
  <2> HAVE k >= all
  <2>1. ~(k < upper)
    BY <1>1, <1>2
  <2> QED BY <2>1, <1>3, <1>5
<1> QED BY <1>6, <1>7 DEF Keeps, all

(* What is printed keeps the status line and leaves only text above it.     *)
LEMMA PutKeeps ==
    ASSUME NEW G, NEW T \in SUBSET G, Blank \in T, NEW s \in Screens(G),
           \A k \in 0..(Width * Rows - 1) : s.cell[k] \in T,
           NEW c, (c \in T /\ c \notin Controls) \/ c = "\n" \/ (c = BS /\ Cursor(s) > 0)
    PROVE  monitor_put(s, c) \in Screens(G) /\ Keeps(s, monitor_put(s, c), T)
<1> DEFINE t == monitor_put(s, c)
           p == Cursor(s)
<1>1. Blank \in G /\ p \in 0..(Width * Rows - 1)
  BY ScreenFields, PlaceFacts DEF Cursor
<1>2. CASE c \in T /\ c \notin Controls
  <2> DEFINE u == [cell |-> [s.cell EXCEPT ![p] = c]]
  <2>1. u.cell = [s.cell EXCEPT ![p] = c]
    OBVIOUS
  <2> HIDE DEF u
  <2>2. Keeps(s, u, T)
    BY <1>1, <1>2, <2>1, StoreKeeps
  <2>3. t \in Screens(G) /\ (t.cell = u.cell \/ t.cell = Shifted(u.cell))
    BY <1>1, <1>2, <2>1, PutCharacter
  <2> HIDE DEF t
  <2>4. t.cell = u.cell => Keeps(s, t, T)
    BY <2>2 DEF Keeps
  <2>5. t.cell = Shifted(u.cell) => Keeps(s, t, T)
    BY <2>2, ShiftKeeps
  <2> QED BY <2>3, <2>4, <2>5 DEF t
<1>3. CASE c = "\n"
  <2>1. t \in Screens(G) /\ (t.cell = s.cell \/ t.cell = Shifted(s.cell))
    BY <1>1, <1>3, PutNewLine
  <2>2. Keeps(s, s, T)
    BY DEF Keeps
  <2> HIDE DEF t
  <2>3. t.cell = s.cell => Keeps(s, t, T)
    BY DEF Keeps
  <2>4. t.cell = Shifted(s.cell) => Keeps(s, t, T)
    BY <2>2, ShiftKeeps
  <2> QED BY <2>1, <2>3, <2>4 DEF t
<1>4. CASE c = BS /\ p > 0
  <2>1. t \in Screens(G) /\ t.cell = [s.cell EXCEPT ![p - 1] = Blank]
    BY <1>1, <1>4, PutBackspace
  <2>2. p - 1 \in 0..(Width * Rows - 1)
    BY <1>1, <1>4, Places
  <2> HIDE DEF t, p
  <2>3. Keeps(s, t, T)
    BY <2>1, <2>2, StoreKeeps
  <2> QED BY <2>1, <2>3 DEF t
<1> QED BY <1>2, <1>3, <1>4

(* A character comes to stand after the text before the cursor, and the     *)
(* text moves with the cursor when the screen scrolls.                      *)
LEMMA StandsAfterCharacter ==
    ASSUME NEW G, Blank \in G, NEW s \in Screens(G), NEW c \in G, c \notin Controls,
           NEW n \in Nat, NEW text, NEW longer, Stands(s, n, text),
           \A k \in 1..n : longer[k] = text[k], longer[n + 1] = c,
           n + 1 <= Width * (Rows - 1)
    PROVE  Stands(monitor_put(s, c), n + 1, longer)
<1> DEFINE t == monitor_put(s, c)
           p == Cursor(s)
           stored == [s.cell EXCEPT ![p] = c]
           all == Width * Rows
           upper == Width * (Rows - 1)
<1>1. all \in Nat /\ upper \in Nat /\ all = upper + Width /\ Width \in Nat \ {0}
  BY Places
<1>2. 0..(all - 1) \subseteq Cells /\ Cells \subseteq Nat
  BY Places DEF Cells
<1>3. p \in 0..(all - 1) /\ DOMAIN s.cell = Cells
  BY ScreenFields, PlaceFacts DEF Cursor
<1>4. p >= n /\ \A k \in 1..n : s.cell[p - n + k - 1] = text[k]
  BY DEF Stands
<1>5. \/ p < all - 1 /\ Cursor(t) = p + 1 /\ t.cell = stored
      \/ p = all - 1 /\ Cursor(t) = upper /\ t.cell = Shifted(stored)
  BY PutCharacter
<1>6. \A j \in Cells : stored[j] = IF j = p THEN c ELSE s.cell[j]
  BY <1>3
<1>7. \A j \in Cells : j < upper => Shifted(stored)[j] = stored[j + Width]
  BY DEF Shifted
<1>8. n + 1 <= upper
  OBVIOUS
<1> HIDE DEF t, p, stored, all, upper
<1>9. ASSUME NEW k \in 1..(n + 1)
      PROVE  p - n + k - 1 \in 0..(all - 1) /\ stored[p - n + k - 1] = longer[k]
  <2>1. CASE k = n + 1
    <3>1. p - n + k - 1 = p
      BY <2>1, <1>3
    <3>2. stored[p] = c
      BY <1>2, <1>3, <1>6
    <3> QED BY <2>1, <3>1, <3>2, <1>3
  <2>2. CASE k \in 1..n
    <3> DEFINE j == p - n + k - 1
    <3>1. j \in 0..(all - 1) /\ j # p
      BY <2>2, <1>1, <1>3, <1>4
    <3>2. s.cell[j] = text[k]
      BY <2>2, <1>4
    <3> HIDE DEF j
    <3>3. stored[j] = s.cell[j]
      BY <3>1, <1>2, <1>6
    <3> QED BY <2>2, <3>1, <3>2, <3>3 DEF j
  <2> QED BY <2>1, <2>2
<1>10. CASE p < all - 1 /\ Cursor(t) = p + 1 /\ t.cell = stored
  <2>1. ASSUME NEW k \in 1..(n + 1) PROVE t.cell[Cursor(t) - (n + 1) + k - 1] = longer[k]
    <3>1. Cursor(t) - (n + 1) + k - 1 = p - n + k - 1
      BY <1>10, <1>3
    <3> QED BY <3>1, <1>9, <1>10
  <2>2. Cursor(t) >= n + 1
    BY <1>3, <1>4, <1>10
  <2> QED BY <2>1, <2>2 DEF Stands, t
<1>11. CASE p = all - 1 /\ Cursor(t) = upper /\ t.cell = Shifted(stored)
  <2>1. ASSUME NEW k \in 1..(n + 1) PROVE t.cell[Cursor(t) - (n + 1) + k - 1] = longer[k]
    <3> DEFINE j == upper - (n + 1) + k - 1
    <3>1. j \in 0..(all - 1) /\ j < upper /\ j + Width = p - n + k - 1
      BY <1>1, <1>8, <1>11
    <3>2. Cursor(t) - (n + 1) + k - 1 = j
      BY <1>11
    <3> HIDE DEF j
    <3>3. t.cell[j] = stored[j + Width]
      BY <3>1, <1>2, <1>7, <1>11
    <3> QED BY <3>1, <3>2, <3>3, <1>9
  <2>2. Cursor(t) >= n + 1
    BY <1>8, <1>11
  <2> QED BY <2>1, <2>2 DEF Stands, t
<1> QED BY <1>5, <1>10, <1>11

(* A backspace leaves the text less its last character.                     *)
LEMMA StandsAfterBackspace ==
    ASSUME NEW G, Blank \in G, NEW s \in Screens(G), NEW n \in Nat \ {0}, NEW text, Stands(s, n, text)
    PROVE  Cursor(s) > 0 /\ Stands(monitor_put(s, BS), n - 1, text)
<1> DEFINE t == monitor_put(s, BS)
           p == Cursor(s)
<1>1. p \in Nat /\ DOMAIN s.cell = Cells
  BY CursorOnScreen
<1>2. p >= n /\ \A k \in 1..n : s.cell[p - n + k - 1] = text[k]
  BY DEF Stands
<1>3. p > 0
  BY <1>1, <1>2
<1>4. Cursor(t) = p - 1 /\ t.cell = [s.cell EXCEPT ![p - 1] = Blank]
  BY <1>3, PutBackspace
<1> HIDE DEF t, p
<1>5. ASSUME NEW k \in 1..(n - 1) PROVE t.cell[Cursor(t) - (n - 1) + k - 1] = text[k]
  <2>1. Cursor(t) - (n - 1) + k - 1 = p - n + k - 1 /\ k \in 1..n
    BY <1>1, <1>4
  <2>2. p - n + k - 1 # p - 1
    BY <1>1
  <2>3. t.cell[p - n + k - 1] = s.cell[p - n + k - 1]
    BY <2>2, <1>4
  <2> QED BY <2>1, <2>3, <1>2
<1>6. Cursor(t) >= n - 1
  BY <1>1, <1>2, <1>4
<1> QED BY <1>3, <1>5, <1>6 DEF Stands, t, p

\* t is s with the n characters of text in the status line from column x on.
StatusWritten(G, s, t, x, text, n) ==
    /\ t \in Screens(G) /\ Cursor(t) = Cursor(s)
    /\ \A k \in 0..(Width * Rows - 1) : t.cell[k] = s.cell[k]
    /\ \A z \in 0..(Width - 1) :
          t.cell[At(z, Rows)] = IF z - x \in 0..(n - 1) THEN text[z - x + 1]
                                ELSE s.cell[At(z, Rows)]

(* Text at a place of the status line changes neither the rows above nor    *)
(* the cursor.                                                              *)
LEMMA WriteStatus ==
    ASSUME NEW G, NEW s \in Screens(G), NEW x \in Nat, NEW text, NEW n \in Nat, Len(text) = n,
           x + n <= Width, \A k \in 1..n : text[k] \in G
    PROVE  StatusWritten(G, s, monitor_writexy(s, x, Rows, text), x, text, n)
<1> DEFINE all == Width * Rows
           cell == [j \in Cells |-> IF j - At(x, Rows) \in 0..(n - 1)
                                    THEN text[j - At(x, Rows) + 1] ELSE s.cell[j]]
<1>1. /\ s = Screen(s.cell, s.x, s.y) /\ s.cell \in [Cells -> G]
      /\ s.x \in 0..(Width - 1) /\ s.y \in 0..(Rows - 1)
  BY ScreenFields
<1>2. monitor_writexy(s, x, Rows, text) = Screen(cell, s.x, s.y)
  <2>1. monitor_writexy(s, x, Rows, text) = [s EXCEPT !.cell = cell]
    BY DEF monitor_writexy
  <2> HIDE DEF cell
  <2> QED BY <1>1, <2>1 DEF Screen
<1>3. all \in Nat /\ Width \in Nat \ {0} /\ Cells \subseteq Int /\ 0..(all - 1) \subseteq Cells
  BY Places DEF Cells
<1>4. \A z \in 0..(Width - 1) : At(z, Rows) = all + z /\ At(z, Rows) \in Cells
  BY Places DEF At, Cells
<1>5. At(x, Rows) = all + x
  BY Places DEF At
<1>6. \A j \in Cells : cell[j] = IF j - (all + x) \in 0..(n - 1) THEN text[j - (all + x) + 1]
                                 ELSE s.cell[j]
  BY <1>5
<1> HIDE DEF all
<1>7. cell \in [Cells -> G]
  <2>1. ASSUME NEW j \in Cells PROVE cell[j] \in G
    <3>1. CASE j - (all + x) \in 0..(n - 1)
      <4>1. j - (all + x) + 1 \in 1..n
        BY <3>1, <1>3
      <4> QED BY <3>1, <4>1, <1>6
    <3>2. CASE j - (all + x) \notin 0..(n - 1)
      BY <3>2, <1>1, <1>6
    <3> QED BY <3>1, <3>2
  <2> QED BY <2>1
<1> HIDE DEF cell
<1>8. Screen(cell, s.x, s.y) \in Screens(G) /\ Cursor(Screen(cell, s.x, s.y)) = Cursor(s)
  BY <1>1, <1>7 DEF Screens, Screen, Cursor
<1>9. ASSUME NEW k \in 0..(all - 1) PROVE cell[k] = s.cell[k]
  <2>1. k \in Cells /\ k - (all + x) \notin 0..(n - 1)
    BY <1>3
  <2> QED BY <2>1, <1>6
<1>10. ASSUME NEW z \in 0..(Width - 1)
       PROVE  cell[all + z] = IF z - x \in 0..(n - 1) THEN text[z - x + 1] ELSE s.cell[all + z]
  <2>1. all + z \in Cells /\ (all + z) - (all + x) = z - x
    <3>1. all \in Nat /\ all + z \in Cells
      BY <1>3, <1>4
    <3> QED BY <3>1
  <2> QED BY <2>1, <1>6
<1>11. Screen(cell, s.x, s.y).cell = cell
  BY DEF Screen
<1> QED BY <1>2, <1>4, <1>8, <1>9, <1>10, <1>11 DEF all, StatusWritten

(* What stands before the cursor stands there after a write to the status  *)
(* line.                                                                   *)
LEMMA StandsAfterWrite ==
    ASSUME NEW G, NEW s \in Screens(G), NEW t, NEW n \in Nat, NEW text, Stands(s, n, text),
           Cursor(t) = Cursor(s), \A k \in 0..(Width * Rows - 1) : t.cell[k] = s.cell[k]
    PROVE  Stands(t, n, text)
<1> DEFINE all == Width * Rows
           p == Cursor(s)
<1>1. p \in 0..(all - 1) /\ all \in Nat
  BY CursorOnScreen
<1>2. p >= n /\ \A k \in 1..n : s.cell[p - n + k - 1] = text[k]
  BY DEF Stands
<1> HIDE DEF all, p
<1>3. \A k \in 1..n : p - n + k - 1 \in 0..(all - 1)
  BY <1>1, <1>2
<1> QED BY <1>2, <1>3 DEF Stands, all, p

-----------------------------------------------------------------------------
(* The parts of the invariant, each kept by every step.                     *)

(* The request moves from the boot task over the queues to the console and *)
(* back.                                                                   *)
LEMMA HandoverStep ==
    ASSUME Handover, [Next]_vars
    PROVE  Handover'
<1> USE DEF Handover, OneWriter
<1>1. CASE BootPrint
  BY <1>1 DEF BootPrint
<1>2. CASE BootAsk
  BY <1>2 DEF BootAsk
<1>3. CASE BootAnswered
  BY <1>3 DEF BootAnswered
<1>4. CASE ConsoleRequest
  BY <1>4 DEF ConsoleRequest, Then
<1>5. CASE Key_Backspace
  BY <1>5 DEF Key_Backspace
<1>6. CASE Key_Enter
  BY <1>6 DEF Key_Enter, Then
<1>7. CASE \E c \in Printable : Key_Printable(c)
  BY <1>7 DEF Key_Printable
<1>8. CASE NewLine
  BY <1>8 DEF NewLine, Then
<1>9. CASE Reply
  BY <1>9 DEF Reply, Then
<1>10. CASE Clock
  BY <1>10 DEF Clock
<1>11. CASE UNCHANGED vars
  BY <1>11 DEF vars
<1> QED BY <1>1, <1>2, <1>3, <1>4, <1>5, <1>6, <1>7, <1>8, <1>9, <1>10, <1>11 DEF Next

(* strlen() of a line that has its end at n and none before.               *)
LEMMA LengthOfLine ==
    ASSUME NEW b, NEW n \in Index, b[n] = NUL, \A k \in 0..(n - 1) : b[k] # NUL
    PROVE  strlen(b) = n
<1> DEFINE P(m) == (m < io_sz => b[m] = NUL) /\ \A k \in Index : k < m => b[k] # NUL
<1>1. io_sz \in Nat \ {0} /\ Index \subseteq 0..io_sz /\ Index \subseteq Nat
  BY ConsoleAssumption DEF Index
<1>2. n \in 0..io_sz /\ P(n)
  BY <1>1
<1>3. ASSUME NEW m \in 0..io_sz, P(m) PROVE m = n
  <2>1. ~(n < m)
    BY <1>3
  <2>2. ~(m < n)
    <3>1. m < n => m \in 0..(n - 1) /\ m < io_sz
      BY <1>1 DEF Index
    <3> QED BY <3>1, <1>3
  <2> QED BY <2>1, <2>2, <1>1
<1>4. strlen(b) = CHOOSE m \in 0..io_sz : P(m)
  BY DEF strlen
<1> HIDE DEF P
<1> QED BY <1>2, <1>3, <1>4

(* No key has the end of a line as its character.                          *)
LEMMA NULFact == NUL \notin Printable
BY ConsoleAssumption DEF Controls

(* Once a read has ended, its index is the length of the line.             *)
LEMMA BufferLength ==
    ASSUME LineInBuffer, ~Editing
    PROVE  strlen(buf) = i
BY NULFact, LengthOfLine DEF LineInBuffer

(* Keys change the line only at its end.                                   *)
LEMMA LineStep ==
    ASSUME LineInBuffer, [Next]_vars
    PROVE  LineInBuffer'
<1>1. /\ i \in Index /\ buf \in [Index -> Printable \cup {NUL}]
      /\ \A k \in 0..(i - 1) : buf[k] \in Printable
      /\ ~Editing => buf[i] = NUL
  BY DEF LineInBuffer
<1>2. io_sz \in Nat \ {0} /\ Index = 0..(io_sz - 1)
  BY ConsoleAssumption DEF Index
<1>3. CASE UNCHANGED <<console, buf, i>>
  BY <1>1, <1>3 DEF LineInBuffer, Editing
<1>4. CASE ConsoleRequest
  <2>1. i' = 0 /\ buf' = [k \in Index |-> NUL]
    BY <1>4 DEF ConsoleRequest
  <2> QED BY <1>2, <2>1 DEF LineInBuffer
<1>5. CASE Key_Backspace
  <2>1. i > 0 /\ buf' = [buf EXCEPT ![i] = NUL] /\ i' = i - 1 /\ console = "edit" /\ console' = "edit"
    BY <1>5 DEF Key_Backspace, CanErase
  <2>2. i' \in Index /\ buf' \in [Index -> Printable \cup {NUL}]
    BY <1>1, <1>2, <2>1
  <2>3. \A k \in 0..(i' - 1) : buf'[k] \in Printable
    BY <1>1, <1>2, <2>1
  <2> QED BY <2>1, <2>2, <2>3 DEF LineInBuffer, Editing
<1>6. CASE Key_Enter
  <2>1. console' = "newline" /\ UNCHANGED <<buf, i>>
    BY <1>6 DEF Key_Enter, Then
  <2> QED BY <1>1, <2>1 DEF LineInBuffer, Editing
<1>7. CASE \E c \in Printable : Key_Printable(c)
  <2>1. PICK c \in Printable : Key_Printable(c)
    BY <1>7
  <2>2. i # io_sz - 1 /\ buf' = [buf EXCEPT ![i] = c] /\ i' = i + 1 /\ console' = "edit"
    BY <2>1 DEF Key_Printable, IsFull
  <2>3. i' \in Index /\ buf' \in [Index -> Printable \cup {NUL}]
    BY <1>1, <1>2, <2>2
  <2>4. \A k \in 0..(i' - 1) : buf'[k] \in Printable
    BY <1>1, <1>2, <2>2
  <2> QED BY <2>2, <2>3, <2>4 DEF LineInBuffer, Editing
<1>8. CASE NewLine
  <2>1. buf' = [buf EXCEPT ![i] = NUL] /\ i' = i
    BY <1>8 DEF NewLine, Terminated
  <2>2. buf' \in [Index -> Printable \cup {NUL}] /\ buf'[i] = NUL
    BY <1>1, <2>1
  <2>3. \A k \in 0..(i - 1) : buf'[k] \in Printable
    BY <1>1, <1>2, <2>1
  <2> QED BY <1>1, <2>1, <2>2, <2>3 DEF LineInBuffer
<1>9. CASE Reply
  <2>1. console = "reply" /\ UNCHANGED <<buf, i>>
    BY <1>9 DEF Reply
  <2> QED BY <1>1, <2>1 DEF LineInBuffer, Editing
<1>10. CASE BootPrint \/ BootAsk \/ BootAnswered \/ Clock \/ UNCHANGED vars
  BY <1>3, <1>10 DEF BootPrint, BootAsk, BootAnswered, Clock, vars
<1> QED BY <1>4, <1>5, <1>6, <1>7, <1>8, <1>9, <1>10 DEF Next

(* Prompt and answer consist of plain characters.                          *)
LEMMA Texts ==
    /\ Prompt \in Seq(Characters) /\ Unknown \in Seq(Characters) /\ Printable \subseteq Characters
    /\ Blank \in Characters /\ Characters \cap Controls = {}
<1>1. Prompt \in Seq(Characters)
  <2>1. Prompt \in Seq(STRING) /\ \A k \in DOMAIN Prompt : Prompt[k] \in Range(Prompt)
    BY ConsoleAssumption DEF Range
  <2> QED BY <2>1 DEF Characters
<1>2. Unknown \in Seq(Characters)
  <2>1. Unknown \in Seq(STRING) /\ \A k \in DOMAIN Unknown : Unknown[k] \in Range(Unknown)
    BY ConsoleAssumption DEF Range
  <2> QED BY <2>1 DEF Characters
<1>3. Characters \cap Controls = {}
  <2>1. (Printable \cup Range(Prompt) \cup Range(Unknown)) \cap Controls = {}
    BY ConsoleAssumption
  <2>2. Blank \notin Controls /\ "boot" \notin Controls
    BY DEF Controls, Blank, BS, NUL
  <2> QED BY <2>1, <2>2 DEF Characters
<1> QED BY <1>1, <1>2, <1>3 DEF Characters

(* Printing takes the first character, and an answer ends with the prompt. *)
LEMMA OutputStep ==
    ASSUME Output, Handover, LineInBuffer, [Next]_vars
    PROVE  Output'
<1> DEFINE C == Characters \cup {"\n"}
<1>1. out \in Seq(C) /\ Prompt \in Seq(C) /\ Unknown \in Seq(C) /\ Printable \subseteq C
  <2>1. C = Characters \cup {"\n"}
    OBVIOUS
  <2> QED BY <2>1, Texts DEF Output
<1>2. \A k \in 1..Len(out) :
         Len(out) - k < Len(Prompt) => out[k] = Prompt[Len(Prompt) - (Len(out) - k)]
  BY DEF Output
<1>u. C' = C
  BY DEF Characters
<1>3. CASE UNCHANGED out
  BY <1>1, <1>2, <1>3, <1>u DEF Output
<1>4. CASE BootPrint
  <2>1. out # <<>> /\ out' = Tail(out)
    BY <1>4 DEF BootPrint
  <2> HIDE DEF C
  <2>2. out' \in Seq(C) /\ Len(out') = Len(out) - 1 /\ \A k \in 1..Len(out') : out'[k] = out[k + 1]
    BY <1>1, <2>1
  <2>3. Len(out) \in Nat /\ Len(Prompt) \in Nat
    BY <1>1
  <2>4. ASSUME NEW k \in 1..Len(out'), Len(out') - k < Len(Prompt)
        PROVE  out'[k] = Prompt[Len(Prompt) - (Len(out') - k)]
    <3>1. /\ k + 1 \in 1..Len(out) /\ Len(out) - (k + 1) = Len(out') - k
          /\ Len(out) - (k + 1) < Len(Prompt)
      BY <2>2, <2>3, <2>4
    <3> QED BY <3>1, <1>2, <2>2
  <2> QED BY <2>2, <2>4, <1>u DEF Output, C
<1>5. CASE BootAnswered
  <2> DEFINE answer == IF strlen(buf) # 0 THEN Unknown \o Text(buf, strlen(buf)) \o <<"\n">> ELSE <<>>
  <2>1. out' = answer \o Prompt
    BY <1>5 DEF BootAnswered
  <2>2. answer \in Seq(C)
    <3>1. ~Editing
      BY <1>5 DEF BootAnswered, Handover, Editing
    <3>2. strlen(buf) = i /\ i \in Nat
      BY <3>1, BufferLength, ConsoleAssumption DEF LineInBuffer, Index
    <3>3. Text(buf, i) \in Seq(C)
      <4>1. \A k \in 1..i : k - 1 \in 0..(i - 1)
        BY <3>2
      <4>2. \A k \in 1..i : buf[k - 1] \in C
        BY <4>1, <1>1 DEF LineInBuffer
      <4> HIDE DEF C
      <4> QED BY <3>2, <4>2 DEF Text
    <3>4. <<"\n">> \in Seq(C)
      OBVIOUS
    <3> HIDE DEF C
    <3> QED BY <3>2, <3>3, <3>4, <1>1
  <2> HIDE DEF answer, C
  <2>3. /\ out' \in Seq(C) /\ Len(out') = Len(answer) + Len(Prompt)
        /\ \A k \in 1..Len(out') : k > Len(answer) => out'[k] = Prompt[k - Len(answer)]
    BY <1>1, <2>1, <2>2
  <2>4. Len(answer) \in Nat /\ Len(Prompt) \in Nat
    BY <1>1, <2>2
  <2>5. ASSUME NEW k \in 1..Len(out'), Len(out') - k < Len(Prompt)
        PROVE  out'[k] = Prompt[Len(Prompt) - (Len(out') - k)]
    <3>1. k > Len(answer) /\ k - Len(answer) = Len(Prompt) - (Len(out') - k)
      BY <2>3, <2>4, <2>5
    <3> QED BY <3>1, <2>3
  <2> QED BY <2>3, <2>5, <1>u DEF Output, C
<1>6. CASE BootAsk \/ Clock \/ UNCHANGED vars
  BY <1>3, <1>6 DEF BootAsk, Clock, vars
<1>7. CASE ConsoleRequest \/ Key_Backspace \/ Key_Enter \/ NewLine \/ Reply
           \/ \E c \in Printable : Key_Printable(c)
  BY <1>3, <1>7 DEF ConsoleRequest, Key_Backspace, Key_Enter, NewLine, Reply, Key_Printable
<1> QED BY <1>4, <1>5, <1>6, <1>7 DEF Next

(* The empty text stands anywhere.                                         *)
LEMMA NothingStands ==
    ASSUME NEW G, NEW s \in Screens(G), NEW text
    PROVE  Stands(s, 0, text)
<1>1. Cursor(s) >= 0
  BY CursorOnScreen
<1> QED BY <1>1 DEF Stands

(* Texts that agree on what stands are as good as each other.              *)
LEMMA SameStands ==
    ASSUME NEW s, NEW n \in Nat, NEW text, NEW other, Stands(s, n, text),
           \A k \in 1..n : other[k] = text[k]
    PROVE  Stands(s, n, other)
BY DEF Stands

(* Text and numbers are what cells hold.                                   *)
LEMMA GlyphFacts ==
    /\ Characters \in SUBSET Glyph /\ Blank \in Characters /\ Blank \in Glyph
    /\ \A n \in Nat : Digits(n) \in Glyph
BY Texts DEF Glyph

(* What a step prints: text, a new line, a backspace that has something to  *)
(* take back, or the time.                                                  *)
LEMMA PrintStep ==
    ASSUME TextOnScreen, Output, Handover, LineInBuffer, LineStands, [Next]_vars, ~Clock
    PROVE  \/ screen' = screen
           \/ \E c : /\ screen' = monitor_put(screen, c)
                     /\ c \in Characters \/ c = "\n" \/ (c = BS /\ Cursor(screen) > 0)
<1>1. CASE BootPrint
  <2>1. out # <<>> /\ screen' = monitor_put(screen, Head(out)) /\ out \in Seq(Characters \cup {"\n"})
    BY <1>1 DEF BootPrint, Output
  <2>2. Head(out) \in Characters \cup {"\n"}
    BY <2>1
  <2> QED BY <2>1, <2>2
<1>2. CASE Key_Backspace
  <2>1. console = "edit" /\ i > 0 /\ screen' = monitor_put(screen, BS)
    BY <1>2 DEF Key_Backspace, CanErase
  <2>2. HowMuch = Len(Prompt) + i
    BY <2>1 DEF HowMuch, Handover, OneWriter
  <2>3. i \in Nat /\ Len(Prompt) \in Nat
    BY ConsoleAssumption DEF LineInBuffer, Index
  <2>4. Cursor(screen) >= HowMuch
    BY DEF LineStands, Stands
  <2>5. Cursor(screen) \in Nat
    <3>1. screen.x \in 0..(Width - 1) /\ screen.y \in 0..(Rows - 1)
      BY ScreenFields DEF TextOnScreen
    <3>2. At(screen.x, screen.y) \in 0..(Width * Rows - 1)
      BY <3>1, PlaceFacts
    <3> QED BY <3>2, Places DEF Cursor
  <2>6. Cursor(screen) > 0
    BY <2>1, <2>2, <2>3, <2>4, <2>5
  <2> QED BY <2>1, <2>6
<1>3. CASE \E c \in Printable : Key_Printable(c)
  BY <1>3, Texts DEF Key_Printable
<1>4. CASE NewLine
  BY <1>4 DEF NewLine
<1>5. CASE \/ BootAsk \/ BootAnswered \/ ConsoleRequest \/ Key_Enter \/ Reply \/ UNCHANGED vars
  BY <1>5 DEF BootAsk, BootAnswered, ConsoleRequest, Key_Enter, Reply, vars
<1> QED BY <1>1, <1>2, <1>3, <1>4, <1>5 DEF Next

\* The text that Clock writes (kernel_main.c:55-57).
Time == <<Digits(hours), Digits(mins), Digits(seconds)>>

(* The clock changes three cells of the status line.                       *)
LEMMA ClockWrites ==
    ASSUME TextOnScreen, ClockRuns, Clock
    PROVE  /\ screen' \in Screens(Glyph) /\ Cursor(screen') = Cursor(screen)
           /\ \A k \in 0..(Width * Rows - 1) : screen'.cell[k] = screen.cell[k]
           /\ \A z \in 0..(Width - 1) :
                 screen'.cell[At(z, Rows)] = IF z - ClockX \in 0..2 THEN Time[z - ClockX + 1]
                                             ELSE screen.cell[At(z, Rows)]
<1>1. screen' = monitor_writexy(screen, ClockX, Rows, Time)
  BY DEF Clock, Time
<1>2. hours \in Nat /\ mins \in Nat /\ seconds \in Nat
  BY ConsoleAssumption DEF ClockRuns
<1>3. Len(Time) = 3 /\ \A k \in 1..3 : Time[k] \in Glyph
  <2>1. Digits(hours) \in Glyph /\ Digits(mins) \in Glyph /\ Digits(seconds) \in Glyph
    BY <1>2, GlyphFacts
  <2> QED BY <2>1 DEF Time
<1>4. ClockX \in Nat /\ ClockX + 3 <= Width
  BY ConsoleAssumption
<1>5. screen \in Screens(Glyph)
  BY DEF TextOnScreen
<1> HIDE DEF Time
<1>6. ASSUME NEW n \in Nat, n = 3, NEW text, text = Time
      PROVE  StatusWritten(Glyph, screen, monitor_writexy(screen, ClockX, Rows, text), ClockX, text, n)
  <2>1. Len(text) = n /\ ClockX + n <= Width /\ \A k \in 1..n : text[k] \in Glyph
    BY <1>3, <1>4, <1>6
  <2> QED BY <2>1, <1>4, <1>5, WriteStatus
<1>7. StatusWritten(Glyph, screen, monitor_writexy(screen, ClockX, Rows, Time), ClockX, Time, 3)
  BY <1>6
<1> QED BY <1>1, <1>7 DEF StatusWritten

(* Every step keeps cursor and text in their rows, and all but the clock   *)
(* the status line.                                                        *)
LEMMA TextStep ==
    ASSUME TextOnScreen, Output, Handover, LineInBuffer, LineStands, ClockRuns, [Next]_vars
    PROVE  /\ screen' \in Screens(Glyph)
           /\ \A k \in 0..(Width * Rows - 1) : screen'.cell[k] \in Characters
           /\ ~Clock => \A z \in 0..(Width - 1) :
                           screen'.cell[At(z, Rows)] = screen.cell[At(z, Rows)]
<1>1. screen \in Screens(Glyph) /\ \A k \in 0..(Width * Rows - 1) : screen.cell[k] \in Characters
  BY DEF TextOnScreen
<1>2. CASE screen' = screen
  BY <1>1, <1>2
<1>3. ASSUME NEW c, screen' = monitor_put(screen, c),
             c \in Characters \/ c = "\n" \/ (c = BS /\ Cursor(screen) > 0)
      PROVE  /\ screen' \in Screens(Glyph)
             /\ \A k \in 0..(Width * Rows - 1) : screen'.cell[k] \in Characters
             /\ \A z \in 0..(Width - 1) : screen'.cell[At(z, Rows)] = screen.cell[At(z, Rows)]
  <2>1. (c \in Characters /\ c \notin Controls) \/ c = "\n" \/ (c = BS /\ Cursor(screen) > 0)
    BY <1>3, Texts
  <2>2. screen' \in Screens(Glyph) /\ Keeps(screen, screen', Characters)
    BY <1>1, <1>3, <2>1, GlyphFacts, PutKeeps
  <2>3. \A z \in 0..(Width - 1) : At(z, Rows) \in Cells /\ At(z, Rows) >= Width * Rows
    <3> DEFINE all == Width * Rows
    <3>1. \A z \in 0..(Width - 1) : At(z, Rows) = z + all
      BY DEF At
    <3>2. all \in Nat /\ Width \in Nat \ {0} /\ Cells = 0..(all + Width - 1)
      BY Places DEF Cells
    <3> HIDE DEF all
    <3>3. \A z \in 0..(Width - 1) : At(z, Rows) \in Cells /\ At(z, Rows) >= all
      BY <3>1, <3>2
    <3> QED BY <3>3 DEF all
  <2> QED BY <2>2, <2>3 DEF Keeps
<1>4. CASE Clock
  BY <1>1, <1>4, ClockWrites
<1>5. CASE ~Clock
  BY <1>2, <1>3, <1>5, PrintStep
<1> QED BY <1>4, <1>5

(* Every step moves what stands before the cursor on to the next stage of  *)
(* the read.                                                               *)
LEMMA LineStandsStep ==
    ASSUME TextOnScreen, Output, Handover, LineInBuffer, LineStands, ClockRuns, [Next]_vars
    PROVE  LineStands'
<1> DEFINE L == Len(Prompt)
<1>1. screen \in Screens(Glyph) /\ screen' \in Screens(Glyph) /\ Stands(screen, HowMuch, Shown)
  BY TextStep DEF TextOnScreen, LineStands
<1>2. L \in Nat /\ io_sz \in Nat \ {0} /\ Index = 0..(io_sz - 1) /\ i \in Nat /\ i <= io_sz - 1
  BY ConsoleAssumption DEF LineInBuffer, Index
<1>3. /\ \A k \in 1..L : Shown[k] = Prompt[k]
      /\ \A k \in (L + 1)..(L + io_sz) : Shown[k] = buf[k - L - 1]
  BY <1>2 DEF Shown
<1>4. /\ \A k \in 1..L : Shown'[k] = Prompt[k]
      /\ \A k \in (L + 1)..(L + io_sz) : Shown'[k] = buf'[k - L - 1]
  BY <1>2 DEF Shown
<1>5. \A n \in Nat : HowMuch' = n /\ Stands(screen', n, Shown') => LineStands'
  BY DEF LineStands
<1>6. HowMuch' = 0 => LineStands'
  BY <1>1, <1>5, NothingStands
<1>7. Len(out) \in Nat
  BY DEF Output
<1>8. L + io_sz <= Width * (Rows - 1)
  BY ConsoleAssumption
<1>9. Handover'
  BY HandoverStep
<1>g. Blank \in Glyph /\ Characters \subseteq Glyph /\ Characters \cap Controls = {} /\ Printable \subseteq Characters
  BY GlyphFacts, Texts
<1>10. CASE BootPrint
  <2>1. /\ out # <<>> /\ out \in Seq(Characters \cup {"\n"}) /\ out' = Tail(out)
        /\ screen' = monitor_put(screen, Head(out))
        /\ UNCHANGED <<boot, console, requested, buf, i>>
    BY <1>10 DEF BootPrint, Output
  <2>2. boot = "prompt" /\ boot' = "prompt"
    BY <2>1 DEF Handover
  <2>3. Len(out') = Len(out) - 1 /\ Len(out) > 0 /\ Head(out) = out[1]
    BY <2>1
  <2>4. CASE Len(out) > L
    <3>1. HowMuch' = 0
      BY <2>2, <2>3, <2>4, <1>2, <1>7 DEF HowMuch
    <3> QED BY <3>1, <1>6
  <2>5. CASE Len(out) <= L
    <3> DEFINE n == L - Len(out)
    <3>1. n \in Nat /\ n + 1 <= L
      BY <2>3, <2>5, <1>2, <1>7
    <3>2. HowMuch = n /\ HowMuch' = n + 1
      BY <2>2, <2>3, <2>5, <1>2, <1>7 DEF HowMuch
    <3>3. Head(out) = Prompt[n + 1]
      <4>1. 1 \in 1..Len(out) /\ Len(out) - 1 < Len(Prompt) /\ Len(Prompt) - (Len(out) - 1) = n + 1
        BY <2>3, <2>5, <1>2, <1>7
      <4> QED BY <4>1, <2>3 DEF Output
    <3> HIDE DEF n
    <3>4. Head(out) \in Characters
      <4>1. n + 1 \in 1..L /\ Prompt \in Seq(Characters)
        BY <3>1, <1>2, Texts
      <4> QED BY <4>1, <3>3
    <3>5. \A k \in 1..n : Shown'[k] = Shown[k]
      BY <3>1, <1>2, <1>3, <1>4
    <3>6. Shown'[n + 1] = Head(out)
      BY <3>1, <3>3, <1>2, <1>4
    <3>7. n + 1 <= Width * (Rows - 1)
      BY <3>1, <1>2, <1>8, Places
    <3>8. Stands(screen', n + 1, Shown')
      BY <3>1, <3>2, <3>4, <3>5, <3>6, <3>7, <2>1, <1>1, <1>g, StandsAfterCharacter
    <3> QED BY <3>1, <3>2, <3>8, <1>5
  <2> QED BY <2>4, <2>5, <1>2, <1>7
<1>11. CASE BootAsk
  <2>1. boot = "prompt" /\ out = <<>> /\ boot' = "wait" /\ requested' /\ screen' = screen /\ buf' = buf
    BY <1>11 DEF BootAsk
  <2>2. HowMuch = L /\ HowMuch' = L
    BY <2>1, <1>2 DEF HowMuch
  <2>3. Stands(screen', L, Shown')
    BY <2>1, <2>2, <1>1, <1>2, <1>3, <1>4, SameStands
  <2> QED BY <2>2, <2>3, <1>2, <1>5
<1>12. CASE BootAnswered
  <2>1. boot' = "prompt" /\ out' = (IF strlen(buf) # 0 THEN Unknown \o Text(buf, strlen(buf)) \o <<"\n">>
                                    ELSE <<>>) \o Prompt
    BY <1>12 DEF BootAnswered
  <2>2. HowMuch' = 0
    <3>1. Len(out') >= L /\ Len(out') \in Nat
      <4>1. ~Editing
        BY <1>12 DEF BootAnswered, Handover, Editing
      <4>2. strlen(buf) = i
        BY <4>1, BufferLength
      <4> DEFINE answer == IF i # 0 THEN Unknown \o Text(buf, i) \o <<"\n">> ELSE <<>>
      <4>3. out' = answer \o Prompt
        BY <2>1, <4>2
      <4>4. answer \in Seq(Characters \cup {NUL, "\n"})
        <5>1. \A k \in 1..i : buf[k - 1] \in Characters \cup {NUL, "\n"}
          <6>1. \A k \in 1..i : k - 1 \in Index
            BY <1>2
          <6> QED BY <6>1, <1>g DEF LineInBuffer
        <5>2. Text(buf, i) \in Seq(Characters \cup {NUL, "\n"})
          BY <5>1, <1>2 DEF Text
        <5>3. Unknown \in Seq(Characters \cup {NUL, "\n"}) /\ <<"\n">> \in Seq(Characters \cup {NUL, "\n"})
          BY Texts
        <5> DEFINE C == Characters \cup {NUL, "\n"}
        <5>4. Text(buf, i) \in Seq(C) /\ Unknown \in Seq(C) /\ <<"\n">> \in Seq(C)
          BY <5>2, <5>3
        <5> HIDE DEF C
        <5>5. answer \in Seq(C)
          BY <5>4
        <5> QED BY <5>5 DEF C
      <4>5. Prompt \in Seq(Characters)
        BY Texts
      <4> HIDE DEF answer
      <4>6. Len(out') = Len(answer) + L /\ Len(answer) \in Nat
        BY <4>3, <4>4, <4>5
      <4> QED BY <4>6, <1>2
    <3> QED BY <2>1, <3>1, <1>2 DEF HowMuch
  <2> QED BY <2>2, <1>6
<1>13. CASE ConsoleRequest
  <2>1. /\ requested /\ ~requested' /\ console' = "edit" /\ i' = 0
        /\ UNCHANGED <<screen, boot>>
    BY <1>13 DEF ConsoleRequest, Then
  <2>2. boot = "wait"
    BY <2>1 DEF Handover, OneWriter
  <2>3. HowMuch = L /\ HowMuch' = L
    BY <2>1, <2>2, <1>2 DEF HowMuch
  <2>4. Stands(screen', L, Shown')
    BY <2>1, <2>3, <1>1, <1>2, <1>3, <1>4, SameStands
  <2> QED BY <2>3, <2>4, <1>2, <1>5
<1>14. CASE Key_Backspace
  <2>1. /\ console = "edit" /\ i > 0 /\ buf' = [buf EXCEPT ![i] = NUL] /\ i' = i - 1
        /\ screen' = monitor_put(screen, BS) /\ UNCHANGED <<boot, console, requested>>
    BY <1>14 DEF Key_Backspace, CanErase
  <2>2. boot = "wait" /\ ~requested
    BY <2>1 DEF Handover, OneWriter
  <2>3. HowMuch = L + i /\ HowMuch' = L + i - 1
    BY <2>1, <2>2, <1>2 DEF HowMuch
  <2>4. L + i \in Nat \ {0} /\ L + i - 1 \in Nat
    BY <2>1, <1>2
  <2>5. Stands(screen', L + i - 1, Shown)
    <3> DEFINE n == L + i
    <3>1. n \in Nat \ {0} /\ Stands(screen, n, Shown)
      BY <2>3, <2>4, <1>1
    <3> HIDE DEF n
    <3>2. Stands(screen', n - 1, Shown)
      BY <3>1, <2>1, <1>1, <1>g, StandsAfterBackspace
    <3>3. n - 1 = L + i - 1
      BY <1>2 DEF n
    <3> QED BY <3>2, <3>3
  <2>6. ASSUME NEW k \in 1..(L + i - 1) PROVE Shown'[k] = Shown[k]
    <3>1. CASE k \in 1..L
      BY <3>1, <1>3, <1>4
    <3>2. CASE k \notin 1..L
      <4>1. k \in (L + 1)..(L + io_sz) /\ k - L - 1 # i
        BY <3>2, <1>2
      <4>2. buf'[k - L - 1] = buf[k - L - 1]
        BY <4>1, <2>1
      <4> QED BY <4>1, <4>2, <1>3, <1>4
    <3> QED BY <3>1, <3>2
  <2>7. Stands(screen', L + i - 1, Shown')
    BY <2>4, <2>5, <2>6, SameStands
  <2> QED BY <2>3, <2>4, <2>7, <1>5
<1>15. CASE \E c \in Printable : Key_Printable(c)
  <2>1. PICK c \in Printable : Key_Printable(c)
    BY <1>15
  <2>2. /\ console = "edit" /\ i # io_sz - 1 /\ buf' = [buf EXCEPT ![i] = c] /\ i' = i + 1
        /\ screen' = monitor_put(screen, c) /\ UNCHANGED <<boot, console, requested>>
    BY <2>1 DEF Key_Printable, IsFull
  <2>3. boot = "wait" /\ ~requested
    BY <2>2 DEF Handover, OneWriter
  <2>4. HowMuch = L + i /\ HowMuch' = L + i + 1
    BY <2>2, <2>3, <1>2 DEF HowMuch
  <2>5. L + i \in Nat /\ L + i + 1 \in Nat /\ L + i + 1 <= Width * (Rows - 1)
    BY <2>2, <1>2, <1>8, Places
  <2>6. ASSUME NEW k \in 1..(L + i) PROVE Shown'[k] = Shown[k]
    <3>1. CASE k \in 1..L
      BY <3>1, <1>3, <1>4
    <3>2. CASE k \notin 1..L
      <4>1. k \in (L + 1)..(L + io_sz) /\ k - L - 1 # i
        BY <3>2, <1>2
      <4>2. buf'[k - L - 1] = buf[k - L - 1]
        BY <4>1, <2>2
      <4> QED BY <4>1, <4>2, <1>3, <1>4
    <3> QED BY <3>1, <3>2
  <2>7. Shown'[L + i + 1] = c
    <3>1. L + i + 1 \in (L + 1)..(L + io_sz) /\ L + i + 1 - L - 1 = i
      BY <1>2
    <3>2. buf'[i] = c
      BY <2>2, <1>2 DEF LineInBuffer
    <3> DEFINE k == L + i + 1
    <3>3. k \in (L + 1)..(L + io_sz) /\ k - L - 1 = i
      BY <3>1, <1>2
    <3> HIDE DEF k
    <3>4. Shown'[k] = buf'[k - L - 1]
      BY <3>3, <1>4
    <3> QED BY <3>2, <3>3, <3>4 DEF k
  <2>8. c \in Glyph /\ c \notin Controls
    BY <1>g
  <2>9. Stands(screen', L + i + 1, Shown')
    BY <2>2, <2>4, <2>5, <2>6, <2>7, <2>8, <1>1, <1>g, StandsAfterCharacter
  <2> QED BY <2>4, <2>5, <2>9, <1>5
<1>16. CASE Key_Enter \/ NewLine \/ Reply
  <2>1. console # "request" /\ console' # "edit" /\ UNCHANGED <<boot, requested>>
    BY <1>16 DEF Key_Enter, NewLine, Reply, Then
  <2>2. boot' = "wait" /\ ~requested'
    BY <2>1 DEF Handover, OneWriter
  <2>3. HowMuch' = 0
    BY <2>1, <2>2 DEF HowMuch
  <2> QED BY <2>3, <1>6
<1>17. CASE Clock \/ UNCHANGED vars
  <2>1. UNCHANGED <<boot, out, console, requested, buf, i>>
    BY <1>17 DEF Clock, vars
  <2>2. HowMuch \in Nat /\ HowMuch' = HowMuch /\ Shown' = Shown
    BY <2>1, <1>2, <1>7 DEF HowMuch, Shown
  <2>3. CASE Clock
    <3>1. Stands(screen', HowMuch, Shown)
      BY <2>2, <2>3, <1>1, ClockWrites, StandsAfterWrite
    <3> QED BY <2>2, <3>1, <1>5
  <2>4. CASE UNCHANGED vars
    <3>1. screen' = screen
      BY <2>4 DEF vars
    <3> QED BY <2>2, <3>1, <1>1, <1>5
  <2> QED BY <1>17, <2>3, <2>4
<1> QED BY <1>10, <1>11, <1>12, <1>13, <1>14, <1>15, <1>16, <1>17 DEF Next

(* Quotient and rest are unique.                                           *)
LEMMA DivUnique ==
    ASSUME NEW d \in Nat \ {0}, NEW q \in Nat, NEW r \in 0..(d - 1)
    PROVE  (q * d + r) \div d = q /\ (q * d + r) % d = r
<1> DEFINE a == q * d + r
           e == a \div d
           m == a % d
<1>1. a \in Nat /\ e \in Nat /\ m \in 0..(d - 1) /\ a = d * e + m
  OBVIOUS
<1> HIDE DEF e, m
<1>2. e = q
  <2>1. CASE e > q
    <3>1. PICK f \in Nat : e = q + 1 + f
      <4>1. e - q - 1 \in Nat /\ e = q + 1 + (e - q - 1)
        BY <2>1, <1>1
      <4> QED BY <4>1
    <3>2. d * e = d * q + d + d * f /\ d * f \in Nat
      BY <3>1
    <3> QED BY <3>2, <1>1
  <2>2. CASE e < q
    <3>1. PICK f \in Nat : q = e + 1 + f
      <4>1. q - e - 1 \in Nat /\ q = e + 1 + (q - e - 1)
        BY <2>2, <1>1
      <4> QED BY <4>1
    <3>2. d * q = d * e + d + d * f /\ d * f \in Nat
      BY <3>1, <1>1
    <3> QED BY <3>2, <1>1
  <2> QED BY <2>1, <2>2, <1>1
<1>3. m = r
  <2>1. d * e = q * d /\ q * d \in Nat
    BY <1>2
  <2> DEFINE qd == q * d
  <2>2. qd + r = qd + m /\ qd \in Nat
    BY <2>1, <1>1
  <2> HIDE DEF qd
  <2> QED BY <2>2, <1>1
<1> QED BY <1>2, <1>3 DEF e, m

(* Hours, minutes and seconds are the digits of the time that has passed.   *)
LEMMA ClockDigits ==
    ASSUME ClockRuns
    PROVE  /\ elapsed \in Nat
           /\ elapsed \div (Base * Base) = hours
           /\ (elapsed \div Base) % Base = mins
           /\ elapsed % Base = seconds
<1>1. Base \in Nat \ {0} /\ Base * Base \in Nat \ {0}
  BY ConsoleAssumption
<1>2. /\ hours \in Nat /\ mins \in 0..(Base - 1) /\ seconds \in 0..(Base - 1)
      /\ mins \in Nat /\ seconds \in Nat
      /\ elapsed = (hours * Base + mins) * Base + seconds
  BY <1>1 DEF ClockRuns
<1> DEFINE q == hours * Base + mins
<1>3. q \in Nat /\ q % Base = mins
  BY <1>1, <1>2, DivUnique
<1>4. elapsed = q * Base + seconds
  BY <1>2
<1> HIDE DEF q
<1>5. elapsed \div Base = q /\ elapsed % Base = seconds
  BY <1>1, <1>2, <1>3, <1>4, DivUnique
<1>6. elapsed \in Nat
  <2>1. q * Base \in Nat
    BY <1>1, <1>3
  <2> QED BY <2>1, <1>2, <1>4
<1>7. elapsed \div (Base * Base) = hours
  <2> DEFINE d == Base * Base
             r == mins * Base + seconds
  <2>1. q * Base = hours * d + mins * Base
    BY <1>1, <1>2 DEF q
  <2>2. hours * d \in Nat /\ mins * Base \in Nat
    BY <1>1, <1>2
  <2>3. elapsed = hours * d + r
    BY <2>1, <2>2, <1>2, <1>4
  <2>4. r \in 0..(d - 1)
    <3>1. PICK f \in Nat : Base = mins + 1 + f
      <4>1. Base - mins - 1 \in Nat /\ Base = mins + 1 + (Base - mins - 1)
        BY <1>1, <1>2
      <4> QED BY <4>1
    <3>2. d = mins * Base + Base + f * Base /\ f * Base \in Nat
      BY <3>1, <1>1, <1>2
    <3> DEFINE mb == mins * Base
               fb == f * Base
    <3>3. mb \in Nat /\ fb \in Nat /\ d = mb + Base + fb /\ d \in Nat
      BY <3>2, <2>2, <1>1
    <3> HIDE DEF mb, fb, d
    <3>4. mb + seconds \in 0..(d - 1)
      BY <3>3, <1>1, <1>2
    <3> QED BY <3>4 DEF mb
  <2> HIDE DEF d, r
  <2>5. d \in Nat \ {0}
    BY <1>1 DEF d
  <2>6. elapsed \div d = hours
    BY <2>3, <2>4, <2>5, <1>2, DivUnique
  <2> QED BY <2>6 DEF d
<1> QED BY <1>3, <1>5, <1>6, <1>7

(* A second later the clock shows the time that had passed.                *)
LEMMA ClockStep ==
    ASSUME TextOnScreen, ClockRuns, StatusShowsTime, Clock
    PROVE  ClockRuns' /\ StatusShowsTime'
<1>1. Base \in Nat \ {0, 1} /\ ClockX \in Nat
  BY ConsoleAssumption
<1>2. /\ hours \in Nat /\ mins \in 0..(Base - 1) /\ seconds \in 0..(Base - 1)
      /\ elapsed = (hours * Base + mins) * Base + seconds
  BY DEF ClockRuns
<1>3. elapsed' = elapsed + 1
  BY DEF Clock
<1>4. ClockRuns'
  <2> DEFINE q == hours * Base + mins
             qb == q * Base
             hb == hours * Base
  <2>1. hb \in Nat /\ q = hb + mins /\ qb \in Nat /\ elapsed = qb + seconds
    BY <1>1, <1>2
  <2>2. CASE seconds + 1 # Base
    <3>1. hours' = hours /\ mins' = mins /\ seconds' = seconds + 1
      BY <2>2, <1>1, <1>2 DEF Clock, Carries
    <3>2. seconds + 1 \in 0..(Base - 1) /\ elapsed + 1 = qb + (seconds + 1)
      BY <2>1, <2>2, <1>1, <1>2
    <3> QED BY <3>1, <3>2, <1>2, <1>3 DEF ClockRuns
  <2>3. CASE seconds + 1 = Base /\ mins + 1 # Base
    <3>1. hours' = hours /\ mins' = mins + 1 /\ seconds' = 0
      BY <2>3, <1>1, <1>2 DEF Clock, Carries
    <3>2. mins + 1 \in 0..(Base - 1) /\ 0 \in 0..(Base - 1)
      BY <2>3, <1>1, <1>2
    <3>3. (hb + (mins + 1)) * Base + 0 = qb + Base
      BY <2>1, <1>1, <1>2
    <3>4. elapsed + 1 = qb + Base
      BY <2>1, <2>3, <1>1, <1>2
    <3> QED BY <3>1, <3>2, <3>3, <3>4, <1>2, <1>3 DEF ClockRuns
  <2>4. CASE seconds + 1 = Base /\ mins + 1 = Base
    <3>1. hours' = hours + 1 /\ mins' = 0 /\ seconds' = 0
      BY <2>4, <1>1, <1>2 DEF Clock, Carries
    <3>2. hours + 1 \in Nat /\ 0 \in 0..(Base - 1)
      BY <1>1, <1>2
    <3>3. (hours + 1) * Base + 0 = q + 1
      BY <2>1, <2>4, <1>1, <1>2
    <3>4. (q + 1) * Base + 0 = qb + Base /\ elapsed + 1 = qb + Base
      BY <2>1, <2>4, <1>1, <1>2
    <3> QED BY <3>1, <3>2, <3>3, <3>4, <1>2, <1>3 DEF ClockRuns
  <2> QED BY <2>2, <2>3, <2>4
<1>5. StatusShowsTime'
  <2>1. elapsed \in Nat /\ elapsed + 1 # 0 /\ elapsed + 1 - 1 = elapsed
    BY ClockDigits
  <2>2. /\ Digits(elapsed \div (Base * Base)) = Digits(hours)
        /\ Digits((elapsed \div Base) % Base) = Digits(mins)
        /\ Digits(elapsed % Base) = Digits(seconds)
    BY ClockDigits
  <2>3. /\ Time[1] = Digits(hours) /\ Time[2] = Digits(mins) /\ Time[3] = Digits(seconds)
    BY DEF Time
  <2>4. SUFFICES ASSUME NEW x \in 0..(Width - 1)
        PROVE  screen'.cell[At(x, Rows)] =
                  IF elapsed' = 0 \/ x \notin ClockX..(ClockX + 2) THEN Blank
                  ELSE CASE x = ClockX -> Digits((elapsed' - 1) \div (Base * Base))
                         [] x = ClockX + 1 -> Digits(((elapsed' - 1) \div Base) % Base)
                         [] x = ClockX + 2 -> Digits((elapsed' - 1) % Base)
    BY DEF StatusShowsTime
  <2>e. elapsed' # 0 /\ elapsed' - 1 = elapsed
    BY <2>1, <1>3
  <2>d. /\ Digits((elapsed' - 1) \div (Base * Base)) = Time[1]
        /\ Digits(((elapsed' - 1) \div Base) % Base) = Time[2]
        /\ Digits((elapsed' - 1) % Base) = Time[3]
    BY <2>2, <2>3, <2>e
  <2>5. x \in Nat
    BY Places
  <2>6. screen'.cell[At(x, Rows)] = IF x - ClockX \in 0..2 THEN Time[x - ClockX + 1]
                                    ELSE screen.cell[At(x, Rows)]
    BY ClockWrites
  <2>7. CASE x \notin ClockX..(ClockX + 2)
    <3>1. x - ClockX \notin 0..2
      BY <2>5, <2>7, <1>1
    <3>2. screen.cell[At(x, Rows)] = Blank
      BY <2>7 DEF StatusShowsTime
    <3> QED BY <2>6, <2>7, <3>1, <3>2
  <2>8. CASE x = ClockX
    BY <2>6, <2>8, <2>d, <2>e, <1>1
  <2>9. CASE x = ClockX + 1
    BY <2>6, <2>9, <2>d, <2>e, <1>1
  <2>10. CASE x = ClockX + 2
    BY <2>6, <2>10, <2>d, <2>e, <1>1
  <2>11. x \in ClockX..(ClockX + 2) => x = ClockX \/ x = ClockX + 1 \/ x = ClockX + 2
    BY <2>5, <1>1
  <2> QED BY <2>7, <2>8, <2>9, <2>10, <2>11
<1> QED BY <1>4, <1>5

(* Whatever the position read from the hardware, the cursor is on the       *)
(* screen and the boot loader's text above the status line.                 *)
LEMMA InitScreen ==
    ASSUME NEW position \in Cells
    PROVE  LET s == monitor_init([c \in Cells |-> "boot"], position) IN
           s \in Screens(Glyph) /\ \A k \in 0..(Width * Rows - 1) : s.cell[k] \in Characters
<1> DEFINE cell == [c \in Cells |-> "boot"]
           swapped == (position % 256) * 256 + position \div 256
           y == swapped \div Width + 1
<1>1. Width \in Nat \ {0} /\ Rows \in Nat \ {0} /\ Cells \subseteq Nat
  BY Places DEF Cells
<1>2. swapped \in Nat
  <2>1. position \in Nat
    BY <1>1
  <2>2. position % 256 \in Nat /\ position \div 256 \in Nat
    BY <2>1
  <2> QED BY <2>2
<1>3. y \in Nat
  <2> HIDE DEF swapped
  <2> QED BY <1>1, <1>2
<1>4. monitor_init(cell, position) = scroll(Screen(cell, 0, y))
  BY DEF monitor_init, Screen
<1> HIDE DEF y
<1>5. cell \in [Cells -> Glyph] /\ \A k \in Cells : cell[k] \in Characters
  BY GlyphFacts DEF Characters
<1>6. Shifted(cell) \in [Cells -> Glyph]
  BY <1>5, GlyphFacts, ShiftedType
<1>7. \A k \in 0..(Width * Rows - 1) : cell[k] \in Characters /\ Shifted(cell)[k] \in Characters
  <2> DEFINE u == Screen(cell, 0, 0)
             t == Screen(Shifted(cell), 0, 0)
  <2>1. u \in Screens(Glyph) /\ u.cell = cell /\ t.cell = Shifted(u.cell)
    BY <1>1, <1>5 DEF Screens, Screen
  <2>2. 0..(Width * Rows - 1) \subseteq Cells
    BY Places DEF Cells
  <2> HIDE DEF u, t
  <2>3. Keeps(u, u, Characters)
    BY <1>5, <2>1, <2>2 DEF Keeps
  <2>4. Keeps(u, t, Characters)
    BY <2>1, <2>3, GlyphFacts, ShiftKeeps
  <2> QED BY <2>1, <2>3, <2>4 DEF Keeps
<1>8. scroll(Screen(cell, 0, y)) = IF y < Rows THEN Screen(cell, 0, y)
                                   ELSE Screen(Shifted(cell), 0, Rows - 1)
  BY <1>3, ScrollFacts
<1>9. ASSUME NEW v \in 0..(Rows - 1), NEW m \in [Cells -> Glyph]
      PROVE  Screen(m, 0, v) \in Screens(Glyph) /\ Screen(m, 0, v).cell = m
  BY <1>1 DEF Screens, Screen
<1> HIDE DEF cell
<1>10. CASE y < Rows
  <2>1. y \in 0..(Rows - 1)
    BY <1>1, <1>3, <1>10
  <2>2. Screen(cell, 0, y) \in Screens(Glyph) /\ Screen(cell, 0, y).cell = cell
    BY <2>1, <1>5, <1>9
  <2> QED BY <2>2, <1>4, <1>7, <1>8, <1>10 DEF cell
<1>11. CASE ~(y < Rows)
  <2>1. Rows - 1 \in 0..(Rows - 1)
    BY <1>1
  <2>2. /\ Screen(Shifted(cell), 0, Rows - 1) \in Screens(Glyph)
        /\ Screen(Shifted(cell), 0, Rows - 1).cell = Shifted(cell)
    BY <2>1, <1>6, <1>9
  <2> QED BY <2>2, <1>4, <1>7, <1>8, <1>11 DEF cell
<1> QED BY <1>10, <1>11

(* The boot task starts with the whole prompt to print.                    *)
LEMMA InitInv == Init => ConsoleInv
<1> SUFFICES ASSUME Init PROVE ConsoleInv
  OBVIOUS
<1>1. PICK position \in Cells :
         screen = monitor_writexy(monitor_init([c \in Cells |-> "boot"], position),
                                  0, Rows, [x \in 1..Width |-> Blank])
  BY DEF Init
<1>2. /\ boot = "prompt" /\ out = Prompt /\ console = "request" /\ requested = FALSE /\ replied = FALSE
      /\ buf = [k \in Index |-> NUL] /\ i = 0
      /\ hours = 0 /\ mins = 0 /\ seconds = 0 /\ elapsed = 0
  BY DEF Init
<1>3. Base \in Nat \ {0, 1} /\ io_sz \in Nat \ {0} /\ Index = 0..(io_sz - 1)
  BY ConsoleAssumption DEF Index
<1>4. Handover
  BY <1>2 DEF Handover, OneWriter
<1>5. Output
  <2>1. Prompt \in Seq(Characters \cup {"\n"}) /\ Len(Prompt) \in Nat
    BY Texts
  <2>2. ASSUME NEW k \in 1..Len(Prompt) PROVE Prompt[k] = Prompt[Len(Prompt) - (Len(Prompt) - k)]
    <3>1. Len(Prompt) - (Len(Prompt) - k) = k
      BY <2>1
    <3> QED BY <3>1
  <2> QED BY <2>1, <2>2, <1>2 DEF Output
<1>6. LineInBuffer
  BY <1>2, <1>3 DEF LineInBuffer
<1> DEFINE s == monitor_init([c \in Cells |-> "boot"], position)
<1>7. s \in Screens(Glyph) /\ \A k \in 0..(Width * Rows - 1) : s.cell[k] \in Characters
  BY InitScreen
<1>8. screen = monitor_writexy(s, 0, Rows, [x \in 1..Width |-> Blank])
  BY <1>1
<1> HIDE DEF s
<1>9. /\ screen \in Screens(Glyph)
      /\ \A k \in 0..(Width * Rows - 1) : screen.cell[k] = s.cell[k]
      /\ \A z \in 0..(Width - 1) : screen.cell[At(z, Rows)] = Blank
  <2> DEFINE text == [x \in 1..Width |-> Blank]
  <2>1. Width \in Nat
    BY Places
  <2>2. Len(text) = Width /\ \A k \in 1..Width : text[k] = Blank /\ text[k] \in Glyph
    BY <2>1, GlyphFacts
  <2> HIDE DEF text
  <2>3. /\ screen \in Screens(Glyph)
        /\ \A k \in 0..(Width * Rows - 1) : screen.cell[k] = s.cell[k]
        /\ \A z \in 0..(Width - 1) :
              screen.cell[At(z, Rows)] = IF z - 0 \in 0..(Width - 1) THEN text[z - 0 + 1]
                                         ELSE s.cell[At(z, Rows)]
    <3>1. ASSUME NEW a \in Nat, a = 0
          PROVE  LET t == monitor_writexy(s, a, Rows, text) IN
                 /\ t \in Screens(Glyph)
                 /\ \A k \in 0..(Width * Rows - 1) : t.cell[k] = s.cell[k]
                 /\ \A z \in 0..(Width - 1) :
                       t.cell[At(z, Rows)] = IF z - a \in 0..(Width - 1) THEN text[z - a + 1]
                                             ELSE s.cell[At(z, Rows)]
      <4>1. a + Width <= Width
        BY <3>1, <2>1
      <4> QED BY <4>1, <2>1, <2>2, <1>7, WriteStatus DEF StatusWritten
    <3>2. screen = monitor_writexy(s, 0, Rows, text)
      BY <1>8 DEF text
    <3> QED BY <3>1, <3>2
  <2>4. ASSUME NEW z \in 0..(Width - 1) PROVE screen.cell[At(z, Rows)] = Blank
    <3>1. z - 0 = z /\ z - 0 + 1 \in 1..Width
      BY <2>1
    <3>2. text[z - 0 + 1] = Blank
      BY <3>1, <2>2
    <3> QED BY <3>1, <3>2, <2>3
  <2> QED BY <2>3, <2>4
<1>10. TextOnScreen
  BY <1>7, <1>9 DEF TextOnScreen
<1>11. LineStands
  <2>1. HowMuch = 0
    <3>1. Len(Prompt) \in Nat
      BY Texts
    <3> QED BY <3>1, <1>2 DEF HowMuch
  <2> QED BY <2>1, <1>9, NothingStands DEF LineStands
<1>12. ClockRuns
  BY <1>2, <1>3 DEF ClockRuns
<1>13. StatusShowsTime
  BY <1>2, <1>9 DEF StatusShowsTime
<1> QED BY <1>4, <1>5, <1>6, <1>10, <1>11, <1>12, <1>13 DEF ConsoleInv

(* Every step keeps the invariant.                                         *)
LEMMA InvStep == ConsoleInv /\ [Next]_vars => ConsoleInv'
<1> SUFFICES ASSUME ConsoleInv, [Next]_vars PROVE ConsoleInv'
  OBVIOUS
<1>1. /\ Handover /\ Output /\ LineInBuffer
      /\ TextOnScreen /\ LineStands
      /\ ClockRuns /\ StatusShowsTime
  BY DEF ConsoleInv
<1>2. Handover' /\ Output' /\ LineInBuffer' /\ LineStands'
  BY <1>1, HandoverStep, OutputStep, LineStep, LineStandsStep
<1>3. TextOnScreen'
  <2>1. Glyph' = Glyph /\ Characters' = Characters
    BY DEF Glyph, Characters
  <2> QED BY <2>1, <1>1, TextStep DEF TextOnScreen
<1>4. ClockRuns' /\ StatusShowsTime'
  <2>1. CASE Clock
    BY <2>1, <1>1, ClockStep
  <2>2. CASE ~Clock
    <3>1. UNCHANGED <<hours, mins, seconds, elapsed>>
      BY <2>2 DEF Next, BootPrint, BootAsk, BootAnswered, ConsoleRequest, Key_Backspace, Key_Enter,
                  Key_Printable, NewLine, Reply, vars, time
    <3>2. \A z \in 0..(Width - 1) : screen'.cell[At(z, Rows)] = screen.cell[At(z, Rows)]
      BY <2>2, <1>1, TextStep
    <3>3. ClockRuns'
      BY <3>1, <1>1 DEF ClockRuns
    <3>4. StatusShowsTime'
      BY <3>1, <3>2, <1>1 DEF StatusShowsTime
    <3> QED BY <3>3, <3>4
  <2> QED BY <2>1, <2>2
<1> QED BY <1>2, <1>3, <1>4 DEF ConsoleInv

(* ConsoleInv is inductive.                                                *)
LEMMA ConsoleInvariant == Spec => []ConsoleInv
BY InitInv, InvStep, PTL DEF Spec

-----------------------------------------------------------------------------
(* What it means for the console.                                          *)

(* Cursor and buffer index stay in their rows and their buffer, and the     *)
(* screen above the status line holds only text, whatever is typed          *)
(* (monitor.c:monitor_put, console.c:104-123).                              *)
THEOREM ConsoleTypeOK == Spec => []TypeOK
<1>1. ConsoleInv => TypeOK
  BY ScreenFields DEF ConsoleInv, TextOnScreen, LineInBuffer, ClockRuns, TypeOK
<1> QED BY <1>1, ConsoleInvariant, PTL

(* Prompt and line stand before the cursor while a line is edited, however  *)
(* often it crosses the end of a row and the screen scrolls (monitor.c).    *)
THEOREM ConsoleScreenShowsLine == Spec => []ScreenShowsLine
<1>1. ConsoleInv => ScreenShowsLine
  <2> SUFFICES ASSUME ConsoleInv, console = "edit" PROVE
         /\ At(screen.x, screen.y) >= Len(Prompt) + i
         /\ Before(Len(Prompt) + i) = Prompt \o Text(buf, i)
    BY DEF ScreenShowsLine
  <2> DEFINE n == Len(Prompt) + i
             p == At(screen.x, screen.y)
  <2>1. HowMuch = n
    BY DEF ConsoleInv, Handover, OneWriter, HowMuch
  <2>2. p >= n /\ \A k \in 1..n : screen.cell[p - n + k - 1] = Shown[k]
    BY <2>1 DEF ConsoleInv, LineStands, Stands, Cursor
  <2>3. /\ Len(Prompt) \in Nat /\ i \in Nat /\ i <= io_sz - 1 /\ io_sz \in Nat
        /\ Prompt \in Seq(Characters) /\ n \in Nat
    BY ConsoleAssumption, Texts DEF ConsoleInv, LineInBuffer, Index
  <2>4. \A k \in 1..n : Shown[k] = IF k <= Len(Prompt) THEN Prompt[k] ELSE buf[k - Len(Prompt) - 1]
    BY <2>3 DEF Shown
  <2>5. Prompt \o Text(buf, i) =
           [k \in 1..n |-> IF k <= Len(Prompt) THEN Prompt[k] ELSE buf[k - Len(Prompt) - 1]]
    <3> DEFINE t == Text(buf, i)
    <3>1. t \in Seq(Printable) /\ Len(t) = i /\ \A k \in 1..i : t[k] = buf[k - 1]
      <4>1. \A k \in 1..i : buf[k - 1] \in Printable
        BY <2>3 DEF ConsoleInv, LineInBuffer
      <4> QED BY <4>1, <2>3 DEF Text
    <3> DEFINE u == Prompt \o t
               w == [k \in 1..n |-> IF k <= Len(Prompt) THEN Prompt[k] ELSE buf[k - Len(Prompt) - 1]]
    <3> HIDE DEF t
    <3>2. t \in Seq(Characters)
      BY <3>1, Texts
    <3>3. /\ u \in Seq(Characters) /\ Len(u) = n
          /\ \A k \in 1..n : u[k] = IF k <= Len(Prompt) THEN Prompt[k] ELSE t[k - Len(Prompt)]
      BY <2>3, <3>1, <3>2, ConcatProperties
    <3>4. \A k \in 1..n : ~(k <= Len(Prompt)) => t[k - Len(Prompt)] = buf[k - Len(Prompt) - 1]
      BY <2>3, <3>1
    <3>5. \A k \in 1..n : u[k] = w[k]
      BY <3>3, <3>4
    <3>6. \A k \in 1..n : u[k] \in Characters
      BY <3>3
    <3>7. w \in Seq(Characters) /\ Len(w) = n
      <4> HIDE DEF u, n
      <4>1. \A k \in 1..n : (IF k <= Len(Prompt) THEN Prompt[k] ELSE buf[k - Len(Prompt) - 1]) \in Characters
        BY <3>5, <3>6
      <4> QED BY <4>1, <2>3
    <3>8. u = w
      <4> HIDE DEF u, w, n
      <4> QED BY <3>3, <3>5, <3>7, SeqEqual
    <3> QED BY <3>8 DEF t, u, w
  <2>6. Before(n) = [k \in 1..n |-> Shown[k]]
    BY <2>2 DEF Before
  <2> QED BY <2>2, <2>4, <2>5, <2>6
<1> QED BY <1>1, ConsoleInvariant, PTL

(* The boot task does not print or look at the buffer while the console     *)
(* does (kernel_main.c:106-110, device.c:do_io).                            *)
THEOREM ConsoleOneWriter == Spec => []OneWriter
<1>1. ConsoleInv => OneWriter
  BY DEF ConsoleInv, Handover
<1> QED BY <1>1, ConsoleInvariant, PTL

(* The status line shows the time of the last write and nothing that is     *)
(* printed reaches it (kernel_main.c:48-69, monitor.c:scroll).              *)
THEOREM ConsoleStatusShowsTime == Spec => []StatusShowsTime
<1>1. ConsoleInv => StatusShowsTime
  BY DEF ConsoleInv
<1> QED BY <1>1, ConsoleInvariant, PTL

-----------------------------------------------------------------------------
(* The console implements LineInput.                                       *)

TheLine == Text(buf, IF Editing THEN i ELSE strlen(buf))

(* The line of LineInput is the buffer up to the index, at every stage.    *)
LEMMA LineIsText ==
    ASSUME LineInBuffer
    PROVE  /\ TheLine = Text(buf, i) /\ i \in Nat
           /\ Text(buf, i) \in Seq(Printable) /\ Len(Text(buf, i)) = i
<1>1. i \in Nat
  BY ConsoleAssumption DEF LineInBuffer, Index
<1>2. \A k \in 1..i : buf[k - 1] \in Printable
  BY <1>1 DEF LineInBuffer
<1>3. TheLine = Text(buf, i)
  BY BufferLength DEF TheLine
<1> QED BY <1>1, <1>2, <1>3 DEF Text

(* The console starts with an empty line and no read.                      *)
LEMMA LinesInit == Init => Lines!Init
<1> SUFFICES ASSUME Init PROVE Lines!Init
  OBVIOUS
<1>1. LineInBuffer /\ i = 0 /\ console = "request"
  BY InitInv DEF Init, ConsoleInv
<1>2. TheLine = <<>>
  <2>1. TheLine = Text(buf, 0)
    BY <1>1, LineIsText
  <2> QED BY <2>1 DEF Text
<1> QED BY <1>1, <1>2 DEF Lines!Init, Editing, TheLine

(* A step of the console is a step of LineInput, or changes neither line   *)
(* nor stage.                                                              *)
LEMMA LinesStep ==
    ASSUME LineInBuffer, [Next]_vars
    PROVE  Lines!Next \/ UNCHANGED <<Editing, TheLine>>
<1>1. LineInBuffer'
  BY LineStep
<1>2. /\ TheLine = Text(buf, i) /\ i \in Nat /\ Len(Text(buf, i)) = i
      /\ Text(buf, i) \in Seq(Printable)
  BY LineIsText
<1>3. TheLine' = Text(buf', i')
  <2>1. (~Editing)' => strlen(buf') = i'
    <3>1. ASSUME (~Editing)' PROVE strlen(buf') = i'
      <4>1. i' \in Index /\ buf'[i'] = NUL /\ \A k \in 0..(i' - 1) : buf'[k] \in Printable
        BY <1>1, <3>1 DEF LineInBuffer
      <4> QED BY <4>1, NULFact, LengthOfLine
    <3> QED BY <3>1
  <2> QED BY <2>1 DEF TheLine, Text
<1>4. CASE UNCHANGED <<console, buf, i>>
  BY <1>2, <1>3, <1>4 DEF Editing
<1>5. CASE ConsoleRequest
  <2>1. console = "request" /\ console' = "edit" /\ i' = 0
    BY <1>5 DEF ConsoleRequest, Then
  <2>2. TheLine' = <<>>
    BY <1>3, <2>1 DEF Text
  <2>3. Lines!Begin
    BY <2>1, <2>2 DEF Lines!Begin, Editing, TheLine
  <2> QED BY <2>3 DEF Lines!Next
<1>6. CASE Key_Backspace
  <2>1. console = "edit" /\ console' = "edit" /\ i > 0 /\ buf' = [buf EXCEPT ![i] = NUL] /\ i' = i - 1
    BY <1>6 DEF Key_Backspace, CanErase
  <2>2. Front(Text(buf, i)) = Text(buf', i')
    <3>1. Front(Text(buf, i)) = [k \in 1..(i - 1) |-> Text(buf, i)[k]]
      BY <1>2, <2>1 DEF Front
    <3>2. \A k \in 1..(i - 1) : Text(buf, i)[k] = buf[k - 1] /\ buf'[k - 1] = buf[k - 1]
      BY <1>2, <2>1 DEF Text
    <3> QED BY <3>1, <3>2, <2>1 DEF Text
  <2>3. Text(buf, i) # <<>>
    BY <1>2, <2>1
  <2>4. Lines!Erase
    BY <1>2, <1>3, <2>1, <2>2, <2>3 DEF Lines!Erase, Lines!Front, Front, Editing, TheLine
  <2> QED BY <2>4 DEF Lines!Next
<1>7. CASE \E c \in Printable : Key_Printable(c)
  <2>1. PICK c \in Printable : Key_Printable(c)
    BY <1>7
  <2>2. /\ console = "edit" /\ console' = "edit" /\ i # io_sz - 1
        /\ buf' = [buf EXCEPT ![i] = c] /\ i' = i + 1
    BY <2>1 DEF Key_Printable, IsFull
  <2>3. i < io_sz - 1
    BY <2>2, ConsoleAssumption DEF LineInBuffer, Index
  <2>4. Append(Text(buf, i), c) = Text(buf', i')
    <3> DEFINE t == Text(buf, i)
    <3>1. \A k \in 1..i : t[k] = buf[k - 1] /\ buf'[k - 1] = buf[k - 1]
      BY <1>2, <2>2 DEF Text
    <3>2. buf'[i] = c
      BY <2>2 DEF LineInBuffer
    <3>3. t \in Seq(Printable) /\ Len(t) = i
      BY <1>2
    <3> HIDE DEF t
    <3>4. \A k \in 1..(i + 1) : buf'[k - 1] = IF k <= i THEN t[k] ELSE c
      <4> TAKE k \in 1..(i + 1)
      <4>1. CASE k <= i
        BY <4>1, <3>1, <1>2
      <4>2. CASE ~(k <= i)
        <5>1. k - 1 = i
          BY <4>2, <1>2
        <5> QED BY <4>2, <5>1, <3>2
      <4> QED BY <4>1, <4>2
    <3> DEFINE w == [k \in 1..(i + 1) |-> buf'[k - 1]]
    <3>5. w \in Seq(Printable) /\ Len(w) = i + 1 /\ \A k \in 1..(i + 1) : w[k] = IF k <= i THEN t[k] ELSE c
      <4>1. \A k \in 1..(i + 1) : buf'[k - 1] \in Printable
        BY <3>3, <3>4, <1>2
      <4> QED BY <4>1, <3>4, <1>2
    <3> HIDE DEF w
    <3>6. /\ Append(t, c) \in Seq(Printable) /\ Len(Append(t, c)) = i + 1
          /\ \A k \in 1..i : Append(t, c)[k] = t[k]
          /\ Append(t, c)[i + 1] = c
      BY <3>3, AppendProperties
    <3>7. \A k \in 1..(i + 1) : Append(t, c)[k] = w[k]
      BY <3>5, <3>6, <1>2
    <3>8. Append(t, c) = w
      BY <3>5, <3>6, <3>7, SeqEqual
    <3> QED BY <3>8, <2>2 DEF Text, t, w
  <2>5. Lines!Type(c)
    BY <1>2, <1>3, <2>2, <2>3, <2>4 DEF Lines!Type, Editing, TheLine
  <2> QED BY <2>5 DEF Lines!Next
<1>8. CASE Key_Enter
  <2>1. Editing /\ Editing' /\ UNCHANGED <<buf, i>>
    BY <1>8 DEF Key_Enter, Then, Editing
  <2> QED BY <1>2, <1>3, <2>1 DEF Editing
<1>9. CASE NewLine
  <2>1. console = "newline" /\ console' = "reply" /\ buf' = [buf EXCEPT ![i] = NUL] /\ i' = i
    BY <1>9 DEF NewLine, Terminated, Then
  <2>2. Text(buf', i') = Text(buf, i)
    <3>1. \A k \in 1..i : buf'[k - 1] = buf[k - 1]
      BY <1>2, <2>1
    <3> QED BY <3>1, <2>1 DEF Text
  <2>3. Lines!Finish
    BY <1>2, <1>3, <2>1, <2>2 DEF Lines!Finish, Editing, TheLine
  <2> QED BY <2>3 DEF Lines!Next
<1>10. CASE Reply
  <2>1. console = "reply" /\ console' = "request" /\ UNCHANGED <<buf, i>>
    BY <1>10 DEF Reply, Then
  <2> QED BY <1>2, <1>3, <2>1 DEF Editing
<1>11. CASE BootPrint \/ BootAsk \/ BootAnswered \/ Clock \/ UNCHANGED vars
  BY <1>4, <1>11 DEF BootPrint, BootAsk, BootAnswered, Clock, vars
<1> QED BY <1>5, <1>6, <1>7, <1>8, <1>9, <1>10, <1>11 DEF Next

(* A read returns the characters typed less those taken back, without a     *)
(* rest of earlier lines (console.c:98-125, strlen() of the buffer).        *)
THEOREM ConsoleImplementsLineInput == Spec => ImplementsLineInput
<1>1. ConsoleInv /\ [Next]_vars => [Lines!Next]_<<Editing, TheLine>>
  BY LinesStep DEF ConsoleInv
<1>2. Spec => Lines!Init /\ [][Lines!Next]_<<Editing, TheLine>>
  BY <1>1, LinesInit, ConsoleInvariant, PTL DEF Spec
<1> QED BY <1>2 DEF ImplementsLineInput, Lines!Spec, TheLine
=============================================================================
