------------------------------- MODULE Screen -------------------------------
(***************************************************************************)
(* The text screen (src/monitor.c): a record of the character cells and    *)
(* the cursor, and the routines as operators on it.  Colours and the       *)
(* hardware cursor are left out.                                           *)
(***************************************************************************)
EXTENDS Integers, Sequences, SequencesExt

CONSTANTS
    Width,   \* 80 columns
    Rows,    \* 24 rows of text; the row below them is the status line
    TabStop  \* 8

ASSUME ScreenAssumption == Width \in Nat \ {0} /\ Rows \in Nat \ {0} /\ TabStop \in 1..Width

Cells == 0..(Width * (Rows + 1) - 1)
At(x, y) == x + Width * y
Blank == " "
BS == "backspace"

scroll_Fault(s) ==
    IF s.y < Rows THEN s
    ELSE [s EXCEPT !.y = Rows - 1,
                   !.cell = [i \in Cells |-> IF i < Width * Rows THEN s.cell[i + Width] ELSE Blank]]
scroll(s) ==
    IF s.y < Rows THEN s
    ELSE [s EXCEPT !.y = Rows - 1,
                   !.cell = [i \in Cells |-> CASE i < Width * (Rows - 1) -> s.cell[i + Width]
                                               [] i >= Width * Rows -> s.cell[i]
                                               [] OTHER -> Blank]]

\* Backspace goes back to the row above, but not beyond the first cell.
Back_Fault(s) == [s EXCEPT !.x = IF @ > 0 THEN @ - 1 ELSE @]
Back(s) ==
    IF s.x = 0 /\ s.y > 0 THEN [s EXCEPT !.x = Width - 1, !.y = @ - 1]
                          ELSE [s EXCEPT !.x = IF @ > 0 THEN @ - 1 ELSE @]

Store(s, c) == [s EXCEPT !.cell[At(s.x, s.y)] = c]

\* What a character does before the end of the row and of the screen are looked at.
Moved(s, c) ==
    CASE c = BS -> Store(Back(s), Blank)
      [] c = "\t" -> [s EXCEPT !.x = (@ \div TabStop + 1) * TabStop]
      [] c = "\r" -> [s EXCEPT !.x = 0]
      [] c = "\n" -> [s EXCEPT !.x = 0, !.y = @ + 1]
      [] OTHER -> [Store(s, c) EXCEPT !.x = @ + 1]

Wrapped_Fault(s) == IF s.x > Width THEN [s EXCEPT !.x = 0, !.y = @ + 1] ELSE s
Wrapped(s) == IF s.x >= Width THEN [s EXCEPT !.x = 0, !.y = @ + 1] ELSE s

monitor_put(s, c) == scroll(Wrapped(Moved(s, c)))

\* Text at a place of its own, without the cursor.
monitor_writexy(s, x, y, text) ==
    [s EXCEPT !.cell = [i \in Cells |-> IF i - At(x, y) \in 0..(Len(text) - 1)
                                        THEN text[i - At(x, y) + 1] ELSE @[i]]]

\* The two bytes of the cursor position are put together the wrong way round, and
\* the cursor goes to the row after the one they give.
monitor_init(cell, position) ==
    LET swapped == (position % 256) * 256 + position \div 256 IN
    scroll([cell |-> cell, x |-> 0, y |-> swapped \div Width + 1])
=============================================================================
