------------------------- MODULE ConsoleProperties -------------------------
(***************************************************************************)
(* The correctness of the line editor, of the screen and of the clock.     *)
(***************************************************************************)
EXTENDS Console

Characters == Printable \cup Range(Prompt) \cup Range(Unknown) \cup {Blank, "boot"}

\* Types: cursor and buffer index stay inside the text rows and the buffer, for whatever is
\* typed.
TypeOK ==
    /\ screen.x \in 0..(Width - 1) /\ screen.y \in 0..(Rows - 1)
    /\ DOMAIN screen.cell = Cells
    /\ \A k \in 0..(Width * Rows - 1) : screen.cell[k] \in Characters
    /\ i \in Index /\ buf \in [Index -> Printable \cup {NUL}]
    /\ seconds \in 0..(Base - 1) /\ mins \in 0..(Base - 1)

\* While a line is edited, the prompt and the line stand before the cursor, whatever was
\* erased, and however often it crossed the end of a row and the screen scrolled.
Before(n) == [k \in 1..n |-> screen.cell[At(screen.x, screen.y) - n + k - 1]]
ScreenShowsLine ==
    console = "edit" =>
       /\ At(screen.x, screen.y) >= Len(Prompt) + i
       /\ Before(Len(Prompt) + i) = Prompt \o Text(buf, i)

\* The boot task prints, and looks at the buffer, only while the console does neither.
OneWriter == boot = "prompt" => console = "request" /\ ~requested /\ ~replied

\* Nothing the others print touches the status line, and it shows the time of the
\* last write.
StatusShowsTime ==
    \A x \in 0..(Width - 1) :
       screen.cell[At(x, Rows)] =
          LET t == elapsed - 1 IN
          IF elapsed = 0 \/ x \notin ClockX..(ClockX + 2) THEN Blank
          ELSE CASE x = ClockX -> Digits(t \div (Base * Base))
                 [] x = ClockX + 1 -> Digits((t \div Base) % Base)
                 [] x = ClockX + 2 -> Digits(t % Base)

\* The line is what stands before the index, and after the end of a read what strlen() makes
\* of the buffer.
Editing == console \in {"edit", "newline"}
Lines == INSTANCE LineInput WITH
    MaxLine <- io_sz - 1,
    reading <- Editing,
    line <- Text(buf, IF Editing THEN i ELSE strlen(buf))

\* A read returns the characters typed less those taken back, without a rest of
\* earlier lines.
ImplementsLineInput == Lines!Spec
=============================================================================
