----------------------------- MODULE LineInput ------------------------------
(***************************************************************************)
(* What a read from the console promises: the characters typed, less those *)
(* taken back, up to a limit.  The line stays until the next read.         *)
(***************************************************************************)
EXTENDS Integers, Sequences, SequencesExt

CONSTANTS Printable, MaxLine

VARIABLES reading, line

Init == reading = FALSE /\ line = <<>>

Begin == ~reading /\ reading' = TRUE /\ line' = <<>>
Type(c) == reading /\ Len(line) < MaxLine /\ line' = Append(line, c) /\ UNCHANGED reading
Erase == reading /\ line # <<>> /\ line' = Front(line) /\ UNCHANGED reading
Finish == reading /\ reading' = FALSE /\ UNCHANGED line

Next == Begin \/ Erase \/ Finish \/ \E c \in Printable : Type(c)

Spec == Init /\ [][Next]_<<reading, line>>
=============================================================================
