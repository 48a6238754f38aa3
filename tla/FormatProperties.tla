-------------------------- MODULE FormatProperties -------------------------
(***************************************************************************)
(* The correctness of formatted output, and what a comment says of string  *)
(* comparison.                                                             *)
(***************************************************************************)
EXTENDS Format

Chars(s) == {s[k] : k \in DOMAIN s}
Numeric(f) == "plain" \notin DOMAIN f /\ f.conv \notin {"c", "s"} /\ f.width # Star
OneConversion == returned /\ call.op = "vsprintf" /\ Len(call.fmt) = 1

\* The digits in a text, read as a number; signs, padding and "0x" are not digits, and
\* leading zeros do not count.
Digit(c, base) == CHOOSE d \in 0..(base - 1) : c \in {Lower[d + 1], Upper[d + 1]}
IsDigit(c, base) == c \in {Lower[d + 1] : d \in 0..(base - 1)} \cup {Upper[d + 1] : d \in 0..(base - 1)}
Reading(s, base) ==
    LET upto[k \in 0..Len(s)] ==
            CASE k = 0 -> 0
              [] k > 0 /\ IsDigit(s[k], base) -> upto[k - 1] * base + Digit(s[k], base)
              [] OTHER -> upto[k - 1]
    IN  upto[Len(s)]

\* Every number comes out as itself in every base, width, precision and flag: the least int,
\* whose negation overflows, and negative numbers printed without sign included; and so do the numbers of the clock, in their order.
ReadsBack ==
    /\ OneConversion /\ Numeric(call.fmt[1]) =>
          LET f == call.fmt[1]  num == call.args[1].num IN
          /\ Reading(output, Base(f.conv))
                = IF f.conv = "d" THEN (IF num < 0 THEN -num ELSE num) ELSE Unsigned(num)
          /\ "-" \in Chars(output) <=> f.conv = "d" /\ num < 0
    /\ returned /\ call.op = "vsprintf" /\ call.fmt = Clock =>
          LET n == Len(output) IN
          /\ n > 6 /\ output[n - 5] = ":" /\ output[n - 2] = ":"
          /\ Reading(SubSeq(output, 1, n - 6), 10) = call.args[1].num
          /\ Reading(SubSeq(output, n - 4, n - 3), 10) = call.args[2].num
          /\ Reading(SubSeq(output, n - 1, n), 10) = call.args[3].num
    /\ returned /\ call.op \in {"dec", "hex"} =>
          Reading(output, IF call.op = "dec" THEN 10 ELSE 16) = call.num

\* A field is as wide as its width and no wider than it must be, and padding never comes
\* between a sign or "0x" and the left end of zeros, nor between digits.
FieldsFilled ==
    OneConversion /\ call.fmt[1].width # Star =>
       LET f == call.fmt[1]
           width == IF f.conv = "p" /\ f.width = -1 THEN 8 ELSE f.width
           bare == Convert([f EXCEPT !.width = 0], call.args[1])
           pad == Len(output) - Len(bare)
           zeros == /\ Numeric(f) /\ "LEFT" \notin f.flags
                    /\ "ZEROPAD" \in f.flags \/ (f.conv = "p" /\ f.width = -1)
       IN  /\ Len(output) = AtLeast(width, Len(bare))
           /\ \/ zeros /\ \E n \in 0..Len(bare) :
                    /\ \A k \in (n + 1)..Len(bare) : IsDigit(bare[k], 16)
                    /\ output = SubSeq(bare, 1, n) \o Repeat("0", pad) \o SubSeq(bare, n + 1, Len(bare))
              \/ ~zeros /\ "LEFT" \in f.flags /\ output = bare \o Repeat(Blank, pad)
              \/ ~zeros /\ "LEFT" \notin f.flags /\ output = Repeat(Blank, pad) \o bare

\* Numbers are what was passed, in fields as wide as asked for.
PrintsAsAsked == ReadsBack /\ FieldsFilled

\* What a comment says of strcmp(), "Should return -1 if str1 < str2, 0 if they are equal or 1
\* otherwise" (common.c:39): it answers 0 for equal strings and for no others.
TellsNamesApart == returned /\ call.op = "strcmp" => (output = <<0>> <=> call.left = call.right)
=============================================================================
