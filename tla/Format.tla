------------------------------- MODULE Format -------------------------------
(***************************************************************************)
(* Formatted output: number() and the conversions of vsprintf()            *)
(* (src/vsprintf.c), the numbers of src/monitor.c and strcmp() of          *)
(* src/common.c, one call per behaviour.  A format is a sequence of plain  *)
(* characters and of conversion specifications, which come parsed.         *)
(***************************************************************************)
EXTENDS Integers, FiniteSets, Sequences, SequencesExt

CONSTANTS
    Nibbles,   \* of an int: 8
    Calls      \* [op, fmt, args] for vsprintf(), [op, num] and [op, left, right] for the others

\* The number of values of k nibbles, 16^k.
Values(k) == LET power[i \in Nat] == IF i = 0 THEN 1 ELSE 16 * power[i - 1] IN power[k]
Limit == Values(Nibbles) \div 2
Ints == -Limit..(Limit - 1)

Specifications ==
    [flags : SUBSET {"ZEROPAD", "PLUS", "SPACE", "LEFT", "SPECIAL"}, width : Int, precision : Int,
     conv : {"c", "s", "d", "u", "x", "X", "o", "b", "p"}]

\* An argument is what its conversion takes: a text (of one character for %c) or an int.
Suits(f, a) ==
    CASE f.conv = "c" -> a.text \in Seq(STRING) /\ Len(a.text) = 1
      [] f.conv = "s" -> a.text \in Seq(STRING)
      [] OTHER -> a.num \in Ints

\* The format of timer_task(): hours, minutes and seconds.
Clock ==
    LET d == [flags |-> {}, width |-> -1, precision |-> -1, conv |-> "d"]
        dd == [flags |-> {"ZEROPAD"}, width |-> 2, precision |-> -1, conv |-> "d"]
        colon == [plain |-> ":"]
    IN  <<d, colon, dd, colon, dd>>

Star == -2   \* the width of "%*d"

\* The calls the properties speak of: one conversion, the clock, a number, two strings.
ASSUME FormatAssumption ==
    /\ Nibbles \in Nat \ {0}
    /\ \A c \in Calls :
          /\ c.op = "vsprintf" /\ Len(c.fmt) = 1 =>
                c.fmt[1] \in Specifications /\ (c.fmt[1].width # Star => Suits(c.fmt[1], c.args[1]))
          /\ c.op = "vsprintf" /\ c.fmt = Clock =>
                /\ c.args \in Seq([num : Ints]) /\ Len(c.args) = 3
                /\ c.args[1].num >= 0 /\ c.args[2].num \in 0..59 /\ c.args[3].num \in 0..59
          /\ c.op \in {"hex", "dec"} => c.num \in 0..(Values(Nibbles) - 1)
          /\ c.op = "strcmp" => c.left \in Seq(STRING) /\ c.right \in Seq(STRING)

VARIABLES call, returned, output

vars == <<call, returned, output>>

Unsigned(n) == n % Values(Nibbles)

Lower == <<"0", "1", "2", "3", "4", "5", "6", "7", "8", "9", "a", "b", "c", "d", "e", "f">>
Upper == <<"0", "1", "2", "3", "4", "5", "6", "7", "8", "9", "A", "B", "C", "D", "E", "F">>

Blank == " "
Repeat(c, n) == [k \in 1..n |-> c]
AtLeast(m, n) == IF m > n THEN m ELSE n

\* do_div() divides without sign; the least digit comes first, 0 has one digit.
digits(n, base, table) ==
    LET from[m \in Nat] == IF m = 0 THEN <<>> ELSE <<table[(m % base) + 1]>> \o from[m \div base]
    IN  IF n = 0 THEN <<"0">> ELSE from[n]

\* -num of the least int is that int again, which do_div() takes as Limit.
Negative(num, type) == "SIGN" \in type /\ num < 0
Magnitude_Fault(num, type) == IF Negative(num, type) THEN (-num) % Limit ELSE Unsigned(num)
Magnitude(num, type) == Unsigned(IF Negative(num, type) THEN -num ELSE num)

Sign(num, type) ==
    IF Negative(num, type) THEN <<"-">>
    ELSE IF "PLUS" \in type THEN <<"+">>
    ELSE IF "SPACE" \in type THEN <<Blank>> ELSE <<>>

Special(base, type) ==
    CASE "SPECIAL" \in type /\ base = 16 -> IF "SMALL" \in type THEN <<"0", "x">> ELSE <<"0", "X">>
      [] "SPECIAL" \in type /\ base = 8 -> <<"0">>
      [] OTHER -> <<>>

\* Spaces before the sign, or zeros behind the prefix, or spaces at the end.
Padded_Fault(pad, type, head, body) ==
    IF "LEFT" \in type THEN head \o body \o Repeat(Blank, pad)
    ELSE IF "ZEROPAD" \in type THEN Repeat("0", pad) \o head \o body
    ELSE Repeat(Blank, pad) \o head \o body
Padded(pad, type, head, body) ==
    IF "LEFT" \in type THEN head \o body \o Repeat(Blank, pad)
    ELSE IF "ZEROPAD" \in type THEN head \o Repeat("0", pad) \o body
    ELSE Repeat(Blank, pad) \o head \o body

number(num, base, size, precision, type) ==
    LET ds == digits(Magnitude(num, type), base, IF "SMALL" \in type THEN Lower ELSE Upper)
        head == Sign(num, type) \o Special(base, type)
        body == Repeat("0", precision - Len(ds)) \o Reverse(ds)
    IN  Padded(AtLeast(size - Len(head) - Len(body), 0), type, head, body)

\* Characters and strings are padded with spaces, whatever the flags.
Cut(s, precision) == IF precision < 0 \/ Len(s) <= precision THEN s ELSE SubSeq(s, 1, precision)
Justified(s, width, flags) == Padded(AtLeast(width - Len(s), 0), flags \cap {"LEFT"}, <<>>, s)

Base(conv) ==
    CASE conv = "o" -> 8 [] conv = "b" -> 2 [] conv \in {"p", "x", "X"} -> 16 [] OTHER -> 10

\* One conversion of argument a, a number or a text (of one character for %c).
Convert(f, a) ==
    CASE f.conv = "c" -> Justified(a.text, f.width, f.flags)
      [] f.conv = "s" -> Justified(Cut(a.text, f.precision), f.width, f.flags)
      [] f.conv = "p" /\ f.width = -1 -> number(a.num, 16, 8, f.precision, f.flags \cup {"ZEROPAD"})
      [] OTHER -> number(a.num, Base(f.conv), f.width, f.precision,
                         f.flags \cup (IF f.conv = "x" THEN {"SMALL"} ELSE {})
                                 \cup (IF f.conv = "d" THEN {"SIGN"} ELSE {}))

\* One item of a format.  A width of '*' takes an argument, but the scan stays at the
\* star: it and the rest of the specification are printed.
Item(done, f) ==
    CASE "plain" \in DOMAIN f -> [done EXCEPT !.out = Append(@, f.plain)]
      [] "plain" \notin DOMAIN f /\ f.width = Star ->
            [out |-> done.out \o <<"%", "*", f.conv>>, args |-> Tail(done.args)]
      [] OTHER -> [out |-> done.out \o Convert(f, Head(done.args)), args |-> Tail(done.args)]

vsprintf(fmt, args) ==
    LET done[k \in 0..Len(fmt)] ==
            IF k = 0 THEN [out |-> <<>>, args |-> args] ELSE Item(done[k - 1], fmt[k])
    IN  done[Len(fmt)].out

-----------------------------------------------------------------------------
\* From the most significant nibble on; a 0 before anything is printed is left out, the
\* last one too.
monitor_write_hex(n) ==
    LET nibble(k) == (n \div Values(Nibbles - k)) % 16
        printed[k \in 0..Nibbles] ==
            CASE k = 0 -> <<>>
              [] k > 0 /\ nibble(k) = 0 /\ printed[k - 1] = <<>> -> <<>>
              [] OTHER -> Append(printed[k - 1], Lower[nibble(k) + 1])
    IN  <<"0", "x">> \o printed[Nibbles]

monitor_write_dec(n) == Reverse(digits(n, 10, Lower))

\* Both pointers have gone past a mismatch when the ends are looked at.
strcmp(s, t) ==
    LET k == CHOOSE k \in 1..(Len(s) + 1) :
                /\ k > Len(s) \/ k > Len(t) \/ s[k] # t[k]
                /\ \A j \in 1..(k - 1) : j <= Len(t) /\ s[j] = t[j]
        end == IF k > Len(s) \/ k > Len(t) THEN k ELSE k + 1
    IN  CASE end > Len(s) /\ end > Len(t) -> 0
          [] end > Len(s) /\ end <= Len(t) -> -1
          [] OTHER -> 1

-----------------------------------------------------------------------------
Result(c) ==
    CASE c.op = "vsprintf" -> vsprintf(c.fmt, c.args)
      [] c.op = "hex" -> monitor_write_hex(c.num)
      [] c.op = "dec" -> monitor_write_dec(c.num)
      [] c.op = "strcmp" -> <<strcmp(c.left, c.right)>>

Init == call \in Calls /\ returned = FALSE /\ output = <<>>
Return == ~returned /\ returned' = TRUE /\ output' = Result(call) /\ UNCHANGED call
Spec == Init /\ [][Return]_vars
=============================================================================
