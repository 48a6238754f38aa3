----------------------------- MODULE MC_Format -----------------------------
(***************************************************************************)
(* TLC instance of Format: ints of eight bits in every conversion with     *)
(* the flags, widths and precisions that differ, the format of the clock,  *)
(* and every two strings of up to three letters.                           *)
(***************************************************************************)
EXTENDS FormatProperties

Specs ==
    [flags : SUBSET {"ZEROPAD", "PLUS", "SPACE", "LEFT", "SPECIAL"}, width : {-1, 3, 6},
     precision : {-1, 0, 2}, conv : {"d", "u", "x", "X", "o", "b", "p"}]
TextSpecs ==
    [flags : {{}, {"LEFT"}, {"ZEROPAD"}}, width : {-1, 2, 4}, precision : {-1, 0, 1, 3}, conv : {"c", "s"}]
Letters == {"a", "b"}
Texts == UNION {[1..n -> Letters] : n \in 0..3}
WidthArgument == <<[flags |-> {}, width |-> Star, precision |-> -1, conv |-> "d"]>>

AllCalls ==
    {[op |-> "vsprintf", fmt |-> <<f>>, args |-> <<[num |-> n]>>] : f \in Specs, n \in {-128, -127, -1, 0, 1, 127}}
    \cup {[op |-> "vsprintf", fmt |-> <<f>>, args |-> <<[text |-> IF f.conv = "c" THEN <<"a">> ELSE t]>>] :
             f \in TextSpecs, t \in Texts}
    \cup {[op |-> "vsprintf", fmt |-> Clock, args |-> <<[num |-> h], [num |-> m], [num |-> n]>>] :
             h \in {0, 100}, m \in {0, 59}, n \in {5, 30}}
    \cup {[op |-> "vsprintf", fmt |-> WidthArgument, args |-> <<[num |-> 3], [num |-> 1]>>]}
    \cup {[op |-> o, num |-> n] : o \in {"hex", "dec"}, n \in 0..255}
    \cup {[op |-> "strcmp", left |-> s, right |-> t] : s \in Texts, t \in Texts}
=============================================================================
