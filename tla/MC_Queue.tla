------------------------------ MODULE MC_Queue ------------------------------
(***************************************************************************)
(* TLC instances of Queue: two clients of the console's priority that have *)
(* a slot each, with keys that leave one forbid() behind; and three        *)
(* clients of falling priority for one slot, where senders wait.           *)
(***************************************************************************)
EXTENDS QueueProperties

CONSTANTS c1, c2, low1, low2

Priority == [t \in Task |-> CASE t = low1 -> -1 [] t = low2 -> -2 [] OTHER -> 0]

Workloads ==
    {[clients |-> <<c1, c2>>, slots |-> 2, keys |-> {"char", Enter}, leaks |-> 1],
     [clients |-> <<c1, low1, low2>>, slots |-> 1, keys |-> {Enter}, leaks |-> 0]}

\* The boot task alone.
OneClient == {[clients |-> <<c1>>, slots |-> 2, keys |-> {Enter}, leaks |-> 0]}
=============================================================================
