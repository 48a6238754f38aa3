----------------------------- MODULE BlockStore -----------------------------
(***************************************************************************)
(* What kmalloc() and kfree() promise their callers: a request is answered *)
(* with a block of at least that size which no other holder's block        *)
(* overlaps, and a block stays its holder's until it is given back.        *)
(* `spoiled' marks the end of the promise.                                 *)
(***************************************************************************)
EXTENDS Integers

CONSTANTS Client, Request

VARIABLES
    blocks,   \* the blocks handed out: sets of addresses that are runs from `at'
    wanted,   \* wanted[c]: what client c waits for, 0 for nothing
    spoiled

vars == <<blocks, wanted, spoiled>>

Block == [at: Nat, length: Nat]
Cells(b) == b.at..(b.at + b.length - 1)

Init == blocks = {} /\ wanted = [c \in Client |-> 0] /\ spoiled = FALSE

Ask(c, n) ==
    /\ wanted[c] = 0
    /\ wanted' = [wanted EXCEPT ![c] = n]
    /\ UNCHANGED <<blocks, spoiled>>

Answer(c) ==
    /\ wanted[c] # 0
    /\ wanted' = [wanted EXCEPT ![c] = 0]
    /\ \E new \in blocks' \ blocks :
          /\ new \in Block /\ new.length >= wanted[c]
          /\ blocks' = blocks \cup {new}
          /\ \A b \in blocks : Cells(b) \cap Cells(new) = {}
    /\ UNCHANGED spoiled

GiveBack(b) ==
    /\ blocks' = blocks \ {b}
    /\ UNCHANGED <<wanted, spoiled>>

Spoil == ~spoiled /\ spoiled'

Next ==
    \/ \E c \in Client : Answer(c) \/ \E n \in Request : Ask(c, n)
    \/ \E b \in blocks : GiveBack(b)
    \/ Spoil

Spec == Init /\ [][Next]_vars
=============================================================================
