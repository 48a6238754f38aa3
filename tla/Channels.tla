------------------------------ MODULE Channels ------------------------------
(***************************************************************************)
(* What queue.c promises: a queue is a channel of bounded length that      *)
(* hands every message to its receiver once, in the order of the sends.    *)
(***************************************************************************)
EXTENDS Integers, Sequences

CONSTANTS Channel, Message

VARIABLES
    capacity,  \* capacity[c]: the length of c never exceeds it
    content,   \* content[c]: the messages in c, the oldest first
    taken      \* taken[c]: the last one received from it

vars == <<capacity, content, taken>>

Init ==
    /\ capacity \in [Channel -> Nat \ {0}]
    /\ content = [c \in Channel |-> <<>>]
    /\ taken \in [Channel -> Message]

Send(c, m) ==
    /\ Len(content[c]) < capacity[c]
    /\ content' = [content EXCEPT ![c] = Append(@, m)]
    /\ UNCHANGED <<capacity, taken>>

Receive(c) ==
    /\ content[c] # <<>>
    /\ taken' = [taken EXCEPT ![c] = Head(content[c])]
    /\ content' = [content EXCEPT ![c] = Tail(@)]
    /\ UNCHANGED capacity

Next == \E c \in Channel : Receive(c) \/ \E m \in Message : Send(c, m)

Spec == Init /\ [][Next]_vars
=============================================================================
