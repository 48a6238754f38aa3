-------------------------- MODULE QueueProperties --------------------------
(***************************************************************************)
(* The correctness of the message queues and of do_io().  The model ends   *)
(* when a key or a tick breaks a section (`breached'), so each property is *)
(* about the time before; `lost' says when a wake-up may have been missed. *)
(***************************************************************************)
EXTENDS Queue

Messages == Client \cup (UNION {w.keys : w \in Workload}) \cup {NULL}

Counting(q, sends) == {t \in Task : pc[t] = "count" /\ queue(t) = q /\ Sending(t) = sends}

\* Types, and the lists hold every active task that does not run, once.
TypeOK ==
    /\ running \in Task /\ idle \in BOOLEAN /\ forbid_counter \in 0..(load.leaks + 2)
    /\ NoDuplicates(ready) /\ NoDuplicates(tasks_wait) /\ NoDuplicates(waiters["iorq"])
    /\ ToSet(ready) \cup ToSet(tasks_wait) \cup ToSet(waiters["iorq"])
          = (ToSet(load.clients) \cup {Console}) \ (IF idle THEN {} ELSE {running})
    /\ sigs_waiting = ToSet(tasks_wait) \cup ToSet(waiters["iorq"])
    /\ \A q \in Queues \ {"iorq"} : waiters[q] = <<>>
    /\ created \in SUBSET Queues /\ slow \in SUBSET Task
    /\ msg_list \in [Queues -> Seq(Messages)]
    /\ free_slots \in [Queues -> Int]

\* free_slots counts the free slots, but for the one that the task between its list
\* operation and its count is about to enter: it says what remove_tail() and
\* add_head() may do.
SlotsAgree ==
    \A q \in Queues :
       /\ q \notin created => msg_list[q] = <<>>
       /\ free_slots[q] + Len(msg_list[q])
          = max_slots(q) + Cardinality(Counting(q, TRUE)) - Cardinality(Counting(q, FALSE))

\* A task that goes on to the list has a message to take or a slot to fill, also after a
\* wait that ended for another queue's sake: remove_tail() of an empty list would go
\* through a null pointer.
MoveIsPossible == \A t \in Task : pc[t] = "move" => Possible(t)

\* forbid() excludes: never are two tasks between test, list and count, before an interrupt
\* wakes a task and clears the count of a section.
SectionsExclude ==
    \A t, u \in Task : pc[t] \in {"wait", "move", "count"} /\ pc[u] \in {"wait", "move", "count"} => t = u

\* While the console changes the keyboard queue the interrupt finds no free slot in it:
\* no forbid() keeps it off, only the single slot.
KeysKeepOff ==
    [][Len(msg_list'["keybd"]) > Len(msg_list["keybd"])
          => ~(doing[Console] = "key" /\ pc[Console] \in {"move", "count"})]_vars

\* As long as the console works on a request or answers it, the client is inside do_io(), and
\* the buffer and the reply queue on its side still exist.
RequestStays ==
    (doing[Console] = "key" \/ (doing[Console] = "reply" /\ pc[Console] \in {"call", "move", "count"}))
       => got["iorq"] \in created

\* A receiver sleeps on an empty queue and a sender on a full one, unless a key came between
\* test and wait(), a call that had to wait itself signalled nobody, or the
\* walk over the senders left its list.
BeingServed(q) == \E t \in Task : queue(t) = q /\ pc[t] \in {"count", "next"}
SleepersAreServed ==
    lost = {} =>
       /\ \A t \in ToSet(tasks_wait) : msg_list[queue(t)] = <<>> \/ BeingServed(queue(t))
       /\ waiters["iorq"] = <<>> \/ free_slots["iorq"] = 0 \/ BeingServed("iorq")

\* With no more clients than slots no send ever waits, and only a key can be missed.
EnoughSlots ==
    Len(load.clients) <= load.slots => waiters["iorq"] = <<>> /\ lost \subseteq {"late"}

\* No wake-up is lost but for these reasons, two of which need more clients than slots, and
\* for a tick that breaks a section, where the model ends.
NoLostWakeup == SleepersAreServed /\ EnoughSlots

Chan == INSTANCE Channels WITH
    Channel <- Queues,
    Message <- Messages,
    capacity <- [q \in Queues |-> max_slots(q)],
    content <- [q \in Queues |-> Reverse(msg_list[q])],
    taken <- got

\* The queues implement channels.
ImplementsChannels == Chan!Spec

\* do_io() returns to a client of the console's priority (as kernel_main.c has them), if
\* each client has a slot, somebody ends the line, no wake-up was lost and no interrupt broke
\* a section or halted the processor.  With fewer slots a sender that has been woken may
\* find the slot taken again, for ever.
Answered ==
    \A c \in {t \in Client : pri[t] = pri[Console]} :
       c \in created /\ Len(load.clients) <= load.slots
          ~> c \notin created \/ breached \/ halted \/ lost # {}

\* "Do an syncronous I/O op on a device" (device.h:38): with somebody pressing Enter until it is
\* taken, do_io() comes to an end.
DoIoReturns == \A c \in Client : c \in created ~> c \notin created \/ breached \/ halted
=============================================================================
