------------------------------- MODULE Queue -------------------------------
(***************************************************************************)
(* Message queues (src/queue.c) as the kernel uses them: tasks send I/O    *)
(* requests to the console with do_io() (src/device.c), the keyboard       *)
(* interrupt sends it scancodes, and it answers each request on the reply  *)
(* queue that came with it (src/console.c).                                *)
(*                                                                         *)
(* The subject is the protocol of queue.c on top of wait() and signal(),   *)
(* whose insides are in Sched: here each is one step up to the switch it   *)
(* ends in.  A time slice may end wherever multitasking is enabled; a key  *)
(* may arrive, and a tick may wake the timer task of kernel_main.c,        *)
(* between any two steps, with multitasking disabled too.                  *)
(*                                                                         *)
(* The model ends when a key or a tick takes the processor from a task     *)
(* inside forbid()/permit() (`breached'), when the processor halts inside  *)
(* a tick (`halted'), and when a waiting sender is passed over ("slow" or  *)
(* "walk" in `lost'); it goes on when a key was missed ("late").           *)
(***************************************************************************)
EXTENDS PriorityOrder, FiniteSets

CONSTANTS
    Client,      \* the tasks that call do_io()
    Console,     \* the console task
    NULL,
    Enter,       \* the scancode that ends a line
    Workload     \* clients in the order of the ready list, slots of the request queue,
                 \* the scancodes typed, and a bound on the forbids that keys leave behind

Task == Client \cup {Console}

ASSUME QueueAssumption ==
    /\ \A w \in Workload :
          /\ w.clients \in Seq(Client) /\ NoDuplicates(w.clients)
          /\ w.slots \in Nat \ {0} /\ Enter \in w.keys /\ w.leaks \in Nat
    /\ Console \notin Client /\ NULL \notin Task /\ {"iorq", "keybd"} \cap Client = {}
    /\ pri \in [Task -> Int]

Queues == {"iorq", "keybd"} \cup Client    \* a reply queue has the name of its owner

VARIABLES
    load,            \* the workload of this behaviour
    running, idle,   \* running_task, stale while the processor idles
    ready, tasks_wait,
    sigs_waiting,    \* the tasks that wait for TB_QUEUE
    forbid_counter,
    created,         \* the queues that exist
    msg_list, free_slots, waiters,   \* their fields; msg_list from the head
    got,             \* got[q]: what the last receive from q copied to its caller
    pc,              \* where a task is in queue_send() or queue_recv()
    doing,           \* which call of its program that is
    slow,            \* the tasks whose call had to wait
    aux,             \* the sender the walk of queue_recv() has come to
    breached, halted, lost   \* ghosts: see above

sched == <<running, idle, ready, tasks_wait, waiters, sigs_waiting, forbid_counter>>
vars == <<load, sched, created, msg_list, free_slots, got, pc, doing, slow, aux,
          breached, halted, lost>>

max_slots(q) == IF q = "iorq" THEN load.slots ELSE 1

Init ==
    /\ load \in Workload
    /\ running = Console /\ idle = FALSE /\ ready = load.clients
    /\ tasks_wait = <<>> /\ sigs_waiting = {} /\ forbid_counter = 0
    /\ created = {"iorq", "keybd"}
    /\ msg_list = [q \in Queues |-> <<>>] /\ free_slots = [q \in Queues |-> max_slots(q)]
    /\ waiters = [q \in Queues |-> <<>>] /\ got = [q \in Queues |-> NULL]
    /\ pc = [t \in Task |-> "call"]
    /\ doing = [t \in Task |-> IF t = Console THEN "request" ELSE "send"]
    /\ slow = {} /\ aux = NULL
    /\ breached = FALSE /\ halted = FALSE /\ lost = {}

-----------------------------------------------------------------------------
\* The call a task is in, its queue and its message (a reply has no data).
Sending(t) == doing[t] \in {"send", "reply"}
Blocking_Fault(t) == Sending(t)
Blocking(t) == doing[t] # "reply"
queue(t) ==
    CASE doing[t] \in {"send", "request"} -> "iorq"
      [] doing[t] = "recv" -> t
      [] doing[t] = "key" -> "keybd"
      [] doing[t] = "reply" -> got["iorq"]
Msg(t) == IF doing[t] = "send" THEN t ELSE NULL
owner(q) == IF q \in Client THEN q ELSE Console

\* Room for the message to send, or a message to receive.
Possible_Fault(t) ==
    IF Sending(t) THEN free_slots[queue(t)] > 1 ELSE free_slots[queue(t)] < max_slots(queue(t))
Possible(t) ==
    IF Sending(t) THEN free_slots[queue(t)] > 0 ELSE free_slots[queue(t)] < max_slots(queue(t))

GoesOn == ~breached /\ ~halted /\ lost \subseteq {"late"}
Runs(t) == running = t /\ ~idle /\ GoesOn
Goto(t, label) == pc' = [pc EXCEPT ![t] = label]

\* The dispatcher takes the head of the ready list r, or idles.
Switch(r) ==
    /\ idle' = (r = <<>>)
    /\ running' = IF r = <<>> THEN running ELSE Head(r)
    /\ ready' = IF r = <<>> THEN r ELSE Tail(r)

\* signal(x, TB_QUEUE): a task that waits for it becomes ready, and the caller
\* yields to one of its own priority or higher.
Outranks(x) == pri[running] <= pri[x]
Signal(x) ==
    IF x \in sigs_waiting
    THEN LET woken == Insert(ready, x) IN
         /\ sigs_waiting' = sigs_waiting \ {x}
         /\ tasks_wait' = Without(tasks_wait, x)
         /\ waiters' = [q \in Queues |-> Without(waiters[q], x)]
         /\ forbid_counter' = IF Outranks(x) THEN 0 ELSE forbid_counter
         /\ \/ idle /\ Switch(woken)
            \/ ~idle /\ Outranks(x) /\ Switch(Insert(woken, running))
            \/ ~idle /\ ~Outranks(x) /\ ready' = woken /\ UNCHANGED <<running, idle>>
    ELSE UNCHANGED sched

-----------------------------------------------------------------------------
\* The callers.  do_io() creates a reply queue, sends its request, receives the
\* reply and destroys the queue; the console receives a request, keys up to the end
\* of the line, and sends the reply.
Then_Fault(d) == CASE d = "request" -> "key"
                   [] d = "key" -> IF got["keybd"] = Enter THEN "request" ELSE "key"
                   [] d = "reply" -> "request"
                   [] d = "send" -> "recv"
                   [] d = "recv" -> "send"
Then(d) == CASE d = "request" -> "key"
             [] d = "key" -> IF got["keybd"] = Enter THEN "reply" ELSE "key"
             [] d = "reply" -> "request"
             [] d = "send" -> "recv"
             [] d = "recv" -> "send"

Return(t) ==
    /\ doing' = [doing EXCEPT ![t] = Then(@)] /\ Goto(t, "call")
    /\ created' = IF doing[t] = "recv" THEN created \ {t} ELSE created

-----------------------------------------------------------------------------
\* Entry of either routine: forbid() and the test.  A non-blocking send to a full
\* queue returns at once, with multitasking disabled.
Call(t) ==
    /\ Runs(t) /\ pc[t] = "call"
    /\ forbid_counter' = forbid_counter + 1
    /\ \/ /\ Possible(t) \/ Blocking(t)
          /\ Goto(t, IF Possible(t) THEN "move" ELSE "wait")
          /\ created' = IF doing[t] = "send" THEN created \cup {t} ELSE created
          /\ UNCHANGED doing
       \/ ~Possible(t) /\ ~Blocking(t) /\ Return(t)
    /\ UNCHANGED <<load, running, idle, ready, tasks_wait, waiters, sigs_waiting,
                   msg_list, free_slots, got, slow, aux, breached, halted, lost>>

\* wait(): senders wait with the queue, receivers in tasks_wait.
Wait(t) ==
    /\ Runs(t) /\ pc[t] = "wait"
    /\ sigs_waiting' = sigs_waiting \cup {t}
    /\ \/ /\ Sending(t) /\ waiters' = [waiters EXCEPT ![queue(t)] = Insert(@, t)]
          /\ UNCHANGED tasks_wait
       \/ /\ ~Sending(t) /\ tasks_wait' = Insert(tasks_wait, t)
          /\ UNCHANGED waiters
    /\ forbid_counter' = 0 /\ Switch(ready)
    /\ slow' = slow \cup {t}
    /\ Goto(t, "woken")
    /\ UNCHANGED <<load, created, msg_list, free_slots, got, doing, aux, breached, halted, lost>>

\* Back from wait(): forbid() and the test again.
Retry_Fault(t) == "move"
Retry(t) == IF Possible(t) THEN "move" ELSE "wait"

Woken(t) ==
    /\ Runs(t) /\ pc[t] = "woken"
    /\ forbid_counter' = forbid_counter + 1
    /\ Goto(t, Retry(t))
    /\ UNCHANGED <<load, running, idle, ready, tasks_wait, waiters, sigs_waiting, created,
                   msg_list, free_slots, got, doing, slow, aux, breached, halted, lost>>

\* The message goes in at the head, or comes out at the tail.
Remaining_Fault(s) == Tail(s)
Remaining(s) == Front(s)

Move(t) ==
    LET q == queue(t) IN
    /\ Runs(t) /\ pc[t] = "move"
    /\ \/ /\ Sending(t) /\ msg_list' = [msg_list EXCEPT ![q] = <<Msg(t)>> \o @]
          /\ UNCHANGED got
       \/ /\ ~Sending(t) /\ msg_list' = [msg_list EXCEPT ![q] = Remaining(@)]
          /\ got' = [got EXCEPT ![q] = Last(msg_list[q])]
    /\ Goto(t, "count")
    /\ UNCHANGED <<load, sched, created, free_slots, doing, slow, aux, breached, halted, lost>>

\* free_slots changes.  A call that did not have to wait signals the owner when
\* the queue was empty, the first waiting sender when it was full; one that had
\* to wait signals nobody.
WasEdge_Fault(t) == free_slots[queue(t)] = IF Sending(t) THEN 0 ELSE max_slots(queue(t))
WasEdge(t) == free_slots[queue(t)] = IF Sending(t) THEN max_slots(queue(t)) ELSE 0

FreeAfter_Fault(t) ==
    LET free == free_slots[queue(t)] IN
    IF t \in slow THEN free ELSE IF Sending(t) THEN free - 1 ELSE free + 1
FreeAfter(t) ==
    LET free == free_slots[queue(t)] IN IF Sending(t) THEN free - 1 ELSE free + 1

Partner(t) ==
    CASE Sending(t) -> owner(queue(t))
      [] ~Sending(t) /\ waiters[queue(t)] # <<>> -> Head(waiters[queue(t)])
      [] OTHER -> NULL

\* Somebody sleeps for what t has just done to its queue.
Sleeps(t) ==
    IF Sending(t) THEN Console \in sigs_waiting /\ queue(Console) = queue(t)
                  ELSE waiters[queue(t)] # <<>>

Count(t) ==
    /\ Runs(t) /\ pc[t] = "count"
    /\ free_slots' = [free_slots EXCEPT ![queue(t)] = FreeAfter(t)]
    /\ \/ /\ t \notin slow /\ WasEdge(t) /\ Partner(t) # NULL
          /\ Signal(Partner(t))
          /\ aux' = IF Sending(t) THEN aux ELSE Partner(t)
          /\ Goto(t, IF Sending(t) THEN "permit" ELSE "next")
       \/ /\ t \in slow \/ ~WasEdge(t) \/ Partner(t) = NULL
          /\ Goto(t, "permit")
          /\ UNCHANGED <<sched, aux>>
    /\ lost' = IF t \in slow /\ WasEdge(t) /\ Sleeps(t) THEN lost \cup {"slow"} ELSE lost
    /\ UNCHANGED <<load, created, msg_list, got, doing, slow, breached, halted>>

\* The walk goes on behind the sender just signalled, in whatever list that is now.
ListOf(x) ==
    CHOOSE s \in {ready, tasks_wait} \cup {waiters[q] : q \in Queues} : x \in ToSet(s)

NextWaiter(t) ==
    LET next == After(ListOf(aux), aux, NULL) IN
    /\ Runs(t) /\ pc[t] = "next"
    /\ aux' = next
    /\ \/ next # NULL /\ Signal(next) /\ UNCHANGED <<pc, lost>>
       \/ /\ next = NULL /\ Goto(t, "permit")
          /\ lost' = IF free_slots[queue(t)] > 0 /\ Sleeps(t) THEN lost \cup {"walk"} ELSE lost
          /\ UNCHANGED sched
    /\ UNCHANGED <<load, created, msg_list, free_slots, got, doing, slow, breached, halted>>

Permit(t) ==
    /\ Runs(t) /\ pc[t] = "permit"
    /\ forbid_counter' = IF forbid_counter > 0 THEN forbid_counter - 1 ELSE 0
    /\ slow' = slow \ {t}
    /\ Return(t)
    /\ UNCHANGED <<load, running, idle, ready, tasks_wait, waiters, sigs_waiting,
                   msg_list, free_slots, got, aux, breached, halted, lost>>

-----------------------------------------------------------------------------
\* A time slice ends, if multitasking is enabled.
Multitasking_Fault == forbid_counter <= 1
Multitasking == forbid_counter = 0

TimeSlice ==
    /\ ~idle /\ GoesOn /\ Multitasking /\ ready # <<>>
    /\ Switch(Insert(ready, running))
    /\ UNCHANGED <<load, tasks_wait, waiters, sigs_waiting, forbid_counter, created, msg_list,
                   free_slots, got, pc, doing, slow, aux, breached, halted, lost>>

\* keypress_isr(): a non-blocking send from the keyboard interrupt.
HasRoom_Fault == msg_list["keybd"] = <<>>
HasRoom == free_slots["keybd"] > 0
InSection(t) == pc[t] \in {"wait", "move", "count", "next", "permit"}

KeyPress(k) ==
    /\ GoesOn /\ HasRoom
    /\ msg_list' = [msg_list EXCEPT !["keybd"] = <<k>> \o @]
    /\ free_slots' = [free_slots EXCEPT !["keybd"] = @ - 1]
    /\ IF free_slots["keybd"] = max_slots("keybd") THEN Signal(Console) ELSE UNCHANGED sched
    /\ breached' = (~idle /\ InSection(running) /\ running' # running)
    /\ lost' = IF pc[Console] = "wait" /\ doing[Console] = "key" THEN lost \cup {"late"} ELSE lost
    /\ UNCHANGED <<load, created, got, pc, doing, slow, aux, halted>>

\* A key nobody has room for is dropped, and leaves multitasking disabled.
KeyDropped ==
    /\ GoesOn /\ ~HasRoom /\ forbid_counter < load.leaks
    /\ forbid_counter' = forbid_counter + 1
    /\ UNCHANGED <<load, running, idle, ready, tasks_wait, waiters, sigs_waiting, created,
                   msg_list, free_slots, got, pc, doing, slow, aux, breached, halted, lost>>

\* A tick wakes the timer task, which outranks the others and touches no queue: before one
\* of them goes on it has run and called delay() again.  signal() has cleared
\* forbid_counter, whoever had forbidden.  A next tick may catch the timer task between
\* the permit() and the yield() of its wait(): if nobody else is ready, the
\* processor then idles inside the timer interrupt, where nothing wakes it.
TimerTask ==
    /\ GoesOn
    /\ forbid_counter' = 0
    /\ \/ ~idle /\ Switch(Insert(ready, running)) /\ breached' = InSection(running)
          /\ UNCHANGED halted
       \/ idle /\ halted' \in BOOLEAN
          /\ UNCHANGED <<running, idle, ready, breached>>
    /\ UNCHANGED <<load, tasks_wait, waiters, sigs_waiting, created, msg_list, free_slots, got,
                   pc, doing, slow, aux, lost>>

-----------------------------------------------------------------------------
TaskStep(t) ==
    \/ Call(t) \/ Wait(t) \/ Woken(t)
    \/ Move(t) \/ Count(t) \/ NextWaiter(t) \/ Permit(t)

Next ==
    \/ \E t \in Task : TaskStep(t)
    \/ TimeSlice \/ TimerTask
    \/ \E k \in load.keys : KeyPress(k)
    \/ KeyDropped

Spec == Init /\ [][Next]_vars

\* A task that gets the processor again and again proceeds (the boot task asks for
\* the next line when it has one), and somebody keeps pressing Enter until it
\* is taken.
FairSpec ==
    /\ Spec
    /\ \A t \in Task : SF_vars(TaskStep(t))
    /\ SF_vars(KeyPress(Enter))
=============================================================================
