------------------------------- MODULE Sched -------------------------------
(***************************************************************************)
(* The scheduler of the kernel on its single CPU: tasks, the forbid count, *)
(* wait()/signal(), the timer and keyboard interrupts, system calls and    *)
(* the dispatcher (src/task.c, timer.c, idt.c, syscalls.c, and the parts   *)
(* of queue.c and console.c that block and wake tasks).                    *)
(*                                                                         *)
(* Granularity: an action is a stretch of code no interrupt can split (IF  *)
(* is 0, or it is a single access to shared state); between two actions    *)
(* any deliverable interrupt may come.  The lists are the sequences of     *)
(* PriorityOrder, which the pointers of ExecList implement.                *)
(*                                                                         *)
(* Three levels of execution stack on top of the running task: a system    *)
(* call, the keyboard interrupt (IRQ1) and the timer interrupt (IRQ0).     *)
(* The interrupt controller gets its EOI at the very end of irq_handler(), *)
(* so IRQ1 cannot come while IRQ0 or IRQ1 is in service, IRQ0 cannot come  *)
(* while IRQ0 is.  A level that has idled goes on with interrupts enabled: *)
(* behind its EOI it is the level "resume", which any interrupt may enter. *)
(***************************************************************************)
EXTENDS PriorityOrder, FiniteSets

CONSTANTS
    Task,       \* task structures
    NoTask,     \* a NULL task pointer
    Boot,       \* the task init() makes the running one
    Created,    \* the tasks init() creates, in the order of the ready list
    Owner,      \* the task that owns the keyboard queue
    May,        \* May[t]: the calls task t makes
    Delays,     \* the arguments of delay()
    TickRange,  \* task_delay is a number modulo TickRange (2^32 in the code)
    MaxSlots,   \* max_slots of the keyboard queue
    MaxForbid   \* bound: no keypress is taken at a forbid_counter this high

Calls == {"delay", "recv", "post", "create", "destroy", "heap"}

ASSUME SchedAssumption ==
    /\ NoTask \notin Task
    /\ Boot \in Task /\ Owner \in Task
    /\ Created \in Seq(Task \ {Boot})
    /\ May \in [Task -> SUBSET Calls]
    /\ pri \in [Task -> Int]
    /\ NoDuplicates(Created) /\ ByPriority(Created)
    /\ TickRange \in Nat \ {0} /\ Delays \subseteq 0..(TickRange - 1)
    /\ MaxSlots \in Nat \ {0} /\ MaxForbid \in Nat

Signals == {"TB_DELAY", "TB_QUEUE"}
Flags == {"TS_RUN", "TS_READY"}

\* Where a task is in the code it runs: the statement it executes next.
WaitPC == {"w_forbid", "w_sigs", "w_recvd", "w_flags", "w_lock", "w_enq",
           "w_unlock", "w_permit", "w_yield", "w_ret"}
RecvPC == {"r_forbid", "r_check", "r_permit", "r_again", "r_loop"}
PostPC == {"p_forbid", "s_check", "s_set", "s_remove", "s_enq", "s_permit",
           "s_cmp", "s_yield", "p_permit", "p_yielded"}
MakePC == {"c_forbid", "c_enq", "c_permit", "d_forbid", "d_remove", "d_permit"}
PC == {"none", "user"} \cup WaitPC \cup RecvPC \cup PostPC \cup MakePC

\* Where a level of the kernel is; "off" when it is not entered.
Level == {"resume", "sys", "irq1", "irq0"}
IdleAt == {"sti", "hlt", "woken", "picked", "unlinked"}
Label == {"off", "entry", "alloc", "yield", "walk", "exit", "eoi", "count", "iret"} \cup IdleAt

VARIABLES
    ready,      \* tasks_ready
    waiting,    \* tasks_wait
    running,    \* running_task
    flags, sigsWaiting, sigsRecvd, taskDelay,   \* fields of the task structures
    forbidCounter, waitLock, kReenter,
    needSchedule,   \* NEED_SCHEDULE in sched_state
    slots,      \* free_slots of the keyboard queue
    pc,         \* pc[t]: the program counter saved in, or loaded from, task t
    call,       \* call[t]: which call made t wait
    target,     \* target[t]: the task t signals, creates or destroys
    at,         \* at[L]: the program counter of level L
    cursor,     \* tasks_waiting in timer_callback()
    picked,     \* next_task in switch_tasks()
    breached,   \* ghost: an interrupt cleared forbid_counter under a task's forbid()
    leaked,     \* ghost: a queue_send() returned without its permit()
    hit,        \* ghost: an interrupt signalled the task that is running
    misused,    \* ghost: enqueue() of a linked node or remove() of an unlinked one
    raced,      \* ghost: a list changed in the middle of a routine on it
    stranded    \* ghost: a task was switched out while it returned from the kernel

taskVars == <<flags, sigsWaiting, sigsRecvd, taskDelay>>
progVars == <<pc, call, target>>
ghosts == <<breached, leaked, hit, misused, raced, stranded>>
vars == <<ready, waiting, running, taskVars, forbidCounter, waitLock, kReenter,
          needSchedule, slots, progVars, at, cursor, picked, ghosts>>

-----------------------------------------------------------------------------
(* init() after enter_user_mode(): the boot task runs, the others are      *)
(* ready (kernel_main.c).                                                  *)
Init ==
    /\ ready = Created
    /\ waiting = <<>>
    /\ running = Boot
    /\ flags = [t \in Task |->
                  IF t = Boot THEN Flags
                  ELSE IF t \in ToSet(Created) THEN {"TS_READY"} ELSE {}]
    /\ sigsWaiting = [t \in Task |-> {}]
    /\ sigsRecvd = [t \in Task |-> {}]
    /\ taskDelay = [t \in Task |-> 0]
    /\ forbidCounter = 0
    /\ waitLock = 0
    /\ kReenter = -1
    /\ needSchedule = FALSE
    /\ slots = MaxSlots
    /\ pc = [t \in Task |-> IF t \in ToSet(Created) \cup {Boot} THEN "user" ELSE "none"]
    /\ call = [t \in Task |-> "heap"]
    /\ target = [t \in Task |-> NoTask]
    /\ at = [L \in Level |-> "off"]
    /\ cursor = NoTask
    /\ picked = NoTask
    /\ breached = FALSE /\ leaked = FALSE /\ hit = FALSE
    /\ misused = FALSE /\ raced = FALSE /\ stranded = FALSE

-----------------------------------------------------------------------------
(* Helpers.                                                                *)

Linked(t) == t \in ToSet(ready) \cup ToSet(waiting)

\* The level that executes, "task" when none is entered.
Top == IF at["irq0"] # "off" THEN "irq0"
       ELSE IF at["irq1"] # "off" THEN "irq1"
       ELSE IF at["sys"] # "off" THEN "sys"
       ELSE IF at["resume"] # "off" THEN "resume" ELSE "task"

\* Behind a misuse or a race the links are undefined, behind a switch out of a
\* return the saved context is (of the kernel, its stack gone): the model stops.
Intact == ~misused /\ ~raced /\ ~stranded

\* The lists that hold t, and the lists t is about to change or is changing:
\* the list routines a task calls run with interrupts enabled.
Holding(t) == (IF t \in ToSet(ready) THEN {"ready"} ELSE {})
              \cup (IF t \in ToSet(waiting) THEN {"waiting"} ELSE {})
Changing(t) == (IF pc[t] = "w_enq" THEN {"waiting"} ELSE {})
               \cup (IF pc[t] \in {"s_enq", "c_enq"} THEN {"ready"} ELSE {})
               \cup (IF pc[t] \in {"s_remove", "d_remove"} THEN Holding(target[t]) ELSE {})

\* The idle loop's remove() runs with interrupts enabled, too.
Dispatching == \E L \in Level \ {Top} : at[L] = "picked"

\* Code of t (NoTask: of the kernel) changes these lists.  A task, or the idle loop, that
\* was stopped at a routine on one of them may not have begun it, or be inside.
Races(t, queues) ==
    \/ raced' = raced
    \/ /\ raced' = TRUE
       /\ \/ \E u \in Task \ {t} : Changing(u) \cap queues # {}
          \/ "ready" \in queues /\ Dispatching

first(s) == IF s = <<>> THEN NoTask ELSE s[1]

\* permit() never goes below zero.  The _Fault operators of this module are
\* plausible slips of the code; no action uses them.
Permitted_Fault1 == forbidCounter - 1
Permitted_Fault2 == forbidCounter
Permitted == IF forbidCounter > 0 THEN forbidCounter - 1 ELSE 0

\* An interrupt resumes a halted processor behind its hlt.
Interrupted(L, label) ==
    [l \in Level |-> IF l = L THEN label
                     ELSE IF at[l] = "hlt" THEN "woken" ELSE at[l]]

\* forbid() calls of task t that its own code still has to permit(): one per
\* section it is in, and queue_recv()'s own around the wait() it calls.
OneSection == (WaitPC \ {"w_forbid", "w_yield", "w_ret"}) \cup
              {"r_check", "r_permit", "r_loop", "s_check", "s_cmp", "s_yield",
               "p_permit", "c_enq", "c_permit", "d_remove", "d_permit"}
TwoSections == {"s_set", "s_remove", "s_enq", "s_permit"}
Held(t) == (IF pc[t] \in OneSection THEN 1 ELSE 0)
         + (IF pc[t] \in TwoSections THEN 2 ELSE 0)
         + (IF call[t] = "recv" /\ pc[t] \in WaitPC \ {"w_ret"} THEN 1 ELSE 0)

\* _yield() inside an interrupt: whatever the task below had forbidden is allowed.
InterruptYields ==
    /\ needSchedule' = TRUE
    /\ forbidCounter' = 0
    /\ breached' = (breached \/ Held(running) > 0)

\* The stores of signal(t, s).
Signalled_Fault(t, s) ==
    /\ flags' = [flags EXCEPT ![t] = @ \cup {"TS_READY"}]
    /\ sigsRecvd' = [sigsRecvd EXCEPT ![t] = @ \cup {s}]
    /\ UNCHANGED sigsWaiting
Signalled(t, s) ==
    /\ flags' = [flags EXCEPT ![t] = @ \cup {"TS_READY"}]
    /\ sigsWaiting' = [sigsWaiting EXCEPT ![t] = @ \ {s}]
    /\ sigsRecvd' = [sigsRecvd EXCEPT ![t] = @ \cup {s}]

\* signal(t, s) under cli, up to its permit().
Readies(t, s) ==
    /\ Signalled(t, s)
    /\ ready' = IF Linked(t) THEN Insert(Without(ready, t), t) ELSE ready
    /\ waiting' = Without(waiting, t)
    /\ misused' = (misused \/ ~Linked(t))
    /\ Races(NoTask, {"ready"} \cup Holding(t))
    /\ hit' = (hit \/ (t = running /\ "TS_RUN" \in flags[t]))

\* The priority test of signal().
Outranked_Fault(t) == pri[running] > pri[t]
Outranked(t) == pri[running] <= pri[t]

-----------------------------------------------------------------------------
(* Task code.  A task runs when no level of the kernel is entered.         *)

Runs(t) == running = t /\ Top = "task" /\ Intact

Goto(t, label) == pc' = [pc EXCEPT ![t] = label]

\* The arguments of a call are gone when it returns to the task's own code.
Continue(t, label) ==
    /\ Goto(t, label)
    /\ call' = IF label = "user" THEN [call EXCEPT ![t] = "heap"] ELSE call
    /\ target' = IF label = "user" THEN [target EXCEPT ![t] = NoTask] ELSE target

levels == <<kReenter, at, cursor, picked>>
lists == <<ready, waiting>>
counters == <<forbidCounter, waitLock, needSchedule>>

\* delay(ticks): the store is made between a forbid() and a permit().
Delay(t, ticks) ==
    /\ Runs(t) /\ pc[t] = "user" /\ "delay" \in May[t]
    /\ taskDelay' = [taskDelay EXCEPT ![t] = ticks]
    /\ call' = [call EXCEPT ![t] = "delay"]
    /\ Goto(t, "w_forbid")
    /\ UNCHANGED <<lists, running, flags, sigsWaiting, sigsRecvd, counters, slots,
                   target, levels, ghosts>>

\* queue_recv() on the keyboard queue, queue_send() to a queue of task u,
\* create_task() and destroy_task() start with a forbid().
Start(t, c, label, u) ==
    /\ Runs(t) /\ pc[t] = "user" /\ c \in May[t]
    /\ call' = [call EXCEPT ![t] = c]
    /\ target' = [target EXCEPT ![t] = u]
    /\ Goto(t, label)
    /\ UNCHANGED <<lists, running, taskVars, counters, slots, levels, ghosts>>

\* kmalloc() gives create_task() a structure nobody uses.
Fresh(u) == pc[u] = "none" /\ \A v \in Task : target[v] # u

StartCall(t) ==
    \/ t = Owner /\ Start(t, "recv", "r_forbid", NoTask)
    \/ \E u \in Task \ {t} :
          \/ pc[u] # "none" /\ Start(t, "post", "p_forbid", u)
          \/ Fresh(u) /\ Start(t, "create", "c_forbid", u)
          \/ Linked(u) /\ u # Owner /\ Start(t, "destroy", "d_forbid", u)

\* The statements that only count: forbid(), permit() and wait_lock.
After_forbid == [r_forbid |-> "r_check", r_again |-> "r_loop", w_forbid |-> "w_sigs",
                 p_forbid |-> "s_check", c_forbid |-> "c_enq", d_forbid |-> "d_remove"]
After_permit == [w_permit |-> "w_yield", r_permit |-> "user", s_permit |-> "s_cmp",
                 p_permit |-> "user", p_yielded |-> "user", c_permit |-> "user",
                 d_permit |-> "user"]

forbid(t) ==
    /\ Runs(t) /\ pc[t] \in DOMAIN After_forbid
    /\ forbidCounter' = forbidCounter + 1
    /\ Goto(t, After_forbid[pc[t]])
    /\ UNCHANGED <<lists, running, taskVars, waitLock, needSchedule, slots, call, target,
                   levels, ghosts>>

permit(t) ==
    /\ Runs(t) /\ pc[t] \in DOMAIN After_permit
    /\ forbidCounter' = Permitted
    /\ Continue(t, After_permit[pc[t]])
    /\ UNCHANGED <<lists, running, taskVars, waitLock, needSchedule, slots, levels, ghosts>>

Awaited(t) == IF call[t] = "recv" THEN "TB_QUEUE" ELSE "TB_DELAY"

\* wait(sigs, &tasks_wait), field by field.
WaitStore(t) ==
    /\ Runs(t)
    /\ \/ /\ pc[t] = "w_sigs"
          /\ sigsWaiting' = [sigsWaiting EXCEPT ![t] = @ \cup {Awaited(t)}]
          /\ Goto(t, "w_recvd")
          /\ UNCHANGED <<sigsRecvd, flags>>
       \/ /\ pc[t] = "w_recvd"
          /\ sigsRecvd' = [sigsRecvd EXCEPT ![t] = {}]
          /\ Goto(t, "w_flags")
          /\ UNCHANGED <<sigsWaiting, flags>>
       \/ /\ pc[t] = "w_flags"
          /\ flags' = [flags EXCEPT ![t] = @ \ {"TS_READY"}]
          /\ Goto(t, "w_lock")
          /\ UNCHANGED <<sigsWaiting, sigsRecvd>>
    /\ UNCHANGED <<lists, running, taskDelay, counters, slots, call, target, levels, ghosts>>

WaitLock_Fault(t) ==
    /\ Runs(t) /\ pc[t] \in {"w_lock", "w_unlock"}
    /\ waitLock' = IF pc[t] = "w_lock" THEN waitLock + 1 ELSE waitLock
    /\ Goto(t, IF pc[t] = "w_lock" THEN "w_enq" ELSE "w_permit")
    /\ UNCHANGED <<lists, running, taskVars, forbidCounter, needSchedule, slots, call, target,
                   levels, ghosts>>
WaitLock(t) ==
    /\ Runs(t)
    /\ \/ pc[t] = "w_lock" /\ waitLock' = waitLock + 1 /\ Goto(t, "w_enq")
       \/ pc[t] = "w_unlock" /\ waitLock' = waitLock - 1 /\ Goto(t, "w_permit")
    /\ UNCHANGED <<lists, running, taskVars, forbidCounter, needSchedule, slots, call, target,
                   levels, ghosts>>

WaitEnqueue(t) ==
    /\ Runs(t) /\ pc[t] = "w_enq"
    /\ waiting' = Insert(waiting, t)
    /\ misused' = (misused \/ Linked(t))
    /\ Races(t, {"waiting"})
    /\ Goto(t, "w_unlock")
    /\ UNCHANGED <<ready, running, taskVars, counters, slots, call, target, levels,
                   breached, leaked, hit, stranded>>

\* wait() returns: delay() to its caller, queue_recv() to the top of its loop.
WaitReturn(t) ==
    /\ Runs(t) /\ pc[t] = "w_ret"
    /\ Continue(t, IF call[t] = "recv" THEN "r_again" ELSE "user")
    /\ UNCHANGED <<lists, running, taskVars, counters, slots, levels, ghosts>>

\* queue_recv() takes a message if there is one, else it waits (again).
Receive(t) ==
    /\ Runs(t) /\ pc[t] \in {"r_check", "r_loop"}
    /\ IF slots < MaxSlots
       THEN slots' = slots + 1 /\ Goto(t, "r_permit")
       ELSE Goto(t, "w_forbid") /\ UNCHANGED slots
    /\ UNCHANGED <<lists, running, taskVars, counters, call, target, levels, ghosts>>

\* signal(u, TB_QUEUE) from a task: its test and forbid(), its stores, the two
\* list operations, and the yield() to a task of no lower priority.
SignalTest(t) ==
    /\ Runs(t) /\ pc[t] = "s_check"
    /\ IF "TB_QUEUE" \in sigsWaiting[target[t]]
       THEN forbidCounter' = forbidCounter + 1 /\ Goto(t, "s_set")
       ELSE Goto(t, "p_permit") /\ UNCHANGED forbidCounter
    /\ UNCHANGED <<lists, running, taskVars, waitLock, needSchedule, slots, call, target,
                   levels, ghosts>>

SignalStore(t) ==
    /\ Runs(t) /\ pc[t] = "s_set"
    /\ Signalled(target[t], "TB_QUEUE")
    /\ Goto(t, "s_remove")
    /\ UNCHANGED <<lists, running, taskDelay, counters, slots, call, target, levels, ghosts>>

\* remove() of the target: in signal() and in destroy_task(), which frees it.
Unlink(t) ==
    /\ Runs(t) /\ pc[t] \in {"s_remove", "d_remove"}
    /\ ready' = Without(ready, target[t])
    /\ waiting' = Without(waiting, target[t])
    /\ misused' = (misused \/ ~Linked(target[t]))
    /\ Races(t, Holding(target[t]))
    /\ IF pc[t] = "s_remove"
       THEN Goto(t, "s_enq") /\ UNCHANGED <<flags, sigsWaiting>>
       ELSE /\ pc' = [pc EXCEPT ![t] = "d_permit", ![target[t]] = "none"]
            /\ flags' = [flags EXCEPT ![target[t]] = {}]
            /\ sigsWaiting' = [sigsWaiting EXCEPT ![target[t]] = {}]
    /\ UNCHANGED <<running, sigsRecvd, taskDelay, counters, slots, call, target, levels,
                   breached, leaked, hit, stranded>>

\* enqueue() on tasks_ready: in signal() and in create_task(), which filled
\* in the new task before.
Link(t) ==
    /\ Runs(t) /\ pc[t] \in {"s_enq", "c_enq"}
    /\ ready' = Insert(ready, target[t])
    /\ misused' = (misused \/ Linked(target[t]))
    /\ Races(t, {"ready"})
    /\ IF pc[t] = "s_enq"
       THEN Goto(t, "s_permit") /\ UNCHANGED taskVars
       ELSE /\ pc' = [pc EXCEPT ![t] = "c_permit", ![target[t]] = "user"]
            /\ flags' = [flags EXCEPT ![target[t]] = {"TS_READY"}]
            /\ sigsWaiting' = [sigsWaiting EXCEPT ![target[t]] = {}]
            /\ sigsRecvd' = [sigsRecvd EXCEPT ![target[t]] = {}]
            /\ taskDelay' = [taskDelay EXCEPT ![target[t]] = 0]
    /\ UNCHANGED <<waiting, running, counters, slots, call, target, levels, breached, leaked, hit,
                   stranded>>

SignalCompare(t) ==
    /\ Runs(t) /\ pc[t] = "s_cmp"
    /\ Goto(t, IF Outranked(target[t]) THEN "s_yield" ELSE "p_permit")
    /\ UNCHANGED <<lists, running, taskVars, counters, slots, call, target, levels, ghosts>>

TaskStep(t) ==
    \/ forbid(t) \/ permit(t)
    \/ WaitStore(t) \/ WaitLock(t) \/ WaitEnqueue(t) \/ WaitReturn(t)
    \/ Receive(t)
    \/ SignalTest(t) \/ SignalStore(t) \/ Unlink(t) \/ Link(t) \/ SignalCompare(t)

-----------------------------------------------------------------------------
(* Entering the kernel: k_reenter counts the levels.                       *)

tasks == <<lists, running, taskVars>>

\* int 0xFF with SYSCALL_YIELD from wait() or signal(), or with a call that
\* only works on the heap.
SystemCall(t) ==
    /\ Runs(t)
    /\ \/ pc[t] = "w_yield" /\ Goto(t, "w_ret") /\ at' = Interrupted("sys", "entry")
       \/ pc[t] = "s_yield" /\ Goto(t, "p_yielded") /\ at' = Interrupted("sys", "entry")
       \/ pc[t] = "user" /\ "heap" \in May[t] /\ at' = Interrupted("sys", "exit")
          /\ UNCHANGED pc
    /\ kReenter' = kReenter + 1
    /\ UNCHANGED <<tasks, counters, slots, call, target, cursor, picked, ghosts>>

_yield ==
    /\ Top = "sys" /\ at["sys"] = "entry" /\ Intact
    /\ needSchedule' = TRUE
    /\ forbidCounter' = 0
    /\ at' = [at EXCEPT !["sys"] = "exit"]
    /\ UNCHANGED <<tasks, waitLock, slots, progVars, kReenter, cursor, picked, ghosts>>

\* A task inside the enqueue() of wait() keeps the timer off the list.
WalkStart_Fault == first(waiting)
WalkStart == IF waitLock = 0 THEN first(waiting) ELSE NoTask

TimerInterrupt ==
    /\ at["irq0"] = "off" /\ Intact
    /\ at' = Interrupted("irq0", "walk")
    /\ cursor' = WalkStart
    /\ kReenter' = kReenter + 1
    /\ UNCHANGED <<tasks, counters, slots, progVars, picked, ghosts>>

KeyboardInterrupt ==
    /\ at["irq0"] = "off" /\ at["irq1"] = "off" /\ Intact
    /\ forbidCounter < MaxForbid
    /\ at' = Interrupted("irq1", "entry")
    /\ kReenter' = kReenter + 1
    /\ UNCHANGED <<tasks, counters, slots, progVars, cursor, picked, ghosts>>

-----------------------------------------------------------------------------
(* timer_callback(): one step per task the walk of tasks_wait visits.      *)

\* task_delay is unsigned: "<= 0" is "= 0".
Expires_Fault1(left) == left <= 1
Expires_Fault2(left) == left < 0
Expires(left) == left = 0

TimerVisit ==
    /\ at["irq0"] = "walk" /\ cursor # NoTask /\ Intact
    /\ LET t == cursor
           left == (taskDelay[t] - 1) % TickRange
           waitsForDelay == "TB_DELAY" \in sigsWaiting[t]
           expires == waitsForDelay /\ Expires(left)
       IN /\ taskDelay' = IF waitsForDelay THEN [taskDelay EXCEPT ![t] = left] ELSE taskDelay
          /\ IF expires THEN Readies(t, "TB_DELAY")
             ELSE UNCHANGED <<lists, flags, sigsWaiting, sigsRecvd, misused, raced, hit>>
          /\ IF expires /\ Outranked(t) THEN InterruptYields
             ELSE UNCHANGED <<needSchedule, forbidCounter, breached>>
          \* get_next() follows the list the task is in now
          /\ cursor' = IF t \in ToSet(ready') THEN After(ready', t, NoTask)
                       ELSE After(waiting', t, NoTask)
    /\ UNCHANGED <<running, waitLock, slots, progVars, at, kReenter, picked, leaked,
                   stranded>>

TimerDone_Fault ==      \* time slices never end
    /\ at["irq0"] = "walk" /\ cursor = NoTask /\ Intact
    /\ at' = [at EXCEPT !["irq0"] = "exit"]
    /\ UNCHANGED <<tasks, counters, slots, progVars, kReenter, cursor, picked, ghosts>>
TimerDone ==
    /\ at["irq0"] = "walk" /\ cursor = NoTask /\ Intact
    /\ needSchedule' = TRUE
    /\ at' = [at EXCEPT !["irq0"] = "exit"]
    /\ UNCHANGED <<tasks, forbidCounter, waitLock, slots, progVars, kReenter, cursor,
                   picked, ghosts>>

-----------------------------------------------------------------------------
(* keypress_isr(): a key release does nothing, a key press is queued with  *)
(* queue_send(keybd_queue, ..., QM_NONBLOCKING).  The kmalloc() and yield() *)
(* calls of queue_send() are system calls, which enable interrupts.        *)

KeyRelease ==
    /\ Top = "irq1" /\ at["irq1"] = "entry" /\ Intact
    /\ at' = [at EXCEPT !["irq1"] = "exit"]
    /\ UNCHANGED <<tasks, counters, slots, progVars, kReenter, cursor, picked, ghosts>>

KeyPress ==
    /\ Top = "irq1" /\ at["irq1"] = "entry" /\ Intact
    /\ forbidCounter' = forbidCounter + 1
    /\ IF slots > 0
       THEN /\ at' = [at EXCEPT !["irq1"] = "alloc"]
            /\ kReenter' = kReenter + 1
            /\ UNCHANGED leaked
       ELSE /\ at' = [at EXCEPT !["irq1"] = "exit"]    \* queue full: no permit()
            /\ leaked' = TRUE
            /\ UNCHANGED kReenter
    /\ UNCHANGED <<tasks, waitLock, needSchedule, slots, progVars, cursor, picked,
                   breached, hit, misused, raced, stranded>>

\* The message is added; the owner is signalled if the queue was empty.
KeySend ==
    /\ Top = "irq1" /\ at["irq1"] = "alloc" /\ Intact
    /\ slots' = slots - 1
    /\ LET signals == slots = MaxSlots /\ "TB_QUEUE" \in sigsWaiting[Owner]
           yields == signals /\ Outranked(Owner)
       IN /\ IF signals THEN Readies(Owner, "TB_QUEUE")
             ELSE UNCHANGED <<lists, flags, sigsWaiting, sigsRecvd, misused, raced, hit>>
          /\ at' = [at EXCEPT !["irq1"] = IF yields THEN "yield" ELSE "exit"]
          /\ kReenter' = IF yields THEN kReenter ELSE kReenter - 1
          /\ forbidCounter' = IF yields THEN forbidCounter ELSE Permitted
    /\ UNCHANGED <<running, taskDelay, waitLock, needSchedule, progVars, cursor, picked,
                   breached, leaked, stranded>>

\* _yield(), and the permit() of queue_send() that finds the count at zero.
KeyYield ==
    /\ Top = "irq1" /\ at["irq1"] = "yield" /\ Intact
    /\ InterruptYields
    /\ at' = [at EXCEPT !["irq1"] = "exit"]
    /\ kReenter' = kReenter - 1
    /\ UNCHANGED <<tasks, waitLock, slots, progVars, cursor, picked, leaked, hit, misused,
                   raced, stranded>>

-----------------------------------------------------------------------------
(* Leaving a level: schedule() and switch_tasks() (task.c), called at the  *)
(* end of idt_handler() and irq_handler().                                 *)

Schedules_Fault1 == needSchedule /\ forbidCounter = 0
Schedules_Fault2 == needSchedule /\ kReenter = 0
Schedules == needSchedule /\ forbidCounter = 0 /\ kReenter = 0

\* schedule() queues the running task again unless it waits.
StillReady_Fault == TRUE
StillReady == "TS_READY" \in flags[running]

Stopped_Fault == flags
Stopped == [flags EXCEPT ![running] = @ \ {"TS_RUN"}]

Dispatch_Fault(L, queue, t) ==
    /\ ready' = Without(queue, t)
    /\ running' = t
    /\ at' = [at EXCEPT ![L] = "off"]
    /\ UNCHANGED kReenter
Dispatch(L, queue, t) ==
    /\ ready' = Without(queue, t)
    /\ running' = t
    /\ at' = [at EXCEPT ![L] = "off"]
    /\ kReenter' = kReenter - 1

Leave(L) ==
    /\ Top = L /\ at[L] = "exit" /\ Intact /\ ~Schedules
    /\ at' = [at EXCEPT ![L] = "off"]
    /\ kReenter' = kReenter - 1
    /\ UNCHANGED <<tasks, counters, slots, progVars, cursor, picked, ghosts>>

Switch(L) ==
    /\ Top = L /\ at[L] = "exit" /\ Intact /\ Schedules
    /\ needSchedule' = FALSE
    /\ misused' = (StillReady /\ Linked(running))
    /\ LET queue == IF StillReady THEN Insert(ready, running) ELSE ready
       IN /\ stranded' = (at["resume"] # "off" /\ first(queue) # running)
          /\ IF queue = <<>>
             THEN /\ flags' = Stopped
                  /\ at' = [at EXCEPT ![L] = "sti"]
                  /\ UNCHANGED <<ready, running, kReenter, raced>>
             ELSE /\ flags' = [Stopped EXCEPT ![queue[1]] = @ \cup {"TS_RUN"}]
                  /\ Dispatch(L, queue, queue[1])
                  /\ Races(NoTask, {"ready"})
    /\ UNCHANGED <<waiting, sigsWaiting, sigsRecvd, taskDelay, forbidCounter, waitLock, slots,
                   progVars, cursor, picked, breached, leaked, hit>>

\* The loop of switch_tasks() that halts the processor until a task is ready.
IdleHalt(L) ==
    /\ Top = L /\ at[L] = "sti" /\ Intact
    /\ at' = [at EXCEPT ![L] = "hlt"]
    /\ UNCHANGED <<tasks, counters, slots, progVars, kReenter, cursor, picked, ghosts>>

IdlePick(L) ==
    /\ Top = L /\ at[L] = "woken" /\ Intact
    /\ picked' = first(ready)
    /\ at' = [at EXCEPT ![L] = IF ready = <<>> THEN "sti" ELSE "picked"]
    /\ UNCHANGED <<tasks, counters, slots, progVars, kReenter, cursor, ghosts>>

\* The dispatcher goes on with interrupts enabled: remove(), running_task and its context,
\* the EOI of irq_handler(), k_reenter--, and the return to the task.
IdleRemove(L) ==
    /\ Top = L /\ at[L] = "picked" /\ Intact
    /\ ready' = Without(ready, picked)
    /\ misused' = (picked \notin ToSet(ready))
    /\ Races(NoTask, {"ready"})
    /\ at' = [at EXCEPT ![L] = "unlinked"]
    /\ UNCHANGED <<waiting, running, taskVars, counters, slots, progVars, kReenter, cursor, picked,
                   breached, leaked, hit, stranded>>

IdleRun(L) ==
    /\ Top = L /\ at[L] = "unlinked" /\ Intact
    /\ running' = picked
    /\ flags' = [flags EXCEPT ![picked] = @ \cup {"TS_RUN"}]
    /\ at' = IF L = "sys" THEN [at EXCEPT ![L] = "off", !["resume"] = "count"]
             ELSE [at EXCEPT ![L] = "eoi"]
    /\ picked' = NoTask
    /\ UNCHANGED <<lists, sigsWaiting, sigsRecvd, taskDelay, counters, slots, progVars, kReenter,
                   cursor, ghosts>>

IdleEOI(L) ==
    /\ Top = L /\ at[L] = "eoi" /\ Intact
    /\ at' = [at EXCEPT ![L] = "off", !["resume"] = "count"]
    /\ UNCHANGED <<tasks, counters, slots, progVars, kReenter, cursor, picked, ghosts>>

ResumeCount ==
    /\ Top = "resume" /\ at["resume"] = "count" /\ Intact
    /\ kReenter' = kReenter - 1
    /\ at' = [at EXCEPT !["resume"] = "iret"]
    /\ UNCHANGED <<tasks, counters, slots, progVars, cursor, picked, ghosts>>

ResumeReturn ==
    /\ Top = "resume" /\ at["resume"] = "iret" /\ Intact
    /\ at' = [at EXCEPT !["resume"] = "off"]
    /\ UNCHANGED <<tasks, counters, slots, progVars, kReenter, cursor, picked, ghosts>>

KernelStep ==
    \/ _yield \/ TimerVisit \/ TimerDone
    \/ KeyRelease \/ KeyPress \/ KeySend \/ KeyYield
    \/ \E L \in Level : Leave(L) \/ Switch(L)
    \/ \E L \in Level : IdleHalt(L) \/ IdlePick(L) \/ IdleRemove(L) \/ IdleRun(L) \/ IdleEOI(L)
    \/ ResumeCount \/ ResumeReturn

Next ==
    \/ \E t \in Task :
          \/ \E d \in Delays : Delay(t, d)
          \/ StartCall(t) \/ SystemCall(t) \/ TaskStep(t)
    \/ TimerInterrupt \/ KeyboardInterrupt
    \/ KernelStep

Spec == Init /\ [][Next]_vars

(* Fairness: the timer never stops ticking; the code of a task, or of a    *)
(* level, that gets the processor again and again between interrupts makes *)
(* progress.  A task need not leave its own code ("user").                 *)
Progress(t) == TaskStep(t) \/ (pc[t] # "user" /\ SystemCall(t))
Fairness ==
    /\ WF_vars(TimerInterrupt)
    /\ \A t \in Task : SF_vars(Progress(t))
    /\ \A L \in Level : SF_vars(Top = L /\ KernelStep)

FairSpec == Spec /\ Fairness

-----------------------------------------------------------------------------
(* Type invariant of the scheduler's state (task.c, task.h).               *)
TypeOK ==
    /\ ready \in Seq(Task) /\ waiting \in Seq(Task)
    /\ running \in Task
    /\ flags \in [Task -> SUBSET Flags]
    /\ sigsWaiting \in [Task -> SUBSET Signals]
    /\ sigsRecvd \in [Task -> SUBSET Signals]
    /\ taskDelay \in [Task -> 0..(TickRange - 1)]
    /\ forbidCounter \in Nat /\ waitLock \in Int /\ kReenter \in Int
    /\ needSchedule \in BOOLEAN
    /\ slots \in 0..MaxSlots
    /\ pc \in [Task -> PC] /\ call \in [Task -> Calls]
    /\ target \in [Task -> Task \cup {NoTask}]
    /\ at \in [Level -> Label]
    /\ cursor \in Task \cup {NoTask} /\ picked \in Task \cup {NoTask}
    /\ breached \in BOOLEAN /\ leaked \in BOOLEAN /\ hit \in BOOLEAN
    /\ misused \in BOOLEAN /\ raced \in BOOLEAN /\ stranded \in BOOLEAN
=============================================================================
