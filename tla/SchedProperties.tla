-------------------------- MODULE SchedProperties --------------------------
(***************************************************************************)
(* What the scheduler must guarantee, and under which circumstances it     *)
(* does.  Five things the code lets happen break its own sections:         *)
(*   breached  signal() in an interrupt yields, and _yield() zeroes the    *)
(*             forbid count of the interrupted task (task.c:146, 156);     *)
(*   hit       an interrupt signals the running task while that task is    *)
(*             still on its way into wait() (task.c:124-131);              *)
(*   leaked    a key press finds the keyboard queue full, and queue_send() *)
(*             returns without permit() (queue.c:91);                      *)
(*   raced     an interrupt changes a list while a task, or the idle loop, *)
(*             is inside a list routine on it, which no forbid() prevents  *)
(*             (task.c:111, 143-144);                                      *)
(*   stranded  an interrupt switches tasks between the k_reenter-- and the *)
(*             iretd behind the idle loop, which runs with interrupts      *)
(*             enabled (task.c:98, idt.c:150, 190).                        *)
(* Sound says that none of them has happened yet.                          *)
(***************************************************************************)
EXTENDS Sched

Sound == ~breached /\ ~leaked /\ ~hit /\ ~raced /\ ~stranded

Entered == {L \in Level : at[L] # "off"}
Idling == \E L \in Level : at[L] \in IdleAt

-----------------------------------------------------------------------------
(* The scheduler's lists.                                                  *)

(* Until a list routine is misused, the two lists are disjoint, hold a     *)
(* task once, and are ordered by priority: what enqueue() and get_head()   *)
(* take for granted (task.c:74, 94, 128, 144).                             *)
ListsAreQueues ==
    ~misused =>
        /\ NoDuplicates(ready) /\ NoDuplicates(waiting)
        /\ ToSet(ready) \cap ToSet(waiting) = {}
        /\ ByPriority(ready) /\ ByPriority(waiting)

(* No interleaving of tasks, ticks and key presses makes the kernel enqueue *)
(* a task that is linked, or remove one that is not, before one of the     *)
(* five circumstances has occurred (task.c:74, 111, 128, 143-144).         *)
MisuseOnlyIfUnsound == misused => ~Sound

(* While a task is inside the enqueue() that puts it in tasks_wait, the    *)
(* timer does not walk that list, even if the task lost the processor in   *)
(* the middle (task.c:127-129, timer.c:22-23).                             *)
TimerSparesEnqueue ==
    at["irq0"] = "walk" /\ cursor # NoTask => \A t \in Task : pc[t] # "w_enq"

\* signal() in a task takes its target out of one list before the other.
InTransit(t) == \E u \in Task : target[u] = t /\ pc[u] = "s_enq"

(* Every task is running, in a list, or on its way between the two: no     *)
(* preemption at any point of wait() or signal(), and no interrupt in the  *)
(* idle loop, loses a task (task.c:94-151).                                *)
NoTaskLost ==
    Sound => \A t \in Task : pc[t] # "none" =>
        \/ Linked(t)
        \/ InTransit(t)
        \/ t = picked
        \/ t = running /\ "TS_RUN" \in flags[t]

(* A task in tasks_ready is marked ready and waits for nothing; a task in  *)
(* tasks_wait is not ready, except while a signal() is moving it           *)
(* (task.c:124-128, 140-144).                                              *)
FlagsAgree ==
    Sound =>
        /\ \A t \in ToSet(ready) : flags[t] = {"TS_READY"} /\ sigsWaiting[t] = {}
        /\ \A t \in ToSet(waiting) :
              "TS_READY" \in flags[t] <=>
                  \E u \in Task : target[u] = t /\ pc[u] = "s_remove"

(* No interruption of wait() or signal() loses a task, or leaves it in the *)
(* wrong list for its flags (task.c:119-151).                              *)
TasksInPlace == NoTaskLost /\ FlagsAgree

-----------------------------------------------------------------------------
(* Counters.                                                               *)

(* k_reenter is the number of kernel entries on the stack, less one, in    *)
(* every state an interrupt can come in, but for an entry that has idled   *)
(* and stands between its k_reenter-- and its iretd (idt.c:136-150,        *)
(* 162-190).  The dispatcher's level test rests on it.                     *)
Depth(L) == IF at[L] \in {"off", "iret"} THEN 0 ELSE 1
ReenterCounts ==
    kReenter + 1 = Depth("resume") + Depth("sys") + Depth("irq1") + Depth("irq0")
                   + (IF at["irq1"] \in {"alloc", "yield"} THEN 1 ELSE 0)

(* forbid_counter is the number of forbid() calls the running task, and an *)
(* interrupted queue_send(), have yet to permit() (task.c:16-23).          *)
ForbidCounts ==
    ~breached /\ ~leaked /\ at["sys"] # "entry" =>
        /\ forbidCounter >= Held(running)
        /\ at["irq1"] \notin {"alloc", "yield"} => forbidCounter = Held(running)

(* wait_lock is the number of tasks between its increment and decrement,   *)
(* preempted ones included; while it is not 0 the timer wakes nobody       *)
(* (task.c:127-129, timer.c:23).                                           *)
WaitLockCounts == waitLock = Cardinality({t \in Task : pc[t] \in {"w_enq", "w_unlock"}})

(* wait_lock does what it is for, and no task leaves it set                *)
(* (task.c:127-129, timer.c:22-23).                                        *)
WaitLockGuards == WaitLockCounts /\ TimerSparesEnqueue

(* At most the running task has TS_RUN, and it has it unless the processor *)
(* idles (task.c:86, 114).                                                 *)
RunFlag ==
    \A t \in Task : "TS_RUN" \in flags[t] <=> t = running /\ ~Idling

-----------------------------------------------------------------------------
(* Switching.                                                              *)

(* The running task changes only with multitasking enabled, or behind an   *)
(* idle loop in which a key found its queue full, and only in the          *)
(* outermost kernel entry, or over an entry that stands between its        *)
(* k_reenter-- and its iretd, whose task is then lost (task.c:69, 101-106).*)
SwitchAtTaskLevel ==
    [][running' # running =>
          /\ kReenter = 0
          /\ forbidCounter = 0 \/ (leaked /\ Idling)
          /\ \A L, M \in Entered : L = M \/ (stranded' /\ {at[L], at[M]} = {"exit", "iret"})]_vars

(* wait() returns only to a task that was signalled what it waits for, and *)
(* delay() not before its ticks have passed (task.c:119-134, 163-168).     *)
WaitReturnsSignalled ==
    \A t \in Task :
        Sound /\ Runs(t) /\ pc[t] = "w_ret" =>
            /\ sigsRecvd[t] = {Awaited(t)}
            /\ call[t] = "delay" => taskDelay[t] = 0

(* In a task's own code with multitasking enabled, no woken task of higher *)
(* priority is kept waiting without a switch being due (task.c:146-147,    *)
(* timer.c:34).                                                            *)
NoMissedPreemption ==
    Sound /\ Top = "task" /\ forbidCounter = 0 /\ ~needSchedule =>
        \A t \in ToSet(ready) : sigsRecvd[t] # {} => pri[t] <= pri[running]

\* The circumstances under which the processor serves nobody any more.
Dead == ~Sound \/ at["irq0"] \in IdleAt

(* A task that called delay() leaves tasks_wait, unless one of the five    *)
(* circumstances occurs or the processor idles inside the timer interrupt  *)
(* (timer.c:22-32, task.c:94-109).                                         *)
DelayEnds ==
    \A t \in Task :
        (t \in ToSet(waiting) /\ call[t] = "delay") ~> (t \notin ToSet(waiting) \/ Dead)

(* A ready task that outranks all others gets the processor, even from a   *)
(* task that never calls the kernel (timer.c:34, idt.c:173-179).           *)
TopTaskRuns ==
    \A t \in Task :
        (t \in ToSet(ready) /\ \A u \in Task \ {t} : pri[u] < pri[t])
            ~> (running = t \/ Dead)

-----------------------------------------------------------------------------
(* What the comments of the code say.                                      *)

(* "If multitasking is disabled or the kernel was reentered, return        *)
(* immediately" (task.c:68): no switch takes the processor from a task     *)
(* that is between its forbid() and its permit().                          *)
ForbidExcludesSwitch == [][running' # running => Held(running) = 0]_vars

(* "so idle the processor until an interrupt comes and readies a task"     *)
(* (task.c:95-97): the timer interrupt can come while the processor is     *)
(* halted.                                                                 *)
IdleCanBeWoken == \A L \in Level : at[L] = "hlt" => at["irq0"] = "off"
=============================================================================
