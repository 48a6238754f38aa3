---------------------------- MODULE SchedProofs ----------------------------
(***************************************************************************)
(* Proofs about the scheduler, for any set of tasks, any priorities, any   *)
(* calls the tasks make and any size of the keyboard queue.                *)
(*                                                                         *)
(* The argument has three layers.  Core is an inductive invariant on its   *)
(* own: the types, and the facts about levels, targets and the idle loop   *)
(* that the types of the next state rest on.  ListsAreQueues and RunFlag   *)
(* are inductive relative to Core.  SwitchAtTaskLevel is an action         *)
(* property of a step from a Core state.                                   *)
(***************************************************************************)
EXTENDS SchedProperties, PriorityOrderProofs

Nested == IF at["irq1"] \in {"alloc", "yield"} THEN 1 ELSE 0

\* The statements of a task that use the task it acts on.
UsesTarget == {"p_forbid", "s_check", "s_set", "s_remove", "s_enq", "s_permit", "s_cmp",
               "c_forbid", "c_enq", "d_forbid", "d_remove"}

\* A task acts on another task.
TargetOK == \A t \in Task : pc[t] \in UsesTarget => target[t] \in Task \ {t}

\* Behind its EOI a level that idled is "resume", and no system call comes over it.
ResumeOK ==
    /\ at["resume"] \in {"off", "count", "iret"}
    /\ at["sys"] # "eoi"
    /\ \A L \in Level \ {"resume"} : at[L] \notin {"count", "iret"}
    /\ at["resume"] # "off" => at["sys"] = "off"

\* The processor idles in the outermost level only, and runs the task it picked from there.
IdleOutermost ==
    ~stranded =>
        /\ at["irq1"] \in IdleAt \cup {"eoi"} => at["sys"] = "off" /\ at["resume"] = "off"
        /\ at["irq0"] \in IdleAt \cup {"eoi"} =>
              at["sys"] = "off" /\ at["irq1"] = "off" /\ at["resume"] = "off"

\* The task the idle loop has picked.
PickedOK == \A L \in Level : at[L] \in {"picked", "unlinked"} => picked \in Task

\* queue_send() allocates a message only if there is a free slot for it.
AllocOK == at["irq1"] = "alloc" => slots > 0

\* While the processor idles only an interrupted queue_send() forbids.
IdleForbid == Idling /\ ~leaked => forbidCounter <= Nested

\* What is kept of the levels, beside the types.
Levels == ResumeOK /\ IdleOutermost /\ PickedOK /\ AllocOK /\ ReenterCounts /\ IdleForbid

Core == TypeOK /\ TargetOK /\ Levels

-----------------------------------------------------------------------------
(* Types.                                                                  *)

(* A race is noticed or it is not (list.c:74-77, 129-165).                 *)
LEMMA RacesTypes ==
    ASSUME TypeOK, NEW t, NEW queues, Races(t, queues)
    PROVE  raced' \in BOOLEAN
BY DEF TypeOK, Races

(* The list operations yield lists of tasks (task.c:74, 86, 111, 128).     *)
LEMMA ListTypes ==
    /\ \A s \in Seq(Task), t \in Task : Insert(s, t) \in Seq(Task)
    /\ \A s \in Seq(Task), t \in Task : Without(s, t) \in Seq(Task)
    /\ \A s \in Seq(Task), t \in Task : After(s, t, NoTask) \in Task \cup {NoTask}
    /\ \A s \in Seq(Task) : s # <<>> => s[1] \in Task
    /\ \A s \in Seq(Task) : first(s) \in Task \cup {NoTask}
<1>1. pri \in [Task -> Int]
  BY SchedAssumption
<1>2. ASSUME NEW s \in Seq(Task), NEW t \in Task PROVE Insert(s, t) \in Seq(Task)
  BY <1>1, InsertFacts
<1>3. ASSUME NEW s \in Seq(Task), NEW t \in Task PROVE Without(s, t) \in Seq(Task)
  BY <1>1, WithoutKeepsQueue
<1>4. ASSUME NEW s \in Seq(Task), NEW t \in Task
      PROVE  After(s, t, NoTask) \in Task \cup {NoTask}
  BY AfterFacts
<1>5. ASSUME NEW s \in Seq(Task), s # <<>> PROVE s[1] \in Task
  <2>1. Len(s) \in Nat /\ Len(s) # 0
    BY <1>5, EmptySeq, LenProperties
  <2>2. 1 \in 1..Len(s)
    BY <2>1
  <2> QED BY <2>2, ElementOfSeq
<1>6. ASSUME NEW s \in Seq(Task) PROVE first(s) \in Task \cup {NoTask}
  BY <1>5 DEF first
<1> QED BY <1>2, <1>3, <1>4, <1>5, <1>6

(* The scheduler starts in a well-typed state.                             *)
LEMMA InitTypes == Init => TypeOK
<1> SUFFICES ASSUME Init PROVE TypeOK
  OBVIOUS
<1>1. ready \in Seq(Task) /\ waiting \in Seq(Task)
  BY SchedAssumption DEF Init
<1>2. pc \in [Task -> PC] /\ at \in [Level -> Label] /\ call \in [Task -> Calls]
  BY DEF Init, PC, Label, Calls
<1>3. flags \in [Task -> SUBSET Flags]
  BY DEF Init, Flags
<1>4. taskDelay \in [Task -> 0..(TickRange - 1)] /\ slots \in 0..MaxSlots
  BY SchedAssumption DEF Init
<1>5. Boot \in Task /\ forbidCounter \in Nat /\ waitLock \in Int /\ kReenter \in Int
  BY SchedAssumption DEF Init
<1>6. target \in [Task -> Task \cup {NoTask}]
  BY DEF Init
<1>7. sigsWaiting \in [Task -> SUBSET Signals] /\ sigsRecvd \in [Task -> SUBSET Signals]
  BY DEF Init
<1> QED BY <1>1, <1>2, <1>3, <1>4, <1>5, <1>6, <1>7 DEF Init, TypeOK

\* Types of the program counters an action gives a task.
LEMMA LabelTypes ==
    /\ \A l \in DOMAIN After_forbid : After_forbid[l] \in PC
    /\ \A l \in DOMAIN After_permit : After_permit[l] \in PC
    /\ "user" \in PC /\ "none" \in PC /\ WaitPC \subseteq PC /\ RecvPC \subseteq PC
    /\ PostPC \subseteq PC /\ MakePC \subseteq PC
BY DEF After_forbid, After_permit, PC, WaitPC, RecvPC, PostPC, MakePC

(* Every step of a task keeps the types (task.c:37-168, queue.c:36-135).   *)
LEMMA TaskTypes ==
    ASSUME TypeOK, TargetOK, NEW t \in Task,
           \/ \E d \in Delays : Delay(t, d)
           \/ StartCall(t) \/ SystemCall(t) \/ TaskStep(t)
    PROVE  TypeOK'
<1> USE DEF TypeOK, lists, tasks, taskVars, counters, levels, ghosts, Goto
<1>1. ASSUME NEW d \in Delays, Delay(t, d) PROVE TypeOK'
  BY <1>1, SchedAssumption, LabelTypes DEF Delay, Calls, WaitPC
<1>2. ASSUME NEW c, NEW l, NEW u \in Task \cup {NoTask}, Start(t, c, l, u),
             c \in Calls, l \in PC
      PROVE  TypeOK'
  BY <1>2 DEF Start
<1>3. CASE StartCall(t)
  BY <1>2, <1>3 DEF StartCall, Calls, PC, RecvPC, PostPC, MakePC
<1>4. CASE SystemCall(t)
  <2>1. pc' \in [Task -> PC]
    BY <1>4, LabelTypes DEF SystemCall, WaitPC, PostPC
  <2>2. Interrupted("sys", "entry") \in [Level -> Label]
        /\ Interrupted("sys", "exit") \in [Level -> Label]
    BY DEF Interrupted, Label, IdleAt
  <2>3. at' \in [Level -> Label] /\ kReenter' \in Int
    BY <1>4, <2>2 DEF SystemCall
  <2> QED BY <1>4, <2>1, <2>3 DEF SystemCall
<1>5. CASE forbid(t)
  BY <1>5, LabelTypes DEF forbid
<1>6. CASE permit(t)
  BY <1>6, LabelTypes DEF permit, Permitted, Continue, Calls
<1>7. CASE WaitStore(t)
  <2>1. pc' \in [Task -> PC]
    BY <1>7, LabelTypes DEF WaitStore, WaitPC
  <2>2. Awaited(t) \in Signals
    BY DEF Awaited, Signals
  <2>3. /\ flags' \in [Task -> SUBSET Flags]
        /\ sigsWaiting' \in [Task -> SUBSET Signals]
        /\ sigsRecvd' \in [Task -> SUBSET Signals]
    <3>1. CASE pc[t] = "w_sigs"
      <4>1. sigsWaiting[t] \cup {Awaited(t)} \in SUBSET Signals
        BY <2>2
      <4> QED BY <1>7, <3>1, <4>1 DEF WaitStore
    <3>2. CASE pc[t] = "w_recvd"
      BY <1>7, <3>2 DEF WaitStore
    <3>3. CASE pc[t] = "w_flags"
      BY <1>7, <3>3 DEF WaitStore
    <3> QED BY <1>7, <3>1, <3>2, <3>3 DEF WaitStore
  <2> QED BY <1>7, <2>1, <2>3 DEF WaitStore
<1>8. CASE WaitLock(t)
  <2>1. pc' \in [Task -> PC]
    BY <1>8, LabelTypes DEF WaitLock, WaitPC
  <2>2. waitLock' \in Int
    BY <1>8 DEF WaitLock
  <2> QED BY <1>8, <2>1, <2>2 DEF WaitLock
<1>9. CASE WaitEnqueue(t)
  <2>1. raced' \in BOOLEAN
    BY <1>9, RacesTypes DEF WaitEnqueue
  <2> QED BY <1>9, <2>1, LabelTypes, ListTypes DEF WaitEnqueue, WaitPC
<1>10. CASE WaitReturn(t)
  BY <1>10, LabelTypes DEF WaitReturn, Continue, Calls, RecvPC
<1>11. CASE Receive(t)
  <2>1. pc' \in [Task -> PC]
    BY <1>11, LabelTypes DEF Receive, WaitPC, RecvPC
  <2>2. slots' \in 0..MaxSlots
    <3>1. CASE slots < MaxSlots
      BY <1>11, <3>1, SchedAssumption DEF Receive
    <3>2. CASE ~(slots < MaxSlots)
      BY <1>11, <3>2 DEF Receive
    <3> QED BY <3>1, <3>2
  <2> QED BY <1>11, <2>1, <2>2 DEF Receive
<1>12. CASE SignalTest(t)
  <2>1. pc' \in [Task -> PC]
    BY <1>12, LabelTypes DEF SignalTest, PostPC
  <2>2. forbidCounter' \in Nat
    BY <1>12 DEF SignalTest
  <2> QED BY <1>12, <2>1, <2>2 DEF SignalTest
<1>13. CASE SignalStore(t)
  BY <1>13, LabelTypes DEF SignalStore, Signalled, PostPC, Signals, Flags
<1>14. CASE Unlink(t)
  <2>1. target[t] \in Task
    BY <1>14 DEF Unlink, TargetOK, UsesTarget
  <2>2. pc' \in [Task -> PC]
    BY <1>14, <2>1, LabelTypes DEF Unlink, PostPC, MakePC
  <2>3. flags' \in [Task -> SUBSET Flags] /\ sigsWaiting' \in [Task -> SUBSET Signals]
    BY <1>14, <2>1 DEF Unlink
  <2>4. ready' \in Seq(Task) /\ waiting' \in Seq(Task)
    BY <1>14, <2>1, ListTypes DEF Unlink
  <2>5. raced' \in BOOLEAN
    BY <1>14, RacesTypes DEF Unlink
  <2> QED BY <1>14, <2>2, <2>3, <2>4, <2>5 DEF Unlink
<1>15. CASE Link(t)
  <2>1. target[t] \in Task
    BY <1>15 DEF Link, TargetOK, UsesTarget
  <2>2. pc' \in [Task -> PC]
    BY <1>15, <2>1, LabelTypes DEF Link, PostPC, MakePC
  <2>3. /\ flags' \in [Task -> SUBSET Flags]
        /\ sigsWaiting' \in [Task -> SUBSET Signals]
        /\ sigsRecvd' \in [Task -> SUBSET Signals]
        /\ taskDelay' \in [Task -> 0..(TickRange - 1)]
    <3>1. CASE pc[t] = "s_enq"
      BY <1>15, <3>1 DEF Link
    <3>2. CASE pc[t] # "s_enq"
      <4>1. {"TS_READY"} \in SUBSET Flags /\ {} \in SUBSET Signals /\ 0 \in 0..(TickRange - 1)
        BY SchedAssumption DEF Flags
      <4> QED BY <1>15, <2>1, <3>2, <4>1 DEF Link
    <3> QED BY <3>1, <3>2
  <2>4. ready' \in Seq(Task)
    BY <1>15, <2>1, ListTypes DEF Link
  <2>5. raced' \in BOOLEAN
    BY <1>15, RacesTypes DEF Link
  <2> QED BY <1>15, <2>2, <2>3, <2>4, <2>5 DEF Link
<1>16. CASE SignalCompare(t)
  BY <1>16, LabelTypes DEF SignalCompare, PostPC
<1> QED BY <1>1, <1>3, <1>4, <1>5, <1>6, <1>7, <1>8, <1>9, <1>10, <1>11, <1>12, <1>13,
           <1>14, <1>15, <1>16 DEF TaskStep

(* What an interrupt's signal() does keeps the types (task.c:136-151).     *)
LEMMA ReadiesTypes ==
    ASSUME TypeOK, NEW t \in Task, NEW s \in Signals, Readies(t, s)
    PROVE  /\ ready' \in Seq(Task) /\ waiting' \in Seq(Task)
           /\ flags' \in [Task -> SUBSET Flags]
           /\ sigsWaiting' \in [Task -> SUBSET Signals]
           /\ sigsRecvd' \in [Task -> SUBSET Signals]
           /\ misused' \in BOOLEAN /\ hit' \in BOOLEAN /\ raced' \in BOOLEAN
<1> USE DEF TypeOK
<1>1. ready' \in Seq(Task) /\ waiting' \in Seq(Task)
  BY ListTypes DEF Readies
<1>2. flags[t] \cup {"TS_READY"} \in SUBSET Flags
      /\ sigsWaiting[t] \ {s} \in SUBSET Signals
      /\ sigsRecvd[t] \cup {s} \in SUBSET Signals
  BY DEF Flags
<1>3. /\ flags' \in [Task -> SUBSET Flags]
      /\ sigsWaiting' \in [Task -> SUBSET Signals]
      /\ sigsRecvd' \in [Task -> SUBSET Signals]
  BY <1>2 DEF Readies, Signalled
<1>4. misused' \in BOOLEAN /\ hit' \in BOOLEAN
  BY DEF Readies
<1>5. raced' \in BOOLEAN
  BY RacesTypes DEF Readies
<1> QED BY <1>1, <1>3, <1>4, <1>5

(* So does what an interrupt's yield() does (task.c:156).                  *)
LEMMA YieldTypes ==
    ASSUME TypeOK, InterruptYields
    PROVE  needSchedule' \in BOOLEAN /\ forbidCounter' \in Nat /\ breached' \in BOOLEAN
<1>1. needSchedule' \in BOOLEAN /\ forbidCounter' \in Nat
  BY DEF InterruptYields
<1>2. breached' \in BOOLEAN
  BY Zenon DEF InterruptYields
<1> QED BY <1>1, <1>2

(* Every step of the kernel keeps the types (idt.c:127-190, timer.c:17-35, *)
(* console.c:50-80, queue.c:36-92, task.c:64-117).                         *)
LEMMA KernelTypes ==
    ASSUME TypeOK, PickedOK, AllocOK, TimerInterrupt \/ KeyboardInterrupt \/ KernelStep
    PROVE  TypeOK'
<1> USE DEF TypeOK, lists, tasks, taskVars, progVars, counters, levels, ghosts
<1>1. ASSUME NEW L \in Level, NEW l \in Label
      PROVE  /\ Interrupted(L, l) \in [Level -> Label]
             /\ [at EXCEPT ![L] = l] \in [Level -> Label]
  BY DEF Interrupted, Label, IdleAt
<1>2. /\ "sys" \in Level /\ "irq1" \in Level /\ "irq0" \in Level
      /\ "resume" \in Level
      /\ {"off", "entry", "alloc", "yield", "walk", "exit", "eoi", "count", "iret"} \subseteq Label
      /\ {"sti", "hlt", "woken", "picked", "unlinked"} \subseteq Label
  BY DEF Level, Label, IdleAt
<1>3. CASE TimerInterrupt
  <2>1. at' \in [Level -> Label]
    BY <1>1, <1>2, <1>3 DEF TimerInterrupt
  <2>2. cursor' \in Task \cup {NoTask}
    BY <1>3, ListTypes DEF TimerInterrupt, WalkStart
  <2> QED BY <1>3, <2>1, <2>2 DEF TimerInterrupt
<1>4. CASE KeyboardInterrupt
  <2>1. at' \in [Level -> Label]
    BY <1>1, <1>2, <1>4 DEF KeyboardInterrupt
  <2> QED BY <1>4, <2>1 DEF KeyboardInterrupt
<1>5. CASE _yield
  BY <1>1, <1>2, <1>5 DEF _yield
<1>6. CASE TimerDone
  BY <1>1, <1>2, <1>6 DEF TimerDone
<1>7. CASE KeyRelease
  <2>1. at' \in [Level -> Label]
    BY <1>1, <1>2, <1>7 DEF KeyRelease
  <2> QED BY <1>7, <2>1 DEF KeyRelease
<1>8. CASE KeyPress
  <2>1. at' \in [Level -> Label]
    BY <1>1, <1>2, <1>8 DEF KeyPress
  <2>2. kReenter' \in Int /\ leaked' \in BOOLEAN
    <3>1. CASE slots > 0
      BY <1>8, <3>1 DEF KeyPress
    <3>2. CASE ~(slots > 0)
      BY <1>8, <3>2 DEF KeyPress
    <3> QED BY <3>1, <3>2
  <2> QED BY <1>8, <2>1, <2>2 DEF KeyPress
<1>9. CASE KeyYield
  <2>1. at' \in [Level -> Label]
    BY <1>1, <1>2, <1>9 DEF KeyYield
  <2>2. needSchedule' \in BOOLEAN /\ forbidCounter' \in Nat /\ breached' \in BOOLEAN
    BY <1>9, YieldTypes DEF KeyYield
  <2> QED BY <1>9, <2>1, <2>2 DEF KeyYield
<1>10. ASSUME NEW L \in Level, Leave(L) PROVE TypeOK'
  <2>1. at' \in [Level -> Label]
    BY <1>1, <1>2, <1>10 DEF Leave
  <2> QED BY <1>10, <2>1 DEF Leave
<1>11. ASSUME NEW L \in Level, IdleHalt(L) PROVE TypeOK'
  BY <1>1, <1>2, <1>11 DEF IdleHalt
<1>12. ASSUME NEW L \in Level, IdlePick(L) PROVE TypeOK'
  BY <1>1, <1>2, <1>12, ListTypes DEF IdlePick
<1>13. ASSUME NEW L \in Level, IdleRemove(L) PROVE TypeOK'
  <2>1. picked \in Task
    BY <1>13 DEF IdleRemove, PickedOK
  <2>2. at' \in [Level -> Label]
    BY <1>1, <1>2, <1>13 DEF IdleRemove
  <2>3. ready' \in Seq(Task) /\ misused' \in BOOLEAN
    BY <1>13, <2>1, ListTypes DEF IdleRemove
  <2>4. raced' \in BOOLEAN
    BY <1>13, RacesTypes DEF IdleRemove
  <2> QED BY <1>13, <2>2, <2>3, <2>4 DEF IdleRemove
<1>17. ASSUME NEW L \in Level, IdleRun(L) PROVE TypeOK'
  <2>1. picked \in Task
    BY <1>17 DEF IdleRun, PickedOK
  <2>2. flags[picked] \cup {"TS_RUN"} \in SUBSET Flags
    BY <2>1 DEF Flags
  <2>3. flags' \in [Task -> SUBSET Flags]
    BY <1>17, <2>1, <2>2 DEF IdleRun
  <2>4. at' \in [Level -> Label]
    BY <1>2, <1>17 DEF IdleRun
  <2> QED BY <1>17, <2>1, <2>3, <2>4 DEF IdleRun
<1>18. ASSUME NEW L \in Level, IdleEOI(L) PROVE TypeOK'
  BY <1>2, <1>18 DEF IdleEOI
<1>19. CASE ResumeCount
  <2>1. at' \in [Level -> Label] /\ kReenter' \in Int
    BY <1>1, <1>2, <1>19 DEF ResumeCount
  <2> QED BY <1>19, <2>1 DEF ResumeCount
<1>20. CASE ResumeReturn
  BY <1>1, <1>2, <1>20 DEF ResumeReturn
<1>14. ASSUME NEW L \in Level, Switch(L) PROVE TypeOK'
  <2> DEFINE queue == IF StillReady THEN Insert(ready, running) ELSE ready
  <2>1. queue \in Seq(Task)
    BY ListTypes
  <2>2. Stopped \in [Task -> SUBSET Flags]
    <3>1. flags[running] \ {"TS_RUN"} \in SUBSET Flags
      OBVIOUS
    <3> QED BY <3>1 DEF Stopped
  <2>3. CASE queue = <<>>
    <3>1. /\ at' = [at EXCEPT ![L] = "sti"] /\ flags' = Stopped
          /\ UNCHANGED <<ready, running, kReenter, raced>>
      BY <1>14, <2>3 DEF Switch
    <3>2. at' \in [Level -> Label]
      BY <1>1, <1>2, <3>1
    <3> QED BY <1>14, <2>2, <3>1, <3>2 DEF Switch
  <2>4. CASE queue # <<>>
    <3>1. queue[1] \in Task
      BY <2>1, <2>4, ListTypes
    <3>2. Stopped[queue[1]] \cup {"TS_RUN"} \in SUBSET Flags
      BY <2>2, <3>1 DEF Flags
    <3> HIDE DEF queue
    <3>3. /\ flags' = [Stopped EXCEPT ![queue[1]] = @ \cup {"TS_RUN"}]
          /\ Dispatch(L, queue, queue[1])
          /\ Races(NoTask, {"ready"})
      BY <1>14, <2>4 DEF Switch, queue
    <3>4. flags' \in [Task -> SUBSET Flags]
      BY <2>2, <3>1, <3>2, <3>3
    <3>5. running' \in Task /\ kReenter' \in Int
      BY <3>1, <3>3 DEF Dispatch
    <3>7. ready' \in Seq(Task)
      BY <2>1, <3>1, <3>3, ListTypes DEF Dispatch
    <3>6. at' \in [Level -> Label]
      BY <1>1, <1>2, <3>3 DEF Dispatch
    <3>8. raced' \in BOOLEAN
      BY <3>3, RacesTypes
    <3> QED BY <1>14, <3>4, <3>5, <3>6, <3>7, <3>8 DEF Switch
  <2> QED BY <2>3, <2>4
<1>15. CASE TimerVisit
  <2>1. cursor \in Task /\ "TB_DELAY" \in Signals
    BY <1>15 DEF TimerVisit, Signals
  <2>2. (taskDelay[cursor] - 1) % TickRange \in 0..(TickRange - 1)
    BY <2>1, SchedAssumption
  <2>3. taskDelay' \in [Task -> 0..(TickRange - 1)]
    BY <1>15, <2>1, <2>2 DEF TimerVisit
  <2>4. Readies(cursor, "TB_DELAY")
        \/ UNCHANGED <<lists, flags, sigsWaiting, sigsRecvd, misused, raced, hit>>
    BY <1>15 DEF TimerVisit
  <2>5. /\ ready' \in Seq(Task) /\ waiting' \in Seq(Task)
        /\ flags' \in [Task -> SUBSET Flags]
        /\ sigsWaiting' \in [Task -> SUBSET Signals]
        /\ sigsRecvd' \in [Task -> SUBSET Signals]
        /\ misused' \in BOOLEAN /\ hit' \in BOOLEAN /\ raced' \in BOOLEAN
    BY <2>1, <2>4, ReadiesTypes
  <2>6. InterruptYields \/ UNCHANGED <<needSchedule, forbidCounter, breached>>
    BY <1>15 DEF TimerVisit
  <2>7. needSchedule' \in BOOLEAN /\ forbidCounter' \in Nat /\ breached' \in BOOLEAN
    BY <2>6, YieldTypes
  <2>8. cursor' \in Task \cup {NoTask}
    BY <1>15, <2>1, <2>5, ListTypes DEF TimerVisit
  <2> QED BY <1>15, <2>3, <2>5, <2>7, <2>8 DEF TimerVisit
<1>16. CASE KeySend
  <2>1. slots' \in 0..MaxSlots
    BY <1>16, SchedAssumption DEF KeySend, AllocOK
  <2>2. Readies(Owner, "TB_QUEUE")
        \/ UNCHANGED <<lists, flags, sigsWaiting, sigsRecvd, misused, raced, hit>>
    BY <1>16 DEF KeySend
  <2>3. /\ ready' \in Seq(Task) /\ waiting' \in Seq(Task)
        /\ flags' \in [Task -> SUBSET Flags]
        /\ sigsWaiting' \in [Task -> SUBSET Signals]
        /\ sigsRecvd' \in [Task -> SUBSET Signals]
        /\ misused' \in BOOLEAN /\ hit' \in BOOLEAN /\ raced' \in BOOLEAN
    BY <2>2, ReadiesTypes, SchedAssumption DEF Signals
  <2>4. kReenter' \in Int /\ forbidCounter' \in Nat
    BY <1>16 DEF KeySend, Permitted
  <2>5. at' \in [Level -> Label]
    BY <1>1, <1>2, <1>16 DEF KeySend
  <2> QED BY <1>16, <2>1, <2>3, <2>4, <2>5 DEF KeySend
<1> QED BY <1>3, <1>4, <1>5, <1>6, <1>7, <1>8, <1>9, <1>10, <1>11, <1>12, <1>13, <1>14,
           <1>15, <1>16, <1>17, <1>18, <1>19, <1>20 DEF KernelStep

-----------------------------------------------------------------------------
(* Targets: a task signals, creates or destroys another one, never itself, *)
(* and while it does so its target stays (task.c:136, 37, 53).             *)

(* A step of one task leaves the target of every task another task.        *)
LEMMA TargetStep ==
    ASSUME TypeOK, TargetOK, Next
    PROVE  TargetOK'
<1>1. ASSUME NEW t \in Task, NEW l, pc' = [pc EXCEPT ![t] = l], target' = target,
             l \in UsesTarget => pc[t] \in UsesTarget
      PROVE  TargetOK'
  BY <1>1 DEF TypeOK, TargetOK
<1>2. ASSUME UNCHANGED progVars PROVE TargetOK'
  BY <1>2 DEF progVars, TargetOK
<1>3. ASSUME NEW t \in Task, NEW d \in Delays, Delay(t, d) PROVE TargetOK'
  BY <1>1, <1>3 DEF Delay, Goto, UsesTarget
<1>4. ASSUME NEW t \in Task, StartCall(t) PROVE TargetOK'
  <2>1. ASSUME NEW c, NEW l, NEW u, Start(t, c, l, u), l \in UsesTarget => u \in Task \ {t}
        PROVE  TargetOK'
    BY <2>1 DEF Start, Goto, TypeOK, TargetOK
  <2> QED BY <1>4, <2>1 DEF StartCall, UsesTarget
<1>5. ASSUME NEW t \in Task, SystemCall(t) PROVE TargetOK'
  <2>1. CASE UNCHANGED pc
    BY <1>2, <1>5, <2>1 DEF SystemCall, progVars
  <2>2. CASE Goto(t, "w_ret") \/ Goto(t, "p_yielded")
    BY <1>1, <1>5, <2>2 DEF SystemCall, Goto, UsesTarget
  <2> QED BY <1>5, <2>1, <2>2 DEF SystemCall
<1>6. ASSUME NEW t \in Task, forbid(t) PROVE TargetOK'
  <2>1. \A l \in DOMAIN After_forbid : After_forbid[l] \in UsesTarget => l \in UsesTarget
    BY DEF After_forbid, UsesTarget
  <2> QED BY <1>1, <1>6, <2>1 DEF forbid, Goto
<1>7. ASSUME NEW t \in Task, NEW l, Continue(t, l), l \in UsesTarget => pc[t] \in UsesTarget
      PROVE  TargetOK'
  BY <1>7 DEF Continue, Goto, TypeOK, TargetOK, UsesTarget
<1>8. ASSUME NEW t \in Task, permit(t) PROVE TargetOK'
  BY <1>7, <1>8 DEF permit, After_permit, UsesTarget
<1>9. ASSUME NEW t \in Task, WaitReturn(t) PROVE TargetOK'
  BY <1>7, <1>9 DEF WaitReturn, UsesTarget
<1>10. ASSUME NEW t \in Task, WaitStore(t) PROVE TargetOK'
  BY <1>1, <1>10 DEF WaitStore, Goto, UsesTarget
<1>11. ASSUME NEW t \in Task, WaitLock(t) PROVE TargetOK'
  BY <1>1, <1>11 DEF WaitLock, Goto, UsesTarget
<1>12. ASSUME NEW t \in Task, WaitEnqueue(t) PROVE TargetOK'
  BY <1>1, <1>12 DEF WaitEnqueue, Goto, UsesTarget
<1>13. ASSUME NEW t \in Task, Receive(t) PROVE TargetOK'
  BY <1>1, <1>13 DEF Receive, Goto, UsesTarget
<1>14. ASSUME NEW t \in Task, SignalTest(t) PROVE TargetOK'
  BY <1>1, <1>14 DEF SignalTest, Goto, UsesTarget
<1>15. ASSUME NEW t \in Task, SignalStore(t) PROVE TargetOK'
  BY <1>1, <1>15 DEF SignalStore, Goto, UsesTarget
<1>16. ASSUME NEW t \in Task, SignalCompare(t) PROVE TargetOK'
  BY <1>1, <1>16 DEF SignalCompare, Goto, UsesTarget
<1>17. ASSUME NEW t \in Task, Unlink(t) PROVE TargetOK'
  <2>1. CASE pc[t] = "s_remove"
    BY <1>1, <1>17, <2>1 DEF Unlink, Goto, UsesTarget
  <2>2. CASE pc[t] = "d_remove"
    <3>1. pc' = [pc EXCEPT ![t] = "d_permit", ![target[t]] = "none"] /\ target' = target
      BY <1>17, <2>2 DEF Unlink
    <3> QED BY <3>1 DEF TypeOK, TargetOK, UsesTarget
  <2> QED BY <1>17, <2>1, <2>2 DEF Unlink
<1>18. ASSUME NEW t \in Task, Link(t) PROVE TargetOK'
  <2>1. CASE pc[t] = "s_enq"
    BY <1>1, <1>18, <2>1 DEF Link, Goto, UsesTarget
  <2>2. CASE pc[t] = "c_enq"
    <3>1. pc' = [pc EXCEPT ![t] = "c_permit", ![target[t]] = "user"] /\ target' = target
      BY <1>18, <2>2 DEF Link
    <3> QED BY <3>1 DEF TypeOK, TargetOK, UsesTarget
  <2> QED BY <1>18, <2>1, <2>2 DEF Link
<1>19. ASSUME TimerInterrupt \/ KeyboardInterrupt \/ KernelStep PROVE UNCHANGED progVars
  BY <1>19 DEF TimerInterrupt, KeyboardInterrupt, KernelStep, _yield, TimerVisit, TimerDone,
               KeyRelease, KeyPress, KeySend, KeyYield, Leave, Switch, IdleHalt, IdlePick,
               IdleRemove, IdleRun, IdleEOI, ResumeCount, ResumeReturn, progVars
<1> QED BY <1>2, <1>3, <1>4, <1>5, <1>6, <1>8, <1>9, <1>10, <1>11, <1>12, <1>13, <1>14,
           <1>15, <1>16, <1>17, <1>18, <1>19 DEF Next, TaskStep

-----------------------------------------------------------------------------
(* Levels.                                                                 *)

(* Task code runs with no level entered, and leaves the levels alone.      *)
LEMMA TaskKeepsLevels ==
    ASSUME TypeOK, Levels, NEW t \in Task,
           \/ \E d \in Delays : Delay(t, d)
           \/ StartCall(t) \/ TaskStep(t)
    PROVE  /\ Levels'
           /\ UNCHANGED <<running, levels, leaked>>
<1>1. Top = "task" /\ UNCHANGED <<levels, leaked, running>>
  BY DEF Delay, StartCall, Start, TaskStep, forbid, permit, WaitStore, WaitLock, WaitEnqueue,
         WaitReturn, Receive, SignalTest, SignalStore, Unlink, Link, SignalCompare, Runs,
         levels, ghosts
<1>2. \A L \in Level : at[L] = "off"
  BY <1>1 DEF Top, Level
<1>3. ResumeOK' /\ IdleOutermost' /\ PickedOK' /\ AllocOK' /\ ReenterCounts'
  BY <1>1, <1>2 DEF Levels, ResumeOK, IdleOutermost, PickedOK, AllocOK, ReenterCounts, Depth, levels,
                    Level, IdleAt
<1>4. IdleForbid'
  BY <1>1, <1>2 DEF IdleForbid, Idling, IdleAt, levels
<1> QED BY <1>1, <1>3, <1>4 DEF Levels

(* Entering and leaving a level, and what a level does, keep the count and *)
(* the idle loop in the outermost level (idt.c:127-190, task.c:64-117).    *)
LEMMA KernelKeepsLevels ==
    ASSUME TypeOK, Levels,
           \/ \E t \in Task : SystemCall(t)
           \/ TimerInterrupt \/ KeyboardInterrupt \/ KernelStep
    PROVE  Levels'
<1> USE DEF Levels, TypeOK, ResumeOK, IdleOutermost, PickedOK, AllocOK, ReenterCounts, IdleForbid, Nested,
            Depth, Idling, IdleAt, Level, Top, Intact, lists, tasks, taskVars, progVars,
            counters, levels, ghosts
<1>1. ASSUME NEW t \in Task, SystemCall(t) PROVE Levels'
  BY <1>1 DEF SystemCall, Runs, Interrupted
<1>2. CASE TimerInterrupt
  BY <1>2 DEF TimerInterrupt, Interrupted
<1>3. CASE KeyboardInterrupt
  BY <1>3 DEF KeyboardInterrupt, Interrupted
<1>4. CASE _yield
  BY <1>4 DEF _yield
<1>5. CASE TimerVisit
  BY <1>5 DEF TimerVisit, InterruptYields
<1>6. CASE TimerDone
  BY <1>6 DEF TimerDone
<1>7. CASE KeyRelease
  BY <1>7 DEF KeyRelease
<1>8. CASE KeyPress
  BY <1>8 DEF KeyPress
<1>9. CASE KeySend
  BY <1>9 DEF KeySend, Permitted
<1>10. CASE KeyYield
  BY <1>10 DEF KeyYield, InterruptYields
<1>11. ASSUME NEW L \in Level, Leave(L) PROVE Levels'
  BY <1>11 DEF Leave
<1>12. ASSUME NEW L \in Level, IdleHalt(L) PROVE Levels'
  BY <1>12 DEF IdleHalt
<1>13. ASSUME NEW L \in Level, IdlePick(L) PROVE Levels'
  <2>1. ready # <<>> => first(ready) \in Task
    BY ListTypes DEF first
  <2>2. \A M \in Level \ {L} : at[M] \notin {"picked", "unlinked"}
    BY <1>13 DEF IdlePick
  <2>3. PickedOK'
    BY <1>13, <2>1, <2>2 DEF IdlePick
  <2>4. ResumeOK' /\ IdleOutermost' /\ AllocOK' /\ ReenterCounts' /\ IdleForbid'
    BY <1>13 DEF IdlePick
  <2> QED BY <2>3, <2>4
<1>14. ASSUME NEW L \in Level, IdleRemove(L) PROVE Levels'
  BY <1>14 DEF IdleRemove
<1>16. ASSUME NEW L \in Level, IdleRun(L) PROVE Levels'
  BY <1>16 DEF IdleRun
<1>17. ASSUME NEW L \in Level, IdleEOI(L) PROVE Levels'
  BY <1>17 DEF IdleEOI
<1>18. CASE ResumeCount
  BY <1>18 DEF ResumeCount
<1>19. CASE ResumeReturn
  BY <1>19 DEF ResumeReturn
<1>15. ASSUME NEW L \in Level, Switch(L) PROVE Levels'
  <2> DEFINE queue == IF StillReady THEN Insert(ready, running) ELSE ready
  <2>1. /\ Top = L /\ at[L] = "exit" /\ Intact /\ kReenter = 0 /\ forbidCounter = 0
        /\ UNCHANGED <<forbidCounter, slots, picked, leaked>>
        /\ stranded' = (at["resume"] # "off" /\ first(queue) # running)
    BY <1>15 DEF Switch, Schedules
  <2>2. CASE queue = <<>>
    <3>1. at' = [at EXCEPT ![L] = "sti"] /\ kReenter' = kReenter
      BY <1>15, <2>2 DEF Switch
    <3>2. first(queue) # running
      BY <2>2, SchedAssumption DEF first
    <3> HIDE DEF queue
    <3>3. /\ at["irq1"] \notin {"alloc", "yield"}
          /\ \A M \in Level \ {L} : at[M] = "off" \/ (M = "resume" /\ at[M] = "iret")
      BY <2>1
    <3>4. stranded' \/ \A M \in Level \ {L} : at[M] = "off"
      BY <2>1, <3>2, <3>3
    <3>5. IdleOutermost'
      BY <2>1, <3>1, <3>3, <3>4
    <3>6. ResumeOK' /\ PickedOK' /\ AllocOK'
      BY <2>1, <3>1, <3>3
    <3>7. ReenterCounts' /\ IdleForbid'
      BY <2>1, <3>1, <3>3
    <3> QED BY <3>5, <3>6, <3>7
  <2>3. CASE queue # <<>>
    <3>1. at' = [at EXCEPT ![L] = "off"] /\ kReenter' = kReenter - 1
      BY <1>15, <2>3 DEF Switch, Dispatch
    <3> HIDE DEF queue
    <3> QED BY <2>1, <3>1
  <2> QED BY <2>2, <2>3
<1> QED BY <1>1, <1>2, <1>3, <1>4, <1>5, <1>6, <1>7, <1>8, <1>9, <1>10, <1>11, <1>12, <1>13,
           <1>14, <1>15, <1>16, <1>17, <1>18, <1>19 DEF KernelStep

-----------------------------------------------------------------------------
(* The invariant.                                                          *)

(* The scheduler starts in a Core state (kernel_main.c:28-96).             *)
LEMMA InitCore == Init => Core
<1> SUFFICES ASSUME Init PROVE Core
  OBVIOUS
<1>1. TypeOK
  BY InitTypes
<1>2. TargetOK
  BY DEF Init, TargetOK, UsesTarget
<1>3. ResumeOK /\ IdleOutermost /\ PickedOK /\ AllocOK /\ ReenterCounts
  BY DEF Init, ResumeOK, IdleOutermost, PickedOK, AllocOK, ReenterCounts, Depth, Level, IdleAt
<1>4. IdleForbid
  BY DEF Init, IdleForbid, Idling, IdleAt
<1> QED BY <1>1, <1>2, <1>3, <1>4 DEF Core, Levels

(* Every step keeps Core.                                                  *)
LEMMA NextCore == Core /\ [Next]_vars => Core'
<1> SUFFICES ASSUME Core, [Next]_vars PROVE Core'
  OBVIOUS
<1>1. TypeOK /\ TargetOK /\ PickedOK /\ AllocOK /\ Levels
  BY DEF Core, Levels
<1>2. CASE Next
  <2>1. TypeOK'
    BY <1>1, <1>2, TaskTypes, KernelTypes DEF Next
  <2>2. TargetOK'
    BY <1>1, <1>2, TargetStep
  <2>3. Levels'
    BY <1>1, <1>2, TaskKeepsLevels, KernelKeepsLevels DEF Next
  <2> QED BY <2>1, <2>2, <2>3 DEF Core
<1>3. CASE UNCHANGED vars
  BY <1>1, <1>3 DEF vars, taskVars, progVars, ghosts, Core, TypeOK, TargetOK, Levels, ResumeOK,
                    IdleOutermost, PickedOK, AllocOK, ReenterCounts, IdleForbid, Nested,
                    Idling, Depth
<1> QED BY <1>2, <1>3

LEMMA CoreInvariant == Spec => []Core
BY InitCore, NextCore, PTL DEF Spec

(* Every reachable state of the scheduler is well typed: forbid_counter is *)
(* never negative, free_slots never above max_slots or below zero          *)
(* (task.c:16-23, queue.c:56, 117).                                        *)
THEOREM SchedTypeOK == Spec => []TypeOK
<1>1. Core => TypeOK
  BY DEF Core
<1> QED BY <1>1, CoreInvariant, PTL

(* k_reenter counts the kernel entries on the stack, whatever interrupts   *)
(* nest and wherever the processor idles; it misses only an entry that has *)
(* idled and stands between its k_reenter-- and its iretd, where interrupts *)
(* are enabled (task.c:98, idt.c:136-150, 162-190).                        *)
THEOREM SchedReenterCounts == Spec => []ReenterCounts
<1>1. Core => ReenterCounts
  BY DEF Core, Levels
<1> QED BY <1>1, CoreInvariant, PTL

(* The running task changes only with multitasking enabled, or behind an   *)
(* idle loop after a leaked forbid(); and only at the end of the outermost *)
(* kernel entry, or over a return the idle loop left open, which is        *)
(* recorded as stranded (task.c:69, 98-116).                               *)
THEOREM SchedSwitchAtTaskLevel == Spec => SwitchAtTaskLevel
<1> DEFINE A == running' # running =>
                    /\ kReenter = 0
                    /\ forbidCounter = 0 \/ (leaked /\ Idling)
                    /\ \A L, M \in Entered :
                          L = M \/ (stranded' /\ {at[L], at[M]} = {"exit", "iret"})
<1>1. Core /\ [Next]_vars => [A]_vars
  <2>1. SUFFICES ASSUME Core, Next, running' # running PROVE A
    BY DEF vars
  <2> USE DEF Core, Levels, TypeOK
  <2>2. PICK L \in Level : Switch(L) \/ IdleRun(L)
    <3>1. ASSUME NEW t \in Task, \/ \E d \in Delays : Delay(t, d)
                                 \/ StartCall(t) \/ TaskStep(t)
          PROVE  FALSE
      BY <2>1, <3>1, TaskKeepsLevels
    <3>2. ASSUME NEW t \in Task, SystemCall(t) PROVE FALSE
      BY <2>1, <3>2 DEF SystemCall, tasks
    <3> QED BY <2>1, <3>1, <3>2
            DEF Next, KernelStep, TimerInterrupt, KeyboardInterrupt, _yield, TimerVisit,
                TimerDone, KeyRelease, KeyPress, KeySend, KeyYield, Leave, IdleHalt, IdlePick,
                IdleRemove, IdleEOI, ResumeCount, ResumeReturn, tasks
  <2>3. CASE Switch(L)
    <3>1. kReenter = 0 /\ forbidCounter = 0 /\ at[L] = "exit"
      BY <2>3 DEF Switch, Schedules
    <3>2. CASE at["resume"] = "off"
      <4>1. \A M, N \in Entered : M = N
        BY <2>1, <3>1, <3>2 DEF Entered, ReenterCounts, Depth, Level, ResumeOK
      <4> QED BY <3>1, <4>1
    <3>3. CASE at["resume"] # "off"
      <4>1. L # "resume" /\ at["resume"] = "iret" /\ Entered = {L, "resume"}
        BY <2>1, <3>1, <3>3 DEF Entered, ReenterCounts, Depth, Level, ResumeOK
      <4>2. stranded'
        <5> DEFINE queue == IF StillReady THEN Insert(ready, running) ELSE ready
        <5>1. first(queue) = running' \/ first(queue) = NoTask
          BY <2>3, <3>3 DEF Switch, Dispatch, first
        <5>2. running # NoTask
          BY <2>1, SchedAssumption
        <5>3. stranded' = (at["resume"] # "off" /\ first(queue) # running)
          BY <2>3 DEF Switch
        <5> HIDE DEF queue
        <5>4. first(queue) # running
          BY <2>1, <5>1, <5>2
        <5> QED BY <3>3, <5>3, <5>4
      <4> QED BY <3>1, <4>1, <4>2
    <3> QED BY <3>2, <3>3
  <2>4. CASE IdleRun(L)
    <3>1. at[L] = "unlinked" /\ Top = L /\ Intact
      BY <2>4 DEF IdleRun
    <3>2. /\ kReenter = 0
          /\ at["irq1"] \notin {"alloc", "yield"}
          /\ \A M, N \in Entered : M = N
      BY <2>1, <3>1 DEF IdleOutermost, ResumeOK, IdleAt, Top, Entered, ReenterCounts, Depth, Level,
                        Intact
    <3>3. Idling /\ (leaked \/ forbidCounter = 0)
      BY <2>1, <3>1, <3>2 DEF IdleForbid, Idling, IdleAt, Nested
    <3> QED BY <3>2, <3>3
  <2> QED BY <2>2, <2>3, <2>4
<1> QED BY <1>1, CoreInvariant, PTL DEF Spec, SwitchAtTaskLevel

-----------------------------------------------------------------------------
(* The lists and the run flag, relative to Core.                           *)

Queue(s) == NoDuplicates(s) /\ ByPriority(s)

(* enqueue() of an unlinked task and remove() of any task keep a queue.    *)
LEMMA QueueOperations ==
    /\ \A s \in Seq(Task), t \in Task :
          Queue(s) /\ t \notin ToSet(s) =>
              Queue(Insert(s, t)) /\ ToSet(Insert(s, t)) = ToSet(s) \cup {t}
    /\ \A s \in Seq(Task), t \in Task :
          Queue(s) => Queue(Without(s, t)) /\ ToSet(Without(s, t)) = ToSet(s) \ {t}
<1>1. pri \in [Task -> Int]
  BY SchedAssumption
<1>2. ASSUME NEW s \in Seq(Task), NEW t \in Task, Queue(s), t \notin ToSet(s)
      PROVE  Queue(Insert(s, t)) /\ ToSet(Insert(s, t)) = ToSet(s) \cup {t}
  BY <1>1, <1>2, InsertKeepsQueue DEF Queue
<1>3. ASSUME NEW s \in Seq(Task), NEW t \in Task, Queue(s)
      PROVE  Queue(Without(s, t)) /\ ToSet(Without(s, t)) = ToSet(s) \ {t}
  BY <1>1, <1>3, WithoutKeepsQueue DEF Queue
<1> QED BY <1>2, <1>3

\* The two lists after a step.
Queues == Queue(ready) /\ Queue(waiting) /\ ToSet(ready) \cap ToSet(waiting) = {}

LEMMA QueuesDef == ListsAreQueues <=> (~misused => Queues)
BY DEF ListsAreQueues, Queues, Queue

(* signal() in an interrupt moves a linked task (task.c:143-144).          *)
LEMMA ReadiesKeepsQueues ==
    ASSUME TypeOK, ListsAreQueues, NEW t \in Task, NEW s, Readies(t, s), ~misused'
    PROVE  Queues'
<1>1. ~misused /\ Linked(t) /\ Queues
  BY QueuesDef DEF Readies
<1>2. ready' = Insert(Without(ready, t), t) /\ waiting' = Without(waiting, t)
  BY <1>1 DEF Readies
<1>3. /\ ready \in Seq(Task) /\ waiting \in Seq(Task) /\ Without(ready, t) \in Seq(Task)
  BY ListTypes DEF TypeOK
<1> DEFINE r == Without(ready, t)
<1>4. Queue(r) /\ ToSet(r) = ToSet(ready) \ {t}
  BY <1>1, <1>3, QueueOperations DEF Queues
<1>5. Queue(waiting') /\ ToSet(waiting') = ToSet(waiting) \ {t}
  BY <1>1, <1>2, <1>3, QueueOperations DEF Queues
<1> HIDE DEF r
<1>6. Queue(Insert(r, t)) /\ ToSet(Insert(r, t)) = ToSet(r) \cup {t}
  BY <1>3, <1>4, QueueOperations DEF r
<1>7. ready' = Insert(r, t)
  BY <1>2 DEF r
<1> QED BY <1>1, <1>4, <1>5, <1>6, <1>7 DEF Queues

(* Every step keeps the lists queues until it misuses one.                 *)
LEMMA NextQueues == TypeOK /\ TargetOK /\ PickedOK /\ ListsAreQueues /\ [Next]_vars => ListsAreQueues'
<1> SUFFICES ASSUME TypeOK, TargetOK, PickedOK, ListsAreQueues, [Next]_vars, ~misused'
             PROVE  Queues'
  BY DEF ListsAreQueues, Queues, Queue
<1>1. ASSUME UNCHANGED <<ready, waiting, misused>> PROVE Queues'
  BY <1>1, QueuesDef DEF Queues
<1>2. ready \in Seq(Task) /\ waiting \in Seq(Task) /\ running \in Task
  BY DEF TypeOK
<1>3. ASSUME NEW t \in Task, WaitEnqueue(t) PROVE Queues'
  <2>1. /\ ~misused /\ ~Linked(t) /\ Queues
        /\ waiting' = Insert(waiting, t) /\ ready' = ready
    BY <1>3, QueuesDef DEF WaitEnqueue
  <2>2. Queue(waiting') /\ ToSet(waiting') = ToSet(waiting) \cup {t}
    BY <1>2, <2>1, QueueOperations DEF Queues, Linked
  <2> QED BY <2>1, <2>2 DEF Queues, Linked
<1>4. ASSUME NEW t \in Task, Unlink(t) PROVE Queues'
  <2>1. target[t] \in Task
    BY <1>4 DEF Unlink, TargetOK, UsesTarget
  <2>2. /\ Queues /\ ready' = Without(ready, target[t]) /\ waiting' = Without(waiting, target[t])
    BY <1>4, QueuesDef DEF Unlink
  <2>3. /\ Queue(ready') /\ ToSet(ready') = ToSet(ready) \ {target[t]}
        /\ Queue(waiting') /\ ToSet(waiting') = ToSet(waiting) \ {target[t]}
    BY <1>2, <2>1, <2>2, QueueOperations DEF Queues
  <2> QED BY <2>2, <2>3 DEF Queues
<1>5. ASSUME NEW t \in Task, Link(t) PROVE Queues'
  <2>1. target[t] \in Task
    BY <1>5 DEF Link, TargetOK, UsesTarget
  <2>2. /\ ~Linked(target[t]) /\ Queues
        /\ ready' = Insert(ready, target[t]) /\ waiting' = waiting
    BY <1>5, QueuesDef DEF Link
  <2>3. Queue(ready') /\ ToSet(ready') = ToSet(ready) \cup {target[t]}
    BY <1>2, <2>1, <2>2, QueueOperations DEF Queues, Linked
  <2> QED BY <2>2, <2>3 DEF Queues, Linked
<1>6. CASE TimerVisit
  <2>1. cursor \in Task
    BY <1>6 DEF TimerVisit, TypeOK
  <2>2. CASE Readies(cursor, "TB_DELAY")
    BY <2>1, <2>2, ReadiesKeepsQueues
  <2>3. CASE UNCHANGED <<lists, flags, sigsWaiting, sigsRecvd, misused, raced, hit>>
    BY <1>1, <2>3 DEF lists
  <2> QED BY <1>6, <2>2, <2>3 DEF TimerVisit
<1>7. CASE KeySend
  <2>1. CASE Readies(Owner, "TB_QUEUE")
    BY <2>1, ReadiesKeepsQueues, SchedAssumption
  <2>2. CASE UNCHANGED <<lists, flags, sigsWaiting, sigsRecvd, misused, raced, hit>>
    BY <1>1, <2>2 DEF lists
  <2> QED BY <1>7, <2>1, <2>2 DEF KeySend
<1>8. ASSUME NEW L \in Level, IdleRemove(L) PROVE Queues'
  <2>1. /\ Queues /\ ready' = Without(ready, picked) /\ waiting' = waiting
    BY <1>8, QueuesDef DEF IdleRemove, Intact
  <2>2. picked \in Task
    BY <1>8 DEF IdleRemove, PickedOK
  <2>3. Queue(ready') /\ ToSet(ready') = ToSet(ready) \ {picked}
    BY <1>2, <2>1, <2>2, QueueOperations DEF Queues
  <2> QED BY <2>1, <2>3 DEF Queues
<1>9. ASSUME NEW L \in Level, Switch(L) PROVE Queues'
  <2> DEFINE queue == IF StillReady THEN Insert(ready, running) ELSE ready
  <2>1. Queues /\ (StillReady => ~Linked(running)) /\ waiting' = waiting
    BY <1>9, QueuesDef DEF Switch, Intact
  <2>3. queue \in Seq(Task) /\ Queue(queue) /\ ToSet(queue) \cap ToSet(waiting) = {}
    <3>1. CASE StillReady
      <4>1. /\ queue \in Seq(Task) /\ Queue(queue)
            /\ ToSet(queue) = ToSet(ready) \cup {running}
        BY <1>2, <2>1, <3>1, QueueOperations, ListTypes DEF Queues, Linked
      <4> QED BY <2>1, <3>1, <4>1 DEF Queues, Linked
    <3>2. CASE ~StillReady
      BY <1>2, <2>1, <3>2 DEF Queues
    <3> QED BY <3>1, <3>2
  <2>4. CASE queue = <<>>
    <3>1. ready' = ready
      BY <1>9, <2>4 DEF Switch
    <3> QED BY <2>1, <3>1 DEF Queues
  <2>5. CASE queue # <<>>
    <3>1. queue[1] \in Task
      BY <2>3, <2>5, ListTypes
    <3>2. ready' = Without(queue, queue[1])
      BY <1>9, <2>5 DEF Switch, Dispatch
    <3> HIDE DEF queue
    <3>3. Queue(ready') /\ ToSet(ready') = ToSet(queue) \ {queue[1]}
      BY <2>3, <3>1, <3>2, QueueOperations
    <3> QED BY <2>1, <2>3, <3>3 DEF Queues
  <2> QED BY <2>4, <2>5
<1>10. \/ \E t \in Task : WaitEnqueue(t) \/ Unlink(t) \/ Link(t)
       \/ TimerVisit \/ KeySend
       \/ \E L \in Level : IdleRemove(L) \/ Switch(L)
       \/ UNCHANGED <<ready, waiting, misused>>
  BY DEF Next, Delay, StartCall, Start, SystemCall, TaskStep, forbid, permit, WaitStore,
         WaitLock, WaitReturn, Receive, SignalTest, SignalStore, SignalCompare,
         TimerInterrupt, KeyboardInterrupt, KernelStep, _yield, TimerDone, KeyRelease,
         KeyPress, KeyYield, InterruptYields, Leave, IdleHalt, IdlePick, IdleRun, IdleEOI,
         ResumeCount, ResumeReturn, vars, lists, tasks, ghosts
<1> QED BY <1>1, <1>3, <1>4, <1>5, <1>6, <1>7, <1>8, <1>9, <1>10

(* Until a list routine is misused, tasks_ready and tasks_wait are         *)
(* disjoint, hold a task once and are in order of priority, for any tasks  *)
(* and priorities (list.c:110-149, task.c:74, 111, 128, 143-144).          *)
THEOREM SchedListsAreQueues == Spec => []ListsAreQueues
<1>1. Init => ListsAreQueues
  <2>1. ASSUME Init PROVE Queues
    <3>1. Queue(Created) /\ ready = Created /\ waiting = <<>>
      BY <2>1, SchedAssumption DEF Init, Queue
    <3>2. Queue(<<>>) /\ ToSet(<<>>) = {}
      BY DEF Queue, NoDuplicates, ByPriority, ToSet
    <3> QED BY <3>1, <3>2 DEF Queues
  <2> QED BY <2>1, QueuesDef
<1>2. Core /\ ListsAreQueues /\ [Next]_vars => ListsAreQueues'
  BY NextQueues DEF Core, Levels
<1> QED BY <1>1, <1>2, CoreInvariant, PTL DEF Spec

-----------------------------------------------------------------------------
(* TS_RUN.                                                                 *)

(* Task code neither starts nor stops a task: it destroys and creates      *)
(* others (task.c:37-61).                                                  *)
LEMMA TaskKeepsRunFlag ==
    ASSUME Core, RunFlag, NEW t \in Task,
           \/ \E d \in Delays : Delay(t, d)
           \/ StartCall(t) \/ SystemCall(t) \/ TaskStep(t)
    PROVE  RunFlag'
<1> USE DEF Core, TypeOK
<1>1. ~Idling /\ running = t /\ running' = running
  <2>1. Top = "task" /\ running = t /\ running' = running
    BY DEF Delay, StartCall, Start, SystemCall, TaskStep, forbid, permit, WaitStore, WaitLock,
           WaitEnqueue, WaitReturn, Receive, SignalTest, SignalStore, Unlink, Link,
           SignalCompare, Runs, tasks
  <2> QED BY <2>1 DEF Top, Idling, Level, IdleAt
<1>2. ~Idling'
  <2>1. CASE SystemCall(t)
    BY <1>1, <2>1 DEF SystemCall, Runs, Top, Interrupted, Idling, Level, IdleAt
  <2>2. CASE ~SystemCall(t)
    BY <1>1, <2>2, TaskKeepsLevels DEF levels, Idling
  <2> QED BY <2>1, <2>2
<1>3. \A u \in Task : "TS_RUN" \in flags'[u] <=> "TS_RUN" \in flags[u]
  <2>1. CASE UNCHANGED flags
    BY <2>1
  <2>2. CASE WaitStore(t)
    BY <2>2 DEF WaitStore
  <2>3. CASE SignalStore(t)
    BY <2>3 DEF SignalStore, Signalled
  <2>4. ASSUME NEW new, "TS_RUN" \notin new, target[t] \in Task \ {t},
               flags' = [flags EXCEPT ![target[t]] = new]
        PROVE  \A u \in Task : "TS_RUN" \in flags'[u] <=> "TS_RUN" \in flags[u]
    <3>1. "TS_RUN" \notin flags[target[t]]
      BY <1>1, <2>4 DEF RunFlag
    <3> QED BY <2>4, <3>1
  <2>5. CASE Unlink(t)
    <3>1. target[t] \in Task \ {t}
      BY <2>5 DEF Unlink, TargetOK, UsesTarget
    <3> QED BY <2>1, <2>4, <2>5, <3>1 DEF Unlink
  <2>6. CASE Link(t)
    <3>1. target[t] \in Task \ {t}
      BY <2>6 DEF Link, TargetOK, UsesTarget
    <3> QED BY <2>1, <2>4, <2>6, <3>1 DEF Link, taskVars
  <2> QED BY <2>1, <2>2, <2>3, <2>5, <2>6
          DEF Delay, StartCall, Start, SystemCall, TaskStep, forbid, permit, WaitLock,
              WaitEnqueue, WaitReturn, Receive, SignalTest, SignalCompare, tasks, taskVars
<1> QED BY <1>1, <1>2, <1>3 DEF RunFlag

(* The dispatcher clears the flag of the task it takes the processor from  *)
(* and sets that of the task it gives it to (task.c:86, 114).              *)
LEMMA KernelKeepsRunFlag ==
    ASSUME Core, RunFlag, TimerInterrupt \/ KeyboardInterrupt \/ KernelStep
    PROVE  RunFlag'
<1> USE DEF Core, Levels, TypeOK
<1>1. ASSUME UNCHANGED running, Idling' = Idling,
             \A u \in Task : "TS_RUN" \in flags'[u] <=> "TS_RUN" \in flags[u]
      PROVE  RunFlag'
  BY <1>1 DEF RunFlag
<1>2. ASSUME NEW L \in Level, Switch(L) PROVE RunFlag'
  <2> DEFINE queue == IF StillReady THEN Insert(ready, running) ELSE ready
  <2>1. ~Idling
    BY <1>2 DEF Switch, Schedules, ReenterCounts, Depth, Level, Top, Idling, IdleAt
  <2>2. \A u \in Task : "TS_RUN" \notin Stopped[u]
    BY <2>1 DEF RunFlag, Stopped
  <2>3. CASE queue = <<>>
    <3>1. flags' = Stopped /\ at' = [at EXCEPT ![L] = "sti"]
      BY <1>2, <2>3 DEF Switch
    <3>2. Idling'
      BY <3>1 DEF Idling, IdleAt
    <3> QED BY <2>2, <3>1, <3>2 DEF RunFlag
  <2>4. CASE queue # <<>>
    <3>1. queue \in Seq(Task) /\ queue[1] \in Task
      BY <2>4, ListTypes
    <3>2. /\ flags' = [Stopped EXCEPT ![queue[1]] = @ \cup {"TS_RUN"}]
          /\ Dispatch(L, queue, queue[1])
      BY <1>2, <2>4 DEF Switch
    <3>5. running' = queue[1] /\ at' = [at EXCEPT ![L] = "off"]
      BY <3>2 DEF Dispatch
    <3>3. ~Idling'
      BY <2>1, <3>5 DEF Idling, IdleAt, Level
    <3> HIDE DEF queue
    <3>4. Stopped \in [Task -> SUBSET Flags]
      BY DEF Stopped
    <3> QED BY <2>2, <3>1, <3>2, <3>3, <3>4, <3>5 DEF RunFlag
  <2> QED BY <2>3, <2>4
<1>3. ASSUME NEW L \in Level, IdleRun(L) PROVE RunFlag'
  <2>1. picked \in Task /\ Idling
    BY <1>3 DEF IdleRun, PickedOK, Idling, IdleAt
  <2>2. /\ flags' = [flags EXCEPT ![picked] = @ \cup {"TS_RUN"}]
        /\ running' = picked /\ Top = L /\ at[L] = "unlinked" /\ Intact
    BY <1>3 DEF IdleRun
  <2>3. at' = IF L = "sys" THEN [at EXCEPT ![L] = "off", !["resume"] = "count"]
              ELSE [at EXCEPT ![L] = "eoi"]
    BY <1>3 DEF IdleRun
  <2>4. ~Idling'
    BY <2>2, <2>3 DEF Idling, IdleAt, Level, IdleOutermost, ResumeOK, Top, Intact
  <2> QED BY <2>1, <2>2, <2>4 DEF RunFlag
<1>4. ASSUME NEW t \in Task, NEW s, Readies(t, s)
      PROVE  \A u \in Task : "TS_RUN" \in flags'[u] <=> "TS_RUN" \in flags[u]
  BY <1>4 DEF Readies, Signalled
<1>5. CASE TimerVisit
  <2>1. UNCHANGED <<running, at>>
    BY <1>5 DEF TimerVisit
  <2>2. cursor \in Task
    BY <1>5 DEF TimerVisit
  <2>3. \A u \in Task : "TS_RUN" \in flags'[u] <=> "TS_RUN" \in flags[u]
    BY <1>4, <1>5, <2>2 DEF TimerVisit
  <2> QED BY <1>1, <2>1, <2>3 DEF Idling
<1>6. CASE KeySend
  <2>1. UNCHANGED running
    BY <1>6 DEF KeySend
  <2>2. \A u \in Task : "TS_RUN" \in flags'[u] <=> "TS_RUN" \in flags[u]
    BY <1>4, <1>6, SchedAssumption DEF KeySend
  <2>3. Idling' = Idling
    BY <1>6 DEF KeySend, Idling, IdleAt, Level
  <2> QED BY <1>1, <2>1, <2>2, <2>3
<1>7. ASSUME UNCHANGED <<running, flags>>, Idling' = Idling PROVE RunFlag'
  BY <1>1, <1>7
<1> USE DEF tasks, taskVars, Idling, IdleAt, Level
<1>8. CASE TimerInterrupt
  BY <1>7, <1>8 DEF TimerInterrupt, Interrupted
<1>9. CASE KeyboardInterrupt
  BY <1>7, <1>9 DEF KeyboardInterrupt, Interrupted
<1>10. CASE _yield
  BY <1>7, <1>10 DEF _yield
<1>11. CASE TimerDone
  BY <1>7, <1>11 DEF TimerDone
<1>12. CASE KeyRelease
  BY <1>7, <1>12 DEF KeyRelease
<1>13. CASE KeyPress
  BY <1>7, <1>13 DEF KeyPress
<1>14. CASE KeyYield
  BY <1>7, <1>14 DEF KeyYield
<1>15. ASSUME NEW L \in Level, Leave(L) PROVE RunFlag'
  BY <1>7, <1>15 DEF Leave
<1>16. ASSUME NEW L \in Level, IdleHalt(L) PROVE RunFlag'
  BY <1>7, <1>16 DEF IdleHalt
<1>17. ASSUME NEW L \in Level, IdlePick(L) PROVE RunFlag'
  BY <1>7, <1>17 DEF IdlePick
<1>18. ASSUME NEW L \in Level, IdleRemove(L) PROVE RunFlag'
  BY <1>7, <1>18 DEF IdleRemove
<1>19. ASSUME NEW L \in Level, IdleEOI(L) PROVE RunFlag'
  BY <1>7, <1>19 DEF IdleEOI, ResumeOK
<1>20. CASE ResumeCount
  BY <1>7, <1>20 DEF ResumeCount
<1>21. CASE ResumeReturn
  BY <1>7, <1>21 DEF ResumeReturn
<1> QED BY <1>2, <1>3, <1>5, <1>6, <1>8, <1>9, <1>10, <1>11, <1>12, <1>13, <1>14, <1>15,
           <1>16, <1>17, <1>18, <1>19, <1>20, <1>21 DEF KernelStep

(* TS_RUN marks the running task, and no task while the processor idles.   *)
THEOREM SchedRunFlag == Spec => []RunFlag
<1>1. Init => RunFlag
  BY SchedAssumption DEF Init, RunFlag, Flags, Idling, IdleAt, Level
<1>2. Core /\ RunFlag /\ [Next]_vars => RunFlag'
  <2>1. ASSUME UNCHANGED vars, RunFlag PROVE RunFlag'
    BY <2>1 DEF vars, taskVars, RunFlag, Idling
  <2> QED BY <2>1, TaskKeepsRunFlag, KernelKeepsRunFlag DEF Next
<1> QED BY <1>1, <1>2, CoreInvariant, PTL DEF Spec
=============================================================================
