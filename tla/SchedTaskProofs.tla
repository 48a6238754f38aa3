--------------------------- MODULE SchedTaskProofs ---------------------------
(***************************************************************************)
(* Proofs about the tasks of the scheduler: what the counters say of them, *)
(* that none is lost or left in the wrong list, that wait() returns only   *)
(* after the signal, and that a woken task preempts.  They hold for any    *)
(* tasks, priorities and calls; those that destroy_task() could break      *)
(* suppose that at most one task calls it (no task of the code does).      *)
(*                                                                         *)
(* ForbidInv is inductive relative to Core: forbid_counter is what the     *)
(* running task holds, and no other task holds anything.  From it follows  *)
(* LockInv, what wait_lock counts.  Places rests on both: as long as the   *)
(* scheduler is Sound, the fields of every task's structure agree with the *)
(* statement the task has reached and with the list it is in.  Preempts    *)
(* rests on Places: a signalled task that outranks the running one is not  *)
(* in the ready list unless the running task is about to yield.            *)
(***************************************************************************)
EXTENDS SchedProofs, FiniteSetTheorems

-----------------------------------------------------------------------------
(* The forbid count.                                                       *)

\* No interrupt has cleared the count under a task, no forbid() was leaked.
Counted == ~breached /\ ~leaked

\* queue_recv() knows the queue it waits at.
Receives == \A t \in Task : pc[t] \in RecvPC => call[t] = "recv"

\* Only the running task is inside a section.
OneSectionAtATime == \A t \in Task : t # running => Held(t) = 0

\* A task that yields, or that made way for the idle loop, forbids nothing.
YieldsOutside ==
    /\ at["sys"] = "entry" => Held(running) = 0
    /\ Idling => Held(running) = 0

\* What the count is while an interrupted queue_send() has a forbid() of its own.
CountIs ==
    at["sys"] # "entry" =>
        IF at["irq1"] \in {"alloc", "yield"}
        THEN forbidCounter = Held(running) + 1 \/ (forbidCounter = 0 /\ Held(running) = 0)
        ELSE forbidCounter = Held(running)

ForbidInv == Receives /\ (Counted => OneSectionAtATime /\ YieldsOutside /\ CountIs)

-----------------------------------------------------------------------------
(* wait_lock.                                                              *)

\* A task that is being created does not exist yet, and no two tasks create one.
Creates == {"c_forbid", "c_enq"}
CreatesFresh ==
    \A t \in Task : pc[t] \in Creates =>
        /\ pc[target[t]] = "none"
        /\ \A u \in Task \ {t} : pc[u] \in Creates => target[u] # target[t]

LockHolders == {t \in Task : pc[t] \in {"w_enq", "w_unlock"}}

\* The walk of the timer found wait_lock at zero.
WalkUnlocked == at["irq0"] = "walk" /\ cursor # NoTask => waitLock = 0

NoDestroyer == \A t \in Task : "destroy" \notin May[t]
MayDestroy == \A t \in Task : pc[t] \in {"d_forbid", "d_remove"} => "destroy" \in May[t]

Undisturbed == Counted \/ NoDestroyer
LockInv ==
    /\ CreatesFresh /\ MayDestroy /\ WalkUnlocked
    /\ Undisturbed => IsFiniteSet(LockHolders) /\ waitLock = Cardinality(LockHolders)

-----------------------------------------------------------------------------
(* Where a task is, as long as the scheduler is Sound.                     *)

OneDestroyer == \A t, u \in Task : "destroy" \in May[t] \cap May[u] => t = u

DestroysTask == \A t \in Task : pc[t] \in {"d_forbid", "d_remove"} => pc[target[t]] # "none"

\* The statements of wait() after the task has said what it waits for.
Blocking == {"w_recvd", "w_flags", "w_lock", "w_enq", "w_unlock", "w_permit", "w_yield", "w_ret"}

IsReady(t) == "TS_READY" \in flags[t]
Waits(t) == sigsWaiting[t] = {Awaited(t)}
Moved(t) == \E u \in Task : target[u] = t /\ pc[u] = "s_remove"

Asleep(t) == t \in ToSet(waiting) /\ Waits(t) /\ sigsRecvd[t] = {} /\ ~IsReady(t)

Awoken(t) ==
    /\ sigsWaiting[t] = {} /\ sigsRecvd[t] = {Awaited(t)} /\ IsReady(t)
    /\ call[t] = "delay" => taskDelay[t] = 0
    /\ t \in ToSet(waiting) => Moved(t)

\* The state of a task's structure at each statement of wait() and outside.
Staged(t) ==
    /\ pc[t] \in {"w_recvd", "w_flags"} => Waits(t) /\ IsReady(t) /\ ~Linked(t)
    /\ pc[t] \in {"w_flags", "w_lock", "w_enq"} => sigsRecvd[t] = {}
    /\ pc[t] \in {"w_lock", "w_enq"} => Waits(t) /\ ~IsReady(t) /\ ~Linked(t)
    /\ pc[t] \in {"w_unlock", "w_permit"} => Asleep(t)
    /\ pc[t] \in {"w_yield", "w_ret"} => Asleep(t) \/ Awoken(t)
    /\ pc[t] \notin Blocking => sigsWaiting[t] = {} /\ t \notin ToSet(waiting)
    /\ pc[t] \notin Blocking \cup {"none"} => IsReady(t)
    /\ pc[t] = "none" => ~Linked(t)

\* The task another one is signalling.
Signalling(u) ==
    pc[u] \in {"s_set", "s_remove", "s_enq"} =>
        LET t == target[u]
        IN /\ pc[t] \in {"w_yield", "w_ret"} /\ call[t] = "recv"
           /\ pc[u] # "s_set" => Awoken(t)
           /\ pc[u] = "s_enq" => ~Linked(t)

\* The idle loop has unlinked task t, but not yet run it.
Unlinked(t) == t = picked /\ \E L \in Level : at[L] = "unlinked"

\* A task is somewhere.
Somewhere(t) ==
    pc[t] # "none" => Linked(t) \/ InTransit(t) \/ Unlinked(t) \/ (t = running /\ ~Idling)

\* What the idle loop has picked is ready until it unlinks it.
PickedFits ==
    /\ \A L \in Level : at[L] = "picked" => picked \in ToSet(ready)
    /\ \A L \in Level : at[L] = "unlinked" => pc[picked] # "none" /\ ~Linked(picked)

\* What is running is not ready to run, and what was picked is.
Runnable ==
    /\ pc[running] # "none"
    /\ ~Idling => running \notin ToSet(ready)
    /\ PickedFits

\* A task that has gone to sleep does not keep the processor.
SwitchDue ==
    ~Idling /\ pc[running] = "w_ret" /\ running \in ToSet(waiting) =>
        at["sys"] = "entry" \/ (at["sys"] = "exit" /\ needSchedule)

Places ==
    /\ ~misused /\ DestroysTask
    /\ \A t \in Task : Staged(t) /\ Signalling(t) /\ Somewhere(t)
    /\ Runnable /\ SwitchDue

\* Signals that are about to make the running task yield.
Yielding(u) ==
    \/ pc[running] \in {"s_permit", "s_cmp"} /\ target[running] = u
    \/ pc[running] = "s_yield" \/ at["sys"] = "entry" \/ at["irq1"] = "yield"

Preempts ==
    ~needSchedule =>
        /\ ~Idling => \A u \in ToSet(ready) :
              sigsRecvd[u] # {} => pri[u] <= pri[running] \/ Yielding(u)
        /\ Idling /\ at["irq0"] # "walk" =>
              /\ ToSet(ready) \subseteq {Owner}
              /\ \A u \in Task : Unlinked(u) => u = Owner

-----------------------------------------------------------------------------
(* Proofs about the forbid count.                                          *)

\* Held, as a function of the statement and of the call.
HeldAt(l, c) == (IF l \in OneSection THEN 1 ELSE 0) + (IF l \in TwoSections THEN 2 ELSE 0)
                + (IF c = "recv" /\ l \in WaitPC \ {"w_ret"} THEN 1 ELSE 0)

LEMMA HeldIs == \A t : Held(t) = HeldAt(pc[t], call[t]) /\ Held(t) \in Nat
BY DEF Held, HeldAt

\* What a step to statement l of the call c does to what tasks hold.
LEMMA HeldMoves ==
    ASSUME TypeOK, NEW t \in Task, NEW l, NEW c,
           pc' = [pc EXCEPT ![t] = l], call' = call \/ call' = [call EXCEPT ![t] = c]
    PROVE  /\ \A u \in Task \ {t} : Held(u)' = Held(u)
           /\ call' = call => Held(t)' = HeldAt(l, call[t])
           /\ call' = [call EXCEPT ![t] = c] => Held(t)' = HeldAt(l, c)
BY DEF TypeOK, Held, HeldAt

\* What tasks hold depends on their statements and calls only.
LEMMA HeldStays == ASSUME UNCHANGED <<pc, call>> PROVE \A t : Held(t)' = Held(t)
BY DEF Held

\* Which statements are in a section: the steps that count do not change
\* what is held by anything else, and the others leave it alone.
LEMMA HeldTable ==
    /\ \A c : \A l \in DOMAIN After_forbid :
          (l \in RecvPC => c = "recv") => HeldAt(After_forbid[l], c) = HeldAt(l, c) + 1
    /\ \A c : \A l \in DOMAIN After_permit \ {"p_yielded"} :
          /\ HeldAt(l, c) > 0
          /\ HeldAt(After_permit[l], IF After_permit[l] = "user" THEN "heap" ELSE c)
                = HeldAt(l, c) - 1
    /\ \A c : HeldAt("p_yielded", c) = 0 /\ HeldAt("user", c) = 0 /\ HeldAt("none", c) = 0
              /\ HeldAt("w_ret", c) = 0 /\ HeldAt("r_again", c) = 0
    /\ \A c, d : \A l \in {"r_forbid", "p_forbid", "c_forbid", "d_forbid"} : HeldAt(l, c) = 0
    /\ \A c : c # "recv" => HeldAt("w_forbid", c) = 0
    /\ HeldAt("w_forbid", "recv") = 1
    /\ \A c : HeldAt("r_check", c) = 1 /\ HeldAt("r_loop", c) = 1 /\ HeldAt("r_permit", c) = 1
    /\ \A c : \A l, m \in {"w_sigs", "w_recvd", "w_flags", "w_lock", "w_enq", "w_unlock",
                           "w_permit"} : HeldAt(l, c) = HeldAt(m, c) /\ HeldAt(l, c) > 0
    /\ \A c : HeldAt("s_check", c) = 1 /\ HeldAt("s_set", c) = 2 /\ HeldAt("p_permit", c) = 1
              /\ HeldAt("s_remove", c) = 2 /\ HeldAt("s_enq", c) = 2 /\ HeldAt("s_permit", c) = 2
              /\ HeldAt("s_cmp", c) = 1 /\ HeldAt("s_yield", c) = 1
    /\ \A c : HeldAt("c_enq", c) = 1 /\ HeldAt("c_permit", c) = 1
              /\ HeldAt("d_remove", c) = 1 /\ HeldAt("d_permit", c) = 1
<1> USE DEF HeldAt, OneSection, TwoSections, WaitPC
<1>1. \A c : \A l \in DOMAIN After_forbid :
          (l \in RecvPC => c = "recv") => HeldAt(After_forbid[l], c) = HeldAt(l, c) + 1
  BY DEF After_forbid, RecvPC
<1>2. \A c : \A l \in DOMAIN After_permit \ {"p_yielded"} :
          /\ HeldAt(l, c) > 0
          /\ HeldAt(After_permit[l], IF After_permit[l] = "user" THEN "heap" ELSE c)
                = HeldAt(l, c) - 1
  BY DEF After_permit
<1>3. \A c : \A l, m \in {"w_sigs", "w_recvd", "w_flags", "w_lock", "w_enq", "w_unlock",
                           "w_permit"} : HeldAt(l, c) = HeldAt(m, c) /\ HeldAt(l, c) > 0
  OBVIOUS
<1> QED BY <1>1, <1>2, <1>3

(* A step of a task leaves the levels and the ghosts of the interrupts.    *)
LEMMA TaskFrame ==
    ASSUME NEW t \in Task,
           \/ \E d \in Delays : Delay(t, d)
           \/ StartCall(t) \/ TaskStep(t)
    PROVE  /\ Runs(t) /\ \A L \in Level : at[L] = "off"
           /\ UNCHANGED <<running, at, kReenter, cursor, picked, needSchedule,
                          breached, leaked, hit>>
<1>1. Runs(t)
  BY DEF Delay, StartCall, Start, TaskStep, forbid, permit, WaitStore, WaitLock, WaitEnqueue,
         WaitReturn, Receive, SignalTest, SignalStore, Unlink, Link, SignalCompare
<1>2. \A L \in Level : at[L] = "off"
  BY <1>1 DEF Runs, Top, Level
<1>3. UNCHANGED <<running, at, kReenter, cursor, picked, needSchedule, breached, leaked, hit>>
  BY DEF Delay, StartCall, Start, TaskStep, forbid, permit, WaitStore, WaitLock, WaitEnqueue,
         WaitReturn, Receive, SignalTest, SignalStore, Unlink, Link, SignalCompare, levels,
         ghosts, counters
<1> QED BY <1>1, <1>2, <1>3

(* What a task's step counts is what the task holds (task.c:16-23).        *)
LEMMA TaskForbid ==
    ASSUME Core, ForbidInv, NEW t \in Task,
           \/ \E d \in Delays : Delay(t, d)
           \/ StartCall(t) \/ TaskStep(t)
    PROVE  ForbidInv'
<1> USE DEF Core
<1>1. /\ Runs(t) /\ running = t /\ \A L \in Level : at[L] = "off"
      /\ UNCHANGED <<running, at, breached, leaked>>
  BY TaskFrame DEF Runs
<1>2. ~Idling /\ ~Idling' /\ at["sys"] = "off" /\ at["irq1"] = "off" /\ (Counted' <=> Counted)
  BY <1>1 DEF Idling, IdleAt, Level, Counted
<1> DEFINE Kept == \A u \in Task \ {t} : Held(u)' = Held(u) \/ Held(u)' = 0
           Right == Counted /\ forbidCounter = Held(t) => forbidCounter' = Held(t)'
<1>3. ASSUME Receives', Kept, Right PROVE ForbidInv'
  <2>1. Counted => forbidCounter = Held(t) /\ \A u \in Task \ {t} : Held(u) = 0
    BY <1>1, <1>2 DEF ForbidInv, CountIs, OneSectionAtATime
  <2>2. Counted' => OneSectionAtATime' /\ CountIs'
    BY <1>1, <1>2, <1>3, <2>1 DEF OneSectionAtATime, CountIs
  <2>3. YieldsOutside'
    BY <1>1, <1>2 DEF YieldsOutside
  <2> QED BY <1>3, <2>2, <2>3 DEF ForbidInv
<1>4. ASSUME NEW l \in PC, pc' = [pc EXCEPT ![t] = l], call' = call, UNCHANGED forbidCounter,
             l \in RecvPC => call[t] = "recv",
             HeldAt(l, call[t]) = HeldAt(pc[t], call[t])
      PROVE  ForbidInv'
  <2>1. Receives'
    BY <1>4 DEF ForbidInv, Receives, TypeOK
  <2>2. Kept /\ Right
    BY <1>4, HeldMoves, HeldIs
  <2> QED BY <1>3, <2>1, <2>2
<1>5. ASSUME NEW l \in PC, NEW c, pc' = [pc EXCEPT ![t] = l],
             call' = [call EXCEPT ![t] = c], UNCHANGED forbidCounter,
             l \in RecvPC => c = "recv",
             HeldAt(l, c) = HeldAt(pc[t], call[t])
      PROVE  ForbidInv'
  <2>1. Receives'
    BY <1>5 DEF ForbidInv, Receives, TypeOK
  <2>2. Kept /\ Right
    BY <1>5, HeldMoves, HeldIs
  <2> QED BY <1>3, <2>1, <2>2
<1>6. CASE \E d \in Delays : Delay(t, d)
  <2>1. HeldAt("w_forbid", "delay") = 0 /\ HeldAt("user", call[t]) = 0
    BY HeldTable
  <2>2. "w_forbid" \in PC /\ "w_forbid" \notin RecvPC
    BY DEF PC, WaitPC, RecvPC
  <2>3. /\ pc' = [pc EXCEPT ![t] = "w_forbid"] /\ call' = [call EXCEPT ![t] = "delay"]
        /\ UNCHANGED forbidCounter /\ pc[t] = "user"
    BY <1>6 DEF Delay, Goto, counters
  <2> QED BY <1>5, <2>1, <2>2, <2>3
<1>7. CASE StartCall(t)
  <2>1. ASSUME NEW c, NEW l, NEW u, Start(t, c, l, u), l \in RecvPC => c = "recv",
               l \in {"r_forbid", "p_forbid", "c_forbid", "d_forbid"}
        PROVE  ForbidInv'
    <3>1. HeldAt(l, c) = 0 /\ HeldAt("user", call[t]) = 0
      BY <2>1, HeldTable
    <3>2. l \in PC
      BY <2>1 DEF PC, RecvPC, PostPC, MakePC
    <3>3. /\ pc' = [pc EXCEPT ![t] = l] /\ call' = [call EXCEPT ![t] = c]
          /\ UNCHANGED forbidCounter /\ pc[t] = "user"
      BY <2>1 DEF Start, Goto, counters
    <3> QED BY <1>5, <2>1, <3>1, <3>2, <3>3
  <2> QED BY <1>7, <2>1 DEF StartCall, RecvPC
<1>8. CASE forbid(t)
  <2>1. /\ pc[t] \in DOMAIN After_forbid /\ pc' = [pc EXCEPT ![t] = After_forbid[pc[t]]]
        /\ call' = call /\ forbidCounter' = forbidCounter + 1
    BY <1>8 DEF forbid, Goto
  <2>2. pc[t] \in RecvPC => call[t] = "recv"
    BY DEF ForbidInv, Receives
  <2>3. Held(t)' = Held(t) + 1 /\ Kept
    <3>1. HeldAt(After_forbid[pc[t]], call[t]) = HeldAt(pc[t], call[t]) + 1
      BY <2>1, <2>2, HeldTable
    <3> QED BY <2>1, <3>1, HeldMoves, HeldIs
  <2>4. After_forbid[pc[t]] \in RecvPC => pc[t] \in RecvPC
    BY <2>1 DEF After_forbid, RecvPC
  <2>5. Receives'
    BY <2>1, <2>4 DEF ForbidInv, Receives, TypeOK
  <2> QED BY <1>3, <2>1, <2>3, <2>5
<1>9. CASE permit(t)
  <2> DEFINE l == After_permit[pc[t]]
             c == IF l = "user" THEN "heap" ELSE call[t]
  <2>1. /\ pc[t] \in DOMAIN After_permit /\ pc' = [pc EXCEPT ![t] = l]
        /\ call' = [call EXCEPT ![t] = c] /\ forbidCounter' = Permitted
    BY <1>9 DEF permit, Continue, Goto, TypeOK
  <2>2. l \notin RecvPC
    BY <2>1 DEF After_permit, RecvPC
  <2>3. Receives'
    BY <2>1, <2>2 DEF ForbidInv, Receives, TypeOK
  <2>4. CASE pc[t] = "p_yielded"
    <3>1. HeldAt(l, c) = 0 /\ Held(t) = 0
      BY <2>4, HeldTable, HeldIs DEF After_permit
    <3> HIDE DEF l, c
    <3>2. Kept /\ Held(t)' = HeldAt(l, c)
      BY <2>1, HeldMoves
    <3> QED BY <1>3, <2>1, <2>3, <3>1, <3>2 DEF Permitted
  <2>5. CASE pc[t] # "p_yielded"
    <3>1. HeldAt(l, c) = Held(t) - 1 /\ Held(t) > 0
      BY <2>1, <2>5, HeldTable, HeldIs
    <3> HIDE DEF l, c
    <3>2. Kept /\ Held(t)' = HeldAt(l, c)
      BY <2>1, HeldMoves
    <3> QED BY <1>3, <2>1, <2>3, <3>1, <3>2 DEF Permitted
  <2> QED BY <2>4, <2>5
<1>10. CASE WaitStore(t)
  BY <1>4, <1>10, HeldTable DEF WaitStore, Goto, counters, PC, WaitPC, RecvPC
<1>11. CASE WaitLock(t)
  BY <1>4, <1>11, HeldTable DEF WaitLock, Goto, PC, WaitPC, RecvPC
<1>12. CASE WaitEnqueue(t)
  BY <1>4, <1>12, HeldTable DEF WaitEnqueue, Goto, counters, PC, WaitPC, RecvPC
<1>13. CASE WaitReturn(t)
  <2>1. CASE call[t] = "recv"
    <3>1. HeldAt("w_ret", call[t]) = 0 /\ HeldAt("r_again", call[t]) = 0 /\ "r_again" \in PC
      BY HeldTable DEF PC, RecvPC
    <3>2. /\ pc' = [pc EXCEPT ![t] = "r_again"] /\ call' = call
          /\ UNCHANGED forbidCounter /\ pc[t] = "w_ret"
      BY <1>13, <2>1 DEF WaitReturn, Continue, Goto, counters
    <3> QED BY <1>4, <2>1, <3>1, <3>2
  <2>2. CASE call[t] # "recv"
    <3>1. HeldAt("w_ret", call[t]) = 0 /\ HeldAt("user", "heap") = 0
          /\ "user" \in PC /\ "user" \notin RecvPC
      BY HeldTable DEF PC, RecvPC
    <3>2. /\ pc' = [pc EXCEPT ![t] = "user"] /\ call' = [call EXCEPT ![t] = "heap"]
          /\ UNCHANGED forbidCounter /\ pc[t] = "w_ret"
      BY <1>13, <2>2 DEF WaitReturn, Continue, Goto, counters
    <3> QED BY <1>5, <3>1, <3>2
  <2> QED BY <2>1, <2>2
<1>14. CASE Receive(t)
  <2>1. call[t] = "recv"
    BY <1>14 DEF Receive, ForbidInv, Receives, RecvPC
  <2> QED BY <1>4, <1>14, <2>1, HeldTable DEF Receive, Goto, counters, PC, WaitPC, RecvPC
<1>15. CASE SignalTest(t)
  <2>1. CASE "TB_QUEUE" \in sigsWaiting[target[t]]
    <3>1. /\ pc' = [pc EXCEPT ![t] = "s_set"] /\ call' = call
          /\ forbidCounter' = forbidCounter + 1 /\ pc[t] = "s_check"
      BY <1>15, <2>1 DEF SignalTest, Goto
    <3>2. Receives'
      BY <3>1 DEF ForbidInv, Receives, TypeOK, RecvPC
    <3>3. Kept /\ Right
      <4>1. HeldAt("s_set", call[t]) = HeldAt("s_check", call[t]) + 1
        BY HeldTable
      <4> QED BY <3>1, <4>1, HeldMoves, HeldIs
    <3> QED BY <1>3, <3>2, <3>3
  <2>2. CASE "TB_QUEUE" \notin sigsWaiting[target[t]]
    BY <1>4, <1>15, <2>2, HeldTable DEF SignalTest, Goto, PC, PostPC, RecvPC
  <2> QED BY <2>1, <2>2
<1>16. CASE SignalStore(t)
  <2>1. HeldAt("s_set", call[t]) = HeldAt("s_remove", call[t])
        /\ "s_remove" \in PC /\ "s_remove" \notin RecvPC
    BY HeldTable DEF PC, PostPC, RecvPC
  <2>2. /\ pc' = [pc EXCEPT ![t] = "s_remove"] /\ call' = call
        /\ UNCHANGED forbidCounter /\ pc[t] = "s_set"
    BY <1>16 DEF SignalStore, Goto, counters
  <2> QED BY <1>4, <2>1, <2>2
<1>17. ASSUME NEW l \in PC, NEW m \in {"none", "user"},
              NEW w \in Task \ {t}, l \notin RecvPC,
              pc' = [pc EXCEPT ![t] = l, ![w] = m],
              call' = call, UNCHANGED forbidCounter, HeldAt(l, call[t]) = HeldAt(pc[t], call[t])
       PROVE  ForbidInv'
  <2>1. Receives'
    BY <1>17 DEF ForbidInv, Receives, TypeOK, RecvPC
  <2>2. \A u \in Task \ {t, w} : Held(u)' = Held(u)
    <3>1. \A u \in Task \ {t, w} : pc'[u] = pc[u] /\ call'[u] = call[u]
      BY <1>17 DEF TypeOK
    <3> QED BY <3>1 DEF Held
  <2>3. Held(w)' = 0
    <3>1. pc'[w] = m /\ HeldAt(m, call'[w]) = 0
      BY <1>17, HeldTable DEF TypeOK
    <3> QED BY <3>1 DEF Held, HeldAt
  <2>4. Held(t)' = HeldAt(l, call[t])
    <3>1. pc'[t] = l /\ call'[t] = call[t]
      BY <1>17 DEF TypeOK
    <3> QED BY <3>1 DEF Held, HeldAt
  <2> QED BY <1>3, <1>17, <2>1, <2>2, <2>3, <2>4, HeldIs
<1>18. CASE Unlink(t)
  <2>1. CASE pc[t] = "s_remove"
    BY <1>4, <1>18, <2>1, HeldTable DEF Unlink, Goto, counters, PC, PostPC, RecvPC
  <2>2. CASE pc[t] = "d_remove"
    <3>1. target[t] \in Task \ {t}
      BY <2>2 DEF TargetOK, UsesTarget
    <3> QED BY <1>17, <1>18, <2>2, <3>1, HeldTable DEF Unlink, counters, PC, MakePC, RecvPC
  <2> QED BY <1>18, <2>1, <2>2 DEF Unlink
<1>19. CASE Link(t)
  <2>1. CASE pc[t] = "s_enq"
    BY <1>4, <1>19, <2>1, HeldTable DEF Link, Goto, counters, PC, PostPC, RecvPC
  <2>2. CASE pc[t] = "c_enq"
    <3>1. target[t] \in Task \ {t}
      BY <2>2 DEF TargetOK, UsesTarget
    <3> QED BY <1>17, <1>19, <2>2, <3>1, HeldTable DEF Link, counters, PC, MakePC, RecvPC
  <2> QED BY <1>19, <2>1, <2>2 DEF Link
<1>20. CASE SignalCompare(t)
  <2>1. \A l \in {"s_yield", "p_permit"} :
           HeldAt("s_cmp", call[t]) = HeldAt(l, call[t]) /\ l \in PC /\ l \notin RecvPC
    BY HeldTable DEF PC, PostPC, RecvPC
  <2>2. PICK l \in {"s_yield", "p_permit"} : pc' = [pc EXCEPT ![t] = l]
    BY <1>20 DEF SignalCompare, Goto
  <2>3. call' = call /\ UNCHANGED forbidCounter /\ pc[t] = "s_cmp"
    BY <1>20 DEF SignalCompare, counters
  <2> QED BY <1>4, <2>1, <2>2, <2>3
<1> QED BY <1>6, <1>7, <1>8, <1>9, <1>10, <1>11, <1>12, <1>13, <1>14, <1>15, <1>16, <1>18,
           <1>19, <1>20 DEF TaskStep

(* A step of the kernel leaves the statements and calls of the tasks.      *)
LEMMA KernelFrame ==
    ASSUME TimerInterrupt \/ KeyboardInterrupt \/ KernelStep
    PROVE  UNCHANGED progVars
BY DEF TimerInterrupt, KeyboardInterrupt, KernelStep, _yield, TimerVisit, TimerDone, KeyRelease,
       KeyPress, KeySend, KeyYield, Leave, Switch, IdleHalt, IdlePick, IdleRemove, IdleRun, IdleEOI,
       ResumeCount, ResumeReturn, progVars

(* A yield() of an interrupt clears the count; it either breaks a section  *)
(* or there is none (task.c:156).                                          *)
LEMMA YieldForbid ==
    ASSUME InterruptYields, Counted'
    PROVE  forbidCounter' = 0 /\ Held(running) = 0
<1>1. ~breached' /\ ~leaked'
  BY DEF Counted
<1>2. ~breached /\ ~(Held(running) > 0)
  BY <1>1, Zenon DEF InterruptYields
<1>3. Held(running) = 0
  BY <1>2, HeldIs
<1>4. forbidCounter' = 0
  BY DEF InterruptYields
<1> QED BY <1>3, <1>4

(* A system call is made outside every section, or to yield.               *)
LEMMA CallForbid ==
    ASSUME Core, ForbidInv, NEW t \in Task, SystemCall(t)
    PROVE  ForbidInv'
<1> USE DEF Core
<1>1. /\ running = t /\ (\A L \in Level : at[L] = "off")
      /\ UNCHANGED <<running, call, forbidCounter, breached, leaked>>
  BY DEF SystemCall, Runs, Top, Level, tasks, counters, ghosts
<1>2. ~Idling /\ at["sys"] = "off" /\ at["irq1"] = "off" /\ (Counted' <=> Counted)
  BY <1>1 DEF Idling, IdleAt, Level, Counted
<1>3. Counted => forbidCounter = Held(t) /\ \A u \in Task \ {t} : Held(u) = 0
  BY <1>1, <1>2 DEF ForbidInv, CountIs, OneSectionAtATime
<1>4. \E l \in {"entry", "exit"} : at' = Interrupted("sys", l) /\ (l = "exit" => UNCHANGED pc)
  BY DEF SystemCall
<1>5. /\ at'["sys"] = "entry" \/ (at'["sys"] = "exit" /\ UNCHANGED pc)
      /\ at'["irq1"] = "off" /\ at'["irq0"] = "off" /\ at'["resume"] = "off"
  BY <1>1, <1>4 DEF Interrupted, Level
<1>6. ~Idling'
  BY <1>5 DEF Idling, IdleAt, Level
<1>7. CASE UNCHANGED pc
  <2>1. pc[t] = "user"
    BY <1>1, <1>7 DEF SystemCall, Goto, TypeOK
  <2>2. Held(t) = 0
    BY <2>1, HeldIs, HeldTable
  <2>3. Receives' /\ OneSectionAtATime' = OneSectionAtATime
    BY <1>1, <1>7 DEF Receives, ForbidInv, OneSectionAtATime, Held
  <2>4. Held(running)' = Held(running)
    BY <1>1, <1>7 DEF Held
  <2> QED BY <1>1, <1>2, <1>3, <1>5, <1>6, <2>2, <2>3, <2>4
          DEF ForbidInv, YieldsOutside, CountIs
<1>8. ASSUME NEW l \in {"w_ret", "p_yielded"}, Goto(t, l), at'["sys"] = "entry"
      PROVE  ForbidInv'
  <2>1. pc' = [pc EXCEPT ![t] = l] /\ call' = call
    BY <1>1, <1>8 DEF Goto
  <2>2. Receives'
    BY <1>8, <2>1 DEF Receives, ForbidInv, TypeOK, RecvPC
  <2>3. Held(t)' = 0
    <3>1. HeldAt(l, call[t]) = 0
      BY <1>8, HeldTable
    <3> QED BY <2>1, <3>1, HeldMoves
  <2>4. \A u \in Task \ {t} : Held(u)' = Held(u)
    BY <2>1, HeldMoves
  <2>5. Counted => OneSectionAtATime'
    BY <1>1, <1>3, <2>4 DEF OneSectionAtATime
  <2>6. YieldsOutside' /\ CountIs'
    BY <1>1, <1>6, <1>8, <2>3 DEF YieldsOutside, CountIs
  <2> QED BY <1>2, <2>2, <2>5, <2>6 DEF ForbidInv
<1>9. UNCHANGED pc \/ \E l \in {"w_ret", "p_yielded"} : Goto(t, l) /\ at'["sys"] = "entry"
  BY <1>1 DEF SystemCall, Interrupted, Level
<1> QED BY <1>7, <1>8, <1>9

(* The kernel counts what it forbids itself (queue.c:41-92, console.c:50). *)
LEMMA KernelForbid ==
    ASSUME Core, ForbidInv, TimerInterrupt \/ KeyboardInterrupt \/ KernelStep
    PROVE  ForbidInv'
<1> USE DEF Core, Levels, TypeOK
<1>1. UNCHANGED <<pc, call>> /\ Receives'
  BY KernelFrame DEF progVars, Receives, ForbidInv
<1>2. \A t : Held(t)' = Held(t) /\ Held(t) \in Nat
  BY <1>1, HeldIs DEF Held
<1>3. ASSUME Counted' PROVE Counted
  BY <1>3 DEF Counted, TimerInterrupt, KeyboardInterrupt, KernelStep, _yield, TimerVisit,
              TimerDone, KeyRelease, KeyPress, KeySend, KeyYield, InterruptYields, Leave,
              Switch, IdleHalt, IdlePick, IdleRemove, IdleRun, IdleEOI, ResumeCount, ResumeReturn,
              ghosts
<1>4. Counted => OneSectionAtATime /\ YieldsOutside /\ CountIs
  BY DEF ForbidInv
<1>5. ASSUME Counted' => OneSectionAtATime' /\ YieldsOutside' /\ CountIs' PROVE ForbidInv'
  BY <1>1, <1>5 DEF ForbidInv
<1>6. ASSUME UNCHANGED running, Counted' => YieldsOutside' /\ CountIs' PROVE ForbidInv'
  BY <1>2, <1>3, <1>4, <1>5, <1>6 DEF OneSectionAtATime
<1>7. Counted => Held(running) \in Nat /\ (at["sys"] = "entry" \/ Idling => Held(running) = 0)
  BY <1>2, <1>4 DEF YieldsOutside
<1> USE DEF tasks, counters, ghosts
<1>8. CASE TimerInterrupt \/ KeyboardInterrupt
  <2>1. /\ UNCHANGED <<running, forbidCounter>>
        /\ at'["sys"] = "entry" <=> at["sys"] = "entry"
        /\ Idling' => Idling
        /\ at'["irq1"] \in {"alloc", "yield"} <=> at["irq1"] \in {"alloc", "yield"}
    BY <1>8 DEF TimerInterrupt, KeyboardInterrupt, Interrupted, Level, Idling, IdleAt
  <2>2. Held(running)' = Held(running)
    BY <1>1, <2>1 DEF Held
  <2> QED BY <1>3, <1>4, <1>6, <1>7, <2>1, <2>2 DEF YieldsOutside, CountIs
<1>9. CASE _yield
  <2>1. /\ UNCHANGED running /\ forbidCounter' = 0 /\ at["sys"] = "entry"
        /\ at["irq1"] = "off" /\ at' = [at EXCEPT !["sys"] = "exit"]
    BY <1>9 DEF _yield, Top
  <2>2. Held(running)' = Held(running)
    BY <1>1, <2>1 DEF Held
  <2>3. at'["sys"] = "exit" /\ at'["irq1"] = "off"
    BY <2>1 DEF Level
  <2> QED BY <1>3, <1>6, <1>7, <2>1, <2>2, <2>3 DEF YieldsOutside, CountIs
<1>10. ASSUME UNCHANGED <<running, forbidCounter>>, NEW L \in Level,
              NEW l \in {"off", "exit", "iret"} \cup IdleAt,
              at' = [at EXCEPT ![L] = l],
              at[L] \notin {"entry", "alloc", "yield"} \/ (L = "irq1" /\ at[L] = "entry"),
              l \in IdleAt => at[L] \in IdleAt
       PROVE  ForbidInv'
  <2>1. Held(running)' = Held(running)
    BY <1>1, <1>10 DEF Held
  <2>2. /\ Idling' => Idling
        /\ at'["sys"] = "entry" <=> at["sys"] = "entry"
        /\ at'["irq1"] \in {"alloc", "yield"} <=> at["irq1"] \in {"alloc", "yield"}
    BY <1>10 DEF Idling, IdleAt, Level
  <2> QED BY <1>3, <1>4, <1>6, <1>7, <1>10, <2>1, <2>2 DEF YieldsOutside, CountIs
<1>11. CASE TimerVisit
  <2>1. UNCHANGED <<running, at>> /\ (Idling' <=> Idling)
    BY <1>11 DEF TimerVisit, Idling
  <2>2. Held(running)' = Held(running)
    BY <1>1, <2>1 DEF Held
  <2>3. CASE InterruptYields
    BY <1>6, <1>7, <2>1, <2>2, <2>3, YieldForbid DEF YieldsOutside, CountIs
  <2>4. CASE UNCHANGED forbidCounter
    BY <1>3, <1>4, <1>6, <2>1, <2>2, <2>4 DEF YieldsOutside, CountIs
  <2> QED BY <1>11, <2>3, <2>4 DEF TimerVisit
<1>12. CASE TimerDone
  BY <1>10, <1>12 DEF TimerDone, Level, IdleAt
<1>13. CASE KeyRelease
  BY <1>10, <1>13 DEF KeyRelease, Level, IdleAt
<1>14. CASE KeyPress
  <2>1. UNCHANGED running /\ Held(running)' = Held(running) /\ at["irq1"] = "entry"
    BY <1>1, <1>14 DEF KeyPress, Held
  <2>2. Counted' => /\ at' = [at EXCEPT !["irq1"] = "alloc"]
                    /\ forbidCounter' = forbidCounter + 1
    BY <1>14 DEF KeyPress, Counted
  <2>3. Counted' => /\ at'["irq1"] = "alloc" /\ at'["sys"] = at["sys"]
                    /\ (Idling' => Idling)
    BY <2>1, <2>2 DEF Level, Idling, IdleAt
  <2> QED BY <1>3, <1>4, <1>6, <1>7, <2>1, <2>2, <2>3 DEF YieldsOutside, CountIs
<1>15. CASE KeySend
  <2>1. UNCHANGED running /\ Held(running)' = Held(running) /\ at["irq1"] = "alloc"
    BY <1>1, <1>15 DEF KeySend, Held
  <2>2. PICK l \in {"yield", "exit"} : at' = [at EXCEPT !["irq1"] = l]
    BY <1>15 DEF KeySend
  <2>3. \/ l = "yield" /\ forbidCounter' = forbidCounter
        \/ l = "exit" /\ forbidCounter' = Permitted
    BY <1>15, <2>2 DEF KeySend, Level
  <2>4. at'["irq1"] = l /\ at'["sys"] = at["sys"] /\ (Idling' => Idling)
    BY <2>2 DEF Level, Idling, IdleAt
  <2>5. Counted' => YieldsOutside'
    BY <1>3, <1>7, <2>1, <2>4 DEF YieldsOutside
  <2>6. Counted' => CountIs'
    <3>1. SUFFICES ASSUME Counted', at["sys"] # "entry" PROVE CountIs'
      BY <2>4 DEF CountIs
    <3>2. \/ forbidCounter = Held(running) + 1
          \/ forbidCounter = 0 /\ Held(running) = 0
      BY <1>3, <1>4, <2>1, <3>1 DEF CountIs
    <3>3. Held(running) \in Nat
      BY <1>2
    <3>4. CASE l = "yield"
      BY <2>1, <2>3, <2>4, <3>2, <3>4 DEF CountIs
    <3>5. CASE l = "exit"
      <4>1. forbidCounter' = Held(running)
        BY <2>3, <3>2, <3>3, <3>5 DEF Permitted
      <4> QED BY <2>1, <2>4, <3>5, <4>1 DEF CountIs
    <3> QED BY <3>4, <3>5
  <2> QED BY <1>6, <2>1, <2>5, <2>6
<1>16. CASE KeyYield
  <2>1. /\ UNCHANGED running /\ Held(running)' = Held(running)
        /\ InterruptYields /\ at' = [at EXCEPT !["irq1"] = "exit"] /\ at["irq1"] = "yield"
    BY <1>1, <1>16 DEF KeyYield, Held
  <2>2. at'["irq1"] = "exit" /\ at'["sys"] = at["sys"] /\ (Idling' => Idling)
    BY <2>1 DEF Level, Idling, IdleAt
  <2> QED BY <1>6, <1>7, <2>1, <2>2, YieldForbid DEF YieldsOutside, CountIs
<1>17. ASSUME NEW L \in Level, Leave(L) PROVE ForbidInv'
  BY <1>10, <1>17 DEF Leave, Level, IdleAt
<1>18. ASSUME NEW L \in Level, IdleHalt(L) PROVE ForbidInv'
  BY <1>10, <1>18 DEF IdleHalt, IdleAt
<1>19. ASSUME NEW L \in Level, IdlePick(L) PROVE ForbidInv'
  BY <1>10, <1>19 DEF IdlePick, IdleAt
\* A switch is made when nothing is held, so nobody holds anything after it.
<1>20. ASSUME NEW L \in Level, NEW u \in Task, running' = u, forbidCounter' = 0,
              Counted => Held(running) = 0,
              \A M \in Level : at'[M] # "entry" /\ at'[M] \notin {"alloc", "yield"}
       PROVE  ForbidInv'
  <2>1. Counted => \A v \in Task : Held(v) = 0
    BY <1>4, <1>20 DEF OneSectionAtATime
  <2>2. Counted => Held(running)' = 0
    BY <1>1, <1>20, <2>1 DEF Held
  <2>3. Counted => OneSectionAtATime'
    BY <1>2, <2>1 DEF OneSectionAtATime
  <2> QED BY <1>3, <1>5, <1>20, <2>2, <2>3 DEF YieldsOutside, CountIs, Level
<1>21. ASSUME NEW L \in Level, Switch(L) PROVE ForbidInv'
  <2>1. /\ forbidCounter = 0 /\ forbidCounter' = 0 /\ kReenter = 0 /\ at[L] = "exit"
    BY <1>21 DEF Switch, Schedules
  <2>2. \A M \in Level : M # L => at[M] \in {"off", "iret"}
    BY <2>1 DEF ReenterCounts, Depth, Level
  <2>3. Counted => Held(running) = 0
    BY <1>4, <2>1, <2>2 DEF CountIs, Level
  <2>4. \E l \in {"sti", "off"} : at' = [at EXCEPT ![L] = l]
    BY <1>21 DEF Switch, Dispatch
  <2>5. \A M \in Level : at'[M] # "entry" /\ at'[M] \notin {"alloc", "yield"}
    BY <2>2, <2>4
  <2>6. \E u \in Task : running' = u
    <3>1. TypeOK'
      BY <1>21, KernelTypes DEF KernelStep
    <3> QED BY <3>1
  <2> QED BY <1>20, <2>1, <2>3, <2>5, <2>6
<1>22. ASSUME NEW L \in Level, IdleRemove(L) PROVE ForbidInv'
  BY <1>10, <1>22 DEF IdleRemove, IdleAt
<1>23. ASSUME NEW L \in Level, IdleRun(L) PROVE ForbidInv'
  <2>1. /\ forbidCounter' = forbidCounter /\ at[L] = "unlinked" /\ Top = L /\ picked \in Task
        /\ running' = picked /\ ~stranded
        /\ at' = IF L = "sys" THEN [at EXCEPT ![L] = "off", !["resume"] = "count"]
                 ELSE [at EXCEPT ![L] = "eoi"]
    BY <1>23 DEF IdleRun, PickedOK, Intact
  <2>2. \A M \in Level : M # L => at[M] = "off"
    BY <2>1 DEF IdleOutermost, ResumeOK, IdleAt, Level, Top
  <2>3. Counted => Held(running) = 0 /\ forbidCounter = 0
    BY <1>4, <2>1, <2>2 DEF CountIs, YieldsOutside, Idling, IdleAt, Level
  <2>4. \A M \in Level : at'[M] \in {"off", "eoi", "count"}
    BY <2>1, <2>2
  <2>5. CASE Counted
    BY <1>20, <2>1, <2>3, <2>4, <2>5
  <2> QED BY <1>3, <1>5, <2>5
<1>24. ASSUME UNCHANGED <<running, forbidCounter>>,
              at'["sys"] = "entry" <=> at["sys"] = "entry",
              at'["irq1"] \in {"alloc", "yield"} <=> at["irq1"] \in {"alloc", "yield"},
              Idling' => Idling
       PROVE  ForbidInv'
  <2>1. Held(running)' = Held(running)
    BY <1>1, <1>24 DEF Held
  <2> QED BY <1>3, <1>4, <1>6, <1>7, <1>24, <2>1 DEF YieldsOutside, CountIs
<1>25. ASSUME NEW L \in Level, IdleEOI(L) PROVE ForbidInv'
  BY <1>24, <1>25 DEF IdleEOI, Idling, IdleAt, Level
<1>26. CASE ResumeCount
  BY <1>10, <1>26 DEF ResumeCount, IdleAt, Level
<1>27. CASE ResumeReturn
  BY <1>10, <1>27 DEF ResumeReturn, IdleAt, Level
<1> QED BY <1>8, <1>9, <1>11, <1>12, <1>13, <1>14, <1>15, <1>16, <1>17, <1>18, <1>19, <1>21,
           <1>22, <1>23, <1>25, <1>26, <1>27 DEF KernelStep

\* The boot task starts outside every section.
LEMMA InitForbid == Init => ForbidInv
<1> SUFFICES ASSUME Init PROVE ForbidInv
  OBVIOUS
<1>1. \A t \in Task : pc[t] \in {"user", "none"}
  BY DEF Init
<1>2. \A t \in Task : Held(t) = 0
  BY <1>1, HeldIs, HeldTable
<1>3. running \in Task /\ \A L \in Level : at[L] = "off"
  BY SchedAssumption DEF Init
<1>4. Receives
  BY <1>1 DEF Receives, RecvPC
<1> QED BY <1>2, <1>3, <1>4 DEF Init, ForbidInv, OneSectionAtATime, YieldsOutside, CountIs, Level

\* Steps of tasks and of the kernel together.
LEMMA NextForbid == Core /\ ForbidInv /\ [Next]_vars => ForbidInv'
<1> SUFFICES ASSUME Core, ForbidInv, [Next]_vars PROVE ForbidInv'
  OBVIOUS
<1>1. CASE UNCHANGED vars
  BY <1>1 DEF vars, progVars, taskVars, ghosts, ForbidInv, Receives, Counted,
              OneSectionAtATime, YieldsOutside, CountIs, Held, Idling
<1>2. CASE Next
  BY <1>2, TaskForbid, CallForbid, KernelForbid DEF Next
<1> QED BY <1>1, <1>2

\* forbid_counter is what is held, until it is cleared or leaked.
LEMMA ForbidInvariant == Spec => [](Core /\ ForbidInv)
BY InitForbid, NextForbid, CoreInvariant, PTL DEF Spec

(* forbid_counter is what the running task and an interrupted queue_send() *)
(* have yet to permit(), for any tasks and calls (task.c:16-23).           *)
THEOREM SchedForbidCounts == Spec => []ForbidCounts
<1>1. Core /\ ForbidInv => ForbidCounts
  <2> SUFFICES ASSUME Core, ForbidInv, Counted, at["sys"] # "entry"
               PROVE  /\ forbidCounter >= Held(running)
                      /\ at["irq1"] \notin {"alloc", "yield"} => forbidCounter = Held(running)
    BY DEF ForbidCounts, Counted
  <2>1. CountIs
    BY DEF ForbidInv
  <2> QED BY <2>1, HeldIs DEF CountIs
<1> QED BY <1>1, ForbidInvariant, PTL

-----------------------------------------------------------------------------
(* Proofs about wait_lock.                                                 *)

(* How the actions change the program counters and the targets: a task     *)
(* moves on, create_task() and destroy_task() begin or end another task.   *)
Moves(t) ==
    \E l \in PC :
        /\ pc' = [pc EXCEPT ![t] = l]
        /\ pc[t] # "none" /\ l # "none"
        /\ l \in Creates => pc[t] \in Creates /\ target' = target
        /\ l \in {"d_forbid", "d_remove"} => pc[t] \in {"d_forbid", "d_remove"} /\ target' = target
        /\ \A u \in Task \ {t} : target'[u] = target[u]
Begins(t) == pc[t] = "c_enq" /\ pc' = [pc EXCEPT ![t] = "c_permit", ![target[t]] = "user"]
Ends(t) == pc[t] = "d_remove" /\ pc' = [pc EXCEPT ![t] = "d_permit", ![target[t]] = "none"]

LEMMA TaskMoves ==
    ASSUME TypeOK, NEW t \in Task,
           \/ \E d \in Delays : Delay(t, d)
           \/ SystemCall(t) \/ TaskStep(t)
    PROVE  \/ Moves(t) /\ pc'[t] \notin {"w_enq", "w_unlock"} /\ pc[t] \notin {"w_enq", "w_unlock"}
           \/ Moves(t) /\ (WaitLock(t) \/ WaitEnqueue(t))
           \/ Begins(t) /\ UNCHANGED target /\ Link(t)
           \/ Ends(t) /\ UNCHANGED target /\ Unlink(t)
<1> USE DEF TypeOK
<1>1. ASSUME NEW l \in PC, pc' = [pc EXCEPT ![t] = l], pc[t] # "none", l # "none",
             l \in Creates => pc[t] \in Creates /\ target' = target,
             l \in {"d_forbid", "d_remove"} =>
                pc[t] \in {"d_forbid", "d_remove"} /\ target' = target,
             \A u \in Task \ {t} : target'[u] = target[u]
      PROVE  Moves(t) /\ pc'[t] = l
  BY <1>1 DEF Moves
<1> USE DEF Goto, levels, PC, Creates
<1>2. CASE \E d \in Delays : Delay(t, d)
  BY <1>1, <1>2 DEF Delay, WaitPC
<1>3. CASE SystemCall(t)
  <2>1. UNCHANGED target
    BY <1>3 DEF SystemCall
  <2>2. PICK l \in {"w_ret", "p_yielded", "user"} :
           pc' = [pc EXCEPT ![t] = l] /\ pc[t] \in {"w_yield", "s_yield", "user"}
    BY <1>3 DEF SystemCall
  <2> QED BY <1>1, <2>1, <2>2 DEF WaitPC, PostPC
<1>4. CASE forbid(t)
  <2>1. pc[t] \in DOMAIN After_forbid /\ pc' = [pc EXCEPT ![t] = After_forbid[pc[t]]]
        /\ target' = target
    BY <1>4 DEF forbid
  <2> QED BY <1>1, <2>1, LabelTypes DEF After_forbid
<1>5. CASE permit(t)
  <2>1. pc[t] \in DOMAIN After_permit /\ pc' = [pc EXCEPT ![t] = After_permit[pc[t]]]
        /\ \A u \in Task \ {t} : target'[u] = target[u]
    BY <1>5 DEF permit, Continue
  <2> QED BY <1>1, <2>1, LabelTypes DEF After_permit
<1>6. CASE WaitStore(t)
  BY <1>1, <1>6 DEF WaitStore, WaitPC
<1>7. CASE WaitLock(t)
  BY <1>1, <1>7 DEF WaitLock, WaitPC
<1>8. CASE WaitEnqueue(t)
  BY <1>1, <1>8 DEF WaitEnqueue, WaitPC
<1>9. CASE WaitReturn(t)
  <2>1. PICK l \in {"r_again", "user"} : pc' = [pc EXCEPT ![t] = l] /\ pc[t] = "w_ret"
        /\ \A u \in Task \ {t} : target'[u] = target[u]
    BY <1>9 DEF WaitReturn, Continue
  <2> QED BY <1>1, <2>1 DEF RecvPC
<1>10. CASE Receive(t)
  BY <1>1, <1>10 DEF Receive, WaitPC, RecvPC
<1>11. CASE SignalTest(t)
  BY <1>1, <1>11 DEF SignalTest, PostPC
<1>12. CASE SignalStore(t)
  BY <1>1, <1>12 DEF SignalStore, PostPC
<1>13. CASE Unlink(t)
  <2>1. CASE pc[t] = "s_remove"
    BY <1>1, <1>13, <2>1 DEF Unlink, PostPC
  <2> QED BY <1>13, <2>1 DEF Unlink, Ends
<1>14. CASE Link(t)
  <2>1. CASE pc[t] = "s_enq"
    BY <1>1, <1>14, <2>1 DEF Link, PostPC
  <2> QED BY <1>14, <2>1 DEF Link, Begins
<1>15. CASE SignalCompare(t)
  <2>1. PICK l \in {"s_yield", "p_permit"} : pc' = [pc EXCEPT ![t] = l]
    BY <1>15 DEF SignalCompare
  <2>2. pc[t] = "s_cmp" /\ target' = target
    BY <1>15 DEF SignalCompare
  <2> QED BY <1>1, <2>1, <2>2 DEF PostPC
<1> QED BY <1>2, <1>3, <1>4, <1>5, <1>6, <1>7, <1>8, <1>9, <1>10, <1>11, <1>12, <1>13,
           <1>14, <1>15 DEF TaskStep

(* kmalloc() gives every create_task() a structure of its own (task.c:37), *)
(* and destroy_task() is called by those who may.                          *)
LEMMA TaskCreates ==
    ASSUME Core, CreatesFresh, MayDestroy, NEW t \in Task,
           \/ \E d \in Delays : Delay(t, d)
           \/ StartCall(t) \/ SystemCall(t) \/ TaskStep(t)
    PROVE  CreatesFresh' /\ MayDestroy'
<1> USE DEF Core, TypeOK, Creates
<1>1. CASE Moves(t)
  BY <1>1 DEF Moves, CreatesFresh, MayDestroy, TargetOK, UsesTarget
<1>2. CASE Begins(t) /\ UNCHANGED target
  <2>1. target[t] \in Task \ {t} /\ \A u \in Task \ {t} : pc[u] \in Creates => target[u] # target[t]
    BY <1>2 DEF Begins, TargetOK, UsesTarget, CreatesFresh
  <2>2. MayDestroy'
    BY <1>2, <2>1 DEF Begins, MayDestroy
  <2>3. ASSUME NEW v \in Task, pc'[v] \in Creates
        PROVE  v \notin {t, target[t]} /\ pc[v] \in Creates
    BY <1>2, <2>1, <2>3 DEF Begins
  <2>4. ASSUME NEW v \in Task, pc'[v] \in Creates
        PROVE  pc'[target[v]] = "none"
    <3>1. pc[target[v]] = "none" /\ target[v] \in Task /\ target[v] # target[t]
      BY <2>1, <2>3, <2>4 DEF CreatesFresh, TargetOK, UsesTarget
    <3> QED BY <1>2, <3>1 DEF Begins
  <2>5. CreatesFresh'
    BY <1>2, <2>3, <2>4 DEF CreatesFresh
  <2> QED BY <2>2, <2>5
<1>3. CASE Ends(t) /\ UNCHANGED target
  <2>1. target[t] \in Task \ {t}
    BY <1>3 DEF Ends, TargetOK, UsesTarget
  <2> QED BY <1>3, <2>1 DEF Ends, CreatesFresh, MayDestroy, TargetOK, UsesTarget
<1>4. ASSUME NEW c, NEW l, NEW u, Start(t, c, l, u),
             l \notin Creates \cup {"d_forbid", "d_remove"}
      PROVE  CreatesFresh' /\ MayDestroy'
  BY <1>4 DEF Start, Goto, CreatesFresh, MayDestroy
<1>5. ASSUME NEW u \in Task \ {t}, Fresh(u), Start(t, "create", "c_forbid", u)
      PROVE  CreatesFresh' /\ MayDestroy'
  BY <1>5 DEF Start, Goto, Fresh, CreatesFresh, MayDestroy
<1>6. ASSUME NEW u, Start(t, "destroy", "d_forbid", u)
      PROVE  CreatesFresh' /\ MayDestroy'
  BY <1>6 DEF Start, Goto, CreatesFresh, MayDestroy
<1>7. CASE StartCall(t)
  BY <1>4, <1>5, <1>6, <1>7 DEF StartCall
<1> QED BY <1>1, <1>2, <1>3, <1>7, TaskMoves

(* Exactly the two statements of wait() change who is between them         *)
(* (task.c:127-129), unless destroy_task() ends such a task.               *)
LEMMA TaskHolders ==
    ASSUME Core, ForbidInv, LockInv, Undisturbed, NEW t \in Task,
           \/ \E d \in Delays : Delay(t, d)
           \/ StartCall(t) \/ SystemCall(t) \/ TaskStep(t)
    PROVE  IsFiniteSet(LockHolders)' /\ waitLock' = Cardinality(LockHolders')
<1> USE DEF Core, TypeOK
<1>1. IsFiniteSet(LockHolders) /\ waitLock = Cardinality(LockHolders)
  BY DEF LockInv
<1>2. ASSUME LockHolders' = LockHolders, UNCHANGED waitLock
      PROVE  IsFiniteSet(LockHolders)' /\ waitLock' = Cardinality(LockHolders')
  BY <1>1, <1>2
<1>3. UNCHANGED waitLock \/ WaitLock(t)
  BY DEF Delay, StartCall, Start, SystemCall, TaskStep, forbid, permit, WaitStore, WaitEnqueue,
         WaitReturn, Receive, SignalTest, SignalStore, Unlink, Link, SignalCompare, counters
<1>4. CASE WaitLock(t) /\ pc[t] = "w_lock"
  <2>1. pc' = [pc EXCEPT ![t] = "w_enq"] /\ waitLock' = waitLock + 1
    BY <1>4 DEF WaitLock, Goto
  <2>2. LockHolders' = LockHolders \cup {t} /\ t \notin LockHolders
    BY <1>4, <2>1 DEF LockHolders
  <2>3. IsFiniteSet(LockHolders \cup {t})
        /\ Cardinality(LockHolders \cup {t}) = Cardinality(LockHolders) + 1
    BY <1>1, <2>2, FS_AddElement
  <2> QED BY <1>1, <2>1, <2>2, <2>3
<1>5. CASE WaitLock(t) /\ pc[t] # "w_lock"
  <2>1. pc[t] = "w_unlock" /\ pc' = [pc EXCEPT ![t] = "w_permit"] /\ waitLock' = waitLock - 1
    BY <1>5 DEF WaitLock, Goto
  <2>2. LockHolders' = LockHolders \ {t} /\ t \in LockHolders
    BY <2>1 DEF LockHolders
  <2>3. IsFiniteSet(LockHolders \ {t})
        /\ Cardinality(LockHolders \ {t}) = Cardinality(LockHolders) - 1
    BY <1>1, <2>2, FS_RemoveElement
  <2> QED BY <1>1, <2>1, <2>2, <2>3
<1>6. CASE WaitEnqueue(t)
  <2>1. pc[t] = "w_enq" /\ pc' = [pc EXCEPT ![t] = "w_unlock"] /\ UNCHANGED waitLock
    BY <1>6 DEF WaitEnqueue, Goto, counters
  <2>2. LockHolders' = LockHolders
    BY <2>1 DEF LockHolders
  <2> QED BY <1>2, <2>1, <2>2
<1>7. ASSUME Moves(t), pc[t] \notin {"w_enq", "w_unlock"}, pc'[t] \notin {"w_enq", "w_unlock"},
             ~WaitLock(t)
      PROVE  IsFiniteSet(LockHolders)' /\ waitLock' = Cardinality(LockHolders')
  <2>1. LockHolders' = LockHolders
    BY <1>7 DEF LockHolders, Moves
  <2> QED BY <1>2, <1>3, <1>7, <2>1
<1>8. CASE Link(t) /\ Begins(t)
  <2>1. target[t] \in Task \ {t} /\ pc[target[t]] = "none"
    BY <1>8 DEF Begins, TargetOK, UsesTarget, LockInv, CreatesFresh, Creates
  <2>2. LockHolders' = LockHolders
    BY <1>8, <2>1 DEF LockHolders, Begins
  <2> QED BY <1>2, <1>8, <2>2 DEF Link, counters
<1>9. CASE Unlink(t) /\ Ends(t)
  <2>1. target[t] \in Task \ {t} /\ pc[t] = "d_remove" /\ running = t
    BY <1>9 DEF Ends, TargetOK, UsesTarget, Unlink, Runs
  <2>2. Counted
    BY <2>1 DEF LockInv, MayDestroy, Undisturbed, NoDestroyer
  <2>3. Held(target[t]) = 0
    BY <2>1, <2>2 DEF ForbidInv, OneSectionAtATime
  <2>4. target[t] \notin LockHolders
    <3>1. ASSUME pc[target[t]] \in {"w_enq", "w_unlock"} PROVE FALSE
      <4>1. HeldAt(pc[target[t]], call[target[t]]) > 0
        BY <3>1, HeldTable
      <4> QED BY <2>1, <2>3, <4>1, HeldIs
    <3> QED BY <3>1 DEF LockHolders
  <2>5. LockHolders' = LockHolders
    BY <1>9, <2>1, <2>4 DEF LockHolders, Ends
  <2> QED BY <1>2, <1>9, <2>5 DEF Unlink, counters
<1>10. CASE StartCall(t)
  <2>1. PICK l : pc' = [pc EXCEPT ![t] = l] /\ pc[t] = "user"
                 /\ l \in {"r_forbid", "p_forbid", "c_forbid", "d_forbid"}
    BY <1>10 DEF StartCall, Start, Goto
  <2>2. LockHolders' = LockHolders /\ ~WaitLock(t)
    BY <2>1 DEF LockHolders, WaitLock
  <2> QED BY <1>2, <1>3, <2>2
<1> QED BY <1>4, <1>5, <1>6, <1>7, <1>8, <1>9, <1>10, TaskMoves

(* The timer walks tasks_wait only after it has found wait_lock at zero,   *)
(* and no task moves while it walks (timer.c:22-23).                       *)
LEMMA NextWalk ==
    ASSUME Core, WalkUnlocked, Next
    PROVE  WalkUnlocked'
<1> USE DEF Core, TypeOK
<1>1. ASSUME NEW t \in Task,
             \/ \E d \in Delays : Delay(t, d)
             \/ StartCall(t) \/ TaskStep(t)
      PROVE  WalkUnlocked'
  <2>1. at["irq0"] = "off" /\ at' = at
    BY <1>1, TaskFrame DEF Level
  <2> QED BY <2>1 DEF WalkUnlocked
<1>2. ASSUME at'["irq0"] # "walk" \/ (at["irq0"] = "walk" /\ cursor # NoTask) \/ cursor' = NoTask,
             UNCHANGED waitLock
      PROVE  WalkUnlocked'
  BY <1>2 DEF WalkUnlocked
<1>3. ASSUME at'["irq0"] = "walk" => at["irq0"] = "walk", UNCHANGED <<cursor, waitLock>>
      PROVE  WalkUnlocked'
  BY <1>3 DEF WalkUnlocked
<1> USE DEF Level, counters, IdleAt
<1>4. ASSUME NEW t \in Task, SystemCall(t) PROVE WalkUnlocked'
  BY <1>3, <1>4 DEF SystemCall, Interrupted
<1>5. CASE TimerInterrupt
  BY <1>5 DEF TimerInterrupt, WalkStart, WalkUnlocked
<1>6. CASE KeyboardInterrupt
  BY <1>3, <1>6 DEF KeyboardInterrupt, Interrupted
<1>7. CASE _yield
  BY <1>3, <1>7 DEF _yield
<1>8. CASE TimerVisit
  BY <1>2, <1>8 DEF TimerVisit
<1>9. CASE TimerDone
  BY <1>3, <1>9 DEF TimerDone
<1>10. CASE KeyRelease
  BY <1>3, <1>10 DEF KeyRelease
<1>11. CASE KeyPress
  BY <1>3, <1>11 DEF KeyPress
<1>12. CASE KeySend
  BY <1>3, <1>12 DEF KeySend
<1>13. CASE KeyYield
  BY <1>3, <1>13 DEF KeyYield
<1>14. ASSUME NEW L \in Level, Leave(L) PROVE WalkUnlocked'
  BY <1>3, <1>14 DEF Leave
<1>15. ASSUME NEW L \in Level, Switch(L) PROVE WalkUnlocked'
  BY <1>3, <1>15 DEF Switch, Dispatch
<1>16. ASSUME NEW L \in Level, IdleHalt(L) PROVE WalkUnlocked'
  BY <1>3, <1>16 DEF IdleHalt
<1>17. ASSUME NEW L \in Level, IdlePick(L) PROVE WalkUnlocked'
  BY <1>3, <1>17 DEF IdlePick
<1>18. ASSUME NEW L \in Level, IdleRemove(L) PROVE WalkUnlocked'
  BY <1>3, <1>18 DEF IdleRemove
<1>19. ASSUME NEW L \in Level, IdleRun(L) PROVE WalkUnlocked'
  BY <1>3, <1>19 DEF IdleRun
<1>20. ASSUME NEW L \in Level, IdleEOI(L) PROVE WalkUnlocked'
  BY <1>3, <1>20 DEF IdleEOI
<1>21. CASE ResumeCount
  BY <1>3, <1>21 DEF ResumeCount
<1>22. CASE ResumeReturn
  BY <1>3, <1>22 DEF ResumeReturn
<1> QED BY <1>1, <1>4, <1>5, <1>6, <1>7, <1>8, <1>9, <1>10, <1>11, <1>12, <1>13, <1>14, <1>15,
           <1>16, <1>17, <1>18, <1>19, <1>20, <1>21, <1>22 DEF Next, KernelStep

\* wait_lock starts at 0, and nobody is enqueueing.
LEMMA InitLock == Init => LockInv
<1> SUFFICES ASSUME Init PROVE LockInv
  OBVIOUS
<1>1. \A t \in Task : pc[t] \in {"user", "none"}
  BY DEF Init
<1>2. CreatesFresh /\ MayDestroy /\ LockHolders = {}
  BY <1>1 DEF CreatesFresh, MayDestroy, LockHolders, Creates
<1>3. IsFiniteSet(LockHolders) /\ waitLock = Cardinality(LockHolders)
  BY <1>2, FS_EmptySet DEF Init
<1> QED BY <1>2, <1>3 DEF LockInv, WalkUnlocked, Init

\* No step repairs a count that has been disturbed.
LEMMA CountedBefore == Core /\ [Next]_vars => (Counted' => Counted)
<1> SUFFICES ASSUME Core, [Next]_vars, Counted' PROVE Counted
  OBVIOUS
<1>1. ASSUME UNCHANGED <<breached, leaked>> PROVE Counted
  BY <1>1 DEF Counted
<1>2. ASSUME NEW t \in Task,
             \/ \E d \in Delays : Delay(t, d)
             \/ StartCall(t) \/ TaskStep(t)
      PROVE  Counted
  BY <1>1, <1>2, TaskFrame
<1>3. ASSUME InterruptYields \/ UNCHANGED breached, UNCHANGED leaked \/ leaked' = TRUE
      PROVE  Counted
  <2>1. ~breached' /\ ~leaked'
    BY DEF Counted
  <2>2. ~leaked
    BY <1>3, <2>1
  <2>3. CASE InterruptYields
    <3>1. breached' = (breached \/ Held(running) > 0)
      BY <2>3 DEF InterruptYields
    <3> QED BY <2>1, <2>2, <3>1, Zenon DEF Counted
  <2>4. CASE UNCHANGED breached
    BY <2>1, <2>2, <2>4 DEF Counted
  <2> QED BY <1>3, <2>3, <2>4
<1>4. ASSUME TimerInterrupt \/ KeyboardInterrupt \/ KernelStep
      PROVE  (InterruptYields \/ UNCHANGED breached) /\ (UNCHANGED leaked \/ leaked' = TRUE)
  BY <1>4 DEF TimerInterrupt, KeyboardInterrupt, KernelStep, _yield, TimerVisit, TimerDone,
              KeyRelease, KeyPress, KeySend, KeyYield, Leave, Switch, IdleHalt, IdlePick,
              IdleRemove, IdleRun, IdleEOI, ResumeCount, ResumeReturn, ghosts
<1>5. ASSUME NEW t \in Task, SystemCall(t) PROVE Counted
  BY <1>1, <1>5 DEF SystemCall, ghosts
<1>6. CASE UNCHANGED vars
  BY <1>1, <1>6 DEF vars, ghosts
<1> QED BY <1>2, <1>3, <1>4, <1>5, <1>6 DEF Next

\* wait_lock goes up and down with the tasks inside their enqueue() (task.c:127-129).
LEMMA NextLock == Core /\ ForbidInv /\ LockInv /\ [Next]_vars => LockInv'
<1> SUFFICES ASSUME Core, ForbidInv, LockInv, [Next]_vars PROVE LockInv'
  OBVIOUS
<1>1. Undisturbed' => Undisturbed
  BY CountedBefore DEF Undisturbed, NoDestroyer
<1>2. ASSUME UNCHANGED <<pc, target, waitLock>>
      PROVE  CreatesFresh' /\ MayDestroy' /\ LockHolders' = LockHolders
  <2>1. pc' = pc /\ target' = target
    BY <1>2
  <2>2. LockHolders' = LockHolders
    BY <2>1 DEF LockHolders
  <2>3. MayDestroy' /\ CreatesFresh'
    BY <2>1 DEF MayDestroy, CreatesFresh, LockInv
  <2> QED BY <2>2, <2>3
<1>3. CASE UNCHANGED vars
  <2>1. UNCHANGED <<pc, target, waitLock, at, cursor>>
    BY <1>3 DEF vars, progVars
  <2> QED BY <1>1, <1>2, <2>1 DEF LockInv, WalkUnlocked
<1>4. ASSUME NEW t \in Task,
             \/ \E d \in Delays : Delay(t, d)
             \/ StartCall(t) \/ SystemCall(t) \/ TaskStep(t)
      PROVE  LockInv'
  <2>1. WalkUnlocked'
    BY <1>4, NextWalk DEF LockInv, Next
  <2>2. CreatesFresh' /\ MayDestroy'
    BY <1>4, TaskCreates DEF LockInv
  <2>3. Undisturbed' => IsFiniteSet(LockHolders)' /\ waitLock' = Cardinality(LockHolders')
    BY <1>1, <1>4, TaskHolders
  <2> QED BY <2>1, <2>2, <2>3 DEF LockInv
<1>5. CASE TimerInterrupt \/ KeyboardInterrupt \/ KernelStep
  <2>1. WalkUnlocked'
    BY <1>5, NextWalk DEF LockInv, Next
  <2>2. UNCHANGED <<pc, target>>
    BY <1>5, KernelFrame DEF progVars
  <2>3. UNCHANGED waitLock
    BY <1>5 DEF TimerInterrupt, KeyboardInterrupt, KernelStep, _yield, TimerVisit, TimerDone,
                KeyRelease, KeyPress, KeySend, KeyYield, Leave, Switch, IdleHalt, IdlePick,
                IdleRemove, IdleRun, IdleEOI, ResumeCount, ResumeReturn, counters
  <2> QED BY <1>1, <1>2, <2>1, <2>2, <2>3 DEF LockInv
<1> QED BY <1>3, <1>4, <1>5 DEF Next

\* wait_lock counts these tasks in every reachable state.
LEMMA LockInvariant == Spec => []LockInv
BY InitLock, NextLock, ForbidInvariant, PTL DEF Spec

(* wait_lock counts the tasks between its increment and its decrement and  *)
(* keeps the timer off the list of a task inside the enqueue() of wait()   *)
(* (task.c:127-129, timer.c:23), unless the section of a task was broken   *)
(* and the program destroys tasks: one that ends there leaves it set.      *)
THEOREM SchedWaitLockGuards == Spec => [](Undisturbed => WaitLockGuards)
<1>1. Core /\ LockInv => (Undisturbed => WaitLockGuards)
  <2> SUFFICES ASSUME Core, LockInv, Undisturbed PROVE WaitLockGuards
    OBVIOUS
  <2>1. IsFiniteSet(LockHolders) /\ waitLock = Cardinality(LockHolders)
    BY DEF LockInv
  <2>2. WaitLockCounts
    BY <2>1 DEF WaitLockCounts, LockHolders
  <2>3. ASSUME at["irq0"] = "walk", cursor # NoTask PROVE \A t \in Task : pc[t] # "w_enq"
    <3>1. LockHolders = {}
      BY <2>1, <2>3, FS_EmptySet DEF LockInv, WalkUnlocked
    <3> QED BY <3>1 DEF LockHolders
  <2> QED BY <2>2, <2>3 DEF WaitLockGuards, TimerSparesEnqueue
<1> QED BY <1>1, LockInvariant, CoreInvariant, PTL

-----------------------------------------------------------------------------
(* Proofs about where the tasks are.                                       *)

\* What the proofs below rest on.
Base == Core /\ ListsAreQueues /\ RunFlag /\ ForbidInv /\ LockInv

LEMMA BaseInvariant == Spec => []Base
<1>1. Core /\ ListsAreQueues /\ RunFlag /\ ForbidInv /\ LockInv => Base
  BY DEF Base
<1> QED BY <1>1, ForbidInvariant, LockInvariant, SchedListsAreQueues, SchedRunFlag, PTL

\* A task inside a section is running, and the processor does not idle.
Sections == OneSection \cup TwoSections
LEMMA SectionsRun ==
    ASSUME Base, Counted
    PROVE  \A t \in Task : pc[t] \in Sections => t = running /\ ~Idling
<1> SUFFICES ASSUME NEW t \in Task, pc[t] \in Sections PROVE t = running /\ ~Idling
  OBVIOUS
<1>1. Held(t) > 0
  BY HeldIs DEF HeldAt, Sections
<1> QED BY <1>1 DEF Base, ForbidInv, OneSectionAtATime, YieldsOutside

\* Which statements of wait(), signal(), create and destroy are in a section.
LEMMA SectionLabels ==
    /\ {"w_recvd", "w_flags", "w_lock", "w_enq", "w_unlock", "w_permit"} \subseteq Sections
    /\ {"s_check", "s_set", "s_remove", "s_enq", "s_permit", "s_cmp", "s_yield"} \subseteq Sections
    /\ {"c_enq", "d_remove"} \subseteq Sections
    /\ \A l \in Blocking : l \notin Sections => l \in {"w_yield", "w_ret"}
    /\ {"w_yield", "w_ret"} \subseteq Blocking
BY DEF Sections, OneSection, TwoSections, WaitPC, Blocking

(* What a task looks like that does not run (task.c:119-151).              *)
LEMMA Settled ==
    ASSUME Base, Sound, Places, NEW t \in Task, t # running \/ Idling
    PROVE  /\ pc[t] \in Blocking => pc[t] \in {"w_yield", "w_ret"}
           /\ sigsWaiting[t] # {} => Asleep(t) /\ pc[t] \in {"w_yield", "w_ret"}
           /\ pc[t] # "none" => Linked(t) \/ Unlinked(t)
                                \/ (pc[running] = "s_enq" /\ target[running] = t)
<1>1. Counted
  BY DEF Sound, Counted
<1>2. pc[t] \notin Sections
  BY <1>1, SectionsRun
<1>3. pc[t] \in Blocking => pc[t] \in {"w_yield", "w_ret"}
  BY <1>2, SectionLabels
<1>4. sigsWaiting[t] # {} => Asleep(t) /\ pc[t] \in {"w_yield", "w_ret"}
  BY <1>3 DEF Places, Staged, Awoken
<1>5. ASSUME pc[t] # "none", ~Linked(t), ~Unlinked(t)
      PROVE  pc[running] = "s_enq" /\ target[running] = t
  <2>1. InTransit(t)
    BY <1>5 DEF Places, Somewhere
  <2>2. PICK u \in Task : target[u] = t /\ pc[u] = "s_enq"
    BY <2>1 DEF InTransit
  <2>3. u = running
    BY <1>1, <2>2, SectionsRun, SectionLabels
  <2> QED BY <2>2, <2>3
<1> QED BY <1>3, <1>4, <1>5

\* Task u as wait(), signal() and the lists see it is as before.
Same(u) ==
    /\ pc'[u] = pc[u] /\ call'[u] = call[u]
    /\ sigsWaiting'[u] = sigsWaiting[u] /\ sigsRecvd'[u] = sigsRecvd[u]
    /\ "TS_READY" \in flags'[u] <=> "TS_READY" \in flags[u]
    /\ sigsWaiting[u] = {} => taskDelay'[u] = taskDelay[u]
    /\ u \in ToSet(ready') <=> u \in ToSet(ready)
    /\ u \in ToSet(waiting') <=> u \in ToSet(waiting)

LEMMA SameLinked == ASSUME NEW u, Same(u) PROVE Linked(u)' <=> Linked(u)
BY DEF Same, Linked

LEMMA SameAwoken ==
    ASSUME NEW u, Same(u), Awoken(u), u \in ToSet(waiting) => Moved(u)'
    PROVE  Awoken(u)'
BY DEF Same, Awoken, Awaited, IsReady

\* What is as before still agrees with the statement of its task.
LEMMA SameStaged ==
    ASSUME NEW u, Same(u), Staged(u), Awoken(u) /\ u \in ToSet(waiting) => Moved(u)'
    PROVE  Staged(u)'
<1>1. Linked(u)' <=> Linked(u)
  BY SameLinked
<1>2. Awoken(u) => Awoken(u)'
  BY SameAwoken DEF Awoken
<1>3. Asleep(u) => Asleep(u)'
  BY DEF Same, Asleep, Waits, Awaited, IsReady
<1>4. (Waits(u)' <=> Waits(u)) /\ (IsReady(u)' <=> IsReady(u))
  BY DEF Same, Waits, Awaited, IsReady
<1> QED BY <1>1, <1>2, <1>3, <1>4 DEF Same, Staged

(* A task runs: it is in no section of another one, and not in the ready   *)
(* list; the wait() it returns from has ended.                             *)
LEMMA TaskContext ==
    ASSUME Base, Sound, Places, NEW t \in Task, Runs(t)
    PROVE  /\ running = t /\ ~Idling /\ pc[t] # "none" /\ t \notin ToSet(ready)
           /\ \A L \in Level : at[L] = "off"
           /\ \A u \in Task \ {t} : pc[u] \notin Sections
           /\ \A u \in Task \ {t} : pc[u] # "none" =>
                 Linked(u) \/ (pc[t] = "s_enq" /\ target[t] = u)
           /\ pc[t] = "w_ret" => t \notin ToSet(waiting)
<1>1. running = t /\ \A L \in Level : at[L] = "off"
  BY DEF Runs, Top, Level
<1>2. ~Idling /\ at["sys"] = "off"
  BY <1>1 DEF Idling, IdleAt, Level
<1>3. Counted
  BY DEF Sound, Counted
<1>4. pc[t] # "none" /\ t \notin ToSet(ready) /\ (pc[t] = "w_ret" => t \notin ToSet(waiting))
  BY <1>1, <1>2 DEF Places, Runnable, SwitchDue
<1>5. \A u \in Task \ {t} : pc[u] \notin Sections
  BY <1>1, <1>3, SectionsRun
<1>6. \A u \in Task \ {t} : pc[u] # "none" =>
                 Linked(u) \/ (pc[t] = "s_enq" /\ target[t] = u)
  BY <1>1, Settled DEF Unlinked
<1> QED BY <1>1, <1>2, <1>4, <1>5, <1>6

(* destroy_task() finds a task to destroy.                                 *)
LEMMA TaskDestroys ==
    ASSUME Base, Sound, Places, OneDestroyer, NEW t \in Task,
           \/ \E d \in Delays : Delay(t, d)
           \/ StartCall(t) \/ SystemCall(t) \/ TaskStep(t)
    PROVE  DestroysTask'
<1> USE DEF Base, Core, TypeOK, LockInv
<1> DEFINE Destroys == {"d_forbid", "d_remove"}
<1>1. \A v \in Task : pc[v] \in Destroys => pc[target[v]] # "none" /\ target[v] \in Task \ {v}
  BY DEF Places, DestroysTask, TargetOK, UsesTarget
<1>2. CASE Moves(t)
  BY <1>1, <1>2 DEF Moves, DestroysTask
<1>3. CASE Begins(t) /\ UNCHANGED target
  BY <1>1, <1>3 DEF Begins, DestroysTask
<1>4. CASE Ends(t) /\ UNCHANGED target
  <2>1. pc[t] = "d_remove" /\ pc' = [pc EXCEPT ![t] = "d_permit", ![target[t]] = "none"]
    BY <1>4 DEF Ends
  <2>2. \A v \in Task : pc[v] \in Destroys => v = t
    BY <2>1 DEF MayDestroy, OneDestroyer
  <2>3. \A v \in Task : pc'[v] \notin Destroys
    BY <2>1, <2>2
  <2> QED BY <2>3 DEF DestroysTask
<1>5. CASE StartCall(t)
  <2>1. PICK u, l : /\ target' = [target EXCEPT ![t] = u] /\ pc' = [pc EXCEPT ![t] = l]
                    /\ pc[t] = "user" /\ l # "none"
                    /\ l \in Destroys => u \in Task \ {t} /\ Linked(u)
    BY <1>5 DEF StartCall, Start, Goto
  <2>2. l \in Destroys => pc[u] # "none" /\ u \in Task \ {t}
    BY <2>1 DEF Places, Staged
  <2>3. ASSUME NEW v \in Task, pc'[v] \in Destroys PROVE pc'[target'[v]] # "none"
    <3>1. CASE v = t
      BY <2>1, <2>2, <2>3, <3>1
    <3>2. CASE v # t
      BY <1>1, <2>1, <2>3, <3>2
    <3> QED BY <3>1, <3>2
  <2> QED BY <2>3 DEF DestroysTask
<1> QED BY <1>2, <1>3, <1>4, <1>5, TaskMoves

\* A step of task t changes, beside its own structure, at most that of task w.
LEMMA TaskPlaces ==
    ASSUME Base, Base', Sound, Sound', Places, NEW t \in Task, Runs(t), NEW w \in Task,
           \A u \in Task \ {t, w} : Same(u),
           pc[t] \in {"s_remove", "s_enq"} => w = target[t],
           UNCHANGED running, \A L \in Level : at'[L] \in {"off", "entry", "exit"},
           pc'[t] = "w_ret" => at'["sys"] = "entry",
           pc'[t] # "none", t \notin ToSet(ready'), ~misused', DestroysTask',
           Staged(t)', Signalling(t)', Staged(w)',
           w # t => Somewhere(w)'
    PROVE  Places'
<1>1. /\ running = t /\ running' = t /\ ~Idling /\ ~Idling' /\ \A u : ~Unlinked(u)
      /\ \A u \in Task \ {t} : pc[u] \notin Sections
  BY TaskContext DEF Idling, IdleAt, Unlinked
<1>2. \A u \in Task \ {t} : pc'[u] \notin Sections
  <2>1. Counted'
    BY DEF Sound, Counted
  <2>2. \A u \in Task \ {t} : Held(u)' = 0
    BY <1>1, <2>1 DEF Base, ForbidInv, OneSectionAtATime
  <2> QED BY <2>2 DEF Held, Sections
<1>3. \A u \in Task \ {t} : Signalling(u)'
  BY <1>2, SectionLabels DEF Signalling
<1>4. ASSUME NEW u \in Task \ {t, w} PROVE ~Moved(u) /\ ~InTransit(u)
  BY <1>1, <1>4, SectionLabels DEF Moved, InTransit
<1>5. ASSUME NEW u \in Task \ {t, w} PROVE Staged(u)'
  <2>1. Staged(u)
    BY DEF Places
  <2>2. ~(Awoken(u) /\ u \in ToSet(waiting))
    BY <1>4, <1>5 DEF Awoken
  <2> QED BY <1>5, <2>1, <2>2, SameStaged
<1>6. ASSUME NEW u \in Task \ {t, w} PROVE Somewhere(u)'
  <2>1. Somewhere(u)
    BY DEF Places
  <2>2. Linked(u)' <=> Linked(u)
    BY <1>6, SameLinked
  <2>3. pc'[u] = pc[u]
    BY <1>6 DEF Same
  <2> QED BY <1>1, <1>4, <2>1, <2>2, <2>3 DEF Somewhere
<1>7. Somewhere(t)'
  BY <1>1 DEF Somewhere
<1>8. Runnable'
  BY <1>1 DEF Runnable, PickedFits
<1>9. SwitchDue'
  BY <1>1 DEF SwitchDue
<1>10. \A u \in Task : Staged(u)' /\ Signalling(u)' /\ Somewhere(u)'
  BY <1>3, <1>5, <1>6, <1>7
<1> QED BY <1>8, <1>9, <1>10 DEF Places

\* What of task t its step keeps when it changes pc[t], call[t] and target[t] only.
LEMMA StepOfOne ==
    ASSUME Base, Base', Sound, Sound', Places, OneDestroyer, NEW t \in Task, Runs(t),
           \/ \E d \in Delays : Delay(t, d)
           \/ StartCall(t) \/ SystemCall(t) \/ TaskStep(t),
           NEW l \in PC \ {"none"}, pc' = [pc EXCEPT ![t] = l],
           \A u \in Task \ {t} : call'[u] = call[u] /\ taskDelay'[u] = taskDelay[u],
           \A u \in Task \ {t} : /\ sigsWaiting'[u] = sigsWaiting[u]
                                 /\ sigsRecvd'[u] = sigsRecvd[u] /\ flags'[u] = flags[u],
           \A u \in Task \ {t} : u \in ToSet(waiting') <=> u \in ToSet(waiting),
           UNCHANGED <<ready, running, misused>>,
           \A L \in Level : at'[L] \in {"off", "entry", "exit"},
           l = "w_ret" => at'["sys"] = "entry",
           pc[t] \notin {"s_remove", "s_enq"}, l \notin {"s_remove", "s_enq"},
           l = "s_set" => Signalling(t)',
           Staged(t)'
    PROVE  Places'
<1> USE DEF Base, Core, TypeOK
<1>1. \A u \in Task \ {t, t} : Same(u)
  BY DEF Same
<1>2. pc'[t] = l
  OBVIOUS
<1>3. Signalling(t)'
  BY <1>2 DEF Signalling
<1>4. DestroysTask'
  BY TaskDestroys
<1>5. t \notin ToSet(ready') /\ ~misused'
  BY TaskContext DEF Places
<1> QED BY <1>1, <1>2, <1>3, <1>4, <1>5, TaskPlaces

\* Outside the statements that block, a task waits for nothing and is ready.
Free(t) == sigsWaiting[t] = {} /\ IsReady(t) /\ t \notin ToSet(waiting)

\* For such a statement, being staged is being free.
LEMMA FreeStaged ==
    /\ \A t : Staged(t) /\ pc[t] \notin Blocking \cup {"none"} => Free(t)
    /\ \A t : Free(t)' /\ pc'[t] \notin Blocking \cup {"none"} => Staged(t)'
BY DEF Staged, Free, Blocking

\* The statements that permit().
LEMMA PermitLabels ==
    \A l \in DOMAIN After_permit \ {"w_permit"} :
        /\ After_permit[l] \in {"user", "s_cmp"}
        /\ l \notin Blocking \cup {"s_remove", "s_enq"}
BY DEF After_permit, Blocking

(* The calls, forbid() and permit(), and the tests of queue_recv() and     *)
(* signal() keep the tasks in place (queue.c:36-135, task.c:16-23, 136).   *)
LEMMA MovesKeepPlaces ==
    ASSUME Base, Base', Sound, Sound', Places, OneDestroyer, NEW t \in Task,
           \/ \E d \in Delays : Delay(t, d)
           \/ StartCall(t) \/ forbid(t) \/ permit(t) \/ WaitLock(t) \/ WaitReturn(t)
           \/ Receive(t) \/ SignalTest(t) \/ SignalCompare(t) \/ SystemCall(t)
    PROVE  Places'
<1> USE DEF Base, Core, TypeOK
<1>1. /\ Runs(t) /\ running = t /\ ~Idling /\ pc[t] # "none"
      /\ \A L \in Level : at[L] = "off"
      /\ pc[t] = "w_ret" => t \notin ToSet(waiting)
      /\ \A u \in Task \ {t} : pc[u] # "none" => Linked(u) \/ (pc[t] = "s_enq" /\ target[t] = u)
  <2>1. Runs(t)
    BY DEF Delay, StartCall, Start, SystemCall, forbid, permit, WaitLock, WaitReturn, Receive,
           SignalTest, SignalCompare
  <2> QED BY <2>1, TaskContext
<1>2. /\ UNCHANGED <<ready, waiting, running, misused, flags, sigsWaiting, sigsRecvd>>
      /\ \A u \in Task \ {t} : call'[u] = call[u] /\ taskDelay'[u] = taskDelay[u]
  BY DEF Delay, StartCall, Start, SystemCall, forbid, permit, WaitLock, WaitReturn, Receive,
         SignalTest, SignalCompare, Continue, lists, tasks, taskVars, ghosts
<1>3. Staged(t)
  BY DEF Places
\* From a statement that does not block to another.
<1>4. ASSUME NEW l \in PC \ {"none"}, pc' = [pc EXCEPT ![t] = l], at' = at,
             pc[t] \notin Blocking \/ pc[t] = "w_ret", l \notin Blocking,
             pc[t] \notin {"s_remove", "s_enq"}, l \notin {"s_remove", "s_enq"},
             l = "s_set" => Signalling(t)'
      PROVE  Places'
  <2>1. Free(t)
    <3>1. CASE pc[t] = "w_ret"
      <4>1. Awoken(t) /\ t \notin ToSet(waiting)
        BY <1>1, <1>3, <3>1 DEF Staged, Asleep
      <4> QED BY <4>1 DEF Awoken, Free
    <3>2. CASE pc[t] \notin Blocking
      BY <1>1, <1>3, <3>2, FreeStaged
    <3> QED BY <1>4, <3>1, <3>2
  <2>2. Free(t)' /\ pc'[t] = l
    BY <1>2, <1>4, <2>1 DEF Free, IsReady
  <2>3. Staged(t)'
    BY <1>4, <2>2, FreeStaged
  <2>4. l # "w_ret" /\ \A L \in Level : at'[L] = "off"
    BY <1>1, <1>4, SectionLabels
  <2> QED BY <1>1, <1>2, <1>4, <2>3, <2>4, StepOfOne DEF TaskStep
\* From a statement of wait() to the next.
<1>5. ASSUME NEW l \in PC \ {"none"}, pc' = [pc EXCEPT ![t] = l], call' = call,
             taskDelay' = taskDelay,
             \A L \in Level : at'[L] \in {"off", "entry", "exit"},
             l = "w_ret" => at'["sys"] = "entry",
             \/ pc[t] = "w_lock" /\ l = "w_enq"
             \/ pc[t] = "w_unlock" /\ l = "w_permit"
             \/ pc[t] = "w_permit" /\ l = "w_yield"
             \/ pc[t] = "w_yield" /\ l = "w_ret"
      PROVE  Places'
  <2>1. pc'[t] = l
    BY <1>5
  <2>2. /\ (Waits(t)' <=> Waits(t)) /\ (IsReady(t)' <=> IsReady(t)) /\ (Linked(t)' <=> Linked(t))
        /\ (Asleep(t) => Asleep(t)')
    BY <1>2, <1>5 DEF Waits, IsReady, Linked, Asleep, Awaited
  <2>3. Awoken(t) => Awoken(t)'
    <3>1. ~Moved(t)
      BY <1>1, <1>5, TaskContext, SectionLabels DEF Moved, Core, TargetOK, UsesTarget
    <3> QED BY <1>2, <1>5, <3>1 DEF Awoken, IsReady, Awaited
  <2>4. Staged(t)'
    BY <1>2, <1>3, <1>5, <2>1, <2>2, <2>3 DEF Staged, Blocking
  <2> QED BY <1>1, <1>2, <1>5, <2>4, StepOfOne DEF TaskStep
<1> USE DEF Blocking, PC
<1>6. CASE \E d \in Delays : Delay(t, d)
  BY <1>4, <1>6 DEF Delay, Goto, WaitPC, levels
<1>7. CASE StartCall(t)
  <2>1. PICK l \in {"r_forbid", "p_forbid", "c_forbid", "d_forbid"} :
           pc' = [pc EXCEPT ![t] = l] /\ pc[t] = "user" /\ at' = at
    BY <1>7 DEF StartCall, Start, Goto, levels
  <2> QED BY <1>4, <2>1 DEF RecvPC, PostPC, MakePC
<1>8. CASE forbid(t)
  <2>1. pc[t] \in DOMAIN After_forbid /\ pc' = [pc EXCEPT ![t] = After_forbid[pc[t]]] /\ at' = at
    BY <1>8 DEF forbid, Goto, levels
  <2>2. /\ After_forbid[pc[t]] \notin Blocking \cup {"none", "s_remove", "s_enq", "s_set"}
        /\ pc[t] \notin Blocking \cup {"s_remove", "s_enq"}
    BY <2>1, SMTT(60) DEF After_forbid
  <2> HIDE DEF Blocking, PC
  <2> QED BY <1>4, <2>1, <2>2, LabelTypes
<1>9. CASE permit(t)
  <2>1. pc[t] \in DOMAIN After_permit /\ pc' = [pc EXCEPT ![t] = After_permit[pc[t]]] /\ at' = at
    BY <1>9 DEF permit, Continue, Goto, levels
  <2>2. CASE pc[t] = "w_permit"
    <3>1. pc' = [pc EXCEPT ![t] = "w_yield"] /\ call' = call /\ taskDelay' = taskDelay
      BY <1>9, <2>2 DEF permit, Continue, Goto, After_permit, taskVars
    <3>2. "w_yield" \in PC \ {"none"} /\ \A L \in Level : at'[L] = "off"
      BY <1>1, <2>1 DEF WaitPC
    <3> HIDE DEF Blocking, PC
    <3> QED BY <1>5, <2>2, <3>1, <3>2
  <2>3. CASE pc[t] # "w_permit"
    <3>2. \A l \in DOMAIN After_permit \ {"w_permit"} :
             /\ After_permit[l] \in {"user", "s_cmp"}
             /\ l \notin Blocking \cup {"s_remove", "s_enq"}
      BY PermitLabels
    <3>3. \A l \in {"user", "s_cmp"} : l \notin Blocking \cup {"none", "s_remove", "s_enq", "s_set"}
      OBVIOUS
    <3>1. /\ After_permit[pc[t]] \notin Blocking \cup {"none", "s_remove", "s_enq", "s_set"}
          /\ pc[t] \notin Blocking \cup {"s_remove", "s_enq"}
      BY <2>1, <2>3, <3>2, <3>3
    <3> HIDE DEF Blocking, PC
    <3> QED BY <1>4, <2>1, <3>1, LabelTypes
  <2> QED BY <2>2, <2>3
<1>10. CASE WaitLock(t)
  <2>1. call' = call /\ taskDelay' = taskDelay /\ \A L \in Level : at'[L] = "off"
    BY <1>1, <1>10 DEF WaitLock, levels, taskVars
  <2>2. PICK l \in {"w_enq", "w_permit"} :
           /\ pc' = [pc EXCEPT ![t] = l]
           /\ \/ pc[t] = "w_lock" /\ l = "w_enq"
              \/ pc[t] = "w_unlock" /\ l = "w_permit"
    BY <1>10 DEF WaitLock, Goto
  <2> QED BY <1>5, <2>1, <2>2 DEF WaitPC
<1>11. CASE WaitReturn(t)
  <2>1. PICK l \in {"r_again", "user"} : pc' = [pc EXCEPT ![t] = l]
    BY <1>11 DEF WaitReturn, Continue, Goto
  <2>2. pc[t] = "w_ret" /\ at' = at
    BY <1>11 DEF WaitReturn, levels
  <2> QED BY <1>4, <2>1, <2>2 DEF RecvPC
<1>12. CASE Receive(t)
  <2>1. PICK l \in {"r_permit", "w_forbid"} : pc' = [pc EXCEPT ![t] = l]
    BY <1>12 DEF Receive, Goto
  <2>2. pc[t] \in {"r_check", "r_loop"} /\ at' = at
    BY <1>12 DEF Receive, levels
  <2> QED BY <1>4, <2>1, <2>2 DEF RecvPC, WaitPC
<1>13. CASE SignalTest(t)
  <2>1. pc[t] = "s_check" /\ at' = at /\ target' = target /\ call' = call
    BY <1>13 DEF SignalTest, levels
  <2> DEFINE w == target[t]
  <2>2. w \in Task \ {t}
    BY <2>1 DEF TargetOK, UsesTarget
  <2>3. CASE "TB_QUEUE" \in sigsWaiting[w]
    <3>1. pc' = [pc EXCEPT ![t] = "s_set"]
      BY <1>13, <2>3 DEF SignalTest, Goto
    <3>2. Asleep(w) /\ pc[w] \in {"w_yield", "w_ret"}
      BY <1>1, <2>2, <2>3, Settled
    <3>3. call[w] = "recv"
      BY <2>3, <3>2 DEF Asleep, Waits, Awaited
    <3>4. pc'[t] = "s_set" /\ pc'[target'[t]] \in {"w_yield", "w_ret"} /\ call'[target'[t]] = "recv"
      BY <2>1, <2>2, <3>1, <3>2, <3>3
    <3>5. Signalling(t)'
      BY <3>4 DEF Signalling
    <3>6. "s_set" \in PC \ {"none"} /\ "s_set" \notin Blocking /\ "s_check" \notin Blocking
      BY DEF PostPC
    <3> HIDE DEF Blocking, PC, w
    <3> QED BY <1>4, <2>1, <3>1, <3>5, <3>6
  <2>4. CASE "TB_QUEUE" \notin sigsWaiting[w]
    <3>1. pc' = [pc EXCEPT ![t] = "p_permit"]
      BY <1>13, <2>4 DEF SignalTest, Goto
    <3>2. "p_permit" \in PC \ {"none"} /\ "p_permit" \notin Blocking /\ "s_check" \notin Blocking
      BY DEF PostPC
    <3> HIDE DEF Blocking, PC, w
    <3> QED BY <1>4, <2>1, <3>1, <3>2
  <2> QED BY <2>3, <2>4
<1>14. CASE SignalCompare(t)
  <2>1. PICK l \in {"s_yield", "p_permit"} : pc' = [pc EXCEPT ![t] = l]
    BY <1>14 DEF SignalCompare, Goto
  <2>2. pc[t] = "s_cmp" /\ at' = at
    BY <1>14 DEF SignalCompare, levels
  <2> QED BY <1>4, <2>1, <2>2 DEF PostPC
<1>15. CASE SystemCall(t)
  <2>1. /\ call' = call /\ taskDelay' = taskDelay
        /\ \/ pc[t] = "w_yield" /\ pc' = [pc EXCEPT ![t] = "w_ret"]
              /\ at' = Interrupted("sys", "entry")
           \/ pc[t] = "s_yield" /\ pc' = [pc EXCEPT ![t] = "p_yielded"]
              /\ at' = Interrupted("sys", "entry")
           \/ pc[t] = "user" /\ pc' = [pc EXCEPT ![t] = "user"]
              /\ at' = Interrupted("sys", "exit")
    BY <1>15 DEF SystemCall, Goto, tasks, taskVars
  <2>2. /\ \A L \in Level : at'[L] \in {"off", "entry", "exit"}
        /\ at' = Interrupted("sys", "entry") => at'["sys"] = "entry"
    BY <1>1, <2>1 DEF Interrupted, Level
  <2>3. CASE pc[t] = "w_yield"
    BY <1>5, <2>1, <2>2, <2>3 DEF WaitPC
  <2>4. CASE pc[t] # "w_yield"
    <3>1. PICK l \in {"p_yielded", "user"} : pc' = [pc EXCEPT ![t] = l]
      BY <2>1, <2>4
    <3>2. Free(t)
      BY <1>1, <1>3, <2>1, <2>4, FreeStaged
    <3>3. Free(t)' /\ pc'[t] = l
      BY <1>2, <3>1, <3>2 DEF Free, IsReady
    <3>4. Staged(t)'
      BY <3>3, FreeStaged
    <3>5. pc[t] \notin {"s_remove", "s_enq"} /\ l \in PC \ {"none"}
      BY <2>1 DEF PostPC
    <3> HIDE DEF Blocking, PC
    <3> QED BY <1>1, <1>2, <1>15, <2>1, <2>2, <3>1, <3>4, <3>5, StepOfOne
  <2> QED BY <2>3, <2>4
<1> QED BY <1>6, <1>7, <1>8, <1>9, <1>10, <1>11, <1>12, <1>13, <1>14, <1>15

(* wait() up to its enqueue(): what it stores is what its statement says,  *)
(* and it puts an unlinked task into tasks_wait (task.c:119-129).          *)
LEMMA WaitKeepsPlaces ==
    ASSUME Base, Base', Sound, Sound', Places, OneDestroyer, NEW t \in Task, WaitStore(t)
    PROVE  Places'
<1> USE DEF Base, Core, TypeOK
<1>1. /\ Runs(t) /\ running = t /\ t \notin ToSet(ready) /\ \A L \in Level : at[L] = "off"
  BY TaskContext DEF WaitStore
<1>2. Staged(t)
  BY DEF Places
<1>3. /\ UNCHANGED <<ready, waiting, running, misused, call, taskDelay, at>>
      /\ \A u \in Task \ {t} : /\ sigsWaiting'[u] = sigsWaiting[u]
                               /\ sigsRecvd'[u] = sigsRecvd[u] /\ flags'[u] = flags[u]
  BY DEF WaitStore, lists, levels, ghosts
<1>4. ASSUME NEW l \in {"w_recvd", "w_flags", "w_lock"}, pc' = [pc EXCEPT ![t] = l], Staged(t)'
      PROVE  Places'
  <2>1. l \in PC \ {"none"} /\ l \notin {"s_remove", "s_enq", "s_set", "w_ret"}
    BY DEF PC, WaitPC
  <2>2. pc[t] \notin {"s_remove", "s_enq"} /\ \A L \in Level : at'[L] = "off"
    BY <1>1, <1>3 DEF WaitStore
  <2> QED BY <1>1, <1>3, <1>4, <2>1, <2>2, StepOfOne DEF TaskStep
<1>5. Awaited(t)' = Awaited(t)
  BY <1>3 DEF Awaited
<1>6. CASE pc[t] = "w_sigs"
  <2>1. /\ sigsWaiting' = [sigsWaiting EXCEPT ![t] = @ \cup {Awaited(t)}]
        /\ pc' = [pc EXCEPT ![t] = "w_recvd"] /\ UNCHANGED flags
    BY <1>6 DEF WaitStore, Goto
  <2>2. Free(t)
    BY <1>2, <1>6, FreeStaged DEF Blocking
  <2>3. sigsWaiting'[t] = {Awaited(t)}
    BY <2>1, <2>2 DEF Free
  <2>4. pc'[t] = "w_recvd" /\ Waits(t)' /\ IsReady(t)' /\ ~Linked(t)'
    BY <1>1, <1>3, <1>5, <2>1, <2>2, <2>3 DEF Free, Waits, IsReady, Linked
  <2>5. Staged(t)'
    BY <2>4 DEF Staged, Blocking
  <2> QED BY <1>4, <2>1, <2>5
<1>7. CASE pc[t] = "w_recvd"
  <2>1. /\ sigsRecvd' = [sigsRecvd EXCEPT ![t] = {}]
        /\ pc' = [pc EXCEPT ![t] = "w_flags"] /\ UNCHANGED <<flags, sigsWaiting>>
    BY <1>7 DEF WaitStore, Goto
  <2>2. Waits(t) /\ IsReady(t) /\ ~Linked(t)
    BY <1>2, <1>7 DEF Staged
  <2>3. pc'[t] = "w_flags" /\ Waits(t)' /\ IsReady(t)' /\ ~Linked(t)' /\ sigsRecvd'[t] = {}
    BY <1>3, <1>5, <2>1, <2>2 DEF Waits, IsReady, Linked
  <2>4. Staged(t)'
    BY <2>3 DEF Staged, Blocking
  <2> QED BY <1>4, <2>1, <2>4
<1>8. CASE pc[t] = "w_flags"
  <2>1. /\ flags' = [flags EXCEPT ![t] = @ \ {"TS_READY"}]
        /\ pc' = [pc EXCEPT ![t] = "w_lock"] /\ UNCHANGED <<sigsRecvd, sigsWaiting>>
    BY <1>8 DEF WaitStore, Goto
  <2>2. Waits(t) /\ sigsRecvd[t] = {} /\ ~Linked(t)
    BY <1>2, <1>8 DEF Staged
  <2>3. pc'[t] = "w_lock" /\ Waits(t)' /\ ~IsReady(t)' /\ ~Linked(t)' /\ sigsRecvd'[t] = {}
    BY <1>3, <1>5, <2>1, <2>2 DEF Waits, IsReady, Linked
  <2>4. Staged(t)'
    BY <2>3 DEF Staged, Blocking
  <2> QED BY <1>4, <2>1, <2>4
<1> QED BY <1>6, <1>7, <1>8 DEF WaitStore

\* The task that enqueues itself in tasks_wait was in no list (task.c:128).
LEMMA EnqueueKeepsPlaces ==
    ASSUME Base, Base', Sound, Sound', Places, OneDestroyer, NEW t \in Task, WaitEnqueue(t)
    PROVE  Places'
<1> USE DEF Base, Core, TypeOK
<1>1. /\ Runs(t) /\ running = t /\ t \notin ToSet(ready) /\ \A L \in Level : at[L] = "off"
  BY TaskContext DEF WaitEnqueue
<1>2. Waits(t) /\ ~IsReady(t) /\ ~Linked(t) /\ sigsRecvd[t] = {} /\ pc[t] = "w_enq"
  BY DEF Places, Staged, WaitEnqueue
<1>3. /\ UNCHANGED <<ready, running, call, taskDelay, at, sigsWaiting, sigsRecvd, flags>>
      /\ pc' = [pc EXCEPT ![t] = "w_unlock"] /\ waiting' = Insert(waiting, t)
  BY DEF WaitEnqueue, levels, taskVars, Goto
<1>4. ~misused /\ ~misused'
  BY <1>2 DEF WaitEnqueue, Places
<1>5. ToSet(waiting') = ToSet(waiting) \cup {t}
  <2>1. Queue(waiting) /\ t \notin ToSet(waiting) /\ waiting \in Seq(Task)
    BY <1>2, <1>4, QueuesDef DEF Queues, Linked
  <2> QED BY <1>3, <2>1, QueueOperations
<1>6. Staged(t)'
  <2>1. Asleep(t)' /\ pc'[t] = "w_unlock"
    BY <1>2, <1>3, <1>5 DEF Asleep, Waits, Awaited, IsReady
  <2> QED BY <2>1 DEF Staged, Blocking
<1>7. "w_unlock" \in PC \ {"none"} /\ "w_unlock" \notin {"w_ret", "s_set"}
      /\ \A L \in Level : at'[L] = "off"
  BY <1>1, <1>3 DEF PC, WaitPC
<1>8. UNCHANGED misused
  BY <1>4 DEF Places
<1>9. pc[t] \notin {"s_remove", "s_enq"} /\ "w_unlock" \notin {"s_remove", "s_enq"}
  BY <1>2
<1> QED BY <1>1, <1>3, <1>5, <1>6, <1>7, <1>8, <1>9, StepOfOne DEF TaskStep

(* signal() in a task: its stores wake the target, remove() takes it out   *)
(* of its list, enqueue() makes it ready (task.c:140-144).                 *)
LEMMA SignalKeepsPlaces ==
    ASSUME Base, Base', Sound, Sound', Places, OneDestroyer, NEW t \in Task, SignalStore(t)
    PROVE  Places'
<1> USE DEF Base, Core, TypeOK
<1> DEFINE w == target[t]
<1>1. /\ Runs(t) /\ running = t /\ ~Idling /\ pc[t] = "s_set" /\ t \notin ToSet(ready)
      /\ \A L \in Level : at[L] = "off"
  BY TaskContext DEF SignalStore
<1>2. w \in Task \ {t}
  BY <1>1 DEF TargetOK, UsesTarget
<1>3. /\ UNCHANGED <<ready, waiting, running, misused, call, target, taskDelay, at>>
      /\ pc' = [pc EXCEPT ![t] = "s_remove"]
      /\ flags' = [flags EXCEPT ![w] = @ \cup {"TS_READY"}]
      /\ sigsWaiting' = [sigsWaiting EXCEPT ![w] = @ \ {"TB_QUEUE"}]
      /\ sigsRecvd' = [sigsRecvd EXCEPT ![w] = @ \cup {"TB_QUEUE"}]
  BY DEF SignalStore, Signalled, Goto, lists, levels, ghosts
<1>4. pc[w] \in {"w_yield", "w_ret"} /\ call[w] = "recv" /\ (Asleep(w) \/ Awoken(w))
  BY <1>1, <1>2 DEF Places, Signalling, Staged
<1>5. Awaited(w) = "TB_QUEUE" /\ sigsWaiting[w] \in {{}, {"TB_QUEUE"}}
      /\ sigsRecvd[w] \in {{}, {"TB_QUEUE"}}
  BY <1>4 DEF Awaited, Asleep, Awoken, Waits
<1>6. /\ sigsWaiting'[w] = {} /\ sigsRecvd'[w] = {"TB_QUEUE"} /\ "TS_READY" \in flags'[w]
      /\ call'[w] = "recv" /\ pc'[w] = pc[w] /\ pc'[t] = "s_remove" /\ target'[t] = w
      /\ w' = w
  BY <1>2, <1>3, <1>4, <1>5
<1> HIDE DEF w
<1>7. Awoken(w)'
  <2>1. Moved(w)'
    BY <1>2, <1>6 DEF Moved
  <2> QED BY <1>6, <2>1 DEF Awoken, Awaited, IsReady
<1>8. Staged(w)' /\ Signalling(t)'
  <2>1. Staged(w)'
    BY <1>4, <1>6, <1>7 DEF Staged, Blocking
  <2>2. Signalling(t)'
    BY <1>4, <1>6, <1>7 DEF Signalling
  <2> QED BY <2>1, <2>2
<1>9. Staged(t)'
  <2>1. Free(t)
    BY <1>1, FreeStaged DEF Places, Blocking
  <2>2. Free(t)'
    BY <1>2, <1>3, <2>1 DEF Free, IsReady
  <2> QED BY <1>6, <2>2, FreeStaged DEF Blocking
<1>10. Somewhere(w)'
  <2>1. Linked(w)
    BY <1>1, <1>2, <1>4, TaskContext
  <2> QED BY <1>3, <1>6, <2>1 DEF Somewhere, Linked
<1>11. \A u \in Task \ {t, w} : Same(u)
  BY <1>3 DEF Same
<1>12. DestroysTask'
  BY TaskDestroys DEF TaskStep
<1>13. ~misused' /\ (\A L \in Level : at'[L] = "off") /\ t \notin ToSet(ready')
  BY <1>1, <1>3 DEF Places
<1> QED BY <1>1, <1>2, <1>3, <1>6, <1>8, <1>9, <1>10, <1>11, <1>12, <1>13, TaskPlaces

\* remove() takes a linked task out of its list (task.c:143, 55).
LEMMA UnlinkKeepsPlaces ==
    ASSUME Base, Base', Sound, Sound', Places, OneDestroyer, NEW t \in Task, Unlink(t)
    PROVE  Places'
<1> USE DEF Base, Core, TypeOK
<1> DEFINE w == target[t]
<1>1. /\ Runs(t) /\ running = t /\ ~Idling /\ pc[t] \in {"s_remove", "d_remove"}
      /\ t \notin ToSet(ready) /\ \A L \in Level : at[L] = "off"
  BY TaskContext DEF Unlink
<1>2. w \in Task \ {t}
  BY <1>1 DEF TargetOK, UsesTarget
<1>3. /\ UNCHANGED <<running, call, target, taskDelay, at, sigsRecvd>>
      /\ ready' = Without(ready, w) /\ waiting' = Without(waiting, w)
  BY DEF Unlink, levels
<1>4. pc[w] # "none"
  <2>1. CASE pc[t] = "s_remove"
    BY <2>1 DEF Places, Signalling
  <2>2. CASE pc[t] = "d_remove"
    BY <2>2 DEF Places, DestroysTask
  <2> QED BY <1>1, <2>1, <2>2
<1>5. Linked(w)
  BY <1>1, <1>2, <1>4, TaskContext
<1>6. ~misused'
  BY <1>5 DEF Unlink, Places
<1>7. ToSet(ready') = ToSet(ready) \ {w} /\ ToSet(waiting') = ToSet(waiting) \ {w}
  <2>1. Queue(waiting) /\ Queue(ready)
    BY QueuesDef DEF Queues, Places
  <2> QED BY <1>2, <1>3, <2>1, QueueOperations
<1>8. ~Linked(w)' /\ t \notin ToSet(ready')
  <2>1. w' = w
    BY <1>3
  <2> QED BY <1>1, <1>7, <2>1 DEF Linked
<1>9. Free(t)
  BY <1>1, FreeStaged DEF Places, Blocking
<1>10. DestroysTask'
  BY TaskDestroys DEF TaskStep
<1>11. \A L \in Level : at'[L] = "off"
  BY <1>1, <1>3
<1> HIDE DEF w
<1>12. CASE pc[t] = "s_remove"
  <2>1. pc' = [pc EXCEPT ![t] = "s_enq"] /\ UNCHANGED <<flags, sigsWaiting>>
    BY <1>12 DEF Unlink, Goto
  <2>2. pc[w] \in {"w_yield", "w_ret"} /\ call[w] = "recv" /\ Awoken(w)
    BY <1>12 DEF Places, Signalling, w
  <2>3. pc'[t] = "s_enq" /\ target'[t] = w /\ pc'[w] = pc[w] /\ w' = w
    BY <1>2, <1>3, <2>1 DEF w
  <2>4. Awoken(w)'
    BY <1>3, <1>7, <2>1, <2>2, <2>3 DEF Awoken, Awaited, IsReady
  <2>5. Staged(w)'
    BY <2>2, <2>3, <2>4 DEF Staged, Blocking
  <2>6. Signalling(t)'
    BY <1>3, <1>8, <2>2, <2>3, <2>4 DEF Signalling
  <2>7. Somewhere(w)'
    BY <2>3 DEF Somewhere, InTransit
  <2>8. Staged(t)'
    <3>1. Free(t)'
      BY <1>7, <1>9, <2>1 DEF Free, IsReady
    <3> QED BY <2>3, <3>1, FreeStaged DEF Blocking
  <2>9. \A u \in Task \ {t, w} : Same(u)
    BY <1>3, <1>7, <2>1 DEF Same
  <2> QED BY <1>1, <1>2, <1>3, <1>6, <1>8, <1>10, <1>11, <2>3, <2>5, <2>6, <2>7, <2>8, <2>9,
             TaskPlaces DEF w
<1>13. CASE pc[t] = "d_remove"
  <2>1. /\ pc' = [pc EXCEPT ![t] = "d_permit", ![w] = "none"]
        /\ flags' = [flags EXCEPT ![w] = {}] /\ sigsWaiting' = [sigsWaiting EXCEPT ![w] = {}]
    BY <1>13 DEF Unlink, w
  <2>2. pc'[t] = "d_permit" /\ pc'[w] = "none" /\ sigsWaiting'[w] = {} /\ w' = w
    BY <1>2, <1>3, <2>1 DEF w
  <2>3. Staged(w)' /\ Somewhere(w)'
    BY <1>7, <1>8, <2>2 DEF Staged, Somewhere, Blocking
  <2>4. Signalling(t)'
    BY <2>2 DEF Signalling
  <2>5. Staged(t)'
    <3>1. Free(t)'
      BY <1>2, <1>7, <1>9, <2>1 DEF Free, IsReady
    <3> QED BY <2>2, <3>1, FreeStaged DEF Blocking
  <2>6. \A u \in Task \ {t, w} : Same(u)
    BY <1>3, <1>7, <2>1 DEF Same
  <2> QED BY <1>1, <1>2, <1>3, <1>6, <1>8, <1>10, <1>11, <1>13, <2>2, <2>3, <2>4, <2>5, <2>6,
             TaskPlaces
<1> QED BY <1>1, <1>12, <1>13

\* enqueue() makes an unlinked task ready (task.c:144, 48).
LEMMA LinkKeepsPlaces ==
    ASSUME Base, Base', Sound, Sound', Places, OneDestroyer, NEW t \in Task, Link(t)
    PROVE  Places'
<1> USE DEF Base, Core, TypeOK
<1> DEFINE w == target[t]
<1>1. /\ Runs(t) /\ running = t /\ ~Idling /\ pc[t] \in {"s_enq", "c_enq"}
      /\ t \notin ToSet(ready) /\ \A L \in Level : at[L] = "off"
  BY TaskContext DEF Link
<1>2. w \in Task \ {t}
  BY <1>1 DEF TargetOK, UsesTarget
<1>3. /\ UNCHANGED <<waiting, running, call, target, at>> /\ ready' = Insert(ready, w)
  BY DEF Link, levels
<1>4. ~Linked(w)
  <2>1. CASE pc[t] = "s_enq"
    BY <2>1 DEF Places, Signalling
  <2>2. CASE pc[t] = "c_enq"
    <3>1. pc[w] = "none"
      BY <2>2 DEF LockInv, CreatesFresh, Creates
    <3> QED BY <1>2, <3>1 DEF Places, Staged
  <2> QED BY <1>1, <2>1, <2>2
<1>5. ~misused'
  BY <1>4 DEF Link, Places
<1>6. ToSet(ready') = ToSet(ready) \cup {w}
  <2>1. Queue(ready) /\ w \notin ToSet(ready)
    BY <1>4, QueuesDef DEF Queues, Places, Linked
  <2> QED BY <1>2, <1>3, <2>1, QueueOperations
<1>7. t \notin ToSet(ready') /\ w \in ToSet(ready') /\ w \notin ToSet(waiting')
  BY <1>1, <1>2, <1>3, <1>4, <1>6 DEF Linked
<1>8. Free(t)
  BY <1>1, FreeStaged DEF Places, Blocking
<1>9. DestroysTask'
  BY TaskDestroys DEF TaskStep
<1>10. \A L \in Level : at'[L] = "off"
  BY <1>1, <1>3
<1> HIDE DEF w
<1>11. Somewhere(w)'
  <2>1. w' = w
    BY <1>3 DEF w
  <2> QED BY <1>7, <2>1 DEF Somewhere, Linked
<1>12. CASE pc[t] = "s_enq"
  <2>1. pc' = [pc EXCEPT ![t] = "s_permit"]
        /\ UNCHANGED <<flags, sigsWaiting, sigsRecvd, taskDelay>>
    BY <1>12 DEF Link, Goto, taskVars
  <2>2. pc[w] \in {"w_yield", "w_ret"} /\ Awoken(w)
    BY <1>12 DEF Places, Signalling, w
  <2>3. pc'[t] = "s_permit" /\ pc'[w] = pc[w] /\ w' = w
    BY <1>2, <1>3, <2>1 DEF w
  <2>4. Awoken(w)'
    BY <1>3, <1>7, <2>1, <2>2, <2>3 DEF Awoken, Awaited, IsReady
  <2>5. Staged(w)'
    BY <2>2, <2>3, <2>4 DEF Staged, Blocking
  <2>6. Signalling(t)'
    BY <2>3 DEF Signalling
  <2>7. Staged(t)'
    <3>1. Free(t)'
      BY <1>3, <1>8, <2>1 DEF Free, IsReady
    <3> QED BY <2>3, <3>1, FreeStaged DEF Blocking
  <2>8. \A u \in Task \ {t, w} : Same(u)
    BY <1>3, <1>6, <2>1 DEF Same
  <2> QED BY <1>1, <1>2, <1>3, <1>5, <1>7, <1>9, <1>10, <1>11, <1>12, <2>3, <2>5, <2>6, <2>7,
             <2>8, TaskPlaces DEF w
<1>13. CASE pc[t] = "c_enq"
  <2>1. /\ pc' = [pc EXCEPT ![t] = "c_permit", ![w] = "user"]
        /\ flags' = [flags EXCEPT ![w] = {"TS_READY"}]
        /\ sigsWaiting' = [sigsWaiting EXCEPT ![w] = {}]
        /\ sigsRecvd' = [sigsRecvd EXCEPT ![w] = {}]
        /\ taskDelay' = [taskDelay EXCEPT ![w] = 0]
    BY <1>13 DEF Link, w
  <2>2. pc'[t] = "c_permit" /\ pc'[w] = "user" /\ sigsWaiting'[w] = {} /\ w' = w
        /\ flags'[w] = {"TS_READY"}
    BY <1>2, <1>3, <2>1 DEF w
  <2>3. Staged(w)'
    <3>1. Free(w)'
      BY <1>7, <2>2 DEF Free, IsReady
    <3> QED BY <2>2, <3>1, FreeStaged DEF Blocking
  <2>4. Signalling(t)'
    BY <2>2 DEF Signalling
  <2>5. Staged(t)'
    <3>1. Free(t)'
      BY <1>2, <1>3, <1>8, <2>1 DEF Free, IsReady
    <3> QED BY <2>2, <3>1, FreeStaged DEF Blocking
  <2>6. \A u \in Task \ {t, w} : Same(u)
    BY <1>3, <1>6, <2>1 DEF Same
  <2> QED BY <1>1, <1>2, <1>3, <1>5, <1>7, <1>9, <1>10, <1>11, <1>13, <2>2, <2>3, <2>4, <2>5,
             <2>6, TaskPlaces
<1> QED BY <1>1, <1>12, <1>13

\* The idle loop is where it was with the task it has picked, or has left it.
SamePick ==
    /\ picked' = picked
    /\ \A L \in Level : /\ at'[L] = "picked" => at[L] = "picked"
                        /\ at'[L] = "unlinked" <=> at[L] = "unlinked"

LEMMA PickStays ==
    ASSUME Base, PickedFits, SamePick, pc' = pc, ToSet(ready) \subseteq ToSet(ready'),
           \A u \in Task : Linked(u)' <=> Linked(u)
    PROVE  PickedFits' /\ \A u \in Task : Unlinked(u) => Unlinked(u)'
<1>1. \A u \in Task : Unlinked(u) => Unlinked(u)'
  BY DEF SamePick, Unlinked
<1>2. ASSUME NEW L \in Level, at'[L] = "picked" PROVE picked' \in ToSet(ready')
  <2>1. at[L] = "picked" /\ picked' = picked
    BY <1>2 DEF SamePick
  <2> QED BY <2>1 DEF PickedFits
<1>3. ASSUME NEW L \in Level, at'[L] = "unlinked" PROVE pc'[picked'] # "none" /\ ~Linked(picked)'
  <2>1. at[L] = "unlinked" /\ picked' = picked
    BY <1>3 DEF SamePick
  <2>2. picked \in Task
    BY <2>1 DEF Base, Core, Levels, PickedOK
  <2>3. pc[picked] # "none" /\ ~Linked(picked)
    BY <2>1 DEF PickedFits
  <2>4. \A u \in Task :
           u \in ToSet(ready') \cup ToSet(waiting') <=> u \in ToSet(ready) \cup ToSet(waiting)
    BY DEF Linked
  <2>5. picked \notin ToSet(ready') \cup ToSet(waiting')
    BY <2>2, <2>3, <2>4 DEF Linked
  <2> QED BY <2>1, <2>3, <2>5 DEF Linked
<1> QED BY <1>1, <1>2, <1>3 DEF PickedFits

\* A kernel step that leaves the structures and the lists alone.
LEMMA KeptPlaces ==
    ASSUME Base, Places, UNCHANGED <<progVars, running, lists>>, ~misused',
           \A u \in Task : Same(u),
           Idling' <=> Idling,
           PickedFits', \A u \in Task : Unlinked(u) => Unlinked(u)',
           SwitchDue'
    PROVE  Places'
<1>1. /\ pc' = pc /\ call' = call /\ target' = target /\ running' = running
      /\ ready' = ready /\ waiting' = waiting
  BY DEF progVars, lists
<1>2. \A u \in Task : (Moved(u)' <=> Moved(u)) /\ (InTransit(u)' <=> InTransit(u))
                      /\ (Linked(u)' <=> Linked(u))
  BY <1>1 DEF Moved, InTransit, Linked
<1>3. ASSUME NEW u \in Task PROVE Staged(u)'
  BY <1>2, SameStaged DEF Places, Awoken
<1>4. ASSUME NEW u \in Task PROVE Somewhere(u)'
  <2>1. Somewhere(u)
    BY DEF Places
  <2> QED BY <1>1, <1>2, <2>1 DEF Somewhere
<1>5. ASSUME NEW u \in Task PROVE Signalling(u)'
  <2>1. Signalling(u)
    BY DEF Places
  <2>2. CASE pc[u] \in {"s_remove", "s_enq", "s_set"}
    <3>1. PICK w \in Task : w = target[u]
      BY <2>2 DEF Base, Core, TargetOK, UsesTarget
    <3>2. Awoken(w) => Awoken(w)'
      BY <1>2, SameAwoken DEF Awoken
    <3>3. target'[u] = w /\ (Linked(w)' <=> Linked(w))
      BY <1>1, <1>2, <3>1
    <3> QED BY <1>1, <2>1, <2>2, <3>1, <3>2, <3>3 DEF Signalling
  <2>3. CASE pc[u] \notin {"s_remove", "s_enq", "s_set"}
    BY <1>1, <2>3 DEF Signalling
  <2> QED BY <2>2, <2>3
<1>6. DestroysTask'
  BY <1>1 DEF Places, DestroysTask
<1>7. Runnable'
  BY <1>1 DEF Places, Runnable
<1> QED BY <1>3, <1>4, <1>5, <1>6, <1>7 DEF Places

\* The same, of a step that leaves the idle loop alone, too.
LEMMA SamePickPlaces ==
    ASSUME Base, Places, UNCHANGED <<progVars, running, lists>>, ~misused',
           \A u \in Task : Same(u),
           Idling' <=> Idling, SamePick, SwitchDue'
    PROVE  Places'
<1>1. PickedFits' /\ \A u \in Task : Unlinked(u) => Unlinked(u)'
  <2>1. pc' = pc /\ ready' = ready /\ waiting' = waiting
    BY DEF progVars, lists
  <2>2. \A u \in Task : Linked(u)' <=> Linked(u)
    BY <2>1 DEF Linked
  <2>3. PickedFits
    BY DEF Places, Runnable
  <2> QED BY <2>1, <2>2, <2>3, PickStays
<1> QED BY <1>1, KeptPlaces

\* A switch that is due stays due until it is made.
LEMMA DueStaysDue ==
    ASSUME SwitchDue, UNCHANGED <<pc, running>>,
           \A u \in Task : u \in ToSet(waiting') => u \in ToSet(waiting),
           running \in Task, Idling' <=> Idling, needSchedule => needSchedule',
           at'["sys"] = at["sys"] \/ (at'["sys"] = "exit" /\ needSchedule')
    PROVE  SwitchDue'
BY DEF SwitchDue

(* What interrupts and system calls do beside waking and switching leaves  *)
(* the tasks where they are (idt.c:127-190, timer.c:17-35).                *)
LEMMA QuietKeepsPlaces ==
    ASSUME Base, Sound, Places,
           \/ TimerInterrupt \/ KeyboardInterrupt \/ _yield \/ TimerDone
           \/ KeyRelease \/ KeyPress \/ KeyYield
           \/ \E L \in Level : Leave(L) \/ IdleHalt(L) \/ IdlePick(L) \/ IdleEOI(L)
           \/ ResumeCount \/ ResumeReturn
           \/ TimerVisit /\ UNCHANGED <<lists, flags, sigsWaiting, sigsRecvd, misused>>
           \/ KeySend /\ UNCHANGED <<lists, flags, sigsWaiting, sigsRecvd, misused>>
    PROVE  Places'
<1> USE DEF Base, Core, TypeOK
<1>1. /\ UNCHANGED <<progVars, running, lists, flags, sigsWaiting, sigsRecvd, misused>>
      /\ UNCHANGED taskDelay \/ TimerVisit
  BY DEF TimerInterrupt, KeyboardInterrupt, _yield, TimerVisit, TimerDone, KeyRelease,
         KeyPress, KeySend, KeyYield, Leave, IdleHalt, IdlePick, IdleEOI, ResumeCount,
         ResumeReturn, tasks, taskVars, ghosts
<1>2. ASSUME NEW u \in Task, sigsWaiting[u] = {} PROVE taskDelay'[u] = taskDelay[u]
  BY <1>1, <1>2 DEF TimerVisit
<1>3. \A u \in Task : Same(u)
  BY <1>1, <1>2 DEF Same, progVars, lists
<1>4. ~misused' /\ pc' = pc /\ waiting' = waiting /\ SwitchDue
  BY <1>1 DEF Places, progVars, lists
<1>5. ASSUME Idling' <=> Idling, needSchedule => needSchedule',
             SamePick,
             at'["sys"] = at["sys"] \/ (at'["sys"] = "exit" /\ needSchedule')
      PROVE  Places'
  <2>1. SwitchDue'
    BY <1>1, <1>4, <1>5, DueStaysDue
  <2> QED BY <1>1, <1>3, <1>4, <1>5, <2>1, SamePickPlaces
<1> HIDE DEF Base, Core, TypeOK
<1>t. /\ at \in [Level -> Label] /\ forbidCounter \in Nat /\ kReenter \in Int
      /\ needSchedule \in BOOLEAN
  BY DEF Base, Core, TypeOK
<1> USE DEF counters, Level
<1>6. CASE TimerInterrupt \/ KeyboardInterrupt
  <2>1. /\ needSchedule' = needSchedule /\ picked' = picked
        /\ \E l \in {"walk", "entry"}, K \in {"irq0", "irq1"} :
              at' = Interrupted(K, l) /\ at[K] = "off"
    BY <1>6 DEF TimerInterrupt, KeyboardInterrupt
  <2>2. at["sys"] = "hlt" => Idling /\ Idling'
    <3>1. ASSUME at["sys"] = "hlt" PROVE at'["sys"] = "woken"
      BY <2>1, <3>1 DEF Interrupted
    <3> QED BY <3>1 DEF Idling, IdleAt
  <2>3. Idling' <=> Idling
    BY <1>t, <2>1 DEF Interrupted, Idling, IdleAt
  <2>4. SamePick
    BY <1>t, <2>1 DEF Interrupted, SamePick
  <2>5. CASE at["sys"] # "hlt"
    <3>1. at'["sys"] = at["sys"]
      BY <1>t, <2>1, <2>5 DEF Interrupted
    <3> QED BY <1>5, <2>1, <2>3, <2>4, <3>1
  <2>6. CASE at["sys"] = "hlt"
    <3>1. SwitchDue'
      BY <2>2, <2>6 DEF SwitchDue
    <3> QED BY <1>1, <1>3, <1>4, <2>3, <2>4, <3>1, SamePickPlaces
  <2> QED BY <2>5, <2>6
<1>7. CASE _yield
  <2>1. at' = [at EXCEPT !["sys"] = "exit"] /\ needSchedule' = TRUE /\ picked' = picked
        /\ at["sys"] = "entry"
    BY <1>7 DEF _yield
  <2> QED BY <1>t, <1>5, <2>1 DEF Idling, IdleAt, SamePick
<1>8. CASE TimerDone \/ KeyRelease \/ KeyPress \/ KeySend \/ KeyYield \/ TimerVisit
  <2>1. picked' = picked /\ (needSchedule' = needSchedule \/ needSchedule' = TRUE)
    BY <1>8 DEF TimerDone, KeyRelease, KeyPress, KeySend, KeyYield, TimerVisit, InterruptYields
  <2>2. at' = at \/ \E L \in {"irq0", "irq1"} : \E l \in {"exit", "alloc", "yield"} :
           at' = [at EXCEPT ![L] = l] /\ at[L] \notin IdleAt
    BY <1>8 DEF TimerDone, KeyRelease, KeyPress, KeySend, KeyYield, TimerVisit, IdleAt
  <2>3. Idling' <=> Idling
    BY <1>t, <2>2 DEF Idling, IdleAt
  <2>4. at'["sys"] = at["sys"] /\ SamePick
    BY <1>t, <2>1, <2>2 DEF SamePick, IdleAt
  <2> QED BY <1>5, <2>1, <2>3, <2>4
<1>9. ASSUME NEW L \in Level, Leave(L) PROVE Places'
  <2>1. picked' = picked /\ needSchedule' = needSchedule /\ at[L] = "exit"
        /\ at' = [at EXCEPT ![L] = "off"] /\ Top = L /\ ~Schedules
    BY <1>9 DEF Leave
  <2>2. Idling' <=> Idling
    BY <1>t, <2>1 DEF Idling, IdleAt
  <2>3. SamePick
    BY <1>t, <2>1 DEF SamePick
  <2>4. CASE L # "sys"
    BY <1>t, <1>5, <2>1, <2>2, <2>3, <2>4
  <2>5. CASE L = "sys"
    <3>1. at["irq0"] = "off" /\ at["irq1"] = "off" /\ at["sys"] = "exit"
      BY <2>1, <2>5 DEF Top
    <3>2. kReenter = 0
      BY <1>t, <3>1 DEF Base, Core, Levels, ReenterCounts, Depth, ResumeOK
    <3>3. ASSUME pc[running] = "w_ret" PROVE forbidCounter = 0
      <4>1. Held(running) = 0
        BY <3>3, HeldIs, HeldTable
      <4>2. CountIs
        BY DEF Base, ForbidInv, Sound, Counted
      <4> QED BY <3>1, <4>1, <4>2 DEF CountIs
    <3>4. ~(~Idling /\ pc[running] = "w_ret" /\ running \in ToSet(waiting))
      BY <1>4, <2>1, <3>1, <3>2, <3>3 DEF SwitchDue, Schedules
    <3>5. SwitchDue'
      BY <1>1, <1>4, <2>2, <3>4 DEF SwitchDue
    <3> QED BY <1>1, <1>3, <1>4, <2>2, <2>3, <3>5, SamePickPlaces
  <2> QED BY <2>4, <2>5
<1>10. ASSUME NEW L \in Level, IdleHalt(L) \/ IdlePick(L) PROVE Places'
  <2>1. Idling /\ Idling'
    BY <1>t, <1>10 DEF IdleHalt, IdlePick, Idling, IdleAt
  <2>2. SwitchDue'
    BY <2>1 DEF SwitchDue
  <2>3. CASE IdleHalt(L)
    <3>1. SamePick
      BY <1>t, <2>3 DEF IdleHalt, SamePick
    <3> QED BY <1>1, <1>3, <1>4, <2>1, <2>2, <3>1, SamePickPlaces
  <2>4. CASE IdlePick(L)
    <3>1. Top = L /\ at[L] = "woken" /\ ~stranded
      BY <2>4 DEF IdlePick, Intact
    <3>2. \A M \in Level : M # L => at[M] = "off"
      BY <3>1 DEF Base, Core, Levels, IdleOutermost, ResumeOK, IdleAt, Top
    <3>3. \A M \in Level : at'[M] # "unlinked" /\ at[M] # "unlinked"
      BY <1>t, <2>4, <3>1, <3>2 DEF IdlePick
    <3>4. ASSUME NEW M \in Level, at'[M] = "picked" PROVE picked' \in ToSet(ready')
      <4>1. ready # <<>>
        BY <1>t, <2>4, <3>1, <3>2, <3>4 DEF IdlePick
      <4>2. picked' = ready[1]
        BY <2>4, <4>1 DEF IdlePick, first
      <4>3. ready \in Seq(Task) /\ Len(ready) # 0 /\ Len(ready) \in Nat
        BY <4>1, EmptySeq, LenProperties DEF Base, Core, TypeOK
      <4>4. ready[1] \in ToSet(ready) /\ ready' = ready
        BY <1>1, <4>3 DEF ToSet, lists
      <4> QED BY <4>2, <4>4
    <3>5. PickedFits' /\ \A u \in Task : Unlinked(u) => Unlinked(u)'
      BY <3>3, <3>4 DEF PickedFits, Unlinked
    <3> QED BY <1>1, <1>3, <1>4, <2>1, <2>2, <3>5, KeptPlaces
  <2> QED BY <1>10, <2>3, <2>4
<1>11. ASSUME NEW L \in Level, IdleEOI(L) PROVE Places'
  <2>1. /\ at[L] = "eoi" /\ at' = [at EXCEPT ![L] = "off", !["resume"] = "count"]
        /\ UNCHANGED <<needSchedule, picked>>
    BY <1>11 DEF IdleEOI
  <2>2. L # "sys" /\ at["resume"] \in {"off", "count", "iret"}
    BY <2>1 DEF Base, Core, Levels, ResumeOK
  <2> QED BY <1>t, <1>5, <2>1, <2>2 DEF Idling, IdleAt, SamePick
<1>12. CASE ResumeCount \/ ResumeReturn
  <2>1. /\ at["resume"] \in {"count", "iret"} /\ UNCHANGED <<needSchedule, picked>>
        /\ \E l \in {"iret", "off"} : at' = [at EXCEPT !["resume"] = l]
    BY <1>12 DEF ResumeCount, ResumeReturn
  <2> QED BY <1>t, <1>5, <2>1 DEF Idling, IdleAt, SamePick
<1> QED BY <1>6, <1>7, <1>8, <1>9, <1>10, <1>11, <1>12

(* An interrupt signals a task: the task sleeps in tasks_wait, and goes to *)
(* tasks_ready with its signal received (task.c:136-144).                  *)
LEMMA WakeFacts ==
    ASSUME Base, Base', Sound, Sound', Places, NEW t \in Task, NEW s \in sigsWaiting[t],
           Readies(t, s)
    PROVE  /\ t # running \/ Idling
           /\ Asleep(t) /\ pc[t] \in {"w_yield", "w_ret"} /\ s = Awaited(t) /\ ~misused'
           /\ ToSet(ready') = ToSet(ready) \cup {t} /\ ToSet(waiting') = ToSet(waiting) \ {t}
           /\ flags' = [flags EXCEPT ![t] = @ \cup {"TS_READY"}]
           /\ sigsWaiting' = [sigsWaiting EXCEPT ![t] = {}]
           /\ sigsRecvd' = [sigsRecvd EXCEPT ![t] = {Awaited(t)}]
<1> USE DEF Base, Core, TypeOK
<1>1. t # running \/ Idling
  <2>1. ~hit'
    BY DEF Sound
  <2>2. ~(t = running /\ "TS_RUN" \in flags[t])
    BY <2>1 DEF Readies
  <2> QED BY <2>2 DEF RunFlag
<1>2. Asleep(t) /\ pc[t] \in {"w_yield", "w_ret"}
  BY <1>1, Settled
<1>3. s = Awaited(t) /\ sigsWaiting[t] = {s} /\ sigsRecvd[t] = {}
  BY <1>2 DEF Asleep, Waits
<1>4. Linked(t) /\ ~misused /\ ~misused'
  BY <1>2 DEF Asleep, Linked, Places, Readies
<1>5. ready' = Insert(Without(ready, t), t) /\ waiting' = Without(waiting, t)
  BY <1>4 DEF Readies
<1>6. ToSet(ready') = ToSet(ready) \cup {t} /\ ToSet(waiting') = ToSet(waiting) \ {t}
  <2> DEFINE r == Without(ready, t)
  <2>1. Queue(ready) /\ Queue(waiting)
    BY <1>4, QueuesDef DEF Queues
  <2>2. r \in Seq(Task) /\ Queue(r) /\ ToSet(r) = ToSet(ready) \ {t}
    BY <2>1, ListTypes, QueueOperations
  <2>3. ToSet(waiting') = ToSet(waiting) \ {t}
    BY <1>5, <2>1, QueueOperations
  <2> HIDE DEF r
  <2>4. ToSet(Insert(r, t)) = ToSet(r) \cup {t}
    BY <2>2, QueueOperations
  <2> QED BY <1>5, <2>2, <2>3, <2>4 DEF r
<1>7. /\ flags' = [flags EXCEPT ![t] = @ \cup {"TS_READY"}]
      /\ sigsWaiting' = [sigsWaiting EXCEPT ![t] = {}]
      /\ sigsRecvd' = [sigsRecvd EXCEPT ![t] = {Awaited(t)}]
  BY <1>3 DEF Readies, Signalled
<1> QED BY <1>1, <1>2, <1>3, <1>4, <1>6, <1>7

\* The woken task is then where its flags say.
LEMMA WakeKeepsPlaces ==
    ASSUME Base, Base', Sound, Sound', Places, NEW t \in Task, NEW s \in sigsWaiting[t],
           Readies(t, s), UNCHANGED <<progVars, running, picked>>,
           \A u \in Task : sigsWaiting[u] = {} => taskDelay'[u] = taskDelay[u],
           s = "TB_DELAY" => taskDelay'[t] = 0,
           Idling' <=> Idling, needSchedule => needSchedule', at'["sys"] = at["sys"],
           SamePick
    PROVE  Places'
<1> USE DEF Base, Core, TypeOK
<1>1. /\ t # running \/ Idling
      /\ Asleep(t) /\ pc[t] \in {"w_yield", "w_ret"} /\ s = Awaited(t) /\ ~misused'
      /\ ToSet(ready') = ToSet(ready) \cup {t} /\ ToSet(waiting') = ToSet(waiting) \ {t}
      /\ flags' = [flags EXCEPT ![t] = @ \cup {"TS_READY"}]
      /\ sigsWaiting' = [sigsWaiting EXCEPT ![t] = {}]
      /\ sigsRecvd' = [sigsRecvd EXCEPT ![t] = {Awaited(t)}]
  BY WakeFacts
<1>2. pc' = pc /\ call' = call /\ target' = target /\ running' = running /\ picked' = picked
  BY DEF progVars
<1>3. \A u \in Task \ {t} : Same(u)
  BY <1>1, <1>2 DEF Same
<1>4. \A u \in Task : (Moved(u)' <=> Moved(u)) /\ (InTransit(u)' <=> InTransit(u))
  BY <1>2 DEF Moved, InTransit
<1>5. Awoken(t)'
  <2>1. t \notin ToSet(waiting') /\ sigsWaiting'[t] = {} /\ sigsRecvd'[t] = {Awaited(t)}
        /\ "TS_READY" \in flags'[t] /\ Awaited(t)' = Awaited(t)
    BY <1>1, <1>2 DEF Awaited
  <2>2. call'[t] = "delay" => taskDelay'[t] = 0
    BY <1>1, <1>2 DEF Awaited
  <2> QED BY <2>1, <2>2 DEF Awoken, IsReady
<1>6. ASSUME NEW u \in Task PROVE Staged(u)'
  <2>1. CASE u = t
    <3>1. pc'[t] \in {"w_yield", "w_ret"}
      BY <1>1, <1>2
    <3> QED BY <1>5, <2>1, <3>1 DEF Staged, Blocking
  <2>2. CASE u # t
    BY <1>3, <1>4, <2>2, SameStaged DEF Places, Awoken
  <2> QED BY <2>1, <2>2
<1>p. PickedFits' /\ \A u \in Task : Unlinked(u) => Unlinked(u)'
  <2>1. \A u \in Task : Linked(u)' <=> Linked(u)
    BY <1>1 DEF Linked, Asleep
  <2>2. PickedFits
    BY DEF Places, Runnable
  <2> QED BY <1>1, <1>2, <2>1, <2>2, PickStays
<1>7. ASSUME NEW u \in Task PROVE Somewhere(u)'
  <2>1. CASE u = t
    BY <1>1, <2>1 DEF Somewhere, Linked
  <2>2. CASE u # t
    <3>1. Somewhere(u) /\ (Linked(u)' <=> Linked(u))
      BY <1>3, <2>2, SameLinked DEF Places
    <3> QED BY <1>2, <1>4, <1>p, <3>1 DEF Somewhere
  <2> QED BY <2>1, <2>2
<1>8. ASSUME NEW u \in Task PROVE Signalling(u)'
  <2>1. Signalling(u)
    BY DEF Places
  <2>2. CASE pc[u] \in {"s_remove", "s_enq", "s_set"}
    <3>1. PICK w \in Task : w = target[u]
      BY <2>2 DEF TargetOK, UsesTarget
    <3>2. target'[u] = w /\ pc'[u] = pc[u] /\ pc'[w] = pc[w] /\ call'[w] = call[w]
      BY <1>2, <3>1
    <3>3. CASE w = t
      <4>1. pc[u] = "s_set"
        BY <1>1, <2>1, <2>2, <3>1, <3>3 DEF Signalling, Awoken, Asleep, Waits
      <4> QED BY <2>1, <2>2, <3>1, <3>2, <4>1 DEF Signalling
    <3>4. CASE w # t
      <4>1. (Awoken(w) => Awoken(w)') /\ (Linked(w)' <=> Linked(w))
        BY <1>3, <1>4, <3>4, SameAwoken, SameLinked DEF Awoken
      <4> QED BY <2>1, <2>2, <3>1, <3>2, <4>1 DEF Signalling
    <3> QED BY <3>3, <3>4
  <2>3. CASE pc[u] \notin {"s_remove", "s_enq", "s_set"}
    BY <1>2, <2>3 DEF Signalling
  <2> QED BY <2>2, <2>3
<1>9. DestroysTask'
  BY <1>2 DEF Places, DestroysTask
<1>10. Runnable'
  BY <1>1, <1>2, <1>p DEF Places, Runnable
<1>11. SwitchDue'
  BY <1>1, <1>2, DueStaysDue DEF Places
<1> QED BY <1>1, <1>6, <1>7, <1>8, <1>9, <1>10, <1>11 DEF Places

(* Both callers: the walk of the timer, for a delay that has expired, and  *)
(* queue_send() in the keyboard interrupt (timer.c:22-32, queue.c:81-90).  *)
LEMMA WakersKeepPlaces ==
    ASSUME Base, Base', Sound, Sound', Places, TimerVisit \/ KeySend
    PROVE  Places'
<1>t. at \in [Level -> Label] /\ cursor \in Task \cup {NoTask}
      /\ taskDelay \in [Task -> 0..(TickRange - 1)] /\ sigsWaiting \in [Task -> SUBSET Signals]
  BY DEF Base, Core, TypeOK
<1>1. UNCHANGED <<progVars, running, picked>> /\ (needSchedule => needSchedule')
  BY DEF TimerVisit, KeySend, InterruptYields
<1>2. at' = at \/ \E l \in {"exit", "yield"} :
         at' = [at EXCEPT !["irq1"] = l] /\ at["irq1"] \notin IdleAt
  BY DEF TimerVisit, KeySend, IdleAt
<1>3. Idling' <=> Idling
  BY <1>t, <1>2 DEF Idling, IdleAt, Level
<1>4. at'["sys"] = at["sys"] /\ SamePick
  BY <1>t, <1>1, <1>2 DEF Level, SamePick, IdleAt
<1>5. CASE UNCHANGED <<lists, flags, sigsWaiting, sigsRecvd, misused>>
  BY <1>5, QuietKeepsPlaces
<1>6. CASE ~UNCHANGED <<lists, flags, sigsWaiting, sigsRecvd, misused>> /\ TimerVisit
  <2>1. /\ cursor \in Task /\ "TB_DELAY" \in sigsWaiting[cursor]
        /\ Readies(cursor, "TB_DELAY") /\ Expires((taskDelay[cursor] - 1) % TickRange)
        /\ taskDelay' = [taskDelay EXCEPT ![cursor] = (taskDelay[cursor] - 1) % TickRange]
    BY <1>t, <1>6 DEF TimerVisit
  <2>2. /\ taskDelay'[cursor] = 0
        /\ \A u \in Task : sigsWaiting[u] = {} => taskDelay'[u] = taskDelay[u]
    BY <1>t, <2>1 DEF Expires
  <2> QED BY <1>1, <1>3, <1>4, <2>1, <2>2, WakeKeepsPlaces
<1>7. CASE ~UNCHANGED <<lists, flags, sigsWaiting, sigsRecvd, misused>> /\ KeySend
  <2>1. /\ "TB_QUEUE" \in sigsWaiting[Owner] /\ Readies(Owner, "TB_QUEUE")
        /\ taskDelay' = taskDelay
    BY <1>7 DEF KeySend
  <2>2. Owner \in Task
    BY SchedAssumption
  <2> QED BY <1>1, <1>3, <1>4, <2>1, <2>2, WakeKeepsPlaces
<1> QED BY <1>5, <1>6, <1>7

\* Nobody is inside a section: every task is settled, the running one too.
Outside == \A u \in Task : pc[u] \notin Sections
LEMMA NobodyInside ==
    ASSUME Base, Places, Outside, NEW u \in Task
    PROVE  /\ ~Moved(u) /\ ~InTransit(u)
           /\ pc[u] = "none" => ~Linked(u)
           /\ pc[u] # "none" => (IsReady(u) <=> u \notin ToSet(waiting))
           /\ sigsWaiting[u] # {} => u \in ToSet(waiting)
<1>1. Staged(u)
  BY DEF Places
<1>2. ~Moved(u) /\ ~InTransit(u)
  BY SectionLabels DEF Outside, Moved, InTransit
<1>3. pc[u] \in Blocking => pc[u] \in {"w_yield", "w_ret"}
  BY SectionLabels DEF Outside
<1>4. CASE pc[u] \in Blocking
  BY <1>1, <1>2, <1>3, <1>4 DEF Staged, Asleep, Awoken
<1>5. CASE pc[u] \notin Blocking
  BY <1>1, <1>2, <1>5 DEF Staged
<1> QED BY <1>4, <1>5

\* While nobody is inside a section the dispatcher moves tasks out of and into the ready
\* list and to the processor.
LEMMA OutsideKeepsPlaces ==
    ASSUME Base, Places, Outside, ~misused',
           UNCHANGED <<waiting, sigsWaiting, sigsRecvd, taskDelay, progVars>>,
           \A u \in Task : "TS_READY" \in flags'[u] <=> "TS_READY" \in flags[u],
           \A u \in Task : pc[u] = "none" => u \notin ToSet(ready'),
           \A u \in Task : Somewhere(u)', Runnable', SwitchDue'
    PROVE  Places'
<1>2. /\ pc' = pc /\ call' = call /\ target' = target /\ waiting' = waiting
      /\ \A u : (Moved(u)' <=> Moved(u)) /\ (InTransit(u)' <=> InTransit(u))
  BY DEF progVars, Moved, InTransit
<1>3. ASSUME NEW u \in Task PROVE Staged(u)'
  <2>1. Staged(u) /\ ~Moved(u) /\ pc[u] \notin Sections
    BY NobodyInside DEF Places, Outside
  <2>2. (Asleep(u) => Asleep(u)') /\ (Awoken(u) => Awoken(u)') /\ (IsReady(u)' <=> IsReady(u))
    BY <1>2, <1>3 DEF Asleep, Awoken, Waits, Awaited, IsReady
  <2>3. pc[u] = "none" => ~Linked(u)'
    <3>1. pc[u] = "none" => u \notin ToSet(waiting)
      BY NobodyInside DEF Linked
    <3> QED BY <1>2, <3>1 DEF Linked
  <2>4. pc[u] \in Blocking => pc[u] \in {"w_yield", "w_ret"}
    BY <2>1, SectionLabels
  <2>5. pc'[u] = pc[u] /\ (sigsWaiting[u] = {} => sigsWaiting'[u] = {})
    BY <1>2
  <2>6. CASE pc[u] \in Blocking
    <3>1. pc[u] \in {"w_yield", "w_ret"} /\ (Asleep(u) \/ Awoken(u))
      BY <2>1, <2>4, <2>6 DEF Staged
    <3> QED BY <2>2, <2>5, <3>1, SectionLabels DEF Staged
  <2>7. CASE pc[u] \notin Blocking
    <3>1. {"w_recvd", "w_flags", "w_lock", "w_enq", "w_unlock", "w_permit", "w_yield", "w_ret"}
             \subseteq Blocking
      BY DEF Blocking
    <3>2. sigsWaiting[u] = {} /\ u \notin ToSet(waiting) /\ (pc[u] # "none" => IsReady(u))
      BY <2>1, <2>7 DEF Staged
    <3> QED BY <1>2, <2>2, <2>3, <2>5, <2>7, <3>1, <3>2 DEF Staged
  <2> QED BY <2>6, <2>7
<1>4. ASSUME NEW u \in Task PROVE Signalling(u)'
  BY <1>2, SectionLabels DEF Signalling, Outside
<1>7. DestroysTask'
  BY <1>2 DEF Places, DestroysTask
<1> QED BY <1>3, <1>4, <1>7 DEF Places

(* The dispatcher takes a task from the ready list, and the task that had  *)
(* the processor is in one of the lists (task.c:74-117).                   *)
LEMMA DispatchKeepsPlaces ==
    ASSUME Base, Places, Outside, ~misused',
           NEW q \in Seq(Task), Queue(q), NEW n \in ToSet(q),
           ready' = Without(q, n), running' = n,
           UNCHANGED <<waiting, sigsWaiting, sigsRecvd, taskDelay, progVars>>,
           \A u \in Task : "TS_READY" \in flags'[u] <=> "TS_READY" \in flags[u],
           \A L \in Level : at'[L] \notin IdleAt,
           \A u \in ToSet(q) : u \in Task /\ pc[u] # "none" /\ u \notin ToSet(waiting),
           \A u \in Task : pc[u] # "none" => u \in ToSet(q) \cup ToSet(waiting)
    PROVE  Places'
<1>1. n \in Task /\ ToSet(ready') = ToSet(q) \ {n}
  BY QueueOperations
<1>2. pc' = pc /\ waiting' = waiting /\ ~Idling' /\ \A u : ~Unlinked(u)'
  BY DEF progVars, Idling, Unlinked, IdleAt
<1>3. \A u \in Task : Somewhere(u)'
  BY <1>1, <1>2 DEF Somewhere, Linked
<1>4. Runnable'
  BY <1>1, <1>2 DEF Runnable, PickedFits, IdleAt
<1>5. SwitchDue'
  BY <1>2 DEF SwitchDue
<1>6. \A u \in Task : pc[u] = "none" => u \notin ToSet(ready')
  BY <1>1
<1> QED BY <1>3, <1>4, <1>5, <1>6, OutsideKeepsPlaces

(* Where schedule() switches nobody is inside a section, and the task that *)
(* stops is queued unless it sleeps (task.c:69-75).                        *)
Requeued == IF StillReady THEN Insert(ready, running) ELSE ready

LEMMA SwitchFacts ==
    ASSUME Base, Sound, Places, NEW L \in Level, Switch(L)
    PROVE  /\ Outside /\ ~Idling /\ \A M \in Level : M # L => at[M] \in {"off", "iret"}
           /\ ~(StillReady /\ Linked(running)) /\ (~StillReady => running \in ToSet(waiting))
           /\ Requeued \in Seq(Task) /\ Queue(Requeued)
           /\ ToSet(Requeued) = ToSet(ready) \cup (IF StillReady THEN {running} ELSE {})
<1>1. Top = L /\ at[L] = "exit" /\ forbidCounter = 0 /\ kReenter = 0
  BY DEF Switch, Schedules
<1>2. \A M \in Level : M # L => at[M] \in {"off", "iret"}
  BY <1>1 DEF Base, Core, Levels, ReenterCounts, Depth, Level, Top
<1>3. at["irq1"] \notin {"alloc", "yield"} /\ at["sys"] # "entry" /\ ~Idling
  BY <1>1, <1>2 DEF Level, Idling, IdleAt
<1>4. Outside
  <2>1. Counted
    BY DEF Sound, Counted
  <2>2. \A u \in Task : Held(u) = 0
    BY <1>1, <1>3, <2>1 DEF Base, ForbidInv, CountIs, OneSectionAtATime
  <2> QED BY <2>2 DEF Held, Sections, Outside
<1>5. running \in Task /\ ready \in Seq(Task) /\ pc[running] # "none" /\ running \notin ToSet(ready)
  BY <1>3 DEF Base, Core, TypeOK, Places, Runnable
<1>6. IsReady(running) <=> running \notin ToSet(waiting)
  BY <1>4, <1>5, NobodyInside
<1>7. ~(StillReady /\ Linked(running)) /\ (~StillReady => running \in ToSet(waiting))
  BY <1>5, <1>6 DEF IsReady, StillReady, Linked
<1>8. Queue(ready)
  BY QueuesDef DEF Base, Places, Queues
<1>9. /\ Requeued \in Seq(Task) /\ Queue(Requeued)
      /\ ToSet(Requeued) = ToSet(ready) \cup (IF StillReady THEN {running} ELSE {})
  BY <1>5, <1>8, ListTypes, QueueOperations DEF Requeued
<1> QED BY <1>2, <1>3, <1>4, <1>7, <1>9

\* Where the idle loop has found a task, too.
LEMMA IdleFacts ==
    ASSUME Base, Sound, Places, NEW L \in Level, at[L] \in {"picked", "unlinked"}, Top = L
    PROVE  /\ Outside /\ Idling /\ (\A M \in Level : M # L => at[M] = "off")
           /\ at[L] = "picked" => picked \in ToSet(ready)
           /\ at[L] = "unlinked" => pc[picked] # "none" /\ ~Linked(picked)
           /\ picked \in Task
<1>1. Idling /\ at[L] \in IdleAt
  BY DEF Idling, IdleAt
<1>2. \A M \in Level : M # L => at[M] = "off"
  BY <1>1 DEF Base, Core, Levels, IdleOutermost, ResumeOK, Sound, Level, Top
<1>3. Outside
  <2>1. Counted
    BY DEF Sound, Counted
  <2> QED BY <1>1, <2>1, SectionsRun DEF Outside
<1>4. /\ at[L] = "picked" => picked \in ToSet(ready)
      /\ at[L] = "unlinked" => pc[picked] # "none" /\ ~Linked(picked)
      /\ picked \in Task
  BY DEF Places, Runnable, PickedFits, Base, Core, Levels, PickedOK
<1> QED BY <1>1, <1>2, <1>3, <1>4

(* switch_tasks() loses no task (task.c:64-117).                           *)
LEMMA SwitchKeepsPlaces ==
    ASSUME Base, Sound, Places, NEW L \in Level, Switch(L) \/ IdleRemove(L) \/ IdleRun(L)
    PROVE  Places'
<1>t. /\ ready \in Seq(Task) /\ running \in Task /\ at \in [Level -> Label]
      /\ flags \in [Task -> SUBSET Flags]
  BY DEF Base, Core, TypeOK
<1>q. Queue(ready) /\ ToSet(ready) \cap ToSet(waiting) = {}
  BY QueuesDef DEF Base, Places, Queues
<1>l. \A u \in Task : Linked(u) <=> u \in ToSet(ready) \cup ToSet(waiting)
  BY DEF Linked
<1>r. ToSet(ready) \subseteq Task
  BY <1>t, ElementsAt DEF ToSet
<1>1. CASE Switch(L)
  <2> DEFINE q == Requeued
  <2>1. /\ Outside /\ ~Idling /\ (\A M \in Level : M # L => at[M] \in {"off", "iret"})
        /\ ~(StillReady /\ Linked(running)) /\ (~StillReady => running \in ToSet(waiting))
        /\ q \in Seq(Task) /\ Queue(q)
        /\ ToSet(q) = ToSet(ready) \cup (IF StillReady THEN {running} ELSE {})
    BY <1>1, SwitchFacts
  <2>2. ~misused' /\ UNCHANGED <<waiting, sigsWaiting, sigsRecvd, taskDelay, progVars>>
    BY <1>1, <2>1 DEF Switch
  <2>3. \A u \in Task : pc[u] = "none" => ~Linked(u)
    BY <2>1, NobodyInside
  <2>4. \A u \in ToSet(q) : u \in Task /\ pc[u] # "none" /\ u \notin ToSet(waiting)
    BY <1>t, <1>q, <1>l, <1>r, <2>1, <2>3 DEF Places, Runnable
  <2>5. \A u \in Task : pc[u] # "none" => u \in ToSet(q) \cup ToSet(waiting)
    <3>1. \A u \in Task : Somewhere(u) /\ ~InTransit(u)
      BY <2>1, NobodyInside DEF Places
    <3>2. \A u \in Task : ~Unlinked(u)
      BY <2>1 DEF Unlinked, Idling, IdleAt
    <3> QED BY <1>l, <2>1, <3>1, <3>2 DEF Somewhere
  <2>6. CASE q = <<>>
    <3>1. /\ flags' = Stopped /\ at' = [at EXCEPT ![L] = "sti"] /\ ready' = ready
          /\ running' = running
      BY <1>1, <2>6 DEF Switch, Requeued
    <3>2. ToSet(q) = {}
      BY <2>6 DEF ToSet
    <3> HIDE DEF q
    <3>3. \A u \in Task : Same(u)
      BY <1>t, <2>2, <3>1 DEF Same, progVars, Stopped
    <3>4. \A u \in Task : ~Moved(u)
      BY <2>1, NobodyInside
    <3>5. \A u \in Task : Staged(u)'
      BY <3>3, <3>4, SameStaged DEF Places, Awoken
    <3>6. pc' = pc /\ target' = target /\ waiting' = waiting
      BY <2>2 DEF progVars
    <3>7. \A u \in Task : Signalling(u)'
      BY <2>1, <3>6, SectionLabels DEF Signalling, Outside
    <3>8. \A u \in Task : Somewhere(u)'
      BY <2>5, <3>2, <3>6 DEF Somewhere, Linked
    <3>9. Idling' /\ \A M \in Level : at'[M] \notin {"picked", "unlinked"}
      BY <1>t, <2>1, <3>1 DEF Idling, IdleAt
    <3>10. Runnable' /\ SwitchDue' /\ DestroysTask'
      BY <3>1, <3>6, <3>9 DEF Runnable, PickedFits, SwitchDue, Places, DestroysTask
    <3> QED BY <2>2, <3>5, <3>7, <3>8, <3>10 DEF Places
  <2>7. CASE q # <<>>
    <3> DEFINE n == q[1]
    <3>1. /\ flags' = [Stopped EXCEPT ![n] = @ \cup {"TS_RUN"}]
          /\ ready' = Without(q, n) /\ running' = n /\ at' = [at EXCEPT ![L] = "off"]
      BY <1>1, <2>7 DEF Switch, Requeued, Dispatch
    <3>2. n \in ToSet(q)
      <4>1. Len(q) \in Nat /\ Len(q) # 0
        BY <2>1, <2>7, EmptySeq, LenProperties
      <4> QED BY <4>1 DEF ToSet
    <3> HIDE DEF q, n
    <3>3. \A u \in Task : "TS_READY" \in flags'[u] <=> "TS_READY" \in flags[u]
      BY <1>t, <2>4, <3>1, <3>2 DEF Stopped
    <3>4. \A M \in Level : at'[M] \notin IdleAt
      BY <1>t, <2>1, <3>1 DEF IdleAt
    <3> QED BY <2>1, <2>2, <2>4, <2>5, <3>1, <3>2, <3>3, <3>4, DispatchKeepsPlaces
  <2> QED BY <2>6, <2>7
<1>2. CASE IdleRemove(L)
  <2>1. /\ ready' = Without(ready, picked) /\ running' = running /\ picked' = picked
        /\ at' = [at EXCEPT ![L] = "unlinked"] /\ misused' = (picked \notin ToSet(ready))
        /\ UNCHANGED <<waiting, sigsWaiting, sigsRecvd, taskDelay, progVars, flags>>
        /\ at[L] = "picked" /\ Top = L
    BY <1>2 DEF IdleRemove, taskVars
  <2>2. /\ Outside /\ Idling /\ (\A M \in Level : M # L => at[M] = "off")
        /\ picked \in ToSet(ready) /\ picked \in Task /\ ~misused'
    BY <2>1, IdleFacts
  <2>3. ToSet(ready') = ToSet(ready) \ {picked}
    BY <1>t, <1>q, <2>1, <2>2, QueueOperations
  <2>4. \A u \in Task : Somewhere(u) /\ ~InTransit(u) /\ (pc[u] = "none" => ~Linked(u))
    BY <2>2, NobodyInside DEF Places
  <2>5. Idling' /\ Unlinked(picked)' /\ pc' = pc /\ waiting' = waiting
        /\ \A M \in Level : at'[M] # "picked"
    BY <1>t, <2>1, <2>2 DEF Idling, IdleAt, Unlinked, progVars
  <2>6. \A u \in Task : ~Unlinked(u)
    BY <2>1, <2>2 DEF Unlinked
  <2>7. \A u \in Task : Somewhere(u)'
    BY <1>l, <2>1, <2>2, <2>3, <2>4, <2>5, <2>6 DEF Somewhere, Linked
  <2>8. Runnable'
    <3>0. Linked(picked) /\ picked \notin ToSet(waiting)
      BY <1>q, <2>2 DEF Linked
    <3>2. pc[picked] # "none"
      BY <2>2, <2>4, <3>0
    <3>3. picked \notin ToSet(ready') \cup ToSet(waiting')
      BY <2>3, <2>5, <3>0
    <3>1. pc[picked] # "none" /\ ~Linked(picked)'
      BY <2>1, <3>2, <3>3 DEF Linked
    <3> QED BY <2>1, <2>5, <3>1 DEF Runnable, PickedFits, Places
  <2>9. SwitchDue'
    BY <2>5 DEF SwitchDue
  <2>10. \A u \in Task : pc[u] = "none" => u \notin ToSet(ready')
    BY <1>l, <2>3, <2>4
  <2> QED BY <2>1, <2>2, <2>7, <2>8, <2>9, <2>10, OutsideKeepsPlaces
<1>3. CASE IdleRun(L)
  <2>1. /\ ready' = ready /\ running' = picked /\ misused' = misused
        /\ UNCHANGED <<waiting, sigsWaiting, sigsRecvd, taskDelay, progVars>>
        /\ flags' = [flags EXCEPT ![picked] = @ \cup {"TS_RUN"}]
        /\ at[L] = "unlinked" /\ Top = L
        /\ at' = IF L = "sys" THEN [at EXCEPT ![L] = "off", !["resume"] = "count"]
                 ELSE [at EXCEPT ![L] = "eoi"]
    BY <1>3 DEF IdleRun, lists, ghosts
  <2>2. /\ Outside /\ Idling /\ (\A M \in Level : M # L => at[M] = "off")
        /\ picked \in Task /\ pc[picked] # "none" /\ ~Linked(picked) /\ ~misused'
    BY <2>1, IdleFacts DEF Places
  <2>3. (\A M \in Level : at'[M] \notin IdleAt) /\ ~Idling'
    BY <1>t, <2>1, <2>2 DEF IdleAt, Idling
  <2>4. \A u \in Task : Somewhere(u) /\ ~InTransit(u) /\ (pc[u] = "none" => ~Linked(u))
    BY <2>2, NobodyInside DEF Places
  <2>5. pc' = pc /\ waiting' = waiting
    BY <2>1 DEF progVars
  <2>6. \A u \in Task : Somewhere(u)'
    BY <1>l, <2>1, <2>2, <2>3, <2>4, <2>5 DEF Somewhere, Linked, Unlinked
  <2>7. Runnable' /\ SwitchDue'
    BY <1>l, <2>1, <2>2, <2>3, <2>5 DEF Runnable, PickedFits, SwitchDue, IdleAt
  <2>8. \A u \in Task : "TS_READY" \in flags'[u] <=> "TS_READY" \in flags[u]
    BY <1>t, <2>1, <2>2
  <2>9. \A u \in Task : pc[u] = "none" => u \notin ToSet(ready')
    BY <1>l, <2>1, <2>4
  <2> QED BY <2>1, <2>2, <2>6, <2>7, <2>8, <2>9, OutsideKeepsPlaces
<1> QED BY <1>1, <1>2, <1>3

\* What has made the scheduler unsound does not go away.
LEMMA SoundBefore == Core /\ [Next]_vars => (Sound' => Sound)
<1> SUFFICES ASSUME Core, [Next]_vars, Sound' PROVE Sound
  OBVIOUS
<1>1. Counted
  BY CountedBefore DEF Sound, Counted
<1>2. ~raced' /\ ~hit' /\ ~stranded'
  BY DEF Sound
<1>3. CASE UNCHANGED vars
  BY <1>1, <1>2, <1>3 DEF Sound, Counted, vars, ghosts
<1>4. ASSUME NEW t \in Task,
             \/ \E d \in Delays : Delay(t, d)
             \/ StartCall(t) \/ TaskStep(t)
      PROVE  Sound
  <2>1. Intact /\ hit' = hit
    BY <1>4, TaskFrame DEF Runs
  <2> QED BY <1>1, <1>2, <2>1 DEF Sound, Counted, Intact
<1>5. CASE \/ \E t \in Task : SystemCall(t)
           \/ TimerInterrupt \/ KeyboardInterrupt \/ KernelStep
  <2>1. Intact /\ (UNCHANGED hit \/ \E t, s : Readies(t, s))
    BY <1>5 DEF SystemCall, Runs, TimerInterrupt, KeyboardInterrupt, KernelStep, _yield,
         TimerVisit, TimerDone, KeyRelease, KeyPress, KeySend, KeyYield, Leave, Switch, IdleHalt,
         IdlePick, IdleRemove, IdleRun, IdleEOI, ResumeCount, ResumeReturn, ghosts
  <2>2. ASSUME NEW t, NEW s, Readies(t, s) PROVE ~hit
    <3>1. hit' = (hit \/ (t = running /\ "TS_RUN" \in flags[t]))
      BY <2>2 DEF Readies
    <3> QED BY <1>2, <3>1, Zenon
  <2>3. ~hit
    BY <1>2, <2>1, <2>2
  <2> QED BY <1>1, <2>1, <2>3 DEF Sound, Counted, Intact
<1> QED BY <1>3, <1>4, <1>5 DEF Next

(* Every step keeps the tasks in place.                                    *)
LEMMA NextPlaces ==
    ASSUME OneDestroyer, Base, Base', Sound, Sound', Places, [Next]_vars
    PROVE  Places'
<1>1. CASE UNCHANGED vars
  <2>1. UNCHANGED <<progVars, running, lists, flags, sigsWaiting, sigsRecvd, taskDelay, at,
                    misused, needSchedule, picked>>
    BY <1>1 DEF vars, progVars, lists, taskVars, ghosts
  <2>2. (\A u \in Task : Same(u)) /\ (Idling' <=> Idling) /\ ~misused'
    BY <2>1 DEF Same, progVars, lists, Idling, Places
  <2>3. SwitchDue'
    BY <2>1 DEF Places, SwitchDue, progVars, lists, Idling
  <2>4. SamePick
    BY <2>1 DEF SamePick
  <2> QED BY <2>1, <2>2, <2>3, <2>4, SamePickPlaces
<1>2. ASSUME NEW t \in Task,
             \/ \E d \in Delays : Delay(t, d)
             \/ StartCall(t) \/ SystemCall(t) \/ TaskStep(t)
      PROVE  Places'
  BY <1>2, MovesKeepPlaces, WaitKeepsPlaces, EnqueueKeepsPlaces, SignalKeepsPlaces,
     UnlinkKeepsPlaces, LinkKeepsPlaces DEF TaskStep
<1>3. CASE TimerInterrupt \/ KeyboardInterrupt
  BY <1>3, QuietKeepsPlaces
<1>4. CASE KernelStep
  BY <1>4, QuietKeepsPlaces, WakersKeepPlaces, SwitchKeepsPlaces DEF KernelStep
<1> QED BY <1>1, <1>2, <1>3, <1>4 DEF Next

\* At the start the boot task runs and the created ones are ready.
LEMMA InitPlaces == Init => Places
<1> SUFFICES ASSUME Init PROVE Places
  OBVIOUS
<1>1. ToSet(Created) \subseteq Task /\ Boot \in Task /\ Boot \notin ToSet(Created)
  BY SchedAssumption, ElementsAt DEF ToSet
<1>2. ToSet(ready) = ToSet(Created) /\ ToSet(waiting) = {} /\ running = Boot
  BY DEF Init, ToSet
<1>3. \A t \in Task : pc[t] = IF t \in ToSet(Created) \cup {Boot} THEN "user" ELSE "none"
  BY DEF Init
<1>4. \A t \in Task : t \in ToSet(Created) \cup {Boot} => "TS_READY" \in flags[t]
  BY DEF Init, Flags
<1>5. \A t \in Task : sigsWaiting[t] = {}
  BY DEF Init
<1>6. ~Idling /\ ~misused /\ \A L \in Level : at[L] = "off"
  BY DEF Init, Idling, IdleAt
<1>7. ASSUME NEW t \in Task PROVE Staged(t) /\ Signalling(t) /\ Somewhere(t)
  <2>1. Staged(t)
    BY <1>1, <1>2, <1>3, <1>4, <1>5 DEF Staged, Blocking, IsReady, Linked
  <2>2. Signalling(t)
    BY <1>3 DEF Signalling
  <2>3. Somewhere(t)
    BY <1>2, <1>3, <1>6 DEF Somewhere, Linked
  <2> QED BY <2>1, <2>2, <2>3
<1>8. Runnable /\ SwitchDue /\ DestroysTask
  BY <1>1, <1>2, <1>3, <1>6 DEF Runnable, PickedFits, SwitchDue, DestroysTask
<1> QED BY <1>6, <1>7, <1>8 DEF Places

(* While the scheduler is Sound every task is where its statement and its  *)
(* flags say, if at most one task destroys others.                         *)
LEMMA PlacesInvariant == OneDestroyer => (Spec => [](Sound => Places))
<1> SUFFICES ASSUME OneDestroyer PROVE Spec => [](Sound => Places)
  OBVIOUS
<1>1. Init => (Sound => Places)
  BY InitPlaces
<1>2. Base /\ Base' /\ (Sound => Places) /\ [Next]_vars => (Sound => Places)'
  BY SoundBefore, NextPlaces DEF Base
<1> QED BY <1>1, <1>2, BaseInvariant, PTL DEF Spec

(* No interruption of wait() or signal(), at any statement, loses a task   *)
(* or leaves it in the wrong list for its flags (task.c:119-151): until an *)
(* interrupt breaks a section (Sound), for any tasks and priorities, if at *)
(* most one task calls destroy_task().                                     *)
THEOREM SchedTasksInPlace == OneDestroyer => (Spec => []TasksInPlace)
<1>1. ASSUME Base, Sound, Places, NEW t \in Task, pc[t] # "none"
      PROVE  Linked(t) \/ InTransit(t) \/ t = picked \/ (t = running /\ "TS_RUN" \in flags[t])
  BY <1>1 DEF Base, RunFlag, Places, Somewhere, Unlinked
<1>2. ASSUME Base, Sound, Places, NEW t \in ToSet(ready)
      PROVE  flags[t] = {"TS_READY"} /\ sigsWaiting[t] = {}
  <2>1. t \in Task /\ t \notin ToSet(waiting)
    <3>1. ready \in Seq(Task)
      BY <1>2 DEF Base, Core, TypeOK
    <3>2. ToSet(ready) \cap ToSet(waiting) = {}
      BY <1>2, QueuesDef DEF Base, Places, Queues
    <3> QED BY <3>1, <3>2, ElementsAt
  <2>2. Staged(t) /\ Linked(t)
    BY <1>2, <2>1 DEF Places, Linked
  <2>3. IsReady(t) /\ sigsWaiting[t] = {}
    BY <2>1, <2>2 DEF Staged, Asleep, Awoken, Blocking
  <2>4. "TS_RUN" \notin flags[t]
    BY <1>2, <2>1 DEF Base, RunFlag, Places, Runnable
  <2>5. flags[t] \subseteq Flags
    BY <1>2, <2>1 DEF Base, Core, TypeOK
  <2> QED BY <2>3, <2>4, <2>5 DEF IsReady, Flags
<1>3. ASSUME Base, Sound, Places, NEW t \in ToSet(waiting)
      PROVE  "TS_READY" \in flags[t] <=> \E u \in Task : target[u] = t /\ pc[u] = "s_remove"
  <2>1. t \in Task
    <3>1. waiting \in Seq(Task)
      BY <1>3 DEF Base, Core, TypeOK
    <3> QED BY <3>1, ElementsAt
  <2>2. Staged(t) /\ Linked(t) /\ t \in ToSet(waiting)
    BY <1>3, <2>1 DEF Places, Linked
  <2>3. Asleep(t) \/ Awoken(t)
    BY <2>2 DEF Staged, Blocking
  <2>4. CASE Asleep(t)
    <3>1. ~Moved(t)
      <4>1. ~Awoken(t)
        BY <2>4 DEF Asleep, Awoken, Waits
      <4> QED BY <1>3, <4>1 DEF Moved, Places, Signalling
    <3> QED BY <2>4, <3>1 DEF Asleep, IsReady, Moved
  <2>5. CASE Awoken(t)
    BY <2>2, <2>5 DEF Awoken, IsReady, Moved
  <2> QED BY <2>3, <2>4, <2>5
<1>4. Base /\ (Sound => Places) => TasksInPlace
  BY <1>1, <1>2, <1>3 DEF TasksInPlace, NoTaskLost, FlagsAgree
<1> QED BY <1>4, PlacesInvariant, BaseInvariant, PTL

(* enqueue() never gets a linked task and remove() never an unlinked one,  *)
(* unless an interrupt has broken a section before (task.c:74, 111, 128,   *)
(* 143-144).  With two tasks that destroy it is false: the second          *)
(* destroy_task() removes a node that is in no list any more.              *)
THEOREM SchedMisuseOnlyIfUnsound == OneDestroyer => (Spec => []MisuseOnlyIfUnsound)
<1>1. (Sound => Places) => MisuseOnlyIfUnsound
  BY DEF Places, MisuseOnlyIfUnsound
<1> QED BY <1>1, PlacesInvariant, PTL

(* wait() returns only to a task that has been signalled what it waits for *)
(* and delay() not before its last tick (task.c:119-134, 163-168).         *)
THEOREM SchedWaitReturnsSignalled == OneDestroyer => (Spec => []WaitReturnsSignalled)
<1>1. ASSUME Base, Sound, Places, NEW t \in Task, Runs(t), pc[t] = "w_ret"
      PROVE  sigsRecvd[t] = {Awaited(t)} /\ (call[t] = "delay" => taskDelay[t] = 0)
  <2>1. t \notin ToSet(waiting)
    BY <1>1, TaskContext
  <2> QED BY <1>1, <2>1 DEF Places, Staged, Asleep, Awoken
<1>2. Base /\ (Sound => Places) => WaitReturnsSignalled
  BY <1>1 DEF WaitReturnsSignalled
<1> QED BY <1>2, PlacesInvariant, BaseInvariant, PTL

-----------------------------------------------------------------------------
(* Proofs about preemption.                                                *)

(* A step of a task readies a signalled task only on its way to the test   *)
(* that yields to it (task.c:143-147).                                     *)
LEMMA TaskPreempts ==
    ASSUME Base, Sound, Places, Preempts, NEW t \in Task, Runs(t),
           UNCHANGED <<running, needSchedule>>,
           \A L \in Level : at'[L] \in {"off", "entry", "exit"},
           \A u \in ToSet(ready') : sigsRecvd'[u] # {} =>
              \/ Yielding(u)'
              \/ u \in ToSet(ready) /\ sigsRecvd[u] # {}
                 /\ (Yielding(u) => pri[u] <= pri[t] \/ Yielding(u)')
    PROVE  Preempts'
<1>1. running = t /\ running' = t /\ ~Idling /\ ~Idling'
  BY TaskContext DEF Idling, IdleAt
<1> QED BY <1>1 DEF Preempts

(* wait() and the calls ready nobody; signal() readies its target before   *)
(* it compares the priorities and yields (task.c:143-147).                 *)
LEMMA TaskKeepsPreempts ==
    ASSUME Base, Sound, Places, Preempts, NEW t \in Task,
           \/ \E d \in Delays : Delay(t, d)
           \/ StartCall(t) \/ SystemCall(t) \/ TaskStep(t)
    PROVE  Preempts'
<1>t. /\ ready \in Seq(Task) /\ pc \in [Task -> PC] /\ target \in [Task -> Task \cup {NoTask}]
      /\ sigsRecvd \in [Task -> SUBSET Signals]
      /\ pri \in [Task -> Int] /\ at \in [Level -> Label]
  BY SchedAssumption DEF Base, Core, TypeOK
<1>1. Runs(t)
  BY DEF Delay, StartCall, Start, SystemCall, TaskStep, forbid, permit, WaitStore, WaitLock,
         WaitEnqueue, WaitReturn, Receive, SignalTest, SignalStore, Unlink, Link, SignalCompare
<1>2. running = t /\ ~Idling /\ \A L \in Level : at[L] = "off"
  BY <1>1, TaskContext
<1>3. UNCHANGED <<running, needSchedule>>
  BY DEF Delay, StartCall, Start, SystemCall, TaskStep, forbid, permit, WaitStore, WaitLock,
         WaitEnqueue, WaitReturn, Receive, SignalTest, SignalStore, Unlink, Link, SignalCompare,
         tasks, counters
<1>4. \A L \in Level : at'[L] \in {"off", "entry", "exit"}
  <2>1. CASE SystemCall(t)
    BY <1>2, <2>1 DEF SystemCall, Interrupted
  <2>2. CASE ~SystemCall(t)
    BY <1>2, <2>2, TaskFrame
  <2> QED BY <2>1, <2>2
<1>5. \A u : Yielding(u) <=>
         (pc[t] \in {"s_permit", "s_cmp"} /\ target[t] = u) \/ pc[t] = "s_yield"
  BY <1>2 DEF Yielding, Level
\* Steps that ready and signal nobody, outside the end of signal().
<1>6. ASSUME pc[t] \notin {"s_permit", "s_cmp", "s_yield"},
             ToSet(ready') \subseteq ToSet(ready),
             \A u \in Task : sigsRecvd'[u] \in {sigsRecvd[u], {}}
      PROVE  Preempts'
  <2>1. ToSet(ready) \subseteq Task
    BY <1>t, ElementsAt
  <2> QED BY <1>1, <1>3, <1>4, <1>5, <1>6, <2>1, TaskPreempts
<1>7. CASE (\E d \in Delays : Delay(t, d)) \/ StartCall(t) \/ forbid(t) \/ WaitStore(t)
           \/ WaitLock(t) \/ WaitEnqueue(t) \/ WaitReturn(t) \/ Receive(t) \/ SignalTest(t)
  <2>1. pc[t] \notin {"s_permit", "s_cmp", "s_yield"}
    BY <1>7 DEF Delay, StartCall, Start, forbid, WaitStore, WaitLock, WaitEnqueue, WaitReturn,
                Receive, SignalTest, After_forbid
  <2>2. ready' = ready /\ (sigsRecvd' = sigsRecvd \/ sigsRecvd' = [sigsRecvd EXCEPT ![t] = {}])
    BY <1>7 DEF Delay, StartCall, Start, forbid, WaitStore, WaitLock, WaitEnqueue, WaitReturn,
                Receive, SignalTest, lists, taskVars
  <2> QED BY <1>t, <1>6, <2>1, <2>2
<1>8. CASE Unlink(t)
  <2>1. /\ pc[t] \in {"s_remove", "d_remove"} /\ sigsRecvd' = sigsRecvd
        /\ ready' = Without(ready, target[t])
    BY <1>8 DEF Unlink
  <2>2. target[t] \in Task
    BY <2>1 DEF Base, Core, TargetOK, UsesTarget
  <2>3. Queue(ready) /\ ready \in Seq(Task)
    BY QueuesDef DEF Base, Core, TypeOK, Places, Queues
  <2>4. ToSet(ready') = ToSet(ready) \ {target[t]}
    BY <2>1, <2>2, <2>3, QueueOperations
  <2> QED BY <1>6, <2>1, <2>4
<1>9. CASE SignalStore(t)
  <2> DEFINE w == target[t]
  <2>1. /\ pc[t] = "s_set" /\ ready' = ready
        /\ sigsRecvd' = [sigsRecvd EXCEPT ![w] = @ \cup {"TB_QUEUE"}]
    BY <1>9 DEF SignalStore, Signalled, lists
  <2>2. w \in Task
    BY <2>1 DEF Base, Core, TargetOK, UsesTarget
  <2>3. pc[w] \in {"w_yield", "w_ret"} /\ (Asleep(w) \/ Awoken(w))
    BY <2>1, <2>2 DEF Places, Signalling, Staged
  <2>4. w \in ToSet(ready) => sigsRecvd[w] # {}
    <3>1. ToSet(ready) \cap ToSet(waiting) = {}
      BY QueuesDef DEF Base, Places, Queues
    <3> QED BY <2>3, <3>1 DEF Asleep, Awoken
  <2> HIDE DEF w
  <2>5. ToSet(ready) \subseteq Task
    BY <1>t, ElementsAt
  <2> QED BY <1>t, <1>1, <1>3, <1>4, <1>5, <2>1, <2>2, <2>4, <2>5, TaskPreempts
<1>10. CASE Link(t)
  <2> DEFINE w == target[t]
  <2>1. pc[t] \in {"s_enq", "c_enq"} /\ ready' = Insert(ready, w) /\ target' = target
    BY <1>10 DEF Link
  <2>2. w \in Task \ {t}
    BY <2>1 DEF Base, Core, TargetOK, UsesTarget
  <2>3. Queue(ready) /\ ready \in Seq(Task)
    BY QueuesDef DEF Base, Core, TypeOK, Places, Queues
  <2>4. w \notin ToSet(ready)
    <3>1. CASE pc[t] = "s_enq"
      BY <3>1 DEF Places, Signalling, Linked
    <3>2. CASE pc[t] = "c_enq"
      <4>1. pc[w] = "none"
        BY <3>2 DEF Base, LockInv, CreatesFresh, Creates
      <4> QED BY <2>2, <4>1 DEF Places, Staged, Linked
    <3> QED BY <2>1, <3>1, <3>2
  <2>5. ToSet(ready') = ToSet(ready) \cup {w}
    BY <2>1, <2>2, <2>3, <2>4, QueueOperations
  <2>6. ToSet(ready) \subseteq Task
    BY <2>3, ElementsAt
  <2>7. CASE pc[t] = "s_enq"
    <3>1. pc'[t] = "s_permit" /\ sigsRecvd' = sigsRecvd /\ target'[t] = w /\ running' = t
      BY <1>t, <1>2, <1>3, <1>10, <2>1, <2>7 DEF Link, Goto, taskVars
    <3>2. \A u : u = w => Yielding(u)'
      BY <3>1 DEF Yielding
    <3> HIDE DEF w
    <3> QED BY <1>1, <1>3, <1>4, <1>5, <2>5, <2>7, <3>1, <3>2, TaskPreempts
  <2>8. CASE pc[t] = "c_enq"
    <3>1. sigsRecvd' = [sigsRecvd EXCEPT ![w] = {}]
      BY <1>10, <2>8 DEF Link
    <3> HIDE DEF w
    <3>2. sigsRecvd'[w] = {} /\ \A u \in Task : sigsRecvd'[u] \in {sigsRecvd[u], {}}
      BY <1>t, <2>2, <3>1
    <3> QED BY <1>1, <1>3, <1>4, <1>5, <2>5, <2>6, <2>8, <3>2, TaskPreempts
  <2> QED BY <2>1, <2>7, <2>8
<1>11. CASE permit(t)
  <2>1. /\ pc[t] \in DOMAIN After_permit /\ pc' = [pc EXCEPT ![t] = After_permit[pc[t]]]
        /\ ready' = ready /\ sigsRecvd' = sigsRecvd
    BY <1>11 DEF permit, Continue, Goto, lists, taskVars
  <2>2. CASE pc[t] = "s_permit"
    <3>1. pc'[t] = "s_cmp" /\ target' = target /\ running' = t
      BY <1>t, <1>2, <1>3, <1>11, <2>1, <2>2 DEF permit, Continue, After_permit
    <3>2. \A u : Yielding(u) => Yielding(u)'
      BY <1>5, <2>2, <3>1 DEF Yielding
    <3> QED BY <1>1, <1>3, <1>4, <2>1, <3>2, TaskPreempts
  <2>3. CASE pc[t] # "s_permit"
    <3>1. pc[t] \notin {"s_permit", "s_cmp", "s_yield"}
      BY <2>1, <2>3 DEF After_permit
    <3> QED BY <1>6, <2>1, <3>1
  <2> QED BY <2>2, <2>3
<1>12. CASE SignalCompare(t)
  <2>1. /\ pc[t] = "s_cmp" /\ ready' = ready /\ sigsRecvd' = sigsRecvd
        /\ pc' = [pc EXCEPT ![t] = IF Outranked(target[t]) THEN "s_yield" ELSE "p_permit"]
    BY <1>12 DEF SignalCompare, Goto, lists, taskVars
  <2>2. target[t] \in Task
    BY <2>1 DEF Base, Core, TargetOK, UsesTarget
  <2>3. CASE Outranked(target[t])
    <3>1. pc'[running'] = "s_yield"
      BY <1>t, <1>2, <1>3, <2>1, <2>3
    <3>2. \A u : Yielding(u)'
      BY <3>1 DEF Yielding
    <3> QED BY <1>1, <1>3, <1>4, <3>2, TaskPreempts
  <2>4. CASE ~Outranked(target[t])
    <3>1. \A u : Yielding(u) => pri[u] <= pri[t]
      BY <1>t, <1>2, <1>5, <2>1, <2>2, <2>4 DEF Outranked
    <3> QED BY <1>1, <1>3, <1>4, <2>1, <3>1, TaskPreempts
  <2> QED BY <2>3, <2>4
<1>13. CASE SystemCall(t)
  <2>1. /\ ready' = ready /\ sigsRecvd' = sigsRecvd
        /\ pc[t] = "user" \/ at' = Interrupted("sys", "entry")
    BY <1>13 DEF SystemCall, tasks, lists, taskVars
  <2>2. CASE pc[t] = "user"
    BY <1>6, <2>1, <2>2
  <2>3. CASE at' = Interrupted("sys", "entry")
    <3>1. \A u : Yielding(u)'
      BY <2>3 DEF Yielding, Interrupted, Level
    <3> QED BY <1>1, <1>3, <1>4, <3>1, TaskPreempts
  <2> QED BY <2>1, <2>2, <2>3
<1> QED BY <1>7, <1>8, <1>9, <1>10, <1>11, <1>12, <1>13 DEF TaskStep

\* A kernel step that changes neither who is ready nor who makes way.
LEMMA KeptPreempts ==
    ASSUME Preempts, UNCHANGED <<progVars, running>>, ready' = ready, sigsRecvd' = sigsRecvd,
           ~needSchedule' => ~needSchedule, Idling' <=> Idling,
           \A u \in Task : Unlinked(u)' => Unlinked(u),
           at'["irq0"] # "walk" => at["irq0"] # "walk",
           at["sys"] = "entry" => at'["sys"] = "entry",
           at["irq1"] = "yield" => at'["irq1"] = "yield"
    PROVE  Preempts'
<1>1. \A u : Yielding(u) => Yielding(u)'
  BY DEF Yielding, progVars
<1>2. running' = running
  OBVIOUS
<1> QED BY <1>1, <1>2 DEF Preempts

(* An interrupt that signals a task asks for a switch if that task         *)
(* outranks the running one; a switch takes the first of an ordered list   *)
(* (task.c:86, 146, timer.c:34).                                           *)
LEMMA KernelKeepsPreempts ==
    ASSUME Base, Base', Sound, Sound', Places, Preempts,
           TimerInterrupt \/ KeyboardInterrupt \/ KernelStep
    PROVE  Preempts'
<1>t. /\ ready \in Seq(Task) /\ at \in [Level -> Label] /\ pri \in [Task -> Int]
      /\ running \in Task /\ needSchedule \in BOOLEAN /\ Owner \in Task
  BY SchedAssumption DEF Base, Core, TypeOK
<1>r. ToSet(ready) \subseteq Task
  BY <1>t, ElementsAt
\* A signalled task t joins the ready list.
<1>w. ASSUME NEW t \in Task, NEW s \in sigsWaiting[t], Readies(t, s),
             UNCHANGED <<progVars, running>>, ~needSchedule' => ~needSchedule,
             Idling' <=> Idling, \A u \in Task : Unlinked(u)' => Unlinked(u),
             at["sys"] = "entry" => at'["sys"] = "entry", at["irq1"] # "yield",
             ~needSchedule' => ~Outranked(t) \/ at'["irq1"] = "yield",
             at'["irq0"] # "walk" => at["irq0"] # "walk" /\ t = Owner
      PROVE  Preempts'
  <2>1. ToSet(ready') = ToSet(ready) \cup {t} /\ sigsRecvd' = [sigsRecvd EXCEPT ![t] = {Awaited(t)}]
    BY <1>w, WakeFacts
  <2>2. \A u : Yielding(u) => Yielding(u)'
    BY <1>w DEF Yielding, progVars
  <2>3. running' = running /\ \A u \in Task \ {t} : sigsRecvd'[u] = sigsRecvd[u]
    BY <1>w, <2>1 DEF Base, Core, TypeOK
  <2>4. at'["irq1"] = "yield" => \A u : Yielding(u)'
    BY DEF Yielding
  <2>5. ~Outranked(t) => pri[t] <= pri[running]
    BY <1>t DEF Outranked
  <2> QED BY <1>w, <1>r, <2>1, <2>2, <2>3, <2>4, <2>5 DEF Preempts
<1>1. CASE TimerInterrupt \/ KeyboardInterrupt
  <2>1. /\ UNCHANGED <<progVars, running, ready, sigsRecvd, needSchedule, picked>>
        /\ \/ at' = Interrupted("irq0", "walk") /\ at["irq0"] = "off"
           \/ at' = Interrupted("irq1", "entry") /\ at["irq1"] = "off" /\ at["irq0"] = "off"
    BY <1>1 DEF TimerInterrupt, KeyboardInterrupt, tasks, lists, taskVars, counters
  <2>2. Idling' <=> Idling
    BY <1>t, <2>1 DEF Interrupted, Idling, IdleAt, Level
  <2>3. /\ at["sys"] = "entry" => at'["sys"] = "entry"
        /\ at["irq1"] = "yield" => at'["irq1"] = "yield"
        /\ at'["irq0"] # "walk" => at["irq0"] # "walk"
        /\ \A u \in Task : Unlinked(u)' => Unlinked(u)
    BY <1>t, <2>1 DEF Interrupted, Level, Unlinked
  <2> QED BY <2>1, <2>2, <2>3, KeptPreempts
<1>2. CASE _yield \/ TimerDone \/ KeyYield
  BY <1>2 DEF _yield, TimerDone, KeyYield, InterruptYields, Preempts
<1>3. CASE KeyRelease \/ KeyPress
  <2>1. /\ UNCHANGED <<progVars, running, ready, sigsRecvd, needSchedule, picked>>
        /\ at["irq1"] = "entry"
        /\ at' = [at EXCEPT !["irq1"] = "exit"] \/ at' = [at EXCEPT !["irq1"] = "alloc"]
    BY <1>3 DEF KeyRelease, KeyPress, tasks, lists, taskVars, counters
  <2>2. /\ (Idling' <=> Idling) /\ at'["irq0"] = at["irq0"] /\ at'["sys"] = at["sys"]
        /\ \A u \in Task : Unlinked(u)' => Unlinked(u)
    BY <1>t, <2>1 DEF Idling, IdleAt, Level, Unlinked
  <2> QED BY <2>1, <2>2, KeptPreempts
<1>4. CASE TimerVisit
  <2>1. UNCHANGED <<progVars, running, at, picked>> /\ (~needSchedule' => ~needSchedule)
        /\ at["irq0"] = "walk"
    BY <1>4 DEF TimerVisit, InterruptYields
  <2>2. (Idling' <=> Idling) /\ \A u \in Task : Unlinked(u)' => Unlinked(u)
    BY <2>1 DEF Idling, Unlinked
  <2>3. CASE ready' = ready /\ sigsRecvd' = sigsRecvd
    BY <2>1, <2>2, <2>3, KeptPreempts
  <2>4. CASE ~(ready' = ready /\ sigsRecvd' = sigsRecvd)
    <3>1. /\ cursor \in Task /\ "TB_DELAY" \in sigsWaiting[cursor] /\ Readies(cursor, "TB_DELAY")
          /\ ~needSchedule' => ~Outranked(cursor)
      BY <1>4, <2>4 DEF TimerVisit, InterruptYields, lists, Base, Core, TypeOK
    <3>2. CASE at["irq1"] # "yield"
      BY <1>w, <2>1, <2>2, <3>1, <3>2
    <3>3. CASE at["irq1"] = "yield"
      <4>1. \A u : Yielding(u)'
        BY <2>1, <3>3 DEF Yielding
      <4> QED BY <2>1, <4>1 DEF Preempts
    <3> QED BY <3>2, <3>3
  <2> QED BY <2>3, <2>4
<1>5. CASE KeySend
  <2>1. /\ UNCHANGED <<progVars, running, needSchedule, picked>> /\ at["irq1"] = "alloc" /\ Top = "irq1"
        /\ \E l \in {"exit", "yield"} : at' = [at EXCEPT !["irq1"] = l]
    BY <1>5 DEF KeySend
  <2>2. /\ (Idling' <=> Idling) /\ at'["irq0"] = at["irq0"] /\ at'["sys"] = at["sys"]
        /\ \A u \in Task : Unlinked(u)' => Unlinked(u)
    BY <1>t, <2>1 DEF Idling, IdleAt, Level, Unlinked
  <2>3. CASE ready' = ready /\ sigsRecvd' = sigsRecvd
    BY <2>1, <2>2, <2>3, KeptPreempts
  <2>4. CASE ~(ready' = ready /\ sigsRecvd' = sigsRecvd)
    <3>1. /\ "TB_QUEUE" \in sigsWaiting[Owner] /\ Readies(Owner, "TB_QUEUE")
          /\ Outranked(Owner) => at' = [at EXCEPT !["irq1"] = "yield"]
      BY <1>5, <2>4 DEF KeySend, lists
    <3>2. ~Outranked(Owner) \/ at'["irq1"] = "yield"
      BY <1>t, <3>1 DEF Level
    <3> QED BY <1>t, <1>w, <2>1, <2>2, <3>1, <3>2
  <2> QED BY <2>3, <2>4
<1>6. ASSUME NEW L \in Level, Leave(L) \/ IdleHalt(L) \/ IdlePick(L) PROVE Preempts'
  <2>1. /\ UNCHANGED <<progVars, running, ready, sigsRecvd, needSchedule>>
        /\ Top = L /\ ~stranded
        /\ \/ at[L] = "exit" /\ at' = [at EXCEPT ![L] = "off"] /\ picked' = picked
           \/ /\ at[L] \in {"sti", "woken"}
              /\ \E l \in {"sti", "hlt", "picked"} : at' = [at EXCEPT ![L] = l]
    BY <1>6 DEF Leave, IdleHalt, IdlePick, tasks, lists, taskVars, counters, Intact
  <2>2. (Idling' <=> Idling) /\ \A u \in Task : Unlinked(u)' => Unlinked(u)
    <3>1. CASE at[L] = "exit"
      BY <1>t, <2>1, <3>1 DEF Idling, IdleAt, Level, Unlinked
    <3>2. CASE at[L] # "exit"
      <4>1. \A M \in Level : M # L => at[M] = "off"
        BY <2>1, <3>2 DEF Base, Core, Levels, IdleOutermost, ResumeOK, IdleAt, Level, Top
      <4> QED BY <1>t, <2>1, <3>2, <4>1 DEF Idling, IdleAt, Level, Unlinked
    <3> QED BY <3>1, <3>2
  <2>3. /\ at["sys"] = "entry" => at'["sys"] = "entry"
        /\ at["irq1"] = "yield" => at'["irq1"] = "yield"
        /\ at["irq0"] # "walk"
    BY <1>t, <2>1 DEF IdleAt, Level, Top
  <2> QED BY <2>1, <2>2, <2>3, KeptPreempts
<1>7. ASSUME NEW L \in Level, Switch(L) PROVE Preempts'
  <2> DEFINE q == Requeued
  <2>1. q \in Seq(Task) /\ Queue(q)
    BY <1>7, SwitchFacts
  <2>2. CASE q = <<>>
    <3>1. at' = [at EXCEPT ![L] = "sti"] /\ ready' = ready
      BY <1>7, <2>2 DEF Switch, Requeued
    <3>2. Idling' /\ \A u \in Task : ~Unlinked(u)'
      <4>1. \A M \in Level : M # L => at[M] \in {"off", "iret"}
        BY <1>7, SwitchFacts
      <4> QED BY <1>t, <3>1, <4>1 DEF Idling, IdleAt, Unlinked
    <3>3. ToSet(ready') = {}
      <4>1. ~StillReady
        <5>1. StillReady => running \in ToSet(q)
          BY <1>7, SwitchFacts
        <5> QED BY <2>2, <5>1 DEF ToSet
      <4>2. ready = <<>>
        BY <2>2, <4>1 DEF Requeued
      <4> QED BY <3>1, <4>2 DEF ToSet
    <3> QED BY <3>2, <3>3 DEF Preempts
  <2>3. CASE q # <<>>
    <3>1. /\ ready' = Without(q, q[1]) /\ running' = q[1] /\ at' = [at EXCEPT ![L] = "off"]
      BY <1>7, <2>3 DEF Switch, Requeued, Dispatch
    <3>2. \A M \in Level : M # L => at[M] \in {"off", "iret"}
      BY <1>7, SwitchFacts
    <3>3. ~Idling'
      BY <1>t, <3>1, <3>2 DEF Idling, IdleAt
    <3> HIDE DEF q
    <3>4. Len(q) \in Nat /\ Len(q) # 0
      BY <2>1, <2>3, EmptySeq, LenProperties
    <3>5. q[1] \in Task /\ ToSet(q) \subseteq Task
      BY <2>1, <3>4, ElementsAt
    <3>6. ToSet(ready') \subseteq ToSet(q)
      BY <2>1, <3>1, <3>5, QueueOperations
    <3>7. \A u \in ToSet(q) : pri[u] <= pri[q[1]]
      <4>1. ASSUME NEW i \in 1..Len(q) PROVE pri[q[i]] <= pri[q[1]]
        <5>1. q[i] \in Task /\ 1 \in DOMAIN q /\ i \in DOMAIN q
          BY <2>1, <3>4, <4>1, ElementsAt
        <5>2. 1 < i => pri[q[1]] >= pri[q[i]]
          BY <2>1, <5>1 DEF Queue, ByPriority
        <5> QED BY <1>t, <3>5, <5>1, <5>2
      <4> QED BY <2>1, <4>1, ElementsAt
    <3> QED BY <3>1, <3>3, <3>6, <3>7 DEF Preempts
  <2> QED BY <2>2, <2>3
<1>8. ASSUME NEW L \in Level, IdleRemove(L) PROVE Preempts'
  <2>1. /\ at[L] = "picked" /\ Top = L /\ ready' = Without(ready, picked) /\ picked' = picked
        /\ at' = [at EXCEPT ![L] = "unlinked"] /\ needSchedule' = needSchedule
    BY <1>8 DEF IdleRemove, counters
  <2>2. Idling /\ (\A M \in Level : M # L => at[M] = "off") /\ picked \in ToSet(ready)
    BY <2>1, IdleFacts
  <2>3. at["irq0"] # "walk"
    BY <2>1, <2>2 DEF Level
  <2>4. Queue(ready)
    BY QueuesDef DEF Base, Places, Queues
  <2>5. ToSet(ready') = ToSet(ready) \ {picked}
    BY <1>t, <1>r, <2>1, <2>2, <2>4, QueueOperations
  <2>6. Idling' /\ \A u : Unlinked(u)' => u = picked
    BY <1>t, <2>1, <2>2 DEF Idling, IdleAt, Unlinked
  <2> QED BY <2>1, <2>2, <2>3, <2>5, <2>6 DEF Preempts
<1>9. ASSUME NEW L \in Level, IdleRun(L) PROVE Preempts'
  <2>1. /\ at[L] = "unlinked" /\ Top = L /\ ready' = ready /\ needSchedule' = needSchedule
        /\ at' = IF L = "sys" THEN [at EXCEPT ![L] = "off", !["resume"] = "count"]
                 ELSE [at EXCEPT ![L] = "eoi"]
    BY <1>9 DEF IdleRun, lists, counters
  <2>2. /\ Idling /\ (\A M \in Level : M # L => at[M] = "off") /\ picked \in Task
        /\ picked \notin ToSet(ready) /\ Unlinked(picked)
    BY <2>1, IdleFacts DEF Linked, Unlinked
  <2>3. at["irq0"] # "walk"
    BY <2>1, <2>2 DEF Level
  <2>4. ~Idling'
    BY <1>t, <2>1, <2>2 DEF Idling, IdleAt
  <2>5. ~needSchedule => ToSet(ready) = {}
    BY <2>2, <2>3 DEF Preempts
  <2> QED BY <2>1, <2>4, <2>5 DEF Preempts
<1>10. ASSUME NEW L \in Level, IdleEOI(L) PROVE Preempts'
  <2>1. /\ UNCHANGED <<progVars, running, ready, sigsRecvd, needSchedule, picked>>
        /\ at[L] = "eoi" /\ at' = [at EXCEPT ![L] = "off", !["resume"] = "count"]
    BY <1>10 DEF IdleEOI, tasks, lists, taskVars, counters
  <2>2. at["resume"] \in {"off", "count", "iret"}
    BY DEF Base, Core, Levels, ResumeOK
  <2>3. /\ (Idling' <=> Idling) /\ \A u \in Task : Unlinked(u)' => Unlinked(u)
        /\ at["sys"] = "entry" => at'["sys"] = "entry"
        /\ at["irq1"] = "yield" => at'["irq1"] = "yield"
        /\ at'["irq0"] # "walk" => at["irq0"] # "walk"
    BY <1>t, <2>1, <2>2 DEF Idling, IdleAt, Level, Unlinked
  <2> QED BY <2>1, <2>3, KeptPreempts
<1>11. CASE ResumeCount \/ ResumeReturn
  <2>1. /\ UNCHANGED <<progVars, running, ready, sigsRecvd, needSchedule, picked>>
        /\ at["resume"] \in {"count", "iret"}
        /\ \E l \in {"iret", "off"} : at' = [at EXCEPT !["resume"] = l]
    BY <1>11 DEF ResumeCount, ResumeReturn, tasks, lists, taskVars, counters
  <2>2. /\ (Idling' <=> Idling) /\ \A u \in Task : Unlinked(u)' => Unlinked(u)
        /\ at'["sys"] = at["sys"] /\ at'["irq1"] = at["irq1"] /\ at'["irq0"] = at["irq0"]
    BY <1>t, <2>1 DEF Idling, IdleAt, Level, Unlinked
  <2> QED BY <2>1, <2>2, KeptPreempts
<1> QED BY <1>1, <1>2, <1>3, <1>4, <1>5, <1>6, <1>7, <1>8, <1>9, <1>10, <1>11 DEF KernelStep

\* No woken task is left behind in any reachable state of a Sound scheduler.
LEMMA PreemptsInvariant == OneDestroyer => (Spec => [](Sound => Preempts))
<1> SUFFICES ASSUME OneDestroyer PROVE Spec => [](Sound => Preempts)
  OBVIOUS
<1>1. Init => (Sound => Preempts)
  <2> SUFFICES ASSUME Init PROVE Preempts
    OBVIOUS
  <2>1. \A u \in Task : sigsRecvd[u] = {}
    BY DEF Init
  <2>2. ~Idling
    BY DEF Init, Idling, IdleAt
  <2>3. ready \in Seq(Task)
    BY InitTypes DEF TypeOK
  <2>4. ToSet(ready) \subseteq Task
    BY <2>3, ElementsAt
  <2> QED BY <2>1, <2>2, <2>4 DEF Preempts
<1>2. Base /\ Base' /\ (Sound => Places) /\ (Sound => Preempts) /\ [Next]_vars
         => (Sound => Preempts)'
  <2> SUFFICES ASSUME Base, Base', Sound => Places, Sound => Preempts, [Next]_vars, Sound'
               PROVE  Preempts'
    OBVIOUS
  <2>1. Sound /\ Places /\ Preempts
    BY SoundBefore DEF Base
  <2>2. CASE UNCHANGED vars
    <3>1. UNCHANGED <<progVars, running, ready, sigsRecvd, needSchedule, at, picked>>
      BY <2>2 DEF vars, progVars, taskVars
    <3>2. (Idling' <=> Idling) /\ \A u \in Task : Unlinked(u)' => Unlinked(u)
      BY <3>1 DEF Idling, Unlinked
    <3> QED BY <2>1, <3>1, <3>2, KeptPreempts
  <2> QED BY <2>1, <2>2, TaskKeepsPreempts, KernelKeepsPreempts DEF Next
<1> QED BY <1>1, <1>2, BaseInvariant, PlacesInvariant, PTL DEF Spec

(* Between its statements that forbid, no task runs while a task of higher *)
(* priority that has been signalled is ready, without a switch being due   *)
(* (task.c:146-147, timer.c:34).                                           *)
THEOREM SchedNoMissedPreemption == OneDestroyer => (Spec => []NoMissedPreemption)
<1>1. ASSUME Base, Sound, Preempts, Top = "task", forbidCounter = 0, ~needSchedule,
             NEW t \in ToSet(ready), sigsRecvd[t] # {}
      PROVE  pri[t] <= pri[running]
  <2>1. \A L \in Level : at[L] = "off"
    BY <1>1 DEF Top, Level
  <2>2. ~Idling /\ at["sys"] = "off" /\ at["irq1"] = "off"
    BY <2>1 DEF Idling, IdleAt, Level
  <2>3. Held(running) = 0
    BY <1>1, <2>2 DEF Base, ForbidInv, CountIs, Sound, Counted
  <2>4. pc[running] \notin Sections
    BY <2>3 DEF Held, Sections
  <2>5. ~Yielding(t)
    BY <2>2, <2>4, SectionLabels DEF Yielding
  <2> QED BY <1>1, <2>2, <2>5 DEF Preempts
<1>2. Base /\ (Sound => Preempts) => NoMissedPreemption
  BY <1>1 DEF NoMissedPreemption
<1> QED BY <1>2, PreemptsInvariant, BaseInvariant, PTL
=============================================================================
