---------------------------- MODULE QueueProofs ----------------------------
(***************************************************************************)
(* Proofs about the message queues, for any number of clients, any         *)
(* priorities, queue lengths and keys.                                     *)
(*                                                                         *)
(* The argument has three layers.  Scheduled says what the lists of tasks  *)
(* must satisfy for a switch to mean something.  Sectioned says that who   *)
(* stands between test, list and count runs with multitasking disabled.    *)
(* Balanced is the relation of counts and lists, which holds because no    *)
(* two tasks are in a section; from it follows what a task may take.       *)
(***************************************************************************)
EXTENDS QueueProperties, PriorityOrderProofs, FiniteSetTheorems

Section == {"wait", "move", "count"}
Labels == Section \cup {"call", "woken", "next", "permit"}

\* Calls and places of the tasks.
Placed ==
    /\ pc \in [Task -> Labels]
    /\ doing \in [Task -> {"send", "recv", "request", "key", "reply"}]
    /\ doing[Console] \in {"request", "key", "reply"}
    /\ \A c \in Client : doing[c] \in {"send", "recv"}

\* The running task is in no list, and a task that waits is not ready.
Scheduled ==
    /\ running \in Task /\ idle \in BOOLEAN /\ ready \in Seq(Task)
    /\ sigs_waiting \in SUBSET Task /\ forbid_counter \in Nat
    /\ NoDuplicates(ready) /\ ToSet(ready) \cap sigs_waiting = {}
    /\ ~idle => running \notin ToSet(ready) \cup sigs_waiting

\* A task in a section runs with multitasking disabled, until a key or a tick takes the
\* processor from it.
Sectioned ==
    /\ SectionsExclude
    /\ ~breached => \A t \in Task : pc[t] \in Section => running = t /\ ~idle /\ forbid_counter > 0

\* The console has taken a request it has not answered.
Holding == doing[Console] \in {"key", "reply"} \/ pc[Console] \in {"count", "next", "permit"}

\* Messages, and the requests among them.
Supplied ==
    /\ load \in Workload
    /\ msg_list \in [Queues -> Seq(Messages)] /\ free_slots \in [Queues -> Int]
    /\ got \in [Queues -> Messages]
    /\ msg_list["iorq"] \in Seq(Client)
    /\ Holding => got["iorq"] \in Client

\* free_slots and the list agree, but for the task between the two.
Counts(t, q) == pc[t] = "count" /\ queue(t) = q
Used(q) == free_slots[q] + Len(msg_list[q])
Balanced ==
    /\ \A q \in Queues : (\A t \in Task : ~Counts(t, q)) => Used(q) = max_slots(q)
    /\ \A t \in Task : pc[t] = "count" =>
          Used(queue(t)) = IF Sending(t) THEN max_slots(queue(t)) + 1 ELSE max_slots(queue(t)) - 1
    /\ MoveIsPossible

Core == Placed /\ Scheduled /\ Sectioned /\ Supplied /\ Balanced

-----------------------------------------------------------------------------
(* The dispatcher and signal().                                            *)

(* The first of a list is not among the rest (task.c:107-113).             *)
LEMMA HeadApart ==
    ASSUME NEW T, NEW r \in Seq(T), NoDuplicates(r), r # <<>>
    PROVE  /\ Head(r) \in T /\ Head(r) \in ToSet(r) /\ Tail(r) \in Seq(T)
           /\ NoDuplicates(Tail(r)) /\ ToSet(Tail(r)) \subseteq ToSet(r)
           /\ Head(r) \notin ToSet(Tail(r))
<1>1. /\ Len(r) \in Nat /\ Len(r) > 0 /\ DOMAIN r = 1..Len(r) /\ Head(r) = r[1]
      /\ \A i \in 1..Len(r) : r[i] \in T
  BY EmptySeq, LenProperties
<1>2. /\ Tail(r) \in Seq(T) /\ Len(Tail(r)) = Len(r) - 1 /\ DOMAIN Tail(r) = 1..(Len(r) - 1)
      /\ \A i \in 1..(Len(r) - 1) : Tail(r)[i] = r[i + 1]
  BY <1>1, HeadTailProperties, LenProperties
<1>3. Head(r) \in T /\ Head(r) \in ToSet(r)
  BY <1>1 DEF ToSet
<1>4. NoDuplicates(Tail(r))
  BY <1>1, <1>2 DEF NoDuplicates
<1>5. ASSUME NEW x \in ToSet(Tail(r)) PROVE x \in ToSet(r) /\ x # Head(r)
  <2>1. PICK i \in 1..(Len(r) - 1) : x = r[i + 1]
    BY <1>2 DEF ToSet
  <2>2. i + 1 \in DOMAIN r /\ 1 \in DOMAIN r /\ i + 1 # 1
    BY <1>1
  <2> QED BY <1>1, <2>1, <2>2 DEF ToSet, NoDuplicates
<1> QED BY <1>2, <1>3, <1>4, <1>5

(* The dispatcher takes a task of the list out of it, or idles.            *)
LEMMA SwitchFacts ==
    ASSUME NEW r \in Seq(Task), NoDuplicates(r), running \in Task, Switch(r)
    PROVE  /\ running' \in Task /\ idle' \in BOOLEAN
           /\ ready' \in Seq(Task) /\ NoDuplicates(ready') /\ ToSet(ready') \subseteq ToSet(r)
           /\ ~idle' => running' \in ToSet(r) /\ running' \notin ToSet(ready')
<1>1. CASE r = <<>>
  BY <1>1 DEF Switch
<1>2. CASE r # <<>>
  <2>1. running' = Head(r) /\ ready' = Tail(r) /\ idle' = FALSE
    BY <1>2 DEF Switch
  <2> QED BY <1>2, <2>1, HeadApart
<1> QED BY <1>1, <1>2

(* A task that yields to another of no lower priority is not the first     *)
(* of the list (list.c:129-165).                                           *)
LEMMA HeadOfInsert ==
    ASSUME NEW s \in Seq(Task), NEW x \in Task, NEW r \in Task,
           pri[r] <= pri[x], r \notin ToSet(s), r # x
    PROVE  Insert(Insert(s, x), r) # <<>> /\ Head(Insert(Insert(s, x), r)) # r
<1> DEFINE w == Insert(s, x)
           q == Insert(w, r)
<1>1. pri \in [Task -> Int] /\ pri[x] \in Int /\ pri[r] \in Int
  BY QueueAssumption
<1>2. /\ w \in Seq(Task) /\ Len(w) = Len(s) + 1 /\ Inserted(s, w, x, Place(s, pri[x]))
      /\ Place(s, pri[x]) \in 1..(Len(s) + 1) /\ ToSet(w) = ToSet(s) \cup {x}
  BY <1>1, InsertFacts, InsertKeepsQueue
<1>3. \A j \in 1..(Place(s, pri[x]) - 1) : pri[s[j]] >= pri[x]
  BY <1>1, PlaceFacts
<1>4. Len(s) \in Nat /\ Len(w) \in Nat /\ Len(w) > 0
  BY <1>2, LenProperties
<1> HIDE DEF w
<1>5. w[1] \in ToSet(w) /\ w[1] \in Task
  <2>1. \A i \in 1..Len(w) : w[i] \in Task /\ w[i] \in ToSet(w)
    BY <1>2, ElementsAt
  <2> QED BY <1>4, <2>1
<1>6. pri[w[1]] >= pri[r] /\ pri[w[1]] \in Int
  <2> DEFINE k == Place(s, pri[x])
  <2>1. w[1] = IF 1 < k THEN s[1] ELSE IF 1 = k THEN x ELSE s[0]
    BY <1>2, <1>4 DEF Inserted
  <2>2. k \in Int /\ k >= 1 /\ (1 < k => pri[s[1]] >= pri[x])
    BY <1>2, <1>3, <1>4
  <2>3. pri[w[1]] >= pri[x]
    <3> HIDE DEF k
    <3>1. CASE 1 < k
      BY <2>1, <2>2, <3>1
    <3>2. CASE k = 1
      BY <1>1, <2>1, <3>2
    <3> QED BY <2>2, <3>1, <3>2
  <2>4. pri[w[1]] \in Int
    BY <1>1, <1>5
  <2> QED BY <1>1, <2>3, <2>4
<1>7. /\ Len(q) = Len(w) + 1 /\ q \in Seq(Task) /\ Inserted(w, q, r, Place(w, pri[r]))
      /\ Place(w, pri[r]) \in 1..(Len(w) + 1)
      /\ (Place(w, pri[r]) <= Len(w) => pri[w[Place(w, pri[r])]] < pri[r])
  BY <1>1, <1>2, InsertFacts, PlaceFacts
<1>8. Place(w, pri[r]) # 1
  BY <1>1, <1>4, <1>6, <1>7
<1>9. q[1] = w[1]
  BY <1>4, <1>7, <1>8 DEF Inserted
<1>10. q # <<>> /\ Head(q) = q[1]
  BY <1>4, <1>7, EmptySeq
<1>11. w[1] # r
  BY <1>2, <1>5
<1> QED BY <1>9, <1>10, <1>11 DEF w

(* signal() keeps the tasks scheduled, and if the running task loses the   *)
(* processor another one has it (task.c:135-149).                          *)
LEMMA SignalFacts ==
    ASSUME Scheduled, NEW x, Signal(x)
    PROVE  Scheduled' /\ (idle \/ running' # running \/ UNCHANGED <<running, idle, forbid_counter>>)
<1>1. CASE x \notin sigs_waiting
  BY <1>1 DEF Signal, sched, Scheduled
<1>2. CASE x \in sigs_waiting
  <2> DEFINE w == Insert(ready, x)
  <2>1. /\ pri \in [Task -> Int] /\ x \in Task /\ x \notin ToSet(ready)
        /\ ready \in Seq(Task) /\ running \in Task /\ forbid_counter' \in Nat
    BY <1>2, QueueAssumption DEF Scheduled, Signal
  <2>2. w \in Seq(Task) /\ NoDuplicates(w) /\ ToSet(w) = ToSet(ready) \cup {x}
    BY <2>1, InsertFacts, InsertKeepsQueue DEF Scheduled
  <2>3. sigs_waiting' = sigs_waiting \ {x} /\ sigs_waiting' \in SUBSET Task
    BY <1>2 DEF Signal, Scheduled
  <2>4. ToSet(w) \cap sigs_waiting' = {}
    BY <2>2, <2>3 DEF Scheduled
  <2>5. ASSUME idle, Switch(w) PROVE Scheduled' /\ idle
    <3> HIDE DEF w
    <3>1. /\ running' \in Task /\ idle' \in BOOLEAN
          /\ ready' \in Seq(Task) /\ NoDuplicates(ready') /\ ToSet(ready') \subseteq ToSet(w)
          /\ ~idle' => running' \in ToSet(w) /\ running' \notin ToSet(ready')
      BY <2>1, <2>2, <2>5, SwitchFacts
    <3> QED BY <2>1, <2>3, <2>4, <2>5, <3>1 DEF Scheduled
  <2>6. ASSUME ~idle, Outranks(x), Switch(Insert(w, running))
        PROVE  Scheduled' /\ running' # running
    <3> DEFINE q == Insert(w, running)
    <3>1. running \notin ToSet(w) /\ running # x /\ running \notin sigs_waiting /\ running \notin ToSet(ready)
      BY <1>2, <2>2, <2>6 DEF Scheduled
    <3>2. q # <<>> /\ Head(q) # running
      BY <2>1, <2>6, <3>1, HeadOfInsert DEF Outranks
    <3> HIDE DEF w
    <3>3. q \in Seq(Task) /\ NoDuplicates(q) /\ ToSet(q) = ToSet(w) \cup {running}
      <4>1. q \in Seq(Task)
        BY <2>1, <2>2, InsertFacts
      <4>2. w \in Seq(Task) /\ NoDuplicates(w) /\ running \notin ToSet(w)
        BY <2>2, <3>1
      <4> QED BY <2>1, <4>1, <4>2, InsertKeepsQueue
    <3> HIDE DEF q
    <3>4. /\ running' \in Task /\ idle' \in BOOLEAN
          /\ ready' \in Seq(Task) /\ NoDuplicates(ready') /\ ToSet(ready') \subseteq ToSet(q)
          /\ ~idle' => running' \in ToSet(q) /\ running' \notin ToSet(ready')
      BY <2>1, <2>6, <3>3, SwitchFacts DEF q
    <3>5. running' = Head(q)
      BY <2>6, <3>2 DEF Switch, q
    <3>6. ToSet(q) \cap sigs_waiting' = {}
      BY <2>3, <2>4, <3>1, <3>3
    <3> QED BY <2>1, <2>3, <3>2, <3>4, <3>5, <3>6 DEF Scheduled
  <2>7. ASSUME ~idle, ~Outranks(x), ready' = w, UNCHANGED <<running, idle>>
        PROVE  Scheduled' /\ UNCHANGED <<running, idle, forbid_counter>>
    <3>1. running \notin ToSet(w) /\ running \notin sigs_waiting'
      BY <1>2, <2>2, <2>3, <2>7 DEF Scheduled
    <3>2. forbid_counter' = forbid_counter
      BY <1>2, <2>7 DEF Signal
    <3> QED BY <2>1, <2>2, <2>3, <2>4, <2>7, <3>1, <3>2 DEF Scheduled
  <2> QED BY <1>2, <2>5, <2>6, <2>7 DEF Signal
<1> QED BY <1>1, <1>2

-----------------------------------------------------------------------------
(* The steps.                                                              *)

(* Every step leaves the tasks at places of their programs.                *)
LEMMA NextPlaced == Placed /\ [Next]_vars => Placed'
<1> SUFFICES ASSUME Placed, [Next]_vars PROVE Placed'
  OBVIOUS
<1>1. ASSUME NEW t \in Task, NEW l \in Labels, Goto(t, l), doing' = doing PROVE Placed'
  BY <1>1 DEF Placed, Goto
<1>2. ASSUME NEW t \in Task, Return(t) PROVE Placed'
  <2>1. doing' = [doing EXCEPT ![t] = Then(doing[t])] /\ pc' = [pc EXCEPT ![t] = "call"]
    BY <1>2 DEF Return, Goto
  <2>2. /\ t = Console => Then(doing[t]) \in {"request", "key", "reply"}
        /\ t \in Client => Then(doing[t]) \in {"send", "recv"}
    BY DEF Then, Placed
  <2>3. "call" \in Labels /\ Console \notin Client
    BY QueueAssumption DEF Labels
  <2> QED BY <2>1, <2>2, <2>3 DEF Placed, Task
<1>3. ASSUME UNCHANGED <<pc, doing>> PROVE Placed'
  BY <1>3 DEF Placed
<1>4. ASSUME NEW t \in Task, Call(t) PROVE Placed'
  BY <1>1, <1>2, <1>4 DEF Call, Labels, Section
<1>5. ASSUME NEW t \in Task, Wait(t) PROVE Placed'
  BY <1>1, <1>5 DEF Wait, Labels
<1>6. ASSUME NEW t \in Task, Woken(t) PROVE Placed'
  BY <1>1, <1>6 DEF Woken, Retry, Labels, Section
<1>7. ASSUME NEW t \in Task, Move(t) PROVE Placed'
  BY <1>1, <1>7 DEF Move, Labels, Section
<1>8. ASSUME NEW t \in Task, Count(t) PROVE Placed'
  BY <1>1, <1>8 DEF Count, Labels
<1>9. ASSUME NEW t \in Task, NextWaiter(t) PROVE Placed'
  BY <1>1, <1>3, <1>9 DEF NextWaiter, Labels
<1>10. ASSUME NEW t \in Task, Permit(t) PROVE Placed'
  BY <1>2, <1>10 DEF Permit
<1>11. ASSUME \/ TimeSlice \/ TimerTask \/ KeyDropped \/ UNCHANGED vars
              \/ \E k \in load.keys : KeyPress(k)
       PROVE  Placed'
  BY <1>3, <1>11 DEF TimeSlice, TimerTask, KeyPress, KeyDropped, vars
<1> QED
  BY <1>4, <1>5, <1>6, <1>7, <1>8, <1>9, <1>10, <1>11 DEF Next, TaskStep

(* Every step keeps the tasks scheduled.                                   *)
LEMMA NextScheduled == Scheduled /\ [Next]_vars => Scheduled'
<1> SUFFICES ASSUME Scheduled, [Next]_vars PROVE Scheduled'
  OBVIOUS
<1>1. ASSUME UNCHANGED <<running, idle, ready, sigs_waiting>>, forbid_counter' \in Nat
      PROVE  Scheduled'
  BY <1>1 DEF Scheduled
<1>2. ASSUME UNCHANGED sched PROVE Scheduled'
  BY <1>1, <1>2 DEF Scheduled, sched
<1>3. ASSUME NEW t \in Task, Call(t) \/ Woken(t) PROVE Scheduled'
  BY <1>1, <1>3 DEF Call, Woken, Scheduled
<1>4. ASSUME NEW t \in Task, Wait(t) PROVE Scheduled'
  <2>1. /\ running = t /\ ~idle /\ Switch(ready) /\ sigs_waiting' = sigs_waiting \cup {t}
        /\ forbid_counter' = 0
    BY <1>4 DEF Wait, Runs
  <2>2. /\ running' \in Task /\ idle' \in BOOLEAN
        /\ ready' \in Seq(Task) /\ NoDuplicates(ready') /\ ToSet(ready') \subseteq ToSet(ready)
        /\ ~idle' => running' \in ToSet(ready) /\ running' \notin ToSet(ready')
    BY <2>1, SwitchFacts DEF Scheduled
  <2> QED BY <2>1, <2>2 DEF Scheduled
<1>5. ASSUME NEW t \in Task, Move(t) PROVE Scheduled'
  BY <1>2, <1>5 DEF Move
<1>6. ASSUME NEW t \in Task, Count(t) \/ NextWaiter(t) PROVE Scheduled'
  BY <1>2, <1>6, SignalFacts DEF Count, NextWaiter
<1>7. ASSUME NEW t \in Task, Permit(t) PROVE Scheduled'
  <2>1. forbid_counter' = IF forbid_counter > 0 THEN forbid_counter - 1 ELSE 0
    BY <1>7 DEF Permit
  <2> QED BY <1>1, <1>7, <2>1 DEF Permit, Scheduled
<1>8. ASSUME ~idle, Switch(Insert(ready, running)), sigs_waiting' = sigs_waiting,
             forbid_counter' \in Nat
      PROVE  Scheduled'
  <2> DEFINE q == Insert(ready, running)
  <2>1. /\ ~idle /\ Switch(q) /\ sigs_waiting' = sigs_waiting /\ forbid_counter' \in Nat
        /\ pri \in [Task -> Int] /\ running \notin ToSet(ready) /\ running \in Task
        /\ ready \in Seq(Task)
    BY <1>8, QueueAssumption DEF Scheduled
  <2>2. q \in Seq(Task) /\ NoDuplicates(q) /\ ToSet(q) = ToSet(ready) \cup {running}
    BY <2>1, InsertFacts, InsertKeepsQueue DEF Scheduled
  <2> HIDE DEF q
  <2>3. /\ running' \in Task /\ idle' \in BOOLEAN
        /\ ready' \in Seq(Task) /\ NoDuplicates(ready') /\ ToSet(ready') \subseteq ToSet(q)
        /\ ~idle' => running' \in ToSet(q) /\ running' \notin ToSet(ready')
    BY <2>1, <2>2, SwitchFacts
  <2> QED BY <2>1, <2>2, <2>3 DEF Scheduled
<1>9. ASSUME NEW k \in load.keys, KeyPress(k) PROVE Scheduled'
  BY <1>2, <1>9, SignalFacts DEF KeyPress
<1>10. ASSUME KeyDropped PROVE Scheduled'
  BY <1>1, <1>10 DEF KeyDropped, Scheduled
<1>11. ASSUME UNCHANGED vars PROVE Scheduled'
  BY <1>2, <1>11 DEF vars
<1>12. ASSUME TimeSlice PROVE Scheduled'
  BY <1>8, <1>12 DEF TimeSlice, Scheduled
<1>13. ASSUME TimerTask PROVE Scheduled'
  <2>1. CASE ~idle
    BY <1>8, <1>13, <2>1 DEF TimerTask
  <2>2. CASE idle
    BY <1>1, <1>13, <2>2 DEF TimerTask
  <2> QED BY <2>1, <2>2
<1> QED
  BY <1>3, <1>4, <1>5, <1>6, <1>7, <1>9, <1>10, <1>11, <1>12, <1>13 DEF Next, TaskStep

(* Every step keeps the sections apart.                                    *)
LEMMA NextSectioned == Placed /\ Scheduled /\ Sectioned /\ [Next]_vars => Sectioned'
<1> SUFFICES ASSUME Placed, Scheduled, Sectioned, [Next]_vars PROVE Sectioned'
  OBVIOUS
<1>1. ASSUME NEW t \in Task, Runs(t), NEW l \in Labels, Goto(t, l),
             l \in Section => running' = t /\ ~idle' /\ forbid_counter' > 0
      PROVE  Sectioned'
  <2>1. ~breached /\ running = t /\ pc' = [pc EXCEPT ![t] = l]
    BY <1>1 DEF Runs, GoesOn, Goto
  <2>2. \A u \in Task : pc'[u] \in Section => u = t /\ l \in Section
    BY <2>1 DEF Sectioned, Placed
  <2> QED BY <1>1, <2>2 DEF Sectioned, SectionsExclude, Section
<1>2. ASSUME UNCHANGED <<pc, running, idle, breached>>, forbid_counter' \in {forbid_counter, forbid_counter + 1}
      PROVE  Sectioned'
  BY <1>2 DEF Sectioned, SectionsExclude, Scheduled, Section
<1>3. ASSUME NEW t \in Task, Runs(t), pc[t] \notin Section, UNCHANGED pc PROVE Sectioned'
  BY <1>3 DEF Sectioned, SectionsExclude, Section, Runs, GoesOn
<1>4. ASSUME NEW t \in Task, Call(t) PROVE Sectioned'
  BY <1>1, <1>4 DEF Call, Return, Labels, Section, Runs, Scheduled, Goto
<1>5. ASSUME NEW t \in Task, Wait(t) PROVE Sectioned'
  BY <1>1, <1>5 DEF Wait, Labels, Section
<1>6. ASSUME NEW t \in Task, Woken(t) PROVE Sectioned'
  BY <1>1, <1>6 DEF Woken, Retry, Labels, Section, Runs, Scheduled
<1>7. ASSUME NEW t \in Task, Move(t) PROVE Sectioned'
  <2>1. Runs(t) /\ forbid_counter > 0 /\ UNCHANGED <<running, idle, forbid_counter>> /\ Goto(t, "count")
    BY <1>7 DEF Move, sched, Sectioned, Section, Runs, GoesOn
  <2> QED BY <1>1, <2>1 DEF Labels, Section, Runs
<1>8. ASSUME NEW t \in Task, Count(t) PROVE Sectioned'
  BY <1>1, <1>8 DEF Count, Labels, Section
<1>9. ASSUME NEW t \in Task, NextWaiter(t) PROVE Sectioned'
  BY <1>1, <1>3, <1>9 DEF NextWaiter, Labels, Section
<1>10. ASSUME NEW t \in Task, Permit(t) PROVE Sectioned'
  BY <1>1, <1>10 DEF Permit, Return, Labels, Section
<1>11. ASSUME TimeSlice PROVE Sectioned'
  BY <1>11 DEF TimeSlice, Multitasking, GoesOn, Sectioned, SectionsExclude, Section, Scheduled
<1>12. ASSUME NEW k \in load.keys, KeyPress(k) PROVE Sectioned'
  <2>1. /\ ~breached /\ UNCHANGED pc /\ breached' = (~idle /\ InSection(running) /\ running' # running)
    BY <1>12 DEF KeyPress, GoesOn
  <2>2. idle \/ running' # running \/ UNCHANGED <<running, idle, forbid_counter>>
    BY <1>12, SignalFacts DEF KeyPress, sched
  <2>3. ASSUME ~breached', NEW t \in Task, pc[t] \in Section
        PROVE  running' = t /\ ~idle' /\ forbid_counter' > 0
    <3>1. running = t /\ ~idle /\ forbid_counter > 0 /\ InSection(running)
      BY <2>1, <2>3 DEF Sectioned, InSection, Section
    <3>2. running' = running
      BY <2>1, <2>3, <3>1
    <3> QED BY <2>2, <3>1, <3>2
  <2> QED BY <2>1, <2>3 DEF Sectioned, SectionsExclude, Section
<1>13. ASSUME KeyDropped PROVE Sectioned'
  BY <1>2, <1>13 DEF KeyDropped, Scheduled
<1>14. ASSUME UNCHANGED vars PROVE Sectioned'
  BY <1>2, <1>14 DEF vars, sched, Scheduled
<1>15. ASSUME TimerTask PROVE Sectioned'
  <2>1. pc' = pc /\ ((breached' = breached /\ idle) \/ breached' = InSection(running))
    BY <1>15 DEF TimerTask
  <2>2. ~breached' => \A t \in Task : pc[t] \notin Section
    BY <1>15, <2>1 DEF TimerTask, GoesOn, Sectioned, InSection, Section
  <2> QED BY <2>1, <2>2 DEF Sectioned, SectionsExclude, Section
<1> QED
  BY <1>4, <1>5, <1>6, <1>7, <1>8, <1>9, <1>10, <1>11, <1>12, <1>13, <1>14, <1>15
     DEF Next, TaskStep

-----------------------------------------------------------------------------
(* The lists of messages.                                                  *)

(* add_head() of a message (queue.c:58).                                   *)
LEMMA PushFacts ==
    ASSUME NEW T, NEW s \in Seq(T), NEW m \in T
    PROVE  /\ <<m>> \o s \in Seq(T) /\ Len(<<m>> \o s) = Len(s) + 1 /\ Len(s) \in Nat
           /\ (<<m>> \o s)[1] = m /\ \A i \in 1..Len(s) : (<<m>> \o s)[i + 1] = s[i]
<1>1. <<m>> \in Seq(T) /\ Len(<<m>>) = 1 /\ <<m>>[1] = m
  OBVIOUS
<1>2. Len(s) \in Nat
  BY LenProperties
<1>3. /\ <<m>> \o s \in Seq(T) /\ Len(<<m>> \o s) = 1 + Len(s)
      /\ \A i \in 1..(1 + Len(s)) : (<<m>> \o s)[i] = IF i <= 1 THEN <<m>>[i] ELSE s[i - 1]
  BY <1>1, ConcatProperties
<1> QED BY <1>1, <1>2, <1>3

(* remove_tail() of a list with a message (queue.c:100).                   *)
LEMMA PopFacts ==
    ASSUME NEW T, NEW s \in Seq(T), Len(s) > 0
    PROVE  /\ Front(s) \in Seq(T) /\ Len(Front(s)) = Len(s) - 1 /\ Len(s) \in Nat
           /\ Last(s) \in T /\ \A i \in 1..(Len(s) - 1) : Front(s)[i] = s[i]
<1> DEFINE n == Len(s) - 1
<1>1. Len(s) \in Nat /\ n \in Nat /\ \A i \in 1..Len(s) : s[i] \in T
  BY LenProperties
<1>2. \A i \in 1..n : s[i] \in T
  BY <1>1
<1>3. SubSeq(s, 1, n) \in Seq(T) /\ Last(s) \in T
  BY <1>1, <1>2, SubSeqProperties DEF Last
<1>4. Len(SubSeq(s, 1, n)) = n
  <2> HIDE DEF n
  <2>1. Len(SubSeq(s, 1, n)) = IF 1 <= n THEN n - 1 + 1 ELSE 0
    BY <1>1, <1>2, SubSeqProperties
  <2> QED BY <1>1, <2>1
<1>5. \A i \in 1..n : SubSeq(s, 1, n)[i] = s[i]
  BY <1>1, <1>2, SubSeqProperties
<1> QED BY <1>1, <1>3, <1>4, <1>5 DEF Front

(* The queue of each call (device.c:37-38, console.c:98, 105, 125).        *)
LEMMA QueueOfCall ==
    Placed /\ Supplied => \A t \in Task :
       /\ queue(t) \in Queues
       /\ doing[t] = "send" => t \in Client /\ Sending(t) /\ queue(t) = "iorq"
       /\ doing[t] = "recv" => t \in Client /\ ~Sending(t) /\ queue(t) = t
       /\ doing[t] = "request" => t = Console /\ ~Sending(t) /\ queue(t) = "iorq"
       /\ doing[t] = "key" => t = Console /\ ~Sending(t) /\ queue(t) = "keybd"
       /\ doing[t] = "reply" => t = Console /\ Sending(t) /\ queue(t) = got["iorq"] /\ got["iorq"] \in Client
<1> SUFFICES ASSUME Placed, Supplied, NEW t \in Task
             PROVE  /\ queue(t) \in Queues
                    /\ doing[t] = "send" => t \in Client /\ Sending(t) /\ queue(t) = "iorq"
                    /\ doing[t] = "recv" => t \in Client /\ ~Sending(t) /\ queue(t) = t
                    /\ doing[t] = "request" => t = Console /\ ~Sending(t) /\ queue(t) = "iorq"
                    /\ doing[t] = "key" => t = Console /\ ~Sending(t) /\ queue(t) = "keybd"
                    /\ doing[t] = "reply" => /\ t = Console /\ Sending(t)
                                             /\ queue(t) = got["iorq"] /\ got["iorq"] \in Client
  OBVIOUS
<1>1. t = Console \/ t \in Client
  BY DEF Task
<1>2. CASE doing[t] = "send"
  BY <1>1, <1>2 DEF Placed, queue, Sending, Queues
<1>3. CASE doing[t] = "recv"
  BY <1>1, <1>3 DEF Placed, queue, Sending, Queues
<1>4. CASE doing[t] = "request"
  BY <1>1, <1>4 DEF Placed, queue, Sending, Queues
<1>5. CASE doing[t] = "key"
  BY <1>1, <1>5 DEF Placed, queue, Sending, Queues
<1>6. CASE doing[t] = "reply"
  <2>1. t = Console /\ got["iorq"] \in Client
    BY <1>1, <1>6 DEF Placed, Supplied, Holding
  <2>2. queue(t) = got["iorq"]
    BY <1>1, <1>6 DEF queue
  <2> QED BY <1>6, <2>1, <2>2 DEF Sending, Queues
<1> QED BY <1>2, <1>3, <1>4, <1>5, <1>6 DEF Placed

(* A task that uses the same queue in the same way as before.              *)
LEMMA SameCall ==
    ASSUME Placed, NEW t \in Task, doing'[t] = doing[t],
           got'["iorq"] = got["iorq"] \/ doing[t] # "reply"
    PROVE  queue(t)' = queue(t) /\ Sending(t)' = Sending(t)
<1>1. Sending(t)' = Sending(t)
  BY DEF Sending
<1>2. CASE doing[t] = "send"
  BY <1>1, <1>2 DEF queue
<1>3. CASE doing[t] = "recv"
  BY <1>1, <1>3 DEF queue
<1>4. CASE doing[t] = "request"
  BY <1>1, <1>4 DEF queue
<1>5. CASE doing[t] = "key"
  BY <1>1, <1>5 DEF queue
<1>6. CASE doing[t] = "reply"
  BY <1>1, <1>6 DEF queue
<1> QED BY <1>1, <1>2, <1>3, <1>4, <1>5, <1>6 DEF Placed

(* A step that changes no queue, and puts nobody behind a list operation.  *)
LEMMA QueuesUntouched ==
    ASSUME Core, UNCHANGED <<load, msg_list, free_slots, got>>,
           \A u \in Task : pc'[u] = "count" <=> pc[u] = "count",
           \A u \in Task : pc'[u] \in {"count", "move"} => doing'[u] = doing[u],
           \A u \in Task : pc'[u] = "move" => Possible(u)
    PROVE  Balanced'
<1>1. \A u \in Task : pc'[u] \in {"count", "move"} => queue(u)' = queue(u) /\ Sending(u)' = Sending(u)
  BY SameCall DEF Core
<1>2. \A q : max_slots(q)' = max_slots(q) /\ Used(q)' = Used(q)
  BY DEF max_slots, Used
<1>3. ASSUME NEW q \in Queues, \A t \in Task : ~Counts(t, q)' PROVE Used(q)' = max_slots(q)'
  BY <1>1, <1>2, <1>3 DEF Core, Balanced, Counts
<1>4. ASSUME NEW t \in Task, pc'[t] = "count"
      PROVE  Used(queue(t))' = IF Sending(t)' THEN max_slots(queue(t))' + 1 ELSE max_slots(queue(t))' - 1
  <2>1. queue(t)' = queue(t) /\ Sending(t)' = Sending(t) /\ pc[t] = "count"
    BY <1>1, <1>4
  <2>2. Used(queue(t)) = IF Sending(t) THEN max_slots(queue(t)) + 1 ELSE max_slots(queue(t)) - 1
    BY <2>1 DEF Core, Balanced
  <2> QED BY <2>1, <2>2 DEF max_slots, Used
<1>5. ASSUME NEW t \in Task, pc'[t] = "move" PROVE Possible(t)'
  <2>1. queue(t)' = queue(t) /\ Sending(t)' = Sending(t) /\ Possible(t)
    BY <1>1, <1>5
  <2> QED BY <2>1 DEF Possible, max_slots
<1> QED BY <1>3, <1>4, <1>5 DEF Balanced, MoveIsPossible

(* remove_tail() finds a message, add_head() adds one (queue.c:58, 100).   *)
LEMMA MoveFacts ==
    ASSUME Core, NEW t \in Task, Move(t)
    PROVE  LET q == queue(t) IN
           /\ q \in Queues /\ msg_list[q] \in Seq(Messages)
           /\ Sending(t) => /\ msg_list' = [msg_list EXCEPT ![q] = <<Msg(t)>> \o @] /\ got' = got
                            /\ Msg(t) \in Messages /\ Len(msg_list'[q]) = Len(msg_list[q]) + 1
           /\ ~Sending(t) => /\ msg_list' = [msg_list EXCEPT ![q] = Front(@)]
                             /\ got' = [got EXCEPT ![q] = Last(msg_list[q])]
                             /\ Last(msg_list[q]) \in Messages /\ Len(msg_list[q]) > 0
                             /\ Len(msg_list'[q]) = Len(msg_list[q]) - 1
           /\ msg_list' \in [Queues -> Seq(Messages)] /\ got' \in [Queues -> Messages]
           /\ free_slots[q] + Len(msg_list[q]) = max_slots(q) /\ Possible(t)
           /\ pc[t] = "move" /\ pc' = [pc EXCEPT ![t] = "count"]
           /\ \A u \in Task \ {t} : pc[u] \notin Section
           /\ UNCHANGED <<load, sched, free_slots, doing>>
<1> DEFINE q == queue(t)
<1>1. /\ pc[t] = "move" /\ pc' = [pc EXCEPT ![t] = "count"] /\ UNCHANGED <<load, sched, free_slots, doing>>
      /\ \/ Sending(t) /\ msg_list' = [msg_list EXCEPT ![q] = <<Msg(t)>> \o @] /\ got' = got
         \/ /\ ~Sending(t) /\ msg_list' = [msg_list EXCEPT ![q] = Front(@)]
            /\ got' = [got EXCEPT ![q] = Last(msg_list[q])]
  BY DEF Move, Goto, Remaining
<1>2. q \in Queues /\ (doing[t] = "send" => t \in Client)
  BY QueueOfCall DEF Core
<1>3. \A u \in Task \ {t} : pc[u] \notin Section
  BY <1>1 DEF Core, Sectioned, SectionsExclude, Section
<1>4. free_slots[q] + Len(msg_list[q]) = max_slots(q) /\ Possible(t)
  <2>1. \A u \in Task : ~Counts(u, q)
    BY <1>1, <1>3 DEF Counts, Section
  <2> QED BY <1>1, <1>2, <2>1 DEF Core, Balanced, Used, MoveIsPossible
<1>5. /\ msg_list \in [Queues -> Seq(Messages)] /\ got \in [Queues -> Messages]
      /\ free_slots[q] \in Int /\ msg_list[q] \in Seq(Messages)
  BY <1>2 DEF Core, Supplied
<1>6. Msg(t) \in Messages
  <2>1. CASE doing[t] = "send"
    BY <1>2, <2>1 DEF Msg, Messages
  <2>2. CASE doing[t] # "send"
    BY <2>2 DEF Msg, Messages
  <2> QED BY <2>1, <2>2
<1> HIDE DEF q
<1>7. CASE Sending(t)
  <2>1. msg_list' = [msg_list EXCEPT ![q] = <<Msg(t)>> \o @] /\ got' = got
    BY <1>1, <1>7
  <2>2. <<Msg(t)>> \o msg_list[q] \in Seq(Messages) /\ Len(<<Msg(t)>> \o msg_list[q]) = Len(msg_list[q]) + 1
    BY <1>5, <1>6, PushFacts
  <2>3. msg_list' \in [Queues -> Seq(Messages)] /\ msg_list'[q] = <<Msg(t)>> \o msg_list[q]
    BY <1>2, <1>5, <2>1, <2>2
  <2> QED BY <1>1, <1>2, <1>3, <1>4, <1>5, <1>6, <1>7, <2>1, <2>2, <2>3 DEF q
<1>8. CASE ~Sending(t)
  <2>1. msg_list' = [msg_list EXCEPT ![q] = Front(@)] /\ got' = [got EXCEPT ![q] = Last(msg_list[q])]
    BY <1>1, <1>8
  <2>2. Len(msg_list[q]) > 0
    <3>1. free_slots[q] < max_slots(q) /\ Len(msg_list[q]) \in Nat
      BY <1>4, <1>5, <1>8, LenProperties DEF Possible, q
    <3>2. max_slots(q) \in Int
      BY QueueAssumption DEF max_slots, Core, Supplied
    <3> QED BY <1>4, <1>5, <3>1, <3>2
  <2>3. /\ Front(msg_list[q]) \in Seq(Messages) /\ Len(Front(msg_list[q])) = Len(msg_list[q]) - 1
        /\ Last(msg_list[q]) \in Messages
    BY <1>5, <2>2, PopFacts
  <2>4. msg_list' \in [Queues -> Seq(Messages)] /\ msg_list'[q] = Front(msg_list[q])
    BY <1>2, <1>5, <2>1, <2>3
  <2>5. got' \in [Queues -> Messages]
    BY <1>2, <1>5, <2>1, <2>3
  <2> QED BY <1>1, <1>2, <1>3, <1>4, <1>5, <1>8, <2>1, <2>2, <2>3, <2>4, <2>5 DEF q
<1> QED BY <1>7, <1>8

(* The interrupt sends to a queue that nobody counts (console.c:76).       *)
LEMMA KeyFacts ==
    ASSUME Core, NEW k \in load.keys, KeyPress(k)
    PROVE  /\ \A t \in Task : ~Counts(t, "keybd")
           /\ \A t \in Task : Sending(t) => queue(t) # "keybd"
           /\ free_slots["keybd"] > 0 /\ msg_list["keybd"] \in Seq(Messages) /\ k \in Messages
           /\ msg_list' = [msg_list EXCEPT !["keybd"] = <<k>> \o @]
           /\ msg_list' \in [Queues -> Seq(Messages)] /\ msg_list'["iorq"] = msg_list["iorq"]
           /\ Len(msg_list'["keybd"]) = Len(msg_list["keybd"]) + 1
           /\ free_slots' = [free_slots EXCEPT !["keybd"] = @ - 1]
           /\ free_slots \in [Queues -> Int] /\ free_slots' \in [Queues -> Int]
           /\ UNCHANGED <<load, got, pc, doing>>
<1>1. /\ free_slots["keybd"] > 0 /\ msg_list' = [msg_list EXCEPT !["keybd"] = <<k>> \o @]
      /\ free_slots' = [free_slots EXCEPT !["keybd"] = @ - 1] /\ UNCHANGED <<load, got, pc, doing>>
  BY DEF KeyPress, HasRoom
<1>2. /\ "keybd" \in Queues /\ "iorq" \in Queues /\ "keybd" \notin Client
      /\ msg_list \in [Queues -> Seq(Messages)] /\ msg_list["keybd"] \in Seq(Messages)
      /\ free_slots \in [Queues -> Int] /\ free_slots["keybd"] \in Int
  BY QueueAssumption DEF Queues, Core, Supplied
<1>3. k \in Messages
  BY DEF Messages, Core, Supplied
<1>4. <<k>> \o msg_list["keybd"] \in Seq(Messages) /\ Len(<<k>> \o msg_list["keybd"]) = Len(msg_list["keybd"]) + 1
  BY <1>2, <1>3, PushFacts
<1>5. /\ msg_list' \in [Queues -> Seq(Messages)] /\ msg_list'["iorq"] = msg_list["iorq"]
      /\ Len(msg_list'["keybd"]) = Len(msg_list["keybd"]) + 1
  BY <1>1, <1>2, <1>4
<1>6. free_slots' \in [Queues -> Int]
  BY <1>1, <1>2
<1>7. ASSUME NEW t \in Task PROVE Sending(t) => queue(t) # "keybd"
  BY <1>2, QueueOfCall DEF Core, Sending
<1>8. ASSUME NEW t \in Task, Counts(t, "keybd") PROVE FALSE
  <2>1. ~Sending(t) /\ pc[t] = "count" /\ queue(t) = "keybd"
    BY <1>7, <1>8 DEF Counts
  <2>2. free_slots["keybd"] + Len(msg_list["keybd"]) = max_slots("keybd") - 1
    BY <2>1 DEF Core, Balanced, Used
  <2>3. max_slots("keybd") = 1 /\ Len(msg_list["keybd"]) \in Nat
    BY <1>2, LenProperties DEF max_slots
  <2> QED BY <1>1, <1>2, <2>2, <2>3
<1> QED BY <1>1, <1>2, <1>3, <1>5, <1>6, <1>7, <1>8

(* Every step keeps messages messages, and requests requests.              *)
LEMMA NextSupplied == Core /\ [Next]_vars => Supplied'
<1> SUFFICES ASSUME Core, [Next]_vars PROVE Supplied'
  OBVIOUS
<1>1. "iorq" \in Queues /\ "keybd" \in Queues /\ "iorq" \notin Client /\ Console \notin Client /\ Console \in Task
  BY QueueAssumption DEF Queues, Task
<1>2. ASSUME UNCHANGED <<load, msg_list, got>>, free_slots' \in [Queues -> Int], Holding' => Holding
      PROVE  Supplied'
  BY <1>2 DEF Core, Supplied
<1>3. ASSUME NEW t \in Task, NEW l \in Labels, Goto(t, l), doing' = doing,
             l \in {"count", "next", "permit"} => pc[t] \in {"count", "next", "permit"}
      PROVE  Holding' => Holding
  BY <1>3 DEF Holding, Goto, Core, Placed
<1>4. ASSUME NEW t \in Task, Return(t), pc[t] = "permit" \/ doing[t] = "reply"
      PROVE  Holding' => Holding
  <2>1. CASE t = Console
    BY <1>4, <2>1 DEF Holding, Return, Goto, Core, Placed
  <2>2. CASE t # Console
    BY <1>1, <1>4, <2>2 DEF Holding, Return, Goto, Core, Placed
  <2> QED BY <2>1, <2>2
<1>5. free_slots \in [Queues -> Int] /\ \A t \in Task : queue(t) \in Queues
  BY QueueOfCall DEF Core, Supplied
<1>6. ASSUME NEW t \in Task, Call(t) PROVE Supplied'
  <2>1. UNCHANGED <<load, msg_list, got, free_slots>>
    BY <1>6 DEF Call
  <2>2. Holding' => Holding
    BY <1>3, <1>4, <1>6 DEF Call, Labels, Section, Blocking
  <2> QED BY <1>2, <1>5, <2>1, <2>2
<1>7. ASSUME NEW t \in Task, Wait(t) \/ Woken(t) PROVE Supplied'
  <2>1. UNCHANGED <<load, msg_list, got, free_slots>>
    BY <1>7 DEF Wait, Woken
  <2>2. Holding' => Holding
    BY <1>3, <1>7 DEF Wait, Woken, Retry, Labels, Section
  <2> QED BY <1>2, <1>5, <2>1, <2>2
<1>8. ASSUME NEW t \in Task, Move(t) PROVE Supplied'
  <2> DEFINE q == queue(t)
  <2>1. /\ q \in Queues /\ load' = load /\ free_slots' = free_slots
        /\ msg_list' \in [Queues -> Seq(Messages)] /\ got' \in [Queues -> Messages]
        /\ pc' = [pc EXCEPT ![t] = "count"] /\ doing' = doing
        /\ Sending(t) => msg_list' = [msg_list EXCEPT ![q] = <<Msg(t)>> \o @] /\ got' = got
        /\ ~Sending(t) => /\ msg_list' = [msg_list EXCEPT ![q] = Front(@)]
                          /\ got' = [got EXCEPT ![q] = Last(msg_list[q])] /\ Len(msg_list[q]) > 0
    BY <1>8, MoveFacts
  <2>2. msg_list \in [Queues -> Seq(Messages)] /\ got \in [Queues -> Messages] /\ msg_list["iorq"] \in Seq(Client)
    BY DEF Core, Supplied
  <2>3. CASE doing[t] = "send"
    <3>1. t \in Client /\ Sending(t) /\ q = "iorq" /\ Msg(t) = t
      BY <2>3, QueueOfCall DEF Core, Msg
    <3>2. msg_list'["iorq"] = <<t>> \o msg_list["iorq"] /\ got' = got
      BY <1>1, <2>1, <2>2, <3>1
    <3>3. msg_list'["iorq"] \in Seq(Client)
      BY <2>2, <3>1, <3>2, PushFacts
    <3>4. Holding' => Holding
      BY <1>1, <2>1, <3>1 DEF Holding
    <3> QED BY <1>5, <2>1, <3>2, <3>3, <3>4 DEF Core, Supplied
  <2>4. CASE doing[t] = "request"
    <3>1. t = Console /\ ~Sending(t) /\ q = "iorq"
      BY <2>4, QueueOfCall DEF Core
    <3>2. /\ msg_list'["iorq"] = Front(msg_list["iorq"]) /\ got'["iorq"] = Last(msg_list["iorq"])
          /\ Len(msg_list["iorq"]) > 0
      BY <1>1, <2>1, <2>2, <3>1
    <3>3. msg_list'["iorq"] \in Seq(Client) /\ got'["iorq"] \in Client
      BY <2>2, <3>2, PopFacts
    <3> QED BY <1>5, <2>1, <3>3 DEF Core, Supplied
  <2>5. CASE doing[t] \in {"recv", "key", "reply"}
    <3>1. q # "iorq" /\ (doing[t] = "recv" => t # Console)
      BY <1>1, <2>5, QueueOfCall DEF Core
    <3>2. msg_list'["iorq"] = msg_list["iorq"] /\ got'["iorq"] = got["iorq"]
      BY <1>1, <2>1, <2>2, <3>1
    <3>3. Holding' => Holding
      BY <1>1, <2>1, <2>5, <3>1 DEF Holding
    <3> QED BY <1>5, <2>1, <3>2, <3>3 DEF Core, Supplied
  <2> QED BY <2>3, <2>4, <2>5 DEF Core, Placed
<1>9. ASSUME NEW t \in Task, Count(t) PROVE Supplied'
  <2>1. UNCHANGED <<load, msg_list, got>> /\ pc[t] = "count"
        /\ free_slots' = [free_slots EXCEPT ![queue(t)] = FreeAfter(t)]
    BY <1>9 DEF Count
  <2>2. free_slots' \in [Queues -> Int]
    BY <1>5, <2>1 DEF FreeAfter
  <2>3. Holding' => Holding
    BY <1>3, <1>9, <2>1 DEF Count, Labels
  <2> QED BY <1>2, <2>1, <2>2, <2>3
<1>10. ASSUME NEW t \in Task, NextWaiter(t) PROVE Supplied'
  <2>1. UNCHANGED <<load, msg_list, got, free_slots, doing>> /\ pc[t] = "next"
    BY <1>10 DEF NextWaiter
  <2>2. Holding' => Holding
    BY <1>3, <1>10, <2>1 DEF NextWaiter, Labels, Holding
  <2> QED BY <1>2, <1>5, <2>1, <2>2
<1>11. ASSUME NEW t \in Task, Permit(t) PROVE Supplied'
  <2>1. UNCHANGED <<load, msg_list, got, free_slots>>
    BY <1>11 DEF Permit
  <2>2. Holding' => Holding
    BY <1>4, <1>11 DEF Permit
  <2> QED BY <1>2, <1>5, <2>1, <2>2
<1>12. ASSUME TimeSlice \/ TimerTask \/ KeyDropped \/ UNCHANGED vars PROVE Supplied'
  BY <1>2, <1>5, <1>12 DEF TimeSlice, TimerTask, KeyDropped, vars, Holding
<1>13. ASSUME NEW k \in load.keys, KeyPress(k) PROVE Supplied'
  BY <1>13, KeyFacts DEF Core, Supplied, Holding
<1> QED
  BY <1>6, <1>7, <1>8, <1>9, <1>10, <1>11, <1>12, <1>13 DEF Next, TaskStep

(* Every step keeps counts and lists in balance.                           *)
LEMMA NextBalanced == Core /\ [Next]_vars => Balanced'
<1> SUFFICES ASSUME Core, [Next]_vars PROVE Balanced'
  OBVIOUS
<1> USE DEF Core
<1>1. ASSUME NEW t \in Task, pc[t] # "count", NEW l \in Labels \ {"count"}, Goto(t, l),
             UNCHANGED <<load, msg_list, free_slots, got>>,
             \A u \in Task : u # t \/ l = "move" => doing'[u] = doing[u],
             l = "move" => Possible(t)
      PROVE  Balanced'
  <2>1. \A u \in Task : pc'[u] = IF u = t THEN l ELSE pc[u]
    BY <1>1 DEF Goto, Placed
  <2>2. \A u \in Task : pc'[u] = "count" <=> pc[u] = "count"
    BY <1>1, <2>1
  <2>3. \A u \in Task : pc'[u] \in {"count", "move"} => doing'[u] = doing[u]
    BY <1>1, <2>1
  <2>4. \A u \in Task : pc'[u] = "move" => Possible(u)
    BY <1>1, <2>1 DEF Balanced, MoveIsPossible
  <2> QED BY <1>1, <2>2, <2>3, <2>4, QueuesUntouched
<1>2. ASSUME UNCHANGED <<load, msg_list, free_slots, got, pc, doing>> PROVE Balanced'
  BY <1>2, QueuesUntouched DEF Balanced, MoveIsPossible
<1>3. ASSUME NEW t \in Task, Return(t), pc[t] # "count", UNCHANGED <<load, msg_list, free_slots, got>>
      PROVE  Balanced'
  <2>1. Goto(t, "call") /\ \A u \in Task : u # t => doing'[u] = doing[u]
    BY <1>3 DEF Return, Placed
  <2> QED BY <1>1, <1>3, <2>1 DEF Labels
<1>4. ASSUME NEW t \in Task, Call(t) PROVE Balanced'
  BY <1>1, <1>3, <1>4 DEF Call, Labels, Section
<1>5. ASSUME NEW t \in Task, Wait(t) PROVE Balanced'
  BY <1>1, <1>5 DEF Wait, Labels
<1>6. ASSUME NEW t \in Task, Woken(t) PROVE Balanced'
  BY <1>1, <1>6 DEF Woken, Retry, Labels, Section
<1>7. ASSUME NEW t \in Task, NextWaiter(t) PROVE Balanced'
  BY <1>1, <1>2, <1>7 DEF NextWaiter, Labels
<1>8. ASSUME NEW t \in Task, Permit(t) PROVE Balanced'
  BY <1>3, <1>8 DEF Permit
<1>9. ASSUME TimeSlice \/ TimerTask \/ KeyDropped \/ UNCHANGED vars PROVE Balanced'
  BY <1>2, <1>9 DEF TimeSlice, TimerTask, KeyDropped, vars
<1>10. ASSUME NEW t \in Task, Move(t) PROVE Balanced'
  <2> DEFINE q == queue(t)
  <2>1. /\ q \in Queues /\ msg_list[q] \in Seq(Messages) /\ msg_list' \in [Queues -> Seq(Messages)]
        /\ pc[t] = "move" /\ pc' = [pc EXCEPT ![t] = "count"] /\ UNCHANGED <<load, free_slots, doing>>
        /\ \A u \in Task \ {t} : pc[u] \notin Section
        /\ free_slots[q] + Len(msg_list[q]) = max_slots(q)
    BY <1>10, MoveFacts
  <2>2. /\ Sending(t) => Len(msg_list'[q]) = Len(msg_list[q]) + 1 /\ got' = got
        /\ ~Sending(t) => /\ Len(msg_list'[q]) = Len(msg_list[q]) - 1
                          /\ \A r \in Queues : r # q => got'[r] = got[r]
        /\ \A r \in Queues : r # q => msg_list'[r] = msg_list[r]
    <3>1. /\ Sending(t) => /\ msg_list' = [msg_list EXCEPT ![q] = <<Msg(t)>> \o @] /\ got' = got
                           /\ Len(msg_list'[q]) = Len(msg_list[q]) + 1
          /\ ~Sending(t) => /\ msg_list' = [msg_list EXCEPT ![q] = Front(@)]
                            /\ got' = [got EXCEPT ![q] = Last(msg_list[q])]
                            /\ Len(msg_list'[q]) = Len(msg_list[q]) - 1
      BY <1>10, MoveFacts
    <3>2. DOMAIN msg_list = Queues /\ DOMAIN got = Queues
      BY DEF Supplied
    <3> HIDE DEF q
    <3>3. CASE Sending(t)
      BY <3>1, <3>2, <3>3
    <3>4. CASE ~Sending(t)
      BY <3>1, <3>2, <3>4
    <3> QED BY <3>3, <3>4
  <2>3. \A u \in Task : pc'[u] = IF u = t THEN "count" ELSE pc[u]
    BY <2>1 DEF Placed
  <2>4. q' = q /\ Sending(t)' = Sending(t)
    <3>1. doing'[t] = doing[t]
      BY <2>1
    <3>2. got'["iorq"] = got["iorq"] \/ doing[t] # "reply"
      BY <2>2, QueueOfCall
    <3> QED BY <3>1, <3>2, SameCall
  <2> HIDE DEF q
  <2>5. /\ Len(msg_list[q]) \in Nat /\ free_slots[q] \in Int
        /\ \A r \in Queues : max_slots(r)' = max_slots(r) /\ max_slots(r) \in Int
    BY <2>1, LenProperties, QueueAssumption DEF Supplied, max_slots
  <2>6. Used(q)' = IF Sending(t)' THEN max_slots(q)' + 1 ELSE max_slots(q)' - 1
    <3>1. max_slots(q)' = max_slots(q) /\ max_slots(q) \in Int
      BY <2>1, <2>4, <2>5 DEF max_slots
    <3>2. free_slots'[q] + Len(msg_list'[q]) = IF Sending(t) THEN max_slots(q) + 1 ELSE max_slots(q) - 1
      <4>1. CASE Sending(t)
        BY <2>1, <2>2, <2>5, <3>1, <4>1
      <4>2. CASE ~Sending(t)
        <5>1. Len(msg_list'[q]) = Len(msg_list[q]) - 1
          BY <2>2, <4>2
        <5>2. free_slots'[q] = free_slots[q] /\ free_slots[q] + Len(msg_list[q]) = max_slots(q)
          BY <2>1
        <5> QED BY <2>5, <3>1, <4>2, <5>1, <5>2
      <4> QED BY <4>1, <4>2
    <3> QED BY <2>4, <3>1, <3>2 DEF Used
  <2>7. ASSUME NEW r \in Queues, \A u \in Task : ~Counts(u, r)' PROVE Used(r)' = max_slots(r)'
    <3>1. r # q
      BY <2>3, <2>4, <2>7 DEF Counts, q
    <3>2. \A u \in Task : ~Counts(u, r)
      BY <2>1 DEF Counts, Section
    <3>3. Used(r) = max_slots(r)
      BY <3>2 DEF Balanced
    <3>4. msg_list'[r] = msg_list[r] /\ free_slots'[r] = free_slots[r]
      BY <2>1, <2>2, <3>1
    <3> QED BY <2>5, <3>3, <3>4 DEF Used
  <2>8. \A u \in Task : pc'[u] \in {"count", "move"} => u = t /\ pc'[u] = "count"
    BY <2>1, <2>3 DEF Section
  <2>9. ASSUME NEW u \in Task, pc'[u] = "count"
        PROVE  Used(queue(u))' = IF Sending(u)' THEN max_slots(queue(u))' + 1 ELSE max_slots(queue(u))' - 1
    BY <2>6, <2>8, <2>9 DEF q
  <2>10. \A u \in Task : pc'[u] # "move"
    BY <2>8
  <2> QED BY <2>7, <2>9, <2>10 DEF Balanced, MoveIsPossible
<1>11. ASSUME NEW t \in Task, Count(t) PROVE Balanced'
  <2> DEFINE q == queue(t)
  <2>1. /\ pc[t] = "count" /\ UNCHANGED <<load, msg_list, got, doing>>
        /\ free_slots' = [free_slots EXCEPT ![q] = FreeAfter(t)]
        /\ \E l \in {"permit", "next"} : pc' = [pc EXCEPT ![t] = l]
    BY <1>11 DEF Count, Goto
  <2>2. \A u \in Task : pc'[u] \notin Section
    BY <2>1 DEF Sectioned, SectionsExclude, Section, Placed
  <2>3. q \in Queues /\ free_slots \in [Queues -> Int] /\ free_slots[q] \in Int
        /\ msg_list[q] \in Seq(Messages)
    BY QueueOfCall DEF Supplied
  <2>4. free_slots[q] + Len(msg_list[q]) = IF Sending(t) THEN max_slots(q) + 1 ELSE max_slots(q) - 1
    BY <2>1 DEF Balanced, Used
  <2> HIDE DEF q
  <2>5. free_slots'[q] = IF Sending(t) THEN free_slots[q] - 1 ELSE free_slots[q] + 1
    BY <2>1, <2>3 DEF FreeAfter, q
  <2>6. Len(msg_list[q]) \in Nat /\ max_slots(q) \in Int
    BY <2>3, LenProperties, QueueAssumption DEF Supplied, max_slots
  <2>7. free_slots'[q] + Len(msg_list[q]) = max_slots(q)
    BY <2>3, <2>4, <2>5, <2>6
  <2>8. ASSUME NEW r \in Queues PROVE Used(r)' = max_slots(r)'
    <3>1. CASE r = q
      BY <2>1, <2>7, <3>1 DEF Used, max_slots
    <3>2. CASE r # q
      <4>1. \A u \in Task : ~Counts(u, r)
        BY <2>1, <3>2 DEF Counts, Sectioned, SectionsExclude, q
      <4>2. free_slots'[r] = free_slots[r]
        BY <2>1, <2>3, <3>2
      <4> QED BY <2>1, <4>1, <4>2 DEF Balanced, Used, max_slots
    <3> QED BY <3>1, <3>2
  <2> QED BY <2>2, <2>8 DEF Balanced, MoveIsPossible, Section
<1>12. ASSUME NEW k \in load.keys, KeyPress(k) PROVE Balanced'
  <2>1. /\ \A t \in Task : ~Counts(t, "keybd") /\ (Sending(t) => queue(t) # "keybd")
        /\ free_slots["keybd"] > 0 /\ msg_list["keybd"] \in Seq(Messages)
        /\ msg_list' = [msg_list EXCEPT !["keybd"] = <<k>> \o @]
        /\ Len(msg_list'["keybd"]) = Len(msg_list["keybd"]) + 1
        /\ free_slots' = [free_slots EXCEPT !["keybd"] = @ - 1]
        /\ free_slots \in [Queues -> Int] /\ msg_list \in [Queues -> Seq(Messages)]
        /\ UNCHANGED <<load, got, pc, doing>>
    BY <1>12, KeyFacts DEF Supplied
  <2>2. "keybd" \in Queues /\ free_slots["keybd"] \in Int /\ Len(msg_list["keybd"]) \in Nat
    BY <2>1, LenProperties DEF Queues
  <2>3. \A r \in Queues : max_slots(r)' = max_slots(r) /\ max_slots(r) \in Int
    BY <2>1, QueueAssumption DEF Supplied, max_slots
  <2>4. /\ free_slots'["keybd"] = free_slots["keybd"] - 1
        /\ \A r \in Queues : r # "keybd" => free_slots'[r] = free_slots[r] /\ msg_list'[r] = msg_list[r]
    BY <2>1, <2>2
  <2>5. \A r \in Queues : Used(r)' = Used(r)
    BY <2>1, <2>2, <2>4 DEF Used
  <2>6. \A u \in Task : queue(u)' = queue(u) /\ Sending(u)' = Sending(u) /\ queue(u) \in Queues
    BY <2>1, SameCall, QueueOfCall
  <2>7. ASSUME NEW r \in Queues, \A u \in Task : ~Counts(u, r)' PROVE Used(r)' = max_slots(r)'
    BY <2>1, <2>3, <2>5, <2>6, <2>7 DEF Balanced, Counts
  <2>8. ASSUME NEW u \in Task, pc'[u] = "count"
        PROVE  Used(queue(u))' = IF Sending(u)' THEN max_slots(queue(u))' + 1 ELSE max_slots(queue(u))' - 1
    <3> DEFINE r == queue(u)
    <3>1. r' = r /\ r \in Queues /\ pc[u] = "count"
      BY <2>1, <2>6, <2>8
    <3>2. Used(r) = IF Sending(u) THEN max_slots(r) + 1 ELSE max_slots(r) - 1
      BY <3>1 DEF Balanced
    <3> HIDE DEF r
    <3>3. Used(r)' = Used(r) /\ max_slots(r)' = max_slots(r)
      BY <2>3, <2>5, <3>1 DEF Used, max_slots
    <3> QED BY <2>6, <3>1, <3>2, <3>3 DEF r, Used, max_slots
  <2>9. ASSUME NEW u \in Task, pc'[u] = "move" PROVE Possible(u)'
    <3> DEFINE r == queue(u)
    <3>1. r' = r /\ r \in Queues /\ Possible(u) /\ Sending(u)' = Sending(u)
      BY <2>1, <2>6, <2>9 DEF Balanced, MoveIsPossible
    <3>2. max_slots(r)' = max_slots(r) /\ max_slots(r) \in Int
      BY <2>3, <3>1
    <3>3. CASE r # "keybd"
      BY <2>4, <3>1, <3>2, <3>3 DEF Possible, max_slots
    <3>4. CASE r = "keybd"
      BY <2>1, <2>2, <2>4, <3>1, <3>2, <3>4 DEF Possible, max_slots
    <3> QED BY <3>3, <3>4
  <2> QED BY <2>7, <2>8, <2>9 DEF Balanced, MoveIsPossible
<1> QED
  BY <1>4, <1>5, <1>6, <1>7, <1>8, <1>9, <1>10, <1>11, <1>12 DEF Next, TaskStep

-----------------------------------------------------------------------------
(* The theorems.                                                           *)

(* The queues are empty, and nobody is in a section (console.c:91-97).     *)
LEMMA InitCore == Init => Core
<1> SUFFICES ASSUME Init PROVE Core
  OBVIOUS
<1>1. /\ load \in Workload /\ load.clients \in Seq(Client) /\ NoDuplicates(load.clients)
      /\ load.slots \in Nat /\ Console \notin Client
  BY QueueAssumption DEF Init
<1>2. \A t \in Task : pc[t] = "call" /\ doing[t] = IF t = Console THEN "request" ELSE "send"
  BY DEF Init
<1>3. Placed
  BY <1>1 DEF Init, Placed, Labels, Task
<1>4. Scheduled
  <2>1. load.clients \in Seq(Task)
    BY <1>1, SeqMonotonic DEF Task
  <2>2. Console \notin ToSet(load.clients)
    BY <1>1, ElementsAt
  <2> QED BY <1>1, <2>1, <2>2 DEF Init, Scheduled, Task
<1>5. Sectioned
  BY <1>2 DEF Sectioned, SectionsExclude, Section
<1>6. Supplied
  <2>1. msg_list = [q \in Queues |-> <<>>] /\ got = [q \in Queues |-> NULL] /\ NULL \in Messages
        /\ free_slots = [q \in Queues |-> max_slots(q)]
    BY DEF Init, Messages
  <2>2. \A q \in Queues : max_slots(q) \in Int
    BY <1>1 DEF max_slots
  <2>3. "iorq" \in Queues
    BY DEF Queues
  <2> QED BY <1>1, <1>2, <2>1, <2>2, <2>3 DEF Supplied, Holding, Task
<1>7. Balanced
  <2>1. \A q \in Queues : Used(q) = max_slots(q)
    BY <1>1 DEF Init, Used, max_slots
  <2> QED BY <1>2, <2>1 DEF Balanced, MoveIsPossible
<1> QED BY <1>3, <1>4, <1>5, <1>6, <1>7 DEF Core

(* The layers are inductive together: what a task may take rests on who is *)
(* in a section, and that on who runs.                                     *)
LEMMA NextCore == Core /\ [Next]_vars => Core'
BY NextPlaced, NextScheduled, NextSectioned, NextSupplied, NextBalanced DEF Core

(* Core holds whatever tasks, keys and ticks do (queue.c:33-137).          *)
THEOREM QueueCore == Spec => []Core
<1> QED BY InitCore, NextCore, PTL DEF Spec

(* Two tasks never change the queues at once, as long as no key and no     *)
(* tick has broken a section, which is all that can (task.c:156): forbid() *)
(* of queue.c:38, 69, 98 and 120 excludes.                                 *)
THEOREM QueueSectionsExclude == Spec => []SectionsExclude
<1>1. Core => SectionsExclude
  BY DEF Core, Sectioned
<1> QED BY QueueCore, <1>1, PTL

(* add_head() finds a free slot and remove_tail() a message, also after a  *)
(* wait (queue.c:39, 70, 99, 121).                                         *)
THEOREM QueueMoveIsPossible == Spec => []MoveIsPossible
<1>1. Core => MoveIsPossible
  BY DEF Core, Balanced
<1> QED BY QueueCore, <1>1, PTL

(* The keyboard interrupt stays off the queue while the console changes it *)
(* (console.c:76, 105).                                                    *)
LEMMA NextKeysKeepOff ==
    Core /\ [Next]_vars =>
       (Len(msg_list'["keybd"]) > Len(msg_list["keybd"])
          => ~(doing[Console] = "key" /\ pc[Console] \in {"move", "count"}))
<1> SUFFICES ASSUME Core, [Next]_vars, Len(msg_list'["keybd"]) > Len(msg_list["keybd"]),
                    doing[Console] = "key", pc[Console] \in {"move", "count"}
             PROVE  FALSE
  OBVIOUS
<1>1. Console \in Task /\ "keybd" \in Queues /\ msg_list["keybd"] \in Seq(Messages)
  BY DEF Task, Queues, Core, Supplied
<1>2. Len(msg_list["keybd"]) \in Nat
  BY <1>1, LenProperties
<1>3. msg_list'["keybd"] # msg_list["keybd"]
  BY <1>2
<1>4. ASSUME NEW t \in Task, Move(t) PROVE FALSE
  <2>1. queue(t) = "keybd"
    BY <1>1, <1>3, <1>4, MoveFacts DEF Core, Supplied
  <2>2. ~Sending(t)
    <3>1. t = Console
      BY <1>1, <1>4, MoveFacts DEF Section
    <3> QED BY <3>1 DEF Sending
  <2>3. Len(msg_list'["keybd"]) = Len(msg_list["keybd"]) - 1
    BY <1>4, <2>1, <2>2, MoveFacts
  <2> QED BY <1>2, <2>3
<1>5. ASSUME NEW k \in load.keys, KeyPress(k) PROVE FALSE
  <2>1. /\ \A t \in Task : ~Counts(t, "keybd") /\ free_slots["keybd"] > 0
        /\ free_slots \in [Queues -> Int]
    BY <1>5, KeyFacts
  <2>2. queue(Console) = "keybd" /\ ~Sending(Console)
    BY <1>1, QueueOfCall DEF Core
  <2>3. pc[Console] = "move"
    BY <1>1, <2>1, <2>2 DEF Counts
  <2>4. max_slots("keybd") = 1 /\ free_slots["keybd"] \in Int
    BY <1>1, <2>1 DEF max_slots
  <2>5. Possible(Console)
    BY <1>1, <2>3 DEF Core, Balanced, MoveIsPossible
  <2>6. free_slots["keybd"] < 1
    BY <2>2, <2>4, <2>5 DEF Possible
  <2> QED BY <1>1, <2>1, <2>4, <2>6
<1>6. ASSUME NEW t \in Task, Call(t) \/ Wait(t) \/ Woken(t) \/ Count(t) \/ NextWaiter(t) \/ Permit(t)
      PROVE  FALSE
  BY <1>3, <1>6 DEF Call, Wait, Woken, Count, NextWaiter, Permit
<1>7. ASSUME TimeSlice \/ TimerTask \/ KeyDropped \/ UNCHANGED vars PROVE FALSE
  BY <1>3, <1>7 DEF TimeSlice, TimerTask, KeyDropped, vars
<1> QED BY <1>4, <1>5, <1>6, <1>7 DEF Next, TaskStep

(* The same of every step the program takes: the one slot of the keyboard  *)
(* queue keeps its interrupt off (console.c:76, 105).                      *)
THEOREM QueueKeysKeepOff == Spec => KeysKeepOff
<1>1. Core /\ [Next]_vars =>
         [Len(msg_list'["keybd"]) > Len(msg_list["keybd"])
            => ~(doing[Console] = "key" /\ pc[Console] \in {"move", "count"})]_vars
  BY NextKeysKeepOff
<1> QED BY QueueCore, <1>1, PTL DEF Spec, KeysKeepOff

-----------------------------------------------------------------------------
(* Requests.  A request is in one place at a time, in the console's queue, *)
(* at the console or in its reply queue, and as long as it is anywhere its *)
(* client is inside do_io().  From that follow what the counts say, that a *)
(* reply queue outlives its use, and that the queues are channels.         *)

\* The message operation of the call is done.
Done == {"count", "next", "permit"}

\* A client that has sent its request and not taken its reply; the three places of it.
Asks(c) == (doing[c] = "send" /\ pc[c] \in Done) \/ (doing[c] = "recv" /\ pc[c] \notin Done)
Queued(c) == c \in ToSet(msg_list["iorq"])
Serves(c) ==
    /\ got["iorq"] = c
    /\ \/ doing[Console] = "request" /\ pc[Console] \in Done
       \/ doing[Console] = "key"
       \/ doing[Console] = "reply" /\ pc[Console] \notin Done
Replied(c) == msg_list[c] # <<>>

\* A request is in one place, and its client waits for it.
OnePlace(c) ==
    /\ Queued(c) \/ Serves(c) \/ Replied(c) => Asks(c)
    /\ ~(Queued(c) /\ Serves(c)) /\ ~(Queued(c) /\ Replied(c)) /\ ~(Serves(c) /\ Replied(c))
    /\ Len(msg_list[c]) <= 1

\* A reply queue exists from before the send till after the receive.
Exists(c) == doing[c] = "recv" \/ pc[c] # "call" => c \in created

Requests ==
    /\ NoDuplicates(msg_list["iorq"])
    /\ \A c \in Client : OnePlace(c) /\ Exists(c)
    /\ {"iorq", "keybd"} \subseteq created
    /\ doing[Console] = "reply" /\ pc[Console] = "count" => Replied(got["iorq"])

-----------------------------------------------------------------------------
(* A step that moves no message, in which no client stops asking and the   *)
(* console takes on no request.                                            *)
LEMMA RequestsUntouched ==
    ASSUME Core, Requests, msg_list' = msg_list, got' = got,
           \A c \in Client : (Asks(c) => Asks(c)') /\ (Serves(c)' => Serves(c)) /\ Exists(c)',
           {"iorq", "keybd"} \subseteq created',
           doing'[Console] = "reply" /\ pc'[Console] = "count" =>
              doing[Console] = "reply" /\ pc[Console] = "count"
    PROVE  Requests'
<1>1. ASSUME NEW c \in Client PROVE OnePlace(c)'
  <2>1. Queued(c)' = Queued(c) /\ Replied(c)' = Replied(c) /\ msg_list'[c] = msg_list[c]
    BY DEF Queued, Replied
  <2>2. OnePlace(c) /\ (Asks(c) => Asks(c)') /\ (Serves(c)' => Serves(c))
    BY DEF Requests
  <2> QED BY <2>1, <2>2 DEF OnePlace
<1>2. doing'[Console] = "reply" /\ pc'[Console] = "count" => Replied(got["iorq"])'
  BY DEF Requests, Replied
<1> QED BY <1>1, <1>2 DEF Requests

(* A step inside a call, or to another place before or after its message   *)
(* operation.                                                              *)
LEMMA RequestsGoto ==
    ASSUME Core, Requests, UNCHANGED <<msg_list, got, doing>>, created \subseteq created',
           NEW t \in Task, NEW l \in Labels, Goto(t, l), l # "count",
           pc[t] \in Done <=> l \in Done,
           t \in Client => t \in created'
    PROVE  Requests'
<1>1. \A u \in Task : pc'[u] = IF u = t THEN l ELSE pc[u]
  BY DEF Goto, Core, Placed
<1>2. Console \in Task /\ Console \notin Client /\ Client \subseteq Task
  BY QueueAssumption DEF Task
<1>3. ASSUME NEW c \in Client PROVE (Asks(c) => Asks(c)') /\ (Serves(c)' => Serves(c)) /\ Exists(c)'
  <2>1. pc'[c] \in Done <=> pc[c] \in Done
    BY <1>1, <1>2
  <2>2. pc'[Console] \in Done <=> pc[Console] \in Done
    BY <1>1, <1>2
  <2>3. Asks(c)' <=> Asks(c)
    BY <2>1 DEF Asks, Done
  <2>4. Serves(c)' <=> Serves(c)
    BY <2>2 DEF Serves, Done
  <2>5. Exists(c)'
    BY <1>1, <1>2 DEF Requests, Exists
  <2> QED BY <2>3, <2>4, <2>5
<1>4. /\ {"iorq", "keybd"} \subseteq created'
      /\ pc'[Console] = "count" => pc[Console] = "count"
  BY <1>1, <1>2 DEF Requests
<1> QED BY <1>3, <1>4, RequestsUntouched

(* A call returns: the client goes from its send to its receive and out of *)
(* do_io(), the console from a request to its keys and to its reply.       *)
LEMMA RequestsReturn ==
    ASSUME Core, Requests, UNCHANGED <<msg_list, got>>, NEW t \in Task, Return(t),
           pc[t] = "permit" \/ (pc[t] = "call" /\ doing[t] = "reply")
    PROVE  Requests'
<1>1. /\ \A u \in Task : pc'[u] = IF u = t THEN "call" ELSE pc[u]
      /\ \A u \in Task : doing'[u] = IF u = t THEN Then(doing[t]) ELSE doing[u]
      /\ created' = IF doing[t] = "recv" THEN created \ {t} ELSE created
  BY DEF Return, Goto, Core, Placed
<1>2. /\ Console \in Task /\ Console \notin Client /\ Client \subseteq Task
      /\ "iorq" \notin Client /\ "keybd" \notin Client
  BY QueueAssumption DEF Task
<1>3. doing[t] = "recv" => t \in Client
  BY <1>2 DEF Core, Placed, Task
<1>4. {"iorq", "keybd"} \subseteq created'
  BY <1>1, <1>2, <1>3 DEF Requests
<1>5. pc'[Console] = "count" => doing'[Console] = doing[Console] /\ pc[Console] = "count"
  BY <1>1, <1>2
<1>6. ASSUME NEW c \in Client PROVE Asks(c) => Asks(c)'
  <2>1. CASE c = t
    <3>1. doing[c] \in {"send", "recv"} /\ pc[c] = "permit"
      BY <1>2, <2>1 DEF Core, Placed
    <3>2. doing[c] = "send" => doing'[c] = "recv" /\ pc'[c] = "call"
      BY <1>1, <1>2, <2>1 DEF Then
    <3> QED BY <3>1, <3>2 DEF Asks, Done
  <2>2. CASE c # t
    BY <1>1, <1>2, <2>2 DEF Asks, Done
  <2> QED BY <2>1, <2>2
<1>7. ASSUME NEW c \in Client PROVE Serves(c)' => Serves(c)
  <2>1. CASE Console = t
    <3>1. doing[Console] = "reply" => doing'[Console] = "request" /\ pc'[Console] = "call"
      BY <1>1, <1>2, <2>1 DEF Then
    <3>2. doing[Console] = "request" => pc[Console] \in Done
      BY <2>1 DEF Done
    <3>3. doing[Console] \in {"request", "key", "reply"}
      BY DEF Core, Placed
    <3> QED BY <3>1, <3>2, <3>3 DEF Serves, Done
  <2>2. CASE Console # t
    BY <1>1, <1>2, <2>2 DEF Serves, Done
  <2> QED BY <2>1, <2>2
<1>8. ASSUME NEW c \in Client PROVE Exists(c)'
  <2>1. CASE c = t
    <3>1. doing[c] \in {"send", "recv"} /\ pc[c] = "permit" /\ c \in created
      BY <1>2, <2>1 DEF Core, Placed, Requests, Exists
    <3>2. /\ doing[c] = "send" => created' = created
          /\ doing[c] = "recv" => doing'[c] = "send" /\ pc'[c] = "call"
      BY <1>1, <1>2, <2>1, <3>1 DEF Then
    <3> QED BY <3>1, <3>2 DEF Exists
  <2>2. CASE c # t
    BY <1>1, <1>2, <2>2 DEF Exists, Requests
  <2> QED BY <2>1, <2>2
<1> QED BY <1>4, <1>5, <1>6, <1>7, <1>8, RequestsUntouched

(* A message more at the head (queue.c:58).                                *)
LEMMA PushElements ==
    ASSUME NEW T, NEW s \in Seq(T), NEW m \in T
    PROVE  /\ ToSet(<<m>> \o s) = ToSet(s) \cup {m}
           /\ NoDuplicates(s) /\ m \notin ToSet(s) => NoDuplicates(<<m>> \o s)
<1> DEFINE q == <<m>> \o s
<1>1. /\ q \in Seq(T) /\ Len(q) = Len(s) + 1 /\ Len(s) \in Nat
      /\ q[1] = m /\ \A i \in 1..Len(s) : q[i + 1] = s[i]
  BY PushFacts
<1> HIDE DEF q
<1>2. DOMAIN q = 1..(Len(s) + 1) /\ DOMAIN s = 1..Len(s)
  BY <1>1, LenProperties
<1>3. \A i \in 1..(Len(s) + 1) : i = 1 \/ (i - 1 \in 1..Len(s) /\ q[i] = s[i - 1])
  <2> SUFFICES ASSUME NEW i \in 1..(Len(s) + 1), i # 1 PROVE i - 1 \in 1..Len(s) /\ q[i] = s[i - 1]
    OBVIOUS
  <2>1. i - 1 \in 1..Len(s) /\ (i - 1) + 1 = i
    BY <1>1
  <2> QED BY <1>1, <2>1
<1>4. ASSUME NEW x \in ToSet(q) PROVE x \in ToSet(s) \cup {m}
  <2>1. PICK i \in 1..(Len(s) + 1) : q[i] = x
    BY <1>2 DEF ToSet
  <2>2. i = 1 \/ (i - 1 \in DOMAIN s /\ s[i - 1] = x)
    BY <1>2, <1>3, <2>1
  <2> QED BY <1>1, <2>1, <2>2 DEF ToSet
<1>5. ASSUME NEW x \in ToSet(s) PROVE x \in ToSet(q)
  <2>1. PICK i \in 1..Len(s) : s[i] = x
    BY <1>2 DEF ToSet
  <2>2. i + 1 \in 1..(Len(s) + 1) /\ q[i + 1] = x
    BY <1>1, <2>1
  <2> QED BY <1>2, <2>2 DEF ToSet
<1>6. m \in ToSet(q)
  BY <1>1, <1>2 DEF ToSet
<1>7. ASSUME NoDuplicates(s), m \notin ToSet(s) PROVE NoDuplicates(q)
  <2>1. \A i \in 1..Len(s) : s[i] # m
    BY <1>2, <1>7 DEF ToSet
  <2>2. ASSUME NEW i \in 1..(Len(s) + 1), NEW j \in 1..(Len(s) + 1), q[i] = q[j] PROVE i = j
    <3>1. CASE i = 1 \/ j = 1
      BY <1>1, <1>3, <2>1, <2>2, <3>1
    <3>2. CASE i # 1 /\ j # 1
      <4>1. i - 1 \in DOMAIN s /\ j - 1 \in DOMAIN s /\ s[i - 1] = s[j - 1]
        BY <1>2, <1>3, <2>2, <3>2
      <4>2. i - 1 = j - 1
        BY <1>7, <4>1 DEF NoDuplicates
      <4> QED BY <4>2
    <3> QED BY <3>1, <3>2
  <2> QED BY <1>2, <2>2 DEF NoDuplicates
<1> QED BY <1>4, <1>5, <1>6, <1>7 DEF q

(* The message at the tail gone (queue.c:100).                             *)
LEMMA PopElements ==
    ASSUME NEW T, NEW s \in Seq(T), Len(s) > 0, NoDuplicates(s)
    PROVE  /\ Last(s) \in ToSet(s) /\ NoDuplicates(Front(s))
           /\ ToSet(Front(s)) = ToSet(s) \ {Last(s)}
<1> DEFINE q == Front(s)
<1>1. /\ q \in Seq(T) /\ Len(q) = Len(s) - 1 /\ Len(s) \in Nat
      /\ \A i \in 1..(Len(s) - 1) : q[i] = s[i]
  BY PopFacts
<1> HIDE DEF q
<1>2. DOMAIN q = 1..(Len(s) - 1) /\ DOMAIN s = 1..Len(s)
  BY <1>1, LenProperties
<1>3. Len(s) \in DOMAIN s /\ Last(s) = s[Len(s)]
  BY <1>1, <1>2 DEF Last
<1>4. NoDuplicates(q)
  BY <1>1, <1>2 DEF NoDuplicates
<1>5. ASSUME NEW x \in ToSet(q) PROVE x \in ToSet(s) \ {Last(s)}
  <2>1. PICK i \in 1..(Len(s) - 1) : q[i] = x
    BY <1>2, <1>5 DEF ToSet
  <2>2. i \in DOMAIN s /\ i # Len(s) /\ s[i] = x
    BY <1>1, <1>2, <2>1
  <2> QED BY <1>3, <2>2 DEF ToSet, NoDuplicates
<1>6. ASSUME NEW x \in ToSet(s) \ {Last(s)} PROVE x \in ToSet(q)
  <2>1. PICK i \in 1..Len(s) : s[i] = x
    BY <1>2 DEF ToSet
  <2>2. i \in 1..(Len(s) - 1) /\ q[i] = x
    BY <1>1, <1>3, <2>1
  <2> QED BY <1>2, <2>2 DEF ToSet
<1>7. Last(s) \in ToSet(s)
  BY <1>3 DEF ToSet
<1> QED BY <1>4, <1>5, <1>6, <1>7 DEF q

(* A message moves: a request into the queue and out of it, a key, a reply *)
(* into its queue and out of it.                                           *)
LEMMA RequestsMove ==
    ASSUME Core, Requests, NEW t \in Task, Move(t)
    PROVE  Requests'
<1> DEFINE q == queue(t)
<1>1. /\ \A u \in Task : pc'[u] = IF u = t THEN "count" ELSE pc[u]
      /\ pc[t] = "move" /\ doing' = doing /\ created' = created
      /\ \A u \in Task \ {t} : pc[u] \notin Section
      /\ Sending(t) => msg_list' = [msg_list EXCEPT ![q] = <<Msg(t)>> \o @] /\ got' = got
      /\ ~Sending(t) => /\ msg_list' = [msg_list EXCEPT ![q] = Front(@)]
                        /\ got' = [got EXCEPT ![q] = Last(msg_list[q])] /\ Len(msg_list[q]) > 0
  BY MoveFacts DEF Core, Placed, Move
<1>2. /\ Console \in Task /\ Console \notin Client /\ Client \subseteq Task
      /\ "iorq" \notin Client /\ "keybd" \notin Client
      /\ Client \subseteq Queues /\ "iorq" \in Queues /\ "keybd" \in Queues
      /\ msg_list \in [Queues -> Seq(Messages)] /\ got \in [Queues -> Messages]
      /\ msg_list["iorq"] \in Seq(Client) /\ NoDuplicates(msg_list["iorq"])
  BY QueueAssumption DEF Task, Queues, Core, Supplied, Requests
<1>3. \A c \in Client : OnePlace(c) /\ Exists(c)'
  BY <1>1, <1>2 DEF Requests, Exists
<1>4. \A c \in Client : c # t => Asks(c)' = Asks(c)
  BY <1>1, <1>2 DEF Asks, Done
<1>5. t # Console => (got'["iorq"] = got["iorq"] => \A c \in Client : Serves(c)' = Serves(c))
                     /\ pc'[Console] # "count"
  BY <1>1, <1>2 DEF Serves, Done, Section
<1>6. CASE doing[t] = "send"
  <2>1. t \in Client /\ q = "iorq" /\ Sending(t) /\ Msg(t) = t /\ t # Console
    BY <1>2, <1>6, QueueOfCall DEF Core, Msg
  <2>2. /\ msg_list'["iorq"] = <<t>> \o msg_list["iorq"] /\ got' = got
        /\ \A c \in Client : msg_list'[c] = msg_list[c]
    BY <1>1, <1>2, <2>1
  <2>3. ~Asks(t) /\ Asks(t)'
    BY <1>1, <1>2, <1>6 DEF Asks, Done
  <2>4. ~Queued(t) /\ ~Serves(t) /\ ~Replied(t)
    BY <1>3, <2>1, <2>3 DEF OnePlace
  <2>5. /\ ToSet(msg_list'["iorq"]) = ToSet(msg_list["iorq"]) \cup {t}
        /\ NoDuplicates(msg_list'["iorq"])
    BY <1>2, <2>1, <2>2, <2>4, PushElements DEF Queued
  <2>6. ASSUME NEW c \in Client PROVE OnePlace(c)'
    <3>1. (Queued(c)' <=> Queued(c) \/ c = t) /\ (Serves(c)' <=> Serves(c)) /\ (Replied(c)' <=> Replied(c))
      BY <1>5, <2>1, <2>2, <2>5 DEF Queued, Replied
    <3>2. CASE c = t
      BY <1>3, <2>2, <2>3, <2>4, <3>1, <3>2 DEF OnePlace
    <3>3. CASE c # t
      BY <1>3, <1>4, <2>2, <3>1, <3>3 DEF OnePlace
    <3> QED BY <3>2, <3>3
  <2> QED BY <1>1, <1>3, <1>5, <2>1, <2>5, <2>6 DEF Requests
<1>7. CASE doing[t] = "recv"
  <2>1. t \in Client /\ q = t /\ ~Sending(t) /\ t # Console /\ t # "iorq"
    BY <1>2, <1>7, QueueOfCall DEF Core
  <2>2. /\ msg_list'[t] = Front(msg_list[t]) /\ msg_list'["iorq"] = msg_list["iorq"]
        /\ got'["iorq"] = got["iorq"] /\ Len(msg_list[t]) > 0 /\ msg_list[t] \in Seq(Messages)
        /\ \A c \in Client : c # t => msg_list'[c] = msg_list[c]
    BY <1>1, <1>2, <2>1
  <2>3. Replied(t) /\ ~Queued(t) /\ ~Serves(t) /\ Len(msg_list[t]) <= 1
    BY <1>3, <2>1, <2>2, EmptySeq DEF OnePlace, Replied
  <2>4. Len(msg_list'[t]) = 0 /\ msg_list'[t] \in Seq(Messages)
    BY <2>2, <2>3, PopFacts
  <2>5. ~Replied(t)'
    BY <2>4, EmptySeq DEF Replied
  <2>6. ASSUME NEW c \in Client PROVE OnePlace(c)'
    <3>1. (Queued(c)' <=> Queued(c)) /\ (Serves(c)' <=> Serves(c))
      BY <1>5, <2>1, <2>2 DEF Queued
    <3>2. CASE c = t
      BY <2>3, <2>4, <2>5, <3>1, <3>2 DEF OnePlace
    <3>3. CASE c # t
      BY <1>3, <1>4, <2>2, <3>1, <3>3 DEF OnePlace, Replied
    <3> QED BY <3>2, <3>3
  <2> QED BY <1>1, <1>2, <1>3, <1>5, <2>1, <2>2, <2>6 DEF Requests
<1>8. CASE doing[t] = "request"
  <2> DEFINE c == Last(msg_list["iorq"])
  <2>1. t = Console /\ q = "iorq" /\ ~Sending(t)
    BY <1>8, QueueOfCall DEF Core
  <2>2. /\ msg_list'["iorq"] = Front(msg_list["iorq"]) /\ got'["iorq"] = c /\ Len(msg_list["iorq"]) > 0
        /\ \A d \in Client : msg_list'[d] = msg_list[d]
    BY <1>1, <1>2, <2>1
  <2>3. /\ Queued(c) /\ c \in Client /\ NoDuplicates(msg_list'["iorq"])
        /\ ToSet(msg_list'["iorq"]) = ToSet(msg_list["iorq"]) \ {c}
    BY <1>2, <2>2, PopElements, PopFacts DEF Queued
  <2> HIDE DEF c
  <2>4. ASSUME NEW d \in Client PROVE OnePlace(d)'
    <3>1. Asks(d)' = Asks(d) /\ Replied(d)' = Replied(d) /\ (Queued(d)' <=> Queued(d) /\ d # c)
      BY <1>2, <1>4, <2>1, <2>2, <2>3 DEF Queued, Replied
    <3>2. Serves(d)' => d = c
      BY <2>2 DEF Serves
    <3> QED BY <1>3, <2>2, <2>3, <3>1, <3>2 DEF OnePlace
  <2>5. doing'[Console] # "reply"
    BY <1>1, <1>8, <2>1
  <2> QED BY <1>1, <1>3, <2>3, <2>4, <2>5 DEF Requests
<1>9. CASE doing[t] = "key"
  <2>1. t = Console /\ q = "keybd" /\ ~Sending(t)
    BY <1>9, QueueOfCall DEF Core
  <2>2. /\ msg_list'["iorq"] = msg_list["iorq"] /\ got'["iorq"] = got["iorq"]
        /\ \A d \in Client : msg_list'[d] = msg_list[d]
    BY <1>1, <1>2, <2>1
  <2>3. ASSUME NEW d \in Client PROVE OnePlace(d)'
    <3>1. Asks(d)' = Asks(d) /\ Replied(d)' = Replied(d) /\ Queued(d)' = Queued(d)
      BY <1>2, <1>4, <2>1, <2>2 DEF Queued, Replied
    <3>2. Serves(d)' <=> Serves(d)
      BY <1>1, <1>9, <2>1, <2>2 DEF Serves
    <3> QED BY <1>3, <2>2, <3>1, <3>2 DEF OnePlace
  <2>4. doing'[Console] # "reply"
    BY <1>1, <1>9, <2>1
  <2> QED BY <1>1, <1>2, <1>3, <2>2, <2>3, <2>4 DEF Requests
<1>10. CASE doing[t] = "reply"
  <2>0. PICK c \in Client : c = got["iorq"]
    BY <1>10, QueueOfCall DEF Core
  <2>1. t = Console /\ q = c /\ Sending(t)
    BY <1>10, <2>0, QueueOfCall DEF Core
  <2>2. /\ msg_list'["iorq"] = msg_list["iorq"] /\ got' = got
        /\ msg_list'[c] = <<Msg(t)>> \o msg_list[c]
        /\ \A d \in Client : d # c => msg_list'[d] = msg_list[d]
    BY <1>1, <1>2, <2>1
  <2>3. Serves(c)
    BY <1>1, <1>10, <2>0, <2>1 DEF Serves, Done
  <2>4. Asks(c) /\ ~Queued(c) /\ ~Replied(c) /\ Asks(c)'
    BY <1>2, <1>3, <1>4, <2>1, <2>3 DEF OnePlace
  <2>5. ~Serves(c)' /\ \A d \in Client : Serves(d)' => d = c
    BY <1>1, <1>10, <2>0, <2>1, <2>2 DEF Serves, Done
  <2>6. Len(msg_list'[c]) = 1 /\ Replied(c)'
    <3>1. msg_list[c] \in Seq(Messages) /\ msg_list[c] = <<>> /\ Msg(t) \in Messages
      BY <1>2, <2>1, <2>4, MoveFacts DEF Replied
    <3>2. Len(msg_list'[c]) = 1
      BY <2>2, <3>1
    <3> QED BY <2>1, <2>2, <3>2 DEF Replied
  <2>7. ASSUME NEW d \in Client PROVE OnePlace(d)'
    <3>1. Queued(d)' = Queued(d)
      BY <2>2 DEF Queued
    <3>2. CASE d = c
      BY <2>2, <2>4, <2>5, <2>6, <3>1, <3>2 DEF OnePlace
    <3>3. CASE d # c
      BY <1>2, <1>3, <1>4, <2>1, <2>2, <2>5, <3>1, <3>3 DEF OnePlace, Replied
    <3> QED BY <3>2, <3>3
  <2>8. Replied(got["iorq"])'
    BY <2>0, <2>2, <2>6 DEF Replied
  <2> QED BY <1>1, <1>2, <1>3, <2>2, <2>7, <2>8 DEF Requests
<1> QED BY <1>6, <1>7, <1>8, <1>9, <1>10 DEF Core, Placed

(* Every step keeps a request in one place.                                *)
LEMMA NextRequests == Core /\ Requests /\ [Next]_vars => Requests'
<1> SUFFICES ASSUME Core, Requests, [Next]_vars PROVE Requests'
  OBVIOUS
<1> USE DEF Done
<1>1. ASSUME UNCHANGED <<msg_list, got, pc, doing, created>> PROVE Requests'
  <2>1. \A c \in Client : (Asks(c) => Asks(c)') /\ (Serves(c)' => Serves(c)) /\ Exists(c)'
    BY <1>1 DEF Asks, Serves, Exists, Requests
  <2> QED BY <1>1, <2>1, RequestsUntouched DEF Requests
<1>2. ASSUME NEW t \in Task, t \in Client, doing[t] = "recv" \/ pc[t] # "call" PROVE t \in created
  BY <1>2 DEF Requests, Exists
<1>3. ASSUME NEW t \in Task, Call(t) PROVE Requests'
  <2>1. pc[t] = "call" /\ UNCHANGED <<msg_list, got>>
    BY <1>3 DEF Call
  <2>2. ASSUME doing' = doing, created' = IF doing[t] = "send" THEN created \cup {t} ELSE created,
               NEW l \in {"move", "wait"}, Goto(t, l)
        PROVE  Requests'
    <3>1. t \in Client => doing[t] = "send" \/ t \in created
      BY <1>2 DEF Core, Placed
    <3>2. created \subseteq created' /\ (t \in Client => t \in created')
      BY <2>2, <3>1
    <3> QED BY <2>1, <2>2, <3>2, RequestsGoto DEF Labels, Section
  <2>3. ASSUME ~Blocking(t), Return(t) PROVE Requests'
    <3>1. doing[t] = "reply"
      BY <2>3 DEF Blocking
    <3> QED BY <2>1, <2>3, <3>1, RequestsReturn
  <2> QED BY <1>3, <2>2, <2>3 DEF Call
<1>4. ASSUME NEW t \in Task, Wait(t) PROVE Requests'
  BY <1>2, <1>4, RequestsGoto DEF Wait, Labels
<1>5. ASSUME NEW t \in Task, Woken(t) PROVE Requests'
  BY <1>2, <1>5, RequestsGoto DEF Woken, Retry, Labels, Section
<1>6. ASSUME NEW t \in Task, Count(t) PROVE Requests'
  BY <1>2, <1>6, RequestsGoto DEF Count, Labels
<1>7. ASSUME NEW t \in Task, NextWaiter(t) PROVE Requests'
  <2>1. CASE pc' = pc
    BY <1>1, <1>7, <2>1 DEF NextWaiter
  <2>2. CASE pc' # pc
    BY <1>2, <1>7, <2>2, RequestsGoto DEF NextWaiter, Labels
  <2> QED BY <2>1, <2>2
<1>8. ASSUME NEW t \in Task, Permit(t) PROVE Requests'
  BY <1>8, RequestsReturn DEF Permit
<1>9. ASSUME TimeSlice \/ TimerTask \/ KeyDropped \/ UNCHANGED vars PROVE Requests'
  BY <1>1, <1>9 DEF TimeSlice, TimerTask, KeyDropped, vars
<1>10. ASSUME NEW k \in load.keys, KeyPress(k) PROVE Requests'
  <2>1. /\ msg_list'["iorq"] = msg_list["iorq"] /\ UNCHANGED <<got, pc, doing, created>>
        /\ msg_list' = [msg_list EXCEPT !["keybd"] = <<k>> \o @]
    BY <1>10, KeyFacts DEF KeyPress
  <2>2. \A c \in Client : msg_list'[c] = msg_list[c]
    BY <2>1, QueueAssumption DEF Core, Supplied, Queues
  <2>3. ASSUME NEW c \in Client PROVE OnePlace(c)' /\ Exists(c)'
    <3>1. /\ Asks(c)' = Asks(c) /\ Serves(c)' = Serves(c)
          /\ Queued(c)' = Queued(c) /\ Replied(c)' = Replied(c)
      BY <2>1, <2>2 DEF Asks, Serves, Queued, Replied
    <3> QED BY <2>1, <2>2, <3>1 DEF OnePlace, Exists, Requests
  <2>4. ASSUME doing[Console] = "reply", pc[Console] = "count" PROVE Replied(got["iorq"])'
    <3>1. got["iorq"] \in Client /\ Replied(got["iorq"])
      BY <2>4 DEF Requests, Core, Supplied, Holding
    <3> QED BY <2>1, <2>2, <3>1 DEF Replied
  <2> QED BY <2>1, <2>3, <2>4 DEF Requests
<1>11. ASSUME NEW t \in Task, Move(t) PROVE Requests'
  BY <1>11, RequestsMove
<1> QED
  BY <1>3, <1>4, <1>5, <1>6, <1>7, <1>8, <1>9, <1>10, <1>11 DEF Next, TaskStep

(* There is no request yet.                                                *)
LEMMA InitRequests == Init => Requests
<1> SUFFICES ASSUME Init PROVE Requests
  OBVIOUS
<1>1. /\ Console \notin Client /\ Client \subseteq Task /\ Client \subseteq Queues /\ "iorq" \in Queues
  BY QueueAssumption DEF Task, Queues
<1>2. /\ doing[Console] = "request" /\ pc[Console] = "call" /\ created = {"iorq", "keybd"}
      /\ \A c \in Client : doing[c] = "send" /\ pc[c] = "call" /\ msg_list[c] = <<>>
      /\ msg_list["iorq"] = <<>>
  BY <1>1 DEF Init, Task
<1>3. NoDuplicates(msg_list["iorq"]) /\ ToSet(msg_list["iorq"]) = {}
  BY <1>2 DEF NoDuplicates, ToSet
<1>4. ASSUME NEW c \in Client PROVE OnePlace(c) /\ Exists(c)
  BY <1>2, <1>3, EmptySeq DEF OnePlace, Exists, Queued, Serves, Replied, Done
<1> QED BY <1>2, <1>3, <1>4 DEF Requests

(* A request is in one place as long as its client is inside do_io()       *)
(* (device.c:27-41).                                                       *)
THEOREM QueueRequests == Spec => [](Core /\ Requests)
<1> QED BY InitCore, NextCore, InitRequests, NextRequests, PTL DEF Spec

(* The console's work on a request ends before do_io() destroys the reply  *)
(* queue (device.c:39, console.c:98-125).                                  *)
THEOREM QueueRequestStays == Spec => []RequestStays
<1>1. Core /\ Requests => RequestStays
  <2> SUFFICES ASSUME Core, Requests,
                      \/ doing[Console] = "key"
                      \/ doing[Console] = "reply" /\ pc[Console] \in {"call", "move", "count"}
               PROVE  got["iorq"] \in created
    BY DEF RequestStays
  <2> DEFINE c == got["iorq"]
  <2>1. c \in Client
    BY DEF Core, Supplied, Holding
  <2>2. Serves(c) \/ Replied(c)
    BY DEF Serves, Requests, Done
  <2>3. Asks(c)
    BY <2>1, <2>2 DEF Requests, OnePlace
  <2> QED BY <2>1, <2>3 DEF Asks, Done, Requests, Exists
<1> QED BY QueueRequests, <1>1, PTL

(* free_slots says what is in the list, and a queue that does not exist    *)
(* holds no message (queue.c:58-59, 100-106; device.c:39).                 *)
THEOREM QueueSlotsAgree == Spec => []SlotsAgree
<1>1. Core /\ Requests => SlotsAgree
  <2> SUFFICES ASSUME Core, Requests, NEW q \in Queues
               PROVE  /\ q \notin created => msg_list[q] = <<>>
                      /\ free_slots[q] + Len(msg_list[q])
                         = max_slots(q) + Cardinality(Counting(q, TRUE)) - Cardinality(Counting(q, FALSE))
    BY DEF SlotsAgree
  <2> DEFINE sends == Cardinality(Counting(q, TRUE))
             receives == Cardinality(Counting(q, FALSE))
  <2>1. ASSUME q \notin created PROVE msg_list[q] = <<>>
    <3>1. q \in Client
      BY <2>1 DEF Requests, Queues
    <3>2. ~Asks(q)
      BY <2>1, <3>1 DEF Asks, Done, Requests, Exists
    <3> QED BY <3>1, <3>2 DEF Requests, OnePlace, Replied
  <2>2. free_slots[q] \in Int /\ Len(msg_list[q]) \in Nat /\ max_slots(q) \in Int
    BY LenProperties, QueueAssumption DEF Core, Supplied, max_slots
  <2>3. CASE \E t \in Task : Counts(t, q)
    <3>1. PICK t \in Task : Counts(t, q)
      BY <2>3
    <3>2. \A u \in Task : pc[u] = "count" => u = t
      BY <3>1 DEF Counts, Core, Sectioned, SectionsExclude
    <3>3. free_slots[q] + Len(msg_list[q]) = IF Sending(t) THEN max_slots(q) + 1 ELSE max_slots(q) - 1
      BY <3>1 DEF Counts, Core, Balanced, Used
    <3>4. CASE Sending(t)
      <4>1. sends = 1 /\ receives = 0
        <5>1. Counting(q, TRUE) = {t} /\ Counting(q, FALSE) = {}
          BY <3>1, <3>2, <3>4 DEF Counting, Counts
        <5> QED BY <5>1, FS_Singleton, FS_EmptySet
      <4> HIDE DEF sends, receives
      <4>2. free_slots[q] + Len(msg_list[q]) = max_slots(q) + sends - receives
        BY <2>2, <3>3, <3>4, <4>1
      <4> QED BY <2>1, <4>2 DEF sends, receives
    <3>5. CASE ~Sending(t)
      <4>1. sends = 0 /\ receives = 1
        <5>1. Counting(q, TRUE) = {} /\ Counting(q, FALSE) = {t}
          BY <3>1, <3>2, <3>5 DEF Counting, Counts
        <5> QED BY <5>1, FS_Singleton, FS_EmptySet
      <4> HIDE DEF sends, receives
      <4>2. free_slots[q] + Len(msg_list[q]) = max_slots(q) + sends - receives
        BY <2>2, <3>3, <3>5, <4>1
      <4> QED BY <2>1, <4>2 DEF sends, receives
    <3> QED BY <3>4, <3>5
  <2>4. CASE \A t \in Task : ~Counts(t, q)
    <3>1. Counting(q, TRUE) = {} /\ Counting(q, FALSE) = {}
      BY <2>4 DEF Counting, Counts
    <3>2. sends = 0 /\ receives = 0
      BY <3>1, FS_EmptySet
    <3>3. free_slots[q] + Len(msg_list[q]) = max_slots(q)
      BY <2>4 DEF Core, Balanced, Used
    <3> HIDE DEF sends, receives
    <3>4. free_slots[q] + Len(msg_list[q]) = max_slots(q) + sends - receives
      BY <2>2, <3>2, <3>3
    <3> QED BY <2>1, <3>4 DEF sends, receives
  <2> QED BY <2>3, <2>4
<1> QED BY QueueRequests, <1>1, PTL

-----------------------------------------------------------------------------
(* The queues are channels: a list read from its tail is the content.      *)

LEMMA ReverseFacts ==
    ASSUME NEW T, NEW s \in Seq(T)
    PROVE  /\ Reverse(s) \in Seq(T) /\ Len(Reverse(s)) = Len(s) /\ Len(s) \in Nat
           /\ \A i \in 1..Len(s) : Reverse(s)[i] = s[Len(s) - i + 1]
<1>1. Len(s) \in Nat /\ \A i \in 1..Len(s) : s[i] \in T
  BY LenProperties
<1>2. \A i \in 1..Len(s) : Len(s) - i + 1 \in 1..Len(s)
  BY <1>1
<1> QED BY <1>1, <1>2 DEF Reverse

(* What goes in at the head is the youngest.                               *)
LEMMA ReversePush ==
    ASSUME NEW T, NEW s \in Seq(T), NEW m \in T
    PROVE  Reverse(<<m>> \o s) = Append(Reverse(s), m)
<1> DEFINE q == <<m>> \o s
           a == Reverse(q)
           b == Append(Reverse(s), m)
<1>1. /\ q \in Seq(T) /\ Len(q) = Len(s) + 1 /\ Len(s) \in Nat
      /\ q[1] = m /\ \A i \in 1..Len(s) : q[i + 1] = s[i]
  BY PushFacts
<1>2. /\ Reverse(s) \in Seq(T) /\ Len(Reverse(s)) = Len(s)
      /\ \A i \in 1..Len(s) : Reverse(s)[i] = s[Len(s) - i + 1]
  BY ReverseFacts
<1>3. /\ b \in Seq(T) /\ Len(b) = Len(s) + 1 /\ b[Len(s) + 1] = m
      /\ \A i \in 1..Len(s) : b[i] = Reverse(s)[i]
  BY <1>2, AppendProperties
<1> HIDE DEF q, b
<1>4. /\ a \in Seq(T) /\ Len(a) = Len(q)
      /\ \A i \in 1..Len(q) : a[i] = q[Len(q) - i + 1]
  BY <1>1, ReverseFacts
<1> HIDE DEF a
<1>5. ASSUME NEW i \in 1..Len(a) PROVE a[i] = b[i]
  <2>1. CASE i = Len(s) + 1
    BY <1>1, <1>3, <1>4, <2>1
  <2>2. CASE i # Len(s) + 1
    <3>1. i \in 1..Len(s) /\ Len(s) - i + 1 \in 1..Len(s) /\ Len(q) - i + 1 = (Len(s) - i + 1) + 1
      BY <1>1, <1>4, <2>2
    <3>2. a[i] = s[Len(s) - i + 1]
      BY <1>1, <1>4, <3>1
    <3> QED BY <1>2, <1>3, <3>1, <3>2
  <2> QED BY <2>1, <2>2
<1>6. a = b
  BY <1>1, <1>3, <1>4, <1>5, SeqEqual
<1> QED BY <1>6 DEF a, b, q

(* What comes out at the tail is the oldest.                               *)
LEMMA ReversePop ==
    ASSUME NEW T, NEW s \in Seq(T), Len(s) > 0
    PROVE  /\ Reverse(s) # <<>> /\ Head(Reverse(s)) = Last(s)
           /\ Tail(Reverse(s)) = Reverse(Front(s))
<1> DEFINE r == Reverse(s)
           a == Tail(r)
           b == Reverse(Front(s))
<1>1. /\ r \in Seq(T) /\ Len(r) = Len(s) /\ Len(s) \in Nat
      /\ \A i \in 1..Len(s) : r[i] = s[Len(s) - i + 1]
  BY ReverseFacts
<1>2. /\ Front(s) \in Seq(T) /\ Len(Front(s)) = Len(s) - 1
      /\ \A i \in 1..(Len(s) - 1) : Front(s)[i] = s[i]
  BY PopFacts
<1>3. /\ b \in Seq(T) /\ Len(b) = Len(s) - 1
      /\ \A i \in 1..(Len(s) - 1) : b[i] = Front(s)[Len(s) - 1 - i + 1]
  BY <1>2, ReverseFacts
<1> HIDE DEF r, b
<1>4. r # <<>> /\ Head(r) = r[1]
  BY <1>1, EmptySeq
<1>5. a \in Seq(T) /\ Len(a) = Len(r) - 1 /\ \A i \in 1..Len(a) : a[i] = r[i + 1]
  BY <1>1, <1>4, HeadTailProperties
<1> HIDE DEF a
<1>6. ASSUME NEW i \in 1..Len(a) PROVE a[i] = b[i]
  <2>1. /\ i \in 1..(Len(s) - 1) /\ i + 1 \in 1..Len(s)
        /\ Len(s) - (i + 1) + 1 = Len(s) - i /\ Len(s) - 1 - i + 1 = Len(s) - i
        /\ Len(s) - i \in 1..(Len(s) - 1)
    BY <1>1, <1>5
  <2>2. a[i] = s[Len(s) - i]
    BY <1>1, <1>5, <2>1
  <2>3. b[i] = s[Len(s) - i]
    BY <1>2, <1>3, <2>1
  <2> QED BY <2>2, <2>3
<1>7. a = b
  BY <1>1, <1>3, <1>5, <1>6, SeqEqual
<1>8. Head(r) = Last(s)
  <2>1. 1 \in 1..Len(s) /\ Len(s) - 1 + 1 = Len(s)
    BY <1>1
  <2> QED BY <1>1, <1>4, <2>1 DEF Last
<1> QED BY <1>4, <1>7, <1>8 DEF r, a, b

(* Empty queues are empty channels.                                        *)
LEMMA QueuesAreChannelsInit == Init => Chan!Init
<1> SUFFICES ASSUME Init PROVE Chan!Init
  OBVIOUS
<1>1. load.slots \in Nat \ {0}
  BY QueueAssumption DEF Init
<1>2. \A q \in Queues : max_slots(q) \in Nat \ {0}
  BY <1>1 DEF max_slots
<1>3. \A q \in Queues : Reverse(msg_list[q]) = <<>>
  <2>1. \A q \in Queues : msg_list[q] = <<>>
    BY DEF Init
  <2>2. Reverse(<<>>) = <<>>
    <3>1. Reverse(<<>>) \in Seq({}) /\ Len(Reverse(<<>>)) = 0
      BY ReverseFacts, EmptySeq
    <3> QED BY <3>1, EmptySeq
  <2> QED BY <2>1, <2>2
<1>4. got \in [Queues -> Messages]
  BY DEF Init, Messages
<1> QED BY <1>2, <1>3, <1>4 DEF Chan!Init

(* Every step sends a message, receives one, or changes no channel.        *)
LEMMA QueuesAreChannelsNext == Core /\ [Next]_vars => [Chan!Next]_(Chan!vars)
<1> SUFFICES ASSUME Core, [Next]_vars PROVE Chan!Next \/ UNCHANGED Chan!vars
  OBVIOUS
<1> DEFINE content == [q \in Queues |-> Reverse(msg_list[q])]
           capacity == [q \in Queues |-> max_slots(q)]
<1>1. /\ msg_list \in [Queues -> Seq(Messages)] /\ free_slots \in [Queues -> Int]
      /\ got \in [Queues -> Messages] /\ \A q \in Queues : max_slots(q) \in Int
  BY QueueAssumption DEF Core, Supplied, max_slots
<1>2. load' = load
  BY DEF Next, TaskStep, Call, Wait, Woken, Move, Count, NextWaiter, Permit, TimeSlice,
         TimerTask, KeyPress, KeyDropped, vars
<1>3. capacity' = capacity
  BY <1>2 DEF max_slots
<1>4. ASSUME UNCHANGED <<msg_list, got>> PROVE UNCHANGED Chan!vars
  <2>1. content' = content
    BY <1>4
  <2> QED BY <1>3, <1>4, <2>1 DEF Chan!vars
<1>5. ASSUME NEW q \in Queues, NEW m \in Messages, got' = got,
             msg_list' = [msg_list EXCEPT ![q] = <<m>> \o @], Len(msg_list[q]) < max_slots(q)
      PROVE  Chan!Next
  <2>1. /\ msg_list[q] \in Seq(Messages) /\ Len(Reverse(msg_list[q])) = Len(msg_list[q])
        /\ Reverse(<<m>> \o msg_list[q]) = Append(Reverse(msg_list[q]), m)
    BY <1>1, ReverseFacts, ReversePush
  <2>2. content' = [content EXCEPT ![q] = Append(content[q], m)]
    BY <1>1, <1>5, <2>1
  <2>3. Len(content[q]) < capacity[q]
    BY <1>5, <2>1
  <2>4. Chan!Send(q, m)
    BY <1>3, <1>5, <2>2, <2>3 DEF Chan!Send
  <2> QED BY <2>4 DEF Chan!Next
<1>6. ASSUME NEW t \in Task, Move(t) PROVE Chan!Next
  <2> DEFINE q == queue(t)
  <2>1. /\ q \in Queues /\ msg_list[q] \in Seq(Messages) /\ Possible(t)
        /\ free_slots[q] + Len(msg_list[q]) = max_slots(q)
        /\ Sending(t) => /\ msg_list' = [msg_list EXCEPT ![q] = <<Msg(t)>> \o @] /\ got' = got
                         /\ Msg(t) \in Messages
        /\ ~Sending(t) => /\ msg_list' = [msg_list EXCEPT ![q] = Front(@)] /\ Len(msg_list[q]) > 0
                          /\ got' = [got EXCEPT ![q] = Last(msg_list[q])]
    BY <1>6, MoveFacts
  <2>2. Len(msg_list[q]) \in Nat /\ free_slots[q] \in Int /\ max_slots(q) \in Int
    BY <1>1, <2>1, LenProperties
  <2>3. CASE Sending(t)
    <3>1. free_slots[q] > 0
      BY <2>1, <2>3 DEF Possible
    <3> HIDE DEF q
    <3>2. Len(msg_list[q]) < max_slots(q)
      BY <2>1, <2>2, <3>1
    <3> QED BY <1>5, <2>1, <2>3, <3>2
  <2>4. CASE ~Sending(t)
    <3>1. PICK r \in Queues : r = q
      BY <2>1
    <3>2. /\ msg_list' = [msg_list EXCEPT ![r] = Front(@)] /\ got' = [got EXCEPT ![r] = Last(msg_list[r])]
          /\ msg_list[r] \in Seq(Messages) /\ Len(msg_list[r]) > 0
      BY <2>1, <2>4, <3>1
    <3>3. /\ Reverse(msg_list[r]) # <<>> /\ Head(Reverse(msg_list[r])) = Last(msg_list[r])
          /\ Tail(Reverse(msg_list[r])) = Reverse(Front(msg_list[r]))
      BY <3>2, ReversePop
    <3>4. content' = [content EXCEPT ![r] = Tail(content[r])] /\ content[r] # <<>>
      BY <1>1, <3>2, <3>3
    <3>5. got' = [got EXCEPT ![r] = Head(content[r])]
      BY <3>2, <3>3
    <3>6. Chan!Receive(r)
      BY <1>3, <3>4, <3>5 DEF Chan!Receive
    <3> QED BY <3>6 DEF Chan!Next
  <2> QED BY <2>3, <2>4
<1>7. ASSUME NEW k \in load.keys, KeyPress(k) PROVE Chan!Next
  <2>1. /\ \A t \in Task : ~Counts(t, "keybd")
        /\ free_slots["keybd"] > 0 /\ msg_list["keybd"] \in Seq(Messages) /\ k \in Messages
        /\ msg_list' = [msg_list EXCEPT !["keybd"] = <<k>> \o @] /\ got' = got
    BY <1>7, KeyFacts
  <2>2. "keybd" \in Queues /\ free_slots["keybd"] \in Int /\ Len(msg_list["keybd"]) \in Nat
    BY <1>1, <2>1, LenProperties DEF Queues
  <2>3. free_slots["keybd"] + Len(msg_list["keybd"]) = max_slots("keybd") /\ max_slots("keybd") = 1
    BY <2>1, <2>2 DEF Core, Balanced, Used, max_slots
  <2>4. Len(msg_list["keybd"]) < 1
    BY <2>1, <2>2, <2>3
  <2> QED BY <1>5, <2>1, <2>2, <2>3, <2>4
<1>8. ASSUME NEW t \in Task, Call(t) \/ Wait(t) \/ Woken(t) \/ Count(t) \/ NextWaiter(t) \/ Permit(t)
      PROVE  UNCHANGED Chan!vars
  BY <1>4, <1>8 DEF Call, Wait, Woken, Count, NextWaiter, Permit
<1>9. ASSUME TimeSlice \/ TimerTask \/ KeyDropped \/ UNCHANGED vars PROVE UNCHANGED Chan!vars
  BY <1>4, <1>9 DEF TimeSlice, TimerTask, KeyDropped, vars
<1> QED BY <1>6, <1>7, <1>8, <1>9 DEF Next, TaskStep

(* queue_send() and queue_recv() implement bounded channels (queue.c).     *)
THEOREM QueuesAreChannels == Spec => ImplementsChannels
<1> QED
  BY QueueCore, QueuesAreChannelsInit, QueuesAreChannelsNext, PTL
     DEF Spec, ImplementsChannels, Chan!Spec

-----------------------------------------------------------------------------
(***************************************************************************)
(* Who sleeps and who is woken: the lists hold every task once, and no     *)
(* wake-up is lost but for a key between test and wait(), a call that has  *)
(* waited itself, and a walk over the senders that leaves its list; the    *)
(* last two need more clients than slots.                                  *)
(***************************************************************************)

\* The tasks of this workload.
Active == ToSet(load.clients) \cup {Console}

OnProcessor == IF idle THEN {} ELSE {running}

\* Every active task but the running one is in one list, in the place its state calls for.
Listed ==
    /\ running \in Active /\ NoDuplicates(load.clients)
    /\ tasks_wait \in Seq(Task) /\ NoDuplicates(tasks_wait)
    /\ waiters \in [Queues -> Seq(Task)] /\ NoDuplicates(waiters["iorq"])
    /\ \A q \in Queues \ {"iorq"} : waiters[q] = <<>>
    /\ ToSet(tasks_wait) \cap ToSet(waiters["iorq"]) = {}
    /\ sigs_waiting = ToSet(tasks_wait) \cup ToSet(waiters["iorq"])
    /\ ToSet(ready) \cup sigs_waiting \cup OnProcessor = Active

\* A receiver sleeps in tasks_wait, a client that sends with the request queue.
Asleep ==
    /\ \A t \in sigs_waiting : pc[t] = "woken"
    /\ \A t \in ToSet(tasks_wait) : ~Sending(t)
    /\ \A t \in ToSet(waiters["iorq"]) : doing[t] = "send"

\* Only a call that blocks waits, and only the receiver of requests wakes senders.
Programs ==
    /\ slow \subseteq Task /\ created \subseteq Queues
    /\ \A t \in Task :
          /\ pc[t] = "call" \/ doing[t] = "reply" => t \notin slow
          /\ doing[t] = "reply" => pc[t] \notin {"wait", "woken"}
          /\ pc[t] = "next" => doing[t] = "request"

\* A task takes no more forbids into a call than dropped keys have left.
Forbids ==
    /\ forbid_counter <= load.leaks + 1
    /\ idle \/ pc[running] \in {"call", "woken"} => forbid_counter <= load.leaks

\* A task that counts has had a message or a slot since its test.
Room ==
    /\ \A q \in Queues : 0 <= free_slots[q] /\ free_slots[q] <= max_slots(q)
    /\ \A t \in Task : pc[t] = "count" => Possible(t)

\* Who is about to wait has reason to; a receiver sleeps on an empty queue, or the first
\* message is just being counted; a sender on a full one, or the console is waking senders.
NeedsWait == \A t \in Task : pc[t] = "wait" => ~Possible(t)
Unread(t) ==
    \/ msg_list[queue(t)] = <<>>
    \/ /\ free_slots[queue(t)] = max_slots(queue(t))
       /\ \E u \in Task : Counts(u, queue(t)) /\ Sending(u)
NoSlot == waiters["iorq"] # <<>> => free_slots["iorq"] = 0 \/ pc[Console] = "next"
Served == lost = {} => NeedsWait /\ (\A t \in ToSet(tasks_wait) : Unread(t)) /\ NoSlot

\* With a slot for each client a send never waits.
Spare ==
    /\ ToSet(msg_list["iorq"]) \subseteq ToSet(load.clients)
    /\ Len(load.clients) <= load.slots =>
          /\ waiters["iorq"] = <<>> /\ lost \subseteq {"late"}
          /\ \A t \in Task : doing[t] = "send" => pc[t] \notin {"wait", "woken"} /\ t \notin slow

Wakeups == Listed /\ Asleep /\ Programs /\ Forbids /\ Room /\ Served /\ Spare

-----------------------------------------------------------------------------
(* The lists of tasks.                                                     *)

(* The dispatcher loses no task of the list it takes the next one from     *)
(* (task.c:107-113).                                                       *)
LEMMA SwitchKeeps ==
    ASSUME NEW r \in Seq(Task), Switch(r)
    PROVE  ToSet(ready') \cup OnProcessor' = ToSet(r)
<1>1. CASE r = <<>>
  <2>1. ToSet(r) = {}
    BY <1>1 DEF ToSet
  <2> QED BY <1>1, <2>1 DEF Switch, OnProcessor
<1>2. CASE r # <<>>
  <2>1. running' = Head(r) /\ ready' = Tail(r) /\ idle' = FALSE
    BY <1>2 DEF Switch
  <2>2. ToSet(r) = {Head(r)} \cup ToSet(Tail(r))
    <3>1. /\ Len(r) \in Nat /\ Len(r) > 0 /\ DOMAIN r = 1..Len(r) /\ Head(r) = r[1]
      BY <1>2, EmptySeq, LenProperties
    <3>2. /\ Len(Tail(r)) = Len(r) - 1 /\ DOMAIN Tail(r) = 1..(Len(r) - 1)
          /\ \A i \in 1..(Len(r) - 1) : Tail(r)[i] = r[i + 1]
      BY <1>2, <3>1, HeadTailProperties, LenProperties
    <3>3. \A i \in 1..(Len(r) - 1) : i + 1 \in 1..Len(r)
      BY <3>1
    <3>4. \A i \in 1..Len(r) : i = 1 \/ (i - 1 \in 1..(Len(r) - 1) /\ r[i] = Tail(r)[i - 1])
      <4> SUFFICES ASSUME NEW i \in 1..Len(r), i # 1
                   PROVE  i - 1 \in 1..(Len(r) - 1) /\ r[i] = Tail(r)[i - 1]
        OBVIOUS
      <4>1. i - 1 \in 1..(Len(r) - 1) /\ (i - 1) + 1 = i
        BY <3>1
      <4> QED BY <3>2, <4>1
    <3>5. ASSUME NEW x \in ToSet(r) PROVE x \in {Head(r)} \cup ToSet(Tail(r))
      <4>1. PICK i \in 1..Len(r) : r[i] = x
        BY <3>1 DEF ToSet
      <4>2. CASE i = 1
        BY <3>1, <4>1, <4>2
      <4>3. CASE i # 1
        BY <3>2, <3>4, <4>1, <4>3 DEF ToSet
      <4> QED BY <4>2, <4>3
    <3>6. ASSUME NEW x \in {Head(r)} \cup ToSet(Tail(r)) PROVE x \in ToSet(r)
      BY <3>1, <3>2, <3>3 DEF ToSet
    <3> QED BY <3>5, <3>6
  <2> QED BY <2>1, <2>2 DEF OnProcessor
<1> QED BY <1>1, <1>2

(* signal() moves the task from its list to the ready list, and the caller *)
(* too if it yields (task.c:135-149).                                      *)
LEMMA SignalKeeps ==
    ASSUME Scheduled, Listed, NEW x, Signal(x), load' = load
    PROVE  /\ Listed' /\ sigs_waiting' = sigs_waiting \ {x}
           /\ ToSet(tasks_wait') = ToSet(tasks_wait) \ {x}
           /\ ToSet(waiters'["iorq"]) = ToSet(waiters["iorq"]) \ {x}
           /\ \/ forbid_counter' = 0
              \/ forbid_counter' = forbid_counter /\ (idle \/ (running' = running /\ ~idle'))
<1>1. CASE x \notin sigs_waiting
  <2>1. UNCHANGED <<running, idle, ready, tasks_wait, waiters, sigs_waiting, forbid_counter>>
    BY <1>1 DEF Signal, sched
  <2>2. x \notin ToSet(tasks_wait) /\ x \notin ToSet(waiters["iorq"])
    BY <1>1 DEF Listed
  <2> QED BY <1>1, <2>1, <2>2 DEF Listed, Active, OnProcessor
<1>2. CASE x \in sigs_waiting
  <2> DEFINE w == Insert(ready, x)
  <2>1. /\ pri \in [Task -> Int] /\ x \in Task /\ x \in Active
        /\ ready \in Seq(Task) /\ running \in Task
    BY <1>2, QueueAssumption DEF Scheduled, Listed
  <2>2. w \in Seq(Task) /\ ToSet(w) = ToSet(ready) \cup {x}
    <3>1. w \in Seq(Task)
      BY <2>1, InsertFacts
    <3> QED BY <2>1, <3>1, InsertKeepsQueue
  <2>3. /\ sigs_waiting' = sigs_waiting \ {x} /\ tasks_wait' = Without(tasks_wait, x)
        /\ waiters' = [q \in Queues |-> Without(waiters[q], x)]
        /\ forbid_counter' = IF Outranks(x) THEN 0 ELSE forbid_counter
        /\ \/ idle /\ Switch(w)
           \/ ~idle /\ Outranks(x) /\ Switch(Insert(w, running))
           \/ ~idle /\ ~Outranks(x) /\ ready' = w /\ UNCHANGED <<running, idle>>
    BY <1>2 DEF Signal
  <2>4. /\ tasks_wait' \in Seq(Task) /\ NoDuplicates(tasks_wait')
        /\ ToSet(tasks_wait') = ToSet(tasks_wait) \ {x}
    BY <2>1, <2>3, WithoutKeepsQueue DEF Listed
  <2>5. /\ waiters' \in [Queues -> Seq(Task)] /\ NoDuplicates(waiters'["iorq"])
        /\ ToSet(waiters'["iorq"]) = ToSet(waiters["iorq"]) \ {x}
        /\ \A q \in Queues \ {"iorq"} : waiters'[q] = <<>>
    <3>1. \A q \in Queues : /\ Without(waiters[q], x) \in Seq(Task)
                            /\ NoDuplicates(waiters[q]) =>
                                  /\ NoDuplicates(Without(waiters[q], x))
                                  /\ ToSet(Without(waiters[q], x)) = ToSet(waiters[q]) \ {x}
      <4>1. \A q \in Queues : waiters[q] \in Seq(Task)
        BY DEF Listed
      <4> QED BY <2>1, <4>1, WithoutKeepsQueue
    <3>2. Without(<<>>, x) = <<>>
      BY DEF Without, ToSet
    <3>3. "iorq" \in Queues
      BY DEF Queues
    <3> QED BY <2>3, <3>1, <3>2, <3>3 DEF Listed
  <2>6. ToSet(ready') \cup OnProcessor' = ToSet(ready) \cup OnProcessor \cup {x}
    <3> HIDE DEF w
    <3>1. CASE idle /\ Switch(w)
      BY <2>2, <3>1, SwitchKeeps DEF OnProcessor
    <3>2. CASE ~idle /\ Outranks(x) /\ Switch(Insert(w, running))
      <4>1. Insert(w, running) \in Seq(Task)
        BY <2>1, <2>2, InsertFacts
      <4>2. ToSet(Insert(w, running)) = ToSet(w) \cup {running}
        BY <2>1, <2>2, InsertKeepsQueue
      <4>3. ToSet(ready') \cup OnProcessor' = ToSet(Insert(w, running))
        BY <3>2, <4>1, SwitchKeeps
      <4> QED BY <2>2, <3>2, <4>2, <4>3 DEF OnProcessor
    <3>3. CASE ~idle /\ ~Outranks(x) /\ ready' = w /\ UNCHANGED <<running, idle>>
      BY <2>2, <3>3 DEF OnProcessor
    <3> QED BY <2>3, <3>1, <3>2, <3>3
  <2>7. ToSet(ready') \cup sigs_waiting' \cup OnProcessor' = Active
    BY <1>2, <2>3, <2>6 DEF Listed
  <2>8. running' \in Active
    <3>1. CASE idle'
      <4>1. \A r \in Seq(Task) : r # <<>> => ~(idle' /\ Switch(r))
        BY DEF Switch
      <4>2. UNCHANGED running
        BY <2>3, <3>1, <4>1 DEF Switch
      <4> QED BY <4>2 DEF Listed
    <3>2. CASE ~idle'
      BY <2>7, <3>2 DEF OnProcessor
    <3> QED BY <3>1, <3>2
  <2>9. sigs_waiting' = ToSet(tasks_wait') \cup ToSet(waiters'["iorq"])
    BY <2>3, <2>4, <2>5 DEF Listed
  <2>10. Active' = Active /\ load'.clients = load.clients
    BY DEF Active
  <2>11. Listed'
    BY <2>4, <2>5, <2>7, <2>8, <2>9, <2>10 DEF Listed
  <2> QED BY <2>3, <2>4, <2>5, <2>11
<1> QED BY <1>1, <1>2

(* Every step keeps each task in one list.                                 *)
LEMMA NextListed == Core /\ Listed /\ Programs /\ [Next]_vars => Listed'
<1> SUFFICES ASSUME Core, Listed, Programs, [Next]_vars PROVE Listed'
  OBVIOUS
<1>1. load' = load /\ Active' = Active
  BY DEF Next, TaskStep, Call, Wait, Woken, Move, Count, NextWaiter, Permit, TimeSlice,
         TimerTask, KeyPress, KeyDropped, vars, Active
<1>2. ASSUME UNCHANGED <<running, idle, ready, tasks_wait, waiters, sigs_waiting>> PROVE Listed'
  BY <1>1, <1>2 DEF Listed, OnProcessor
<1>3. ASSUME UNCHANGED sched PROVE Listed'
  BY <1>2, <1>3 DEF sched
<1>4. ASSUME NEW x, Signal(x) PROVE Listed'
  BY <1>1, <1>4, SignalKeeps DEF Core
<1>5. ASSUME NEW t \in Task, Call(t) \/ Woken(t) \/ Permit(t) PROVE Listed'
  BY <1>2, <1>5 DEF Call, Woken, Permit
<1>6. ASSUME NEW t \in Task, Move(t) PROVE Listed'
  BY <1>3, <1>6 DEF Move
<1>7. ASSUME NEW t \in Task, Count(t) \/ NextWaiter(t) PROVE Listed'
  BY <1>3, <1>4, <1>7 DEF Count, NextWaiter
<1>8. ASSUME NEW k \in load.keys, KeyPress(k) PROVE Listed'
  BY <1>3, <1>4, <1>8 DEF KeyPress
<1>9. ASSUME KeyDropped \/ UNCHANGED vars PROVE Listed'
  BY <1>2, <1>3, <1>9 DEF KeyDropped, vars
<1>10. ASSUME ~idle, Switch(Insert(ready, running)), UNCHANGED <<tasks_wait, waiters, sigs_waiting>>
       PROVE  Listed'
  <2> DEFINE q == Insert(ready, running)
  <2>1. /\ ~idle /\ Switch(q) /\ UNCHANGED <<tasks_wait, waiters, sigs_waiting>>
        /\ pri \in [Task -> Int] /\ running \in Task /\ ready \in Seq(Task)
    BY <1>10, QueueAssumption DEF Core, Scheduled
  <2>2. q \in Seq(Task) /\ Len(q) = Len(ready) + 1 /\ Len(ready) \in Nat
    BY <2>1, InsertFacts, LenProperties
  <2>3. ToSet(q) = ToSet(ready) \cup {running}
    BY <2>1, <2>2, InsertKeepsQueue
  <2> HIDE DEF q
  <2>4. ToSet(ready') \cup OnProcessor' = ToSet(ready) \cup OnProcessor /\ ~idle'
    <3>1. ToSet(ready') \cup OnProcessor' = ToSet(q)
      BY <2>1, <2>2, SwitchKeeps
    <3>2. q # <<>>
      BY <2>2, EmptySeq
    <3> QED BY <2>1, <2>3, <3>1, <3>2 DEF OnProcessor, Switch
  <2> QED BY <1>1, <2>1, <2>4 DEF Listed, OnProcessor
<1>11. ASSUME NEW t \in Task, Wait(t) PROVE Listed'
  <2>1. /\ running = t /\ ~idle /\ Switch(ready) /\ sigs_waiting' = sigs_waiting \cup {t}
        /\ pri \in [Task -> Int] /\ ready \in Seq(Task) /\ t \notin sigs_waiting /\ pc[t] = "wait"
    BY <1>11, QueueAssumption DEF Wait, Runs, Core, Scheduled
  <2>2. ToSet(ready') \cup sigs_waiting' \cup OnProcessor' = Active /\ running' \in Active
    <3>1. ToSet(ready') \cup OnProcessor' = ToSet(ready)
      BY <2>1, SwitchKeeps
    <3>2. ~idle' \/ running' = running
      BY <2>1 DEF Switch
    <3> QED BY <2>1, <3>1, <3>2 DEF Listed, OnProcessor
  <2>3. t \notin ToSet(tasks_wait) /\ t \notin ToSet(waiters["iorq"])
    BY <2>1 DEF Listed
  <2>4. CASE Sending(t) /\ waiters' = [waiters EXCEPT ![queue(t)] = Insert(@, t)] /\ UNCHANGED tasks_wait
    <3>1. doing[t] = "send"
      BY <2>1, <2>4 DEF Sending, Programs
    <3>2. queue(t) = "iorq" /\ "iorq" \in Queues
      BY <3>1 DEF queue, Queues
    <3>3. waiters' = [waiters EXCEPT !["iorq"] = Insert(waiters["iorq"], t)] /\ waiters["iorq"] \in Seq(Task)
      BY <2>4, <3>2 DEF Listed
    <3>4. Insert(waiters["iorq"], t) \in Seq(Task)
      BY <2>1, <3>3, InsertFacts
    <3>5. /\ ToSet(Insert(waiters["iorq"], t)) = ToSet(waiters["iorq"]) \cup {t}
          /\ NoDuplicates(Insert(waiters["iorq"], t))
      <4> DEFINE b == waiters["iorq"]
      <4>1. b \in Seq(Task) /\ NoDuplicates(b) /\ t \notin ToSet(b)
        BY <2>3, <3>3 DEF Listed
      <4> HIDE DEF b
      <4>2. ToSet(Insert(b, t)) = ToSet(b) \cup {t}
        BY <2>1, <4>1, InsertKeepsQueue
      <4>3. NoDuplicates(Insert(b, t))
        BY <2>1, <4>1, InsertKeepsQueue
      <4> QED BY <4>2, <4>3 DEF b
    <3>6. /\ waiters' \in [Queues -> Seq(Task)] /\ waiters'["iorq"] = Insert(waiters["iorq"], t)
          /\ \A q \in Queues \ {"iorq"} : waiters'[q] = <<>>
      BY <3>2, <3>3, <3>4 DEF Listed
    <3> QED BY <1>1, <2>1, <2>2, <2>3, <2>4, <3>5, <3>6 DEF Listed
  <2>5. CASE ~Sending(t) /\ tasks_wait' = Insert(tasks_wait, t) /\ UNCHANGED waiters
    <3>1. tasks_wait' \in Seq(Task)
      BY <2>1, <2>5, InsertFacts DEF Listed
    <3>2. ToSet(tasks_wait') = ToSet(tasks_wait) \cup {t} /\ NoDuplicates(tasks_wait')
      BY <2>1, <2>3, <2>5, InsertKeepsQueue DEF Listed
    <3> QED BY <1>1, <2>1, <2>2, <2>3, <2>5, <3>1, <3>2 DEF Listed
  <2> QED BY <1>11, <2>4, <2>5 DEF Wait
<1>12. ASSUME TimeSlice PROVE Listed'
  BY <1>10, <1>12 DEF TimeSlice
<1>13. ASSUME TimerTask PROVE Listed'
  <2>1. CASE ~idle
    BY <1>10, <1>13, <2>1 DEF TimerTask
  <2>2. CASE idle
    BY <1>2, <1>13, <2>2 DEF TimerTask
  <2> QED BY <2>1, <2>2
<1> QED
  BY <1>3, <1>5, <1>6, <1>7, <1>8, <1>9, <1>11, <1>12, <1>13 DEF Next, TaskStep

-----------------------------------------------------------------------------
(* The places of the tasks.                                                *)

(* A step of a task is one of the running task, changes the place of no    *)
(* other, and no other is in a section.                                    *)
LEMMA StepFacts ==
    ASSUME Core, NEW t \in Task, TaskStep(t)
    PROVE  /\ running = t /\ ~idle /\ ~breached /\ t \notin sigs_waiting
           /\ \A u \in Task \ {t} : pc'[u] = pc[u] /\ doing'[u] = doing[u] /\ pc[u] \notin Section
           /\ load' = load
<1>1. running = t /\ ~idle /\ ~breached
  BY DEF TaskStep, Call, Wait, Woken, Move, Count, NextWaiter, Permit, Runs, GoesOn
<1>2. t \notin sigs_waiting
  BY <1>1 DEF Core, Scheduled
<1>3. \A u \in Task \ {t} : pc[u] \notin Section
  BY <1>1 DEF Core, Sectioned
<1>4. load' = load
  BY DEF TaskStep, Call, Wait, Woken, Move, Count, NextWaiter, Permit
<1>5. \A u \in Task \ {t} : pc'[u] = pc[u] /\ doing'[u] = doing[u]
  <2> USE DEF Core, Placed, Goto, Return
  <2>1. CASE Call(t)
    BY <2>1 DEF Call
  <2>2. CASE Wait(t) \/ Woken(t)
    BY <2>2 DEF Wait, Woken
  <2>3. CASE Move(t)
    BY <2>3 DEF Move
  <2>4. CASE Count(t)
    BY <2>4 DEF Count
  <2>5. CASE NextWaiter(t)
    BY <2>5 DEF NextWaiter
  <2>6. CASE Permit(t)
    BY <2>6 DEF Permit
  <2> QED BY <2>1, <2>2, <2>3, <2>4, <2>5, <2>6 DEF TaskStep
<1> QED BY <1>1, <1>2, <1>3, <1>4, <1>5

(* A task sleeps in the list its call put it in, until it is signalled.    *)
LEMMA NextAsleep == Core /\ Listed /\ Asleep /\ Programs /\ [Next]_vars => Asleep'
<1> SUFFICES ASSUME Core, Listed, Asleep, Programs, [Next]_vars PROVE Asleep'
  OBVIOUS
<1>1. /\ sigs_waiting = ToSet(tasks_wait) \cup ToSet(waiters["iorq"]) /\ sigs_waiting \subseteq Task
  BY DEF Listed, Core, Scheduled
<1>2. ASSUME sigs_waiting' \subseteq sigs_waiting, ToSet(tasks_wait') \subseteq ToSet(tasks_wait),
             ToSet(waiters'["iorq"]) \subseteq ToSet(waiters["iorq"]),
             \A u \in sigs_waiting : pc'[u] = pc[u] /\ doing'[u] = doing[u]
      PROVE  Asleep'
  BY <1>1, <1>2 DEF Asleep, Sending
<1>3. ASSUME UNCHANGED <<tasks_wait, waiters, sigs_waiting>>,
             \A u \in sigs_waiting : pc'[u] = pc[u] /\ doing'[u] = doing[u]
      PROVE  Asleep'
  BY <1>2, <1>3
<1>4. ASSUME NEW x, Signal(x), load' = load, \A u \in sigs_waiting : pc'[u] = pc[u] /\ doing'[u] = doing[u]
      PROVE  Asleep'
  BY <1>2, <1>4, SignalKeeps DEF Core
<1>5. ASSUME NEW t \in Task, TaskStep(t), ~Wait(t) PROVE Asleep'
  <2>1. load' = load /\ \A u \in sigs_waiting : pc'[u] = pc[u] /\ doing'[u] = doing[u]
    BY <1>1, <1>5, StepFacts
  <2>2. UNCHANGED <<tasks_wait, waiters, sigs_waiting>> \/ \E x : Signal(x)
    BY <1>5 DEF TaskStep, Call, Woken, Move, Count, NextWaiter, Permit, sched
  <2> QED BY <1>3, <1>4, <2>1, <2>2
<1>6. ASSUME NEW k \in load.keys, KeyPress(k) PROVE Asleep'
  <2>1. UNCHANGED <<load, pc, doing>> /\ (Signal(Console) \/ UNCHANGED sched)
    BY <1>6 DEF KeyPress
  <2> QED BY <1>3, <1>4, <2>1 DEF sched
<1>7. ASSUME TimeSlice \/ TimerTask \/ KeyDropped \/ UNCHANGED vars PROVE Asleep'
  BY <1>3, <1>7 DEF TimeSlice, TimerTask, KeyDropped, vars, sched
<1>8. ASSUME NEW t \in Task, Wait(t) PROVE Asleep'
  <2>1. /\ t \notin sigs_waiting /\ \A u \in Task \ {t} : pc'[u] = pc[u] /\ doing'[u] = doing[u]
        /\ pc[t] = "wait" /\ pc'[t] = "woken" /\ doing' = doing /\ sigs_waiting' = sigs_waiting \cup {t}
        /\ pri \in [Task -> Int]
    BY <1>8, StepFacts, QueueAssumption DEF TaskStep, Wait, Goto, Core, Placed
  <2>2. \A u \in sigs_waiting' : pc'[u] = "woken"
    BY <1>1, <2>1 DEF Asleep
  <2>3. CASE Sending(t) /\ waiters' = [waiters EXCEPT ![queue(t)] = Insert(@, t)] /\ UNCHANGED tasks_wait
    <3>1. doing[t] = "send" /\ queue(t) = "iorq" /\ "iorq" \in Queues
      BY <2>1, <2>3 DEF Sending, Programs, queue, Queues
    <3>2. waiters'["iorq"] = Insert(waiters["iorq"], t) /\ waiters["iorq"] \in Seq(Task)
      BY <2>3, <3>1 DEF Listed
    <3>3. ToSet(waiters'["iorq"]) = ToSet(waiters["iorq"]) \cup {t}
      BY <2>1, <3>2, InsertKeepsQueue
    <3> QED BY <2>1, <2>2, <2>3, <3>1, <3>3 DEF Asleep, Sending
  <2>4. CASE ~Sending(t) /\ tasks_wait' = Insert(tasks_wait, t) /\ UNCHANGED waiters
    <3>1. ToSet(tasks_wait') = ToSet(tasks_wait) \cup {t}
      BY <2>1, <2>4, InsertKeepsQueue DEF Listed
    <3> QED BY <2>1, <2>2, <2>4, <3>1 DEF Asleep, Sending
  <2> QED BY <1>8, <2>3, <2>4 DEF Wait
<1> QED BY <1>5, <1>6, <1>7, <1>8 DEF Next

(* Only a call that blocks waits, and only for senders of requests does    *)
(* the walk of queue_recv() look (queue.c:110-115).                        *)
LEMMA NextPrograms == Core /\ Listed /\ Programs /\ [Next]_vars => Programs'
<1> SUFFICES ASSUME Core, Listed, Programs, [Next]_vars PROVE Programs'
  OBVIOUS
<1> DEFINE Fits(u) == /\ pc[u] = "call" \/ doing[u] = "reply" => u \notin slow
                      /\ doing[u] = "reply" => pc[u] \notin {"wait", "woken"}
                      /\ pc[u] = "next" => doing[u] = "request"
<1>1. ASSUME NEW t \in Task, TaskStep(t), slow' \subseteq slow \cup {t},
             created' \subseteq Queues, Fits(t)'
      PROVE  Programs'
  <2>1. \A u \in Task \ {t} : Fits(u)'
    BY <1>1, StepFacts DEF Programs
  <2>2. slow' \subseteq Task
    BY <1>1 DEF Programs
  <2> QED BY <1>1, <2>1, <2>2 DEF Programs
<1>2. ASSUME UNCHANGED <<pc, doing, slow, created>> PROVE Programs'
  BY <1>2 DEF Programs
<1>3. \A t \in Task : /\ Fits(t) /\ pc[t] \in Labels
                      /\ \A l : Goto(t, l) => pc'[t] = l
                      /\ Return(t) => /\ pc'[t] = "call" /\ doing'[t] = Then(doing[t])
                                      /\ created' \subseteq created
  BY DEF Programs, Core, Placed, Goto, Return
<1>4. created \subseteq Queues /\ Client \subseteq Queues
  BY DEF Programs, Queues
<1>5. ASSUME NEW t \in Task, Call(t) PROVE Programs'
  <2>1. TaskStep(t) /\ slow' = slow /\ pc[t] = "call" /\ t \notin slow
    BY <1>3, <1>5 DEF TaskStep, Call
  <2>2. CASE Return(t)
    BY <1>1, <1>3, <1>4, <2>1, <2>2
  <2>3. CASE ~Return(t)
    <3>1. /\ doing' = doing /\ created' \subseteq Queues
          /\ pc'[t] = "move" \/ (pc'[t] = "wait" /\ doing[t] # "reply")
      <4>1. doing[t] = "send" => t \in Queues
        BY <1>4, QueueOfCall DEF Core
      <4> QED BY <1>3, <1>4, <1>5, <2>3, <4>1 DEF Call, Blocking
    <3> QED BY <1>1, <2>1, <3>1
  <2> QED BY <2>2, <2>3
<1>6. ASSUME NEW t \in Task, Wait(t) PROVE Programs'
  BY <1>1, <1>3, <1>4, <1>6 DEF TaskStep, Wait
<1>7. ASSUME NEW t \in Task, Woken(t) PROVE Programs'
  BY <1>1, <1>3, <1>4, <1>7 DEF TaskStep, Woken, Retry
<1>8. ASSUME NEW t \in Task, Move(t) PROVE Programs'
  BY <1>1, <1>3, <1>4, <1>8 DEF TaskStep, Move
<1>9. ASSUME NEW t \in Task, Count(t) PROVE Programs'
  <2>1. TaskStep(t) /\ UNCHANGED <<slow, created, doing>> /\ Fits(t)
    BY <1>3, <1>9 DEF TaskStep, Count
  <2>2. pc'[t] = "permit" \/ (pc'[t] = "next" /\ ~Sending(t) /\ Partner(t) # NULL)
    BY <1>3, <1>9 DEF Count
  <2>3. ~Sending(t) /\ Partner(t) # NULL => doing[t] = "request"
    <3> SUFFICES ASSUME ~Sending(t), Partner(t) # NULL PROVE doing[t] = "request"
      OBVIOUS
    <3>1. waiters[queue(t)] # <<>>
      BY DEF Partner
    <3>2. queue(t) \in Queues /\ queue(t) = "iorq"
      BY <3>1, QueueOfCall DEF Listed, Core
    <3> QED BY <3>2, QueueOfCall, QueueAssumption DEF Core, Placed, Sending
  <2> QED BY <1>1, <1>4, <2>1, <2>2, <2>3
<1>10. ASSUME NEW t \in Task, NextWaiter(t) PROVE Programs'
  BY <1>1, <1>2, <1>3, <1>4, <1>10 DEF TaskStep, NextWaiter
<1>11. ASSUME NEW t \in Task, Permit(t) PROVE Programs'
  <2>1. TaskStep(t) /\ slow' = slow \ {t} /\ Return(t)
    BY <1>11 DEF TaskStep, Permit
  <2> QED BY <1>1, <1>3, <1>4, <2>1
<1>12. ASSUME \/ TimeSlice \/ TimerTask \/ KeyDropped \/ UNCHANGED vars
              \/ \E k \in load.keys : KeyPress(k)
       PROVE  Programs'
  BY <1>2, <1>12 DEF TimeSlice, TimerTask, KeyPress, KeyDropped, vars
<1> QED
  BY <1>5, <1>6, <1>7, <1>8, <1>9, <1>10, <1>11, <1>12 DEF Next, TaskStep

(* The reply queue is empty when the console answers, so that a reply is   *)
(* never refused (console.c:125, device.c:37).                             *)
LEMMA ReplyHasRoom ==
    ASSUME Core, Requests, Runs(Console), pc[Console] = "call", doing[Console] = "reply"
    PROVE  Possible(Console)
<1> DEFINE c == got["iorq"]
<1>1. /\ Console \in Task /\ "iorq" \notin Client /\ c \in Client /\ c \in Queues
      /\ Sending(Console) /\ queue(Console) = c
  BY QueueAssumption, QueueOfCall DEF Task, Queues, Core
<1>2. \A u \in Task : ~Counts(u, c)
  BY DEF Runs, GoesOn, Core, Sectioned, Section, Counts
<1>3. Serves(c)
  BY DEF Serves, Done
<1>4. msg_list[c] = <<>>
  BY <1>1, <1>3 DEF Requests, OnePlace, Replied
<1>5. Used(c) = max_slots(c)
  BY <1>1, <1>2 DEF Core, Balanced
<1>6. max_slots(c) = 1 /\ free_slots[c] \in Int
  BY <1>1 DEF max_slots, Core, Supplied
<1>7. Len(msg_list[c]) = 0
  BY <1>4
<1> HIDE DEF c
<1>8. free_slots[c] > 0
  BY <1>5, <1>6, <1>7 DEF Used
<1> QED BY <1>1, <1>8 DEF Possible

(* A dropped key leaves a forbid behind (console.c:76, queue.c:39-45), a   *)
(* call takes at most as many with it and adds one.                        *)
LEMMA NextForbids == Core /\ Requests /\ Listed /\ Forbids /\ [Next]_vars => Forbids'
<1> SUFFICES ASSUME Core, Requests, Listed, Forbids, [Next]_vars PROVE Forbids'
  OBVIOUS
<1>1. forbid_counter \in Nat /\ load.leaks \in Nat /\ forbid_counter' \in Nat
  BY NextCore, QueueAssumption DEF Core, Scheduled, Supplied
<1>2. ASSUME NEW t \in Task, TaskStep(t), forbid_counter' <= load.leaks + 1,
             UNCHANGED <<running, idle>>, pc'[t] \notin {"call", "woken"} \/ forbid_counter' <= load.leaks
      PROVE  Forbids'
  BY <1>2, StepFacts DEF Forbids
<1>3. ASSUME forbid_counter' <= load.leaks, load' = load PROVE Forbids'
  BY <1>1, <1>3 DEF Forbids
<1>4. \A t \in Task : \A l : Goto(t, l) => pc'[t] = l
  BY DEF Core, Placed, Goto
<1>5. ASSUME NEW t \in Task, Call(t) PROVE Forbids'
  <2>1. /\ TaskStep(t) /\ running = t /\ pc[t] = "call" /\ forbid_counter' = forbid_counter + 1
        /\ UNCHANGED <<running, idle>> /\ Runs(t)
    BY <1>5 DEF TaskStep, Call, Runs
  <2>2. Possible(t) \/ Blocking(t)
    BY <2>1, ReplyHasRoom, QueueOfCall DEF Blocking, Core
  <2>3. pc'[t] \in {"move", "wait"}
    BY <1>4, <1>5, <2>2 DEF Call
  <2> QED BY <1>1, <1>2, <2>1, <2>3 DEF Forbids
<1>6. ASSUME NEW t \in Task, Woken(t) PROVE Forbids'
  <2>1. /\ TaskStep(t) /\ running = t /\ pc[t] = "woken" /\ forbid_counter' = forbid_counter + 1
        /\ UNCHANGED <<running, idle>> /\ pc'[t] \in {"move", "wait"}
    BY <1>4, <1>6 DEF TaskStep, Woken, Runs, Retry
  <2> QED BY <1>1, <1>2, <2>1 DEF Forbids
<1>7. ASSUME NEW t \in Task, Wait(t) PROVE Forbids'
  BY <1>1, <1>3, <1>7 DEF Wait
<1>8. ASSUME NEW t \in Task, Move(t) PROVE Forbids'
  BY <1>2, <1>4, <1>8 DEF TaskStep, Move, sched, Forbids
<1>9. ASSUME NEW t \in Task, TaskStep(t), NEW x, Signal(x), pc'[t] \notin {"call", "woken"} PROVE Forbids'
  <2>1. load' = load /\ running = t /\ ~idle
    BY <1>9, StepFacts
  <2>2. \/ forbid_counter' = 0
        \/ forbid_counter' = forbid_counter /\ running' = running /\ ~idle'
    BY <1>9, <2>1, SignalKeeps DEF Core
  <2> QED BY <1>1, <1>3, <1>9, <2>1, <2>2 DEF Forbids
<1>10. ASSUME NEW t \in Task, Count(t) PROVE Forbids'
  BY <1>2, <1>4, <1>9, <1>10 DEF TaskStep, Count, sched, Forbids
<1>11. ASSUME NEW t \in Task, NextWaiter(t) PROVE Forbids'
  BY <1>2, <1>4, <1>9, <1>11 DEF TaskStep, NextWaiter, sched, Forbids
<1>12. ASSUME NEW t \in Task, Permit(t) PROVE Forbids'
  BY <1>1, <1>3, <1>12 DEF Permit, Forbids
<1>13. ASSUME TimeSlice \/ TimerTask PROVE Forbids'
  BY <1>1, <1>3, <1>13 DEF TimeSlice, TimerTask, Multitasking
<1>14. ASSUME NEW k \in load.keys, KeyPress(k) PROVE Forbids'
  <2>1. UNCHANGED <<load, pc>> /\ (Signal(Console) \/ UNCHANGED sched)
    BY <1>14 DEF KeyPress
  <2>2. \/ forbid_counter' = 0
        \/ forbid_counter' = forbid_counter /\ idle
        \/ forbid_counter' = forbid_counter /\ UNCHANGED running /\ (idle' => idle)
    BY <2>1, SignalKeeps DEF Core, sched
  <2> QED BY <1>1, <1>3, <2>1, <2>2 DEF Forbids
<1>15. ASSUME KeyDropped PROVE Forbids'
  BY <1>1, <1>3, <1>15 DEF KeyDropped
<1>16. ASSUME UNCHANGED vars PROVE Forbids'
  BY <1>16 DEF vars, sched, Forbids
<1> QED
  BY <1>5, <1>6, <1>7, <1>8, <1>10, <1>11, <1>12, <1>13, <1>14, <1>15, <1>16 DEF Next, TaskStep

-----------------------------------------------------------------------------
(* The slots.                                                              *)

(* A task that counts has a slot to fill or a message to take off, and     *)
(* free_slots stays between 0 and the length of the queue (queue.c:58-62,  *)
(* 100-106).                                                               *)
LEMMA NextRoom == Core /\ Room /\ [Next]_vars => Room'
<1> SUFFICES ASSUME Core, Room, [Next]_vars PROVE Room'
  OBVIOUS
<1>1. /\ free_slots \in [Queues -> Int]
      /\ \A q \in Queues : max_slots(q) \in Int /\ free_slots[q] \in Int
                           /\ 0 <= free_slots[q] /\ free_slots[q] <= max_slots(q)
  BY QueueAssumption DEF Core, Supplied, Room, max_slots
<1>2. \A t \in Task : queue(t) \in Queues
  BY QueueOfCall DEF Core
<1>3. ASSUME UNCHANGED <<load, free_slots>>,
             \A u \in Task : pc'[u] = "count" => /\ doing'[u] = doing[u]
                                                 /\ got'["iorq"] = got["iorq"] \/ doing[u] # "reply"
                                                 /\ Possible(u)
      PROVE  Room'
  <2>1. \A q : max_slots(q)' = max_slots(q)
    BY <1>3 DEF max_slots
  <2>2. ASSUME NEW u \in Task, pc'[u] = "count" PROVE Possible(u)'
    <3>1. queue(u)' = queue(u) /\ Sending(u)' = Sending(u)
      BY <1>3, <2>2, SameCall DEF Core
    <3> QED BY <1>3, <2>1, <2>2, <3>1 DEF Possible
  <2> QED BY <1>1, <1>3, <2>1, <2>2 DEF Room
<1>4. ASSUME NEW t \in Task, TaskStep(t), UNCHANGED <<free_slots, got>>, pc'[t] # "count" PROVE Room'
  <2>1. \A u \in Task : pc'[u] # "count"
    BY <1>4, StepFacts DEF Section
  <2> QED BY <1>3, <1>4, <2>1, StepFacts
<1>5. \A t \in Task : \A l : Goto(t, l) => pc'[t] = l
  BY DEF Core, Placed, Goto
<1>6. ASSUME NEW t \in Task, Call(t) PROVE Room'
  BY <1>4, <1>5, <1>6 DEF TaskStep, Call, Return
<1>7. ASSUME NEW t \in Task, Wait(t) \/ Woken(t) PROVE Room'
  BY <1>4, <1>5, <1>7 DEF TaskStep, Wait, Woken, Retry
<1>8. ASSUME NEW t \in Task, NextWaiter(t) PROVE Room'
  <2>1. TaskStep(t) /\ pc[t] = "next" /\ UNCHANGED <<free_slots, got>> /\ (pc' = pc \/ pc'[t] = "permit")
    BY <1>5, <1>8 DEF TaskStep, NextWaiter
  <2> QED BY <1>4, <2>1
<1>9. ASSUME NEW t \in Task, Permit(t) PROVE Room'
  BY <1>4, <1>5, <1>9 DEF TaskStep, Permit, Return
<1>10. ASSUME NEW t \in Task, Move(t) PROVE Room'
  <2>1. /\ TaskStep(t) /\ Possible(t) /\ UNCHANGED <<load, free_slots, doing>>
        /\ \A u \in Task : pc'[u] = "count" => u = t
    BY <1>10, MoveFacts, StepFacts DEF TaskStep, Section
  <2>2. got'["iorq"] = got["iorq"] \/ doing[t] # "reply"
    BY <1>10 DEF Move, Sending
  <2> QED BY <1>3, <2>1, <2>2
<1>11. ASSUME NEW t \in Task, Count(t) PROVE Room'
  <2> DEFINE q == queue(t)
  <2>1. /\ TaskStep(t) /\ pc[t] = "count" /\ pc'[t] # "count" /\ load' = load
        /\ free_slots' = [free_slots EXCEPT ![q] = FreeAfter(t)]
    BY <1>5, <1>11 DEF TaskStep, Count
  <2>2. \A u \in Task : pc'[u] # "count"
    BY <2>1, StepFacts DEF Section
  <2>3. q \in Queues /\ Possible(t)
    BY <1>2, <2>1 DEF Room
  <2>4. 0 <= FreeAfter(t) /\ FreeAfter(t) <= max_slots(q) /\ FreeAfter(t) \in Int
    BY <1>1, <2>3 DEF Possible, FreeAfter
  <2> HIDE DEF q
  <2>5. \A r \in Queues : 0 <= free_slots'[r] /\ free_slots'[r] <= max_slots(r)
    BY <1>1, <2>1, <2>3, <2>4
  <2> QED BY <2>1, <2>2, <2>5 DEF Room, max_slots
<1>12. ASSUME NEW k \in load.keys, KeyPress(k) PROVE Room'
  <2>1. /\ \A u \in Task : ~Counts(u, "keybd")
        /\ free_slots["keybd"] > 0 /\ free_slots' = [free_slots EXCEPT !["keybd"] = @ - 1]
        /\ UNCHANGED <<load, got, pc, doing>>
    BY <1>12, KeyFacts
  <2>2. \A r \in Queues : 0 <= free_slots'[r] /\ free_slots'[r] <= max_slots(r)
    BY <1>1, <2>1
  <2>3. ASSUME NEW u \in Task, pc[u] = "count" PROVE Possible(u)'
    <3>1. queue(u)' = queue(u) /\ Sending(u)' = Sending(u) /\ queue(u) # "keybd" /\ Possible(u)
      BY <2>1, <2>3, SameCall DEF Core, Counts, Room
    <3>2. free_slots'[queue(u)] = free_slots[queue(u)] /\ max_slots(queue(u))' = max_slots(queue(u))
      BY <1>1, <1>2, <2>1, <3>1 DEF max_slots
    <3> QED BY <3>1, <3>2 DEF Possible
  <2> QED BY <2>1, <2>2, <2>3 DEF Room, max_slots
<1>13. ASSUME TimeSlice \/ TimerTask \/ KeyDropped \/ UNCHANGED vars PROVE Room'
  BY <1>3, <1>13 DEF TimeSlice, TimerTask, KeyDropped, vars, Room
<1> QED
  BY <1>6, <1>7, <1>8, <1>9, <1>10, <1>11, <1>12, <1>13 DEF Next, TaskStep

-----------------------------------------------------------------------------
(* Who sleeps has reason to.                                               *)

(* The receivers that sleep are no senders, and each is the owner of the   *)
(* queue it receives from (queue.c:64, 118).                               *)
LEMMA SleeperFacts ==
    ASSUME Core, Listed, Asleep, NEW x \in ToSet(tasks_wait)
    PROVE  /\ x \in sigs_waiting /\ x \in Task /\ ~Sending(x) /\ doing[x] # "reply"
           /\ queue(x) \in Queues /\ owner(queue(x)) = x
           /\ queue(x) \in {"iorq", "keybd"} => x = Console
           /\ queue(x) = "keybd" => doing[x] = "key"
<1>1. x \in sigs_waiting /\ x \in Task /\ ~Sending(x) /\ doing[x] # "reply"
  BY DEF Listed, Asleep, Core, Scheduled, Sending
<1>2. doing[x] \in {"recv", "request", "key"}
  BY <1>1 DEF Core, Placed, Sending
<1> QED BY <1>1, <1>2, QueueOfCall, QueueAssumption DEF Core, owner

(* A list with an element has a first one.                                 *)
LEMMA HeadIn ==
    ASSUME NEW T, NEW s \in Seq(T)
    PROVE  (s = <<>> <=> ToSet(s) = {}) /\ (s # <<>> => Head(s) \in T)
<1>1. Len(s) \in Nat /\ DOMAIN s = 1..Len(s) /\ \A i \in 1..Len(s) : s[i] \in T
  BY LenProperties
<1>2. CASE s = <<>>
  BY <1>2 DEF ToSet
<1>3. CASE s # <<>>
  <2>1. 1 \in 1..Len(s) /\ Head(s) = s[1]
    BY <1>1, <1>3, EmptySeq
  <2> QED BY <1>1, <1>3, <2>1 DEF ToSet
<1> QED BY <1>2, <1>3

(* A step of a task that is not behind a list operation finds only empty   *)
(* queues with a sleeping receiver.                                        *)
LEMMA UnreadIsEmpty ==
    ASSUME Core, Listed, Asleep, \A x \in ToSet(tasks_wait) : Unread(x),
           NEW t \in Task, TaskStep(t), pc[t] # "count"
    PROVE  \A x \in ToSet(tasks_wait) : msg_list[queue(x)] = <<>>
<1>1. \A u \in Task : pc[u] # "count"
  BY StepFacts DEF Section
<1> QED BY <1>1 DEF Unread, Counts

(* A step that leaves the queues alone, wakes at most somebody and lets    *)
(* nobody in who would have to wait.                                       *)
LEMMA ServedQuietly ==
    ASSUME Core, Listed, Asleep, NeedsWait, \A x \in ToSet(tasks_wait) : msg_list[queue(x)] = <<>>, NoSlot,
           UNCHANGED <<msg_list, free_slots, got, load>>,
           ToSet(tasks_wait') \subseteq ToSet(tasks_wait),
           waiters'["iorq"] # <<>> => waiters["iorq"] # <<>>,
           \A x \in sigs_waiting : doing'[x] = doing[x],
           \A u \in Task : pc'[u] = "wait" => doing'[u] = doing[u] /\ ~Possible(u),
           waiters'["iorq"] # <<>> => free_slots["iorq"] = 0 \/ pc'[Console] = "next"
    PROVE  Served'
<1>1. \A q : max_slots(q)' = max_slots(q)
  BY DEF max_slots
<1>2. ASSUME NEW u \in Task, pc'[u] = "wait" PROVE ~Possible(u)'
  <2>1. queue(u)' = queue(u) /\ Sending(u)' = Sending(u)
    BY <1>2, SameCall DEF Core
  <2> QED BY <1>1, <1>2, <2>1 DEF Possible
<1>3. ASSUME NEW x \in ToSet(tasks_wait') PROVE Unread(x)'
  <2>1. x \in ToSet(tasks_wait) /\ x \in Task /\ doing'[x] = doing[x]
    BY <1>3, SleeperFacts
  <2>2. queue(x)' = queue(x)
    BY <2>1, SameCall DEF Core
  <2> QED BY <2>1, <2>2 DEF Unread
<1>4. NoSlot'
  BY DEF NoSlot
<1> QED BY <1>2, <1>3, <1>4 DEF Served, NeedsWait

(* A message is moved: only onto an empty queue with all its slots free    *)
(* while its receiver sleeps (queue.c:58, 100).                            *)
LEMMA ServedMove ==
    ASSUME Core, Listed, Asleep, Served, NEW t \in Task, Move(t), lost = {}
    PROVE  Served'
<1> DEFINE q == queue(t)
<1>1. /\ TaskStep(t) /\ pc[t] = "move" /\ pc'[t] = "count"
      /\ UNCHANGED <<tasks_wait, waiters, free_slots, load, doing>>
      /\ q \in Queues /\ free_slots[q] + Len(msg_list[q]) = max_slots(q)
  BY MoveFacts DEF TaskStep, sched, Core, Placed
<1>2. NeedsWait /\ (\A x \in ToSet(tasks_wait) : Unread(x)) /\ NoSlot
  BY DEF Served
<1>3. \A x \in ToSet(tasks_wait) : msg_list[queue(x)] = <<>>
  BY <1>1, <1>2, UnreadIsEmpty
<1>4. \A u \in Task \ {t} : pc'[u] = pc[u] /\ pc[u] \notin Section
  BY <1>1, StepFacts
<1>5. NeedsWait'
  BY <1>1, <1>4 DEF NeedsWait, Section
<1>6. got'["iorq"] = got["iorq"] \/ doing[t] # "reply"
  BY DEF Move, Sending
<1>7. q' = q /\ Sending(t)' = Sending(t)
  BY <1>1, <1>6, SameCall DEF Core
<1>8. ASSUME NEW x \in ToSet(tasks_wait) PROVE Unread(x)'
  <2>1. x \in Task /\ doing[x] # "reply" /\ queue(x) \in Queues /\ msg_list[queue(x)] = <<>>
    BY <1>3, SleeperFacts
  <2>2. queue(x)' = queue(x)
    BY <1>1, <2>1, SameCall DEF Core
  <2>3. CASE queue(x) # q
    <3>1. msg_list'[queue(x)] = msg_list[queue(x)]
      BY <2>1, <2>3 DEF Move, Core, Supplied
    <3> QED BY <2>1, <2>2, <3>1 DEF Unread
  <2>4. CASE queue(x) = q
    <3>1. Len(msg_list[q]) = 0
      BY <2>1, <2>4
    <3>2. Sending(t)
      <4>1. ~Sending(t) => Len(msg_list[q]) > 0
        BY MoveFacts
      <4> HIDE DEF q
      <4> QED BY <3>1, <4>1
    <3>3. free_slots[q] \in Int /\ max_slots(q) \in Int
      BY <1>1, QueueAssumption DEF Core, Supplied, max_slots
    <3> HIDE DEF q
    <3>4. free_slots'[q] = max_slots(q)'
      <4>1. free_slots[q] = max_slots(q)
        BY <1>1, <3>1, <3>3
      <4>2. free_slots' = free_slots /\ q' = q /\ load' = load
        BY <1>1, <1>7
      <4> QED BY <4>1, <4>2 DEF max_slots
    <3>5. Counts(t, q)' /\ Sending(t)'
      BY <1>1, <1>7, <3>2 DEF Counts, q
    <3> QED BY <1>7, <2>2, <2>4, <3>4, <3>5 DEF Unread
  <2> QED BY <2>3, <2>4
<1>9. NoSlot'
  BY <1>1, <1>2, <1>4 DEF NoSlot, Task
<1> QED BY <1>1, <1>5, <1>8, <1>9 DEF Served

(* The count is where wake-ups come from (queue.c:60-66, 104-116).         *)
LEMMA ServedCount ==
    ASSUME Core, Listed, Asleep, Programs, Room, Served, NEW t \in Task, Count(t), lost' = {}
    PROVE  Served'
<1> DEFINE q == queue(t)
<1>1. /\ TaskStep(t) /\ pc[t] = "count" /\ pc'[t] \in {"permit", "next"}
      /\ UNCHANGED <<load, msg_list, got, doing>> /\ q \in Queues
      /\ free_slots' = [free_slots EXCEPT ![q] = FreeAfter(t)]
  BY QueueOfCall DEF TaskStep, Count, Goto, Core, Placed
<1>2. lost = {} /\ ~(t \in slow /\ WasEdge(t) /\ Sleeps(t))
  BY DEF Count
<1>3. NeedsWait /\ (\A x \in ToSet(tasks_wait) : Unread(x)) /\ NoSlot
  BY <1>2 DEF Served
<1>4. \A u \in Task \ {t} : pc'[u] = pc[u] /\ pc[u] \notin Section
  BY <1>1, StepFacts
<1>5. NeedsWait'
  BY <1>1, <1>4 DEF NeedsWait, Section
<1>6. /\ ToSet(tasks_wait') \subseteq ToSet(tasks_wait)
      /\ waiters'["iorq"] # <<>> => waiters["iorq"] # <<>>
  <2>1. waiters["iorq"] \in Seq(Task)
    BY DEF Listed, Queues
  <2>2. CASE UNCHANGED sched
    BY <2>2 DEF sched
  <2>3. ASSUME NEW y, Signal(y)
        PROVE  /\ ToSet(tasks_wait') \subseteq ToSet(tasks_wait)
               /\ waiters'["iorq"] # <<>> => waiters["iorq"] # <<>>
    <3>1. /\ Listed' /\ ToSet(tasks_wait') = ToSet(tasks_wait) \ {y}
          /\ ToSet(waiters'["iorq"]) = ToSet(waiters["iorq"]) \ {y}
      BY <1>1, <2>3, SignalKeeps DEF Core
    <3>2. waiters'["iorq"] \in Seq(Task)
      BY <3>1 DEF Listed, Queues
    <3> QED BY <2>1, <3>1, <3>2, HeadIn
  <2> QED BY <2>2, <2>3 DEF Count
<1>7. ASSUME NEW x \in ToSet(tasks_wait') PROVE Unread(x)'
  <2>1. /\ x \in ToSet(tasks_wait) /\ x \in Task /\ ~Sending(x) /\ doing[x] # "reply" /\ queue(x) \in Queues
        /\ owner(queue(x)) = x /\ x \in sigs_waiting /\ (queue(x) = "iorq" => x = Console)
    BY <1>6, <1>7, SleeperFacts
  <2>2. queue(x)' = queue(x)
    BY <1>1, <2>1, SameCall DEF Core
  <2>3. CASE msg_list[queue(x)] = <<>>
    BY <1>1, <2>2, <2>3 DEF Unread
  <2>4. CASE msg_list[queue(x)] # <<>>
    <3>1. PICK u \in Task : /\ free_slots[queue(x)] = max_slots(queue(x))
                            /\ Counts(u, queue(x)) /\ Sending(u)
      BY <1>3, <2>1, <2>4 DEF Unread
    <3>2. u = t /\ q = queue(x) /\ Sending(t) /\ WasEdge(t) /\ Partner(t) = x
      BY <1>4, <2>1, <3>1 DEF Counts, Section, WasEdge, Partner
    <3>3. x # NULL
      BY <2>1, QueueAssumption
    <3>4. t \in slow
      <4>1. ASSUME Signal(x) PROVE FALSE
        <5>1. ToSet(tasks_wait') = ToSet(tasks_wait) \ {x}
          BY <1>1, <4>1, SignalKeeps DEF Core
        <5> QED BY <1>7, <5>1
      <4> QED BY <3>2, <3>3, <4>1 DEF Count
    <3>5. q = "iorq"
      <4>1. doing[t] # "reply"
        BY <3>4 DEF Programs
      <4> QED BY <3>2, <4>1 DEF Sending, queue
    <3>6. Sleeps(t)
      BY <2>1, <3>2, <3>5 DEF Sleeps
    <3> QED BY <1>2, <3>2, <3>4, <3>6
  <2> QED BY <2>3, <2>4
<1>8. NoSlot'
  <2> SUFFICES ASSUME waiters'["iorq"] # <<>>, pc'[Console] # "next" PROVE free_slots'["iorq"] = 0
    BY DEF NoSlot
  <2>1. waiters["iorq"] # <<>> /\ Console \in Task
    BY <1>6 DEF Task
  <2>2. free_slots["iorq"] = 0
    BY <1>1, <1>3, <1>4, <2>1 DEF NoSlot
  <2>3. CASE q # "iorq"
    BY <1>1, <2>2, <2>3 DEF Core, Supplied
  <2>4. CASE q = "iorq"
    <3>1. Possible(t)
      BY <1>1 DEF Room
    <3>2. ~Sending(t)
      BY <2>2, <2>4, <3>1 DEF Possible
    <3>3. doing[t] = "request" /\ t = Console
      BY <2>4, <3>2, QueueOfCall, QueueAssumption DEF Core, Placed, Sending
    <3>4. WasEdge(t) /\ Sleeps(t)
      BY <2>1, <2>2, <2>4, <3>2 DEF WasEdge, Sleeps
    <3>5. Partner(t) # NULL
      <4>1. waiters["iorq"] \in Seq(Task)
        BY DEF Listed, Queues
      <4>2. Head(waiters["iorq"]) \in Task
        BY <2>1, <4>1, HeadIn
      <4> QED BY <2>1, <2>4, <3>2, <4>2, QueueAssumption DEF Partner
    <3>6. Goto(t, "next")
      BY <1>2, <3>2, <3>4, <3>5 DEF Count
    <3> QED BY <3>3, <3>6 DEF Goto, Core, Placed
  <2> QED BY <2>3, <2>4
<1> QED BY <1>5, <1>7, <1>8 DEF Served

(* A key wakes the console, or comes while it is about to wait (console.c:76). *)
LEMMA ServedKey ==
    ASSUME Core, Listed, Asleep, Room, Served, NEW k \in load.keys, KeyPress(k), lost' = {}
    PROVE  Served'
<1>1. /\ \A u \in Task : ~Counts(u, "keybd") /\ (Sending(u) => queue(u) # "keybd")
      /\ free_slots["keybd"] > 0 /\ msg_list' = [msg_list EXCEPT !["keybd"] = <<k>> \o @]
      /\ free_slots' = [free_slots EXCEPT !["keybd"] = @ - 1]
      /\ UNCHANGED <<load, got, pc, doing>>
  BY KeyFacts
<1>2. lost = {} /\ ~(pc[Console] = "wait" /\ doing[Console] = "key")
  BY DEF KeyPress
<1>3. NeedsWait /\ (\A x \in ToSet(tasks_wait) : Unread(x)) /\ NoSlot
  BY <1>2 DEF Served
<1>4. \A q \in Queues : q # "keybd" => /\ msg_list'[q] = msg_list[q] /\ free_slots'[q] = free_slots[q]
                                       /\ max_slots(q)' = max_slots(q)
  BY <1>1 DEF Core, Supplied, max_slots
<1>5. \A u \in Task : queue(u)' = queue(u) /\ Sending(u)' = Sending(u) /\ queue(u) \in Queues
  BY <1>1, SameCall, QueueOfCall DEF Core
<1>6. ASSUME NEW u \in Task, pc'[u] = "wait" PROVE ~Possible(u)'
  <2>1. queue(u) # "keybd"
    BY <1>1, <1>2, <1>6, QueueOfCall, QueueAssumption DEF Core, Placed, Sending
  <2>2. ~Possible(u)
    BY <1>1, <1>3, <1>6 DEF NeedsWait
  <2> QED BY <1>4, <1>5, <2>1, <2>2 DEF Possible
<1>7. /\ ToSet(tasks_wait') \subseteq ToSet(tasks_wait)
      /\ waiters'["iorq"] # <<>> => waiters["iorq"] # <<>>
      /\ Signal(Console) => Console \notin ToSet(tasks_wait')
  <2>1. waiters["iorq"] \in Seq(Task)
    BY DEF Listed, Queues
  <2>2. CASE Signal(Console)
    <3>1. /\ Listed' /\ ToSet(tasks_wait') = ToSet(tasks_wait) \ {Console}
          /\ ToSet(waiters'["iorq"]) = ToSet(waiters["iorq"]) \ {Console}
      BY <1>1, <2>2, SignalKeeps DEF Core
    <3>2. waiters'["iorq"] \in Seq(Task)
      BY <3>1 DEF Listed, Queues
    <3> QED BY <2>1, <3>1, <3>2, HeadIn
  <2>3. CASE ~Signal(Console)
    BY <2>3 DEF KeyPress, sched
  <2> QED BY <2>2, <2>3
<1>8. ASSUME NEW x \in ToSet(tasks_wait') PROVE Unread(x)'
  <2>1. /\ x \in ToSet(tasks_wait) /\ x \in Task /\ queue(x) \in Queues
        /\ (queue(x) = "keybd" => x = Console)
    BY <1>7, <1>8, SleeperFacts
  <2>2. queue(x) # "keybd"
    <3> SUFFICES ASSUME queue(x) = "keybd" PROVE FALSE
      OBVIOUS
    <3>1. free_slots["keybd"] \in Int /\ free_slots["keybd"] <= max_slots("keybd")
      BY DEF Room, Queues, Core, Supplied
    <3>2. free_slots["keybd"] = max_slots("keybd")
      BY <1>1, <3>1 DEF max_slots
    <3>3. Signal(Console)
      BY <3>2 DEF KeyPress
    <3> QED BY <1>7, <1>8, <2>1, <3>3
  <2>3. \A u \in Task : Counts(u, queue(x)) /\ Sending(u) => Counts(u, queue(x)') /\ Sending(u)'
    BY <1>1, <1>5, <2>1 DEF Counts
  <2>4. Unread(x)
    BY <1>3, <2>1
  <2>5. CASE msg_list[queue(x)] = <<>>
    BY <1>4, <1>5, <2>1, <2>2, <2>5 DEF Unread
  <2>6. CASE msg_list[queue(x)] # <<>>
    <3>1. PICK u \in Task : /\ free_slots[queue(x)] = max_slots(queue(x))
                            /\ Counts(u, queue(x)) /\ Sending(u)
      BY <2>4, <2>6 DEF Unread
    <3>2. Counts(u, queue(x))' /\ Sending(u)'
      BY <1>1, <1>5, <2>1, <3>1 DEF Counts
    <3>3. free_slots'[queue(x)] = max_slots(queue(x))'
      BY <1>4, <1>5, <2>1, <2>2, <3>1
    <3> QED BY <1>5, <2>1, <3>2, <3>3 DEF Unread
  <2> QED BY <2>5, <2>6
<1>9. NoSlot'
  BY <1>1, <1>3, <1>4, <1>7 DEF NoSlot, Queues
<1> QED BY <1>6, <1>8, <1>9 DEF Served, NeedsWait

(* Every step lets only those sleep who have reason to.                    *)
LEMMA NextServed ==
    Core /\ Listed /\ Asleep /\ Programs /\ Room /\ Served /\ [Next]_vars => Served'
<1> SUFFICES ASSUME Core, Listed, Asleep, Programs, Room, Served, [Next]_vars, lost' = {} PROVE Served'
  BY DEF Served
<1>1. lost = {}
  BY DEF Next, TaskStep, Call, Wait, Woken, Move, Count, NextWaiter, Permit, TimeSlice,
         TimerTask, KeyPress, KeyDropped, vars
<1>2. NeedsWait /\ (\A x \in ToSet(tasks_wait) : Unread(x)) /\ NoSlot
  BY <1>1 DEF Served
<1>3. \A t \in Task : \A l : Goto(t, l) => pc'[t] = l
  BY DEF Core, Placed, Goto
<1>4. ASSUME NEW t \in Task, TaskStep(t), pc[t] \notin {"count", "next"},
             UNCHANGED <<msg_list, free_slots, got, tasks_wait, waiters>>,
             pc'[t] = "wait" => doing'[t] = doing[t] /\ ~Possible(t)
      PROVE  Served'
  <2>1. \A x \in ToSet(tasks_wait) : msg_list[queue(x)] = <<>>
    BY <1>2, <1>4, UnreadIsEmpty
  <2>2. /\ load' = load /\ \A x \in sigs_waiting : doing'[x] = doing[x]
        /\ \A u \in Task : pc'[u] = "wait" => doing'[u] = doing[u] /\ ~Possible(u)
        /\ pc[Console] = "next" => pc'[Console] = "next"
    <3>1. sigs_waiting \subseteq Task /\ Console \in Task
      BY DEF Core, Scheduled, Task
    <3> QED BY <1>4, <3>1, StepFacts DEF Section
  <2> QED BY <1>2, <1>4, <2>1, <2>2, ServedQuietly DEF NoSlot
<1>5. ASSUME NEW t \in Task, Call(t) PROVE Served'
  <2>1. /\ TaskStep(t) /\ pc[t] = "call"
        /\ UNCHANGED <<msg_list, free_slots, got, tasks_wait, waiters>>
    BY <1>5 DEF TaskStep, Call
  <2>2. pc'[t] = "wait" => doing'[t] = doing[t] /\ ~Possible(t)
    BY <1>3, <1>5 DEF Call, Return
  <2> QED BY <1>4, <2>1, <2>2
<1>6. ASSUME NEW t \in Task, Woken(t) PROVE Served'
  <2>1. /\ TaskStep(t) /\ pc[t] = "woken"
        /\ UNCHANGED <<msg_list, free_slots, got, tasks_wait, waiters>>
    BY <1>6 DEF TaskStep, Woken
  <2>2. pc'[t] = "wait" => doing'[t] = doing[t] /\ ~Possible(t)
    BY <1>3, <1>6 DEF Woken, Retry
  <2> QED BY <1>4, <2>1, <2>2
<1>7. ASSUME NEW t \in Task, Permit(t) PROVE Served'
  <2>1. /\ TaskStep(t) /\ pc[t] = "permit" /\ pc'[t] = "call"
        /\ UNCHANGED <<msg_list, free_slots, got, tasks_wait, waiters>>
    BY <1>3, <1>7 DEF TaskStep, Permit, Return
  <2> QED BY <1>4, <2>1
<1>8. ASSUME NEW t \in Task, Move(t) PROVE Served'
  BY <1>1, <1>8, ServedMove
<1>9. ASSUME NEW t \in Task, Count(t) PROVE Served'
  BY <1>9, ServedCount
<1>10. ASSUME NEW t \in Task, NextWaiter(t) PROVE Served'
  <2>1. /\ TaskStep(t) /\ pc[t] = "next" /\ UNCHANGED <<msg_list, free_slots, got, load, doing>>
    BY <1>10 DEF TaskStep, NextWaiter
  <2>2. doing[t] = "request" /\ t = Console /\ queue(t) = "iorq" /\ ~Sending(t)
    BY <2>1, QueueOfCall DEF Programs, Core
  <2>3. \A x \in ToSet(tasks_wait) : msg_list[queue(x)] = <<>>
    BY <1>2, <2>1, UnreadIsEmpty
  <2>4. CASE pc' = pc
    <3>1. PICK y : Signal(y)
      BY <1>3, <1>10, <2>1, <2>4 DEF NextWaiter
    <3>2. /\ Listed' /\ ToSet(tasks_wait') = ToSet(tasks_wait) \ {y}
          /\ ToSet(waiters'["iorq"]) = ToSet(waiters["iorq"]) \ {y}
      BY <2>1, <3>1, SignalKeeps DEF Core
    <3>3. waiters["iorq"] \in Seq(Task) /\ waiters'["iorq"] \in Seq(Task)
      BY <3>2 DEF Listed, Queues
    <3>4. ToSet(waiters'["iorq"]) # {} => ToSet(waiters["iorq"]) # {}
      BY <3>2
    <3>5. waiters'["iorq"] # <<>> => waiters["iorq"] # <<>>
      BY <3>3, <3>4, HeadIn
    <3> QED BY <1>2, <2>1, <2>2, <2>3, <2>4, <3>2, <3>5, ServedQuietly DEF NeedsWait
  <2>5. CASE pc' # pc
    <3>1. /\ pc'[t] = "permit" /\ UNCHANGED <<tasks_wait, waiters>>
          /\ ~(free_slots["iorq"] > 0 /\ waiters["iorq"] # <<>>)
      BY <1>3, <1>10, <2>2, <2>5 DEF NextWaiter, Sleeps, sched
    <3>2. free_slots["iorq"] \in Int /\ 0 <= free_slots["iorq"]
      BY DEF Room, Queues, Core, Supplied
    <3>3. waiters'["iorq"] # <<>> => free_slots["iorq"] = 0
      BY <3>1, <3>2
    <3>4. \A u \in Task : pc'[u] # "wait"
      BY <2>1, <3>1, StepFacts DEF Section
    <3> QED BY <1>2, <2>1, <2>3, <3>1, <3>3, <3>4, ServedQuietly
  <2> QED BY <2>4, <2>5
<1>11. ASSUME NEW k \in load.keys, KeyPress(k) PROVE Served'
  BY <1>11, ServedKey
<1>12. ASSUME UNCHANGED <<load, tasks_wait, waiters, msg_list, free_slots, got, pc, doing>> PROVE Served'
  <2>1. \A u \in Task : queue(u)' = queue(u) /\ Sending(u)' = Sending(u)
    BY <1>12, SameCall DEF Core
  <2>2. NeedsWait'
    BY <1>2, <1>12, <2>1 DEF NeedsWait, Possible, max_slots
  <2>3. ASSUME NEW x \in ToSet(tasks_wait) PROVE Unread(x)'
    <3>1. Unread(x) /\ queue(x)' = queue(x)
      BY <1>2, <2>1, <2>3, SleeperFacts
    <3> QED BY <1>12, <2>1, <3>1 DEF Unread, Counts, max_slots
  <2> QED BY <1>2, <1>12, <2>2, <2>3 DEF Served, NoSlot
<1>13. ASSUME NEW t \in Task, Wait(t) PROVE Served'
  <2> DEFINE q == queue(t)
  <2>1. /\ TaskStep(t) /\ pc[t] = "wait" /\ pc'[t] = "woken" /\ ~Possible(t) /\ q \in Queues
        /\ UNCHANGED <<load, msg_list, free_slots, got, doing>> /\ pri \in [Task -> Int]
    BY <1>2, <1>3, <1>13, QueueOfCall, QueueAssumption DEF TaskStep, Wait, NeedsWait, Core
  <2>2. \A u \in Task : pc'[u] # "wait"
    BY <2>1, StepFacts DEF Section
  <2>3. \A x \in ToSet(tasks_wait) : msg_list[queue(x)] = <<>>
    BY <1>2, <2>1, UnreadIsEmpty
  <2>4. \A u \in Task : queue(u)' = queue(u) /\ Sending(u)' = Sending(u)
    BY <2>1, SameCall DEF Core
  <2>5. /\ free_slots[q] \in Int /\ max_slots(q) \in Int /\ 0 <= free_slots[q]
        /\ free_slots[q] + Len(msg_list[q]) = max_slots(q) /\ Len(msg_list[q]) \in Nat
        /\ msg_list[q] \in Seq(Messages)
    <3>1. \A u \in Task : ~Counts(u, q)
      BY <2>1, StepFacts DEF Counts, Section
    <3> QED BY <2>1, <3>1, LenProperties, QueueAssumption DEF Core, Supplied, Room, max_slots, Balanced, Used
  <2> HIDE DEF q
  <2>6. CASE Sending(t) /\ UNCHANGED tasks_wait /\ waiters' = [waiters EXCEPT ![q] = Insert(@, t)]
    <3>1. free_slots[q] = 0
      BY <2>1, <2>5, <2>6 DEF Possible, q
    <3>2. q = "iorq"
      BY <2>1, <2>6 DEF Programs, Sending, queue, q
    <3>3. \A x \in ToSet(tasks_wait) : Unread(x)'
      BY <2>1, <2>3, <2>4, SleeperFacts DEF Unread
    <3> QED BY <2>1, <2>2, <2>6, <3>1, <3>2, <3>3 DEF Served, NeedsWait, NoSlot
  <2>7. CASE ~Sending(t) /\ UNCHANGED waiters /\ tasks_wait' = Insert(tasks_wait, t)
    <3>1. Len(msg_list[q]) = 0
      BY <2>1, <2>5, <2>7 DEF Possible, q
    <3>2. msg_list[q] = <<>>
      BY <2>5, <3>1, EmptySeq
    <3>3. ToSet(tasks_wait') = ToSet(tasks_wait) \cup {t}
      BY <2>1, <2>7, InsertKeepsQueue DEF Listed
    <3>4. \A x \in ToSet(tasks_wait') : Unread(x)'
      BY <2>1, <2>3, <2>4, <3>2, <3>3, SleeperFacts DEF Unread, q
    <3>5. NoSlot'
      <4>1. pc[Console] = "next" => pc'[Console] = "next"
        BY <2>1, StepFacts DEF Task
      <4> QED BY <1>2, <2>1, <2>7, <4>1 DEF NoSlot
    <3> QED BY <2>2, <3>4, <3>5 DEF Served, NeedsWait
  <2> QED BY <1>13, <2>6, <2>7 DEF Wait, q
<1>14. ASSUME TimeSlice \/ TimerTask \/ KeyDropped \/ UNCHANGED vars PROVE Served'
  BY <1>12, <1>14 DEF TimeSlice, TimerTask, KeyDropped, vars, sched
<1> QED
  BY <1>5, <1>6, <1>7, <1>8, <1>9, <1>10, <1>11, <1>13, <1>14 DEF Next, TaskStep

-----------------------------------------------------------------------------
(* A slot for each client.                                                 *)

(* A list without duplicates is as long as its set is large.               *)
LEMMA DistinctCount ==
    ASSUME NEW T, NEW s \in Seq(T), NoDuplicates(s)
    PROVE  IsFiniteSet(ToSet(s)) /\ Cardinality(ToSet(s)) = Len(s) /\ Len(s) \in Nat
<1>1. Len(s) \in Nat /\ DOMAIN s = 1..Len(s) /\ s \in [1..Len(s) -> T]
  BY LenProperties
<1>2. s \in Bijection(1..Len(s), ToSet(s))
  BY <1>1 DEF Bijection, Injection, Surjection, IsInjective, ToSet, NoDuplicates
<1>3. ExistsBijection(1..Len(s), ToSet(s))
  BY <1>2 DEF ExistsBijection
<1>4. IsFiniteSet(1..Len(s)) /\ Cardinality(1..Len(s)) = Len(s)
  <2>1. Cardinality(1..Len(s)) = IF 1 > Len(s) THEN 0 ELSE Len(s) - 1 + 1
    BY <1>1, FS_Interval
  <2> QED BY <1>1, <2>1, FS_Interval
<1> QED BY <1>1, <1>3, <1>4, FS_Bijection

(* A client that begins to send is not in the queue itself, and the        *)
(* requests of the others leave a slot (device.c:35, queue.c:39).          *)
LEMMA SendHasRoom ==
    ASSUME Core, Requests, Listed, Spare, Len(load.clients) <= load.slots,
           NEW t \in Client, Runs(t), pc[t] = "call", doing[t] = "send"
    PROVE  Possible(t)
<1> DEFINE s == msg_list["iorq"]
           C == ToSet(load.clients)
<1>1. /\ t \in Task /\ "iorq" \in Queues /\ Sending(t) /\ queue(t) = "iorq"
      /\ s \in Seq(Client) /\ NoDuplicates(s) /\ t # Console
      /\ load.clients \in Seq(Client) /\ NoDuplicates(load.clients) /\ load.slots \in Nat
  BY QueueAssumption, QueueOfCall DEF Task, Queues, Core, Supplied, Requests
<1>2. t \in C
  BY <1>1 DEF Runs, Listed, Active
<1>3. t \notin ToSet(s)
  BY DEF Requests, OnePlace, Queued, Asks, Done
<1>4. ToSet(s) \in SUBSET (C \ {t})
  BY <1>3 DEF Spare
<1>5. /\ IsFiniteSet(C) /\ Cardinality(C) = Len(load.clients) /\ Len(load.clients) \in Nat
      /\ Cardinality(ToSet(s)) = Len(s) /\ Len(s) \in Nat
  BY <1>1, DistinctCount
<1> HIDE DEF s, C
<1>6. IsFiniteSet(C \ {t}) /\ Cardinality(C \ {t}) = Cardinality(C) - 1
  BY <1>2, <1>5, FS_RemoveElement
<1>7. Cardinality(ToSet(s)) <= Cardinality(C \ {t})
  BY <1>4, <1>6, FS_Subset
<1>8. Len(s) < load.slots
  BY <1>1, <1>5, <1>6, <1>7
<1>9. free_slots["iorq"] + Len(s) = load.slots /\ free_slots["iorq"] \in Int
  <2>1. \A u \in Task : ~Counts(u, "iorq")
    BY DEF Runs, GoesOn, Core, Sectioned, Section, Counts
  <2> QED BY <1>1, <2>1 DEF Core, Supplied, Balanced, Used, max_slots, s
<1>10. free_slots["iorq"] > 0
  BY <1>1, <1>5, <1>8, <1>9
<1> QED BY <1>1, <1>10 DEF Possible

(* The requests are those of the clients of the workload.                  *)
LEMMA NextRequesters ==
    ASSUME Core, Requests, Listed, ToSet(msg_list["iorq"]) \subseteq ToSet(load.clients), [Next]_vars
    PROVE  ToSet(msg_list'["iorq"]) \subseteq ToSet(load'.clients)
<1>1. load' = load
  BY DEF Next, TaskStep, Call, Wait, Woken, Move, Count, NextWaiter, Permit, TimeSlice,
         TimerTask, KeyPress, KeyDropped, vars
<1>2. CASE msg_list'["iorq"] = msg_list["iorq"]
  BY <1>1, <1>2
<1>3. ASSUME NEW t \in Task, Move(t) PROVE ToSet(msg_list'["iorq"]) \subseteq ToSet(load'.clients)
  <2>1. "iorq" \in Queues /\ msg_list["iorq"] \in Seq(Client) /\ NoDuplicates(msg_list["iorq"])
        /\ msg_list \in [Queues -> Seq(Messages)] /\ running = t
    BY <1>3 DEF Queues, Core, Supplied, Requests, Move, Runs
  <2>2. CASE queue(t) # "iorq"
    BY <1>2, <1>3, <2>1, <2>2 DEF Move
  <2>3. CASE queue(t) = "iorq" /\ Sending(t)
    <3>1. doing[t] = "send" /\ Msg(t) = t /\ t \in Client /\ t # Console
      BY <2>3, QueueOfCall, QueueAssumption DEF Core, Placed, Sending, Msg
    <3>2. msg_list'["iorq"] = <<t>> \o msg_list["iorq"]
      BY <1>3, <2>1, <2>3, <3>1, MoveFacts
    <3>3. ToSet(msg_list'["iorq"]) = ToSet(msg_list["iorq"]) \cup {t}
      BY <2>1, <3>1, <3>2, PushElements
    <3>4. t \in ToSet(load.clients)
      BY <2>1, <3>1 DEF Listed, Active
    <3> QED BY <1>1, <3>3, <3>4
  <2>4. CASE queue(t) = "iorq" /\ ~Sending(t)
    <3>1. msg_list'["iorq"] = Front(msg_list["iorq"]) /\ Len(msg_list["iorq"]) > 0
      <4>1. /\ msg_list' = [msg_list EXCEPT ![queue(t)] = Front(msg_list[queue(t)])]
            /\ Len(msg_list[queue(t)]) > 0
        BY <1>3, <2>4, MoveFacts
      <4> QED BY <2>1, <2>4, <4>1
    <3>2. ToSet(msg_list'["iorq"]) \subseteq ToSet(msg_list["iorq"])
      BY <2>1, <3>1, PopElements
    <3> QED BY <1>1, <3>2
  <2> QED BY <2>2, <2>3, <2>4
<1>4. ASSUME NEW k \in load.keys, KeyPress(k) PROVE msg_list'["iorq"] = msg_list["iorq"]
  BY <1>4, KeyFacts
<1>5. ASSUME NEW t \in Task, Call(t) \/ Wait(t) \/ Woken(t) \/ Count(t) \/ NextWaiter(t) \/ Permit(t)
      PROVE  msg_list'["iorq"] = msg_list["iorq"]
  BY <1>5 DEF Call, Wait, Woken, Count, NextWaiter, Permit
<1>6. ASSUME TimeSlice \/ TimerTask \/ KeyDropped \/ UNCHANGED vars PROVE msg_list'["iorq"] = msg_list["iorq"]
  BY <1>6 DEF TimeSlice, TimerTask, KeyDropped, vars
<1> QED BY <1>2, <1>3, <1>4, <1>5, <1>6 DEF Next, TaskStep

(* With a slot for each client no send waits, and so no wake-up is lost to *)
(* a call that has waited or to the walk (queue.c:60-66, 110-115).         *)
LEMMA NextSpare ==
    Core /\ Requests /\ Listed /\ Programs /\ Spare /\ [Next]_vars => Spare'
<1> SUFFICES ASSUME Core, Requests, Listed, Programs, Spare, [Next]_vars PROVE Spare'
  OBVIOUS
<1> DEFINE Swift(u) == doing[u] = "send" => pc[u] \notin {"wait", "woken"} /\ u \notin slow
           Open == waiters["iorq"] = <<>> /\ lost \subseteq {"late"}
<1>1. load' = load /\ ToSet(msg_list'["iorq"]) \subseteq ToSet(load'.clients)
  <2>1. load' = load
    BY DEF Next, TaskStep, Call, Wait, Woken, Move, Count, NextWaiter, Permit, TimeSlice,
           TimerTask, KeyPress, KeyDropped, vars
  <2> QED BY <2>1, NextRequesters DEF Spare
<1> SUFFICES ASSUME Len(load.clients) <= load.slots PROVE Open' /\ \A u \in Task : Swift(u)'
  BY <1>1 DEF Spare
<1>2. Open /\ \A u \in Task : Swift(u)
  BY DEF Spare
<1>3. \A q \in Queues : waiters[q] = <<>>
  BY <1>2 DEF Listed
<1>4. \A t \in Task : \A l : Goto(t, l) => pc'[t] = l
  BY DEF Core, Placed, Goto
<1>5. ASSUME NEW x, Signal(x) PROVE waiters'["iorq"] = <<>>
  <2>1. Listed' /\ ToSet(waiters'["iorq"]) = ToSet(waiters["iorq"]) \ {x}
    BY <1>1, <1>5, SignalKeeps DEF Core
  <2>2. waiters'["iorq"] \in Seq(Task) /\ waiters["iorq"] \in Seq(Task)
    BY <2>1 DEF Listed, Queues
  <2>3. ToSet(waiters["iorq"]) = {}
    BY <1>2, <2>2, HeadIn
  <2> QED BY <2>1, <2>2, <2>3, HeadIn
<1>6. ASSUME NEW t \in Task, TaskStep(t), slow' \subseteq slow \cup {t}, Swift(t)', Open'
      PROVE  Open' /\ \A u \in Task : Swift(u)'
  BY <1>2, <1>6, StepFacts
<1>7. ASSUME NEW t \in Task, Call(t) PROVE Open' /\ \A u \in Task : Swift(u)'
  <2>1. TaskStep(t) /\ UNCHANGED <<slow, waiters, lost>> /\ pc[t] = "call" /\ Runs(t)
    BY <1>7 DEF TaskStep, Call
  <2>2. doing[t] = "send" => Possible(t)
    BY <2>1, SendHasRoom, QueueOfCall DEF Core
  <2>3. t \notin slow
    BY <2>1 DEF Programs
  <2>4. pc'[t] = "call" \/ (doing' = doing /\ (pc'[t] = "move" \/ ~Possible(t)))
    BY <1>4, <1>7 DEF Call, Return
  <2> QED BY <1>2, <1>6, <2>1, <2>2, <2>3, <2>4
<1>8. ASSUME NEW t \in Task, Wait(t) PROVE Open' /\ \A u \in Task : Swift(u)'
  <2>1. TaskStep(t) /\ UNCHANGED <<doing, lost>> /\ pc[t] = "wait" /\ slow' = slow \cup {t}
    BY <1>8 DEF TaskStep, Wait
  <2>2. doing[t] # "send" /\ doing[t] # "reply"
    BY <1>2, <2>1 DEF Programs
  <2>3. UNCHANGED waiters
    BY <1>8, <2>2 DEF Wait, Sending
  <2> QED BY <1>2, <1>6, <2>1, <2>2, <2>3
<1>9. ASSUME NEW t \in Task, Woken(t) PROVE Open' /\ \A u \in Task : Swift(u)'
  <2>1. TaskStep(t) /\ UNCHANGED <<doing, lost, slow, waiters>> /\ pc[t] = "woken"
    BY <1>9 DEF TaskStep, Woken
  <2> QED BY <1>2, <1>6, <2>1
<1>10. ASSUME NEW t \in Task, Move(t) PROVE Open' /\ \A u \in Task : Swift(u)'
  <2>1. /\ TaskStep(t) /\ UNCHANGED <<doing, lost, slow, waiters>> /\ pc'[t] = "count"
    BY <1>4, <1>10 DEF TaskStep, Move, sched
  <2> QED BY <1>2, <1>6, <2>1
<1>11. ASSUME NEW t \in Task, Count(t) PROVE Open' /\ \A u \in Task : Swift(u)'
  <2>1. TaskStep(t) /\ UNCHANGED <<doing, slow>> /\ pc'[t] \in {"permit", "next"}
    BY <1>4, <1>11 DEF TaskStep, Count
  <2>2. ~(t \in slow /\ Sleeps(t))
    <3>1. CASE Sending(t)
      BY <1>2, <3>1 DEF Programs, Sending
    <3>2. CASE ~Sending(t)
      BY <1>3, <3>2, QueueOfCall DEF Sleeps, Core
    <3> QED BY <3>1, <3>2
  <2>3. lost' = lost
    BY <1>11, <2>2 DEF Count
  <2>4. waiters'["iorq"] = <<>>
    BY <1>2, <1>5, <1>11 DEF Count, sched
  <2> QED BY <1>2, <1>6, <2>1, <2>3, <2>4
<1>12. ASSUME NEW t \in Task, NextWaiter(t) PROVE Open' /\ \A u \in Task : Swift(u)'
  <2>1. TaskStep(t) /\ UNCHANGED <<doing, slow>> /\ pc[t] = "next" /\ (pc'[t] = pc[t] \/ pc'[t] = "permit")
    BY <1>4, <1>12 DEF TaskStep, NextWaiter
  <2>2. ~Sleeps(t)
    BY <1>2, <2>1, QueueOfCall DEF Sleeps, Programs, Core
  <2>3. lost' = lost
    BY <1>12, <2>2 DEF NextWaiter
  <2>4. waiters'["iorq"] = <<>>
    BY <1>2, <1>5, <1>12 DEF NextWaiter, sched
  <2> QED BY <1>2, <1>6, <2>1, <2>3, <2>4
<1>13. ASSUME NEW t \in Task, Permit(t) PROVE Open' /\ \A u \in Task : Swift(u)'
  <2>1. TaskStep(t) /\ UNCHANGED <<lost, waiters>> /\ slow' = slow \ {t} /\ pc'[t] = "call"
    BY <1>4, <1>13 DEF TaskStep, Permit, Return
  <2> QED BY <1>2, <1>6, <2>1
<1>14. ASSUME NEW k \in load.keys, KeyPress(k) PROVE Open' /\ \A u \in Task : Swift(u)'
  <2>1. UNCHANGED <<pc, doing, slow>> /\ lost' \subseteq lost \cup {"late"}
    BY <1>14 DEF KeyPress
  <2>2. waiters'["iorq"] = <<>>
    BY <1>2, <1>5, <1>14 DEF KeyPress, sched
  <2> QED BY <1>2, <2>1, <2>2
<1>15. ASSUME TimeSlice \/ TimerTask \/ KeyDropped \/ UNCHANGED vars PROVE Open' /\ \A u \in Task : Swift(u)'
  <2>1. UNCHANGED <<pc, doing, slow, waiters, lost>>
    BY <1>15 DEF TimeSlice, TimerTask, KeyDropped, vars, sched
  <2> QED BY <1>2, <2>1
<1> QED
  BY <1>7, <1>8, <1>9, <1>10, <1>11, <1>12, <1>13, <1>14, <1>15 DEF Next, TaskStep

-----------------------------------------------------------------------------
(* The theorems.                                                           *)

(* Nobody sleeps at the start and nothing is lost (kernel_main.c:85-108).   *)
LEMMA InitWakeups == Init => Wakeups
<1> SUFFICES ASSUME Init PROVE Wakeups
  OBVIOUS
<1>1. /\ load \in Workload /\ load.clients \in Seq(Client) /\ NoDuplicates(load.clients)
      /\ load.slots \in Nat \ {0} /\ load.leaks \in Nat
      /\ {"iorq", "keybd"} \subseteq Queues /\ Console \in Task
  BY QueueAssumption DEF Init, Queues, Task
<1>2. /\ running = Console /\ idle = FALSE /\ ready = load.clients
      /\ tasks_wait = <<>> /\ waiters = [q \in Queues |-> <<>>] /\ sigs_waiting = {}
      /\ msg_list = [q \in Queues |-> <<>>] /\ free_slots = [q \in Queues |-> max_slots(q)]
      /\ slow = {} /\ lost = {} /\ created = {"iorq", "keybd"} /\ forbid_counter = 0
      /\ \A t \in Task : pc[t] = "call"
  BY DEF Init
<1>3. <<>> \in Seq(Task) /\ NoDuplicates(<<>>) /\ ToSet(<<>>) = {}
  BY DEF NoDuplicates, ToSet
<1>4. Listed
  BY <1>1, <1>2, <1>3 DEF Listed, Active, OnProcessor
<1>5. Asleep /\ Programs /\ Forbids
  BY <1>1, <1>2, <1>3 DEF Asleep, Programs, Forbids
<1>6. Room
  BY <1>1, <1>2 DEF Room, max_slots
<1>7. Served
  BY <1>1, <1>2, <1>3 DEF Served, NeedsWait, NoSlot
<1>8. Spare
  BY <1>1, <1>2, <1>3 DEF Spare
<1> QED BY <1>4, <1>5, <1>6, <1>7, <1>8 DEF Wakeups

(* Every step keeps what the wake-ups rest on.                             *)
LEMMA NextWakeups == Core /\ Requests /\ Wakeups /\ [Next]_vars => Wakeups'
BY NextListed, NextAsleep, NextPrograms, NextForbids, NextRoom, NextServed, NextSpare DEF Wakeups

(* Who sleeps, in which list and why (queue.c:33-137).                     *)
THEOREM QueueWakeups == Spec => [](Core /\ Requests /\ Wakeups)
<1>1. Init => Core /\ Requests /\ Wakeups
  BY InitCore, InitRequests, InitWakeups
<1>2. Core /\ Requests /\ Wakeups /\ [Next]_vars => (Core /\ Requests /\ Wakeups)'
  BY NextCore, NextRequests, NextWakeups
<1> QED BY <1>1, <1>2, PTL DEF Spec

(* The lists hold every active task that does not run, once, and the       *)
(* forbid counter is at most what dropped keys have left and the call in   *)
(* progress has added (task.c:50-149, queue.c:33-137).                     *)
THEOREM QueueTypeOK == Spec => []TypeOK
<1>1. Core /\ Requests /\ Wakeups => TypeOK
  <2> SUFFICES ASSUME Core, Wakeups PROVE TypeOK
    OBVIOUS
  <2>1. forbid_counter \in 0..(load.leaks + 2)
    BY QueueAssumption DEF Core, Scheduled, Supplied, Wakeups, Forbids
  <2>2. /\ running \in Task /\ idle \in BOOLEAN /\ NoDuplicates(ready)
        /\ NoDuplicates(tasks_wait) /\ NoDuplicates(waiters["iorq"])
        /\ sigs_waiting = ToSet(tasks_wait) \cup ToSet(waiters["iorq"])
        /\ \A q \in Queues \ {"iorq"} : waiters[q] = <<>>
    BY DEF Core, Scheduled, Wakeups, Listed
  <2>3. ToSet(ready) \cup ToSet(tasks_wait) \cup ToSet(waiters["iorq"])
           = Active \ (IF idle THEN {} ELSE {running})
    <3>1. /\ ToSet(ready) \cup sigs_waiting \cup OnProcessor = Active
          /\ ~idle => running \notin ToSet(ready) \cup sigs_waiting
      BY DEF Core, Scheduled, Wakeups, Listed
    <3> QED BY <2>2, <3>1 DEF OnProcessor
  <2>4. /\ created \in SUBSET Queues /\ slow \in SUBSET Task
        /\ msg_list \in [Queues -> Seq(Messages)] /\ free_slots \in [Queues -> Int]
    BY DEF Core, Supplied, Wakeups, Programs
  <2> QED BY <2>1, <2>2, <2>3, <2>4 DEF TypeOK, Active
<1> QED BY QueueWakeups, <1>1, PTL

(* Until an interrupt breaks a section no wake-up is lost but for the      *)
(* three reasons, and with a slot for each client only a key between test  *)
(* and wait() is missed (queue.c:60-66, 104-116; console.c:76).            *)
THEOREM QueueNoLostWakeup == Spec => []NoLostWakeup
<1>1. Core /\ Requests /\ Wakeups => SleepersAreServed
  <2> SUFFICES ASSUME Core, Wakeups, lost = {}
               PROVE  /\ \A t \in ToSet(tasks_wait) : msg_list[queue(t)] = <<>> \/ BeingServed(queue(t))
                      /\ waiters["iorq"] = <<>> \/ free_slots["iorq"] = 0 \/ BeingServed("iorq")
    BY DEF SleepersAreServed
  <2>1. (\A t \in ToSet(tasks_wait) : Unread(t)) /\ NoSlot
    BY DEF Wakeups, Served
  <2>2. ASSUME NEW t \in ToSet(tasks_wait) PROVE msg_list[queue(t)] = <<>> \/ BeingServed(queue(t))
    BY <2>1 DEF Unread, Counts, BeingServed
  <2>3. pc[Console] = "next" => BeingServed("iorq")
    <3>1. Console \in Task
      BY DEF Task
    <3>2. pc[Console] = "next" => queue(Console) = "iorq"
      BY <3>1, QueueOfCall DEF Core, Wakeups, Programs
    <3> QED BY <3>1, <3>2 DEF BeingServed
  <2> QED BY <2>1, <2>2, <2>3 DEF NoSlot
<1>2. Core /\ Requests /\ Wakeups => EnoughSlots
  BY DEF Wakeups, Spare, EnoughSlots
<1> QED BY QueueWakeups, <1>1, <1>2, PTL DEF NoLostWakeup
=============================================================================
