# Krypton kernel: TLA+ models, checks and proofs

Krypton is a small preemptive kernel for the IBM PC (i386, one processor) with
Exec-style lists, tasks, signals and message queues. This directory models its
concurrent core: what the code does, statement by statement where an interrupt
can come between two statements, which properties that keeps, and where it
breaks what its own comments say.

File references are to `src/`. `PROJECT.json` gives, for every definition that
models code, the lines it stands for.

## The system

### Parts

| Part | Code | State | Operations | Hard behaviour |
|---|---|---|---|---|
| Exec lists | `list.c`, `common.h` | doubly linked nodes with a priority; a header whose three pointers overlay two sentinel nodes | `new_list`, `add_head`, `add_tail`, `remove_head`, `remove_tail`, `remove`, `get_next/head/tail`, `enqueue` | no flag says whether a node is linked; `enqueue` walks while interrupts come |
| Scheduler and signals | `task.c`, `task.h` | `tasks_ready`, `tasks_wait`, `running_task`, `forbid_counter`, `wait_lock`, `sched_state`, task structures | `create_task`, `destroy_task`, `forbid`, `permit`, `wait`, `signal`, `delay`, `yield`, `schedule`, `switch_tasks` | sections protected by counters that interrupts also change; a dispatcher that idles inside an interrupt handler |
| Timer | `timer.c` | `system_tick`, `task_delay` of waiting tasks | `timer_callback` | walks a list that its own `signal()` changes |
| Interrupt entry and exit | `idt.c`, `idt_s.asm` | `k_reenter`, handler table | `idt_handler`, `irq_handler` | nesting; the EOI is sent last |
| System calls | `syscalls.c` | none | `yield`, heap and mapping calls | they enable interrupts, also inside interrupts |
| Message queues | `queue.c` | messages, `free_slots`, waiting senders, owner | `create_queue`, `destroy_queue`, `queue_send`, `queue_recv` | non-blocking send from an interrupt, blocking send and receive from tasks; who is woken when |
| Console | `console.c` | keyboard queue, request queue, line buffer and index | `keypress_isr`, `console_device` | producer is an interrupt, consumer a task; the buffer belongs to another task |
| Devices | `device.c` | device list | `register_device_node`, `get_device`, `do_io`, `send_io` | request and reply queues, the latter destroyed by the receiver |
| Kernel heap | `kmalloc.c` | chunks, free list, heap end | `_kmalloc`, `_kfree`, split, merge, grow, shrink | search runs with interrupts enabled; an interrupt allocates too |
| Pages | `mm.c` | bitmap, free count, page tables | `pa_alloc`, `pa_free`, `mm_map`, `mm_unmap` | free count kept beside the bitmap |
| Kernel start | `kernel_main.c` | line buffer, clock | `init` with the prompt, `timer_task` | interrupts enabled before the tasks exist; two tasks print |
| Screen | `monitor.c` | characters, cursor | `monitor_put`, `scroll`, `monitor_writexy`, `monitor_init` | wrapping and scrolling that backspace must undo; two writers without a lock |
| Formatting, strings | `vsprintf.c`, `kprintf.c`, `common.c` | | `vsprintf`, `number`, `strcmp`, `strlen` | edges of numbers |
| CPU set-up, panic | `cpu.c`, `boot.asm`, `panic.c` | | | sequential |

### How the parts meet

A task calls `wait()`, `signal()`, `delay()`, `queue_recv()` as ordinary
functions; only the giving up of the processor (`yield`) and the heap calls are
`int 0xFF`. The timer interrupt wakes tasks of `tasks_wait` by calling
`signal()`; the keyboard interrupt calls `queue_send()`, which calls
`signal()` on the owner of the queue. Every kernel entry (`idt_handler`,
`irq_handler`) increments `k_reenter` and on its way out, if `NEED_SCHEDULE` is
set, calls `schedule()`, which refuses when `k_reenter > 0` or
`forbid_counter > 0`; otherwise `switch_tasks()` replaces the saved registers
with those of the next task and idles with `hlt` when there is none.
All of this state is global and shared between tasks and interrupts.

### What makes each part correct

- **Lists**: links agree in both directions; the operations are those of
  sequences; `enqueue` keeps the order of priority and is first-in first-out
  among equals (round robin depends on it).
- **Scheduler**: the two lists never share a task and are ordered; no list
  routine is called on a node in the wrong state; no task is lost; flags say
  where a task is; the counters count what they claim to; the processor
  changes hands only at task level with multitasking enabled; `wait()` returns
  only when signalled; a woken task of higher priority preempts; delays end.
- **Heap**: free and live chunks cover the heap without gap or overlap; free
  chunks are never adjacent; a caller gets a block of at least its size that
  nobody else's overlaps; a call ends.
- **Pages**: a physical page has one owner, the free count is the number of set
  bits, exactly the heap's pages are mapped, no page leaks.
- **Queues**: bounded channels, first in first out; `free_slots` and the list
  agree outside a section; a task goes to the list only for what is there; who
  sleeps has nothing to do; a synchronous request returns, and its reply queue
  lives as long as somebody uses it.
- **Console and screen**: a read returns what was typed less what was taken back;
  the line on the screen is the line in the buffer; index and cursor stay in
  bounds; tasks do not print at the same time; the status line is the clock's.
- **Formatting**: a number printed reads back as itself, in a field as wide as
  asked for; strings are told apart.

## Modules

| Module | What it is |
|---|---|
| `ExecList` | `list.c` on pointers. A cell is a node, or one of the two sentinels a header overlays (`HeadCell` is `&head`, `TailCell` is `&tail`). `enqueue()` is one action per loop iteration: other routines may run in between. |
| `PriorityLists` | what `list.c` promises: every list is a sequence, `Enqueue` inserts by priority |
| `ExecListRefinement` | the refinement mapping (a list is what one finds following `next`), and properties about walks and stability |
| `PriorityOrder` | the sequence operators the other modules share: `Insert`, `Without`, `After` |
| `Sched` | tasks, signals, timer, keyboard, system calls, dispatcher |
| `SchedProperties` | what the scheduler guarantees |
| `PageAlloc` | the bitmap, mapping and start-up of `mm.c`, as operators on one record |
| `Heap` | `kmalloc.c` on those pages: a task's calls and the interrupt's |
| `BlockStore` | what `kmalloc()` and `kfree()` promise: disjoint blocks of at least the requested size |
| `HeapProperties` | tiling, pages, merging, the refinement to `BlockStore`, termination |
| `Queue` | `queue.c`, `do_io()`, the console's request loop and the keyboard interrupt, on `wait()` and `signal()` |
| `Channels` | what queues promise: bounded channels |
| `QueueProperties` | sections, wake-ups, the refinement to `Channels`, liveness of `do_io()` |
| `Screen` | `monitor.c` as operators on cells and cursor |
| `Console` | boot task, line editor and clock on that screen |
| `LineInput` | what a read promises: the characters typed less those taken back |
| `ConsoleProperties` | echo, ownership of screen and buffer, status line, the refinement to `LineInput` |
| `Format`, `FormatProperties` | `vsprintf()`, the numbers of `monitor.c`, `strcmp()`, and what they must print and tell apart |
| `MC_*` | instances for TLC |
| `PriorityOrderProofs`, `ExecListProofs`, `SchedProofs`, `SchedTaskProofs`, `QueueProofs`, `HeapProofs`, `ConsoleProofs`, `FormatProofs` | theorems |

Operators whose name ends in `_Fault` are plausible slips of the code beside
them (a dropped guard, an off-by-one). No action uses them; they document
which mistake each property catches.

### How `Sched` reads

`running`, `ready`, `waiting`, `forbidCounter`, `waitLock`, `kReenter` are the
globals of the same name; `needSchedule` is the bit in `sched_state`; `flags`,
`sigsWaiting`, `sigsRecvd`, `taskDelay` are the fields of the task structures.
`pc[t]` is where task `t` is in its code (loaded when it runs, saved when it
does not), `call` and `target` are the arguments of the call it is in. `at[L]`
is where the system call level, the keyboard interrupt and the timer interrupt
are, and the level `resume`; `Top` is the one that executes. Registers and
stacks appear only as `pc` and `at`.

*Granularity.* One action is a stretch with interrupts disabled, or one
statement that reads or writes shared state. Task code runs with interrupts
enabled, so `wait()` is nine actions and `signal()` in a task is seven. In the
timer and keyboard interrupt `signal()` runs under `cli` (`timer.c:27`) up to
the `yield()` inside it. `enqueue()` and `remove()` are one action each here
(`ExecList` has the walk step by step), but a task runs them with interrupts
enabled and `forbid()` does not keep interrupts off a list. So whenever the
kernel, or another task, changes a list while some task stands at a list
routine on the same list, the model branches: that task had not begun yet, and
its action follows later, or it was inside, the links are undefined, and the
model records `raced` and stops (`Races`).

*Interrupts.* `irq_handler()` sends the EOI after everything else
(`idt.c:188`), so the timer interrupt never nests in itself and the keyboard
interrupt (lower priority at the controller) comes only when neither is in
service. The heap and `yield` system calls inside `queue_send()` execute `sti`,
so a timer interrupt can come inside the keyboard interrupt; they are the
labels `alloc` and `yield` of level `irq1`, with `k_reenter` one higher.

*The end of the idle loop.* `enable()` (`task.c:98`) is never undone: a level
that has idled executes the rest of `switch_tasks()`, the EOI, `k_reenter--` and
the return with interrupts enabled. These are actions of their own: `IdlePick`,
`IdleRemove`, `IdleRun` (label `unlinked`, the assignment of `running_task`, its flag
and its context), `IdleEOI` (label `eoi`), `ResumeCount` and `ResumeReturn`. From its EOI on
such a level is `resume`, below the three others, since its interrupt may come
again on top of it. At `iret` it is still on the stack but no longer in `k_reenter`.

*Ghosts.* Five variables record that a circumstance has occurred which
breaks a section of the code: `breached` (an interrupt's `_yield()` zeroed the
forbid count of an interrupted section), `hit` (an interrupt signalled the task
that is running, on its way into `wait()`), `leaked` (`queue_send()` returned
without `permit()`), `raced` (above; the timer waking a task while another is
in the `enqueue()` of `signal()` is the shortest case, and the `remove()` behind the
idle loop is another), `stranded` (an interrupt between the `k_reenter--` and the `iretd` behind
an idle loop switched to another task). `Sound` says that none
has. A sixth, `misused`, records the first `enqueue()` of a linked node or `remove()` of an unlinked one.
After a misuse or a race the links are undefined. After a stranding the context
saved for the task is one of the kernel, and an `iretd` that does not change the privilege level
does not restore its stack. The model stops at each of these three. A switch
in the same place that comes back to the same task does no harm and is not recorded.

*Merged or left out, and why it does not matter for the properties.* The
forbid/store/permit of `delay()` is one action (its store is not looked at
before the wait begins). The two `kmalloc()` calls of `queue_send()` are one
stage. `create_task()` fills in fresh memory that nobody else knows, so
only its `enqueue()` is visible. The assignments of `IdleRun` are one action: of what they
write an interrupt between them reads the priority of `running_task` only, as `k_reenter` keeps
the scheduler away. A task that destroys itself and blocking senders are left out, and so are
failed allocations: `_kmalloc()` never returns NULL, it panics.

### How `Heap` reads

Addresses and sizes are in units of 16 bytes, to which `_kmalloc()` rounds every
request and which is also the size of a header, so no arithmetic is lost.
`k_heap_start` is the set of chunks on the free list, which is in order of
address; `size` holds the size fields of all chunks, `live` the chunks callers
hold. `call[c]` has the local variables of `_kmalloc()` in a task or in the
keyboard interrupt. A heap call is a system call with interrupts enabled, and
nothing switches tasks inside one (`SwitchAtTaskLevel`), so one task is in the
heap at a time. The steps of a call are the points where the interrupt may
come: the read of the list head, the read of `k_heap_end`, each turn of the
search, and the stretch under `cli` that takes the chunk or maps a page. The
interrupt's own allocation completes before the task goes on; interrupts never
free. `_kfree()`, with `merge_heap()` and its shrinking, is one stretch under
`cli` and one action.

A chunk that an interrupt takes off the list still points to its successor, and
a search that stands on it follows that pointer (`stale`). When the task reaches
the `cli` with a chunk that is no longer free, grows the heap at an end that has
moved, or enlarges or shrinks a last free chunk that does not end at the heap
end, the structure is destroyed: the step sets `damaged` and the model stops,
as it does after a panic.

`PageAlloc` keeps the bitmap as the set of free pages and the count beside it.
`mm_init()` is computed from a memory map whose addresses are in half pages, so
that entries can meet inside a page. Page 0 and the kernel lie in usable
memory in every map (`HoldsKernel`: a boot loader put the kernel there), because
`set_page_bit()` decrements the count whatever the bit was. Page 0 is therefore
never given out, and the return of `mm_map()` on a null page (`mm.c:278`) is left out.
The code reads the lower halves of the 64-bit addresses and lengths of the memory map only
(`mm.c:210`), and so does `Entry`: memory above 4 GiB appears at the address the code takes it for. The routines of the
bitmap and of the mapping take sets of pages, for the loops of `mm_init()` and
`merge_heap()` that call them page by page.

### How `Queue` reads

`Sched` has the insides of `wait()`, `signal()` and the timer, statement by
statement, for one queue. `Queue` takes each of them as one step, up to the
switch it ends in, and has the rest: any number of clients, blocking senders,
three kinds of queue. `doing[t]` is the call task `t` is in (clients alternate
between the send and the receive of `do_io()`, the console goes from
request to keys to reply), `pc[t]` where it is in the routine: `call` (entry and first
test), `wait`, `woken` (back from `wait()`), `move` (the list), `count`
(`free_slots` and the signal), `next` (the walk over the waiting senders) and
`permit`. A time slice ends between any two steps with `forbid_counter` at 0.
Between any two steps, with multitasking disabled too, a key comes
(`KeyPress`) or a tick wakes the timer task (`TimerTask`). That task has priority 10 and
touches no queue; it runs, writes the time and calls `delay(50)` again before one of the
others goes on. What it leaves behind is a `forbid_counter` of 0 and the interrupted
task behind its equals in the ready list. `msg_list` is from the head, where messages go in.

`breached` is the circumstance of `Sched` of the same name, a key or a tick that
takes the processor out of a section; the model stops there. `hit`, `raced` and
`stranded` lie inside `wait()`, `signal()` and the dispatcher, which are one step here. `halted`
is the state of `idle_can_be_woken`: the tick that interrupts the timer task's own
`wait()`, with nobody else ready, idles before its EOI and for good. The model may stop at a wake-up
of the timer task while the processor idles. `lost` says which
wake-ups have been missed: `late` (the key between test and `wait()`,
`queue.c:99`), `slow` (a call that had to wait signals nobody, `:86`, `:128`)
and `walk` (`get_next()` of a sender that is in another list by now, `:110`). It
goes on after `late`, which the kernel meets, and stops after the other two,
which take more clients than slots.

### How `Console` and `Screen` read

The screen is a record of cells and cursor, `monitor_put()` an operator on it.
Any two characters of two tasks may interleave; `monitor_put()` itself is one
step, which `OneWriter` justifies: the boot task and the console never print at
the same time, and the timer task writes cells nobody else touches. The request and
the reply queue of `Queue` are two booleans. A key is the character it stands
for. The line buffer `buf` belongs to the boot task and is written by the
console. `monitor_init()` puts the two bytes of the hardware cursor together
in the wrong order; the kernel's first line is therefore nearly always the last
row, whatever the boot loader left.

### How `Format` reads

One call per behaviour: `call` is chosen at the start, `output` computed by the
operators named like the routines. An int has `Nibbles` hexadecimal digits, 8 in
the kernel; `Clock` is the format `timer_task()` prints the time with. The loops
of `number()`, `vsprintf()` and `monitor_put_hex()` are recursive functions. `number()` is a closed form (padding, sign,
prefix, digits) in place of its loops over `size` and `precision`. Specifications
come parsed, and one with the width `*` is printed from the star on, since the
scan does not move past it (`vsprintf.c:124`; no caller uses it). `monitor_write_hex(0)`
prints `0x` and no digit; `Reading` takes the 0 of the prefix for the number.

## Runs

| Run | Instance | Shows |
|---|---|---|
| `exec_list` | 3 nodes (two of one priority), 2 lists | `TypeOK`, `LinkInv`, `WalksAgree`; `ImplementsPriorityLists` (refinement) |
| `sched` | boot task, console, timer task created and destroyed at run time; all calls; ticks at any point, keys up to `MaxForbid`; behind a broken section boot task and console only | `TypeOK`; `TasksInPlace`, `ForbidCounts`, `WaitReturnsSignalled`, `NoMissedPreemption` as long as `Sound` (or what they need of it); `ListsAreQueues`, `MisuseOnlyIfUnsound`, `WaitLockGuards`, `ReenterCounts`, `RunFlag`, `SwitchAtTaskLevel` also after that |
| `sched_sleep` | two tasks that delay | liveness: `DelayEnds`, `TopTaskRuns` |
| `heap` | blocks of 1 to 4 units, interrupt requests of 1 unit | `TypeOK`, `ChunksTile`, `PagesAgree`, `NoPageLeaks`, `ImplementsBlockStore` up to a step that damages the heap; `SoundHeap`: when there is no such step; `CallsEnd` |
| `queue` | two clients of the console's priority with a slot each; three of falling priority for one slot; time slices, keys, and ticks that wake the timer task | `TypeOK`, `SlotsAgree`, `MoveIsPossible`, `SectionsExclude`, `RequestStays`, `NoLostWakeup`, `KeysKeepOff`; `ImplementsChannels` (refinement); liveness: `Answered` |
| `console` | prompt of 2 and lines of up to 3 characters on a screen of 4 by 3, a clock with base 2 | `TypeOK`, `ScreenShowsLine`, `OneWriter`, `StatusShowsTime`; `ImplementsLineInput` (refinement) |
| `format` | ints of 8 bits in every conversion, flag and a few widths and precisions; the clock's format | `PrintsAsAsked` |
| `maps_at_heap_end` | instance of `heap` | a comment of `kmalloc.c` says something else than the code does |
| `forbid_excludes_switch`, `idle_can_be_woken` | boot task and console with ticks and keys | the same for two comments of `task.c` |
| `do_io_returns` | the boot task alone with the console | a read need not return |
| `strcmp_tells_apart` | instance of `format`: strings of up to 3 letters | the same as above for the comment on `strcmp()` |

### Bounds

- *Lists.* Three nodes are the fewest with an equal pair and a third of
  another priority on either side; two lists, so that a node moves between
  lists during another node's `enqueue`.
- *Tasks.* The tasks are those of `kernel_main.c`, with the console above the
  boot task (the code gives both 0), so that a key press wakes a task that has
  to preempt.
  Two tasks suffice for every interleaving of a section with a
  switch; the third, of highest priority, makes priorities and creation matter.
- `TickRange` replaces 2^32. `task_delay` is unsigned and wraps in the model as
  in the code: with `TickRange = 2`, `delay(0)` waits two ticks, the analogue of
  the 2^32 ticks it waits in the kernel.
- `MaxSlots = 1`: the queue is empty, full, and both transitions are one step.
- `MaxForbid` bounds key presses that arrive at a high `forbid_counter`: a full
  queue increments it for ever (`leaked`). Two is one more than a key press at
  a task's single section needs. It does cut keys: those that come at
  a count of 2, inside the `signal()` of a section or after two leaks. `MaxForbid = 0` in `sched_sleep` turns the
  keyboard off.
- `CONSTRAINT SoundOrSmall` in `sched`: of the states after a breach only those without
  the timer task are expanded, some 1 000 000 states in all. The properties that start from `Sound`
  say nothing about the others; the rest is seen with boot task and console.
- *Heap.* A page has 4 units, a page table maps 2 pages, and 4 or 5 pages are
  free after the boot: the heap grows to 3 pages and a second page table, shrinks
  by one and by two pages, and runs out. Requests are a unit (a message or a
  scancode in the kernel), half a page and a whole page.
- *Queues.* With two slots a queue is empty, between and full; with one slot and
  three clients two senders wait while the console receives, the fewest for the
  walk to skip one. The kernel has ten slots and one client. Priorities of
  clients fall below the console's so that a time slice does not mix them
  in all orders, which keeps the graph small enough for liveness; equal clients
  are in the first instance. `leaks` bounds the keys that a full queue drops, as
  `MaxForbid` does.
- *Console.* Prompt and line are five characters on rows of four: the third
  character wraps, backspace goes back over the end of a row, and every line scrolls
  sooner or later. With `Base = 2` minutes and hours carry within `MaxTime = 5`.
- *Format.* Eight bits, two nibbles, have a least int, every digit up to `f`, and
  hexadecimal numbers with a leading zero nibble to skip.
- `CHECK_DEADLOCK FALSE`: the model of the scheduler stops after a misuse, a race or a stranding,
  that of the queues after a broken section, and the kernel itself
  really stops in the state `idle_can_be_woken` finds; a call of `Format` is over when it has returned.

### Fairness

`WF(TimerInterrupt)`: the timer chip ticks for ever and the processor takes the
interrupt whenever it is not in service. `SF` of a task's statements outside
its own code, and of each kernel level's: between two ticks the processor
executes many statements, so code that gets the processor again and again
proceeds. A task's own code (`user`) is under no fairness: it may compute for
ever, and only the timer takes the processor away. With the keyboard off no
assumption about keys is needed.

`heap` assumes `WF` of the steps of a call: the processor executes the
call it is in. A caller need not call or free.

`queue` and `do_io_returns` assume `SF` of every task's steps (a task that gets
the processor again and again proceeds; that time slices end needs no
assumption, as no task in the model computes without end) and of the Enter key:
somebody presses it until it is taken. No tick need wake the timer task. `Answered`
holds, until an interrupt breaks a section or halts the processor, for clients of the
console's priority with a slot each. With fewer slots it does not: a sender that
has been woken competes with clients that never waited, and may lose every
time (`queue.c:66-70`).

`DelayEnds` is about tasks whose delays do not undercut one another. With
delays of different lengths (1 and 2) it does not hold: after `signal()` the
walk goes on from the node's new place in the ready list (`timer.c:31`), the
rest of `tasks_wait` is not counted down in that tick, and a task that wakes
every tick starves those behind it. No comment promises otherwise, so the run
is kept to equal delays and the matter is listed under hazards.

### Where comments and code differ

1. A tick or key that wakes a task calls `_yield()` inside the interrupt,
   which sets `forbid_counter` to 0 under whatever section it interrupted
   (`task.c:156`; comment at `task.c:68`). The task loses the processor between
   `forbid()` and `permit()`.
2. `switch_tasks()` idles before the EOI when it was the timer interrupt that
   switched: neither tick nor key can come any more (`task.c:99`, `idt.c:188`;
   comment at `task.c:95`).
3. `k_heap_end` is read before the search and used after it (`kmalloc.c:100`,
   `:189`; comment at `:185`): when the keyboard interrupt grew the heap
   meanwhile, a page in use is mapped over.
4. A key between the console's test of its queue and its `wait()` signals
   nobody; the queue, of one slot, is full from then on, no later key signals
   either, and the read never returns (`queue.c:99`; comment at `device.h:38`).
5. `strcmp()` takes strings for equal that differ in the last character only
   (`common.c:43`; comment at `:39`).

Each of these has a run. The models show four more, without a run of their own:

- `remove_tail()` of an empty list writes through the header's null predecessor
  (`list.c:63`; the comment at `:70` promises NULL). `ExecList` records it in
  `fault`; `MoveIsPossible` says that the queues never do it.
- Nothing disables the interrupts again that the idle loop has enabled: one that comes
  between the `k_reenter--` and the `iretd` behind it finds `k_reenter` at 0 although
  it is not the last level, and calls the scheduler inside the kernel
  (`task.c:98`, `idt.c:150`, `:190`; comment at `task.c:104`). `ReenterCounts` and
  `SwitchAtTaskLevel` name the case, `stranded` in `Sched` records it.
- The idle loop picks the head of `tasks_ready` with interrupts enabled and
  removes it later: a higher task readied in between is passed over
  (`task.c:94`; comment at `:107`). `IdlePick` and `IdleRemove` in `Sched`.
- A request of one unit takes a last chunk of two units whole, and the last chunk
  of the free list is then not the one at the heap end that the growth takes
  it for (`kmalloc.c:135`, `:197`; comment at `:155`). `exposed` in `Heap`.

## Proofs

Everything below holds for every value of the constants that satisfies
`ListAssumption` (three distinct kinds of cell, integer priorities, finitely many nodes),
`SchedAssumption` (the tasks the boot creates are distinct, in order of
priority, and not the boot task; sizes are natural numbers),
`QueueAssumption` (the console is none of the clients, no task is the null pointer,
no client is in the ready list twice at the start, priorities are integers, a queue has at least one slot),
`PageAllocAssumption` and `HeapAssumption` (the kernel lies in low memory and,
like page 0, in usable memory of the boot loader's map; a page has at least two
units, a request at least one), `ScreenAssumption` and `ConsoleAssumption`
(prompt, answer and keys are no control characters; prompt and buffer, 19 and 32,
fit in the 23 rows that a scroll keeps; the clock fits in the status line), or
`FormatAssumption` (an int has at least one nibble; a single conversion gets an
argument of its type; the clock gets no negative hours, and minutes and seconds
up to 59; `strcmp()` gets strings).

- **Lists** (`ExecListProofs`). `ExecListTypeOK` and `ExecListLinked`: the
  invariant says that `next` and `prev` are inverse on linked cells, that
  sentinels are never spliced out, and that the place an `enqueue()` in progress
  holds is a linked cell of its list; it is inductive with one case per routine.
- **Refinement of the lists** (`ExecListProofs`). `ListInv` adds that following
  `next` from every header passes a sequence of distinct nodes, those put in the
  list, and ends at its tail (`Chains`), and that an `enqueue()` in progress has
  passed only nodes of no lower priority (`WalkPassed`). `Splice` acts on that
  sequence as `InsertAt` (`InsertChain`), `Unlink` as `RemoveAt` (`RemoveChain`),
  both leave other lists alone, and the place where a walk ends is the only one
  `Place` can choose (`PlaceIs`): so `ExecListImplementsPriorityLists`, one lemma per
  group of routines. What the recursive functions `Walk` and `Visited` return
  follows without the induction theorems of the library: a least counterexample
  shows that the recursion has a solution (`LoopExists`) and that the solution
  notes the cells of a chain (`LoopRuns`); the list has no more nodes than the
  walk may take steps (`ShortList`). `ExecListWalksAgree` is then a matter of which
  chain each loop passes.
- **Sequences** (`PriorityOrderProofs`). What `Insert`, `Without` and `After`
  return: elements, absence of duplicates, order of priority.
- **Scheduler core** (`SchedProofs`). `Core` is the conjunction of the type
  invariant, `TargetOK` (a task inside a signal, create or destroy has a
  target) and `Levels`. `ReenterCounts` alone is not inductive: a dispatch
  decrements `k_reenter` whatever is entered, and a level that has idled becomes
  `resume`, which must be free then. So one needs that only `resume` is ever behind its EOI, with
  no system call on top (`ResumeOK`), that idling happens
  only at the outermost level unless a task has been stranded (`IdleOutermost`), that the
  idle loop goes on with a task (`PickedOK`), that the keyboard interrupt allocates only for a free
  slot (`AllocOK`) and that the processor idles with
  the forbid count not grown unless a key leaked (`IdleForbid`). `Init => Core` is `InitCore`,
  `Core /\ [Next]_vars => Core'` is `NextCore`, one step per action. From `Core`
  follow `SchedTypeOK`, `SchedReenterCounts` and, as an action property,
  `SchedSwitchAtTaskLevel`.
- **Scheduler lists** (`SchedProofs`). Relative to `Core`,
  `SchedListsAreQueues` (disjoint, duplicate-free, ordered until a misuse; the
  lemmas on `Insert` and `Without` do the work) and `SchedRunFlag` (`TS_RUN`
  marks exactly the running task, and nobody while the processor idles).
- **Forbid count** (`SchedTaskProofs`). `SchedForbidCounts`, from `ForbidInv`: until an
  interrupt clears the count or a dropped key leaks one, only the running task is
  inside a section, a task that yields is inside none, and the count is what the
  running task holds. `HeldTable` says of every statement what it holds, so that
  each `forbid()` and `permit()` changes both sides alike.
- **wait_lock** (`SchedTaskProofs`). `SchedWaitLockGuards`, from `LockInv`:
  `wait_lock` is the cardinality of the set of tasks inside their `enqueue()`.
  A created task is in none of these statements because its structure is fresh
  (`CreatesFresh`). A destroyed one is not, because it does not run, as long as
  the count has kept other tasks out; after that a task inside its `enqueue()` can
  be destroyed and `wait_lock` stays set, so the theorem says `Undisturbed`: the
  count is whole or no task calls `destroy_task()`.
- **Tasks in place** (`SchedTaskProofs`). `SchedTasksInPlace`,
  `SchedMisuseOnlyIfUnsound` and `SchedWaitReturnsSignalled`. Flags and lists alone
  are not inductive: what a statement of `wait()` or `signal()` finds rests on what
  the ones before it stored. `Places` says at each statement what the task's
  structure holds (`Staged`: asleep in `tasks_wait`, awoken, or between), what a
  signal in progress has done to its target (`Signalling`), where a task is when it is in
  no list (`Somewhere`; `Unlinked` is the one the idle loop has removed and does not yet run),
  that the running task is in no ready list and what the idle loop has picked is until it
  removes it (`Runnable`, `PickedFits`) and that a task asleep keeps the processor only up to the switch it has asked for
  (`SwitchDue`). A task's step disturbs itself and one target (`TaskPlaces`); an
  interrupt wakes a sleeper only, or it would have hit the running task
  (`WakeFacts`); at a switch nobody is inside a section (`SwitchFacts`), so every task is
  settled and the dispatcher moves whole tasks (`DispatchKeepsPlaces`).
- **Preemption** (`SchedTaskProofs`). `SchedNoMissedPreemption`, from `Preempts`: unless
  a switch is due, a signalled task in the ready list is outranked by the running
  one, or the running one is on its way to the comparison and the yield of
  `signal()`; while the processor idles only the keyboard's owner can become ready
  without a switch being due. A switch keeps it since the ready list is ordered.

  These four suppose `OneDestroyer`, that at most one task calls `destroy_task()`. No task of
  the code does. With two, both can have chosen the same task, and the second
  removes a node that is in no list.
- **Queues** (`QueueProofs`). `SlotsAgree` is not inductive: that a task which
  saw a free slot still finds one rests on nobody else having been in a section
  since, and that rests on who runs. The layers of `Core` are proved in this
  order. `Scheduled`: the running task is in no list, and who waits for a
  signal is not ready. `Sectioned`: a task in a section runs with
  `forbid_counter` above 0, so there is only one, until a key or a tick takes the
  processor from it. `Balanced`: `free_slots` plus the length of the list is the
  size of the queue, one more or less while a task stands between the two.
  From `Core` follow `QueueSectionsExclude`, `QueueMoveIsPossible` and the action
  property `QueueKeysKeepOff` (the one slot of the keyboard queue, not
  `forbid()`, keeps the interrupt off it).
- **Requests** (`QueueProofs`). A request is in one place, queued, at the
  console or in its reply queue, and while it is anywhere its client has sent
  it and not taken the reply, so its reply queue exists (`OnePlace`, `Exists`).
  From `Core` and `Requests` follow `QueueRequestStays` and `QueueSlotsAgree`, which
  also says that a destroyed queue is empty.
- **Wake-ups** (`QueueProofs`). `QueueTypeOK` and `QueueNoLostWakeup`, from
  `Wakeups`, which is inductive relative to `Core` and `Requests` (TLC checked it
  before). `Listed`, `Asleep` and `Programs` say which list holds whom: a
  receiver sleeps in `tasks_wait` and only on the queue it owns, a client that
  sends sleeps with the request queue, and a reply never waits, because its queue
  is empty when the console answers (`ReplyHasRoom`). `Room` says that a task
  between list and count still has what its test found. `Served` is the heart of
  it: while nothing is lost, who is about to wait has reason to, a receiver
  sleeps on an empty queue or the task that has just filled it is about to count
  it from all slots free, which is when the owner is signalled, and a sender
  sleeps on a full queue or the console is walking the senders. The steps that
  break one of these are those that put "slow", "walk" or "late" into `lost`.
  `Spare` is the counting argument for a slot per client: the queue holds
  requests of different clients, none of them the one that begins to send
  (`SendHasRoom`), so no send waits and neither "slow" nor "walk" can happen.
- **Refinement** (`QueueProofs`). `QueuesAreChannels`: with `msg_list`
  reversed, every step of the queues is a send or a receive of `Channels` or
  a stutter. `Core` is what makes a send find room and a receive a message.
- **Tiling** (`HeapProofs`). `Tiles` is `Tiling` in terms of bounds in place of
  sets of cells. Its lemmas are the arithmetic of `kmalloc.c`: a split, a last
  chunk that gets larger or smaller, a new chunk at the end, and `merge_heap()`,
  whose result is described run by run (`RunFacts`, `HeadFacts`, `RunsApart`,
  `MergeFacts`, `MergeLast`). A recursion over the list does not appear: the
  facts about runs rest on smallest and largest elements.
- **Pages** (`HeapProofs`). What `pa_alloc()`, `mm_map()` with or without a new page
  table, `pa_free()` and giving back do to the owners of pages (`AllocFacts`,
  `MapFacts`, `GiveBackFacts`), and that `mm_init()` leaves a count that agrees with
  the bitmap however the entries of the memory map overlap (`BootFacts`).
- **Heap** (`HeapProofs`). `ChunksTile` and `PagesAgree` are not inductive: what
  a call does after its search rests on what it read before. `HeapInv` adds what
  still holds of a call's local variables then (`Calls`: the end it has read is
  not above `k_heap_end`, and the chunk it has found is large enough if it is
  still free), that a search on a chunk taken off the list finds back to it
  (`Walking`), that a call no interrupt has disturbed finds everything as it read
  it (`Steady`, always true of the interrupt's own call) and that the last free
  chunk ends the heap until `exposed` (`Intact`). `InitHeap` and `NextHeap` have
  one lemma per action. That the heap never grows past the last page is a
  counting argument: mapped pages are different physical pages, and one is
  still free (`RoomToGrow`). From `HeapInv` follow `HeapTypeOK`,
  `HeapChunksTile`, `HeapPagesAgree`, `HeapSoundHeap` and the action property
  `HeapNoPageLeaks`.
- **Refinement of the heap** (`HeapProofs`). `HeapIsBlockStore`: a call asks, taking
  a chunk answers with a block that is long enough and apart from the others
  (`TakeAnswers`, from the tiling), freeing gives back, a damaging step spoils, and
  everything else changes nothing a caller sees.
- **Screen** (`ConsoleProofs`). What `monitor_put()` does in terms of the cursor's
  place, counted along the rows: a character goes there and the cursor on by one,
  a backspace back by one, and a scroll moves the cursor and what stands before it
  by the same `Width` cells (`PutCharacter`, `PutBackspace`, `PutNewLine`). So the
  text that stands before the cursor keeps standing there across rows and scrolls
  (`StandsAfterCharacter`, `StandsAfterBackspace`, `StandsAfterWrite`), and the
  status line stays (`PutKeeps`).
- **Console** (`ConsoleProofs`). `ScreenShowsLine` speaks of one stage of a read and
  needs the others: `LineStands` says what stands before the cursor from the
  first character of the prompt on, `Output` that what is still to print ends with
  the rest of the prompt, `Handover` where the request is (the console edits only
  while the boot task waits), and `LineInBuffer` that nothing of an earlier line stands
  before the index and a finished line ends there. `ClockRuns` reads hours, minutes
  and seconds as the digits of the time that has passed. From `ConsoleInv`, their
  conjunction, follow `ConsoleTypeOK`, `ConsoleScreenShowsLine`, `ConsoleOneWriter` and
  `ConsoleStatusShowsTime`.
- **Refinement of the console** (`ConsoleProofs`). `ConsoleImplementsLineInput`: when no
  read is going on `strlen()` of the buffer is the index (`LengthOfLine`), so the line
  of `LineInput` is the buffer up to the index at every stage, and every step of the
  console is one of its steps or a stutter (`LinesStep`).

- **Formatting** (`FormatProofs`). `FormatPrintsAsAsked` and `FormatMissesLastCharacterOnly`, which bounds
  the error of finding 5: equal strings are never taken for different, and different ones
  for equal only if they differ in the last character alone. The
  invariant `FormatInv` only says that a call is one of `Calls` and its output is
  its result; the rest is about the operators, for ints and strings of any size.
  A recursive function is turned into its equations once (`Solvable`: a
  least counterexample, `Least`, shows that the recursion has a solution), and what it
  computes for every input follows from a least counterexample again, as with
  the lists. `DigitsFacts` says that the digits of a number read as that number
  in every base and fit its size, `ReadingAppend`, `ReadingNought` and
  `ReadingTrailing` that padding, signs and prefixes do not disturb that reading.
  `NumberFacts` and `NumberField` put `number()` together from its parts (what it
  reads as, where "-" stands, how the field is filled), `ConvertReads` and
  `ConvertFills` do so for `vsprintf()` with one conversion. `ClockReads` needs in
  addition where the fields of the clock begin (`ClockPlaces`), `HexReads` that the nibbles
  `monitor_put_hex()` skips are leading zeros, and `StrcmpFacts` where the loop of
  `strcmp()` stops.

Every invariant that the passing runs check is proved, and so are the action
properties and refinements. Only model-checked: liveness under fairness
(`DelayEnds`, `TopTaskRuns`, `CallsEnd`, `Answered`), which the prover does not handle.

## Not modelled

Descriptor and page-table set-up, the boot stub, the halt on panic and the build
files have no concurrent behaviour; see `PROJECT.json`. `get_prev()`,
`monitor_clear()`, `strcat()`, `send_io()`, `get_device()` and
`register_device_node()` have no caller. The boot sequence before
`enter_user_mode()`, in which heap system calls enable interrupts before there
is a task stack, is left out: the initial state is the one after it. The system
calls that map and unmap pages, and `clone_actual_directory()`, have no caller.
Of `vsprintf()` the reading of the specification and `%n` are left out, of the
screen colours and the hardware cursor, of the status line the count of free
memory and the console's mark.

## Plan

The boot sequence before `enter_user_mode()`.
