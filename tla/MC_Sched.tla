------------------------------ MODULE MC_Sched ------------------------------
(***************************************************************************)
(* Small systems for TLC.  The tasks are those of kernel_main.c: the boot  *)
(* task, the console, which owns the keyboard queue, and the timer task.   *)
(* The console outranks the boot task here, which has the same priority in *)
(* the code: a key press then wakes a task that must preempt at once.      *)
(***************************************************************************)
EXTENDS SchedProperties, TLC

CONSTANTS kernel, console, timer

\* Everything the kernel does, the timer task created and destroyed at run time.
AllTasks == {kernel, console, timer}
AllCreated == <<console>>
AllPri == kernel :> 0 @@ console :> 1 @@ timer :> 10
AllMay == kernel :> {"post", "create", "destroy", "heap", "delay"} @@ console :> {"recv", "heap"}
          @@ timer :> {"delay"}

\* Behind a broken section only boot task and console are followed further.
SoundOrSmall == Sound \/ pc[timer] = "none"

\* Two tasks and the keyboard.
KeyTasks == {kernel, console}
KeyPri == kernel :> 0 @@ console :> 1
KeyMay == kernel :> {"post", "delay"} @@ console :> {"recv"}

\* Two tasks that only sleep.
SleepTasks == {kernel, timer}
SleepCreated == <<timer>>
SleepPri == kernel :> 0 @@ timer :> 10
SleepMay == kernel :> {"delay"} @@ timer :> {"delay"}
=============================================================================
