------------------------------ MODULE Console ------------------------------
(***************************************************************************)
(* The three tasks that write to the screen: the boot task with its prompt *)
(* and answers (src/kernel_main.c), the line editor of the console         *)
(* (src/console.c), and the clock of the timer task.  They are preempted   *)
(* between any two characters.  The queues between the first two are those *)
(* of Queue, here a request and a reply.                                   *)
(***************************************************************************)
EXTENDS Screen

CONSTANTS
    Printable,        \* what kbdus has for the keys typed, beside '\n' and '\b'; the
                      \* other keys change nothing
    Prompt, Unknown,  \* "root@localhost:/ # " and "bash: "
    io_sz,            \* con_io.io_sz = 32
    Base,             \* 60 seconds, 60 minutes
    ClockX,           \* column 70 of the status line, whose other texts are left out
    MaxTime           \* bound on the seconds that pass

NUL == "nul"
Controls == {"\n", "\t", "\r", BS, NUL}

ASSUME ConsoleAssumption ==
    /\ io_sz \in Nat \ {0} /\ Base \in Nat \ {0, 1}
    /\ ClockX \in Nat /\ ClockX + 3 <= Width
    /\ Prompt \in Seq(STRING) /\ Unknown \in Seq(STRING)
    /\ (Printable \cup Range(Prompt) \cup Range(Unknown)) \cap Controls = {}
    /\ Len(Prompt) + io_sz <= Width * (Rows - 1)   \* 19 + 32, and 1840 of the 1920 when it scrolls

VARIABLES
    screen,
    boot, out,     \* what the boot task does, and the characters it has still to print
    console,       \* what the console task does
    requested, replied,  \* the message in the request and in the reply queue
    buf, i,        \* the line buffer, and the next place in it
    hours, mins, seconds, elapsed   \* the clock; elapsed is a ghost

time == <<hours, mins, seconds, elapsed>>
vars == <<screen, boot, out, console, requested, replied, buf, i, time>>

Index == 0..(io_sz - 1)
Digits(n) == ToString(n)   \* in one cell

\* strlen(buf), and the text up to there.
strlen(b) == CHOOSE n \in 0..io_sz : (n < io_sz => b[n] = NUL) /\ \A k \in Index : k < n => b[k] # NUL
Text(b, n) == [k \in 1..n |-> b[k - 1]]

Init ==
    /\ \E position \in Cells :
          screen = monitor_writexy(monitor_init([c \in Cells |-> "boot"], position),
                                   0, Rows, [x \in 1..Width |-> Blank])
    /\ boot = "prompt" /\ out = Prompt /\ console = "request"
    /\ requested = FALSE /\ replied = FALSE
    /\ buf = [k \in Index |-> NUL] /\ i = 0
    /\ hours = 0 /\ mins = 0 /\ seconds = 0 /\ elapsed = 0

-----------------------------------------------------------------------------
\* kprintf(): a character at a time.
BootPrint ==
    /\ out # <<>>
    /\ screen' = monitor_put(screen, Head(out)) /\ out' = Tail(out)
    /\ UNCHANGED <<boot, console, requested, replied, buf, i, time>>

BootAsk ==
    /\ boot = "prompt" /\ out = <<>>
    /\ boot' = "wait" /\ requested' = TRUE
    /\ UNCHANGED <<screen, out, console, replied, buf, i, time>>

BootAnswered ==
    /\ boot = "wait" /\ replied
    /\ replied' = FALSE /\ boot' = "prompt"
    /\ out' = (IF strlen(buf) # 0 THEN Unknown \o Text(buf, strlen(buf)) \o <<"\n">> ELSE <<>>) \o Prompt
    /\ UNCHANGED <<screen, console, requested, buf, i, time>>

-----------------------------------------------------------------------------
\* The console ends a line on the screen before it replies.
Then_Fault(c) == [request |-> "edit", edit |-> "reply", reply |-> "newline", newline |-> "request"][c]
Then(c) == [request |-> "edit", edit |-> "newline", newline |-> "reply", reply |-> "request"][c]

ConsoleRequest ==
    /\ console = "request" /\ requested
    /\ requested' = FALSE /\ console' = Then(console)
    /\ i' = 0 /\ buf' = [k \in Index |-> NUL]
    /\ UNCHANGED <<screen, boot, out, replied, time>>

\* Backspace ends the line one character earlier; what it takes back stays in the buffer
\* until then.
CanErase_Fault == TRUE
CanErase == i > 0
Key_Backspace ==
    /\ console = "edit" /\ CanErase
    /\ buf' = [buf EXCEPT ![i] = NUL] /\ i' = i - 1
    /\ screen' = monitor_put(screen, BS)
    /\ UNCHANGED <<boot, out, console, requested, replied, time>>

IsFull_Fault == i = io_sz
IsFull == i = io_sz - 1
Key_Printable(c) ==
    /\ console = "edit" /\ ~IsFull
    /\ buf' = [buf EXCEPT ![i] = c] /\ i' = i + 1
    /\ screen' = monitor_put(screen, c)
    /\ UNCHANGED <<boot, out, console, requested, replied, time>>

Key_Enter ==
    /\ console = "edit"
    /\ console' = Then(console)
    /\ UNCHANGED <<screen, boot, out, requested, replied, buf, i, time>>

Terminated_Fault(b) == b
Terminated(b) == [b EXCEPT ![i] = NUL]
NewLine ==
    /\ console = "newline"
    /\ screen' = monitor_put(screen, "\n")
    /\ buf' = Terminated(buf)
    /\ console' = Then(console)
    /\ UNCHANGED <<boot, out, requested, replied, i, time>>

Reply ==
    /\ console = "reply"
    /\ replied' = TRUE /\ console' = Then(console)
    /\ UNCHANGED <<screen, boot, out, requested, buf, i, time>>

-----------------------------------------------------------------------------
\* The timer task writes the time and counts the second.
Carries_Fault(n) == n > Base
Carries(n) == n = Base

Clock ==
    LET s == seconds + 1
        m == IF Carries(s) THEN mins + 1 ELSE mins
    IN
    /\ elapsed < MaxTime
    /\ screen' = monitor_writexy(screen, ClockX, Rows, <<Digits(hours), Digits(mins), Digits(seconds)>>)
    /\ seconds' = (IF Carries(s) THEN 0 ELSE s)
    /\ mins' = (IF Carries(m) THEN 0 ELSE m)
    /\ hours' = (IF Carries(m) THEN hours + 1 ELSE hours)
    /\ elapsed' = elapsed + 1
    /\ UNCHANGED <<boot, out, console, requested, replied, buf, i>>

-----------------------------------------------------------------------------
Next ==
    \/ BootPrint \/ BootAsk \/ BootAnswered
    \/ ConsoleRequest \/ Key_Backspace \/ Key_Enter
    \/ \E c \in Printable : Key_Printable(c)
    \/ NewLine \/ Reply
    \/ Clock

Spec == Init /\ [][Next]_vars
=============================================================================
