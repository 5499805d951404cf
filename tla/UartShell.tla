----------------------------- MODULE UartShell -----------------------------
(***************************************************************************)
(* The running system: main.c's boot, the timer and UART receive interrupts *)
(* (bsp/timer.c, bsp/print.c, bsp/prt_exc.c) and the shell task             *)
(* (kernel/shell/shmsg.c), on the kernel's semaphores.                      *)
(*                                                                          *)
(* An interrupt is taken between two steps of whatever code runs, never     *)
(* inside a kernel call.  The handler runs on the stack of the task it      *)
(* interrupted.  PRT_SemPost in it may switch to another task: the rest of  *)
(* the handler, up to the write of GICC_EOIR, then waits until the          *)
(* interrupted task runs again, and no other interrupt (all have priority   *)
(* 0), so no tick either, is delivered before that.                         *)
(*                                                                          *)
(* A character is [no, kind]: its place in what the user typed, and what    *)
(* the shell does with it.  Echoed text is the sequence of printable        *)
(* characters left on the current line of the screen.                       *)
(***************************************************************************)
EXTENDS Kernel

CONSTANTS
  SHELL_SHOW_MAX_LEN,  \* size of shellBuf, and of the shell's cmdBuf
  FifoLen,             \* the UART's receive FIFO
  Kinds,               \* kinds of characters typed: "print", "erase", "enter", "other"
  MaxTyped,            \* how many characters the user types
  EarlyTyping,         \* TRUE: also before the semaphore exists
  MaxPeriods,          \* how many periods of the timer pass
  Observing            \* TRUE: the commands ps and semstat are typed, too

ASSUME ShellAssumption ==
  /\ SHELL_SHOW_MAX_LEN \in Nat \ {0, 1} /\ FifoLen \in Nat \ {0}
  /\ Kinds \subseteq {"print", "erase", "enter", "other"}
  /\ MaxTyped \in Nat /\ MaxPeriods \in Nat
  /\ EarlyTyping \in BOOLEAN /\ Observing \in BOOLEAN
  /\ NumTasks > 1 /\ NumStacks > 1 /\ NumSems > 0

Shell == 0                     \* the pid of the task ShellTaskInit creates
sem_uart_rx == 0               \* its value in .bss, and what PRT_SemCreate returns
ShellPrio == 9
NoChar == [no |-> 0, kind |-> "none"]
TimerIrq == 30
UartIrq == 33

VARIABLES
  boot,              \* where main is
  gic,               \* the distributor: is it on, which interrupts are enabled
  ticks,             \* g_uniTicks
  due, elapsed,      \* the timer has expired; the periods that have passed
  typed, fifo,       \* characters typed so far; those in the UART's FIFO
  handler,           \* the task under an interrupt handler that has not ended
  shellBuf, shellBufOffset, shellBufReadOffset,
  shellPc,           \* where ShellTask is
  lastRead,          \* the number of the character it read last
  cmdBuf, echoed,
  cursor, shown      \* ps and semstat: the block to print next; the rows printed

bootVars == <<boot, gic>>
tickVars == <<ticks, due, elapsed>>
envVars == <<bootVars, tickVars, typed>>
rxVars == <<fifo, handler, shellBuf, shellBufOffset>>
lineVars == <<shellBufReadOffset, lastRead, cmdBuf, echoed>>
reportVars == <<cursor, shown>>
shellVars == <<shellPc, lineVars, reportVars>>
shellSysVars == <<vars, envVars, rxVars, shellVars>>

\* Task t's own code runs, and not a handler on top of it.
Executing(t) == running = t /\ handler # t

\* Fault: the index wraps one slot late.
FaultWrapLate(i) == IF i = SHELL_SHOW_MAX_LEN THEN 0 ELSE i + 1

NextOffset(i) == IF i + 1 = SHELL_SHOW_MAX_LEN THEN 0 ELSE i + 1

(***************************************************************************)
(* main.  Interrupts are unmasked at the end of CoreTimerInit, before the   *)
(* kernel's modules are initialised (Kernel's Init is what OsTskInit and    *)
(* OsSemInit leave), and number 33 is enabled before its semaphore exists.  *)
(***************************************************************************)
BootStep(here, next) ==
  /\ Executing(Zombie) /\ boot = here /\ boot' = next
  /\ UNCHANGED <<tickVars, typed, rxVars, shellVars>>

OsHwiInit == /\ BootStep("hwi", "timer")
             /\ gic' = [gic EXCEPT !.on = TRUE]
             /\ UNCHANGED vars

OsGicEnableInt(irq) == gic' = [gic EXCEPT !.enabled = @ \cup {irq}] /\ UNCHANGED vars

CoreTimerInit == BootStep("timer", "modules") /\ OsGicEnableInt(TimerIrq)

InitModules == BootStep("modules", "uart") /\ UNCHANGED <<vars, gic>>

EnableRx == BootStep("uart", "sem") /\ OsGicEnableInt(UartIrq)

CreateRxSem == BootStep("sem", "create") /\ PRT_SemCreate(0) /\ UNCHANGED gic

ShellTaskInit ==
  /\ \/ BootStep("create", "resume") /\ PRT_TaskCreate(ShellPrio)
     \/ BootStep("resume", "activate") /\ PRT_TaskResume(Shell)
  /\ UNCHANGED gic

Activate == BootStep("activate", "done") /\ OsActivate /\ UNCHANGED gic

Boot == \/ OsHwiInit \/ CoreTimerInit \/ InitModules
        \/ EnableRx \/ CreateRxSem \/ ShellTaskInit \/ Activate

\* The interrupt controller signals an interrupt that is due.
Deliverable(irq) == /\ gic.on /\ irq \in gic.enabled
                    /\ boot \notin {"hwi", "timer"}
                    /\ handler = NoTask

(***************************************************************************)
(* The timer.  It stays expired until its handler sets it again, so periods *)
(* that end in between are not counted.  A handler that is not suspended    *)
(* is far shorter than a period, so the tick due is taken before the next   *)
(* period has ended.                                                        *)
(***************************************************************************)
TimerExpires ==
  /\ TimerIrq \in gic.enabled /\ elapsed < MaxPeriods
  /\ due => handler \notin {NoTask, running}
  /\ due' = TRUE /\ elapsed' = elapsed + 1
  /\ UNCHANGED <<vars, bootVars, ticks, typed, rxVars, shellVars>>

\* The whole handler: it calls nothing that could switch to another task.
OsTickDispatcher ==
  /\ due /\ Deliverable(TimerIrq)
  /\ ticks' = ticks + 1 /\ due' = FALSE
  /\ UNCHANGED <<vars, bootVars, elapsed, typed, rxVars, shellVars>>

(***************************************************************************)
(* The user, who types no further ahead of the shell than shellBuf holds,   *)
(* and the receive interrupt.                                               *)
(***************************************************************************)
Type(kind) ==
  /\ typed < MaxTyped
  /\ UartIrq \in gic.enabled /\ (EarlyTyping \/ boot # "sem")
  /\ Len(fifo) < FifoLen /\ typed - lastRead < SHELL_SHOW_MAX_LEN
  /\ typed' = typed + 1
  /\ fifo' = Append(fifo, [no |-> typed', kind |-> kind])
  /\ UNCHANGED <<vars, bootVars, tickVars, handler, shellBuf, shellBufOffset, shellVars>>

\* GICC_IAR is read: the interrupt is active until GICC_EOIR is written.
RxInterrupt ==
  /\ fifo # << >> /\ Deliverable(UartIrq)
  /\ handler' = running
  /\ UNCHANGED <<vars, envVars, fifo, shellBuf, shellBufOffset, shellVars>>

\* Fault: one post for all the characters of the FIFO.
FaultPostOnce ==
  /\ running = handler /\ fifo # << >>
  /\ shellBuf' = [shellBuf EXCEPT ![shellBufOffset] = Head(fifo)]
  /\ shellBufOffset' = NextOffset(shellBufOffset)
  /\ fifo' = Tail(fifo)
  /\ IF fifo' = << >> THEN PRT_SemPost(sem_uart_rx) ELSE UNCHANGED vars
  /\ UNCHANGED <<envVars, handler, shellVars>>

\* One round of OsUartRxHandle's loop.
OsUartRxHandle ==
  /\ running = handler /\ fifo # << >>
  /\ shellBuf' = [shellBuf EXCEPT ![shellBufOffset] = Head(fifo)]
  /\ shellBufOffset' = NextOffset(shellBufOffset)
  /\ fifo' = Tail(fifo)
  /\ PRT_SemPost(sem_uart_rx)
  /\ UNCHANGED <<envVars, handler, shellVars>>

\* Fault: GICC_EOIR is not written.
FaultNoEoi ==
  /\ running = handler /\ fifo = << >>
  /\ UNCHANGED <<vars, envVars, rxVars, shellVars>>

\* The FIFO is empty: the handler returns and GICC_EOIR is written.
OsGicIntClear ==
  /\ running = handler /\ fifo = << >>
  /\ handler' = NoTask
  /\ UNCHANGED <<vars, envVars, fifo, shellBuf, shellBufOffset, shellVars>>

(***************************************************************************)
(* ShellTask.                                                               *)
(***************************************************************************)
ShellPend ==
  /\ Executing(Shell) /\ shellPc = "pend"
  /\ PRT_SemPend(sem_uart_rx, "FOREVER")
  /\ shellPc' = "read"
  /\ UNCHANGED <<envVars, rxVars, lineVars, reportVars>>

\* Fault: the character is echoed before the room for it is checked.
FaultEchoAlways(ch) ==
  /\ echoed' = Append(echoed, ch.no)
  /\ cmdBuf' = IF Len(cmdBuf) < SHELL_SHOW_MAX_LEN - 1 THEN Append(cmdBuf, ch.no)
               ELSE cmdBuf

EditPrint(ch) ==
  IF Len(cmdBuf) < SHELL_SHOW_MAX_LEN - 1
  THEN cmdBuf' = Append(cmdBuf, ch.no) /\ echoed' = Append(echoed, ch.no)
  ELSE UNCHANGED <<cmdBuf, echoed>>

EditErase ==
  IF cmdBuf # << >>
  THEN /\ cmdBuf' = SubSeq(cmdBuf, 1, Len(cmdBuf) - 1)
       /\ echoed' = SubSeq(echoed, 1, Len(echoed) - 1)
  ELSE UNCHANGED <<cmdBuf, echoed>>

ShellRead ==
  /\ Executing(Shell) /\ shellPc = "read"
  /\ LET ch == shellBuf[shellBufReadOffset]
     IN  /\ lastRead' = ch.no
         /\ CASE ch.kind = "print" -> EditPrint(ch)
              [] ch.kind = "erase" -> EditErase
              [] OTHER -> UNCHANGED <<cmdBuf, echoed>>
         /\ shellPc' = IF ch.kind = "enter" THEN "dispatch" ELSE "pend"
  /\ shellBufReadOffset' = NextOffset(shellBufReadOffset)
  /\ UNCHANGED <<vars, envVars, rxVars, reportVars>>

\* The prompt: a new line begins.
ShellPrompt == /\ shellPc' = "pend"
               /\ cmdBuf' = << >> /\ echoed' = << >>
               /\ cursor' = NoTask /\ shown' = << >>
               /\ UNCHANGED <<shellBufReadOffset, lastRead>>

(***************************************************************************)
(* Commands.  A handler may run between any two steps of one.               *)
(***************************************************************************)
ShellAt(here, next) ==
  /\ Executing(Shell) /\ shellPc = here /\ shellPc' = next
  /\ UNCHANGED <<envVars, rxVars, lineVars, reportVars>>

\* The command returns to ShellTask from `here'.
CommandReturns(here) == /\ Executing(Shell) /\ shellPc = here
                        /\ ShellPrompt
                        /\ UNCHANGED <<envVars, rxVars>>

\* Steps of ps and semstat, which read the kernel's state unlocked.
ReportAt(here, next) ==
  /\ Executing(Shell) /\ shellPc = here /\ shellPc' = next
  /\ UNCHANGED <<vars, envVars, rxVars, lineVars>>

PsBegin == /\ Observing /\ ReportAt("dispatch", "ps")
           /\ cursor' = Head(list[RunQueue]) /\ shown' = << >>

PsRow == /\ cursor # NoTask /\ ReportAt("ps", "ps_next")
         /\ shown' = Append(shown, [pid |-> cursor, priority |-> priority[cursor]])
         /\ UNCHANGED cursor

\* The links of the block just printed are followed; NoTask is the list head.
PsNext == /\ ReportAt("ps_next", "ps")
          /\ \E h \in Heads : \E i \in DOMAIN list[h] :
               /\ list[h][i] = cursor
               /\ cursor' = IF i < Len(list[h]) THEN list[h][i + 1] ELSE NoTask
          /\ UNCHANGED shown

PsEnd == cursor = NoTask /\ CommandReturns("ps") /\ UNCHANGED vars

OsDisplayTasksInfo == PsBegin \/ PsRow \/ PsNext \/ PsEnd

SemStatBegin == /\ Observing /\ ReportAt("dispatch", "semstat")
                /\ cursor' = 0 /\ shown' = << >>

SemStatSkip ==
  /\ cursor \in Sems /\ semStat[cursor] = "UNUSED"
  /\ ReportAt("semstat", "semstat")
  /\ cursor' = cursor + 1 /\ UNCHANGED shown

\* A row is begun, with nothing loaded yet.  (semStat, loaded once more among the
\* arguments, still says USED: no semaphore is ever deleted.)
SemStatRow ==
  /\ cursor \in Sems /\ semStat[cursor] = "USED"
  /\ ReportAt("semstat", "row")
  /\ shown' = Append(shown, [sem |-> cursor, count |-> 0, owner |-> NoTask])
  /\ UNCHANGED cursor

\* C leaves the order of PRT_Printf's arguments to the compiler: a field is loaded
\* first or, at `last', second, and then the row is complete.
LoadField(last, other) == \/ ReportAt("row", other) /\ UNCHANGED cursor
                          \/ ReportAt(last, "semstat") /\ cursor' = cursor + 1

SemStatCount == /\ LoadField("row_count", "row_owner")
                /\ shown' = [shown EXCEPT ![Len(shown)].count = semCount[cursor]]

SemStatOwner == /\ LoadField("row_owner", "row_count")
                /\ shown' = [shown EXCEPT ![Len(shown)].owner = semOwner[cursor]]

SemStatEnd == cursor = NumSems /\ CommandReturns("semstat") /\ UNCHANGED vars

OsDisplaySemStat == \/ SemStatBegin \/ SemStatSkip \/ SemStatRow
                    \/ SemStatCount \/ SemStatOwner \/ SemStatEnd

\* An empty line, an unknown command, or one that reads nothing a step could
\* change (help, tick, memstat, quit).
ShellDispatchCmd == CommandReturns("dispatch") /\ UNCHANGED vars

ShellCommand == ShellDispatchCmd \/ OsDisplayTasksInfo \/ OsDisplaySemStat

-----------------------------------------------------------------------------
ShellInit ==
  /\ Init
  /\ boot = "hwi" /\ gic = [on |-> FALSE, enabled |-> {}]
  /\ ticks = 0 /\ due = FALSE /\ elapsed = 0
  /\ typed = 0 /\ fifo = << >> /\ handler = NoTask
  /\ shellBuf = [i \in 0 .. SHELL_SHOW_MAX_LEN - 1 |-> NoChar]
  /\ shellBufOffset = 0 /\ shellBufReadOffset = 0
  /\ shellPc = "pend" /\ lastRead = 0
  /\ cmdBuf = << >> /\ echoed = << >>
  /\ cursor = NoTask /\ shown = << >>

\* What the processor does by itself: it executes code (the idle task's loop does
\* nothing) and enters and leaves interrupts.
Code == Boot \/ OsUartRxHandle \/ ShellPend \/ ShellRead \/ ShellCommand
Interrupt == RxInterrupt \/ OsGicIntClear \/ OsTickDispatcher

ShellNext == Code \/ Interrupt \/ TimerExpires \/ \E kind \in Kinds : Type(kind)

\* ENABLED Code, as a predicate: TLC takes minutes over ENABLED of kernel calls.
CodeReady == \/ running = handler /\ fifo # << >>
             \/ Executing(Zombie) \/ Executing(Shell)

\* The processor never stops while it has an instruction to execute (weak fairness
\* of Code), and a pending interrupt is taken.
ShellFairness == /\ []<>(~ CodeReady) \/ []<><<Code>>_shellSysVars
                 /\ WF_shellSysVars(Interrupt)

ShellSpec == ShellInit /\ [][ShellNext]_shellSysVars /\ ShellFairness

-----------------------------------------------------------------------------
ShellWaits == Shell \in Range(list[sem_uart_rx])
Stored == typed - Len(fifo)          \* characters the handler has stored

ShellTypeOK ==
  /\ boot \in {"hwi", "timer", "modules", "uart", "sem", "create", "resume", "activate", "done"}
  /\ typed \in 0 .. MaxTyped /\ lastRead \in 0 .. MaxTyped
  /\ gic \in [on : BOOLEAN, enabled : SUBSET {TimerIrq, UartIrq}]
  /\ ticks \in 0 .. elapsed /\ elapsed \in 0 .. MaxPeriods /\ due \in BOOLEAN
  /\ handler \in TCBs \cup {NoTask}
  /\ {shellBufOffset, shellBufReadOffset} \subseteq 0 .. SHELL_SHOW_MAX_LEN - 1

\* The semaphore counts the unread characters of shellBuf, across posts in
\* handlers that are suspended half-way and switches between the shell's pend
\* and its read.
TokensMatchUnread ==
  boot \notin {"hwi", "timer", "modules", "uart", "sem"} =>
    Stored - lastRead =
      semCount[sem_uart_rx] + (IF shellPc = "read" /\ ~ ShellWaits THEN 1 ELSE 0)

\* Whenever the shell moves on in the ring it has read the next character typed: none is
\* skipped, none read again.
ReadsInOrder == [][ \/ UNCHANGED <<shellBufReadOffset, lastRead>>
                    \/ lastRead' = lastRead + 1 ]_shellSysVars

\* What the user sees on the line is what will be dispatched, also when the line
\* is full or erased past its beginning.
EchoIsCommand == echoed = cmdBuf /\ Len(cmdBuf) < SHELL_SHOW_MAX_LEN

\* Every character typed is read in the end.
EveryCharacterIsRead == \A n \in 1 .. MaxTyped : typed >= n ~> lastRead >= n

\* A handler left half-way by a switch always gets to its end, so that interrupts
\* (and ticks) are delivered again.
HandlersEnd == []<>(handler = NoTask)

\* A row of semstat says what is still so.  A character that arrives meanwhile adds to
\* the count of sem_uart_rx and takes its owner away, and may do so between the two loads.
CountStands(row) ==
  IF row.sem = sem_uart_rx THEN row.count <= semCount[row.sem]
  ELSE row.count = semCount[row.sem]

OwnerStands(row) ==
  \/ row.owner = semOwner[row.sem]
  \/ /\ row.sem = sem_uart_rx /\ row.owner = Shell
     /\ semOwner[row.sem] = NoTask /\ semCount[row.sem] > 0

\* What ps and semstat print, load by load and unlocked, stands when the report ends.
\* README.md:71 promises a snapshot of the tasks: the run queue ps walks is not
\* rearranged under it, whatever interrupts it.  Of the semaphores only the one a handler
\* posts may have moved on: its row can be torn, and then was true at no moment, but each
\* field was, and only characters received since the load have changed it.
ReportsStand ==
  /\ shellPc = "ps" /\ cursor = NoTask =>
       shown = [i \in DOMAIN list[RunQueue] |->
                  [pid |-> list[RunQueue][i], priority |-> priority[list[RunQueue][i]]]]
  /\ shellPc = "semstat" /\ cursor = NumSems =>
       /\ {row.sem : row \in Range(shown)} = {s \in Sems : semStat[s] = "USED"}
       /\ \A row \in Range(shown) : CountStands(row) /\ OwnerStands(row)

\* shmsg.c:305: the shell waits for the UART to receive a character, not for one
\* that has been stored already.
ShellWaitsForInput == ShellWaits => Stored = lastRead
=============================================================================
