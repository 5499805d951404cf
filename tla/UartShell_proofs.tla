-------------------------- MODULE UartShell_proofs --------------------------
(***************************************************************************)
(* The invariant of the running system and the theorems that follow from    *)
(* it: the semaphore counts what the ring of received characters holds, the *)
(* shell reads that ring in order, and its reports are of one moment.       *)
(***************************************************************************)
EXTENDS UartShell, Kernel_proofs

RxSemMade == boot \notin {"hwi", "timer", "modules", "uart", "sem"}

Size == SHELL_SHOW_MAX_LEN
Slots == 0 .. Size - 1
Chars == [no : Nat, kind : Kinds \cup {"none"}]
Wrapped(i) == IF i < Size THEN i ELSE i - Size

\* How far main is: the semaphore is made once, and then the kernel starts.
BootSays ==
  /\ boot \in {"hwi", "timer", "modules", "uart", "sem", "create", "resume", "activate", "done"}
  /\ Active <=> boot = "done"
  /\ RxSemMade => semStat[sem_uart_rx] = "USED"
  /\ ~ RxSemMade =>
       /\ unusedSem = [i \in 1 .. NumSems |-> i - 1]
       /\ semCount[sem_uart_rx] = 0
       /\ typed = 0 /\ lastRead = 0 /\ shellPc = "pend"
  /\ UartIrq \in gic.enabled => boot \notin {"hwi", "timer", "modules", "uart"}

\* Nobody but the shell uses the semaphore of the UART, so nobody is ever raised.
OnlyShellWaits ==
  /\ list[sem_uart_rx] \in {<< >>, <<Shell>>}
  /\ ShellWaits => shellPc = "read"
  /\ semOwner[sem_uart_rx] \in {NoTask, Shell}
  /\ \A t \in InUse : priority[t] = originalPriority[t]

ShellRest ==
  /\ typed \in 0 .. MaxTyped /\ lastRead \in Nat
  /\ fifo \in Seq(Chars) /\ shellBuf \in [Slots -> Chars]
  /\ shellBufOffset \in Slots /\ shellBufReadOffset \in Slots
  /\ handler \in TCBs \cup {NoTask}

Clock ==
  /\ gic \in [on : BOOLEAN, enabled : SUBSET {TimerIrq, UartIrq}]
  /\ ticks \in Nat /\ elapsed \in 0 .. MaxPeriods /\ due \in BOOLEAN
  /\ IF due THEN ticks < elapsed ELSE ticks <= elapsed

\* The unread characters are in shellBuf from shellBufReadOffset on, in the order
\* typed, and those in the FIFO come after them; the write offset is where they end.
Ring ==
  /\ Stored - lastRead \in Nat
  /\ typed - lastRead <= Size
  /\ shellBufOffset = Wrapped(shellBufReadOffset + (Stored - lastRead))
  /\ \A k \in 0 .. Stored - lastRead - 1 :
       shellBuf[Wrapped(shellBufReadOffset + k)].no = lastRead + 1 + k
  /\ \A i \in 1 .. Len(fifo) : fifo[i].no = Stored + i

Line == cmdBuf \in Seq(Nat) /\ EchoIsCommand

Control == IInv /\ BootSays /\ OnlyShellWaits
Data == ShellRest /\ Clock /\ Ring /\ Line /\ TokensMatchUnread
ShellInv == Control /\ Data

-----------------------------------------------------------------------------
LEMMA ShellNames ==
  /\ sem_uart_rx \in Sems /\ Shell \in Tasks
  /\ ShellPrio \in 0 .. OS_TSK_PRIORITY_LOWEST
  /\ Size \in Nat /\ Size > 1
  /\ OS_SEM_COUNT_MAX \in Nat
BY ShellAssumption, SizesAssumption, CountsAssumption
   DEF sem_uart_rx, Sems, Shell, Tasks, ShellPrio, OS_TSK_PRIORITY_LOWEST, Size

LEMMA ShellIsWaiting ==
  ASSUME OnlyShellWaits
  PROVE  ShellWaits <=> list[sem_uart_rx] = <<Shell>>
<1>1. Range(<< >>) = {} /\ Range(<<Shell>>) = {Shell}
  BY DEF Range
<1>2. << >> # <<Shell>>
  OBVIOUS
<1> QED
  BY <1>1, <1>2 DEF OnlyShellWaits, ShellWaits

\* Who waits does not run, and before the kernel starts only main does.
LEMMA WhoRuns ==
  ASSUME Control
  PROVE  /\ boot # "done" => running = Zombie /\ ~ Active
         /\ running = Shell => boot = "done" /\ Active /\ ~ ShellWaits
         /\ semCount[sem_uart_rx] \in Nat
<1>1. running = Shell => Active
  BY ShellNames, Names DEF Control, IInv, BootOrRun
<1>2. ASSUME running = Shell, ShellWaits PROVE FALSE
  <2>1. State(Shell) = WaitingTask
    BY <1>2, ShellNames, OnWaitQueue, Invariants, States DEF Control, ShellWaits
  <2>2. State(Shell) = ReadyTask
    BY <1>1, <1>2, ShellNames, States DEF Control, IInv, BootOrRun
  <2> QED
    BY <2>1, <2>2 DEF WaitingTask, ReadyTask
<1>3. semCount[sem_uart_rx] \in Nat
  BY ShellNames DEF Control, IInv, RestType
<1> QED
  BY <1>1, <1>2, <1>3 DEF Control, BootSays, IInv, BootOrRun

-----------------------------------------------------------------------------
(***************************************************************************)
(* The two calls on the semaphore.                                          *)
(***************************************************************************)
\* What a call leaves alone.
Calm == /\ IInv'
        /\ Active' <=> Active
        /\ semStat' = semStat
        /\ semOwner'[sem_uart_rx] \in {NoTask, Shell}
        /\ \A t \in InUse' : priority'[t] = originalPriority'[t]

LEMMA RxPost ==
  ASSUME Control, RxSemMade, semCount[sem_uart_rx] < OS_SEM_COUNT_MAX,
         PRT_SemPost(sem_uart_rx)
  PROVE  /\ Calm
         /\ list'[sem_uart_rx] = << >>
         /\ \/ ShellWaits /\ semCount'[sem_uart_rx] = semCount[sem_uart_rx]
            \/ ~ ShellWaits /\ semCount'[sem_uart_rx] = semCount[sem_uart_rx] + 1
<1> DEFINE s == sem_uart_rx
<1>1. /\ s \in Sems /\ semStat[s] = "USED" /\ IInv /\ OnlyShellWaits
      /\ semCount[s] \in Nat
  BY ShellNames, WhoRuns DEF Control, BootSays
<1> HIDE DEF s
<1>2. CASE SemPostKeep(s)
  <2>1. /\ list[s] = << >> /\ UNCHANGED <<semStat, originalPriority>>
        /\ semCount' = [semCount EXCEPT ![s] = @ + 1]
        /\ semOwner' = [semOwner EXCEPT ![s] = NoTask]
    BY <1>2 DEF SemPostKeep, ListEmpty, tskVars
  <2>2. IInv' /\ status' = status /\ uniFlag' = uniFlag
    BY <1>1, <1>2, SemPostKeepInv
  <2>3. priority' = priority /\ list' = list
    <3>1. \/ /\ semOwner[s] \in Tasks /\ status[semOwner[s]] # {}
             /\ priority[semOwner[s]] # originalPriority[semOwner[s]]
          \/ priority' = priority /\ list' = list
      BY <1>1, <1>2, SemPostKeepInv
    <3> QED
      BY <1>1, <3>1 DEF OnlyShellWaits, InUse
  <2>4. semCount'[s] = semCount[s] + 1 /\ semOwner'[s] = NoTask
    BY <1>1, <2>1 DEF IInv, RestType
  <2>5. ~ ShellWaits
    BY <1>1, <2>1, ShellIsWaiting DEF s
  <2> QED
    BY <1>1, <2>1, <2>2, <2>3, <2>4, <2>5 DEF Calm, Active, InUse, OnlyShellWaits, s
<1>3. CASE SemPostWake(s)
  <2>1. /\ list[s] # << >> /\ UNCHANGED <<semStat, semCount, originalPriority>>
        /\ semOwner' = [semOwner EXCEPT ![s] = Head(list[s])]
    BY <1>3 DEF SemPostWake, ListEmpty
  <2>2. list[s] = <<Shell>> /\ Head(list[s]) = Shell /\ Tail(list[s]) = << >>
    <3>1. list[s] = <<Shell>>
      BY <1>1, <2>1 DEF OnlyShellWaits, s
    <3>2. Head(<<Shell>>) = Shell /\ Tail(<<Shell>>) = << >>
      OBVIOUS
    <3> QED
      BY <3>1, <3>2
  <2>3. PICK t : t = Head(list[s])
    OBVIOUS
  <2>4. /\ IInv' /\ t \in Tasks /\ Goes(t, WaitingTask, ReadyTask)
        /\ list'[s] = Tail(list[s]) /\ Active /\ Active'
        /\ ~ HasOwner(Sched, s) \/ priority[semOwner[s]] = originalPriority[semOwner[s]]
             => priority' = priority
    BY <1>1, <1>3, <2>3, SemPostWakeInv
  <2>5. InUse' = InUse
    <3>1. \A u \in Tasks : State(u)' = FreeTask <=> State(u) = FreeTask
      BY <2>4 DEF Goes, FreeTask, WaitingTask, ReadyTask
    <3> QED
      BY <1>1, <2>4, <3>1, InUseNext, States DEF InUse
  <2>6. priority' = priority
    <3>1. HasOwner(Sched, s) => semOwner[s] \in InUse
      BY <1>1, ShellNames, SchedFields DEF HasOwner, OnlyShellWaits, InUse, s, Sched
    <3> QED
      BY <1>1, <2>4, <3>1 DEF OnlyShellWaits
  <2>7. semOwner'[s] = Shell
    BY <1>1, <2>1, <2>2 DEF IInv, RestType
  <2>8. ShellWaits
    BY <1>1, <2>2, ShellIsWaiting DEF s
  <2> QED
    BY <1>1, <2>1, <2>2, <2>4, <2>5, <2>6, <2>7, <2>8 DEF Calm, OnlyShellWaits, s
<1>4. SemPostKeep(s) \/ SemPostWake(s)
  <2>1. semStat[s] # "UNUSED" /\ ~ (semCount[s] >= OS_SEM_COUNT_MAX)
    BY <1>1, ShellNames DEF s
  <2> QED
    BY <2>1 DEF PRT_SemPost, s
<1> QED
  BY <1>2, <1>3, <1>4

LEMMA RxPend ==
  ASSUME Control, running = Shell, PRT_SemPend(sem_uart_rx, "FOREVER")
  PROVE  /\ Calm
         /\ \/ /\ semCount[sem_uart_rx] > 0
               /\ semCount'[sem_uart_rx] = semCount[sem_uart_rx] - 1
               /\ list'[sem_uart_rx] = << >>
            \/ /\ semCount[sem_uart_rx] = 0 /\ semCount'[sem_uart_rx] = 0
               /\ list'[sem_uart_rx] = <<Shell>>
<1> DEFINE s == sem_uart_rx
<1>1. /\ s \in Sems /\ semStat[s] = "USED" /\ IInv /\ OnlyShellWaits
      /\ semCount[s] \in Nat /\ ~ ShellWaits
  BY ShellNames, WhoRuns DEF Control, BootSays, RxSemMade
<1>2. list[s] = << >>
  BY <1>1, ShellIsWaiting DEF OnlyShellWaits
<1> HIDE DEF s
<1>3. CASE SemPendTake(s)
  <2>1. /\ semCount[s] > 0 /\ semCount' = [semCount EXCEPT ![s] = @ - 1]
        /\ semOwner' = [semOwner EXCEPT ![s] = running]
        /\ UNCHANGED <<semStat, status, priority, originalPriority, list, uniFlag>>
    BY <1>3 DEF SemPendTake, schedVars, tskVars
  <2>2. IInv'
    BY <1>1, <1>3, SemPendTakeInv DEF PRT_SemPend
  <2>3. semCount'[s] = semCount[s] - 1 /\ semOwner'[s] = Shell
    BY <1>1, <2>1 DEF IInv, RestType
  <2> QED
    BY <1>1, <1>2, <2>1, <2>2, <2>3 DEF Calm, Active, InUse, OnlyShellWaits, s
<1>4. CASE SemPendBlock(s, "FOREVER")
  <2>1. semCount[s] = 0 /\ UNCHANGED <<semStat, semCount, semOwner, originalPriority>>
    BY <1>4 DEF SemPendBlock, semVars
  <2>2. PICK t : t = running
    OBVIOUS
  <2>3. /\ IInv' /\ t \in Tasks /\ Goes(t, ReadyTask, WaitingTask)
        /\ list'[s] = Append(list[s], t) /\ Active /\ Active'
        /\ \A u \in Tasks : u # semOwner[s] \/ ~ HasOwner(Sched, s) =>
                            priority'[u] = priority[u]
        /\ HasOwner(Sched, s) =>
             \/ priority'[semOwner[s]] = priority[semOwner[s]]
             \/ \E w \in Range(list'[s]) : priority'[semOwner[s]] = priority[w]
    BY <1>1, <1>4, <2>2, SemPendBlockInv DEF PRT_SemPend
  <2>4. list'[s] = <<Shell>>
    BY <1>2, <2>2, <2>3
  <2>5. InUse' = InUse
    <3>1. \A u \in Tasks : State(u)' = FreeTask <=> State(u) = FreeTask
      BY <2>3 DEF Goes, FreeTask, WaitingTask, ReadyTask
    <3> QED
      BY <1>1, <2>3, <3>1, InUseNext, States DEF InUse
  <2>6. \A u \in Tasks : priority'[u] = priority[u]
    <3>1. Range(list'[s]) = {Shell}
      BY <2>4 DEF Range
    <3>2. HasOwner(Sched, s) => semOwner[s] = Shell
      BY <1>1 DEF HasOwner, OnlyShellWaits, s
    <3> QED
      BY <2>3, <3>1, <3>2
  <2> QED
    BY <1>1, <2>1, <2>3, <2>4, <2>5, <2>6 DEF Calm, OnlyShellWaits, InUse, s
<1> QED
  BY <1>1, <1>3, <1>4 DEF PRT_SemPend, s

-----------------------------------------------------------------------------
(***************************************************************************)
(* Steps of main.                                                           *)
(***************************************************************************)
LEMMA KernelKept ==
  ASSUME Control, UNCHANGED vars
  PROVE  Calm /\ UNCHANGED <<list, semCount, semStat, unusedSem, running, status, idleTaskId>>
<1>1. UNCHANGED <<list, semCount, semStat, unusedSem, semOwner, priority,
                  originalPriority, status, uniFlag, running, idleTaskId>>
  BY DEF vars, schedVars, semVars, tskVars
<1> QED
  BY <1>1, StutterInv DEF Control, Calm, OnlyShellWaits, Active, InUse

LEMMA BufferKept ==
  ASSUME Data, UNCHANGED <<typed, rxVars, shellBufReadOffset, lastRead>>
  PROVE  ShellRest' /\ Ring'
BY DEF Data, ShellRest, Ring, rxVars, Stored

LEMMA LineKept ==
  ASSUME Data, UNCHANGED <<cmdBuf, echoed>>
  PROVE  Line'
BY DEF Data, Line, EchoIsCommand

LEMMA ClockKept ==
  ASSUME Data, UNCHANGED <<gic, tickVars>>
  PROVE  Clock'
BY DEF Data, Clock, tickVars

LEMMA QuietBootInv ==
  ASSUME ShellInv, OsHwiInit \/ CoreTimerInit \/ InitModules \/ EnableRx
  PROVE  ShellInv'
<1>1. /\ Control /\ Data /\ UNCHANGED vars
      /\ UNCHANGED <<tickVars, typed, rxVars, shellVars>>
  BY DEF ShellInv, OsHwiInit, CoreTimerInit, InitModules, EnableRx, BootStep, OsGicEnableInt
<1>2. UNCHANGED <<shellPc, shellBufReadOffset, lastRead, cmdBuf, echoed>>
  BY <1>1 DEF shellVars, lineVars
<1>3. Calm /\ UNCHANGED <<list, semCount, semStat, unusedSem>>
  BY <1>1, KernelKept
<1>4. TimerIrq # UartIrq
  BY DEF TimerIrq, UartIrq
<1>5. /\ ~ RxSemMade /\ ~ RxSemMade' /\ boot # "done" /\ boot' # "done"
      /\ boot' \in {"timer", "modules", "uart", "sem"}
  BY DEF OsHwiInit, CoreTimerInit, InitModules, EnableRx, BootStep, RxSemMade
<1>6. gic' \in [on : BOOLEAN, enabled : SUBSET {TimerIrq, UartIrq}]
  <2>1. gic \in [on : BOOLEAN, enabled : SUBSET {TimerIrq, UartIrq}]
    BY <1>1 DEF Data, Clock
  <2>2. \/ gic' = gic
        \/ gic' = [gic EXCEPT !.on = TRUE]
        \/ gic' = [gic EXCEPT !.enabled = gic.enabled \cup {TimerIrq}]
        \/ gic' = [gic EXCEPT !.enabled = gic.enabled \cup {UartIrq}]
    BY DEF OsHwiInit, CoreTimerInit, InitModules, EnableRx, OsGicEnableInt
  <2>3. gic.enabled \in SUBSET {TimerIrq, UartIrq}
    BY <2>1
  <2>4. \A irq \in {TimerIrq, UartIrq} :
          gic.enabled \cup {irq} \in SUBSET {TimerIrq, UartIrq}
    BY <2>3
  <2> QED
    BY <2>1, <2>2, <2>4
<1>7. Clock'
  BY <1>1, <1>6 DEF Data, Clock, tickVars
<1>8. UartIrq \in gic'.enabled => boot' = "sem"
  BY <1>1, <1>4 DEF Data, Clock, Control, BootSays, OsHwiInit, CoreTimerInit, InitModules,
                    EnableRx, OsGicEnableInt, BootStep
<1>9. BootSays'
  BY <1>1, <1>2, <1>3, <1>5, <1>8 DEF Control, BootSays, Calm
<1>10. OnlyShellWaits'
  BY <1>1, <1>2, <1>3 DEF Control, OnlyShellWaits, ShellWaits, Calm
<1>11. TokensMatchUnread'
  BY <1>5 DEF TokensMatchUnread, RxSemMade
<1> QED
  BY <1>1, <1>2, <1>3, <1>7, <1>9, <1>10, <1>11, BufferKept, LineKept
     DEF ShellInv, Control, Data, Calm

LEMMA CreateRxSemInv ==
  ASSUME ShellInv, CreateRxSem
  PROVE  ShellInv'
<1> DEFINE s == sem_uart_rx
<1>1. /\ Control /\ Data /\ boot = "sem" /\ boot' = "create" /\ PRT_SemCreate(0)
      /\ UNCHANGED <<gic, tickVars, typed, rxVars, shellVars>>
      /\ ~ RxSemMade /\ RxSemMade'
  BY DEF ShellInv, CreateRxSem, BootStep, RxSemMade
<1>2. UNCHANGED <<shellPc, shellBufReadOffset, lastRead, cmdBuf, echoed, fifo>>
  BY <1>1 DEF shellVars, lineVars, rxVars
<1>3. /\ s \in Sems /\ semStat \in [Sems -> {"UNUSED", "USED"}]
      /\ semCount \in [Sems -> Nat] /\ semOwner \in [Sems -> Tasks \cup {NoTask}]
  BY <1>1, ShellNames DEF Control, IInv, RestType
<1>4. unusedSem # << >> /\ Head(unusedSem) = s
  <2>1. unusedSem = [i \in 1 .. NumSems |-> i - 1]
    BY <1>1 DEF Control, BootSays
  <2>2. unusedSem \in Seq(Sems) /\ NumSems \in Nat /\ NumSems > 0
    BY <1>1, ShellAssumption, SizesAssumption DEF Control, IInv, RestType
  <2>3. unusedSem # << >> /\ unusedSem[1] = 0
    BY <2>1, <2>2
  <2> QED
    BY <2>2, <2>3, HeadTailProperties DEF sem_uart_rx
<1>5. /\ IInv' /\ semCount' = [semCount EXCEPT ![s] = 0]
      /\ semStat' = [semStat EXCEPT ![s] = "USED"]
      /\ semOwner' = [semOwner EXCEPT ![s] = NoTask]
      /\ UNCHANGED schedVars /\ UNCHANGED tskVars
  <2>1. ~ (0 > OS_SEM_COUNT_MAX)
    BY ShellNames
  <2>2. UNCHANGED schedVars /\ UNCHANGED tskVars
    <3>1. list' = list
      <4>1. list[s] = << >> /\ list \in ListType
        BY <1>1, <1>2, ShellIsWaiting, Invariants DEF Control, BootSays, OnlyShellWaits
      <4>2. list' = [list EXCEPT ![s] = << >>]
        BY <1>1, <1>4, <2>1 DEF PRT_SemCreate
      <4> QED
        BY <4>1, <4>2 DEF ListType
    <3> QED
      BY <1>1, <1>4, <2>1, <3>1 DEF PRT_SemCreate, schedVars, tskVars
  <2>3. PICK c \in Nat : c = 0
    OBVIOUS
  <2>4. PRT_SemCreate(c)
    BY <1>1, <2>3
  <2>5. IInv'
    BY <1>1, <2>4, SemCreateInv DEF Control
  <2> QED
    BY <1>1, <1>4, <2>1, <2>2, <2>5 DEF PRT_SemCreate
<1>6. semStat'[s] = "USED" /\ semCount'[s] = 0 /\ semOwner'[s] = NoTask
  BY <1>3, <1>5
<1>7. UNCHANGED <<list, status, priority, originalPriority, uniFlag>>
  BY <1>5 DEF schedVars, tskVars
<1>8. BootSays'
  BY <1>1, <1>6, <1>7 DEF Control, BootSays, Active
<1>9. OnlyShellWaits'
  BY <1>1, <1>2, <1>6, <1>7 DEF Control, OnlyShellWaits, ShellWaits, InUse
<1>10. TokensMatchUnread'
  <2>1. Stored - lastRead = 0
    <3>1. typed = 0 /\ lastRead = 0 /\ Stored - lastRead \in Nat /\ Len(fifo) \in Nat
      BY <1>1, LenProperties DEF Control, BootSays, Data, Ring, ShellRest
    <3> QED
      BY <3>1 DEF Stored
  <2>2. Stored' - lastRead' = 0 /\ shellPc' = "pend"
    BY <1>1, <1>2, <2>1 DEF Stored, Control, BootSays
  <2> QED
    BY <1>6, <2>2 DEF TokensMatchUnread
<1> QED
  BY <1>1, <1>2, <1>5, <1>8, <1>9, <1>10, BufferKept, LineKept, ClockKept
     DEF ShellInv, Control, Data

\* main's other calls leave the semaphore alone.
LEMMA AfterBootCall ==
  ASSUME ShellInv, RxSemMade, RxSemMade', UNCHANGED <<gic, tickVars, typed, rxVars, shellVars>>,
         IInv', UNCHANGED <<semStat, semCount, semOwner>>, SameQueues(Sems),
         boot' \in {"resume", "activate", "done"}, Active' <=> boot' = "done",
         \A t \in InUse' : priority'[t] = originalPriority'[t]
  PROVE  ShellInv'
<1>1. /\ Control /\ Data
      /\ UNCHANGED <<shellPc, shellBufReadOffset, lastRead, cmdBuf, echoed, fifo>>
      /\ list'[sem_uart_rx] = list[sem_uart_rx]
  BY ShellNames DEF ShellInv, shellVars, lineVars, SameQueues, rxVars
<1>2. BootSays'
  BY <1>1 DEF Control, BootSays
<1>3. OnlyShellWaits'
  BY <1>1 DEF Control, OnlyShellWaits, ShellWaits
<1>4. TokensMatchUnread'
  BY <1>1 DEF Data, TokensMatchUnread, RxSemMade, ShellWaits, Stored
<1> QED
  BY <1>1, <1>2, <1>3, <1>4, BufferKept, LineKept, ClockKept DEF ShellInv, Control, Data

LEMMA ShellTaskInitInv ==
  ASSUME ShellInv, ShellTaskInit \/ Activate
  PROVE  ShellInv'
<1>1. /\ Control /\ IInv /\ RxSemMade /\ RxSemMade'
      /\ UNCHANGED <<gic, tickVars, typed, rxVars, shellVars>>
      /\ boot # "done" /\ ~ Active
      /\ \A t \in InUse : priority[t] = originalPriority[t]
  BY WhoRuns DEF ShellInv, Control, OnlyShellWaits, ShellTaskInit, Activate, BootStep, RxSemMade
<1>2. FreeTask \notin {SuspendedTask, ReadyTask}
  BY DEF FreeTask, SuspendedTask, ReadyTask
<1>3. CASE BootStep("create", "resume") /\ PRT_TaskCreate(ShellPrio)
  <2>1. CASE TaskCreated(ShellPrio)
    <3> DEFINE t == Head(list[FreeList])
    <3>1. /\ IInv' /\ t \in Tasks /\ Goes(t, FreeTask, SuspendedTask) /\ SameQueues(Sems)
          /\ \A u \in Tasks \ {t} : /\ priority'[u] = priority[u]
                                   /\ originalPriority'[u] = originalPriority[u]
          /\ priority'[t] = ShellPrio /\ originalPriority'[t] = ShellPrio
      BY <1>1, <2>1, ShellNames, TaskCreatedInv
    <3>2. UNCHANGED <<semStat, semCount, semOwner>> /\ uniFlag' = uniFlag
      BY <2>1 DEF TaskCreated, semVars
    <3> HIDE DEF t
    <3>3. \A u \in InUse' : u = t \/ u \in InUse
      BY <1>1, <3>1, InUseNext, States DEF Goes, InUse
    <3>4. \A u \in InUse' : priority'[u] = originalPriority'[u]
      BY <1>1, <3>1, <3>3 DEF InUse
    <3> QED
      BY <1>1, <1>3, <3>1, <3>2, <3>4, AfterBootCall DEF BootStep, Active
  <2>2. CASE TaskNotCreated
    <3>1. /\ IInv' /\ SameQueues(Sems)
          /\ UNCHANGED <<status, priority, uniFlag>>
          /\ UNCHANGED semVars /\ UNCHANGED tskVars
      BY <1>1, <2>2, TaskNotCreatedInv
    <3> QED
      BY <1>1, <1>3, <3>1, AfterBootCall DEF BootStep, Active, semVars, tskVars, InUse
  <2> QED
    BY <1>3, <2>1, <2>2 DEF PRT_TaskCreate
<1>4. CASE BootStep("resume", "activate") /\ PRT_TaskResume(Shell)
  <2>1. CASE \E code \in ErrorCodes : Fail(code)
    <3>1. Calm /\ UNCHANGED <<list, semCount, semStat>> /\ UNCHANGED vars
      BY <1>1, <2>1, KernelKept DEF Fail
    <3> QED
      BY <1>1, <1>4, <3>1, AfterBootCall DEF BootStep, Calm, SameQueues, vars, semVars
  <2>2. CASE /\ "SUSPEND" \in status[Shell]
             /\ SetSched(OsMoveTaskToReady([Sched EXCEPT !.status[Shell] = @ \ {"SUSPEND"}],
                                           Shell))
             /\ UNCHANGED <<semVars, tskVars>>
    <3>1. UNCHANGED semVars /\ UNCHANGED tskVars
      BY <2>2
    <3>2. PICK t \in Tasks : t = Shell
      BY ShellNames
    <3>3. /\ IInv' /\ Goes(t, SuspendedTask, ReadyTask)
          /\ SameQueues(Sems) /\ priority' = priority /\ (Active' <=> Active)
      BY <1>1, <2>2, <3>1, <3>2, ResumeInv
    <3>4. InUse' \subseteq InUse
      BY <1>1, <1>2, <3>3, InUseNext, States DEF Goes, InUse, FreeTask, SuspendedTask
    <3> QED
      BY <1>1, <1>4, <3>1, <3>3, <3>4, AfterBootCall DEF BootStep, semVars, tskVars
  <2> QED
    BY <1>4, <2>1, <2>2 DEF PRT_TaskResume, ErrorCodes
<1>5. CASE Activate
  <2> DEFINE t == Head(list[FreeList])
  <2>1. /\ IInv' /\ t \in Tasks /\ Goes(t, FreeTask, ReadyTask) /\ SameQueues(Sems)
        /\ \A u \in Tasks \ {t} : /\ priority'[u] = priority[u]
                                 /\ originalPriority'[u] = originalPriority[u]
        /\ priority'[t] = OS_TSK_PRIORITY_LOWEST
        /\ originalPriority'[t] = OS_TSK_PRIORITY_LOWEST /\ Active'
    BY <1>1, <1>5, OsActivateInv DEF Activate
  <2>2. UNCHANGED <<semStat, semCount, semOwner>>
    <3>1. UNCHANGED semVars
      BY <1>5, Zenon DEF Activate, OsActivate
    <3> QED
      BY <3>1 DEF semVars
  <2> HIDE DEF t
  <2>3. \A u \in InUse' : u = t \/ u \in InUse
    BY <1>1, <2>1, InUseNext, States DEF Goes, InUse
  <2>4. \A u \in InUse' : priority'[u] = originalPriority'[u]
    BY <1>1, <2>1, <2>3 DEF InUse
  <2> QED
    BY <1>1, <1>5, <2>1, <2>2, <2>4, AfterBootCall DEF Activate, BootStep
<1> QED
  BY <1>3, <1>4, <1>5 DEF ShellTaskInit

-----------------------------------------------------------------------------
(***************************************************************************)
(* The timer, the user and the interrupt.                                   *)
(***************************************************************************)
LEMMA SameControl ==
  ASSUME ShellInv, UNCHANGED vars, UNCHANGED bootVars, shellPc' = shellPc,
         RxSemMade \/ UNCHANGED <<typed, lastRead>>
  PROVE  Control'
<1>1. Control /\ UNCHANGED <<boot, gic>>
  BY DEF ShellInv, bootVars
<1>2. Calm /\ UNCHANGED <<list, semCount, semStat, unusedSem>>
  BY <1>1, KernelKept
<1>3. BootSays'
  BY <1>1, <1>2 DEF Control, BootSays, RxSemMade, Calm
<1>4. OnlyShellWaits'
  BY <1>1, <1>2 DEF Control, OnlyShellWaits, ShellWaits, Calm
<1> QED
  BY <1>2, <1>3, <1>4 DEF Control, Calm

LEMMA SameTokens ==
  ASSUME ShellInv, UNCHANGED <<boot, shellPc, list, semCount>>,
         Stored' - lastRead' = Stored - lastRead
  PROVE  TokensMatchUnread'
BY DEF ShellInv, Data, TokensMatchUnread, ShellWaits

LEMMA TickInv ==
  ASSUME ShellInv, TimerExpires \/ OsTickDispatcher
  PROVE  ShellInv'
<1>1. /\ Control /\ Data /\ UNCHANGED vars /\ UNCHANGED bootVars
      /\ UNCHANGED <<typed, rxVars, shellVars>>
  BY DEF ShellInv, TimerExpires, OsTickDispatcher
<1>2. UNCHANGED <<shellPc, shellBufReadOffset, lastRead, cmdBuf, echoed, fifo, boot, gic,
                  list, semCount>>
  BY <1>1 DEF shellVars, lineVars, rxVars, bootVars, vars, schedVars, semVars
<1>3. Clock'
  <2>1. MaxPeriods \in Nat
    BY ShellAssumption
  <2>2. gic' \in [on : BOOLEAN, enabled : SUBSET {TimerIrq, UartIrq}]
    BY <1>1, <1>2 DEF Data, Clock
  <2>3. /\ ticks \in Nat /\ elapsed \in 0 .. MaxPeriods /\ due \in BOOLEAN
        /\ due => ticks < elapsed
        /\ ticks <= elapsed
    BY <1>1, <2>1 DEF Data, Clock
  <2>4. CASE TimerExpires
    BY <2>1, <2>2, <2>3, <2>4 DEF Clock, TimerExpires
  <2>5. CASE OsTickDispatcher
    <3>1. /\ due /\ due' = FALSE
          /\ ticks' = ticks + 1 /\ elapsed' = elapsed
      BY <2>5 DEF OsTickDispatcher
    <3>2. ticks' \in Nat /\ ticks' <= elapsed'
      BY <2>1, <2>3, <3>1
    <3>3. elapsed' \in 0 .. MaxPeriods
      BY <2>3, <3>1
    <3>4. due' \in BOOLEAN /\ ~ due'
      BY <3>1
    <3> QED
      BY <2>2, <3>2, <3>3, <3>4 DEF Clock
  <2> QED
    BY <2>4, <2>5
<1>4. TokensMatchUnread'
  BY <1>1, <1>2, SameTokens DEF Stored
<1> QED
  BY <1>1, <1>2, <1>3, <1>4, SameControl, BufferKept, LineKept DEF ShellInv, Data

LEMMA HandlerInv ==
  ASSUME ShellInv, RxInterrupt \/ OsGicIntClear
  PROVE  ShellInv'
<1>1. /\ Control /\ Data /\ UNCHANGED vars /\ UNCHANGED envVars
      /\ UNCHANGED <<fifo, shellBuf, shellBufOffset, shellVars>>
      /\ handler' \in {running, NoTask}
  BY DEF ShellInv, RxInterrupt, OsGicIntClear
<1>2. /\ UNCHANGED <<shellPc, shellBufReadOffset, lastRead, cmdBuf, echoed, boot, gic,
                     list, semCount, typed>>
      /\ UNCHANGED tickVars /\ UNCHANGED bootVars
  BY <1>1 DEF shellVars, lineVars, envVars, bootVars, vars, schedVars, semVars
<1>3. ShellRest' /\ Ring'
  <2>1. handler' \in TCBs \cup {NoTask}
    BY <1>1, Invariants DEF Control
  <2>2. UNCHANGED Stored
    BY <1>1, <1>2 DEF Stored
  <2> QED
    BY <1>1, <1>2, <2>1, <2>2 DEF Data, ShellRest, Ring
<1>4. TokensMatchUnread'
  BY <1>1, <1>2, SameTokens DEF Stored
<1> QED
  BY <1>1, <1>2, <1>3, <1>4, SameControl, LineKept, ClockKept DEF ShellInv, Data

LEMMA TypeInv ==
  ASSUME ShellInv, EarlyTyping = FALSE, NEW kind \in Kinds, Type(kind)
  PROVE  ShellInv'
<1> DEFINE ch == [no |-> typed', kind |-> kind]
<1>1. /\ Control /\ Data /\ UNCHANGED vars /\ UNCHANGED <<bootVars, tickVars>>
      /\ UNCHANGED <<handler, shellBuf, shellBufOffset, shellVars>>
      /\ typed < MaxTyped /\ typed - lastRead < Size
      /\ typed' = typed + 1 /\ fifo' = Append(fifo, ch)
  BY DEF ShellInv, Type, Size
<1>2. UNCHANGED <<shellPc, shellBufReadOffset, lastRead, cmdBuf, echoed, boot, gic,
                  list, semCount>>
  BY <1>1 DEF shellVars, lineVars, bootVars, vars, schedVars, semVars
<1>3. RxSemMade
  BY <1>1 DEF Type, Control, BootSays, RxSemMade
<1>4. /\ typed \in Nat /\ typed' \in 0 .. MaxTyped /\ lastRead \in Nat
      /\ fifo \in Seq(Chars) /\ Len(fifo) \in Nat /\ ch \in Chars
  BY <1>1, ShellAssumption, LenProperties DEF Data, ShellRest, Chars
<1> HIDE DEF ch
<1>5. /\ fifo' \in Seq(Chars) /\ Len(fifo') = Len(fifo) + 1
      /\ \A i \in 1 .. Len(fifo) : fifo'[i] = fifo[i]
      /\ fifo'[Len(fifo) + 1] = ch
  BY <1>1, <1>4, AppendProperties
<1>6. Stored' = Stored
  BY <1>1, <1>4, <1>5 DEF Stored
<1>7. ch.no = Stored + Len(fifo) + 1
  BY <1>1, <1>4 DEF ch, Stored
<1>8. \A i \in 1 .. Len(fifo') : fifo'[i].no = Stored' + i
  <2> SUFFICES ASSUME NEW i \in 1 .. Len(fifo')
               PROVE  fifo'[i].no = Stored + i
    BY <1>6
  <2>1. i \in 1 .. Len(fifo) \/ i = Len(fifo) + 1
    BY <1>4, <1>5
  <2>2. Stored \in Int
    BY <1>4 DEF Stored
  <2>3. CASE i \in 1 .. Len(fifo)
    BY <1>1, <1>5, <2>3 DEF Data, Ring
  <2>4. CASE i = Len(fifo) + 1
    BY <1>4, <1>5, <1>7, <2>2, <2>4
  <2> QED
    BY <2>1, <2>3, <2>4
<1>9. typed' - lastRead' <= Size
  BY <1>1, <1>2, <1>4, ShellNames
<1>10. ShellRest' /\ Ring'
  BY <1>1, <1>2, <1>4, <1>5, <1>6, <1>8, <1>9 DEF Data, ShellRest, Ring
<1>11. TokensMatchUnread'
  BY <1>2, <1>6, SameTokens
<1> QED
  BY <1>1, <1>2, <1>3, <1>10, <1>11, SameControl, LineKept, ClockKept DEF ShellInv, Data

-----------------------------------------------------------------------------
(***************************************************************************)
(* The ring: storing in it and reading from it.                             *)
(***************************************************************************)
LEMMA Wraps ==
  ASSUME NEW r \in Slots, NEW u \in Nat
  PROVE  /\ Wrapped(r) = r
         /\ u <= Size => Wrapped(r + u) \in Slots
         /\ u < Size => /\ NextOffset(Wrapped(r + u)) = Wrapped(r + (u + 1))
                        /\ Wrapped(NextOffset(r) + u) = Wrapped(r + (u + 1))
                        /\ \A k \in 0 .. u - 1 : Wrapped(r + k) # Wrapped(r + u)
BY ShellNames DEF Slots, Wrapped, NextOffset, Size

LEMMA RxHandleInv ==
  ASSUME ShellInv, OS_SEM_COUNT_MAX >= SHELL_SHOW_MAX_LEN, OsUartRxHandle
  PROVE  ShellInv'
<1> DEFINE u == Stored - lastRead
           s == sem_uart_rx
<1>1. /\ Control /\ Data /\ fifo # << >> /\ PRT_SemPost(s)
      /\ UNCHANGED envVars /\ UNCHANGED shellVars /\ handler' = handler
      /\ shellBuf' = [shellBuf EXCEPT ![shellBufOffset] = Head(fifo)]
      /\ shellBufOffset' = NextOffset(shellBufOffset) /\ fifo' = Tail(fifo)
  BY DEF ShellInv, OsUartRxHandle
<1>2. /\ UNCHANGED <<shellPc, shellBufReadOffset, lastRead, cmdBuf, echoed, boot, gic, typed>>
      /\ UNCHANGED tickVars
  BY <1>1 DEF shellVars, lineVars, envVars, bootVars
<1>3. /\ typed \in Nat /\ lastRead \in Nat /\ u \in Nat
      /\ fifo \in Seq(Chars) /\ Len(fifo) \in Nat /\ Len(fifo) > 0
      /\ Head(fifo) \in Chars /\ Head(fifo) = fifo[1]
      /\ Tail(fifo) \in Seq(Chars) /\ Len(Tail(fifo)) = Len(fifo) - 1
      /\ \A i \in 1 .. Len(fifo) - 1 : Tail(fifo)[i] = fifo[i + 1]
  BY <1>1, LenProperties, EmptySeq, HeadTailProperties, HeadOfList DEF Data, ShellRest, Ring
<1>4. Stored' = Stored + 1 /\ Stored \in Int
  BY <1>1, <1>2, <1>3 DEF Stored
<1>5. u < Size
  BY <1>1, <1>3, ShellNames DEF Data, Ring, Stored
<1>6. RxSemMade
  <2> SUFFICES ASSUME ~ RxSemMade PROVE FALSE
    OBVIOUS
  <2>1. typed = 0 /\ lastRead = 0
    BY <1>1 DEF Control, BootSays
  <2> QED
    BY <1>3, <2>1 DEF Stored
<1>7. /\ semCount[s] \in Nat
      /\ u = semCount[s] + (IF shellPc = "read" /\ ~ ShellWaits THEN 1 ELSE 0)
  BY <1>1, <1>6, WhoRuns DEF Data, TokensMatchUnread, RxSemMade
<1>8. semCount[s] < OS_SEM_COUNT_MAX
  BY <1>3, <1>5, <1>7, ShellNames DEF Size
<1>9. /\ Calm
      /\ list'[s] = << >>
      /\ \/ ShellWaits /\ semCount'[s] = semCount[s]
         \/ ~ ShellWaits /\ semCount'[s] = semCount[s] + 1
  BY <1>1, <1>6, <1>8, RxPost
<1>10. ~ ShellWaits'
  BY <1>9 DEF ShellWaits, Range
<1>11. Control'
  <2>1. BootSays'
    BY <1>1, <1>2, <1>6, <1>9 DEF Control, BootSays, RxSemMade, Calm
  <2>2. OnlyShellWaits'
    BY <1>9, <1>10 DEF Calm, OnlyShellWaits
  <2> QED
    BY <1>9, <2>1, <2>2 DEF Control, Calm
<1>12. TokensMatchUnread'
  <2>1. Stored' - lastRead' = u + 1
    BY <1>2, <1>3, <1>4
  <2>2. ShellWaits => shellPc = "read"
    BY <1>1 DEF Control, OnlyShellWaits
  <2> HIDE DEF u
  <2>3. u + 1 = semCount'[s] + (IF shellPc = "read" THEN 1 ELSE 0)
    BY <1>3, <1>7, <1>9, <2>2
  <2> QED
    BY <1>2, <1>10, <2>1, <2>3 DEF TokensMatchUnread
<1>13. /\ shellBufReadOffset \in Slots /\ shellBuf \in [Slots -> Chars]
       /\ shellBufOffset = Wrapped(shellBufReadOffset + u)
  BY <1>1 DEF Data, ShellRest, Ring
<1> HIDE DEF u
<1>14. /\ shellBufOffset \in Slots
       /\ shellBufOffset' = Wrapped(shellBufReadOffset + (u + 1))
       /\ shellBufOffset' \in Slots
       /\ \A k \in 0 .. u - 1 : Wrapped(shellBufReadOffset + k) # shellBufOffset
  BY <1>1, <1>3, <1>5, <1>13, Wraps, ShellNames
<1>15. ShellRest'
  BY <1>1, <1>2, <1>3, <1>13, <1>14 DEF Data, ShellRest
<1>16. \A k \in 0 .. u : shellBuf'[Wrapped(shellBufReadOffset + k)].no = lastRead + 1 + k
  <2> SUFFICES ASSUME NEW k \in 0 .. u
               PROVE  shellBuf'[Wrapped(shellBufReadOffset + k)].no = lastRead + 1 + k
    OBVIOUS
  <2>1. CASE k = u
    <3>1. fifo[1].no = Stored + 1
      BY <1>1, <1>3 DEF Data, Ring
    <3>2. Stored + 1 = lastRead + 1 + u
      BY <1>3, <1>4 DEF u
    <3> QED
      BY <1>1, <1>3, <1>13, <1>14, <2>1, <3>1, <3>2
  <2>2. CASE k # u
    <3>1. k \in 0 .. u - 1
      BY <1>3, <2>2
    <3>2. Wrapped(shellBufReadOffset + k) \in Slots
      BY <1>3, <1>5, <1>13, <3>1, Wraps, ShellNames
    <3>3. shellBuf'[Wrapped(shellBufReadOffset + k)] = shellBuf[Wrapped(shellBufReadOffset + k)]
      BY <1>1, <1>13, <1>14, <3>1, <3>2
    <3> QED
      BY <1>1, <3>1, <3>3 DEF Data, Ring, u
  <2> QED
    BY <2>1, <2>2
<1>17. \A i \in 1 .. Len(fifo') : fifo'[i].no = Stored' + i
  <2> SUFFICES ASSUME NEW i \in 1 .. Len(fifo) - 1
               PROVE  Tail(fifo)[i].no = Stored + 1 + i
    BY <1>1, <1>3, <1>4
  <2>1. i + 1 \in 1 .. Len(fifo) /\ Tail(fifo)[i] = fifo[i + 1]
    BY <1>3
  <2>2. fifo[i + 1].no = Stored + (i + 1)
    BY <1>1, <2>1 DEF Data, Ring
  <2> QED
    BY <1>4, <2>1, <2>2
<1>18. Ring'
  <2>1. Stored' - lastRead' = u + 1
    BY <1>2, <1>3, <1>4 DEF u
  <2>2. 0 .. Stored' - lastRead' - 1 = 0 .. u
    BY <1>3, <2>1
  <2>3. typed' - lastRead' <= Size
    BY <1>1, <1>2 DEF Data, Ring
  <2> QED
    BY <1>2, <1>3, <1>14, <1>16, <1>17, <2>1, <2>2, <2>3 DEF Ring
<1> QED
  BY <1>1, <1>2, <1>11, <1>12, <1>15, <1>18, LineKept, ClockKept DEF ShellInv, Data

\* While the shell runs it does not wait, and the system is up.
LEMMA ShellExecutes ==
  ASSUME ShellInv, Executing(Shell)
  PROVE  /\ Control /\ Data /\ RxSemMade /\ running = Shell /\ ~ ShellWaits
         /\ semCount[sem_uart_rx] \in Nat
         /\ list[sem_uart_rx] = << >>
         /\ Stored - lastRead = semCount[sem_uart_rx] + (IF shellPc = "read" THEN 1 ELSE 0)
<1>1. /\ Control /\ Data /\ RxSemMade /\ running = Shell /\ ~ ShellWaits
      /\ semCount[sem_uart_rx] \in Nat
  BY WhoRuns DEF ShellInv, Executing, RxSemMade
<1>2. list[sem_uart_rx] = << >>
  BY <1>1, ShellIsWaiting DEF Control, OnlyShellWaits
<1> QED
  BY <1>1, <1>2 DEF Data, TokensMatchUnread, RxSemMade

LEMMA ShellPendInv ==
  ASSUME ShellInv, ShellPend
  PROVE  ShellInv'
<1> DEFINE s == sem_uart_rx
<1>1. /\ Executing(Shell) /\ shellPc = "pend" /\ shellPc' = "read"
      /\ PRT_SemPend(sem_uart_rx, "FOREVER")
      /\ UNCHANGED envVars /\ UNCHANGED rxVars /\ UNCHANGED lineVars
  BY DEF ShellPend
<1>2. /\ UNCHANGED <<boot, gic, typed, fifo, lastRead, shellBufReadOffset, cmdBuf, echoed>>
      /\ UNCHANGED tickVars
  BY <1>1 DEF envVars, bootVars, rxVars, lineVars
<1>3. /\ Control /\ Data /\ RxSemMade /\ running = Shell
      /\ semCount[s] \in Nat /\ Stored - lastRead = semCount[s]
  <2>1. Stored - lastRead = semCount[s] + 0
    BY <1>1, ShellExecutes
  <2> QED
    BY <1>1, <2>1, ShellExecutes
<1>4. /\ Calm
      /\ \/ /\ semCount[s] > 0 /\ semCount'[s] = semCount[s] - 1 /\ list'[s] = << >>
         \/ semCount[s] = 0 /\ semCount'[s] = 0 /\ list'[s] = <<Shell>>
  BY <1>1, <1>3, RxPend
<1>5. BootSays'
  BY <1>2, <1>3, <1>4 DEF Control, BootSays, RxSemMade, Calm
<1>6. OnlyShellWaits'
  BY <1>1, <1>4 DEF OnlyShellWaits, Calm
<1>7. TokensMatchUnread'
  <2>1. Range(<< >>) = {} /\ Range(<<Shell>>) = {Shell}
    BY DEF Range
  <2>2. ShellWaits' <=> Shell \in Range(list'[s])
    BY DEF ShellWaits
  <2>3. Stored' - lastRead' = semCount[s]
    BY <1>2, <1>3 DEF Stored
  <2>4. CASE semCount[s] > 0
    <3>1. ~ ShellWaits' /\ semCount'[s] = semCount[s] - 1
      BY <1>4, <2>1, <2>2, <2>4
    <3> QED
      BY <1>1, <1>3, <2>3, <3>1 DEF TokensMatchUnread
  <2>5. CASE semCount[s] = 0
    <3>1. ShellWaits' /\ semCount'[s] = 0
      BY <1>4, <2>1, <2>2, <2>5
    <3> QED
      BY <1>1, <2>3, <2>5, <3>1 DEF TokensMatchUnread
  <2> QED
    BY <1>3, <2>4, <2>5
<1>8. ShellRest' /\ Ring'
  BY <1>1, <1>2, <1>3, BufferKept
<1> QED
  BY <1>2, <1>3, <1>4, <1>5, <1>6, <1>7, <1>8, LineKept, ClockKept
     DEF ShellInv, Control, Data, Calm

\* What is read is the next character typed.
LEMMA ReadsNext ==
  ASSUME ShellInv, Executing(Shell), shellPc = "read"
  PROVE  /\ Stored - lastRead \in Nat \ {0} /\ Stored - lastRead <= Size
         /\ shellBufReadOffset \in Slots
         /\ shellBuf[shellBufReadOffset] \in Chars
         /\ shellBuf[shellBufReadOffset].no = lastRead + 1
         /\ lastRead \in Nat
<1>1. Data /\ semCount[sem_uart_rx] \in Nat
      /\ Stored - lastRead = semCount[sem_uart_rx] + 1
  BY ShellExecutes
<1>2. /\ shellBufReadOffset \in Slots /\ shellBuf \in [Slots -> Chars]
      /\ lastRead \in Nat /\ typed \in Nat
      /\ fifo \in Seq(Chars) /\ Len(fifo) \in Nat
  BY <1>1, LenProperties DEF Data, ShellRest
<1>3. Stored - lastRead \in Nat \ {0}
  BY <1>1
<1>4. Stored - lastRead <= Size
  BY <1>1, <1>2, ShellNames DEF Data, Ring, Stored
<1>5. Wrapped(shellBufReadOffset + 0) = shellBufReadOffset
  <2>1. shellBufReadOffset + 0 = shellBufReadOffset
    BY <1>2, ShellNames DEF Slots
  <2>2. 0 \in Nat
    OBVIOUS
  <2> QED
    BY <1>2, <2>1, <2>2, Wraps
<1>6. shellBuf[Wrapped(shellBufReadOffset + 0)].no = lastRead + 1 + 0
  <2>1. 0 \in 0 .. Stored - lastRead - 1
    BY <1>3
  <2> QED
    BY <1>1, <2>1 DEF Data, Ring
<1> QED
  BY <1>2, <1>3, <1>4, <1>5, <1>6

LEMMA EditInv ==
  ASSUME Line, NEW ch \in Chars,
         EditPrint(ch) \/ EditErase \/ UNCHANGED <<cmdBuf, echoed>>
  PROVE  Line'
<1>1. cmdBuf \in Seq(Nat) /\ echoed = cmdBuf /\ Len(cmdBuf) < Size /\ Len(cmdBuf) \in Nat
  BY LenProperties DEF Line, EchoIsCommand, Size
<1>2. ch.no \in Nat
  BY DEF Chars
<1>3. CASE UNCHANGED <<cmdBuf, echoed>>
  BY <1>3 DEF Line, EchoIsCommand
<1>4. CASE /\ Len(cmdBuf) < SHELL_SHOW_MAX_LEN - 1
           /\ cmdBuf' = Append(cmdBuf, ch.no) /\ echoed' = Append(echoed, ch.no)
  <2>1. cmdBuf' \in Seq(Nat) /\ Len(cmdBuf') = Len(cmdBuf) + 1
    BY <1>1, <1>2, <1>4, AppendProperties
  <2>2. Len(cmdBuf') < SHELL_SHOW_MAX_LEN
    BY <1>1, <1>4, <2>1, ShellNames DEF Size
  <2> QED
    BY <1>1, <1>4, <2>1, <2>2 DEF Line, EchoIsCommand
<1>5. CASE /\ cmdBuf # << >>
           /\ cmdBuf' = SubSeq(cmdBuf, 1, Len(cmdBuf) - 1)
           /\ echoed' = SubSeq(echoed, 1, Len(echoed) - 1)
  <2>1. \A i \in 1 .. Len(cmdBuf) - 1 : cmdBuf[i] \in Nat
    BY <1>1
  <2>2. Len(cmdBuf) > 0
    BY <1>1, <1>5, EmptySeq
  <2>3. /\ cmdBuf' \in Seq(Nat)
        /\ Len(cmdBuf') = IF 1 <= Len(cmdBuf) - 1 THEN Len(cmdBuf) - 1 - 1 + 1 ELSE 0
    BY <1>1, <1>5, <2>1, SubSeqProperties
  <2>4. Len(cmdBuf') < SHELL_SHOW_MAX_LEN
    BY <1>1, <2>2, <2>3, ShellNames DEF Size
  <2> QED
    BY <1>1, <1>5, <2>3, <2>4 DEF Line, EchoIsCommand
<1> QED
  BY <1>3, <1>4, <1>5 DEF EditPrint, EditErase

LEMMA ShellReadInv ==
  ASSUME ShellInv, ShellRead
  PROVE  ShellInv' /\ lastRead' = lastRead + 1
<1> DEFINE u == Stored - lastRead
           r == shellBufReadOffset
           ch == shellBuf[shellBufReadOffset]
<1>1. /\ Executing(Shell) /\ shellPc = "read" /\ UNCHANGED vars /\ UNCHANGED envVars
      /\ UNCHANGED rxVars /\ shellPc' \in {"dispatch", "pend"}
      /\ lastRead' = ch.no /\ shellBufReadOffset' = NextOffset(r)
      /\ EditPrint(ch) \/ EditErase \/ UNCHANGED <<cmdBuf, echoed>>
  BY DEF ShellRead
<1>2. /\ UNCHANGED <<boot, gic, typed, fifo, handler, shellBuf, shellBufOffset, list, semCount>>
      /\ UNCHANGED tickVars
  BY <1>1 DEF envVars, bootVars, rxVars, vars, schedVars, semVars
<1>3. /\ Control /\ Data /\ RxSemMade /\ ~ ShellWaits /\ semCount[sem_uart_rx] \in Nat
      /\ u = semCount[sem_uart_rx] + 1
  BY <1>1, ShellExecutes
<1>4. /\ u \in Nat \ {0} /\ u <= Size /\ r \in Slots /\ ch \in Chars
      /\ ch.no = lastRead + 1 /\ lastRead \in Nat
  BY <1>1, ReadsNext
<1>5. lastRead' = lastRead + 1 /\ Stored' = Stored
  BY <1>1, <1>2, <1>4 DEF Stored
<1>6. Stored \in Int
  <2>1. typed \in Nat /\ Len(fifo) \in Nat
    BY <1>3, LenProperties DEF Data, ShellRest
  <2> QED
    BY <2>1 DEF Stored
<1>7. Stored' - lastRead' = u - 1
  BY <1>4, <1>5, <1>6
<1>8. Calm /\ UNCHANGED <<list, semCount, semStat, unusedSem>>
  BY <1>1, <1>3, KernelKept
<1>9. BootSays'
  BY <1>2, <1>3, <1>8 DEF Control, BootSays, RxSemMade, Calm
<1>10. OnlyShellWaits'
  BY <1>3, <1>8 DEF Control, OnlyShellWaits, ShellWaits, Calm
<1>11. TokensMatchUnread'
  <2>1. shellPc' # "read"
    BY <1>1
  <2> HIDE DEF u
  <2> QED
    BY <1>2, <1>3, <1>7, <2>1 DEF TokensMatchUnread
<1>12. Line'
  BY <1>1, <1>3, <1>4, EditInv DEF Data
<1> HIDE DEF u, ch
<1>13. /\ shellBufReadOffset' \in Slots
       /\ \A k \in 0 .. u - 1 : Wrapped(shellBufReadOffset' + k) = Wrapped(r + (k + 1))
  <2>1. shellBufReadOffset' \in Slots
    BY <1>1, <1>4, ShellNames DEF Slots, NextOffset, Size
  <2>2. ASSUME NEW k \in 0 .. u - 1
        PROVE  Wrapped(shellBufReadOffset' + k) = Wrapped(r + (k + 1))
    <3>1. k \in Nat /\ k < Size
      BY <1>4, ShellNames
    <3> QED
      BY <1>1, <1>4, <3>1, Wraps
  <2> QED
    BY <2>1, <2>2
<1>14. lastRead' \in Nat
  BY <1>4, <1>5
<1>15. ShellRest'
  BY <1>2, <1>3, <1>13, <1>14 DEF Data, ShellRest
<1>16. \A k \in 0 .. u - 1 - 1 :
         shellBuf[Wrapped(shellBufReadOffset' + k)].no = lastRead + 1 + 1 + k
  <2> SUFFICES ASSUME NEW k \in 0 .. u - 1 - 1
               PROVE  shellBuf[Wrapped(shellBufReadOffset' + k)].no = lastRead + 1 + 1 + k
    OBVIOUS
  <2>1. k \in 0 .. u - 1 /\ k + 1 \in 0 .. u - 1
    BY <1>4
  <2>2. shellBuf[Wrapped(r + (k + 1))].no = lastRead + 1 + (k + 1)
    BY <1>3, <2>1 DEF Data, Ring, u
  <2> QED
    BY <1>4, <1>13, <2>1, <2>2
<1>17. shellBufOffset = Wrapped(shellBufReadOffset' + (u - 1))
  <2>1. shellBufOffset = Wrapped(r + u)
    BY <1>3 DEF Data, Ring, u
  <2>2. u - 1 \in 0 .. u - 1 /\ (u - 1) + 1 = u
    BY <1>4
  <2> QED
    BY <1>13, <2>1, <2>2
<1>18. typed' - lastRead' <= Size
  <2>1. typed \in Nat /\ typed - lastRead <= Size
    BY <1>3 DEF Data, Ring, ShellRest
  <2> QED
    BY <1>2, <1>4, <1>5, <2>1, ShellNames
<1>19. Ring'
  <2>1. u - 1 \in Nat
    BY <1>4
  <2>2. \A i \in 1 .. Len(fifo') : fifo'[i].no = Stored' + i
    BY <1>2, <1>3, <1>5 DEF Data, Ring
  <2> QED
    BY <1>2, <1>5, <1>7, <1>16, <1>17, <1>18, <2>1, <2>2 DEF Ring
<1> QED
  BY <1>2, <1>3, <1>5, <1>8, <1>9, <1>10, <1>11, <1>12, <1>15, <1>19, ClockKept
     DEF ShellInv, Control, Data, Calm

\* A command reads the system and leaves it alone, but for the line.
LEMMA CommandSteps ==
  ASSUME ShellCommand
  PROVE  /\ Executing(Shell) /\ UNCHANGED vars /\ UNCHANGED envVars /\ UNCHANGED rxVars
         /\ UNCHANGED <<shellBufReadOffset, lastRead>>
         /\ shellPc # "read" /\ shellPc' # "read"
         /\ UNCHANGED <<cmdBuf, echoed>> \/ (cmdBuf' = << >> /\ echoed' = << >>)
<1>1. CASE ShellDispatchCmd \/ PsEnd \/ SemStatEnd
  BY <1>1 DEF ShellDispatchCmd, PsEnd, SemStatEnd, CommandReturns, ShellPrompt
<1>2. CASE \/ PsBegin \/ PsRow \/ PsNext
           \/ SemStatBegin \/ SemStatSkip \/ SemStatRow \/ SemStatCount \/ SemStatOwner
  BY <1>2 DEF PsBegin, PsRow, PsNext, SemStatBegin, SemStatSkip, SemStatRow, SemStatCount,
              SemStatOwner, LoadField, ReportAt, lineVars
<1> QED
  BY <1>1, <1>2 DEF ShellCommand, OsDisplayTasksInfo, OsDisplaySemStat

LEMMA ShellCommandInv ==
  ASSUME ShellInv, ShellCommand
  PROVE  ShellInv'
<1>1. /\ Executing(Shell) /\ UNCHANGED vars /\ UNCHANGED envVars /\ UNCHANGED rxVars
      /\ UNCHANGED <<shellBufReadOffset, lastRead>>
      /\ shellPc # "read" /\ shellPc' # "read"
      /\ UNCHANGED <<cmdBuf, echoed>> \/ (cmdBuf' = << >> /\ echoed' = << >>)
  BY CommandSteps
<1>2. Control /\ Data /\ RxSemMade /\ ~ ShellWaits
  BY <1>1, ShellExecutes
<1>3. UNCHANGED <<boot, gic, typed, fifo, list, semCount>> /\ UNCHANGED tickVars
  BY <1>1 DEF envVars, bootVars, rxVars, vars, schedVars, semVars
<1>4. Calm /\ UNCHANGED <<list, semCount, semStat, unusedSem>>
  BY <1>1, <1>2, KernelKept
<1>5. BootSays'
  BY <1>2, <1>3, <1>4 DEF Control, BootSays, RxSemMade, Calm
<1>6. OnlyShellWaits'
  BY <1>2, <1>4 DEF Control, OnlyShellWaits, ShellWaits, Calm
<1>7. TokensMatchUnread'
  BY <1>1, <1>2, <1>3 DEF Data, TokensMatchUnread, RxSemMade, Stored, ShellWaits
<1>8. Line'
  <2>1. CASE UNCHANGED <<cmdBuf, echoed>>
    BY <1>2, <2>1, LineKept
  <2>2. CASE cmdBuf' = << >> /\ echoed' = << >>
    <3>1. Len(<< >>) = 0 /\ << >> \in Seq(Nat)
      BY EmptySeq
    <3> QED
      BY <2>2, <3>1, ShellNames DEF Line, EchoIsCommand, Size
  <2> QED
    BY <1>1, <2>1, <2>2
<1>9. ShellRest' /\ Ring'
  BY <1>1, <1>2, <1>3, BufferKept
<1> QED
  BY <1>2, <1>3, <1>4, <1>5, <1>6, <1>7, <1>8, <1>9, ClockKept
     DEF ShellInv, Control, Data, Calm

-----------------------------------------------------------------------------
(***************************************************************************)
(* The invariant, and what follows from it.                                 *)
(***************************************************************************)
LEMMA ShellInitInv == ASSUME ShellInit PROVE ShellInv
<1>1. IInv
  BY InitInv DEF ShellInit
<1>2. InUse = {} /\ ~ Active
  BY Names DEF ShellInit, Init, InUse, Active
<1>3. list[sem_uart_rx] = << >> /\ semOwner[sem_uart_rx] = NoTask /\ semCount[sem_uart_rx] = 0
  BY ShellNames, Names DEF ShellInit, Init
<1>4. ~ RxSemMade /\ ~ ShellWaits
  BY <1>3 DEF ShellInit, RxSemMade, ShellWaits, Range
<1>5. BootSays
  BY <1>2, <1>3, <1>4 DEF ShellInit, Init, BootSays
<1>6. OnlyShellWaits
  BY <1>2, <1>3, <1>4 DEF OnlyShellWaits
<1>7. Len(fifo) = 0 /\ Stored = 0 /\ fifo \in Seq(Chars)
  <2>1. fifo = << >> /\ typed = 0
    BY DEF ShellInit
  <2>2. fifo \in Seq(Chars)
    BY <2>1, Zenon, EmptySeq
  <2>3. Len(fifo) = 0
    BY <2>1, <2>2, EmptySeq
  <2>4. typed = 0
    BY <2>1
  <2> QED
    BY <2>2, <2>3, <2>4 DEF Stored
<1>8. ShellRest
  <2>1. NoChar \in Chars
    BY DEF NoChar, Chars
  <2>2. shellBuf \in [Slots -> Chars]
    BY <2>1 DEF ShellInit, Slots, Size
  <2>3. 0 \in Slots /\ 0 \in 0 .. MaxTyped
    BY ShellAssumption, ShellNames DEF Slots
  <2> QED
    BY <1>7, <2>2, <2>3 DEF ShellInit, ShellRest
<1>9. Clock
  <2>1. gic = [on |-> FALSE, enabled |-> {}] /\ ticks = 0 /\ due = FALSE /\ elapsed = 0
    BY DEF ShellInit
  <2>2. gic \in [on : BOOLEAN, enabled : SUBSET {TimerIrq, UartIrq}]
    BY <2>1
  <2>3. ticks \in Nat /\ elapsed \in 0 .. MaxPeriods /\ ticks <= elapsed
    BY <2>1, ShellAssumption
  <2>4. due \in BOOLEAN /\ ~ due
    BY <2>1
  <2> QED
    BY <2>2, <2>3, <2>4 DEF Clock
<1>10. Ring
  <2>1. /\ typed = 0 /\ lastRead = 0 /\ shellBufOffset = 0 /\ shellBufReadOffset = 0
    BY DEF ShellInit
  <2>2. Wrapped(0) = 0
    BY ShellNames DEF Wrapped
  <2>3. Stored - lastRead = 0 /\ typed - lastRead = 0
    BY <1>7, <2>1
  <2> QED
    BY <1>7, <2>1, <2>2, <2>3, ShellNames DEF Ring
<1>11. Line
  BY EmptySeq, ShellNames DEF ShellInit, Line, EchoIsCommand, Size
<1>12. TokensMatchUnread
  BY <1>4 DEF TokensMatchUnread, RxSemMade
<1> QED
  BY <1>1, <1>5, <1>6, <1>8, <1>9, <1>10, <1>11, <1>12 DEF ShellInv, Control, Data

LEMMA ShellStep ==
  ASSUME EarlyTyping = FALSE, OS_SEM_COUNT_MAX >= SHELL_SHOW_MAX_LEN,
         ShellInv, [ShellNext]_shellSysVars
  PROVE  ShellInv' /\ (UNCHANGED <<shellBufReadOffset, lastRead>> \/ lastRead' = lastRead + 1)
<1>1. CASE ShellRead
  BY <1>1, ShellReadInv
<1>2. CASE Boot
  <2>1. UNCHANGED <<shellBufReadOffset, lastRead>>
    BY <1>2 DEF Boot, OsHwiInit, CoreTimerInit, InitModules, EnableRx, CreateRxSem,
                ShellTaskInit, Activate, BootStep, shellVars, lineVars
  <2> QED
    BY <1>2, <2>1, QuietBootInv, CreateRxSemInv, ShellTaskInitInv DEF Boot
<1>3. CASE OsUartRxHandle
  BY <1>3, RxHandleInv DEF OsUartRxHandle, shellVars, lineVars
<1>4. CASE ShellPend
  BY <1>4, ShellPendInv DEF ShellPend, lineVars
<1>5. CASE ShellCommand
  BY <1>5, ShellCommandInv, CommandSteps
<1>6. CASE Interrupt \/ TimerExpires
  <2>1. UNCHANGED <<shellBufReadOffset, lastRead>>
    BY <1>6 DEF Interrupt, RxInterrupt, OsGicIntClear, OsTickDispatcher, TimerExpires,
                shellVars, lineVars
  <2> QED
    BY <1>6, <2>1, TickInv, HandlerInv DEF Interrupt
<1>7. ASSUME NEW kind \in Kinds, Type(kind) PROVE ShellInv' /\ UNCHANGED <<shellBufReadOffset, lastRead>>
  BY <1>7, TypeInv DEF Type, shellVars, lineVars
<1>8. CASE UNCHANGED shellSysVars
  <2>1. /\ UNCHANGED vars /\ UNCHANGED bootVars /\ UNCHANGED tickVars /\ UNCHANGED rxVars
        /\ UNCHANGED <<typed, shellPc, lastRead, shellBufReadOffset, cmdBuf, echoed>>
    BY <1>8 DEF shellSysVars, envVars, shellVars, lineVars
  <2>2. UNCHANGED <<boot, gic, fifo, list, semCount>>
    BY <2>1 DEF bootVars, rxVars, vars, schedVars, semVars
  <2>3. TokensMatchUnread'
    BY <2>1, <2>2, SameTokens DEF Stored
  <2> QED
    BY <2>1, <2>2, <2>3, SameControl, BufferKept, LineKept, ClockKept DEF ShellInv, Data
<1> QED
  BY <1>1, <1>2, <1>3, <1>4, <1>5, <1>6, <1>7, <1>8 DEF ShellNext, Code

LEMMA ShellInvHolds ==
  ASSUME EarlyTyping = FALSE, OS_SEM_COUNT_MAX >= SHELL_SHOW_MAX_LEN
  PROVE  ShellSpec => []ShellInv
<1>1. ShellInit => ShellInv
  BY ShellInitInv
<1>2. ShellInv /\ [ShellNext]_shellSysVars => ShellInv'
  BY ShellStep
<1> QED
  BY <1>1, <1>2, PTL DEF ShellSpec

\* The shell's and the handlers' variables keep their types; ticks never runs ahead of
\* the timer's periods, and both offsets stay inside shellBuf.
THEOREM ShellTypeCorrect ==
  ASSUME EarlyTyping = FALSE, OS_SEM_COUNT_MAX >= SHELL_SHOW_MAX_LEN
  PROVE  ShellSpec => []ShellTypeOK
<1>1. ASSUME ShellInv PROVE ShellTypeOK
  <2>1. /\ typed \in 0 .. MaxTyped /\ lastRead \in Nat /\ fifo \in Seq(Chars)
        /\ Stored - lastRead \in Nat /\ MaxTyped \in Nat
    BY <1>1, ShellAssumption DEF ShellInv, Data, ShellRest, Ring
  <2>2. lastRead \in 0 .. MaxTyped
    BY <2>1, LenProperties DEF Stored
  <2>3. ticks \in 0 .. elapsed /\ elapsed \in 0 .. MaxPeriods /\ due \in BOOLEAN
    BY <1>1, ShellAssumption DEF ShellInv, Data, Clock
  <2> QED
    BY <1>1, <2>1, <2>2, <2>3
       DEF ShellInv, Control, Data, ShellTypeOK, BootSays, ShellRest, Clock, Slots, Size
<1> QED
  BY <1>1, ShellInvHolds, PTL

\* sem_uart_rx counts the characters of shellBuf that were not read, across posts of
\* handlers suspended half-way, and between the shell's pend and its read.
THEOREM TokensCountUnread ==
  ASSUME EarlyTyping = FALSE, OS_SEM_COUNT_MAX >= SHELL_SHOW_MAX_LEN
  PROVE  ShellSpec => []TokensMatchUnread
<1>1. ShellInv => TokensMatchUnread
  BY DEF ShellInv, Data
<1> QED
  BY <1>1, ShellInvHolds, PTL

\* Whatever the sizes, shellBuf never loses, repeats or overwrites a character before
\* the shell has read it.
THEOREM CharactersReadInOrder ==
  ASSUME EarlyTyping = FALSE, OS_SEM_COUNT_MAX >= SHELL_SHOW_MAX_LEN
  PROVE  ShellSpec => ReadsInOrder
<1>1. ShellInv /\ [ShellNext]_shellSysVars
        => [ \/ UNCHANGED <<shellBufReadOffset, lastRead>>
             \/ lastRead' = lastRead + 1 ]_shellSysVars
  BY ShellStep
<1> QED
  BY <1>1, ShellInvHolds, PTL DEF ShellSpec, ReadsInOrder

\* The line on the screen is the command that will be dispatched, and cmdBuf keeps a
\* place for the end of the string.
THEOREM LineIsCommand ==
  ASSUME EarlyTyping = FALSE, OS_SEM_COUNT_MAX >= SHELL_SHOW_MAX_LEN
  PROVE  ShellSpec => []EchoIsCommand
<1>1. ShellInv => EchoIsCommand
  BY DEF ShellInv, Data, Line
<1> QED
  BY <1>1, ShellInvHolds, PTL

-----------------------------------------------------------------------------
(***************************************************************************)
(* The reports: what ps and semstat have printed is what the lists and the  *)
(* semaphores still say, at every row.                                      *)
(***************************************************************************)
Queue == list[RunQueue]
TaskRows == [pid : Tasks, priority : 0 .. OS_TSK_PRIORITY_LOWEST + 1]
SemRows == [sem : Sems, count : Nat, owner : Tasks \cup {NoTask}]

\* ps has printed the first tasks of the run queue.
QueuePrinted ==
  /\ shown \in Seq(TaskRows) /\ Len(shown) <= Len(Queue)
  /\ \A i \in 1 .. Len(shown) :
       shown[i] = [pid |-> Queue[i], priority |-> priority[Queue[i]]]

RowStands(row) == CountStands(row) /\ OwnerStands(row)

\* semstat has printed the semaphores in use below the cursor.
SemsPrinted ==
  /\ cursor \in 0 .. NumSems /\ shown \in Seq(SemRows)
  /\ {row.sem : row \in Range(shown)} = {s \in Sems : s < cursor /\ semStat[s] = "USED"}
  /\ \A row \in Range(shown) : RowStands(row)

\* The last row is the cursor's, and not complete: `rows' are those before it.
RowBegun ==
  /\ cursor \in Sems /\ semStat[cursor] = "USED"
  /\ \E rows \in Seq(SemRows), row \in SemRows :
       /\ shown = Append(rows, row) /\ row.sem = cursor
       /\ {r.sem : r \in Range(rows)} = {s \in Sems : s < cursor /\ semStat[s] = "USED"}
       /\ \A r \in Range(rows) : RowStands(r)
       /\ shellPc = "row_owner" => CountStands(row)
       /\ shellPc = "row_count" => OwnerStands(row)

Reports ==
  /\ boot # "done" => shellPc = "pend"
  /\ shellPc = "ps" =>
       /\ QueuePrinted
       /\ cursor = IF Len(shown) < Len(Queue) THEN Queue[Len(shown) + 1] ELSE NoTask
  /\ shellPc = "ps_next" => QueuePrinted /\ Len(shown) > 0 /\ cursor = Queue[Len(shown)]
  /\ shellPc = "semstat" => SemsPrinted
  /\ shellPc \in {"row", "row_count", "row_owner"} => RowBegun

\* A received character does not wake a shell that is not waiting, and so neither
\* rearranges a list nor changes a priority.
LEMMA RxKeeps ==
  ASSUME Control, RxSemMade, ~ ShellWaits, PRT_SemPost(sem_uart_rx)
  PROVE  /\ list' = list /\ priority' = priority /\ semStat' = semStat
         /\ semCount'[sem_uart_rx] \in Nat /\ semCount'[sem_uart_rx] >= semCount[sem_uart_rx]
         /\ \/ semOwner'[sem_uart_rx] = semOwner[sem_uart_rx]
            \/ semOwner'[sem_uart_rx] = NoTask /\ semCount'[sem_uart_rx] > 0
         /\ \A s \in Sems \ {sem_uart_rx} :
              semCount'[s] = semCount[s] /\ semOwner'[s] = semOwner[s]
<1> DEFINE r == sem_uart_rx
<1>1. /\ r \in Sems /\ semStat[r] = "USED" /\ IInv /\ OnlyShellWaits
      /\ semCount[r] \in Nat /\ list[r] = << >>
  BY ShellNames, WhoRuns, ShellIsWaiting DEF Control, BootSays, OnlyShellWaits
<1> HIDE DEF r
<1>2. CASE UNCHANGED vars
  BY <1>1, <1>2 DEF vars, schedVars, semVars, r
<1>3. CASE SemPostKeep(r)
  <2>1. /\ UNCHANGED semStat
        /\ semCount' = [semCount EXCEPT ![r] = @ + 1]
        /\ semOwner' = [semOwner EXCEPT ![r] = NoTask]
    BY <1>3 DEF SemPostKeep
  <2>2. priority' = priority /\ list' = list
    <3>1. \/ /\ semOwner[r] \in Tasks /\ status[semOwner[r]] # {}
             /\ priority[semOwner[r]] # originalPriority[semOwner[r]]
          \/ priority' = priority /\ list' = list
      BY <1>1, <1>3, SemPostKeepInv
    <3> QED
      BY <1>1, <3>1 DEF OnlyShellWaits, InUse
  <2>3. semCount'[r] = semCount[r] + 1 /\ semOwner'[r] = NoTask
    BY <1>1, <2>1 DEF IInv, RestType
  <2>4. \A s \in Sems \ {r} : semCount'[s] = semCount[s] /\ semOwner'[s] = semOwner[s]
    BY <2>1 DEF IInv, RestType
  <2> QED
    BY <1>1, <2>1, <2>2, <2>3, <2>4 DEF r
<1>4. UNCHANGED vars \/ SemPostKeep(r)
  <2>1. semStat[r] # "UNUSED" /\ ~ SemPostWake(r)
    BY <1>1 DEF SemPostWake, ListEmpty
  <2> QED
    BY <2>1 DEF PRT_SemPost, Fail, r
<1> QED
  BY <1>2, <1>3, <1>4

LEMMA RowsOf ==
  ASSUME NEW rows \in Seq(SemRows), NEW row \in Range(rows)
  PROVE  row \in SemRows
<1>1. PICK i \in DOMAIN rows : row = rows[i]
  BY DEF Range
<1>2. i \in 1 .. Len(rows)
  BY <1>1, LenProperties
<1> QED
  BY <1>1, <1>2, ElementOfSeq

\* What a post to the receive semaphore does is what a row may not show.
LEMMA RowsKept ==
  ASSUME NEW row \in SemRows, semOwner[sem_uart_rx] \in {NoTask, Shell},
         semCount[sem_uart_rx] \in Nat, semCount'[sem_uart_rx] \in Nat,
         semCount'[sem_uart_rx] >= semCount[sem_uart_rx],
         \/ semOwner'[sem_uart_rx] = semOwner[sem_uart_rx]
         \/ semOwner'[sem_uart_rx] = NoTask /\ semCount'[sem_uart_rx] > 0,
         \A s \in Sems \ {sem_uart_rx} :
           semCount'[s] = semCount[s] /\ semOwner'[s] = semOwner[s]
  PROVE  /\ CountStands(row) => CountStands(row)'
         /\ OwnerStands(row) => OwnerStands(row)'
<1>1. row.sem \in Sems /\ row.count \in Nat
  BY DEF SemRows
<1>2. CASE row.sem # sem_uart_rx
  BY <1>1, <1>2 DEF CountStands, OwnerStands
<1>3. CASE row.sem = sem_uart_rx
  <2>1. CountStands(row) => CountStands(row)'
    BY <1>1, <1>3 DEF CountStands
  <2>2. OwnerStands(row) => OwnerStands(row)'
    BY <1>3 DEF OwnerStands
  <2> QED
    BY <2>1, <2>2
<1> QED
  BY <1>2, <1>3

\* Steps of other code than the shell's.
LEMMA ReportsKept ==
  ASSUME ShellInv, Reports, UNCHANGED <<shellPc, reportVars>>,
         boot' = boot \/ shellPc = "pend",
         \/ UNCHANGED vars
         \/ shellPc = "pend" \/ shellPc = "read"
         \/ RxSemMade /\ PRT_SemPost(sem_uart_rx)
  PROVE  Reports'
<1>1. cursor' = cursor /\ shown' = shown /\ shellPc' = shellPc
  BY DEF reportVars
<1>2. boot' # "done" => shellPc' = "pend"
  BY <1>1 DEF Reports
<1>3. CASE shellPc \in {"pend", "read"}
  BY <1>1, <1>2, <1>3 DEF Reports
<1>4. CASE shellPc \notin {"pend", "read"}
  <2>1. Control /\ ~ ShellWaits
    BY <1>4 DEF ShellInv, Control, OnlyShellWaits
  <2>2. /\ list' = list /\ priority' = priority /\ semStat' = semStat
        /\ \A s \in Sems \ {sem_uart_rx} :
             semCount'[s] = semCount[s] /\ semOwner'[s] = semOwner[s]
        /\ semCount'[sem_uart_rx] \in Nat /\ semCount'[sem_uart_rx] >= semCount[sem_uart_rx]
        /\ \/ semOwner'[sem_uart_rx] = semOwner[sem_uart_rx]
           \/ semOwner'[sem_uart_rx] = NoTask /\ semCount'[sem_uart_rx] > 0
    <3>1. CASE UNCHANGED vars
      <4>1. semCount[sem_uart_rx] \in Nat
        BY <2>1, WhoRuns
      <4> QED
        BY <3>1, <4>1 DEF vars, schedVars, semVars
    <3> QED
      BY <1>4, <2>1, <3>1, RxKeeps
  <2>3. Queue' = Queue
    BY <2>2 DEF Queue
  <2>4. QueuePrinted => QueuePrinted'
    BY <1>1, <2>2, <2>3 DEF QueuePrinted
  <2>5. ASSUME NEW row \in SemRows
        PROVE  /\ CountStands(row) => CountStands(row)'
               /\ OwnerStands(row) => OwnerStands(row)'
    <3>1. semCount[sem_uart_rx] \in Nat
      BY <2>1, WhoRuns
    <3>2. semOwner[sem_uart_rx] \in {NoTask, Shell}
      BY <2>1 DEF Control, OnlyShellWaits
    <3> QED
      BY <2>2, <3>1, <3>2, RowsKept
  <2>6. \A row \in SemRows : RowStands(row) => RowStands(row)'
    BY <2>5 DEF RowStands
  <2>7. SemsPrinted => SemsPrinted'
    <3> SUFFICES ASSUME SemsPrinted PROVE SemsPrinted'
      OBVIOUS
    <3>1. shown \in Seq(SemRows)
      BY DEF SemsPrinted
    <3>2. \A row \in Range(shown) : row \in SemRows
      BY <3>1, RowsOf
    <3> QED
      BY <1>1, <2>2, <2>6, <3>2 DEF SemsPrinted
  <2>8. RowBegun => RowBegun'
    <3> SUFFICES ASSUME RowBegun PROVE RowBegun'
      OBVIOUS
    <3>1. PICK rows \in Seq(SemRows), row \in SemRows :
            /\ shown = Append(rows, row) /\ row.sem = cursor
            /\ {r.sem : r \in Range(rows)} = {s \in Sems : s < cursor /\ semStat[s] = "USED"}
            /\ \A r \in Range(rows) : RowStands(r)
            /\ shellPc = "row_owner" => CountStands(row)
            /\ shellPc = "row_count" => OwnerStands(row)
      BY DEF RowBegun
    <3>2. \A r \in Range(rows) : RowStands(r)'
      BY <2>6, <3>1, RowsOf
    <3>3. /\ shellPc' = "row_owner" => CountStands(row)'
          /\ shellPc' = "row_count" => OwnerStands(row)'
      BY <1>1, <2>5, <3>1
    <3>4. cursor' \in Sems /\ semStat'[cursor'] = "USED"
      BY <1>1, <2>2 DEF RowBegun
    <3> QED
      BY <1>1, <2>2, <3>1, <3>2, <3>3, <3>4 DEF RowBegun
  <2> QED
    BY <1>1, <1>2, <2>3, <2>4, <2>7, <2>8 DEF Reports
<1> QED
  BY <1>3, <1>4

LEMMA NothingPrinted ==
  ASSUME NEW S
  PROVE  << >> \in Seq(S) /\ Len(<< >>) = 0 /\ Range(<< >>) = {}
BY EmptySeq DEF Range

\* While the shell runs, the run queue is a list of distinct tasks, the shell is on
\* it, and no task on it is on another list.
LEMMA QueueSays ==
  ASSUME ShellInv, Executing(Shell)
  PROVE  /\ boot = "done"
         /\ Queue \in Seq(Tasks) /\ Queue # << >> /\ Len(Queue) \in Nat
         /\ DOMAIN Queue = 1 .. Len(Queue)
         /\ IsInjective(Queue)
         /\ \A h \in Heads : \A i \in DOMAIN list[h] :
              list[h][i] \in Range(Queue) => h = RunQueue
         /\ priority \in PrioType
<1>1. Control /\ boot = "done" /\ Active
  BY ShellExecutes, WhoRuns
<1>2. IInv
  BY <1>1 DEF Control
<1>3. list \in ListType /\ priority \in PrioType
  BY <1>2, Invariants
<1>4. Queue \in Seq(Tasks)
  BY <1>3, Names DEF Queue, ListType
<1>5. ListsWellFormed /\ RunningIsReady
  BY <1>2, Consequences
<1>6. Queue # << >>
  <2>1. running \in Range(Queue)
    BY <1>1, <1>5 DEF RunningIsReady, Queue
  <2> QED
    BY <1>4, <2>1, EmptyList DEF ListEmpty
<1>7. IsInjective(Queue)
  BY <1>5, Names DEF ListsWellFormed, Queue
<1>8. ASSUME NEW h \in Heads, NEW i \in DOMAIN list[h], list[h][i] \in Range(Queue),
             h # RunQueue
      PROVE  FALSE
  <2>1. Range(list[h]) \cap Range(Queue) = {}
    BY <1>5, <1>8, Names DEF ListsWellFormed, Queue
  <2>2. list[h][i] \in Range(list[h])
    BY DEF Range
  <2> QED
    BY <1>8, <2>1, <2>2
<1> QED
  BY <1>1, <1>3, <1>4, <1>6, <1>7, <1>8, LenProperties

\* The steps of ps.
LEMMA PsReports ==
  ASSUME ShellInv, Reports, OsDisplayTasksInfo
  PROVE  Reports'
<1>1. Executing(Shell)
  BY DEF OsDisplayTasksInfo, PsBegin, PsRow, PsNext, PsEnd, ReportAt, CommandReturns
<1>2. /\ boot = "done" /\ Queue \in Seq(Tasks) /\ Queue # << >> /\ Len(Queue) \in Nat
      /\ DOMAIN Queue = 1 .. Len(Queue) /\ IsInjective(Queue)
      /\ \A h \in Heads : \A i \in DOMAIN list[h] :
           list[h][i] \in Range(Queue) => h = RunQueue
      /\ priority \in PrioType
  BY <1>1, QueueSays
<1>3. /\ UNCHANGED <<boot, list, priority>> /\ Queue' = Queue
  <2>1. UNCHANGED <<boot, list, priority>>
    BY DEF OsDisplayTasksInfo, PsBegin, PsRow, PsNext, PsEnd, ReportAt, CommandReturns,
           envVars, bootVars, vars, schedVars
  <2> QED
    BY <2>1 DEF Queue
<1>4. CASE PsBegin
  <2>1. shellPc' = "ps" /\ cursor' = Head(Queue) /\ shown' = << >>
    BY <1>4 DEF PsBegin, ReportAt, Queue
  <2>2. Head(Queue) = Queue[1] /\ Len(Queue) > 0
    BY <1>2, HeadOfList, EmptySeq
  <2>3. shown' \in Seq(TaskRows) /\ Len(shown') = 0
    BY <2>1, NothingPrinted
  <2>4. QueuePrinted'
    BY <1>2, <1>3, <2>2, <2>3 DEF QueuePrinted
  <2>5. cursor' = Queue'[Len(shown') + 1] /\ Len(shown') < Len(Queue')
    BY <1>3, <2>1, <2>2, <2>3
  <2> QED
    BY <1>2, <1>3, <2>1, <2>4, <2>5 DEF Reports
<1>5. CASE PsRow
  <2> DEFINE row == [pid |-> cursor, priority |-> priority[cursor]]
             n == Len(shown)
  <2>1. /\ shellPc = "ps" /\ shellPc' = "ps_next" /\ cursor # NoTask
        /\ shown' = Append(shown, row) /\ cursor' = cursor
    BY <1>5 DEF PsRow, ReportAt
  <2>2. /\ shown \in Seq(TaskRows) /\ n <= Len(Queue) /\ n \in Nat
        /\ \A i \in 1 .. n : shown[i] = [pid |-> Queue[i], priority |-> priority[Queue[i]]]
        /\ cursor = IF n < Len(Queue) THEN Queue[n + 1] ELSE NoTask
    BY <2>1, LenProperties DEF Reports, QueuePrinted
  <2>3. n < Len(Queue) /\ cursor = Queue[n + 1]
    BY <2>1, <2>2
  <2>4. cursor \in Tasks
    BY <1>2, <2>2, <2>3, ElementOfSeq
  <2>5. row \in TaskRows
    BY <1>2, <2>4, Names DEF TaskRows, PrioType
  <2> HIDE DEF row
  <2>6. /\ shown' \in Seq(TaskRows) /\ Len(shown') = n + 1
        /\ \A i \in 1 .. n : shown'[i] = shown[i]
        /\ shown'[n + 1] = row
    BY <2>1, <2>2, <2>5, AppendProperties
  <2>7. row = [pid |-> Queue[n + 1], priority |-> priority[Queue[n + 1]]]
    BY <2>3 DEF row
  <2> HIDE DEF n
  <2>8. ASSUME NEW i \in 1 .. n + 1
        PROVE  shown'[i] = [pid |-> Queue[i], priority |-> priority[Queue[i]]]
    <3>1. i \in 1 .. n \/ i = n + 1
      BY <2>2
    <3> QED
      BY <2>2, <2>6, <2>7, <3>1
  <2>9. QueuePrinted'
    BY <1>2, <1>3, <2>2, <2>3, <2>6, <2>8 DEF QueuePrinted
  <2>10. Len(shown') > 0 /\ cursor' = Queue'[Len(shown')]
    BY <1>3, <2>1, <2>2, <2>3, <2>6
  <2> QED
    BY <1>2, <1>3, <2>1, <2>9, <2>10 DEF Reports
<1>6. CASE PsNext
  <2> DEFINE n == Len(shown)
  <2>1. shellPc = "ps_next" /\ shellPc' = "ps" /\ shown' = shown
    BY <1>6 DEF PsNext, ReportAt
  <2>2. QueuePrinted /\ n > 0 /\ cursor = Queue[n]
    BY <2>1 DEF Reports
  <2>3. n \in 1 .. Len(Queue)
    BY <1>2, <2>2, LenProperties DEF QueuePrinted
  <2>4. PICK h \in Heads : \E i \in DOMAIN list[h] :
          /\ list[h][i] = cursor
          /\ cursor' = IF i < Len(list[h]) THEN list[h][i + 1] ELSE NoTask
    BY <1>6 DEF PsNext
  <2>5. PICK i \in DOMAIN list[h] :
          /\ list[h][i] = cursor
          /\ cursor' = IF i < Len(list[h]) THEN list[h][i + 1] ELSE NoTask
    BY <2>4
  <2>6. cursor \in Range(Queue)
    BY <1>2, <2>2, <2>3 DEF Range
  <2>7. h = RunQueue /\ list[h] = Queue
    BY <1>2, <2>5, <2>6 DEF Queue
  <2>8. i = n
    BY <1>2, <2>2, <2>3, <2>5, <2>7 DEF IsInjective
  <2>9. cursor' = IF n < Len(Queue) THEN Queue[n + 1] ELSE NoTask
    BY <2>5, <2>7, <2>8
  <2>10. QueuePrinted'
    BY <1>3, <2>1, <2>2 DEF QueuePrinted
  <2> QED
    BY <1>2, <1>3, <2>1, <2>9, <2>10 DEF Reports
<1>7. CASE PsEnd
  <2>1. shellPc' = "pend"
    BY <1>7 DEF PsEnd, CommandReturns, ShellPrompt
  <2> QED
    BY <2>1 DEF Reports
<1> QED
  BY <1>4, <1>5, <1>6, <1>7 DEF OsDisplayTasksInfo

\* What the cursor's moving on by one adds to the semaphores below it.
LEMMA Passed ==
  ASSUME NEW c \in Sems
  PROVE  {s \in Sems : s < c + 1 /\ semStat[s] = "USED"}
           = {s \in Sems : s < c /\ semStat[s] = "USED"}
               \cup (IF semStat[c] = "USED" THEN {c} ELSE {})
<1>1. \A s \in Sems : s < c + 1 <=> s < c \/ s = c
  BY SizesAssumption DEF Sems
<1> QED
  BY <1>1

LEMMA LastChanged ==
  ASSUME NEW rows \in Seq(SemRows), NEW row \in SemRows, NEW other \in SemRows
  PROVE  LET all == Append(rows, row)
         IN  /\ all[Len(all)] = row
             /\ [all EXCEPT ![Len(all)] = other] = Append(rows, other)
<1> DEFINE all == Append(rows, row)
           changed == [all EXCEPT ![Len(all)] = other]
           n == Len(rows)
<1>1. /\ n \in Nat /\ Len(all) = n + 1 /\ all \in Seq(SemRows) /\ all[n + 1] = row
      /\ \A i \in 1 .. n : all[i] = rows[i]
  BY LenProperties, AppendProperties
<1>2. /\ Len(Append(rows, other)) = n + 1 /\ Append(rows, other) \in Seq(SemRows)
      /\ Append(rows, other)[n + 1] = other
      /\ \A i \in 1 .. n : Append(rows, other)[i] = rows[i]
  BY LenProperties, AppendProperties
<1> HIDE DEF all, n
<1>3. Len(all) \in 1 .. Len(all)
  BY <1>1
<1>4. /\ changed \in Seq(SemRows) /\ Len(changed) = Len(all)
      /\ \A j \in 1 .. Len(all) : changed[j] = IF j = Len(all) THEN other ELSE all[j]
  BY <1>1, <1>3, ExceptSeq
<1> HIDE DEF changed
<1>5. \A i \in 1 .. n + 1 : changed[i] = Append(rows, other)[i]
  BY <1>1, <1>2, <1>4
<1>6. changed = Append(rows, other)
  BY <1>1, <1>2, <1>4, <1>5, SeqEqual
<1> QED
  BY <1>1, <1>6 DEF all, changed

\* A complete row adds the cursor's semaphore to those printed.
LEMMA RowDone ==
  ASSUME NEW rows \in Seq(SemRows), NEW row \in SemRows,
         cursor \in Sems, semStat[cursor] = "USED", semStat' = semStat,
         shown' = Append(rows, row), row.sem = cursor, cursor' = cursor + 1,
         {r.sem : r \in Range(rows)} = {s \in Sems : s < cursor /\ semStat[s] = "USED"},
         \A r \in Range(rows) : RowStands(r), RowStands(row),
         \A r : RowStands(r)' <=> RowStands(r)
  PROVE  SemsPrinted'
<1>1. shown' \in Seq(SemRows) /\ Range(shown') = Range(rows) \cup {row}
  BY AppendProperties, RangeOfAppend
<1>2. {r.sem : r \in Range(shown')} = {r.sem : r \in Range(rows)} \cup {cursor}
  BY <1>1
<1>3. {s \in Sems : s < cursor' /\ semStat'[s] = "USED"}
        = {s \in Sems : s < cursor /\ semStat[s] = "USED"} \cup {cursor}
  BY Passed
<1>4. cursor' \in 0 .. NumSems
  BY SizesAssumption DEF Sems
<1>5. \A r \in Range(shown') : RowStands(r)'
  BY <1>1
<1> QED
  BY <1>1, <1>2, <1>3, <1>4, <1>5 DEF SemsPrinted

\* The steps of semstat.
LEMMA SemStatReports ==
  ASSUME ShellInv, Reports, OsDisplaySemStat
  PROVE  Reports'
<1>1. Executing(Shell)
  BY DEF OsDisplaySemStat, SemStatBegin, SemStatSkip, SemStatRow, SemStatCount, SemStatOwner,
         SemStatEnd, LoadField, ReportAt, CommandReturns
<1>2. /\ boot = "done"
      /\ semStat \in [Sems -> {"UNUSED", "USED"}] /\ semCount \in [Sems -> Nat]
      /\ semOwner \in [Sems -> Tasks \cup {NoTask}]
  BY <1>1, QueueSays, ShellExecutes DEF Control, IInv, RestType
<1>3. UNCHANGED <<boot, semStat, semCount, semOwner>>
  BY DEF OsDisplaySemStat, SemStatBegin, SemStatSkip, SemStatRow, SemStatCount, SemStatOwner,
         SemStatEnd, LoadField, ReportAt, CommandReturns, envVars, bootVars, vars, semVars
<1>4. \A r : /\ CountStands(r)' <=> CountStands(r)
             /\ OwnerStands(r)' <=> OwnerStands(r)
             /\ RowStands(r)' <=> RowStands(r)
  BY <1>3 DEF CountStands, OwnerStands, RowStands
<1>5. CASE SemStatBegin
  <2>1. shellPc' = "semstat" /\ cursor' = 0 /\ shown' = << >>
    BY <1>5 DEF SemStatBegin, ReportAt
  <2>2. shown' \in Seq(SemRows) /\ Range(shown') = {}
    BY <2>1, NothingPrinted
  <2>3. {s \in Sems : s < 0} = {}
    BY DEF Sems
  <2>4. SemsPrinted'
    BY <2>1, <2>2, <2>3, SizesAssumption DEF SemsPrinted
  <2> QED
    BY <1>2, <1>3, <2>1, <2>4 DEF Reports
<1>6. CASE SemStatSkip
  <2>1. /\ shellPc = "semstat" /\ shellPc' = "semstat" /\ cursor \in Sems
        /\ semStat[cursor] = "UNUSED" /\ cursor' = cursor + 1 /\ shown' = shown
    BY <1>6 DEF SemStatSkip, ReportAt
  <2>2. SemsPrinted
    BY <2>1 DEF Reports
  <2>3. {s \in Sems : s < cursor' /\ semStat'[s] = "USED"}
          = {s \in Sems : s < cursor /\ semStat[s] = "USED"}
    BY <1>3, <2>1, Passed
  <2>4. cursor' \in 0 .. NumSems
    BY <2>1, SizesAssumption DEF Sems
  <2>5. SemsPrinted'
    BY <1>4, <2>1, <2>2, <2>3, <2>4 DEF SemsPrinted
  <2> QED
    BY <1>2, <1>3, <2>1, <2>5 DEF Reports
<1>7. CASE SemStatRow
  <2>1. PICK row : row = [sem |-> cursor, count |-> 0, owner |-> NoTask]
    OBVIOUS
  <2>2. /\ shellPc = "semstat" /\ shellPc' = "row" /\ cursor \in Sems
        /\ semStat[cursor] = "USED" /\ cursor' = cursor /\ shown' = Append(shown, row)
    BY <1>7, <2>1 DEF SemStatRow, ReportAt
  <2>3. row \in SemRows /\ row.sem = cursor
    BY <2>1, <2>2 DEF SemRows
  <2>4. SemsPrinted
    BY <2>2 DEF Reports
  <2>5. RowBegun'
    BY <1>3, <1>4, <2>2, <2>3, <2>4 DEF SemsPrinted, RowBegun
  <2> QED
    BY <1>2, <1>3, <2>2, <2>5 DEF Reports
<1>8. CASE SemStatCount
  <2>1. PICK new : new = semCount[cursor]
    OBVIOUS
  <2>2. /\ shown' = [shown EXCEPT ![Len(shown)].count = new]
        /\ \/ shellPc = "row" /\ shellPc' = "row_owner" /\ cursor' = cursor
           \/ shellPc = "row_count" /\ shellPc' = "semstat" /\ cursor' = cursor + 1
    BY <1>8, <2>1 DEF SemStatCount, LoadField, ReportAt
  <2>3. RowBegun
    BY <2>2 DEF Reports
  <2>4. PICK rows \in Seq(SemRows), row \in SemRows :
          /\ shown = Append(rows, row) /\ row.sem = cursor
          /\ {r.sem : r \in Range(rows)} = {s \in Sems : s < cursor /\ semStat[s] = "USED"}
          /\ \A r \in Range(rows) : RowStands(r)
          /\ shellPc = "row_count" => OwnerStands(row)
    BY <2>3 DEF RowBegun
  <2>5. PICK next : next = [row EXCEPT !.count = new]
    OBVIOUS
  <2>6. cursor \in Sems /\ semStat[cursor] = "USED" /\ new \in Nat
    BY <1>2, <2>1, <2>3 DEF RowBegun
  <2>7. next \in SemRows /\ next.sem = cursor /\ next.owner = row.owner /\ next.count = new
    BY <2>4, <2>5, <2>6 DEF SemRows
  <2>8. shown' = Append(rows, next)
    <3>1. /\ shown[Len(shown)] = row
          /\ [shown EXCEPT ![Len(shown)] = next] = Append(rows, next)
      BY <2>4, <2>7, LastChanged
    <3> QED
      BY <2>2, <2>5, <3>1
  <2>9. CountStands(next)
    BY <2>1, <2>6, <2>7 DEF CountStands
  <2>10. OwnerStands(row) => OwnerStands(next)
    BY <2>4, <2>7 DEF OwnerStands
  <2>11. CASE shellPc = "row"
    <3>1. shellPc' = "row_owner" /\ cursor' = cursor
      BY <2>2, <2>11
    <3>2. RowBegun'
      BY <1>3, <1>4, <2>4, <2>6, <2>7, <2>8, <2>9, <3>1 DEF RowBegun
    <3> QED
      BY <1>2, <1>3, <3>1, <3>2 DEF Reports
  <2>12. CASE shellPc = "row_count"
    <3>1. shellPc' = "semstat" /\ cursor' = cursor + 1
      BY <2>2, <2>12
    <3>2. RowStands(next)
      BY <2>4, <2>9, <2>10, <2>12 DEF RowStands
    <3>3. SemsPrinted'
      BY <1>3, <1>4, <2>4, <2>6, <2>7, <2>8, <3>1, <3>2, RowDone
    <3> QED
      BY <1>2, <1>3, <3>1, <3>3 DEF Reports
  <2> QED
    BY <2>2, <2>11, <2>12
<1>9. CASE SemStatOwner
  <2>1. PICK new : new = semOwner[cursor]
    OBVIOUS
  <2>2. /\ shown' = [shown EXCEPT ![Len(shown)].owner = new]
        /\ \/ shellPc = "row" /\ shellPc' = "row_count" /\ cursor' = cursor
           \/ shellPc = "row_owner" /\ shellPc' = "semstat" /\ cursor' = cursor + 1
    BY <1>9, <2>1 DEF SemStatOwner, LoadField, ReportAt
  <2>3. RowBegun
    BY <2>2 DEF Reports
  <2>4. PICK rows \in Seq(SemRows), row \in SemRows :
          /\ shown = Append(rows, row) /\ row.sem = cursor
          /\ {r.sem : r \in Range(rows)} = {s \in Sems : s < cursor /\ semStat[s] = "USED"}
          /\ \A r \in Range(rows) : RowStands(r)
          /\ shellPc = "row_owner" => CountStands(row)
    BY <2>3 DEF RowBegun
  <2>5. PICK next : next = [row EXCEPT !.owner = new]
    OBVIOUS
  <2>6. cursor \in Sems /\ semStat[cursor] = "USED" /\ new \in Tasks \cup {NoTask}
    BY <1>2, <2>1, <2>3 DEF RowBegun
  <2>7. next \in SemRows /\ next.sem = cursor /\ next.owner = new /\ next.count = row.count
    BY <2>4, <2>5, <2>6 DEF SemRows
  <2>8. shown' = Append(rows, next)
    <3>1. /\ shown[Len(shown)] = row
          /\ [shown EXCEPT ![Len(shown)] = next] = Append(rows, next)
      BY <2>4, <2>7, LastChanged
    <3> QED
      BY <2>2, <2>5, <3>1
  <2>9. OwnerStands(next)
    BY <2>1, <2>7 DEF OwnerStands
  <2>10. CountStands(row) => CountStands(next)
    BY <2>4, <2>7 DEF CountStands
  <2>11. CASE shellPc = "row"
    <3>1. shellPc' = "row_count" /\ cursor' = cursor
      BY <2>2, <2>11
    <3>2. RowBegun'
      BY <1>3, <1>4, <2>4, <2>6, <2>7, <2>8, <2>9, <3>1 DEF RowBegun
    <3> QED
      BY <1>2, <1>3, <3>1, <3>2 DEF Reports
  <2>12. CASE shellPc = "row_owner"
    <3>1. shellPc' = "semstat" /\ cursor' = cursor + 1
      BY <2>2, <2>12
    <3>2. RowStands(next)
      BY <2>4, <2>9, <2>10, <2>12 DEF RowStands
    <3>3. SemsPrinted'
      BY <1>3, <1>4, <2>4, <2>6, <2>7, <2>8, <3>1, <3>2, RowDone
    <3> QED
      BY <1>2, <1>3, <3>1, <3>3 DEF Reports
  <2> QED
    BY <2>2, <2>11, <2>12
<1>10. CASE SemStatEnd
  <2>1. shellPc' = "pend"
    BY <1>10 DEF SemStatEnd, CommandReturns, ShellPrompt
  <2> QED
    BY <2>1 DEF Reports
<1> QED
  BY <1>5, <1>6, <1>7, <1>8, <1>9, <1>10 DEF OsDisplaySemStat

LEMMA ReportsStep ==
  ASSUME ShellInv, Reports, [ShellNext]_shellSysVars
  PROVE  Reports'
<1>1. CASE Boot
  <2>1. /\ boot # "done" /\ shellPc = "pend"
        /\ UNCHANGED <<shellPc, reportVars>>
    BY <1>1 DEF Boot, OsHwiInit, CoreTimerInit, InitModules, EnableRx, CreateRxSem,
                ShellTaskInit, Activate, BootStep, shellVars, Reports
  <2> QED
    BY <2>1, ReportsKept
<1>2. CASE OsUartRxHandle
  <2>1. /\ UNCHANGED <<shellPc, reportVars>> /\ boot' = boot
        /\ PRT_SemPost(sem_uart_rx)
    BY <1>2 DEF OsUartRxHandle, shellVars, envVars, bootVars
  <2>2. RxSemMade \/ shellPc = "pend"
    BY DEF Reports, RxSemMade
  <2> QED
    BY <2>1, <2>2, ReportsKept
<1>3. CASE ShellPend \/ ShellRead
  <2>1. /\ Executing(Shell) /\ shellPc' \in {"read", "dispatch", "pend"} /\ boot' = boot
    BY <1>3 DEF ShellPend, ShellRead, envVars, bootVars
  <2>2. boot = "done"
    BY <2>1, QueueSays
  <2> QED
    BY <2>1, <2>2 DEF Reports
<1>4. CASE ShellDispatchCmd
  <2>1. shellPc' = "pend"
    BY <1>4 DEF ShellDispatchCmd, CommandReturns, ShellPrompt
  <2> QED
    BY <2>1 DEF Reports
<1>5. CASE OsDisplayTasksInfo \/ OsDisplaySemStat
  BY <1>5, PsReports, SemStatReports
<1>6. CASE Interrupt \/ TimerExpires \/ (\E kind \in Kinds : Type(kind))
  <2>1. UNCHANGED vars /\ UNCHANGED <<shellPc, reportVars>> /\ boot' = boot
    BY <1>6 DEF Interrupt, RxInterrupt, OsGicIntClear, OsTickDispatcher, TimerExpires, Type,
                shellVars, envVars, bootVars
  <2> QED
    BY <2>1, ReportsKept
<1>7. CASE UNCHANGED shellSysVars
  <2>1. UNCHANGED vars /\ UNCHANGED <<shellPc, reportVars>> /\ boot' = boot
    BY <1>7 DEF shellSysVars, shellVars, envVars, bootVars
  <2> QED
    BY <2>1, ReportsKept
<1> QED
  BY <1>1, <1>2, <1>3, <1>4, <1>5, <1>6, <1>7 DEF ShellNext, Code, ShellCommand

LEMMA ReportsSay ==
  ASSUME ShellInv, Reports
  PROVE  ReportsStand
<1>1. ASSUME shellPc = "ps", cursor = NoTask
      PROVE  shown = [i \in DOMAIN list[RunQueue] |->
                        [pid |-> list[RunQueue][i], priority |-> priority[list[RunQueue][i]]]]
  <2>1. /\ shown \in Seq(TaskRows) /\ Len(shown) <= Len(Queue)
        /\ \A i \in 1 .. Len(shown) :
             shown[i] = [pid |-> Queue[i], priority |-> priority[Queue[i]]]
        /\ cursor = IF Len(shown) < Len(Queue) THEN Queue[Len(shown) + 1] ELSE NoTask
    BY <1>1 DEF Reports, QueuePrinted
  <2>2. Queue \in Seq(Tasks)
    BY Invariants, Names DEF ShellInv, Control, Queue, ListType
  <2>3. Len(shown) \in Nat /\ Len(Queue) \in Nat /\ DOMAIN Queue = 1 .. Len(Queue)
    BY <2>1, <2>2, LenProperties
  <2>4. Len(shown) = Len(Queue)
    <3> SUFFICES ASSUME Len(shown) < Len(Queue) PROVE FALSE
      BY <2>1, <2>3
    <3>1. cursor = Queue[Len(shown) + 1]
      BY <2>1
    <3>2. Queue[Len(shown) + 1] \in Tasks
      BY <2>2, <2>3, ElementOfSeq
    <3> QED
      BY <1>1, <3>1, <3>2, Names
  <2>5. shown = [i \in 1 .. Len(shown) |-> shown[i]]
    BY <2>1, LenProperties
  <2>6. shown = [i \in DOMAIN Queue |->
                   [pid |-> Queue[i], priority |-> priority[Queue[i]]]]
    BY <2>1, <2>3, <2>4, <2>5
  <2> QED
    BY <2>6 DEF Queue
<1>2. ASSUME shellPc = "semstat", cursor = NumSems
      PROVE  /\ {row.sem : row \in Range(shown)} = {s \in Sems : semStat[s] = "USED"}
             /\ \A row \in Range(shown) : CountStands(row) /\ OwnerStands(row)
  <2>1. SemsPrinted
    BY <1>2 DEF Reports
  <2>2. \A s \in Sems : s < NumSems
    BY SizesAssumption DEF Sems
  <2>3. {row.sem : row \in Range(shown)} = {s \in Sems : semStat[s] = "USED"}
    BY <1>2, <2>1, <2>2 DEF SemsPrinted
  <2>4. \A row \in Range(shown) : RowStands(row)
    BY <2>1 DEF SemsPrinted
  <2> QED
    BY <2>3, <2>4 DEF RowStands
<1> QED
  BY <1>1, <1>2 DEF ReportsStand

\* What ps and semstat print, load by load with interrupts enabled, stands when the report
\* ends: the handlers that run in between neither rearrange the list ps walks nor change
\* another semaphore than sem_uart_rx.  Its row may be torn by a character received between
\* two loads, but neither field is ever wrong by more than the characters received since.
THEOREM ReportedStands ==
  ASSUME EarlyTyping = FALSE, OS_SEM_COUNT_MAX >= SHELL_SHOW_MAX_LEN
  PROVE  ShellSpec => []ReportsStand
<1>1. ShellInit => Reports
  BY DEF ShellInit, Reports
<1>2. ShellInv /\ Reports /\ [ShellNext]_shellSysVars => Reports'
  BY ReportsStep
<1>3. ShellInv /\ Reports => ReportsStand
  BY ReportsSay
<1>4. ShellSpec => []Reports
  BY <1>1, <1>2, ShellInvHolds, PTL DEF ShellSpec
<1> QED
  BY <1>3, <1>4, ShellInvHolds, PTL

=============================================================================
