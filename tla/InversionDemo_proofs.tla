------------------------ MODULE InversionDemo_proofs ------------------------
(***************************************************************************)
(* The invariant of the priority-inversion demo and the theorems that       *)
(* follow from it: one task at a time uses the resource, while High waits   *)
(* for it only its holder runs, what was lent is given back, and the wait   *)
(* High prints is the time it waited.                                       *)
(*                                                                          *)
(* Two facts carry them.  Whatever runs is the highest ready task (Tops),   *)
(* since every path on which the highest task changes schedules; and a task *)
(* runs at its own priority but for Low, at High's while High waits (Ranks).*)
(***************************************************************************)
EXTENDS InversionDemo, Kernel_proofs

RxSemMade == boot \notin {"hwi", "timer", "modules", "uart", "sem"}

HighLabels == {"before", "take", "after", "give", "exited"}
MidLabels == {"run", "exited"}
LowLabels == {"take", "create_high", "resume_high", "create_mid", "resume_mid", "give",
              "again", "return", "exited"}
TaskLabels == {"none"} \cup HighLabels \cup MidLabels \cup LowLabels

\* From the return of the pend to the post.
HeldLabels == {"after", "create_high", "resume_high", "create_mid", "resume_mid", "give"}

Live(t) == role[t] # "none" /\ pc[t] # "exited"
Made == shellPc = "create_low" \/ DemoAlive
Waiting(t) == State(t) = WaitingTask
Inside(t) == pc[t] \in HeldLabels /\ ~ Waiting(t)

\* High waits, and the holder is lent its priority.
HighWaits == \E h \in Tasks : role[h] = "high" /\ Waiting(h)
Rank(t) == IF role[t] = "low" /\ HighWaits /\ semOwner[sharedResource] = t
           THEN Prio["high"] ELSE Prio[role[t]]

Tops == Active => running = highest

\* How far main is.
BootSays ==
  /\ boot \in {"hwi", "timer", "modules", "uart", "sem", "create", "resume", "activate", "done"}
  /\ Active <=> boot = "done"
  /\ boot # "done" => shellPc = "pend" /\ \A t \in Tasks : role[t] = "none"
  /\ RxSemMade => semStat[sem_uart_rx] = "USED"
  /\ ~ RxSemMade => unusedSem = [i \in 1 .. NumSems |-> i - 1]
  /\ semOwner[sem_uart_rx] \in {NoTask, Shell}

\* Which tasks the demo has, and where they are.
Roles ==
  /\ sharedResource \in Sems
  /\ role \in [Tasks -> {"none", "high", "mid", "low"}]
  /\ pc \in [Tasks -> TaskLabels]
  /\ uses \in [Tasks -> Sems \cup {NoSem}]
  /\ role[Shell] = "none"
  /\ \A t \in Tasks :
       /\ role[t] = "none" <=> pc[t] = "none"
       /\ role[t] = "high" => pc[t] \in HighLabels
       /\ role[t] = "mid" => pc[t] \in MidLabels
       /\ role[t] = "low" => pc[t] \in LowLabels
       /\ role[t] # "none" =>
            /\ State(Shell) # FreeTask /\ State(t) # FreeTask
            /\ pc[t] = "exited" <=> State(t) = ExitedTask
            /\ State(t) = SuspendedTask =>
                 pc[t] \in (IF role[t] = "low" THEN {"take"} ELSE {"before", "run"})

\* One demo at a time, and its tasks one after the other.
Order ==
  /\ DemoAlive => shellPc \notin {"create_sem", "create_low"}
  /\ \A t, u \in Tasks : Live(t) /\ Live(u) /\ role[t] = role[u] /\ role[t] # "mid" => t = u
  /\ \A l, h \in Tasks : Live(h) /\ role[h] = "high" =>
       ~ (role[l] = "low" /\ pc[l] \in {"take", "create_high"})

\* Who waits waits for the semaphore its place in the program says.
Waiters ==
  \A t \in Tasks : Waiting(t) =>
    IF t = Shell THEN taskSem[t] = sem_uart_rx
    ELSE role[t] = "high" /\ pc[t] = "after" /\ taskSem[t] = sharedResource

\* The resource is free, or it is held by its owner and nobody else; or Low
\* returned with it, and nobody is left who would want it.
Mutex ==
  Made =>
    /\ sharedResource # sem_uart_rx /\ semStat[sharedResource] = "USED"
    /\ \A t \in Tasks : pc[t] \in HeldLabels => uses[t] = sharedResource
    /\ \/ semCount[sharedResource] = 1 /\ \A t \in Tasks : ~ Inside(t)
       \/ /\ semCount[sharedResource] = 0
          /\ semOwner[sharedResource] \in Tasks
          /\ \A t \in Tasks : Inside(t) <=> t = semOwner[sharedResource]
       \/ /\ semCount[sharedResource] = 0 /\ shellPc # "create_low"
          /\ \A t \in Tasks : /\ ~ Inside(t)
                              /\ Live(t) /\ role[t] = "low" => pc[t] = "return"
                              /\ Live(t) => role[t] # "high"

\* The priorities: every task of the system has its own, but for Low.
Ranks ==
  \A t \in Tasks : State(t) # FreeTask =>
    IF role[t] = "none"
    THEN priority[t] = originalPriority[t] /\ priority[t] >= ShellPrio
    ELSE priority[t] = Rank(t) /\ originalPriority[t] = Prio[role[t]]

Control == IInv /\ Tops /\ BootSays /\ Roles /\ Order /\ Waiters /\ Mutex /\ Ranks

\* A handler that has not ended stopped a task that is still ready.  When another
\* task runs meanwhile and the one below belongs to the demo, High is not there
\* or done.
Handlers ==
  /\ handler \in (IF boot = "done" THEN Tasks ELSE {Zombie}) \cup {NoTask}
  /\ handler \in Tasks => State(handler) = ReadyTask
  /\ handler \in Tasks /\ handler # running /\ role[handler] # "none" =>
       \A h \in Tasks : role[h] = "high" => State(h) \in {SuspendedTask, ExitedTask}

\* From the tick High notes to the one it prints.
D == IF due THEN 1 ELSE 0
Measured(t) ==
  IF before[t].blind
  THEN /\ handler \in Tasks /\ handler # running /\ role[handler] = "none"
       /\ ticks = before[t].ticks
  ELSE /\ handler \in {NoTask, running}
       /\ (ticks + D - before[t].ticks) - (elapsed - before[t].periods) \in {0, 1}

Times ==
  /\ ticks \in Nat /\ elapsed \in Nat
  /\ before \in [Tasks -> [ticks : Nat, periods : Nat, blind : BOOLEAN]]
  /\ waited \in [Tasks -> [ticks : Int, periods : Int, blind : BOOLEAN]]
  /\ \A t \in Tasks : role[t] = "high" /\ pc[t] \in {"take", "after"} => Measured(t)
  /\ WaitMeasured

DemoInv == Control /\ Handlers /\ Times

-----------------------------------------------------------------------------
LEMMA DemoNames ==
  /\ sem_uart_rx \in Sems /\ Shell \in Tasks
  /\ ShellPrio = 9 /\ OS_TSK_PRIORITY_LOWEST = 63
  /\ OS_SEM_COUNT_MAX \in Nat
  /\ Prio["high"] = 5 /\ Prio["mid"] = 10 /\ Prio["low"] = 15
BY ShellAssumption, SizesAssumption, CountsAssumption
   DEF sem_uart_rx, Sems, Shell, Tasks, ShellPrio, OS_TSK_PRIORITY_LOWEST, Prio

\* A task is in one state.
LEMMA StatesDiffer ==
  /\ FreeTask \notin {SuspendedTask, ReadyTask, WaitingTask, ExitedTask}
  /\ SuspendedTask \notin {ReadyTask, WaitingTask, ExitedTask}
  /\ ReadyTask \notin {WaitingTask, ExitedTask}
  /\ WaitingTask # ExitedTask
BY DEF FreeTask, SuspendedTask, ReadyTask, WaitingTask, ExitedTask

LEMMA SemTypes ==
  ASSUME IInv
  PROVE  /\ semCount \in [Sems -> Nat] /\ semOwner \in [Sems -> Tasks \cup {NoTask}]
         /\ taskSem \in [TCBs -> Sems \cup {NoSem}]
         /\ semStat \in [Sems -> {"UNUSED", "USED"}]
         /\ \A t \in Tasks : priority[t] \in Int /\ originalPriority[t] \in Int
BY Invariants, Names DEF IInv, RestType, PrioType

\* Who is on a wait queue.
LEMMA OnQueue ==
  ASSUME IInv, NEW s \in Sems
  PROVE  /\ \A u \in Tasks : u \in Range(list[s]) <=> Waiting(u) /\ taskSem[u] = s
         /\ list[s] \in Seq(Tasks)
         /\ list[s] = << >> <=> \A u \in Tasks : ~ (Waiting(u) /\ taskSem[u] = s)
<1>1. list[s] \in Seq(Tasks)
  BY Invariants, Names DEF ListType
<1>2. \A u \in Tasks : u \in Range(list[s]) <=> Waiting(u) /\ taskSem[u] = s
  BY OnWaitQueue, Invariants, States DEF Waiting
<1>3. list[s] = << >> <=> Range(list[s]) = {}
  BY <1>1, EmptyList DEF ListEmpty
<1>4. \A u \in Range(list[s]) : u \in Tasks
  BY <1>1 DEF Range
<1> QED
  BY <1>1, <1>2, <1>3, <1>4

\* Whoever runs once the kernel has started is ready.
LEMMA RunnerReady ==
  ASSUME IInv, NEW t \in Tasks, running = t
  PROVE  Active /\ State(t) = ReadyTask
BY Names, States DEF IInv, BootOrRun

-----------------------------------------------------------------------------
(***************************************************************************)
(* What the calls do to the tasks' states, priorities and semaphores.       *)
(***************************************************************************)
SameStates(T) == \A u \in T : State(u)' = State(u)
SamePriorities == \A u \in Tasks : /\ priority'[u] = priority[u]
                                  /\ originalPriority'[u] = originalPriority[u]
NobodyWaits(s) == \A u \in Tasks : ~ (Waiting(u) /\ taskSem[u] = s)
OnlyWaiter(h, s) == \A u \in Tasks : Waiting(u) /\ taskSem[u] = s => u = h

\* What every call of a running system leaves alone.
Calm == /\ IInv' /\ Tops' /\ (Active' <=> Active)
        /\ semStat' = semStat /\ unusedSem' = unusedSem
        /\ \A u \in Tasks : State(u)' = FreeTask <=> State(u) = FreeTask

\* The kernel is left as it was.
Idles == /\ SameStates(Tasks) /\ SamePriorities /\ running' = running
         /\ taskSem' = taskSem /\ semCount' = semCount /\ semOwner' = semOwner

Takes(t, s) == /\ semCount[s] > 0
               /\ semCount' = [semCount EXCEPT ![s] = @ - 1]
               /\ semOwner' = [semOwner EXCEPT ![s] = t]
               /\ SameStates(Tasks) /\ SamePriorities /\ taskSem' = taskSem

Blocks(t, s) == /\ semCount[s] = 0 /\ semCount' = semCount /\ semOwner' = semOwner
                /\ State(t)' = WaitingTask /\ SameStates(Tasks \ {t})
                /\ taskSem' = [taskSem EXCEPT ![t] = s]
                /\ originalPriority' = originalPriority
                /\ NobodyWaits(s) => \A u \in Tasks :
                     priority'[u] = IF /\ u = semOwner[s] /\ State(u) # FreeTask
                                       /\ priority[t] < priority[u]
                                    THEN priority[t] ELSE priority[u]

Keeps(s) == /\ NobodyWaits(s)
            /\ semCount' = [semCount EXCEPT ![s] = @ + 1]
            /\ semOwner' = [semOwner EXCEPT ![s] = NoTask]
            /\ SameStates(Tasks) /\ SamePriorities /\ taskSem' = taskSem
            /\ running' = running

Wakes(h, s) == /\ Waiting(h) /\ taskSem[h] = s /\ semCount' = semCount
               /\ semOwner' = [semOwner EXCEPT ![s] = h]
               /\ State(h)' = ReadyTask /\ SameStates(Tasks \ {h})
               /\ taskSem' = [taskSem EXCEPT ![h] = NoSem]
               /\ originalPriority' = originalPriority
               /\ \A u \in Tasks : u # semOwner[s] => priority'[u] = priority[u]
               /\ \A u \in Tasks : u = semOwner[s] /\ State(u) # FreeTask =>
                    \/ priority'[u] = originalPriority[u]
                    \/ /\ ~ OnlyWaiter(h, s) \/ priority[h] < priority[u]
                       /\ priority[u] # originalPriority[u]

LEMMA KernelKept ==
  ASSUME IInv, Tops, UNCHANGED vars
  PROVE  Calm /\ Idles
<1>1. UNCHANGED <<status, priority, originalPriority, uniFlag, taskSem, semStat, semCount,
                  semOwner, unusedSem, running, highest>>
  BY DEF vars, schedVars, semVars, tskVars
<1> QED
  BY <1>1, StutterInv DEF Calm, Idles, SameStates, SamePriorities, State, Active, Tops

\* A task that changes its state, and neither is nor becomes free.
LEMMA GoesOn ==
  ASSUME NEW t \in Tasks, NEW from, NEW to, Goes(t, from, to), from # FreeTask, to # FreeTask
  PROVE  /\ \A u \in Tasks : State(u)' = FreeTask <=> State(u) = FreeTask
         /\ SameStates(Tasks \ {t}) /\ State(t)' = to /\ State(t) = from
BY DEF Goes, SameStates

LEMMA PendEffect ==
  ASSUME IInv, Tops, NEW t \in Tasks, running = t, NEW s \in Sems, semStat[s] = "USED",
         PRT_SemPend(s, "FOREVER")
  PROVE  Calm /\ (Takes(t, s) \/ Blocks(t, s))
<1>1. TaskRuns /\ (SemPendTake(s) \/ SemPendBlock(s, "FOREVER"))
  BY DEF PRT_SemPend
<1>2. CASE SemPendTake(s)
  <2>1. /\ UNCHANGED <<status, priority, originalPriority, uniFlag, taskSem, semStat, unusedSem,
                       running, highest>>
        /\ semCount[s] > 0 /\ semCount' = [semCount EXCEPT ![s] = @ - 1]
        /\ semOwner' = [semOwner EXCEPT ![s] = t]
    BY <1>2 DEF SemPendTake, schedVars, tskVars
  <2>2. IInv'
    BY <1>1, <1>2, SemPendTakeInv
  <2> QED
    BY <2>1, <2>2 DEF Calm, Takes, SameStates, SamePriorities, State, Active, Tops
<1>3. CASE SemPendBlock(s, "FOREVER")
  <2>1. /\ semCount[s] = 0 /\ taskSem' = [taskSem EXCEPT ![t] = s]
        /\ UNCHANGED <<semStat, unusedSem, semCount, semOwner, originalPriority>>
    BY <1>3 DEF SemPendBlock, semVars
  <2>2. /\ IInv' /\ Goes(t, ReadyTask, WaitingTask) /\ Active /\ Active'
        /\ running' = highest' /\ list'[s] = Append(list[s], t)
        /\ \A u \in Tasks : priority'[u] <= priority[u]
        /\ \A u \in Tasks : u # semOwner[s] \/ ~ HasOwner(Sched, s) =>
                            priority'[u] = priority[u]
        /\ HasOwner(Sched, s) =>
             /\ \A w \in Range(list'[s]) : priority'[semOwner[s]] <= priority[w]
             /\ \/ priority'[semOwner[s]] = priority[semOwner[s]]
                \/ \E w \in Range(list'[s]) : priority'[semOwner[s]] = priority[w]
    BY <1>1, <1>3, SemPendBlockInv
  <2>3. /\ \A u \in Tasks : State(u)' = FreeTask <=> State(u) = FreeTask
        /\ SameStates(Tasks \ {t}) /\ State(t)' = WaitingTask
    BY <2>2, StatesDiffer, GoesOn
  <2>4. NobodyWaits(s) => Range(list'[s]) = {t}
    <3>1. NobodyWaits(s) => Range(list[s]) = {}
      BY OnQueue, EmptyList DEF NobodyWaits, ListEmpty
    <3>2. Range(list'[s]) = Range(list[s]) \cup {t}
      BY <2>2, OnQueue, RangeOfAppend
    <3> QED
      BY <3>1, <3>2
  <2>5. \A u \in Tasks : u = semOwner[s] => (HasOwner(Sched, s) <=> State(u) # FreeTask)
    BY States, Invariants, Names DEF HasOwner
  <2>6. ASSUME NobodyWaits(s), NEW u \in Tasks
        PROVE  priority'[u] = IF /\ u = semOwner[s] /\ State(u) # FreeTask
                                 /\ priority[t] < priority[u]
                              THEN priority[t] ELSE priority[u]
    <3>1. CASE u = semOwner[s] /\ State(u) # FreeTask
      <4>1. /\ priority'[u] <= priority[t] /\ priority'[u] <= priority[u]
            /\ priority'[u] = priority[u] \/ priority'[u] = priority[t]
        BY <3>1, <2>2, <2>4, <2>5, <2>6
      <4>2. priority[t] \in Int /\ priority[u] \in Int
        BY SemTypes
      <4> QED
        BY <3>1, <4>1, <4>2
    <3>2. CASE ~ (u = semOwner[s] /\ State(u) # FreeTask)
      BY <3>2, <2>2, <2>5
    <3> QED
      BY <3>1, <3>2
  <2> QED
    BY <2>1, <2>2, <2>3, <2>6 DEF Calm, Blocks, Tops
<1> QED
  BY <1>1, <1>2, <1>3

\* The holder runs at its own priority, unless somebody waits.
Settled(s) == \A u \in Tasks : u = semOwner[s] /\ State(u) # FreeTask =>
                priority[u] = originalPriority[u] \/ ~ NobodyWaits(s)

LEMMA PostEffect ==
  ASSUME IInv, Tops, NEW s \in Sems, semStat[s] = "USED", PRT_SemPost(s), Settled(s)
  PROVE  Calm /\ \/ Keeps(s) \/ \E h \in Tasks : Wakes(h, s)
                 \/ Idles /\ semCount[s] >= OS_SEM_COUNT_MAX
<1>1. \/ UNCHANGED vars /\ semCount[s] >= OS_SEM_COUNT_MAX
      \/ SemPostWake(s) \/ SemPostKeep(s)
  BY DEF PRT_SemPost, Fail
<1>2. CASE UNCHANGED vars /\ semCount[s] >= OS_SEM_COUNT_MAX
  BY <1>2, KernelKept
<1>3. CASE SemPostKeep(s)
  <2>1. /\ list[s] = << >> /\ UNCHANGED <<taskSem, semStat, unusedSem, originalPriority>>
        /\ semCount' = [semCount EXCEPT ![s] = @ + 1]
        /\ semOwner' = [semOwner EXCEPT ![s] = NoTask]
    BY <1>3 DEF SemPostKeep, ListEmpty, tskVars
  <2>2. /\ IInv' /\ status' = status /\ uniFlag' = uniFlag /\ running' = running
        /\ \/ /\ semOwner[s] \in Tasks /\ status[semOwner[s]] # {}
              /\ priority[semOwner[s]] # originalPriority[semOwner[s]]
           \/ priority' = priority /\ highest' = highest
    BY <1>3, SemPostKeepInv
  <2>3. NobodyWaits(s)
    BY <2>1, OnQueue DEF NobodyWaits
  <2>4. priority' = priority /\ highest' = highest
    BY <2>2, <2>3, States DEF Settled
  <2> QED
    BY <2>1, <2>2, <2>3, <2>4 DEF Calm, Keeps, SameStates, SamePriorities, State, Active, Tops
<1>4. CASE SemPostWake(s)
  <2>0. PICK h : h = Head(list[s])
    OBVIOUS
  <2>1. /\ list[s] # << >> /\ UNCHANGED <<semStat, unusedSem, semCount, originalPriority>>
        /\ taskSem' = [taskSem EXCEPT ![h] = NoSem]
        /\ semOwner' = [semOwner EXCEPT ![s] = h]
    BY <1>4, <2>0 DEF SemPostWake, ListEmpty
  <2>2. /\ IInv' /\ h \in Tasks /\ Goes(h, WaitingTask, ReadyTask) /\ Active /\ Active'
        /\ running' = highest'
        /\ \A u \in Tasks : u # semOwner[s] => priority'[u] = priority[u]
        /\ ~ HasOwner(Sched, s) \/ priority[semOwner[s]] = originalPriority[semOwner[s]]
             => priority' = priority
        /\ HasOwner(Sched, s) =>
             \/ priority'[semOwner[s]] = originalPriority[semOwner[s]]
             \/ \E w \in Range(list[s]) : /\ priority'[semOwner[s]] = priority[w]
                                          /\ priority[w] < priority[semOwner[s]]
    BY <1>4, <2>0, SemPostWakeInv
  <2>3. h \in Range(list[s])
    BY <2>0, <2>1, OnQueue, HeadOfList
  <2>4. Waiting(h) /\ taskSem[h] = s
    BY <2>2, <2>3, OnQueue
  <2>5. /\ \A u \in Tasks : State(u)' = FreeTask <=> State(u) = FreeTask
        /\ SameStates(Tasks \ {h}) /\ State(h)' = ReadyTask
    BY <2>2, StatesDiffer, GoesOn
  <2>6. ASSUME NEW u \in Tasks, u = semOwner[s], State(u) # FreeTask,
               priority'[u] # originalPriority[u]
        PROVE  /\ ~ OnlyWaiter(h, s) \/ priority[h] < priority[u]
               /\ priority[u] # originalPriority[u]
    <3>1. HasOwner(Sched, s)
      BY <2>6, States, Invariants, Names DEF HasOwner
    <3>2. priority[u] # originalPriority[u]
      BY <2>2, <2>6
    <3>3. OnlyWaiter(h, s) => Range(list[s]) = {h}
      <4>1. Range(list[s]) \subseteq Tasks
        BY OnQueue DEF Range
      <4> QED
        BY <4>1, <2>3, OnQueue DEF OnlyWaiter
    <3> QED
      BY <3>1, <3>2, <3>3, <2>2, <2>6
  <2> QED
    BY <2>1, <2>2, <2>4, <2>5, <2>6 DEF Calm, Wakes, Tops
<1> QED
  BY <1>1, <1>2, <1>3, <1>4

\* Calls of the shell and of the tasks that touch no semaphore.
SameSems == semCount' = semCount /\ semOwner' = semOwner

Exits(t) == /\ State(t)' = ExitedTask /\ SameStates(Tasks \ {t})
            /\ SamePriorities /\ SameSems /\ taskSem' = taskSem

Resumes(t) == /\ State(t) = SuspendedTask /\ State(t)' = ReadyTask
              /\ SameStates(Tasks \ {t})
              /\ SamePriorities /\ SameSems /\ taskSem' = taskSem

Makes(t, p) == /\ State(t) = FreeTask /\ State(t)' = SuspendedTask
               /\ SameStates(Tasks \ {t}) /\ SameSems
               /\ \A u \in Tasks \ {t} : /\ priority'[u] = priority[u]
                                        /\ originalPriority'[u] = originalPriority[u]
               /\ priority'[t] = p /\ originalPriority'[t] = p
               /\ taskSem' = [taskSem EXCEPT ![t] = NoSem]

LEMMA ExitEffect ==
  ASSUME IInv, NEW t \in Tasks, running = t, OsTaskExit
  PROVE  Calm /\ Exits(t)
<1>1. UNCHANGED <<semStat, unusedSem, semCount, semOwner, originalPriority, taskSem>>
  BY DEF OsTaskExit, semVars, tskVars
<1>2. /\ IInv' /\ Goes(t, ReadyTask, ExitedTask) /\ priority' = priority
      /\ Active /\ Active' /\ running' = highest'
  BY OsTaskExitInv
<1>3. /\ \A u \in Tasks : State(u)' = FreeTask <=> State(u) = FreeTask
      /\ SameStates(Tasks \ {t}) /\ State(t)' = ExitedTask
  BY <1>2, StatesDiffer, GoesOn
<1> QED
  BY <1>1, <1>2, <1>3 DEF Calm, Exits, SamePriorities, SameSems, Tops

LEMMA ResumeEffect ==
  ASSUME IInv, Tops, NEW t \in Tasks, PRT_TaskResume(t)
  PROVE  Calm /\ ((Resumes(t) /\ (~ Active => running' = running)) \/ Idles)
<1>1. CASE UNCHANGED vars
  BY <1>1, KernelKept
<1>2. CASE /\ "SUSPEND" \in status[t]
           /\ SetSched(OsMoveTaskToReady([Sched EXCEPT !.status[t] = @ \ {"SUSPEND"}], t))
           /\ UNCHANGED semVars /\ UNCHANGED tskVars
  <2>1. UNCHANGED <<semStat, unusedSem, semCount, semOwner, originalPriority, taskSem>>
    BY <1>2 DEF semVars, tskVars
  <2>2. /\ IInv' /\ Goes(t, SuspendedTask, ReadyTask) /\ priority' = priority
        /\ Active' <=> Active
        /\ IF Active THEN running' = highest' ELSE running' = running
    BY <1>2, ResumeInv
  <2>3. /\ \A u \in Tasks : State(u)' = FreeTask <=> State(u) = FreeTask
        /\ SameStates(Tasks \ {t}) /\ State(t)' = ReadyTask /\ State(t) = SuspendedTask
    BY <2>2, StatesDiffer, GoesOn
  <2> QED
    BY <2>1, <2>2, <2>3 DEF Calm, Resumes, SamePriorities, SameSems, Tops
<1> QED
  BY <1>1, <1>2 DEF PRT_TaskResume, Fail

LEMMA CreateEffect ==
  ASSUME IInv, Tops, NEW p \in 0 .. OS_TSK_PRIORITY_LOWEST, PRT_TaskCreate(p),
         NEW t, t = Head(list[FreeList])
  PROVE  /\ IInv' /\ Tops' /\ (Active' <=> Active) /\ semStat' = semStat
         /\ unusedSem' = unusedSem /\ running' = running
         /\ PoolsHaveTask => t \in Tasks /\ Makes(t, p)
         /\ ~ PoolsHaveTask => Idles
<1>1. CASE TaskCreated(p)
  <2>1. /\ PoolsHaveTask
        /\ UNCHANGED <<semStat, semCount, semOwner, unusedSem, uniFlag, highest, running>>
        /\ taskSem' = [taskSem EXCEPT ![t] = NoSem]
    BY <1>1 DEF TaskCreated, PoolsHaveTask, ListEmpty, semVars
  <2>2. /\ IInv' /\ t \in Tasks /\ Goes(t, FreeTask, SuspendedTask)
        /\ \A u \in Tasks \ {t} : /\ priority'[u] = priority[u]
                                 /\ originalPriority'[u] = originalPriority[u]
        /\ priority'[t] = p /\ originalPriority'[t] = p
    BY <1>1, TaskCreatedInv
  <2> QED
    BY <2>1, <2>2 DEF Makes, Goes, SameStates, SameSems, Active, Tops
<1>2. CASE TaskNotCreated
  <2>1. /\ IInv' /\ UNCHANGED <<status, priority, highest, running, uniFlag>>
        /\ UNCHANGED semVars /\ UNCHANGED tskVars
    BY <1>2, TaskNotCreatedInv
  <2>2. ~ PoolsHaveTask
    BY <1>2, SizesAssumption DEF TaskNotCreated, PoolsHaveTask, ListEmpty
  <2>3. UNCHANGED <<semStat, semCount, semOwner, unusedSem, originalPriority, taskSem>>
    BY <2>1 DEF semVars, tskVars
  <2> QED
    BY <2>1, <2>2, <2>3 DEF Idles, SameStates, SamePriorities, State, Active, Tops
<1> QED
  BY <1>1, <1>2 DEF PRT_TaskCreate

-----------------------------------------------------------------------------
(***************************************************************************)
(* Who runs.                                                                *)
(***************************************************************************)
LEMMA TopRuns ==
  ASSUME IInv, Tops, Active
  PROVE  /\ running \in Tasks /\ State(running) = ReadyTask
         /\ \A u \in Tasks : State(u) = ReadyTask => priority[running] <= priority[u]
<1>1. running \in Tasks /\ State(running) = ReadyTask
  BY States, Names DEF IInv, BootOrRun
<1>2. /\ list[RunQueue] \in Seq(Tasks)
      /\ \A u \in Tasks : u \in Range(list[RunQueue]) <=> "READY" \in status[u]
  BY Invariants, Consequences, Names DEF ListType, ListsWellFormed
<1>3. \A u \in Tasks : u \in Range(list[RunQueue]) <=> State(u) = ReadyTask
  BY <1>2, States
<1>4. list[RunQueue] # << >>
  BY <1>1, <1>3 DEF Range
<1>5. running = FirstHighest(list[RunQueue], priority)
  BY <1>4, Consequences DEF Tops, HighestIsCurrent, ListEmpty
<1>6. \A u \in Range(list[RunQueue]) : priority[running] <= priority[u]
  BY <1>2, <1>4, <1>5, FirstHighestPicks, Invariants, PrioNat
<1> QED
  BY <1>1, <1>3, <1>6

\* The demo's tasks that are not done, and what they may be at.
LEMMA LiveTasks ==
  ASSUME Control, NEW t \in Tasks, role[t] # "none"
  PROVE  /\ State(t) \in {SuspendedTask, ReadyTask, WaitingTask, ExitedTask}
         /\ Live(t) <=> State(t) # ExitedTask
         /\ Live(t) => Made
         /\ boot = "done" /\ Active
         /\ Waiting(t) => role[t] = "high" /\ pc[t] = "after" /\ taskSem[t] = sharedResource
<1>1. /\ State(t) \in {SuspendedTask, ReadyTask, WaitingTask, ExitedTask}
      /\ Live(t) <=> State(t) # ExitedTask
  BY States DEF Control, Roles, Live
<1>2. Live(t) => Made
  BY DEF Live, Made, DemoAlive
<1>3. boot = "done" /\ Active
  BY DEF Control, BootSays
<1>4. Waiting(t) => role[t] = "high" /\ pc[t] = "after" /\ taskSem[t] = sharedResource
  BY DEF Control, Waiters, Roles
<1> QED
  BY <1>1, <1>2, <1>3, <1>4

\* While High waits, Low holds the resource, and with High's priority.
LEMMA HolderIsLow ==
  ASSUME Control, NEW h \in Tasks, role[h] = "high", Waiting(h),
         NEW o, o = semOwner[sharedResource]
  PROVE  /\ o \in Tasks /\ role[o] = "low" /\ State(o) = ReadyTask
         /\ priority[o] = 5 /\ originalPriority[o] = 15
         /\ semCount[sharedResource] = 0 /\ Made
         /\ \A t \in Tasks : Inside(t) <=> t = o
         /\ OnlyWaiter(h, sharedResource) /\ ~ NobodyWaits(sharedResource)
<1>1. /\ pc[h] = "after" /\ taskSem[h] = sharedResource /\ Made /\ sharedResource \in Sems
      /\ Live(h)
  BY LiveTasks, StatesDiffer DEF Waiting, Control, Roles
<1>2. semCount[sharedResource] # 1
  <2>1. list[sharedResource] # << >>
    BY <1>1, OnQueue DEF Control
  <2> QED
    BY <1>1, <2>1 DEF Control, IInv, NoIdleToken
<1>3. /\ semCount[sharedResource] = 0 /\ o \in Tasks
      /\ \A t \in Tasks : Inside(t) <=> t = o
  BY <1>1, <1>2 DEF Control, Mutex
<1>4. pc[o] \in HeldLabels /\ ~ Waiting(o) /\ o # h
  BY <1>3 DEF Inside
<1>5. Live(o)
  BY <1>3, <1>4 DEF Live, HeldLabels, Control, Roles
<1>6. role[o] = "low"
  <2>1. role[o] \in {"none", "high", "mid", "low"}
    BY <1>3 DEF Control, Roles
  <2>2. role[o] # "mid"
    BY <1>3, <1>4 DEF HeldLabels, MidLabels, Control, Roles
  <2>3. role[o] # "high"
    BY <1>1, <1>3, <1>4, <1>5 DEF Control, Order
  <2> QED
    BY <1>5, <2>1, <2>2, <2>3 DEF Live
<1>7. State(o) = ReadyTask
  <2>1. State(o) # SuspendedTask
    BY <1>3, <1>4, <1>6 DEF HeldLabels, Control, Roles
  <2> QED
    BY <1>3, <1>4, <1>5, <1>6, <2>1, LiveTasks DEF Waiting
<1>8. priority[o] = 5 /\ originalPriority[o] = 15
  <2>1. Rank(o) = 5
    BY <1>3, <1>6, DemoNames DEF Rank, HighWaits
  <2> QED
    BY <1>3, <1>6, <1>7, <2>1, StatesDiffer, DemoNames DEF Control, Ranks
<1>9. OnlyWaiter(h, sharedResource) /\ ~ NobodyWaits(sharedResource)
  <2>1. ASSUME NEW u \in Tasks, Waiting(u), taskSem[u] = sharedResource PROVE u = h
    <3>1. u # Shell
      BY <1>1, <2>1 DEF Control, Waiters, Mutex
    <3>2. role[u] = "high" /\ pc[u] = "after"
      BY <2>1, <3>1 DEF Control, Waiters
    <3> QED
      BY <1>1, <3>2 DEF Control, Order, Live
  <2> QED
    BY <1>1, <2>1 DEF OnlyWaiter, NobodyWaits
<1> QED
  BY <1>1, <1>3, <1>6, <1>7, <1>8, <1>9

\* The priorities of the others.
LEMMA Priorities ==
  ASSUME Control, NEW u \in Tasks, State(u) # FreeTask
  PROVE  /\ priority[u] \in Int
         /\ role[u] = "none" => priority[u] >= 9
         /\ role[u] = "mid" => priority[u] = 10
         /\ role[u] = "high" => priority[u] = 5
         /\ role[u] = "low" /\ ~ HighWaits => priority[u] = 15
BY DemoNames, SemTypes DEF Control, Ranks, Rank

\* High, once resumed, runs itself, or else the task it waits for.
LEMMA HighReigns ==
  ASSUME Control, NEW h \in Tasks, role[h] = "high", State(h) \in {ReadyTask, WaitingTask}
  PROVE  /\ Active /\ running \in Tasks
         /\ running = IF Waiting(h) THEN semOwner[sharedResource] ELSE h
         /\ role[running] \in {"high", "low"}
<1>1. Active /\ Live(h) /\ Control /\ IInv /\ Tops
  BY LiveTasks, StatesDiffer DEF Control
<1>2. PICK x \in Tasks : x = running
  BY <1>1, TopRuns
<1>3. /\ State(x) = ReadyTask
      /\ \A u \in Tasks : State(u) = ReadyTask => priority[x] <= priority[u]
  BY <1>1, <1>2, TopRuns
<1>4. x \in Tasks /\ priority[x] \in Int /\ State(x) # FreeTask
  BY <1>2, <1>3, Priorities, StatesDiffer
<1>5. role[x] \in {"none", "high", "mid", "low"}
  BY <1>4 DEF Control, Roles
<1>6. role[x] = "high" => x = h
  <2>1. role[x] = "high" => Live(x)
    BY <1>3, <1>4, LiveTasks, StatesDiffer
  <2> QED
    BY <1>1, <1>4, <2>1 DEF Order, Control
<1>7. CASE State(h) = ReadyTask
  <2>1. ~ Waiting(h) /\ priority[h] = 5
    BY <1>7, Priorities, StatesDiffer DEF Waiting
  <2>2. priority[x] <= 5
    BY <1>3, <1>7, <2>1
  <2>3. ~ HighWaits
    <3> SUFFICES ASSUME NEW g \in Tasks, role[g] = "high", Waiting(g) PROVE FALSE
      BY DEF HighWaits
    <3>1. Live(g)
      BY LiveTasks, StatesDiffer DEF Waiting
    <3> QED
      BY <1>1, <2>1, <3>1 DEF Order, Control
  <2>4. role[x] = "high"
    BY <1>4, <1>5, <2>2, <2>3, Priorities
  <2> QED
    BY <1>1, <1>2, <1>6, <2>1, <2>4
<1>8. CASE State(h) = WaitingTask
  <2>1. Waiting(h)
    BY <1>8 DEF Waiting
  <2>2. PICK o : o = semOwner[sharedResource]
    OBVIOUS
  <2>3. o \in Tasks /\ role[o] = "low" /\ State(o) = ReadyTask /\ priority[o] = 5
    BY <2>1, <2>2, HolderIsLow
  <2>4. priority[x] <= 5
    BY <1>3, <2>3
  <2>5. role[x] # "high"
    BY <1>3, <1>6, <1>8, StatesDiffer
  <2>6. role[x] = "low"
    BY <1>4, <1>5, <2>4, <2>5, Priorities
  <2>7. Live(x) /\ Live(o)
    BY <1>3, <1>4, <2>3, <2>6, LiveTasks, StatesDiffer
  <2>8. x = o
    BY <1>4, <2>3, <2>6, <2>7 DEF Order, Control
  <2> QED
    BY <1>1, <1>2, <2>1, <2>2, <2>6, <2>8
<1> QED
  BY <1>7, <1>8

-----------------------------------------------------------------------------
(***************************************************************************)
(* Steps of main, the shell, the handlers and the devices: the demo's tasks *)
(* and the resource are left alone.                                         *)
(***************************************************************************)
\* What such a step may change: the state of the shell, and its semaphore.
Outside ==
  /\ SamePriorities
  /\ \A u \in Tasks \ {Shell} : State(u)' = State(u) /\ taskSem'[u] = taskSem[u]
  /\ State(Shell)' = State(Shell) \/ State(Shell)' \in {ReadyTask, WaitingTask}
  /\ Waiting(Shell)' => taskSem'[Shell] = sem_uart_rx
  /\ \A s \in Sems \ {sem_uart_rx} : semCount'[s] = semCount[s] /\ semOwner'[s] = semOwner[s]
  /\ semOwner'[sem_uart_rx] \in {NoTask, Shell}

ShellStep(from, to) ==
  to = from \/ /\ boot = "done" /\ to # "create_low"
               /\ to = "create_sem" => ~ DemoAlive

LEMMA OutsideKept ==
  ASSUME Control, Calm, Outside, UNCHANGED <<boot, sharedResource, role, pc, uses>>,
         ShellStep(shellPc, shellPc')
  PROVE  Control'
<1>1. /\ \A t \in Tasks : (Live(t)' <=> Live(t)) /\ (Inside(t)' <=> Inside(t))
      /\ DemoAlive' <=> DemoAlive
      /\ HighWaits' <=> HighWaits
      /\ Shell \in Tasks /\ role[Shell] = "none" /\ pc[Shell] = "none"
  <2>1. Shell \in Tasks /\ role[Shell] = "none" /\ pc[Shell] = "none"
    BY DemoNames DEF Control, Roles
  <2>2. \A t \in Tasks : Live(t)' <=> Live(t)
    BY DEF Live
  <2>3. \A t \in Tasks \ {Shell} : Waiting(t)' <=> Waiting(t)
    BY DEF Outside, Waiting
  <2>4. \A t \in Tasks : Inside(t)' <=> Inside(t)
    BY <2>1, <2>3 DEF Inside, HeldLabels
  <2>5. HighWaits' <=> HighWaits
    BY <2>1, <2>3 DEF HighWaits
  <2> QED
    BY <2>1, <2>2, <2>4, <2>5 DEF DemoAlive
<1>2. Made' => Made /\ (shellPc' = "create_low" => shellPc = "create_low")
  BY <1>1 DEF Made, ShellStep
<1>3. IInv' /\ Tops'
  BY DEF Calm
<1>4. BootSays'
  BY <1>1 DEF Control, BootSays, Calm, RxSemMade, ShellStep, Outside
<1>5. Roles'
  <2>1. \A t \in Tasks : role[t] # "none" => State(t)' = State(t)
    BY <1>1 DEF Outside
  <2>2. State(Shell)' = FreeTask <=> State(Shell) = FreeTask
    BY <1>1 DEF Calm
  <2> QED
    BY <1>1, <2>1, <2>2 DEF Control, Roles
<1>6. Order'
  BY <1>1 DEF Control, Order, ShellStep
<1>7. Waiters'
  BY DEF Control, Waiters, Outside, Waiting
<1>8. Mutex'
  <2>1. Made => sharedResource \in Sems \ {sem_uart_rx}
    BY DEF Control, Mutex, Roles
  <2>2. Made => /\ semCount'[sharedResource] = semCount[sharedResource]
                /\ semOwner'[sharedResource] = semOwner[sharedResource]
    BY <2>1 DEF Outside
  <2> QED
    BY <1>1, <1>2, <2>2 DEF Control, Mutex, Calm
<1>9. Ranks'
  <2>1. HighWaits => semOwner'[sharedResource] = semOwner[sharedResource]
    <3>1. HighWaits => Made
      BY HolderIsLow DEF HighWaits
    <3> QED
      BY <3>1 DEF Control, Mutex, Roles, Outside
  <2>2. \A t \in Tasks : Rank(t)' = Rank(t)
    BY <1>1, <2>1 DEF Rank
  <2>3. \A t \in Tasks : /\ priority'[t] = priority[t]
                         /\ originalPriority'[t] = originalPriority[t]
                         /\ State(t)' = FreeTask <=> State(t) = FreeTask
    BY DEF Outside, SamePriorities, Calm
  <2> QED
    BY <2>2, <2>3 DEF Control, Ranks
<1> QED
  BY <1>3, <1>4, <1>5, <1>6, <1>7, <1>8, <1>9 DEF Control

\* The effects of the calls on the UART's semaphore are such steps.
LEMMA OnlyShellThere ==
  ASSUME Control, NEW u \in Tasks, Waiting(u), taskSem[u] = sem_uart_rx
  PROVE  u = Shell
<1> SUFFICES ASSUME u # Shell PROVE FALSE
  OBVIOUS
<1>1. role[u] = "high" /\ taskSem[u] = sharedResource
  BY DEF Control, Waiters
<1>2. Made
  BY <1>1, LiveTasks, StatesDiffer DEF Waiting
<1> QED
  BY <1>1, <1>2 DEF Control, Mutex

LEMMA RxIsOutside ==
  ASSUME Control, Calm,
         \/ Idles \/ Takes(Shell, sem_uart_rx) \/ Keeps(sem_uart_rx)
         \/ Blocks(Shell, sem_uart_rx) /\ running = Shell
         \/ \E h \in Tasks : Wakes(h, sem_uart_rx)
  PROVE  Outside
<1> DEFINE s == sem_uart_rx
<1>1. /\ s \in Sems /\ Shell \in Tasks /\ Shell \in TCBs
      /\ semOwner[s] \in {NoTask, Shell} /\ IInv
      /\ semCount \in [Sems -> Nat] /\ semOwner \in [Sems -> Tasks \cup {NoTask}]
      /\ taskSem \in [TCBs -> Sems \cup {NoSem}] /\ Tasks \subseteq TCBs
      /\ Waiting(Shell) => taskSem[Shell] = s
      /\ role[Shell] = "none"
  BY DemoNames, SemTypes, Names DEF Control, BootSays, Waiters, Roles
<1> HIDE DEF s
<1>2. CASE Idles
  BY <1>1, <1>2 DEF Idles, Outside, SameStates, Waiting, s
<1>3. CASE Takes(Shell, s)
  BY <1>1, <1>3 DEF Takes, Outside, SameStates, Waiting, s
<1>4. CASE Keeps(s)
  BY <1>1, <1>4 DEF Keeps, Outside, SameStates, Waiting, s
<1>5. CASE Blocks(Shell, s) /\ running = Shell
  <2>1. State(Shell) = ReadyTask
    BY <1>1, <1>5, RunnerReady
  <2>2. NobodyWaits(s)
    BY <2>1, OnlyShellThere, StatesDiffer DEF NobodyWaits, Waiting, s
  <2>3. priority[Shell] \in Int
    BY <1>1, SemTypes
  <2>4. SamePriorities
    BY <1>1, <1>5, <2>2, <2>3, Names DEF Blocks, SamePriorities
  <2> QED
    BY <1>1, <1>5, <2>4 DEF Blocks, Outside, SameStates, Waiting, s
<1>6. ASSUME NEW h \in Tasks, Wakes(h, s) PROVE Outside
  <2>1. h = Shell
    BY <1>6, OnlyShellThere DEF Wakes, s
  <2>2. State(Shell) # FreeTask /\ priority[Shell] = originalPriority[Shell]
    BY <1>1, <1>6, <2>1, StatesDiffer DEF Wakes, Waiting, Control, Ranks
  <2>3. SamePriorities
    BY <1>1, <1>6, <2>1, <2>2, Names DEF Wakes, SamePriorities
  <2> QED
    BY <1>1, <1>6, <2>1, <2>3, StatesDiffer DEF Wakes, Outside, SameStates, Waiting, s
<1> QED
  BY <1>2, <1>3, <1>4, <1>5, <1>6 DEF s

\* Interrupts are taken and end, the timer expires, the user types.
LEMMA EnvInv ==
  ASSUME Control, UNCHANGED vars, UNCHANGED <<boot, shellPc>>, UNCHANGED demoVars
  PROVE  Control' /\ Idles
<1>1. UNCHANGED <<boot, shellPc, sharedResource, role, pc, uses>>
  BY DEF demoVars
<1>2. Calm /\ Idles
  BY KernelKept DEF Control
<1> QED
  BY <1>1, <1>2, RxIsOutside, OutsideKept DEF ShellStep

LEMMA RxHandleInv ==
  ASSUME Control, OsUartRxHandle, UNCHANGED demoVars
  PROVE  /\ Control' /\ Outside
         /\ \A u \in Tasks : State(u) = ReadyTask => State(u)' = ReadyTask
<1> DEFINE s == sem_uart_rx
<1>1. PRT_SemPost(s) /\ UNCHANGED <<boot, shellPc>>
  BY DEF OsUartRxHandle, envVars, bootVars, shellVars
<1>2. UNCHANGED <<boot, shellPc, sharedResource, role, pc, uses>>
  BY <1>1 DEF demoVars
<1>3. s \in Sems /\ semStat[s] \in {"UNUSED", "USED"} /\ IInv /\ Tops
  BY DemoNames, SemTypes DEF Control
<1>4. Settled(s)
  <2>1. semOwner[s] \in {NoTask, Shell} /\ role[Shell] = "none"
    BY DEF Control, BootSays, Roles
  <2>2. NoTask \notin Tasks
    BY Names
  <2> QED
    BY <2>1, <2>2 DEF Settled, Control, Ranks
<1> HIDE DEF s
<1>5. semStat[s] = "UNUSED" => UNCHANGED vars
  BY <1>1 DEF PRT_SemPost, Fail
<1>6. semStat[s] = "USED" => Calm /\ (Idles \/ Keeps(s) \/ \E h \in Tasks : Wakes(h, s))
  BY <1>1, <1>3, <1>4, PostEffect
<1>7. Calm /\ (Idles \/ Keeps(s) \/ \E h \in Tasks : Wakes(h, s))
  BY <1>3, <1>5, <1>6, KernelKept
<1>8. Outside
  BY <1>7, RxIsOutside DEF s
<1>9. \A u \in Tasks : State(u) = ReadyTask => State(u)' = ReadyTask
  BY <1>7 DEF Idles, Keeps, Wakes, SameStates
<1> QED
  BY <1>2, <1>7, <1>8, <1>9, OutsideKept DEF ShellStep

LEMMA ShellExecutes ==
  ASSUME Control, Executing(Shell)
  PROVE  /\ running = Shell /\ Shell \in Tasks /\ State(Shell) = ReadyTask
         /\ boot = "done" /\ semStat[sem_uart_rx] = "USED" /\ RxSemMade
         /\ Active /\ IInv /\ Tops /\ running \in Tasks
<1>1. running = Shell /\ Shell \in Tasks /\ IInv /\ Tops
  BY DemoNames DEF Executing, Control
<1>2. Active /\ State(Shell) = ReadyTask
  BY <1>1, RunnerReady
<1>3. boot = "done" /\ semStat[sem_uart_rx] = "USED" /\ RxSemMade
  BY <1>2 DEF Control, BootSays, RxSemMade
<1> QED
  BY <1>1, <1>2, <1>3

LEMMA ShellPendInv ==
  ASSUME Control, ShellPend, UNCHANGED demoVars
  PROVE  Control'
<1>1. /\ Executing(Shell) /\ shellPc' = "read" /\ PRT_SemPend(sem_uart_rx, "FOREVER")
      /\ UNCHANGED <<boot, sharedResource, role, pc, uses>>
  BY DEF ShellPend, envVars, bootVars, demoVars
<1>2. /\ Calm
      /\ Takes(Shell, sem_uart_rx) \/ Blocks(Shell, sem_uart_rx)
  BY <1>1, ShellExecutes, PendEffect, DemoNames
<1>3. Outside
  BY <1>1, <1>2, ShellExecutes, RxIsOutside
<1> QED
  BY <1>1, <1>2, <1>3, ShellExecutes, OutsideKept DEF ShellStep

\* A step of the shell with no call; demo begins when no demo is left.
LEMMA ShellQuietInv ==
  ASSUME Control, Executing(Shell), UNCHANGED vars, UNCHANGED <<boot>>, UNCHANGED demoVars,
         shellPc' # "create_low", shellPc' = "create_sem" => ~ DemoAlive
  PROVE  Control'
<1>1. UNCHANGED <<boot, sharedResource, role, pc, uses>>
  BY DEF demoVars
<1>2. Calm /\ Idles /\ boot = "done"
  BY ShellExecutes, KernelKept
<1>3. Outside
  BY <1>2, RxIsOutside
<1> QED
  BY <1>1, <1>2, <1>3, OutsideKept DEF ShellStep

LEMMA ShellReadInv ==
  ASSUME Control, ShellRead \/ ShellCommand, UNCHANGED demoVars
  PROVE  Control'
<1>1. CASE ShellRead
  BY <1>1, ShellQuietInv DEF ShellRead, envVars, bootVars
<1>2. CASE ShellCommand
  <2>1. UNCHANGED vars /\ UNCHANGED boot /\ Executing(Shell)
    BY <1>2 DEF ShellCommand, ShellDispatchCmd, OsDisplayTasksInfo, PsBegin, PsRow, PsNext,
       PsEnd, OsDisplaySemStat, SemStatBegin, SemStatSkip, SemStatRow, SemStatCount,
       SemStatOwner, SemStatEnd, LoadField, ReportAt,
       CommandReturns, envVars, bootVars
  <2>2. shellPc' \in {"ps", "ps_next", "semstat", "row", "row_count", "row_owner", "pend"}
    BY <1>2 DEF ShellCommand, ShellDispatchCmd, OsDisplayTasksInfo, PsBegin, PsRow, PsNext,
       PsEnd, OsDisplaySemStat, SemStatBegin, SemStatSkip, SemStatRow, SemStatCount,
       SemStatOwner, SemStatEnd, LoadField, ReportAt,
       CommandReturns, ShellPrompt
  <2> QED
    BY <2>1, <2>2, ShellQuietInv
<1> QED
  BY <1>1, <1>2

LEMMA DemoCommandInv ==
  ASSUME Control, ~ Overlapping, DemoCommand
  PROVE  Control'
<1>1. /\ Executing(Shell) /\ UNCHANGED vars /\ UNCHANGED boot /\ UNCHANGED demoVars
      /\ shellPc' = "create_sem" /\ ~ DemoAlive
  BY DEF DemoCommand, ShellAt, envVars, bootVars
<1> QED
  BY <1>1, ShellQuietInv

-----------------------------------------------------------------------------
(***************************************************************************)
(* Steps of main: the demo has no task yet.                                 *)
(***************************************************************************)
LEMMA BootKept ==
  ASSUME Control, boot # "done", IInv', Tops', BootSays',
         UNCHANGED shellVars, UNCHANGED demoVars,
         \A u \in Tasks : State(u)' # WaitingTask,
         \A u \in Tasks : State(u)' # FreeTask =>
           \/ /\ State(u) # FreeTask /\ priority'[u] = priority[u]
              /\ originalPriority'[u] = originalPriority[u]
           \/ priority'[u] = originalPriority'[u] /\ priority'[u] >= ShellPrio
  PROVE  Control'
<1>1. /\ shellPc = "pend" /\ \A t \in Tasks : role[t] = "none" /\ pc[t] = "none"
      /\ UNCHANGED <<shellPc, sharedResource, role, pc, uses>>
  BY DEF Control, BootSays, Roles, shellVars, demoVars
<1>2. ~ DemoAlive' /\ ~ Made' /\ \A t \in Tasks : ~ Live(t)'
  BY <1>1 DEF DemoAlive, Made, Live
<1>3. Roles'
  BY <1>1 DEF Control, Roles
<1>4. Order'
  BY <1>1, <1>2 DEF Order
<1>5. Waiters' /\ Mutex'
  BY <1>2 DEF Waiters, Mutex, Waiting
<1>6. Ranks'
  BY <1>1 DEF Control, Ranks
<1> QED
  BY <1>3, <1>4, <1>5, <1>6 DEF Control

LEMMA BootRuns ==
  ASSUME Control, boot # "done"
  PROVE  /\ IInv /\ Tops /\ ~ Active /\ running = Zombie
         /\ \A u \in Tasks : State(u) # WaitingTask
BY States DEF Control, BootSays, IInv, BootOrRun

LEMMA QuietBootInv ==
  ASSUME Control, OsHwiInit \/ CoreTimerInit \/ InitModules \/ EnableRx, UNCHANGED demoVars
  PROVE  Control'
<1>1. /\ UNCHANGED vars /\ UNCHANGED shellVars
      /\ boot \in {"hwi", "timer", "modules", "uart"}
      /\ boot' \in {"timer", "modules", "uart", "sem"}
  BY DEF OsHwiInit, CoreTimerInit, InitModules, EnableRx, BootStep, OsGicEnableInt
<1>2. Calm /\ Idles /\ \A u \in Tasks : State(u) # WaitingTask
  BY <1>1, KernelKept, BootRuns
<1>3. BootSays'
  <2>1. shellPc' = shellPc /\ role' = role
    BY <1>1 DEF shellVars, demoVars
  <2> QED
    BY <1>1, <1>2, <2>1 DEF Control, BootSays, Calm, Idles, RxSemMade
<1> QED
  BY <1>1, <1>2, <1>3, BootKept DEF Calm, Idles, SameStates, SamePriorities

LEMMA CreateRxSemInv ==
  ASSUME Control, CreateRxSem, UNCHANGED demoVars
  PROVE  Control'
<1> DEFINE s == sem_uart_rx
<1>1. /\ boot = "sem" /\ boot' = "create" /\ PRT_SemCreate(0) /\ UNCHANGED shellVars
      /\ ~ RxSemMade /\ RxSemMade'
  BY DEF CreateRxSem, BootStep, RxSemMade
<1>2. IInv /\ Tops /\ ~ Active /\ \A u \in Tasks : State(u) # WaitingTask
  BY <1>1, BootRuns
<1>3. unusedSem # << >> /\ Head(unusedSem) = s
  <2>1. unusedSem = [i \in 1 .. NumSems |-> i - 1]
    BY <1>1 DEF Control, BootSays
  <2>2. unusedSem \in Seq(Sems) /\ NumSems \in Nat /\ NumSems > 0
    BY <1>2, ShellAssumption, SizesAssumption DEF IInv, RestType
  <2>3. unusedSem # << >> /\ unusedSem[1] = 0
    BY <2>1, <2>2
  <2> QED
    BY <2>2, <2>3, HeadTailProperties DEF sem_uart_rx
<1>4. /\ IInv' /\ semStat' = [semStat EXCEPT ![s] = "USED"]
      /\ semOwner' = [semOwner EXCEPT ![s] = NoTask]
      /\ UNCHANGED <<status, priority, highest, running, uniFlag>> /\ UNCHANGED tskVars
  <2>1. ~ (0 > OS_SEM_COUNT_MAX)
    BY DemoNames
  <2>2. PICK c \in Nat : c = 0
    OBVIOUS
  <2>3. IInv'
    BY <1>1, <1>2, <2>2, SemCreateInv
  <2> QED
    BY <1>1, <1>3, <2>1, <2>3 DEF PRT_SemCreate
<1>5. UNCHANGED <<status, priority, highest, running, uniFlag, originalPriority>>
  BY <1>4 DEF tskVars
<1>6. semStat'[s] = "USED" /\ semOwner'[s] = NoTask
  BY <1>2, <1>4, DemoNames, SemTypes
<1>7. Tops' /\ ~ Active'
  BY <1>2, <1>5 DEF Tops, Active
<1>8. BootSays'
  <2>1. shellPc' = shellPc /\ role' = role
    BY <1>1 DEF shellVars, demoVars
  <2> QED
    BY <1>1, <1>6, <1>7, <2>1 DEF Control, BootSays
<1>9. \A u \in Tasks : State(u)' = State(u)
  BY <1>5 DEF State
<1> QED
  BY <1>1, <1>2, <1>4, <1>5, <1>7, <1>8, <1>9, BootKept

LEMMA ShellTaskInitInv ==
  ASSUME Control, ShellTaskInit \/ Activate, UNCHANGED demoVars
  PROVE  Control'
<1>1. /\ UNCHANGED shellVars /\ boot \in {"create", "resume", "activate"} /\ boot # "done"
      /\ RxSemMade /\ RxSemMade' /\ shellPc' = shellPc /\ role' = role
  BY DEF ShellTaskInit, Activate, BootStep, RxSemMade, shellVars, demoVars
<1>2. IInv /\ Tops /\ ~ Active /\ \A u \in Tasks : State(u) # WaitingTask
  BY <1>1, BootRuns
<1>3. CASE BootStep("create", "resume") /\ PRT_TaskCreate(ShellPrio)
  <2>0. PICK t : t = Head(list[FreeList])
    OBVIOUS
  <2>1. /\ IInv' /\ Tops' /\ (Active' <=> Active) /\ semStat' = semStat
        /\ (t \in Tasks /\ Makes(t, ShellPrio)) \/ Idles
        /\ boot' = "resume"
    BY <1>2, <1>3, <2>0, DemoNames, CreateEffect DEF BootStep
  <2>2. BootSays'
    BY <1>1, <1>2, <2>1 DEF Control, BootSays, Makes, SameSems, Idles
  <2>3. CASE Idles
    BY <1>1, <1>2, <2>1, <2>2, <2>3, BootKept DEF Idles, SameStates, SamePriorities
  <2>4. CASE t \in Tasks /\ Makes(t, ShellPrio)
    <3>1. \A u \in Tasks : State(u)' # WaitingTask
      BY <1>2, <2>4, StatesDiffer DEF Makes, SameStates
    <3>2. ShellPrio >= ShellPrio
      BY DemoNames
    <3>3. \A u \in Tasks : State(u)' # FreeTask =>
             \/ /\ State(u) # FreeTask /\ priority'[u] = priority[u]
                /\ originalPriority'[u] = originalPriority[u]
             \/ priority'[u] = originalPriority'[u] /\ priority'[u] >= ShellPrio
      BY <2>4, <3>2 DEF Makes, SameStates
    <3> QED
      BY <1>1, <2>1, <2>2, <3>1, <3>3, BootKept
  <2> QED
    BY <2>1, <2>3, <2>4
<1>4. CASE BootStep("resume", "activate") /\ PRT_TaskResume(Shell)
  <2>1. Calm /\ (Resumes(Shell) \/ Idles) /\ boot' = "activate" /\ Shell \in Tasks
    BY <1>2, <1>4, DemoNames, ResumeEffect DEF BootStep
  <2>2. BootSays'
    BY <1>1, <1>2, <2>1 DEF Control, BootSays, Calm, Resumes, SameSems, Idles
  <2>3. \A u \in Tasks : State(u)' \in {State(u), ReadyTask}
    BY <2>1 DEF Resumes, Idles, SameStates
  <2>4. \A u \in Tasks : State(u)' # WaitingTask
    BY <1>2, <2>3, StatesDiffer
  <2> QED
    BY <1>1, <2>1, <2>2, <2>4, BootKept DEF Calm, Resumes, Idles, SamePriorities
<1>5. CASE BootStep("activate", "done") /\ OsActivate
  <2>0. PICK t : t = Head(list[FreeList])
    OBVIOUS
  <2>1. /\ IInv' /\ t \in Tasks /\ Goes(t, FreeTask, ReadyTask)
        /\ \A u \in Tasks \ {t} : /\ priority'[u] = priority[u]
                                 /\ originalPriority'[u] = originalPriority[u]
        /\ priority'[t] = OS_TSK_PRIORITY_LOWEST
        /\ originalPriority'[t] = OS_TSK_PRIORITY_LOWEST
        /\ Active' /\ running' = highest'
    BY <1>2, <1>5, <2>0, OsActivateInv
  <2>2. UNCHANGED <<semStat, semOwner, unusedSem>> /\ boot' = "done"
    BY <1>5 DEF OsActivate, semVars, BootStep
  <2>3. BootSays' /\ Tops'
    BY <1>1, <2>1, <2>2 DEF Control, BootSays, Tops
  <2>4. /\ \A u \in Tasks : State(u)' # WaitingTask
        /\ \A u \in Tasks \ {t} : State(u)' = State(u)
    BY <1>2, <2>1, StatesDiffer DEF Goes
  <2>5. OS_TSK_PRIORITY_LOWEST >= ShellPrio
    BY DemoNames
  <2>6. \A u \in Tasks : State(u)' # FreeTask =>
           \/ /\ State(u) # FreeTask /\ priority'[u] = priority[u]
              /\ originalPriority'[u] = originalPriority[u]
           \/ priority'[u] = originalPriority'[u] /\ priority'[u] >= ShellPrio
    BY <2>1, <2>4, <2>5
  <2> QED
    BY <1>1, <2>1, <2>3, <2>4, <2>6, BootKept
<1> QED
  BY <1>3, <1>4, <1>5 DEF ShellTaskInit, Activate

-----------------------------------------------------------------------------
(***************************************************************************)
(* The command demo.                                                        *)
(***************************************************************************)
LEMMA NoneAlive ==
  ASSUME Control, ~ DemoAlive
  PROVE  /\ ~ HighWaits
         /\ \A t \in Tasks : ~ Live(t) /\ ~ Inside(t) /\ (Waiting(t) => t = Shell)
<1>1. \A t \in Tasks : ~ Live(t)
  BY DEF DemoAlive, Live
<1>2. \A t \in Tasks : pc[t] \in HeldLabels => Live(t)
  BY DEF HeldLabels, Live, Control, Roles
<1>3. \A t \in Tasks : Waiting(t) => t = Shell
  <2> SUFFICES ASSUME NEW t \in Tasks, Waiting(t), t # Shell PROVE FALSE
    OBVIOUS
  <2>1. role[t] = "high"
    BY DEF Control, Waiters
  <2> QED
    BY <1>1, <2>1, LiveTasks, StatesDiffer DEF Waiting
<1>4. ~ HighWaits
  BY <1>3 DEF HighWaits, Control, Roles
<1> QED
  BY <1>1, <1>2, <1>3, <1>4 DEF Inside

\* Priorities while High does not wait: every task has its own.
LEMMA RanksWithout ==
  ASSUME Control, ~ HighWaits, ~ HighWaits',
         \A u \in Tasks : State(u)' # FreeTask =>
           \/ /\ State(u) # FreeTask /\ role'[u] = role[u]
              /\ priority'[u] = priority[u] /\ originalPriority'[u] = originalPriority[u]
           \/ /\ role'[u] # "none"
              /\ priority'[u] = Prio[role'[u]] /\ originalPriority'[u] = Prio[role'[u]]
  PROVE  Ranks'
<1>1. \A u \in Tasks : Rank(u) = Prio[role[u]] /\ Rank(u)' = Prio[role'[u]]
  BY DEF Rank
<1> QED
  BY <1>1 DEF Control, Ranks

LEMMA BootSaysKept ==
  ASSUME Control, boot = "done", boot' = boot, Active' <=> Active, semStat' = semStat,
         semOwner'[sem_uart_rx] = semOwner[sem_uart_rx]
  PROVE  BootSays'
BY DEF Control, BootSays, RxSemMade

LEMMA DemoCreateSemInv ==
  ASSUME Control, DemoCreateSem, OS_SEM_COUNT_MAX > 0
  PROVE  Control'
<1>1. /\ Executing(Shell) /\ shellPc = "create_sem" /\ PRT_SemCreate(1)
      /\ UNCHANGED <<boot, role, pc, uses, loops, clockVars>>
  BY DEF DemoCreateSem, ShellAt, CommandReturns, envVars, bootVars
<1>2. ~ DemoAlive
  BY <1>1 DEF Control, Order
<1>3. ~ (1 > OS_SEM_COUNT_MAX) /\ 1 <= OS_SEM_COUNT_MAX
  BY DemoNames
<1>4. CASE unusedSem = << >>
  <2>1. UNCHANGED vars
    BY <1>1, <1>3, <1>4 DEF PRT_SemCreate, Fail
  <2>2. shellPc' = "pend" /\ UNCHANGED demoVars
    BY <1>1, <1>4 DEF DemoCreateSem, CommandReturns, ShellPrompt, demoVars
  <2> QED
    BY <1>1, <2>1, <2>2, ShellQuietInv
<1>5. CASE unusedSem # << >>
  <2>0. PICK s : s = Head(unusedSem)
    OBVIOUS
  <2>1. shellPc' = "create_low" /\ sharedResource' = s
    BY <1>5, <2>0 DEF DemoCreateSem, ShellAt
  <2>2. /\ semCount' = [semCount EXCEPT ![s] = 1]
        /\ semStat' = [semStat EXCEPT ![s] = "USED"]
        /\ semOwner' = [semOwner EXCEPT ![s] = NoTask]
        /\ UNCHANGED <<status, priority, highest, running, uniFlag>> /\ UNCHANGED tskVars
    BY <1>1, <1>3, <1>5, <2>0 DEF PRT_SemCreate, Fail
  <2>3. IInv /\ Tops /\ Active /\ boot = "done" /\ semStat[sem_uart_rx] = "USED"
    BY <1>1, ShellExecutes
  <2>4. IInv' /\ s \in Sems /\ semStat[s] = "UNUSED"
    <3>1. PICK c \in Nat : c = 1
      OBVIOUS
    <3>2. IInv'
      BY <1>1, <2>3, <3>1, SemCreateInv
    <3>3. unusedSem \in Seq(Sems)
      BY <2>3 DEF IInv, RestType
    <3>4. s \in Range(unusedSem)
      BY <1>5, <2>0, <3>3, HeadOfList
    <3> QED
      BY <2>3, <3>2, <3>4 DEF IInv, UnusedSems
  <2>5. UNCHANGED <<originalPriority, taskSem>> /\ s # sem_uart_rx
    BY <2>2, <2>3, <2>4 DEF tskVars
  <2>6. Tops' /\ (Active' <=> Active) /\ \A t \in Tasks : State(t)' = State(t)
    BY <2>2, <2>3 DEF Tops, Active, State
  <2>7. /\ semStat'[s] = "USED" /\ semCount'[s] = 1
        /\ semStat'[sem_uart_rx] = "USED"
        /\ semOwner'[sem_uart_rx] = semOwner[sem_uart_rx]
    BY <2>2, <2>3, <2>4, <2>5, DemoNames, SemTypes
  <2>8. BootSays'
    BY <1>1, <2>3, <2>6, <2>7 DEF Control, BootSays, RxSemMade
  <2>9. /\ ~ HighWaits /\ ~ HighWaits' /\ ~ DemoAlive'
        /\ \A t \in Tasks : /\ ~ Live(t)' /\ ~ Inside(t)' /\ ~ Inside(t)
                            /\ pc[t] \notin HeldLabels
                            /\ Waiting(t)' => t = Shell
    <3>1. \A t \in Tasks : Waiting(t)' <=> Waiting(t)
      BY <2>6 DEF Waiting
    <3>2. \A t \in Tasks : pc[t] \notin HeldLabels
      BY <1>2, NoneAlive DEF HeldLabels, Live, Control, Roles
    <3> QED
      BY <1>1, <1>2, <3>1, <3>2, NoneAlive DEF HighWaits, DemoAlive, Live, Inside
  <2>10. Roles'
    <3>1. UNCHANGED <<role, pc, uses>> /\ sharedResource' \in Sems /\ Shell \in Tasks
      BY <1>1, <2>1, <2>4, DemoNames
    <3>2. \A t \in Tasks : State(t)' = State(t)
      BY <2>6
    <3> QED
      BY <3>1, <3>2 DEF Control, Roles
  <2>11. Order'
    BY <2>9 DEF Order
  <2>12. Waiters'
    BY <2>5, <2>6, <2>9 DEF Control, Waiters, Waiting
  <2>13. Mutex'
    BY <1>1, <2>1, <2>5, <2>7, <2>9 DEF Mutex
  <2>14. Ranks'
    BY <1>1, <2>2, <2>5, <2>6, <2>9, RanksWithout
  <2> QED
    BY <2>4, <2>6, <2>8, <2>10, <2>11, <2>12, <2>13, <2>14 DEF Control
<1> QED
  BY <1>4, <1>5

-----------------------------------------------------------------------------
(***************************************************************************)
(* Steps that leave the roles as they are.                                  *)
(***************************************************************************)
Places(r) == IF r = "high" THEN HighLabels ELSE IF r = "mid" THEN MidLabels ELSE LowLabels

\* Where a task of the demo may be after a step.
MayGo(u) ==
  /\ pc'[u] \in Places(role[u])
  /\ pc'[u] = "exited" <=> State(u)' = ExitedTask
  /\ State(u)' = SuspendedTask => State(u) = SuspendedTask /\ pc'[u] = pc[u]
  /\ pc[u] = "exited" => pc'[u] = "exited"
  /\ role[u] = "low" /\ pc'[u] \in {"take", "create_high"} => pc[u] \in {"take", "create_high"}

Moves == /\ UNCHANGED <<boot, sharedResource, role>> /\ boot = "done"
         /\ pc' \in [Tasks -> TaskLabels] /\ uses' \in [Tasks -> Sems \cup {NoSem}]
         /\ shellPc' \notin {"create_sem", "create_low"}
         /\ \A u \in Tasks : IF role[u] = "none" THEN pc'[u] = pc[u] ELSE MayGo(u)

\* A task that stays where it is may.
LEMMA StaysThere ==
  ASSUME Control, NEW u \in Tasks, role[u] # "none", pc'[u] = pc[u],
         State(u)' = State(u) \/ /\ State(u)' = ReadyTask
                                 /\ State(u) \in {SuspendedTask, WaitingTask}
  PROVE  MayGo(u)
BY StatesDiffer DEF Control, Roles, MayGo, Places

LEMMA MovesKept ==
  ASSUME Control, Calm, Moves, semOwner'[sem_uart_rx] = semOwner[sem_uart_rx]
  PROVE  /\ IInv' /\ Tops' /\ BootSays' /\ Roles' /\ Order' /\ (Made' => Made)
         /\ \A u \in Tasks : Live(u)' => Live(u)
<1>1. \A u \in Tasks : Live(u)' => Live(u)
  BY DEF Moves, MayGo, Live
<1>2. Made' => Made
  BY <1>1 DEF Made, DemoAlive, Moves, Live
<1>3. BootSays'
  BY BootSaysKept DEF Calm, Moves
<1>4. Roles'
  <2>1. /\ sharedResource' \in Sems /\ role' \in [Tasks -> {"none", "high", "mid", "low"}]
        /\ pc' \in [Tasks -> TaskLabels] /\ uses' \in [Tasks -> Sems \cup {NoSem}]
        /\ role'[Shell] = "none"
    BY DEF Control, Roles, Moves
  <2>2. ASSUME NEW t \in Tasks
        PROVE  /\ role'[t] = "none" <=> pc'[t] = "none"
               /\ role'[t] = "high" => pc'[t] \in HighLabels
               /\ role'[t] = "mid" => pc'[t] \in MidLabels
               /\ role'[t] = "low" => pc'[t] \in LowLabels
    BY DEF Control, Roles, Moves, MayGo, Places, HighLabels, MidLabels, LowLabels
  <2>3. ASSUME NEW t \in Tasks, role'[t] # "none"
        PROVE  /\ State(Shell)' # FreeTask /\ State(t)' # FreeTask
               /\ pc'[t] = "exited" <=> State(t)' = ExitedTask
               /\ State(t)' = SuspendedTask =>
                    pc'[t] \in (IF role'[t] = "low" THEN {"take"} ELSE {"before", "run"})
    BY <2>3, DemoNames DEF Control, Roles, Moves, MayGo, Calm
  <2> QED
    BY <2>1, <2>2, <2>3 DEF Roles
<1>5. Order'
  <2>1. \A l \in Tasks : role'[l] = "low" /\ pc'[l] \in {"take", "create_high"} =>
          role[l] = "low" /\ pc[l] \in {"take", "create_high"}
    BY DEF Moves, MayGo
  <2>2. role' = role /\ shellPc' \notin {"create_sem", "create_low"}
    BY DEF Moves
  <2> QED
    BY <1>1, <2>1, <2>2 DEF Control, Order
<1> QED
  BY <1>1, <1>2, <1>3, <1>4, <1>5 DEF Calm

\* Nobody takes, gives, or begins or ceases to wait.
LEMMA QuietMove ==
  ASSUME Control, Calm, Moves, SamePriorities, SameSems, taskSem' = taskSem, uses' = uses,
         \A u \in Tasks :
           /\ Waiting(u)' <=> Waiting(u)
           /\ Waiting(u) => pc'[u] = pc[u]
           /\ pc'[u] \in HeldLabels <=> pc[u] \in HeldLabels
           /\ pc[u] = "return" => pc'[u] \in {"return", "exited"}
  PROVE  Control'
<1>1. /\ IInv' /\ Tops' /\ BootSays' /\ Roles' /\ Order' /\ (Made' => Made)
      /\ \A u \in Tasks : Live(u)' => Live(u)
  BY MovesKept DEF SameSems
<1>2. /\ role' = role /\ sharedResource' = sharedResource
      /\ shellPc' # "create_low" /\ semStat' = semStat
  BY DEF Moves, Calm
<1>3. \A u \in Tasks : Inside(u)' <=> Inside(u)
  BY DEF Inside
<1>4. HighWaits' <=> HighWaits
  BY <1>2 DEF HighWaits
<1>5. Waiters'
  BY <1>2 DEF Control, Waiters
<1>6. Mutex'
  <2>1. \A u \in Tasks : Live(u)' /\ pc[u] = "return" => pc'[u] = "return"
    BY DEF Live
  <2> QED
    BY <1>1, <1>2, <1>3, <2>1 DEF Control, Mutex, SameSems
<1>7. Ranks'
  <2>1. \A t \in Tasks : Rank(t)' = Rank(t)
    BY <1>2, <1>4 DEF Rank, SameSems
  <2> QED
    BY <1>2, <2>1 DEF Control, Ranks, SamePriorities, Calm
<1> QED
  BY <1>1, <1>5, <1>6, <1>7 DEF Control

\* A free task is none of the demo's.
LEMMA FreeIsNone ==
  ASSUME Control, NEW n \in Tasks, State(n) = FreeTask
  PROVE  /\ role[n] = "none" /\ pc[n] = "none"
         /\ ~ Live(n) /\ ~ Inside(n) /\ ~ Waiting(n)
<1>1. role[n] = "none" /\ pc[n] = "none"
  BY DEF Control, Roles
<1> QED
  BY <1>1, StatesDiffer DEF Live, Inside, HeldLabels, Waiting

\* The call itself, with what CreateTask notes of it.
LEMMA CreateTaskEffect ==
  ASSUME Control, Active, NEW r \in {"high", "mid", "low"}, NEW first, NEW handled,
         CreateTask(r, first, handled)
  PROVE  /\ IInv' /\ Tops' /\ (Active' <=> Active) /\ semStat' = semStat
         /\ ~ PoolsHaveTask => Calm /\ Idles /\ role' = role /\ pc' = handled
         /\ PoolsHaveTask => \E n \in Tasks :
              /\ Makes(n, Prio[r])
              /\ role' = [role EXCEPT ![n] = r] /\ pc' = [handled EXCEPT ![n] = first]
<1>0. PICK n : n = Head(list[FreeList])
  OBVIOUS
<1>1. PICK p \in 0 .. OS_TSK_PRIORITY_LOWEST : p = Prio[r]
  BY DemoNames
<1>2. PRT_TaskCreate(p)
  BY <1>1 DEF CreateTask
<1>3. /\ IInv' /\ Tops' /\ (Active' <=> Active) /\ semStat' = semStat
      /\ unusedSem' = unusedSem
      /\ PoolsHaveTask => n \in Tasks /\ Makes(n, p)
      /\ ~ PoolsHaveTask => Idles
  BY <1>0, <1>2, CreateEffect DEF Control
<1>4. /\ PoolsHaveTask => /\ role' = [role EXCEPT ![n] = r]
                          /\ pc' = [handled EXCEPT ![n] = first]
      /\ ~ PoolsHaveTask => role' = role /\ pc' = handled
  BY <1>0 DEF CreateTask
<1>5. ~ PoolsHaveTask => Calm
  BY <1>3 DEF Calm, Idles, SameStates
<1> QED
  BY <1>1, <1>3, <1>4, <1>5

LEMMA DemoCreateLowInv ==
  ASSUME Control, DemoCreateLow
  PROVE  Control'
<1>1. /\ Executing(Shell) /\ shellPc = "create_low" /\ CreateTask("low", "take", pc)
      /\ UNCHANGED <<boot, sharedResource, loops, uses, clockVars>>
  BY DEF DemoCreateLow, ShellAt, CommandReturns, envVars, bootVars
<1>2. /\ ~ DemoAlive /\ Made /\ Active /\ boot = "done" /\ Shell \in Tasks
      /\ State(Shell) = ReadyTask
  BY <1>1, ShellExecutes DEF Control, Order, Made
<1>3. CASE ~ PoolsHaveTask
  <2>1. Calm /\ Idles /\ role' = role /\ pc' = pc
    BY <1>1, <1>2, <1>3, CreateTaskEffect
  <2>2. shellPc' = "pend"
    BY <1>3 DEF DemoCreateLow, CommandReturns, ShellPrompt
  <2>3. Outside
    BY <2>1, RxIsOutside
  <2> QED
    BY <1>1, <1>2, <2>1, <2>2, <2>3, OutsideKept DEF ShellStep
<1>4. CASE PoolsHaveTask
  <2>1. PICK n \in Tasks : /\ Makes(n, Prio["low"]) /\ IInv' /\ Tops' /\ (Active' <=> Active)
                           /\ semStat' = semStat /\ role' = [role EXCEPT ![n] = "low"]
                           /\ pc' = [pc EXCEPT ![n] = "take"]
    BY <1>1, <1>2, <1>4, CreateTaskEffect
  <2>2. shellPc' = "resume_low"
    BY <1>4 DEF DemoCreateLow, ShellAt
  <2>3. /\ State(n) = FreeTask /\ State(n)' = SuspendedTask /\ SameStates(Tasks \ {n})
        /\ SameSems /\ taskSem' = [taskSem EXCEPT ![n] = NoSem]
        /\ \A u \in Tasks \ {n} : /\ priority'[u] = priority[u]
                                 /\ originalPriority'[u] = originalPriority[u]
        /\ priority'[n] = 15 /\ originalPriority'[n] = 15
    BY <2>1, DemoNames DEF Makes
  <2>4. role[n] = "none" /\ n # Shell /\ ~ Waiting(n) /\ ~ Waiting(n)'
    BY <1>2, <2>3, FreeIsNone, StatesDiffer DEF Waiting
  <2>5. /\ role \in [Tasks -> {"none", "high", "mid", "low"}] /\ pc \in [Tasks -> TaskLabels]
        /\ role'[n] = "low" /\ pc'[n] = "take"
        /\ \A u \in Tasks \ {n} : role'[u] = role[u] /\ pc'[u] = pc[u]
    BY <2>1 DEF Control, Roles
  <2>6. /\ ~ HighWaits /\ ~ HighWaits'
        /\ \A u \in Tasks : ~ Inside(u) /\ ~ Inside(u)'
        /\ \A u \in Tasks : Live(u)' => u = n
        /\ \A u \in Tasks : Waiting(u)' => u = Shell /\ Waiting(u)
        /\ \A u \in Tasks : pc'[u] \notin HeldLabels
    <3>1. \A u \in Tasks : Waiting(u)' => u # n /\ Waiting(u)
      BY <2>3, <2>4 DEF SameStates, Waiting
    <3>2. ~ HighWaits /\ \A u \in Tasks : ~ Live(u) /\ ~ Inside(u) /\ (Waiting(u) => u = Shell)
      BY <1>2, NoneAlive
    <3>3. \A u \in Tasks : pc'[u] \notin HeldLabels
      BY <2>5, <3>2 DEF HeldLabels, Live, Control, Roles
    <3>4. ~ HighWaits'
      BY <2>4, <2>5, <3>1, <3>2 DEF HighWaits, Control, Roles
    <3> QED
      BY <2>5, <3>1, <3>2, <3>3, <3>4 DEF Live, Inside
  <2>7. BootSays'
    BY <1>1, <1>2, <2>1, <2>3, BootSaysKept DEF SameSems
  <2>8. Roles'
    <3>1. /\ sharedResource' \in Sems /\ uses' \in [Tasks -> Sems \cup {NoSem}]
          /\ role' \in [Tasks -> {"none", "high", "mid", "low"}]
          /\ pc' \in [Tasks -> TaskLabels]
      BY <1>1, <2>1, <2>5 DEF Control, Roles, TaskLabels, LowLabels
    <3>2. role'[Shell] = "none"
      BY <1>2, <2>4, <2>5 DEF Control, Roles
    <3>3. State(Shell)' # FreeTask /\ State(n)' # FreeTask /\ State(n)' # ExitedTask
      BY <1>2, <2>3, <2>4, StatesDiffer DEF SameStates
    <3>4. ASSUME NEW t \in Tasks \ {n}
          PROVE  role'[t] = role[t] /\ pc'[t] = pc[t] /\ State(t)' = State(t)
      BY <2>3, <2>5 DEF SameStates
    <3> QED
      BY <2>5, <3>1, <3>2, <3>3, <3>4 DEF Control, Roles, LowLabels
  <2>9. Order'
    BY <2>2, <2>5, <2>6 DEF Order
  <2>10. Waiters'
    <3>1. \A u \in Tasks \ {n} : taskSem'[u] = taskSem[u]
      BY <2>3, SemTypes, Names DEF Control
    <3> QED
      BY <2>4, <2>6, <3>1 DEF Control, Waiters
  <2>11. Mutex'
    <3>1. /\ sharedResource # sem_uart_rx /\ semStat[sharedResource] = "USED"
          /\ semCount[sharedResource] = 1
      BY <1>1, <1>2, <2>6 DEF Control, Mutex
    <3> QED
      BY <1>1, <2>1, <2>3, <2>6, <3>1 DEF Mutex, SameSems
  <2>12. Ranks'
    <3>1. role'[n] # "none" /\ Prio[role'[n]] = 15
      BY <2>5, DemoNames
    <3>2. \A u \in Tasks \ {n} : State(u)' = State(u)
      BY <2>3 DEF SameStates
    <3> QED
      BY <2>3, <2>5, <2>6, <3>1, <3>2, RanksWithout
  <2> QED
    BY <2>1, <2>7, <2>8, <2>9, <2>10, <2>11, <2>12 DEF Control
<1> QED
  BY <1>3, <1>4

\* A task of the demo is resumed, by the shell or by Low.
LEMMA ResumeTaskEffect ==
  ASSUME Control, Active, NEW r \in {"high", "mid", "low"}, ResumeTask(r)
  PROVE  /\ Calm /\ SamePriorities /\ SameSems /\ taskSem' = taskSem
         /\ \E n \in Tasks : /\ role[n] = r /\ State(n) = SuspendedTask
                             /\ State(n)' \in {SuspendedTask, ReadyTask}
                             /\ SameStates(Tasks \ {n})
         /\ \A u \in Tasks : Waiting(u)' <=> Waiting(u)
<1>1. PICK n \in Tasks : role[n] = r /\ "SUSPEND" \in status[n] /\ PRT_TaskResume(n)
  BY DEF ResumeTask
<1>2. State(n) = SuspendedTask
  BY <1>1, States DEF Control
<1>3. Calm /\ (Resumes(n) \/ Idles)
  BY <1>1, ResumeEffect DEF Control
<1>4. /\ SamePriorities /\ SameSems /\ taskSem' = taskSem
      /\ State(n)' \in {SuspendedTask, ReadyTask} /\ SameStates(Tasks \ {n})
  BY <1>2, <1>3 DEF Resumes, Idles, SameStates, SameSems
<1>5. \A u \in Tasks : Waiting(u)' <=> Waiting(u)
  BY <1>2, <1>4, StatesDiffer DEF Waiting, SameStates
<1> QED
  BY <1>1, <1>2, <1>3, <1>4, <1>5

LEMMA DemoResumeLowInv ==
  ASSUME Control, DemoResumeLow
  PROVE  Control'
<1>1. /\ Executing(Shell) /\ shellPc' = "pend" /\ ResumeTask("low") /\ UNCHANGED boot
      /\ UNCHANGED <<sharedResource, role, pc, uses>>
  BY DEF DemoResumeLow, CommandReturns, ShellPrompt, envVars, bootVars, demoVars
<1>2. Active /\ boot = "done"
  BY <1>1, ShellExecutes
<1>3. PICK n \in Tasks : /\ Calm /\ SamePriorities /\ SameSems /\ taskSem' = taskSem
                         /\ State(n) = SuspendedTask
                         /\ State(n)' \in {SuspendedTask, ReadyTask}
                         /\ SameStates(Tasks \ {n})
                         /\ \A u \in Tasks : Waiting(u)' <=> Waiting(u)
  BY <1>1, <1>2, ResumeTaskEffect
<1>4. Moves
  <2>1. \A u \in Tasks : role[u] # "none" => MayGo(u)
    BY <1>1, <1>3, StaysThere DEF SameStates
  <2> QED
    BY <1>1, <1>2, <2>1 DEF Moves, Control, Roles
<1> QED
  BY <1>1, <1>3, <1>4, QuietMove DEF HeldLabels

-----------------------------------------------------------------------------
(***************************************************************************)
(* Steps of the demo's tasks.                                               *)
(***************************************************************************)
\* Task t of the demo, of the kind r, executes at the label a.
Acts(t, r, a) == /\ running = t /\ role[t] = r /\ pc[t] = a
                 /\ State(t) = ReadyTask /\ ~ Waiting(t) /\ Live(t) /\ Made
                 /\ boot = "done" /\ Active
                 /\ sharedResource \in Sems /\ sharedResource # sem_uart_rx
                 /\ semStat[sharedResource] = "USED"
                 /\ UNCHANGED <<boot, shellPc, sharedResource>>
                 /\ shellPc' \notin {"create_sem", "create_low"}

LEMMA TaskActs ==
  ASSUME Control, NEW t \in Tasks, NEW r, NEW a, TaskAt(t, r, a), r # "none", a # "exited"
  PROVE  Acts(t, r, a)
<1>1. /\ running = t /\ role[t] = r /\ pc[t] = a
      /\ UNCHANGED <<boot, shellPc, sharedResource>>
  BY DEF TaskAt, Executing, envVars, bootVars, shellVars
<1>2. /\ State(t) = ReadyTask /\ Live(t) /\ ~ Waiting(t)
  BY <1>1, RunnerReady, StatesDiffer DEF Control, Live, Waiting
<1>3. Made /\ boot = "done" /\ Active /\ DemoAlive
  BY <1>1, <1>2, LiveTasks DEF DemoAlive, Live
<1>4. /\ sharedResource \in Sems /\ sharedResource # sem_uart_rx
      /\ semStat[sharedResource] = "USED"
      /\ shellPc \notin {"create_sem", "create_low"}
  BY <1>3 DEF Control, Roles, Mutex, Order
<1> QED
  BY <1>1, <1>2, <1>3, <1>4 DEF Acts

\* Task t goes on to b; others may have been readied.
LEMMA OneMoves ==
  ASSUME Control, NEW t \in Tasks, NEW r \in {"high", "mid", "low"}, NEW a, Acts(t, r, a),
         NEW b \in Places(r), Goto(t, b), role' = role,
         uses' \in [Tasks -> Sems \cup {NoSem}],
         b = "exited" <=> State(t)' = ExitedTask, State(t)' # SuspendedTask,
         r = "low" /\ b \in {"take", "create_high"} => a \in {"take", "create_high"},
         \A u \in Tasks \ {t} : \/ State(u)' = State(u)
                                \/ /\ State(u)' = ReadyTask
                                   /\ State(u) \in {SuspendedTask, WaitingTask}
  PROVE  /\ Moves /\ pc'[t] = b
         /\ \A u \in Tasks \ {t} : pc'[u] = pc[u]
<1>1. pc \in [Tasks -> TaskLabels] /\ b \in TaskLabels
  BY DEF Control, Roles, Places, TaskLabels
<1>2. /\ pc' \in [Tasks -> TaskLabels] /\ pc'[t] = b
      /\ \A u \in Tasks \ {t} : pc'[u] = pc[u]
  BY <1>1 DEF Goto
<1>3. role[t] = r /\ pc[t] = a /\ a # "exited"
  BY DEF Acts, Live
<1>4. MayGo(t)
  BY <1>2, <1>3 DEF MayGo
<1>5. \A u \in Tasks \ {t} : role[u] # "none" => MayGo(u)
  BY <1>2, StaysThere
<1> QED
  BY <1>2, <1>3, <1>4, <1>5 DEF Moves, Acts

\* A step with no call on the resource.
LEMMA QuietTaskInv ==
  ASSUME Control, NEW t \in Tasks, NEW r \in {"high", "mid", "low"}, NEW a, Acts(t, r, a),
         NEW b \in Places(r), Goto(t, b), role' = role, uses' = uses,
         Calm, SamePriorities, SameSems, taskSem' = taskSem,
         b = "exited" <=> State(t)' = ExitedTask,
         State(t)' \in {ReadyTask, ExitedTask},
         r = "low" /\ b \in {"take", "create_high"} => a \in {"take", "create_high"},
         \A u \in Tasks \ {t} : \/ State(u)' = State(u)
                                \/ State(u)' = ReadyTask /\ State(u) = SuspendedTask,
         a \in HeldLabels <=> b \in HeldLabels, a = "return" => b = "exited"
  PROVE  Control'
<1>1. uses' \in [Tasks -> Sems \cup {NoSem}]
  BY DEF Control, Roles
<1>2. /\ Moves /\ pc'[t] = b
      /\ \A u \in Tasks \ {t} : pc'[u] = pc[u]
  BY <1>1, StatesDiffer, OneMoves
<1>3. /\ pc[t] = a /\ ~ Waiting(t)
      /\ \A u \in Tasks : Waiting(u)' <=> Waiting(u)
  BY StatesDiffer DEF Acts, Waiting
<1> QED
  BY <1>2, <1>3, QuietMove

LEMMA HighClockInv ==
  ASSUME Control, NEW t \in Tasks, HighBefore(t) \/ HighAfter(t)
  PROVE  Control' /\ Idles
<1>1. PICK a \in {"before", "after"}, b \in {"take", "give"} :
         /\ TaskAt(t, "high", a) /\ Goto(t, b)
         /\ a \in HeldLabels <=> b \in HeldLabels
         /\ UNCHANGED vars /\ role' = role /\ uses' = uses
  BY DEF HighBefore, HighAfter, HeldLabels
<1>2. Acts(t, "high", a) /\ Calm /\ Idles
  BY <1>1, TaskActs, KernelKept DEF Control
<1>3. /\ SamePriorities /\ SameSems /\ taskSem' = taskSem
      /\ \A u \in Tasks : State(u)' = State(u)
      /\ State(t)' = ReadyTask
  BY <1>2 DEF Idles, SameSems, SameStates, Acts
<1>4. b \in Places("high") /\ b # "exited" /\ "high" # "low" /\ a # "return"
  BY DEF Places, HighLabels
<1> QED
  BY <1>1, <1>2, <1>3, <1>4, StatesDiffer, QuietTaskInv

LEMMA EntryReturnsInv ==
  ASSUME Control, NEW t \in Tasks, NEW r \in {"high", "mid", "low"},
         NEW a \in {"before", "run", "return"}, TaskAt(t, r, a), EntryReturns(t)
  PROVE  Control' /\ Calm /\ Exits(t)
<1>1. Acts(t, r, a) /\ Goto(t, "exited") /\ role' = role /\ uses' = uses
  BY TaskActs DEF EntryReturns
<1>2. Calm /\ Exits(t)
  BY <1>1, ExitEffect DEF EntryReturns, Control, Acts
<1>3. "exited" \in Places(r) /\ "exited" \notin HeldLabels /\ a \notin HeldLabels
  BY DEF Places, HighLabels, MidLabels, LowLabels, HeldLabels
<1> QED
  BY <1>1, <1>2, <1>3, QuietTaskInv DEF Exits, SameStates

LEMMA LowResumesInv ==
  ASSUME Control, NEW t \in Tasks, LowResumes(t), role' = role, uses' = uses
  PROVE  Control'
<1>1. PICK r \in {"high", "mid"}, a \in {"resume_high", "resume_mid"},
           b \in {"create_mid", "give"} :
         TaskAt(t, "low", a) /\ ResumeTask(r) /\ Goto(t, b)
  BY DEF LowResumes
<1>2. Acts(t, "low", a)
  BY <1>1, TaskActs
<1>3. PICK n \in Tasks : /\ Calm /\ SamePriorities /\ SameSems /\ taskSem' = taskSem
                         /\ State(n) = SuspendedTask
                         /\ State(n)' \in {SuspendedTask, ReadyTask}
                         /\ SameStates(Tasks \ {n})
  BY <1>1, <1>2, ResumeTaskEffect DEF Acts
<1>4. n # t /\ State(t)' = ReadyTask
  BY <1>2, <1>3, StatesDiffer DEF Acts, SameStates
<1>5. b \in Places("low") /\ b # "exited" /\ a \in HeldLabels /\ b \in HeldLabels
      /\ b \notin {"take", "create_high"} /\ a # "return"
  BY DEF Places, LowLabels, HeldLabels
<1>6. \A u \in Tasks \ {t} : \/ State(u)' = State(u)
                             \/ State(u)' = ReadyTask /\ State(u) = SuspendedTask
  BY <1>3 DEF SameStates
<1> QED
  BY <1>1, <1>2, <1>3, <1>4, <1>5, <1>6, StatesDiffer, QuietTaskInv

\* The holder, and who waits, when a task comes to take the resource.
LEMMA AtTake ==
  ASSUME Control, NEW t \in Tasks, NEW r, NEW a, Acts(t, r, a), a \notin HeldLabels,
         \/ r = "high" /\ a = "take"
         \/ r = "low" /\ a \in {"take", "again"}
  PROVE  /\ ~ Inside(t)
         /\ semCount[sharedResource] > 0 => /\ semCount[sharedResource] = 1 /\ ~ HighWaits
                                            /\ \A u \in Tasks : ~ Inside(u)
         /\ semCount[sharedResource] = 0 =>
              /\ r = "high" /\ ~ HighWaits /\ NobodyWaits(sharedResource)
              /\ semOwner[sharedResource] \in Tasks /\ semOwner[sharedResource] # t
              /\ role[semOwner[sharedResource]] = "low"
              /\ \A u \in Tasks : Inside(u) <=> u = semOwner[sharedResource]
<1>1. /\ running = t /\ role[t] = r /\ pc[t] = a /\ State(t) = ReadyTask /\ ~ Waiting(t)
      /\ Live(t) /\ Made /\ sharedResource # sem_uart_rx /\ sharedResource \in Sems
  BY DEF Acts
<1>2. ~ Inside(t)
  BY <1>1 DEF Inside
<1>3. \A u \in Tasks : Inside(u) => Live(u) /\ role[u] \in {"high", "low"}
  BY DEF Inside, HeldLabels, MidLabels, Live, Control, Roles
<1>4. semCount[sharedResource] > 0 =>
        /\ semCount[sharedResource] = 1 /\ ~ HighWaits /\ \A u \in Tasks : ~ Inside(u)
  <2>1. semCount[sharedResource] > 0 => semCount[sharedResource] # 0
    OBVIOUS
  <2>2. semCount[sharedResource] # 0 => ~ HighWaits
    BY HolderIsLow DEF HighWaits
  <2>3. semCount[sharedResource] # 0 =>
          semCount[sharedResource] = 1 /\ \A u \in Tasks : ~ Inside(u)
    BY <1>1 DEF Control, Mutex
  <2> QED
    BY <2>1, <2>2, <2>3
<1>5. ASSUME semCount[sharedResource] = 0
      PROVE  /\ r = "high" /\ ~ HighWaits /\ NobodyWaits(sharedResource)
             /\ semOwner[sharedResource] \in Tasks /\ semOwner[sharedResource] # t
             /\ role[semOwner[sharedResource]] = "low"
             /\ \A u \in Tasks : Inside(u) <=> u = semOwner[sharedResource]
  <2>1. /\ semOwner[sharedResource] \in Tasks
        /\ \A u \in Tasks : Inside(u) <=> u = semOwner[sharedResource]
    BY <1>1, <1>5 DEF Control, Mutex
  <2>2. PICK o \in Tasks : o = semOwner[sharedResource] /\ Inside(o)
    BY <2>1
  <2>3. o # t /\ Live(o) /\ role[o] \in {"high", "low"}
    BY <1>2, <1>3, <2>2
  <2>4. role[o] = "low"
    <3> SUFFICES ASSUME role[o] = "high" PROVE FALSE
      BY <2>3
    <3>1. State(o) = ReadyTask
      <4>1. State(o) # SuspendedTask
        BY <2>2, <2>3 DEF Inside, HeldLabels, Control, Roles
      <4>2. ~ Waiting(o)
        BY <2>2 DEF Inside
      <4> QED
        BY <2>3, <4>1, <4>2, LiveTasks DEF Waiting
    <3>2. running = o
      BY <2>2, <3>1, HighReigns DEF Inside
    <3> QED
      BY <1>1, <2>3, <3>2
  <2>5. r = "high"
    BY <1>1, <2>3, <2>4 DEF Control, Order
  <2>6. ASSUME NEW u \in Tasks, Waiting(u), u # Shell PROVE FALSE
    <3>1. role[u] = "high" /\ Live(u)
      BY <2>6, LiveTasks, StatesDiffer DEF Control, Waiters, Waiting
    <3> QED
      BY <1>1, <2>5, <2>6, <3>1 DEF Control, Order
  <2>7. ~ HighWaits
    BY <2>6 DEF HighWaits, Control, Roles
  <2>8. NobodyWaits(sharedResource)
    BY <1>1, <2>6 DEF NobodyWaits, Control, Waiters
  <2> QED
    BY <2>1, <2>2, <2>3, <2>4, <2>5, <2>7, <2>8
<1> QED
  BY <1>2, <1>4, <1>5

LEMMA TaskTakesInv ==
  ASSUME Control, NEW t \in Tasks, NEW r, NEW a, NEW b, Acts(t, r, a), Take(t, b),
         \/ r = "high" /\ a = "take" /\ b = "after"
         \/ r = "low" /\ a = "take" /\ b = "create_high"
         \/ r = "low" /\ a = "again" /\ b = "give"
  PROVE  Control'
<1> DEFINE s == sharedResource
<1>1. /\ running = t /\ role[t] = r /\ pc[t] = a /\ State(t) = ReadyTask /\ ~ Waiting(t)
      /\ s # sem_uart_rx /\ s \in Sems /\ semStat[s] = "USED" /\ sharedResource' = s
      /\ Made /\ IInv /\ Tops /\ shellPc' # "create_low"
  BY DEF Acts, Control
<1>2. /\ PRT_SemPend(s, "FOREVER") /\ Goto(t, b) /\ role' = role
      /\ uses' = [uses EXCEPT ![t] = s]
  BY DEF Take
<1> HIDE DEF s
<1>3. Calm /\ (Takes(t, s) \/ Blocks(t, s))
  BY <1>1, <1>2, PendEffect
<1>4. /\ r \in {"high", "mid", "low"} /\ b \in Places(r) /\ b \in HeldLabels /\ b # "exited"
      /\ a \notin HeldLabels
      /\ r = "low" /\ b \in {"take", "create_high"} => a \in {"take", "create_high"}
      /\ \/ r = "high" /\ a = "take"
         \/ r = "low" /\ a \in {"take", "again"}
  BY DEF Places, HighLabels, LowLabels, HeldLabels
<1>5. /\ ~ Inside(t)
      /\ semCount[s] > 0 => /\ semCount[s] = 1 /\ ~ HighWaits
                            /\ \A u \in Tasks : ~ Inside(u)
      /\ semCount[s] = 0 =>
           /\ r = "high" /\ ~ HighWaits /\ NobodyWaits(s)
           /\ semOwner[s] \in Tasks /\ semOwner[s] # t /\ role[semOwner[s]] = "low"
           /\ \A u \in Tasks : Inside(u) <=> u = semOwner[s]
  BY <1>4, AtTake DEF s
<1>6. /\ uses' \in [Tasks -> Sems \cup {NoSem}] /\ uses'[t] = s
      /\ \A u \in Tasks \ {t} : uses'[u] = uses[u]
  BY <1>1, <1>2 DEF Control, Roles
<1>7. /\ State(t)' \in {ReadyTask, WaitingTask}
      /\ \A u \in Tasks \ {t} : State(u)' = State(u)
      /\ semOwner'[sem_uart_rx] = semOwner[sem_uart_rx]
  BY <1>1, <1>3, SemTypes, DemoNames DEF Takes, Blocks, SameStates
<1>8. /\ Moves /\ pc'[t] = b /\ \A u \in Tasks \ {t} : pc'[u] = pc[u]
  BY <1>2, <1>4, <1>6, <1>7, StatesDiffer, OneMoves
<1>9. /\ IInv' /\ Tops' /\ BootSays' /\ Roles' /\ Order'
  BY <1>3, <1>7, <1>8, MovesKept
<1>10. \A u \in Tasks \ {t} : (Waiting(u)' <=> Waiting(u)) /\ (Inside(u)' <=> Inside(u))
  BY <1>7, <1>8 DEF Waiting, Inside
<1>11. \A u \in Tasks : pc'[u] \in HeldLabels => uses'[u] = s
  BY <1>1, <1>6, <1>8 DEF Control, Mutex, s
<1>12. semStat'[s] = "USED"
  BY <1>1, <1>3 DEF Calm
<1>13. CASE Takes(t, s)
  <2>1. /\ semCount[s] = 1 /\ ~ HighWaits /\ \A u \in Tasks : ~ Inside(u)
    BY <1>5, <1>13 DEF Takes
  <2>2. semCount'[s] = 0 /\ semOwner'[s] = t /\ taskSem' = taskSem
    BY <1>1, <1>13, <2>1, SemTypes DEF Takes
  <2>3. State(t)' = ReadyTask /\ ~ Waiting(t)' /\ Inside(t)'
    BY <1>1, <1>4, <1>8, <1>13, StatesDiffer DEF Takes, SameStates, Waiting, Inside
  <2>4. Mutex'
    BY <1>1, <1>10, <1>11, <1>12, <2>1, <2>2, <2>3 DEF Mutex
  <2>5. Waiters'
    BY <1>1, <1>2, <1>8, <1>10, <2>2, <2>3 DEF Control, Waiters, s
  <2>6. ~ HighWaits'
    BY <1>2, <1>10, <2>1, <2>3 DEF HighWaits
  <2>7. Ranks'
    BY <1>2, <1>3, <1>13, <2>1, <2>6, RanksWithout DEF Calm, Takes, SamePriorities
  <2> QED
    BY <1>9, <2>4, <2>5, <2>7 DEF Control
<1>14. CASE Blocks(t, s)
  <2>1. PICK o \in Tasks :
             /\ r = "high" /\ ~ HighWaits /\ NobodyWaits(s)
             /\ semOwner[s] = o /\ o # t /\ role[o] = "low"
             /\ \A u \in Tasks : Inside(u) <=> u = o
    BY <1>5, <1>14 DEF Blocks
  <2>2. /\ semCount'[s] = 0 /\ semOwner' = semOwner /\ State(t)' = WaitingTask
        /\ taskSem' = [taskSem EXCEPT ![t] = s] /\ originalPriority' = originalPriority
        /\ \A u \in Tasks : priority'[u] = IF /\ u = o /\ State(u) # FreeTask
                                              /\ priority[t] < priority[u]
                                           THEN priority[t] ELSE priority[u]
    BY <1>14, <2>1 DEF Blocks
  <2>3. Waiting(t)' /\ ~ Inside(t)' /\ HighWaits'
    BY <1>1, <1>2, <2>1, <2>2 DEF Waiting, Inside, HighWaits
  <2>4. Mutex'
    BY <1>1, <1>5, <1>10, <1>11, <1>12, <2>1, <2>2, <2>3 DEF Mutex
  <2>5. Waiters'
    <3>1. taskSem'[t] = s /\ \A u \in Tasks \ {t} : taskSem'[u] = taskSem[u]
      BY <1>1, <2>2, SemTypes, Names
    <3>2. t # Shell
      BY <1>1, <2>1 DEF Control, Roles
    <3>3. r = "high" /\ b = "after"
      BY <2>1
    <3>4. ASSUME NEW u \in Tasks, Waiting(u)'
          PROVE  IF u = Shell THEN taskSem'[u] = sem_uart_rx
                 ELSE role'[u] = "high" /\ pc'[u] = "after" /\ taskSem'[u] = sharedResource'
      <4>1. CASE u = t
        BY <1>1, <1>2, <1>8, <3>1, <3>2, <3>3, <4>1
      <4>2. CASE u # t
        BY <1>1, <1>2, <1>8, <1>10, <3>1, <3>4, <4>2 DEF Control, Waiters, s
      <4> QED
        BY <4>1, <4>2
    <3> QED
      BY <3>4 DEF Waiters
  <2>6. Ranks'
    <3>1. State(o) # FreeTask /\ State(t) # FreeTask /\ priority[o] = 15 /\ priority[t] = 5
      BY <1>1, <2>1, Priorities DEF Control, Roles
    <3>2. priority'[o] = 5 /\ \A u \in Tasks \ {o} : priority'[u] = priority[u]
      BY <2>2, <3>1
    <3>3. Rank(o)' = 5
      BY <1>1, <1>2, <2>1, <2>2, <2>3, DemoNames DEF Rank
    <3>4. \A u \in Tasks \ {o} : Rank(u)' = Prio[role[u]] /\ Rank(u) = Prio[role[u]]
      BY <1>1, <1>2, <2>1, <2>2 DEF Rank
    <3>5. \A u \in Tasks : State(u)' = FreeTask <=> State(u) = FreeTask
      BY <1>3 DEF Calm
    <3> QED
      BY <1>2, <2>1, <2>2, <3>2, <3>3, <3>4, <3>5 DEF Control, Ranks
  <2> QED
    BY <1>9, <2>4, <2>5, <2>6 DEF Control
<1> QED
  BY <1>3, <1>13, <1>14

\* Who gives holds the resource, with its own priority unless somebody waits.
LEMMA AtGive ==
  ASSUME Control, NEW t \in Tasks, NEW r, Acts(t, r, "give"), NEW s, s = sharedResource
  PROVE  /\ semCount[s] = 0 /\ semOwner[s] = t /\ \A u \in Tasks : Inside(u) <=> u = t
         /\ State(t) # FreeTask /\ originalPriority[t] = Prio[r]
         /\ \A h \in Tasks : Waiting(h) /\ h # Shell =>
              role[h] = "high" /\ taskSem[h] = s /\ Live(h)
         /\ Settled(s)
<1>1. /\ running = t /\ role[t] = r /\ pc[t] = "give" /\ State(t) = ReadyTask /\ ~ Waiting(t)
      /\ s \in Sems /\ Made /\ Live(t) /\ IInv
  BY DEF Acts, Control
<1>3. /\ semCount[s] = 0 /\ semOwner[s] = t
      /\ \A u \in Tasks : Inside(u) <=> u = t
  <2>1. Inside(t)
    BY <1>1 DEF Inside, HeldLabels
  <2> QED
    BY <1>1, <2>1 DEF Control, Mutex
<1>4. State(t) # FreeTask /\ originalPriority[t] = Prio[r]
  BY <1>1, StatesDiffer DEF Control, Ranks, Live
<1>5. \A h \in Tasks : Waiting(h) /\ h # Shell => role[h] = "high" /\ taskSem[h] = s /\ Live(h)
  BY LiveTasks, StatesDiffer DEF Control, Waiters, Waiting
<1>6. Settled(s)
  <2>1. NobodyWaits(s) => ~ HighWaits
    BY <1>5 DEF NobodyWaits, HighWaits, Control, Roles
  <2>2. ~ HighWaits => priority[t] = originalPriority[t]
    BY <1>1, <1>4 DEF Control, Ranks, Rank
  <2> QED
    BY <1>3, <2>1, <2>2 DEF Settled
<1> QED
  BY <1>3, <1>4, <1>5, <1>6

LEMMA TaskGivesInv ==
  ASSUME Control, OS_SEM_COUNT_MAX > 0, NEW t \in Tasks, NEW r \in {"high", "low"}, NEW b,
         Acts(t, r, "give"), Give(t, b),
         \/ r = "high" /\ b = "before"
         \/ r = "low" /\ b \in {"again", "return"}
  PROVE  Control'
<1> DEFINE s == sharedResource
<1>1. /\ running = t /\ role[t] = r /\ pc[t] = "give" /\ State(t) = ReadyTask /\ ~ Waiting(t)
      /\ s # sem_uart_rx /\ s \in Sems /\ semStat[s] = "USED" /\ sharedResource' = s
      /\ Made /\ Live(t) /\ IInv /\ Tops /\ shellPc' # "create_low"
  BY DEF Acts, Control
<1>2. /\ PRT_SemPost(s) /\ Goto(t, b) /\ role' = role /\ uses' = uses
  BY DEF Give
<1> HIDE DEF s
<1>3. /\ semCount[s] = 0 /\ semOwner[s] = t /\ \A u \in Tasks : Inside(u) <=> u = t
      /\ State(t) # FreeTask /\ originalPriority[t] = Prio[r]
      /\ Settled(s)
  BY AtGive DEF s
<1>5. \A h \in Tasks : Waiting(h) /\ h # Shell => role[h] = "high" /\ taskSem[h] = s /\ Live(h)
  BY AtGive DEF s
<1>7. Calm /\ (Keeps(s) \/ \E h \in Tasks : Wakes(h, s))
  <2>1. ~ (0 >= OS_SEM_COUNT_MAX)
    BY DemoNames
  <2> QED
    BY <1>1, <1>2, <1>3, <2>1, PostEffect
<1>8. /\ r \in {"high", "mid", "low"} /\ b \in Places(r) /\ b # "exited"
      /\ b \notin HeldLabels /\ b \notin {"take", "create_high"}
      /\ uses' \in [Tasks -> Sems \cup {NoSem}]
  BY <1>2 DEF Places, HighLabels, LowLabels, HeldLabels, Control, Roles
<1>9. semStat'[s] = "USED"
  BY <1>1, <1>7 DEF Calm
<1>10. CASE Keeps(s)
  <2>1. /\ semCount'[s] = 1 /\ semOwner'[sem_uart_rx] = semOwner[sem_uart_rx]
        /\ \A u \in Tasks : State(u)' = State(u)
        /\ taskSem' = taskSem /\ NobodyWaits(s)
    BY <1>1, <1>3, <1>10, DemoNames, SemTypes DEF Keeps, SameStates
  <2>2. /\ Moves /\ pc'[t] = b /\ \A u \in Tasks \ {t} : pc'[u] = pc[u]
    BY <1>1, <1>2, <1>8, <2>1, StatesDiffer, OneMoves
  <2>3. /\ IInv' /\ Tops' /\ BootSays' /\ Roles' /\ Order'
    BY <1>7, <2>1, <2>2, MovesKept
  <2>4. /\ \A u \in Tasks : Waiting(u)' <=> Waiting(u)
        /\ \A u \in Tasks : Waiting(u) => u = Shell
    BY <1>5, <2>1 DEF Waiting, NobodyWaits
  <2>5. ~ HighWaits /\ ~ HighWaits'
    BY <1>2, <2>4 DEF HighWaits, Control, Roles
  <2>6. \A u \in Tasks : ~ Inside(u)'
    BY <1>3, <1>8, <2>2, <2>4 DEF Inside
  <2>7. Mutex'
    BY <1>1, <1>2, <1>8, <1>9, <2>1, <2>2, <2>6 DEF Mutex, Control, s
  <2>8. Waiters'
    BY <2>1, <2>4 DEF Control, Waiters
  <2>9. Ranks'
    BY <1>2, <1>7, <1>10, <2>5, RanksWithout DEF Calm, Keeps, SamePriorities
  <2> QED
    BY <2>3, <2>7, <2>8, <2>9 DEF Control
<1>11. ASSUME NEW h \in Tasks, Wakes(h, s)
       PROVE  Control'
  <2>1. /\ Waiting(h) /\ taskSem[h] = s /\ semCount' = semCount
        /\ semOwner' = [semOwner EXCEPT ![s] = h]
        /\ State(h)' = ReadyTask /\ \A u \in Tasks \ {h} : State(u)' = State(u)
        /\ taskSem' = [taskSem EXCEPT ![h] = NoSem]
        /\ originalPriority' = originalPriority
        /\ \A u \in Tasks : u # t => priority'[u] = priority[u]
        /\ \/ priority'[t] = originalPriority[t]
           \/ ~ OnlyWaiter(h, s) \/ priority[h] < priority[t]
    BY <1>3, <1>11 DEF Wakes, SameStates
  <2>2. h # Shell /\ role[h] = "high" /\ Live(h) /\ h # t /\ pc[h] = "after"
    BY <1>1, <1>5, <2>1, LiveTasks DEF Control, Waiters
  <2>3. r = "low"
    BY <1>1, <2>2 DEF Control, Order
  <2>4. /\ priority[t] = 5 /\ OnlyWaiter(h, s) /\ originalPriority[t] = 15
    BY <1>3, <2>1, <2>2, HolderIsLow DEF s
  <2>5. priority'[t] = 15
    <3>1. priority[h] = 5
      BY <2>1, <2>2, Priorities, StatesDiffer DEF Waiting
    <3> QED
      BY <2>1, <2>4, <3>1
  <2>6. /\ semOwner'[sem_uart_rx] = semOwner[sem_uart_rx] /\ semOwner'[s] = h
        /\ semCount'[s] = 0
    BY <1>1, <1>3, <2>1, DemoNames, SemTypes
  <2>7. /\ Moves /\ pc'[t] = b /\ \A u \in Tasks \ {t} : pc'[u] = pc[u]
    <3>1. \A u \in Tasks \ {t} : \/ State(u)' = State(u)
                                 \/ /\ State(u)' = ReadyTask
                                    /\ State(u) \in {SuspendedTask, WaitingTask}
      BY <2>1 DEF Waiting
    <3>2. State(t)' = ReadyTask
      BY <1>1, <2>1, <2>2
    <3> QED
      BY <1>1, <1>2, <1>8, <3>1, <3>2, StatesDiffer, OneMoves
  <2>8. /\ IInv' /\ Tops' /\ BootSays' /\ Roles' /\ Order'
    BY <1>7, <2>6, <2>7, MovesKept
  <2>9. /\ ~ Waiting(h)' /\ \A u \in Tasks \ {h} : Waiting(u)' <=> Waiting(u)
    BY <2>1, StatesDiffer DEF Waiting
  <2>10. ~ HighWaits'
    <3> SUFFICES ASSUME NEW g \in Tasks, role[g] = "high", Waiting(g)' PROVE FALSE
      BY <1>2 DEF HighWaits
    <3>1. Waiting(g) /\ g # h
      BY <2>9
    <3>2. Live(g)
      BY <3>1, LiveTasks, StatesDiffer DEF Waiting
    <3> QED
      BY <2>2, <3>1, <3>2 DEF Control, Order
  <2>11. Mutex'
    <3>1. \A u \in Tasks : Inside(u)' <=> u = h
      BY <1>3, <1>8, <2>2, <2>7, <2>9 DEF Inside, HeldLabels
    <3>2. \A u \in Tasks : pc'[u] \in HeldLabels => uses'[u] = s
      BY <1>1, <1>2, <1>8, <2>7 DEF Control, Mutex, s
    <3> QED
      BY <1>1, <1>9, <2>6, <3>1, <3>2 DEF Mutex
  <2>12. Waiters'
    <3>1. \A u \in Tasks \ {h} : taskSem'[u] = taskSem[u]
      BY <2>1, SemTypes, Names DEF Control
    <3>2. \A u \in Tasks : Waiting(u)' => u # h /\ u # t /\ Waiting(u)
      BY <1>1, <2>2, <2>9
    <3> QED
      BY <1>1, <1>2, <2>7, <3>1, <3>2 DEF Control, Waiters, s
  <2>13. Ranks'
    <3>1. \A u \in Tasks : Rank(u)' = Prio[role[u]]
      BY <1>2, <2>10 DEF Rank
    <3>2. \A u \in Tasks \ {t} : Rank(u) = Prio[role[u]]
      BY <1>3 DEF Rank, s
    <3>3. \A u \in Tasks : State(u)' = FreeTask <=> State(u) = FreeTask
      BY <1>7 DEF Calm
    <3>4. role[t] = "low" /\ Prio["low"] = 15
      BY <1>1, <2>3, DemoNames
    <3> QED
      BY <1>2, <2>1, <2>4, <2>5, <3>1, <3>2, <3>3, <3>4 DEF Control, Ranks
  <2> QED
    BY <2>8, <2>11, <2>12, <2>13 DEF Control
<1> QED
  BY <1>7, <1>10, <1>11

\* Low's creations succeed.  The labels: where Low creates the task and where it
\* resumes it, and where the task begins.
CreateAt(r) == IF r = "high" THEN "create_high" ELSE "create_mid"
ResumeAt(r) == IF r = "high" THEN "resume_high" ELSE "resume_mid"
BeginsAt(r) == IF r = "high" THEN "before" ELSE "run"

LEMMA LowMakesInv ==
  ASSUME Control, NEW t \in Tasks, NEW n \in Tasks, NEW r \in {"high", "mid"},
         Acts(t, "low", CreateAt(r)), Makes(n, Prio[r]), IInv', Tops', Active' <=> Active,
         semStat' = semStat, uses' = uses, role' = [role EXCEPT ![n] = r],
         pc' = [[pc EXCEPT ![t] = ResumeAt(r)] EXCEPT ![n] = BeginsAt(r)]
  PROVE  Control'
<1> SUFFICES
      ASSUME NEW a, NEW b, NEW first, Acts(t, "low", a),
             pc' = [[pc EXCEPT ![t] = b] EXCEPT ![n] = first],
             \/ a = "create_high" /\ b = "resume_high" /\ r = "high" /\ first = "before"
             \/ a = "create_mid" /\ b = "resume_mid" /\ r = "mid" /\ first = "run"
      PROVE  Control'
  BY DEF CreateAt, ResumeAt, BeginsAt
<1>1. /\ role[t] = "low" /\ pc[t] = a /\ State(t) = ReadyTask /\ Live(t)
      /\ Made /\ Active /\ boot = "done" /\ UNCHANGED <<boot, shellPc, sharedResource>>
      /\ sharedResource \in Sems /\ sharedResource # sem_uart_rx
      /\ semStat[sharedResource] = "USED"
      /\ shellPc' \notin {"create_sem", "create_low"} /\ ~ Waiting(t)
  BY DEF Acts
<1>2. /\ State(n) = FreeTask /\ State(n)' = SuspendedTask /\ SameStates(Tasks \ {n})
      /\ SameSems /\ taskSem' = [taskSem EXCEPT ![n] = NoSem]
      /\ \A u \in Tasks \ {n} : /\ priority'[u] = priority[u]
                               /\ originalPriority'[u] = originalPriority[u]
      /\ priority'[n] = Prio[r] /\ originalPriority'[n] = Prio[r]
  BY DEF Makes
<1>3. /\ role[n] = "none" /\ pc[n] = "none" /\ ~ Inside(n) /\ ~ Waiting(n) /\ ~ Waiting(n)'
      /\ n # t
  BY <1>1, <1>2, FreeIsNone, StatesDiffer DEF Waiting
<1>4. n # Shell /\ State(Shell)' # FreeTask /\ Shell \in Tasks
  BY <1>1, <1>2, <1>3, DemoNames DEF Control, Roles, SameStates
<1>5. /\ role \in [Tasks -> {"none", "high", "mid", "low"}] /\ pc \in [Tasks -> TaskLabels]
      /\ r \in {"none", "high", "mid", "low"} /\ first \in TaskLabels /\ b \in TaskLabels
  BY DEF Control, Roles, TaskLabels, HighLabels, MidLabels, LowLabels
<1>6. /\ role'[n] = r /\ pc'[n] = first /\ pc'[t] = b
      /\ \A u \in Tasks \ {n} : role'[u] = role[u] /\ State(u)' = State(u)
      /\ \A u \in Tasks \ {n, t} : pc'[u] = pc[u]
  BY <1>2, <1>3, <1>5 DEF SameStates
<1>7. BootSays'
  BY <1>1, <1>2, BootSaysKept DEF SameSems
<1>8. Roles'
  <2>1. /\ sharedResource' \in Sems /\ uses' \in [Tasks -> Sems \cup {NoSem}]
        /\ role' \in [Tasks -> {"none", "high", "mid", "low"}]
        /\ pc' \in [Tasks -> TaskLabels] /\ role'[Shell] = "none"
    BY <1>1, <1>4, <1>5, <1>6 DEF Control, Roles
  <2>2. ASSUME NEW u \in Tasks
        PROVE  /\ role'[u] = "none" <=> pc'[u] = "none"
               /\ role'[u] = "high" => pc'[u] \in HighLabels
               /\ role'[u] = "mid" => pc'[u] \in MidLabels
               /\ role'[u] = "low" => pc'[u] \in LowLabels
               /\ role'[u] # "none" =>
                    /\ State(Shell)' # FreeTask /\ State(u)' # FreeTask
                    /\ pc'[u] = "exited" <=> State(u)' = ExitedTask
                    /\ State(u)' = SuspendedTask =>
                         pc'[u] \in (IF role'[u] = "low" THEN {"take"} ELSE {"before", "run"})
    <3>1. CASE u = n
      BY <1>2, <1>4, <1>6, <3>1, StatesDiffer DEF HighLabels, MidLabels
    <3>2. CASE u = t
      BY <1>1, <1>3, <1>4, <1>6, <3>2, StatesDiffer DEF LowLabels
    <3>3. CASE u \notin {n, t}
      BY <1>4, <1>6, <3>3 DEF Control, Roles
    <3> QED
      BY <3>1, <3>2, <3>3
  <2> QED
    BY <2>1, <2>2 DEF Roles
<1>9. \A u \in Tasks : /\ Waiting(u)' <=> Waiting(u)
                       /\ Inside(u)' <=> Inside(u)
                       /\ Live(u)' <=> Live(u) \/ u = n
                       /\ pc'[u] \in HeldLabels => pc[u] \in HeldLabels
  <2>1. \A u \in Tasks : Waiting(u)' <=> Waiting(u)
    BY <1>3, <1>6 DEF Waiting
  <2>2. a \in HeldLabels /\ b \in HeldLabels /\ first \notin HeldLabels
    BY DEF HeldLabels
  <2>3. r # "none" /\ first # "exited" /\ b # "exited" /\ a # "exited"
    OBVIOUS
  <2> QED
    BY <1>1, <1>3, <1>6, <2>1, <2>2, <2>3 DEF Inside, Live
<1>10. HighWaits' <=> HighWaits
  BY <1>3, <1>6, <1>9 DEF HighWaits
<1>11. Order'
  <2>1. r = "high" => \A h \in Tasks : ~ (Live(h) /\ role[h] = "high")
    BY <1>1 DEF Control, Order
  <2>2. \A l \in Tasks : role[l] = "low" /\ pc[l] \in {"take", "create_high"} =>
          Live(l)
    BY DEF Live
  <2>3. \A l \in Tasks : role'[l] = "low" /\ pc'[l] \in {"take", "create_high"} =>
          l # t /\ role[l] = "low" /\ pc[l] \in {"take", "create_high"} /\ Live(l)
    BY <1>6, <2>2
  <2>4. \A l \in Tasks : ~ (role'[l] = "low" /\ pc'[l] \in {"take", "create_high"})
    BY <1>1, <2>3 DEF Control, Order
  <2>5. \A u, v \in Tasks : Live(u)' /\ Live(v)' /\ role'[u] = role'[v] /\ role'[u] # "mid"
                             => u = v
    BY <1>6, <1>9, <2>1 DEF Control, Order
  <2> QED
    BY <1>1, <2>4, <2>5 DEF Order
<1>12. Waiters'
  <2>1. \A u \in Tasks \ {n} : taskSem'[u] = taskSem[u]
    BY <1>2, SemTypes, Names DEF Control
  <2>2. \A u \in Tasks : Waiting(u)' =>
          /\ Waiting(u) /\ role'[u] = role[u] /\ pc'[u] = pc[u] /\ taskSem'[u] = taskSem[u]
    BY <1>1, <1>3, <1>6, <1>9, <2>1
  <2>3. ASSUME NEW u \in Tasks, Waiting(u)'
        PROVE  IF u = Shell THEN taskSem'[u] = sem_uart_rx
               ELSE role'[u] = "high" /\ pc'[u] = "after" /\ taskSem'[u] = sharedResource'
    BY <1>1, <2>2, <2>3 DEF Control, Waiters
  <2> QED
    BY <2>3 DEF Waiters
<1>13. Mutex'
  <2>1. Inside(t)
    BY <1>1 DEF Inside, HeldLabels
  <2> QED
    BY <1>1, <1>2, <1>9, <2>1 DEF Control, Mutex, SameSems
<1>14. Ranks'
  <2>1. \A u \in Tasks \ {n} : Rank(u)' = Rank(u)
    BY <1>1, <1>2, <1>6, <1>10 DEF Rank, SameSems
  <2>2. Rank(n)' = Prio[r] /\ r # "none"
    BY <1>6 DEF Rank
  <2> QED
    BY <1>2, <1>6, <2>1, <2>2 DEF Control, Ranks
<1> QED
  BY <1>7, <1>8, <1>11, <1>12, <1>13, <1>14 DEF Control

\* Without High, Low returns with the resource.
LEMMA LowAloneInv ==
  ASSUME Control, NEW t \in Tasks, Acts(t, "low", "create_high"), Goto(t, "return"),
         Calm, Idles, role' = role, uses' = uses
  PROVE  Control'
<1>1. /\ role[t] = "low" /\ pc[t] = "create_high" /\ State(t) = ReadyTask /\ Live(t)
      /\ Made /\ UNCHANGED <<boot, shellPc, sharedResource>> /\ ~ Waiting(t)
      /\ sharedResource # sem_uart_rx /\ semStat[sharedResource] = "USED"
      /\ shellPc' # "create_low"
  BY DEF Acts
<1>2. /\ "return" \in Places("low") /\ "low" \in {"high", "mid", "low"}
      /\ uses' \in [Tasks -> Sems \cup {NoSem}]
  BY DEF Places, LowLabels, Control, Roles
<1>3. \A u \in Tasks : State(u)' = State(u)
  BY DEF Idles, SameStates
<1>4. /\ Moves /\ pc'[t] = "return" /\ \A u \in Tasks \ {t} : pc'[u] = pc[u]
  BY <1>1, <1>2, <1>3, StatesDiffer, OneMoves
<1>5. /\ IInv' /\ Tops' /\ BootSays' /\ Roles' /\ Order'
      /\ \A u \in Tasks : Live(u)' => Live(u)
  BY <1>4, MovesKept DEF Idles
<1>6. /\ semCount[sharedResource] = 0
      /\ \A u \in Tasks : Inside(u) <=> u = t
  <2>1. Inside(t)
    BY <1>1 DEF Inside, HeldLabels
  <2> QED
    BY <1>1, <2>1 DEF Control, Mutex
<1>7. \A u \in Tasks : Waiting(u)' <=> Waiting(u)
  BY <1>3 DEF Waiting
<1>8. \A u \in Tasks : ~ (Live(u) /\ role[u] = "high")
  BY <1>1 DEF Control, Order
<1>9. ~ HighWaits /\ ~ HighWaits'
  BY <1>7, <1>8, LiveTasks, StatesDiffer DEF HighWaits, Waiting
<1>10. Waiters'
  BY <1>1, <1>4, <1>7 DEF Control, Waiters, Idles
<1>11. Mutex'
  <2>1. \A u \in Tasks : ~ Inside(u)'
    BY <1>4, <1>6, <1>7 DEF Inside, HeldLabels
  <2>2. \A u \in Tasks : Live(u)' /\ role[u] = "low" => u = t
    BY <1>1, <1>5 DEF Control, Order
  <2>3. \A u \in Tasks : pc'[u] \in HeldLabels => pc[u] \in HeldLabels
    BY <1>4 DEF HeldLabels
  <2> QED
    BY <1>1, <1>4, <1>5, <1>6, <1>8, <2>1, <2>2, <2>3 DEF Control, Mutex, Idles, Calm
<1>12. Ranks'
  BY <1>9, RanksWithout DEF Calm, Idles, SamePriorities
<1> QED
  BY <1>5, <1>10, <1>11, <1>12 DEF Control

LEMMA LowCreatesInv ==
  ASSUME Control, NEW t \in Tasks, LowCreates(t), uses' = uses
  PROVE  Control'
<1>1. CASE /\ TaskAt(t, "low", "create_high")
           /\ CreateTask("high", "before",
                [pc EXCEPT ![t] = IF PoolsHaveTask THEN "resume_high" ELSE "return"])
  <2>1. Acts(t, "low", "create_high") /\ Active
    BY <1>1, TaskActs DEF Acts
  <2>2. CASE PoolsHaveTask
    <3>0. PICK q : q = [pc EXCEPT ![t] = "resume_high"]
      OBVIOUS
    <3>1. CreateTask("high", "before", q) /\ "high" \in {"high", "mid", "low"}
      BY <1>1, <2>2, <3>0
    <3>2. PICK n \in Tasks :
            /\ Makes(n, Prio["high"]) /\ IInv' /\ Tops' /\ (Active' <=> Active)
            /\ semStat' = semStat /\ role' = [role EXCEPT ![n] = "high"]
            /\ pc' = [q EXCEPT ![n] = "before"]
      BY <2>1, <2>2, <3>1, CreateTaskEffect
    <3>3. PICK r \in {"high", "mid"} : r = "high"
      OBVIOUS
    <3>4. /\ CreateAt(r) = "create_high" /\ ResumeAt(r) = "resume_high"
          /\ BeginsAt(r) = "before"
      BY <3>3 DEF CreateAt, ResumeAt, BeginsAt
    <3>5. /\ Acts(t, "low", CreateAt(r)) /\ Makes(n, Prio[r])
          /\ IInv' /\ Tops' /\ (Active' <=> Active) /\ semStat' = semStat
          /\ role' = [role EXCEPT ![n] = r]
          /\ pc' = [[pc EXCEPT ![t] = ResumeAt(r)] EXCEPT ![n] = BeginsAt(r)]
      BY <2>1, <3>0, <3>2, <3>3, <3>4
    <3> QED
      BY <3>5, LowMakesInv
  <2>3. CASE ~ PoolsHaveTask
    <3>1. CreateTask("high", "before", [pc EXCEPT ![t] = "return"])
      BY <1>1, <2>3
    <3>2. Calm /\ Idles /\ role' = role /\ Goto(t, "return")
      BY <2>1, <2>3, <3>1, CreateTaskEffect DEF Goto
    <3> QED
      BY <2>1, <3>2, LowAloneInv
  <2> QED
    BY <2>2, <2>3
<1>2. CASE /\ TaskAt(t, "low", "create_mid")
           /\ CreateTask("mid", "run",
                [pc EXCEPT ![t] = IF PoolsHaveTask THEN "resume_mid" ELSE "give"])
  <2>1. Acts(t, "low", "create_mid") /\ Active
    BY <1>2, TaskActs DEF Acts
  <2>2. CASE PoolsHaveTask
    <3>0. PICK q : q = [pc EXCEPT ![t] = "resume_mid"]
      OBVIOUS
    <3>1. CreateTask("mid", "run", q) /\ "mid" \in {"high", "mid", "low"}
      BY <1>2, <2>2, <3>0
    <3>2. PICK n \in Tasks :
            /\ Makes(n, Prio["mid"]) /\ IInv' /\ Tops' /\ (Active' <=> Active)
            /\ semStat' = semStat /\ role' = [role EXCEPT ![n] = "mid"]
            /\ pc' = [q EXCEPT ![n] = "run"]
      BY <2>1, <2>2, <3>1, CreateTaskEffect
    <3>3. PICK r \in {"high", "mid"} : r = "mid"
      OBVIOUS
    <3>4. /\ CreateAt(r) = "create_mid" /\ ResumeAt(r) = "resume_mid"
          /\ BeginsAt(r) = "run"
      BY <3>3 DEF CreateAt, ResumeAt, BeginsAt
    <3>5. /\ Acts(t, "low", CreateAt(r)) /\ Makes(n, Prio[r])
          /\ IInv' /\ Tops' /\ (Active' <=> Active) /\ semStat' = semStat
          /\ role' = [role EXCEPT ![n] = r]
          /\ pc' = [[pc EXCEPT ![t] = ResumeAt(r)] EXCEPT ![n] = BeginsAt(r)]
      BY <2>1, <3>0, <3>2, <3>3, <3>4
    <3> QED
      BY <3>5, LowMakesInv
  <2>3. CASE ~ PoolsHaveTask
    <3>1. CreateTask("mid", "run", [pc EXCEPT ![t] = "give"])
      BY <1>2, <2>3
    <3>2. Calm /\ Idles /\ role' = role /\ Goto(t, "give")
      BY <2>1, <2>3, <3>1, CreateTaskEffect DEF Goto
    <3>4. PICK r \in {"high", "mid", "low"} : r = "low"
      OBVIOUS
    <3>5. PICK a, b : a = "create_mid" /\ b = "give"
      OBVIOUS
    <3>3. /\ "give" \in Places("low") /\ "give" \in HeldLabels /\ "create_mid" \in HeldLabels
          /\ \A u \in Tasks : State(u)' = State(u)
          /\ State(t)' = ReadyTask /\ SamePriorities /\ SameSems /\ taskSem' = taskSem
      BY <2>1, <3>2 DEF Places, LowLabels, HeldLabels, Idles, SameStates, SameSems, Acts
    <3> QED
      BY <2>1, <3>2, <3>3, <3>4, <3>5, StatesDiffer, QuietTaskInv
  <2> QED
    BY <2>2, <2>3
<1> QED
  BY <1>1, <1>2 DEF LowCreates

-----------------------------------------------------------------------------
(***************************************************************************)
(* The invariant of the whole system.                                       *)
(***************************************************************************)
LEMMA TaskHighInv ==
  ASSUME Control, OS_SEM_COUNT_MAX > 0, NEW t \in Tasks, TaskHigh(t)
  PROVE  Control'
<1>1. CASE HighBefore(t) \/ HighAfter(t)
  BY <1>1, HighClockInv
<1>2. CASE TaskAt(t, "high", "take") /\ Take(t, "after")
  BY <1>2, TaskActs, TaskTakesInv
<1>3. CASE TaskAt(t, "high", "give") /\ Give(t, "before")
  <2>1. Acts(t, "high", "give")
    BY <1>3, TaskActs
  <2> QED
    BY <1>3, <2>1, TaskGivesInv
<1>4. CASE TaskAt(t, "high", "before") /\ EntryReturns(t)
  BY <1>4, EntryReturnsInv
<1> QED
  BY <1>1, <1>2, <1>3, <1>4 DEF TaskHigh

LEMMA TaskLowInv ==
  ASSUME Control, OS_SEM_COUNT_MAX > 0, NEW t \in Tasks, TaskLow(t)
  PROVE  Control'
<1>1. CASE TaskAt(t, "low", "take") /\ Take(t, "create_high")
  BY <1>1, TaskActs, TaskTakesInv
<1>2. CASE TaskAt(t, "low", "again") /\ Take(t, "give")
  BY <1>2, TaskActs, TaskTakesInv
<1>3. CASE LowCreates(t) /\ UNCHANGED <<loops, uses>>
  BY <1>3, LowCreatesInv
<1>4. CASE LowResumes(t) /\ UNCHANGED <<role, loops, uses>>
  BY <1>4, LowResumesInv
<1>5. CASE LowGives(t)
  <2>1. PICK b \in {"again", "return"} : TaskAt(t, "low", "give") /\ Give(t, b)
    BY <1>5 DEF LowGives
  <2>2. Acts(t, "low", "give")
    BY <2>1, TaskActs
  <2> QED
    BY <2>1, <2>2, TaskGivesInv
<1>6. CASE TaskAt(t, "low", "return") /\ EntryReturns(t)
  BY <1>6, EntryReturnsInv
<1> QED
  BY <1>1, <1>2, <1>3, <1>4, <1>5, <1>6 DEF TaskLow

LEMMA ControlInit ==
  ASSUME DemoInit
  PROVE  Control
<1>1. /\ Init /\ boot = "hwi" /\ shellPc = "pend" /\ sharedResource = 0
      /\ role = [t \in Tasks |-> "none"] /\ pc = [t \in Tasks |-> "none"]
      /\ uses = [t \in Tasks |-> NoSem]
  BY DEF DemoInit, ShellInit
<1>2. IInv
  BY <1>1, InitInv
<1>3. /\ uniFlag = {} /\ unusedSem = [i \in 1 .. NumSems |-> i - 1]
      /\ semOwner = [s \in Sems |-> NoTask]
      /\ \A t \in Tasks : status[t] = {}
  BY <1>1, Names DEF Init
<1>4. ~ Active /\ \A t \in Tasks : State(t) = FreeTask /\ ~ Waiting(t)
  BY <1>3, StatesDiffer DEF Active, State, FreeTask, Waiting
<1>5. /\ ~ RxSemMade /\ ~ DemoAlive /\ ~ Made
      /\ \A t \in Tasks : ~ Live(t) /\ role[t] = "none" /\ pc[t] = "none"
  BY <1>1 DEF RxSemMade, DemoAlive, Made, Live
<1>6. BootSays
  BY <1>1, <1>3, <1>4, <1>5, DemoNames DEF BootSays
<1>7. Roles
  BY <1>1, <1>5, DemoNames DEF Roles, TaskLabels, sem_uart_rx
<1>8. Tops /\ Order /\ Waiters /\ Mutex /\ Ranks
  BY <1>4, <1>5 DEF Tops, Order, Waiters, Mutex, Ranks
<1> QED
  BY <1>2, <1>6, <1>7, <1>8 DEF Control

LEMMA QuietEnvInv ==
  ASSUME Control,
         \/ DemoInterrupt
         \/ TimerExpires /\ UNCHANGED demoVars
         \/ \E kind \in Kinds : Type(kind) /\ UNCHANGED demoVars
         \/ UNCHANGED demoSysVars
  PROVE  Control' /\ Idles /\ UNCHANGED vars
<1>1. UNCHANGED vars /\ UNCHANGED <<boot, shellPc>> /\ UNCHANGED demoVars
  <2>1. CASE DemoInterrupt
    BY <2>1 DEF DemoInterrupt, Interrupt, RxInterrupt, OsGicIntClear, OsTickDispatcher,
       envVars, bootVars, shellVars
  <2>2. CASE TimerExpires /\ UNCHANGED demoVars
    BY <2>2 DEF TimerExpires, bootVars, shellVars
  <2>3. CASE \E kind \in Kinds : Type(kind) /\ UNCHANGED demoVars
    BY <2>3 DEF Type, bootVars, shellVars
  <2>4. CASE UNCHANGED demoSysVars
    BY <2>4 DEF demoSysVars, shellSysVars, envVars, bootVars, shellVars
  <2> QED
    BY <2>1, <2>2, <2>3, <2>4
<1> QED
  BY <1>1, EnvInv

LEMMA ControlKept ==
  ASSUME Control, ~ Overlapping, OS_SEM_COUNT_MAX > 0, [DemoNext]_demoSysVars
  PROVE  Control'
<1>1. CASE Boot /\ UNCHANGED demoVars
  BY <1>1, QuietBootInv, CreateRxSemInv, ShellTaskInitInv DEF Boot
<1>2. CASE OsUartRxHandle /\ UNCHANGED demoVars
  BY <1>2, RxHandleInv
<1>3. CASE ShellPend /\ UNCHANGED demoVars
  BY <1>3, ShellPendInv
<1>4. CASE (ShellRead \/ ShellCommand) /\ UNCHANGED demoVars
  BY <1>4, ShellReadInv
<1>5. CASE CreatePriorityInversionDemo
  BY <1>5, DemoCommandInv, DemoCreateSemInv, DemoCreateLowInv, DemoResumeLowInv
  DEF CreatePriorityInversionDemo
<1>6. ASSUME NEW t \in Tasks, TaskHigh(t) \/ TaskMid(t) \/ TaskLow(t)
      PROVE  Control'
  <2>1. CASE TaskHigh(t)
    BY <2>1, TaskHighInv
  <2>2. CASE TaskMid(t)
    BY <2>2, EntryReturnsInv DEF TaskMid
  <2>3. CASE TaskLow(t)
    BY <2>3, TaskLowInv
  <2> QED
    BY <1>6, <2>1, <2>2, <2>3
<1>7. CASE ~ DemoCode
  BY <1>7, QuietEnvInv DEF DemoNext
<1> QED
  BY <1>1, <1>2, <1>3, <1>4, <1>5, <1>6, <1>7 DEF DemoCode

-----------------------------------------------------------------------------
(***************************************************************************)
(* What the invariant says of the resource.                                 *)
(***************************************************************************)
\* Where a task uses the resource it is inside.
LEMMA UsersInside ==
  ASSUME Control, NEW t \in Tasks
  PROVE  /\ t \in UsesResource => Inside(t)
         /\ WaitsForResource(t) => Waiting(t) /\ uses[t] \in Sems /\ taskSem[t] = uses[t]
         /\ Inside(t) => uses[t] = sharedResource
<1>1. uses[t] \in Sems \cup {NoSem} /\ IInv
  BY DEF Control, Roles
<1>2. NoSem \notin Sems
  BY DEF NoSem, Sems
<1>3. uses[t] \in Sems => (WaitsForResource(t) <=> Waiting(t) /\ taskSem[t] = uses[t])
  BY <1>1, <1>2, OnQueue DEF WaitsForResource
<1>4. pc[t] \in HeldLabels => Made /\ uses[t] = sharedResource /\ sharedResource \in Sems
  <2>1. pc[t] \in HeldLabels => Live(t)
    BY DEF HeldLabels, Live, Control, Roles
  <2> QED
    BY <2>1, LiveTasks DEF Live, Control, Mutex, Roles
<1>5. t \in UsesResource => pc[t] \in HeldLabels /\ ~ WaitsForResource(t)
  BY DEF UsesResource, HeldLabels
<1>6. pc[t] \in HeldLabels /\ Waiting(t) => taskSem[t] = sharedResource
  <2>1. pc[t] \in HeldLabels => t # Shell
    BY DEF HeldLabels, Control, Roles
  <2> QED
    BY <2>1 DEF Control, Waiters
<1> QED
  BY <1>1, <1>3, <1>4, <1>5, <1>6 DEF Inside, WaitsForResource

LEMMA ExclusiveHolds ==
  ASSUME Control
  PROVE  ResourceExclusive
<1>1. \A t, u \in Tasks : Inside(t) /\ Inside(u) => t = u
  <2>1. ASSUME NEW t \in Tasks, NEW u \in Tasks, Inside(t), Inside(u) PROVE t = u
    <3>1. Live(t)
      BY <2>1 DEF Inside, HeldLabels, Live, Control, Roles
    <3>2. Made
      BY <3>1, LiveTasks DEF Live
    <3> QED
      BY <2>1, <3>2 DEF Control, Mutex
  <2> QED
    BY <2>1
<1>2. \A t, u \in UsesResource : t = u
  BY <1>1, UsersInside DEF UsesResource
<1>3. CASE UsesResource = {}
  BY <1>3, FS_EmptySet DEF ResourceExclusive
<1>4. CASE UsesResource # {}
  <2>1. PICK t : UsesResource = {t}
    BY <1>2, <1>4
  <2>2. Cardinality(UsesResource) = 1
    BY <2>1, FS_Singleton
  <2> QED
    BY <2>2 DEF ResourceExclusive
<1> QED
  BY <1>3, <1>4

LEMMA HolderRuns ==
  ASSUME Control
  PROVE  OnlyHolderRuns
<1> SUFFICES ASSUME NEW h \in Tasks, role[h] = "high", WaitsForResource(h)
             PROVE  running = semOwner[uses[h]]
  BY DEF OnlyHolderRuns
<1>1. Waiting(h) /\ taskSem[h] = uses[h]
  BY UsersInside
<1>2. taskSem[h] = sharedResource
  BY <1>1, LiveTasks
<1> QED
  BY <1>1, <1>2, HighReigns DEF Waiting

LEMMA ReturnedHolds ==
  ASSUME Control
  PROVE  PriorityReturned
<1> SUFFICES ASSUME NEW t \in Tasks, role[t] # "none", ~ Holds(t)
             PROVE  priority[t] = Prio[role[t]]
  BY DEF PriorityReturned
<1>1. State(t) # FreeTask
  BY LiveTasks, StatesDiffer
<1>2. CASE Rank(t) = Prio[role[t]]
  BY <1>1, <1>2 DEF Control, Ranks
<1>3. CASE role[t] = "low" /\ HighWaits /\ semOwner[sharedResource] = t
  <2>1. Inside(t)
    BY <1>3, HolderIsLow DEF HighWaits
  <2>2. uses[t] = sharedResource /\ ~ WaitsForResource(t)
    BY <2>1, UsersInside DEF Inside
  <2>3. sharedResource # NoSem
    BY DEF Control, Roles, Sems, NoSem
  <2> QED
    BY <1>3, <2>2, <2>3 DEF Holds
<1> QED
  BY <1>2, <1>3 DEF Rank

-----------------------------------------------------------------------------
\* The invariant of the demo's control, for every number of tasks and loops: demo is
\* not typed while an earlier demo still runs, and a semaphore can hold a token.
THEOREM ControlHolds ==
  ASSUME ~ Overlapping, OS_SEM_COUNT_MAX > 0
  PROVE  DemoSpec => []Control
<1>1. DemoInit => Control
  BY ControlInit
<1>2. Control /\ [DemoNext]_demoSysVars => Control'
  BY ControlKept
<1> QED
  BY <1>1, <1>2, PTL DEF DemoSpec

\* test_priority_inversion.c: at most one task uses the shared resource.
THEOREM OneUsesTheResource ==
  ASSUME ~ Overlapping, OS_SEM_COUNT_MAX > 0
  PROVE  DemoSpec => []ResourceExclusive
<1>1. Control => ResourceExclusive
  BY ExclusiveHolds
<1> QED
  BY <1>1, ControlHolds, PTL

\* No unbounded inversion: while High waits, only the task it waits for runs.
THEOREM NobodyDelaysHigh ==
  ASSUME ~ Overlapping, OS_SEM_COUNT_MAX > 0
  PROVE  DemoSpec => []OnlyHolderRuns
<1>1. Control => OnlyHolderRuns
  BY HolderRuns
<1> QED
  BY <1>1, ControlHolds, PTL

\* A priority that was lent is given back with the resource.
THEOREM LentPriorityReturned ==
  ASSUME ~ Overlapping, OS_SEM_COUNT_MAX > 0
  PROVE  DemoSpec => []PriorityReturned
<1>1. Control => PriorityReturned
  BY ReturnedHolds
<1> QED
  BY <1>1, ControlHolds, PTL

-----------------------------------------------------------------------------
(***************************************************************************)
(* What a step of the code of task t does to the tasks, for the handlers    *)
(* and the ticks: only t itself ceases to be ready, and only Low brings     *)
(* High into play.                                                          *)
(***************************************************************************)
Progress(t) ==
  \A u \in Tasks :
    /\ role'[u] = role[u] \/ (State(u) = FreeTask /\ State(u)' = SuspendedTask)
    /\ \/ State(u)' = State(u)
       \/ State(u) = WaitingTask /\ State(u)' = ReadyTask
       \/ State(u) = FreeTask /\ State(u)' = SuspendedTask
       \/ /\ State(u) = SuspendedTask /\ State(u)' = ReadyTask
          /\ role[u] = "high" => role[t] = "low"
       \/ u = t

SameClock == UNCHANGED <<boot, handler, ticks, due, elapsed>>

LEMMA ShellProgress ==
  ASSUME Control, NEW t, t = Shell,
         \/ (ShellPend \/ ShellRead \/ ShellCommand) /\ UNCHANGED demoVars
         \/ CreatePriorityInversionDemo
  PROVE  Executing(t) /\ Progress(t) /\ SameClock /\ UNCHANGED clockVars
<1> SUFFICES Executing(Shell) /\ Progress(Shell) /\ SameClock /\ UNCHANGED clockVars
  OBVIOUS
<1>1. CASE ShellPend /\ UNCHANGED demoVars
  <2>1. Executing(Shell) /\ PRT_SemPend(sem_uart_rx, "FOREVER") /\ SameClock
    BY <1>1 DEF ShellPend, SameClock, envVars, bootVars, tickVars, rxVars
  <2>2. Takes(Shell, sem_uart_rx) \/ Blocks(Shell, sem_uart_rx)
    BY <2>1, ShellExecutes, PendEffect, DemoNames
  <2>3. role' = role /\ UNCHANGED clockVars
    BY <1>1 DEF demoVars
  <2> QED
    BY <2>1, <2>2, <2>3 DEF Progress, Takes, Blocks, SameStates
<1>2. CASE (ShellRead \/ ShellCommand \/ DemoCommand) /\ UNCHANGED demoVars
  <2>1. UNCHANGED vars /\ SameClock /\ Executing(Shell)
    BY <1>2 DEF ShellRead, ShellCommand, ShellDispatchCmd, OsDisplayTasksInfo, PsBegin, PsRow,
       PsNext, PsEnd, OsDisplaySemStat, SemStatBegin, SemStatSkip, SemStatRow, SemStatCount,
       SemStatOwner, SemStatEnd, LoadField, ReportAt,
       CommandReturns, DemoCommand, ShellAt, SameClock, envVars, bootVars, tickVars, rxVars
  <2>2. Idles
    BY <2>1, KernelKept DEF Control
  <2>3. role' = role /\ UNCHANGED clockVars
    BY <1>2 DEF demoVars
  <2> QED
    BY <2>1, <2>2, <2>3 DEF Progress, Idles, SameStates
<1>3. CASE DemoCreateSem
  <2>1. /\ PRT_SemCreate(1) /\ SameClock /\ Executing(Shell) /\ role' = role
        /\ UNCHANGED clockVars
    BY <1>3 DEF DemoCreateSem, ShellAt, CommandReturns, SameClock, envVars, bootVars,
       tickVars, rxVars
  <2>2. status' = status
    BY <2>1 DEF PRT_SemCreate, Fail, vars, schedVars
  <2> QED
    BY <2>1, <2>2 DEF Progress, State
<1>4. CASE DemoCreateLow
  <2>1. /\ CreateTask("low", "take", pc) /\ SameClock /\ Executing(Shell)
        /\ UNCHANGED clockVars
    BY <1>4 DEF DemoCreateLow, ShellAt, CommandReturns, SameClock, envVars, bootVars,
       tickVars, rxVars
  <2>2. Active
    BY <2>1, ShellExecutes
  <2>3. \/ Idles /\ role' = role
        \/ \E n \in Tasks : Makes(n, Prio["low"]) /\ role' = [role EXCEPT ![n] = "low"]
    BY <2>1, <2>2, CreateTaskEffect
  <2>4. role \in [Tasks -> {"none", "high", "mid", "low"}]
    BY DEF Control, Roles
  <2> QED
    BY <2>1, <2>3, <2>4 DEF Progress, Makes, Idles, SameStates
<1>5. CASE DemoResumeLow
  <2>1. /\ ResumeTask("low") /\ SameClock /\ Executing(Shell) /\ UNCHANGED clockVars
        /\ role' = role
    BY <1>5 DEF DemoResumeLow, CommandReturns, SameClock, envVars, bootVars, tickVars, rxVars,
       demoVars
  <2>2. Active
    BY <2>1, ShellExecutes
  <2>3. PICK n \in Tasks : /\ role[n] = "low" /\ State(n) = SuspendedTask
                           /\ State(n)' \in {SuspendedTask, ReadyTask}
                           /\ SameStates(Tasks \ {n})
    BY <2>1, <2>2, ResumeTaskEffect
  <2> QED
    BY <2>1, <2>3 DEF Progress, SameStates
<1> QED
  BY <1>1, <1>2, <1>3, <1>4, <1>5 DEF CreatePriorityInversionDemo, DemoCommand

LEMMA TaskProgress ==
  ASSUME Control, OS_SEM_COUNT_MAX > 0, NEW t \in Tasks,
         TaskHigh(t) \/ TaskMid(t) \/ TaskLow(t)
  PROVE  /\ Executing(t) /\ Progress(t) /\ SameClock
         /\ TaskHigh(t) \/ UNCHANGED clockVars
<1>1. PICK r \in {"high", "mid", "low"}, a \in TaskLabels \ {"none", "exited"} : TaskAt(t, r, a)
  BY DEF TaskHigh, HighBefore, HighAfter, TaskMid, TaskLow, LowCreates, LowResumes, LowGives,
     TaskLabels, HighLabels, MidLabels, LowLabels
<1>2. Acts(t, r, a) /\ Executing(t) /\ SameClock /\ IInv /\ Tops
  BY <1>1, TaskActs DEF TaskAt, SameClock, envVars, bootVars, tickVars, rxVars, Control
<1>3. TaskHigh(t) \/ UNCHANGED clockVars
  BY DEF TaskMid, TaskLow
<1>4. /\ running = t /\ role[t] = r /\ Active
      /\ sharedResource \in Sems /\ semStat[sharedResource] = "USED"
      /\ role \in [Tasks -> {"none", "high", "mid", "low"}]
  BY <1>2 DEF Acts, Control, Roles
<1>5. CASE (HighBefore(t) \/ HighAfter(t)) /\ TaskHigh(t)
  <2>1. Idles /\ role' = role
    BY <1>5, HighClockInv DEF HighBefore, HighAfter
  <2> QED
    BY <1>2, <1>3, <2>1 DEF Progress, Idles, SameStates
<1>6. CASE role' = role /\ PRT_SemPend(sharedResource, "FOREVER")
  <2>1. Takes(t, sharedResource) \/ Blocks(t, sharedResource)
    BY <1>2, <1>4, <1>6, PendEffect
  <2> QED
    BY <1>2, <1>3, <1>6, <2>1 DEF Progress, Takes, Blocks, SameStates
<1>7. CASE role' = role /\ PRT_SemPost(sharedResource) /\ a = "give"
  <2>1. Settled(sharedResource) /\ Acts(t, r, "give")
    BY <1>2, <1>7, AtGive
  <2>2. Idles \/ Keeps(sharedResource) \/ \E h \in Tasks : Wakes(h, sharedResource)
    BY <1>2, <1>4, <1>7, <2>1, PostEffect
  <2> QED
    BY <1>2, <1>3, <1>7, <2>2 DEF Progress, Idles, Keeps, Wakes, SameStates, Waiting
<1>8. CASE EntryReturns(t)
  <2>1. role' = role /\ Exits(t)
    BY <1>2, <1>4, <1>8, ExitEffect DEF EntryReturns
  <2> QED
    BY <1>2, <1>3, <2>1 DEF Progress, Exits, SameStates
<1>9. CASE LowCreates(t)
  <2>1. PICK k \in {"high", "mid", "low"} : \E first, q : CreateTask(k, first, q)
    BY <1>9 DEF LowCreates
  <2>2. \/ Idles /\ role' = role
        \/ \E n \in Tasks : Makes(n, Prio[k]) /\ role' = [role EXCEPT ![n] = k]
    BY <1>4, <2>1, CreateTaskEffect
  <2> QED
    BY <1>2, <1>3, <1>4, <2>2 DEF Progress, Makes, Idles, SameStates
<1>10. CASE LowResumes(t) /\ role' = role
  <2>1. PICK k \in {"high", "mid", "low"} : ResumeTask(k)
    BY <1>10 DEF LowResumes
  <2>2. role[t] = "low"
    BY <1>10 DEF LowResumes, TaskAt
  <2>3. PICK n \in Tasks : /\ State(n) = SuspendedTask
                           /\ State(n)' \in {SuspendedTask, ReadyTask}
                           /\ SameStates(Tasks \ {n})
    BY <1>4, <2>1, ResumeTaskEffect
  <2> QED
    BY <1>2, <1>3, <1>10, <2>2, <2>3 DEF Progress, SameStates
<1>11. CASE TaskAt(t, "high", "give") \/ TaskAt(t, "low", "give")
  <2>1. a = "give"
    BY <1>1, <1>11 DEF TaskAt
  <2>2. role' = role /\ PRT_SemPost(sharedResource)
    BY <1>11 DEF TaskHigh, HighBefore, HighAfter, TaskMid, TaskLow, LowCreates, LowResumes,
       LowGives, TaskAt, Give
  <2> QED
    BY <1>7, <2>1, <2>2
<1>12. ASSUME ~ (TaskAt(t, "high", "give") \/ TaskAt(t, "low", "give"))
       PROVE  \/ (HighBefore(t) \/ HighAfter(t)) /\ TaskHigh(t)
              \/ role' = role /\ PRT_SemPend(sharedResource, "FOREVER")
              \/ EntryReturns(t)
              \/ LowCreates(t)
              \/ LowResumes(t) /\ role' = role
  <2>1. CASE TaskHigh(t)
    BY <1>12, <2>1 DEF TaskHigh, Take
  <2>2. CASE TaskMid(t)
    BY <2>2 DEF TaskMid
  <2>3. CASE TaskLow(t)
    BY <1>12, <2>3 DEF TaskLow, LowGives, Take
  <2> QED
    BY <2>1, <2>2, <2>3
<1> QED
  BY <1>5, <1>6, <1>8, <1>9, <1>10, <1>11, <1>12

-----------------------------------------------------------------------------
(***************************************************************************)
(* The handlers that have not ended.                                        *)
(***************************************************************************)
\* HighReigns, for the next state, too.
Reign ==
  \A h \in Tasks : role[h] = "high" =>
    /\ pc[h] \in {"take", "after"} => State(h) \in {ReadyTask, WaitingTask}
    /\ State(h) \in {ReadyTask, WaitingTask} =>
         /\ boot = "done"
         /\ running = IF Waiting(h) THEN semOwner[sharedResource] ELSE h
         /\ role[running] \in {"high", "low"}

LEMMA ReignHolds ==
  ASSUME Control
  PROVE  Reign
<1> SUFFICES ASSUME NEW h \in Tasks, role[h] = "high"
             PROVE  /\ pc[h] \in {"take", "after"} => State(h) \in {ReadyTask, WaitingTask}
                    /\ State(h) \in {ReadyTask, WaitingTask} =>
                         /\ boot = "done"
                         /\ running = IF Waiting(h) THEN semOwner[sharedResource] ELSE h
                         /\ role[running] \in {"high", "low"}
  BY DEF Reign
<1>1. boot = "done" /\ State(h) \in {SuspendedTask, ReadyTask, WaitingTask, ExitedTask}
  BY LiveTasks
<1>2. pc[h] \in {"take", "after"} => State(h) \notin {SuspendedTask, ExitedTask}
  BY DEF Control, Roles
<1> QED
  BY <1>1, <1>2, HighReigns

LEMMA ReignNext == Control' => Reign'
<1>1. Control => Reign
  BY ReignHolds
<1> QED
  BY <1>1, PTL

\* While High is in play the handler switches to nobody.
LEMMA RxUnderHigh ==
  ASSUME Control, Control', OsUartRxHandle, UNCHANGED demoVars,
         NEW h \in Tasks, role[h] = "high", State(h)' \in {ReadyTask, WaitingTask}
  PROVE  running' = running
<1>1. Outside /\ UNCHANGED <<sharedResource, role>>
  BY RxHandleInv DEF demoVars
<1>2. State(h)' = State(h)
  BY <1>1 DEF Outside, Control, Roles
<1>3. sharedResource \in Sems \ {sem_uart_rx}
  BY <1>2, LiveTasks, StatesDiffer DEF Control, Mutex, Roles
<1>4. semOwner'[sharedResource] = semOwner[sharedResource]
  BY <1>1, <1>3 DEF Outside
<1>5. running = IF Waiting(h) THEN semOwner[sharedResource] ELSE h
  BY <1>2, ReignHolds DEF Reign
<1>6. running' = IF Waiting(h)' THEN semOwner'[sharedResource'] ELSE h
  BY <1>1, ReignNext DEF Reign
<1> QED
  BY <1>1, <1>2, <1>4, <1>5, <1>6 DEF Waiting

\* The steps, as the handlers and the clock see them.
QuietStep == UNCHANGED vars /\ UNCHANGED demoVars /\ boot' = boot

BootClock == /\ boot # "done" /\ handler # Zombie /\ handler' = handler
             /\ UNCHANGED <<ticks, due, elapsed>> /\ UNCHANGED demoVars

LEMMA Steps ==
  ASSUME Control, OS_SEM_COUNT_MAX > 0, [DemoNext]_demoSysVars
  PROVE  \/ BootClock
         \/ OsUartRxHandle /\ UNCHANGED demoVars
         \/ \E t \in Tasks : /\ Executing(t) /\ Progress(t) /\ SameClock
                             /\ TaskHigh(t) \/ UNCHANGED clockVars
         \/ QuietStep /\ \/ RxInterrupt \/ OsGicIntClear \/ OsTickDispatcher
                         \/ TimerExpires
                         \/ SameClock
<1>1. CASE Boot /\ UNCHANGED demoVars
  BY <1>1 DEF Boot, OsHwiInit, CoreTimerInit, InitModules, EnableRx, CreateRxSem,
     ShellTaskInit, Activate, BootStep, BootClock, Executing, tickVars, rxVars
<1>2. CASE (ShellPend \/ ShellRead \/ ShellCommand) /\ UNCHANGED demoVars
  BY <1>2, ShellProgress, DemoNames
<1>3. CASE CreatePriorityInversionDemo
  BY <1>3, ShellProgress, DemoNames
<1>4. CASE \E t \in Tasks : TaskHigh(t) \/ TaskMid(t) \/ TaskLow(t)
  BY <1>4, TaskProgress
<1>5. CASE DemoInterrupt
  BY <1>5, QuietEnvInv DEF DemoInterrupt, Interrupt, QuietStep, RxInterrupt, OsGicIntClear,
     OsTickDispatcher, envVars, bootVars
<1>6. CASE TimerExpires /\ UNCHANGED demoVars
  BY <1>6 DEF QuietStep, TimerExpires, bootVars
<1>7. CASE \E kind \in Kinds : Type(kind) /\ UNCHANGED demoVars
  BY <1>7 DEF QuietStep, Type, SameClock, bootVars, tickVars
<1>8. CASE UNCHANGED demoSysVars
  BY <1>8 DEF QuietStep, SameClock, demoSysVars, shellSysVars, envVars, bootVars, tickVars,
     rxVars
<1> QED
  BY <1>1, <1>2, <1>3, <1>4, <1>5, <1>6, <1>7, <1>8 DEF DemoNext, DemoCode

LEMMA HandlersKept ==
  ASSUME Control, Control', Handlers, OS_SEM_COUNT_MAX > 0, [DemoNext]_demoSysVars
  PROVE  Handlers'
<1>0. /\ Zombie \notin Tasks /\ NoTask \notin Tasks /\ Zombie # NoTask
      /\ handler \in (IF boot = "done" THEN Tasks ELSE {Zombie}) \cup {NoTask}
  BY Names DEF Handlers
<1>1. CASE BootClock
  BY <1>0, <1>1 DEF BootClock, Handlers
<1>2. CASE OsUartRxHandle /\ UNCHANGED demoVars
  <2>1. /\ Outside /\ \A u \in Tasks : State(u) = ReadyTask => State(u)' = ReadyTask
    BY <1>2, RxHandleInv
  <2>2. /\ boot' = boot /\ handler' = handler /\ handler = running /\ role' = role
    BY <1>2 DEF OsUartRxHandle, envVars, bootVars, demoVars
  <2>3. ASSUME NEW h \in Tasks, role[h] = "high", handler' # running'
        PROVE  State(h)' \notin {ReadyTask, WaitingTask}
    BY <1>2, <2>2, <2>3, RxUnderHigh
  <2>4. ASSUME NEW h \in Tasks, role[h] = "high"
        PROVE  State(h)' \in {SuspendedTask, ReadyTask, WaitingTask, ExitedTask}
    <3>1. State(h)' = State(h)
      BY <2>1, <2>4 DEF Outside, Control, Roles
    <3> QED
      BY <2>4, <3>1, LiveTasks
  <2> QED
    BY <1>0, <2>1, <2>2, <2>3, <2>4 DEF Handlers
<1>3. ASSUME NEW t \in Tasks, Executing(t), Progress(t), SameClock PROVE Handlers'
  <2>1. /\ boot' = boot /\ handler' = handler /\ running = t /\ handler # t
    BY <1>3 DEF Executing, SameClock
  <2>2. boot = "done" /\ Active /\ State(t) = ReadyTask /\ IInv /\ Tops
    BY <2>1, RunnerReady DEF Control, BootSays
  <2>3. SUFFICES ASSUME handler \in Tasks
                 PROVE  /\ State(handler)' = ReadyTask
                        /\ handler # running' /\ role'[handler] # "none" =>
                             \A h \in Tasks : role'[h] = "high" =>
                               State(h)' \in {SuspendedTask, ExitedTask}
    BY <1>0, <2>1, <2>2 DEF Handlers
  <2>4. State(handler) = ReadyTask
    BY <2>3 DEF Handlers
  <2>5. State(handler)' = ReadyTask /\ role'[handler] = role[handler]
    BY <1>3, <2>1, <2>3, <2>4, StatesDiffer DEF Progress
  <2>6. ASSUME role[handler] # "none", NEW h \in Tasks, role'[h] = "high"
        PROVE  State(h)' \in {SuspendedTask, ExitedTask}
    <3>1. \A g \in Tasks : role[g] = "high" => State(g) \in {SuspendedTask, ExitedTask}
      BY <2>1, <2>3, <2>6 DEF Handlers
    <3>2. h # t
      <4>1. role'[t] = role[t]
        BY <1>3, <2>2, StatesDiffer DEF Progress
      <4> QED
        BY <2>2, <2>6, <3>1, <4>1, StatesDiffer
    <3>3. SUFFICES ASSUME role[h] = "high", State(h) = SuspendedTask, State(h)' = ReadyTask,
                          role[t] = "low"
                   PROVE  FALSE
      BY <1>3, <2>6, <3>1, <3>2, StatesDiffer DEF Progress
    <3>4. role[handler] \in {"mid", "low"}
      BY <2>3, <2>4, <2>6, <3>1, StatesDiffer DEF Control, Roles
    <3>5. role[handler] # "low"
      <4>1. role[handler] = "low" => Live(handler) /\ Live(t)
        BY <2>2, <2>3, <2>4, <3>3, LiveTasks, StatesDiffer
      <4> QED
        BY <2>1, <2>3, <3>3, <4>1 DEF Control, Order
    <3>6. ~ HighWaits
      BY <3>1, StatesDiffer DEF HighWaits, Waiting
    <3>7. priority[t] = 15 /\ priority[handler] = 10
      BY <2>2, <2>3, <2>4, <3>3, <3>4, <3>5, <3>6, Priorities, StatesDiffer
    <3>8. priority[t] <= priority[handler]
      BY <2>1, <2>2, <2>3, <2>4, TopRuns
    <3> QED
      BY <3>7, <3>8
  <2> QED
    BY <2>5, <2>6
<1>4. CASE QuietStep /\ (RxInterrupt \/ OsGicIntClear \/ OsTickDispatcher \/ TimerExpires
                           \/ SameClock)
  <2>1. /\ UNCHANGED vars /\ role' = role /\ boot' = boot
    BY <1>4 DEF QuietStep, demoVars
  <2>2. /\ running' = running /\ \A u \in Tasks : State(u)' = State(u)
    BY <2>1 DEF vars, schedVars, State
  <2>3. handler' \in {handler, running, NoTask}
    BY <1>4 DEF RxInterrupt, OsGicIntClear, OsTickDispatcher, TimerExpires, SameClock, rxVars
  <2>4. IF boot = "done" THEN running \in Tasks /\ State(running) = ReadyTask
        ELSE running = Zombie
    BY TopRuns, BootRuns DEF Control, BootSays
  <2> QED
    BY <1>0, <2>1, <2>2, <2>3, <2>4 DEF Handlers
<1> QED
  BY <1>1, <1>2, <1>3, <1>4, Steps

-----------------------------------------------------------------------------
(***************************************************************************)
(* The ticks that High counts.                                              *)
(***************************************************************************)
\* The clock ticks, the timer expires, or neither.
ClockSteps ==
  \/ UNCHANGED <<ticks, due, elapsed>>
  \/ /\ handler = NoTask /\ due /\ ~ due' /\ ticks' = ticks + 1 /\ elapsed' = elapsed
  \/ /\ ~ due \/ handler \notin {NoTask, running}
     /\ due' /\ ticks' = ticks /\ elapsed' = elapsed + 1

\* A handler begins or ends on top of what runs.
HandlerSteps ==
  \/ handler' = handler
  \/ handler = NoTask /\ handler' = running
  \/ handler = running /\ handler' = NoTask

LEMMA ClockMoves ==
  ASSUME Control, OS_SEM_COUNT_MAX > 0, [DemoNext]_demoSysVars
  PROVE  ClockSteps /\ HandlerSteps
<1>1. CASE BootClock
  BY <1>1 DEF BootClock, ClockSteps, HandlerSteps
<1>2. CASE OsUartRxHandle /\ UNCHANGED demoVars
  BY <1>2 DEF OsUartRxHandle, envVars, tickVars, ClockSteps, HandlerSteps
<1>3. CASE SameClock
  BY <1>3 DEF SameClock, ClockSteps, HandlerSteps
<1>4. CASE RxInterrupt \/ OsGicIntClear
  BY <1>4 DEF RxInterrupt, OsGicIntClear, Deliverable, envVars, tickVars, ClockSteps,
     HandlerSteps
<1>5. CASE OsTickDispatcher
  BY <1>5 DEF OsTickDispatcher, Deliverable, rxVars, ClockSteps, HandlerSteps
<1>6. CASE TimerExpires
  BY <1>6 DEF TimerExpires, rxVars, ClockSteps, HandlerSteps
<1> QED
  BY <1>1, <1>2, <1>3, <1>4, <1>5, <1>6, Steps

\* While High waits or is about to, a task that runs is not replaced under a handler.
LEMMA RunsOn ==
  ASSUME Control, Control', Handlers, OS_SEM_COUNT_MAX > 0, [DemoNext]_demoSysVars,
         handler = running \/ handler' # handler,
         NEW t \in Tasks, role'[t] = "high", pc'[t] \in {"take", "after"}, role[t] = "high"
  PROVE  running' = running
<1>0. State(t)' \in {ReadyTask, WaitingTask} /\ boot' = "done"
  BY ReignNext DEF Reign
<1>1. boot = "done"
  BY LiveTasks
<1>2. CASE BootClock
  BY <1>1, <1>2 DEF BootClock
<1>3. CASE OsUartRxHandle /\ UNCHANGED demoVars
  BY <1>0, <1>3, RxUnderHigh
<1>4. CASE \E u \in Tasks : Executing(u) /\ SameClock
  BY <1>4 DEF Executing, SameClock
<1>5. CASE QuietStep
  BY <1>5 DEF QuietStep, vars, schedVars
<1> QED
  BY <1>2, <1>3, <1>4, <1>5, Steps

LEMMA SameGap ==
  ASSUME NEW m \in Nat, NEW n \in Nat, NEW d \in Nat, NEW e \in Nat,
         NEW j \in Nat, NEW k \in Nat, NEW a \in Nat, NEW b \in Nat,
         (n + e) - k = (m + d) - j,
         (m + d - a) - (j - b) \in {0, 1}
  PROVE  (n + e - a) - (k - b) \in {0, 1}
OBVIOUS

\* The wait goes on.
LEMMA StillMeasured ==
  ASSUME Control, Control', Handlers, Handlers', OS_SEM_COUNT_MAX > 0,
         [DemoNext]_demoSysVars,
         NEW t \in Tasks, role[t] = "high", pc[t] \in {"take", "after"},
         role'[t] = "high", pc'[t] \in {"take", "after"}, before'[t] = before[t],
         ticks \in Nat, elapsed \in Nat,
         before[t] \in [ticks : Nat, periods : Nat, blind : BOOLEAN],
         Measured(t)
  PROVE  Measured(t)'
<1>1. ClockSteps /\ HandlerSteps
  BY ClockMoves
<1>2. NoTask \notin Tasks /\ NoTask # running
  BY Names, ReignHolds DEF Control, IInv, BootOrRun
<1>3. CASE before[t].blind
  <2>1. handler \in Tasks /\ handler # running /\ role[handler] = "none"
        /\ ticks = before[t].ticks
    BY <1>3 DEF Measured
  <2>2. handler' = handler /\ ticks' = ticks
    BY <1>1, <1>2, <2>1 DEF ClockSteps, HandlerSteps
  <2>3. role'[handler] = "none"
    <3>1. State(handler) = ReadyTask
      BY <2>1 DEF Handlers
    <3>2. handler \in Tasks /\ State(handler) # FreeTask
      BY <2>1, <3>1, StatesDiffer
    <3>3. CASE \E u \in Tasks : Progress(u)
      BY <2>1, <3>2, <3>3, <3>1, StatesDiffer DEF Progress
    <3>4. CASE UNCHANGED demoVars
      BY <2>1, <3>4 DEF demoVars
    <3> QED
      BY <3>3, <3>4, Steps DEF BootClock, QuietStep
  <2>4. role'[running'] \in {"high", "low"}
    BY ReignNext DEF Reign
  <2>5. handler' # running'
    BY <2>2, <2>3, <2>4
  <2> QED
    BY <1>3, <2>1, <2>2, <2>3, <2>5 DEF Measured
<1>4. CASE ~ before[t].blind
  <2>1. /\ handler \in {NoTask, running}
        /\ (ticks + D - before[t].ticks) - (elapsed - before[t].periods) \in {0, 1}
    BY <1>4 DEF Measured
  <2>2. handler' \in {NoTask, running'}
    <3>1. handler = running \/ handler' # handler => running' = running
      BY RunsOn
    <3> QED
      BY <1>1, <2>1, <3>1 DEF HandlerSteps
  <2>3. (ticks' + D') - elapsed' = (ticks + D) - elapsed
    <3>1. CASE UNCHANGED <<ticks, due, elapsed>>
      BY <3>1 DEF D
    <3>2. CASE due /\ ~ due' /\ ticks' = ticks + 1 /\ elapsed' = elapsed
      <4>1. D = 1 /\ D' = 0
        BY <3>2 DEF D
      <4> QED
        BY <3>2, <4>1
    <3>3. CASE ~ due /\ due' /\ ticks' = ticks /\ elapsed' = elapsed + 1
      <4>1. D = 0 /\ D' = 1
        BY <3>3 DEF D
      <4> QED
        BY <3>3, <4>1
    <3> QED
      BY <1>1, <2>1, <3>1, <3>2, <3>3 DEF ClockSteps
  <2>4. ticks' \in Nat /\ elapsed' \in Nat /\ D \in Nat /\ D' \in Nat
        /\ before[t].ticks \in Nat /\ before[t].periods \in Nat
    BY <1>1 DEF ClockSteps, D
  <2>5. (ticks' + D' - before[t].ticks) - (elapsed' - before[t].periods) \in {0, 1}
    <3>1. PICK a \in Nat, b \in Nat : a = before[t].ticks /\ b = before[t].periods
      BY <2>4
    <3>2. PICK d \in Nat, e \in Nat : d = D /\ e = D'
      BY <2>4
    <3>3. PICK m \in Nat, n \in Nat, j \in Nat, k \in Nat :
            m = ticks /\ n = ticks' /\ j = elapsed /\ k = elapsed'
      BY <2>4
    <3>4. (n + e) - k = (m + d) - j
      BY <2>3, <3>2, <3>3
    <3>5. (m + d - a) - (j - b) \in {0, 1}
      BY <2>1, <3>1, <3>2, <3>3
    <3>6. (n + e - a) - (k - b) \in {0, 1}
      BY <3>4, <3>5, SameGap
    <3> QED
      BY <3>1, <3>2, <3>3, <3>6
  <2> QED
    BY <1>4, <2>2, <2>5 DEF Measured
<1> QED
  BY <1>3, <1>4

\* Who measures does so since its HighBefore.
LEMMA WhoMeasures ==
  ASSUME Control, OS_SEM_COUNT_MAX > 0, [DemoNext]_demoSysVars,
         DOMAIN before = Tasks,
         NEW u \in Tasks, role'[u] = "high", pc'[u] \in {"take", "after"}
  PROVE  \/ HighBefore(u)
         \/ role[u] = "high" /\ pc[u] \in {"take", "after"} /\ before'[u] = before[u]
<1>1. /\ role \in [Tasks -> {"none", "high", "mid", "low"}] /\ pc \in [Tasks -> TaskLabels]
      /\ Tasks # {}
  BY DemoNames DEF Control, Roles
<1>2. CASE UNCHANGED <<role, pc, before>>
  BY <1>2
<1>3. CASE CreatePriorityInversionDemo
  <2>1. UNCHANGED before
    BY <1>3 DEF CreatePriorityInversionDemo, DemoCommand, DemoCreateSem, DemoCreateLow,
       DemoResumeLow, demoVars, clockVars
  <2>2. CASE DemoCreateLow
    <3>1. CreateTask("low", "take", pc)
      BY <2>2 DEF DemoCreateLow
    <3>2. PICK n : n = Head(list[FreeList])
      OBVIOUS
    <3>3. \/ role' = role /\ pc' = pc
          \/ role' = [role EXCEPT ![n] = "low"] /\ pc' = [pc EXCEPT ![n] = "take"]
      BY <3>1, <3>2 DEF CreateTask
    <3> QED
      BY <1>1, <2>1, <3>3
  <2> QED
    BY <1>2, <1>3, <2>1, <2>2 DEF CreatePriorityInversionDemo, DemoCommand, DemoCreateSem,
       DemoResumeLow, demoVars
<1>4. ASSUME NEW t \in Tasks, TaskHigh(t), ~ HighBefore(t)
      PROVE  role[u] = "high" /\ pc[u] \in {"take", "after"} /\ before'[u] = before[u]
  <2>1. CASE HighAfter(t)
    BY <1>1, <2>1 DEF HighAfter, Goto
  <2>2. CASE TaskAt(t, "high", "take") /\ Take(t, "after") /\ before' = before
    BY <1>1, <2>2 DEF TaskAt, Take, Goto
  <2>3. CASE TaskAt(t, "high", "give") /\ Give(t, "before") /\ before' = before
    BY <1>1, <2>3 DEF Give, Goto
  <2>4. CASE EntryReturns(t) /\ before' = before
    BY <1>1, <2>4 DEF EntryReturns, Goto
  <2> QED
    BY <1>4, <2>1, <2>2, <2>3, <2>4 DEF TaskHigh
<1>5. ASSUME NEW t \in Tasks, HighBefore(t), u # t
      PROVE  role[u] = "high" /\ pc[u] \in {"take", "after"} /\ before'[u] = before[u]
  BY <1>1, <1>5 DEF HighBefore, Goto
<1>6. ASSUME NEW t \in Tasks, TaskMid(t) \/ TaskLow(t)
      PROVE  role[u] = "high" /\ pc[u] \in {"take", "after"} /\ before'[u] = before[u]
  <2>1. UNCHANGED before
    BY <1>6 DEF TaskMid, TaskLow, clockVars
  <2>2. CASE EntryReturns(t)
    BY <1>1, <2>1, <2>2 DEF EntryReturns, Goto
  <2>3. CASE LowCreates(t)
    <3>1. PICK k \in {"high", "mid"}, first \in {"before", "run"},
               l \in {"resume_high", "resume_mid", "return", "give"} :
            CreateTask(k, first, [pc EXCEPT ![t] = l]) /\ role[t] = "low"
      BY <2>3 DEF LowCreates, TaskAt
    <3>2. PICK n : n = Head(list[FreeList])
      OBVIOUS
    <3>3. PICK q : q = [pc EXCEPT ![t] = l]
      OBVIOUS
    <3>4. \/ role' = role /\ pc' = q
          \/ role' = [role EXCEPT ![n] = k] /\ pc' = [q EXCEPT ![n] = first]
      BY <3>1, <3>2, <3>3 DEF CreateTask
    <3>5. DOMAIN q = Tasks /\ \A v \in Tasks \ {t} : q[v] = pc[v]
      BY <1>1, <3>3
    <3> QED
      BY <1>1, <2>1, <3>1, <3>4, <3>5
  <2>4. CASE role' = role /\ role[t] = "low" /\ \E b \in TaskLabels : Goto(t, b)
    BY <1>1, <2>1, <2>4 DEF Goto
  <2>5. TaskMid(t) \/ EntryReturns(t) \/ LowCreates(t)
        \/ (role' = role /\ role[t] = "low" /\ \E b \in TaskLabels : Goto(t, b))
    BY <1>6 DEF TaskLow, LowResumes, LowGives, Take, Give, TaskAt, TaskLabels, LowLabels
  <2> QED
    BY <2>2, <2>3, <2>4, <2>5 DEF TaskMid
<1> QED
  BY <1>2, <1>3, <1>4, <1>5, <1>6 DEF DemoNext, DemoCode, DemoInterrupt, demoSysVars, demoVars,
     clockVars

LEMMA Record ==
  ASSUME NEW a, NEW b, NEW c
  PROVE  /\ [ticks |-> a, periods |-> b, blind |-> c].ticks = a
         /\ [ticks |-> a, periods |-> b, blind |-> c].periods = b
         /\ [ticks |-> a, periods |-> b, blind |-> c].blind = c
OBVIOUS

\* High notes the tick: a handler that has not ended below it stopped a task that is
\* not the demo's.
LEMMA MeasureBegins ==
  ASSUME Control, Handlers, OS_SEM_COUNT_MAX > 0, DOMAIN before = Tasks,
         ticks \in Nat, elapsed \in Nat,
         NEW t \in Tasks, HighBefore(t)
  PROVE  Measured(t)'
<1>1. Acts(t, "high", "before") /\ Executing(t)
  BY TaskActs DEF HighBefore, TaskAt
<1>2. /\ running' = running /\ role' = role
      /\ UNCHANGED <<handler, ticks, due, elapsed>>
  BY DEF HighBefore, TaskAt, vars, schedVars, envVars, tickVars, rxVars
<1>3. PICK c \in BOOLEAN : c = (handler # NoTask)
  OBVIOUS
<1>4. before'[t] = [ticks |-> ticks, periods |-> elapsed, blind |-> c]
  BY <1>3 DEF HighBefore
<1>5. before'[t].ticks = ticks /\ before'[t].periods = elapsed /\ (before'[t].blind <=> c)
  BY <1>4, Record
<1>6. CASE handler # NoTask
  <2>1. before'[t].blind
    BY <1>3, <1>5, <1>6
  <2>2. handler \in Tasks /\ handler # running
    BY <1>1, <1>6 DEF Handlers, Acts, Executing
  <2>3. role[handler] = "none"
    BY <1>1, <2>2, StatesDiffer DEF Handlers, Acts
  <2> QED
    BY <1>2, <1>5, <2>1, <2>2, <2>3 DEF Measured
<1>7. CASE handler = NoTask
  <2>1. ~ before'[t].blind
    BY <1>3, <1>5, <1>7
  <2>2. PICK d \in {0, 1} : d = D'
    BY DEF D
  <2>3. PICK m \in Nat, j \in Nat : /\ m = ticks' /\ m = before'[t].ticks
                                     /\ j = elapsed' /\ j = before'[t].periods
    BY <1>2, <1>5
  <2>4. (m + d - m) - (j - j) \in {0, 1}
    OBVIOUS
  <2>5. (ticks' + D' - before'[t].ticks) - (elapsed' - before'[t].periods) \in {0, 1}
    BY <2>2, <2>3, <2>4
  <2> QED
    BY <1>2, <1>7, <2>1, <2>5 DEF Measured
<1> QED
  BY <1>6, <1>7

WaitOf(w) == IF w.blind THEN w.ticks = 0 ELSE w.ticks - w.periods \in {-1, 0, 1}
Waits == [ticks : Int, periods : Int, blind : BOOLEAN]

\* High prints what it counted.
LEMMA MeasureEnds ==
  ASSUME ticks \in Nat, elapsed \in Nat,
         NEW t \in Tasks, Measured(t),
         before[t] \in [ticks : Nat, periods : Nat, blind : BOOLEAN],
         NEW w, w = [ticks |-> ticks - before[t].ticks, periods |-> elapsed - before[t].periods,
                     blind |-> before[t].blind]
  PROVE  w \in Waits /\ WaitOf(w)
<1>1. PICK a \in Nat, b \in Nat, c \in BOOLEAN :
        a = before[t].ticks /\ b = before[t].periods /\ (c = before[t].blind)
  OBVIOUS
<1>2. w = [ticks |-> ticks - a, periods |-> elapsed - b, blind |-> c]
  BY <1>1
<1>3. w.ticks = ticks - a /\ w.periods = elapsed - b /\ (w.blind <=> c)
  BY <1>2, Record
<1>4. w \in Waits
  BY <1>1, <1>2 DEF Waits
<1>5. CASE c
  <2>1. ticks = a
    BY <1>1, <1>5 DEF Measured
  <2>2. ticks - a = 0
    BY <2>1
  <2> QED
    BY <1>3, <1>4, <1>5, <2>2 DEF WaitOf
<1>6. CASE ~ c
  <2>1. PICK d \in {0, 1} : d = D
    BY DEF D
  <2>2. (ticks + d - a) - (elapsed - b) \in {0, 1}
    BY <1>1, <1>6, <2>1 DEF Measured
  <2>3. (ticks - a) - (elapsed - b) \in {-1, 0, 1}
    BY <2>1, <2>2
  <2> QED
    BY <1>3, <1>4, <1>6, <2>3 DEF WaitOf
<1> QED
  BY <1>5, <1>6

LEMMA NoWait ==
  NoClock \in [ticks : Nat, periods : Nat, blind : BOOLEAN] /\ NoClock \in Waits /\ WaitOf(NoClock)
<1>1. NoClock.ticks = 0 /\ NoClock.periods = 0 /\ ~ NoClock.blind
  BY DEF NoClock
<1> QED
  BY <1>1 DEF NoClock, Waits, WaitOf

LEMMA WaitsMeasured ==
  WaitMeasured <=> \A t \in Tasks : WaitOf(waited[t])
BY DEF WaitMeasured, WaitOf

LEMMA TimesInit ==
  ASSUME DemoInit
  PROVE  Handlers /\ Times
<1>1. /\ handler = NoTask /\ ticks = 0 /\ elapsed = 0 /\ due = FALSE
      /\ role = [t \in Tasks |-> "none"]
      /\ before = [t \in Tasks |-> NoClock] /\ waited = [t \in Tasks |-> NoClock]
  BY DEF DemoInit, ShellInit
<1>2. Handlers
  BY <1>1, Names DEF Handlers
<1>3. WaitMeasured
  BY <1>1, NoWait, WaitsMeasured
<1>4. /\ before \in [Tasks -> [ticks : Nat, periods : Nat, blind : BOOLEAN]]
      /\ waited \in [Tasks -> [ticks : Int, periods : Int, blind : BOOLEAN]]
  BY <1>1, NoWait DEF Waits
<1> QED
  BY <1>1, <1>2, <1>3, <1>4 DEF Times

LEMMA TimesKept ==
  ASSUME Control, Control', Handlers, Handlers', Times, OS_SEM_COUNT_MAX > 0,
         [DemoNext]_demoSysVars
  PROVE  Times'
<1>1. /\ ticks \in Nat /\ elapsed \in Nat
      /\ before \in [Tasks -> [ticks : Nat, periods : Nat, blind : BOOLEAN]]
      /\ waited \in [Tasks -> Waits]
      /\ \A t \in Tasks : role[t] = "high" /\ pc[t] \in {"take", "after"} => Measured(t)
      /\ \A t \in Tasks : WaitOf(waited[t])
  BY WaitsMeasured DEF Times, Waits
<1>2. ticks' \in Nat /\ elapsed' \in Nat
  BY <1>1, ClockMoves DEF ClockSteps
<1>3. ASSUME NEW u \in Tasks, role'[u] = "high", pc'[u] \in {"take", "after"}
      PROVE  Measured(u)'
  <2>1. CASE HighBefore(u)
    BY <1>1, <2>1, MeasureBegins
  <2>2. CASE role[u] = "high" /\ pc[u] \in {"take", "after"} /\ before'[u] = before[u]
    BY <1>1, <1>3, <2>2, StillMeasured
  <2> QED
    BY <1>1, <1>3, <2>1, <2>2, WhoMeasures
<1>4. /\ before' \in [Tasks -> [ticks : Nat, periods : Nat, blind : BOOLEAN]]
      /\ waited' \in [Tasks -> Waits]
      /\ \A u \in Tasks : WaitOf(waited'[u])
  <2>1. CASE UNCHANGED clockVars
    BY <1>1, <2>1 DEF clockVars
  <2>2. ASSUME NEW t \in Tasks, HighBefore(t)
        PROVE  /\ before' \in [Tasks -> [ticks : Nat, periods : Nat, blind : BOOLEAN]]
               /\ waited' \in [Tasks -> Waits]
               /\ \A u \in Tasks : WaitOf(waited'[u])
    <3>1. PICK c \in BOOLEAN : c = (handler # NoTask)
      OBVIOUS
    <3>2. PICK r : r = [ticks |-> ticks, periods |-> elapsed, blind |-> c]
      OBVIOUS
    <3>3. r \in [ticks : Nat, periods : Nat, blind : BOOLEAN]
      BY <1>1, <3>1, <3>2
    <3>4. before' = [before EXCEPT ![t] = r] /\ waited' = waited
      BY <2>2, <3>1, <3>2 DEF HighBefore
    <3> QED
      BY <1>1, <3>3, <3>4
  <2>3. ASSUME NEW t \in Tasks, HighAfter(t)
        PROVE  /\ before' \in [Tasks -> [ticks : Nat, periods : Nat, blind : BOOLEAN]]
               /\ waited' \in [Tasks -> Waits]
               /\ \A u \in Tasks : WaitOf(waited'[u])
    <3>1. PICK w : w = [ticks |-> ticks - before[t].ticks,
                        periods |-> elapsed - before[t].periods, blind |-> before[t].blind]
      OBVIOUS
    <3>2. Measured(t)
      BY <1>1, <2>3 DEF HighAfter, TaskAt
    <3>3. w \in Waits /\ WaitOf(w)
      BY <1>1, <3>1, <3>2, MeasureEnds
    <3>4. before' = [before EXCEPT ![t] = NoClock] /\ waited' = [waited EXCEPT ![t] = w]
      BY <2>3, <3>1 DEF HighAfter
    <3> QED
      BY <1>1, <3>3, <3>4, NoWait
  <2>4. ASSUME NEW t \in Tasks, before' = before, waited' = [waited EXCEPT ![t] = NoClock]
        PROVE  /\ before' \in [Tasks -> [ticks : Nat, periods : Nat, blind : BOOLEAN]]
               /\ waited' \in [Tasks -> Waits]
               /\ \A u \in Tasks : WaitOf(waited'[u])
    BY <1>1, <2>4, NoWait
  <2>5. \/ UNCHANGED clockVars
        \/ \E t \in Tasks : TaskHigh(t)
    BY Steps DEF BootClock, QuietStep, demoVars, clockVars
  <2> QED
    BY <2>1, <2>2, <2>3, <2>4, <2>5 DEF TaskHigh
<1>5. WaitMeasured'
  BY <1>4 DEF WaitMeasured, WaitOf
<1> QED
  BY <1>2, <1>3, <1>4, <1>5 DEF Times, Waits

\* test_priority_inversion.c: the ticks High prints are the time it waited, or 0 when
\* the handler under the demo holds the clock.
THEOREM WaitIsMeasured ==
  ASSUME ~ Overlapping, OS_SEM_COUNT_MAX > 0
  PROVE  DemoSpec => []WaitMeasured
<1>1. DemoInit => DemoInv
  BY ControlInit, TimesInit DEF DemoInv
<1>2. DemoInv /\ Control' /\ [DemoNext]_demoSysVars => DemoInv'
  BY HandlersKept, TimesKept DEF DemoInv
<1>3. DemoInv => WaitMeasured
  BY DEF DemoInv, Times
<1> QED
  BY <1>1, <1>2, <1>3, ControlHolds, PTL DEF DemoSpec
=============================================================================
