--------------------------- MODULE IpcRing_proofs ---------------------------
(***************************************************************************)
(* The invariant of the producer/consumer demo and the theorems that follow *)
(* from it: the mutex excludes the four tasks and the shell, and the two    *)
(* counting semaphores count the places and the items of the ring.          *)
(***************************************************************************)
EXTENDS IpcRing, Kernel_proofs

RxSemMade == boot \notin {"hwi", "timer", "modules", "uart", "sem"}

\* IPC_RingDemoStart has made the three semaphores.
Made == demoStarted \/ shellPc \in {"create", "resume"}

\* How many of the demo's tasks exist.
Started == CASE demoStarted -> 4
             [] ~ demoStarted /\ shellPc = "resume" -> starting
             [] ~ demoStarted /\ shellPc = "create" -> starting - 1
             [] OTHER -> 0

Booted == CASE boot \in {"resume", "activate"} -> 1
            [] boot = "done" -> 2
            [] OTHER -> 0

StatLabels == {"lock", "copy1", "copy2", "unlock"}
StartLabels == {"empty", "full", "mutex", "create", "resume"}
ShellLabels == {"pend", "read", "dispatch"} \cup StatLabels \cup StartLabels
MutexLabels == {"slot", "index", "count", "unlock", "copy1", "copy2"}
TaskLabels == {"none", "token", "lock", "slot", "index", "count", "unlock", "signal", "exited"}
Kind == {"producer", "consumer"}

\* How far main is, and how many stacks the tasks made so far have taken.
BootSays ==
  /\ boot \in {"hwi", "timer", "modules", "uart", "sem", "create", "resume", "activate", "done"}
  /\ Active <=> boot = "done"
  /\ boot # "done" => shellPc = "pend" /\ demoStarted = FALSE
  /\ RxSemMade => semStat[sem_uart_rx] = "USED"
  /\ ~ RxSemMade => unusedSem = [i \in 1 .. NumSems |-> i - 1]
  /\ stackMemUsed <= Booted + Started

\* Where the shell is in ipc or ipcs.
ShellSays ==
  /\ shellPc \in ShellLabels
  /\ demoStarted \in BOOLEAN
  /\ shellPc \in StatLabels => demoStarted
  /\ shellPc \in StartLabels => ~ demoStarted
  /\ starting \in 1 .. 4
  /\ prios \in TaskPrios

\* Which tasks the demo has, and where they are.
Roles ==
  /\ role \in [Tasks -> [kind : Kind \cup {"none"}, no : 0 .. 2, prio : 0 .. 62]]
  /\ pc \in [Tasks -> TaskLabels]
  /\ role[Shell].kind = "none"
  /\ \A t \in Tasks : /\ role[t].kind = "none" <=> pc[t] = "none"
                      /\ role[t].kind # "none" => Made /\ status[t] # {}

Good(s) == s \in Sems \ {sem_uart_rx} /\ semStat[s] = "USED"

\* The handles name three semaphores made for the demo.
Handles ==
  /\ semEmpty \in Sems /\ semFull \in Sems /\ semMutex \in Sems
  /\ shellPc \in {"full", "mutex"} \/ Made => Good(semEmpty)
  /\ shellPc = "mutex" \/ Made => Good(semFull) /\ semFull # semEmpty
  /\ Made => Good(semMutex) /\ semMutex # semEmpty /\ semMutex # semFull

Token(t) == IF role[t].kind = "producer" THEN semEmpty ELSE semFull

\* Who waits waits for the semaphore its place in the program says.
WaitsForRx(t) == t = Shell /\ taskSem[t] = sem_uart_rx /\ Labels(t) = "read"
WaitsForMutex(t) == Made /\ taskSem[t] = semMutex /\ Labels(t) \in {"slot", "copy1"}
WaitsForToken(t) == Made /\ t # Shell /\ taskSem[t] = Token(t) /\ Labels(t) = "lock"
Waits(t) == WaitsForRx(t) \/ WaitsForMutex(t) \/ WaitsForToken(t)

Waiters == \A t \in Tasks : Blocked(t) => Waits(t)

\* The mutex has its token, or the task that owns it, and no other, is between
\* its pend and its post.
Inside(t) == ~ Blocked(t) /\ Labels(t) \in MutexLabels

Mutex ==
  Made => \/ semCount[semMutex] = 1 /\ \A t \in Tasks : ~ Inside(t)
          \/ /\ semCount[semMutex] = 0 /\ semOwner[semMutex] \in Tasks
             /\ \A t \in Tasks : Inside(t) <=> t = semOwner[semMutex]

Place == BootSays /\ ShellSays /\ Roles /\ Handles
Control == IInv /\ Place /\ Waiters /\ Mutex

-----------------------------------------------------------------------------
LEMMA RingNames ==
  /\ sem_uart_rx \in Sems /\ Shell \in Tasks
  /\ ShellPrio \in 0 .. OS_TSK_PRIORITY_LOWEST
  /\ RING_BUF_SIZE \in Nat /\ RING_BUF_SIZE > 0 /\ PER_TASK \in Nat
  /\ OS_SEM_COUNT_MAX \in Nat
BY ShellAssumption, SizesAssumption, CountsAssumption, RingAssumption
   DEF sem_uart_rx, Sems, Shell, Tasks, ShellPrio, OS_TSK_PRIORITY_LOWEST

\* Whoever runs once the kernel has started is ready, so it does not wait.
LEMMA RunnerReady ==
  ASSUME IInv, NEW t \in Tasks, running = t
  PROVE  Active /\ ~ Blocked(t) /\ State(t) = ReadyTask /\ status[t] # {}
<1>1. Active /\ "READY" \in status[t]
  BY Names DEF IInv, BootOrRun
<1>2. State(t) = ReadyTask /\ status[t] # {}
  BY <1>1, States
<1> QED
  BY <1>1, <1>2 DEF Blocked, State, ReadyTask

-----------------------------------------------------------------------------
(***************************************************************************)
(* What the calls on semaphores do to the tasks that wait.                  *)
(***************************************************************************)
\* What every call of a running system leaves alone.
Calm == /\ IInv' /\ (Active' <=> Active)
        /\ semStat' = semStat /\ unusedSem' = unusedSem /\ stackMemUsed' = stackMemUsed
        /\ \A u \in Tasks : status'[u] = {} <=> status[u] = {}

Unmoved(T) == \A u \in T : Blocked(u)' <=> Blocked(u)

Takes(t, s) == /\ semCount[s] > 0 /\ semCount' = [semCount EXCEPT ![s] = @ - 1]
               /\ semOwner' = [semOwner EXCEPT ![s] = t]
               /\ taskSem' = taskSem /\ Unmoved(Tasks)

Blocks(t, s) == /\ semCount[s] = 0 /\ Blocked(t)' /\ Unmoved(Tasks \ {t})
                /\ taskSem' = [taskSem EXCEPT ![t] = s]
                /\ semCount' = semCount /\ semOwner' = semOwner

Keeps(s) == /\ \A u \in Tasks : ~ (Blocked(u) /\ taskSem[u] = s)
            /\ semCount' = [semCount EXCEPT ![s] = @ + 1]
            /\ semOwner' = [semOwner EXCEPT ![s] = NoTask]
            /\ taskSem' = taskSem /\ Unmoved(Tasks)

Wakes(h, s) == /\ Blocked(h) /\ taskSem[h] = s /\ ~ Blocked(h)' /\ Unmoved(Tasks \ {h})
               /\ taskSem' = [taskSem EXCEPT ![h] = NoSem]
               /\ semCount' = semCount
               /\ semOwner' = [semOwner EXCEPT ![s] = h]

\* The kernel is left as it was.
Idles == /\ Unmoved(Tasks)
         /\ taskSem' = taskSem /\ semCount' = semCount /\ semOwner' = semOwner

LEMMA KernelKept ==
  ASSUME IInv, UNCHANGED vars
  PROVE  Calm /\ Idles
<1>1. UNCHANGED <<status, uniFlag, taskSem, stackMemUsed, semStat, semCount, semOwner,
                  unusedSem>>
  BY DEF vars, schedVars, semVars, tskVars
<1> QED
  BY <1>1, StutterInv DEF Calm, Idles, Unmoved, Blocked, Active

\* A task that changes its state, and neither is nor becomes free.
LEMMA GoesCalm ==
  ASSUME IInv, IInv', NEW t \in Tasks, NEW from, NEW to, Goes(t, from, to),
         from # FreeTask, to # FreeTask
  PROVE  /\ \A u \in Tasks : status'[u] = {} <=> status[u] = {}
         /\ Unmoved(Tasks \ {t})
         /\ Blocked(t) <=> "PEND" \in from
         /\ Blocked(t)' <=> "PEND" \in to
<1>1. \A u \in Tasks : status[u] = {} <=> State(u) = FreeTask
  BY States
<1>2. \A u \in Tasks : status'[u] = {} <=> State(u)' = FreeTask
  BY BitsSayNext DEF BitsSay
<1>3. \A u \in Tasks \ {t} : State(u)' = State(u)
  BY DEF Goes
<1>4. State(t) = from /\ State(t)' = to
  BY DEF Goes
<1>5. Unmoved(Tasks \ {t})
  BY <1>3 DEF Unmoved, Blocked, State
<1>6. (Blocked(t) <=> "PEND" \in from) /\ (Blocked(t)' <=> "PEND" \in to)
  BY <1>4 DEF Blocked, State
<1> QED
  BY <1>1, <1>2, <1>3, <1>4, <1>5, <1>6

LEMMA PendEffect ==
  ASSUME IInv, NEW t \in Tasks, running = t, NEW s \in Sems, semStat[s] = "USED",
         PRT_SemPend(s, "FOREVER")
  PROVE  Calm /\ (Takes(t, s) \/ Blocks(t, s))
<1>1. TaskRuns /\ (SemPendTake(s) \/ SemPendBlock(s, "FOREVER"))
  BY DEF PRT_SemPend
<1>2. CASE SemPendTake(s)
  <2>1. /\ UNCHANGED <<status, uniFlag, taskSem, stackMemUsed, semStat, unusedSem>>
        /\ semCount[s] > 0 /\ semCount' = [semCount EXCEPT ![s] = @ - 1]
        /\ semOwner' = [semOwner EXCEPT ![s] = t]
    BY <1>2 DEF SemPendTake, schedVars, tskVars
  <2>2. IInv'
    BY <1>1, <1>2, SemPendTakeInv
  <2> QED
    BY <2>1, <2>2 DEF Calm, Takes, Unmoved, Blocked, Active
<1>3. CASE SemPendBlock(s, "FOREVER")
  <2>1. /\ semCount[s] = 0 /\ taskSem' = [taskSem EXCEPT ![t] = s]
        /\ UNCHANGED <<stackMemUsed, semStat, semCount, semOwner, unusedSem>>
    BY <1>3 DEF SemPendBlock, semVars
  <2>2. IInv' /\ Goes(t, ReadyTask, WaitingTask) /\ Active /\ Active'
    BY <1>1, <1>3, SemPendBlockInv
  <2>3. /\ ReadyTask # FreeTask /\ WaitingTask # FreeTask /\ "PEND" \in WaitingTask
    BY DEF ReadyTask, WaitingTask, FreeTask
  <2>4. /\ \A u \in Tasks : status'[u] = {} <=> status[u] = {}
        /\ Unmoved(Tasks \ {t}) /\ Blocked(t)'
    BY <2>2, <2>3, GoesCalm
  <2> QED
    BY <2>1, <2>2, <2>4 DEF Calm, Blocks
<1> QED
  BY <1>1, <1>2, <1>3

LEMMA PostEffect ==
  ASSUME IInv, NEW s \in Sems, semStat[s] = "USED", PRT_SemPost(s)
  PROVE  Calm /\ \/ Keeps(s) \/ \E h \in Tasks : Wakes(h, s)
                 \/ Idles /\ semCount[s] >= OS_SEM_COUNT_MAX
<1>1. \/ UNCHANGED vars /\ semCount[s] >= OS_SEM_COUNT_MAX
      \/ SemPostWake(s) \/ SemPostKeep(s)
  BY DEF PRT_SemPost, Fail
<1>2. CASE UNCHANGED vars /\ semCount[s] >= OS_SEM_COUNT_MAX
  BY <1>2, KernelKept
<1>3. CASE SemPostKeep(s)
  <2>1. /\ list[s] = << >>
        /\ UNCHANGED <<taskSem, stackMemUsed, semStat, unusedSem>>
        /\ semCount' = [semCount EXCEPT ![s] = @ + 1]
        /\ semOwner' = [semOwner EXCEPT ![s] = NoTask]
    BY <1>3 DEF SemPostKeep, ListEmpty, tskVars
  <2>2. IInv' /\ status' = status /\ uniFlag' = uniFlag
    BY <1>3, SemPostKeepInv
  <2>3. \A u \in Tasks : ~ (Blocked(u) /\ taskSem[u] = s)
    <3>1. \A u \in Tasks : u \in Range(list[s]) <=> Blocked(u) /\ taskSem[u] = s
      BY OnWaitQueue, Invariants DEF Blocked
    <3>2. Range(list[s]) = {}
      BY <2>1 DEF Range
    <3> QED
      BY <3>1, <3>2
  <2> QED
    BY <2>1, <2>2, <2>3 DEF Calm, Keeps, Unmoved, Blocked, Active
<1>4. CASE SemPostWake(s)
  <2>0. PICK h : h = Head(list[s])
    OBVIOUS
  <2>1. /\ list[s] # << >>
        /\ UNCHANGED <<stackMemUsed, semStat, semCount, unusedSem>>
        /\ taskSem' = [taskSem EXCEPT ![h] = NoSem]
        /\ semOwner' = [semOwner EXCEPT ![s] = h]
    BY <1>4, <2>0 DEF SemPostWake, ListEmpty
  <2>2. IInv' /\ h \in Tasks /\ Goes(h, WaitingTask, ReadyTask) /\ Active /\ Active'
    BY <1>4, <2>0, SemPostWakeInv
  <2>3. h \in Range(list[s])
    <3>1. s \in Heads /\ list[s] \in Seq(Tasks)
      BY Invariants, Names DEF ListType
    <3> QED
      BY <2>0, <2>1, <3>1, HeadOfList
  <2>4. Blocked(h) /\ taskSem[h] = s
    BY <2>2, <2>3, OnWaitQueue, Invariants DEF Blocked
  <2>5. ReadyTask # FreeTask /\ WaitingTask # FreeTask /\ "PEND" \notin ReadyTask
    BY DEF ReadyTask, WaitingTask, FreeTask
  <2>6. /\ \A u \in Tasks : status'[u] = {} <=> status[u] = {}
        /\ Unmoved(Tasks \ {h}) /\ ~ Blocked(h)'
    BY <2>2, <2>5, GoesCalm
  <2> QED
    BY <2>1, <2>2, <2>4, <2>6 DEF Calm, Wakes
<1> QED
  BY <1>1, <1>2, <1>3, <1>4

-----------------------------------------------------------------------------
(***************************************************************************)
(* One task, or the shell, goes on: its label becomes b, and the demo stays *)
(* as it is.                                                                *)
(***************************************************************************)
Moves(t, b) == /\ \A u \in Tasks : Labels(u)' = IF u = t THEN b ELSE Labels(u)
               /\ Made' <=> Made
               /\ UNCHANGED <<role, semEmpty, semFull, semMutex>>

SameClass(a, b) == a \in MutexLabels <=> b \in MutexLabels

\* Whoever still waits, waits for the same.
LEMMA StillWaits ==
  ASSUME NEW t, NEW b, Moves(t, b), NEW u \in Tasks \ {t}, Waits(u), taskSem'[u] = taskSem[u]
  PROVE  Waits(u)'
BY DEF Moves, Waits, WaitsForRx, WaitsForMutex, WaitsForToken, Token

LEMMA WaitersKept ==
  ASSUME Control, NEW t, NEW b, Moves(t, b),
         t \in Tasks /\ Blocked(t)' => Waits(t)',
         \A u \in Tasks \ {t} : Blocked(u)' => Blocked(u) /\ taskSem'[u] = taskSem[u]
  PROVE  Waiters'
<1> SUFFICES ASSUME NEW u \in Tasks, Blocked(u)' PROVE Waits(u)'
  BY DEF Waiters
<1>1. CASE u = t
  BY <1>1
<1>2. CASE u # t
  BY <1>2, StillWaits DEF Control, Waiters
<1> QED
  BY <1>1, <1>2

LEMMA MutexKept ==
  ASSUME Control, Made' => Made, semMutex' = semMutex,
         Made => /\ semCount'[semMutex] = semCount[semMutex]
                 /\ semOwner'[semMutex] = semOwner[semMutex]
                 /\ \A u \in Tasks : Inside(u)' <=> Inside(u)
  PROVE  Mutex'
BY DEF Control, Mutex

\* No call on a semaphore.
LEMMA QuietMove ==
  ASSUME Control, NEW t, NEW b, Moves(t, b), UNCHANGED vars,
         t \in Tasks => ~ Blocked(t) /\ SameClass(Labels(t), b)
  PROVE  Calm /\ (Place' => Control')
<1>1. Calm /\ Idles
  BY KernelKept DEF Control
<1>2. Waiters'
  BY <1>1, WaitersKept DEF Idles, Unmoved
<1>3. Mutex'
  <2>1. \A u \in Tasks : Inside(u)' <=> Inside(u)
    BY <1>1 DEF Moves, SameClass, Inside, Idles, Unmoved
  <2> QED
    BY <1>1, <2>1, MutexKept DEF Moves, Idles
<1> QED
  BY <1>1, <1>2, <1>3 DEF Calm, Control

\* A call on another semaphore than the mutex.
LEMMA PendMove ==
  ASSUME Control, NEW t \in Tasks, NEW b, Moves(t, b), running = t,
         NEW s \in Sems, semStat[s] = "USED", Made => s # semMutex,
         PRT_SemPend(s, "FOREVER"),
         Labels(t) \notin MutexLabels, b \notin MutexLabels,
         taskSem'[t] = s => Waits(t)'
  PROVE  /\ Calm /\ (Place' => Control')
         /\ Takes(t, s) \/ Blocks(t, s)
<1>1. Calm /\ (Takes(t, s) \/ Blocks(t, s)) /\ IInv
  BY PendEffect DEF Control
<1>2. ~ Blocked(t)
  BY RunnerReady DEF Control
<1>3. /\ semCount \in [Sems -> Nat] /\ semOwner \in [Sems -> Tasks \cup {NoTask}]
      /\ taskSem \in [TCBs -> Sems \cup {NoSem}]
  BY <1>1 DEF IInv, RestType
<1>4. Waiters'
  <2>1. Blocked(t)' => taskSem'[t] = s
    BY <1>1, <1>2, <1>3, Names DEF Takes, Blocks, Unmoved
  <2>2. \A u \in Tasks \ {t} : /\ Blocked(u)' <=> Blocked(u)
                               /\ taskSem'[u] = taskSem[u]
    BY <1>1, <1>3, Names DEF Takes, Blocks, Unmoved
  <2> QED
    BY <2>1, <2>2, WaitersKept
<1>5. Mutex'
  <2>1. \A u \in Tasks : Inside(u)' <=> Inside(u)
    BY <1>1 DEF Moves, Inside, Takes, Blocks, Unmoved
  <2>2. Made => /\ semCount'[semMutex] = semCount[semMutex]
                /\ semOwner'[semMutex] = semOwner[semMutex]
    BY <1>1, <1>3 DEF Takes, Blocks, Control, Place, Handles
  <2> QED
    BY <2>1, <2>2, MutexKept DEF Moves
<1> QED
  BY <1>1, <1>4, <1>5 DEF Calm, Control

LEMMA PostMove ==
  ASSUME Control, NEW t, NEW b, Moves(t, b),
         t \in Tasks => ~ Blocked(t) /\ SameClass(Labels(t), b),
         NEW s \in Sems, semStat[s] = "USED", Made => s # semMutex,
         PRT_SemPost(s)
  PROVE  /\ Calm /\ (Place' => Control')
         /\ \/ Keeps(s)
            \/ \E h \in Tasks \ {t} : Wakes(h, s) /\ Labels(h) \in {"read", "lock"}
            \/ Idles /\ semCount[s] >= OS_SEM_COUNT_MAX
<1>1. /\ IInv /\ Calm
      /\ \/ Keeps(s) \/ \E h \in Tasks : Wakes(h, s)
         \/ Idles /\ semCount[s] >= OS_SEM_COUNT_MAX
  BY PostEffect DEF Control
<1>2. /\ semCount \in [Sems -> Nat] /\ semOwner \in [Sems -> Tasks \cup {NoTask}]
      /\ taskSem \in [TCBs -> Sems \cup {NoSem}]
  BY <1>1 DEF IInv, RestType
<1>3. ASSUME NEW h \in Tasks, Wakes(h, s)
      PROVE  h # t /\ Labels(h) \in {"read", "lock"}
  <2>1. Blocked(h) /\ taskSem[h] = s /\ Waits(h)
    BY <1>3 DEF Wakes, Control, Waiters
  <2> QED
    BY <2>1 DEF Waits, WaitsForRx, WaitsForMutex, WaitsForToken
<1>4. Waiters'
  <2>1. \A u \in Tasks : Blocked(u)' => Blocked(u) /\ taskSem'[u] = taskSem[u]
    BY <1>1, <1>2, Names DEF Keeps, Wakes, Idles, Unmoved
  <2> QED
    BY <2>1, WaitersKept
<1>5. Mutex'
  <2>1. \A u \in Tasks : Inside(u)' <=> Inside(u)
    <3>1. CASE Keeps(s) \/ Idles
      BY <3>1 DEF Moves, SameClass, Inside, Keeps, Idles, Unmoved
    <3>2. ASSUME NEW h \in Tasks, Wakes(h, s) PROVE \A u \in Tasks : Inside(u)' <=> Inside(u)
      <4>1. Labels(h) \notin MutexLabels /\ h # t
        BY <3>2, <1>3 DEF MutexLabels
      <4>2. Unmoved(Tasks \ {h})
        BY <3>2 DEF Wakes
      <4> QED
        BY <4>1, <4>2 DEF Moves, SameClass, Inside, Unmoved
    <3> QED
      BY <1>1, <3>1, <3>2
  <2>2. Made => /\ semCount'[semMutex] = semCount[semMutex]
                /\ semOwner'[semMutex] = semOwner[semMutex]
    BY <1>1, <1>2 DEF Keeps, Wakes, Idles, Control, Place, Handles
  <2> QED
    BY <2>1, <2>2, MutexKept DEF Moves
<1> QED
  BY <1>1, <1>3, <1>4, <1>5 DEF Calm, Control

\* The mutex is taken, or waited for.
LEMMA LockMove ==
  ASSUME Control, NEW t \in Tasks, NEW b \in {"slot", "copy1"}, Moves(t, b), running = t,
         Made, Labels(t) = "lock", PRT_SemPend(semMutex, "FOREVER")
  PROVE  /\ Calm /\ (Place' => Control')
         /\ Takes(t, semMutex) \/ Blocks(t, semMutex)
<1>0. PICK s : s = semMutex
  OBVIOUS
<1>1. s \in Sems /\ semStat[s] = "USED" /\ IInv
  BY <1>0 DEF Control, Place, Handles, Good
<1>2. Calm /\ (Takes(t, s) \/ Blocks(t, s))
  BY <1>0, <1>1, PendEffect
<1>3. ~ Blocked(t)
  BY <1>1, RunnerReady
<1>4. /\ semCount \in [Sems -> Nat] /\ semOwner \in [Sems -> Tasks \cup {NoTask}]
      /\ taskSem \in [TCBs -> Sems \cup {NoSem}]
  BY <1>1 DEF IInv, RestType
<1>5. /\ semMutex' = s /\ Made' /\ Labels(t)' = b
      /\ \A u \in Tasks \ {t} : Labels(u)' = Labels(u)
  BY <1>0 DEF Moves
<1>6. b \in MutexLabels /\ "lock" \notin MutexLabels
  BY DEF MutexLabels
<1>7. Waiters'
  <2>1. Blocked(t)' => taskSem'[t] = s
    BY <1>2, <1>3, <1>4, Names DEF Takes, Blocks, Unmoved
  <2>2. Blocked(t)' => Waits(t)'
    BY <2>1, <1>5 DEF Waits, WaitsForMutex
  <2>3. \A u \in Tasks \ {t} : /\ Blocked(u)' <=> Blocked(u)
                               /\ taskSem'[u] = taskSem[u]
    BY <1>2, <1>4, Names DEF Takes, Blocks, Unmoved
  <2> QED
    BY <2>2, <2>3, WaitersKept
<1>8. Mutex'
  <2>1. ~ Inside(t)
    BY <1>6 DEF Inside
  <2>2. CASE Blocks(t, s)
    <3>1. \A u \in Tasks : Inside(u)' <=> Inside(u)
      BY <2>1, <2>2, <1>5 DEF Inside, Blocks, Unmoved
    <3> QED
      BY <2>2, <3>1, <1>5, <1>0, MutexKept DEF Blocks
  <2>3. CASE Takes(t, s)
    <3>1. semCount[s] = 1 /\ \A u \in Tasks : ~ Inside(u)
      BY <2>3, <1>0 DEF Control, Mutex, Takes
    <3>2. semCount'[s] = 0 /\ semOwner'[s] = t
      BY <2>3, <3>1, <1>1, <1>4 DEF Takes
    <3>3. \A u \in Tasks : Inside(u)' <=> u = t
      BY <2>3, <3>1, <1>3, <1>5, <1>6 DEF Inside, Takes, Unmoved
    <3> QED
      BY <3>2, <3>3, <1>5 DEF Mutex
  <2> QED
    BY <1>2, <2>2, <2>3
<1> QED
  BY <1>0, <1>2, <1>7, <1>8 DEF Calm, Control

\* The mutex is given back, to the first task that waits if there is one.
LEMMA UnlockMove ==
  ASSUME Control, NEW t \in Tasks, NEW b, Moves(t, b), running = t,
         Made, Labels(t) = "unlock", b \notin MutexLabels, PRT_SemPost(semMutex),
         OS_SEM_COUNT_MAX > 0
  PROVE  /\ Calm /\ (Place' => Control')
         /\ \/ Keeps(semMutex)
            \/ \E h \in Tasks \ {t} : /\ Wakes(h, semMutex)
                                     /\ Labels(h) \in {"slot", "copy1"}
<1>0. PICK s : s = semMutex
  OBVIOUS
<1>1. /\ s \in Sems /\ semStat[s] = "USED" /\ IInv
      /\ s # semEmpty /\ s # semFull /\ s # sem_uart_rx
  BY <1>0 DEF Control, Place, Handles, Good
<1>2. ~ Blocked(t) /\ Inside(t)
  BY <1>1, RunnerReady DEF Inside, MutexLabels
<1>3. /\ semCount[s] = 0 /\ \A u \in Tasks : Inside(u) => u = t
  BY <1>0, <1>2 DEF Control, Mutex
<1>4. Calm /\ (Keeps(s) \/ \E h \in Tasks : Wakes(h, s))
  <2>1. ~ (semCount[s] >= OS_SEM_COUNT_MAX)
    BY <1>3, RingNames
  <2> QED
    BY <2>1, <1>0, <1>1, PostEffect
<1>5. /\ semCount \in [Sems -> Nat] /\ semOwner \in [Sems -> Tasks \cup {NoTask}]
      /\ taskSem \in [TCBs -> Sems \cup {NoSem}]
  BY <1>1 DEF IInv, RestType
<1>6. /\ semMutex' = s /\ Made' /\ Labels(t)' = b
      /\ \A u \in Tasks \ {t} : Labels(u)' = Labels(u)
  BY <1>0 DEF Moves
<1>7. ASSUME NEW h \in Tasks, Wakes(h, s)
      PROVE  h # t /\ Labels(h) \in {"slot", "copy1"}
  <2>1. Blocked(h) /\ taskSem[h] = s /\ Waits(h)
    BY <1>7 DEF Wakes, Control, Waiters
  <2> QED
    BY <2>1, <1>1, <1>2 DEF Waits, WaitsForRx, WaitsForMutex, WaitsForToken, Token
<1>8. Waiters'
  <2>1. \A u \in Tasks : Blocked(u)' => Blocked(u) /\ taskSem'[u] = taskSem[u]
    BY <1>4, <1>5, Names DEF Keeps, Wakes, Unmoved
  <2> QED
    BY <2>1, <1>2, WaitersKept
<1>9. Mutex'
  <2>1. CASE Keeps(s)
    <3>1. semCount'[s] = 1
      BY <2>1, <1>1, <1>3, <1>5 DEF Keeps
    <3>2. \A u \in Tasks : ~ Inside(u)'
      BY <2>1, <1>3, <1>6 DEF Keeps, Unmoved, Inside
    <3> QED
      BY <3>1, <3>2, <1>6 DEF Mutex
  <2>2. ASSUME NEW h \in Tasks, Wakes(h, s) PROVE Mutex'
    <3>1. semCount'[s] = 0 /\ semOwner'[s] = h
      BY <2>2, <1>1, <1>3, <1>5 DEF Wakes
    <3>2. h # t /\ Labels(h)' \in MutexLabels /\ ~ Blocked(h)'
      BY <2>2, <1>6, <1>7 DEF Wakes, MutexLabels
    <3>3. \A u \in Tasks \ {t, h} : Inside(u)' <=> Inside(u)
      BY <2>2, <1>6 DEF Wakes, Unmoved, Inside
    <3>4. \A u \in Tasks : Inside(u)' <=> u = h
      BY <3>2, <3>3, <1>3, <1>6 DEF Inside
    <3> QED
      BY <3>1, <3>4, <1>6 DEF Mutex
  <2> QED
    BY <1>4, <2>1, <2>2
<1> QED
  BY <1>0, <1>4, <1>7, <1>8, <1>9 DEF Calm, Control

-----------------------------------------------------------------------------
(***************************************************************************)
(* The steps that neither start nor make anything.                          *)
(***************************************************************************)
LEMMA PlaceKept ==
  ASSUME Control, Calm, UNCHANGED <<boot, startVars>>,
         pc' \in [Tasks -> TaskLabels],
         \A t \in Tasks : pc'[t] = "none" <=> pc[t] = "none",
         \/ shellPc' = shellPc
         \/ /\ boot = "done" /\ shellPc \notin {"create", "resume"}
            /\ shellPc' \in ShellLabels \ {"full", "mutex", "create", "resume"}
            /\ shellPc' \in StatLabels => demoStarted
            /\ shellPc' = "empty" => ~ demoStarted
  PROVE  /\ Place' /\ (Made' <=> Made)
         /\ UNCHANGED <<role, semEmpty, semFull, semMutex>>
<1>1. UNCHANGED <<prios, semEmpty, semFull, semMutex, demoStarted, starting, role, boot>>
  BY DEF startVars, handleVars
<1>2. BootSays /\ ShellSays /\ Roles /\ Handles
  BY DEF Control, Place
<1>3. /\ Made' <=> Made
      /\ ~ Made => shellPc' \notin {"create", "resume"}
  BY <1>1 DEF Made, StartLabels
<1>4. Started' = Started /\ Booted' = Booted /\ (RxSemMade' <=> RxSemMade)
  BY <1>1 DEF Started, Booted, RxSemMade, StartLabels
<1>5. BootSays'
  BY <1>1, <1>2, <1>4 DEF BootSays, Calm
<1>6. ShellSays'
  BY <1>1, <1>2 DEF ShellSays, StartLabels, StatLabels
<1>7. Roles'
  BY <1>1, <1>2, <1>3 DEF Roles, Calm
<1>8. Handles'
  <2>1. shellPc' \in {"full", "mutex"} => shellPc' = shellPc
    OBVIOUS
  <2>2. \A s : Good(s)' <=> Good(s)
    BY DEF Good, Calm
  <2> QED
    BY <1>1, <1>2, <1>3, <2>1, <2>2 DEF Handles, Good, Calm
<1> QED
  BY <1>1, <1>3, <1>5, <1>6, <1>7, <1>8 DEF Place

LEMMA PlaceSame ==
  ASSUME Control, Calm, UNCHANGED <<boot, startVars>>, pc' = pc, shellPc' = shellPc
  PROVE  /\ Place' /\ Moves(NoTask, "none")
<1>1. pc' \in [Tasks -> TaskLabels] /\ \A t \in Tasks : pc'[t] = "none" <=> pc[t] = "none"
  BY DEF Control, Place, Roles
<1>2. Place' /\ (Made' <=> Made) /\ UNCHANGED <<role, semEmpty, semFull, semMutex>>
  BY <1>1, PlaceKept
<1> QED
  BY <1>2, Names DEF Moves, Labels

\* Nobody of the demo and of the shell goes on: interrupts and typing.
LEMMA EnvInv ==
  ASSUME Control, UNCHANGED <<vars, boot, shellPc, demoVars>>
  PROVE  Control'
<1>1. UNCHANGED vars /\ UNCHANGED <<boot, startVars>> /\ pc' = pc /\ shellPc' = shellPc
  BY DEF demoVars
<1>2. Calm
  BY <1>1, KernelKept DEF Control
<1>3. Place' /\ Moves(NoTask, "none")
  BY <1>1, <1>2, PlaceSame
<1> QED
  BY <1>1, <1>3, QuietMove, Names

LEMMA RxHandleInv ==
  ASSUME Control, OsUartRxHandle, UNCHANGED demoVars
  PROVE  /\ Control' /\ UNCHANGED shellPc
         /\ \/ Idles \/ Keeps(sem_uart_rx)
            \/ \E h \in Tasks : Wakes(h, sem_uart_rx) /\ Labels(h) \in {"read", "lock"}
<1> DEFINE s == sem_uart_rx
<1>1. PRT_SemPost(s) /\ UNCHANGED <<boot, shellPc>>
  BY DEF OsUartRxHandle, envVars, bootVars, shellVars
<1>2. UNCHANGED <<boot, startVars>> /\ pc' = pc /\ shellPc' = shellPc
  BY <1>1 DEF demoVars
<1>3. s \in Sems /\ semStat[s] \in {"UNUSED", "USED"}
  BY RingNames DEF Control, IInv, RestType
<1> HIDE DEF s
<1>4. CASE UNCHANGED vars
  BY <1>1, <1>4, EnvInv, KernelKept DEF Control
<1>5. CASE semStat[s] = "USED"
  <2>1. Calm
    BY <1>1, <1>3, <1>5, PostEffect DEF Control
  <2>2. Place' /\ Moves(NoTask, "none")
    BY <1>2, <2>1, PlaceSame
  <2>4. Made => s # semMutex
    BY DEF Control, Place, Handles, Good, s
  <2> QED
    BY <1>1, <1>3, <1>5, <2>2, <2>4, PostMove, Names DEF s
<1>6. semStat[s] = "UNUSED" => UNCHANGED vars
  BY <1>1 DEF PRT_SemPost, Fail
<1> QED
  BY <1>3, <1>4, <1>5, <1>6

\* The shell goes on, and starts nothing.
LEMMA ShellMoves ==
  ASSUME Control, Calm, UNCHANGED <<boot, startVars>>, pc' = pc, boot = "done",
         shellPc \notin {"create", "resume"}, NEW b, shellPc' = b,
         b \in ShellLabels \ {"full", "mutex", "create", "resume"},
         b \in StatLabels => demoStarted,
         b = "empty" => ~ demoStarted
  PROVE  Place' /\ Moves(Shell, b)
<1>1. pc' \in [Tasks -> TaskLabels] /\ \A t \in Tasks : pc'[t] = "none" <=> pc[t] = "none"
  BY DEF Control, Place, Roles
<1>2. Place' /\ (Made' <=> Made) /\ UNCHANGED <<role, semEmpty, semFull, semMutex>>
  BY <1>1, PlaceKept
<1> QED
  BY <1>2 DEF Moves, Labels

LEMMA ShellExecutes ==
  ASSUME Control, Executing(Shell)
  PROVE  /\ running = Shell /\ Shell \in Tasks /\ ~ Blocked(Shell)
         /\ boot = "done" /\ semStat[sem_uart_rx] = "USED"
         /\ Labels(Shell) = shellPc
<1>1. running = Shell /\ Shell \in Tasks
  BY RingNames DEF Executing
<1>2. Active /\ ~ Blocked(Shell)
  BY <1>1, RunnerReady DEF Control
<1>3. boot = "done" /\ semStat[sem_uart_rx] = "USED"
  BY <1>2 DEF Control, Place, BootSays, RxSemMade
<1> QED
  BY <1>1, <1>2, <1>3 DEF Labels

LEMMA ShellPendInv ==
  ASSUME Control, ShellPend, UNCHANGED demoVars
  PROVE  Control' /\ (Takes(Shell, sem_uart_rx) \/ Blocks(Shell, sem_uart_rx))
<1>1. /\ Executing(Shell) /\ shellPc = "pend" /\ shellPc' = "read"
      /\ PRT_SemPend(sem_uart_rx, "FOREVER")
      /\ UNCHANGED <<boot, startVars>> /\ pc' = pc
  BY DEF ShellPend, envVars, bootVars, demoVars
<1>2. /\ running = Shell /\ Shell \in Tasks /\ semStat[sem_uart_rx] = "USED"
      /\ boot = "done" /\ Labels(Shell) = "pend" /\ sem_uart_rx \in Sems
  BY <1>1, ShellExecutes, RingNames
<1>3. Calm
  BY <1>1, <1>2, PendEffect DEF Control
<1>4. Place' /\ Moves(Shell, "read")
  BY <1>1, <1>2, <1>3, ShellMoves DEF StartLabels, StatLabels, ShellLabels
<1>5. taskSem'[Shell] = sem_uart_rx => Waits(Shell)'
  BY <1>2, <1>4 DEF Moves, Waits, WaitsForRx, sem_uart_rx, Shell
<1>6. Made => sem_uart_rx # semMutex
  BY DEF Control, Place, Handles, Good
<1>7. "pend" \notin MutexLabels /\ "read" \notin MutexLabels
  BY DEF MutexLabels
<1> QED
  BY <1>1, <1>2, <1>4, <1>5, <1>6, <1>7, PendMove

\* A step of the shell with no call.
LEMMA ShellQuiet ==
  ASSUME Control, Executing(Shell), UNCHANGED vars, UNCHANGED <<boot, startVars>>, pc' = pc,
         shellPc \notin {"create", "resume"}, NEW b, shellPc' = b,
         b \in ShellLabels \ {"full", "mutex", "create", "resume"},
         b \in StatLabels => demoStarted,
         b = "empty" => ~ demoStarted,
         SameClass(shellPc, b)
  PROVE  Control'
<1>1. /\ running = Shell /\ Shell \in Tasks /\ boot = "done" /\ Labels(Shell) = shellPc
      /\ ~ Blocked(Shell)
  BY ShellExecutes
<1>2. Calm
  BY KernelKept DEF Control
<1>3. Place' /\ Moves(Shell, b)
  BY <1>1, <1>2, ShellMoves
<1> QED
  BY <1>1, <1>3, QuietMove

LEMMA ShellReadInv ==
  ASSUME Control, ShellRead, UNCHANGED demoVars
  PROVE  Control'
<1>1. /\ Executing(Shell) /\ UNCHANGED vars /\ UNCHANGED <<boot, startVars>> /\ pc' = pc
      /\ shellPc = "read" /\ shellPc' \in {"dispatch", "pend"}
  BY DEF ShellRead, envVars, bootVars, demoVars
<1>2. PICK b : b = shellPc'
  OBVIOUS
<1>3. /\ SameClass("read", b) /\ b \notin StatLabels
      /\ b \in ShellLabels \ {"full", "mutex", "create", "resume"} /\ b # "empty"
  BY <1>1, <1>2 DEF StartLabels, StatLabels, ShellLabels, MutexLabels, SameClass
<1> QED
  BY <1>1, <1>2, <1>3, ShellQuiet

LEMMA QuietCommandInv ==
  ASSUME Control, IpcStart \/ GetStats \/ GetStatsCopy
  PROVE  Control'
<1>1. /\ Executing(Shell) /\ UNCHANGED vars /\ UNCHANGED <<boot, startVars>> /\ pc' = pc
      /\ \/ shellPc = "dispatch" /\ shellPc' = "pend"
         \/ shellPc = "dispatch" /\ ~ demoStarted /\ shellPc' = "empty"
         \/ shellPc = "dispatch" /\ demoStarted /\ shellPc' = "lock"
         \/ shellPc = "copy1" /\ shellPc' = "copy2"
         \/ shellPc = "copy2" /\ shellPc' = "unlock"
  BY DEF IpcStart, GetStats, GetStatsCopy, ShellAt, CommandReturns, ShellPrompt, envVars,
         bootVars, demoVars
<1>2. PICK b : b = shellPc'
  OBVIOUS
<1>3. shellPc \in StatLabels => demoStarted
  BY DEF Control, Place, ShellSays
<1>4. /\ shellPc \notin {"create", "resume"} /\ SameClass(shellPc, b)
      /\ b \in ShellLabels \ {"full", "mutex", "create", "resume"}
      /\ b \in StatLabels => demoStarted
      /\ b = "empty" => ~ demoStarted
  BY <1>1, <1>2, <1>3 DEF StartLabels, StatLabels, ShellLabels, MutexLabels, SameClass
<1> QED
  BY <1>1, <1>2, <1>4, ShellQuiet

LEMMA GetStatsLockInv ==
  ASSUME Control, GetStatsLock
  PROVE  Control' /\ (Takes(Shell, semMutex) \/ Blocks(Shell, semMutex))
<1>1. /\ Executing(Shell) /\ shellPc = "lock" /\ shellPc' = "copy1"
      /\ PRT_SemPend(semMutex, "FOREVER")
      /\ UNCHANGED <<boot, startVars>> /\ pc' = pc
  BY DEF GetStatsLock, ShellAt, envVars, bootVars, demoVars
<1>2. /\ running = Shell /\ Shell \in Tasks /\ boot = "done" /\ Labels(Shell) = "lock"
  BY <1>1, ShellExecutes
<1>3. demoStarted /\ Made /\ semMutex \in Sems /\ semStat[semMutex] = "USED"
  BY <1>1 DEF Control, Place, ShellSays, StatLabels, Made, Handles, Good
<1>4. Calm
  BY <1>1, <1>2, <1>3, PendEffect DEF Control
<1>5. Place' /\ Moves(Shell, "copy1")
  BY <1>1, <1>2, <1>3, <1>4, ShellMoves DEF StartLabels, StatLabels, ShellLabels
<1> QED
  BY <1>1, <1>2, <1>3, <1>5, LockMove

LEMMA GetStatsUnlockInv ==
  ASSUME Control, GetStatsUnlock, OS_SEM_COUNT_MAX > 0
  PROVE  /\ Control'
         /\ \/ Keeps(semMutex)
            \/ \E h \in Tasks \ {Shell} : /\ Wakes(h, semMutex)
                                         /\ Labels(h) \in {"slot", "copy1"}
<1>1. /\ Executing(Shell) /\ shellPc = "unlock" /\ shellPc' = "pend"
      /\ PRT_SemPost(semMutex)
      /\ UNCHANGED <<boot, startVars>> /\ pc' = pc
  BY DEF GetStatsUnlock, CommandReturns, ShellPrompt, envVars, bootVars
<1>2. /\ running = Shell /\ Shell \in Tasks /\ boot = "done" /\ Labels(Shell) = "unlock"
  BY <1>1, ShellExecutes
<1>3. demoStarted /\ Made /\ semMutex \in Sems /\ semStat[semMutex] = "USED"
  BY <1>1 DEF Control, Place, ShellSays, StatLabels, Made, Handles, Good
<1>4. Calm
  BY <1>1, <1>3, PostEffect DEF Control
<1>5. Place' /\ Moves(Shell, "pend") /\ "pend" \notin MutexLabels
  BY <1>1, <1>2, <1>3, <1>4, ShellMoves DEF StartLabels, StatLabels, ShellLabels, MutexLabels
<1> QED
  BY <1>1, <1>2, <1>3, <1>5, UnlockMove

-----------------------------------------------------------------------------
(***************************************************************************)
(* The steps of the four tasks.                                             *)
(***************************************************************************)
LEMMA TaskMoves ==
  ASSUME Control, Calm, NEW t \in Tasks, NEW kind, NEW here \in TaskLabels \ {"none"},
         NEW next \in TaskLabels \ {"none"}, TaskAt(t, kind, here, next)
  PROVE  Place' /\ Moves(t, next)
<1>1. /\ role[t].kind = kind /\ pc[t] = here /\ pc' = [pc EXCEPT ![t] = next]
      /\ UNCHANGED <<boot, startVars>> /\ shellPc' = shellPc
  BY DEF TaskAt, envVars, bootVars, shellVars
<1>2. /\ pc \in [Tasks -> TaskLabels] /\ role[Shell].kind = "none" /\ pc[Shell] = "none"
  BY RingNames DEF Control, Place, Roles
<1>3. /\ pc' \in [Tasks -> TaskLabels] /\ t # Shell
      /\ \A u \in Tasks : pc'[u] = "none" <=> pc[u] = "none"
  BY <1>1, <1>2
<1>4. Place' /\ (Made' <=> Made) /\ UNCHANGED <<role, semEmpty, semFull, semMutex>>
  BY <1>1, <1>3, PlaceKept
<1> QED
  BY <1>1, <1>2, <1>3, <1>4 DEF Moves, Labels

LEMMA TaskExecutes ==
  ASSUME Control, NEW t \in Tasks, NEW kind, NEW here \in TaskLabels \ {"none"}, NEW next,
         TaskAt(t, kind, here, next)
  PROVE  /\ running = t /\ ~ Blocked(t) /\ t # Shell /\ Labels(t) = here /\ pc[t] = here
         /\ Made /\ role[t].kind = kind /\ kind \in Kind
         /\ Token(t) = IF kind = "producer" THEN semEmpty ELSE semFull
         /\ \A s \in {semEmpty, semFull} : s \in Sems /\ semStat[s] = "USED" /\ s # semMutex
         /\ semMutex \in Sems /\ semStat[semMutex] = "USED"
<1>1. running = t /\ role[t].kind = kind /\ pc[t] = here
  BY DEF TaskAt, Executing
<1>2. pc[Shell] = "none" /\ kind # "none" /\ Made /\ kind \in Kind
  BY <1>1, RingNames DEF Control, Place, Roles
<1>3. ~ Blocked(t)
  BY <1>1, RunnerReady DEF Control
<1>4. /\ \A s \in {semEmpty, semFull} : s \in Sems /\ semStat[s] = "USED" /\ s # semMutex
      /\ semMutex \in Sems /\ semStat[semMutex] = "USED"
  BY <1>2 DEF Control, Place, Handles, Good
<1> QED
  BY <1>1, <1>2, <1>3, <1>4 DEF Labels, Token

\* A step with no call.
LEMMA TaskQuiet ==
  ASSUME Control, NEW t \in Tasks, NEW kind, NEW here \in {"slot", "index", "count"},
         NEW next \in {"index", "count", "unlock"}, TaskAt(t, kind, here, next),
         UNCHANGED vars
  PROVE  Control' /\ Idles
<1>1. /\ here \in TaskLabels \ {"none"} /\ next \in TaskLabels \ {"none"}
      /\ SameClass(here, next)
  BY DEF TaskLabels, SameClass, MutexLabels
<1>2. Calm /\ Idles
  BY KernelKept DEF Control
<1>3. Place' /\ Moves(t, next)
  BY <1>1, <1>2, TaskMoves
<1>4. ~ Blocked(t) /\ Labels(t) = here
  BY <1>1, TaskExecutes
<1> QED
  BY <1>1, <1>2, <1>3, <1>4, QuietMove

\* A token of its own kind.
LEMMA TokenStep ==
  ASSUME Control, NEW t \in Tasks, NEW kind, TaskAt(t, kind, "token", "lock"),
         PRT_SemPend(Token(t), "FOREVER")
  PROVE  Control' /\ (Takes(t, Token(t)) \/ Blocks(t, Token(t)))
<1>0. PICK s : s = Token(t)
  OBVIOUS
<1>1. "token" \in TaskLabels \ {"none"} /\ "lock" \in TaskLabels \ {"none"}
  BY DEF TaskLabels
<1>2. /\ running = t /\ t # Shell /\ Labels(t) = "token" /\ Made
      /\ s \in Sems /\ semStat[s] = "USED" /\ s # semMutex
  BY <1>0, <1>1, TaskExecutes DEF Token
<1>3. Calm
  BY <1>0, <1>2, PendEffect DEF Control
<1>4. Place' /\ Moves(t, "lock")
  BY <1>1, <1>3, TaskMoves
<1>5. taskSem'[t] = s => Waits(t)'
  BY <1>0, <1>2, <1>4 DEF Moves, Waits, WaitsForToken, Token
<1>6. "token" \notin MutexLabels /\ "lock" \notin MutexLabels
  BY DEF MutexLabels
<1>7. Control' /\ (Takes(t, s) \/ Blocks(t, s))
  BY <1>0, <1>2, <1>4, <1>5, <1>6, PendMove
<1> QED
  BY <1>0, <1>7

LEMMA LockStep ==
  ASSUME Control, NEW t \in Tasks, NEW kind, TaskAt(t, kind, "lock", "slot"),
         PRT_SemPend(semMutex, "FOREVER")
  PROVE  Control' /\ (Takes(t, semMutex) \/ Blocks(t, semMutex))
<1>1. "lock" \in TaskLabels \ {"none"} /\ "slot" \in TaskLabels \ {"none"}
  BY DEF TaskLabels
<1>2. /\ running = t /\ Labels(t) = "lock" /\ Made
      /\ semMutex \in Sems /\ semStat[semMutex] = "USED"
  BY <1>1, TaskExecutes
<1>3. Calm
  BY <1>2, PendEffect DEF Control
<1>4. Place' /\ Moves(t, "slot")
  BY <1>1, <1>3, TaskMoves
<1> QED
  BY <1>2, <1>4, LockMove

LEMMA UnlockStep ==
  ASSUME Control, NEW t \in Tasks, NEW kind, TaskAt(t, kind, "unlock", "signal"),
         PRT_SemPost(semMutex), OS_SEM_COUNT_MAX > 0
  PROVE  /\ Control'
         /\ \/ Keeps(semMutex)
            \/ \E h \in Tasks \ {t} : /\ Wakes(h, semMutex)
                                     /\ Labels(h) \in {"slot", "copy1"}
<1>1. /\ "unlock" \in TaskLabels \ {"none"} /\ "signal" \in TaskLabels \ {"none"}
      /\ "signal" \notin MutexLabels
  BY DEF TaskLabels, MutexLabels
<1>2. /\ running = t /\ Labels(t) = "unlock" /\ Made
      /\ semMutex \in Sems /\ semStat[semMutex] = "USED"
  BY <1>1, TaskExecutes
<1>3. Calm
  BY <1>2, PostEffect DEF Control
<1>4. Place' /\ Moves(t, "signal")
  BY <1>1, <1>3, TaskMoves
<1> QED
  BY <1>1, <1>2, <1>4, UnlockMove

\* The token of the other kind.
LEMMA SignalStep ==
  ASSUME Control, NEW t \in Tasks, NEW kind, TaskAt(t, kind, "signal", "token"),
         NEW s \in {semEmpty, semFull}, PRT_SemPost(s)
  PROVE  /\ Control'
         /\ \/ Keeps(s)
            \/ \E h \in Tasks \ {t} : Wakes(h, s) /\ Labels(h) \in {"read", "lock"}
            \/ Idles /\ semCount[s] >= OS_SEM_COUNT_MAX
<1>1. /\ "token" \in TaskLabels \ {"none"} /\ "signal" \in TaskLabels \ {"none"}
      /\ SameClass("signal", "token")
  BY DEF TaskLabels, MutexLabels, SameClass
<1>2. /\ ~ Blocked(t) /\ Labels(t) = "signal" /\ Made
      /\ s \in Sems /\ semStat[s] = "USED" /\ s # semMutex
  BY <1>1, TaskExecutes
<1>3. Calm
  BY <1>2, PostEffect DEF Control
<1>4. Place' /\ Moves(t, "token")
  BY <1>1, <1>3, TaskMoves
<1> QED
  BY <1>1, <1>2, <1>4, PostMove

LEMMA ExitStep ==
  ASSUME Control, NEW t \in Tasks, EntryReturns(t)
  PROVE  /\ Control' /\ Unmoved(Tasks)
         /\ taskSem' = taskSem /\ semCount' = semCount /\ semOwner' = semOwner
<1>1. /\ OsTaskExit /\ TaskAt(t, role[t].kind, "token", "exited")
      /\ UNCHANGED semVars /\ UNCHANGED tskVars
  BY DEF EntryReturns, OsTaskExit
<1>2. /\ "token" \in TaskLabels \ {"none"} /\ "exited" \in TaskLabels \ {"none"}
      /\ "token" \notin MutexLabels /\ "exited" \notin MutexLabels
  BY DEF TaskLabels, MutexLabels
<1>3. running = t /\ ~ Blocked(t) /\ Labels(t) = "token" /\ IInv
  BY <1>1, <1>2, TaskExecutes DEF Control
<1>4. IInv' /\ Goes(t, ReadyTask, ExitedTask) /\ Active /\ Active'
  BY <1>1, <1>3, OsTaskExitInv
<1>5. ReadyTask # FreeTask /\ ExitedTask # FreeTask /\ "PEND" \notin ExitedTask
  BY DEF ReadyTask, ExitedTask, FreeTask
<1>6. /\ \A u \in Tasks : status'[u] = {} <=> status[u] = {}
      /\ Unmoved(Tasks \ {t}) /\ ~ Blocked(t)'
  BY <1>3, <1>4, <1>5, GoesCalm
<1>7. Calm /\ Unmoved(Tasks) /\ UNCHANGED <<taskSem, semCount, semOwner>>
  BY <1>1, <1>3, <1>4, <1>6 DEF Calm, Unmoved, semVars, tskVars
<1>8. Place' /\ Moves(t, "exited")
  <2>1. PICK kind : kind = role[t].kind
    OBVIOUS
  <2> QED
    BY <1>1, <1>2, <1>7, <2>1, TaskMoves
<1>9. Waiters'
  BY <1>6, <1>7, <1>8, WaitersKept DEF Unmoved
<1>10. Mutex'
  <2>1. \A u \in Tasks : Inside(u)' <=> Inside(u)
    BY <1>2, <1>3, <1>7, <1>8 DEF Moves, Inside, Unmoved
  <2> QED
    BY <1>7, <1>8, <2>1, MutexKept DEF Moves
<1> QED
  BY <1>4, <1>7, <1>8, <1>9, <1>10 DEF Control

-----------------------------------------------------------------------------
(***************************************************************************)
(* main.                                                                    *)
(***************************************************************************)
\* Before there are semaphores there are no tasks of the demo, and nobody waits but
\* the shell for a character.
LEMMA NoDemo ==
  ASSUME Control, ~ Made
  PROVE  /\ \A t \in Tasks : role[t].kind = "none" /\ pc[t] = "none"
         /\ \A t \in Tasks : Blocked(t) => t = Shell
         /\ Started = 0
<1>1. \A t \in Tasks : role[t].kind = "none" /\ pc[t] = "none"
  BY DEF Control, Place, Roles
<1>2. \A t \in Tasks : Blocked(t) => t = Shell
  BY DEF Control, Waiters, Waits, WaitsForRx, WaitsForMutex, WaitsForToken
<1>3. Started = 0
  BY DEF Control, Place, ShellSays, Started, Made
<1> QED
  BY <1>1, <1>2, <1>3

LEMMA BootKept ==
  ASSUME Control, boot # "done", UNCHANGED <<shellPc, demoVars>>, IInv', BootSays',
         ~ Active'
         \/ \E t \in Tasks : Goes(t, FreeTask, ReadyTask)
  PROVE  Control' /\ ~ Made /\ ~ Made'
<1>1. UNCHANGED <<role, pc, prios, semEmpty, semFull, semMutex, demoStarted, starting, shellPc>>
  BY DEF demoVars, startVars, handleVars
<1>2. shellPc = "pend" /\ demoStarted = FALSE /\ ~ Active /\ IInv
  BY DEF Control, Place, BootSays
<1>3. ~ Made /\ ~ Made'
  BY <1>1, <1>2 DEF Made
<1>4. ShellSays' /\ Handles'
  BY <1>1, <1>2, <1>3 DEF Control, Place, ShellSays, Handles, StatLabels, StartLabels
<1>5. Roles'
  <2>1. \A t \in Tasks : role'[t].kind = "none"
    BY <1>1, <1>3, NoDemo
  <2>2. /\ role \in [Tasks -> [kind : Kind \cup {"none"}, no : 0 .. 2, prio : 0 .. 62]]
        /\ pc \in [Tasks -> TaskLabels] /\ role[Shell].kind = "none"
        /\ \A t \in Tasks : role[t].kind = "none" <=> pc[t] = "none"
    BY DEF Control, Place, Roles
  <2> QED
    BY <1>1, <2>1, <2>2 DEF Roles
<1>6. \A t \in Tasks : ~ Blocked(t)'
  <2>1. CASE ~ Active'
    BY <2>1 DEF IInv, BootOrRun, Blocked
  <2>2. ASSUME NEW t \in Tasks, Goes(t, FreeTask, ReadyTask)
        PROVE  \A u \in Tasks : ~ Blocked(u)'
    <3>1. \A u \in Tasks : ~ Blocked(u)
      BY <1>2 DEF IInv, BootOrRun, Blocked
    <3>2. \A u \in Tasks \ {t} : status'[u] \ {"RUNNING"} = status[u] \ {"RUNNING"}
      BY <2>2 DEF Goes, State
    <3>3. status'[t] \ {"RUNNING"} = ReadyTask
      BY <2>2 DEF Goes, State
    <3> QED
      BY <3>1, <3>2, <3>3 DEF Blocked, ReadyTask
  <2> QED
    BY <2>1, <2>2
<1> QED
  BY <1>3, <1>4, <1>5, <1>6 DEF Control, Place, Waiters, Mutex

LEMMA QuietBootInv ==
  ASSUME Control, OsHwiInit \/ CoreTimerInit \/ InitModules \/ EnableRx, UNCHANGED demoVars
  PROVE  Control' /\ ~ Made /\ ~ Made'
<1>1. /\ UNCHANGED vars /\ shellPc' = shellPc /\ demoStarted' = demoStarted
      /\ boot \in {"hwi", "timer", "modules", "uart"}
      /\ boot' \in {"timer", "modules", "uart", "sem"}
  BY DEF OsHwiInit, CoreTimerInit, InitModules, EnableRx, BootStep, OsGicEnableInt, shellVars,
         demoVars, startVars
<1>2. UNCHANGED <<uniFlag, unusedSem, semStat, stackMemUsed>>
  BY <1>1 DEF vars, schedVars, semVars, tskVars
<1>3. BootSays /\ ~ Active /\ Started' = Started
  <2>1. shellPc = "pend" /\ demoStarted = FALSE
    BY <1>1 DEF Control, Place, BootSays
  <2> QED
    BY <1>1, <2>1 DEF Control, Place, BootSays, Started
<1>4. IInv'
  BY <1>1, StutterInv DEF Control
<1>5. BootSays'
  BY <1>1, <1>2, <1>3 DEF BootSays, RxSemMade, Booted, Active
<1> QED
  BY <1>1, <1>2, <1>3, <1>4, <1>5, BootKept DEF Active

LEMMA CreateRxSemInv ==
  ASSUME Control, CreateRxSem, UNCHANGED demoVars
  PROVE  Control' /\ ~ Made /\ ~ Made'
<1> DEFINE s == sem_uart_rx
<1>1. /\ boot = "sem" /\ boot' = "create" /\ PRT_SemCreate(0)
      /\ shellPc' = shellPc /\ demoStarted' = demoStarted
      /\ ~ RxSemMade /\ RxSemMade'
  BY DEF CreateRxSem, BootStep, RxSemMade, shellVars, demoVars, startVars
<1>2. s \in Sems /\ semStat \in [Sems -> {"UNUSED", "USED"}]
  BY RingNames DEF Control, IInv, RestType
<1>3. unusedSem # << >> /\ Head(unusedSem) = s
  <2>1. unusedSem = [i \in 1 .. NumSems |-> i - 1]
    BY <1>1 DEF Control, Place, BootSays
  <2>2. unusedSem \in Seq(Sems) /\ NumSems \in Nat /\ NumSems > 0
    BY ShellAssumption, SizesAssumption DEF Control, IInv, RestType
  <2>3. unusedSem # << >> /\ unusedSem[1] = 0
    BY <2>1, <2>2
  <2> QED
    BY <2>2, <2>3, HeadTailProperties DEF sem_uart_rx
<1>4. IInv' /\ semStat' = [semStat EXCEPT ![s] = "USED"] /\ uniFlag' = uniFlag
      /\ stackMemUsed' = stackMemUsed
  <2>1. ~ (0 > OS_SEM_COUNT_MAX)
    BY RingNames
  <2>2. PICK c \in Nat : c = 0
    OBVIOUS
  <2>3. PRT_SemCreate(c)
    BY <1>1, <2>2
  <2>4. IInv'
    BY <2>3, SemCreateInv DEF Control
  <2> QED
    BY <1>1, <1>3, <2>1, <2>4 DEF PRT_SemCreate, tskVars
<1>5. semStat'[s] = "USED"
  BY <1>2, <1>4
<1>6. BootSays /\ ~ Active /\ Started' = Started
  <2>1. shellPc = "pend" /\ demoStarted = FALSE
    BY <1>1 DEF Control, Place, BootSays
  <2> QED
    BY <1>1, <2>1 DEF Control, Place, BootSays, Started
<1>7. BootSays'
  BY <1>1, <1>4, <1>5, <1>6 DEF BootSays, Booted, Active
<1> QED
  BY <1>1, <1>4, <1>6, <1>7, BootKept DEF Active

LEMMA ShellTaskInitInv ==
  ASSUME Control, ShellTaskInit \/ Activate, UNCHANGED demoVars
  PROVE  Control' /\ ~ Made /\ ~ Made'
<1>1. /\ boot # "done" /\ RxSemMade /\ RxSemMade'
      /\ shellPc' = shellPc /\ demoStarted' = demoStarted
  BY DEF ShellTaskInit, Activate, BootStep, RxSemMade, shellVars, demoVars, startVars
<1>2. BootSays /\ ~ Active /\ Started' = Started /\ Started = 0 /\ IInv
  <2>1. shellPc = "pend" /\ demoStarted = FALSE
    BY <1>1 DEF Control, Place, BootSays
  <2> QED
    BY <1>1, <2>1 DEF Control, Place, BootSays, Started
<1>3. stackMemUsed \in Nat
  BY <1>2, SizesAssumption DEF IInv, RestType
<1>4. CASE BootStep("create", "resume") /\ PRT_TaskCreate(ShellPrio)
  <2>1. boot = "create" /\ boot' = "resume"
    BY <1>4 DEF BootStep
  <2>2. IInv' /\ UNCHANGED <<semStat, uniFlag>> /\ stackMemUsed' \in {stackMemUsed, stackMemUsed + 1}
    <3>1. CASE TaskCreated(ShellPrio)
      <4>1. IInv'
        BY <1>2, <3>1, RingNames, TaskCreatedInv
      <4> QED
        BY <3>1, <4>1 DEF TaskCreated, semVars
    <3>2. CASE TaskNotCreated
      BY <1>2, <3>2, TaskNotCreatedInv DEF semVars, tskVars
    <3> QED
      BY <1>4, <3>1, <3>2 DEF PRT_TaskCreate
  <2>3. BootSays'
    BY <1>1, <1>2, <1>3, <2>1, <2>2 DEF BootSays, Booted, Active
  <2> QED
    BY <1>1, <1>2, <2>2, <2>3, BootKept DEF Active
<1>5. CASE BootStep("resume", "activate") /\ PRT_TaskResume(Shell)
  <2>1. boot = "resume" /\ boot' = "activate"
    BY <1>5 DEF BootStep
  <2>2. IInv' /\ UNCHANGED <<semStat, stackMemUsed>> /\ ~ Active'
    <3>1. CASE \E code \in ErrorCodes : Fail(code)
      <4>1. UNCHANGED vars
        BY <3>1 DEF Fail
      <4> QED
        BY <1>2, <4>1, StutterInv DEF vars, schedVars, semVars, tskVars, Active
    <3>2. CASE /\ "SUSPEND" \in status[Shell]
               /\ SetSched(OsMoveTaskToReady([Sched EXCEPT !.status[Shell] = @ \ {"SUSPEND"}],
                                             Shell))
               /\ UNCHANGED <<semVars, tskVars>>
      <4>1. UNCHANGED semVars /\ UNCHANGED tskVars
        BY <3>2
      <4>2. PICK t \in Tasks : t = Shell
        BY RingNames
      <4>3. IInv' /\ (Active' <=> Active)
        BY <1>2, <3>2, <4>1, <4>2, ResumeInv
      <4> QED
        BY <1>2, <4>1, <4>3 DEF semVars, tskVars
    <3> QED
      BY <1>5, <3>1, <3>2 DEF PRT_TaskResume, ErrorCodes
  <2>3. BootSays'
    <3>1. unusedSem' = unusedSem \/ RxSemMade'
      BY <1>1
    <3> QED
      BY <1>1, <1>2, <1>3, <2>1, <2>2, <3>1 DEF BootSays, Booted
  <2> QED
    BY <1>1, <2>2, <2>3, BootKept
<1>6. CASE Activate
  <2>1. boot = "activate" /\ boot' = "done" /\ OsActivate
    BY <1>6 DEF Activate, BootStep
  <2>2. PICK t : t = Head(list[FreeList])
    OBVIOUS
  <2>3. IInv' /\ t \in Tasks /\ Goes(t, FreeTask, ReadyTask) /\ Active'
    BY <1>2, <2>1, <2>2, OsActivateInv
  <2>4. semStat' = semStat /\ stackMemUsed' = stackMemUsed + 1
    BY <2>1 DEF OsActivate, semVars
  <2>5. BootSays'
    BY <1>1, <1>2, <1>3, <2>1, <2>3, <2>4 DEF BootSays, Booted
  <2> QED
    BY <1>1, <2>3, <2>5, BootKept
<1> QED
  BY <1>4, <1>5, <1>6 DEF ShellTaskInit

-----------------------------------------------------------------------------
(***************************************************************************)
(* IPC_RingDemoStart.                                                       *)
(***************************************************************************)
\* A PRT_SemCreate of it, and what becomes of the handle.
SemMade(s, count) == /\ s \in Sems /\ semStat[s] = "UNUSED"
                     /\ semCount' = [semCount EXCEPT ![s] = count]
                     /\ semStat' = [semStat EXCEPT ![s] = "USED"]
                     /\ UNCHANGED <<uniFlag, stackMemUsed, status, taskSem>>

LEMMA SemCreated ==
  ASSUME IInv, NEW count \in Nat, count <= OS_SEM_COUNT_MAX, PRT_SemCreate(count)
  PROVE  IInv' /\ \/ UNCHANGED vars /\ unusedSem = << >>
                  \/ unusedSem # << >> /\ SemMade(Head(unusedSem), count)
<1>1. PICK s : s = Head(unusedSem)
  OBVIOUS
<1>2. /\ IInv'
      /\ \/ UNCHANGED vars
         \/ /\ s \in Sems /\ semStat[s] = "UNUSED" /\ unusedSem # << >>
            /\ semCount' = [semCount EXCEPT ![s] = count]
            /\ semStat' = [semStat EXCEPT ![s] = "USED"]
            /\ unusedSem' = Tail(unusedSem)
            /\ UNCHANGED schedVars /\ UNCHANGED tskVars
  BY <1>1, SemCreateInv
<1>3. count \in Nat /\ OS_SEM_COUNT_MAX \in Nat /\ ~ (count > OS_SEM_COUNT_MAX)
  BY RingNames
<1>4. CASE unusedSem = << >>
  BY <1>2, <1>3, <1>4 DEF PRT_SemCreate, Fail
<1>5. CASE unusedSem # << >>
  <2>1. /\ semStat' = [semStat EXCEPT ![s] = "USED"] /\ unusedSem' = Tail(unusedSem)
        /\ semCount' = [semCount EXCEPT ![s] = count]
        /\ UNCHANGED <<status, uniFlag>> /\ UNCHANGED tskVars
    BY <1>1, <1>3, <1>5 DEF PRT_SemCreate
  <2>2. s \in Sems /\ semStat[s] = "UNUSED"
    <3>1. unusedSem \in Seq(Sems) /\ Range(unusedSem) = {x \in Sems : semStat[x] = "UNUSED"}
      BY DEF IInv, RestType, UnusedSems
    <3>2. s \in Range(unusedSem)
      BY <1>1, <1>5, <3>1, HeadOfList
    <3> QED
      BY <3>1, <3>2
  <2> QED
    BY <1>1, <1>2, <1>5, <2>1, <2>2 DEF SemMade, tskVars
<1> QED
  BY <1>4, <1>5

\* The command ends because there is no semaphore left.
LEMMA CreateSemFails ==
  ASSUME Control, NEW here \in {"empty", "full", "mutex"}, CommandReturns(here),
         UNCHANGED vars, UNCHANGED startVars, pc' = pc
  PROVE  Control'
<1>1. Executing(Shell) /\ shellPc = here /\ shellPc' = "pend" /\ UNCHANGED <<boot, startVars>>
  BY DEF CommandReturns, ShellPrompt, envVars, bootVars
<1>2. /\ here \notin {"create", "resume"} /\ SameClass(here, "pend")
      /\ "pend" \in ShellLabels \ {"full", "mutex", "create", "resume"}
      /\ "pend" \notin StatLabels
  BY DEF SameClass, MutexLabels, ShellLabels, StatLabels, StartLabels
<1> QED
  BY <1>1, <1>2, ShellQuiet

\* The three semaphores are new, and so they differ.
LEMMA CreateSemsInv ==
  ASSUME Control, CreateSems, RING_BUF_SIZE <= OS_SEM_COUNT_MAX
  PROVE  /\ Control' /\ ~ Made
         /\ \A u \in Tasks : ~ Blocked(u) /\ ~ Blocked(u)'
         /\ \/ UNCHANGED semCount /\ shellPc' = "pend"
            \/ /\ shellPc = "empty" /\ shellPc' = "full"
               /\ semCount'[semEmpty'] = RING_BUF_SIZE
            \/ /\ shellPc = "full" /\ shellPc' = "mutex"
               /\ semCount'[semEmpty'] = semCount[semEmpty] /\ semCount'[semFull'] = 0
            \/ /\ shellPc = "mutex" /\ shellPc' = "create"
               /\ semCount'[semEmpty'] = semCount[semEmpty]
               /\ semCount'[semFull'] = semCount[semFull]
<1>1. /\ UNCHANGED <<pc, prios, role, demoStarted, starting>> /\ Executing(Shell)
      /\ UNCHANGED envVars
      /\ \/ /\ shellPc = "empty" /\ PRT_SemCreate(RING_BUF_SIZE)
            /\ semEmpty' = HandleSet(semEmpty) /\ UNCHANGED <<semFull, semMutex>>
            /\ unusedSem = << >> => CommandReturns("empty")
            /\ unusedSem # << >> => shellPc' = "full"
         \/ /\ shellPc = "full" /\ PRT_SemCreate(0)
            /\ semFull' = HandleSet(semFull) /\ UNCHANGED <<semEmpty, semMutex>>
            /\ unusedSem = << >> => CommandReturns("full")
            /\ unusedSem # << >> => shellPc' = "mutex"
         \/ /\ shellPc = "mutex" /\ PRT_SemCreate(1)
            /\ semMutex' = HandleSet(semMutex) /\ UNCHANGED <<semEmpty, semFull>>
            /\ unusedSem = << >> => CommandReturns("mutex")
            /\ unusedSem # << >> => shellPc' = "create"
  BY DEF CreateSems, CreateSem, ShellAt, CommandReturns, taskVars
<1>2. /\ running = Shell /\ Shell \in Tasks /\ ~ Blocked(Shell) /\ boot = "done"
      /\ semStat[sem_uart_rx] = "USED" /\ IInv
  BY <1>1, ShellExecutes DEF Control
<1>3. demoStarted = FALSE /\ ~ Made
  BY <1>1 DEF Control, Place, ShellSays, StartLabels, Made
<1>4. \A u \in Tasks : ~ Blocked(u) /\ pc[u] = "none" /\ role[u].kind = "none"
  BY <1>2, <1>3, NoDemo
<1>5. PICK count \in Nat : /\ PRT_SemCreate(count) /\ count <= OS_SEM_COUNT_MAX
                           /\ count = IF shellPc = "empty" THEN RING_BUF_SIZE
                                      ELSE IF shellPc = "full" THEN 0 ELSE 1
  BY <1>1, RingNames
<1>6. CASE unusedSem = << >>
  <2>1. UNCHANGED vars
    BY <1>2, <1>5, <1>6, SemCreated DEF SemMade
  <2>2. UNCHANGED startVars /\ pc' = pc
    BY <1>1, <1>6 DEF HandleSet, startVars, handleVars
  <2>3. PICK here \in {"empty", "full", "mutex"} : CommandReturns(here)
    BY <1>1, <1>6
  <2>4. Control'
    BY <2>1, <2>2, <2>3, CreateSemFails
  <2>5. status' = status /\ semCount' = semCount /\ shellPc' = "pend"
    BY <2>1, <2>3 DEF vars, schedVars, semVars, CommandReturns, ShellPrompt
  <2> QED
    BY <1>3, <1>4, <2>4, <2>5 DEF Blocked
<1>7. CASE unusedSem # << >>
  <2>1. PICK s : s = Head(unusedSem)
    OBVIOUS
  <2>2. IInv' /\ SemMade(s, count)
    BY <1>2, <1>5, <1>7, <2>1, SemCreated
  <2>3. /\ s \in Sems /\ semStat[s] = "UNUSED" /\ s # sem_uart_rx
        /\ semStat' = [semStat EXCEPT ![s] = "USED"]
        /\ semCount' = [semCount EXCEPT ![s] = count]
        /\ UNCHANGED <<uniFlag, stackMemUsed, status, taskSem>>
    BY <1>2, <2>2 DEF SemMade
  <2>4. /\ semStat \in [Sems -> {"UNUSED", "USED"}] /\ semCount \in [Sems -> Nat]
    BY <1>2 DEF IInv, RestType
  <2>5. /\ semStat'[s] = "USED" /\ semCount'[s] = count
        /\ \A x \in Sems \ {s} : semStat'[x] = semStat[x] /\ semCount'[x] = semCount[x]
    BY <2>3, <2>4
  <2>6. /\ UNCHANGED <<boot, prios, role, pc, demoStarted, starting>>
        /\ \/ /\ shellPc = "empty" /\ shellPc' = "full" /\ semEmpty' = s
              /\ UNCHANGED <<semFull, semMutex>>
           \/ /\ shellPc = "full" /\ shellPc' = "mutex" /\ semFull' = s
              /\ UNCHANGED <<semEmpty, semMutex>>
           \/ /\ shellPc = "mutex" /\ shellPc' = "create" /\ semMutex' = s
              /\ UNCHANGED <<semEmpty, semFull>>
    BY <1>1, <1>7, <2>1 DEF HandleSet, envVars, bootVars
  <2>7. BootSays'
    <3>1. /\ BootSays /\ starting \in 1 .. 4 /\ stackMemUsed \in Nat
          /\ stackMemUsed <= Booted + Started
      BY <1>2, SizesAssumption DEF Control, Place, ShellSays, BootSays, IInv, RestType
    <3>2. RxSemMade' /\ Booted' = Booted /\ Booted \in Nat
      BY <1>2, <2>6 DEF RxSemMade, Booted
    <3>3. Started = 0 /\ (Started' = 0 \/ Started' = starting - 1)
      BY <1>3, <2>6, <3>1, NoDemo DEF Started
    <3>4. stackMemUsed' <= Booted' + Started'
      <4>1. stackMemUsed' = stackMemUsed /\ stackMemUsed <= Booted
        BY <2>3, <3>1, <3>2, <3>3
      <4> QED
        BY <3>1, <3>2, <3>3, <4>1
    <3>5. semStat'[sem_uart_rx] = "USED"
      BY <1>2, <2>3, <2>5, RingNames
    <3> QED
      BY <1>2, <2>3, <2>6, <3>1, <3>2, <3>4, <3>5 DEF BootSays, Active
  <2>8. ShellSays'
    <3>1. shellPc' \in {"full", "mutex", "create"}
      BY <2>6
    <3> QED
      BY <1>3, <2>6, <3>1 DEF Control, Place, ShellSays, ShellLabels, StatLabels, StartLabels
  <2>9. Roles'
    BY <1>3, <1>4, <2>6 DEF Control, Place, Roles
  <2>10. Handles'
    <3>1. /\ semEmpty \in Sems /\ semFull \in Sems /\ semMutex \in Sems
          /\ shellPc \in {"full", "mutex"} => Good(semEmpty)
          /\ shellPc = "mutex" => Good(semFull) /\ semFull # semEmpty
      BY DEF Control, Place, Handles
    <3>2. \A x \in Sems : semStat[x] = "USED" => semStat'[x] = "USED" /\ x # s
      BY <2>3, <2>5
    <3>3. Made' <=> shellPc' = "create"
      BY <1>3, <2>6 DEF Made
    <3> QED
      BY <2>3, <2>5, <2>6, <3>1, <3>2, <3>3 DEF Handles, Good
  <2>11. \A u \in Tasks : ~ Blocked(u)'
    BY <1>4, <2>3 DEF Blocked
  <2>12. Mutex'
    <3>1. \A u \in Tasks : ~ Inside(u)'
      <4>1. \A u \in Tasks : Labels(u)' \in {"none", "full", "mutex", "create"}
        BY <1>4, <2>6 DEF Labels
      <4> QED
        BY <4>1 DEF Inside, MutexLabels
    <3>2. Made' => shellPc = "mutex" /\ semMutex' = s
      BY <1>3, <2>6 DEF Made
    <3>3. shellPc = "mutex" => semCount'[s] = 1
      BY <1>5, <2>5
    <3> QED
      BY <3>1, <3>2, <3>3 DEF Mutex
  <2>13. Control'
    BY <2>2, <2>7, <2>8, <2>9, <2>10, <2>11, <2>12 DEF Control, Place, Waiters
  <2>14. /\ semEmpty \in Sems /\ semFull \in Sems
         /\ shellPc \in {"full", "mutex"} => semEmpty # s
         /\ shellPc = "mutex" => semFull # s
    BY <2>3 DEF Control, Place, Handles, Good
  <2> QED
    BY <1>3, <1>4, <1>5, <2>5, <2>6, <2>11, <2>13, <2>14
<1> QED
  BY <1>6, <1>7

\* With six TCBs and six stacks there is one left for each of the four tasks.
LEMMA PoolsEnough ==
  ASSUME Control, shellPc = "create", boot = "done", NumTasks >= 6, NumStacks >= 6
  PROVE  PoolsHaveTask
<1>1. /\ IInv /\ stackMemUsed \in Nat /\ starting \in 1 .. 4 /\ ~ demoStarted
      /\ stackMemUsed <= Booted + Started
  BY SizesAssumption DEF Control, Place, BootSays, ShellSays, IInv, RestType, StartLabels
<1>2. Started = starting - 1 /\ Booted = 2
  BY <1>1 DEF Started, Booted
<1>3. stackMemUsed <= 5 /\ NumTasks \in Nat /\ NumStacks \in Nat
  BY <1>1, <1>2, SizesAssumption
<1>4. ASSUME list[FreeList] = << >> PROVE FALSE
  <2>1. Range(list[FreeList]) = {t \in Tasks : status[t] = {}}
    BY <1>1, Consequences DEF ListsWellFormed
  <2>2. Range(list[FreeList]) = {}
    BY <1>4 DEF Range
  <2>3. InUse = Tasks
    BY <2>1, <2>2 DEF InUse
  <2>4. Cardinality(Tasks) = NumTasks
    <3>1. PICK n \in Nat : NumTasks = n + 1
      BY <1>3, SizesAssumption
    <3>2. Cardinality(0 .. n) = n + 1
      BY FS_Interval
    <3> QED
      BY <3>1, <3>2 DEF Tasks
  <2> QED
    BY <1>1, <1>3, <2>3, <2>4 DEF IInv, Stacks
<1> QED
  BY <1>1, <1>3, <1>4 DEF PoolsHaveTask

LEMMA StartsTyped ==
  ASSUME prios \in TaskPrios, NEW i \in 1 .. 4
  PROVE  /\ Starts[i].kind \in Kind /\ Starts[i].no \in 1 .. 2 /\ Starts[i].prio \in 0 .. 62
         /\ Starts[i] \in [kind : Kind \cup {"none"}, no : 0 .. 2, prio : 0 .. 62]
         /\ Starts[i] = [kind |-> IF i <= 2 THEN "producer" ELSE "consumer",
                         no |-> IF i <= 2 THEN i ELSE i - 2, prio |-> Starts[i].prio]
<1>1. /\ prios.producer \in [{1, 2} -> 0 .. 62] /\ prios.consumer \in [{1, 2} -> 0 .. 62]
  <2>1. Producers = {1, 2} /\ Consumers = {1, 2}
    BY DEF Producers, Consumers
  <2> QED
    BY <2>1, RingAssumption
<1>2. /\ prios.producer[1] \in 0 .. 62 /\ prios.producer[2] \in 0 .. 62
      /\ prios.consumer[1] \in 0 .. 62 /\ prios.consumer[2] \in 0 .. 62
  BY <1>1
<1>3. i = 1 \/ i = 2 \/ i = 3 \/ i = 4
  OBVIOUS
<1>4. CASE i = 1
  BY <1>2, <1>4 DEF Starts, Kind
<1>5. CASE i = 2
  BY <1>2, <1>5 DEF Starts, Kind
<1>6. CASE i = 3
  BY <1>2, <1>6 DEF Starts, Kind
<1>7. CASE i = 4
  BY <1>2, <1>7 DEF Starts, Kind
<1> QED
  BY <1>3, <1>4, <1>5, <1>6, <1>7

\* The start goes on: the tasks and their semaphores stay as they are, but for t.
LEMMA StartMoves ==
  ASSUME Control, Executing(Shell), shellPc \in {"create", "resume"}, Made', IInv', semStat' = semStat,
         NEW t \in Tasks \ {Shell}, ~ Blocked(t)', Unmoved(Tasks \ {t}),
         UNCHANGED <<boot, prios, semEmpty, semFull, semMutex, semCount, semOwner>>,
         \A u \in Tasks \ {t} : /\ role'[u] = role[u] /\ pc'[u] = pc[u]
                                /\ taskSem'[u] = taskSem[u],
         ~ Blocked(t), SameClass(pc[t], pc'[t]),
         BootSays', ShellSays', Roles', shellPc' \in {"create", "resume", "pend"}
  PROVE  Control'
<1>1. Made /\ ~ Blocked(Shell)
  BY ShellExecutes DEF Made
<1>2. \A u \in Tasks \ {t, Shell} : Labels(u)' = Labels(u)
  BY DEF Labels
<1>3. Waiters'
  <2> SUFFICES ASSUME NEW u \in Tasks, Blocked(u)' PROVE Waits(u)'
    BY DEF Waiters
  <2>1. u # t /\ u # Shell /\ Blocked(u)
    BY <1>1, RingNames DEF Unmoved
  <2>2. Waits(u)
    BY <2>1 DEF Control, Waiters
  <2>3. Labels(u)' = Labels(u)
    BY <1>2, <2>1
  <2> QED
    BY <1>1, <2>1, <2>2, <2>3 DEF Waits, WaitsForRx, WaitsForMutex, WaitsForToken, Token
<1>4. \A u \in Tasks : Inside(u)' <=> Inside(u)
  <2>1. Labels(Shell) \notin MutexLabels /\ Labels(Shell)' \notin MutexLabels
    BY DEF Labels, MutexLabels
  <2>2. SameClass(Labels(t), Labels(t)')
    BY DEF Labels
  <2> QED
    BY <1>2, <2>1, <2>2 DEF Inside, Unmoved, SameClass
<1>5. Mutex'
  BY <1>1, <1>4, MutexKept
<1>6. Handles'
  BY <1>1 DEF Control, Place, Handles, Good
<1> QED
  BY <1>3, <1>5, <1>6 DEF Control, Place

LEMMA CreateTaskInv ==
  ASSUME Control, CreateTask, NumTasks >= 6, NumStacks >= 6
  PROVE  /\ Control' /\ Made
         /\ \E t \in Tasks \ {Shell} :
              /\ role[t].kind = "none" /\ role' = [role EXCEPT ![t] = Starts[starting]]
              /\ pc' = [pc EXCEPT ![t] = "token"] /\ Unmoved(Tasks)
              /\ UNCHANGED <<semEmpty, semFull, semMutex, semCount>>
<1>1. /\ Executing(Shell) /\ shellPc = "create" /\ UNCHANGED <<boot, prios, demoStarted>>
      /\ UNCHANGED <<semEmpty, semFull, semMutex>>
      /\ PRT_TaskCreate(Starts[starting].prio)
  BY DEF CreateTask, ShellAt, CommandReturns, envVars, bootVars, handleVars
<1>2. /\ IInv /\ boot = "done" /\ running = Shell /\ Shell \in Tasks /\ status[Shell] # {}
  BY <1>1, ShellExecutes, RunnerReady DEF Control
<1>3. /\ starting \in 1 .. 4 /\ demoStarted = FALSE /\ prios \in TaskPrios /\ Made
  BY <1>1 DEF Control, Place, ShellSays, StartLabels, Made
<1>4. list[FreeList] # << >> /\ stackMemUsed < NumStacks
  BY <1>1, <1>2, PoolsEnough DEF PoolsHaveTask
<1>5. PICK t : t = Head(list[FreeList])
  OBVIOUS
<1>6. /\ shellPc' = "resume" /\ starting' = starting
      /\ role' = [role EXCEPT ![t] = Starts[starting]] /\ pc' = [pc EXCEPT ![t] = "token"]
  BY <1>4, <1>5 DEF CreateTask, ShellAt, PoolsHaveTask
<1>7. PICK p \in 0 .. OS_TSK_PRIORITY_LOWEST : p = Starts[starting].prio
  BY <1>3, StartsTyped DEF OS_TSK_PRIORITY_LOWEST
<1>8. TaskCreated(p)
  <2>1. ~ ListEmpty(list[FreeList])
    BY <1>4 DEF ListEmpty
  <2>2. stackMemUsed \in Nat /\ NumStacks \in Nat
    BY <1>2, SizesAssumption DEF IInv, RestType
  <2>3. stackMemUsed # NumStacks
    BY <1>4, <2>2
  <2> QED
    BY <1>1, <1>7, <2>1, <2>3 DEF PRT_TaskCreate, TaskNotCreated
<1>9. IInv' /\ t \in Tasks /\ Goes(t, FreeTask, SuspendedTask)
  BY <1>2, <1>5, <1>8, TaskCreatedInv
<1>10. /\ taskSem' = [taskSem EXCEPT ![t] = NoSem]
       /\ stackMemUsed' = stackMemUsed + 1
       /\ status' = [status EXCEPT ![t] = {"SUSPEND", "INUSE"}]
       /\ UNCHANGED <<uniFlag, semStat, semCount, semOwner, unusedSem>>
  BY <1>5, <1>8 DEF TaskCreated, semVars
<1>11. /\ status[t] = {} /\ t # Shell /\ status'[t] = {"SUSPEND", "INUSE"}
       /\ \A u \in Tasks \ {t} : status'[u] = status[u] /\ taskSem'[u] = taskSem[u]
  <2>1. status \in [TCBs -> SUBSET StatusBits] /\ taskSem \in [TCBs -> Sems \cup {NoSem}]
    BY <1>2, Invariants DEF StatusType, IInv, RestType
  <2>2. status[t] = {}
    BY <1>2, <1>4, <1>5, FirstFree
  <2> QED
    BY <1>2, <1>9, <1>10, <2>1, <2>2, Names
<1>12. ~ Blocked(t) /\ ~ Blocked(t)' /\ Unmoved(Tasks \ {t}) /\ Unmoved(Tasks)
  BY <1>11 DEF Blocked, Unmoved
<1>13. /\ role \in [Tasks -> [kind : Kind \cup {"none"}, no : 0 .. 2, prio : 0 .. 62]]
       /\ pc \in [Tasks -> TaskLabels] /\ role[Shell].kind = "none"
       /\ role[t].kind = "none" /\ pc[t] = "none"
  BY <1>9, <1>11 DEF Control, Place, Roles
<1>14. /\ \A u \in Tasks \ {t} : role'[u] = role[u] /\ pc'[u] = pc[u]
       /\ role'[t] = Starts[starting] /\ pc'[t] = "token"
  BY <1>6, <1>9, <1>13
<1>15. Made'
  BY <1>6 DEF Made
<1>16. BootSays'
  <2>1. BootSays /\ stackMemUsed \in Nat /\ stackMemUsed <= Booted + Started
    BY <1>2, SizesAssumption DEF Control, Place, BootSays, IInv, RestType
  <2>2. Started = starting - 1 /\ Started' = starting /\ Booted = 2 /\ Booted' = 2
    BY <1>1, <1>2, <1>3, <1>6 DEF Started, Booted
  <2>3. stackMemUsed' <= Booted' + Started'
    BY <1>3, <1>10, <2>1, <2>2
  <2> QED
    BY <1>1, <1>2, <1>10, <2>1, <2>3 DEF BootSays, Active, RxSemMade
<1>17. ShellSays'
  BY <1>1, <1>3, <1>6 DEF ShellSays, ShellLabels, StatLabels, StartLabels
<1>18. Roles'
  <2>1. Starts[starting].kind \in Kind /\ Starts[starting].kind # "none"
    BY <1>3, StartsTyped DEF Kind
  <2>2. role' \in [Tasks -> [kind : Kind \cup {"none"}, no : 0 .. 2, prio : 0 .. 62]]
    <3>1. Starts[starting] \in [kind : Kind \cup {"none"}, no : 0 .. 2, prio : 0 .. 62]
      BY <1>3, StartsTyped
    <3> QED
      BY <1>6, <1>13, <3>1
  <2>3. pc' \in [Tasks -> TaskLabels]
    BY <1>6, <1>13 DEF TaskLabels
  <2>4. \A u \in Tasks : /\ role'[u].kind = "none" <=> pc'[u] = "none"
                         /\ role'[u].kind # "none" => status'[u] # {}
    <3>1. \A u \in Tasks \ {t} : /\ role[u].kind = "none" <=> pc[u] = "none"
                                 /\ role[u].kind # "none" => status[u] # {}
      BY DEF Control, Place, Roles
    <3>2. /\ role'[t].kind # "none" /\ pc'[t] # "none" /\ status'[t] # {}
      BY <1>11, <1>14, <2>1
    <3>3. \A u \in Tasks \ {t} : role'[u] = role[u] /\ pc'[u] = pc[u] /\ status'[u] = status[u]
      BY <1>11, <1>14
    <3> TAKE u \in Tasks
    <3>4. CASE u = t
      BY <3>2, <3>4
    <3>5. CASE u # t
      <4>1. role'[u] = role[u] /\ pc'[u] = pc[u] /\ status'[u] = status[u]
        BY <3>3, <3>5
      <4> QED
        BY <3>1, <3>5, <4>1
    <3> QED
      BY <3>4, <3>5
  <2> QED
    BY <1>2, <1>11, <1>13, <1>14, <1>15, <2>2, <2>3, <2>4 DEF Roles
<1>19. Control'
  <2>1. SameClass(pc[t], pc'[t])
    BY <1>13, <1>14 DEF MutexLabels, SameClass
  <2> QED
    BY <1>1, <1>6, <1>9, <1>10, <1>11, <1>12, <1>14, <1>15, <1>16, <1>17, <1>18, <2>1, StartMoves
<1> QED
  BY <1>1, <1>3, <1>6, <1>9, <1>10, <1>11, <1>12, <1>13, <1>19

LEMMA ResumeTaskInv ==
  ASSUME Control, ResumeTask
  PROVE  Control' /\ Made /\ Unmoved(Tasks) /\ UNCHANGED <<taskVars, handleVars, semCount>>
<1>1. /\ Executing(Shell) /\ shellPc = "resume" /\ UNCHANGED <<boot, taskVars, handleVars>>
      /\ \/ /\ starting < 4 /\ starting' = starting + 1 /\ demoStarted' = demoStarted
            /\ shellPc' = "create"
         \/ /\ ~ (starting < 4) /\ starting' = 1 /\ demoStarted' = TRUE /\ shellPc' = "pend"
  <2>1. Len(Starts) = 4
    BY DEF Starts
  <2> QED
    BY <2>1 DEF ResumeTask, ShellAt, CommandReturns, ShellPrompt, envVars, bootVars
<1>2. UNCHANGED <<prios, role, pc, semEmpty, semFull, semMutex>>
  BY <1>1 DEF taskVars, handleVars
<1>3. /\ IInv /\ boot = "done" /\ running = Shell /\ Shell \in Tasks
      /\ State(Shell) = ReadyTask /\ ~ Blocked(Shell)
  BY <1>1, ShellExecutes, RunnerReady DEF Control
<1>4. /\ starting \in 1 .. 4 /\ demoStarted = FALSE /\ prios \in TaskPrios /\ Made
  BY <1>1 DEF Control, Place, ShellSays, StartLabels, Made
<1>5. PICK t \in Tasks : "SUSPEND" \in status[t] /\ PRT_TaskResume(t)
  BY DEF ResumeTask
<1>6. /\ SetSched(OsMoveTaskToReady([Sched EXCEPT !.status[t] = @ \ {"SUSPEND"}], t))
      /\ UNCHANGED semVars /\ UNCHANGED tskVars
  <2>1. status[t] # {}
    BY <1>5
  <2> QED
    BY <1>5, <2>1 DEF PRT_TaskResume
<1>7. IInv' /\ Goes(t, SuspendedTask, ReadyTask) /\ (Active' <=> Active)
  BY <1>3, <1>5, <1>6, ResumeInv
<1>8. /\ SuspendedTask # FreeTask /\ ReadyTask # FreeTask /\ SuspendedTask # ReadyTask
      /\ "PEND" \notin SuspendedTask /\ "PEND" \notin ReadyTask
  BY DEF SuspendedTask, ReadyTask, FreeTask
<1>9. /\ \A u \in Tasks : status'[u] = {} <=> status[u] = {}
      /\ Unmoved(Tasks \ {t}) /\ ~ Blocked(t) /\ ~ Blocked(t)'
  BY <1>3, <1>7, <1>8, GoesCalm
<1>10. t # Shell
  BY <1>3, <1>7, <1>8 DEF Goes
<1>11. UNCHANGED <<taskSem, stackMemUsed, semStat, semCount, semOwner, unusedSem>>
  BY <1>6 DEF semVars, tskVars
<1>12. Made'
  BY <1>1 DEF Made
<1>13. BootSays'
  <2>1. /\ BootSays /\ stackMemUsed \in Nat /\ stackMemUsed <= Booted + Started
    BY <1>3, SizesAssumption DEF Control, Place, BootSays, IInv, RestType
  <2>2. Started = starting /\ Started' = starting /\ Booted = 2 /\ Booted' = 2
    BY <1>1, <1>3, <1>4 DEF Started, Booted
  <2>3. stackMemUsed' <= Booted' + Started'
    BY <1>4, <1>11, <2>1, <2>2
  <2> QED
    BY <1>1, <1>3, <1>7, <1>11, <2>1, <2>3 DEF BootSays, RxSemMade
<1>14. ShellSays'
  <2>1. starting' \in 1 .. 4
    BY <1>1, <1>4
  <2> QED
    BY <1>1, <1>2, <1>4, <2>1 DEF ShellSays, ShellLabels, StatLabels, StartLabels
<1>15. Roles'
  BY <1>2, <1>9, <1>12 DEF Control, Place, Roles
<1>16. Control'
  <2>1. SameClass(pc[t], pc'[t])
    BY <1>2 DEF SameClass
  <2>2. UNCHANGED <<boot, prios, semEmpty, semFull, semMutex, semCount, semOwner>>
    BY <1>1, <1>2, <1>11
  <2> QED
    BY <1>1, <1>2, <1>7, <1>9, <1>10, <1>11, <1>12, <1>13, <1>14, <1>15, <2>1, <2>2, StartMoves
<1> QED
  BY <1>1, <1>4, <1>9, <1>11, <1>16 DEF Unmoved
-----------------------------------------------------------------------------
LEMMA RingInitInv ==
  ASSUME RingInit
  PROVE  Control /\ ~ Made /\ shellPc = "pend"
<1>1. /\ Init /\ boot = "hwi" /\ shellPc = "pend" /\ demoStarted = FALSE /\ starting = 1
      /\ prios \in TaskPrios /\ semEmpty = 0 /\ semFull = 0 /\ semMutex = 0
      /\ role = [t \in Tasks |-> NoRole] /\ pc = [t \in Tasks |-> "none"]
  BY DEF RingInit, ShellInit
<1>2. IInv
  BY <1>1, InitInv
<1>3. /\ uniFlag = {} /\ stackMemUsed = 0 /\ unusedSem = [i \in 1 .. NumSems |-> i - 1]
      /\ \A t \in Tasks : status[t] = {}
  BY <1>1, Names DEF Init
<1>4. ~ Made /\ ~ RxSemMade
  BY <1>1 DEF Made, RxSemMade
<1>5. BootSays
  <2>1. stackMemUsed <= Booted + Started
    BY <1>1, <1>3 DEF Booted, Started
  <2>2. ~ Active
    BY <1>3 DEF Active
  <2> QED
    BY <1>1, <1>3, <1>4, <2>1, <2>2 DEF BootSays
<1>6. ShellSays
  <2>1. shellPc \in ShellLabels /\ shellPc \notin StatLabels /\ shellPc \notin StartLabels
    BY <1>1 DEF ShellLabels, StatLabels, StartLabels
  <2>2. starting \in 1 .. 4
    BY <1>1
  <2> QED
    BY <1>1, <2>1, <2>2 DEF ShellSays
<1>7. Roles
  <2>1. NoRole \in [kind : Kind \cup {"none"}, no : 0 .. 2, prio : 0 .. 62] /\ NoRole.kind = "none"
    BY DEF NoRole
  <2>2. /\ role \in [Tasks -> [kind : Kind \cup {"none"}, no : 0 .. 2, prio : 0 .. 62]]
        /\ pc \in [Tasks -> TaskLabels]
    BY <1>1, <2>1 DEF TaskLabels
  <2>3. \A t \in Tasks : role[t].kind = "none" /\ pc[t] = "none"
    BY <1>1, <2>1
  <2> QED
    BY <2>2, <2>3, RingNames DEF Roles
<1>8. Handles
  BY <1>1, <1>4, RingNames DEF Handles, sem_uart_rx
<1>9. Waiters
  BY <1>3 DEF Waiters, Blocked
<1> QED
  BY <1>1, <1>2, <1>4, <1>5, <1>6, <1>7, <1>8, <1>9 DEF Control, Place, Mutex

LEMMA BootInv ==
  ASSUME Control, Boot, UNCHANGED demoVars
  PROVE  Control' /\ ~ Made /\ ~ Made'
BY QuietBootInv, CreateRxSemInv, ShellTaskInitInv DEF Boot

LEMMA QuietEnvInv ==
  ASSUME Control, UNCHANGED demoVars, Interrupt \/ \E kind \in Kinds : Type(kind)
  PROVE  Control' /\ UNCHANGED <<vars, boot, shellPc, demoVars>>
<1>1. UNCHANGED <<vars, boot, shellPc>>
  BY DEF Interrupt, RxInterrupt, OsGicIntClear, OsTickDispatcher, Type, envVars, bootVars,
         shellVars
<1> QED
  BY <1>1, EnvInv

\* Each step of a task of the demo, as one of the steps above.
LEMMA DemoTaskInv ==
  ASSUME Control, NEW t \in Tasks, OS_SEM_COUNT_MAX > 0,
         ProducerTaskEntry(t) \/ ConsumerTaskEntry(t) \/ EntryReturns(t)
  PROVE  Control'
<1>1. CASE TakeTokenAndMutex(t, "producer", semEmpty)
  <2>1. CASE TaskAt(t, "producer", "token", "lock") /\ PRT_SemPend(semEmpty, "FOREVER")
    <3>1. Token(t) = semEmpty
      BY <2>1, TaskExecutes DEF TaskLabels
    <3> QED
      BY <2>1, <3>1, TokenStep
  <2>2. CASE TaskAt(t, "producer", "lock", "slot") /\ PRT_SemPend(semMutex, "FOREVER")
    BY <2>2, LockStep
  <2> QED
    BY <1>1, <2>1, <2>2 DEF TakeTokenAndMutex
<1>2. CASE TakeTokenAndMutex(t, "consumer", semFull)
  <2>1. CASE TaskAt(t, "consumer", "token", "lock") /\ PRT_SemPend(semFull, "FOREVER")
    <3>1. Token(t) = semFull
      BY <2>1, TaskExecutes DEF TaskLabels
    <3> QED
      BY <2>1, <3>1, TokenStep
  <2>2. CASE TaskAt(t, "consumer", "lock", "slot") /\ PRT_SemPend(semMutex, "FOREVER")
    BY <2>2, LockStep
  <2> QED
    BY <1>2, <2>1, <2>2 DEF TakeTokenAndMutex
<1>3. CASE GiveMutexAndToken(t, "producer", semFull)
  BY <1>3, UnlockStep, SignalStep DEF GiveMutexAndToken
<1>4. CASE GiveMutexAndToken(t, "consumer", semEmpty)
  BY <1>4, UnlockStep, SignalStep DEF GiveMutexAndToken
<1>5. CASE ProduceSlot(t) \/ ProduceIndex(t) \/ ProduceCount(t)
  BY <1>5, TaskQuiet DEF ProduceSlot, ProduceIndex, ProduceCount
<1>6. CASE ConsumeSlot(t) \/ ConsumeIndex(t) \/ ConsumeCount(t)
  BY <1>6, TaskQuiet DEF ConsumeSlot, ConsumeIndex, ConsumeCount
<1>7. CASE EntryReturns(t)
  BY <1>7, ExitStep
<1> QED
  BY <1>1, <1>2, <1>3, <1>4, <1>5, <1>6, <1>7 DEF ProducerTaskEntry, ConsumerTaskEntry

\* The demo can be made: the pools have room for the two tasks of the boot and
\* for the demo's four, and a semaphore can count all the places.
DemoFits == NumTasks >= 6 /\ NumStacks >= 6 /\ RING_BUF_SIZE <= OS_SEM_COUNT_MAX

LEMMA RingStepInv ==
  ASSUME Control, [RingNext]_ringVars, DemoFits
  PROVE  Control'
<1>1. NumTasks >= 6 /\ NumStacks >= 6 /\ RING_BUF_SIZE <= OS_SEM_COUNT_MAX
  BY DEF DemoFits
<1>2. OS_SEM_COUNT_MAX > 0
  BY <1>1, RingNames
<1>3. CASE (Boot \/ OsUartRxHandle \/ ShellPend \/ ShellRead) /\ UNCHANGED demoVars
  BY <1>3, BootInv, RxHandleInv, ShellPendInv, ShellReadInv
<1>4. CASE Commands
  BY <1>1, <1>2, <1>4, QuietCommandInv, CreateSemsInv, CreateTaskInv, ResumeTaskInv,
     GetStatsLockInv, GetStatsUnlockInv DEF Commands
<1>5. CASE DemoTask
  BY <1>2, <1>5, DemoTaskInv DEF DemoTask
<1>6. CASE (Interrupt \/ \E kind \in Kinds : Type(kind)) /\ UNCHANGED demoVars
  BY <1>6, QuietEnvInv
<1>7. CASE UNCHANGED ringVars
  <2>1. UNCHANGED <<vars, boot, shellPc, demoVars>>
    BY <1>7 DEF ringVars, shellSysVars, envVars, bootVars, shellVars
  <2> QED
    BY <2>1, EnvInv
<1> QED
  BY <1>3, <1>4, <1>5, <1>6, <1>7 DEF RingNext, RingCode, RingInterrupt

LEMMA MutexSays ==
  ASSUME Control
  PROVE  MutualExclusion
<1>1. InMutex = {t \in Tasks : Inside(t)}
  BY DEF InMutex, Inside, MutexLabels
<1>2. CASE InMutex = {}
  BY <1>2, FS_EmptySet DEF MutualExclusion
<1>3. CASE \E t \in Tasks : InMutex = {t}
  BY <1>3, FS_Singleton DEF MutualExclusion
<1>4. InMutex = {} \/ \E t \in Tasks : InMutex = {t}
  <2>1. CASE Made
    BY <1>1, <2>1 DEF Control, Mutex
  <2>2. CASE ~ Made
    <3>1. \A t \in Tasks : Labels(t) \notin MutexLabels
      <4>1. shellPc \notin MutexLabels
        BY <2>2 DEF Control, Place, ShellSays, Made, StatLabels, ShellLabels, StartLabels,
                    MutexLabels
      <4>2. \A t \in Tasks : pc[t] \notin MutexLabels
        BY <2>2, NoDemo DEF MutexLabels
      <4> QED
        BY <4>1, <4>2 DEF Labels
    <3> QED
      BY <1>1, <3>1 DEF Inside
  <2> QED
    BY <2>1, <2>2
<1> QED
  BY <1>2, <1>3, <1>4

-----------------------------------------------------------------------------
(***************************************************************************)
(* The mutex of the ring excludes the four tasks and the shell.             *)
(***************************************************************************)
\* Beside the kernel's invariant: how far boot, shell and tasks are fits what they have
\* created, who waits waits for the semaphore its place in the code says, and the
\* mutex has its token or one task inside.
THEOREM RingControl == ASSUME DemoFits PROVE RingSpec => []Control
<1>1. RingInit => Control
  BY RingInitInv
<1>2. Control /\ [RingNext]_ringVars => Control'
  BY RingStepInv
<1> QED
  BY <1>1, <1>2, PTL DEF RingSpec

\* ipc_ring_demo.c:27: the semaphore g_semMutex protects the buffer and the counters.
\* Whatever the tasks' priorities, the size of the ring and the number of items,
\* and however interrupts and posts switch tasks, of the four tasks and the shell
\* (IPC_RingDemoGetStats) no two are between their pend on it and their post.
THEOREM MutexExcludes == ASSUME DemoFits PROVE RingSpec => []MutualExclusion
<1>1. Control => MutualExclusion
  BY MutexSays
<1> QED
  BY <1>1, RingControl, PTL
-----------------------------------------------------------------------------
(***************************************************************************)
(* What the two counting semaphores count.                                  *)
(***************************************************************************)
\* The token of its kind has been given to t, which does not wait for it.
HasToken(t) == pc[t] # "lock" \/ ~ Blocked(t)

\* t holds an empty place: a producer that has not filled the place it took, or a
\* consumer that has emptied the place of an item.
HoldsPlace(t) ==
  \/ /\ role[t].kind = "producer" /\ HasToken(t)
     /\ pc[t] \in {"lock", "slot", "index", "count"}
  \/ role[t].kind = "consumer" /\ pc[t] \in {"unlock", "signal"}

\* t holds an item: the other way round.
HoldsItem(t) ==
  \/ /\ role[t].kind = "consumer" /\ HasToken(t)
     /\ pc[t] \in {"lock", "slot", "index", "count"}
  \/ role[t].kind = "producer" /\ pc[t] \in {"unlock", "signal"}

PlaceHolders == {t \in Tasks : HoldsPlace(t)}
ItemHolders == {t \in Tasks : HoldsItem(t)}

Tokens ==
  /\ producedTotal \in Nat /\ consumedTotal \in Nat
  /\ shellPc \in {"full", "mutex"} => semCount[semEmpty] = RING_BUF_SIZE
  /\ shellPc = "mutex" => semCount[semFull] = 0
  /\ ~ Made => producedTotal = 0 /\ consumedTotal = 0
  /\ Made => /\ semCount[semFull] + Cardinality(ItemHolders)
                  = producedTotal - consumedTotal
             /\ semCount[semEmpty] + Cardinality(PlaceHolders)
                  = RING_BUF_SIZE - (producedTotal - consumedTotal)

LEMMA TaskSets ==
  ASSUME NEW A \in SUBSET Tasks
  PROVE  IsFiniteSet(A) /\ Cardinality(A) \in Nat
<1>1. NumTasks \in Nat
  BY SizesAssumption
<1>2. IsFiniteSet(Tasks)
  BY <1>1, FS_Interval DEF Tasks
<1> QED
  BY <1>2, FS_Subset, FS_CardinalityType

\* Two sets of tasks that differ in t at most.
LEMMA OneMoves ==
  ASSUME NEW A \in SUBSET Tasks, NEW B \in SUBSET Tasks, NEW t \in Tasks,
         \A u \in Tasks \ {t} : u \in A <=> u \in B
  PROVE  /\ (t \in A <=> t \in B) => Cardinality(B) = Cardinality(A)
         /\ t \notin A /\ t \in B => Cardinality(B) = Cardinality(A) + 1
         /\ t \in A /\ t \notin B => Cardinality(B) = Cardinality(A) - 1
<1>1. IsFiniteSet(A) /\ Cardinality(A) \in Nat
  BY TaskSets
<1>2. ASSUME t \in A <=> t \in B PROVE A = B
  BY <1>2
<1>3. ASSUME t \notin A, t \in B PROVE Cardinality(B) = Cardinality(A) + 1
  <2>1. B = A \cup {t}
    BY <1>3
  <2> QED
    BY <1>1, <1>3, <2>1, FS_AddElement
<1>4. ASSUME t \in A, t \notin B PROVE Cardinality(B) = Cardinality(A) - 1
  <2>1. B = A \ {t}
    BY <1>4
  <2> QED
    BY <1>1, <1>4, <2>1, FS_RemoveElement
<1> QED
  BY <1>2, <1>3, <1>4

\* t leaves and h comes.
LEMMA OneForAnother ==
  ASSUME NEW A \in SUBSET Tasks, NEW B \in SUBSET Tasks, NEW t \in A, NEW h \in B,
         t \notin B, h \notin A, \A u \in Tasks \ {t, h} : u \in A <=> u \in B
  PROVE  Cardinality(B) = Cardinality(A)
<1>1. /\ IsFiniteSet(A) /\ Cardinality(A) \in Nat
      /\ IsFiniteSet(A \ {t}) /\ Cardinality(A \ {t}) \in Nat
  BY TaskSets
<1>2. B = (A \ {t}) \cup {h}
  OBVIOUS
<1>3. Cardinality(A \ {t}) = Cardinality(A) - 1
  BY <1>1, FS_RemoveElement
<1>4. Cardinality((A \ {t}) \cup {h}) = Cardinality(A \ {t}) + 1
  BY <1>1, FS_AddElement
<1> QED
  BY <1>1, <1>2, <1>3, <1>4

\* Tasks that stay where they are.
LEMMA HoldersStay ==
  ASSUME NEW u \in Tasks, role'[u] = role[u], pc'[u] = pc[u],
         pc[u] # "lock" \/ (Blocked(u)' <=> Blocked(u))
  PROVE  (HoldsPlace(u)' <=> HoldsPlace(u)) /\ (HoldsItem(u)' <=> HoldsItem(u))
BY DEF HoldsPlace, HoldsItem, HasToken

LEMMA HoldersKept ==
  ASSUME \A u \in Tasks : (HoldsPlace(u)' <=> HoldsPlace(u)) /\ (HoldsItem(u)' <=> HoldsItem(u))
  PROVE  /\ Cardinality(PlaceHolders)' = Cardinality(PlaceHolders)
         /\ Cardinality(ItemHolders)' = Cardinality(ItemHolders)
<1>1. PlaceHolders' = PlaceHolders /\ ItemHolders' = ItemHolders
  BY DEF PlaceHolders, ItemHolders
<1> QED
  BY <1>1

\* Nothing about the tokens changes.
LEMMA TokensSame ==
  ASSUME Control, Tokens, Made' <=> Made,
         UNCHANGED <<producedTotal, consumedTotal, semEmpty, semFull>>,
         shellPc' \in {"full", "mutex"} => shellPc' = shellPc,
         shellPc \in {"full", "mutex"} \/ Made => semCount'[semEmpty] = semCount[semEmpty],
         shellPc = "mutex" \/ Made => semCount'[semFull] = semCount[semFull],
         Made => /\ Cardinality(PlaceHolders)' = Cardinality(PlaceHolders)
                 /\ Cardinality(ItemHolders)' = Cardinality(ItemHolders)
  PROVE  Tokens'
<1>1. Made => UNCHANGED <<semCount[semEmpty], semCount[semFull]>>
  OBVIOUS
<1>2. shellPc' \in {"full", "mutex"} => semCount'[semEmpty'] = RING_BUF_SIZE
  BY DEF Tokens
<1>3. shellPc' = "mutex" => semCount'[semFull'] = 0
  BY DEF Tokens
<1> QED
  BY <1>1, <1>2, <1>3 DEF Tokens

\* A step of a task of the demo leaves alone where the others are.
LEMMA TaskSays ==
  ASSUME Control, NEW t \in Tasks, NEW kind, NEW here \in TaskLabels \ {"none"},
         NEW next \in TaskLabels \ {"none"}, TaskAt(t, kind, here, next)
  PROVE  /\ role' = role /\ pc'[t] = next /\ \A u \in Tasks \ {t} : pc'[u] = pc[u]
         /\ Made /\ Made' /\ shellPc \notin {"full", "mutex"}
         /\ UNCHANGED <<semEmpty, semFull, semMutex, shellPc, demoStarted, prios>>
<1>1. /\ pc' = [pc EXCEPT ![t] = next]
      /\ UNCHANGED <<role, semEmpty, semFull, semMutex, shellPc, demoStarted, prios>>
  BY DEF TaskAt, shellVars, startVars, handleVars
<1>2. pc \in [Tasks -> TaskLabels]
  BY DEF Control, Place, Roles
<1>3. Made
  BY TaskExecutes
<1>4. shellPc \notin {"full", "mutex"}
  BY <1>3 DEF Made, Control, Place, ShellSays, StartLabels
<1> QED
  BY <1>1, <1>2, <1>3, <1>4 DEF Made
\* No call on a semaphore changes the count of another.
Elsewhere(s) == \A r \in Sems \ {s} : semCount'[r] = semCount[r]

LEMMA CountsElsewhere ==
  ASSUME Control, NEW s \in Sems, NEW t \in Tasks,
         Takes(t, s) \/ Blocks(t, s) \/ Keeps(s) \/ Wakes(t, s)
  PROVE  Elsewhere(s) /\ Unmoved(Tasks \ {t})
<1>1. semCount \in [Sems -> Nat]
  BY DEF Control, IInv, RestType
<1> QED
  BY <1>1 DEF Takes, Blocks, Keeps, Wakes, Elsewhere, Unmoved

\* Who waits for the token of its kind is no other than a task of the demo that
\* is about to take the mutex.
LEMMA WaitsForHandle ==
  ASSUME Control, NEW h \in Tasks, Blocked(h)
  PROVE  /\ taskSem[h] = sem_uart_rx => pc[h] = "none" /\ role[h].kind = "none"
         /\ Made /\ taskSem[h] = semEmpty => pc[h] = "lock" /\ role[h].kind = "producer"
         /\ Made /\ taskSem[h] = semFull => pc[h] = "lock" /\ role[h].kind = "consumer"
         /\ Made /\ taskSem[h] = semMutex => pc[h] # "lock"
<1>1. Waits(h) /\ role[Shell].kind = "none" /\ pc[Shell] = "none"
      /\ role[h].kind \in Kind \cup {"none"} /\ (role[h].kind = "none" <=> pc[h] = "none")
  BY RingNames DEF Control, Waiters, Place, Roles
<1>2. Made => /\ semEmpty # sem_uart_rx /\ semFull # sem_uart_rx /\ semMutex # sem_uart_rx
              /\ semFull # semEmpty /\ semMutex # semEmpty /\ semMutex # semFull
  BY DEF Control, Place, Handles, Good
<1>3. CASE WaitsForRx(h)
  BY <1>1, <1>2, <1>3 DEF WaitsForRx
<1>4. CASE WaitsForMutex(h)
  <2>1. pc[h] # "lock"
    BY <1>1, <1>4 DEF WaitsForMutex, Labels
  <2> QED
    BY <1>2, <1>4, <2>1 DEF WaitsForMutex
<1>5. CASE WaitsForToken(h)
  <2>1. pc[h] = "lock" /\ role[h].kind \in Kind /\ Made
    BY <1>1, <1>5 DEF WaitsForToken, Labels
  <2>2. taskSem[h] = Token(h)
    BY <1>5 DEF WaitsForToken
  <2> QED
    BY <1>2, <2>1, <2>2 DEF Token, Kind
<1> QED
  BY <1>1, <1>3, <1>4, <1>5 DEF Waits

\* A step that moves no task of the demo and concerns neither of its tokens.
LEMMA TokensAside ==
  ASSUME Control, Tokens, Made' <=> Made,
         UNCHANGED <<producedTotal, consumedTotal, semEmpty, semFull, role, pc>>,
         shellPc' \in {"full", "mutex"} => shellPc' = shellPc,
         NEW s \in {sem_uart_rx, semMutex}, s = sem_uart_rx \/ Made, Elsewhere(s),
         \A u \in Tasks : pc[u] # "lock" \/ (Blocked(u)' <=> Blocked(u))
  PROVE  Tokens'
<1>1. \A u \in Tasks : (HoldsPlace(u)' <=> HoldsPlace(u)) /\ (HoldsItem(u)' <=> HoldsItem(u))
  BY HoldersStay
<1>2. /\ shellPc \in {"full", "mutex"} \/ Made => semEmpty \in Sems \ {s}
      /\ shellPc = "mutex" \/ Made => semFull \in Sems \ {s}
  BY DEF Control, Place, Handles, Good
<1>3. /\ shellPc \in {"full", "mutex"} \/ Made => semCount'[semEmpty] = semCount[semEmpty]
      /\ shellPc = "mutex" \/ Made => semCount'[semFull] = semCount[semFull]
  BY <1>2 DEF Elsewhere
<1> QED
  BY <1>1, <1>3, HoldersKept, TokensSame

LEMMA IdleTokens ==
  ASSUME Control, Tokens, Made' <=> Made, UNCHANGED vars,
         UNCHANGED <<producedTotal, consumedTotal, semEmpty, semFull, role, pc>>,
         shellPc' \in {"full", "mutex"} => shellPc' = shellPc
  PROVE  Tokens'
<1>1. Idles
  BY KernelKept DEF Control
<1>2. Elsewhere(sem_uart_rx) /\ \A u \in Tasks : Blocked(u)' <=> Blocked(u)
  BY <1>1 DEF Idles, Elsewhere, Unmoved
<1> QED
  BY <1>2, TokensAside

LEMMA EnvTokens ==
  ASSUME Control, Tokens, UNCHANGED <<vars, shellPc, demoVars>>
  PROVE  Tokens'
<1>1. UNCHANGED <<producedTotal, consumedTotal, semEmpty, semFull, role, pc, demoStarted>>
  BY DEF demoVars, dataVars, startVars, handleVars
<1>2. Made' <=> Made
  BY <1>1 DEF Made
<1> QED
  BY <1>1, <1>2, IdleTokens

LEMMA BootTokens ==
  ASSUME Control, Tokens, Boot, UNCHANGED demoVars
  PROVE  Tokens'
<1>1. boot # "done" /\ UNCHANGED shellPc
  BY DEF Boot, OsHwiInit, CoreTimerInit, InitModules, EnableRx, CreateRxSem, ShellTaskInit,
         Activate, BootStep, shellVars
<1>2. shellPc = "pend" /\ ~ Made /\ ~ Made'
  BY <1>1, BootInv DEF Control, Place, BootSays
<1>3. UNCHANGED <<producedTotal, consumedTotal>>
  BY DEF demoVars, dataVars
<1> QED
  BY <1>1, <1>2, <1>3 DEF Tokens

LEMMA RxHandleTokens ==
  ASSUME Control, Tokens, OsUartRxHandle, UNCHANGED demoVars
  PROVE  Tokens'
<1>1. UNCHANGED <<producedTotal, consumedTotal, semEmpty, semFull, role, pc, demoStarted>>
  BY DEF demoVars, dataVars, startVars, handleVars
<1>2. /\ UNCHANGED shellPc
      /\ \/ Idles \/ Keeps(sem_uart_rx) \/ \E h \in Tasks : Wakes(h, sem_uart_rx)
  BY RxHandleInv
<1>3. Made' <=> Made
  BY <1>1, <1>2 DEF Made
<1>4. ASSUME Idles PROVE Tokens'
  <2>1. Elsewhere(sem_uart_rx) /\ \A u \in Tasks : Blocked(u)' <=> Blocked(u)
    BY <1>4 DEF Idles, Elsewhere, Unmoved
  <2> QED
    BY <1>1, <1>2, <1>3, <2>1, TokensAside
<1>5. ASSUME Keeps(sem_uart_rx) PROVE Tokens'
  <2>1. Elsewhere(sem_uart_rx)
    BY <1>5, RingNames, CountsElsewhere
  <2>2. \A u \in Tasks : Blocked(u)' <=> Blocked(u)
    BY <1>5 DEF Keeps, Unmoved
  <2> QED
    BY <1>1, <1>2, <1>3, <2>1, <2>2, TokensAside
<1>6. ASSUME NEW h \in Tasks, Wakes(h, sem_uart_rx) PROVE Tokens'
  <2>1. Elsewhere(sem_uart_rx) /\ Unmoved(Tasks \ {h})
    BY <1>6, RingNames, CountsElsewhere
  <2>2. pc[h] = "none"
    BY <1>6, WaitsForHandle DEF Wakes
  <2>3. \A u \in Tasks : pc[u] # "lock" \/ (Blocked(u)' <=> Blocked(u))
    BY <2>1, <2>2 DEF Unmoved
  <2> QED
    BY <1>1, <1>2, <1>3, <2>1, <2>3, TokensAside
<1> QED
  BY <1>2, <1>4, <1>5, <1>6

\* The shell's pend on the mutex or on the semaphore of the UART.
LEMMA ShellTakesTokens ==
  ASSUME Control, Tokens, Made' <=> Made,
         UNCHANGED <<producedTotal, consumedTotal, semEmpty, semFull, role, pc>>,
         shellPc' \notin {"full", "mutex"},
         NEW s \in {sem_uart_rx, semMutex}, s \in Sems, s = sem_uart_rx \/ Made,
         Takes(Shell, s) \/ Blocks(Shell, s)
  PROVE  Tokens'
<1>1. Elsewhere(s) /\ Unmoved(Tasks \ {Shell})
  BY RingNames, CountsElsewhere
<1>2. pc[Shell] = "none"
  BY RingNames DEF Control, Place, Roles
<1>3. \A u \in Tasks : pc[u] # "lock" \/ (Blocked(u)' <=> Blocked(u))
  BY <1>1, <1>2 DEF Unmoved
<1> QED
  BY <1>1, <1>3, TokensAside

\* A post on the mutex.
LEMMA MutexTokens ==
  ASSUME Control, Tokens, Made, Made',
         UNCHANGED <<producedTotal, consumedTotal, semEmpty, semFull, role, pc>>,
         shellPc' \notin {"full", "mutex"},
         Keeps(semMutex) \/ \E h \in Tasks : Wakes(h, semMutex)
  PROVE  Tokens'
<1>1. semMutex \in Sems
  BY DEF Control, Place, Handles
<1>2. ASSUME Keeps(semMutex) PROVE Tokens'
  <2>1. Elsewhere(semMutex)
    BY <1>1, <1>2, RingNames, CountsElsewhere
  <2>2. \A u \in Tasks : Blocked(u)' <=> Blocked(u)
    BY <1>2 DEF Keeps, Unmoved
  <2> QED
    BY <2>1, <2>2, TokensAside
<1>3. ASSUME NEW h \in Tasks, Wakes(h, semMutex) PROVE Tokens'
  <2>1. Elsewhere(semMutex) /\ Unmoved(Tasks \ {h})
    BY <1>1, <1>3, CountsElsewhere
  <2>2. pc[h] # "lock"
    BY <1>3, WaitsForHandle DEF Wakes
  <2>3. \A u \in Tasks : pc[u] # "lock" \/ (Blocked(u)' <=> Blocked(u))
    BY <2>1, <2>2 DEF Unmoved
  <2> QED
    BY <2>1, <2>3, TokensAside
<1> QED
  BY <1>2, <1>3
-----------------------------------------------------------------------------
LEMMA ShellTokens ==
  ASSUME Control, Tokens, (ShellPend \/ ShellRead) /\ UNCHANGED demoVars
  PROVE  Tokens'
<1>1. UNCHANGED <<producedTotal, consumedTotal, semEmpty, semFull, role, pc, demoStarted>>
  BY DEF demoVars, dataVars, startVars, handleVars
<1>2. /\ shellPc \in {"pend", "read"}
      /\ shellPc' \in {"read", "dispatch", "pend"}
  BY DEF ShellPend, ShellRead
<1>3. Made' <=> Made
  BY <1>1, <1>2 DEF Made
<1>4. CASE ShellPend
  BY <1>1, <1>2, <1>3, <1>4, RingNames, ShellPendInv, ShellTakesTokens
<1>5. CASE ShellRead
  <2>1. UNCHANGED vars
    BY <1>5 DEF ShellRead
  <2> QED
    BY <1>1, <1>2, <1>3, <2>1, IdleTokens
<1> QED
  BY <1>4, <1>5

LEMMA StatsTokens ==
  ASSUME Control, Tokens, IpcStart \/ GetStats \/ GetStatsCopy \/ GetStatsLock \/ GetStatsUnlock,
         OS_SEM_COUNT_MAX > 0
  PROVE  Tokens'
<1>1. UNCHANGED <<producedTotal, consumedTotal, semEmpty, semFull, role, pc, demoStarted>>
  BY DEF IpcStart, GetStats, GetStatsCopy, GetStatsLock, GetStatsUnlock, demoVars, dataVars,
         startVars, handleVars
<1>2. /\ shellPc \in {"dispatch", "lock", "copy1", "copy2", "unlock"}
      /\ shellPc' \in {"pend", "empty", "lock", "copy1", "copy2", "unlock"}
  BY DEF IpcStart, GetStats, GetStatsCopy, GetStatsLock, GetStatsUnlock, ShellAt,
         CommandReturns, ShellPrompt
<1>3. Made' <=> Made
  BY <1>1, <1>2 DEF Made
<1>4. CASE IpcStart \/ GetStats \/ GetStatsCopy
  <2>1. UNCHANGED vars
    BY <1>4 DEF IpcStart, GetStats, GetStatsCopy
  <2> QED
    BY <1>1, <1>2, <1>3, <2>1, IdleTokens
<1>5. ASSUME shellPc \in {"lock", "unlock"} PROVE Made /\ semMutex \in Sems
  BY <1>5 DEF Control, Place, ShellSays, StatLabels, Made, Handles
<1>6. CASE GetStatsLock
  <2>1. Made /\ semMutex \in Sems
    BY <1>5, <1>6 DEF GetStatsLock, ShellAt
  <2> QED
    BY <1>1, <1>2, <1>3, <1>6, <2>1, GetStatsLockInv, ShellTakesTokens
<1>7. CASE GetStatsUnlock
  <2>1. Made /\ Made'
    BY <1>3, <1>5, <1>7 DEF GetStatsUnlock, CommandReturns
  <2>2. Keeps(semMutex) \/ \E h \in Tasks : Wakes(h, semMutex)
    BY <1>7, GetStatsUnlockInv
  <2> QED
    BY <1>1, <1>2, <2>1, <2>2, MutexTokens
<1> QED
  BY <1>4, <1>6, <1>7

LEMMA CreateSemsTokens ==
  ASSUME Control, Tokens, CreateSems, RING_BUF_SIZE <= OS_SEM_COUNT_MAX
  PROVE  Tokens'
<1>1. UNCHANGED <<producedTotal, consumedTotal, role, pc, demoStarted>>
  BY DEF CreateSems, CreateSem, dataVars, taskVars
<1>2. /\ Control' /\ ~ Made
      /\ \/ UNCHANGED semCount /\ shellPc' = "pend"
         \/ /\ shellPc = "empty" /\ shellPc' = "full"
            /\ semCount'[semEmpty'] = RING_BUF_SIZE
         \/ /\ shellPc = "full" /\ shellPc' = "mutex"
            /\ semCount'[semEmpty'] = semCount[semEmpty] /\ semCount'[semFull'] = 0
         \/ /\ shellPc = "mutex" /\ shellPc' = "create"
            /\ semCount'[semEmpty'] = semCount[semEmpty]
            /\ semCount'[semFull'] = semCount[semFull]
  BY CreateSemsInv
<1>3. producedTotal = 0 /\ consumedTotal = 0 /\ producedTotal' = 0 /\ consumedTotal' = 0
  BY <1>1, <1>2 DEF Tokens
<1>4. demoStarted = FALSE
  BY <1>2 DEF Made, Control, Place, ShellSays
<1>5. shellPc' # "create" => ~ Made'
  BY <1>1, <1>2, <1>4 DEF Made
<1>6. CASE shellPc' # "create"
  BY <1>2, <1>3, <1>5, <1>6 DEF Tokens
<1>7. CASE shellPc' = "create"
  <2>1. semCount'[semEmpty'] = RING_BUF_SIZE /\ semCount'[semFull'] = 0
    BY <1>2, <1>7 DEF Tokens
  <2>2. \A t \in Tasks : role[t].kind = "none"
    BY <1>2, NoDemo
  <2>3. PlaceHolders' = {} /\ ItemHolders' = {}
    BY <1>1, <2>2 DEF PlaceHolders, ItemHolders, HoldsPlace, HoldsItem
  <2>4. Cardinality(PlaceHolders)' = 0 /\ Cardinality(ItemHolders)' = 0
    BY <2>3, FS_EmptySet
  <2>5. RING_BUF_SIZE + 0 = RING_BUF_SIZE - (0 - 0) /\ 0 + 0 = 0 - 0
    BY RingNames
  <2>6. /\ semCount'[semFull'] + Cardinality(ItemHolders') = producedTotal' - consumedTotal'
        /\ semCount'[semEmpty'] + Cardinality(PlaceHolders')
             = RING_BUF_SIZE - (producedTotal' - consumedTotal')
    BY <1>3, <2>1, <2>4, <2>5
  <2> QED
    BY <1>3, <1>7, <2>6 DEF Tokens
<1> QED
  BY <1>6, <1>7

LEMMA StartTokens ==
  ASSUME Control, Tokens, CreateTask \/ ResumeTask, NumTasks >= 6, NumStacks >= 6
  PROVE  Tokens'
<1>1. UNCHANGED <<producedTotal, consumedTotal, semEmpty, semFull>>
  BY DEF CreateTask, ResumeTask, dataVars, handleVars
<1>2. CASE CreateTask
  <2>1. /\ Made /\ UNCHANGED semCount
        /\ \E t \in Tasks \ {Shell} :
             /\ role[t].kind = "none" /\ role' = [role EXCEPT ![t] = Starts[starting]]
             /\ pc' = [pc EXCEPT ![t] = "token"] /\ Unmoved(Tasks)
    BY <1>2, CreateTaskInv
  <2>2. PICK t \in Tasks \ {Shell} :
          /\ role[t].kind = "none" /\ role' = [role EXCEPT ![t] = Starts[starting]]
          /\ pc' = [pc EXCEPT ![t] = "token"] /\ Unmoved(Tasks)
    BY <2>1
  <2>3. Executing(Shell) /\ shellPc = "create"
    BY <1>2 DEF CreateTask, ShellAt, CommandReturns
  <2>4. shellPc' = "resume" /\ Made'
    <3>1. boot = "done"
      BY <2>3, ShellExecutes
    <3>2. PoolsHaveTask
      BY <2>3, <3>1, PoolsEnough
    <3> QED
      BY <1>2, <3>2 DEF CreateTask, ShellAt, Made
  <2>5. /\ pc'[t] = "token"
        /\ \A u \in Tasks \ {t} : role'[u] = role[u] /\ pc'[u] = pc[u]
    BY <2>2 DEF Control, Place, Roles
  <2>6. \A u \in Tasks \ {t} : /\ HoldsPlace(u)' <=> HoldsPlace(u)
                               /\ HoldsItem(u)' <=> HoldsItem(u)
    BY <2>2, <2>5, HoldersStay DEF Unmoved
  <2>7. ~ HoldsPlace(t) /\ ~ HoldsItem(t)
    BY <2>2 DEF HoldsPlace, HoldsItem
  <2>8. ~ HoldsPlace(t)' /\ ~ HoldsItem(t)'
    BY <2>5 DEF HoldsPlace, HoldsItem
  <2>9. \A u \in Tasks : /\ HoldsPlace(u)' <=> HoldsPlace(u)
                         /\ HoldsItem(u)' <=> HoldsItem(u)
    BY <2>6, <2>7, <2>8
  <2> QED
    BY <1>1, <2>1, <2>4, <2>9, HoldersKept, TokensSame
<1>3. CASE ResumeTask
  <2>1. Made /\ Unmoved(Tasks) /\ UNCHANGED <<role, pc, semCount>>
    BY <1>3, ResumeTaskInv DEF taskVars
  <2>2. shellPc' = "create" \/ (shellPc' = "pend" /\ demoStarted' = TRUE)
    BY <1>3 DEF ResumeTask, ShellAt, CommandReturns, ShellPrompt
  <2>3. Made'
    BY <2>2 DEF Made
  <2>4. \A u \in Tasks : /\ HoldsPlace(u)' <=> HoldsPlace(u)
                         /\ HoldsItem(u)' <=> HoldsItem(u)
    BY <2>1, HoldersStay DEF Unmoved
  <2> QED
    BY <1>1, <2>1, <2>2, <2>3, <2>4, HoldersKept, TokensSame
<1> QED
  BY <1>2, <1>3
-----------------------------------------------------------------------------
LEMMA TokenNumbers ==
  ASSUME Control, Made
  PROVE  /\ semCount \in [Sems -> Nat] /\ semEmpty \in Sems /\ semFull \in Sems
         /\ semEmpty # semFull /\ semMutex # semEmpty /\ semMutex # semFull
         /\ semCount[semEmpty] \in Nat /\ semCount[semFull] \in Nat
         /\ Cardinality(PlaceHolders) \in Nat /\ Cardinality(ItemHolders) \in Nat
<1>1. semCount \in [Sems -> Nat]
  BY DEF Control, IInv, RestType
<1>2. /\ semEmpty \in Sems /\ semFull \in Sems
      /\ semEmpty # semFull /\ semMutex # semEmpty /\ semMutex # semFull
  BY DEF Control, Place, Handles, Good
<1>3. PlaceHolders \in SUBSET Tasks /\ ItemHolders \in SUBSET Tasks
  BY DEF PlaceHolders, ItemHolders
<1> QED
  BY <1>1, <1>2, <1>3, TaskSets

\* How a step of t changes what the tasks hold.
LEMMA HolderMoves ==
  ASSUME NEW t \in Tasks,
         \A u \in Tasks \ {t} : /\ HoldsPlace(u)' <=> HoldsPlace(u)
                                /\ HoldsItem(u)' <=> HoldsItem(u)
  PROVE  /\ (HoldsPlace(t) <=> HoldsPlace(t)') =>
              Cardinality(PlaceHolders)' = Cardinality(PlaceHolders)
         /\ ~ HoldsPlace(t) /\ HoldsPlace(t)' =>
              Cardinality(PlaceHolders)' = Cardinality(PlaceHolders) + 1
         /\ HoldsPlace(t) /\ ~ HoldsPlace(t)' =>
              Cardinality(PlaceHolders)' = Cardinality(PlaceHolders) - 1
         /\ (HoldsItem(t) <=> HoldsItem(t)') =>
              Cardinality(ItemHolders)' = Cardinality(ItemHolders)
         /\ ~ HoldsItem(t) /\ HoldsItem(t)' =>
              Cardinality(ItemHolders)' = Cardinality(ItemHolders) + 1
         /\ HoldsItem(t) /\ ~ HoldsItem(t)' =>
              Cardinality(ItemHolders)' = Cardinality(ItemHolders) - 1
<1>1. PICK A \in SUBSET Tasks, B \in SUBSET Tasks : A = PlaceHolders /\ B = PlaceHolders'
  BY DEF PlaceHolders
<1>2. PICK C \in SUBSET Tasks, D \in SUBSET Tasks : C = ItemHolders /\ D = ItemHolders'
  BY DEF ItemHolders
<1>3. /\ \A u \in Tasks : (u \in A <=> HoldsPlace(u)) /\ (u \in B <=> HoldsPlace(u)')
      /\ \A u \in Tasks : (u \in C <=> HoldsItem(u)) /\ (u \in D <=> HoldsItem(u)')
  BY <1>1, <1>2 DEF PlaceHolders, ItemHolders
<1>4. /\ (t \in A <=> t \in B) => Cardinality(B) = Cardinality(A)
      /\ t \notin A /\ t \in B => Cardinality(B) = Cardinality(A) + 1
      /\ t \in A /\ t \notin B => Cardinality(B) = Cardinality(A) - 1
  BY <1>3, OneMoves
<1>5. /\ (t \in C <=> t \in D) => Cardinality(D) = Cardinality(C)
      /\ t \notin C /\ t \in D => Cardinality(D) = Cardinality(C) + 1
      /\ t \in C /\ t \notin D => Cardinality(D) = Cardinality(C) - 1
  BY <1>3, OneMoves
<1> QED
  BY <1>1, <1>2, <1>3, <1>4, <1>5

\* How far each of the six numbers moves; a place is a place and not an item.
Differ(de, dp, df, di, np, nc) ==
  /\ semCount'[semEmpty] = semCount[semEmpty] + de
  /\ Cardinality(PlaceHolders)' = Cardinality(PlaceHolders) + dp
  /\ semCount'[semFull] = semCount[semFull] + df
  /\ Cardinality(ItemHolders)' = Cardinality(ItemHolders) + di
  /\ producedTotal' = producedTotal + np /\ consumedTotal' = consumedTotal + nc

LEMMA TokensBecome ==
  ASSUME Control, Tokens, Made, Made', shellPc' \notin {"full", "mutex"},
         UNCHANGED <<semEmpty, semFull>>,
         NEW de \in Int, NEW df \in Int, NEW dp \in Int, NEW di \in Int,
         NEW np \in 0 .. 1, NEW nc \in 0 .. 1, df + di = np - nc, de + dp = nc - np,
         Differ(de, dp, df, di, np, nc)
  PROVE  Tokens'
<1>1. PICK e \in Nat, f \in Nat, p \in Nat, i \in Nat, m \in Nat, n \in Nat :
        /\ e = semCount[semEmpty] /\ f = semCount[semFull]
        /\ p = Cardinality(PlaceHolders) /\ i = Cardinality(ItemHolders)
        /\ m = producedTotal /\ n = consumedTotal
  BY TokenNumbers DEF Tokens
<1>2. f + i = m - n /\ e + p = RING_BUF_SIZE - (m - n)
  BY <1>1 DEF Tokens
<1>3. /\ (f + df) + (i + di) = (m + np) - (n + nc)
      /\ (e + de) + (p + dp) = RING_BUF_SIZE - ((m + np) - (n + nc))
      /\ m + np \in Nat /\ n + nc \in Nat
  BY <1>2, RingNames
<1>4. /\ semCount'[semEmpty'] = e + de /\ semCount'[semFull'] = f + df
      /\ Cardinality(PlaceHolders)' = p + dp /\ Cardinality(ItemHolders)' = i + di
      /\ producedTotal' = m + np /\ consumedTotal' = n + nc
  BY <1>1 DEF Differ
<1>5. /\ semCount'[semFull'] + Cardinality(ItemHolders)' = producedTotal' - consumedTotal'
      /\ semCount'[semEmpty'] + Cardinality(PlaceHolders)'
           = RING_BUF_SIZE - (producedTotal' - consumedTotal')
      /\ producedTotal' \in Nat /\ consumedTotal' \in Nat
  BY <1>3, <1>4
<1> QED
  BY <1>5 DEF Tokens

LEMMA TakeTokenTokens ==
  ASSUME Control, Tokens, NEW t \in Tasks, NEW kind, TaskAt(t, kind, "token", "lock"),
         PRT_SemPend(Token(t), "FOREVER"), UNCHANGED <<producedTotal, consumedTotal>>
  PROVE  Tokens'
<1>1. PICK s \in Sems : s = Token(t)
  BY TaskExecutes DEF Token, TaskLabels
<1>2. /\ role' = role /\ pc'[t] = "lock" /\ \A u \in Tasks \ {t} : pc'[u] = pc[u]
      /\ Made /\ Made' /\ shellPc \notin {"full", "mutex"}
      /\ UNCHANGED <<semEmpty, semFull, semMutex, shellPc>>
      /\ pc[t] = "token" /\ role[t].kind = kind /\ kind \in Kind /\ ~ Blocked(t)
  <2>1. "token" \in TaskLabels \ {"none"} /\ "lock" \in TaskLabels \ {"none"}
    BY DEF TaskLabels
  <2>2. /\ pc[t] = "token" /\ role[t].kind = kind /\ kind \in Kind /\ ~ Blocked(t)
    BY <2>1, TaskExecutes
  <2> QED
    BY <2>1, <2>2, TaskSays
<1>3. Takes(t, s) \/ Blocks(t, s)
  BY <1>1, TokenStep
<1>4. Elsewhere(s) /\ Unmoved(Tasks \ {t})
  BY <1>3, CountsElsewhere
<1>5. \A u \in Tasks \ {t} : /\ HoldsPlace(u)' <=> HoldsPlace(u)
                             /\ HoldsItem(u)' <=> HoldsItem(u)
  BY <1>2, <1>4, HoldersStay DEF Unmoved
<1>6. ~ HoldsPlace(t) /\ ~ HoldsItem(t)
  BY <1>2 DEF HoldsPlace, HoldsItem
<1>7. CASE Blocks(t, s)
  <2>1. ~ HoldsPlace(t)' /\ ~ HoldsItem(t)' /\ semCount' = semCount
    BY <1>2, <1>7 DEF HoldsPlace, HoldsItem, HasToken, Blocks
  <2>2. \A u \in Tasks : /\ HoldsPlace(u)' <=> HoldsPlace(u)
                         /\ HoldsItem(u)' <=> HoldsItem(u)
    BY <1>5, <1>6, <2>1
  <2> QED
    BY <1>2, <2>1, <2>2, HoldersKept, TokensSame
<1>8. CASE Takes(t, s)
  <2>1. ~ Blocked(t)' /\ semCount'[s] = semCount[s] - 1
    BY <1>2, <1>8, TokenNumbers DEF Takes, Unmoved
  <2>2. CASE kind = "producer"
    <3>1. s = semEmpty
      BY <1>1, <1>2, <2>2 DEF Token
    <3>2. HoldsPlace(t)' /\ ~ HoldsItem(t)'
      BY <1>2, <2>1, <2>2 DEF HoldsPlace, HoldsItem, HasToken
    <3>3. /\ Cardinality(PlaceHolders)' = Cardinality(PlaceHolders) + 1
          /\ Cardinality(ItemHolders)' = Cardinality(ItemHolders) + 0
      BY <1>2, <1>5, <1>6, <3>2, HolderMoves, TokenNumbers
    <3>4. /\ semCount'[semEmpty] = semCount[semEmpty] + (0 - 1)
          /\ semCount'[semFull] = semCount[semFull] + 0
      BY <1>2, <1>4, <2>1, <3>1, TokenNumbers DEF Elsewhere
    <3>5. producedTotal' = producedTotal + 0 /\ consumedTotal' = consumedTotal + 0
      BY DEF Tokens
    <3>6. PICK d \in Int : d = 0 - 1
      OBVIOUS
    <3>7. Differ(d, 1, 0, 0, 0, 0) /\ 0 + 0 = 0 - 0 /\ d + 1 = 0 - 0
      BY <3>3, <3>4, <3>5, <3>6 DEF Differ
    <3> QED
      BY <1>2, <3>7, TokensBecome
  <2>3. CASE kind = "consumer"
    <3>1. s = semFull
      BY <1>1, <1>2, <2>3 DEF Token
    <3>2. ~ HoldsPlace(t)' /\ HoldsItem(t)'
      BY <1>2, <2>1, <2>3 DEF HoldsPlace, HoldsItem, HasToken
    <3>3. /\ Cardinality(PlaceHolders)' = Cardinality(PlaceHolders) + 0
          /\ Cardinality(ItemHolders)' = Cardinality(ItemHolders) + 1
      BY <1>2, <1>5, <1>6, <3>2, HolderMoves, TokenNumbers
    <3>4. /\ semCount'[semEmpty] = semCount[semEmpty] + 0
          /\ semCount'[semFull] = semCount[semFull] + (0 - 1)
      BY <1>2, <1>4, <2>1, <3>1, TokenNumbers DEF Elsewhere
    <3>5. producedTotal' = producedTotal + 0 /\ consumedTotal' = consumedTotal + 0
      BY DEF Tokens
    <3>6. PICK d \in Int : d = 0 - 1
      OBVIOUS
    <3>7. Differ(0, 0, d, 1, 0, 0) /\ d + 1 = 0 - 0 /\ 0 + 0 = 0 - 0
      BY <3>3, <3>4, <3>5, <3>6 DEF Differ
    <3> QED
      BY <1>2, <3>7, TokensBecome
  <2> QED
    BY <1>2, <2>2, <2>3 DEF Kind
<1> QED
  BY <1>3, <1>7, <1>8
\* t's steps before and after which it holds the same.
LEMMA SteadyTokens ==
  ASSUME Control, Tokens, NEW t \in Tasks, NEW kind, NEW here, NEW next,
         TaskAt(t, kind, here, next), UNCHANGED <<producedTotal, consumedTotal>>,
         \/ here = "token" /\ next = "exited"
         \/ here = "lock" /\ next = "slot" /\ ~ Blocked(t)
         \/ here = "slot" /\ next = "index"
         \/ here = "index" /\ next = "count"
         \/ here = "unlock" /\ next = "signal",
         Elsewhere(semMutex),
         \A u \in Tasks \ {t} : pc[u] # "lock" \/ (Blocked(u)' <=> Blocked(u))
  PROVE  Tokens'
<1>1. here \in TaskLabels \ {"none"} /\ next \in TaskLabels \ {"none"}
  BY DEF TaskLabels
<1>2. pc[t] = here /\ role[t].kind = kind
  BY DEF TaskAt
<1>3. /\ role' = role /\ pc'[t] = next /\ \A u \in Tasks \ {t} : pc'[u] = pc[u]
      /\ Made /\ Made' /\ shellPc \notin {"full", "mutex"}
      /\ UNCHANGED <<semEmpty, semFull, shellPc>>
  BY <1>1, TaskSays
<1>4. \A u \in Tasks \ {t} : /\ HoldsPlace(u)' <=> HoldsPlace(u)
                             /\ HoldsItem(u)' <=> HoldsItem(u)
  BY <1>3, HoldersStay
<1>5. HasToken(t) /\ HasToken(t)'
  BY <1>2, <1>3 DEF HasToken
<1>6. (HoldsPlace(t)' <=> HoldsPlace(t)) /\ (HoldsItem(t)' <=> HoldsItem(t))
  BY <1>2, <1>3, <1>5 DEF HoldsPlace, HoldsItem
<1>7. \A u \in Tasks : /\ HoldsPlace(u)' <=> HoldsPlace(u)
                       /\ HoldsItem(u)' <=> HoldsItem(u)
  BY <1>4, <1>6
<1>8. semCount'[semEmpty] = semCount[semEmpty] /\ semCount'[semFull] = semCount[semFull]
  BY <1>3, TokenNumbers DEF Elsewhere
<1> QED
  BY <1>3, <1>7, <1>8, HoldersKept, TokensSame

LEMMA QuietTokens ==
  ASSUME Control, Tokens, NEW t \in Tasks,
         ProduceSlot(t) \/ ProduceIndex(t) \/ ConsumeSlot(t) \/ ConsumeIndex(t)
  PROVE  Tokens'
<1>1. PICK kind, here, next :
        /\ TaskAt(t, kind, here, next)
        /\ \/ here = "slot" /\ next = "index"
           \/ here = "index" /\ next = "count"
  BY DEF ProduceSlot, ProduceIndex, ConsumeSlot, ConsumeIndex
<1>2. UNCHANGED <<producedTotal, consumedTotal>> /\ UNCHANGED vars
  BY DEF ProduceSlot, ProduceIndex, ConsumeSlot, ConsumeIndex, dataVars
<1>3. Idles
  BY <1>2, KernelKept DEF Control
<1>4. Elsewhere(semMutex) /\ \A u \in Tasks \ {t} : Blocked(u)' <=> Blocked(u)
  BY <1>3 DEF Idles, Elsewhere, Unmoved
<1> QED
  BY <1>1, <1>2, <1>4, SteadyTokens

LEMMA LockTokens ==
  ASSUME Control, Tokens, NEW t \in Tasks, NEW kind, TaskAt(t, kind, "lock", "slot"),
         PRT_SemPend(semMutex, "FOREVER"), UNCHANGED <<producedTotal, consumedTotal>>
  PROVE  Tokens'
<1>1. semMutex \in Sems /\ ~ Blocked(t)
  BY TaskExecutes DEF TaskLabels
<1>2. Elsewhere(semMutex) /\ Unmoved(Tasks \ {t})
  BY <1>1, LockStep, CountsElsewhere
<1> QED
  BY <1>1, <1>2, SteadyTokens DEF Unmoved

LEMMA UnlockTokens ==
  ASSUME Control, Tokens, NEW t \in Tasks, NEW kind, TaskAt(t, kind, "unlock", "signal"),
         PRT_SemPost(semMutex), OS_SEM_COUNT_MAX > 0,
         UNCHANGED <<producedTotal, consumedTotal>>
  PROVE  Tokens'
<1>1. semMutex \in Sems /\ Made
  BY TaskExecutes DEF TaskLabels
<1>2. Keeps(semMutex) \/ \E h \in Tasks \ {t} : Wakes(h, semMutex)
  BY UnlockStep
<1>3. ASSUME Keeps(semMutex) PROVE Tokens'
  <2>1. Elsewhere(semMutex)
    BY <1>1, <1>3, CountsElsewhere
  <2>2. \A u \in Tasks : Blocked(u)' <=> Blocked(u)
    BY <1>3 DEF Keeps, Unmoved
  <2> QED
    BY <2>1, <2>2, SteadyTokens
<1>4. ASSUME NEW h \in Tasks \ {t}, Wakes(h, semMutex) PROVE Tokens'
  <2>1. Elsewhere(semMutex) /\ Unmoved(Tasks \ {h})
    BY <1>1, <1>4, CountsElsewhere
  <2>2. pc[h] # "lock"
    BY <1>1, <1>4, WaitsForHandle DEF Wakes
  <2>3. \A u \in Tasks \ {t} : pc[u] # "lock" \/ (Blocked(u)' <=> Blocked(u))
    BY <2>1, <2>2 DEF Unmoved
  <2> QED
    BY <2>1, <2>3, SteadyTokens
<1> QED
  BY <1>2, <1>3, <1>4

LEMMA ExitTokens ==
  ASSUME Control, Tokens, NEW t \in Tasks, EntryReturns(t)
  PROVE  Tokens'
<1>1. Unmoved(Tasks) /\ semCount' = semCount
  BY ExitStep
<1>2. TaskAt(t, role[t].kind, "token", "exited") /\ UNCHANGED <<producedTotal, consumedTotal>>
  BY DEF EntryReturns, dataVars
<1>3. Elsewhere(semMutex)
  BY <1>1 DEF Elsewhere
<1>4. PICK kind : kind = role[t].kind
  OBVIOUS
<1> QED
  BY <1>1, <1>2, <1>3, <1>4, SteadyTokens DEF Unmoved

\* An item is counted as made: the producer holds an item instead of a place; or as
\* taken: the consumer holds a place instead of an item.
LEMMA CountTokens ==
  ASSUME Control, Tokens, NEW t \in Tasks, ProduceCount(t) \/ ConsumeCount(t)
  PROVE  Tokens'
<1>1. PICK kind : /\ TaskAt(t, kind, "count", "unlock") /\ UNCHANGED vars
                  /\ \/ /\ kind = "producer" /\ producedTotal' = producedTotal + 1
                        /\ consumedTotal' = consumedTotal + 0
                     \/ /\ kind = "consumer" /\ producedTotal' = producedTotal + 0
                        /\ consumedTotal' = consumedTotal + 1
  BY DEF ProduceCount, ConsumeCount, Tokens
<1>2. "count" \in TaskLabels \ {"none"} /\ "unlock" \in TaskLabels \ {"none"}
  BY DEF TaskLabels
<1>3. /\ role' = role /\ pc'[t] = "unlock" /\ \A u \in Tasks \ {t} : pc'[u] = pc[u]
      /\ Made /\ Made' /\ shellPc \notin {"full", "mutex"}
      /\ UNCHANGED <<semEmpty, semFull, shellPc>>
  BY <1>1, <1>2, TaskSays
<1>4. pc[t] = "count" /\ role[t].kind = kind
  BY <1>1 DEF TaskAt
<1>5. Unmoved(Tasks) /\ semCount' = semCount
  BY <1>1, KernelKept DEF Control, Idles
<1>6. \A u \in Tasks \ {t} : /\ HoldsPlace(u)' <=> HoldsPlace(u)
                             /\ HoldsItem(u)' <=> HoldsItem(u)
  BY <1>3, <1>5, HoldersStay DEF Unmoved
<1>7. /\ semCount'[semEmpty] = semCount[semEmpty] + 0
      /\ semCount'[semFull] = semCount[semFull] + 0
  BY <1>3, <1>5, TokenNumbers
<1>8. CASE kind = "producer"
  <2>1. HoldsPlace(t) /\ ~ HoldsItem(t) /\ ~ HoldsPlace(t)' /\ HoldsItem(t)'
    BY <1>3, <1>4, <1>8 DEF HoldsPlace, HoldsItem, HasToken
  <2>2. /\ Cardinality(PlaceHolders)' = Cardinality(PlaceHolders) + (0 - 1)
        /\ Cardinality(ItemHolders)' = Cardinality(ItemHolders) + 1
    BY <1>3, <1>6, <2>1, HolderMoves, TokenNumbers
  <2>3. Differ(0, 0 - 1, 0, 1, 1, 0)
    BY <1>1, <1>7, <1>8, <2>2 DEF Differ
  <2> QED
    BY <1>3, <2>3, TokensBecome
<1>9. CASE kind = "consumer"
  <2>1. HoldsItem(t) /\ ~ HoldsPlace(t) /\ ~ HoldsItem(t)' /\ HoldsPlace(t)'
    BY <1>3, <1>4, <1>9 DEF HoldsPlace, HoldsItem, HasToken
  <2>2. /\ Cardinality(PlaceHolders)' = Cardinality(PlaceHolders) + 1
        /\ Cardinality(ItemHolders)' = Cardinality(ItemHolders) + (0 - 1)
    BY <1>3, <1>6, <2>1, HolderMoves, TokenNumbers
  <2>3. Differ(0, 1, 0, 0 - 1, 0, 1)
    BY <1>1, <1>7, <1>9, <2>2 DEF Differ
  <2> QED
    BY <1>3, <2>3, TokensBecome
<1> QED
  BY <1>1, <1>8, <1>9

\* A semaphore has not reached its maximum while a task is about to post it.
LEMMA CountsFit ==
  ASSUME Control, Tokens, Made, RING_BUF_SIZE <= OS_SEM_COUNT_MAX, NEW t \in Tasks
  PROVE  /\ HoldsPlace(t) => semCount[semEmpty] < OS_SEM_COUNT_MAX
         /\ HoldsItem(t) => semCount[semFull] < OS_SEM_COUNT_MAX
<1>1. PICK e \in Nat, f \in Nat, p \in Nat, i \in Nat, m \in Nat, n \in Nat :
        /\ e = semCount[semEmpty] /\ f = semCount[semFull]
        /\ p = Cardinality(PlaceHolders) /\ i = Cardinality(ItemHolders)
        /\ m = producedTotal /\ n = consumedTotal
  BY TokenNumbers DEF Tokens
<1>2. f + i = m - n /\ e + p = RING_BUF_SIZE - (m - n)
  BY <1>1 DEF Tokens
<1>3. PlaceHolders \in SUBSET Tasks /\ ItemHolders \in SUBSET Tasks
  BY DEF PlaceHolders, ItemHolders
<1>4. HoldsPlace(t) => p # 0
  BY <1>1, <1>3, TaskSets, FS_EmptySet DEF PlaceHolders
<1>5. HoldsItem(t) => i # 0
  BY <1>1, <1>3, TaskSets, FS_EmptySet DEF ItemHolders
<1>6. (p # 0 => e < RING_BUF_SIZE) /\ (i # 0 => f < RING_BUF_SIZE)
  BY <1>2, RingNames
<1> QED
  BY <1>1, <1>4, <1>5, <1>6, RingNames

\* A producer passes its item on.
LEMMA SignalItemTokens ==
  ASSUME Control, Tokens, NEW t \in Tasks, TaskAt(t, "producer", "signal", "token"),
         PRT_SemPost(semFull), RING_BUF_SIZE <= OS_SEM_COUNT_MAX,
         UNCHANGED <<producedTotal, consumedTotal>>
  PROVE  Tokens'
<1>1. "signal" \in TaskLabels \ {"none"} /\ "token" \in TaskLabels \ {"none"}
  BY DEF TaskLabels
<1>2. /\ role' = role /\ pc'[t] = "token" /\ \A u \in Tasks \ {t} : pc'[u] = pc[u]
      /\ Made /\ Made' /\ shellPc \notin {"full", "mutex"}
      /\ UNCHANGED <<semEmpty, semFull, shellPc>>
  BY <1>1, TaskSays
<1>3. pc[t] = "signal" /\ role[t].kind = "producer" /\ semFull \in Sems
  BY <1>2, TokenNumbers DEF TaskAt
<1>4. HoldsItem(t) /\ ~ HoldsPlace(t) /\ ~ HoldsItem(t)' /\ ~ HoldsPlace(t)'
  BY <1>2, <1>3 DEF HoldsPlace, HoldsItem
<1>5. PICK s \in {semEmpty, semFull} : s = semFull
  OBVIOUS
<1>6. Keeps(s) \/ (\E h \in Tasks \ {t} : Wakes(h, s)) \/ semCount[s] >= OS_SEM_COUNT_MAX
  BY <1>5, SignalStep
<1>7. ~ (semCount[semFull] >= OS_SEM_COUNT_MAX)
  BY <1>2, <1>4, CountsFit, TokenNumbers, RingNames
<1>8. ASSUME Keeps(semFull) PROVE Tokens'
  <2>1. Unmoved(Tasks) /\ Elsewhere(semFull)
    BY <1>3, <1>8, CountsElsewhere DEF Keeps
  <2>2. \A u \in Tasks \ {t} : /\ HoldsPlace(u)' <=> HoldsPlace(u)
                               /\ HoldsItem(u)' <=> HoldsItem(u)
    BY <1>2, <2>1, HoldersStay DEF Unmoved
  <2>3. /\ Cardinality(ItemHolders)' = Cardinality(ItemHolders) + (0 - 1)
        /\ Cardinality(PlaceHolders)' = Cardinality(PlaceHolders) + 0
    BY <1>2, <1>4, <2>2, HolderMoves, TokenNumbers
  <2>4. semCount'[semFull] = semCount[semFull] + 1 /\ semCount'[semEmpty] = semCount[semEmpty] + 0
    BY <1>2, <1>8, <2>1, TokenNumbers DEF Keeps, Elsewhere
  <2>5. producedTotal' = producedTotal + 0 /\ consumedTotal' = consumedTotal + 0
    BY DEF Tokens
  <2>6. Differ(0, 0, 1, 0 - 1, 0, 0)
    BY <2>3, <2>4, <2>5 DEF Differ
  <2>7. shellPc' \notin {"full", "mutex"} /\ Made /\ Made' /\ UNCHANGED <<semEmpty, semFull>>
    BY <1>2
  <2> QED
    BY <2>6, <2>7, TokensBecome
<1>9. ASSUME NEW h \in Tasks \ {t}, Wakes(h, semFull) PROVE Tokens'
  <2>1. /\ Blocked(h) /\ ~ Blocked(h)' /\ Unmoved(Tasks \ {h}) /\ semCount' = semCount
        /\ pc[h] = "lock" /\ role[h].kind = "consumer"
    BY <1>2, <1>9, WaitsForHandle DEF Wakes
  <2>2. \A u \in Tasks \ {t, h} : /\ HoldsPlace(u)' <=> HoldsPlace(u)
                                  /\ HoldsItem(u)' <=> HoldsItem(u)
    BY <1>2, <2>1, HoldersStay DEF Unmoved
  <2>3. ~ HoldsItem(h) /\ ~ HoldsPlace(h) /\ HoldsItem(h)' /\ ~ HoldsPlace(h)'
    BY <1>2, <2>1 DEF HoldsPlace, HoldsItem, HasToken
  <2>4. PICK A \in SUBSET Tasks, B \in SUBSET Tasks : A = ItemHolders /\ B = ItemHolders'
    BY DEF ItemHolders
  <2>5. /\ t \in A /\ t \notin B /\ h \in B /\ h \notin A
        /\ \A u \in Tasks \ {t, h} : u \in A <=> u \in B
    BY <1>4, <2>2, <2>3, <2>4 DEF ItemHolders
  <2>6. Cardinality(ItemHolders)' = Cardinality(ItemHolders)
    BY <2>4, <2>5, OneForAnother
  <2>7. PlaceHolders' = PlaceHolders
    BY <1>4, <2>2, <2>3 DEF PlaceHolders
  <2>8. Cardinality(PlaceHolders)' = Cardinality(PlaceHolders)
    BY <2>7
  <2> QED
    BY <1>2, <2>1, <2>6, <2>8, TokensSame
<1> QED
  BY <1>5, <1>6, <1>7, <1>8, <1>9

\* A consumer passes its place on.
LEMMA SignalPlaceTokens ==
  ASSUME Control, Tokens, NEW t \in Tasks, TaskAt(t, "consumer", "signal", "token"),
         PRT_SemPost(semEmpty), RING_BUF_SIZE <= OS_SEM_COUNT_MAX,
         UNCHANGED <<producedTotal, consumedTotal>>
  PROVE  Tokens'
<1>1. "signal" \in TaskLabels \ {"none"} /\ "token" \in TaskLabels \ {"none"}
  BY DEF TaskLabels
<1>2. /\ role' = role /\ pc'[t] = "token" /\ \A u \in Tasks \ {t} : pc'[u] = pc[u]
      /\ Made /\ Made' /\ shellPc \notin {"full", "mutex"}
      /\ UNCHANGED <<semEmpty, semFull, shellPc>>
  BY <1>1, TaskSays
<1>3. pc[t] = "signal" /\ role[t].kind = "consumer" /\ semEmpty \in Sems
  BY <1>2, TokenNumbers DEF TaskAt
<1>4. HoldsPlace(t) /\ ~ HoldsItem(t) /\ ~ HoldsPlace(t)' /\ ~ HoldsItem(t)'
  BY <1>2, <1>3 DEF HoldsPlace, HoldsItem
<1>5. PICK s \in {semEmpty, semFull} : s = semEmpty
  OBVIOUS
<1>6. Keeps(s) \/ (\E h \in Tasks \ {t} : Wakes(h, s)) \/ semCount[s] >= OS_SEM_COUNT_MAX
  BY <1>5, SignalStep
<1>7. ~ (semCount[semEmpty] >= OS_SEM_COUNT_MAX)
  BY <1>2, <1>4, CountsFit, TokenNumbers, RingNames
<1>8. ASSUME Keeps(semEmpty) PROVE Tokens'
  <2>1. Unmoved(Tasks) /\ Elsewhere(semEmpty)
    BY <1>3, <1>8, CountsElsewhere DEF Keeps
  <2>2. \A u \in Tasks \ {t} : /\ HoldsPlace(u)' <=> HoldsPlace(u)
                               /\ HoldsItem(u)' <=> HoldsItem(u)
    BY <1>2, <2>1, HoldersStay DEF Unmoved
  <2>3. /\ Cardinality(PlaceHolders)' = Cardinality(PlaceHolders) + (0 - 1)
        /\ Cardinality(ItemHolders)' = Cardinality(ItemHolders) + 0
    BY <1>2, <1>4, <2>2, HolderMoves, TokenNumbers
  <2>4. semCount'[semEmpty] = semCount[semEmpty] + 1 /\ semCount'[semFull] = semCount[semFull] + 0
    BY <1>2, <1>8, <2>1, TokenNumbers DEF Keeps, Elsewhere
  <2>5. producedTotal' = producedTotal + 0 /\ consumedTotal' = consumedTotal + 0
    BY DEF Tokens
  <2>6. Differ(1, 0 - 1, 0, 0, 0, 0)
    BY <2>3, <2>4, <2>5 DEF Differ
  <2>7. shellPc' \notin {"full", "mutex"} /\ Made /\ Made' /\ UNCHANGED <<semEmpty, semFull>>
    BY <1>2
  <2> QED
    BY <2>6, <2>7, TokensBecome
<1>9. ASSUME NEW h \in Tasks \ {t}, Wakes(h, semEmpty) PROVE Tokens'
  <2>1. /\ Blocked(h) /\ ~ Blocked(h)' /\ Unmoved(Tasks \ {h}) /\ semCount' = semCount
        /\ pc[h] = "lock" /\ role[h].kind = "producer"
    BY <1>2, <1>9, WaitsForHandle DEF Wakes
  <2>2. \A u \in Tasks \ {t, h} : /\ HoldsPlace(u)' <=> HoldsPlace(u)
                                  /\ HoldsItem(u)' <=> HoldsItem(u)
    BY <1>2, <2>1, HoldersStay DEF Unmoved
  <2>3. ~ HoldsPlace(h) /\ ~ HoldsItem(h) /\ HoldsPlace(h)' /\ ~ HoldsItem(h)'
    BY <1>2, <2>1 DEF HoldsPlace, HoldsItem, HasToken
  <2>4. PICK A \in SUBSET Tasks, B \in SUBSET Tasks : A = PlaceHolders /\ B = PlaceHolders'
    BY DEF PlaceHolders
  <2>5. /\ t \in A /\ t \notin B /\ h \in B /\ h \notin A
        /\ \A u \in Tasks \ {t, h} : u \in A <=> u \in B
    BY <1>4, <2>2, <2>3, <2>4 DEF PlaceHolders
  <2>6. Cardinality(PlaceHolders)' = Cardinality(PlaceHolders)
    BY <2>4, <2>5, OneForAnother
  <2>7. ItemHolders' = ItemHolders
    BY <1>4, <2>2, <2>3 DEF ItemHolders
  <2>8. Cardinality(ItemHolders)' = Cardinality(ItemHolders)
    BY <2>7
  <2> QED
    BY <1>2, <2>1, <2>6, <2>8, TokensSame
<1> QED
  BY <1>5, <1>6, <1>7, <1>8, <1>9
LEMMA TakeTokens ==
  ASSUME Control, Tokens, NEW t \in Tasks,
         \/ TakeTokenAndMutex(t, "producer", semEmpty)
         \/ TakeTokenAndMutex(t, "consumer", semFull)
  PROVE  Tokens'
<1>1. UNCHANGED <<producedTotal, consumedTotal>>
  BY DEF TakeTokenAndMutex, dataVars
<1>2. CASE TakeTokenAndMutex(t, "producer", semEmpty)
  <2>1. CASE TaskAt(t, "producer", "token", "lock") /\ PRT_SemPend(semEmpty, "FOREVER")
    <3>1. Token(t) = semEmpty
      BY <2>1, TaskExecutes DEF TaskLabels
    <3> QED
      BY <1>1, <2>1, <3>1, TakeTokenTokens
  <2>2. CASE TaskAt(t, "producer", "lock", "slot") /\ PRT_SemPend(semMutex, "FOREVER")
    BY <1>1, <2>2, LockTokens
  <2> QED
    BY <1>2, <2>1, <2>2 DEF TakeTokenAndMutex
<1>3. CASE TakeTokenAndMutex(t, "consumer", semFull)
  <2>1. CASE TaskAt(t, "consumer", "token", "lock") /\ PRT_SemPend(semFull, "FOREVER")
    <3>1. Token(t) = semFull
      BY <2>1, TaskExecutes DEF TaskLabels
    <3> QED
      BY <1>1, <2>1, <3>1, TakeTokenTokens
  <2>2. CASE TaskAt(t, "consumer", "lock", "slot") /\ PRT_SemPend(semMutex, "FOREVER")
    BY <1>1, <2>2, LockTokens
  <2> QED
    BY <1>3, <2>1, <2>2 DEF TakeTokenAndMutex
<1> QED
  BY <1>2, <1>3

LEMMA GiveTokens ==
  ASSUME Control, Tokens, NEW t \in Tasks, RING_BUF_SIZE <= OS_SEM_COUNT_MAX,
         \/ GiveMutexAndToken(t, "producer", semFull)
         \/ GiveMutexAndToken(t, "consumer", semEmpty)
  PROVE  Tokens'
<1>1. UNCHANGED <<producedTotal, consumedTotal>>
  BY DEF GiveMutexAndToken, dataVars
<1>2. OS_SEM_COUNT_MAX > 0
  BY RingNames
<1>3. CASE GiveMutexAndToken(t, "producer", semFull)
  BY <1>1, <1>2, <1>3, UnlockTokens, SignalItemTokens DEF GiveMutexAndToken
<1>4. CASE GiveMutexAndToken(t, "consumer", semEmpty)
  BY <1>1, <1>2, <1>4, UnlockTokens, SignalPlaceTokens DEF GiveMutexAndToken
<1> QED
  BY <1>3, <1>4

LEMMA RingStepTokens ==
  ASSUME Control, Tokens, [RingNext]_ringVars, DemoFits
  PROVE  Tokens'
<1>1. NumTasks >= 6 /\ NumStacks >= 6 /\ RING_BUF_SIZE <= OS_SEM_COUNT_MAX
  BY DEF DemoFits
<1>2. OS_SEM_COUNT_MAX > 0
  BY <1>1, RingNames
<1>3. CASE (Boot \/ OsUartRxHandle \/ ShellPend \/ ShellRead) /\ UNCHANGED demoVars
  BY <1>3, BootTokens, RxHandleTokens, ShellTokens
<1>4. CASE Commands
  BY <1>1, <1>2, <1>4, StatsTokens, CreateSemsTokens, StartTokens DEF Commands
<1>5. CASE DemoTask
  BY <1>1, <1>5, TakeTokens, GiveTokens, QuietTokens, CountTokens, ExitTokens
     DEF DemoTask, ProducerTaskEntry, ConsumerTaskEntry
<1>6. CASE (Interrupt \/ \E kind \in Kinds : Type(kind)) /\ UNCHANGED demoVars
  BY <1>6, QuietEnvInv, EnvTokens
<1>7. CASE UNCHANGED ringVars
  <2>1. UNCHANGED <<vars, shellPc, demoVars>>
    BY <1>7 DEF ringVars, shellSysVars, shellVars
  <2> QED
    BY <2>1, EnvTokens
<1> QED
  BY <1>3, <1>4, <1>5, <1>6, <1>7 DEF RingNext, RingCode, RingInterrupt

\* Between(kind), the tasks between their two tokens, are those that hold a place or
\* an item.
LEMMA TokensSay ==
  ASSUME Control, Tokens
  PROVE  SlotsAccounted /\ NothingOverwritten
<1>1. ASSUME ~ Made PROVE SlotsAccounted /\ NothingOverwritten
  <2>1. producedTotal = 0 /\ consumedTotal = 0 /\ ~ demoStarted
    BY <1>1 DEF Tokens, Made
  <2>2. 0 - 0 <= RING_BUF_SIZE
    BY RingNames
  <2> QED
    BY <2>1, <2>2 DEF SlotsAccounted, NothingOverwritten
<1>2. ASSUME Made PROVE SlotsAccounted /\ NothingOverwritten
  <2>1. PICK e \in Nat, f \in Nat, p \in Nat, i \in Nat, m \in Nat, n \in Nat :
          /\ e = semCount[semEmpty] /\ f = semCount[semFull]
          /\ p = Cardinality(PlaceHolders) /\ i = Cardinality(ItemHolders)
          /\ m = producedTotal /\ n = consumedTotal
    BY <1>2, TokenNumbers DEF Tokens
  <2>2. f + i = m - n /\ e + p = RING_BUF_SIZE - (m - n)
    BY <1>2, <2>1 DEF Tokens
  <2>3. PICK P \in SUBSET Tasks, I \in SUBSET Tasks, B \in SUBSET Tasks, C \in SUBSET Tasks :
          /\ P = PlaceHolders /\ I = ItemHolders
          /\ B = Between("producer") /\ C = Between("consumer")
    BY DEF PlaceHolders, ItemHolders, Between
  <2>4. \A t \in Tasks : /\ t \in P <=> HoldsPlace(t)
                         /\ t \in I <=> HoldsItem(t)
                         /\ t \in B <=> /\ role[t].kind = "producer" /\ HasToken(t)
                                        /\ pc[t] \in {"lock", "slot", "index", "count",
                                                      "unlock", "signal"}
                         /\ t \in C <=> /\ role[t].kind = "consumer" /\ HasToken(t)
                                        /\ pc[t] \in {"lock", "slot", "index", "count",
                                                      "unlock", "signal"}
    BY <2>3 DEF PlaceHolders, ItemHolders, Between, HasToken
  <2>5. P \cap I = {} /\ B \cap C = {} /\ P \cup I = B \cup C
    BY <2>4 DEF HoldsPlace, HoldsItem, HasToken
  <2>6. /\ IsFiniteSet(P) /\ IsFiniteSet(I) /\ IsFiniteSet(B) /\ IsFiniteSet(C)
        /\ Cardinality(B) \in Nat /\ Cardinality(C) \in Nat
    BY TaskSets
  <2>7. /\ Cardinality(P \cup I) = Cardinality(P) + Cardinality(I) - Cardinality(P \cap I)
        /\ Cardinality(B \cup C) = Cardinality(B) + Cardinality(C) - Cardinality(B \cap C)
    BY <2>6, FS_Union
  <2>8. Cardinality(B) + Cardinality(C) = p + i
    <3>1. Cardinality(P \cap I) = 0 /\ Cardinality(B \cap C) = 0
      BY <2>5, FS_EmptySet
    <3>2. Cardinality(P \cup I) = Cardinality(B \cup C)
      BY <2>5
    <3>3. Cardinality(P) = p /\ Cardinality(I) = i
      BY <2>1, <2>3
    <3>4. p + i - 0 = Cardinality(B) + Cardinality(C) - 0
      BY <2>7, <3>1, <3>2, <3>3
    <3> QED
      BY <2>6, <3>4
  <2>9. e + f + Cardinality(B) + Cardinality(C) = RING_BUF_SIZE /\ f <= m - n
        /\ m - n <= RING_BUF_SIZE
    BY <2>2, <2>6, <2>8, RingNames
  <2> QED
    BY <2>1, <2>3, <2>9 DEF SlotsAccounted, NothingOverwritten
<1> QED
  BY <1>1, <1>2

\* The semaphores' counts and the tasks that hold their tokens are the ring's totals.
THEOREM RingTokens == ASSUME DemoFits PROVE RingSpec => [](Control /\ Tokens)
<1>1. RingInit => Control /\ Tokens
  <2> SUFFICES ASSUME RingInit PROVE Control /\ Tokens
    OBVIOUS
  <2>1. Control /\ ~ Made /\ shellPc = "pend"
    BY RingInitInv
  <2>2. producedTotal = 0 /\ consumedTotal = 0
    BY DEF RingInit
  <2> QED
    BY <2>1, <2>2 DEF Tokens
<1>2. (Control /\ Tokens) /\ [RingNext]_ringVars => (Control /\ Tokens)'
  BY RingStepInv, RingStepTokens
<1> QED
  BY <1>1, <1>2, PTL DEF RingSpec

\* ipc_ring_demo.c:25-26: g_semEmpty counts the empty places and g_semFull the items.
\* Whatever the tasks' priorities, the size of the ring and the number of items, the
\* two counts and the tasks between their two tokens add up to the ring's size, and
\* g_semFull counts no item that is not in the ring.
THEOREM PlacesAndItemsCounted == ASSUME DemoFits PROVE RingSpec => []SlotsAccounted
<1>1. Control /\ Tokens => SlotsAccounted
  BY TokensSay
<1> QED
  BY <1>1, RingTokens, PTL

\* ipc_ring_demo.c:29: no more items are made than there are places: what goes wrong
\* when the demo is made in part and then again cannot go wrong when it fits.
THEOREM PlacesSuffice == ASSUME DemoFits PROVE RingSpec => []NothingOverwritten
<1>1. Control /\ Tokens => NothingOverwritten
  BY TokensSay
<1> QED
  BY <1>1, RingTokens, PTL
-----------------------------------------------------------------------------
(***************************************************************************)
(* What is in the ring.                                                     *)
(***************************************************************************)
Item == [by : 0 .. 2, no : Nat]

\* The place of the n-th item made (or taken), counted from 0.
SlotOf(n) == n % RING_BUF_SIZE

Counting(kind) == \E t \in Tasks : role[t].kind = kind /\ pc[t] = "count"

\* The items t has put or taken.
Done(t) == IF pc[t] \in {"unlock", "signal"} THEN loops[t] + 1 ELSE loops[t]

\* The place of t's role in Starts.
Order(t) == IF role[t].kind = "producer" THEN role[t].no ELSE role[t].no + 2

\* No two tasks have one role.
Named ==
  \A t \in Tasks : role[t].kind # "none" =>
    /\ role[t].no \in 1 .. 2 /\ Order(t) <= Started
    /\ \A u \in Tasks : role[u].kind = role[t].kind /\ role[u].no = role[t].no => u = t

Loops ==
  /\ loops \in [Tasks -> 0 .. PER_TASK]
  /\ \A t \in Tasks : /\ pc[t] = "none" => loops[t] = 0
                      /\ pc[t] \in TaskLabels \ {"none", "token", "exited"} => loops[t] < PER_TASK

\* The counters are those of the tasks.
Totals ==
  /\ perProducer \in [Producers -> Nat] /\ perConsumer \in [Consumers -> Nat]
  /\ producedTotal = perProducer[1] + perProducer[2]
  /\ consumedTotal = perConsumer[1] + perConsumer[2]
  /\ \A t \in Tasks : role[t].kind = "producer" => perProducer[role[t].no] = Done(t)
  /\ \A p \in Producers :
       \/ perProducer[p] = 0
       \/ \E t \in Tasks : role[t].kind = "producer" /\ role[t].no = p

\* The indexes follow the totals, and a step ahead of them while a task is between
\* its two.
Indexes ==
  /\ head = IF Counting("producer") THEN NextSlot(SlotOf(producedTotal)) ELSE SlotOf(producedTotal)
  /\ tail = IF Counting("consumer") THEN NextSlot(SlotOf(consumedTotal)) ELSE SlotOf(consumedTotal)

\* The task in the mutex has written the next item, or has read the oldest.
Slots ==
  /\ ringBuf \in [0 .. RING_BUF_SIZE - 1 -> Item] /\ item \in [Tasks -> Item]
  /\ \A t \in Tasks : pc[t] \in {"index", "count"} =>
       /\ role[t].kind = "producer" =>
            ringBuf[SlotOf(producedTotal)] = [by |-> role[t].no, no |-> loops[t] + 1]
       /\ role[t].kind = "consumer" => item[t] = ringBuf[SlotOf(consumedTotal)]

Buffers == Named /\ Loops /\ Totals /\ Indexes /\ Slots

Window == [i \in 1 .. producedTotal - consumedTotal |-> ringBuf[SlotOf(consumedTotal + i - 1)]]

\* Every item in the ring or taken has been made, and no two in the ring, nor one in
\* the ring and one taken, are the same.
MadeItems == {x \in Item : x.by \in Producers /\ x.no \in 1 .. perProducer[x.by]}

Fresh ==
  /\ taken \in Seq(Item)
  /\ \A i \in 1 .. Len(Window) :
       /\ Window[i] \in MadeItems
       /\ \A j \in 1 .. Len(Window) : Window[i] = Window[j] => i = j
       /\ \A j \in 1 .. Len(taken) : Window[i] # taken[j]
  /\ \A j \in 1 .. Len(taken) : taken[j] \in MadeItems

Stats == [writeIndex : Int, readIndex : Int, produced : Int, consumed : Int,
          perProducer : [Producers -> Nat], perConsumer : [Consumers -> Nat],
          buffer : [0 .. RING_BUF_SIZE - 1 -> Item]]

\* The shell's copy is the ring as it is.
Copied ==
  /\ stats \in Stats
  /\ shellPc \in {"copy2", "unlock"} =>
       /\ stats.writeIndex = head /\ stats.readIndex = tail
       /\ stats.produced = producedTotal /\ stats.consumed = consumedTotal
  /\ shellPc = "unlock" =>
       /\ stats.perProducer = perProducer /\ stats.perConsumer = perConsumer
       /\ stats.buffer = ringBuf

-----------------------------------------------------------------------------
\* Arithmetic of the places.
LEMMA Remainder ==
  ASSUME NEW x \in Nat, NEW S \in Nat \ {0}
  PROVE  \E q \in Nat : \E r \in 0 .. S - 1 : x = (S * q) + r /\ x % S = r
<1>1. x = (S * (x \div S)) + (x % S)
  BY Z3
<1>2. x \div S \in Nat
  BY Z3
<1>3. x % S \in 0 .. S - 1
  OBVIOUS
<1> QED
  BY <1>1, <1>2, <1>3

LEMMA RemainderIs ==
  ASSUME NEW x \in Nat, NEW S \in Nat \ {0}, NEW q \in Nat, NEW r \in 0 .. S - 1,
         x = (S * q) + r
  PROVE  x % S = r
BY Z3

LEMMA SlotsTyped ==
  ASSUME NEW n \in Nat
  PROVE  SlotOf(n) \in 0 .. RING_BUF_SIZE - 1
BY RingNames DEF SlotOf

LEMMA SlotFollows ==
  ASSUME NEW n \in Nat
  PROVE  NextSlot(SlotOf(n)) = SlotOf(n + 1)
<1>1. PICK S \in Nat \ {0} : S = RING_BUF_SIZE
  BY RingNames
<1>2. PICK q \in Nat, r \in 0 .. S - 1 : n = (S * q) + r /\ n % S = r
  BY Remainder
<1>3. PICK x \in Nat, y \in Nat : x = n + 1 /\ y = r + 1
  OBVIOUS
<1>4. CASE y < S
  <2>1. x = (S * q) + y /\ y \in 0 .. S - 1 /\ y = (S * 0) + y
    BY <1>2, <1>3, <1>4, Z3
  <2>2. x % S = y
    BY <2>1, RemainderIs
  <2>3. y % S = y
    BY <2>1, RemainderIs
  <2> QED
    BY <1>1, <1>2, <1>3, <2>2, <2>3 DEF NextSlot, SlotOf
<1>5. CASE y = S
  <2>1. PICK p \in Nat : p = q + 1
    OBVIOUS
  <2>2. x = (S * p) + 0 /\ 0 \in 0 .. S - 1 /\ y = (S * 1) + 0
    BY <1>2, <1>3, <1>5, <2>1, Z3
  <2>3. x % S = 0
    BY <2>2, RemainderIs
  <2>4. y % S = 0
    BY <2>2, RemainderIs
  <2> QED
    BY <1>1, <1>2, <1>3, <2>3, <2>4 DEF NextSlot, SlotOf
<1>6. y < S \/ y = S
  BY <1>3
<1> QED
  BY <1>4, <1>5, <1>6

\* Fewer numbers in a row than there are places have places of their own.
LEMMA SlotsDiffer ==
  ASSUME NEW m \in Nat, NEW n \in Nat, m < n, n - m < RING_BUF_SIZE
  PROVE  SlotOf(m) # SlotOf(n)
<1>1. PICK S \in Nat \ {0} : S = RING_BUF_SIZE
  BY RingNames
<1>2. PICK a \in Nat, r \in 0 .. S - 1 : m = (S * a) + r /\ m % S = r
  BY Remainder
<1>3. PICK b \in Nat, s \in 0 .. S - 1 : n = (S * b) + s /\ n % S = s
  BY Remainder
<1>4. ASSUME r = s PROVE FALSE
  <2>1. ASSUME a < b PROVE (S * a) + S <= S * b
    BY <2>1, Z3
  <2>2. ASSUME b <= a PROVE S * b <= S * a
    BY <2>2, Z3
  <2>3. PICK A \in Int, B \in Int : A = S * a /\ B = S * b
    BY Z3
  <2>4. m = A + r /\ n = B + r /\ (A + S <= B \/ B <= A)
    BY <1>2, <1>3, <1>4, <2>1, <2>2, <2>3
  <2> QED
    BY <1>1, <2>4
<1> QED
  BY <1>1, <1>2, <1>3, <1>4 DEF SlotOf

LEMMA IsAppend ==
  ASSUME NEW T, NEW s \in Seq(T), NEW t \in Seq(T), NEW x \in T, Len(t) = Len(s) + 1,
         \A i \in 1 .. Len(s) : t[i] = s[i], t[Len(s) + 1] = x
  PROVE  t = Append(s, x)
<1>1. /\ Append(s, x) \in Seq(T) /\ Len(Append(s, x)) = Len(s) + 1
      /\ \A i \in 1 .. Len(s) : Append(s, x)[i] = s[i]
      /\ Append(s, x)[Len(s) + 1] = x
  BY AppendProperties
<1>2. Len(s) \in Nat
  BY LenProperties
<1>3. \A i \in 1 .. Len(t) : t[i] = Append(s, x)[i]
  <2> TAKE i \in 1 .. Len(t)
  <2>1. i \in 1 .. Len(s) \/ i = Len(s) + 1
    BY <1>2
  <2> QED
    BY <1>1, <2>1
<1> QED
  BY <1>1, <1>3, SeqEqual

LEMMA IsTail ==
  ASSUME NEW T, NEW s \in Seq(T), NEW t \in Seq(T), Len(s) = Len(t) + 1,
         \A i \in 1 .. Len(t) : t[i] = s[i + 1]
  PROVE  s # << >> /\ t = Tail(s) /\ Head(s) = s[1]
<1>1. Len(t) \in Nat /\ Len(s) \in Nat
  BY LenProperties
<1>2. s # << >>
  BY <1>1, EmptySeq
<1>3. /\ Tail(s) \in Seq(T) /\ Len(Tail(s)) = Len(s) - 1
      /\ \A i \in 1 .. Len(Tail(s)) : Tail(s)[i] = s[i + 1]
  BY <1>2, HeadTailProperties
<1>4. Len(Tail(s)) = Len(t)
  BY <1>1, <1>3
<1>5. t = Tail(s)
  BY <1>3, <1>4, SeqEqual
<1> QED
  BY <1>2, <1>5
-----------------------------------------------------------------------------
\* While a task has the mutex no other is between its slot and its counters.
LEMMA Alone ==
  ASSUME Control, NEW t \in Tasks, NEW kind, NEW here \in {"slot", "index", "count"}, NEW next,
         TaskAt(t, kind, here, next)
  PROVE  \A u \in Tasks \ {t} : pc[u] \notin {"index", "count"}
<1>1. ~ Blocked(t) /\ Labels(t) = here /\ Made
  BY TaskExecutes DEF TaskLabels
<1>2. Inside(t)
  BY <1>1 DEF Inside, MutexLabels
<1>3. \A u \in Tasks \ {t} : ~ Inside(u)
  BY <1>1, <1>2 DEF Control, Mutex
<1> SUFFICES ASSUME NEW u \in Tasks \ {t}, pc[u] \in {"index", "count"} PROVE FALSE
  OBVIOUS
<1>4. u # Shell /\ Labels(u) = pc[u]
  BY RingNames DEF Control, Place, Roles, Labels
<1>5. Blocked(u)
  BY <1>3, <1>4 DEF Inside, MutexLabels
<1>6. Waits(u)
  BY <1>5 DEF Control, Waiters
<1> QED
  BY <1>4, <1>6 DEF Waits, WaitsForRx, WaitsForMutex, WaitsForToken

LEMMA StartedSame ==
  ASSUME UNCHANGED <<demoStarted, starting, shellPc>>
  PROVE  Started' = Started
BY DEF Started

\* Nothing about the ring changes.
LEMMA BuffersSame ==
  ASSUME Control, Buffers, UNCHANGED <<dataVars, role, pc, loops, item>>,
         Made => Started' = Started
  PROVE  Buffers'
<1>1. UNCHANGED <<ringBuf, head, tail, producedTotal, consumedTotal, perProducer, perConsumer>>
  BY DEF dataVars
<1>2. Named'
  <2>1. CASE Made
    BY <2>1 DEF Buffers, Named, Order
  <2>2. CASE ~ Made
    BY <2>2, NoDemo DEF Named
  <2> QED
    BY <2>1, <2>2
<1>3. Loops' /\ Totals'
  BY <1>1 DEF Buffers, Loops, Totals, Done
<1>4. Indexes' /\ Slots'
  BY <1>1 DEF Buffers, Indexes, Slots, Counting, SlotOf, NextSlot
<1> QED
  BY <1>2, <1>3, <1>4 DEF Buffers

LEMMA CreateTaskBuffers ==
  ASSUME Control, Buffers, CreateTask, NumTasks >= 6, NumStacks >= 6
  PROVE  Buffers'
<1>1. /\ \E t \in Tasks \ {Shell} :
           /\ role[t].kind = "none" /\ role' = [role EXCEPT ![t] = Starts[starting]]
           /\ pc' = [pc EXCEPT ![t] = "token"]
  BY CreateTaskInv
<1>2. PICK t \in Tasks \ {Shell} :
        /\ role[t].kind = "none" /\ role' = [role EXCEPT ![t] = Starts[starting]]
        /\ pc' = [pc EXCEPT ![t] = "token"]
  BY <1>1
<1>3. Executing(Shell) /\ shellPc = "create" /\ UNCHANGED <<dataVars, loops, item, demoStarted>>
  BY DEF CreateTask, ShellAt, CommandReturns
<1>4. starting \in 1 .. 4 /\ demoStarted = FALSE /\ prios \in TaskPrios
  BY <1>3 DEF Control, Place, ShellSays, StartLabels
<1>5. shellPc' = "resume" /\ starting' = starting
  <2>1. boot = "done"
    BY <1>3, ShellExecutes
  <2>2. PoolsHaveTask
    BY <1>3, <2>1, PoolsEnough
  <2> QED
    BY <2>2 DEF CreateTask, ShellAt
<1>6. Started = starting - 1 /\ Started' = starting
  BY <1>3, <1>4, <1>5 DEF Started
<1>7. PICK r : r = Starts[starting]
  OBVIOUS
<1>8. /\ r.kind = IF starting <= 2 THEN "producer" ELSE "consumer"
      /\ r.no = IF starting <= 2 THEN starting ELSE starting - 2
  BY <1>4, <1>7, StartsTyped
<1>9. /\ role'[t] = r /\ pc'[t] = "token" /\ pc[t] = "none"
      /\ \A u \in Tasks \ {t} : role'[u] = role[u] /\ pc'[u] = pc[u]
  BY <1>2, <1>7 DEF Control, Place, Roles
<1>10. UNCHANGED <<ringBuf, head, tail, producedTotal, consumedTotal, perProducer, perConsumer>>
  BY <1>3 DEF dataVars
<1>11. \A u \in Tasks \ {t} : role[u].kind \in Kind \cup {"none"} /\ role[u].kind # "none" =>
                               role[u].kind # r.kind \/ role[u].no # r.no
  <2> TAKE u \in Tasks \ {t}
  <2> HAVE role[u].kind \in Kind \cup {"none"} /\ role[u].kind # "none"
  <2>1. role[u].no \in 1 .. 2 /\ Order(u) <= starting - 1
    BY <1>6 DEF Buffers, Named
  <2>2. Order(u) = IF role[u].kind = "producer" THEN role[u].no ELSE role[u].no + 2
    BY DEF Order
  <2>3. ~ (role[u].kind = "producer" /\ r.kind = "producer" /\ role[u].no = r.no)
    BY <1>4, <1>8, <2>1, <2>2
  <2>4. ~ (role[u].kind # "producer" /\ r.kind # "producer" /\ role[u].no = r.no)
    BY <1>4, <1>8, <2>1, <2>2
  <2> QED
    BY <2>3, <2>4
<1>12. Named'
  <2>1. \A u \in Tasks : role[u].kind \in Kind \cup {"none"}
    BY DEF Control, Place, Roles
  <2>2. r.kind \in Kind /\ r.no \in 1 .. 2
    BY <1>4, <1>8 DEF Kind
  <2> SUFFICES ASSUME NEW u \in Tasks, role'[u].kind # "none"
               PROVE  /\ role'[u].no \in 1 .. 2 /\ Order(u)' <= Started'
                      /\ \A v \in Tasks : role'[v].kind = role'[u].kind
                                          /\ role'[v].no = role'[u].no => v = u
    BY DEF Named
  <2>3. CASE u = t
    <3>1. Order(t)' = IF r.kind = "producer" THEN r.no ELSE r.no + 2
      BY <1>9 DEF Order
    <3>2. Order(t)' = starting
      BY <1>4, <1>8, <3>1
    <3>3. Order(t)' <= Started'
      BY <1>4, <1>6, <3>2
    <3>4. \A v \in Tasks \ {t} : ~ (role[v].kind = r.kind /\ role[v].no = r.no)
      BY <1>11, <2>1, <2>2 DEF Kind
    <3> QED
      BY <1>9, <2>2, <2>3, <3>3, <3>4
  <2>4. CASE u # t
    <3>1. role'[u] = role[u] /\ Order(u)' = Order(u)
      BY <1>9, <2>4 DEF Order
    <3>2. /\ role[u].no \in 1 .. 2 /\ Order(u) <= Started
          /\ \A v \in Tasks : role[v].kind = role[u].kind /\ role[v].no = role[u].no => v = u
      BY <3>1 DEF Buffers, Named
    <3>3. Order(u) \in Int
      BY <3>2 DEF Order
    <3>4. Order(u)' <= Started'
      BY <1>4, <1>6, <3>1, <3>2, <3>3
    <3>5. ~ (r.kind = role[u].kind /\ r.no = role[u].no)
      BY <1>11, <2>1, <2>4, <3>1
    <3> QED
      BY <1>9, <3>1, <3>2, <3>4, <3>5
  <2> QED
    BY <2>3, <2>4
<1>13. Loops'
  BY <1>3, <1>9 DEF Buffers, Loops
<1>14. Totals'
  <2>1. loops[t] = 0
    BY <1>9 DEF Buffers, Loops
  <2>2. \A u \in Tasks \ {t} : Done(u)' = Done(u)
    BY <1>3, <1>9 DEF Done
  <2>3. Done(t)' = 0
    BY <1>3, <1>9, <2>1 DEF Done
  <2>4. r.kind = "producer" => r.no \in Producers /\ perProducer[r.no] = 0
    <3>1. ASSUME r.kind = "producer" PROVE r.no \in Producers
      BY <1>4, <1>8, <3>1 DEF Producers
    <3>2. \A u \in Tasks : ~ (role[u].kind = "producer" /\ r.kind = "producer" /\ role[u].no = r.no)
      BY <1>2, <1>11 DEF Kind
    <3> QED
      BY <3>1, <3>2 DEF Buffers, Totals
  <2>5. \A u \in Tasks : role'[u].kind = "producer" => perProducer'[role'[u].no] = Done(u)'
    <3> TAKE u \in Tasks
    <3>1. CASE u = t
      BY <1>9, <1>10, <2>3, <2>4, <3>1
    <3>2. CASE u # t
      BY <1>9, <1>10, <2>2, <3>2 DEF Buffers, Totals
    <3> QED
      BY <3>1, <3>2
  <2>6. \A p \in Producers :
          \/ perProducer'[p] = 0
          \/ \E u \in Tasks : role'[u].kind = "producer" /\ role'[u].no = p
    <3> TAKE p \in Producers
    <3>1. CASE perProducer[p] = 0
      BY <1>10, <3>1
    <3>2. CASE perProducer[p] # 0
      <4>1. PICK u \in Tasks : role[u].kind = "producer" /\ role[u].no = p
        BY <3>2 DEF Buffers, Totals
      <4>2. role'[u] = role[u]
        BY <1>2, <1>9, <4>1
      <4> QED
        BY <4>1, <4>2
    <3> QED
      BY <3>1, <3>2
  <2> QED
    BY <1>10, <2>5, <2>6 DEF Buffers, Totals
<1>15. \A u \in Tasks : /\ pc'[u] \in {"index", "count"} <=> pc[u] \in {"index", "count"}
                        /\ pc'[u] = "count" <=> pc[u] = "count"
                        /\ pc[u] \in {"index", "count"} => role'[u] = role[u]
  BY <1>9
<1>16. \A kind : Counting(kind)' <=> Counting(kind)
  BY <1>15 DEF Counting
<1>17. Indexes'
  BY <1>10, <1>16 DEF Buffers, Indexes, SlotOf, NextSlot
<1>18. Slots'
  BY <1>3, <1>10, <1>15 DEF Buffers, Slots, SlotOf
<1> QED
  BY <1>12, <1>13, <1>14, <1>17, <1>18 DEF Buffers
LEMMA ResumeTaskBuffers ==
  ASSUME Control, Buffers, ResumeTask
  PROVE  Buffers'
<1>1. /\ UNCHANGED <<dataVars, role, pc, loops, item>> /\ shellPc = "resume"
      /\ \/ /\ starting < 4 /\ starting' = starting + 1 /\ demoStarted' = demoStarted
            /\ shellPc' = "create"
         \/ /\ ~ (starting < 4) /\ demoStarted' = TRUE
  <2>1. Len(Starts) = 4
    BY DEF Starts
  <2> QED
    BY <2>1 DEF ResumeTask, ShellAt, CommandReturns, ShellPrompt, taskVars
<1>2. starting \in 1 .. 4 /\ demoStarted = FALSE
  BY <1>1 DEF Control, Place, ShellSays, StartLabels
<1>3. Started = starting
  BY <1>1, <1>2 DEF Started
<1>4. CASE starting < 4
  <2>1. starting' = starting + 1 /\ demoStarted' = FALSE /\ shellPc' = "create"
    BY <1>1, <1>2, <1>4
  <2>2. Started' = starting' - 1
    BY <2>1 DEF Started
  <2>3. Started' = Started
    BY <1>2, <1>3, <2>1, <2>2
  <2> QED
    BY <1>1, <2>3, BuffersSame
<1>5. CASE ~ (starting < 4)
  <2>1. starting = 4 /\ demoStarted' = TRUE
    BY <1>1, <1>2, <1>5
  <2>2. Started' = Started
    BY <1>3, <2>1 DEF Started
  <2> QED
    BY <1>1, <2>2, BuffersSame
<1> QED
  BY <1>4, <1>5

\* The other steps of the shell, the boot and the interrupts.
LEMMA AsideBuffers ==
  ASSUME Control, Buffers, UNCHANGED <<dataVars, role, pc, loops, item, demoStarted, starting>>,
         shellPc' = shellPc \/ {shellPc, shellPc'} \cap {"create", "resume"} = {} \/ ~ Made
  PROVE  Buffers'
<1>1. Made => Started' = Started
  BY DEF Started, Made
<1> QED
  BY <1>1, BuffersSame

\* A step of t that leaves the ring and its place in it alone.
LEMMA PassBuffers ==
  ASSUME Control, Buffers, NEW t \in Tasks, NEW kind, NEW here, NEW next,
         TaskAt(t, kind, here, next), UNCHANGED <<dataVars, item>>,
         \/ here = "token" /\ next = "lock" /\ loops[t] < PER_TASK /\ loops' = loops
         \/ here = "token" /\ next = "exited" /\ loops' = loops
         \/ here = "lock" /\ next = "slot" /\ loops' = loops
         \/ here = "unlock" /\ next = "signal" /\ loops' = loops
         \/ here = "signal" /\ next = "token" /\ loops' = [loops EXCEPT ![t] = @ + 1]
  PROVE  Buffers'
<1>1. here \in TaskLabels \ {"none"} /\ next \in TaskLabels \ {"none"}
  BY DEF TaskLabels
<1>2. /\ role' = role /\ pc'[t] = next /\ \A u \in Tasks \ {t} : pc'[u] = pc[u]
      /\ Started' = Started /\ pc[t] = here
  BY <1>1, TaskSays, StartedSame DEF TaskAt, startVars
<1>3. UNCHANGED <<ringBuf, head, tail, producedTotal, consumedTotal, perProducer, perConsumer>>
  BY DEF dataVars
<1>4. /\ loops \in [Tasks -> 0 .. PER_TASK] /\ loops[t] \in Nat
      /\ pc[t] = "signal" => loops[t] < PER_TASK
      /\ pc[t] # "signal" => loops' = loops
      /\ pc[t] = "signal" => loops' = [loops EXCEPT ![t] = loops[t] + 1]
  BY <1>2, RingNames DEF Buffers, Loops, TaskLabels
<1>5. Named'
  BY <1>2 DEF Buffers, Named, Order
<1>6. \A u \in Tasks \ {t} : loops'[u] = loops[u]
  BY <1>4
<1>7. Loops'
  <2>1. loops' \in [Tasks -> 0 .. PER_TASK]
    <3>1. loops[t] < PER_TASK => loops[t] + 1 \in 0 .. PER_TASK
      BY <1>4, RingNames
    <3> QED
      BY <1>4, <3>1
  <2>2. pc'[t] \in TaskLabels \ {"none", "token", "exited"} => loops'[t] < PER_TASK
    BY <1>2, <1>4 DEF Buffers, Loops, TaskLabels
  <2> QED
    BY <1>1, <1>2, <1>6, <2>1, <2>2 DEF Buffers, Loops
<1>8. Totals'
  <2>1. \A u \in Tasks \ {t} : Done(u)' = Done(u)
    BY <1>2, <1>6 DEF Done
  <2>2. Done(t)' = Done(t)
    BY <1>2, <1>4 DEF Done
  <2>3. \A u \in Tasks : Done(u)' = Done(u)
    BY <2>1, <2>2
  <2> QED
    BY <1>2, <1>3, <2>3 DEF Buffers, Totals
<1>9. \A u \in Tasks : /\ pc'[u] \in {"index", "count"} <=> pc[u] \in {"index", "count"}
                       /\ pc'[u] = "count" <=> pc[u] = "count"
                       /\ pc[u] \in {"index", "count"} => loops'[u] = loops[u]
  BY <1>2, <1>6
<1>10. \A k : Counting(k)' <=> Counting(k)
  BY <1>2, <1>9 DEF Counting
<1>11. Indexes'
  BY <1>3, <1>10 DEF Buffers, Indexes, SlotOf, NextSlot
<1>12. Slots'
  BY <1>2, <1>3, <1>9 DEF Buffers, Slots, SlotOf
<1> QED
  BY <1>5, <1>7, <1>8, <1>11, <1>12 DEF Buffers

\* Where t goes in the mutex: it alone is between its slot and its counters.
LEMMA InMutexBuffers ==
  ASSUME Control, Buffers, NEW t \in Tasks, NEW kind, NEW here \in {"slot", "index", "count"},
         NEW next \in {"index", "count", "unlock"},
         TaskAt(t, kind, here, next), loops' = loops
  PROVE  /\ role' = role /\ pc'[t] = next /\ pc[t] = here /\ role[t].kind = kind
         /\ \A u \in Tasks \ {t} : /\ pc'[u] = pc[u] /\ pc[u] \notin {"index", "count"}
         /\ Named' /\ Loops' /\ loops[t] < PER_TASK /\ loops[t] \in Nat
         /\ role[t].no \in 1 .. 2 /\ kind \in Kind
         /\ \A u \in Tasks \ {t} : role[u].kind = kind => role[u].no # role[t].no
         /\ \A k : Counting(k) <=> here = "count" /\ kind = k
         /\ \A k : Counting(k)' <=> next = "count" /\ kind = k
<1>1. here \in TaskLabels \ {"none"} /\ next \in TaskLabels \ {"none"}
  BY DEF TaskLabels
<1>2. /\ role' = role /\ pc'[t] = next /\ \A u \in Tasks \ {t} : pc'[u] = pc[u]
      /\ Started' = Started /\ pc[t] = here /\ role[t].kind = kind /\ kind \in Kind
  <2>1. /\ pc[t] = here /\ role[t].kind = kind /\ kind \in Kind
    BY <1>1, TaskExecutes
  <2>2. /\ role' = role /\ pc'[t] = next /\ \A u \in Tasks \ {t} : pc'[u] = pc[u]
        /\ UNCHANGED <<demoStarted, shellPc>>
    BY <1>1, TaskSays
  <2>3. UNCHANGED starting
    BY DEF TaskAt, startVars
  <2> QED
    BY <2>1, <2>2, <2>3, StartedSame
<1>3. \A u \in Tasks \ {t} : pc[u] \notin {"index", "count"}
  BY Alone
<1>4. Named'
  BY <1>2 DEF Buffers, Named, Order
<1>5. loops[t] < PER_TASK /\ loops[t] \in Nat
  BY <1>1, <1>2, RingNames DEF Buffers, Loops, TaskLabels
<1>6. Loops'
  BY <1>1, <1>2, <1>5 DEF Buffers, Loops
<1>7. /\ role[t].no \in 1 .. 2
      /\ \A u \in Tasks \ {t} : role[u].kind = kind => role[u].no # role[t].no
  BY <1>2 DEF Buffers, Named, Kind
<1>8. /\ \A k : Counting(k) <=> here = "count" /\ kind = k
      /\ \A k : Counting(k)' <=> next = "count" /\ kind = k
  BY <1>2, <1>3 DEF Counting
<1> QED
  BY <1>2, <1>3, <1>4, <1>5, <1>6, <1>7, <1>8


LEMMA ProduceSlotBuffers ==
  ASSUME Control, Buffers, NEW t \in Tasks, ProduceSlot(t)
  PROVE  /\ Buffers' /\ producedTotal \in Nat /\ head = SlotOf(producedTotal)
         /\ \A i \in 0 .. RING_BUF_SIZE - 1 :
              i # SlotOf(producedTotal) => ringBuf'[i] = ringBuf[i]
<1>1. /\ TaskAt(t, "producer", "slot", "index") /\ loops' = loops
      /\ ringBuf' = [ringBuf EXCEPT ![head] = [by |-> role[t].no, no |-> loops[t] + 1]]
      /\ UNCHANGED <<head, tail, producedTotal, consumedTotal, perProducer, perConsumer, item>>
  BY DEF ProduceSlot, TaskAt
<1>2. /\ role' = role /\ pc'[t] = "index" /\ pc[t] = "slot" /\ role[t].kind = "producer"
      /\ \A u \in Tasks \ {t} : /\ pc'[u] = pc[u] /\ pc[u] \notin {"index", "count"}
      /\ Named' /\ Loops' /\ loops[t] < PER_TASK /\ loops[t] \in Nat
      /\ role[t].no \in 1 .. 2
      /\ \A k : ~ Counting(k) /\ ~ Counting(k)'
  BY <1>1, InMutexBuffers
<1>3. /\ producedTotal \in Nat /\ head = SlotOf(producedTotal)
      /\ head \in 0 .. RING_BUF_SIZE - 1
      /\ ringBuf \in [0 .. RING_BUF_SIZE - 1 -> Item]
  <2>1. producedTotal \in Nat
    BY DEF Buffers, Totals, Producers
  <2> QED
    BY <1>2, <2>1, SlotsTyped DEF Buffers, Indexes, Slots
<1>4. [by |-> role[t].no, no |-> loops[t] + 1] \in Item
  BY <1>2 DEF Item
<1>5. Totals'
  BY <1>1, <1>2 DEF Buffers, Totals, Done
<1>6. Indexes'
  BY <1>1, <1>2 DEF Buffers, Indexes, SlotOf
<1>7. /\ ringBuf' \in [0 .. RING_BUF_SIZE - 1 -> Item]
      /\ ringBuf'[head] = [by |-> role[t].no, no |-> loops[t] + 1]
      /\ \A i \in 0 .. RING_BUF_SIZE - 1 : i # head => ringBuf'[i] = ringBuf[i]
  BY <1>1, <1>3, <1>4
<1>8. Slots'
  <2>1. SlotOf(producedTotal)' = SlotOf(producedTotal)
    BY <1>1 DEF SlotOf
  <2> SUFFICES ASSUME NEW u \in Tasks, pc'[u] \in {"index", "count"}
               PROVE  /\ role'[u].kind = "producer" =>
                           ringBuf'[SlotOf(producedTotal)'] = [by |-> role'[u].no, no |-> loops'[u] + 1]
                      /\ role'[u].kind = "consumer" => item'[u] = ringBuf'[SlotOf(consumedTotal)']
    <3>1. item' \in [Tasks -> Item]
      BY <1>1 DEF Buffers, Slots
    <3> QED
      BY <1>7, <3>1 DEF Slots
  <2>2. u = t
    BY <1>2
  <2> QED
    BY <1>1, <1>2, <1>3, <1>7, <2>1, <2>2
<1> QED
  BY <1>2, <1>3, <1>5, <1>6, <1>7, <1>8 DEF Buffers

LEMMA ConsumeSlotBuffers ==
  ASSUME Control, Buffers, NEW t \in Tasks, ConsumeSlot(t)
  PROVE  Buffers'
<1>1. /\ TaskAt(t, "consumer", "slot", "index") /\ loops' = loops
      /\ item' = [item EXCEPT ![t] = ringBuf[tail]]
      /\ UNCHANGED <<ringBuf, head, tail, producedTotal, consumedTotal, perProducer, perConsumer>>
  BY DEF ConsumeSlot, TaskAt, dataVars
<1>2. /\ role' = role /\ pc'[t] = "index" /\ pc[t] = "slot" /\ role[t].kind = "consumer"
      /\ \A u \in Tasks \ {t} : /\ pc'[u] = pc[u] /\ pc[u] \notin {"index", "count"}
      /\ Named' /\ Loops'
      /\ \A k : ~ Counting(k) /\ ~ Counting(k)'
  BY <1>1, InMutexBuffers
<1>3. tail = SlotOf(consumedTotal)
  BY <1>2 DEF Buffers, Indexes
<1>4. Totals'
  BY <1>1, <1>2 DEF Buffers, Totals, Done
<1>5. Indexes'
  BY <1>1, <1>2 DEF Buffers, Indexes, SlotOf
<1>6. /\ item' \in [Tasks -> Item] /\ item'[t] = ringBuf[tail]
      /\ ringBuf \in [0 .. RING_BUF_SIZE - 1 -> Item]
  <2>1. consumedTotal \in Nat
    BY DEF Buffers, Totals, Consumers
  <2>2. tail \in 0 .. RING_BUF_SIZE - 1
    BY <1>3, <2>1, SlotsTyped
  <2> QED
    BY <1>1, <2>2 DEF Buffers, Slots
<1>7. Slots'
  <2>1. SlotOf(consumedTotal)' = SlotOf(consumedTotal)
    BY <1>1 DEF SlotOf
  <2> SUFFICES ASSUME NEW u \in Tasks, pc'[u] \in {"index", "count"}
               PROVE  /\ role'[u].kind = "producer" =>
                           ringBuf'[SlotOf(producedTotal)'] = [by |-> role'[u].no, no |-> loops'[u] + 1]
                      /\ role'[u].kind = "consumer" => item'[u] = ringBuf'[SlotOf(consumedTotal)']
    BY <1>1, <1>6 DEF Slots
  <2>2. u = t
    BY <1>2
  <2> QED
    BY <1>1, <1>2, <1>3, <1>6, <2>1, <2>2
<1> QED
  BY <1>2, <1>4, <1>5, <1>7 DEF Buffers

LEMMA IndexBuffers ==
  ASSUME Control, Buffers, NEW t \in Tasks, ProduceIndex(t) \/ ConsumeIndex(t)
  PROVE  Buffers'
<1>1. PICK kind : /\ TaskAt(t, kind, "index", "count") /\ loops' = loops
                  /\ \/ kind = "producer" /\ head' = NextSlot(head) /\ tail' = tail
                     \/ kind = "consumer" /\ tail' = NextSlot(tail) /\ head' = head
  BY DEF ProduceIndex, ConsumeIndex
<1>2. UNCHANGED <<ringBuf, producedTotal, consumedTotal, perProducer, perConsumer, item>>
  BY DEF ProduceIndex, ConsumeIndex
<1>3. /\ role' = role /\ pc'[t] = "count" /\ pc[t] = "index" /\ role[t].kind = kind
      /\ \A u \in Tasks \ {t} : /\ pc'[u] = pc[u] /\ pc[u] \notin {"index", "count"}
      /\ Named' /\ Loops'
      /\ \A k : ~ Counting(k)
      /\ \A k : Counting(k)' <=> kind = k
  BY <1>1, InMutexBuffers
<1>4. Totals'
  BY <1>1, <1>2, <1>3 DEF Buffers, Totals, Done
<1>5. Indexes'
  BY <1>1, <1>2, <1>3 DEF Buffers, Indexes, SlotOf, NextSlot
<1>6. Slots'
  <2>1. /\ SlotOf(consumedTotal)' = SlotOf(consumedTotal)
        /\ SlotOf(producedTotal)' = SlotOf(producedTotal)
    BY <1>2 DEF SlotOf
  <2>2. \A u \in Tasks : pc'[u] \in {"index", "count"} => pc[u] \in {"index", "count"}
    BY <1>3
  <2> QED
    BY <1>1, <1>2, <1>3, <2>1, <2>2 DEF Buffers, Slots
<1> QED
  BY <1>3, <1>4, <1>5, <1>6 DEF Buffers

LEMMA ProduceCountBuffers ==
  ASSUME Control, Buffers, NEW t \in Tasks, ProduceCount(t)
  PROVE  /\ Buffers' /\ producedTotal \in Nat
         /\ ringBuf[SlotOf(producedTotal)] = [by |-> role[t].no, no |-> loops[t] + 1]
         /\ role[t].no \in Producers /\ perProducer[role[t].no] = loops[t]
         /\ loops[t] \in Nat /\ loops[t] < PER_TASK
<1>1. /\ TaskAt(t, "producer", "count", "unlock") /\ loops' = loops
      /\ producedTotal' = producedTotal + 1
      /\ perProducer' = [perProducer EXCEPT ![role[t].no] = @ + 1]
      /\ UNCHANGED <<ringBuf, head, tail, consumedTotal, perConsumer, item>>
  BY DEF ProduceCount
<1>2. /\ role' = role /\ pc'[t] = "unlock" /\ pc[t] = "count" /\ role[t].kind = "producer"
      /\ \A u \in Tasks \ {t} : /\ pc'[u] = pc[u] /\ pc[u] \notin {"index", "count"}
      /\ Named' /\ Loops' /\ loops[t] < PER_TASK /\ loops[t] \in Nat
      /\ role[t].no \in 1 .. 2
      /\ \A u \in Tasks \ {t} : role[u].kind = "producer" => role[u].no # role[t].no
      /\ Counting("producer") /\ ~ Counting("consumer") /\ \A k : ~ Counting(k)'
  BY <1>1, InMutexBuffers
<1>3. /\ perProducer \in [Producers -> Nat] /\ role[t].no \in Producers
      /\ perProducer[1] \in Nat /\ perProducer[2] \in Nat /\ producedTotal \in Nat
      /\ producedTotal = perProducer[1] + perProducer[2]
      /\ perProducer[role[t].no] = loops[t]
  BY <1>2 DEF Buffers, Totals, Producers, Done
<1>4. ringBuf[SlotOf(producedTotal)] = [by |-> role[t].no, no |-> loops[t] + 1]
  BY <1>2 DEF Buffers, Slots
<1>5. Totals'
  <2>1. perProducer' \in [Producers -> Nat]
    BY <1>1, <1>3
  <2>2. /\ perProducer'[role[t].no] = loops[t] + 1
        /\ \A p \in Producers \ {role[t].no} : perProducer'[p] = perProducer[p]
    BY <1>1, <1>3
  <2>3. producedTotal' = perProducer'[1] + perProducer'[2]
    <3>1. PICK a \in Nat, b \in Nat : a = perProducer[1] /\ b = perProducer[2]
      BY <1>3
    <3>2. producedTotal' = (a + b) + 1
      BY <1>1, <1>3, <3>1
    <3>3. CASE role[t].no = 1
      <4>1. perProducer'[1] = a + 1 /\ perProducer'[2] = b
        BY <1>3, <2>2, <3>1, <3>3 DEF Producers
      <4> QED
        BY <3>2, <4>1
    <3>4. CASE role[t].no = 2
      <4>1. perProducer'[1] = a /\ perProducer'[2] = b + 1
        BY <1>3, <2>2, <3>1, <3>4 DEF Producers
      <4> QED
        BY <3>2, <4>1
    <3> QED
      BY <1>2, <3>3, <3>4
  <2>4. \A u \in Tasks : role'[u].kind = "producer" => perProducer'[role'[u].no] = Done(u)'
    <3> SUFFICES ASSUME NEW u \in Tasks, role'[u].kind = "producer"
                 PROVE  perProducer'[role'[u].no] = Done(u)'
      OBVIOUS
    <3>1. CASE u = t
      BY <1>1, <1>2, <2>2, <3>1 DEF Done
    <3>2. CASE u # t
      <4>1. Done(u)' = Done(u) /\ role'[u] = role[u]
        BY <1>1, <1>2, <3>2 DEF Done
      <4>2. role[u].kind = "producer" /\ role[u].no \in Producers \ {role[t].no}
        BY <1>2, <3>2, <4>1 DEF Buffers, Named, Producers
      <4>3. perProducer[role[u].no] = Done(u)
        BY <4>2 DEF Buffers, Totals
      <4> QED
        BY <2>2, <4>1, <4>2, <4>3
    <3> QED
      BY <3>1, <3>2
  <2>5. \A p \in Producers :
          \/ perProducer'[p] = 0
          \/ \E u \in Tasks : role'[u].kind = "producer" /\ role'[u].no = p
    <3> SUFFICES ASSUME NEW p \in Producers, p # role[t].no
                 PROVE  \/ perProducer'[p] = 0
                        \/ \E u \in Tasks : role'[u].kind = "producer" /\ role'[u].no = p
      BY <1>2
    <3>1. perProducer'[p] = perProducer[p]
      BY <2>2
    <3> QED
      BY <1>2, <3>1 DEF Buffers, Totals
  <2> QED
    BY <1>1, <2>1, <2>3, <2>4, <2>5 DEF Buffers, Totals
<1>6. Indexes'
  <2>1. head = NextSlot(SlotOf(producedTotal)) /\ tail = SlotOf(consumedTotal)
    BY <1>2 DEF Buffers, Indexes
  <2>2. head = SlotOf(producedTotal + 1)
    BY <1>3, <2>1, SlotFollows
  <2>3. head' = SlotOf(producedTotal)' /\ tail' = SlotOf(consumedTotal)'
    BY <1>1, <2>1, <2>2 DEF SlotOf
  <2> QED
    BY <1>2, <2>3 DEF Indexes
<1>7. Slots'
  <2>1. \A u \in Tasks : pc'[u] \notin {"index", "count"}
    BY <1>2
  <2> QED
    BY <1>1, <2>1 DEF Buffers, Slots
<1> QED
  BY <1>2, <1>3, <1>4, <1>5, <1>6, <1>7 DEF Buffers

LEMMA ConsumeCountBuffers ==
  ASSUME Control, Buffers, NEW t \in Tasks, ConsumeCount(t)
  PROVE  Buffers' /\ item[t] = ringBuf[SlotOf(consumedTotal)]
<1>1. /\ TaskAt(t, "consumer", "count", "unlock") /\ loops' = loops
      /\ consumedTotal' = consumedTotal + 1
      /\ perConsumer' = [perConsumer EXCEPT ![role[t].no] = @ + 1]
      /\ UNCHANGED <<ringBuf, head, tail, producedTotal, perProducer, item>>
  BY DEF ConsumeCount
<1>2. /\ role' = role /\ pc'[t] = "unlock" /\ pc[t] = "count" /\ role[t].kind = "consumer"
      /\ \A u \in Tasks \ {t} : /\ pc'[u] = pc[u] /\ pc[u] \notin {"index", "count"}
      /\ Named' /\ Loops'
      /\ role[t].no \in 1 .. 2
      /\ Counting("consumer") /\ ~ Counting("producer") /\ \A k : ~ Counting(k)'
  BY <1>1, InMutexBuffers
<1>3. /\ perConsumer \in [Consumers -> Nat] /\ role[t].no \in Consumers
      /\ perConsumer[1] \in Nat /\ perConsumer[2] \in Nat /\ consumedTotal \in Nat
      /\ consumedTotal = perConsumer[1] + perConsumer[2]
  BY <1>2 DEF Buffers, Totals, Consumers
<1>4. item[t] = ringBuf[SlotOf(consumedTotal)]
  BY <1>2 DEF Buffers, Slots
<1>5. Totals'
  <2>1. perConsumer' \in [Consumers -> Nat]
    BY <1>1, <1>3
  <2>2. /\ perConsumer'[role[t].no] = perConsumer[role[t].no] + 1
        /\ \A c \in Consumers \ {role[t].no} : perConsumer'[c] = perConsumer[c]
    BY <1>1, <1>3
  <2>3. consumedTotal' = perConsumer'[1] + perConsumer'[2]
    <3>1. PICK a \in Nat, b \in Nat : a = perConsumer[1] /\ b = perConsumer[2]
      BY <1>3
    <3>2. consumedTotal' = (a + b) + 1
      BY <1>1, <1>3, <3>1
    <3>3. CASE role[t].no = 1
      <4>1. perConsumer'[1] = a + 1 /\ perConsumer'[2] = b
        BY <1>3, <2>2, <3>1, <3>3 DEF Consumers
      <4> QED
        BY <3>2, <4>1
    <3>4. CASE role[t].no = 2
      <4>1. perConsumer'[1] = a /\ perConsumer'[2] = b + 1
        BY <1>3, <2>2, <3>1, <3>4 DEF Consumers
      <4> QED
        BY <3>2, <4>1
    <3> QED
      BY <1>2, <3>3, <3>4
  <2>4. \A u \in Tasks : role'[u].kind = "producer" => Done(u)' = Done(u)
    BY <1>1, <1>2 DEF Done
  <2> QED
    BY <1>1, <1>2, <2>1, <2>3, <2>4 DEF Buffers, Totals
<1>6. Indexes'
  <2>1. tail = NextSlot(SlotOf(consumedTotal)) /\ head = SlotOf(producedTotal)
    BY <1>2 DEF Buffers, Indexes
  <2>2. tail = SlotOf(consumedTotal + 1)
    BY <1>3, <2>1, SlotFollows
  <2>3. head' = SlotOf(producedTotal)' /\ tail' = SlotOf(consumedTotal)'
    BY <1>1, <2>1, <2>2 DEF SlotOf
  <2> QED
    BY <1>2, <2>3 DEF Indexes
<1>7. Slots'
  <2>1. \A u \in Tasks : pc'[u] \notin {"index", "count"}
    BY <1>2
  <2> QED
    BY <1>1, <2>1 DEF Buffers, Slots
<1> QED
  BY <1>2, <1>4, <1>5, <1>6, <1>7 DEF Buffers
LEMMA RingStepBuffers ==
  ASSUME Control, Buffers, [RingNext]_ringVars, DemoFits
  PROVE  Buffers'
<1>1. NumTasks >= 6 /\ NumStacks >= 6 /\ RING_BUF_SIZE <= OS_SEM_COUNT_MAX
  BY DEF DemoFits
<1>2. ASSUME UNCHANGED demoVars
      PROVE  UNCHANGED <<dataVars, role, pc, loops, item, demoStarted, starting>>
  BY <1>2 DEF demoVars, startVars
<1>3. CASE (Boot \/ OsUartRxHandle \/ ShellPend \/ ShellRead) /\ UNCHANGED demoVars
  <2>1. CASE Boot
    BY <1>2, <1>3, <2>1, BootInv, AsideBuffers
  <2>2. CASE OsUartRxHandle
    BY <1>2, <1>3, <2>2, RxHandleInv, AsideBuffers
  <2>3. CASE ShellPend \/ ShellRead
    <3>1. shellPc \in {"pend", "read"} /\ shellPc' \in {"read", "dispatch", "pend"}
      BY <2>3 DEF ShellPend, ShellRead
    <3>2. {shellPc, shellPc'} \cap {"create", "resume"} = {}
      BY <3>1
    <3> QED
      BY <1>2, <1>3, <3>2, AsideBuffers
  <2> QED
    BY <1>3, <2>1, <2>2, <2>3
<1>4. CASE IpcStart \/ GetStats \/ GetStatsLock \/ GetStatsCopy \/ GetStatsUnlock
  <2>1. UNCHANGED <<dataVars, role, pc, loops, item, demoStarted, starting>>
    BY <1>4 DEF IpcStart, GetStats, GetStatsLock, GetStatsCopy, GetStatsUnlock, demoVars, startVars
  <2>2. /\ shellPc \in {"dispatch", "lock", "copy1", "copy2", "unlock"}
        /\ shellPc' \in {"pend", "empty", "lock", "copy1", "copy2", "unlock"}
    BY <1>4 DEF IpcStart, GetStats, GetStatsCopy, GetStatsLock, GetStatsUnlock, ShellAt,
                CommandReturns, ShellPrompt
  <2>3. {shellPc, shellPc'} \cap {"create", "resume"} = {}
    BY <2>2
  <2> QED
    BY <2>1, <2>3, AsideBuffers
<1>5. CASE CreateSems
  <2>1. UNCHANGED <<dataVars, role, pc, loops, item, demoStarted, starting>>
    BY <1>5 DEF CreateSems, CreateSem, taskVars
  <2> QED
    BY <1>1, <1>5, <2>1, CreateSemsInv, AsideBuffers
<1>6. CASE CreateTask \/ ResumeTask
  BY <1>1, <1>6, CreateTaskBuffers, ResumeTaskBuffers
<1>7. CASE DemoTask
  <2>1. PICK t \in Tasks : ProducerTaskEntry(t) \/ ConsumerTaskEntry(t) \/ EntryReturns(t)
    BY <1>7 DEF DemoTask
  <2>2. ASSUME NEW kind, NEW token, TakeTokenAndMutex(t, kind, token) PROVE Buffers'
    BY <2>2, PassBuffers DEF TakeTokenAndMutex
  <2>3. ASSUME NEW kind, NEW token, GiveMutexAndToken(t, kind, token) PROVE Buffers'
    BY <2>3, PassBuffers DEF GiveMutexAndToken
  <2>4. CASE EntryReturns(t)
    <3>1. PICK kind : kind = role[t].kind
      OBVIOUS
    <3> QED
      BY <2>4, <3>1, PassBuffers DEF EntryReturns
  <2> QED
    BY <2>1, <2>2, <2>3, <2>4, ProduceSlotBuffers, ConsumeSlotBuffers, IndexBuffers,
       ProduceCountBuffers, ConsumeCountBuffers DEF ProducerTaskEntry, ConsumerTaskEntry
<1>8. CASE (Interrupt \/ \E kind \in Kinds : Type(kind)) /\ UNCHANGED demoVars
  BY <1>2, <1>8, QuietEnvInv, AsideBuffers
<1>9. CASE UNCHANGED ringVars
  <2>1. UNCHANGED demoVars /\ UNCHANGED shellPc
    BY <1>9 DEF ringVars, shellSysVars, shellVars
  <2> QED
    BY <1>2, <2>1, AsideBuffers
<1> QED
  BY <1>3, <1>4, <1>5, <1>6, <1>7, <1>8, <1>9 DEF RingNext, RingCode, RingInterrupt, Commands

-----------------------------------------------------------------------------
(***************************************************************************)
(* The ring implements the bounded buffer.                                  *)
(***************************************************************************)
\* The ring has a free place while a task holds one, and an item likewise.
LEMMA RoomInRing ==
  ASSUME Control, Tokens
  PROVE  /\ producedTotal \in Nat /\ consumedTotal \in Nat
         /\ producedTotal - consumedTotal \in 0 .. RING_BUF_SIZE
         /\ \A t \in Tasks :
              /\ Made /\ HoldsPlace(t) => producedTotal - consumedTotal < RING_BUF_SIZE
              /\ Made /\ HoldsItem(t) => producedTotal - consumedTotal > 0
<1>1. producedTotal \in Nat /\ consumedTotal \in Nat
  BY DEF Tokens
<1>2. CASE ~ Made
  <2>1. producedTotal = 0 /\ consumedTotal = 0
    BY <1>2 DEF Tokens
  <2>2. producedTotal - consumedTotal \in 0 .. RING_BUF_SIZE
    BY <2>1, RingNames
  <2> QED
    BY <1>1, <1>2, <2>2
<1>3. CASE Made
  <2>1. PICK e \in Nat, f \in Nat, p \in Nat, i \in Nat, m \in Nat, n \in Nat :
          /\ e = semCount[semEmpty] /\ f = semCount[semFull]
          /\ p = Cardinality(PlaceHolders) /\ i = Cardinality(ItemHolders)
          /\ m = producedTotal /\ n = consumedTotal
    BY <1>3, TokenNumbers DEF Tokens
  <2>2. f + i = m - n /\ e + p = RING_BUF_SIZE - (m - n)
    BY <1>3, <2>1 DEF Tokens
  <2>3. m - n \in 0 .. RING_BUF_SIZE
    BY <2>2, RingNames
  <2>4. PlaceHolders \in SUBSET Tasks /\ ItemHolders \in SUBSET Tasks
    BY DEF PlaceHolders, ItemHolders
  <2>5. ASSUME NEW t \in Tasks, HoldsPlace(t) PROVE m - n < RING_BUF_SIZE
    <3>1. p # 0
      BY <2>1, <2>4, <2>5, TaskSets, FS_EmptySet DEF PlaceHolders
    <3> QED
      BY <2>2, <3>1, RingNames
  <2>6. ASSUME NEW t \in Tasks, HoldsItem(t) PROVE m - n > 0
    <3>1. i # 0
      BY <2>1, <2>4, <2>6, TaskSets, FS_EmptySet DEF ItemHolders
    <3> QED
      BY <2>2, <3>1
  <2> QED
    BY <1>1, <2>1, <2>3, <2>5, <2>6
<1> QED
  BY <1>2, <1>3

WindowSays ==
  /\ Window \in Seq(Item) /\ Len(Window) = producedTotal - consumedTotal
  /\ Len(Window) \in Nat
  /\ \A i \in 1 .. Len(Window) : /\ Window[i] = ringBuf[SlotOf(consumedTotal + i - 1)]
                                 /\ consumedTotal + i - 1 \in Nat

LEMMA WindowTyped ==
  ASSUME Control, Tokens, Buffers
  PROVE  WindowSays
<1>1. PICK k \in Nat : k = producedTotal - consumedTotal
  BY RoomInRing
<1>2. consumedTotal \in Nat
  BY RoomInRing
<1>3. \A i \in 1 .. k : consumedTotal + i - 1 \in Nat
  BY <1>2
<1>4. ringBuf \in [0 .. RING_BUF_SIZE - 1 -> Item]
  BY DEF Buffers, Slots
<1>5. \A i \in 1 .. k : ringBuf[SlotOf(consumedTotal + i - 1)] \in Item
  BY <1>3, <1>4, SlotsTyped
<1>6. Window = [i \in 1 .. k |-> ringBuf[SlotOf(consumedTotal + i - 1)]]
  BY <1>1 DEF Window
<1>7. Window \in [1 .. k -> Item]
  BY <1>5, <1>6
<1>8. Window \in Seq(Item)
  BY <1>7, SeqDef
<1>9. DOMAIN Window = 1 .. k
  BY <1>7
<1>10. Len(Window) = k
  BY <1>8, <1>9, LenProperties
<1> QED
  BY <1>1, <1>3, <1>6, <1>8, <1>10 DEF WindowSays

\* The same of the next state.
LEMMA WindowNext == Control' /\ Tokens' /\ Buffers' => WindowSays'
<1>1. Control /\ Tokens /\ Buffers => WindowSays
  BY WindowTyped
<1> QED
  BY <1>1, PTL
\* A producer's counters put the item in its place at the end.
LEMMA PutWindow ==
  ASSUME Control, Tokens, Buffers, Tokens', Control', Buffers',
         NEW t \in Tasks, ProduceCount(t)
  PROVE  /\ role[t].no \in Producers /\ perProducer[role[t].no] < PER_TASK
         /\ perProducer[role[t].no] \in Nat
         /\ Len(Window) < RING_BUF_SIZE
         /\ Window' = Append(Window, [by |-> role[t].no, no |-> perProducer[role[t].no] + 1])
<1>1. /\ TaskAt(t, "producer", "count", "unlock")
      /\ producedTotal' = producedTotal + 1 /\ UNCHANGED <<ringBuf, consumedTotal>>
  BY DEF ProduceCount
<1>2. Made /\ HoldsPlace(t)
  BY <1>1, TaskExecutes DEF HoldsPlace, HasToken, TaskLabels
<1>3. PICK x : x = [by |-> role[t].no, no |-> perProducer[role[t].no] + 1]
  OBVIOUS
<1>4. /\ ringBuf[SlotOf(producedTotal)] = x /\ x \in Item
      /\ role[t].no \in Producers /\ perProducer[role[t].no] < PER_TASK
      /\ perProducer[role[t].no] \in Nat
  <2>1. /\ ringBuf[SlotOf(producedTotal)] = [by |-> role[t].no, no |-> loops[t] + 1]
        /\ role[t].no \in Producers /\ perProducer[role[t].no] = loops[t]
        /\ loops[t] \in Nat /\ loops[t] < PER_TASK
    BY ProduceCountBuffers
  <2>2. x = [by |-> role[t].no, no |-> loops[t] + 1]
    BY <1>3, <2>1
  <2>3. x \in Item
    BY <2>1, <2>2 DEF Item, Producers
  <2> QED
    BY <2>1, <2>2, <2>3
<1>5. PICK m \in Nat, n \in Nat, k \in Nat :
         m = producedTotal /\ n = consumedTotal /\ k = m - n /\ k < RING_BUF_SIZE
  BY <1>2, RoomInRing
<1>6. /\ Window \in Seq(Item) /\ Len(Window) = k
      /\ \A i \in 1 .. k : Window[i] = ringBuf[SlotOf(n + i - 1)]
  BY <1>5, WindowTyped DEF WindowSays
<1>7. /\ Window' \in Seq(Item) /\ Len(Window') = producedTotal' - consumedTotal'
      /\ \A i \in 1 .. Len(Window') : Window'[i] = ringBuf'[SlotOf(consumedTotal' + i - 1)]
  BY WindowNext DEF WindowSays, SlotOf
<1>8. Len(Window') = k + 1
  BY <1>1, <1>5, <1>7
<1>9. \A i \in 1 .. k + 1 : Window'[i] = ringBuf[SlotOf(n + i - 1)]
  BY <1>1, <1>5, <1>7, <1>8
<1>10. \A i \in 1 .. k : Window'[i] = Window[i]
  BY <1>6, <1>9
<1>11. Window'[k + 1] = x
  <2>1. n + (k + 1) - 1 = m
    BY <1>5
  <2> QED
    BY <1>4, <1>5, <1>9, <2>1
<1>12. Window' = Append(Window, x)
  BY <1>4, <1>6, <1>7, <1>8, <1>10, <1>11, IsAppend
<1> QED
  BY <1>3, <1>4, <1>5, <1>6, <1>12

\* A consumer's counters take the oldest item, which it read before.
LEMMA TakeWindow ==
  ASSUME Control, Tokens, Buffers, Tokens', Control', Buffers',
         NEW t \in Tasks, ConsumeCount(t)
  PROVE  Window # << >> /\ Window' = Tail(Window) /\ Head(Window) = item[t]
<1>1. /\ TaskAt(t, "consumer", "count", "unlock")
      /\ consumedTotal' = consumedTotal + 1 /\ UNCHANGED <<ringBuf, producedTotal>>
  BY DEF ConsumeCount
<1>2. Made /\ HoldsItem(t)
  BY <1>1, TaskExecutes DEF HoldsItem, HasToken, TaskLabels
<1>3. item[t] = ringBuf[SlotOf(consumedTotal)]
  BY ConsumeCountBuffers
<1>4. PICK m \in Nat, n \in Nat, k \in Nat :
         m = producedTotal /\ n = consumedTotal /\ k + 1 = m - n
  <2>1. PICK m \in Nat, n \in Nat : m = producedTotal /\ n = consumedTotal /\ m - n > 0
    BY <1>2, RoomInRing
  <2>2. PICK k \in Nat : k = m - n - 1
    BY <2>1
  <2> QED
    BY <2>1, <2>2
<1>5. /\ Window \in Seq(Item) /\ Len(Window) = k + 1
      /\ \A i \in 1 .. k + 1 : Window[i] = ringBuf[SlotOf(n + i - 1)]
  BY <1>4, WindowTyped DEF WindowSays
<1>6. /\ Window' \in Seq(Item) /\ Len(Window') = producedTotal' - consumedTotal'
      /\ \A i \in 1 .. Len(Window') : Window'[i] = ringBuf'[SlotOf(consumedTotal' + i - 1)]
  BY WindowNext DEF WindowSays, SlotOf
<1>7. Len(Window') = k
  BY <1>1, <1>4, <1>6
<1>8. \A i \in 1 .. k : Window'[i] = ringBuf[SlotOf((n + 1) + i - 1)]
  BY <1>1, <1>4, <1>6, <1>7
<1>9. \A i \in 1 .. k : Window'[i] = Window[i + 1]
  <2> TAKE i \in 1 .. k
  <2>1. i + 1 \in 1 .. k + 1 /\ (n + 1) + i - 1 = n + (i + 1) - 1
    OBVIOUS
  <2> QED
    BY <1>5, <1>8, <2>1
<1>10. Window[1] = item[t]
  <2>1. 1 \in 1 .. k + 1 /\ n + 1 - 1 = n
    OBVIOUS
  <2> QED
    BY <1>3, <1>4, <1>5, <2>1
<1> QED
  BY <1>5, <1>6, <1>7, <1>9, <1>10, IsTail

\* A producer writes a place that holds no item.
LEMMA SlotWindow ==
  ASSUME Control, Tokens, Buffers, Tokens', Control', Buffers',
         NEW t \in Tasks, ProduceSlot(t)
  PROVE  Window' = Window
<1>1. /\ TaskAt(t, "producer", "slot", "index") /\ UNCHANGED <<producedTotal, consumedTotal>>
  BY DEF ProduceSlot
<1>2. Made /\ HoldsPlace(t)
  <2>1. "slot" \in TaskLabels \ {"none"}
    BY DEF TaskLabels
  <2>2. Made /\ role[t].kind = "producer" /\ pc[t] = "slot"
    BY <1>1, <2>1, TaskExecutes
  <2> QED
    BY <2>2 DEF HoldsPlace, HasToken
<1>3. PICK m \in Nat, n \in Nat, k \in Nat :
         m = producedTotal /\ n = consumedTotal /\ k = m - n /\ k < RING_BUF_SIZE
  BY <1>2, RoomInRing
<1>4. \A i \in 0 .. RING_BUF_SIZE - 1 : i # SlotOf(m) => ringBuf'[i] = ringBuf[i]
  BY <1>3, ProduceSlotBuffers
<1>5. \A i \in 1 .. k : ringBuf'[SlotOf(n + i - 1)] = ringBuf[SlotOf(n + i - 1)]
  <2> TAKE i \in 1 .. k
  <2>1. PICK j \in Nat : j = n + i - 1
    OBVIOUS
  <2>2. j < m /\ m - j < RING_BUF_SIZE
    <3>1. PICK S \in Nat : S = RING_BUF_SIZE
      BY RingNames
    <3>2. m = n + k /\ k < S
      BY <1>3, <3>1
    <3> QED
      BY <2>1, <3>1, <3>2
  <2>3. SlotOf(j) # SlotOf(m) /\ SlotOf(j) \in 0 .. RING_BUF_SIZE - 1
    BY <2>2, SlotsDiffer, SlotsTyped
  <2> QED
    BY <1>4, <2>1, <2>3
<1>6. Window = [i \in 1 .. k |-> ringBuf[SlotOf(n + i - 1)]]
  BY <1>3 DEF Window
<1>7. Window' = [i \in 1 .. k |-> ringBuf'[SlotOf(n + i - 1)]]
  BY <1>1, <1>3 DEF Window, SlotOf
<1> QED
  BY <1>5, <1>6, <1>7
\* Only the tasks' own steps in the mutex change the ring.
Changes(t) == \/ ProduceSlot(t) \/ ProduceIndex(t) \/ ProduceCount(t)
              \/ ConsumeIndex(t) \/ ConsumeCount(t)

LEMMA WhoChanges ==
  ASSUME [RingNext]_ringVars
  PROVE  UNCHANGED dataVars \/ \E t \in Tasks : Changes(t)
<1>1. CASE UNCHANGED demoVars
  BY <1>1 DEF demoVars
<1>2. CASE Commands
  BY <1>2 DEF Commands, IpcStart, CreateSems, CreateSem, CreateTask, ResumeTask, GetStats,
              GetStatsLock, GetStatsCopy, GetStatsUnlock, demoVars
<1>3. CASE DemoTask
  <2>1. PICK t \in Tasks : ProducerTaskEntry(t) \/ ConsumerTaskEntry(t) \/ EntryReturns(t)
    BY <1>3 DEF DemoTask
  <2>2. ASSUME NEW kind, NEW token,
               TakeTokenAndMutex(t, kind, token) \/ GiveMutexAndToken(t, kind, token)
        PROVE  UNCHANGED dataVars
    BY <2>2 DEF TakeTokenAndMutex, GiveMutexAndToken
  <2>3. ConsumeSlot(t) \/ EntryReturns(t) => UNCHANGED dataVars
    BY DEF ConsumeSlot, EntryReturns
  <2> QED
    BY <2>1, <2>2, <2>3 DEF ProducerTaskEntry, ConsumerTaskEntry, Changes
<1>4. CASE UNCHANGED ringVars
  BY <1>4 DEF ringVars, demoVars
<1> QED
  BY <1>1, <1>2, <1>3, <1>4 DEF RingNext, RingCode, RingInterrupt

\* The ring as the bounded buffer sees it.
LEMMA BufferVars ==
  /\ Buffer!bufvars = <<perProducer, Window, taken>>
  /\ Buffer!bufvars' = <<perProducer', Window', taken'>>
BY DEF Buffer!bufvars, Window, SlotOf

LEMMA BufferInit ==
  ASSUME RingInit
  PROVE  Buffer!Init
<1>1. producedTotal = 0 /\ consumedTotal = 0 /\ taken = << >>
      /\ perProducer = [p \in Producers |-> 0]
  BY DEF RingInit
<1>2. [i \in 1 .. producedTotal - consumedTotal |->
         ringBuf[(consumedTotal + i - 1) % RING_BUF_SIZE]] = << >>
  <2>1. 1 .. producedTotal - consumedTotal = {}
    BY <1>1
  <2> QED
    BY <2>1
<1> QED
  BY <1>1, <1>2 DEF Buffer!Init

LEMMA BufferStep ==
  ASSUME Control, Tokens, Buffers, Control', Tokens', Buffers', [RingNext]_ringVars
  PROVE  [Buffer!Next]_Buffer!bufvars
<1>1. ASSUME UNCHANGED <<perProducer, Window, taken>>
      PROVE  UNCHANGED Buffer!bufvars
  BY <1>1, BufferVars
<1>2. CASE UNCHANGED dataVars
  BY <1>1, <1>2 DEF dataVars, Window, SlotOf
<1>3. ASSUME NEW t \in Tasks, Changes(t)
      PROVE  [Buffer!Next]_Buffer!bufvars
  <2>1. CASE ProduceSlot(t)
    <3>1. Window' = Window
      BY <2>1, SlotWindow
    <3> QED
      BY <1>1, <2>1, <3>1 DEF ProduceSlot
  <2>2. CASE ProduceIndex(t) \/ ConsumeIndex(t)
    <3>1. UNCHANGED <<ringBuf, producedTotal, consumedTotal, perProducer, taken>>
      BY <2>2 DEF ProduceIndex, ConsumeIndex
    <3>2. Window' = Window
      BY <3>1 DEF Window, SlotOf
    <3> QED
      BY <1>1, <3>1, <3>2
  <2>3. CASE ProduceCount(t)
    <3>1. PICK p : p = role[t].no
      OBVIOUS
    <3>2. /\ p \in Producers /\ perProducer[p] < PER_TASK /\ Len(Window) < RING_BUF_SIZE
          /\ Window' = Append(Window, [by |-> p, no |-> perProducer[p] + 1])
      BY <2>3, <3>1, PutWindow
    <3>3. /\ perProducer' = [perProducer EXCEPT ![p] = @ + 1] /\ taken' = taken
          /\ perProducer \in [Producers -> Nat]
      BY <2>3, <3>1 DEF ProduceCount, Buffers, Totals
    <3>4. perProducer'[p] = perProducer[p] + 1
      BY <3>2, <3>3
    <3>5. Window' = Append(Window, [by |-> p, no |-> perProducer'[p]])
      BY <3>2, <3>4
    <3>6. Buffer!Put(p)
      BY <3>2, <3>3, <3>5 DEF Buffer!Put, Window, SlotOf
    <3> QED
      BY <3>2, <3>6 DEF Buffer!Next
  <2>4. CASE ConsumeCount(t)
    <3>1. Window # << >> /\ Window' = Tail(Window) /\ Head(Window) = item[t]
      BY <2>4, TakeWindow
    <3>2. taken' = Append(taken, Head(Window)) /\ perProducer' = perProducer
      BY <2>4, <3>1 DEF ConsumeCount
    <3>3. Buffer!Take
      BY <3>1, <3>2 DEF Buffer!Take, Window, SlotOf
    <3> QED
      BY <3>3 DEF Buffer!Next
  <2> QED
    BY <1>3, <2>1, <2>2, <2>3, <2>4 DEF Changes
<1> QED
  BY <1>2, <1>3, WhoChanges
LEMMA BuffersInit ==
  ASSUME RingInit
  PROVE  Buffers
<1>1. /\ role = [t \in Tasks |-> NoRole] /\ pc = [t \in Tasks |-> "none"]
      /\ loops = [t \in Tasks |-> 0] /\ item = [t \in Tasks |-> NoItem]
      /\ ringBuf = [i \in 0 .. RING_BUF_SIZE - 1 |-> NoItem]
      /\ head = 0 /\ tail = 0 /\ producedTotal = 0 /\ consumedTotal = 0
      /\ perProducer = [p \in Producers |-> 0] /\ perConsumer = [c \in Consumers |-> 0]
  BY DEF RingInit
<1>2. \A t \in Tasks : role[t].kind = "none" /\ pc[t] = "none" /\ loops[t] = 0
  BY <1>1 DEF NoRole
<1>3. Named
  BY <1>2 DEF Named
<1>4. Loops
  <2>1. 0 \in 0 .. PER_TASK
    BY RingNames
  <2> QED
    BY <1>1, <1>2, <2>1 DEF Loops
<1>5. Totals
  BY <1>1, <1>2 DEF Totals, Producers, Consumers
<1>6. Indexes
  <2>1. ~ Counting("producer") /\ ~ Counting("consumer")
    BY <1>2 DEF Counting
  <2>2. SlotOf(0) = 0
    <3>1. PICK S \in Nat \ {0} : S = RING_BUF_SIZE
      BY RingNames
    <3>2. 0 = (S * 0) + 0 /\ 0 \in 0 .. S - 1
      BY <3>1
    <3> QED
      BY <3>1, <3>2, RemainderIs DEF SlotOf
  <2> QED
    BY <1>1, <2>1, <2>2 DEF Indexes
<1>7. Slots
  <2>1. NoItem \in Item
    BY DEF NoItem, Item
  <2> QED
    BY <1>1, <1>2, <2>1 DEF Slots
<1> QED
  BY <1>3, <1>4, <1>5, <1>6, <1>7 DEF Buffers

\* The demo's tasks are two producers and two consumers, each counted on its own,
\* the indexes follow the counters, and the ring holds what the task in the mutex
\* has written or read.
THEOREM RingHolds == ASSUME DemoFits PROVE RingSpec => [](Control /\ Tokens /\ Buffers)
<1>1. RingInit => Control /\ Tokens /\ Buffers
  <2> SUFFICES ASSUME RingInit PROVE Control /\ Tokens /\ Buffers
    OBVIOUS
  <2>1. Control /\ ~ Made /\ shellPc = "pend"
    BY RingInitInv
  <2>2. producedTotal = 0 /\ consumedTotal = 0
    BY DEF RingInit
  <2> QED
    BY <2>1, <2>2, BuffersInit DEF Tokens
<1>2. (Control /\ Tokens /\ Buffers) /\ [RingNext]_ringVars => (Control /\ Tokens /\ Buffers)'
  BY RingStepInv, RingStepTokens, RingStepBuffers
<1> QED
  BY <1>1, <1>2, PTL DEF RingSpec

\* ipc_ring_demo.c is a bounded buffer: whatever the priorities, the size of the ring
\* and the number of items, and whenever tasks are switched, no item is lost, doubled,
\* overwritten before it is taken or taken before it is written, and the items are
\* taken in the order they were put.
THEOREM RefinesBoundedBuffer == ASSUME DemoFits PROVE RingSpec => ImplementsBoundedBuffer
<1>1. RingInit => Buffer!Init
  BY BufferInit
<1>2. (Control /\ Tokens /\ Buffers) /\ (Control /\ Tokens /\ Buffers)' /\ [RingNext]_ringVars
        => [Buffer!Next]_Buffer!bufvars
  BY BufferStep
<1> QED
  BY <1>1, <1>2, RingHolds, PTL DEF RingSpec, ImplementsBoundedBuffer, Buffer!Spec
-----------------------------------------------------------------------------
(***************************************************************************)
(* What ipcs prints is one moment of the ring.                              *)
(***************************************************************************)
LEMMA FreshSame ==
  ASSUME Fresh, UNCHANGED <<Window, perProducer, taken>>
  PROVE  Fresh'
BY DEF Fresh, MadeItems

\* The new item is none of those made before.
LEMMA FreshPut ==
  ASSUME Control, Tokens, Buffers, Tokens', Control', Buffers', Fresh,
         NEW t \in Tasks, ProduceCount(t)
  PROVE  Fresh'
<1>1. PICK p, n : p = role[t].no /\ n = perProducer[p]
  OBVIOUS
<1>2. PICK x : x = [by |-> p, no |-> n + 1]
  OBVIOUS
<1>3. /\ p \in Producers /\ n \in Nat /\ Window' = Append(Window, x)
  BY <1>1, <1>2, PutWindow
<1>4. /\ perProducer' = [perProducer EXCEPT ![p] = @ + 1] /\ taken' = taken
      /\ perProducer \in [Producers -> Nat]
  BY <1>1 DEF ProduceCount, Buffers, Totals
<1>5. /\ perProducer'[p] = n + 1
      /\ \A q \in Producers \ {p} : perProducer'[q] = perProducer[q]
  BY <1>1, <1>3, <1>4
<1>6. \A y \in MadeItems : y \in MadeItems' /\ y # x
  <2> SUFFICES ASSUME NEW y \in MadeItems PROVE y \in MadeItems' /\ y # x
    OBVIOUS
  <2>1. y \in Item /\ y.by \in Producers /\ y.no \in 1 .. perProducer[y.by]
    BY DEF MadeItems
  <2>2. CASE y.by = p
    <3>1. y.no \in 1 .. n /\ y.no # n + 1
      BY <1>1, <1>3, <2>1, <2>2
    <3>2. y.no \in 1 .. perProducer'[y.by]
      BY <1>3, <1>5, <2>2, <3>1
    <3> QED
      BY <1>2, <2>1, <3>1, <3>2 DEF MadeItems
  <2>3. CASE y.by # p
    <3>1. y.no \in 1 .. perProducer'[y.by]
      BY <1>5, <2>1, <2>3
    <3> QED
      BY <1>2, <2>1, <2>3, <3>1 DEF MadeItems
  <2> QED
    BY <2>2, <2>3
<1>7. x \in Item /\ x \in MadeItems'
  <2>1. n + 1 \in 1 .. perProducer'[p]
    BY <1>3, <1>5
  <2>2. x \in Item
    BY <1>2, <1>3 DEF Item, Producers
  <2> QED
    BY <1>2, <1>3, <2>1, <2>2 DEF MadeItems
<1>8. PICK k \in Nat : k = Len(Window)
  BY WindowTyped DEF WindowSays
<1>9. /\ Len(Window') = k + 1 /\ Window'[k + 1] = x
      /\ \A i \in 1 .. k : Window'[i] = Window[i]
  <2>1. Window \in Seq(Item) /\ x \in Item
    BY <1>7, WindowTyped DEF WindowSays
  <2> QED
    BY <1>3, <1>8, <2>1, AppendProperties
<1>10. \A i \in 1 .. k + 1 : i \in 1 .. k \/ i = k + 1
  OBVIOUS
<1>11. \A i \in 1 .. k : Window[i] \in MadeItems /\ Window[i] # x
  BY <1>6, <1>8 DEF Fresh
<1>12. \A j \in 1 .. Len(taken) : taken[j] \in MadeItems' /\ taken[j] # x
  BY <1>6 DEF Fresh
<1>13. \A i \in 1 .. k + 1 : Window'[i] \in MadeItems'
  BY <1>6, <1>7, <1>9, <1>10, <1>11
<1>14. \A i, j \in 1 .. k + 1 : Window'[i] = Window'[j] => i = j
  BY <1>8, <1>9, <1>10, <1>11 DEF Fresh
<1>15. \A i \in 1 .. k + 1 : \A j \in 1 .. Len(taken) : Window'[i] # taken[j]
  BY <1>8, <1>9, <1>10, <1>12 DEF Fresh
<1> QED
  BY <1>4, <1>9, <1>12, <1>13, <1>14, <1>15 DEF Fresh

\* The oldest item is none of those left.
LEMMA FreshTake ==
  ASSUME Control, Tokens, Buffers, Tokens', Control', Buffers', Fresh,
         NEW t \in Tasks, ConsumeCount(t)
  PROVE  Fresh'
<1>1. PICK x : x = Window[1]
  OBVIOUS
<1>2. Window # << >> /\ Window' = Tail(Window) /\ Head(Window) = x /\ item[t] = x
  <2>1. Window # << >> /\ Window' = Tail(Window) /\ Head(Window) = item[t]
    BY TakeWindow
  <2>2. Window \in Seq(Item)
    BY WindowTyped DEF WindowSays
  <2>3. Head(Window) = Window[1]
    BY <2>1, <2>2
  <2> QED
    BY <1>1, <2>1, <2>3
<1>3. perProducer' = perProducer /\ taken' = Append(taken, x)
  BY <1>2 DEF ConsumeCount
<1>4. Window \in Seq(Item) /\ Len(Window) \in Nat
  BY WindowTyped DEF WindowSays
<1>5. PICK k \in Nat : Len(Window) = k + 1
  <2>1. Len(Window) # 0
    BY <1>2, <1>4, EmptySeq
  <2>2. PICK k \in Nat : k = Len(Window) - 1
    BY <1>4, <2>1
  <2> QED
    BY <1>4, <2>2
<1>6. /\ Len(Window') = k
      /\ \A i \in 1 .. k : Window'[i] = Window[i + 1]
  <2>1. Len(Tail(Window)) = Len(Window) - 1
    BY <1>2, <1>4, HeadTailProperties
  <2>2. Len(Window') = k
    BY <1>2, <1>5, <2>1
  <2>3. \A i \in 1 .. Len(Tail(Window)) : Tail(Window)[i] = Window[i + 1]
    BY <1>2, <1>4, HeadTailProperties
  <2> QED
    BY <1>2, <2>2, <2>3
<1>7. \A i \in 1 .. k : i + 1 \in 1 .. k + 1 /\ i + 1 # 1
  OBVIOUS
<1>8. x \in Item /\ 1 \in 1 .. k + 1
  BY <1>1, <1>4, <1>5
<1>9. PICK m \in Nat : m = Len(taken)
  BY LenProperties DEF Fresh
<1>10. /\ taken' \in Seq(Item) /\ Len(taken') = m + 1 /\ taken'[m + 1] = x
       /\ \A j \in 1 .. m : taken'[j] = taken[j]
  BY <1>3, <1>8, <1>9, AppendProperties DEF Fresh
<1>11. \A j \in 1 .. m + 1 : j \in 1 .. m \/ j = m + 1
  OBVIOUS
<1>12. /\ x \in MadeItems
       /\ \A i \in 1 .. k : /\ Window'[i] \in MadeItems /\ Window'[i] # x
                            /\ \A j \in 1 .. k : Window'[i] = Window'[j] => i + 1 = j + 1
                            /\ \A j \in 1 .. m : Window'[i] # taken[j]
  <2>1. \A i \in 1 .. k + 1 :
          /\ Window[i] \in MadeItems
          /\ \A j \in 1 .. k + 1 : Window[i] = Window[j] => i = j
          /\ \A j \in 1 .. m : Window[i] # taken[j]
    BY <1>5, <1>9 DEF Fresh
  <2>2. x \in MadeItems
    BY <1>1, <1>8, <2>1
  <2> SUFFICES ASSUME NEW i \in 1 .. k
               PROVE  /\ Window'[i] \in MadeItems /\ Window'[i] # x
                      /\ \A j \in 1 .. k : Window'[i] = Window'[j] => i + 1 = j + 1
                      /\ \A j \in 1 .. m : Window'[i] # taken[j]
    BY <2>2
  <2>3. PICK e \in 1 .. k + 1 : e = i + 1 /\ e # 1
    BY <1>7
  <2>4. Window'[i] = Window[e]
    BY <1>6, <2>3
  <2>5. \A j \in 1 .. k : Window'[i] = Window'[j] => i + 1 = j + 1
    BY <1>6, <1>7, <2>1, <2>3, <2>4
  <2> QED
    BY <1>1, <1>8, <2>1, <2>3, <2>4, <2>5
<1>13. MadeItems' = MadeItems
  BY <1>3 DEF MadeItems
<1>14. \A j \in 1 .. m + 1 : taken'[j] \in MadeItems
  BY <1>9, <1>10, <1>11, <1>12 DEF Fresh
<1>15. \A i \in 1 .. k : \A j \in 1 .. m + 1 : Window'[i] # taken'[j]
  BY <1>10, <1>11, <1>12
<1>16. \A i, j \in 1 .. k : i + 1 = j + 1 => i = j
  OBVIOUS
<1>17. \A i \in 1 .. k : \A j \in 1 .. k : Window'[i] = Window'[j] => i = j
  BY <1>12, <1>16
<1>18. \A i \in 1 .. k : Window'[i] \in MadeItems'
  BY <1>12, <1>13
<1>19. \A j \in 1 .. m + 1 : taken'[j] \in MadeItems'
  BY <1>13, <1>14
<1> QED
  BY <1>6, <1>10, <1>15, <1>17, <1>18, <1>19 DEF Fresh

LEMMA FreshStep ==
  ASSUME Control, Tokens, Buffers, Control', Tokens', Buffers', Fresh, [RingNext]_ringVars
  PROVE  Fresh'
<1>1. CASE UNCHANGED dataVars
  <2>1. UNCHANGED <<ringBuf, producedTotal, consumedTotal, perProducer, taken>>
    BY <1>1 DEF dataVars
  <2>2. Window' = Window
    BY <2>1 DEF Window, SlotOf
  <2> QED
    BY <2>1, <2>2, FreshSame
<1>2. ASSUME NEW t \in Tasks, ProduceSlot(t)
      PROVE  Fresh'
  BY <1>2, SlotWindow, FreshSame DEF ProduceSlot
<1>3. ASSUME NEW t \in Tasks, ProduceIndex(t) \/ ConsumeIndex(t)
      PROVE  Fresh'
  <2>1. UNCHANGED <<ringBuf, producedTotal, consumedTotal, perProducer, taken>>
    BY <1>3 DEF ProduceIndex, ConsumeIndex
  <2>2. Window' = Window
    BY <2>1 DEF Window, SlotOf
  <2> QED
    BY <2>1, <2>2, FreshSame
<1> QED
  BY <1>1, <1>2, <1>3, WhoChanges, FreshPut, FreshTake DEF Changes
\* While the shell copies, no task is between its slot and its counters, and no other
\* changes the ring.
LEMMA ShellAlone ==
  ASSUME Control, shellPc \in {"copy2", "unlock"} \/ (shellPc = "copy1" /\ running = Shell)
  PROVE  /\ \A t \in Tasks : ~ Changes(t)
         /\ \A t \in Tasks : pc[t] \notin {"index", "count"}
<1>1. Made /\ Shell \in Tasks /\ Labels(Shell) = shellPc
  BY RingNames DEF Control, Place, ShellSays, StatLabels, Made, Labels
<1>2. ~ Blocked(Shell)
  <2>1. CASE shellPc \in {"copy2", "unlock"}
    <3>1. ~ Waits(Shell)
      BY <1>1, <2>1 DEF Waits, WaitsForRx, WaitsForMutex, WaitsForToken
    <3> QED
      BY <1>1, <3>1 DEF Control, Waiters
  <2>2. CASE running = Shell
    BY <1>1, <2>2, RunnerReady DEF Control
  <2> QED
    BY <2>1, <2>2
<1>3. Inside(Shell)
  BY <1>1, <1>2 DEF Inside, MutexLabels
<1>4. \A t \in Tasks \ {Shell} : ~ Inside(t)
  BY <1>1, <1>3 DEF Control, Mutex
<1>5. ASSUME NEW t \in Tasks, pc[t] \in {"slot", "index", "count"}, ~ Blocked(t)
      PROVE  FALSE
  <2>1. t # Shell
    BY <1>5 DEF Control, Place, Roles
  <2> QED
    BY <1>4, <1>5, <2>1 DEF Inside, Labels, MutexLabels
<1>6. ASSUME NEW t \in Tasks, pc[t] \in {"index", "count"}
      PROVE  FALSE
  <2>1. t # Shell
    BY <1>6 DEF Control, Place, Roles
  <2>2. ~ Waits(t)
    BY <1>6, <2>1 DEF Waits, WaitsForRx, WaitsForMutex, WaitsForToken, Labels
  <2>3. ~ Blocked(t)
    BY <2>2 DEF Control, Waiters
  <2> QED
    BY <1>5, <1>6, <2>3
<1>7. ASSUME NEW t \in Tasks, Changes(t)
      PROVE  FALSE
  <2>1. PICK kind, here, next : TaskAt(t, kind, here, next) /\ here \in {"slot", "index", "count"}
    <3>1. CASE ProduceSlot(t) \/ ProduceIndex(t) \/ ProduceCount(t)
      BY <3>1 DEF ProduceSlot, ProduceIndex, ProduceCount
    <3>2. CASE ConsumeIndex(t) \/ ConsumeCount(t)
      BY <3>2 DEF ConsumeIndex, ConsumeCount
    <3> QED
      BY <1>7, <3>1, <3>2 DEF Changes
  <2>2. here \in TaskLabels \ {"none"}
    BY <2>1 DEF TaskLabels
  <2>3. ~ Blocked(t) /\ pc[t] = here
    BY <2>1, <2>2, TaskExecutes
  <2> QED
    BY <1>5, <2>1, <2>3
<1> QED
  BY <1>6, <1>7

\* Only the shell's own steps change its copy, or bring it there.
LEMMA WhoCopies ==
  ASSUME Control, [RingNext]_ringVars
  PROVE  \/ GetStatsCopy
         \/ /\ stats' = stats \/ (GetStatsUnlock /\ stats' = NoStats)
            /\ shellPc' = shellPc \/ shellPc' \notin {"copy2", "unlock"}
<1>1. CASE (Boot \/ OsUartRxHandle \/ ShellPend \/ ShellRead) /\ UNCHANGED demoVars
  <2>1. stats' = stats
    BY <1>1 DEF demoVars
  <2>2. Boot => shellPc' = shellPc
    BY DEF Boot, BootStep, OsHwiInit, CoreTimerInit, InitModules, EnableRx, CreateRxSem,
           ShellTaskInit, Activate, shellVars
  <2>3. OsUartRxHandle => shellPc' = shellPc
    BY DEF OsUartRxHandle, shellVars
  <2>4. ShellPend \/ ShellRead => shellPc' \notin {"copy2", "unlock"}
    BY DEF ShellPend, ShellRead
  <2> QED
    BY <1>1, <2>1, <2>2, <2>3, <2>4
<1>2. CASE IpcStart \/ CreateSems \/ CreateTask \/ ResumeTask \/ GetStats \/ GetStatsLock
  BY <1>2 DEF IpcStart, CreateSems, CreateSem, CreateTask, ResumeTask, GetStats,
              GetStatsLock, demoVars, ShellAt, CommandReturns, ShellPrompt
<1>3. CASE GetStatsUnlock
  BY <1>3 DEF GetStatsUnlock, CommandReturns, ShellPrompt
<1>4. CASE DemoTask
  <2>1. PICK t \in Tasks : ProducerTaskEntry(t) \/ ConsumerTaskEntry(t) \/ EntryReturns(t)
    BY <1>4 DEF DemoTask
  <2>2. PICK kind, here, next : TaskAt(t, kind, here, next)
    BY <2>1 DEF ProducerTaskEntry, ConsumerTaskEntry, EntryReturns, TakeTokenAndMutex,
                GiveMutexAndToken, ProduceSlot, ProduceIndex, ProduceCount, ConsumeSlot,
                ConsumeIndex, ConsumeCount
  <2> QED
    BY <2>2 DEF TaskAt, shellVars
<1>5. CASE (Interrupt \/ \E kind \in Kinds : Type(kind)) /\ UNCHANGED demoVars
  BY <1>5 DEF Interrupt, RxInterrupt, OsGicIntClear, OsTickDispatcher, Type, demoVars, shellVars
<1>6. CASE UNCHANGED ringVars
  BY <1>6 DEF ringVars, shellSysVars, shellVars, demoVars
<1> QED
  BY <1>1, <1>2, <1>3, <1>4, <1>5, <1>6 DEF RingNext, RingCode, RingInterrupt, Commands

LEMMA CopiedStep ==
  ASSUME Control, Buffers, Buffers', Copied, [RingNext]_ringVars
  PROVE  Copied'
<1>1. stats \in Stats /\ NoStats \in Stats
  <2>1. 0 .. RING_BUF_SIZE - 1 \subseteq Int /\ NoItem \in Item
    BY DEF NoItem, Item
  <2> QED
    BY <2>1 DEF Copied, Stats, NoStats, Producers, Consumers
<1>2. ASSUME UNCHANGED dataVars, stats' = stats, shellPc' = shellPc
      PROVE  Copied'
  BY <1>2 DEF Copied, Stats, dataVars
<1>3. ASSUME stats' \in Stats, shellPc' \notin {"copy2", "unlock"}
      PROVE  Copied'
  BY <1>3 DEF Copied, Stats
<1>4. CASE GetStatsCopy
  <2>1. /\ UNCHANGED <<head, tail, producedTotal, consumedTotal, perProducer, perConsumer, ringBuf>>
    BY <1>4 DEF GetStatsCopy, dataVars
  <2>2. /\ head \in Int /\ tail \in Int /\ producedTotal \in Int /\ consumedTotal \in Int
        /\ perProducer \in [Producers -> Nat] /\ perConsumer \in [Consumers -> Nat]
        /\ ringBuf \in [0 .. RING_BUF_SIZE - 1 -> Item]
    <3>1. producedTotal \in Nat /\ consumedTotal \in Nat
      BY DEF Buffers, Totals, Producers, Consumers
    <3>2. SlotOf(producedTotal) \in 0 .. RING_BUF_SIZE - 1 /\ SlotOf(consumedTotal) \in 0 .. RING_BUF_SIZE - 1
      BY <3>1, SlotsTyped
    <3>3. \A i \in 0 .. RING_BUF_SIZE - 1 : NextSlot(i) \in Int
      BY RingNames DEF NextSlot
    <3>4. head \in Int /\ tail \in Int
      BY <3>2, <3>3 DEF Buffers, Indexes
    <3>5. perProducer \in [Producers -> Nat] /\ perConsumer \in [Consumers -> Nat]
      BY DEF Buffers, Totals
    <3>6. ringBuf \in [0 .. RING_BUF_SIZE - 1 -> Item]
      BY DEF Buffers, Slots
    <3>7. producedTotal \in Int /\ consumedTotal \in Int
      BY <3>1
    <3> QED
      BY <3>4, <3>5, <3>6, <3>7
  <2>3. CASE /\ ShellAt("copy1", "copy2")
             /\ stats' = [stats EXCEPT !.writeIndex = head, !.readIndex = tail,
                                       !.produced = producedTotal, !.consumed = consumedTotal]
    <3>1. shellPc' = "copy2"
      BY <2>3 DEF ShellAt
    <3>2. /\ stats' \in Stats /\ stats'.writeIndex = head /\ stats'.readIndex = tail
          /\ stats'.produced = producedTotal /\ stats'.consumed = consumedTotal
      BY <1>1, <2>2, <2>3 DEF Stats
    <3> QED
      BY <2>1, <3>1, <3>2 DEF Copied, Stats
  <2>4. CASE /\ ShellAt("copy2", "unlock")
             /\ stats' = [stats EXCEPT !.perProducer = perProducer,
                                       !.perConsumer = perConsumer, !.buffer = ringBuf]
    <3>1. shellPc' = "unlock" /\ shellPc = "copy2"
      BY <2>4 DEF ShellAt
    <3>2. /\ stats' \in Stats /\ stats'.writeIndex = head /\ stats'.readIndex = tail
          /\ stats'.produced = producedTotal /\ stats'.consumed = consumedTotal
          /\ stats'.perProducer = perProducer /\ stats'.perConsumer = perConsumer
          /\ stats'.buffer = ringBuf
      BY <1>1, <2>2, <2>4, <3>1 DEF Stats, Copied
    <3> QED
      BY <2>1, <3>1, <3>2 DEF Copied, Stats
  <2> QED
    BY <1>4, <2>3, <2>4 DEF GetStatsCopy
<1>5. CASE GetStatsUnlock /\ stats' = NoStats
  <2>1. shellPc' = "pend"
    BY <1>5 DEF GetStatsUnlock, CommandReturns, ShellPrompt
  <2> QED
    BY <1>1, <1>3, <1>5, <2>1
<1>6. CASE stats' = stats /\ shellPc' = shellPc
  <2>1. CASE shellPc \in {"copy2", "unlock"}
    BY <1>2, <1>6, <2>1, ShellAlone, WhoChanges
  <2>2. CASE shellPc \notin {"copy2", "unlock"}
    BY <1>1, <1>3, <1>6, <2>2
  <2> QED
    BY <2>1, <2>2
<1>7. CASE stats' = stats /\ shellPc' \notin {"copy2", "unlock"}
  BY <1>1, <1>3, <1>7
<1> QED
  BY <1>4, <1>5, <1>6, <1>7, WhoCopies
Holds == Control /\ Tokens /\ Buffers /\ Fresh /\ Copied

LEMMA SnapshotSays ==
  ASSUME Holds
  PROVE  SnapshotConsistent
<1> SUFFICES ASSUME shellPc = "unlock" PROVE SnapshotConsistent
  BY DEF SnapshotConsistent
<1>1. /\ stats.writeIndex = head /\ stats.readIndex = tail
      /\ stats.produced = producedTotal /\ stats.consumed = consumedTotal
      /\ stats.perProducer = perProducer /\ stats.perConsumer = perConsumer
      /\ stats.buffer = ringBuf
  BY DEF Holds, Copied
<1>2. head = SlotOf(producedTotal) /\ tail = SlotOf(consumedTotal)
  <2>1. ~ Counting("producer") /\ ~ Counting("consumer")
    BY ShellAlone DEF Holds, Counting
  <2> QED
    BY <2>1 DEF Holds, Buffers, Indexes
<1>3. /\ producedTotal = perProducer[1] + perProducer[2]
      /\ consumedTotal = perConsumer[1] + perConsumer[2]
  BY DEF Holds, Buffers, Totals
<1>4. PICK m \in Nat, n \in Nat : m = producedTotal /\ n = consumedTotal
  BY RoomInRing DEF Holds
<1>5. ASSUME NEW x \in n .. m - 1
      PROVE  ringBuf[SlotOf(x)] \notin Range(taken) \cup {NoItem}
  <2>1. PICK i \in 1 .. m - n : x = n + i - 1
    <3>1. x - n + 1 \in 1 .. m - n /\ x = n + (x - n + 1) - 1
      BY <1>5
    <3> QED
      BY <3>1
  <2>2. Len(Window) = m - n /\ Window[i] = ringBuf[SlotOf(x)]
    <3>1. /\ Len(Window) = m - n
          /\ \A j \in 1 .. m - n : Window[j] = ringBuf[SlotOf(n + j - 1)]
      BY <1>4, WindowTyped DEF Holds, WindowSays
    <3> QED
      BY <2>1, <3>1
  <2>3. /\ Window[i] \in MadeItems
        /\ \A j \in 1 .. Len(taken) : Window[i] # taken[j]
        /\ taken \in Seq(Item)
    BY <2>2 DEF Holds, Fresh
  <2>4. Window[i] # NoItem
    BY <2>3 DEF MadeItems, NoItem, Producers
  <2>5. Window[i] \notin Range(taken)
    <3>1. DOMAIN taken = 1 .. Len(taken)
      BY <2>3, LenProperties
    <3> QED
      BY <2>3, <3>1 DEF Range
  <2> QED
    BY <2>2, <2>4, <2>5
<1> QED
  BY <1>1, <1>2, <1>3, <1>4, <1>5 DEF SnapshotConsistent, SlotOf

\* ipcs prints one moment of the ring: what IPC_RingDemoGetStats copied is, until it
\* gives the mutex back, what the ring still is, its totals are those of the tasks,
\* its indexes those of the totals, and the places it shows as full hold items that
\* were made and not taken.
THEOREM ReportIsOneMoment == ASSUME DemoFits PROVE RingSpec => []SnapshotConsistent
<1>1. RingInit => Holds
  <2> SUFFICES ASSUME RingInit PROVE Holds
    OBVIOUS
  <2>1. Control /\ ~ Made /\ shellPc = "pend" /\ Buffers
    BY RingInitInv, BuffersInit
  <2>2. producedTotal = 0 /\ consumedTotal = 0 /\ taken = << >> /\ stats = NoStats
    BY DEF RingInit
  <2>3. Tokens
    BY <2>1, <2>2 DEF Tokens
  <2>4. Fresh
    <3>1. Len(Window) = 0
      BY <2>1, <2>2, <2>3, WindowTyped DEF WindowSays
    <3>2. 1 .. Len(Window) = {} /\ 1 .. Len(taken) = {} /\ taken \in Seq(Item)
      BY <2>2, <3>1
    <3> QED
      BY <3>2 DEF Fresh
  <2>5. Copied
    <3>1. NoItem \in Item
      BY DEF NoItem, Item
    <3> QED
      BY <2>1, <2>2, <3>1 DEF Copied, Stats, NoStats, Producers, Consumers
  <2> QED
    BY <2>1, <2>3, <2>4, <2>5 DEF Holds
<1>2. Holds /\ [RingNext]_ringVars => Holds'
  <2> SUFFICES ASSUME Holds, [RingNext]_ringVars PROVE Holds'
    OBVIOUS
  <2>1. Control /\ Tokens /\ Buffers /\ Fresh /\ Copied
    BY DEF Holds
  <2>2. Control' /\ Tokens' /\ Buffers'
    BY <2>1, RingStepInv, RingStepTokens, RingStepBuffers
  <2>3. Fresh' /\ Copied'
    BY <2>1, <2>2, FreshStep, CopiedStep
  <2> QED
    BY <2>2, <2>3 DEF Holds
<1>3. Holds => SnapshotConsistent
  BY SnapshotSays
<1> QED
  BY <1>1, <1>2, <1>3, PTL DEF RingSpec
=============================================================================
