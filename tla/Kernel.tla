------------------------------- MODULE Kernel -------------------------------
(***************************************************************************)
(* The MiniEuler kernel: tasks, the run queue, the priority scheduler and   *)
(* the counting semaphores with priority inheritance (kernel/task,          *)
(* kernel/sched, kernel/sem).                                               *)
(*                                                                          *)
(* Every kernel call runs with interrupts masked (OsIntLock) on the only    *)
(* core, so a call is one action.  A call that has to switch tasks traps    *)
(* before it returns, so the switch belongs to the same action; the rest of *)
(* the caller runs when it is `running' again.  Interrupt handlers call     *)
(* PRT_SemPost alone; OS_FLG_HWI_ACTIVE is never set, so OS_INT_INACTIVE    *)
(* always holds and a post from a handler switches like a post of a task.   *)
(* g_uniTaskLock is never incremented and is left out, like the task states *)
(* nothing sets (TIMEOUT, DELAY, ...) and the binary and priority-ordered   *)
(* semaphores, which PRT_SemCreate cannot make.                             *)
(*                                                                          *)
(* A definition marked Fault stands for a plausible mistake in the one after *)
(* it.  Nothing refers to it: substituted, it shows that a property can fail.*)
(***************************************************************************)
EXTENDS Lists, FiniteSets

CONSTANTS
  NumTasks,          \* TCBs on the free list after OsTskAMPInit
  NumSems,           \* g_maxSem
  NumStacks,         \* 4K blocks of stackMem left for stacks
  Prios,             \* priorities tasks are created with
  InitCounts,        \* counts semaphores are created with
  OS_SEM_COUNT_MAX,
  Timeouts           \* time-outs PRT_SemPend is called with

OS_TSK_PRIORITY_LOWEST == 63
NoWaiterPrio == 255

ASSUME SizesAssumption == /\ NumTasks \in Nat \ {0}
                          /\ NumSems \in Nat
                          /\ NumStacks \in Nat
ASSUME PriosAssumption == Prios \subseteq 0 .. OS_TSK_PRIORITY_LOWEST
ASSUME CountsAssumption == InitCounts \subseteq Nat /\ OS_SEM_COUNT_MAX \in Nat
ASSUME TimeoutsAssumption == Timeouts \subseteq {"NO_WAIT", "TICKS", "FOREVER"}

Tasks == 0 .. NumTasks - 1      \* a task is its pid, the index of its TCB
Zombie == NumTasks              \* OS_PST_ZOMBIE_TASK: what RUNNING_TASK is during boot
TCBs == Tasks \cup {Zombie}
NoTask == -1                    \* NULL, and OS_INVALID_OWNER_ID
Sems == 0 .. NumSems - 1
NoSem == -1

\* The lists TCBs are linked on: semaphore s's semList has the head s.
RunQueue == NumSems             \* g_runQueue
FreeList == NumSems + 1         \* g_tskCbFreeList
Heads == Sems \cup {RunQueue, FreeList}

VARIABLES
  status,            \* taskStatus, the set of its bits; OS_TSK_UNUSED is {}
  priority, originalPriority, taskSem,
  list,              \* the lists, by head
  highest, running,  \* g_highestTask, RUNNING_TASK
  uniFlag,           \* UNI_FLAG
  idleTaskId,        \* IDLE_TASK_ID
  stackMemUsed,      \* how many blocks stackMemUsed marks
  semStat, semCount, semOwner,
  unusedSem          \* g_unusedSemList

schedVars == <<status, priority, list, highest, running, uniFlag>>
semVars == <<semStat, semCount, semOwner, unusedSem>>
tskVars == <<originalPriority, taskSem, idleTaskId, stackMemUsed>>
vars == <<schedVars, semVars, tskVars>>

StatusBits == {"INUSE", "SUSPEND", "READY", "PEND", "RUNNING"}
ErrorCodes == {"TCB_UNAVAILABLE", "NO_MEMORY", "NOT_CREATED",
               "NOT_SUSPENDED", "ALL_BUSY", "SEM_OVERFLOW", "SEM_INVALID",
               "SEM_UNAVAILABLE"}

(***************************************************************************)
(* The scheduler.  The helpers map one scheduler state to the next, in the  *)
(* order the C functions call each other inside one critical section.       *)
(***************************************************************************)
Sched == [status |-> status, priority |-> priority, list |-> list,
          highest |-> highest, running |-> running, uniFlag |-> uniFlag]

SetSched(q) == /\ status' = q.status
               /\ priority' = q.priority
               /\ list' = q.list
               /\ highest' = q.highest
               /\ running' = q.running
               /\ uniFlag' = q.uniFlag

\* The first task of a list among those with the least priority value.
FirstHighest(l, prio) ==
  l[CHOOSE i \in DOMAIN l :
      /\ \A j \in DOMAIN l : prio[l[i]] <= prio[l[j]]
      /\ \A j \in 1 .. i - 1 : prio[l[i]] < prio[l[j]]]

OsTskHighestSet(q) ==
  [q EXCEPT !.highest = IF ListEmpty(q.list[RunQueue]) THEN NoTask
                        ELSE FirstHighest(q.list[RunQueue], q.priority)]

OsTskReadyAdd(q, t) ==
  OsTskHighestSet([q EXCEPT !.status[t] = @ \cup {"READY"},
                            !.list[RunQueue] = ListTailAdd(@, t)])

OsTskReadyDel(q, t) ==
  OsTskHighestSet([q EXCEPT !.status[t] = @ \ {"READY"},
                            !.list = [h \in Heads |-> ListDelete(@[h], t)]])

OsMainSchedule(q) ==
  IF "TSK_REQ" \in q.uniFlag
  THEN [q EXCEPT !.uniFlag = @ \ {"TSK_REQ"},
                 !.status[q.running] = @ \ {"RUNNING"},
                 !.status[q.highest] = @ \cup {"RUNNING"},
                 !.running = q.highest]
  ELSE q

\* Find the highest task and trap to OsMainSchedule when it is not running.
OsTskSchedule(q) ==
  LET h == OsTskHighestSet(q)
  IN  IF h.highest # h.running
      THEN OsMainSchedule([h EXCEPT !.uniFlag = @ \cup {"TSK_REQ"}])
      ELSE h

\* Fault: the request is never turned into a trap.
FaultNoTrap(q) == OsTskHighestSet(q)

OsTskScheduleFastPs(q) == OsTskSchedule(q)

(***************************************************************************)
(* Priority inheritance (prt_sem.c): the holder of a semaphore is the task  *)
(* whose PRT_SemPend last succeeded on it, semOwner.                        *)
(***************************************************************************)
Min2(a, b) == IF a <= b THEN a ELSE b

\* Of the tasks waiting on s, the least priority value.
OsSemFindHighestWaiterPriority(q, s) ==
  IF ListEmpty(q.list[s]) THEN NoWaiterPrio
  ELSE Min2(NoWaiterPrio, q.priority[FirstHighest(q.list[s], q.priority)])

\* Fault: the priority changes in place, and nobody looks for the highest task.
FaultNoRequeue(q, t, p) == [q EXCEPT !.priority[t] = p]

\* Fault: the READY bit is not tested before the task is requeued.
FaultRequeueAlways(q, t, p) ==
  OsTskReadyAdd(OsTskReadyDel([q EXCEPT !.priority[t] = p], t), t)

\* A ready task goes to the tail of the run queue when its priority changes.
SetPriority(q, t, p) ==
  LET r == [q EXCEPT !.priority[t] = p]
  IN  IF "READY" \in r.status[t] THEN OsTskReadyAdd(OsTskReadyDel(r, t), t) ELSE r

HasOwner(q, s) == /\ semOwner[s] # NoTask
                  /\ q.status[semOwner[s]] # {}

\* Fault: the holder takes the waiter's priority even when its own is higher.
FaultInheritAny(q, s, waiter) ==
  IF HasOwner(q, s) THEN SetPriority(q, semOwner[s], q.priority[waiter]) ELSE q

\* Fault: only the new waiter is looked at, not those already waiting.
FaultInheritFromOne(q, s, waiter) ==
  IF HasOwner(q, s) /\ q.priority[semOwner[s]] > q.priority[waiter]
  THEN SetPriority(q, semOwner[s], q.priority[waiter]) ELSE q

\* Fault: there is no inheritance.
FaultNeverInherit(q, s, waiter) == q

OsPriorityInherit(q, s, waiter) ==
  LET owner == semOwner[s]
      p == Min2(OsSemFindHighestWaiterPriority(q, s), q.priority[waiter])
  IN  IF HasOwner(q, s) /\ q.priority[owner] > p THEN SetPriority(q, owner, p) ELSE q

\* Fault: the holder keeps what it inherited.
FaultNeverRestore(q, s) == q

\* Fault: a holder at its own priority is requeued like any other.
FaultRestoreAlways(q, s) ==
  IF HasOwner(q, s) THEN SetPriority(q, semOwner[s], originalPriority[semOwner[s]]) ELSE q

OsPriorityRestore(q, s) ==
  LET owner == semOwner[s]
      p == OsSemFindHighestWaiterPriority(q, s)
  IN  IF ~ HasOwner(q, s) \/ q.priority[owner] = originalPriority[owner] THEN q
      ELSE IF p < q.priority[owner] THEN SetPriority(q, owner, p)
      ELSE SetPriority(q, owner, originalPriority[owner])

\* Fault: the task is linked on the wait queue while still on the run queue.
FaultStaysReady(q, s) ==
  OsPriorityInherit([q EXCEPT !.status[running] = @ \cup {"PEND"},
                              !.list[s] = ListTailAdd(@, running)], s, running)

\* Fault: the task joins the head of the wait queue.
FaultPendAtHead(q, s) ==
  LET d == OsTskReadyDel(q, running)
  IN  OsPriorityInherit([d EXCEPT !.status[running] = @ \cup {"PEND"},
                                  !.list[s] = ListAdd(@, running)], s, running)

\* The running task leaves the run queue and joins the tail of s's wait queue.
OsSemPendListPut(q, s) ==
  LET d == OsTskReadyDel(q, running)
      w == [d EXCEPT !.status[running] = @ \cup {"PEND"},
                     !.list[s] = ListTailAdd(@, running)]
  IN  OsPriorityInherit(w, s, running)

\* The first waiter of s leaves the wait queue and becomes ready.
OsSemPendListGet(q, s) ==
  LET t == Head(q.list[s])
      d == [q EXCEPT !.list = [h \in Heads |-> ListDelete(@[h], t)],
                     !.status[t] = @ \ {"PEND"}]
  IN  IF "SUSPEND" \in d.status[t] THEN d ELSE OsTskReadyAdd(d, t)

(***************************************************************************)
(* The calls.  CallerRuns: the code being executed is boot code (running is *)
(* the zombie) or a task other than idle, whose body is an empty loop.      *)
(***************************************************************************)
CallerRuns == running # idleTaskId
TaskRuns == running \in Tasks /\ CallerRuns

\* An error return: every one of them leaves the kernel as it was.
Fail(code) == code \in ErrorCodes /\ UNCHANGED vars

\* OsTaskCreateOnly; p is initParam->taskPrio, and the stack is never the caller's.
TaskCreated(p) ==
  /\ ~ ListEmpty(list[FreeList])
  /\ stackMemUsed < NumStacks
  /\ LET t == Head(list[FreeList])
     IN  /\ list' = [h \in Heads |-> ListDelete(list[h], t)]
         /\ priority' = [priority EXCEPT ![t] = p]
         /\ originalPriority' = [originalPriority EXCEPT ![t] = p]
         /\ taskSem' = [taskSem EXCEPT ![t] = NoSem]
         /\ status' = [status EXCEPT ![t] = {"SUSPEND", "INUSE"}]
  /\ stackMemUsed' = stackMemUsed + 1
  /\ UNCHANGED <<highest, running, uniFlag, semVars, idleTaskId>>

\* Fault: the TCB is filled in before the stack is known to be there.
FaultTcbKept ==
  /\ ~ ListEmpty(list[FreeList]) /\ stackMemUsed = NumStacks
  /\ LET t == Head(list[FreeList])
     IN  /\ list' = [h \in Heads |-> ListDelete(list[h], t)]
         /\ status' = [status EXCEPT ![t] = {"SUSPEND", "INUSE"}]
  /\ UNCHANGED <<priority, highest, running, uniFlag, semVars, tskVars>>

\* Without a stack the TCB taken from the free list goes back to its head.
TaskNotCreated ==
  \/ ListEmpty(list[FreeList]) /\ Fail("TCB_UNAVAILABLE")
  \/ /\ ~ ListEmpty(list[FreeList])
     /\ stackMemUsed = NumStacks
     /\ LET t == Head(list[FreeList])
        IN  list' = [[h \in Heads |-> ListDelete(list[h], t)]
                       EXCEPT ![FreeList] = ListAdd(@, t)]
     /\ UNCHANGED <<status, priority, highest, running, uniFlag, semVars, tskVars>>

PRT_TaskCreate(p) == CallerRuns /\ (TaskCreated(p) \/ TaskNotCreated)

\* Fault: the resumed task is readied, and nobody looks whether it should run.
FaultResumeQuietly(q, t) == OsTskReadyAdd(q, t)

\* OsMoveTaskToReady: before OsActivate nothing is scheduled.
OsMoveTaskToReady(q, t) ==
  IF q.status[t] \cap {"PEND", "SUSPEND"} # {} THEN q
  ELSE IF "BGD_ACTIVE" \in q.uniFlag THEN OsTskSchedule(OsTskReadyAdd(q, t))
  ELSE OsTskReadyAdd(q, t)

PRT_TaskResume(t) ==
  /\ CallerRuns
  /\ \/ status[t] = {} /\ Fail("NOT_CREATED")
     \/ status[t] # {} /\ "SUSPEND" \notin status[t] /\ Fail("NOT_SUSPENDED")
     \/ /\ "SUSPEND" \in status[t]
        /\ SetSched(OsMoveTaskToReady([Sched EXCEPT !.status[t] = @ \ {"SUSPEND"}], t))
        /\ UNCHANGED <<semVars, tskVars>>

\* A task's entry function returned: the TCB stays in use, its stack too.
OsTaskExit ==
  /\ TaskRuns
  /\ SetSched(OsTskSchedule(OsTskReadyDel(Sched, running)))
  /\ UNCHANGED <<semVars, tskVars>>

\* OsIdleTskAMPCreate and OsFirstTimeSwitch: the end of boot.  The zombie keeps
\* its RUNNING bit, and TSK_REQ stays set until the first trap.  main has made one
\* task by then, so the pools are not empty and the error returns are not taken.
OsActivate ==
  /\ running = Zombie
  /\ ~ ListEmpty(list[FreeList])
  /\ stackMemUsed < NumStacks
  /\ LET t == Head(list[FreeList])
         idle == [Sched EXCEPT !.list = [h \in Heads |-> ListDelete(@[h], t)],
                               !.priority[t] = OS_TSK_PRIORITY_LOWEST,
                               !.status[t] = {"INUSE"}]
         q == OsTskHighestSet(OsTskReadyAdd(idle, t))
     IN  /\ SetSched([q EXCEPT !.uniFlag = @ \cup {"BGD_ACTIVE", "TSK_REQ"},
                               !.running = q.highest,
                               !.status[q.highest] = @ \cup {"RUNNING"}])
         /\ originalPriority' = [originalPriority EXCEPT ![t] = OS_TSK_PRIORITY_LOWEST]
         /\ taskSem' = [taskSem EXCEPT ![t] = NoSem]
         /\ idleTaskId' = t
  /\ stackMemUsed' = stackMemUsed + 1
  /\ UNCHANGED semVars

PRT_SemCreate(count) ==
  /\ CallerRuns
  /\ \/ count > OS_SEM_COUNT_MAX /\ Fail("SEM_OVERFLOW")
     \/ count <= OS_SEM_COUNT_MAX /\ unusedSem = << >> /\ Fail("ALL_BUSY")
     \/ /\ count <= OS_SEM_COUNT_MAX /\ unusedSem # << >>
        /\ LET s == Head(unusedSem)
           IN  /\ semCount' = [semCount EXCEPT ![s] = count]
               /\ semStat' = [semStat EXCEPT ![s] = "USED"]
               /\ semOwner' = [semOwner EXCEPT ![s] = NoTask]
               /\ list' = [list EXCEPT ![s] = << >>]
        /\ unusedSem' = Tail(unusedSem)
        /\ UNCHANGED <<status, priority, highest, running, uniFlag, tskVars>>

\* Fault: the count is taken off without looking.
FaultTakeBlindly(s) ==
  /\ semCount' = [semCount EXCEPT ![s] = @ - 1]
  /\ semOwner' = [semOwner EXCEPT ![s] = running]
  /\ UNCHANGED <<schedVars, semStat, unusedSem, tskVars>>

\* The token is there: OsSemPendNotNeedSche.
SemPendTake(s) ==
  /\ semCount[s] > 0
  /\ semCount' = [semCount EXCEPT ![s] = @ - 1]
  /\ semOwner' = [semOwner EXCEPT ![s] = running]
  /\ UNCHANGED <<schedVars, semStat, unusedSem, tskVars>>

\* No token: with a finite time-out the call returns without a switch, although
\* its task is on the wait queue; the endless wait returns once resumed.
SemPendBlock(s, timeout) ==
  /\ semCount[s] = 0
  /\ timeout # "NO_WAIT"
  /\ taskSem' = [taskSem EXCEPT ![running] = s]
  /\ LET q == OsSemPendListPut(Sched, s)
     IN  SetSched(IF timeout = "FOREVER" THEN OsTskScheduleFastPs(q) ELSE q)
  /\ UNCHANGED <<semVars, originalPriority, idleTaskId, stackMemUsed>>

PRT_SemPend(s, timeout) ==
  /\ TaskRuns
  /\ \/ semStat[s] = "UNUSED" /\ Fail("SEM_INVALID")
     \/ semStat[s] = "USED" /\ SemPendTake(s)
     \/ semStat[s] = "USED" /\ SemPendBlock(s, timeout)
     \/ /\ semStat[s] = "USED" /\ semCount[s] = 0 /\ timeout = "NO_WAIT"
        /\ Fail("SEM_UNAVAILABLE")

\* Fault: the token is both handed over and counted.
FaultTokenTwice(s) ==
  /\ ~ ListEmpty(list[s])
  /\ SetSched(OsSemPendListGet(OsPriorityRestore(Sched, s), s))
  /\ taskSem' = [taskSem EXCEPT ![Head(list[s])] = NoSem]
  /\ semOwner' = [semOwner EXCEPT ![s] = Head(list[s])]
  /\ semCount' = [semCount EXCEPT ![s] = @ + 1]
  /\ UNCHANGED <<semStat, unusedSem, originalPriority, idleTaskId, stackMemUsed>>

\* The first waiter gets the token and becomes the holder; the old holder's
\* priority is restored while that waiter is still on the wait queue.
SemPostWake(s) ==
  /\ ~ ListEmpty(list[s])
  /\ LET t == Head(list[s])
     IN  /\ SetSched(OsTskScheduleFastPs(OsSemPendListGet(OsPriorityRestore(Sched, s), s)))
         /\ taskSem' = [taskSem EXCEPT ![t] = NoSem]
         /\ semOwner' = [semOwner EXCEPT ![s] = t]
  /\ UNCHANGED <<semStat, semCount, unusedSem, originalPriority, idleTaskId, stackMemUsed>>

\* Fault: the count goes up whether or not somebody waits.
FaultKeepAlways(s) ==
  /\ SetSched(OsPriorityRestore(Sched, s))
  /\ semCount' = [semCount EXCEPT ![s] = @ + 1]
  /\ semOwner' = [semOwner EXCEPT ![s] = NoTask]
  /\ UNCHANGED <<semStat, unusedSem, tskVars>>

\* Nobody waits: the token is kept, and there is no OsTskSchedule on this path.
SemPostKeep(s) ==
  /\ ListEmpty(list[s])
  /\ SetSched(OsPriorityRestore(Sched, s))
  /\ semCount' = [semCount EXCEPT ![s] = @ + 1]
  /\ semOwner' = [semOwner EXCEPT ![s] = NoTask]
  /\ UNCHANGED <<semStat, unusedSem, tskVars>>

\* Called by tasks, and by OsUartRxHandle whichever task the interrupt stopped.
PRT_SemPost(s) ==
  \/ semStat[s] = "UNUSED" /\ Fail("SEM_INVALID")
  \/ semStat[s] = "USED" /\ semCount[s] >= OS_SEM_COUNT_MAX /\ Fail("SEM_OVERFLOW")
  \/ /\ semStat[s] = "USED" /\ semCount[s] < OS_SEM_COUNT_MAX
     /\ SemPostWake(s) \/ SemPostKeep(s)

-----------------------------------------------------------------------------
\* After OsTskInit and OsSemInit: main has not created anything yet.
Init ==
  /\ status = [t \in TCBs |-> IF t = Zombie THEN {"INUSE", "RUNNING"} ELSE {}]
  /\ priority = [t \in TCBs |-> IF t = Zombie THEN OS_TSK_PRIORITY_LOWEST + 1 ELSE 0]
  /\ originalPriority = [t \in TCBs |-> 0]
  /\ taskSem = [t \in TCBs |-> NoSem]
  /\ list = [h \in Heads |-> IF h = FreeList THEN [i \in 1 .. NumTasks |-> i - 1]
                                           ELSE << >>]
  /\ highest = NoTask
  /\ running = Zombie
  /\ uniFlag = {}
  /\ idleTaskId = NoTask
  /\ stackMemUsed = 0
  /\ semStat = [s \in Sems |-> "UNUSED"]
  /\ semCount = [s \in Sems |-> 0]
  /\ semOwner = [s \in Sems |-> NoTask]
  /\ unusedSem = [i \in 1 .. NumSems |-> i - 1]

Next ==
  \/ \E p \in Prios : PRT_TaskCreate(p)
  \/ \E t \in Tasks : PRT_TaskResume(t)
  \/ OsTaskExit
  \/ OsActivate
  \/ \E c \in InitCounts : PRT_SemCreate(c)
  \/ \E s \in Sems, timeout \in Timeouts : PRT_SemPend(s, timeout)
  \/ \E s \in Sems : PRT_SemPost(s)

Spec == Init /\ [][Next]_vars

-----------------------------------------------------------------------------
Active == "BGD_ACTIVE" \in uniFlag
InUse == {t \in Tasks : status[t] # {}}
Exited(t) == status[t] # {} /\ status[t] \cap {"READY", "PEND", "SUSPEND"} = {}

\* Types of the kernel's globals and of the fields of its control blocks.
TypeOK ==
  /\ status \in [TCBs -> SUBSET StatusBits]
  /\ priority \in [TCBs -> 0 .. OS_TSK_PRIORITY_LOWEST + 1]
  /\ originalPriority \in [TCBs -> 0 .. OS_TSK_PRIORITY_LOWEST + 1]
  /\ taskSem \in [TCBs -> Sems \cup {NoSem}]
  /\ list \in [Heads -> Seq(Tasks)]
  /\ highest \in Tasks \cup {NoTask}
  /\ running \in TCBs
  /\ uniFlag \subseteq {"BGD_ACTIVE", "TSK_REQ"}
  /\ idleTaskId \in Tasks \cup {NoTask}
  /\ stackMemUsed \in 0 .. NumStacks
  /\ semStat \in [Sems -> {"UNUSED", "USED"}]
  /\ semCount \in [Sems -> Nat]
  /\ semOwner \in [Sems -> Tasks \cup {NoTask}]
  /\ unusedSem \in Seq(Sems)

(***************************************************************************)
(* Properties.  Those of this part hold for callers that wait for ever or   *)
(* not at all, as every caller in the repository does.                      *)
(***************************************************************************)

\* A TCB has one pair of links (pendList), shared by the run queue, every wait
\* queue and the free list: it is on the one list its status says, once, however
\* waiting, waking, requeueing on a changed priority, exit and creation interleave.
ListsWellFormed ==
  /\ \A h \in Heads : IsInjective(list[h])
  /\ \A h, g \in Heads : h # g => Range(list[h]) \cap Range(list[g]) = {}
  /\ Range(list[RunQueue]) = {t \in Tasks : "READY" \in status[t]}
  /\ \A s \in Sems :
       Range(list[s]) = {t \in Tasks : "PEND" \in status[t] /\ taskSem[t] = s}
  /\ Range(list[FreeList]) = {t \in Tasks : status[t] = {}}

\* No lost wake-up: nobody waits for a semaphore that has a token.
NoIdleToken == \A s \in Sems : semCount[s] > 0 => list[s] = << >>

\* Once multitasking started, the running task is on the run queue, and so is the
\* idle task: OsTskHighestSet never finds the queue empty, which would make
\* g_highestTask NULL and OsMainSchedule write through it.
RunningIsReady ==
  IF Active THEN {running, idleTaskId} \subseteq Range(list[RunQueue])
  ELSE running = Zombie /\ idleTaskId = NoTask

\* g_highestTask is never stale: after every call it is the task OsTskHighestSet
\* would find, although priorities change in three different places.
HighestIsCurrent ==
  highest = IF ListEmpty(list[RunQueue]) THEN NoTask
            ELSE FirstHighest(list[RunQueue], priority)

\* The three pools agree when a creation fails half-way: a stack is marked for
\* every TCB in use and no other, and a semaphore is unused or on the unused list,
\* never both.
PoolsConserved ==
  /\ stackMemUsed = Cardinality(InUse)
  /\ Range(unusedSem) = {s \in Sems : semStat[s] = "UNUSED"}
  /\ IsInjective(unusedSem)

\* Inheritance raises a task and gives back what it raised: whatever is posted or
\* waited for in whatever order, a task never runs below the priority it was
\* created with.
NeverDemoted == \A t \in InUse : priority[t] <= originalPriority[t]

\* A task whose entry function returned is never readied again, although
\* semaphores still name it as their holder and change its priority.
ExitedStaysExited ==
  [][\A t \in Tasks : Exited(t) => Exited(t)']_vars

\* The calls implement the abstract semaphore.
FifoSem == INSTANCE FifoSemaphore
             WITH Procs <- Tasks, MaxValue <- OS_SEM_COUNT_MAX,
                  made <- {s \in Sems : semStat[s] = "USED"},
                  value <- semCount,
                  waiting <- [s \in Sems |-> list[s]]
ImplementsFifoSemaphore == FifoSem!Spec
=============================================================================
