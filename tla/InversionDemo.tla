--------------------------- MODULE InversionDemo ---------------------------
(***************************************************************************)
(* The priority-inversion demo (test_priority_inversion.c), started by the   *)
(* shell's command demo in the running system.  Low takes the resource,      *)
(* creates High, which waits for it, then Mid, which does not need it.       *)
(*                                                                          *)
(* Busy loops are left out, and printing but for the ticks High waited: they *)
(* change nothing a task reads.                                             *)
(* A typed character is a whole command line (Kinds = {"enter"}).            *)
(***************************************************************************)
EXTENDS UartShell

CONSTANTS
  HighLoops, LowLoops,   \* MAX_LOOPS of TaskHigh and of TaskLow
  Overlapping            \* TRUE: demo is also typed while its tasks still run

ASSUME LoopsAssumption == /\ HighLoops \in Nat \ {0} /\ LowLoops \in Nat \ {0}
                          /\ Overlapping \in BOOLEAN

Prio == [high |-> 5, mid |-> 10, low |-> 15]

VARIABLES
  sharedResource,        \* g_sharedResource
  role, pc, loops,       \* of each task: what it is, where it is, its loopCount
  uses,                  \* the semaphore a task pended on last
  before,                \* of High: what it noted before it pended (tickBefore)
  waited                 \* of High: the wait it prints, and the real one

clockVars == <<before, waited>>
demoVars == <<sharedResource, role, pc, loops, uses, clockVars>>
demoSysVars == <<shellSysVars, demoVars>>

PoolsHaveTask == list[FreeList] # << >> /\ stackMemUsed < NumStacks

\* PRT_TaskCreate for task kind `r', whose first label is `first'.
CreateTask(r, first, handled) ==
  /\ PRT_TaskCreate(Prio[r])
  /\ LET t == Head(list[FreeList])
     IN  IF PoolsHaveTask
         THEN role' = [role EXCEPT ![t] = r] /\ pc' = [handled EXCEPT ![t] = first]
         ELSE role' = role /\ pc' = handled

\* PRT_TaskResume of the task just created, the one of its kind still suspended.
ResumeTask(r) == \E t \in Tasks : /\ role[t] = r /\ "SUSPEND" \in status[t]
                                  /\ PRT_TaskResume(t)

(***************************************************************************)
(* CreatePriorityInversionDemo, run by the shell.                           *)
(***************************************************************************)
DemoAlive == \E t \in Tasks : role[t] # "none" /\ pc[t] # "exited"

DemoCommand == /\ Overlapping \/ ~ DemoAlive
               /\ ShellAt("dispatch", "create_sem")
               /\ UNCHANGED <<vars, demoVars>>

DemoCreateSem ==
  /\ IF unusedSem = << >> THEN CommandReturns("create_sem") /\ UNCHANGED sharedResource
     ELSE ShellAt("create_sem", "create_low") /\ sharedResource' = Head(unusedSem)
  /\ PRT_SemCreate(1)
  /\ UNCHANGED <<role, pc, loops, uses, clockVars>>

DemoCreateLow ==
  /\ IF PoolsHaveTask THEN ShellAt("create_low", "resume_low")
     ELSE CommandReturns("create_low")
  /\ CreateTask("low", "take", pc)
  /\ UNCHANGED <<sharedResource, loops, uses, clockVars>>

DemoResumeLow == /\ CommandReturns("resume_low")
                 /\ ResumeTask("low")
                 /\ UNCHANGED demoVars

CreatePriorityInversionDemo ==
  DemoCommand \/ DemoCreateSem \/ DemoCreateLow \/ DemoResumeLow

(***************************************************************************)
(* The tasks.                                                               *)
(***************************************************************************)
TaskAt(t, r, here) == /\ Executing(t) /\ role[t] = r /\ pc[t] = here
                      /\ UNCHANGED <<envVars, rxVars, shellVars, sharedResource>>

Goto(t, next) == pc' = [pc EXCEPT ![t] = next]

Take(t, next) == /\ PRT_SemPend(sharedResource, "FOREVER")
                 /\ uses' = [uses EXCEPT ![t] = sharedResource]
                 /\ Goto(t, next)
                 /\ UNCHANGED <<role, loops>>

Give(t, next) == /\ PRT_SemPost(sharedResource)
                 /\ loops' = [loops EXCEPT ![t] = @ + 1]
                 /\ Goto(t, next)
                 /\ UNCHANGED <<role, uses>>

EntryReturns(t) == OsTaskExit /\ Goto(t, "exited") /\ UNCHANGED <<role, loops, uses>>

NoClock == [ticks |-> 0, periods |-> 0, blind |-> FALSE]

\* Fault: the ticks are read before the first round only.
FaultBeforeOnce(t) ==
  /\ loops[t] < HighLoops /\ TaskAt(t, "high", "before") /\ Goto(t, "take")
  /\ before' = [before EXCEPT ![t] =
       [ticks |-> IF loops[t] = 0 THEN ticks ELSE @.ticks,
        periods |-> elapsed, blind |-> handler # NoTask]]
  /\ UNCHANGED <<vars, role, loops, uses, waited>>

\* tickBefore; blind: a handler below has not ended.
HighBefore(t) ==
  /\ loops[t] < HighLoops /\ TaskAt(t, "high", "before") /\ Goto(t, "take")
  /\ before' = [before EXCEPT ![t] =
       [ticks |-> ticks, periods |-> elapsed, blind |-> handler # NoTask]]
  /\ UNCHANGED <<vars, role, loops, uses, waited>>

\* tickAfter - tickBefore.
HighAfter(t) ==
  /\ TaskAt(t, "high", "after") /\ Goto(t, "give")
  /\ waited' = [waited EXCEPT ![t] =
       [ticks |-> ticks - before[t].ticks, periods |-> elapsed - before[t].periods,
        blind |-> before[t].blind]]
  /\ before' = [before EXCEPT ![t] = NoClock]
  /\ UNCHANGED <<vars, role, loops, uses>>

TaskHigh(t) ==
  \/ HighBefore(t) \/ HighAfter(t)
  \/ /\ \/ TaskAt(t, "high", "take") /\ Take(t, "after")
        \/ TaskAt(t, "high", "give") /\ Give(t, "before")
        \/ loops[t] = HighLoops /\ TaskAt(t, "high", "before") /\ EntryReturns(t)
     /\ before' = before /\ waited' = [waited EXCEPT ![t] = NoClock]

TaskMid(t) == TaskAt(t, "mid", "run") /\ EntryReturns(t) /\ UNCHANGED clockVars

\* Without High the entry function returns at once, with the resource; without
\* Mid it goes on.
LowCreates(t) ==
  \/ /\ TaskAt(t, "low", "create_high")
     /\ CreateTask("high", "before",
          [pc EXCEPT ![t] = IF PoolsHaveTask THEN "resume_high" ELSE "return"])
  \/ /\ TaskAt(t, "low", "create_mid")
     /\ CreateTask("mid", "run",
          [pc EXCEPT ![t] = IF PoolsHaveTask THEN "resume_mid" ELSE "give"])

LowResumes(t) ==
  \/ TaskAt(t, "low", "resume_high") /\ ResumeTask("high") /\ Goto(t, "create_mid")
  \/ TaskAt(t, "low", "resume_mid") /\ ResumeTask("mid") /\ Goto(t, "give")

\* Fault: the resource is not released.
FaultNoRelease(t) == /\ TaskAt(t, "low", "give")
                     /\ Goto(t, "return")
                     /\ UNCHANGED <<vars, role, loops, uses>>

\* The resource is used and released; it is taken again but for the last time.
LowGives(t) ==
  TaskAt(t, "low", "give") /\ Give(t, IF loops[t] + 1 < LowLoops THEN "again" ELSE "return")

TaskLow(t) ==
  /\ \/ TaskAt(t, "low", "take") /\ Take(t, "create_high")
     \/ LowCreates(t) /\ UNCHANGED <<loops, uses>>
     \/ LowResumes(t) /\ UNCHANGED <<role, loops, uses>>
     \/ LowGives(t)
     \/ TaskAt(t, "low", "again") /\ Take(t, "give")
     \/ TaskAt(t, "low", "return") /\ EntryReturns(t)
  /\ UNCHANGED clockVars

-----------------------------------------------------------------------------
DemoInit ==
  /\ ShellInit
  /\ sharedResource = 0
  /\ role = [t \in Tasks |-> "none"]
  /\ pc = [t \in Tasks |-> "none"]
  /\ loops = [t \in Tasks |-> 0]
  /\ uses = [t \in Tasks |-> NoSem]
  /\ before = [t \in Tasks |-> NoClock] /\ waited = [t \in Tasks |-> NoClock]

DemoCode ==
  \/ /\ Boot \/ OsUartRxHandle \/ ShellPend \/ ShellRead \/ ShellCommand
     /\ UNCHANGED demoVars
  \/ CreatePriorityInversionDemo
  \/ \E t \in Tasks : TaskHigh(t) \/ TaskMid(t) \/ TaskLow(t)

DemoInterrupt == Interrupt /\ UNCHANGED demoVars

DemoNext == \/ DemoCode
            \/ DemoInterrupt
            \/ TimerExpires /\ UNCHANGED demoVars
            \/ \E kind \in Kinds : Type(kind) /\ UNCHANGED demoVars

\* ENABLED DemoCode: every task but idle has an instruction to execute.
DemoCodeReady == \/ running = handler /\ fifo # << >>
                 \/ running \notin {idleTaskId, handler}

DemoFairness == /\ []<>(~ DemoCodeReady) \/ []<><<DemoCode>>_demoSysVars
                /\ WF_demoSysVars(DemoInterrupt)

DemoSpec == DemoInit /\ [][DemoNext]_demoSysVars /\ DemoFairness

-----------------------------------------------------------------------------
WaitsForResource(t) == uses[t] # NoSem /\ t \in Range(list[uses[t]])
Holds(t) == ~ WaitsForResource(t) /\ uses[t] # NoSem /\ semOwner[uses[t]] = t

UsesResource == {t \in Tasks : /\ ~ WaitsForResource(t)
                               /\ \/ role[t] \in {"high", "low"} /\ pc[t] \in {"after", "give"}
                                  \/ role[t] = "low" /\ pc[t] \in
                                       {"create_high", "resume_high", "create_mid", "resume_mid"}}

\* test_priority_inversion.c:26: the resource is protected by a mutex.
ResourceExclusive == Cardinality(UsesResource) <= 1

\* The point of inheritance: while High waits for the resource nothing runs but the
\* holder, and so neither Mid nor the shell delays it.
OnlyHolderRuns ==
  \A h \in Tasks : role[h] = "high" /\ WaitsForResource(h) =>
    running = semOwner[uses[h]]

\* A task that gave the resource back runs at its own priority again.
PriorityReturned ==
  \A t \in Tasks : role[t] # "none" /\ ~ Holds(t) => priority[t] = Prio[role[t]]

\* What High prints as its wait is the time it waited, give or take a tick: unless
\* the handler that woke the shell for the command is still unfinished under the
\* demo, and then it prints 0 however long it waited.
WaitMeasured ==
  \A t \in Tasks :
    IF waited[t].blind THEN waited[t].ticks = 0
    ELSE waited[t].ticks - waited[t].periods \in {-1, 0, 1}

\* shmsg.c:229-230: the demo's tasks all end by themselves.  (That the shell goes
\* on afterwards is EveryCharacterIsRead.)
DemoEnds == \A t \in Tasks : role[t] # "none" ~> Exited(t)
=============================================================================
