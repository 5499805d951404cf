------------------------- MODULE MutexTasks_proofs -------------------------
(***************************************************************************)
(* The invariant of tasks that use semaphores as mutexes, and the theorems  *)
(* that follow from it.                                                     *)
(***************************************************************************)
EXTENDS MutexTasks, Kernel_proofs

\* A mutex is free, or a task holds it that can still give it back: the task was
\* resumed, has not ended, is not idle, and does not wait for the mutex itself.
Owners ==
  \A s \in Sems :
    /\ semStat[s] = "UNUSED" => semOwner[s] = NoTask
    /\ semStat[s] = "USED" /\ semCount[s] > 0 => semOwner[s] = NoTask
    /\ semStat[s] = "USED" /\ semCount[s] = 0 =>
         /\ semOwner[s] \in Tasks \ {idleTaskId}
         /\ State(semOwner[s]) \in {ReadyTask, WaitingTask}
         /\ semOwner[s] \notin Range(list[s])
    /\ semCount[s] \in {0, 1}

\* A task holds at most one mutex, and does not wait while it holds it.
Single ==
  \A s \in Sems : semOwner[s] \in Tasks =>
    /\ \A r \in Sems : semOwner[r] = semOwner[s] => r = s
    /\ State(semOwner[s]) = ReadyTask

\* A task not at its own priority holds a mutex and has the priority of the highest
\* of those that wait for it.
Boosts ==
  \A t \in InUse : priority[t] # originalPriority[t] =>
    \E s \in Sems :
      /\ semOwner[s] = t
      /\ \A w \in Range(list[s]) : priority[t] <= priority[w]
      /\ \E w \in Range(list[s]) : priority[w] <= priority[t]

Tops == Active => running = highest

MutexInv == /\ IInv
            /\ Owners
            /\ Single
            /\ Boosts
            /\ Tops

\* The priorities tasks were created with; idle alone is at the lowest.
Given ==
  /\ \A t \in InUse : t # idleTaskId => originalPriority[t] \in Prios
  /\ Active => originalPriority[idleTaskId] = OS_TSK_PRIORITY_LOWEST
Whole == IInv /\ Owners

-----------------------------------------------------------------------------
\* Every step of tasks with mutexes is a step of the kernel.
LEMMA MutexSteps == MutexNext => Next
BY DEF MutexNext, Next, Lock, Unlock, Finish

LEMMA OwnerFacts ==
  ASSUME Whole, NEW s \in Sems
  PROVE  /\ semOwner[s] \in Tasks \cup {NoTask}
         /\ semOwner[s] \in Tasks =>
              /\ semStat[s] = "USED" /\ semCount[s] = 0
              /\ semOwner[s] # idleTaskId
              /\ State(semOwner[s]) \in {ReadyTask, WaitingTask}
              /\ semOwner[s] \notin Range(list[s])
         /\ semStat[s] = "USED" /\ semCount[s] = 0 => semOwner[s] \in Tasks
         /\ \A t \in Tasks : s \in Held(t) <=> semOwner[s] = t
<1>1. /\ semOwner[s] \in Tasks \cup {NoTask} /\ semStat[s] \in {"UNUSED", "USED"}
      /\ semCount[s] \in Nat
  BY DEF Whole, IInv, RestType
<1>2. semOwner[s] \in Tasks => semStat[s] = "USED" /\ semCount[s] = 0
  BY <1>1, Names DEF Whole, Owners
<1>3. \A t \in Tasks : s \in Held(t) <=> semOwner[s] = t
  BY <1>2 DEF Held
<1> QED
  BY <1>1, <1>2, <1>3 DEF Whole, Owners

\* With one mutex at a time, a task that may take one holds none.
LEMMA HoldsNone ==
  ASSUME Whole, MaxHeld = 1, NEW t \in Tasks, Cardinality(Held(t)) < MaxHeld,
         NEW s \in Sems
  PROVE  semOwner[s] # t
<1>1. IsFiniteSet(Held(t))
  <2>1. IsFiniteSet(Sems)
    BY SizesAssumption, FS_Interval DEF Sems
  <2>2. Held(t) \subseteq Sems
    BY DEF Held
  <2> QED
    BY <2>1, <2>2, FS_Subset
<1>2. Cardinality(Held(t)) = 0
  BY <1>1, FS_CardinalityType
<1>3. Held(t) = {}
  BY <1>1, <1>2, FS_EmptySet
<1> QED
  BY <1>3, OwnerFacts

\* Who waits is in the state of a waiting task.
LEMMA Waiters ==
  ASSUME IInv, NEW s \in Sems, NEW w \in Range(list[s])
  PROVE  w \in Tasks /\ State(w) = WaitingTask /\ w # idleTaskId
<1>1. w \in Tasks
  BY Invariants, Names DEF ListType, Range
<1>2. "PEND" \in status[w]
  BY <1>1, OnWaitQueue, Invariants
<1>3. State(w) = WaitingTask
  BY <1>1, <1>2, States
<1>4. Active
  BY <1>1, <1>2 DEF IInv, BootOrRun
<1>5. idleTaskId \in Tasks /\ State(idleTaskId) = ReadyTask
  BY <1>4, States DEF IInv, BootOrRun
<1> QED
  BY <1>1, <1>3, <1>5 DEF ReadyTask, WaitingTask

-----------------------------------------------------------------------------
(***************************************************************************)
(* The calls.                                                               *)
(***************************************************************************)
LEMMA StutterOwners ==
  ASSUME Whole, UNCHANGED vars
  PROVE  Whole' /\ (MutexInv => MutexInv')
<1>1. IInv'
  BY StutterInv DEF Whole
<1>2. /\ semStat' = semStat /\ semOwner' = semOwner /\ semCount' = semCount
      /\ list' = list /\ idleTaskId' = idleTaskId /\ status' = status
      /\ priority' = priority /\ originalPriority' = originalPriority
      /\ uniFlag' = uniFlag /\ running' = running /\ highest' = highest
  BY DEF vars, schedVars, semVars, tskVars
<1>3. \A t : State(t)' = State(t)
  BY <1>2 DEF State
<1>4. Owners'
  BY <1>2, <1>3 DEF Whole, Owners
<1>5. Single => Single'
  BY <1>2, <1>3 DEF Single
<1>6. (Boosts => Boosts') /\ (Tops => Tops')
  BY <1>2 DEF Boosts, InUse, Tops, Active
<1> QED
  BY <1>1, <1>4, <1>5, <1>6 DEF Whole, MutexInv

\* A task that holds nothing and does not wait is created, resumed, made idle or ends:
\* the mutexes and the boosts stay what they are.
LEMMA Aside ==
  ASSUME Whole, IInv', UNCHANGED semVars, SameQueues(Sems),
         NEW t \in Tasks, NEW from, NEW to, Goes(t, from, to), from # WaitingTask,
         \A s \in Sems : semOwner[s] # t,
         idleTaskId' \in {idleTaskId, t},
         \A u \in Tasks \ {t} : /\ priority'[u] = priority[u]
                                /\ originalPriority'[u] = originalPriority[u],
         \/ priority'[t] = originalPriority'[t]
         \/ /\ from # FreeTask /\ priority'[t] = priority[t]
            /\ originalPriority'[t] = originalPriority[t]
  PROVE  Whole' /\ (Single => Single') /\ (Boosts => Boosts')
<1>1. /\ semStat' = semStat /\ semOwner' = semOwner /\ semCount' = semCount
      /\ \A s \in Sems : list'[s] = list[s]
  BY DEF semVars, SameQueues
<1>2. \A u \in Tasks \ {t} : State(u)' = State(u)
  BY DEF Goes
<1>4. Owners'
  BY <1>1, <1>2, Names DEF Whole, Owners, State
<1>5. ASSUME Single PROVE Single'
  BY <1>1, <1>2, <1>5 DEF Single, State
<1>6. ASSUME Boosts PROVE Boosts'
  <2> SUFFICES ASSUME NEW u \in InUse', priority'[u] # originalPriority'[u]
               PROVE  \E s \in Sems :
                        /\ semOwner[s] = u
                        /\ \A w \in Range(list[s]) : priority'[u] <= priority'[w]
                        /\ \E w \in Range(list[s]) : priority'[w] <= priority'[u]
    BY <1>1 DEF Boosts
  <2>1. u \in Tasks /\ State(u)' # FreeTask
    BY InUseNext DEF InUse
  <2>2. /\ priority'[u] = priority[u] /\ originalPriority'[u] = originalPriority[u]
        /\ State(u) # FreeTask
    BY <1>2, <2>1 DEF Goes
  <2>3. u \in InUse
    BY <2>1, <2>2, States DEF InUse, Whole
  <2>4. PICK s \in Sems : /\ semOwner[s] = u
                          /\ \A w \in Range(list[s]) : priority[u] <= priority[w]
                          /\ \E w \in Range(list[s]) : priority[w] <= priority[u]
    BY <1>6, <2>2, <2>3 DEF Boosts
  <2>5. \A w \in Range(list[s]) : priority'[w] = priority[w]
    <3>1. State(t) # WaitingTask
      BY DEF Goes
    <3> QED
      BY <3>1, Waiters DEF Whole
  <2> QED
    BY <2>2, <2>4, <2>5
<1> QED
  BY <1>4, <1>5, <1>6 DEF Whole

LEMMA CreateOwners ==
  ASSUME Whole, NEW p \in Prios, PRT_TaskCreate(p)
  PROVE  Whole' /\ (MutexInv => MutexInv')
<1>1. CASE TaskCreated(p)
  <2> DEFINE t == Head(list[FreeList])
  <2>1. p \in 0 .. OS_TSK_PRIORITY_LOWEST /\ IInv
    BY PriosAssumption DEF Whole
  <2>2. /\ IInv' /\ t \in Tasks /\ Goes(t, FreeTask, SuspendedTask) /\ SameQueues(Sems)
        /\ \A u \in Tasks \ {t} : /\ priority'[u] = priority[u]
                                  /\ originalPriority'[u] = originalPriority[u]
        /\ priority'[t] = p /\ originalPriority'[t] = p
    BY <1>1, <2>1, TaskCreatedInv
  <2>3. /\ UNCHANGED semVars /\ idleTaskId' = idleTaskId
        /\ running' = running /\ highest' = highest /\ uniFlag' = uniFlag
    BY <1>1 DEF TaskCreated
  <2>4. FreeTask \notin {ReadyTask, WaitingTask}
    BY DEF FreeTask, ReadyTask, WaitingTask
  <2> HIDE DEF t
  <2>5. \A s \in Sems : semOwner[s] # t
    BY <2>2, <2>4, OwnerFacts DEF Goes
  <2>6. Whole' /\ (Single => Single') /\ (Boosts => Boosts')
    BY <2>2, <2>3, <2>4, <2>5, Aside
  <2> QED
    BY <2>3, <2>6 DEF Whole, MutexInv, Tops, Active
<1>2. CASE TaskNotCreated
  <2>1. /\ IInv' /\ SameQueues(Sems)
        /\ UNCHANGED <<status, priority, highest, running, uniFlag>>
        /\ UNCHANGED semVars /\ UNCHANGED tskVars
    BY <1>2, TaskNotCreatedInv DEF Whole
  <2>2. \A t : State(t)' = State(t)
    BY <2>1 DEF State
  <2>3. \A s \in Sems : list'[s] = list[s]
    BY <2>1 DEF SameQueues
  <2>4. Owners'
    BY <2>1, <2>2, <2>3 DEF Whole, Owners, semVars, tskVars
  <2>5. Single => Single'
    BY <2>1, <2>2 DEF Single, semVars
  <2>6. (Boosts => Boosts') /\ (Tops => Tops')
    BY <2>1, <2>3 DEF Boosts, InUse, Tops, Active, semVars, tskVars
  <2> QED
    BY <2>1, <2>4, <2>5, <2>6 DEF Whole, MutexInv
<1> QED
  BY <1>1, <1>2 DEF PRT_TaskCreate

LEMMA ResumeOwners ==
  ASSUME Whole, NEW t \in Tasks, PRT_TaskResume(t)
  PROVE  Whole' /\ (MutexInv => MutexInv')
<1>1. CASE \E code \in ErrorCodes : Fail(code)
  BY <1>1, StutterOwners DEF Fail
<1>2. CASE /\ "SUSPEND" \in status[t]
           /\ SetSched(OsMoveTaskToReady([Sched EXCEPT !.status[t] = @ \ {"SUSPEND"}], t))
           /\ UNCHANGED <<semVars, tskVars>>
  <2>1. UNCHANGED semVars /\ UNCHANGED tskVars
    BY <1>2
  <2>2. /\ IInv' /\ Goes(t, SuspendedTask, ReadyTask)
        /\ SameQueues(Sems) /\ priority' = priority
        /\ Active' <=> Active
        /\ IF Active THEN running' = highest' ELSE running' = running
    BY <1>2, <2>1, ResumeInv DEF Whole
  <2>3. SuspendedTask \notin {FreeTask, ReadyTask, WaitingTask}
    BY DEF SuspendedTask, FreeTask, ReadyTask, WaitingTask
  <2>4. \A s \in Sems : semOwner[s] # t
    BY <2>2, <2>3, OwnerFacts DEF Goes
  <2>5. Whole' /\ (Single => Single') /\ (Boosts => Boosts')
    BY <2>1, <2>2, <2>3, <2>4, Aside DEF tskVars
  <2> QED
    BY <2>2, <2>5 DEF Whole, MutexInv, Tops
<1> QED
  BY <1>1, <1>2 DEF PRT_TaskResume, ErrorCodes

LEMMA FinishOwners ==
  ASSUME Whole, Finish
  PROVE  Whole' /\ (MutexInv => MutexInv')
<1> DEFINE t == running
<1>1. /\ IInv' /\ t \in Tasks /\ Goes(t, ReadyTask, ExitedTask)
      /\ SameQueues(Sems) /\ priority' = priority /\ running' = highest'
  BY OsTaskExitInv DEF Whole, Finish
<1>2. UNCHANGED semVars /\ UNCHANGED tskVars
  BY DEF Finish, OsTaskExit
<1>3. \A s \in Sems : semOwner[s] # t
  BY <1>1, OwnerFacts DEF Finish
<1> HIDE DEF t
<1>4. ReadyTask \notin {FreeTask, WaitingTask}
  BY DEF FreeTask, ReadyTask, WaitingTask
<1>5. Whole' /\ (Single => Single') /\ (Boosts => Boosts')
  BY <1>1, <1>2, <1>3, <1>4, Aside DEF tskVars
<1> QED
  BY <1>1, <1>5 DEF Whole, MutexInv, Tops

LEMMA ActivateOwners ==
  ASSUME Whole, OsActivate
  PROVE  Whole' /\ (MutexInv => MutexInv')
<1> DEFINE t == Head(list[FreeList])
<1>1. /\ IInv' /\ t \in Tasks /\ Goes(t, FreeTask, ReadyTask) /\ SameQueues(Sems)
      /\ \A u \in Tasks \ {t} : /\ priority'[u] = priority[u]
                                /\ originalPriority'[u] = originalPriority[u]
      /\ priority'[t] = OS_TSK_PRIORITY_LOWEST
      /\ originalPriority'[t] = OS_TSK_PRIORITY_LOWEST
      /\ running' = highest' /\ idleTaskId' = t
  BY OsActivateInv DEF Whole
<1>2. UNCHANGED semVars
  BY DEF OsActivate
<1>3. FreeTask \notin {ReadyTask, WaitingTask}
  BY DEF FreeTask, ReadyTask, WaitingTask
<1> HIDE DEF t
<1>4. \A s \in Sems : semOwner[s] # t
  BY <1>1, <1>3, OwnerFacts DEF Goes
<1>5. Whole' /\ (Single => Single') /\ (Boosts => Boosts')
  BY <1>1, <1>2, <1>3, <1>4, Aside
<1> QED
  BY <1>1, <1>5 DEF Whole, MutexInv, Tops
\* A new mutex is free.
LEMMA SemCreateOwners ==
  ASSUME Whole, NEW c \in InitCounts, PRT_SemCreate(c)
  PROVE  Whole' /\ (MutexInv => MutexInv')
<1> DEFINE s == Head(unusedSem)
<1>1. c = 1 /\ c \in Nat
  BY MutexAssumption
<1>2. CASE UNCHANGED vars
  BY <1>2, StutterOwners
<1>3. CASE /\ IInv' /\ s \in Sems /\ semStat[s] = "UNUSED"
           /\ semCount' = [semCount EXCEPT ![s] = c]
           /\ semStat' = [semStat EXCEPT ![s] = "USED"]
           /\ semOwner' = [semOwner EXCEPT ![s] = NoTask]
           /\ UNCHANGED schedVars /\ UNCHANGED tskVars
  <2> HIDE DEF s
  <2>1. \A r \in Sems :
          /\ semCount'[r] = IF r = s THEN 1 ELSE semCount[r]
          /\ semStat'[r] = IF r = s THEN "USED" ELSE semStat[r]
          /\ semOwner'[r] = IF r = s THEN NoTask ELSE semOwner[r]
    BY <1>1, <1>3 DEF Whole, IInv, RestType
  <2>2. semOwner[s] = NoTask
    BY <1>3 DEF Whole, Owners
  <2>3. \A r \in Sems : semOwner'[r] = semOwner[r]
    BY <2>1, <2>2
  <2>4. Owners'
    BY <1>3, <2>1, <2>3 DEF Whole, Owners, State, schedVars, tskVars
  <2>5. Single => Single'
    BY <1>3, <2>3 DEF Single, State, schedVars
  <2>6. (Boosts => Boosts') /\ (Tops => Tops')
    BY <1>3, <2>3 DEF Boosts, InUse, Tops, Active, schedVars, tskVars
  <2> QED
    BY <1>3, <2>4, <2>5, <2>6 DEF Whole, MutexInv
<1> QED
  BY <1>1, <1>2, <1>3, SemCreateInv DEF Whole

LEMMA TakeOwners ==
  ASSUME Whole, TaskRuns, NEW s \in Sems, semStat[s] = "USED", SemPendTake(s),
         Cardinality(Held(running)) < MaxHeld
  PROVE  Whole' /\ (MaxHeld = 1 /\ MutexInv => MutexInv')
<1>1. PICK t \in Tasks : t = running
  BY DEF TaskRuns
<1>2. /\ semCount[s] > 0
      /\ semCount' = [semCount EXCEPT ![s] = @ - 1]
      /\ semOwner' = [semOwner EXCEPT ![s] = t]
      /\ semStat' = semStat /\ UNCHANGED schedVars /\ UNCHANGED tskVars
  BY <1>1 DEF SemPendTake
<1>3. semCount[s] = 1 /\ semOwner[s] = NoTask
  BY <1>2 DEF Whole, Owners
<1>4. \A r \in Sems : /\ semCount'[r] = IF r = s THEN 0 ELSE semCount[r]
                      /\ semOwner'[r] = IF r = s THEN t ELSE semOwner[r]
  BY <1>2, <1>3 DEF Whole, IInv, RestType
<1>5. State(t) = ReadyTask /\ t # idleTaskId
  <2>1. "READY" \in status[t]
    BY <1>1, Names DEF TaskRuns, CallerRuns, Whole, IInv, BootOrRun
  <2> QED
    BY <1>1, <2>1, States DEF TaskRuns, CallerRuns, Whole
<1>6. Range(list[s]) = {}
  <2>1. list[s] = << >>
    BY <1>2 DEF Whole, IInv, NoIdleToken
  <2> QED
    BY <2>1, EmptySeq DEF Range
<1>7. IInv'
  BY SemPendTakeInv DEF Whole
<1>8. Owners'
  BY <1>2, <1>4, <1>5, <1>6 DEF Whole, Owners, State, schedVars, tskVars
<1>9. ASSUME MaxHeld = 1, MutexInv PROVE MutexInv'
  <2>1. \A r \in Sems : semOwner[r] # t
    BY <1>1, <1>9, HoldsNone
  <2>2. Single'
    BY <1>2, <1>4, <1>5, <1>9, <2>1 DEF MutexInv, Single, State, schedVars
  <2>3. Boosts'
    <3>1. ASSUME NEW r \in Sems, semOwner[r] \in Tasks PROVE semOwner'[r] = semOwner[r]
      BY <1>3, <1>4, <3>1, Names
    <3> QED
      BY <1>2, <1>9, <3>1 DEF MutexInv, Boosts, InUse, schedVars, tskVars
  <2>4. Tops'
    BY <1>2, <1>9 DEF MutexInv, Tops, Active, schedVars
  <2> QED
    BY <1>7, <1>8, <2>2, <2>3, <2>4 DEF MutexInv
<1> QED
  BY <1>7, <1>8, <1>9 DEF Whole

\* The holder is raised to the priority of the highest waiter.
LEMMA BlockOwners ==
  ASSUME Whole, TaskRuns, NEW s \in Sems, semStat[s] = "USED",
         SemPendBlock(s, "FOREVER"), semOwner[s] # running,
         Cardinality(Held(running)) < MaxHeld
  PROVE  /\ Whole'
         /\ MaxHeld = 1 /\ MutexInv => MutexInv'
         /\ \A w \in Range(list'[s]) : priority'[semOwner[s]] <= priority'[w]
         /\ SameQueues(Sems \ {s})
<1>1. PICK t \in Tasks : t = running
  BY DEF TaskRuns
<1>2. PICK o \in Tasks : o = semOwner[s]
  BY OwnerFacts DEF SemPendBlock
<1>3. /\ UNCHANGED semVars /\ idleTaskId' = idleTaskId
      /\ originalPriority' = originalPriority
  BY DEF SemPendBlock
<1>4. /\ o # t /\ o # idleTaskId /\ o \notin Range(list[s])
      /\ State(o) \in {ReadyTask, WaitingTask} /\ HasOwner(Sched, s)
  <2>1. /\ o # t /\ o # idleTaskId /\ o \notin Range(list[s])
        /\ State(o) \in {ReadyTask, WaitingTask}
    BY <1>1, <1>2, OwnerFacts
  <2>2. status[o] # {}
    BY <2>1, States DEF Whole, ReadyTask, WaitingTask, FreeTask
  <2> QED
    BY <1>2, <2>1, <2>2, Names, Invariants DEF HasOwner, Whole
<1>5. /\ IInv' /\ Goes(t, ReadyTask, WaitingTask)
      /\ list'[s] = Append(list[s], t) /\ SameQueues(Sems \ {s})
      /\ running' = highest'
      /\ \A u \in Tasks : u # o => priority'[u] = priority[u]
      /\ \A w \in Range(list'[s]) : priority'[o] <= priority[w]
      /\ \/ priority'[o] = priority[o]
         \/ \E w \in Range(list'[s]) : priority'[o] = priority[w]
  BY <1>1, <1>2, <1>4, SemPendBlockInv DEF Whole
<1>6. list[s] \in Seq(Tasks) /\ Range(list'[s]) = Range(list[s]) \cup {t}
  <2>1. list[s] \in Seq(Tasks)
    BY Invariants, Names DEF ListType, Whole
  <2>2. PICK l \in Seq(Tasks) : l = list[s]
    BY <2>1
  <2>3. list'[s] = Append(l, t) /\ t \in Tasks
    BY <1>5, <2>2
  <2>4. Range(Append(l, t)) = Range(l) \cup {t}
    BY <2>3, RangeOfAppend
  <2> QED
    BY <2>2, <2>3, <2>4
<1>7. o \notin Range(list'[s]) /\ Range(list'[s]) \subseteq Tasks
  BY <1>4, <1>6, Waiters DEF Whole
<1>8. /\ \A r \in Sems : r # s => list'[r] = list[r]
      /\ \A r \in Sems : semOwner'[r] = semOwner[r]
      /\ \A u \in Tasks \ {t} : State(u)' = State(u)
      /\ State(t)' = WaitingTask
  BY <1>3, <1>5 DEF SameQueues, Goes, semVars
<1>9. Owners'
  <2> SUFFICES ASSUME NEW r \in Sems, semOwner[r] \in Tasks
               PROVE  /\ State(semOwner[r])' \in {ReadyTask, WaitingTask}
                      /\ semOwner[r] \notin Range(list'[r])
    BY <1>3, OwnerFacts DEF Whole, Owners, semVars
  <2>1. semOwner[r] \notin Range(list'[r])
    BY <1>2, <1>7, <1>8, OwnerFacts
  <2>2. State(semOwner[r])' \in {ReadyTask, WaitingTask}
    BY <1>8, OwnerFacts DEF State
  <2> QED
    BY <2>1, <2>2
<1>10. ASSUME MaxHeld = 1, MutexInv PROVE MutexInv'
  <2>1. \A r \in Sems : semOwner[r] # t
    BY <1>1, <1>10, HoldsNone
  <2>2. Single'
    BY <1>3, <1>8, <1>10, <2>1 DEF MutexInv, Single, State, semVars
  <2>3. State(o) = ReadyTask /\ \A r \in Sems : semOwner[r] = o => r = s
    BY <1>2, <1>10 DEF MutexInv, Single
  <2>4. \A r \in Sems : o \notin Range(list'[r])
    <3>1. \A r \in Sems : o \notin Range(list[r])
      BY <2>3, Waiters DEF Whole, ReadyTask, WaitingTask
    <3> QED
      BY <1>7, <1>8, <3>1
  <2>5. \A r \in Sems : \A w \in Range(list'[r]) : priority'[w] = priority[w]
    <3>1. \A r \in Sems : Range(list'[r]) \subseteq Tasks
      BY <1>7, <1>8, Waiters DEF Whole
    <3> QED
      BY <1>5, <2>4, <3>1
  <2>6. Boosts'
    <3> SUFFICES ASSUME NEW u \in InUse', priority'[u] # originalPriority[u]
                 PROVE  \E r \in Sems :
                          /\ semOwner[r] = u
                          /\ \A w \in Range(list'[r]) : priority'[u] <= priority[w]
                          /\ \E w \in Range(list'[r]) : priority[w] <= priority'[u]
      BY <1>3, <2>5 DEF Boosts, semVars
    <3>1. u \in Tasks /\ u \in InUse
      <4>1. u \in Tasks /\ State(u)' # FreeTask
        BY <1>5, InUseNext DEF InUse
      <4>2. State(u) # FreeTask
        BY <1>5, <4>1 DEF Goes, ReadyTask, FreeTask
      <4> QED
        BY <4>1, <4>2, States DEF InUse, Whole
    <3>2. CASE priority'[u] = priority[u]
      <4>1. PICK r \in Sems : /\ semOwner[r] = u
                              /\ \A w \in Range(list[r]) : priority[u] <= priority[w]
                              /\ \E w \in Range(list[r]) : priority[w] <= priority[u]
        BY <1>10, <3>1, <3>2 DEF MutexInv, Boosts
      <4>2. CASE r = s
        BY <1>2, <1>5, <1>6, <3>2, <4>1, <4>2
      <4>3. CASE r # s
        BY <1>8, <3>2, <4>1, <4>3
      <4> QED
        BY <4>2, <4>3
    <3>3. CASE priority'[u] # priority[u]
      <4>1. u = o
        BY <1>5, <3>1, <3>3
      <4>2. PICK w \in Range(list'[s]) : priority'[o] = priority[w]
        BY <1>5, <3>3, <4>1
      <4>3. priority[w] <= priority'[o]
        BY <1>5, <4>2
      <4> QED
        BY <1>2, <1>5, <4>1, <4>3
    <3> QED
      BY <3>2, <3>3
  <2> QED
    BY <1>5, <1>9, <1>10, <2>2, <2>6 DEF MutexInv, Tops
<1>11. \A w \in Range(list'[s]) : priority'[semOwner[s]] <= priority'[w]
  BY <1>2, <1>5, <1>7
<1> QED
  BY <1>5, <1>9, <1>10, <1>11 DEF Whole
\* Nobody waits: the mutex is free again, and there was nothing to give back.
LEMMA KeepOwners ==
  ASSUME Whole, TaskRuns, NEW s \in Sems, semStat[s] = "USED", s \in Held(running),
         SemPostKeep(s)
  PROVE  Whole' /\ (MutexInv => MutexInv')
<1>1. PICK o \in Tasks : o = running /\ o = semOwner[s]
  BY OwnerFacts DEF TaskRuns
<1>2. /\ semCount' = [semCount EXCEPT ![s] = @ + 1] /\ semCount[s] = 0
      /\ semOwner' = [semOwner EXCEPT ![s] = NoTask]
      /\ semStat' = semStat /\ UNCHANGED tskVars /\ list[s] = << >>
  BY <1>1, OwnerFacts DEF SemPostKeep, ListEmpty
<1>3. \A r \in Sems : /\ semCount'[r] = IF r = s THEN 1 ELSE semCount[r]
                      /\ semOwner'[r] = IF r = s THEN NoTask ELSE semOwner[r]
  BY <1>2 DEF Whole, IInv, RestType
<1>4. /\ IInv' /\ status' = status /\ running' = running /\ uniFlag' = uniFlag
      /\ \A r \in Sems : list'[r] = list[r]
      /\ \/ priority[o] # originalPriority[o]
         \/ priority' = priority /\ highest' = highest
  BY <1>1, SemPostKeepInv DEF Whole, SameQueues
<1>5. Owners'
  BY <1>2, <1>3, <1>4, Names DEF Whole, Owners, State, tskVars
<1>6. ASSUME MutexInv PROVE MutexInv'
  <2>1. \A r \in Sems : semOwner[r] = o => r = s
    BY <1>1, <1>6 DEF MutexInv, Single
  <2>2. priority' = priority /\ highest' = highest
    <3>1. Range(list[s]) = {}
      BY <1>2, EmptySeq DEF Range
    <3>2. o \in InUse
      BY <1>1, OwnerFacts, States
         DEF Whole, InUse, ReadyTask, WaitingTask, FreeTask
    <3>3. priority[o] = originalPriority[o]
      BY <1>6, <2>1, <3>1, <3>2 DEF MutexInv, Boosts
    <3> QED
      BY <1>4, <3>3
  <2>3. Single'
    BY <1>3, <1>4, <1>6, Names DEF MutexInv, Single, State
  <2>4. Boosts'
    <3> SUFFICES ASSUME NEW u \in InUse, priority[u] # originalPriority[u]
                 PROVE  \E r \in Sems :
                          /\ semOwner'[r] = u
                          /\ \A w \in Range(list[r]) : priority[u] <= priority[w]
                          /\ \E w \in Range(list[r]) : priority[w] <= priority[u]
      BY <1>2, <1>4, <2>2 DEF Boosts, InUse, tskVars
    <3>1. PICK r \in Sems : /\ semOwner[r] = u
                            /\ \A w \in Range(list[r]) : priority[u] <= priority[w]
                            /\ \E w \in Range(list[r]) : priority[w] <= priority[u]
      BY <1>6 DEF MutexInv, Boosts
    <3>2. r # s
      BY <1>2, <3>1, EmptySeq DEF Range
    <3> QED
      BY <1>3, <3>1, <3>2
  <2>5. Tops'
    BY <1>4, <1>6, <2>2 DEF MutexInv, Tops, Active
  <2> QED
    BY <1>4, <1>5, <2>3, <2>4, <2>5 DEF MutexInv
<1> QED
  BY <1>4, <1>5, <1>6 DEF Whole

\* The mutex goes to the first waiter, and the old holder is back at its own priority.
LEMMA WakeOwners ==
  ASSUME Whole, TaskRuns, NEW s \in Sems, semStat[s] = "USED", s \in Held(running),
         SemPostWake(s)
  PROVE  Whole' /\ (MutexInv => MutexInv')
<1>1. PICK o \in Tasks : o = running /\ o = semOwner[s]
  BY OwnerFacts DEF TaskRuns
<1>2. PICK t \in Tasks : t = Head(list[s])
  BY SemPostWakeInv DEF Whole
<1>3. /\ semCount[s] = 0 /\ semOwner' = [semOwner EXCEPT ![s] = t]
      /\ semStat' = semStat /\ semCount' = semCount /\ list[s] # << >>
      /\ idleTaskId' = idleTaskId /\ originalPriority' = originalPriority
  BY <1>1, <1>2, OwnerFacts DEF SemPostWake, ListEmpty
<1>4. \A r \in Sems : semOwner'[r] = IF r = s THEN t ELSE semOwner[r]
  BY <1>3 DEF Whole, IInv, RestType
<1>5. /\ IInv' /\ Goes(t, WaitingTask, ReadyTask)
      /\ list'[s] = Tail(list[s]) /\ \A r \in Sems \ {s} : list'[r] = list[r]
      /\ running' = highest'
      /\ \A u \in Tasks : u # o => priority'[u] = priority[u]
      /\ priority[o] = originalPriority[o] => priority' = priority
      /\ \/ priority'[o] = originalPriority[o]
         \/ \E w \in Range(list[s]) : priority'[o] = priority[w] /\ priority[w] < priority[o]
         \/ priority' = priority /\ ~ HasOwner(Sched, s)
  BY <1>1, <1>2, SemPostWakeInv DEF Whole, SameQueues
<1>6. HasOwner(Sched, s)
  <2>1. status[o] # {}
    BY <1>1, OwnerFacts, States DEF Whole, ReadyTask, WaitingTask, FreeTask
  <2> QED
    BY <1>1, <2>1, Names, Invariants DEF HasOwner, Whole
<1>7. Range(list'[s]) = Range(list[s]) \ {t} /\ t \in Range(list[s])
  <2>1. list[s] \in Seq(Tasks) /\ Enumerates(list[s], Range(list[s]))
    BY Invariants, Names DEF ListType, LinksOK, Enumerates, Whole
  <2>2. ListDelete(list[s], t) = Tail(list[s])
    BY <1>2, <1>3, <2>1, DeleteHead DEF Enumerates
  <2>3. Enumerates(ListDelete(list[s], t), Range(list[s]) \ {t})
    BY <2>1, DeleteList
  <2>4. t \in Range(list[s])
    BY <1>2, <1>3, <2>1, HeadOfList
  <2> QED
    BY <1>5, <2>2, <2>3, <2>4 DEF Enumerates
<1>8. /\ State(t) = WaitingTask /\ State(t)' = ReadyTask /\ t # idleTaskId
      /\ \A u \in Tasks \ {t} : State(u)' = State(u)
  BY <1>5, <1>7, Waiters DEF Goes, Whole
<1>9. \A r \in Sems : Range(list'[r]) \subseteq Range(list[r])
  BY <1>5, <1>7
<1>10. Owners'
  <2> SUFFICES ASSUME NEW r \in Sems, semOwner'[r] \in Tasks
               PROVE  /\ semOwner'[r] # idleTaskId
                      /\ State(semOwner[r])' \in {ReadyTask, WaitingTask}
                      /\ semOwner'[r] \notin Range(list'[r])
    BY <1>3, <1>4, OwnerFacts DEF Whole, Owners
  <2>1. CASE r = s
    BY <1>4, <1>7, <1>8, <2>1 DEF State
  <2>2. CASE r # s
    BY <1>4, <1>8, <1>9, <2>2, OwnerFacts DEF State
  <2> QED
    BY <2>1, <2>2
<1>11. ASSUME MutexInv PROVE MutexInv'
  <2>1. \A r \in Sems : semOwner[r] # t
    BY <1>8, <1>11 DEF MutexInv, Single, ReadyTask, WaitingTask
  <2>2. Single'
    BY <1>4, <1>8, <1>11, <2>1 DEF MutexInv, Single, State
  <2>3. \A r \in Sems : semOwner[r] = o => r = s
    BY <1>1, <1>11 DEF MutexInv, Single
  <2>4. \A r \in Sems : o \notin Range(list[r])
    BY <1>1, <1>11, Waiters DEF Whole, MutexInv, Single, ReadyTask, WaitingTask
  <2>5. priority'[o] = originalPriority[o]
    <3>1. o \in InUse
      BY <1>1, OwnerFacts, States
         DEF Whole, InUse, ReadyTask, WaitingTask, FreeTask
    <3>2. CASE priority[o] = originalPriority[o]
      BY <1>5, <3>2
    <3>3. CASE priority[o] # originalPriority[o]
      <4>1. \A w \in Range(list[s]) : priority[o] <= priority[w]
        BY <1>11, <2>3, <3>1, <3>3 DEF MutexInv, Boosts
      <4>2. ASSUME NEW w \in Range(list[s]) PROVE ~ (priority[w] < priority[o])
        <5>1. priority[w] \in Nat /\ priority[o] \in Nat
          BY Waiters, PriorityNat, Invariants DEF Whole
        <5> QED
          BY <4>1, <5>1
      <4> QED
        BY <1>5, <1>6, <4>2
    <3> QED
      BY <3>2, <3>3
  <2>6. Boosts'
    <3> SUFFICES ASSUME NEW u \in InUse', priority'[u] # originalPriority[u]
                 PROVE  \E r \in Sems :
                          /\ semOwner'[r] = u
                          /\ \A w \in Range(list'[r]) : priority'[u] <= priority'[w]
                          /\ \E w \in Range(list'[r]) : priority'[w] <= priority'[u]
      BY <1>3 DEF Boosts
    <3>1. u \in Tasks /\ State(u)' # FreeTask
      BY <1>5, InUseNext DEF InUse
    <3>2. u \in InUse
      <4>1. State(u) # FreeTask
        BY <1>8, <3>1 DEF WaitingTask, FreeTask
      <4> QED
        BY <3>1, <4>1, States DEF InUse, Whole
    <3>3. u # o /\ priority'[u] = priority[u]
      BY <1>5, <2>5, <3>1
    <3>4. PICK r \in Sems : /\ semOwner[r] = u
                            /\ \A w \in Range(list[r]) : priority[u] <= priority[w]
                            /\ \E w \in Range(list[r]) : priority[w] <= priority[u]
      BY <1>11, <3>2, <3>3 DEF MutexInv, Boosts
    <3>5. r # s
      BY <1>1, <3>3, <3>4
    <3>6. \A w \in Range(list[r]) : priority'[w] = priority[w]
      BY <1>5, <2>4, Waiters DEF Whole
    <3> QED
      BY <1>4, <1>5, <3>3, <3>4, <3>5, <3>6
  <2> QED
    BY <1>5, <1>10, <2>2, <2>6 DEF MutexInv, Tops
<1> QED
  BY <1>5, <1>10, <1>11 DEF Whole

-----------------------------------------------------------------------------
\* What HolderRaisedOnWait says of a step.
Raised ==
  \A s \in Sems :
    Len(list'[s]) > Len(list[s]) =>
      \A w \in Range(list'[s]) : priority'[semOwner[s]] <= priority'[w]

LEMMA NoneJoins ==
  ASSUME IInv,
         \A s \in Sems : \/ list'[s] = list[s]
                         \/ list[s] # << >> /\ list'[s] = Tail(list[s])
  PROVE  Raised
<1> SUFFICES ASSUME NEW s \in Sems
             PROVE  ~ (Len(list'[s]) > Len(list[s]))
  BY DEF Raised
<1>1. list[s] \in Seq(Tasks)
  BY Invariants, Names DEF ListType
<1>2. Len(list[s]) \in Nat
  BY <1>1, LenProperties
<1>3. CASE list'[s] = list[s]
  BY <1>2, <1>3
<1>4. CASE list[s] # << >> /\ list'[s] = Tail(list[s])
  <2>1. Len(list'[s]) = Len(list[s]) - 1
    BY <1>1, <1>4, HeadTailProperties
  <2> QED
    BY <1>2, <2>1
<1> QED
  BY <1>3, <1>4

LEMMA LockStep ==
  ASSUME "TICKS" \notin Timeouts, Whole,
         NEW s \in Sems, NEW timeout \in Timeouts, Lock(s, timeout)
  PROVE  Whole' /\ (MaxHeld = 1 /\ MutexInv => MutexInv') /\ Raised
<1>1. CASE \E code \in ErrorCodes : Fail(code)
  <2>1. UNCHANGED vars
    BY <1>1 DEF Fail
  <2> QED
    BY <2>1, StutterOwners, NoneJoins DEF vars, schedVars, Whole
<1>2. CASE semStat[s] = "USED" /\ SemPendTake(s)
  <2>1. list' = list
    BY <1>2 DEF SemPendTake, schedVars
  <2> QED
    BY <1>2, <2>1, TakeOwners, NoneJoins DEF Lock, PRT_SemPend, Whole
<1>3. CASE semStat[s] = "USED" /\ SemPendBlock(s, timeout)
  <2>1. timeout = "FOREVER"
    BY <1>3, TimeoutsAssumption DEF SemPendBlock
  <2>2. /\ Whole' /\ (MaxHeld = 1 /\ MutexInv => MutexInv')
        /\ \A w \in Range(list'[s]) : priority'[semOwner[s]] <= priority'[w]
        /\ SameQueues(Sems \ {s})
    BY <1>3, <2>1, BlockOwners DEF Lock, PRT_SemPend
  <2>3. Raised
    <3> SUFFICES ASSUME NEW r \in Sems, Len(list'[r]) > Len(list[r])
                 PROVE  r = s
      BY <2>2 DEF Raised
    <3>1. list[r] \in Seq(Tasks)
      BY Invariants, Names DEF ListType, Whole
    <3>2. Len(list[r]) \in Nat
      BY <3>1, LenProperties
    <3> QED
      BY <2>2, <3>2 DEF SameQueues
  <2> QED
    BY <2>2, <2>3
<1> QED
  BY <1>1, <1>2, <1>3 DEF Lock, PRT_SemPend, ErrorCodes

LEMMA UnlockStep ==
  ASSUME Whole, NEW s \in Sems, Unlock(s)
  PROVE  Whole' /\ (MutexInv => MutexInv') /\ Raised
<1>1. CASE \E code \in ErrorCodes : Fail(code)
  <2>1. UNCHANGED vars
    BY <1>1 DEF Fail
  <2> QED
    BY <2>1, StutterOwners, NoneJoins DEF vars, schedVars, Whole
<1>2. CASE semStat[s] = "USED" /\ SemPostKeep(s)
  <2>1. SameQueues(Sems)
    BY <1>2, SemPostKeepInv DEF Whole
  <2> QED
    BY <1>2, <2>1, KeepOwners, NoneJoins DEF Unlock, SameQueues, Whole
<1>3. CASE semStat[s] = "USED" /\ SemPostWake(s)
  <2>1. /\ list'[s] = Tail(list[s]) /\ SameQueues(Sems \ {s})
        /\ list[s] # << >>
    BY <1>3, SemPostWakeInv DEF Whole, SemPostWake, ListEmpty
  <2> QED
    BY <1>3, <2>1, WakeOwners, NoneJoins DEF Unlock, SameQueues, Whole
<1> QED
  BY <1>1, <1>2, <1>3 DEF Unlock, PRT_SemPost, ErrorCodes

\* The other calls leave the wait queues alone.
LEMMA OtherRaised ==
  ASSUME IInv,
         \/ UNCHANGED vars
         \/ \E p \in Prios : PRT_TaskCreate(p)
         \/ \E t \in Tasks : PRT_TaskResume(t)
         \/ OsTaskExit
         \/ OsActivate
         \/ \E c \in InitCounts : PRT_SemCreate(c)
  PROVE  Raised
<1>1. CASE UNCHANGED vars
  BY <1>1, NoneJoins DEF vars, schedVars
<1>2. ASSUME NEW p \in Prios, PRT_TaskCreate(p) PROVE Raised
  <2>1. SameQueues(Sems)
    BY <1>2, PriosAssumption, TaskCreatedInv, TaskNotCreatedInv DEF PRT_TaskCreate
  <2> QED
    BY <2>1, NoneJoins DEF SameQueues
<1>3. ASSUME NEW t \in Tasks, PRT_TaskResume(t) PROVE Raised
  <2>1. CASE \E code \in ErrorCodes : Fail(code)
    BY <1>1, <2>1 DEF Fail
  <2>2. CASE /\ "SUSPEND" \in status[t]
             /\ SetSched(OsMoveTaskToReady([Sched EXCEPT !.status[t] = @ \ {"SUSPEND"}], t))
             /\ UNCHANGED <<semVars, tskVars>>
    <3>1. UNCHANGED semVars /\ UNCHANGED tskVars
      BY <2>2
    <3>2. SameQueues(Sems)
      BY <2>2, <3>1, ResumeInv
    <3> QED
      BY <3>2, NoneJoins DEF SameQueues
  <2> QED
    BY <1>3, <2>1, <2>2 DEF PRT_TaskResume, ErrorCodes
<1>4. CASE OsTaskExit
  BY <1>4, OsTaskExitInv, NoneJoins DEF SameQueues
<1>5. CASE OsActivate
  BY <1>5, OsActivateInv, NoneJoins DEF SameQueues
<1>6. ASSUME NEW c \in InitCounts, PRT_SemCreate(c) PROVE Raised
  <2>1. list' = list
    BY <1>6, CountsAssumption, SemCreateInv DEF vars, schedVars
  <2> QED
    BY <2>1, NoneJoins
<1> QED
  BY <1>1, <1>2, <1>3, <1>4, <1>5, <1>6

LEMMA MutexStep ==
  ASSUME "TICKS" \notin Timeouts, Whole, [MutexNext]_vars
  PROVE  Whole' /\ (MaxHeld = 1 /\ MutexInv => MutexInv') /\ Raised
<1>1. CASE UNCHANGED vars
  BY <1>1, StutterOwners, OtherRaised DEF Whole
<1>2. ASSUME NEW p \in Prios, PRT_TaskCreate(p)
      PROVE  Whole' /\ (MutexInv => MutexInv') /\ Raised
  BY <1>2, CreateOwners, OtherRaised DEF Whole
<1>3. ASSUME NEW t \in Tasks, PRT_TaskResume(t)
      PROVE  Whole' /\ (MutexInv => MutexInv') /\ Raised
  BY <1>3, ResumeOwners, OtherRaised DEF Whole
<1>4. CASE OsActivate
  BY <1>4, ActivateOwners, OtherRaised DEF Whole
<1>5. ASSUME NEW c \in InitCounts, PRT_SemCreate(c)
      PROVE  Whole' /\ (MutexInv => MutexInv') /\ Raised
  BY <1>5, SemCreateOwners, OtherRaised DEF Whole
<1>6. CASE Finish
  BY <1>6, FinishOwners, OtherRaised DEF Whole, Finish
<1> QED
  BY <1>1, <1>2, <1>3, <1>4, <1>5, <1>6, LockStep, UnlockStep DEF MutexNext

LEMMA MutexInit == ASSUME Init PROVE MutexInv
<1>1. IInv
  BY InitInv
<1>2. Owners
  BY Names DEF Init, Owners
<1>3. Single
  BY Names DEF Init, Single
<1>4. InUse = {}
  BY Names DEF Init, InUse
<1> QED
  BY <1>1, <1>2, <1>3, <1>4 DEF MutexInv, Boosts, Tops, Active, Init

LEMMA WholeHolds ==
  ASSUME "TICKS" \notin Timeouts
  PROVE  MutexSpec => []Whole
<1>1. Init => Whole
  BY MutexInit DEF MutexInv, Whole
<1>2. Whole /\ [MutexNext]_vars => Whole'
  BY MutexStep
<1> QED
  BY <1>1, <1>2, PTL DEF MutexSpec

LEMMA MutexInvHolds ==
  ASSUME "TICKS" \notin Timeouts, MaxHeld = 1
  PROVE  MutexSpec => []MutexInv
<1>1. Init => MutexInv
  BY MutexInit
<1>2. MutexInv /\ [MutexNext]_vars => MutexInv'
  BY MutexStep DEF MutexInv, Whole
<1> QED
  BY <1>1, <1>2, PTL DEF MutexSpec

-----------------------------------------------------------------------------
(***************************************************************************)
(* The priorities tasks were created with: only idle has the lowest.        *)
(***************************************************************************)
LEMMA GivenKept ==
  ASSUME IInv, IInv', Given,
         originalPriority' = originalPriority, idleTaskId' = idleTaskId,
         Active' <=> Active,
         \A u \in Tasks : State(u) = FreeTask => State(u)' = FreeTask
  PROVE  Given'
<1>1. InUse' \subseteq InUse
  BY InUseNext, States DEF InUse
<1> QED
  BY <1>1 DEF Given

LEMMA GivenGoes ==
  ASSUME IInv, IInv', Given, NEW t \in Tasks, NEW from, NEW to, Goes(t, from, to),
         from # FreeTask, UNCHANGED <<originalPriority, idleTaskId>>,
         Active' <=> Active
  PROVE  Given'
<1>1. \A u \in Tasks : State(u) = FreeTask => State(u)' = FreeTask
  BY DEF Goes
<1> QED
  BY <1>1, GivenKept

LEMMA GivenSame ==
  ASSUME IInv, IInv', Given, UNCHANGED <<status, originalPriority, idleTaskId, uniFlag>>
  PROVE  Given'
<1>1. \A u \in Tasks : State(u)' = State(u)
  BY DEF State
<1> QED
  BY <1>1, GivenKept DEF Active

LEMMA GivenStep ==
  ASSUME "TICKS" \notin Timeouts, IInv, Given, [MutexNext]_vars
  PROVE  Given'
<1>1. IInv'
  BY MutexSteps, NextInv
<1>2. CASE UNCHANGED vars
  BY <1>1, <1>2, GivenSame DEF vars, schedVars, tskVars
<1>3. ASSUME NEW code, Fail(code) PROVE Given'
  BY <1>2, <1>3 DEF Fail
<1>4. FreeTask \notin {SuspendedTask, ReadyTask, WaitingTask}
  BY DEF FreeTask, SuspendedTask, ReadyTask, WaitingTask
<1>5. ASSUME NEW p \in Prios, PRT_TaskCreate(p) PROVE Given'
  <2>1. CASE TaskCreated(p)
    <3> DEFINE t == Head(list[FreeList])
    <3>1. /\ t \in Tasks /\ Goes(t, FreeTask, SuspendedTask)
          /\ \A u \in Tasks \ {t} : originalPriority'[u] = originalPriority[u]
          /\ originalPriority'[t] = p
      BY <2>1, PriosAssumption, TaskCreatedInv
    <3>2. idleTaskId' = idleTaskId /\ uniFlag' = uniFlag
      BY <2>1 DEF TaskCreated
    <3> HIDE DEF t
    <3>3. \A u \in InUse' : u = t \/ u \in InUse
      BY <1>1, <3>1, InUseNext, States DEF Goes, InUse
    <3>4. Active => idleTaskId \in Tasks \ {t}
      <4> SUFFICES ASSUME Active PROVE idleTaskId \in Tasks /\ idleTaskId # t
        OBVIOUS
      <4>1. idleTaskId \in Tasks /\ "READY" \in status[idleTaskId]
        BY DEF IInv, BootOrRun
      <4>2. State(idleTaskId) = ReadyTask
        BY <4>1, States
      <4> QED
        BY <1>4, <3>1, <4>1, <4>2 DEF Goes
    <3>5. InUse \subseteq Tasks
      BY DEF InUse
    <3> QED
      BY <3>1, <3>2, <3>3, <3>4, <3>5 DEF Given, Active
  <2>2. CASE TaskNotCreated
    BY <1>1, <2>2, TaskNotCreatedInv, GivenSame DEF tskVars
  <2> QED
    BY <1>5, <2>1, <2>2 DEF PRT_TaskCreate
<1>6. ASSUME NEW t \in Tasks, PRT_TaskResume(t) PROVE Given'
  <2>1. CASE /\ "SUSPEND" \in status[t]
             /\ SetSched(OsMoveTaskToReady([Sched EXCEPT !.status[t] = @ \ {"SUSPEND"}], t))
             /\ UNCHANGED <<semVars, tskVars>>
    <3>1. UNCHANGED semVars /\ UNCHANGED tskVars
      BY <2>1
    <3>2. Goes(t, SuspendedTask, ReadyTask) /\ (Active' <=> Active)
      BY <2>1, <3>1, ResumeInv
    <3> QED
      BY <1>1, <1>4, <3>1, <3>2, GivenGoes DEF tskVars
  <2> QED
    BY <1>3, <1>6, <2>1 DEF PRT_TaskResume
<1>7. CASE OsTaskExit
  <2>1. PICK t : t = running
    OBVIOUS
  <2>2. t \in Tasks /\ Goes(t, ReadyTask, ExitedTask) /\ Active /\ Active'
    BY <1>7, <2>1, OsTaskExitInv
  <2> QED
    BY <1>1, <1>4, <1>7, <2>2, GivenGoes DEF OsTaskExit, tskVars
<1>8. CASE OsActivate
  <2> DEFINE t == Head(list[FreeList])
  <2>1. /\ t \in Tasks /\ Goes(t, FreeTask, ReadyTask)
        /\ \A u \in Tasks \ {t} : originalPriority'[u] = originalPriority[u]
        /\ originalPriority'[t] = OS_TSK_PRIORITY_LOWEST
        /\ ~ Active /\ Active' /\ idleTaskId' = t
    BY <1>8, OsActivateInv
  <2> HIDE DEF t
  <2>2. \A u \in InUse' : u = t \/ u \in InUse
    BY <1>1, <2>1, InUseNext, States DEF Goes, InUse
  <2>3. \A u \in InUse : u \in Tasks /\ u # idleTaskId
    BY <2>1, Names DEF InUse, IInv, BootOrRun
  <2> QED
    BY <2>1, <2>2, <2>3 DEF Given
<1>9. ASSUME NEW c \in InitCounts, PRT_SemCreate(c) PROVE Given'
  BY <1>1, <1>3, <1>9, GivenSame DEF PRT_SemCreate, tskVars
<1>10. ASSUME NEW s \in Sems, NEW timeout \in Timeouts, Lock(s, timeout) PROVE Given'
  <2>1. CASE semStat[s] = "USED" /\ SemPendTake(s)
    BY <1>1, <2>1, GivenSame DEF SemPendTake, schedVars, tskVars
  <2>2. CASE semStat[s] = "USED" /\ SemPendBlock(s, timeout)
    <3>1. timeout = "FOREVER"
      BY <2>2, TimeoutsAssumption DEF SemPendBlock
    <3>2. PICK t : t = running
      OBVIOUS
    <3>3. t \in Tasks /\ Goes(t, ReadyTask, WaitingTask) /\ Active /\ Active'
      BY <1>10, <2>2, <3>1, <3>2, SemPendBlockInv DEF Lock, PRT_SemPend
    <3> QED
      BY <1>1, <1>4, <2>2, <3>3, GivenGoes DEF SemPendBlock
  <2> QED
    BY <1>3, <1>10, <2>1, <2>2 DEF Lock, PRT_SemPend
<1>11. ASSUME NEW s \in Sems, Unlock(s) PROVE Given'
  <2>1. CASE semStat[s] = "USED" /\ SemPostKeep(s)
    <3>1. status' = status /\ uniFlag' = uniFlag
      BY <2>1, SemPostKeepInv
    <3> QED
      BY <1>1, <2>1, <3>1, GivenSame DEF SemPostKeep, tskVars
  <2>2. CASE semStat[s] = "USED" /\ SemPostWake(s)
    <3> DEFINE t == Head(list[s])
    <3>1. t \in Tasks /\ Goes(t, WaitingTask, ReadyTask) /\ Active /\ Active'
      BY <2>2, SemPostWakeInv
    <3> QED
      BY <1>1, <1>4, <2>2, <3>1, GivenGoes DEF SemPostWake
  <2> QED
    BY <1>3, <1>11, <2>1, <2>2 DEF Unlock, PRT_SemPost
<1> QED
  BY <1>2, <1>5, <1>6, <1>7, <1>8, <1>9, <1>10, <1>11 DEF MutexNext, Finish

LEMMA GivenHolds ==
  ASSUME "TICKS" \notin Timeouts
  PROVE  MutexSpec => [](Whole /\ Given)
<1>1. Init => Whole /\ Given
  <2> SUFFICES ASSUME Init PROVE Whole /\ Given
    OBVIOUS
  <2>1. InUse = {} /\ ~ Active
    BY Names DEF Init, InUse, Active
  <2> QED
    BY <2>1, MutexInit DEF MutexInv, Whole, Given
<1>2. Whole /\ Given /\ [MutexNext]_vars => (Whole /\ Given)'
  BY MutexStep, GivenStep DEF Whole
<1> QED
  BY <1>1, <1>2, PTL DEF MutexSpec

-----------------------------------------------------------------------------
(***************************************************************************)
(* What holds of tasks that use semaphores as mutexes.                      *)
(***************************************************************************)

\* With one mutex at a time, no call returns to a task that a readied, boosted or
\* restored task outranks: the processor runs g_highestTask.
THEOREM HighestRuns ==
  ASSUME "TICKS" \notin Timeouts, MaxHeld = 1
  PROVE  MutexSpec => []RunningIsHighest
<1>1. MutexInv => RunningIsHighest
  BY DEF MutexInv, Tops, RunningIsHighest
<1> QED
  BY <1>1, MutexInvHolds, PTL

\* With one mutex at a time, OsPriorityRestore undoes every OsPriorityInherit: who is
\* above its own priority still holds what a task of that priority waits for.
THEOREM BoostsGivenBack ==
  ASSUME "TICKS" \notin Timeouts, MaxHeld = 1
  PROVE  MutexSpec => []BoostHasWaiter
<1>1. ASSUME MutexInv PROVE BoostHasWaiter
  <2> SUFFICES ASSUME NEW t \in InUse, priority[t] < originalPriority[t]
               PROVE  \E s \in Held(t) : \E w \in Range(list[s]) :
                        priority[w] <= priority[t]
    BY DEF BoostHasWaiter
  <2>1. t \in Tasks /\ IInv /\ Whole
    BY <1>1 DEF InUse, MutexInv, Whole
  <2>2. priority[t] # originalPriority[t]
    <3>1. priority[t] \in Int
      BY <2>1, Invariants, PriorityNat
    <3> QED
      BY <3>1
  <2>3. PICK s \in Sems : /\ semOwner[s] = t
                          /\ \E w \in Range(list[s]) : priority[w] <= priority[t]
    BY <1>1, <2>2 DEF MutexInv, Boosts
  <2>4. s \in Held(t)
    BY <2>1, <2>3, OwnerFacts
  <2> QED
    BY <2>3, <2>4
<1> QED
  BY <1>1, MutexInvHolds, PTL

\* Whatever a task nests, OsPriorityInherit leaves the holder at least as high as
\* everyone on the wait queue the moment a task joins it.
THEOREM WaiterRaisesHolder ==
  ASSUME "TICKS" \notin Timeouts
  PROVE  MutexSpec => HolderRaisedOnWait
<1>1. Whole /\ [MutexNext]_vars
        => [\A s \in Sems :
              Len(list'[s]) > Len(list[s]) =>
                \A w \in Range(list'[s]) : priority'[semOwner[s]] <= priority'[w]]_vars
  BY MutexStep DEF Raised
<1> QED
  BY <1>1, WholeHolds, PTL DEF MutexSpec, HolderRaisedOnWait

\* With one mutex at a time and no task but idle at the lowest priority, idle runs
\* only while nobody waits: whoever holds what is waited for is ready and higher.
THEOREM NobodyLeftBehind ==
  ASSUME "TICKS" \notin Timeouts, MaxHeld = 1, OS_TSK_PRIORITY_LOWEST \notin Prios
  PROVE  MutexSpec => []IdleMeansNobodyWaits
<1>1. ASSUME MutexInv, Given PROVE IdleMeansNobodyWaits
  <2> SUFFICES ASSUME Active, running = idleTaskId, NEW t \in Tasks, Waiting(t)
               PROVE  FALSE
    BY DEF IdleMeansNobodyWaits
  <2>1. IInv /\ Whole
    BY <1>1 DEF MutexInv, Whole
  <2>2. PICK s \in Sems : t \in Range(list[s])
    BY DEF Waiting
  <2> DEFINE u == semOwner[s]
  <2>3. u \in Tasks /\ State(u) = ReadyTask /\ u # idleTaskId
    <3>1. list[s] \in Seq(Tasks) /\ list[s] # << >>
      <4>1. list[s] \in Seq(Tasks)
        BY <2>1, Invariants, Names DEF ListType
      <4> QED
        BY <2>2, <4>1, EmptyList DEF ListEmpty
    <3>2. semStat[s] = "USED"
      BY <2>1, <3>1 DEF IInv, RestType, UnusedSems
    <3>3. semCount[s] \in Nat /\ ~ (semCount[s] > 0)
      BY <2>1, <3>1 DEF IInv, RestType, NoIdleToken
    <3>4. semCount[s] = 0
      BY <3>3
    <3> QED
      BY <1>1, <2>1, <3>2, <3>4, OwnerFacts DEF MutexInv, Single
  <2> HIDE DEF u
  <2>4. priority[idleTaskId] <= priority[u]
    <3>1. "READY" \in status[u]
      BY <2>1, <2>3, States
    <3>2. list[RunQueue] # << >>
      BY <2>1, <2>3, <3>1, Invariants, SomebodyReady
    <3>3. u \in Range(list[RunQueue])
      BY <2>1, <2>3, <3>1, Invariants, Names DEF LinksOK, Enumerates, On
    <3>4. list[RunQueue] \in Seq(Tasks) /\ priority \in [TCBs -> Nat]
      BY <2>1, Invariants, Names DEF ListType, PrioType
    <3>5. idleTaskId = FirstHighest(list[RunQueue], priority)
      BY <1>1, <2>1, <3>2, Invariants DEF MutexInv, Tops, HighestOf, ListEmpty
    <3> QED
      BY <3>2, <3>3, <3>4, <3>5, FirstHighestPicks
  <2>5. idleTaskId \in Tasks /\ idleTaskId \in InUse
    BY <2>1 DEF IInv, BootOrRun, InUse
  <2>6. priority[idleTaskId] = OS_TSK_PRIORITY_LOWEST
    <3>1. \A r \in Sems : semOwner[r] # idleTaskId
      BY <2>1, <2>5, OwnerFacts
    <3>2. priority[idleTaskId] = originalPriority[idleTaskId]
      BY <1>1, <2>5, <3>1 DEF MutexInv, Boosts
    <3> QED
      BY <1>1, <2>5, <3>2 DEF Given
  <2>7. u \in InUse
    BY <2>1, <2>3, States DEF InUse, ReadyTask
  <2>8. originalPriority[u] \in Prios
    BY <1>1, <2>3, <2>7 DEF Given
  <2>9. priority[u] <= originalPriority[u]
    BY <2>1, <2>7 DEF IInv, NeverDemoted
  <2>10. /\ priority[u] \in Nat
         /\ originalPriority[u] \in 0 .. OS_TSK_PRIORITY_LOWEST
         /\ originalPriority[u] # OS_TSK_PRIORITY_LOWEST
    BY <2>1, <2>3, <2>8, PriosAssumption, Invariants, PriorityNat
  <2> QED
    BY <2>4, <2>6, <2>9, <2>10 DEF OS_TSK_PRIORITY_LOWEST
<1> QED
  BY <1>1, MutexInvHolds, GivenHolds, PTL

=============================================================================
