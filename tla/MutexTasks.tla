----------------------------- MODULE MutexTasks -----------------------------
(***************************************************************************)
(* Tasks that use semaphores of count 1 as mutexes, the use prt_sem.c's     *)
(* priority inheritance is written for (its comments, and the demo of       *)
(* test_priority_inversion.c): a task posts only what it holds, never waits *)
(* for what it holds, and its entry function returns with nothing held.     *)
(* MaxHeld bounds how many mutexes a task nests.                            *)
(***************************************************************************)
EXTENDS Kernel

CONSTANT MaxHeld

ASSUME MutexAssumption == MaxHeld \in Nat \ {0} /\ InitCounts = {1}

Held(t) == {s \in Sems : semStat[s] = "USED" /\ semOwner[s] = t}

Lock(s, timeout) == /\ semOwner[s] # running
                    /\ Cardinality(Held(running)) < MaxHeld
                    /\ PRT_SemPend(s, timeout)

Unlock(s) == /\ s \in Held(running)
             /\ TaskRuns
             /\ PRT_SemPost(s)

Finish == Held(running) = {} /\ OsTaskExit

MutexNext ==
  \/ \E p \in Prios : PRT_TaskCreate(p)
  \/ \E t \in Tasks : PRT_TaskResume(t)
  \/ OsActivate
  \/ \E c \in InitCounts : PRT_SemCreate(c)
  \/ \E s \in Sems, timeout \in Timeouts : Lock(s, timeout)
  \/ \E s \in Sems : Unlock(s)
  \/ Finish

MutexSpec == Init /\ [][MutexNext]_vars

-----------------------------------------------------------------------------
Waiting(t) == \E s \in Sems : t \in Range(list[s])

\* The processor always executes the first task of the highest ready priority:
\* no call returns to a task that a readied, boosted or restored one outranks.
RunningIsHighest == Active => running = highest

\* A raised priority is given back with the mutex: whoever runs above its own
\* priority still holds a mutex that some task of that priority waits for.
BoostHasWaiter ==
  \A t \in InUse : priority[t] < originalPriority[t] =>
    \E s \in Held(t) : \E w \in Range(list[s]) : priority[w] <= priority[t]

\* The moment a task starts to wait, the holder runs at least as high as every
\* task waiting for the same mutex, the earlier waiters included.
HolderRaisedOnWait ==
  [][\A s \in Sems :
       Len(list'[s]) > Len(list[s]) =>
         \A w \in Range(list'[s]) : priority'[semOwner[s]] <= priority'[w]]_vars

\* Nobody is left behind: the processor idles only when no task waits for a mutex.
IdleMeansNobodyWaits ==
  Active /\ running = idleTaskId => \A t \in Tasks : ~ Waiting(t)

\* The protocol as prt_sem.c:14-16 states it: while a task waits for a mutex, the
\* task that holds it runs at least at the waiter's priority.
HolderCoversWaiters ==
  \A s \in Sems : \A w \in Range(list[s]) : priority[semOwner[s]] <= priority[w]
=============================================================================
