------------------------------ MODULE IpcRing ------------------------------
(***************************************************************************)
(* The producer/consumer demo (ipc_ring_demo.c) and the shell commands ipc   *)
(* and ipcs, in the running system: the four demo tasks are scheduled by     *)
(* the kernel and interrupted by the UART, and the shell starts the demo     *)
(* and reads its statistics while it runs.                                  *)
(*                                                                          *)
(* A typed character is a whole command line here (Kinds = {"enter"}), and   *)
(* which command it names is chosen when it is dispatched.                  *)
(***************************************************************************)
EXTENDS UartShell

CONSTANTS
  RING_BUF_SIZE,     \* IPC_RING_BUF_SIZE
  PER_TASK,          \* IPC_PRODUCE_PER_TASK and IPC_CONSUME_PER_TASK
  TaskPrios          \* priorities to try: of P1, P2 and of C1, C2

Producers == 1 .. 2
Consumers == 1 .. 2

ASSUME RingAssumption == /\ RING_BUF_SIZE \in Nat \ {0} /\ PER_TASK \in Nat
                         /\ TaskPrios \subseteq [producer : [Producers -> 0 .. 62],
                                                 consumer : [Consumers -> 0 .. 62]]

NoRole == [kind |-> "none", no |-> 0, prio |-> 0]

NoItem == [by |-> 0, no |-> 0]
NoStats == [writeIndex |-> 0, readIndex |-> 0, produced |-> 0, consumed |-> 0,
            perProducer |-> [p \in Producers |-> 0], perConsumer |-> [c \in Consumers |-> 0],
            buffer |-> [s \in 0 .. RING_BUF_SIZE - 1 |-> NoItem]]

VARIABLES
  prios,                               \* the priorities chosen from TaskPrios
  ringBuf, head, tail,                 \* g_ringBuf, g_head, g_tail
  producedTotal, consumedTotal, perProducer, perConsumer,
  semEmpty, semFull, semMutex,         \* the handles
  demoStarted,
  starting,          \* the task of Starts IPC_RingDemoStart has come to
  role, pc, loops,   \* of each task: what it is, where it is, items done
  item,              \* of each task: the local variable item
  stats,             \* what IPC_RingDemoGetStats has copied
  taken              \* the items the consumers have printed

dataVars == <<ringBuf, head, tail, producedTotal, consumedTotal, perProducer,
              perConsumer, taken>>
handleVars == <<semEmpty, semFull, semMutex>>
taskVars == <<prios, role, pc, loops, item>>
startVars == <<prios, handleVars, demoStarted, starting, role>>
demoVars == <<dataVars, startVars, pc, loops, item, stats>>
ringVars == <<shellSysVars, demoVars>>

\* The tasks IPC_RingDemoStart makes, in its order.
Starts == << [kind |-> "producer", no |-> 1, prio |-> prios.producer[1]],
             [kind |-> "producer", no |-> 2, prio |-> prios.producer[2]],
             [kind |-> "consumer", no |-> 1, prio |-> prios.consumer[1]],
             [kind |-> "consumer", no |-> 2, prio |-> prios.consumer[2]] >>

\* Fault: the index wraps one slot late.
FaultSlotLate(i) == (i + 1) % (RING_BUF_SIZE + 1)

NextSlot(i) == (i + 1) % RING_BUF_SIZE

(***************************************************************************)
(* IPC_RingDemoStart, called by the shell's command ipc.                    *)
(***************************************************************************)
IpcStart ==
  /\ IF demoStarted THEN CommandReturns("dispatch") ELSE ShellAt("dispatch", "empty")
  /\ UNCHANGED <<vars, demoVars>>

\* One PRT_SemCreate of IPC_RingDemoStart; when it fails the command ends.
CreateSem(here, count, next) ==
  /\ IF unusedSem = << >> THEN CommandReturns(here) ELSE ShellAt(here, next)
  /\ PRT_SemCreate(count)
  /\ UNCHANGED <<dataVars, demoStarted, starting, taskVars, stats>>

HandleSet(handle) == IF unusedSem = << >> THEN handle ELSE Head(unusedSem)

CreateSems ==
  \/ /\ CreateSem("empty", RING_BUF_SIZE, "full")
     /\ semEmpty' = HandleSet(semEmpty) /\ UNCHANGED <<semFull, semMutex>>
  \/ /\ CreateSem("full", 0, "mutex")
     /\ semFull' = HandleSet(semFull) /\ UNCHANGED <<semEmpty, semMutex>>
  \/ /\ CreateSem("mutex", 1, "create")
     /\ semMutex' = HandleSet(semMutex) /\ UNCHANGED <<semEmpty, semFull>>

PoolsHaveTask == list[FreeList] # << >> /\ stackMemUsed < NumStacks

\* The next task is created; when that fails the command ends, and those already
\* created stay.
CreateTask ==
  /\ IF PoolsHaveTask
     THEN LET t == Head(list[FreeList])
          IN  /\ ShellAt("create", "resume")
              /\ role' = [role EXCEPT ![t] = Starts[starting]]
              /\ pc' = [pc EXCEPT ![t] = "token"]
              /\ UNCHANGED starting
     ELSE CommandReturns("create") /\ starting' = 1 /\ UNCHANGED <<role, pc>>
  /\ PRT_TaskCreate(Starts[starting].prio)
  /\ UNCHANGED <<prios, dataVars, handleVars, demoStarted, loops, item, stats>>

\* The task just created is the one still suspended.
ResumeTask ==
  /\ IF starting < Len(Starts)
     THEN ShellAt("resume", "create") /\ starting' = starting + 1 /\ UNCHANGED demoStarted
     ELSE CommandReturns("resume") /\ starting' = 1 /\ demoStarted' = TRUE
  /\ \E t \in Tasks : "SUSPEND" \in status[t] /\ PRT_TaskResume(t)
  /\ UNCHANGED <<dataVars, handleVars, taskVars, stats>>

(***************************************************************************)
(* IPC_RingDemoGetStats, called by the shell's command ipcs.                *)
(***************************************************************************)
GetStats ==
  /\ IF demoStarted THEN ShellAt("dispatch", "lock") ELSE CommandReturns("dispatch")
  /\ UNCHANGED <<vars, demoVars>>

\* Fault: the statistics are read without the mutex.
FaultNoLock == ShellAt("lock", "copy1") /\ UNCHANGED <<vars, demoVars>>

GetStatsLock ==
  /\ ShellAt("lock", "copy1")
  /\ PRT_SemPend(semMutex, "FOREVER")
  /\ UNCHANGED demoVars

GetStatsCopy ==
  /\ \/ /\ ShellAt("copy1", "copy2")
        /\ stats' = [stats EXCEPT !.writeIndex = head, !.readIndex = tail,
                                  !.produced = producedTotal, !.consumed = consumedTotal]
     \/ /\ ShellAt("copy2", "unlock")
        /\ stats' = [stats EXCEPT !.perProducer = perProducer,
                                  !.perConsumer = perConsumer, !.buffer = ringBuf]
  /\ UNCHANGED <<vars, dataVars, startVars, pc, loops, item>>

GetStatsUnlock ==
  /\ CommandReturns("unlock")
  /\ PRT_SemPost(semMutex)
  /\ stats' = NoStats
  /\ UNCHANGED <<dataVars, startVars, pc, loops, item>>

Commands == \/ IpcStart \/ CreateSems \/ CreateTask \/ ResumeTask
            \/ GetStats \/ GetStatsLock \/ GetStatsCopy \/ GetStatsUnlock

(***************************************************************************)
(* ProducerTaskEntry1/2 and ConsumerTaskEntry1/2: a token of its own kind,  *)
(* the mutex, one slot, the index, the counters, the mutex, the other token. *)
(***************************************************************************)
TaskAt(t, kind, here, next) ==
  /\ Executing(t) /\ role[t].kind = kind /\ pc[t] = here
  /\ pc' = [pc EXCEPT ![t] = next]
  /\ UNCHANGED <<envVars, rxVars, shellVars, startVars, stats>>

\* Fault: the mutex is taken before the token.
FaultLockFirst(t, kind, token) ==
  /\ \/ loops[t] < PER_TASK /\ TaskAt(t, kind, "token", "lock")
        /\ PRT_SemPend(semMutex, "FOREVER")
     \/ TaskAt(t, kind, "lock", "slot") /\ PRT_SemPend(token, "FOREVER")
  /\ UNCHANGED <<dataVars, loops, item>>

TakeTokenAndMutex(t, kind, token) ==
  /\ \/ /\ loops[t] < PER_TASK
        /\ TaskAt(t, kind, "token", "lock") /\ PRT_SemPend(token, "FOREVER")
     \/ TaskAt(t, kind, "lock", "slot") /\ PRT_SemPend(semMutex, "FOREVER")
  /\ UNCHANGED <<dataVars, loops, item>>

GiveMutexAndToken(t, kind, token) ==
  /\ \/ /\ TaskAt(t, kind, "unlock", "signal") /\ PRT_SemPost(semMutex)
        /\ UNCHANGED loops
     \/ /\ TaskAt(t, kind, "signal", "token") /\ PRT_SemPost(token)
        /\ loops' = [loops EXCEPT ![t] = @ + 1]
  /\ UNCHANGED <<dataVars, item>>

ProduceSlot(t) ==
  /\ TaskAt(t, "producer", "slot", "index")
  /\ ringBuf' = [ringBuf EXCEPT ![head] = [by |-> role[t].no, no |-> loops[t] + 1]]
  /\ UNCHANGED <<vars, head, tail, producedTotal, consumedTotal, perProducer,
                 perConsumer, taken, loops, item>>

ProduceIndex(t) ==
  /\ TaskAt(t, "producer", "index", "count")
  /\ head' = NextSlot(head)
  /\ UNCHANGED <<vars, ringBuf, tail, producedTotal, consumedTotal, perProducer,
                 perConsumer, taken, loops, item>>

ProduceCount(t) ==
  /\ TaskAt(t, "producer", "count", "unlock")
  /\ producedTotal' = producedTotal + 1
  /\ perProducer' = [perProducer EXCEPT ![role[t].no] = @ + 1]
  /\ UNCHANGED <<vars, ringBuf, head, tail, consumedTotal, perConsumer, taken,
                 loops, item>>

ConsumeSlot(t) ==
  /\ TaskAt(t, "consumer", "slot", "index")
  /\ item' = [item EXCEPT ![t] = ringBuf[tail]]
  /\ UNCHANGED <<vars, dataVars, loops>>

ConsumeIndex(t) ==
  /\ TaskAt(t, "consumer", "index", "count")
  /\ tail' = NextSlot(tail)
  /\ UNCHANGED <<vars, ringBuf, head, producedTotal, consumedTotal, perProducer,
                 perConsumer, taken, loops, item>>

\* The counters, and the item is printed.
ConsumeCount(t) ==
  /\ TaskAt(t, "consumer", "count", "unlock")
  /\ consumedTotal' = consumedTotal + 1
  /\ perConsumer' = [perConsumer EXCEPT ![role[t].no] = @ + 1]
  /\ taken' = Append(taken, item[t])
  /\ UNCHANGED <<vars, ringBuf, head, tail, producedTotal, perProducer, loops, item>>

\* The entry function returns.
EntryReturns(t) ==
  /\ loops[t] = PER_TASK
  /\ TaskAt(t, role[t].kind, "token", "exited")
  /\ OsTaskExit
  /\ UNCHANGED <<dataVars, loops, item>>

ProducerTaskEntry(t) ==
  \/ TakeTokenAndMutex(t, "producer", semEmpty)
  \/ ProduceSlot(t) \/ ProduceIndex(t) \/ ProduceCount(t)
  \/ GiveMutexAndToken(t, "producer", semFull)

ConsumerTaskEntry(t) ==
  \/ TakeTokenAndMutex(t, "consumer", semFull)
  \/ ConsumeSlot(t) \/ ConsumeIndex(t) \/ ConsumeCount(t)
  \/ GiveMutexAndToken(t, "consumer", semEmpty)

DemoTask == \E t \in Tasks :
              ProducerTaskEntry(t) \/ ConsumerTaskEntry(t) \/ EntryReturns(t)

-----------------------------------------------------------------------------
RingInit ==
  /\ ShellInit
  /\ prios \in TaskPrios
  /\ ringBuf = [i \in 0 .. RING_BUF_SIZE - 1 |-> NoItem]
  /\ head = 0 /\ tail = 0 /\ producedTotal = 0 /\ consumedTotal = 0
  /\ perProducer = [p \in Producers |-> 0]
  /\ perConsumer = [c \in Consumers |-> 0]
  /\ semEmpty = 0 /\ semFull = 0 /\ semMutex = 0
  /\ demoStarted = FALSE /\ starting = 1
  /\ role = [t \in Tasks |-> NoRole]
  /\ pc = [t \in Tasks |-> "none"]
  /\ loops = [t \in Tasks |-> 0]
  /\ item = [t \in Tasks |-> NoItem]
  /\ stats = NoStats /\ taken = << >>

RingCode ==
  \/ (Boot \/ OsUartRxHandle \/ ShellPend \/ ShellRead) /\ UNCHANGED demoVars
  \/ Commands
  \/ DemoTask

RingInterrupt == Interrupt /\ UNCHANGED demoVars

RingNext == \/ RingCode
            \/ RingInterrupt
            \/ \E kind \in Kinds : Type(kind) /\ UNCHANGED demoVars

\* ENABLED RingCode: every task but idle has an instruction to execute.
RingCodeReady == \/ running = handler /\ fifo # << >>
                 \/ running \notin {idleTaskId, handler}

RingFairness == /\ []<>(~ RingCodeReady) \/ []<><<RingCode>>_ringVars
                /\ WF_ringVars(RingInterrupt)

RingSpec == RingInit /\ [][RingNext]_ringVars /\ RingFairness

-----------------------------------------------------------------------------
Blocked(t) == "PEND" \in status[t]
Labels(t) == IF t = Shell THEN shellPc ELSE pc[t]
InMutex == {t \in Tasks : /\ ~ Blocked(t)
                          /\ Labels(t) \in {"slot", "index", "count", "unlock", "copy1", "copy2"}}

\* A task that took a place and has not yet passed it on as an item, or took an
\* item and has not yet passed it on as a place.
Between(kind) ==
  {t \in Tasks : /\ role[t].kind = kind
                 /\ pc[t] \in {"lock", "slot", "index", "count", "unlock", "signal"}
                 /\ ~ (pc[t] = "lock" /\ Blocked(t))}

\* The two producers, the two consumers and the shell, which switch inside
\* interrupts and inside posts, never hold the mutex together.
MutualExclusion == Cardinality(InMutex) <= 1

\* semEmpty counts the empty slots and semFull the items (ipc_ring_demo.c:25-26):
\* with the tasks that are between their two tokens they add up to the ring's
\* size, and neither semaphore counts an item that is not there.
SlotsAccounted ==
  demoStarted =>
    /\ semCount[semEmpty] + semCount[semFull] + Cardinality(Between("producer"))
         + Cardinality(Between("consumer")) = RING_BUF_SIZE
    /\ semCount[semFull] <= producedTotal - consumedTotal

\* ipc_ring_demo.c:29: the demo is not started twice, so that no slot is written
\* again before its item was taken.
NothingOverwritten == producedTotal - consumedTotal <= RING_BUF_SIZE

\* What ipcs prints is one moment of the ring, although it is copied in steps
\* between which every other task may run.
SnapshotConsistent ==
  shellPc = "unlock" =>
    /\ stats.produced = stats.perProducer[1] + stats.perProducer[2]
    /\ stats.consumed = stats.perConsumer[1] + stats.perConsumer[2]
    /\ stats.writeIndex = stats.produced % RING_BUF_SIZE
    /\ stats.readIndex = stats.consumed % RING_BUF_SIZE
    /\ \A n \in stats.consumed .. stats.produced - 1 :
         stats.buffer[n % RING_BUF_SIZE] \notin Range(taken) \cup {NoItem}

\* The ring implements the bounded buffer: nothing is lost, doubled, overwritten
\* before it is taken, or taken before it is written.
Buffer == INSTANCE BoundedBuffer
            WITH PerTask <- PER_TASK, Capacity <- RING_BUF_SIZE,
                 made <- perProducer,
                 buffer <- [i \in 1 .. producedTotal - consumedTotal |->
                              ringBuf[(consumedTotal + i - 1) % RING_BUF_SIZE]]
ImplementsBoundedBuffer == Buffer!Spec

\* Once started, the demo ends: every item is taken and the four tasks return.
DemoEnds == demoStarted ~> /\ consumedTotal = 2 * PER_TASK
                           /\ \A t \in Tasks : role[t].kind # "none" => pc[t] = "exited"
=============================================================================
