# A TLA+ model of MiniEuler, its shell and its demos

The repository is a small real-time kernel for one AArch64 core under QEMU
(`src/src`): tasks with fixed priorities, counting semaphores with priority
inheritance, a serial shell, and two demos started from the shell. This directory
holds TLA+ modules for the parts that carry state and concurrency, TLC
configurations that check them on small instances, and TLAPS proofs for the
kernel, its lists, tasks with mutexes, the UART and shell, both demos, the translation
tables and printing.

## 1. The system

| component | source | state | operations | what makes it correct |
|---|---|---|---|---|
| task management | `kernel/task/prt_task.c`, `prt_task_init.c` | TCBs, free list, stack blocks, `originalPriority` | create, resume, activate, exit | no TCB or stack is leaked or given twice, failed calls undo what they did |
| scheduler | `kernel/sched/prt_sched_single.c`, `include/prt_task_external.h`, `bsp/prt_vector.S` | `g_runQueue`, `g_highestTask`, `RUNNING_TASK`, `UNI_FLAG` | find highest, request, trap, switch | the first task of the highest ready priority runs; the run queue is never empty |
| semaphores | `kernel/sem/prt_sem.c`, `prt_sem_init.c` | count, wait queue, owner, unused list | create, pend, post, inherit, restore | FIFO hand-over, no lost wake-up, boosts given on time and given back |
| doubly linked lists | `include/prt_list_external.h` | links in each TCB | make a head, insert, delete, iterate | the links are the lists meant; a TCB is on one list, the one its status says |
| boot | `main.c`, `bsp/*.S` | where main is | initialise, create the shell, activate | what an interrupt uses exists before the interrupt is enabled |
| interrupts, GIC | `bsp/prt_exc.c`, `bsp/hwi_init.c` | what is enabled, the active interrupt | enable, acknowledge, dispatch, end | every handler that begins ends |
| UART and shell | `bsp/print.c`, `kernel/shell/shmsg.c` | FIFO, `shellBuf`, two offsets, `cmdBuf` | receive, read, edit, dispatch | each character is read once, in order, and in the end |
| producer/consumer demo | `ipc_ring_demo.c` | ring, indexes, counters, three semaphores | start, produce, consume, statistics | a bounded FIFO buffer that ends |
| priority-inversion demo | `test_priority_inversion.c` | one mutex, three tasks | start, take, create, give, exit | one user of the resource; Mid does not delay High |
| tick and timer | `kernel/tick/prt_tick.c`, `bsp/timer.c` | `g_uniTicks`, the timer | expire, tick | a wait measured in ticks is the wait |
| MMU | `bsp/mmu.c`, `bsp/mmu.h` | translation tables, fill pointer, registers | build, install, enable | every address translates as the region table says; nothing behind the table area is written |
| caches | `bsp/cache_asm.S` | caches, TLB | invalidate | not modelled |
| formatted printing | `bsp/vsnprintf_s.c`, `bsp/print.c` | a buffer, the transmitter | format, send | the text is laid out right, cut at the buffer's end, and sent in order; the digits fit where they are collected |
| observation commands | `shmsg.c`, `prt_task.c`, `prt_sem_stat.c` | where the report is | `ps`, `top`, `semstat`, `tick`, `memstat` | `ps` shows one moment; a row of `semstat` is right but for characters received meanwhile |

The demos and the shell call the kernel; the kernel calls nobody. The UART
handler shares `shellBuf` and a semaphore with the shell. The shell creates the
demo tasks, and with `ipcs` takes the same mutex as they.

What is hard:

- **A switch inside an interrupt handler.** `OS_FLG_HWI_ACTIVE` is never set, so
  `PRT_SemPost` called by `OsUartRxHandle` switches to the shell at once. The rest
  of the handler, with the write that ends the interrupt, waits on the stack of the
  interrupted task until that task runs again. Meanwhile no interrupt is delivered.
- **Priorities that change at any time**, of tasks that run, wait, hold or have ended.
- **One pair of links** per TCB for the run queue, the wait queues and the free list.
- **Nothing is freed**: TCBs, stacks and semaphores run out, and creation fails
  in the middle of a sequence.
- **Boot with interrupts unmasked** (`bsp/timer.c:31`) before the objects they use exist.
- **Ticks that are lost**: the timer is set again by its own handler, which waits like
  every other for an unfinished one.
- **Tables built in memory that may hold anything**, in an area that may be too small,
  by code whose caller ignores that it failed (`bsp/start.S:32`).
- **Reports read unlocked**, block by block and field by field, with interrupts on.
- **Text that does not fit**, numbers at the edge of their width, digits in an array
  whose size nobody looks at, and a transmitter that may stay full.

There is no time slicing, no second core, nothing persistent, and every caller
waits for ever (`OS_WAIT_FOREVER`), so there are no crash or message-loss scenarios,
and the only time-out is that of the transmitter. `PROJECT.json` lists the hazards one by one with the line
where each bites and the properties aimed at it.

## 2. The modules

| module | what it is |
|---|---|
| `DoublyList` | the links of `prt_list_external.h` and the lists they stand for |
| `Lists` | the list operations as operators on sequences |
| `Kernel` | tasks, scheduler, semaphores: one action per kernel call |
| `FifoSemaphore` | abstract: a counting semaphore that hands over in FIFO order |
| `MutexTasks` | `Kernel` used by tasks that lock and unlock semaphores of count 1 |
| `UartShell` | `Kernel` + boot, GIC, timer, UART handler, shell, `ps` and `semstat` |
| `IpcRing` | `UartShell` + the producer/consumer demo and `ipc`, `ipcs` |
| `BoundedBuffer` | abstract: producers, consumers, a FIFO buffer |
| `InversionDemo` | `UartShell` + the priority-inversion demo and `demo` |
| `MmuTables` | construction of the translation tables, and the walk the processor makes |
| `PrintFormat` | `vsnprintf_s` and the sending of its text |
| `DoublyList_proofs`, `Kernel_proofs`, `MutexTasks_proofs`, `UartShell_proofs`, `IpcRing_proofs`, `InversionDemo_proofs`, `MmuTables_proofs`, `PrintFormat_proofs` | theorems |
| `MC_*` | instances for TLC |

### DoublyList and Lists

`DoublyList` has the two pointers of every object, and beside them the lists the
callers mean. An object is nothing, a node, or a head; `semList` of a control block is
first a node of the unused list and then a head. Its operations are those of the header
on pointers, with `ListTailAdd` also before a node (`prt_sem.c:186`). It is not run: it
serves its theorems (section 5), which say that `Lists`, where a list is a sequence,
is what the links do. `Kernel` uses `Lists`.

### Kernel

Every call runs between `OsIntLock` and `OsIntRestore` on the only core, so a call
is one action. A call that must switch traps before it returns, so the switch is in
the same action; what the caller does next happens when it is `running` again.
Inside a call the model follows the C order: a scheduler state (`Sched`) goes
through the helpers, each named after its C function, and is assigned once.
`OsTskReadyAdd` is the function that links, sets the bit *and* searches again;
`OsPriorityRestore` comes before `OsSemPendListGet`, as in `OsSemPostSchePre`.

Correspondence: a task is its pid, the index of its TCB; `Zombie` is the TCB that
`RUNNING_TASK` points to during boot; `list[h]` is the list with head `h` (the
semaphores' `semList`, `g_runQueue`, `g_tskCbFreeList`) from head to tail; `status`
is the set of the bits of `taskStatus`; `NoTask` is NULL. Pools: `unusedSem` and
`stackMemUsed` (allocation is first-fit and nothing is freed, so the number of
blocks is the whole state). Every error return is an explicit alternative. Left out:
`g_uniTaskLock` (never incremented), states nothing sets, and the binary and
priority-ordered semaphores that `PRT_SemCreate` cannot make.

`Kernel!Next` lets any running task, or an interrupt handler for posts, make any
call. That is more than the program does, so what holds there holds for every
client. `MutexTasks` restricts it to the discipline of mutexes.

### UartShell, IpcRing, InversionDemo

Between two kernel calls a task's code is split where an interrupt, or another task,
could make a difference: a step reads or writes at most one thing that code running in
between could change. What only its own task changes, or all users change under one
mutex, is grouped (the shell's read of a character with the offset behind it; an item
with its slot and index). An interrupt may be taken between any two steps. `handler` is the task on whose stack
an unfinished handler lies: `RxInterrupt` sets it, `OsGicIntClear` clears it, the
handler goes on only while `running = handler`, and `Executing(t)` says that `t`'s own
code runs. One `OsUartRxHandle` step is one round of the loop: read a character,
store it, post. Characters are numbered; their kind is what the shell does with
them. In the demos a character stands for a whole command line.

`boot` goes through `main` call by call. `gic` says whether the distributor is on and
what it lets through; `Deliverable` is a signalled interrupt: enabled, unmasked
(from `CoreTimerInit` on) and no handler active, since all priorities are 0.
`due` is the expired timer, `elapsed` real periods, `ticks` is `g_uniTicks`. The tick
handler calls nothing that switches and is one step. One assumption on time is in
`TimerExpires`: a handler that is not suspended is far shorter than a period, so a
second period does not end while the tick of the first is deliverable.

`ps` and `semstat` run with interrupts unmasked. `ps` reads one control block per step, then
follows the links of the block just printed wherever they lead by then (`PsNext`); the
priority is all of the block that it prints and a call could change. `semstat` tests
`semStat` in one step (`SemStatSkip`, `SemStatRow`) and loads `semCount` and `semOwner` in
one each, in either order, which C leaves to the compiler. So a character that arrives
between the loads tears the row of `sem_uart_rx`: it may show the count of before the post
with the owner of after it. TLC reaches such rows in `uart` and `inversion`.

`IpcRing` models `IPC_RingDemoStart` call by call, with every failure return, the
task bodies statement group by statement group (slot, index, counters), and
`IPC_RingDemoGetStats` as two copies under the mutex. `InversionDemo` models the three
task entries and the command. Busy loops and printing change nothing another task
reads and are left out, but for the ticks High prints as its wait: `before` and `waited` hold
what it read and, beside it, the periods that really passed. `taken` in `IpcRing` is what the consumers have printed.

### MmuTables

From `mmu_setup_pgtables` to the M bit of SCTLR, one step per table created, per
entry visited and per region. Addresses count pages of the 4K granule; a table is its
place in the area. `mem` is the whole memory of the area and some tables behind it,
initially `cfg.stale` everywhere: any entry, a table pointer included. Every error
return is a step to `done`. `Translate` is not code: it is what the architecture does
with the registers as written, the reference `TranslatesRight` compares with.

### PrintFormat

One step per round of `vsnprintf_s`'s loop: an ordinary character, or a conversion with
flags, width, precision, qualifier and argument chosen at once (the digits of a width
are not parsed). `print_number`, the casts of the arguments and the cutting at the
buffer's end are the code's; two guard cells lie behind the buffer. `%c` may be given a
zero byte. `TmpLen` is the size of `tmp`, the array `print_number` collects the digits in
without a check: a number of more digits leads to `"overrun"`, from where nothing is
modelled, because C says nothing of it. Then `TryPrintf`
sends one character per step; `full` is UARTFR, which the transmitter changes
as it likes. `wanted`, `field` and `lost` record what the properties compare.

### The definitions marked Fault

Each stands for a plausible mistake in the definition after it (a dropped check, a
swapped order, a missing search). Nothing refers to them. With the definition
replaced by the fault, TLC finds the property paired with it in `PROJECT.json`
violated: no property holds merely by the shape of the model.

## 3. The runs

State counts are distinct states.

| run | instance | checks |
|---|---|---|
| `kernel` | 5 tasks, 4 stacks, 2 semaphores, 2 priorities, counts 0 and 2, maximum 1 | types, lists, no token beside a waiter, run queue never empty, `g_highestTask` current, pools, no demotion, no return from exit, refinement of `FifoSemaphore` |
| `mutex` | 5 tasks, 1 mutex, 3 priorities, one held at a time | highest ready task runs, boosts on time and given back, nobody left waiting at idle |
| `mutex_handover` | 4 tasks, 2 mutexes, one at a time | a violation (section 6) |
| `mutex_nested` | 4 tasks, 2 mutexes, nested | a violation (section 6) |
| `uart` | 5 characters of three kinds, a semaphore that is not used, `shellBuf` of 3, FIFO of 2, one period, `ps` and `semstat` | tokens match unread characters, order, echo equals command, liveness (139 000 states) |
| `uart_boot_race` | characters from the enabling of interrupt 33 on | a violation (section 6) |
| `ipc` | ring 4, 5 items per task, 4 command lines, the demo's priorities and producers above consumers | mutual exclusion, slots accounted, consistent statistics, refinement of `BoundedBuffer`, the demo ends (31 000 states) |
| `ipc_restart` | three stacks, of which idle and the shell have two | a violation (section 6) |
| `inversion` | TCBs and stacks for two demos and a Low, 4 command lines, two periods, `ps` and `semstat` | exclusive use, only the holder runs while High waits, priorities returned, waits measured right, reports that stand, demo and shell go on (47 000 states) |
| `inversion_twice` | `demo` typed while a demo runs | a violation (section 6) |
| `mmu` | both granules, areas of 0 to 8 tables, 12 region tables, three kinds of stale memory | the tables are a tree, the area is respected, every address translates as asked, `mmu_init` returns (3 400 states) |
| `printf` | buffer of 5, `tmp` of 5, widths of 4, 5 and 8 bits, two rounds, transmitter free to stay full | the text is cut right, numbers read back and only `%lb` overruns `tmp`, the screen gets the text, printing ends (132 000 states) |

Bounds, and why they are enough:

- `NumTasks`, `NumStacks`, `NumSems` replace 23, 18 and 73. In `kernel` there are
  more TCBs than stacks, so that creation fails for want of a stack; in `mutex` the
  idle task leaves four for three priorities, so two share one. The proofs of
  section 5 cover every size.
- `OS_SEM_COUNT_MAX` replaces 0xFFFFFFFE: 1 in the kernel run, so that a count of 2
  is refused and posts reach the limit. In the running system it is above
  the number of unread characters and of slots, as in the program.
- `SHELL_SHOW_MAX_LEN` replaces 272: 3 makes the ring wrap and the line overflow
  within five characters. The user never types further ahead of the shell than
  `shellBuf` holds (guard of `Type`): the handler does not look at the read offset, and
  past that bound characters are lost by design.
- `FifoLen` replaces the UART's 16: 2 gives a handler with more than one round.
- `MaxTyped` bounds the characters, `MaxHeld` the mutexes one task nests.
- In `ipc` the ring's size and the items per task are the program's. With the program's
  priorities the ring never fills (consumers outrank producers), hence a second
  set in `TaskPrios`, chosen at the start: producers above consumers.
- `MaxPeriods` bounds the periods of the timer. In `inversion` two are enough for a
  tick before, during and after a wait, and for a period lost under an unfinished handler.
- `Observing` switches `ps` and `semstat` on; with `FALSE` the demos' runs are spared them.
- `mmu`: tables have 4 entries for the granule of 4K and 8 for 64K (512 and 8192), pages
  1 and 2 units, address spaces 32 and 256. The region tables are the program's own,
  scaled, and ones with neighbours in one table, overlaps, a region that needs the
  higher start level, one refused, one past the last level, and an empty region.
- `printf`: the widths are small so that the values next to each sign bit, and wider than
  their conversion, are among nine; a text of two rounds is shorter than, as long as, and
  longer than the buffer. `TmpLen` equals `IntBits`, as 32 does in the program, so that
  `%b` of an `int` just fits; the run reaches the overrun with 128 and 255, of 8 bits.
- In `inversion` there is room for two whole demos and for the Low of a third, which
  then cannot create High and returns with the resource held; after that the command
  itself fails.

`CHECK_DEADLOCK FALSE` where the system may rest: idle runs, everything typed was
read; in `mutex`, the pools are exhausted and every task has ended. The kernel run
keeps the deadlock check.

## 4. Fairness

`UartShell`, `IpcRing` and `InversionDemo` have liveness properties. Two assumptions:

- **The processor executes code.** If the code that is running (not idle's empty loop)
  has a next step, some step of code is taken eventually. There is one core and at
  every moment one piece of code on it, so this is all that "the CPU does not stop"
  says. It is written `[]<>~CodeReady \/ []<><<Code>>_v`, weak fairness with
  `ENABLED Code` given as the state predicate `CodeReady`, because TLC is far too
  slow in evaluating ENABLED of kernel calls.
- **A pending interrupt is taken, and a handler at its end returns**: `WF(Interrupt)`,
  the tick's included.

No fairness for the user or the timer, and none for a task as such: that a task of low priority gets
the processor is shown, not assumed. In particular `HandlersEnd` needs the
interrupted task, often idle, to be scheduled again, and the shell always to go
back to sleep.

`MmuTables` is one thread with interrupts masked: `WF(Next)`. `PrintFormat` has weak fairness
of the code that ends and sends a text, none of the transmitter: `PrintEnds` holds
though the transmitter stays full (after an overrun of `tmp` it promises nothing).

## 5. The proofs

**The kernel.** `Kernel_proofs` proves for every number of tasks, stacks and semaphores, every set
of priorities, initial counts and maximum:

| theorem | property |
|---|---|
| `TypeCorrect` | `TypeOK` |
| `ListsStayWellFormed` | `ListsWellFormed` |
| `NoLostWakeup` | `NoIdleToken` |
| `SomebodyAlwaysRuns` | `RunningIsReady` |
| `HighestNeverStale` | `HighestIsCurrent` |
| `PoolsAreConserved` | `PoolsConserved` |
| `InheritanceNeverDemotes` | `NeverDemoted` |
| `ExitedTasksStayExited` | `ExitedStaysExited` |
| `RefinesFifoSemaphore` | `ImplementsFifoSemaphore` |

Assumptions: those of `Kernel` on its constants, which TLC evaluates in every run,
and `"TICKS" \notin Timeouts`: no caller passes a finite time-out. With one,
`PRT_SemPend` queues the task and returns to it without a switch, and the list
invariant is false; so this is a premise, not a convenience.

The argument. None of the properties is inductive alone. That the run queue holds
exactly the READY tasks is needed to know that unlinking the running task from it
touches no other list; that the running task is READY and not idle is needed
to know that a pend leaves idle on the queue; that a waiter's `taskSem` names
its queue is needed so that a wake-up unlinks it from the right one; that
waiters are never SUSPENDed is needed so that a woken task becomes ready. The
inductive invariant is

    SchedOK       the lists, states and scheduler variables fit together, stated of
                  the record the helpers transform
    RestType      types of the other variables
    BootOrRun     what holds before OsActivate and what after it
    NoIdleToken, UnusedSems, Stacks, NeverDemoted

`SchedOK` is a predicate on a scheduler record rather than on the variables, so that
`Kernel_proofs` can state once, for each helper, that it maps a good record to a
good record and what it leaves alone (`OsTskHighestSet`, `OsTskReadyAdd`,
`OsTskReadyDel`, `SetPriority`, `OsPriorityInherit`, `OsPriorityRestore`,
`OsSemPendListPut`, `OsSemPendListGet`, `OsTskSchedule`). It has three parts: what
`ListAdd`, `ListTailAdd`, `ListDelete` do to the range and the injectivity of a sequence;
the helpers; and one lemma per call, built from these. `FirstHighestPicks` shows
that the search returns a member of the list, and the one its C loop stops at; it
rests on a least-number principle proved by the library's induction on naturals.

`RefinesFifoSemaphore` goes call by call: what a call does to one count and one wait
queue is the abstract create, pend or post, and every other call leaves both alone (here
`NoIdleToken` is used: the abstract semaphore has either tokens or waiters).

**Mutexes.** `MutexTasks_proofs` proves of tasks that use semaphores as mutexes:

| theorem | property | premises beside no `"TICKS"` |
|---|---|---|
| `HighestRuns` | `RunningIsHighest` | `MaxHeld = 1` |
| `BoostsGivenBack` | `BoostHasWaiter` | `MaxHeld = 1` |
| `NobodyLeftBehind` | `IdleMeansNobodyWaits` | `MaxHeld = 1`, nobody at priority 63 |
| `WaiterRaisesHolder` | `HolderRaisedOnWait` | none: any nesting |

`MutexInv` adds to the kernel's invariant: who owns a mutex can still give it back
(`Owners`); a task owns one at most and does not wait meanwhile (`Single`); a task
above its own priority owns a mutex and has exactly the priority of the highest of its
waiters (`Boosts`); the running task is the one `g_highestTask` names (`Tops`). That `Boosts` says
*exactly* is needed: `OsPriorityRestore` lowers the poster to what the waiters of its
other mutexes ask for, and the proof that it goes back to its own priority
needs that there are none. Nor is `MaxHeld = 1` a convenience: with 2, TLC finds each of the first
three violated (`mutex_nested` is one of these). A task at 63 would share idle's
priority, and idle never yields to its equals.

**The UART and the shell.** `UartShell_proofs` proves for every size of `shellBuf`, FIFO
length, number and kind of characters:

| theorem | property |
|---|---|
| `ShellTypeCorrect` | `ShellTypeOK` |
| `TokensCountUnread` | `TokensMatchUnread` |
| `CharactersReadInOrder` | `ReadsInOrder` |
| `LineIsCommand` | `EchoIsCommand` |
| `ReportedStands` | `ReportsStand` |

The invariant `ShellInv` rests on two ideas. Only the shell ever waits for `sem_uart_rx`,
and only where it is about to read (`OnlyShellWaits`), so the wait queue is empty or
the shell, and nobody is raised. And the unread characters lie in `shellBuf` from the read
offset on, wrapped, in the order typed, with those of the FIFO behind them (`Ring`); hence
the two offsets, which the code never compares, are as far apart as the tokens say.
For the reports a second layer, `Reports`, says on the way what the property says at the
end: `ps` has printed the first tasks of the run queue and its cursor is on the next,
`semstat` the used semaphores below its cursor (`SemsPrinted`) and, within a row, what it has
loaded of it so far (`RowBegun`). It stays true because a handler that runs under a
report finds the shell not waiting, so its post wakes nobody and moves no list (`RxKeeps`):
it adds to the count of `sem_uart_rx` and may clear its owner, which is how far
`CountStands` and `OwnerStands` let that row be off, torn or not. No other row changes. And
a task is on one list once, so the links `ps` follows are the run queue's. The
theorem is about `ShellSpec`, the system without the demos; beside the inversion demo's
tasks the property is model-checked.
Premises: `EarlyTyping = FALSE` (nothing is typed before the semaphore
exists: `uart_boot_race` shows what happens else) and `OS_SEM_COUNT_MAX >=
SHELL_SHOW_MAX_LEN`, which 0xFFFFFFFE and 272 satisfy: a post refused would lose a
token.

**The producer/consumer demo.** `IpcRing_proofs` proves of the demo in the running
system, with boot, interrupts, shell and switches inside posts, for every size of the
ring, number of items and choice of priorities:

| theorem | property |
|---|---|
| `MutexExcludes` | `MutualExclusion` |
| `PlacesAndItemsCounted` | `SlotsAccounted` |
| `RefinesBoundedBuffer` | `ImplementsBoundedBuffer` |
| `ReportIsOneMoment` | `SnapshotConsistent` |
| `PlacesSuffice` | `NothingOverwritten` |

The one premise `DemoFits`: TCBs and stacks for idle, the shell and four tasks, and a
maximal count no smaller than the ring. It is needed: `ipc_restart` has three stacks, and
there `NothingOverwritten` fails. Semaphores may run out: then the demo is
not made. The invariant comes in layers, each proved on top of the one before.

    Control       the kernel's invariant; how far boot, the shell and the tasks are
                  fits what they have created (Place); who waits waits for the semaphore
                  its place in the code says (Waiters); the mutex has its token or one
                  task inside (Mutex)
    Tokens        each counting semaphore and the tasks holding its tokens
                  (PlaceHolders, ItemHolders) add up to the free places and to the items
    Buffers       the counters are the sums of the tasks' own, the indexes follow
                  them, and the task inside has written the next item or read the oldest
    Fresh         every item in the ring or taken was made, and none is there twice
    Copied        the shell's copy is the ring as it is

A kernel call is used only through what it does to one semaphore (`PendEffect`,
`PostEffect`): it takes a token or blocks the caller, gives one or wakes a waiter. A
woken task continues after its pend, so *holding a token* and *being inside* are
about places in the code and the PEND bit together. Mutual exclusion gives the
refinement its atomicity: the three steps of a producer (slot, index, counters) are one
`Put` at the counters, and the first writes a place that holds no item because
fewer items than places lie between the totals (`SlotsDiffer`). The same exclusion is
why nothing changes under the shell's copy.

**The priority-inversion demo.** `InversionDemo_proofs` proves, again in the running system
and for every number of tasks, stacks, loops and command lines:

| theorem | property |
|---|---|
| `OneUsesTheResource` | `ResourceExclusive` |
| `NobodyDelaysHigh` | `OnlyHolderRuns` |
| `LentPriorityReturned` | `PriorityReturned` |
| `WaitIsMeasured` | `WaitMeasured` |

Premises: `~ Overlapping`, without which `ResourceExclusive` is false (`inversion_twice`), and
`OS_SEM_COUNT_MAX > 0`, without which the resource cannot be given back. Pools need not
suffice: every failing creation is in the proof. The invariant `DemoInv` has three layers.

    Control       the kernel's invariant; what runs is the highest ready task (Tops); where
                  boot, the shell and the tasks are (BootSays, Roles); at most one High and
                  one Low, and no High before Low has the resource (Order); who waits is
                  the shell for characters or High for the resource (Waiters); the
                  resource is free or its owner, and no other, is between taking and giving,
                  or Low returned with it and nobody is left to want it (Mutex); every task
                  has its own priority but Low, at High's while High waits (Ranks)
    Handlers      an unfinished handler's task is still ready; if it is one of the demo and
                  another runs, High is not there yet or has ended
    Times         the ticks since High looked are the periods since, but for the one due;
                  or none, when the handler that woke the shell lies unfinished below

`NobodyDelaysHigh` is `Tops` and `Ranks` together: the holder has High's priority, and whatever
else is ready, the shell included, has a lower one. The third case of `Mutex` is the Low that
cannot create High and returns at once. `Times` needs `Handlers`: a wait is blind from
beginning to end or not at all, because the handler under it cannot end while a task
of the demo, all of them above idle, is ready.

**The lists.** `DoublyList_proofs` proves for every set of objects:

| theorem | what |
|---|---|
| `LinksStayLists` | `Spec => []LinksAreLists`: from each head `next` visits its list in order and comes back, `prev` backwards; no object is on two lists; what is on none points nowhere |
| `LinkTests` | `ListEmpty` and `OS_LIST_FIRST`, which read links, answer what the list would |
| `ListsAreSequences` | the insertions and the deletion of `Lists` are those of the links |

The premise is in the guards: callers link what is not linked and unlink what is.
That the kernel does so is `ListsStayWellFormed`. The induction needs that positions on
rings are distinct (`Positions`): then an insertion between two neighbours, however the
code found them, disturbs one link in each direction (`AddKeepsLinks`), and a deletion
likewise (`DeleteKeepsLinks`).

**The translation tables.** `MmuTables_proofs` proves for every area, list of regions,
contents of memory and size of tables, from the assumptions on the constants alone:

| theorem | property |
|---|---|
| `MmuTypesHold` | `MmuTypeOK` |
| `TreeKept` | `TablesFormTree` |
| `AreaKept` | `AreaRespected` |

and, for region tables that are `MapWellFormed`,

| theorem | property |
|---|---|
| `MapIsRight` | `TranslatesRight` |

The inductive invariant `MmuInv` joins the tree and the area to two facts they rest on:
the shape of the state (`Shape`: every table is a function from its cells to entries), and
how far the construction is at each place of the code (`Progress`: nothing is taken before
the root, the fill pointer stays within the area afterwards, and a walk is for a region of
the list). A step that takes a table clears it first and links it from one entry that
pointed to none, so the tree gains a leaf and no second path.

`MapIsRight` adds `Loops` (where the two loops stand; each turn maps a whole block that
ends inside its region) and `Mapped`: while the tables are built, an address that no region
has covered yet reads as unmapped, any other as the last region that covered it says.
Its argument is the tree's: two walks that reach one table have passed the same entries
(`TabUnique`), and walks that pass the same entries down to a level are those of the addresses
of one block of that level (`SameBlock`). So one written entry changes the
translation of exactly one block (`WriteElsewhere`, `WriteThere`): a leaf gives it the address
and attributes asked for, a new table gives it nothing, as before. That the
processor starts its walk at the root mmu.c built (`WalkStart`) rests on `SizeAssumption`, true of
the constants of `mmu.h`. The premise `MapWellFormed` says that each region begins and ends at
blocks of the level it asks for and ends below the largest address space, as
`g_mem_map_info` does: without it a block sticks out of its region. A region table that nests
badly, or needs more tables than there are, is covered: the MMU then stays off.

**Formatted printing.** `PrintFormat_proofs` proves for every size of the buffer and of `tmp`,
list of texts, conversion and argument, as long as `tmp` holds the digits of each number
printed (after an overrun neither property says anything):

| theorem | property |
|---|---|
| `TextIsCut` | `TextIsPrefix` |
| `ScreenGetsText` | `ScreenIsText` |

from `PrintAssumption` alone (the widths of the integer types are ordered as in C; a C string
holds no zero byte). The invariant says that the buffer holds as much as fits of what the
rounds so far asked for, and the guard cells behind it what they held (`Filled`), that
the terminator stands at the end or at the cut and the text that is sent ends there or at a
zero byte before it (`Cut`), and, while the text is sent, that
the screen shows a subsequence of the characters dealt with that lacks just those the
transmitter gave up (`Underway`). The recursive functions of the module are reached
without induction: that such a function exists and is the only one (`Iterates`, `ComeApart`)
follows from a least argument at which it would not be, and `Greedy` shows that taking each
character at the first place it fits misses no subsequence.

**Only model-checked:** liveness (out of the prover's reach under fairness: `MmuInitReturns`,
`PrintEnds` and the others of section 4), `FieldReadsBack` (that the digits read back as the number,
and how many they are, is an induction over the data, with powers of the base), and `ReportsStand` beside the tasks of the inversion demo (it is proved of the
system without the demos).

## 6. Where code and comments disagree

Found while modelling, each reproduced by a run that TLC must find violated.

1. `mutex_handover`: `PRT_SemPost` hands a mutex to the longest waiter without
   looking at who still waits, so a low holder can keep a high waiter waiting
   unraised (`prt_sem.c:319` against the protocol in `prt_sem.c:14-16`).
2. `mutex_nested`: with nested mutexes `OsPriorityRestore` counts the task it is about
   to wake among the waiters, and the poster keeps its priority with nobody waiting
   (`prt_sem.c:315` against `310-311` and `92-93`).
3. `uart_boot_race`: the UART interrupt is enabled before its semaphore is made; a
   character in between is stored and never counted (`print.c:67`).
4. `ipc_restart`: `g_demoStarted` is set only when everything was created; after a
   failure `ipc` starts again over the tasks left behind (`ipc_ring_demo.c:245`).
5. `inversion_twice`: `demo` has no guard at all against being typed again
   (`test_priority_inversion.c:288`).

Also noted, without a run:

- `OsPriorityRestore` looks for waiters of the posted semaphore only (`prt_sem.c:117`, `137`): a
  task that holds a second one loses the priority lent for it while that waiter waits on,
  against the protocol of `prt_sem.c:14-16` again. The model does the same with `MaxHeld = 2`.
- `shmsg.c:228` prints that the shell's priority 9 is below that of the demo's tasks, but
  Mid (10) and Low (15) are below the shell, and a character that interrupts
  Low makes the shell run.
- `test_priority_inversion.c:15-16` promises waits of about 18 ticks. The shell that starts the
  demo was woken inside the UART handler, which does not end before the interrupted
  task, idle as a rule, runs again: after the demo. No tick is counted meanwhile, and High
  prints 0. `WaitMeasured` states both cases, and the run `inversion` reaches both.
- `mmu_init`'s result is ignored (`start.S:32`): the system runs on with the MMU off.
  `TranslatesRight` says that it is then off, never half set up.
- `vsnprintf_s.c`: with precision 0 no digit is printed; a field width cuts a longer
  string short; the value returned is the untruncated length where the comment at 309
  speaks of the characters written; `tmp[32]` is too small for `%lb` of a number of more than
  32 bits, which nobody prints (`FieldReadsBack` says that no other conversion is too long); the
  code behind `RT_PRINTF_SPECIAL` and `RT_PRINTF_LONGLONG` is compiled out.
- A row that `semstat` prints of the receive semaphore may be torn (section 2).
- `prt_tick.c:38` prints a 64-bit count with `%d`.

The third to fifth are out of the passing runs by an explicit constant or bound
(`EarlyTyping = FALSE`, pools for the whole ring demo, `Overlapping = FALSE`); the first is not checked in
`mutex`, and `MaxHeld = 1` keeps the second out of it.

## 7. Not modelled

- Registers, stacks, context save and restore, barriers: below the step of the model;
  with them the hazard that `OsFirstTimeSwitch` restores ELR and SPSR unmasked.
- Caches and TLB (`cache_asm.S`): invalidated by set and way; `MmuTables` takes memory
  as the walk sees it.
- What the assembly does before `main` (exception level, stack pointer, `.bss`), except its
  call of `mmu_init`. Interrupt priorities: all are 0.
- Exceptions and system calls other than the switch (`prt_exc.c` prints the registers and
  stops).
- `top` is `ps` ten times; `tick` reads one word; `help`, `memstat` and `quit` print constants:
  one step without effect.
- Finite time-outs of `PRT_SemPend`: in `Kernel`'s text (`"TICKS"`), in no instance.
- Transitive inheritance: the code has none; see the hazards.

## 8. Plan

Done: the kernel (`Lists`, `Kernel`, `FifoSemaphore`, its invariant and theorems), `MutexTasks`,
`UartShell` with boot, timer and reports, `IpcRing`, `BoundedBuffer`, `InversionDemo`, `MmuTables` with
its theorems, `PrintFormat`, `DoublyList` with its theorems.

The theorems of `MutexTasks`, `UartShell` and `IpcRing`, and the two refinements.

The theorems of `InversionDemo`, of `PrintFormat`, and `TranslatesRight` for `MmuTables`.

Left: `ReportsStand` for `InversionDemo`, where the demo's tasks may run under a report; and
`FieldReadsBack`, should the provers learn to instantiate an induction theorem.
