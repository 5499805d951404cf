---- MODULE MmuTables ----
(* The translation tables the boot code builds before main (src/src/bsp/mmu.c).
   Addresses count pages of the 4K granule. A table is numbered by its place in
   the area between g_mmu_page_begin and g_mmu_page_end. *)
EXTENDS Integers, Sequences

CONSTANTS Configs,    \* the (granule, area, regions, stale contents) to try
          Tables,     \* tables of memory, the area and what lies behind it
          Entries,    \* entries of a table, by granule (512 and 8192)
          Page,       \* size of a page, by granule
          Small, Large \* the address-space sizes: up to 36 bits, and 40 and more

Granules == {"4K", "64K"}
Levels == 0..3
NULL == -1

Attrs == {"none", "device", "cached"}    \* the memory types of mmu.h in use
Region == [virt : Nat, phys : Nat, size : Nat, maxLevel : Nat, attrs : Attrs]
Entry == [type : {"fault", "table", "block", "page"}, to : Nat, attrs : Attrs]
PTE_FAULT == [type |-> "fault", to |-> 0, attrs |-> "none"]

ASSUME MmuAssumption ==
    /\ Tables \in Nat
    /\ Entries \in [Granules -> Nat \ {0}]
    /\ Page \in [Granules -> Nat \ {0}]
    /\ Small \in Nat \ {0} /\ Large \in Nat /\ Small < Large
    /\ \A c \in Configs :
          /\ c.granule \in Granules /\ c.area \in 0..Tables
          /\ c.regions \in Seq(Region) /\ c.stale \in Entry

(* mmu.h: 32 or 36 bits need three tables of 4K or two of 64K, 40 to 48 bits four
   of 4K. *)
ASSUME SizeAssumption ==
    /\ LET e == Entries["4K"]  p == Page["4K"]
       IN  /\ p * e * e < Small /\ Small <= p * e * e * e
           /\ p * e * e * e < Large /\ Large <= p * e * e * e * e
    /\ LET e == Entries["64K"]  p == Page["64K"]
       IN  p * e < Small /\ Small <= p * e * e

VARIABLES cfg,      \* the inputs of mmu_setup_pgtables
          mem,      \* the tables in memory
          fill,     \* tlb_fillptr: how many tables have been taken
          start,    \* start_level
          va,       \* va_bits
          region, mapped, level,  \* the loops of mmu_setup_pgtables, mmu_add_map
          pc, ret,
          regs      \* TTBR0/TCR as written, and the M bit of SCTLR

vars == <<cfg, mem, fill, start, va, region, mapped, level, pc, ret, regs>>

Map == cfg.regions[region]

(* 1 << mmu_level2shift(level): what one entry of that level stands for. *)
Span(l) ==
    LET e == Entries[cfg.granule]  p == Page[cfg.granule]
    IN  IF l = 3 THEN p
        ELSE IF l = 2 THEN p * e
        ELSE IF l = 1 THEN p * e * e
        ELSE p * e * e * e

Idx(addr, l) == (addr \div Span(l)) % Entries[cfg.granule]

(* mmu_get_tcr: the smallest size that holds the end of every region. *)
VaSize(c) ==
    IF \A i \in 1..Len(c.regions) : c.regions[i].virt + c.regions[i].size <= Small
    THEN Small ELSE Large

(* Fault: the walk always starts at level 1. *)
FaultStartAtOne(c) == IF c.granule = "4K" THEN 1 ELSE 2

StartLevel(c) ==
    IF c.granule = "4K" THEN IF VaSize(c) = Small THEN 1 ELSE 0
                        ELSE IF VaSize(c) = Small THEN 2 ELSE 1

(* mmu_find_pte: from the root at level `from`, one table entry per level, and
   NULL as soon as an entry on the way is not a table. *)
Descend(t, addr, l) ==
    IF t # NULL /\ mem[t][Idx(addr, l)].type = "table"
    THEN mem[t][Idx(addr, l)].to
    ELSE NULL

TableFor(addr, from, l) ==
    LET first == Descend(0, addr, from)
        second == Descend(first, addr, from + 1)
    IN  IF l = from THEN 0
        ELSE IF l = from + 1 THEN first
        ELSE IF l = from + 2 THEN second
        ELSE IF l = from + 3 THEN Descend(second, addr, from + 2)
        ELSE NULL

FoundTable == IF level \in Levels THEN TableFor(Map.virt + mapped, start, level) ELSE NULL
FoundIdx == Idx(Map.virt + mapped, level)
Found == mem[FoundTable][FoundIdx]

(* Fault: a new table keeps what the memory held. *)
FaultNotCleared == mem[fill]

Cleared == [k \in 0..Entries[cfg.granule] - 1 |-> PTE_FAULT]

Fail(code) == pc' = "done" /\ ret' = code

(* mmu_setup hands its static region table over; the memory is as the loader
   left it. *)
Init ==
    /\ cfg \in Configs
    /\ mem = [t \in 0..Tables - 1 |-> [k \in 0..Entries[cfg.granule] - 1 |-> cfg.stale]]
    /\ fill = 0 /\ start = 0 /\ va = 0
    /\ region = 1 /\ mapped = 0 /\ level = 0
    /\ pc = "configure" /\ ret = 0
    /\ regs = [va |-> 0, on |-> FALSE]

(* mmu_setup_pgtables: the control block; a 64K granule with a large address
   space is refused. *)
Configure ==
    /\ pc = "configure"
    /\ va' = VaSize(cfg)
    /\ start' = StartLevel(cfg)
    /\ IF cfg.granule = "64K" /\ VaSize(cfg) # Small
       THEN Fail(3) ELSE pc' = "root" /\ UNCHANGED ret
    /\ UNCHANGED <<cfg, mem, fill, region, mapped, level, regs>>

(* Fault: the area is found full one table late. *)
FaultAreaLate == fill > cfg.area

(* mmu_create_table: the fill pointer moves first, and stays moved when the area
   is exhausted. *)
AreaFull == fill + 1 > cfg.area

CreateRoot ==
    /\ pc = "root"
    /\ fill' = fill + 1
    /\ IF AreaFull
       THEN Fail(1) /\ UNCHANGED mem
       ELSE /\ mem' = [mem EXCEPT ![fill] = Cleared]
            /\ pc' = "region" /\ UNCHANGED ret
    /\ UNCHANGED <<cfg, start, va, region, mapped, level, regs>>

(* Fault: max_level is not compared with the start level. *)
FaultAnyLevel ==
    /\ pc = "region" /\ region <= Len(cfg.regions)
    /\ pc' = "walk" /\ mapped' = 0 /\ level' = start
    /\ UNCHANGED <<cfg, mem, fill, start, va, region, ret, regs>>

(* mmu_add_map up to its loop, for the next region of the list; an empty one is
   done at once. *)
StartRegion ==
    /\ pc = "region" /\ region <= Len(cfg.regions)
    /\ IF Map.maxLevel <= start
       THEN Fail(-2) /\ UNCHANGED <<mapped, level, region>>
       ELSE IF Map.size = 0
       THEN region' = region + 1 /\ UNCHANGED <<pc, mapped, level, ret>>
       ELSE pc' = "walk" /\ mapped' = 0 /\ level' = start /\ UNCHANGED <<region, ret>>
    /\ UNCHANGED <<cfg, mem, fill, start, va, regs>>

(* The inner loop of mmu_add_map, one iteration per step. *)
NotFound ==
    /\ pc = "walk" /\ FoundTable = NULL
    /\ Fail(-3)
    /\ UNCHANGED <<cfg, mem, fill, start, va, region, mapped, level, regs>>

(* mmu_add_map_pte_process above max_level: an invalid entry gets a new table, a
   valid one (a block too) is left as it is. *)
LinkTable ==
    /\ pc = "walk" /\ FoundTable # NULL
    /\ level < Map.maxLevel /\ Found.type = "fault"
    /\ fill' = fill + 1
    /\ IF AreaFull
       THEN Fail(-1) /\ UNCHANGED <<mem, level>>
       ELSE /\ mem' = [mem EXCEPT
                         ![fill] = Cleared,
                         ![FoundTable][FoundIdx] =
                              [type |-> "table", to |-> fill, attrs |-> "none"]]
            /\ level' = level + 1 /\ UNCHANGED <<pc, ret>>
    /\ UNCHANGED <<cfg, start, va, region, mapped, regs>>

KeepEntry ==
    /\ pc = "walk" /\ FoundTable # NULL
    /\ level < Map.maxLevel /\ Found.type # "fault"
    /\ level' = level + 1
    /\ UNCHANGED <<cfg, mem, fill, start, va, region, mapped, pc, ret, regs>>

(* Fault: the virtual start is taken off, as if phys were the region's shift. *)
FaultLeafShifted == [type |-> IF level = 3 THEN "page" ELSE "block",
                     to |-> Map.phys + mapped - Map.virt, attrs |-> Map.attrs]

(* ... and at max_level: a page or a block, after which the outer loop moves on
   by the size of that entry. *)
Leaf == [type |-> IF level = 3 THEN "page" ELSE "block",
         to |-> Map.phys + mapped, attrs |-> Map.attrs]

BlockSize == IF level # start THEN Span(level) ELSE 0

MapEntry ==
    /\ pc = "walk" /\ FoundTable # NULL
    /\ level >= Map.maxLevel
    /\ mem' = [mem EXCEPT ![FoundTable][FoundIdx] = Leaf]
    /\ mapped' = mapped + BlockSize
    /\ level' = start
    /\ IF mapped' < Map.size
       THEN UNCHANGED <<pc, region>>
       ELSE pc' = "region" /\ region' = region + 1
    /\ UNCHANGED <<cfg, fill, start, va, ret, regs>>

(* mmu_set_ttbr_tcr_mair. *)
Install ==
    /\ pc = "region" /\ region > Len(cfg.regions)
    /\ regs' = [regs EXCEPT !.va = va]
    /\ pc' = "enable"
    /\ UNCHANGED <<cfg, mem, fill, start, va, region, mapped, level, ret>>

(* mmu_init once mmu_setup has returned 0: caches and TLB are invalidated, then
   SCTLR.M is set. Its caller, start.S, ignores what it returns. *)
Enable ==
    /\ pc = "enable"
    /\ regs' = [regs EXCEPT !.on = TRUE]
    /\ pc' = "done"
    /\ UNCHANGED <<cfg, mem, fill, start, va, region, mapped, level, ret>>

Next ==
    \/ Configure \/ CreateRoot \/ StartRegion
    \/ NotFound \/ LinkTable \/ KeepEntry \/ MapEntry
    \/ Install \/ Enable

(* Boot is one thread of straight-line code with interrupts masked: a step that
   can be taken is taken. *)
Spec == Init /\ [][Next]_vars /\ WF_vars(Next)
----
(* --- Properties --- *)

(* Every variable of mmu.c stays within its type. *)
MmuTypeOK ==
    /\ cfg \in Configs
    /\ DOMAIN mem = 0..Tables - 1
    /\ \A t \in DOMAIN mem : /\ DOMAIN mem[t] = 0..Entries[cfg.granule] - 1
                             /\ \A k \in DOMAIN mem[t] : mem[t][k] \in Entry
    /\ fill \in Nat /\ start \in Levels /\ va \in {0, Small, Large}
    /\ region \in Nat /\ mapped \in Nat /\ level \in 0..4
    /\ pc \in {"configure", "root", "region", "walk", "enable", "done"}
    /\ ret \in {0, 1, 3, -1, -2, -3}
    /\ regs \in [va : {0, Small, Large}, on : BOOLEAN]

(* mmu_create_table, mmu_set_pte_table: the tables taken so far form a tree that
   grows downwards in the area: an entry that points to a table points to a later
   one already taken and cleared, and no table hangs from two entries. Stale
   memory is never followed. *)
Taken == IF fill > cfg.area THEN cfg.area ELSE fill
Links == {l \in (0..Taken - 1) \X (0..Entries[cfg.granule] - 1) :
             mem[l[1]][l[2]].type = "table"}
TablesFormTree ==
    /\ \A l \in Links : mem[l[1]][l[2]].to \in (l[1] + 1)..(Taken - 1)
    /\ \A l, m \in Links :
          mem[l[1]][l[2]].to = mem[m[1]][m[2]].to => l = m

(* mmu_create_table: whatever the regions ask for, memory behind g_mmu_page_end
   is never written. *)
AreaRespected ==
    \A t \in cfg.area..Tables - 1 :
        \A k \in 0..Entries[cfg.granule] - 1 : mem[t][k] = cfg.stale

(* What the processor does with the registers mmu_set_ttbr_tcr_mair wrote: the
   walk starts at the last level whose root still covers the address space. *)
HwStart == CHOOSE l \in Levels :
    /\ Span(l) * Entries[cfg.granule] >= regs.va
    /\ \A n \in Levels : n > l => Span(n) * Entries[cfg.granule] < regs.va

Translate(addr) ==
    LET leaf(l) == mem[TableFor(addr, HwStart, l)][Idx(addr, l)]
        found == {l \in HwStart..3 :
                     /\ TableFor(addr, HwStart, l) # NULL
                     /\ leaf(l).type = (IF l = 3 THEN "page" ELSE "block")}
    IN  {<<leaf(l).to + (addr % Span(l)), leaf(l).attrs>> : l \in found}

(* The map the static region table asks for; a later region overrides. *)
Wanted(addr) ==
    LET rs == {i \in 1..Len(cfg.regions) :
                  addr \in cfg.regions[i].virt ..
                           cfg.regions[i].virt + cfg.regions[i].size - 1}
        r == cfg.regions[CHOOSE i \in rs : \A j \in rs : j <= i]
    IN  IF rs = {} THEN {} ELSE {<<r.phys + addr - r.virt, r.attrs>>}

(* mmu_init: when the MMU is switched on, every address translates to what the
   region table says, with its attributes, and nothing else is mapped, whatever
   the memory of the tables held before. *)
TranslatesRight ==
    regs.on => \A addr \in 0..regs.va - 1 : Translate(addr) = Wanted(addr)

(* mmu_add_map: mmu_init returns for every region table, also when it cannot be
   mapped; no region makes its loop advance by nothing. *)
MmuInitReturns == <>(pc = "done")
====
