---- MODULE MmuTables_proofs ----
(* For every region table, granule, size of the area and content of the memory:
   the tables taken form a tree inside the area, and once the MMU is on they
   translate every address to what a well-formed region table says. *)
EXTENDS MmuTables, WellFoundedInduction, TLAPS

(* The types, and how much of the area is taken at each place of the code. *)
Cells == 0..Entries[cfg.granule] - 1

Shape ==
    /\ cfg \in Configs
    /\ mem \in [0..Tables - 1 -> [Cells -> Entry]]
    /\ fill \in Nat /\ start \in Levels /\ va \in {0, Small, Large}
    /\ region \in Nat \ {0} /\ mapped \in Nat /\ level \in 0..4
    /\ pc \in {"configure", "root", "region", "walk", "enable", "done"}
    /\ ret \in {0, 1, 3, -1, -2, -3}
    /\ regs \in [va : {0, Small, Large}, on : BOOLEAN]

Progress ==
    /\ pc \in {"configure", "root"} => fill = 0
    /\ pc \in {"region", "walk", "enable"} => fill \in 1..cfg.area
    /\ pc = "walk" => region <= Len(cfg.regions)

MmuInv == Shape /\ Progress /\ TablesFormTree /\ AreaRespected
----
(* The constants of a configuration, as the proofs use them. *)
LEMMA ConfigFacts ==
    ASSUME cfg \in Configs
    PROVE  /\ Entries[cfg.granule] \in Nat \ {0}
           /\ Page[cfg.granule] \in Nat \ {0}
           /\ cfg.area \in 0..Tables /\ Tables \in Nat
           /\ cfg.regions \in Seq(Region) /\ cfg.stale \in Entry
           /\ Small \in Nat /\ Large \in Nat
  BY MmuAssumption

LEMMA SpanPositive ==
    ASSUME cfg \in Configs, NEW l \in Levels
    PROVE  Span(l) \in Nat \ {0}
  <1> DEFINE e == Entries[cfg.granule]
             p == Page[cfg.granule]
  <1>1. e \in Nat \ {0} /\ p \in Nat \ {0}
    BY ConfigFacts
  <1> HIDE DEF e, p
  <1>2. \A a, b \in Nat \ {0} : a * b \in Nat \ {0}
    OBVIOUS
  <1>3. p * e \in Nat \ {0}
    BY <1>1, <1>2
  <1>4. p * e * e \in Nat \ {0}
    BY <1>1, <1>2, <1>3
  <1>5. p * e * e * e \in Nat \ {0}
    BY <1>1, <1>2, <1>4
  <1> QED
    BY <1>1, <1>3, <1>4, <1>5 DEF Span, e, p

(* The index mmu_find_pte takes from an address is one of the table's. *)
LEMMA IdxInTable ==
    ASSUME cfg \in Configs, NEW addr \in Nat, NEW l \in Levels
    PROVE  Idx(addr, l) \in Cells
  <1>1. Span(l) \in Nat \ {0} /\ Entries[cfg.granule] \in Nat \ {0}
    BY ConfigFacts, SpanPositive
  <1> DEFINE a == addr \div Span(l)
             e == Entries[cfg.granule]
  <1>2. a \in Int
    BY <1>1
  <1>3. e \in Nat \ {0}
    BY <1>1
  <1> HIDE DEF a, e
  <1>4. a % e \in 0..e - 1
    BY <1>2, <1>3
  <1> QED
    BY <1>4 DEF Idx, Cells, a, e

(* Whatever mmu_find_pte walks through, it ends in a table already taken. *)
LEMMA DescendTaken ==
    ASSUME MmuInv, fill \in 1..cfg.area,
           NEW t \in (0..fill - 1) \cup {NULL}, NEW addr \in Nat, NEW l \in Levels
    PROVE  Descend(t, addr, l) \in (0..fill - 1) \cup {NULL}
  <1> DEFINE k == Idx(addr, l)
  <1>1. k \in Cells
    BY IdxInTable DEF MmuInv, Shape
  <1> HIDE DEF k
  <1>2. Taken = fill
    BY ConfigFacts DEF Taken, MmuInv, Shape
  <1>3. CASE t # NULL /\ mem[t][k].type = "table"
    <2>1. <<t, k>> \in Links
      BY <1>1, <1>2, <1>3 DEF Links, Cells
    <2>2. mem[t][k].to \in (t + 1)..(fill - 1)
      BY <2>1, <1>2 DEF MmuInv, TablesFormTree
    <2>3. t \in 0..fill - 1
      BY <1>3
    <2> QED
      BY <1>3, <2>2, <2>3 DEF Descend, k, MmuInv, Shape
  <1>4. CASE ~ (t # NULL /\ mem[t][k].type = "table")
    BY <1>4 DEF Descend, k
  <1> QED
    BY <1>3, <1>4

LEMMA TableForTaken ==
    ASSUME MmuInv, fill \in 1..cfg.area,
           NEW addr \in Nat, NEW from \in Levels, NEW l \in Levels
    PROVE  TableFor(addr, from, l) \in (0..fill - 1) \cup {NULL}
  <1> DEFINE T == (0..fill - 1) \cup {NULL}
             d1 == Descend(0, addr, from)
             d2 == Descend(d1, addr, from + 1)
             d3 == Descend(d2, addr, from + 2)
  <1>1. 0 \in T /\ NULL \in T
    BY ConfigFacts DEF MmuInv, Shape
  <1>2. d1 \in T
    BY <1>1, DescendTaken
  <1>3. from + 1 \in Levels => d2 \in T
    <2> HIDE DEF d1
    <2> QED  BY <1>2, DescendTaken
  <1>4. from + 1 \in Levels /\ from + 2 \in Levels => d3 \in T
    <2> HIDE DEF d2
    <2> QED  BY <1>3, DescendTaken
  <1>5. from \in Nat /\ l \in Nat
    BY DEF Levels
  <1>6. \/ l = from /\ TableFor(addr, from, l) = 0
        \/ l = from + 1 /\ TableFor(addr, from, l) = d1
        \/ l = from + 2 /\ TableFor(addr, from, l) = d2
        \/ l = from + 3 /\ TableFor(addr, from, l) = Descend(d2, addr, from + 2)
        \/ TableFor(addr, from, l) = NULL
    <2> HIDE DEF d1, d2
    <2> QED  BY <1>5 DEF TableFor, d1, d2
  <1> HIDE DEF d1, d2, d3, T
  <1>7. Descend(d2, addr, from + 2) = d3
    BY DEF d3
  <1>8. TableFor(addr, from, l) \in T
    <2>1. CASE TableFor(addr, from, l) = 0
      BY <1>1, <2>1
    <2>2. CASE l = from + 1 /\ TableFor(addr, from, l) = d1
      BY <1>2, <2>2
    <2>3. CASE l = from + 2 /\ TableFor(addr, from, l) = d2
      <3>1. from + 1 \in Levels
        BY <1>5, <2>3 DEF Levels
      <3> QED  BY <1>3, <2>3, <3>1
    <2>4. CASE l = from + 3 /\ TableFor(addr, from, l) = d3
      <3>1. from + 1 \in Levels /\ from + 2 \in Levels
        BY <1>5, <2>4 DEF Levels
      <3> QED  BY <1>4, <2>4, <3>1
    <2>5. CASE TableFor(addr, from, l) = NULL
      BY <1>1, <2>5
    <2> QED  BY <1>6, <1>7, <2>1, <2>2, <2>3, <2>4, <2>5
  <1> QED
    BY <1>8 DEF T

(* The entry the inner loop of mmu_add_map works on is a cell of a taken table. *)
LEMMA FoundTaken ==
    ASSUME MmuInv, pc = "walk", FoundTable # NULL
    PROVE  /\ level \in Levels /\ Map \in Region
           /\ FoundTable \in 0..fill - 1 /\ FoundIdx \in Cells
           /\ fill \in 1..cfg.area
  <1>1. fill \in 1..cfg.area /\ region \in 1..Len(cfg.regions)
    BY DEF MmuInv, Progress, Shape
  <1>2. Map \in Region
    BY <1>1, ConfigFacts DEF Map, MmuInv, Shape
  <1>3. level \in Levels
    BY DEF FoundTable
  <1>4. Map.virt + mapped \in Nat
    BY <1>2 DEF Region, MmuInv, Shape
  <1>5. FoundTable \in (0..fill - 1) \cup {NULL}
    BY <1>1, <1>3, <1>4, TableForTaken DEF FoundTable, MmuInv, Shape
  <1>6. FoundIdx \in Cells
    BY <1>3, <1>4, IdxInTable DEF FoundIdx, MmuInv, Shape
  <1> QED
    BY <1>1, <1>2, <1>3, <1>5, <1>6
----
(* What a new table holds. *)
LEMMA ClearedType == /\ PTE_FAULT \in Entry
                     /\ Cleared \in [Cells -> Entry]
                     /\ \A k \in Cells : Cleared[k] = PTE_FAULT
  <1>1. PTE_FAULT \in Entry
    BY DEF PTE_FAULT, Entry, Attrs
  <1>2. Cleared = [k \in Cells |-> PTE_FAULT]
    BY DEF Cleared, Cells
  <1> HIDE DEF Cleared, Cells
  <1> QED
    BY <1>1, <1>2

LEMMA InitMmuInv == Init => MmuInv
  <1> SUFFICES ASSUME Init PROVE MmuInv
    OBVIOUS
  <1>1. Shape
    BY ConfigFacts DEF Init, Shape, Cells, Levels
  <1>2. Progress
    BY DEF Init, Progress
  <1>3. TablesFormTree
    <2>1. Taken = 0
      BY ConfigFacts DEF Init, Taken
    <2>2. Links = {}
      BY <2>1 DEF Links
    <2> QED  BY <2>2 DEF TablesFormTree
  <1>4. AreaRespected
    BY ConfigFacts DEF Init, AreaRespected
  <1> QED
    BY <1>1, <1>2, <1>3, <1>4 DEF MmuInv

(* Steps that write no table, and take none that the area holds. *)
LEMMA TablesKept ==
    ASSUME MmuInv, cfg' = cfg, mem' = mem, fill' \in Nat, Taken' = Taken
    PROVE  (TablesFormTree /\ AreaRespected)'
  BY DEF MmuInv, TablesFormTree, AreaRespected, Links

LEMMA ConfigureInv == MmuInv /\ Configure => MmuInv'
  <1> SUFFICES ASSUME MmuInv, Configure PROVE MmuInv'
    OBVIOUS
  <1>1. Shape'
    BY DEF Configure, MmuInv, Shape, Cells, VaSize, StartLevel, Levels, Fail
  <1>2. Progress'
    BY DEF Configure, MmuInv, Progress, Fail
  <1>3. Taken' = Taken
    BY DEF Configure, Taken
  <1>4. (TablesFormTree /\ AreaRespected)'
    BY <1>3, TablesKept DEF Configure, MmuInv, Shape
  <1> QED
    BY <1>1, <1>2, <1>4 DEF MmuInv

(* The root: one cleared table, which nothing points to. *)
LEMMA CreateRootInv == MmuInv /\ CreateRoot => MmuInv'
  <1> SUFFICES ASSUME MmuInv, CreateRoot PROVE MmuInv'
    OBVIOUS
  <1>1. fill = 0 /\ fill' = 1 /\ cfg' = cfg /\ cfg.area \in 0..Tables /\ Tables \in Nat
    BY ConfigFacts DEF CreateRoot, MmuInv, Progress, Shape
  <1>2. Cleared \in [Cells -> Entry]
    BY ClearedType
  <1>3. CASE AreaFull
    <2>1. cfg.area = 0 /\ mem' = mem /\ pc' = "done" /\ ret' = 1
      BY <1>1, <1>3 DEF AreaFull, CreateRoot, Fail
    <2>2. Taken' = Taken
      BY <1>1, <2>1 DEF Taken
    <2>3. Shape'
      BY <1>1, <2>1 DEF CreateRoot, MmuInv, Shape, Cells
    <2>4. Progress'
      BY <2>1 DEF Progress
    <2>5. (TablesFormTree /\ AreaRespected)'
      BY <1>1, <2>1, <2>2, TablesKept
    <2> QED  BY <2>3, <2>4, <2>5 DEF MmuInv
  <1>4. CASE ~ AreaFull
    <2>1. /\ cfg.area >= 1 /\ mem' = [mem EXCEPT ![0] = Cleared]
          /\ pc' = "region" /\ ret' = ret
      BY <1>1, <1>4 DEF AreaFull, CreateRoot
    <2>2. Shape'
      BY <1>1, <1>2, <2>1 DEF CreateRoot, MmuInv, Shape, Cells
    <2>3. Progress'
      BY <1>1, <2>1 DEF Progress
    <2>4. Taken' = 1
      BY <1>1, <2>1 DEF Taken
    <2>5. \A k \in Cells : mem'[0][k].type = "fault"
      BY <1>1, <2>1 DEF Cleared, Cells, PTE_FAULT, MmuInv, Shape
    <2>6. Links' = {}
      BY <1>1, <2>4, <2>5 DEF Links, Cells
    <2>7. TablesFormTree'
      BY <2>6 DEF TablesFormTree
    <2>8. AreaRespected'
      BY <1>1, <2>1 DEF AreaRespected, MmuInv, Shape
    <2> QED  BY <2>2, <2>3, <2>7, <2>8 DEF MmuInv
  <1> QED
    BY <1>3, <1>4

LEMMA StartRegionInv == MmuInv /\ StartRegion => MmuInv'
  <1> SUFFICES ASSUME MmuInv, StartRegion PROVE MmuInv'
    OBVIOUS
  <1>1. Shape'
    BY DEF StartRegion, MmuInv, Shape, Cells, Levels, Fail
  <1>2. Progress'
    BY DEF StartRegion, MmuInv, Progress, Fail
  <1>3. Taken' = Taken
    BY DEF StartRegion, Taken
  <1>4. (TablesFormTree /\ AreaRespected)'
    BY <1>3, TablesKept DEF StartRegion, MmuInv, Shape
  <1> QED
    BY <1>1, <1>2, <1>4 DEF MmuInv

LEMMA NotFoundInv == MmuInv /\ NotFound => MmuInv'
  <1> SUFFICES ASSUME MmuInv, NotFound PROVE MmuInv'
    OBVIOUS
  <1>1. Shape'
    BY DEF NotFound, MmuInv, Shape, Cells, Fail
  <1>2. Progress'
    BY DEF NotFound, MmuInv, Progress, Fail
  <1>3. Taken' = Taken
    BY DEF NotFound, Taken
  <1>4. (TablesFormTree /\ AreaRespected)'
    BY <1>3, TablesKept DEF NotFound, MmuInv, Shape
  <1> QED
    BY <1>1, <1>2, <1>4 DEF MmuInv

LEMMA KeepEntryInv == MmuInv /\ KeepEntry => MmuInv'
  <1> SUFFICES ASSUME MmuInv, KeepEntry PROVE MmuInv'
    OBVIOUS
  <1>1. level \in Levels
    BY FoundTaken DEF KeepEntry
  <1>2. Shape'
    BY <1>1 DEF KeepEntry, MmuInv, Shape, Cells, Levels
  <1>3. Progress'
    BY DEF KeepEntry, MmuInv, Progress
  <1>4. Taken' = Taken
    BY DEF KeepEntry, Taken
  <1>5. (TablesFormTree /\ AreaRespected)'
    BY <1>4, TablesKept DEF KeepEntry, MmuInv, Shape
  <1> QED
    BY <1>2, <1>3, <1>5 DEF MmuInv

LEMMA InstallInv == MmuInv /\ Install => MmuInv'
  <1> SUFFICES ASSUME MmuInv, Install PROVE MmuInv'
    OBVIOUS
  <1>1. Shape'
    BY DEF Install, MmuInv, Shape, Cells
  <1>2. Progress'
    BY DEF Install, MmuInv, Progress
  <1>3. Taken' = Taken
    BY DEF Install, Taken
  <1>4. (TablesFormTree /\ AreaRespected)'
    BY <1>3, TablesKept DEF Install, MmuInv, Shape
  <1> QED
    BY <1>1, <1>2, <1>4 DEF MmuInv

LEMMA EnableInv == MmuInv /\ Enable => MmuInv'
  <1> SUFFICES ASSUME MmuInv, Enable PROVE MmuInv'
    OBVIOUS
  <1>1. Shape'
    BY DEF Enable, MmuInv, Shape, Cells
  <1>2. Progress'
    BY DEF Enable, MmuInv, Progress
  <1>3. Taken' = Taken
    BY DEF Enable, Taken
  <1>4. (TablesFormTree /\ AreaRespected)'
    BY <1>3, TablesKept DEF Enable, MmuInv, Shape
  <1> QED
    BY <1>1, <1>2, <1>4 DEF MmuInv

(* A new table: the entry that was invalid points to it, its own entries are
   invalid, and every other entry is what it was. *)
LEMMA LinkTableInv == MmuInv /\ LinkTable => MmuInv'
  <1> SUFFICES ASSUME MmuInv, LinkTable PROVE MmuInv'
    OBVIOUS
  <1> DEFINE ft == FoundTable
             fi == FoundIdx
             link == [type |-> "table", to |-> fill, attrs |-> "none"]
  <1>1. /\ level \in Levels /\ ft \in 0..fill - 1 /\ fi \in Cells
        /\ fill \in 1..cfg.area /\ region <= Len(cfg.regions)
    BY FoundTaken DEF LinkTable, MmuInv, Progress
  <1>2. fill' = fill + 1 /\ cfg' = cfg /\ cfg.area \in 0..Tables /\ Tables \in Nat
    BY ConfigFacts DEF LinkTable, MmuInv, Shape
  <1>3. mem[ft][fi].type = "fault" /\ pc = "walk"
    BY DEF LinkTable, Found
  <1>4. Taken = fill
    BY <1>1, <1>2 DEF Taken
  <1>5. CASE AreaFull
    <2>1. cfg.area = fill /\ mem' = mem /\ level' = level /\ pc' = "done" /\ ret' = -1
      BY <1>1, <1>2, <1>5 DEF AreaFull, LinkTable, Fail
    <2>2. Taken' = Taken
      BY <1>1, <1>2, <1>4, <2>1 DEF Taken
    <2>3. Shape'
      BY <1>1, <1>2, <2>1 DEF LinkTable, MmuInv, Shape, Cells
    <2>4. Progress'
      BY <2>1 DEF Progress
    <2>5. (TablesFormTree /\ AreaRespected)'
      BY <1>1, <1>2, <2>1, <2>2, TablesKept
    <2> QED  BY <2>3, <2>4, <2>5 DEF MmuInv
  <1>6. CASE ~ AreaFull
    <2>1. /\ fill + 1 <= cfg.area /\ level' = level + 1 /\ pc' = pc /\ ret' = ret
          /\ mem' = [mem EXCEPT ![fill] = Cleared, ![ft][fi] = link]
      BY <1>1, <1>2, <1>6 DEF AreaFull, LinkTable
    <2> HIDE DEF ft, fi
    <2>2. link \in Entry /\ PTE_FAULT \in Entry /\ Cleared \in [Cells -> Entry]
      BY <1>1, ClearedType DEF Entry, Attrs
    <2>3. /\ mem' \in [0..Tables - 1 -> [Cells -> Entry]]
          /\ mem'[fill] = Cleared
          /\ mem'[ft] = [mem[ft] EXCEPT ![fi] = link]
          /\ \A t \in 0..Tables - 1 : t # fill /\ t # ft => mem'[t] = mem[t]
      <3> HIDE DEF link
      <3>1. mem \in [0..Tables - 1 -> [Cells -> Entry]]
        BY DEF MmuInv, Shape
      <3>2. ft # fill /\ ft \in 0..Tables - 1 /\ fill \in 0..Tables - 1
        BY <1>1, <1>2, <2>1
      <3>3. [mem[ft] EXCEPT ![fi] = link] \in [Cells -> Entry]
        BY <1>1, <2>2, <3>1, <3>2
      <3>4. mem' = [t \in 0..Tables - 1 |->
                      IF t = ft THEN [mem[ft] EXCEPT ![fi] = link]
                      ELSE IF t = fill THEN Cleared ELSE mem[t]]
        BY <2>1, <3>1, <3>2
      <3>5. mem' \in [0..Tables - 1 -> [Cells -> Entry]]
        BY <2>2, <3>1, <3>3, <3>4
      <3>6. \A t \in 0..Tables - 1 :
              mem'[t] = IF t = ft THEN [mem[ft] EXCEPT ![fi] = link]
                        ELSE IF t = fill THEN Cleared ELSE mem[t]
        BY <3>4
      <3> QED
        BY <3>2, <3>5, <3>6
    <2>4. Shape'
      BY <1>1, <1>2, <2>1, <2>3 DEF LinkTable, MmuInv, Shape, Cells, Levels
    <2>5. Progress'
      BY <1>1, <1>2, <1>3, <2>1 DEF Progress, LinkTable
    <2>6. Taken' = fill + 1
      BY <1>1, <1>2, <2>1 DEF Taken
    <2>7. \A t \in 0..fill, k \in Cells :
            mem'[t][k] = IF t = ft /\ k = fi THEN link
                         ELSE IF t = fill THEN PTE_FAULT ELSE mem[t][k]
      <3>1. \A k \in Cells : Cleared[k] = PTE_FAULT
        BY ClearedType
      <3>2. mem[ft] \in [Cells -> Entry]
        BY <1>1, <1>2 DEF MmuInv, Shape
      <3> HIDE DEF link
      <3> QED  BY <1>1, <1>2, <2>1, <2>3, <3>1, <3>2
    <2>8. \A l \in Links' : \/ l = <<ft, fi>> /\ mem'[l[1]][l[2]].to = fill
                            \/ /\ l \in Links
                               /\ mem'[l[1]][l[2]] = mem[l[1]][l[2]]
                               /\ mem[l[1]][l[2]].to \in (l[1] + 1)..(fill - 1)
      <3> SUFFICES ASSUME NEW t \in 0..fill, NEW k \in Cells, mem'[t][k].type = "table"
                   PROVE  \/ t = ft /\ k = fi /\ mem'[t][k].to = fill
                          \/ /\ <<t, k>> \in Links
                             /\ mem'[t][k] = mem[t][k]
                             /\ mem[t][k].to \in (t + 1)..(fill - 1)
        <4>1. Links' = {l \in (0..fill) \X Cells : mem'[l[1]][l[2]].type = "table"}
          BY <1>1, <1>2, <2>6 DEF Links, Cells
        <4> QED  BY <4>1
      <3>1. CASE t = ft /\ k = fi
        BY <2>7, <3>1
      <3>2. CASE ~ (t = ft /\ k = fi)
        <4>1. t # fill /\ mem'[t][k] = mem[t][k]
          BY <2>7, <3>2 DEF PTE_FAULT
        <4>2. <<t, k>> \in Links
          BY <1>1, <1>4, <4>1 DEF Links, Cells
        <4> QED  BY <1>4, <4>1, <4>2 DEF MmuInv, TablesFormTree
      <3> QED  BY <3>1, <3>2
    <2>9. TablesFormTree'
      <3>1. \A l \in Links' : mem'[l[1]][l[2]].to \in (l[1] + 1)..fill
        BY <1>1, <2>8
      <3>2. \A l, m \in Links' : mem'[l[1]][l[2]].to = mem'[m[1]][m[2]].to => l = m
        <4> SUFFICES ASSUME NEW l \in Links', NEW m \in Links',
                            mem'[l[1]][l[2]].to = mem'[m[1]][m[2]].to
                     PROVE  l = m
          OBVIOUS
        <4>1. CASE l \in Links /\ m \in Links /\ l # <<ft, fi>> /\ m # <<ft, fi>>
          BY <2>8, <4>1 DEF MmuInv, TablesFormTree
        <4>2. <<ft, fi>> \notin Links
          BY <1>3 DEF Links, ft, fi
        <4>3. CASE l = <<ft, fi>>
          BY <1>1, <2>8, <4>2, <4>3
        <4>4. CASE m = <<ft, fi>>
          BY <1>1, <2>8, <4>2, <4>4
        <4> QED  BY <2>8, <4>1, <4>3, <4>4
      <3> QED  BY <1>1, <2>6, <3>1, <3>2 DEF TablesFormTree
    <2>10. AreaRespected'
      <3>1. \A t \in cfg.area..Tables - 1 : mem'[t] = mem[t]
        BY <1>1, <1>2, <2>1, <2>3
      <3> QED  BY <1>2, <3>1 DEF AreaRespected, MmuInv
    <2> QED  BY <2>4, <2>5, <2>9, <2>10 DEF MmuInv
  <1> QED
    BY <1>5, <1>6

(* A leaf replaces one entry of a taken table: links may go, none is added. *)
LEMMA MapEntryInv == MmuInv /\ MapEntry => MmuInv'
  <1> SUFFICES ASSUME MmuInv, MapEntry PROVE MmuInv'
    OBVIOUS
  <1> DEFINE ft == FoundTable
             fi == FoundIdx
  <1>1. /\ level \in Levels /\ ft \in 0..fill - 1 /\ fi \in Cells
        /\ fill \in 1..cfg.area /\ region <= Len(cfg.regions) /\ Map \in Region
    BY FoundTaken DEF MapEntry, MmuInv, Progress
  <1>2. /\ fill' = fill /\ cfg' = cfg /\ cfg.area \in 0..Tables /\ Tables \in Nat
        /\ mem' = [mem EXCEPT ![ft][fi] = Leaf]
    BY ConfigFacts DEF MapEntry, MmuInv, Shape
  <1>3. Leaf \in Entry /\ Leaf.type # "table"
    BY <1>1 DEF Leaf, Entry, Region, MmuInv, Shape
  <1>4. BlockSize \in Nat
    BY <1>1, SpanPositive DEF BlockSize, MmuInv, Shape
  <1>5. mem \in [0..Tables - 1 -> [Cells -> Entry]]
    BY DEF MmuInv, Shape
  <1> HIDE DEF ft, fi
  <1>6. /\ mem' \in [0..Tables - 1 -> [Cells -> Entry]]
        /\ \A t \in 0..Tables - 1, k \in Cells :
              mem'[t][k] = IF t = ft /\ k = fi THEN Leaf ELSE mem[t][k]
    BY <1>1, <1>2, <1>3, <1>5
  <1>7. Shape'
    <2>1. mapped' \in Nat /\ level' \in 0..4 /\ region' \in Nat \ {0}
      BY <1>4 DEF MapEntry, MmuInv, Shape, Levels
    <2> QED  BY <1>2, <1>6, <2>1 DEF MapEntry, MmuInv, Shape, Cells
  <1>8. Progress'
    BY <1>1, <1>2 DEF MapEntry, Progress
  <1>9. Taken' = fill /\ Taken = fill
    BY <1>1, <1>2 DEF Taken
  <1>10. \A l \in Links' : l \in Links /\ mem'[l[1]][l[2]] = mem[l[1]][l[2]]
    <2>1. \A t \in 0..fill - 1, k \in Cells : mem'[t][k].type = "table" =>
            mem'[t][k] = mem[t][k]
      BY <1>1, <1>2, <1>3, <1>6
    <2>2. /\ Links' = {l \in (0..fill - 1) \X Cells : mem'[l[1]][l[2]].type = "table"}
          /\ Links = {l \in (0..fill - 1) \X Cells : mem[l[1]][l[2]].type = "table"}
      BY <1>2, <1>9 DEF Links, Cells
    <2> QED  BY <2>1, <2>2
  <1>11. TablesFormTree'
    BY <1>9, <1>10 DEF MmuInv, TablesFormTree
  <1>12. AreaRespected'
    BY <1>1, <1>2, <1>6 DEF AreaRespected, MmuInv, Cells
  <1> QED
    BY <1>7, <1>8, <1>11, <1>12 DEF MmuInv
----
LEMMA MmuStep == MmuInv /\ [Next]_vars => MmuInv'
  <1> SUFFICES ASSUME MmuInv, [Next]_vars PROVE MmuInv'
    OBVIOUS
  <1>1. CASE UNCHANGED vars
    <2>1. Shape' /\ Progress'
      BY <1>1 DEF vars, MmuInv, Shape, Progress, Cells
    <2>2. Taken' = Taken
      BY <1>1 DEF vars, Taken
    <2>3. (TablesFormTree /\ AreaRespected)'
      BY <1>1, <2>2, TablesKept DEF vars, MmuInv, Shape
    <2> QED
      BY <2>1, <2>3 DEF MmuInv
  <1> QED
    BY <1>1, ConfigureInv, CreateRootInv, StartRegionInv, NotFoundInv, LinkTableInv,
       KeepEntryInv, MapEntryInv, InstallInv, EnableInv DEF Next

(* MmuInv holds in every reachable state. *)
THEOREM MmuInvariant == Spec => []MmuInv
  BY InitMmuInv, MmuStep, PTL DEF Spec

(* mmu.c keeps every variable within its type, whatever the region table. *)
THEOREM MmuTypesHold == Spec => []MmuTypeOK
  <1>1. MmuInv => MmuTypeOK
    BY DEF MmuInv, Shape, MmuTypeOK, Cells
  <1> QED
    BY <1>1, MmuInvariant, PTL

(* mmu_create_table, mmu_set_pte_table: the tables always form a tree of cleared
   tables inside the area. *)
THEOREM TreeKept == Spec => []TablesFormTree
  <1>1. MmuInv => TablesFormTree
    BY DEF MmuInv
  <1> QED
    BY <1>1, MmuInvariant, PTL

(* Memory behind the area is never written, however many tables are asked for. *)
THEOREM AreaKept == Spec => []AreaRespected
  <1>1. MmuInv => AreaRespected
    BY DEF MmuInv
  <1> QED
    BY <1>1, MmuInvariant, PTL
----
(* Multiples of one number grow by it. *)
LEMMA ProductsGrow ==
    ASSUME NEW s \in Nat \ {0}, NEW p \in Int, NEW q \in Int, p < q
    PROVE  s * p + s <= s * q
  <1>1. PICK d \in Nat : q = p + 1 + d
    <2>1. q - p - 1 \in Nat /\ q = p + 1 + (q - p - 1)
      OBVIOUS
    <2> QED  BY <2>1
  <1>2. s * q = s * p + s + s * d
    BY <1>1
  <1>3. s * d \in Nat
    OBVIOUS
  <1> QED
    BY <1>2, <1>3

(* Division with remainder. *)
LEMMA Division ==
    ASSUME NEW a \in Nat, NEW s \in Nat \ {0}
    PROVE  a \div s \in Nat /\ a % s \in 0..s - 1 /\ a = s * (a \div s) + (a % s)
  <1>1. a % s \in 0..s - 1
    OBVIOUS
  <1>2. a \div s \in Int
    OBVIOUS
  <1>3. a = s * (a \div s) + (a % s)
    OBVIOUS
  <1>4. a \div s \in Nat
    <2>1. PICK q \in Int, r \in 0..s - 1 : q = a \div s /\ r = a % s /\ a = s * q + r
      BY <1>1, <1>2, <1>3
    <2>2. ~ (q < 0)
      <3> SUFFICES ASSUME q < 0 PROVE FALSE  OBVIOUS
      <3>1. s * q + s <= s * 0
        BY ProductsGrow
      <3> QED  BY <2>1, <3>1
    <2> QED  BY <2>1, <2>2
  <1> QED
    BY <1>1, <1>3, <1>4

LEMMA DivisionUnique ==
    ASSUME NEW s \in Nat \ {0}, NEW q \in Nat, NEW r \in 0..s - 1,
           NEW p \in Nat, NEW t \in 0..s - 1, s * q + r = s * p + t
    PROVE  p = q /\ t = r
  <1>1. ~ (p < q)
    <2> SUFFICES ASSUME p < q PROVE FALSE  OBVIOUS
    <2>1. s * p + s <= s * q  BY ProductsGrow
    <2>2. PICK x, y \in Int : x = s * p /\ y = s * q  OBVIOUS
    <2> QED  BY <2>1
  <1>2. ~ (q < p)
    <2> SUFFICES ASSUME q < p PROVE FALSE  OBVIOUS
    <2>1. s * q + s <= s * p  BY ProductsGrow
    <2> QED  BY <2>1
  <1>3. p = q
    BY <1>1, <1>2
  <1> QED
    BY <1>3

(* Dividing twice. *)
IsProduct(w, s, e) == w = s * e
IsQuotient(q, a, s) == q = a \div s

LEMMA DivDiv ==
    ASSUME NEW a \in Nat, NEW s \in Nat \ {0}, NEW e \in Nat \ {0}, NEW w \in Nat \ {0},
           NEW q \in Nat, NEW p \in Nat,
           IsProduct(w, s, e), IsQuotient(q, a, s), IsQuotient(p, q, e)
    PROVE  IsQuotient(p, a, w)
  <1>0. w = s * e /\ q = a \div s /\ p = q \div e
    BY DEF IsProduct, IsQuotient
  <1>1. PICK r \in 0..s - 1 : a = s * q + r
    <2>1. a % s \in 0..s - 1 /\ a = s * (a \div s) + (a % s)
      BY Division, Zenon
    <2>2. s * (a \div s) = s * q
      BY <1>0
    <2>3. PICK r \in 0..s - 1 : r = a % s
      BY <2>1
    <2>4. a = s * q + r
      BY ONLY <2>1, <2>2, <2>3
    <2> QED
      BY <2>4
  <1>2. PICK t \in 0..e - 1 : q = e * p + t
    <2>1. q % e \in 0..e - 1 /\ q = e * (q \div e) + (q % e)
      BY Division, Zenon
    <2>2. e * (q \div e) = e * p
      BY <1>0
    <2>3. PICK t \in 0..e - 1 : t = q % e
      BY <2>1
    <2>4. q = e * p + t
      BY ONLY <2>1, <2>2, <2>3
    <2> QED
      BY <2>4
  <1>3. PICK u \in Nat, v \in 0..w - 1 : u = a \div w /\ a = w * u + v
    <2>1. a \div w \in Nat /\ a % w \in 0..w - 1 /\ a = w * (a \div w) + (a % w)
      BY ONLY a \in Nat, w \in Nat \ {0}, Division
    <2> QED
      BY ONLY <2>1
  <1>4. PICK x \in Nat : x = s * t
    OBVIOUS
  <1>5. x + r \in 0..w - 1
    <2>1. s * t + s <= s * e
      BY ProductsGrow
    <2>2. x + s <= w
      BY <1>0, <1>4, <2>1
    <2> QED
      BY <2>2
  <1>6. w * p + (x + r) = w * u + v
    <2>1. s * (e * p + t) = s * (e * p) + s * t
      OBVIOUS
    <2>2. s * (e * p) = (s * e) * p
      OBVIOUS
    <2>3. PICK y \in Nat : y = w * p
      OBVIOUS
    <2>4. PICK z \in Nat : z = s * q
      OBVIOUS
    <2>5. z = y + x
      BY <1>0, <1>2, <1>4, <2>1, <2>2, <2>3, <2>4
    <2>6. a = y + (x + r)
      BY <1>1, <2>4, <2>5
    <2> QED
      BY <1>3, <2>3, <2>6
  <1>7. p = u
    BY <1>5, <1>6, DivisionUnique
  <1> QED
    BY <1>3, <1>7 DEF IsQuotient

(* The block of size s that begins at a. *)
LEMMA Block ==
    ASSUME NEW s \in Nat \ {0}, NEW a \in Nat, a % s = 0, NEW x \in Nat
    PROVE  /\ x \div s = a \div s <=> x \in a..a + s - 1
           /\ x \in a..a + s - 1 => x % s = x - a
  <1>1. PICK q \in Nat : q = a \div s /\ a = s * q
    BY Division
  <1>2. PICK p \in Nat, r \in 0..s - 1 : p = x \div s /\ r = x % s /\ x = s * p + r
    BY Division
  <1>3. ASSUME p = q PROVE x \in a..a + s - 1 /\ x % s = x - a
    <2>1. x = a + r
      BY <1>1, <1>2, <1>3
    <2> QED
      BY <1>2, <2>1
  <1>4. ASSUME x \in a..a + s - 1 PROVE p = q /\ x % s = x - a
    <2>1. PICK t \in 0..s - 1 : t = x - a
      BY <1>4
    <2>2. s * q + t = s * p + r
      <3>1. PICK y \in Nat : y = s * q
        OBVIOUS
      <3>2. x = y + t
        BY <1>1, <2>1, <3>1
      <3> QED
        BY <1>2, <3>1, <3>2
    <2>3. p = q /\ r = t
      BY <2>2, DivisionUnique
    <2> QED
      BY <1>2, <2>1, <2>3
  <1> QED
    BY <1>1, <1>2, <1>3, <1>4

(* Of two multiples of s the larger is larger by s at least. *)
LEMMA NextMultiple ==
    ASSUME NEW s \in Nat \ {0}, NEW a \in Nat, NEW b \in Nat, a % s = 0, b % s = 0, a < b
    PROVE  a + s <= b
  <1>1. PICK q \in Nat : q = a \div s /\ a = s * q
    BY Division
  <1>2. PICK p \in Nat : p = b \div s /\ b = s * p
    BY Division
  <1>3. q < p
    <2> SUFFICES ASSUME ~ (q < p) PROVE FALSE
      OBVIOUS
    <2>1. CASE q = p
      BY <1>1, <1>2, <2>1
    <2>2. CASE p < q
      <3>1. s * p + s <= s * q
        BY <2>2, ProductsGrow
      <3> QED
        BY <1>1, <1>2, <3>1
    <2> QED
      BY <2>1, <2>2
  <1>4. s * q + s <= s * p
    BY <1>3, ProductsGrow
  <1> QED
    BY <1>1, <1>2, <1>4

LEMMA SumOfMultiples ==
    ASSUME NEW s \in Nat \ {0}, NEW a \in Nat, NEW b \in Nat, a % s = 0, b % s = 0
    PROVE  (a + b) % s = 0
  <1>1. PICK q \in Nat : q = a \div s /\ a = s * q
    BY Division
  <1>2. PICK p \in Nat : p = b \div s /\ b = s * p
    BY Division
  <1>3. PICK c \in Nat : c = a + b
    OBVIOUS
  <1>4. PICK u \in Nat, v \in 0..s - 1 : u = c \div s /\ v = c % s /\ c = s * u + v
    <2>1. /\ c \div s \in Nat /\ c % s \in 0..s - 1
          /\ c = s * (c \div s) + (c % s)
      BY ONLY c \in Nat, s \in Nat \ {0}, Division
    <2> QED
      BY <2>1
  <1>5. s * (q + p) = s * q + s * p
    OBVIOUS
  <1>6. PICK z \in Nat : z = q + p
    OBVIOUS
  <1>7. s * u + v = s * z + 0
    BY <1>1, <1>2, <1>3, <1>4, <1>5, <1>6
  <1>8. v = 0
    BY <1>7, DivisionUnique
  <1> QED
    BY <1>3, <1>4, <1>8

(* Below s * e the quotient by s is below e. *)
LEMMA QuotientBelow ==
    ASSUME NEW s \in Nat \ {0}, NEW e \in Nat \ {0}, NEW x \in Nat, x < s * e
    PROVE  x \div s \in 0..e - 1 /\ (x \div s) % e = x \div s
  <1>1. PICK q \in Nat, r \in 0..s - 1 : q = x \div s /\ x = s * q + r
    BY Division
  <1>2. ~ (e <= q)
    <2> SUFFICES ASSUME e <= q PROVE FALSE
      OBVIOUS
    <2>1. s * e <= s * q
      <3>1. CASE e = q
        BY <3>1
      <3>2. CASE e < q
        <4>1. s * e + s <= s * q
          BY <3>2, ProductsGrow
        <4> QED
          BY <4>1
      <3> QED
        BY <3>1, <3>2
    <2> QED
      BY <1>1, <2>1
  <1>3. q \in 0..e - 1
    BY <1>2
  <1>4. q % e = q
    BY <1>3
  <1> QED
    BY <1>1, <1>3, <1>4

----
(* Addresses. Quot(x, l) numbers the block of level l that x is in. *)
Quot(x, l) == x \div Span(l)

LEMMA SpanStep ==
    ASSUME cfg \in Configs, NEW l \in 0..2
    PROVE  Span(l) = Span(l + 1) * Entries[cfg.granule]
  <1>1. PICK e \in Nat \ {0}, p \in Nat \ {0} : e = Entries[cfg.granule] /\ p = Page[cfg.granule]
    BY ConfigFacts
  <1>2. /\ Span(3) = p /\ Span(2) = p * e /\ Span(1) = p * e * e /\ Span(0) = p * e * e * e
    BY <1>1 DEF Span
  <1>3. l = 0 \/ l = 1 \/ l = 2
    OBVIOUS
  <1>4. /\ l = 0 => l + 1 = 1
        /\ l = 1 => l + 1 = 2
        /\ l = 2 => l + 1 = 3
    OBVIOUS
  <1> QED
    BY <1>1, <1>2, <1>3, <1>4

LEMMA QuotNat ==
    ASSUME cfg \in Configs, NEW x \in Nat, NEW l \in Levels
    PROVE  Quot(x, l) \in Nat
  <1>1. PICK s \in Nat \ {0} : s = Span(l)
    BY SpanPositive
  <1>2. x \div s \in Nat
    BY Division
  <1> QED
    BY <1>1, <1>2 DEF Quot

(* A block of a level is the entry-th part of the block above. *)
LEMMA QuotStep ==
    ASSUME cfg \in Configs, NEW x \in Nat, NEW l \in 0..2
    PROVE  /\ Quot(x, l) = Quot(x, l + 1) \div Entries[cfg.granule]
           /\ Quot(x, l + 1) = Entries[cfg.granule] * Quot(x, l) + Idx(x, l + 1)
  <1>1. PICK s \in Nat \ {0}, e \in Nat \ {0} : s = Span(l + 1) /\ e = Entries[cfg.granule]
    <2>1. Span(l + 1) \in Nat \ {0}
      BY SpanPositive DEF Levels
    <2>2. Entries[cfg.granule] \in Nat \ {0}
      BY ConfigFacts
    <2> QED
      BY <2>1, <2>2, Zenon
  <1>2. PICK w \in Nat \ {0} : w = s * e /\ w = Span(l)
    <2>1. Span(l) = s * e
      BY <1>1, SpanStep, Zenon
    <2>2. s * e \in Nat \ {0}
      OBVIOUS
    <2> QED
      BY <2>1, <2>2, Zenon
  <1>3. PICK q \in Nat : q = x \div s
    BY Division
  <1>4. q \div e = x \div w
    <2>1. PICK p \in Nat : p = q \div e
      BY Division
    <2>2. IsProduct(w, s, e) /\ IsQuotient(q, x, s) /\ IsQuotient(p, q, e)
      BY <1>2, <1>3, <2>1 DEF IsProduct, IsQuotient
    <2>3. IsQuotient(p, x, w)
      BY <2>2, DivDiv
    <2> QED
      BY <2>1, <2>3 DEF IsQuotient
  <1>5. q = e * (q \div e) + (q % e)
    BY Division
  <1>6. Quot(x, l + 1) = q /\ Idx(x, l + 1) = q % e /\ Quot(x, l) = q \div e
    BY <1>1, <1>2, <1>3, <1>4, Zenon DEF Quot, Idx
  <1> QED
    BY <1>1, <1>5, <1>6, Zenon

(* Addresses that the root covers. *)
InSpace(x) == x \in Nat /\ x < Span(start) * Entries[cfg.granule]

LEMMA RootIndex ==
    ASSUME cfg \in Configs, start \in Levels, NEW x, InSpace(x)
    PROVE  Idx(x, start) = Quot(x, start)
  <1>1. PICK s \in Nat \ {0}, e \in Nat \ {0} : s = Span(start) /\ e = Entries[cfg.granule]
    BY ConfigFacts, SpanPositive
  <1>2. x \in Nat /\ x < s * e
    BY <1>1 DEF InSpace
  <1>3. (x \div s) % e = x \div s
    BY <1>2, QuotientBelow
  <1> QED
    BY <1>1, <1>3 DEF Idx, Quot

(* The entries a walk passes down to level l are those of the block of level l. *)
SameIdx(x, y, l) == \A j \in start..l : Idx(x, j) = Idx(y, j)

LEMMA SameBlock ==
    ASSUME cfg \in Configs, start \in Levels, NEW x, NEW y, InSpace(x), InSpace(y),
           NEW l \in start..3
    PROVE  SameIdx(x, y, l) <=> Quot(x, l) = Quot(y, l)
  <1> DEFINE P(k) == SameIdx(x, y, k) <=> Quot(x, k) = Quot(y, k)
  <1>1. x \in Nat /\ y \in Nat /\ start \in Nat /\ start <= 3
    BY DEF InSpace, Levels
  <1>2. P(start)
    BY <1>1, RootIndex DEF SameIdx
  <1>3. ASSUME NEW k \in 0..2, start <= k, P(k) PROVE P(k + 1)
    <2>1. SameIdx(x, y, k + 1) <=> SameIdx(x, y, k) /\ Idx(x, k + 1) = Idx(y, k + 1)
      BY <1>1, <1>3 DEF SameIdx
    <2>2. PICK e \in Nat \ {0} : e = Entries[cfg.granule]
      BY ConfigFacts
    <2>3. PICK a, b, c, d, m, n :
            /\ a = Quot(x, k) /\ b = Quot(y, k) /\ c = Quot(x, k + 1) /\ d = Quot(y, k + 1)
            /\ m = Idx(x, k + 1) /\ n = Idx(y, k + 1)
      OBVIOUS
    <2>4. a = c \div e /\ c = e * a + m
      BY <1>1, <2>2, <2>3, QuotStep
    <2>5. b = d \div e /\ d = e * b + n
      BY <1>1, <2>2, <2>3, QuotStep
    <2>6. a = b /\ m = n => c = d
      BY <2>4, <2>5
    <2>7. c = d => a = b /\ m = n
      <3> SUFFICES ASSUME c = d PROVE a = b /\ m = n
        OBVIOUS
      <3>1. a = b
        BY <2>4, <2>5
      <3>2. m \in Nat /\ n \in Nat
        <4>1. Idx(x, k + 1) \in Cells /\ Idx(y, k + 1) \in Cells
          BY <1>1, IdxInTable DEF Levels
        <4> QED
          BY <2>2, <2>3, <4>1 DEF Cells
      <3>3. PICK z \in Nat : z = e * a
        <4>1. a \in Nat
          BY <1>1, <2>3, QuotNat DEF Levels
        <4> QED
          BY <4>1
      <3>4. z + m = z + n
        BY <2>4, <2>5, <3>1, <3>3
      <3> QED
        BY <3>1, <3>2, <3>4
    <2> QED
      BY <1>3, <2>1, <2>3, <2>6, <2>7
  <1> HIDE DEF P
  <1>4. P(l)
    <2>1. start \in {0, 1, 2, 3} /\ l \in {0, 1, 2, 3} /\ start <= l
      BY <1>1
    <2>2. \A k \in {0, 1, 2} : start <= k /\ P(k) => P(k + 1)
      BY <1>3
    <2>3. /\ start <= 0 /\ P(0) => P(1)
          /\ start <= 1 /\ P(1) => P(2)
          /\ start <= 2 /\ P(2) => P(3)
      BY <2>2
    <2> QED
      BY <1>2, <2>1, <2>3
  <1> QED
    BY <1>4 DEF P
----
(* Walks. Tab(m, x, l) is the table of level l that a walk for x reaches in the memory
   m, or NULL. *)
Hop(m, t, x, l) == IF t # NULL /\ m[t][Idx(x, l)].type = "table"
                   THEN m[t][Idx(x, l)].to ELSE NULL
Tab(m, x, l) ==
    LET first == Hop(m, 0, x, start)
        second == Hop(m, first, x, start + 1)
    IN  IF l = start THEN 0
        ELSE IF l = start + 1 THEN first
        ELSE IF l = start + 2 THEN second
        ELSE IF l = start + 3 THEN Hop(m, second, x, start + 2)
        ELSE NULL

LEMMA TabStep ==
    ASSUME start \in Levels, NEW m, NEW x
    PROVE  /\ Tab(m, x, start) = 0
           /\ \A l \in start..2 : Tab(m, x, l + 1) = Hop(m, Tab(m, x, l), x, l)
  <1>1. start \in Nat
    BY DEF Levels
  <1>2. /\ Tab(m, x, start) = 0
        /\ Tab(m, x, start + 1) = Hop(m, Tab(m, x, start), x, start)
        /\ Tab(m, x, start + 2) = Hop(m, Tab(m, x, start + 1), x, start + 1)
        /\ Tab(m, x, start + 3) = Hop(m, Tab(m, x, start + 2), x, start + 2)
    BY <1>1 DEF Tab
  <1> QED
    <2> SUFFICES ASSUME NEW l \in start..2
                 PROVE  Tab(m, x, l + 1) = Hop(m, Tab(m, x, l), x, l)
      BY <1>2
    <2>1. l = start \/ l = start + 1 \/ l = start + 2
      BY <1>1
    <2>2. (start + 1) + 1 = start + 2 /\ (start + 2) + 1 = start + 3
      BY <1>1
    <2> QED
      BY <1>2, <2>1, <2>2

(* Tables 0 .. n - 1 of m are a tree. *)
Tree(m, n) ==
    /\ n \in Nat \ {0}
    /\ \A t \in 0..n - 1, k \in Cells :
          m[t][k].type = "table" => m[t][k].to \in (t + 1)..(n - 1)
    /\ \A t, u \in 0..n - 1, k, i \in Cells :
          m[t][k].type = "table" /\ m[u][i].type = "table" /\ m[t][k].to = m[u][i].to
             => t = u /\ k = i

LEMMA TabTaken ==
    ASSUME cfg \in Configs, start \in Levels, NEW m, NEW n, Tree(m, n),
           NEW x \in Nat, NEW l \in start..3
    PROVE  Tab(m, x, l) \in (0..n - 1) \cup {NULL}
  <1> DEFINE P(k) == Tab(m, x, k) \in (0..n - 1) \cup {NULL}
  <1>1. start \in Nat /\ start <= 3
    BY DEF Levels
  <1>2. P(start)
    BY TabStep DEF Tree
  <1>3. ASSUME NEW k \in 0..2, start <= k, P(k) PROVE P(k + 1)
    <2>1. Tab(m, x, k + 1) = Hop(m, Tab(m, x, k), x, k)
      BY <1>1, <1>3, TabStep
    <2>2. Idx(x, k) \in Cells
      BY IdxInTable DEF Levels
    <2>3. PICK t, i : t = Tab(m, x, k) /\ i = Idx(x, k)
      OBVIOUS
    <2>4. t # NULL => t \in 0..n - 1 /\ n \in Nat
      BY <1>3, <2>3 DEF Tree
    <2>5. t # NULL /\ m[t][i].type = "table" => m[t][i].to \in 0..n - 1
      BY <2>2, <2>3, <2>4 DEF Tree
    <2> QED
      BY <2>1, <2>3, <2>5 DEF Hop
  <1> HIDE DEF P
  <1>4. P(l)
    <2>1. start \in {0, 1, 2, 3} /\ l \in {0, 1, 2, 3} /\ start <= l
      BY <1>1
    <2>2. \A k \in {0, 1, 2} : start <= k /\ P(k) => P(k + 1)
      BY <1>3
    <2>3. /\ start <= 0 /\ P(0) => P(1)
          /\ start <= 1 /\ P(1) => P(2)
          /\ start <= 2 /\ P(2) => P(3)
      BY <2>2
    <2> QED
      BY <1>2, <2>1, <2>3
  <1> QED
    BY <1>4 DEF P

(* Two walks that reach one table have passed the same entries. *)
LEMMA TabUnique ==
    ASSUME cfg \in Configs, start \in Levels, NEW m, NEW n, Tree(m, n),
           NEW x \in Nat, NEW y \in Nat, NEW k \in start..3, NEW l \in start..3,
           Tab(m, x, k) = Tab(m, y, l), Tab(m, x, k) # NULL
    PROVE  k = l /\ SameIdx(x, y, k - 1)
  <1> DEFINE P(j) == \A i \in start..3 : Tab(m, x, j) = Tab(m, y, i) /\ Tab(m, x, j) # NULL
                       => i = j /\ SameIdx(x, y, j - 1)
  <1>1. start \in Nat /\ start <= 3
    BY DEF Levels
  <1>2. ASSUME NEW z \in Nat, NEW i \in start..3, i # start, Tab(m, z, i) # NULL
        PROVE  /\ i - 1 \in start..2 /\ i - 1 \in Levels /\ Tab(m, z, i - 1) \in 0..n - 1
               /\ Idx(z, i - 1) \in Cells
               /\ m[Tab(m, z, i - 1)][Idx(z, i - 1)].type = "table"
               /\ Tab(m, z, i) = m[Tab(m, z, i - 1)][Idx(z, i - 1)].to
               /\ Tab(m, z, i) # 0
    <2>1. i - 1 \in start..2 /\ i - 1 \in Levels /\ (i - 1) + 1 = i /\ i - 1 \in start..3
      BY <1>1, <1>2 DEF Levels
    <2>2. Tab(m, z, i) = Hop(m, Tab(m, z, i - 1), z, i - 1)
      BY <2>1, TabStep
    <2>3. PICK t, e : t = Tab(m, z, i - 1) /\ e = Idx(z, i - 1)
      OBVIOUS
    <2>4. t # NULL /\ m[t][e].type = "table" /\ Tab(m, z, i) = m[t][e].to
      BY <1>2, <2>2, <2>3 DEF Hop
    <2>5. t \in 0..n - 1
      BY <2>1, <2>3, <2>4, TabTaken
    <2>6. e \in Cells
      BY <2>1, <2>3, IdxInTable
    <2>7. m[t][e].to \in (t + 1)..(n - 1)
      BY <2>4, <2>5, <2>6 DEF Tree
    <2> QED
      BY <2>1, <2>3, <2>4, <2>5, <2>6, <2>7 DEF Tree
  <1>3. P(start)
    <2> SUFFICES ASSUME NEW i \in start..3, Tab(m, x, start) = Tab(m, y, i)
                 PROVE  i = start /\ SameIdx(x, y, start - 1)
      OBVIOUS
    <2>1. Tab(m, x, start) = 0 /\ 0 # NULL
      BY TabStep DEF NULL
    <2>2. i = start
      BY <1>2, <2>1
    <2> QED
      BY <1>1, <2>2 DEF SameIdx
  <1>4. ASSUME NEW j \in 0..2, start <= j, P(j) PROVE P(j + 1)
    <2> SUFFICES ASSUME NEW i \in start..3, Tab(m, x, j + 1) = Tab(m, y, i),
                        Tab(m, x, j + 1) # NULL
                 PROVE  i = j + 1 /\ SameIdx(x, y, (j + 1) - 1)
      OBVIOUS
    <2>1. j + 1 \in start..3 /\ j + 1 # start /\ (j + 1) - 1 = j
      BY <1>1, <1>4
    <2>2. /\ Tab(m, x, j) \in 0..n - 1 /\ Idx(x, j) \in Cells
          /\ m[Tab(m, x, j)][Idx(x, j)].type = "table"
          /\ Tab(m, x, j + 1) = m[Tab(m, x, j)][Idx(x, j)].to
          /\ Tab(m, x, j + 1) # 0
      BY <1>2, <2>1
    <2>3. i # start
      BY <2>2, TabStep
    <2>4. /\ Tab(m, y, i - 1) \in 0..n - 1 /\ Idx(y, i - 1) \in Cells
          /\ m[Tab(m, y, i - 1)][Idx(y, i - 1)].type = "table"
          /\ Tab(m, y, i) = m[Tab(m, y, i - 1)][Idx(y, i - 1)].to
          /\ i - 1 \in start..2
      BY <1>2, <2>3
    <2>5. Tab(m, x, j) = Tab(m, y, i - 1) /\ Idx(x, j) = Idx(y, i - 1)
      BY <2>2, <2>4 DEF Tree
    <2>6. Tab(m, x, j) # NULL /\ i - 1 \in start..3
      BY <1>1, <2>2, <2>4 DEF NULL
    <2>7. i - 1 = j /\ SameIdx(x, y, j - 1)
      BY <1>4, <2>5, <2>6
    <2> QED
      BY <1>1, <2>1, <2>5, <2>7 DEF SameIdx
  <1> HIDE DEF P
  <1>5. P(k)
    <2>1. start \in {0, 1, 2, 3} /\ k \in {0, 1, 2, 3} /\ start <= k
      BY <1>1
    <2>2. \A j \in {0, 1, 2} : start <= j /\ P(j) => P(j + 1)
      BY <1>4
    <2>3. /\ start <= 0 /\ P(0) => P(1)
          /\ start <= 1 /\ P(1) => P(2)
          /\ start <= 2 /\ P(2) => P(3)
      BY <2>2
    <2> QED
      BY <1>3, <2>1, <2>3
  <1> QED
    BY <1>5 DEF P

(* A walk in another memory goes the same way as long as it meets the same entries. *)
LEMMA TabAgree ==
    ASSUME start \in Levels, NEW m, NEW o, NEW x, NEW y, NEW l \in start..3,
           \A j \in start..l - 1 : Idx(x, j) = Idx(y, j),
           \A j \in start..l - 1 : Tab(m, x, j) # NULL =>
              o[Tab(m, x, j)][Idx(x, j)] = m[Tab(m, x, j)][Idx(x, j)]
    PROVE  Tab(o, y, l) = Tab(m, x, l)
  <1> DEFINE P(k) == k <= l => Tab(o, y, k) = Tab(m, x, k)
  <1>1. start \in Nat /\ start <= 3
    BY DEF Levels
  <1>2. P(start)
    BY TabStep
  <1>3. ASSUME NEW k \in 0..2, start <= k, P(k) PROVE P(k + 1)
    <2> SUFFICES ASSUME k + 1 <= l PROVE Tab(o, y, k + 1) = Tab(m, x, k + 1)
      OBVIOUS
    <2>1. k \in start..2 /\ k \in start..l - 1 /\ k <= l
      BY <1>1, <1>3
    <2>2. /\ Tab(o, y, k + 1) = Hop(o, Tab(o, y, k), y, k)
          /\ Tab(m, x, k + 1) = Hop(m, Tab(m, x, k), x, k)
      BY <2>1, TabStep
    <2>3. PICK t, i : t = Tab(m, x, k) /\ i = Idx(x, k)
      OBVIOUS
    <2>4. t = Tab(o, y, k) /\ i = Idx(y, k) /\ (t # NULL => o[t][i] = m[t][i])
      BY <1>3, <2>1, <2>3
    <2> QED
      BY <2>2, <2>3, <2>4 DEF Hop
  <1> HIDE DEF P
  <1>4. P(l)
    <2>1. start \in {0, 1, 2, 3} /\ l \in {0, 1, 2, 3} /\ start <= l
      BY <1>1
    <2>2. \A k \in {0, 1, 2} : start <= k /\ P(k) => P(k + 1)
      BY <1>3
    <2>3. /\ start <= 0 /\ P(0) => P(1)
          /\ start <= 1 /\ P(1) => P(2)
          /\ start <= 2 /\ P(2) => P(3)
      BY <2>2
    <2> QED
      BY <1>2, <2>1, <2>3
  <1> QED
    BY <1>4 DEF P

----
(* The leaves on the walk for x, as the processor reads them. *)
AtLeaf(m, x, l) == /\ Tab(m, x, l) # NULL
                   /\ m[Tab(m, x, l)][Idx(x, l)].type = (IF l = 3 THEN "page" ELSE "block")
Place(m, x, l) == <<m[Tab(m, x, l)][Idx(x, l)].to + (x % Span(l)),
                    m[Tab(m, x, l)][Idx(x, l)].attrs>>
Read(m, x) == {Place(m, x, l) : l \in {k \in start..3 : AtLeaf(m, x, k)}}

(* A walk that got to level l passed a table entry on every level above. *)
LEMMA Passed ==
    ASSUME start \in Levels, NEW m, NEW x, NEW l \in start..3, Tab(m, x, l) # NULL,
           NEW j \in start..l - 1
    PROVE  Tab(m, x, j) # NULL /\ m[Tab(m, x, j)][Idx(x, j)].type = "table"
  <1> DEFINE Q(k) == Tab(m, x, k) # NULL
             R(k) == m[Tab(m, x, k)][Idx(x, k)].type = "table"
  <1>1. start \in Nat /\ start <= 3
    BY DEF Levels
  <1>2. ASSUME NEW k \in start..2, Q(k + 1) PROVE Q(k) /\ R(k)
    <2>1. Tab(m, x, k + 1) = Hop(m, Tab(m, x, k), x, k)
      BY TabStep
    <2> QED
      BY <1>2, <2>1 DEF Hop
  <1>3. Q(l)
    OBVIOUS
  <1> HIDE DEF Q, R
  <1>4. Q(j) /\ R(j)
    <2>1. /\ start \in {0, 1, 2, 3} /\ l \in {0, 1, 2, 3} /\ j \in {0, 1, 2}
          /\ start <= j /\ j < l
      BY <1>1
    <2>2. \A k \in {0, 1, 2} : start <= k /\ Q(k + 1) => Q(k) /\ R(k)
      BY <1>1, <1>2
    <2>3. /\ start <= 0 /\ Q(1) => Q(0) /\ R(0)
          /\ start <= 1 /\ Q(2) => Q(1) /\ R(1)
          /\ start <= 2 /\ Q(3) => Q(2) /\ R(2)
      BY <2>2
    <2> QED
      BY <1>3, <2>1, <2>3
  <1> QED
    BY <1>4 DEF Q, R

(* What is read at the end of a walk. *)
LEMMA WalkEnds ==
    ASSUME start \in Levels, NEW m, NEW x, NEW l \in start..3, Tab(m, x, l) # NULL,
           l = 3 \/ m[Tab(m, x, l)][Idx(x, l)].type # "table"
    PROVE  Read(m, x) = IF AtLeaf(m, x, l) THEN {Place(m, x, l)} ELSE {}
  <1>1. start \in Nat /\ start <= 3
    BY DEF Levels
  <1>2. \A k \in start..3 : AtLeaf(m, x, k) => k = l
    <2> SUFFICES ASSUME NEW k \in start..3, AtLeaf(m, x, k), k # l PROVE FALSE
      OBVIOUS
    <2>1. CASE k < l
      <3>1. k \in start..l - 1
        BY <1>1, <2>1
      <3>2. m[Tab(m, x, k)][Idx(x, k)].type = "table"
        BY <3>1, Passed
      <3> QED
        BY <3>2 DEF AtLeaf
    <2>2. CASE l < k
      <3>1. l \in start..k - 1 /\ l # 3
        BY <1>1, <2>2
      <3>2. Tab(m, x, k) # NULL
        BY DEF AtLeaf
      <3>3. m[Tab(m, x, l)][Idx(x, l)].type = "table"
        BY <3>1, <3>2, Passed
      <3> QED
        BY <3>1, <3>3
    <2> QED
      BY <1>1, <2>1, <2>2
  <1>3. {k \in start..3 : AtLeaf(m, x, k)} = IF AtLeaf(m, x, l) THEN {l} ELSE {}
    BY <1>2
  <1> QED
    BY <1>3 DEF Read

(* The walk for x passes the entry of a's block only if x is in that block. *)
LEMMA SameEntry ==
    ASSUME cfg \in Configs, start \in Levels, NEW m, NEW n, Tree(m, n),
           NEW x, NEW a, InSpace(x), InSpace(a), NEW l \in start..3, NEW j \in start..3,
           Tab(m, a, l) # NULL, Tab(m, x, j) = Tab(m, a, l), Idx(x, j) = Idx(a, l)
    PROVE  j = l /\ Quot(x, l) = Quot(a, l)
  <1>1. start \in Nat /\ x \in Nat /\ a \in Nat
    BY DEF Levels, InSpace
  <1>2. j = l /\ SameIdx(x, a, j - 1)
    BY <1>1, TabUnique
  <1>3. SameIdx(x, a, l)
    BY <1>1, <1>2 DEF SameIdx
  <1> QED
    BY <1>2, <1>3, SameBlock

LEMMA SameTable ==
    ASSUME cfg \in Configs, start \in Levels, NEW m,
           NEW x, NEW a, InSpace(x), InSpace(a), NEW l \in start..3, Quot(x, l) = Quot(a, l)
    PROVE  Tab(m, x, l) = Tab(m, a, l) /\ Idx(x, l) = Idx(a, l)
  <1>1. start \in Nat
    BY DEF Levels
  <1>2. \A j \in start..l : Idx(x, j) = Idx(a, j)
    BY SameBlock DEF SameIdx
  <1>3. \A j \in start..l - 1 : Idx(a, j) = Idx(x, j)
    BY <1>1, <1>2
  <1>4. Tab(m, x, l) = Tab(m, a, l)
    BY <1>3, TabAgree
  <1> QED
    BY <1>1, <1>2, <1>4

(* One entry of the first n tables is written. *)
Writes(m, o, n, t, k) ==
    \A u \in 0..n - 1, i \in Cells : ~ (u = t /\ i = k) => o[u][i] = m[u][i]

LEMMA WriteElsewhere ==
    ASSUME cfg \in Configs, start \in Levels, NEW m, NEW n, Tree(m, n), NEW o,
           NEW x, NEW a, InSpace(x), InSpace(a), NEW l \in start..3, Tab(m, a, l) # NULL,
           Writes(m, o, n, Tab(m, a, l), Idx(a, l)), Quot(x, l) # Quot(a, l)
    PROVE  Read(o, x) = Read(m, x)
  <1>1. start \in Nat /\ start <= 3 /\ x \in Nat
    BY DEF Levels, InSpace
  <1>2. ASSUME NEW j \in start..3, Tab(m, x, j) # NULL
        PROVE  o[Tab(m, x, j)][Idx(x, j)] = m[Tab(m, x, j)][Idx(x, j)]
    <2>1. Tab(m, x, j) \in 0..n - 1
      BY <1>1, <1>2, TabTaken
    <2>2. Idx(x, j) \in Cells
      BY <1>1, IdxInTable DEF Levels
    <2>3. ~ (Tab(m, x, j) = Tab(m, a, l) /\ Idx(x, j) = Idx(a, l))
      BY SameEntry
    <2> QED
      BY <2>1, <2>2, <2>3 DEF Writes
  <1>3. ASSUME NEW j \in start..3 PROVE Tab(o, x, j) = Tab(m, x, j)
    <2>1. \A i \in start..j - 1 : Tab(m, x, i) # NULL =>
            o[Tab(m, x, i)][Idx(x, i)] = m[Tab(m, x, i)][Idx(x, i)]
      BY <1>1, <1>2
    <2>2. \A i \in start..j - 1 : Idx(x, i) = Idx(x, i)
      OBVIOUS
    <2> QED
      BY <2>1, <2>2, TabAgree
  <1>4. \A j \in start..3 : AtLeaf(o, x, j) <=> AtLeaf(m, x, j)
    BY <1>2, <1>3 DEF AtLeaf
  <1>5. \A j \in start..3 : AtLeaf(m, x, j) => Place(o, x, j) = Place(m, x, j)
    BY <1>2, <1>3 DEF AtLeaf, Place
  <1> QED
    BY <1>4, <1>5 DEF Read

LEMMA WriteThere ==
    ASSUME cfg \in Configs, start \in Levels, NEW m, NEW n, Tree(m, n), NEW o,
           NEW x, NEW a, InSpace(x), InSpace(a), NEW l \in start..3, Tab(m, a, l) # NULL,
           Writes(m, o, n, Tab(m, a, l), Idx(a, l)), Quot(x, l) = Quot(a, l)
    PROVE  /\ Tab(m, x, l) = Tab(m, a, l) /\ Idx(x, l) = Idx(a, l)
           /\ Tab(o, x, l) = Tab(m, a, l)
  <1>1. start \in Nat /\ start <= 3 /\ x \in Nat
    BY DEF Levels, InSpace
  <1>2. Tab(m, x, l) = Tab(m, a, l) /\ Idx(x, l) = Idx(a, l)
    BY SameTable
  <1>3. ASSUME NEW j \in start..l - 1, Tab(m, x, j) # NULL
        PROVE  o[Tab(m, x, j)][Idx(x, j)] = m[Tab(m, x, j)][Idx(x, j)]
    <2>0. j \in start..3 /\ j # l
      BY <1>1
    <2>1. Tab(m, x, j) \in 0..n - 1
      BY <1>1, <1>3, <2>0, TabTaken
    <2>2. Idx(x, j) \in Cells
      BY <1>1, IdxInTable DEF Levels
    <2>3. ~ (Tab(m, x, j) = Tab(m, a, l) /\ Idx(x, j) = Idx(a, l))
      BY <2>0, SameEntry
    <2> QED
      BY <2>1, <2>2, <2>3 DEF Writes
  <1>4. \A i \in start..l - 1 : Idx(x, i) = Idx(x, i)
    OBVIOUS
  <1>5. \A j \in start..l - 1 : Tab(m, x, j) # NULL =>
            o[Tab(m, x, j)][Idx(x, j)] = m[Tab(m, x, j)][Idx(x, j)]
    BY <1>3
  <1>6. Tab(o, x, l) = Tab(m, x, l)
    BY <1>4, <1>5, TabAgree
  <1> QED
    BY <1>2, <1>6

----
(* A region table that entries of its levels can express: every region begins and
   ends, in both address spaces, at a block of the level it is mapped at, as
   g_mem_map_info does. (mmu_add_map_pte_process ors the attributes into the physical address: what
   an address that is not aligned leaves in the entry is not modelled.) *)
MapWellFormed ==
    \A i \in 1..Len(cfg.regions) :
        LET r == cfg.regions[i]
        IN  /\ r.virt + r.size <= Large
            /\ r.maxLevel \in Levels => /\ r.virt % Span(r.maxLevel) = 0
                                        /\ r.phys % Span(r.maxLevel) = 0
                                        /\ r.size % Span(r.maxLevel) = 0

(* The processor starts its walk where mmu_setup_pgtables put the root. *)
Refused == cfg.granule = "64K" /\ VaSize(cfg) # Small

LEMMA SizesFit ==
    ASSUME cfg \in Configs, ~ Refused
    PROVE  /\ StartLevel(cfg) \in 0..2
           /\ VaSize(cfg) \in {Small, Large}
           /\ VaSize(cfg) <= Span(StartLevel(cfg)) * Entries[cfg.granule]
           /\ \A n \in Levels : n > StartLevel(cfg) =>
                 Span(n) * Entries[cfg.granule] < VaSize(cfg)
  <1> DEFINE e == Entries[cfg.granule]
             p == Page[cfg.granule]
  <1>1. cfg.granule \in Granules /\ e \in Nat \ {0} /\ p \in Nat \ {0}
    BY MmuAssumption, ConfigFacts
  <1>2. PICK q \in Nat : q = p * e
    BY <1>1
  <1>3. PICK t \in Nat : t = q * e
    BY <1>1
  <1>4. PICK u \in Nat : u = t * e
    BY <1>1
  <1>5. PICK v \in Nat : v = u * e
    BY <1>1
  <1>6. /\ Span(3) * e = q /\ Span(2) * e = t /\ Span(1) * e = u /\ Span(0) * e = v
    BY <1>1, <1>2, <1>3, <1>4, <1>5 DEF Span
  <1>7. VaSize(cfg) \in {Small, Large} /\ Small \in Nat /\ Large \in Nat /\ Small < Large
    BY MmuAssumption DEF VaSize
  <1>8. q <= t /\ t <= u /\ u <= v
    <2>1. PICK d \in Nat : e = d + 1
      <3>1. e - 1 \in Nat /\ e = (e - 1) + 1
        BY <1>1
      <3> QED
        BY <3>1
    <2>2. ASSUME NEW a \in Nat PROVE a <= a * e
      <3>1. a * (d + 1) = a * d + a
        OBVIOUS
      <3>2. PICK c \in Nat : c = a * d
        OBVIOUS
      <3>3. a <= a * (d + 1)
        BY <3>1, <3>2
      <3> QED
        BY <2>1, <3>3
    <2> HIDE DEF e
    <2> QED
      BY <1>3, <1>4, <1>5, <2>2
  <1>9. CASE cfg.granule = "4K"
    <2>1. t < Small /\ Small <= u /\ u < Large /\ Large <= v
      BY <1>2, <1>3, <1>4, <1>5, <1>9, SizeAssumption
    <2>2. CASE VaSize(cfg) = Small
      <3>1. StartLevel(cfg) = 1
        BY <1>9, <2>2 DEF StartLevel
      <3>2. \A n \in Levels : n > 1 => Span(n) * e < Small
        <4>1. \A n \in Levels : n > 1 => n = 2 \/ n = 3
          BY DEF Levels
        <4>2. q < Small
          BY <1>7, <1>8, <2>1
        <4> HIDE DEF e
        <4> QED
          BY <1>6, <2>1, <4>1, <4>2
      <3> QED
        BY <1>6, <1>7, <2>1, <2>2, <3>1, <3>2
    <2>3. CASE VaSize(cfg) # Small
      <3>1. StartLevel(cfg) = 0 /\ VaSize(cfg) = Large
        BY <1>7, <1>9, <2>3 DEF StartLevel
      <3>2. \A n \in Levels : n > 0 => Span(n) * e < Large
        <4>1. \A n \in Levels : n > 0 => n = 1 \/ n = 2 \/ n = 3
          BY DEF Levels
        <4>2. q < Large /\ t < Large
          BY <1>7, <1>8, <2>1
        <4> HIDE DEF e
        <4> QED
          BY <1>6, <2>1, <4>1, <4>2
      <3> QED
        BY <1>6, <1>7, <2>1, <3>1, <3>2
    <2> QED
      BY <2>2, <2>3
  <1>10. CASE cfg.granule = "64K"
    <2>1. q < Small /\ Small <= t
      BY <1>2, <1>3, <1>10, SizeAssumption
    <2>2. VaSize(cfg) = Small /\ StartLevel(cfg) = 2
      BY <1>10 DEF Refused, StartLevel
    <2>3. \A n \in Levels : n > 2 => n = 3
      BY DEF Levels
    <2> HIDE DEF e
    <2> QED
      BY <1>6, <1>7, <2>1, <2>2, <2>3 DEF e
  <1> QED
    BY <1>1, <1>9, <1>10 DEF Granules

(* How far the loops are: every region before this one, and `mapped` of this one. *)
Covered(i) == IF i < region THEN cfg.regions[i].size
              ELSE IF i = region /\ pc = "walk" THEN mapped ELSE 0
Done(i, x) == cfg.regions[i].virt <= x /\ x < cfg.regions[i].virt + Covered(i)
Building == pc \in {"region", "walk", "enable"} \/ regs.on

(* Where the loops of mmu_setup_pgtables and mmu_add_map stand. *)
Loops ==
    /\ MapWellFormed
    /\ pc \in {"configure", "root"} => region = 1
    /\ pc = "root" \/ Building => /\ ~ Refused
                                  /\ va = VaSize(cfg) /\ start = StartLevel(cfg)
    /\ pc = "walk" => /\ start < Map.maxLevel /\ level <= Map.maxLevel
                      /\ mapped < Map.size
                      /\ Map.maxLevel \in Levels => mapped % Span(Map.maxLevel) = 0
    /\ regs.on => pc = "done"
    /\ pc = "enable" \/ regs.on => region > Len(cfg.regions) /\ regs.va = va

(* The tables built so far: an address that no region has covered yet is not
   mapped, any other as the last region that covered it says. *)
Mapped ==
    Building => \A x : InSpace(x) =>
        /\ (\A i \in 1..Len(cfg.regions) : ~ Done(i, x)) => Read(mem, x) = {}
        /\ \A i \in 1..Len(cfg.regions) :
              Done(i, x) /\ (\A j \in 1..Len(cfg.regions) : Done(j, x) => j <= i)
                => LET r == cfg.regions[i]
                   IN  Read(mem, x) = {<<r.phys + x - r.virt, r.attrs>>}

MapInv == MmuInv /\ Loops /\ Mapped

(* The tables of the area are the tree that a walk goes down. *)
LEMMA AreaTree ==
    ASSUME MmuInv, fill \in 1..cfg.area
    PROVE  Tree(mem, fill)
  <1>1. Taken = fill
    BY ConfigFacts DEF Taken, MmuInv, Shape
  <1>2. \A t \in 0..fill - 1, k \in Cells : mem[t][k].type = "table" => <<t, k>> \in Links
    BY <1>1 DEF Links, Cells
  <1>3. TablesFormTree
    BY DEF MmuInv
  <1>4. \A t \in 0..fill - 1, k \in Cells :
          mem[t][k].type = "table" => mem[t][k].to \in (t + 1)..(fill - 1)
    BY <1>1, <1>2, <1>3 DEF TablesFormTree
  <1>5. ASSUME NEW t \in 0..fill - 1, NEW u \in 0..fill - 1, NEW k \in Cells, NEW i \in Cells,
               mem[t][k].type = "table", mem[u][i].type = "table", mem[t][k].to = mem[u][i].to
        PROVE  t = u /\ k = i
    <2>1. <<t, k>> \in Links /\ <<u, i>> \in Links
      BY <1>2, <1>5
    <2>2. <<t, k>> = <<u, i>>
      BY <1>3, <1>5, <2>1 DEF TablesFormTree
    <2> QED
      BY <2>2
  <1>6. fill \in Nat \ {0}
    BY DEF MmuInv, Shape
  <1> QED
    BY <1>4, <1>5, <1>6 DEF Tree

LEMMA WalkIsTab ==
    ASSUME NEW x, NEW l
    PROVE  TableFor(x, start, l) = Tab(mem, x, l)
  <1>1. \A t, k : Descend(t, x, k) = Hop(mem, t, x, k)
    BY DEF Descend, Hop
  <1> QED
    BY <1>1 DEF TableFor, Tab

LEMMA ReadsOfTheRun ==
    ASSUME cfg' = cfg, start' = start, NEW x
    PROVE  /\ InSpace(x)' <=> InSpace(x)
           /\ Read(mem, x)' = Read(mem', x)
  <1>1. \A l : Span(l)' = Span(l)
    BY DEF Span
  <1>2. \A y, l : Idx(y, l)' = Idx(y, l)
    BY <1>1 DEF Idx
  <1>3. PICK o : o = mem'
    OBVIOUS
  <1>4. \A t, y, l : Hop(mem, t, y, l)' = Hop(o, t, y, l)
    BY <1>2, <1>3 DEF Hop
  <1>5. \A l : Tab(mem, x, l)' = Tab(o, x, l)
    BY <1>4 DEF Tab
  <1>6. \A l : AtLeaf(mem, x, l)' <=> AtLeaf(o, x, l)
    BY <1>2, <1>3, <1>5 DEF AtLeaf
  <1>7. \A l : Place(mem, x, l)' = Place(o, x, l)
    BY <1>1, <1>2, <1>3, <1>5 DEF Place
  <1>8. Read(mem, x)' = Read(o, x)
    BY <1>6, <1>7 DEF Read
  <1>9. InSpace(x)' <=> InSpace(x)
    BY <1>1 DEF InSpace
  <1> QED
    BY <1>3, <1>8, <1>9

LEMMA RegionTypes ==
    ASSUME cfg \in Configs
    PROVE  /\ Len(cfg.regions) \in Nat
           /\ \A i \in 1..Len(cfg.regions) :
                 /\ cfg.regions[i] \in Region
                 /\ cfg.regions[i].virt \in Nat /\ cfg.regions[i].phys \in Nat
                 /\ cfg.regions[i].size \in Nat /\ cfg.regions[i].maxLevel \in Nat
  <1>1. PICK rs \in Seq(Region) : rs = cfg.regions
    BY ConfigFacts
  <1>2. Len(rs) \in Nat /\ \A i \in 1..Len(rs) : rs[i] \in Region
    OBVIOUS
  <1>3. \A r \in Region : /\ r.virt \in Nat /\ r.phys \in Nat
                          /\ r.size \in Nat /\ r.maxLevel \in Nat
    BY DEF Region
  <1> QED
    BY <1>1, <1>2, <1>3

LEMMA SameConfig ==
    ASSUME cfg' = cfg
    PROVE  /\ MapWellFormed' <=> MapWellFormed
           /\ Refused' <=> Refused
           /\ VaSize(cfg)' = VaSize(cfg) /\ StartLevel(cfg)' = StartLevel(cfg)
           /\ \A l : Span(l)' = Span(l)
  <1>1. \A l : Span(l)' = Span(l)
    BY DEF Span
  <1>2. VaSize(cfg)' = VaSize(cfg) /\ StartLevel(cfg)' = StartLevel(cfg)
    BY DEF VaSize, StartLevel
  <1>3. Refused' <=> Refused
    BY DEF Refused, VaSize
  <1>4. MapWellFormed' <=> MapWellFormed
    BY <1>1 DEF MapWellFormed
  <1> QED
    BY <1>1, <1>2, <1>3, <1>4

(* A step that changes neither what is read nor how far the loops are. *)
LEMMA MappedKept ==
    ASSUME Mapped, cfg' = cfg, start' = start, Building' => Building,
           Building' => \A x : InSpace(x) => Read(mem', x) = Read(mem, x),
           Building' => \A i \in 1..Len(cfg.regions) : Covered(i)' = Covered(i)
    PROVE  Mapped'
  <1> SUFFICES ASSUME Building', NEW x, InSpace(x)'
      PROVE  /\ (\A i \in 1..Len(cfg.regions) : ~ Done(i, x))' => Read(mem, x)' = {}
             /\ \A i \in 1..Len(cfg'.regions) :
                   (Done(i, x) /\ (\A j \in 1..Len(cfg.regions) : Done(j, x) => j <= i))'
                    => LET r == cfg'.regions[i]
                       IN  Read(mem, x)' = {<<r.phys + x - r.virt, r.attrs>>}
    BY DEF Mapped
  <1>1. InSpace(x) /\ Read(mem, x)' = Read(mem, x)
    <2>1. InSpace(x) /\ Read(mem, x)' = Read(mem', x)
      BY ReadsOfTheRun
    <2> QED
      BY <2>1
  <1>2. \A i \in 1..Len(cfg.regions) : Done(i, x)' <=> Done(i, x)
    BY DEF Done
  <1>3. /\ (\A i \in 1..Len(cfg.regions) : ~ Done(i, x)) => Read(mem, x) = {}
        /\ \A i \in 1..Len(cfg.regions) :
              Done(i, x) /\ (\A j \in 1..Len(cfg.regions) : Done(j, x) => j <= i)
                => LET r == cfg.regions[i]
                   IN  Read(mem, x) = {<<r.phys + x - r.virt, r.attrs>>}
    BY <1>1 DEF Mapped
  <1> QED
    BY <1>1, <1>2, <1>3

LEMMA MapInit == Init /\ MapWellFormed => MapInv
  <1> SUFFICES ASSUME Init, MapWellFormed PROVE MapInv
    OBVIOUS
  <1>1. MmuInv
    BY InitMmuInv
  <1>2. Loops
    BY DEF Init, Loops, Building
  <1>3. Mapped
    BY DEF Init, Mapped, Building
  <1> QED
    BY <1>1, <1>2, <1>3 DEF MapInv

LEMMA MapConfigure == MapInv /\ Configure => MapInv'
  <1> SUFFICES ASSUME MapInv, Configure PROVE MapInv'
    OBVIOUS
  <1>1. MmuInv'
    BY ConfigureInv DEF MapInv
  <1>2. cfg' = cfg /\ regs' = regs /\ regs.on = FALSE /\ region' = region /\ region = 1
    BY DEF Configure, MapInv, Loops
  <1>3. pc' = "done" \/ (pc' = "root" /\ ~ Refused)
    BY DEF Configure, Refused, Fail
  <1>4. ~ Building'
    BY <1>2, <1>3 DEF Building
  <1>5. va' = VaSize(cfg) /\ start' = StartLevel(cfg)
    BY DEF Configure
  <1>6. Loops'
    BY <1>2, <1>3, <1>4, <1>5, SameConfig DEF MapInv, Loops
  <1> QED
    BY <1>1, <1>4, <1>6 DEF MapInv, Mapped

(* In the root every entry is invalid. *)
LEMMA MapCreateRoot == MapInv /\ CreateRoot => MapInv'
  <1> SUFFICES ASSUME MapInv, CreateRoot PROVE MapInv'
    OBVIOUS
  <1>1. MmuInv'
    BY CreateRootInv DEF MapInv
  <1>2. /\ cfg' = cfg /\ regs' = regs /\ regs.on = FALSE /\ region' = region /\ region = 1
        /\ va' = va /\ start' = start /\ ~ Refused
        /\ va = VaSize(cfg) /\ start = StartLevel(cfg)
    BY DEF CreateRoot, MapInv, Loops
  <1>3. pc' = "done" \/ (pc' = "region" /\ mem' = [mem EXCEPT ![fill] = Cleared])
    BY DEF CreateRoot, Fail
  <1>4. Loops'
    BY <1>2, <1>3, SameConfig DEF MapInv, Loops, Building
  <1>5. Mapped'
    <2>1. CASE pc' = "done"
      BY <1>2, <2>1 DEF Mapped, Building
    <2>2. CASE pc' = "region"
      <3>1. fill = 0 /\ 0 \in 0..Tables - 1
        <4>1. fill = 0 /\ ~ AreaFull
          BY <2>2 DEF CreateRoot, Fail, MapInv, MmuInv, Progress
        <4> QED
          BY <4>1, ConfigFacts DEF AreaFull, MapInv, MmuInv, Shape
      <3>2. PICK o : o = mem'
        OBVIOUS
      <3>3. \A k \in Cells : o[0][k] = PTE_FAULT
        <4>1. o[0] = Cleared
          BY <1>3, <2>2, <3>1, <3>2 DEF MapInv, MmuInv, Shape
        <4> QED
          BY <4>1, ClearedType
      <3>4. start \in Levels /\ start \in start..3
        BY DEF MapInv, MmuInv, Shape, Levels
      <3>5. ASSUME NEW x, InSpace(x) PROVE Read(o, x) = {}
        <4>1. Tab(o, x, start) = 0 /\ 0 # NULL
          BY <3>4, TabStep DEF NULL
        <4>2. Idx(x, start) \in Cells
          <5>1. x \in Nat /\ cfg \in Configs
            BY <3>5 DEF InSpace, MapInv, MmuInv, Shape
          <5> QED
            BY <3>4, <5>1, IdxInTable
        <4>3. o[Tab(o, x, start)][Idx(x, start)].type = "fault"
          BY <3>3, <4>1, <4>2 DEF PTE_FAULT
        <4>4. ~ AtLeaf(o, x, start)
          BY <4>3 DEF AtLeaf
        <4> QED
          BY <3>4, <4>1, <4>3, <4>4, WalkEnds
      <3>6. \A i \in 1..Len(cfg.regions) : Covered(i)' = 0
        BY <1>2, <2>2 DEF Covered
      <3>7. \A i \in 1..Len(cfg.regions) : cfg.regions[i].virt \in Nat
        BY RegionTypes DEF MapInv, MmuInv, Shape
      <3>8. ASSUME NEW x, InSpace(x), NEW i \in 1..Len(cfg.regions) PROVE ~ Done(i, x)'
        BY <1>2, <3>6, <3>7, <3>8 DEF Done, InSpace
      <3> QED
        <4>1. \A x : InSpace(x)' => InSpace(x) /\ Read(mem, x)' = {}
          <5> SUFFICES ASSUME NEW x, InSpace(x)' PROVE InSpace(x) /\ Read(mem, x)' = {}
            OBVIOUS
          <5>1. InSpace(x) /\ Read(mem, x)' = Read(mem', x)
            BY <1>2, ReadsOfTheRun
          <5>2. Read(mem', x) = {}
            BY <3>2, <3>5, <5>1
          <5> QED
            BY <5>1, <5>2
        <4> QED
          BY <1>2, <3>8, <4>1 DEF Mapped
    <2> QED
      BY <1>3, <2>1, <2>2
  <1> QED
    BY <1>1, <1>4, <1>5 DEF MapInv

LEMMA MapStartRegion == MapInv /\ StartRegion => MapInv'
  <1> SUFFICES ASSUME MapInv, StartRegion PROVE MapInv'
    OBVIOUS
  <1>1. MmuInv'
    BY StartRegionInv DEF MapInv
  <1>2. /\ cfg' = cfg /\ regs' = regs /\ regs.on = FALSE /\ va' = va /\ start' = start
        /\ mem' = mem /\ Building /\ ~ Refused /\ va = VaSize(cfg) /\ start = StartLevel(cfg)
        /\ pc = "region" /\ region <= Len(cfg.regions) /\ region \in Nat \ {0}
    BY DEF StartRegion, MapInv, Loops, Building, MmuInv, Shape
  <1>3. /\ Map \in Region /\ start \in Nat /\ Map.size \in Nat /\ Map.maxLevel \in Nat
        /\ Len(cfg.regions) \in Nat
    BY <1>2, RegionTypes DEF Map, MapInv, MmuInv, Shape, Levels
  <1>4. \/ pc' = "done"
        \/ pc' = "region" /\ region' = region + 1 /\ Map.size = 0
        \/ /\ pc' = "walk" /\ region' = region /\ mapped' = 0 /\ level' = start
           /\ start < Map.maxLevel /\ 0 < Map.size
    BY <1>2, <1>3 DEF StartRegion, Fail
  <1>5. Loops'
    <2>1. CASE pc' = "done"
      BY <1>2, <2>1, SameConfig DEF MapInv, Loops, Building
    <2>2. CASE pc' = "region" /\ region' = region + 1 /\ Map.size = 0
      BY <1>2, <2>2, SameConfig DEF MapInv, Loops, Building
    <2>3. CASE /\ pc' = "walk" /\ region' = region /\ mapped' = 0 /\ level' = start
               /\ start < Map.maxLevel /\ 0 < Map.size
      <3>1. Map' = Map
        BY <1>2, <2>3 DEF Map
      <3>2. Map.maxLevel \in Levels => 0 % Span(Map.maxLevel) = 0
        <4> SUFFICES ASSUME Map.maxLevel \in Levels PROVE 0 % Span(Map.maxLevel) = 0
          OBVIOUS
        <4>1. PICK s \in Nat \ {0} : s = Span(Map.maxLevel)
          BY SpanPositive DEF MapInv, MmuInv, Shape
        <4> QED
          BY <4>1
      <3> QED
        BY <1>2, <1>3, <2>3, <3>1, <3>2, SameConfig DEF MapInv, Loops, Building
    <2> QED
      BY <1>4, <2>1, <2>2, <2>3
  <1>6. Building' => \A i \in 1..Len(cfg.regions) : Covered(i)' = Covered(i)
    <2> SUFFICES ASSUME Building', NEW i \in 1..Len(cfg.regions)
                 PROVE  Covered(i)' = Covered(i)
      OBVIOUS
    <2>1. CASE pc' = "done"
      BY <1>2, <2>1 DEF Building
    <2>2. CASE pc' = "region" /\ region' = region + 1 /\ Map.size = 0
      BY <1>2, <2>2 DEF Covered, Map
    <2>3. CASE pc' = "walk" /\ region' = region /\ mapped' = 0
      BY <1>2, <2>3 DEF Covered
    <2> QED
      BY <1>4, <2>1, <2>2, <2>3
  <1>7. Mapped'
    BY <1>2, <1>6, MappedKept DEF MapInv
  <1> QED
    BY <1>1, <1>5, <1>7 DEF MapInv

LEMMA MapNotFound == MapInv /\ NotFound => MapInv'
  <1> SUFFICES ASSUME MapInv, NotFound PROVE MapInv'
    OBVIOUS
  <1>1. MmuInv'
    BY NotFoundInv DEF MapInv
  <1>2. cfg' = cfg /\ pc' = "done" /\ regs' = regs /\ regs.on = FALSE
    BY DEF NotFound, Fail, MapInv, Loops
  <1>3. ~ Building'
    BY <1>2 DEF Building
  <1>4. Loops'
    BY <1>2, <1>3, SameConfig DEF MapInv, Loops
  <1> QED
    BY <1>1, <1>3, <1>4 DEF MapInv, Mapped

(* The entry the inner loop works on is the one that a walk for the address it
   maps passes at that level. *)
At == Map.virt + mapped

LEMMA WalkFacts ==
    ASSUME MapInv, pc = "walk", FoundTable # NULL
    PROVE  /\ cfg \in Configs /\ start \in Levels /\ level \in Levels /\ level \in start..3
           /\ InSpace(At) /\ Tree(mem, fill) /\ fill \in Nat
           /\ Tab(mem, At, level) = FoundTable /\ Idx(At, level) = FoundIdx
           /\ Found = mem[Tab(mem, At, level)][Idx(At, level)]
           /\ region \in 1..Len(cfg.regions) /\ Map = cfg.regions[region]
           /\ ~ Refused /\ va = VaSize(cfg) /\ start = StartLevel(cfg)
           /\ start < Map.maxLevel /\ level <= Map.maxLevel /\ mapped < Map.size
  <1>1. MmuInv /\ cfg \in Configs /\ start \in Levels /\ fill \in 1..cfg.area
        /\ level \in Levels
    BY FoundTaken DEF MapInv, MmuInv, Shape
  <1>2. Tree(mem, fill) /\ fill \in Nat
    BY <1>1, AreaTree DEF MmuInv, Shape
  <1>3. FoundTable = TableFor(At, start, level)
    BY <1>1 DEF FoundTable, At
  <1>4. level \in start..3
    <2>1. start \in Nat /\ level \in Nat /\ start <= 3 /\ level <= 3
      BY <1>1 DEF Levels
    <2>2. level = start \/ level = start + 1 \/ level = start + 2 \/ level = start + 3
      BY <1>3 DEF TableFor
    <2> QED
      BY <2>1, <2>2
  <1>5. Tab(mem, At, level) = FoundTable /\ Idx(At, level) = FoundIdx
    BY <1>3, WalkIsTab DEF FoundIdx, At
  <1>6. region \in 1..Len(cfg.regions) /\ Map = cfg.regions[region]
    BY <1>1, RegionTypes DEF MmuInv, Progress, Shape, Map
  <1>7. /\ ~ Refused /\ va = VaSize(cfg) /\ start = StartLevel(cfg)
        /\ start < Map.maxLevel /\ level <= Map.maxLevel /\ mapped < Map.size
        /\ MapWellFormed
    BY DEF MapInv, Loops, Building
  <1>8. InSpace(At)
    <2>1. PICK v \in Nat, z \in Nat : v = Map.virt /\ z = Map.size
      BY <1>1, <1>6, RegionTypes
    <2>2. mapped \in Nat /\ mapped < z
      BY <1>1, <1>7, <2>1 DEF MmuInv, Shape
    <2>3. v + z <= VaSize(cfg)
      <3>1. v + z <= Large
        BY <1>6, <1>7, <2>1 DEF MapWellFormed
      <3>2. VaSize(cfg) = Large \/ (VaSize(cfg) = Small /\ v + z <= Small)
        BY <1>6, <2>1 DEF VaSize
      <3> QED
        BY <3>1, <3>2
    <2>4. PICK w \in Nat : w = VaSize(cfg)
      BY <1>1, <1>7, SizesFit, ConfigFacts
    <2>5. PICK s \in Nat \ {0}, e \in Nat \ {0} : s = Span(start) /\ e = Entries[cfg.granule]
      BY <1>1, ConfigFacts, SpanPositive
    <2>6. w <= s * e
      BY <1>1, <1>7, <2>4, <2>5, SizesFit
    <2>7. PICK c \in Nat : c = s * e
      OBVIOUS
    <2>8. v + mapped \in Nat /\ v + mapped < c
      BY <2>2, <2>3, <2>4, <2>6, <2>7
    <2> QED
      BY <2>1, <2>5, <2>7, <2>8 DEF InSpace, At
  <1> QED
    BY <1>1, <1>2, <1>4, <1>5, <1>6, <1>7, <1>8 DEF Found

LEMMA MapKeepEntry == MapInv /\ KeepEntry => MapInv'
  <1> SUFFICES ASSUME MapInv, KeepEntry PROVE MapInv'
    OBVIOUS
  <1>1. MmuInv'
    BY KeepEntryInv DEF MapInv
  <1>2. /\ cfg' = cfg /\ mem' = mem /\ start' = start /\ va' = va /\ region' = region
        /\ mapped' = mapped /\ pc' = pc /\ regs' = regs /\ level' = level + 1
        /\ pc = "walk" /\ level < Map.maxLevel /\ level \in Nat /\ Map.maxLevel \in Nat
    <2>1. FoundTable # NULL /\ pc = "walk"
      BY DEF KeepEntry
    <2>2. level \in Nat /\ Map.maxLevel \in Nat
      BY <2>1, WalkFacts, RegionTypes DEF Levels
    <2> QED
      BY <2>2 DEF KeepEntry
  <1>3. Map' = Map
    BY <1>2 DEF Map
  <1>4. Loops'
    <2>1. level' <= Map.maxLevel
      BY <1>2
    <2> QED
      BY <1>2, <1>3, <2>1, SameConfig DEF MapInv, Loops, Building
  <1>5. Mapped'
    BY <1>2, MappedKept DEF MapInv, Building, Covered
  <1> QED
    BY <1>1, <1>4, <1>5 DEF MapInv

LEMMA MapInstall == MapInv /\ Install => MapInv'
  <1> SUFFICES ASSUME MapInv, Install PROVE MapInv'
    OBVIOUS
  <1>1. MmuInv'
    BY InstallInv DEF MapInv
  <1>2. /\ cfg' = cfg /\ mem' = mem /\ start' = start /\ va' = va /\ region' = region
        /\ mapped' = mapped /\ pc = "region" /\ pc' = "enable" /\ region > Len(cfg.regions)
        /\ regs.on = FALSE /\ regs'.on = FALSE /\ regs'.va = va
    BY DEF Install, MapInv, Loops, MmuInv, Shape
  <1>3. Loops'
    BY <1>2, SameConfig DEF MapInv, Loops, Building
  <1>4. Mapped'
    BY <1>2, MappedKept DEF MapInv, Building, Covered
  <1> QED
    BY <1>1, <1>3, <1>4 DEF MapInv

LEMMA MapEnable == MapInv /\ Enable => MapInv'
  <1> SUFFICES ASSUME MapInv, Enable PROVE MapInv'
    OBVIOUS
  <1>1. MmuInv'
    BY EnableInv DEF MapInv
  <1>2. /\ cfg' = cfg /\ mem' = mem /\ start' = start /\ va' = va /\ region' = region
        /\ mapped' = mapped /\ pc = "enable" /\ pc' = "done" /\ region > Len(cfg.regions)
        /\ regs'.va = regs.va /\ regs.va = va
    BY DEF Enable, MapInv, Loops, MmuInv, Shape
  <1>3. Loops'
    BY <1>2, SameConfig DEF MapInv, Loops, Building
  <1>4. Mapped'
    BY <1>2, MappedKept DEF MapInv, Building, Covered
  <1> QED
    BY <1>1, <1>3, <1>4 DEF MapInv

(* What LinkTable and MapEntry write. *)
LEMMA LinkWrites ==
    ASSUME MapInv, LinkTable, ~ AreaFull, NEW o, o = mem'
    PROVE  /\ Writes(mem, o, fill, FoundTable, FoundIdx)
           /\ o[FoundTable][FoundIdx].type = "table" /\ o[FoundTable][FoundIdx].to = fill
           /\ \A k \in Cells : o[fill][k].type = "fault"
  <1> DEFINE ft == FoundTable
             fi == FoundIdx
             link == [type |-> "table", to |-> fill, attrs |-> "none"]
  <1>1. ft \in 0..fill - 1 /\ fi \in Cells /\ fill \in 1..cfg.area
    BY FoundTaken DEF LinkTable, MapInv
  <1>2. cfg.area \in 0..Tables /\ Tables \in Nat /\ fill + 1 <= cfg.area
    BY <1>1, ConfigFacts DEF AreaFull, MapInv, MmuInv, Shape
  <1>3. o = [mem EXCEPT ![fill] = Cleared, ![ft][fi] = link]
    BY DEF LinkTable
  <1> HIDE DEF ft, fi
  <1>4. mem \in [0..Tables - 1 -> [Cells -> Entry]]
    BY DEF MapInv, MmuInv, Shape
  <1>5. ft # fill /\ ft \in 0..Tables - 1 /\ fill \in 0..Tables - 1
    BY <1>1, <1>2
  <1>6. /\ o[fill] = Cleared
        /\ o[ft] = [mem[ft] EXCEPT ![fi] = link]
        /\ \A t \in 0..Tables - 1 : t # fill /\ t # ft => o[t] = mem[t]
    <2> HIDE DEF link
    <2> QED
      BY <1>3, <1>4, <1>5
  <1>7. mem[ft] \in [Cells -> Entry]
    BY <1>4, <1>5
  <1>8. /\ o[ft][fi] = link
        /\ \A k \in Cells : k # fi => o[ft][k] = mem[ft][k]
    <2> HIDE DEF link
    <2> QED
      BY <1>1, <1>6, <1>7
  <1>9. \A k \in Cells : o[fill][k].type = "fault"
    BY <1>6, ClearedType DEF PTE_FAULT
  <1>10. \A u \in 0..fill - 1 : u \in 0..Tables - 1 /\ u # fill
    BY <1>1, <1>2
  <1>11. Writes(mem, o, fill, ft, fi)
    <2> HIDE DEF link
    <2> QED
      BY <1>6, <1>8, <1>10 DEF Writes
  <1> QED
    BY <1>8, <1>9, <1>11 DEF ft, fi

LEMMA EntryWrites ==
    ASSUME MapInv, MapEntry, NEW o, o = mem'
    PROVE  /\ Writes(mem, o, fill, FoundTable, FoundIdx)
           /\ o[FoundTable][FoundIdx] = Leaf
  <1> DEFINE ft == FoundTable
             fi == FoundIdx
  <1>1. ft \in 0..fill - 1 /\ fi \in Cells /\ fill \in 1..cfg.area
    BY FoundTaken DEF MapEntry, MapInv
  <1>2. cfg.area \in 0..Tables /\ Tables \in Nat
    BY ConfigFacts DEF MapInv, MmuInv, Shape
  <1>3. o = [mem EXCEPT ![ft][fi] = Leaf]
    BY DEF MapEntry
  <1> HIDE DEF ft, fi
  <1>4. mem \in [0..Tables - 1 -> [Cells -> Entry]]
    BY DEF MapInv, MmuInv, Shape
  <1>5. \A u \in 0..fill - 1 : u \in 0..Tables - 1
    BY <1>1, <1>2
  <1>6. /\ o[ft] = [mem[ft] EXCEPT ![fi] = Leaf]
        /\ \A t \in 0..Tables - 1 : t # ft => o[t] = mem[t]
    BY <1>1, <1>3, <1>4, <1>5
  <1>7. mem[ft] \in [Cells -> Entry]
    BY <1>1, <1>4, <1>5
  <1>8. o[ft][fi] = Leaf /\ \A k \in Cells : k # fi => o[ft][k] = mem[ft][k]
    BY <1>1, <1>6, <1>7
  <1>9. Writes(mem, o, fill, ft, fi)
    BY <1>5, <1>6, <1>8 DEF Writes
  <1> QED
    BY <1>8, <1>9 DEF ft, fi

(* A new table changes no translation: what its entry led to was invalid, and so is
   all it leads to now. *)
LEMMA LinkReads ==
    ASSUME MapInv, LinkTable, ~ AreaFull, NEW x, InSpace(x), NEW o, o = mem'
    PROVE  Read(o, x) = Read(mem, x)
  <1>1. /\ Writes(mem, o, fill, FoundTable, FoundIdx)
        /\ o[FoundTable][FoundIdx].type = "table" /\ o[FoundTable][FoundIdx].to = fill
        /\ \A k \in Cells : o[fill][k].type = "fault"
    BY LinkWrites
  <1>2. /\ pc = "walk" /\ FoundTable # NULL /\ Found.type = "fault"
        /\ Found = mem[FoundTable][FoundIdx]
    BY DEF LinkTable, Found
  <1>3. /\ cfg \in Configs /\ start \in Levels /\ level \in start..3
        /\ InSpace(At) /\ Tree(mem, fill) /\ fill \in Nat
        /\ Tab(mem, At, level) = FoundTable /\ Idx(At, level) = FoundIdx
    BY <1>2, WalkFacts
  <1>4. start \in Nat /\ start <= 3 /\ x \in Nat
    BY <1>3 DEF Levels, InSpace
  <1>5. CASE Quot(x, level) # Quot(At, level)
    BY <1>1, <1>2, <1>3, <1>5, WriteElsewhere
  <1>6. CASE Quot(x, level) = Quot(At, level)
    <2>1. /\ Tab(mem, x, level) = FoundTable /\ Idx(x, level) = FoundIdx
          /\ Tab(o, x, level) = FoundTable
      BY <1>1, <1>2, <1>3, <1>6, WriteThere
    <2>2. Read(mem, x) = {}
      <3>1. ~ AtLeaf(mem, x, level)
        BY <1>2, <2>1 DEF AtLeaf
      <3> QED
        BY <1>2, <1>3, <2>1, <3>1, WalkEnds
    <2>3. Read(o, x) = {}
      <3>1. CASE level = 3
        <4>1. ~ AtLeaf(o, x, level)
          BY <1>1, <2>1, <3>1 DEF AtLeaf
        <4> QED
          BY <1>2, <1>3, <2>1, <3>1, <4>1, WalkEnds
      <3>2. CASE level # 3
        <4>1. level \in start..2 /\ level + 1 \in start..3 /\ level + 1 \in Levels
          BY <1>3, <1>4, <3>2 DEF Levels
        <4>2. Tab(o, x, level + 1) = fill
          <5>1. Tab(o, x, level + 1) = Hop(o, Tab(o, x, level), x, level)
            BY <1>3, <4>1, TabStep
          <5> QED
            BY <1>1, <1>2, <2>1, <5>1 DEF Hop
        <4>3. Idx(x, level + 1) \in Cells
          BY <1>3, <1>4, <4>1, IdxInTable
        <4>4. o[Tab(o, x, level + 1)][Idx(x, level + 1)].type = "fault" /\ fill # NULL
          BY <1>1, <1>3, <4>2, <4>3 DEF NULL
        <4>5. ~ AtLeaf(o, x, level + 1)
          BY <4>4 DEF AtLeaf
        <4> QED
          BY <1>3, <4>1, <4>2, <4>4, <4>5, WalkEnds
      <3> QED
        BY <3>1, <3>2
    <2> QED
      BY <2>2, <2>3
  <1> QED
    BY <1>5, <1>6

LEMMA MapLinkTable == MapInv /\ LinkTable => MapInv'
  <1> SUFFICES ASSUME MapInv, LinkTable PROVE MapInv'
    OBVIOUS
  <1>1. MmuInv'
    BY LinkTableInv DEF MapInv
  <1>2. /\ cfg' = cfg /\ start' = start /\ va' = va /\ region' = region
        /\ mapped' = mapped /\ regs' = regs /\ pc = "walk" /\ level < Map.maxLevel
        /\ regs.on = FALSE
    BY DEF LinkTable, MapInv, Loops
  <1>3. Map' = Map
    BY <1>2 DEF Map
  <1>4. CASE AreaFull
    <2>1. pc' = "done" /\ level' = level
      BY <1>4 DEF LinkTable, Fail
    <2>2. ~ Building'
      BY <1>2, <2>1 DEF Building
    <2>3. Loops'
      BY <1>2, <2>1, <2>2, SameConfig DEF MapInv, Loops
    <2> QED
      BY <1>1, <2>2, <2>3 DEF MapInv, Mapped
  <1>5. CASE ~ AreaFull
    <2>1. pc' = pc /\ level' = level + 1
      BY <1>5 DEF LinkTable
    <2>2. level \in Nat /\ Map.maxLevel \in Nat
      <3>1. FoundTable # NULL
        BY DEF LinkTable
      <3> QED
        BY <1>2, <3>1, WalkFacts, RegionTypes DEF Levels
    <2>3. level' <= Map.maxLevel
      BY <1>2, <2>1, <2>2
    <2>4. Loops'
      BY <1>2, <1>3, <2>1, <2>3, SameConfig DEF MapInv, Loops, Building
    <2>5. \A x : InSpace(x) => Read(mem', x) = Read(mem, x)
      BY <1>5, LinkReads
    <2>6. Mapped'
      BY <1>2, <2>1, <2>5, MappedKept DEF MapInv, Building, Covered
    <2> QED
      BY <1>1, <2>4, <2>6 DEF MapInv
  <1> QED
    BY <1>4, <1>5

(* A leaf is written: its block translates to what the region asks for, everything
   else as before, and the loop is one block further. *)
LEMMA MapMapEntry == MapInv /\ MapEntry => MapInv'
  <1> SUFFICES ASSUME MapInv, MapEntry PROVE MapInv'
    OBVIOUS
  <1>1. MmuInv'
    BY MapEntryInv DEF MapInv
  <1>2. pc = "walk" /\ FoundTable # NULL
    BY DEF MapEntry
  <1>3. /\ cfg \in Configs /\ start \in Levels /\ level \in Levels /\ level \in start..3
        /\ InSpace(At) /\ Tree(mem, fill) /\ fill \in Nat
        /\ Tab(mem, At, level) = FoundTable /\ Idx(At, level) = FoundIdx
        /\ region \in 1..Len(cfg.regions) /\ Map = cfg.regions[region]
        /\ ~ Refused /\ va = VaSize(cfg) /\ start = StartLevel(cfg)
        /\ start < Map.maxLevel /\ level <= Map.maxLevel /\ mapped < Map.size
    BY <1>2, WalkFacts
  <1>4. /\ Len(cfg.regions) \in Nat
        /\ \A i \in 1..Len(cfg.regions) :
              /\ cfg.regions[i].virt \in Nat /\ cfg.regions[i].phys \in Nat
              /\ cfg.regions[i].size \in Nat /\ cfg.regions[i].maxLevel \in Nat
    BY <1>3, RegionTypes
  <1>5. PICK r : r = Map
    OBVIOUS
  <1>6. /\ r.virt \in Nat /\ r.phys \in Nat /\ r.size \in Nat /\ r.maxLevel \in Nat
    BY <1>3, <1>4, <1>5
  <1>7. level = r.maxLevel /\ level # start
    BY <1>3, <1>5, <1>6 DEF MapEntry, Levels
  <1>8. PICK s \in Nat \ {0} : s = Span(level)
    BY <1>3, SpanPositive
  <1>9. r.virt % s = 0 /\ r.size % s = 0 /\ mapped % s = 0 /\ mapped \in Nat
    <2>1. mapped % s = 0 /\ mapped \in Nat
      <3>1. Map.maxLevel \in Levels /\ Span(Map.maxLevel) = s
        BY <1>3, <1>5, <1>7, <1>8
      <3>2. mapped % Span(Map.maxLevel) = 0
        BY <1>2, <3>1 DEF MapInv, Loops
      <3>3. mapped \in Nat
        BY DEF MapInv, MmuInv, Shape
      <3> QED
        BY <3>1, <3>2, <3>3, Zenon
    <2>2. MapWellFormed
      BY DEF MapInv, Loops
    <2>3. r.virt % Span(r.maxLevel) = 0 /\ r.size % Span(r.maxLevel) = 0
      BY <1>3, <1>5, <1>7, <2>2 DEF MapWellFormed
    <2>4. r.virt % s = 0 /\ r.size % s = 0
      BY <1>7, <1>8, <2>3, Zenon
    <2> QED
      BY <2>1, <2>4
  <1>10. PICK v \in Nat, z \in Nat : v = r.virt /\ z = r.size
    BY <1>6
  <1>11. PICK a \in Nat : a = At /\ a = v + mapped
    BY <1>5, <1>9, <1>10 DEF At
  <1>12. a % s = 0
    <2>1. v % s = 0
      BY <1>9, <1>10, Zenon
    <2>2. (v + mapped) % s = 0
      BY <1>9, <2>1, SumOfMultiples, Zenon
    <2> QED
      BY <1>11, <2>2, Zenon
  <1>13. mapped + s <= z
    BY <1>3, <1>5, <1>9, <1>10, NextMultiple
  <1>14. (mapped + s) % s = 0
    <2>1. s % s = 0
      OBVIOUS
    <2> QED
      BY <1>9, <2>1, SumOfMultiples
  <1>15. /\ cfg' = cfg /\ start' = start /\ va' = va /\ regs' = regs /\ regs.on = FALSE
         /\ mapped' = mapped + s /\ level' = start
         /\ \/ mapped' < z /\ pc' = "walk" /\ region' = region
            \/ ~ (mapped' < z) /\ pc' = "region" /\ region' = region + 1
    <2>1. BlockSize = s
      BY <1>7, <1>8 DEF BlockSize
    <2>2. Map.size = z
      BY <1>5, <1>10
    <2>3. pc = "walk" /\ regs.on = FALSE
      BY DEF MapEntry, MapInv, Loops, MmuInv, Shape
    <2> QED
      BY <2>1, <2>2, <2>3 DEF MapEntry
  <1>16. Loops'
    <2>1. CASE mapped' < z /\ pc' = "walk" /\ region' = region
      <3>1. Map' = Map
        BY <1>15, <2>1 DEF Map
      <3>2. Map.maxLevel = level /\ Span(Map.maxLevel) = s /\ Map.size = z
        BY <1>5, <1>7, <1>8, <1>10
      <3>3. start < Map.maxLevel /\ level' <= Map.maxLevel
        BY <1>3, <1>5, <1>6, <1>15 DEF Levels
      <3>4. /\ Map'.maxLevel = Map.maxLevel /\ Map'.size = z
            /\ Span(Map.maxLevel)' = s
        <4>1. \A l : Span(l)' = Span(l)
          BY <1>15, SameConfig
        <4>2. Span(Map.maxLevel)' = Span(Map.maxLevel)
          BY <3>1, <4>1, <1>15 DEF Span
        <4> QED
          BY <3>1, <3>2, <4>2
      <3> QED
        BY <1>3, <1>14, <1>15, <2>1, <3>1, <3>3, <3>4, SameConfig
           DEF MapInv, Loops, Building
    <2>2. CASE pc' = "region" /\ region' = region + 1
      BY <1>3, <1>15, <2>2, SameConfig DEF MapInv, Loops, Building
    <2> QED
      BY <1>15, <2>1, <2>2
  <1> PICK n \in 1..Len(cfg.regions) : n = region /\ r = cfg.regions[n]
    BY <1>3, <1>5
  <1>17. /\ Covered(n) = mapped /\ Covered(n)' = mapped + s
         /\ \A i \in 1..Len(cfg.regions) :
               /\ i # n => Covered(i)' = Covered(i)
               /\ i > n => Covered(i)' = 0
    <2>1. Covered(n) = mapped
      BY <1>2, <1>3 DEF Covered
    <2>2. CASE mapped' < z /\ pc' = "walk" /\ region' = region
      BY <1>2, <1>3, <1>4, <1>15, <2>1, <2>2 DEF Covered
    <2>3. CASE ~ (mapped' < z) /\ pc' = "region" /\ region' = region + 1
      <3>1. z = mapped + s
        BY <1>9, <1>13, <1>15, <2>3
      <3>2. cfg'.regions[n].size = z
        BY <1>10, <1>15
      <3>3. Covered(n)' = mapped + s
        BY <1>4, <1>15, <2>3, <3>1, <3>2 DEF Covered
      <3> QED
        BY <1>2, <1>3, <1>4, <1>15, <2>1, <2>3, <3>3 DEF Covered
    <2> QED
      BY <1>15, <2>1, <2>2, <2>3
  <1>18. PICK o : o = mem'
    OBVIOUS
  <1>19. ASSUME NEW x, InSpace(x), Quot(x, level) = Quot(At, level)
         PROVE  /\ Read(o, x) = {<<r.phys + x - r.virt, r.attrs>>}
                /\ x \in a..a + s - 1
    <2>1. Writes(mem, o, fill, FoundTable, FoundIdx) /\ o[FoundTable][FoundIdx] = Leaf
      BY <1>18, EntryWrites
    <2>2. Tab(o, x, level) = FoundTable /\ Idx(x, level) = FoundIdx
      BY <1>2, <1>3, <1>19, <2>1, WriteThere
    <2>3. /\ Leaf.type = (IF level = 3 THEN "page" ELSE "block")
          /\ Leaf.to = r.phys + mapped /\ Leaf.attrs = r.attrs
      BY <1>5 DEF Leaf
    <2>4. AtLeaf(o, x, level)
      BY <1>2, <2>1, <2>2, <2>3 DEF AtLeaf
    <2>5. Read(o, x) = {Place(o, x, level)}
      <3>1. o[Tab(o, x, level)][Idx(x, level)].type # "table"
        BY <2>1, <2>2, <2>3
      <3> QED
        BY <1>2, <1>3, <2>2, <2>4, <3>1, WalkEnds
    <2>6. x \in Nat
      BY <1>19 DEF InSpace
    <2>7. x \in a..a + s - 1 /\ x % s = x - a
      <3>1. x \div s = a \div s
        BY <1>8, <1>11, <1>19 DEF Quot
      <3> QED
        BY <1>12, <2>6, <3>1, Block
    <2>8. (r.phys + mapped) + (x % s) = r.phys + x - r.virt
      <3>1. PICK d \in Int : d = x - a
        BY <2>6
      <3>2. x % s = d
        BY <2>7, <3>1
      <3>3. PICK f \in Nat : f = r.phys
        BY <1>6
      <3>4. (f + mapped) + d = f + x - v
        BY <1>9, <1>11, <2>6, <3>1
      <3> QED
        BY <1>10, <3>2, <3>3, <3>4
    <2>9. Place(o, x, level) = <<r.phys + x - r.virt, r.attrs>>
      BY <1>8, <2>1, <2>2, <2>3, <2>8 DEF Place
    <2> QED
      BY <2>5, <2>7, <2>9
  <1>20. ASSUME NEW x, InSpace(x), Quot(x, level) # Quot(At, level)
         PROVE  Read(o, x) = Read(mem, x) /\ x \notin a..a + s - 1
    <2>1. Writes(mem, o, fill, FoundTable, FoundIdx)
      BY <1>18, EntryWrites
    <2>2. Read(o, x) = Read(mem, x)
      BY <1>2, <1>3, <1>20, <2>1, WriteElsewhere
    <2>3. x \in Nat
      BY <1>20 DEF InSpace
    <2>4. x \div s # a \div s
      BY <1>8, <1>11, <1>20 DEF Quot
    <2> QED
      BY <1>12, <2>2, <2>3, <2>4, Block
  <1>21. Mapped'
    <2> SUFFICES ASSUME NEW x, InSpace(x)'
        PROVE  /\ (\A i \in 1..Len(cfg.regions) : ~ Done(i, x))' => Read(mem, x)' = {}
               /\ \A i \in 1..Len(cfg'.regions) :
                     (Done(i, x) /\ (\A j \in 1..Len(cfg.regions) : Done(j, x) => j <= i))'
                      => LET q == cfg'.regions[i]
                         IN  Read(mem, x)' = {<<q.phys + x - q.virt, q.attrs>>}
      BY DEF Mapped
    <2>1. InSpace(x) /\ Read(mem, x)' = Read(o, x) /\ x \in Nat
      <3>1. InSpace(x) /\ Read(mem, x)' = Read(mem', x)
        BY <1>15, ReadsOfTheRun
      <3> QED
        BY <1>18, <3>1 DEF InSpace
    <2>3. Done(n, x)' <=> v <= x /\ x < v + (mapped + s)
      BY <1>10, <1>15, <1>17 DEF Done
    <2>4. Done(n, x) <=> v <= x /\ x < v + mapped
      BY <1>10, <1>17 DEF Done
    <2>5. \A i \in 1..Len(cfg.regions) : i # n => (Done(i, x)' <=> Done(i, x))
      BY <1>15, <1>17 DEF Done
    <2>6. \A i \in 1..Len(cfg.regions) : i > n => ~ Done(i, x)'
      BY <1>4, <1>15, <1>17, <2>1 DEF Done
    <2>7. /\ (\A i \in 1..Len(cfg.regions) : ~ Done(i, x)) => Read(mem, x) = {}
          /\ \A i \in 1..Len(cfg.regions) :
                Done(i, x) /\ (\A j \in 1..Len(cfg.regions) : Done(j, x) => j <= i)
                  => LET q == cfg.regions[i]
                     IN  Read(mem, x) = {<<q.phys + x - q.virt, q.attrs>>}
      BY <1>2, <2>1 DEF MapInv, Mapped, Building
    <2>8. CASE Quot(x, level) = Quot(At, level)
      <3>1. Read(o, x) = {<<r.phys + x - r.virt, r.attrs>>} /\ x \in a..a + s - 1
        BY <1>19, <2>1, <2>8
      <3>2. Done(n, x)'
        BY <1>9, <1>11, <2>1, <2>3, <3>1
      <3>3. ASSUME NEW i \in 1..Len(cfg.regions), Done(i, x)',
                   \A j \in 1..Len(cfg.regions) : Done(j, x)' => j <= i
            PROVE  i = n
        BY <1>4, <2>6, <3>2, <3>3
      <3> QED
        BY <1>15, <2>1, <3>1, <3>2, <3>3
    <2>9. CASE Quot(x, level) # Quot(At, level)
      <3>1. Read(o, x) = Read(mem, x) /\ x \notin a..a + s - 1
        BY <1>20, <2>1, <2>9
      <3>2. Done(n, x)' <=> Done(n, x)
        BY <1>9, <1>11, <2>1, <2>3, <2>4, <3>1
      <3>3. \A i \in 1..Len(cfg.regions) : Done(i, x)' <=> Done(i, x)
        BY <2>5, <3>2
      <3> QED
        BY <1>15, <2>1, <2>7, <3>1, <3>3
    <2> QED
      BY <2>8, <2>9
  <1> QED
    BY <1>1, <1>16, <1>21 DEF MapInv

LEMMA MapStep == MapInv /\ [Next]_vars => MapInv'
  <1> SUFFICES ASSUME MapInv, [Next]_vars PROVE MapInv'
    OBVIOUS
  <1>1. CASE UNCHANGED vars
    <2>1. MmuInv'
      BY <1>1, MmuStep DEF MapInv
    <2>2. Map' = Map
      BY <1>1 DEF vars, Map
    <2>3. Loops'
      BY <1>1, <2>2, SameConfig DEF vars, MapInv, Loops, Building
    <2>4. Mapped'
      BY <1>1, MappedKept DEF vars, MapInv, Building, Covered
    <2> QED
      BY <2>1, <2>3, <2>4 DEF MapInv
  <1> QED
    BY <1>1, MapConfigure, MapCreateRoot, MapStartRegion, MapNotFound, MapLinkTable,
       MapKeepEntry, MapMapEntry, MapInstall, MapEnable DEF Next

(* A set of numbers up to n that is not empty has a largest. *)
LEMMA LargestOf ==
    ASSUME NEW n \in Nat, NEW S, S \subseteq 1..n, S # {}
    PROVE  \E i \in S : \A j \in S : j <= i
  <1> DEFINE D == {d \in Nat : n - d \in S}
  <1>1. PICK k \in S : k \in 1..n
    OBVIOUS
  <1>2. n - k \in D
    <2>1. n - k \in Nat /\ n - (n - k) = k
      BY <1>1
    <2> QED
      BY <1>1, <2>1
  <1>3. PICK d \in D : \A c \in D : d <= c
    <2>1. D \subseteq Nat /\ D # {}
      BY <1>2
    <2> HIDE DEF D
    <2>2. PICK d \in D : \A c \in D : ~ (<<c, d>> \in OpToRel(<, Nat))
      BY <2>1, NatLessThanWellFounded, WFMin
    <2>3. ASSUME NEW c \in D PROVE d <= c
      <3>1. d \in Nat /\ c \in Nat
        BY <2>1
      <3>2. ~ (c < d)
        BY <2>2, <3>1 DEF OpToRel
      <3> QED
        BY <3>1, <3>2
    <2> QED
      BY <2>3
  <1>4. ASSUME NEW j \in S PROVE j <= n - d
    <2>1. j \in 1..n /\ n - j \in Nat /\ n - (n - j) = j
      OBVIOUS
    <2>2. n - j \in D
      BY <1>4, <2>1
    <2>3. d <= n - j
      BY <1>3, <2>2
    <2> QED
      BY <1>3, <2>1, <2>3
  <1> QED
    BY <1>3, <1>4

(* The table walk of the processor is the one the tables were built for. *)
LEMMA WalkStart ==
    ASSUME MapInv, regs.on
    PROVE  HwStart = start
  <1>1. cfg \in Configs /\ ~ Refused /\ regs.va = VaSize(cfg) /\ start = StartLevel(cfg)
    BY DEF MapInv, Loops, Building, MmuInv, Shape
  <1>2. PICK w \in Nat, k \in Levels : w = regs.va /\ k = start
    <2>1. regs.va \in Nat
      BY <1>1, SizesFit, ConfigFacts
    <2> QED
      BY <2>1 DEF MapInv, MmuInv, Shape
  <1> DEFINE S(l) == Span(l) * Entries[cfg.granule]
             P(l) == S(l) >= w /\ \A n \in Levels : n > l => S(n) < w
  <1>3. \A l \in Levels : S(l) \in Nat
    <2> SUFFICES ASSUME NEW l \in Levels PROVE S(l) \in Nat
      OBVIOUS
    <2>1. PICK s \in Nat, e \in Nat : s = Span(l) /\ e = Entries[cfg.granule]
      BY <1>1, SpanPositive, ConfigFacts
    <2> QED
      BY <2>1
  <1>4. w <= S(k) /\ \A n \in Levels : n > k => S(n) < w
    BY <1>1, <1>2, SizesFit
  <1>5. HwStart = CHOOSE l \in Levels : P(l)
    BY <1>2 DEF HwStart
  <1> HIDE DEF S
  <1>6. P(k)
    BY <1>3, <1>4
  <1>7. \A l \in Levels : P(l) => l = k
    <2> SUFFICES ASSUME NEW l \in Levels, P(l), l # k PROVE FALSE
      OBVIOUS
    <2>1. l < k \/ k < l
      BY DEF Levels
    <2> QED
      BY <1>3, <1>4, <2>1
  <1> HIDE DEF P
  <1>8. (CHOOSE l \in Levels : P(l)) = k
    BY <1>6, <1>7
  <1> QED
    BY <1>2, <1>5, <1>8

LEMMA ReadIsTranslate ==
    ASSUME HwStart = start, NEW x
    PROVE  Translate(x) = Read(mem, x)
  BY WalkIsTab DEF Translate, Read, AtLeaf, Place

LEMMA MapRight == MapInv => TranslatesRight
  <1> SUFFICES ASSUME MapInv, regs.on, NEW x \in 0..regs.va - 1
               PROVE  Translate(x) = Wanted(x)
    BY DEF TranslatesRight
  <1>1. /\ cfg \in Configs /\ ~ Refused /\ regs.va = VaSize(cfg) /\ start = StartLevel(cfg)
        /\ start \in Levels /\ region \in Nat /\ region > Len(cfg.regions) /\ Building
    BY DEF MapInv, Loops, Building, MmuInv, Shape
  <1>2. x \in Nat /\ InSpace(x)
    <2>1. PICK s \in Nat \ {0}, e \in Nat \ {0} : s = Span(start) /\ e = Entries[cfg.granule]
      BY <1>1, ConfigFacts, SpanPositive
    <2>2. PICK w \in Nat : w = regs.va
      BY <1>1, SizesFit, ConfigFacts
    <2>3. w <= s * e
      BY <1>1, <2>1, <2>2, SizesFit
    <2>4. PICK c \in Nat : c = s * e
      OBVIOUS
    <2>5. x \in Nat /\ x < c
      BY <2>2, <2>3, <2>4
    <2> QED
      BY <2>1, <2>4, <2>5 DEF InSpace
  <1>3. Translate(x) = Read(mem, x)
    BY WalkStart, ReadIsTranslate
  <1> DEFINE n == Len(cfg.regions)
             In(i) == x \in cfg.regions[i].virt ..
                              cfg.regions[i].virt + cfg.regions[i].size - 1
             rs == {i \in 1..n : In(i)}
             big == CHOOSE i \in rs : \A j \in rs : j <= i
  <1>4. n \in Nat
    BY <1>1, RegionTypes
  <1>5. \A i \in 1..n : Done(i, x) <=> In(i)
    <2> SUFFICES ASSUME NEW i \in 1..n PROVE Done(i, x) <=> In(i)
      OBVIOUS
    <2>1. PICK v \in Nat, z \in Nat : v = cfg.regions[i].virt /\ z = cfg.regions[i].size
      BY <1>1, RegionTypes
    <2>2. Covered(i) = z
      BY <1>1, <1>4, <2>1 DEF Covered
    <2>3. Done(i, x) <=> v <= x /\ x < v + z
      BY <2>1, <2>2 DEF Done
    <2>4. In(i) <=> x \in v..v + z - 1
      BY <2>1
    <2>5. v <= x /\ x < v + z <=> x \in v..v + z - 1
      BY <1>2
    <2> HIDE DEF In
    <2> QED
      BY <2>3, <2>4, <2>5
  <1>6. Wanted(x) = IF rs = {} THEN {}
                    ELSE {<<cfg.regions[big].phys + x - cfg.regions[big].virt,
                            cfg.regions[big].attrs>>}
    BY DEF Wanted
  <1>7. /\ (\A i \in 1..n : ~ Done(i, x)) => Read(mem, x) = {}
        /\ \A i \in 1..n :
              Done(i, x) /\ (\A j \in 1..n : Done(j, x) => j <= i)
                => LET r == cfg.regions[i]
                   IN  Read(mem, x) = {<<r.phys + x - r.virt, r.attrs>>}
    BY <1>1, <1>2 DEF MapInv, Mapped
  <1> HIDE DEF In, n
  <1>8. CASE rs = {}
    BY <1>3, <1>5, <1>6, <1>7, <1>8
  <1>9. CASE rs # {}
    <2>1. \E i \in rs : \A j \in rs : j <= i
      <3>1. rs \subseteq 1..n
        OBVIOUS
      <3> HIDE DEF rs
      <3> QED
        BY <1>4, <1>9, <3>1, LargestOf
    <2>2. big \in rs /\ \A j \in rs : j <= big
      <3> HIDE DEF rs
      <3> QED
        BY <2>1
    <2> HIDE DEF big
    <2>3. Read(mem, x) = {<<cfg.regions[big].phys + x - cfg.regions[big].virt,
                            cfg.regions[big].attrs>>}
      BY <1>5, <1>7, <2>2
    <2> QED
      BY <1>3, <1>6, <1>9, <2>3
  <1> QED
    BY <1>8, <1>9

(* mmu_init: with a region table whose regions begin and end at blocks of the level
   they are mapped at, inside the largest address space, the MMU is switched on only
   with tables that translate every address to what the table says. *)
THEOREM MapIsRight == Spec /\ MapWellFormed => []TranslatesRight
  BY MapInit, MapStep, MapRight, PTL DEF Spec
====
