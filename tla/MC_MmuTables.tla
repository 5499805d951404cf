---- MODULE MC_MmuTables ----
EXTENDS MmuTables

MCEntries == [g \in {"4K", "64K"} |-> IF g = "4K" THEN 4 ELSE 8]
MCPage == [g \in {"4K", "64K"} |-> IF g = "4K" THEN 1 ELSE 2]

Reg(v, p, s, m, a) ==
    [virt |-> v, phys |-> p, size |-> s, maxLevel |-> m, attrs |-> a]

(* g_mem_map_info: two neighbours, one entry of level 1 each, in level-2 blocks. *)
Static == <<Reg(0, 0, 16, 2, "device"), Reg(16, 16, 16, 2, "cached")>>

RegionLists ==
    { Static,
      <<Reg(4, 20, 8, 2, "device"), Reg(16, 4, 3, 3, "cached")>>,
      <<Reg(0, 0, 4, 3, "device"), Reg(0, 8, 4, 2, "cached")>>,
      <<Reg(0, 0, 4, 2, "device"), Reg(1, 9, 2, 3, "cached")>>,
      <<Reg(8, 0, 2, 3, "device"), Reg(64, 32, 16, 1, "cached")>>,
      <<Reg(0, 0, 16, 1, "device")>>,
      <<Reg(0, 0, 0, 2, "device"), Reg(8, 8, 4, 2, "cached")>>,
      <<Reg(0, 0, 4, 2, "device"), Reg(4, 4, 1, 4, "cached")>>,
      <<Reg(192, 0, 32, 2, "cached"), Reg(252, 40, 4, 3, "device")>> }

Lists64 == { <<Reg(0, 4, 8, 3, "device"), Reg(16, 16, 6, 3, "cached")>>,
             <<Reg(0, 0, 16, 2, "device")>>,
             <<Reg(64, 0, 16, 3, "device")>> }

StaleEntries == { [type |-> "fault", to |-> 0, attrs |-> "none"],
                  [type |-> "table", to |-> 0, attrs |-> "none"],
                  [type |-> "block", to |-> 5, attrs |-> "device"] }

MCConfigs ==
    [granule : {"4K"}, area : 0..8, regions : RegionLists, stale : StaleEntries]
    \cup [granule : {"64K"}, area : 0..4, regions : Lists64, stale : StaleEntries]
====
