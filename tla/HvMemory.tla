------------------------------ MODULE HvMemory ------------------------------
(***************************************************************************)
(* The memory part of primary_init_early (src/src/main.rs): the frame pool *)
(* is laid out, the hypervisor's page table is built                       *)
(* (init_hv_page_table, src/src/memory/mod.rs) and then the nested page    *)
(* table of the root cell (Cell::new_root, src/src/cell.rs), both from the *)
(* same pool and the same list of memory regions.                          *)
(***************************************************************************)
EXTENDS MemorySet, HvLayout, Sequences

CONSTANTS
    Configs,     \* the configurations the driver may pass
    NestedKind   \* "EPT" or "NPT"

VARIABLES
    c,     \* the configuration
    pc,    \* what primary_init_early does next
    i,     \* the regions inserted so far into the table being built
    m,     \* memory with the page tables
    hv,    \* hv_pt, later HV_PT
    gpm,   \* Cell.gpm, later the one of ROOT_CELL
    res

vars == <<c, pc, i, m, hv, gpm, res>>

NoSet == [kind |-> "none", root |-> 0, intrm |-> {}, regions |-> {}]
Owned(s) == IF s = NoSet THEN {} ELSE {s.root} \cup s.intrm

Init ==
    /\ c \in Configs
    /\ pc = "check" /\ i = 0 /\ res = "Ok"
    /\ m = [free |-> {}, mem |-> <<>>]
    /\ hv = NoSet /\ gpm = NoSet

Stop(e) == pc' = (IF e = "panic" THEN "panicked" ELSE "failed") /\ res' = e

\* HvSystemConfig::check
Check ==
    /\ pc = "check"
    /\ IF c.valid THEN pc' = "frames" /\ UNCHANGED res ELSE Stop("EINVAL")
    /\ UNCHANGED <<c, i, m, hv, gpm>>

\* init_frame_allocator
InitFrames ==
    /\ pc = "frames"
    /\ \/ /\ PoolFits(c)
          /\ m' = [m EXCEPT !.free = PoolFrames(c)]
          /\ pc' = "new_hv" /\ UNCHANGED res
       \/ ~ PoolFits(c) /\ Stop("panic") /\ UNCHANGED m
    /\ UNCHANGED <<c, i, hv, gpm>>

NewHv ==
    /\ pc = "new_hv"
    /\ LET o == NewSet("PT", m) IN
         IF o.res = "Ok" THEN hv' = o.s /\ m' = o.m /\ pc' = "insert_hv" /\ UNCHANGED res
         ELSE Stop("panic") /\ UNCHANGED <<hv, m>>
    /\ i' = 0
    /\ UNCHANGED <<c, gpm>>

\* What init_hv_page_table inserts: the core and the rest of the hypervisor's
\* memory, and then all guest RAM, that is all regions with the flag DMA.
OwnRegions ==
    <<[v |-> HV_BASE, p |-> c.hv_phys, size |-> c.core_size, flags |-> {"READ", "WRITE", "EXECUTE"}],
      [v |-> HV_BASE + c.core_size, p |-> c.hv_phys + c.core_size,
       size |-> c.hv_size - c.core_size, flags |-> {"READ", "WRITE"}]>>

\* Mutant: guest RAM is mapped at its place in the machine.
RamRegionAtPhys(r) ==
    [v |-> phys_to_virt(c, r.phys_start), p |-> r.phys_start, size |-> r.size,
     flags |-> {"READ", "WRITE"}, too_large |-> phys_to_virt(c, r.virt_start) < r.virt_start]
RamRegion(r) ==
    [v |-> phys_to_virt(c, r.virt_start), p |-> r.phys_start, size |-> r.size,
     flags |-> {"READ", "WRITE"}, too_large |-> phys_to_virt(c, r.virt_start) < r.virt_start]

HvRegions ==
    LET dma == SelectSeq(c.regions, LAMBDA r : "DMA" \in r.flags)
    IN  OwnRegions \o [k \in 1..Len(dma) |-> RamRegion(dma[k])]

TooLarge(q) == "too_large" \in DOMAIN q /\ q.too_large

\* One insertion.  An error drops hv_pt and with it all its frames.
InsertHv ==
    /\ pc = "insert_hv" /\ i < Len(HvRegions)
    /\ LET q == HvRegions[i + 1]
           o == IF TooLarge(q) THEN [res |-> "EINVAL", m |-> m, s |-> hv]
                ELSE insert(m, hv, new_with_offset_mapper(q.v, q.p, q.size, q.flags))
           d == drop(o.m, o.s)
       IN  IF o.res = "Ok" THEN hv' = o.s /\ m' = o.m /\ i' = i + 1 /\ UNCHANGED <<pc, res>>
           ELSE /\ hv' = NoSet /\ m' = d.m /\ UNCHANGED i
                /\ Stop(IF d.res = "Ok" THEN o.res ELSE d.res)
    /\ UNCHANGED <<c, gpm>>

\* HV_PT.call_once
PublishHv ==
    /\ pc = "insert_hv" /\ i = Len(HvRegions)
    /\ pc' = "feature" /\ UNCHANGED <<c, i, m, hv, gpm, res>>

\* cell::init asks for VMX or SVM first.
CheckFeature ==
    /\ pc = "feature"
    /\ IF c.feature THEN pc' = "new_cell" /\ UNCHANGED res ELSE Stop("ENODEV")
    /\ UNCHANGED <<c, i, m, hv, gpm>>

NewCell ==
    /\ pc = "new_cell"
    /\ LET o == NewSet(NestedKind, m) IN
         IF o.res = "Ok" THEN gpm' = o.s /\ m' = o.m /\ pc' = "insert_cell" /\ UNCHANGED res
         ELSE Stop("panic") /\ UNCHANGED <<gpm, m>>
    /\ i' = 0
    /\ UNCHANGED <<c, hv>>

\* Mutant: the hypervisor's memory is not covered by the empty page.
CellRegionsBare ==
    [k \in 1..Len(c.regions) |->
        new_with_offset_mapper(c.regions[k].virt_start, c.regions[k].phys_start,
                               c.regions[k].size, c.regions[k].flags)]

\* What Cell::new_root inserts: the empty page over the hypervisor's memory,
\* then all regions of the configuration.
CellRegions ==
    <<new_with_empty_mapper(c.hv_phys, c.hv_size, {"READ", "NO_HUGEPAGES"}, c.empty_page)>>
    \o [k \in 1..Len(c.regions) |->
          new_with_offset_mapper(c.regions[k].virt_start, c.regions[k].phys_start,
                                 c.regions[k].size, c.regions[k].flags)]

InsertCell ==
    /\ pc = "insert_cell" /\ i < Len(CellRegions)
    /\ LET o == insert(m, gpm, CellRegions[i + 1])
           d == drop(o.m, o.s)
       IN  IF o.res = "Ok" THEN gpm' = o.s /\ m' = o.m /\ i' = i + 1 /\ UNCHANGED <<pc, res>>
           ELSE /\ gpm' = NoSet /\ m' = d.m /\ UNCHANGED i
                /\ Stop(IF d.res = "Ok" THEN o.res ELSE d.res)
    /\ UNCHANGED <<c, hv>>

\* ROOT_CELL.call_once
PublishCell ==
    /\ pc = "insert_cell" /\ i = Len(CellRegions)
    /\ pc' = "done" /\ UNCHANGED <<c, i, m, hv, gpm, res>>

Next == \/ Check \/ InitFrames \/ NewHv \/ InsertHv \/ PublishHv
        \/ CheckFeature \/ NewCell \/ InsertCell \/ PublishCell

Spec == Init /\ [][Next]_vars

-----------------------------------------------------------------------------
Hv(v) == query("PT", m, hv.root, v)
Gpm(gpa) == query(NestedKind, m, gpm.root, gpa)
Range(start, len) == start .. (start + len - 1)
HvFrames == Range(c.hv_phys, c.hv_size)
Published == pc \in {"feature", "new_cell", "insert_cell", "done"}

\* At the addresses of the hypervisor's memory, page tables of both kinds
\* included, the guest finds the empty page and may only read it.  Elsewhere it
\* reaches that memory only where the configuration itself names it, in a region
\* with another guest-physical address: insert() compares those addresses alone.
GuestIsolated ==
    pc = "done" => \A gpa \in 0 .. (HV_BASE - 1) :
        LET q == Gpm(gpa) IN
        /\ gpa \in HvFrames => /\ q.res = "Ok" /\ "WRITE" \notin q.flags
                               /\ q.paddr - page_offset(q.paddr) = c.empty_page
        /\ gpa \notin HvFrames /\ q.res = "Ok" /\ q.paddr \in HvFrames =>
             \E k \in 1..Len(c.regions) :
                /\ gpa \in Range(c.regions[k].virt_start, c.regions[k].size)
                /\ q.paddr - gpa = c.regions[k].phys_start - c.regions[k].virt_start

\* Through phys_to_virt the hypervisor sees at a guest-physical address of
\* guest RAM what the guest sees there (used by GuestPtr and page tables of
\* the guest).
HvSeesGuest ==
    pc = "done" =>
        \A k \in 1..Len(c.regions) : "DMA" \in c.regions[k].flags =>
            \A gpa \in Range(c.regions[k].virt_start, c.regions[k].size) :
                /\ Hv(phys_to_virt(c, gpa)).res = "Ok" /\ Gpm(gpa).res = "Ok"
                /\ Hv(phys_to_virt(c, gpa)).paddr = Gpm(gpa).paddr

\* Once activated, the hypervisor's page table maps all its own memory where
\* it runs: image, per-CPU data, configuration and every frame of the pool.
HvSeesItself ==
    Published => \A p \in HvFrames :
        /\ Hv(phys_to_virt(c, p)).res = "Ok"
        /\ Hv(phys_to_virt(c, p)).paddr = p /\ "WRITE" \in Hv(phys_to_virt(c, p)).flags

\* When initialisation fails, every frame is free again except those of the
\* page table already published.
FailureReturnsFrames ==
    pc = "failed" =>
        /\ DOMAIN m.mem = Owned(hv)
        /\ m.mem # <<>> => m.free = PoolFrames(c) \ Owned(hv)

\* The page tables lie in the pool, which overlaps neither the image, nor the
\* per-CPU areas, nor the configuration; the regions read lie inside it.
TablesInPool ==
    /\ \A f \in DOMAIN m.mem : \A a \in Range(f, PAGE_SIZE) :
          phys_to_virt(c, a) \in Range(hv_config_ptr(c) + size(c), hv_end(c) - hv_config_ptr(c) - size(c))
    /\ mem_regions_end(c) <= hv_config_ptr(c) + size(c)
    /\ \A id \in 0..(c.max_cpus - 1) : stack_top(c, id) < hv_config_ptr(c)

\* Initialisation fails only for a reason: a bad configuration, regions that
\* overlap each other or the hypervisor, or that lie too high; it panics only
\* when no frame is left, never while it gives up a half-built table.
Clash ==
    LET Wanted(k) == IF k = 0 THEN [start |-> c.hv_phys, size |-> c.hv_size]
                     ELSE [start |-> c.regions[k].virt_start, size |-> c.regions[k].size]
    IN  \E a, b \in 0..Len(c.regions) : a # b /\ is_overlap_with(Wanted(a), Wanted(b))
FailsForAReason ==
    /\ res # "EFAULT"
    /\ res = "EINVAL" => ~ c.valid \/ Clash \/ \E k \in 1..Len(HvRegions) : TooLarge(HvRegions[k])
    /\ res = "panic" => m.free = {} /\ DOMAIN m.mem = Owned(hv)

\* With its page table the hypervisor reaches all its own memory where it
\* runs, and in guest RAM what the guest sees there (init_hv_page_table,
\* Cell::new_root).
HvSeesMemory == HvSeesGuest /\ HvSeesItself

\* Initialisation fails only for a reason, and cleanly: every frame of a table
\* given up half way is free again (init_hv_page_table, Cell::new_root).
FailsCleanly == FailsForAReason /\ FailureReturnsFrames
=============================================================================
