---------------------------- MODULE Descriptors -----------------------------
(***************************************************************************)
(* Segment descriptors, the GDT and the TSS of a CPU on its way into the   *)
(* hypervisor and back (src/src/arch/x86_64/segmentation.rs, tables.rs,    *)
(* percpu.rs, the parts of context.rs and vcpu.rs that handle segments).   *)
(*                                                                         *)
(* A descriptor is its base, its limit field and the set ar of the bits    *)
(* 40..55 that are set, numbered from 0; the second entry of a system      *)
(* descriptor is its base.  A base is <<low, high>>.  A selector has an    *)
(* index, the table indicator ti (1 for the LDT) and the privilege level   *)
(* rpl.  seg is what the CPU has loaded, with the hidden parts; ldt is     *)
(* whether LDTR still leads to Linux's LDT.                                *)
(* vendor is "intel" or "amd", a feature of the build.                     *)
(***************************************************************************)
EXTENDS Integers, FiniteSets, Vendor

CONSTANTS
    LinuxTables,   \* GDTs of Linux
    LinuxLdt,      \* the segments in the LDT of a process
    Selectors,     \* what Linux has in the segment registers, with its TR
    GRAN,          \* bytes of a unit of a limit with granularity (4096)
    MaxSwitches    \* times the hypervisor is enabled

Reg == {"es", "cs", "ss", "ds", "fs", "gs", "tr"}
DataReg == {"es", "ds", "fs", "gs"}
ENTRIES == 16      \* of the table made by GdtStruct::alloc()

\* SegmentAccessRights, by bit number: type 0..3, CODE_DATA, DPL, PRESENT,
\* LONG_MODE, DB, GRANULARITY and UNUSABLE.  Bit 12 is no flag of it.
CODE_DATA == 4
PRESENT == 7
GRANULARITY == 15
UNUSABLE == 16
AllRights == (0..7) \cup {13, 14, 15, 16}
TSS_AVAIL == {0, 3}
TSS_BUSY == {0, 1, 3}

VARIABLES seg_pc, linux_gdt, hv_gdt, entries, ldt, seg, seg_ctx, before, fault, rounds
segment_vars == <<vendor, seg_pc, linux_gdt, hv_gdt, entries, ldt, seg, seg_ctx, before, fault, rounds>>

Zero == [ar |-> {}, base |-> 0, limit |-> 0]

\* Bits 8..11 are the upper part of the limit.
from_descriptor(d) == (d.ar \cap ((0..7) \cup (12..15))) \cap AllRights
set_descriptor_type(d, t) == [d EXCEPT !.ar = (@ \ (0..3)) \cup t]

as_svm_segment_attributes(ar) == (ar \cap (0..7)) \cup {b - 4 : b \in ar \cap (12..15)}

Selector(i, ti, rpl) == [index |-> i, ti |-> ti, rpl |-> rpl]
Null(sel) == sel.index = 0 /\ sel.ti = 0

invalid == [sel |-> Selector(0, 0, 0), base |-> <<0, 0>>, limit |-> 0, ar |-> {UNUSABLE}]

\* Mutant: a system descriptor is read as if it had one entry.
FromSelectorLow(sel, table) ==
    LET d == table[sel.index]
    IN  IF PRESENT \in d.ar
        THEN [sel |-> sel, base |-> <<d.base, 0>>, ar |-> from_descriptor(d),
              limit |-> IF GRANULARITY \in d.ar THEN d.limit * GRAN + GRAN - 1 ELSE d.limit]
        ELSE invalid

\* The entry of the GDT, whatever table the selector is for.
from_selector(sel, table) ==
    LET d == table[sel.index]
    IN  IF PRESENT \in d.ar
        THEN [sel |-> sel, ar |-> from_descriptor(d),
              base |-> <<d.base, IF CODE_DATA \in d.ar THEN 0 ELSE table[sel.index + 1].base>>,
              limit |-> IF GRANULARITY \in d.ar THEN d.limit * GRAN + GRAN - 1 ELSE d.limit]
        ELSE invalid
\* It indexes a slice of as many entries as the GDT has.
Outside(sel, table) ==
    \/ sel.index >= ENTRIES
    \/ /\ sel.index + 1 = ENTRIES
       /\ PRESENT \in table[sel.index].ar /\ CODE_DATA \notin table[sel.index].ar

\* What the processor keeps of a descriptor it loads.
Hidden(sel, table) ==
    LET d == IF sel.ti = 1 THEN LinuxLdt[sel.index] ELSE table[sel.index]
    IN  IF Null(sel) THEN [invalid EXCEPT !.sel = sel]
        ELSE [sel |-> sel, ar |-> (d.ar \ (8..11)),
              base |-> IF CODE_DATA \in d.ar THEN <<d.base, 0>> ELSE <<d.base, table[sel.index + 1].base>>,
              limit |-> IF GRANULARITY \in d.ar THEN (d.limit + 1) * GRAN - 1 ELSE d.limit]

\* ltr: the TSS must be available, and becomes busy.
TypeOf(d) == d.ar \cap (0..3)
Busy(d) == set_descriptor_type(d, TSS_BUSY)

-----------------------------------------------------------------------------
KCODE == 1
TSS == 3

\* GdtStruct::init: KERNEL_CODE64, KERNEL_DATA and the TSS of the CPU.
GdtInit ==
    [i \in 0..(ENTRIES - 1) |->
        CASE i = 1 -> [ar |-> {0, 1, 3, 4, 7} \cup (8..11) \cup {13, 15}, base |-> 0, limit |-> GRAN - 1]
          [] i = 2 -> [ar |-> {0, 1, 4, 7} \cup (8..11) \cup {14, 15}, base |-> 0, limit |-> GRAN - 1]
          [] i = 3 -> [ar |-> {0, 3, 7}, base |-> 1, limit |-> 103]
          [] i = 4 -> [ar |-> {}, base |-> 1, limit |-> 0]
          [] OTHER -> Zero]

\* load_tss: TSS_AVAIL is put in the descriptor, then ltr.
load_tss(table, sel) ==
    LET t == [table EXCEPT ![sel] = set_descriptor_type(@, TSS_AVAIL)]
    IN  [table |-> [t EXCEPT ![sel] = Busy(@)], ok |-> TypeOf(t[sel]) = TSS_AVAIL,
         seg |-> Hidden(Selector(sel, 0, 0), [t EXCEPT ![sel] = Busy(@)])]

\* LinuxContext::load_from; the bases of FS and GS are read from elsewhere.
read_segments ==
    /\ seg_pc = "linux" /\ rounds < MaxSwitches
    /\ rounds' = rounds + 1
    /\ before' = seg
    /\ IF \E r \in Reg : Outside(seg[r].sel, linux_gdt)
       THEN seg_pc' = "stopped" /\ fault' = "panic" /\ UNCHANGED seg_ctx
       ELSE /\ seg_pc' = "saved"
            /\ seg_ctx' = [r \in Reg |-> from_selector(seg[r].sel, linux_gdt)]
            /\ UNCHANGED fault
    /\ UNCHANGED <<linux_gdt, hv_gdt, entries, ldt, seg>>

\* ArchPerCpu::init
arch_init_tables ==
    LET t == load_tss(GdtInit, TSS)
    IN  /\ seg_pc = "saved"
        /\ seg_pc' = "host"
        /\ hv_gdt' = t.table
        /\ entries' = ENTRIES
        /\ fault' = IF t.ok THEN fault ELSE "gp"
        /\ seg' = [r \in Reg |-> CASE r = "cs" -> Hidden(Selector(KCODE, 0, 0), GdtInit)
                                    [] r = "tr" -> t.seg
                                    [] r \in {"es", "ss", "ds"} -> invalid
                                    [] OTHER -> seg[r]]
        /\ UNCHANGED <<linux_gdt, ldt, seg_ctx, before, rounds>>

\* The segments of the VMCS or of the VMCB are loaded with those of Linux, and
\* LDTR is unusable.
enter ==
    /\ seg_pc = "host"
    /\ seg_pc' = "guest"
    /\ ldt' = FALSE
    /\ seg' = IF vendor = "intel" THEN seg_ctx
              ELSE [r \in Reg |-> [seg_ctx[r] EXCEPT !.ar = as_svm_segment_attributes(@)]]
    /\ UNCHANGED <<linux_gdt, hv_gdt, entries, seg_ctx, before, fault, rounds>>

\* The guest gives FS another thread-local segment, or one of an LDT that it
\* loads before.
GuestLoadsFs ==
    /\ seg_pc = "guest"
    /\ \E s \in {Selector(0, 0, 0)}
               \cup {Selector(i, 0, 3) : i \in {j \in 12..13 : PRESENT \in linux_gdt[j].ar}}
               \cup {Selector(i, 1, 3) : i \in DOMAIN LinuxLdt} :
          /\ before' = [before EXCEPT !["fs"] = Hidden(s, linux_gdt)]
          /\ seg_pc' = "ready"
          /\ seg' = [seg EXCEPT !["fs"] = Hidden(s, linux_gdt)]
          /\ ldt' = (ldt \/ s.ti = 1)
    /\ UNCHANGED <<linux_gdt, hv_gdt, entries, seg_ctx, fault, rounds>>

\* A VM exit, then load_vmcs_guest or load_vmcb_guest.  VMX leaves a limit of
\* 64K in GDTR and no LDT, and loads TR from the host state; SVM restores GDTR
\* and leaves FS, GS, TR and LDTR as they are in the guest.
exit ==
    /\ seg_pc \in {"guest", "ready"}
    /\ seg_pc' = "exiting"
    /\ entries' = IF vendor = "intel" THEN 8192 ELSE ENTRIES
    /\ ldt' = (ldt /\ vendor = "amd")
    /\ seg_ctx' = [r \in Reg |-> [seg_ctx[r] EXCEPT !.sel = seg[r].sel]]
    /\ seg' = [r \in Reg |->
                 CASE r = "cs" -> Hidden(Selector(KCODE, 0, 0), GdtInit)
                   [] r = "tr" /\ vendor = "intel" ->
                        [Hidden(Selector(TSS, 0, 0), hv_gdt) EXCEPT !.base = <<0, 0>>]
                   [] r \in {"fs", "gs", "tr"} /\ vendor = "amd" -> seg[r]
                   [] OTHER -> invalid]
    /\ UNCHANGED <<linux_gdt, hv_gdt, before, fault, rounds>>

\* The TSS descriptor of Linux is copied to the current GDT and loaded.
CopyTss(idx) ==
    load_tss([hv_gdt EXCEPT ![idx] = linux_gdt[idx], ![idx + 1] = linux_gdt[idx + 1]], idx)

\* A data segment is to be loaded from an LDT that is not there.
LdtMissing == ~ ldt /\ \E r \in DataReg : seg_ctx[r].sel.ti = 1

\* LinuxContext::restore.  A fault ends in a panic.
restore_segments ==
    LET idx == seg_ctx["tr"].sel.index
        t == CopyTss(idx)
    IN  /\ seg_pc = "exiting"
        /\ hv_gdt' = t.table
        /\ fault' = CASE idx + 1 >= entries -> "panic"
                      [] idx + 1 < entries /\ idx + 1 >= ENTRIES -> "overrun"
                      [] idx + 1 < ENTRIES /\ t.table[KCODE] # GdtInit[KCODE] -> "cs"
                      [] idx + 1 < ENTRIES /\ ~ t.ok -> "gp"
                      [] OTHER -> IF LdtMissing THEN "gp" ELSE "none"
        /\ seg_pc' = IF fault' = "none" THEN "linux" ELSE "stopped"
        /\ seg' = [r \in Reg |-> IF r = "tr" THEN t.seg ELSE Hidden(seg_ctx[r].sel, linux_gdt)]
        /\ UNCHANGED <<linux_gdt, entries, ldt, seg_ctx, before, rounds>>

-----------------------------------------------------------------------------
SegmentsInit ==
    /\ vendor \in {"intel", "amd"}
    /\ seg_pc = "linux"
    /\ linux_gdt \in LinuxTables
    /\ \E s \in Selectors :
          /\ PRESENT \in linux_gdt[s["tr"].index].ar
          /\ seg = [r \in Reg |-> Hidden(s[r], linux_gdt)]
    /\ hv_gdt = GdtInit /\ entries = ENTRIES /\ ldt = TRUE
    /\ seg_ctx = [r \in Reg |-> invalid]
    /\ before = seg
    /\ fault = "none" /\ rounds = 0

SegmentsNext ==
    /\ UNCHANGED vendor
    /\ read_segments \/ arch_init_tables \/ enter \/ GuestLoadsFs \/ exit \/ restore_segments
SegmentsSpec == SegmentsInit /\ [][SegmentsNext]_segment_vars

-----------------------------------------------------------------------------
\* What Linux may have loaded: a null selector, a code or data segment of the
\* GDT, or in a register for data one of the LDT; in TR a busy TSS that lies in
\* the table with its second entry, above the code segment of the hypervisor.
Loadable(r, sel, table) ==
    /\ sel \in [index : Nat, ti : 0..1, rpl : 0..3]
    /\ IF r = "tr"
       THEN /\ sel = Selector(sel.index, 0, 0) /\ sel.index \in 2..(ENTRIES - 2)
            /\ TypeOf(table[sel.index]) = TSS_BUSY
            /\ PRESENT \in table[sel.index].ar /\ CODE_DATA \notin table[sel.index].ar
       ELSE IF sel.ti = 1 THEN r \in DataReg /\ sel.index \in DOMAIN LinuxLdt
       ELSE /\ sel.index < ENTRIES
            /\ sel.index = 0 \/ {PRESENT, CODE_DATA} \subseteq table[sel.index].ar

\* A GDT of Linux: the first entry is null, the thread-local ones are data.
\* The LDT of a process has present data and code segments.
Descriptor == [ar : SUBSET (0..15), base : Nat, limit : Nat]
ASSUME SegmentsAssumption ==
    /\ GRAN \in Nat \ {0}
    /\ DOMAIN LinuxLdt \subseteq Nat
    /\ \A i \in DOMAIN LinuxLdt : LinuxLdt[i] \in Descriptor /\ CODE_DATA \in LinuxLdt[i].ar
    /\ \A table \in LinuxTables :
         /\ table \in [0..(ENTRIES - 1) -> Descriptor] /\ PRESENT \notin table[0].ar
         /\ \A i \in 12..13 : PRESENT \in table[i].ar => CODE_DATA \in table[i].ar
         /\ \A s \in Selectors : PRESENT \in table[s["tr"].index].ar =>
                \A r \in Reg : Loadable(r, s[r], table)

\* Attributes of the VMCB as the bits of a descriptor they stand for.
FromSvm(ar) == (ar \cap (0..7)) \cup {b + 4 : b \in ar \cap (8..11)}

\* The guest starts with the segments Linux had in the GDT, as the processor
\* held them, from a table read by software: selectors with their RPL, base in
\* both halves for a TSS, limits in bytes, and a TSS that is busy, which VM entry
\* demands.  The bit for free use (12) is lost, and a null segment is unusable.
\* Nothing is said of a segment of the LDT: its selector is looked up in the GDT.
GuestHasLinuxSegments ==
    seg_pc = "guest" => \A r \in Reg :
        LET s == seg[r]
            ar == IF vendor = "intel" THEN s.ar ELSE FromSvm(s.ar)
        IN  before[r].sel.ti = 0 =>
              IF before[r].sel.index = 0 THEN Null(s.sel) /\ PRESENT \notin ar
              ELSE /\ [s EXCEPT !.ar = {}] = [before[r] EXCEPT !.ar = {}]
                   /\ ar = before[r].ar \ {12}
                   /\ r = "tr" => ar \cap (0..3) = TSS_BUSY

\* Back in Linux every segment register holds what it held in the guest, TR
\* included, though it was loaded from the hypervisor's table.  A null selector
\* may have lost its RPL, and one of the LDT may have become null.
LinuxHasItsSegments ==
    seg_pc = "linux" => \A r \in Reg :
        \/ seg[r] = before[r]
        \/ (before[r].sel.ti = 1 \/ Null(before[r].sel)) /\ seg[r] = invalid

\* No step faults or panics, unless Linux uses its LDT: a task register is only
\* loaded with an available TSS, and the copy of Linux's TSS descriptor fits in
\* the hypervisor's table and leaves the code segment in use alone.
TablesHold == fault = "none" \/ \E r \in DataReg : before[r].sel.ti = 1

\* The guest starts with the segments Linux had in the GDT, as the processor
\* held them, Linux gets those of the guest back, TR included, and only a
\* selector of the LDT can make the way fail (Segment::from_selector,
\* GdtStruct::load_tss, LinuxContext::restore).
SegmentsKept == GuestHasLinuxSegments /\ LinuxHasItsSegments /\ TablesHold
=============================================================================
