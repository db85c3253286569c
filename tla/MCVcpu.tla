------------------------------- MODULE MCVcpu -------------------------------
(***************************************************************************)
(* One virtual CPU for TLC, of either vendor: its registers (VcpuContext), *)
(* controls (VcpuControl), CR0 and CR4 (GuestCr) and segments              *)
(* (Descriptors).  The four share no state but the vendor, so each is      *)
(* explored while the others rest.                                         *)
(***************************************************************************)
EXTENDS VcpuContext, VcpuControl, GuestCr, Descriptors

VARIABLE part
vcpu_vars == <<part, vars, control_vars, cr_vars, segment_vars>>

MCCr0 == {"PE", "PG", "NE", "WP", "TS", "CD", "NW"}
MCCr4 == {"PAE", "VMXE", "OSXSAVE", "PCIDE"}
MCFixedCr0 == {"PE", "PG", "NE"}
MCFixedCr4 == {"VMXE"}
MCLinuxCr0 == {{"PE", "PG", "NE", "WP"}, {"PE", "PG", "NE", "WP", "TS"}}
MCLinuxCr4 == {{"PAE"}, {"PAE", "OSXSAVE", "PCIDE"}}

\* GDTs like those of Linux: kernel code and data, a TSS that is busy, and
\* thread-local segments, the TSS at its place or at the end of the table.
Seg(ar, base, limit) == [ar |-> ar, base |-> base, limit |-> limit]
Table(tss, tls) ==
    [i \in 0..15 |->
        CASE i = 2 -> Seg({0, 1, 3, 4, 7, 8, 9, 10, 11, 13, 15}, 0, 15)
          [] i = 3 -> Seg({0, 1, 4, 7, 8, 9, 10, 11, 14, 15}, 0, 15)
          [] i = 5 -> Seg({0, 1, 4, 5, 6, 7, 8, 9, 10, 11, 12, 14, 15}, 0, 15)
          [] i = tss -> Seg({0, 1, 3, 7}, 2, 103)
          [] i = tss + 1 -> Seg({}, 3, 0)
          [] i = 12 -> tls
          [] i = 13 -> Seg({0, 1, 4, 5, 6, 7}, 4, 7)
          [] OTHER -> Seg({}, 0, 0)]
Tls == {Seg({}, 0, 0), Seg({0, 1, 4, 5, 6, 7, 12, 14}, 9, 7), Seg({0, 1, 4, 5, 6, 7, 14, 15}, 9, 7)}
MCLinuxTables == {Table(t, s) : t \in {8, 14}, s \in Tls}
\* An LDT with more entries than the GDT has.
MCLdt == [i \in {3, 6, 20} |-> Seg({0, 1, 4, 5, 6, 7, 14}, i, 5)]
Sel(data, fs, gs, tr) ==
    [s \in Segments |-> CASE s = "cs" -> Selector(2, 0, 0) [] s = "ss" -> Selector(3, 0, 0)
                          [] s = "fs" -> fs [] s = "tr" -> Selector(tr, 0, 0)
                          [] s = "gs" -> gs [] OTHER -> data]
MCSelectors ==
    {Sel(d, f, g, t) : d \in {Selector(0, 0, 0), Selector(5, 0, 3), Selector(3, 1, 3), Selector(6, 1, 3)},
                       f \in {Selector(0, 0, 0), Selector(13, 0, 3)},
                       g \in {Selector(0, 0, 3)}, t \in {8, 14}}
    \cup {Sel(Selector(0, 0, 0), Selector(20, 1, 3), Selector(0, 0, 0), 8)}

-----------------------------------------------------------------------------
(* A part at rest has one state.                                           *)
ContextRests ==
    /\ pc = "linux" /\ own = All("off") /\ err = "none" /\ regs = "hv"
    /\ hw = own /\ op = FALSE /\ stack = own /\ ctx = own /\ vm = own /\ host = own /\ fc = {}
ControlRests ==
    /\ mode = "linux" /\ cpu = {} /\ ctl = {} /\ nested = {} /\ vmcb = {} /\ cache = {} /\ tlb = {}
    /\ round = 0 /\ exits = 0
CrRests == cr_pc = "linux" /\ r = {} /\ cr_own = {} /\ linux = {}
SegmentsRest ==
    /\ seg_pc = "saved" /\ linux_gdt = {} /\ hv_gdt = {} /\ ldt = FALSE /\ entries = 0 /\ seg = {} /\ seg_ctx = {}
    /\ before = {} /\ fault = "none" /\ rounds = 0

VcpuInit ==
    /\ vendor \in {"intel", "amd"}
    /\ \/ part = "context" /\ Init /\ ControlRests /\ CrRests /\ SegmentsRest
       \/ part = "control" /\ ControlInit /\ ContextRests /\ CrRests /\ SegmentsRest
       \/ part = "cr" /\ CrInit /\ ContextRests /\ ControlRests /\ SegmentsRest
       \/ part = "segments" /\ SegmentsInit /\ ContextRests /\ ControlRests /\ CrRests

VcpuNext ==
    /\ UNCHANGED part
    /\ \/ part = "context" /\ Next /\ UNCHANGED <<control_vars, cr_vars, segment_vars>>
       \/ part = "control" /\ ControlNext /\ UNCHANGED <<vars, cr_vars, segment_vars>>
       \/ part = "cr" /\ CrNext /\ UNCHANGED <<vars, control_vars, segment_vars>>
       \/ part = "segments" /\ SegmentsNext /\ UNCHANGED <<vars, control_vars, cr_vars>>

VcpuSpec == VcpuInit /\ [][VcpuNext]_vcpu_vars
=============================================================================
