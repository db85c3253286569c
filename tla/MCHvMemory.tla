----------------------------- MODULE MCHvMemory -----------------------------
(***************************************************************************)
(* HvMemory for TLC: pages of two bytes and tables of four entries, so 256 *)
(* pages of address space.  The hypervisor has 48 pages at 128, mapped at  *)
(* 384.                                                                    *)
(***************************************************************************)
EXTENDS HvMemory

Ram == {"READ", "WRITE", "EXECUTE", "DMA"}
Reg(v, p, s, f) == [virt_start |-> v, phys_start |-> p, size |-> s, flags |-> f]

\* RAM below and above the hypervisor; a device; RAM and a device that overlap
\* the hypervisor; RAM at another address than in the machine; RAM that overlaps
\* the first; RAM too high for the offset; the hypervisor's own memory at another
\* address.
Candidates == {Reg(0, 0, 128, Ram), Reg(224, 224, 16, Ram), Reg(240, 240, 6, {"READ", "WRITE", "IO"}),
               Reg(120, 120, 12, Ram), Reg(136, 136, 4, {"READ", "WRITE"}),
               Reg(248, 260, 8, Ram), Reg(64, 64, 6, {"READ"}),
               Reg(256, 256, 4, Ram), Reg(80, 140, 4, Ram)}

Lists(n) == UNION {{s \in [1..k -> Candidates] : \A a, b \in 1..k : a # b => s[a] # s[b]} : k \in 0..n}

\* Two CPUs leave 35 frames or so for tables, enough for every list; 13 to 19
\* leave fewer and fewer, and with 20 nothing is left, or less than nothing.
Config(cpus, regs, ok, f) ==
    [max_cpus |-> cpus, core_size |-> 10, hv_phys |-> 128, hv_size |-> 96, empty_page |-> 128,
     cpu_set_size |-> 2, num_memory_regions |-> Len(regs), rest |-> 1, regions |-> regs,
     valid |-> ok, feature |-> f]

AllConfigs == {Config(2, s, TRUE, TRUE) : s \in Lists(2)}
              \cup {Config(2, <<a, b, d>>, TRUE, TRUE) : a, b, d \in
                      {x \in Candidates : x.virt_start \in {0, 224, 240, 248}}}
              \cup {Config(n, s, TRUE, TRUE) : n \in 13..20, s \in Lists(1)}
              \cup {Config(2, <<>>, FALSE, TRUE), Config(2, <<>>, TRUE, FALSE)}
=============================================================================
