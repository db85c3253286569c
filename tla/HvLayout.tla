------------------------------ MODULE HvLayout ------------------------------
(***************************************************************************)
(* Where things lie in the hypervisor's memory: the picture at the top of  *)
(* src/src/memory/mod.rs as the code computes it (consts.rs, config.rs,    *)
(* percpu.rs, frame.rs).  A configuration c is what the driver wrote into  *)
(* the header and the system configuration.                                *)
(***************************************************************************)
EXTENDS MemoryRegion

CONSTANTS
    Word,           \* addresses are computed modulo Word (2^64)
    HV_BASE,
    PER_CPU_SIZE,
    SIZE_CONFIG,    \* size_of::<HvSystemConfig>()
    SIZE_REGION,    \* size_of::<HvMemoryRegion>()
    SIZE_U64,
    CAP             \* frames the bitmap can hold (2^20)

core_end(c) == HV_BASE + c.core_size
PerCpuAt(c, id) == core_end(c) + id * PER_CPU_SIZE
stack_top(c, id) == PerCpuAt(c, id) + PER_CPU_SIZE - SIZE_U64
hv_config_ptr(c) == PerCpuAt(c, c.max_cpus)

\* The sizes of cache regions, irqchips, PIO bitmap, PCI devices and
\* capabilities come after the memory regions and are summed up in c.rest.
config_size(c) == c.cpu_set_size + c.num_memory_regions * SIZE_REGION + c.rest
size(c) == SIZE_CONFIG + config_size(c)

\* Mutant: the configuration is left out.
FreeMemoryAtConfig(c) == align_up(hv_config_ptr(c))
free_memory_start(c) == align_up(hv_config_ptr(c) + size(c))
hv_end(c) == HV_BASE + c.hv_size

\* cpu_set() has cpu_set_size / 8 words; the regions start where it ends.
mem_regions_start(c) == hv_config_ptr(c) + SIZE_CONFIG + (c.cpu_set_size \div SIZE_U64) * SIZE_U64
mem_regions_end(c) == mem_regions_start(c) + c.num_memory_regions * SIZE_REGION

\* PHYS_VIRT_OFFSET of init_heap, and the two conversions.
PHYS_VIRT_OFFSET(c) == (HV_BASE - c.hv_phys) % Word
virt_to_phys(c, v) == (v - PHYS_VIRT_OFFSET(c)) % Word
phys_to_virt(c, p) == (p + PHYS_VIRT_OFFSET(c)) % Word

\* frame::init: the size of the pool wraps when the memory is too small, and
\* the bitmap refuses more frames than it can hold.
mem_pool_size(c) == (align_down(hv_end(c)) - free_memory_start(c)) % Word
PoolFits(c) == align_up(mem_pool_size(c)) \div PAGE_SIZE <= CAP
PoolFrames(c) ==
    {align_up(virt_to_phys(c, free_memory_start(c))) + i * PAGE_SIZE :
        i \in 0 .. (align_up(mem_pool_size(c)) \div PAGE_SIZE - 1)}
=============================================================================
