# A TLA+ model of RVM 1.5

RVM 1.5 is a type-1.5 hypervisor. A Linux driver (Jailhouse) loads it into a
reserved piece of memory and calls `arch_entry` on every CPU. Linux then goes on
as the only guest, the *root cell*, until the driver asks for the hypervisor to be
disabled and Linux runs on the bare machine again. These modules model that
program for both vendors (Intel VMX, AMD SVM), check it with TLC and prove theorems
about it with TLAPS.

## The system and its modules

| Part | Source | Modules | What makes it hard |
|---|---|---|---|
| Lifecycle on all CPUs | `main.rs`, `percpu.rs`, `lang.rs`, `entry.rs`, `hypercall/mod.rs` | `HvLifecycle`, abstract: `HvSwitch` | busy-wait barriers; errors on one CPU while others wait; panics |
| Regions of memory | `memory/mm.rs`, `mapper.rs`, `addr.rs` | `MemoryRegion`, `MemorySet`, `MemorySets`, abstract: `AddressSpace` | overlap test by neighbours, alignment, failures half way |
| Page tables | `memory/paging.rs`, `page_table.rs`, `ept.rs`, `npt.rs` | `PageEntry`, `PageTable` | three page sizes, tables left behind, shared subtrees |
| Hypervisor memory, root cell | `memory/mod.rs`, `cell.rs`, `config.rs`, `consts.rs` | `HvLayout`, `HvMemory` | layout arithmetic, order of insertions, overlaps |
| Frame allocator | `memory/frame.rs` | `FrameAllocator` | ownership, exhaustion |
| Guest memory access | `memory/gaccess.rs` | `GuestPtr` | page crossing, page sizes, pages not present |
| VM exits | `vmm.rs`, `intel/vmexit.rs`, `amd/vmexit.rs`, `hypercall/mod.rs`, `cpuid.rs` | `VmExit` | RIP, RAX and faults on every path |
| Injected events | `libvmm` `vmx/vmcs.rs`, `vmx/flags.rs`, `svm/flags.rs` | `InterruptInfo`, `EventInjection` | fields that keep old values |
| Registers of a virtual CPU | `context.rs`, arch `percpu.rs`, `intel/vcpu.rs`, `amd/vcpu.rs` | `VcpuContext` | whose value is where, stale values |
| Controls and caches | `intel/vcpu.rs`, `amd/vcpu.rs`, `intel/structs.rs`, `libvmm` | `VcpuControl` | capability MSRs, TLB and VMCB cache across enablings |
| CR0 and CR4 | `intel/vcpu.rs`, `amd/vcpu.rs` | `GuestCr` | masks and shadows |
| Segments, GDT, TSS | `segmentation.rs`, `tables.rs`, `context.rs` | `Descriptors` | two-entry descriptors, busy TSS |
| MSR bitmap | `intel/structs.rs` | `MsrBitmap` | bit arithmetic |
| Console | `logging.rs`, `serial.rs`, `exception.rs`, `lang.rs`, `uart_16550` | `Console`, `Uart` | a lock taken by exception and panic handlers, ports with two meanings |
| Driver (external) | `scripts/guest/` | in `HvLifecycle` | |

`main.rs` calls all of the others once per CPU, in an order fixed by the barriers.
The primary CPU lays out the frames, builds the hypervisor's page table and the root
cell (`HvMemory`); the other CPUs use them afterwards. Each CPU then saves Linux's
state and sets up its virtual CPU (`VcpuContext`, `VcpuControl`, `GuestCr`,
`Descriptors`), runs Linux as a guest and handles VM exits (`VmExit`). A disable
hypercall or a panic leads back to the lifecycle.

The modules build on each other: `PageTable` uses `PageEntry` and `MemoryRegion`,
`MemorySet` uses `PageTable`; `MemorySets`, `HvMemory` and `GuestPtr` are three
different callers of the same `MemorySet`. `HvMemory` takes its pool from `HvLayout`.
`VmExit` and `EventInjection` share `InterruptInfo`. `AddressSpace` is both a module
with theorems and the specification `MemorySets` is shown to implement. `Vendor` holds the
one variable the modules of a virtual CPU share, Intel or AMD. An `MC` module extends every
module its run checks. The modules `*Proofs` hold the theorems; each extends the modules it
is about.

Definitions keep the names of the source; state and actions correspond as follows.

* **`HvLifecycle`.** The atomics keep their names. A step is one access to a shared
  atomic with the CPU-local work that follows, so TLC interleaves CPUs wherever the
  hardware can. `wait_for` is two steps, because it loads `ERROR_NUM` again after its
  loop; `PerCpu::new` is two, because its bound check and its `fetch_add` are separate;
  `entry` stores the error and then loads what is there. Each barrier is one counter,
  so sequentially consistent interleaving is what the orderings guarantee. Errors are
  choices (`EarlyErrors`, `VcpuErrors`, `EnterErrors`, `ExitErrors`); `Panic` runs the
  panic handler at the places in `PanicAt`. A failing VM entry is a return with an error:
  what `Vcpu::enter` has then already done to RSP and the general registers
  (`intel/vcpu.rs:125-138`) is below this module, which only follows the counters.
  The driver calls `arch_entry` on every CPU,
  sends the disable hypercall to every CPU once all calls returned 0, and loads a fresh
  image to enable again.
* **`PageTable`, `MemorySet`.** Memory is a function from frames to tables; an entry has
  an address, flags and a huge bit as the three kinds (`PT`, `EPT`, `NPT`) encode them.
  `map`, `unmap`, `query` and `clone` are functions from memory to memory, with the frames
  they take; `MemorySets` and `HvMemory` turn calls into steps. Sizes of pages and tables
  are constants.
* **`GuestPtr`.** Bytes are tracked one by one, as the position in the data written. What
  the guest itself sees is taken from the list of mappings it made, not from `query`, so
  that `GuestDataReached` compares the code with something else than itself. A mapping
  without flags is one whose entries hold an address but are not present.
* **`VmExit`.** A handler runs alone on its CPU, so it is a function from the state of the
  virtual CPU to its result. One step leaves the guest, one handles the exit. Registers
  have two halves, so that 32-bit truncation and sign extension are visible. An MSR exit of
  SVM is a read or a write; the arm for other values of `exit_info_1` (`amd/vmexit.rs:58`),
  which the processor never produces, is left out.
* **`VcpuContext`.** A register holds `linux`, `guest` or `hv`, by who wrote it last, or
  `reset`, a fixed value. CR3 is two registers, the address and the low bits with the PCID,
  because the code treats them differently.
* **`VcpuControl`.** Control fields are sets of flags. The processor's part (capability
  MSRs, VM-entry checks, TLB, VMCB cache) is external and nondeterministic: a cached
  area may or may not still be there.
* **`Descriptors`.** Access rights are sets of bit numbers, so that shifting them for the
  VMCB is real; a base has two halves. A selector has its index, table indicator and RPL;
  Linux may use segments of an LDT.
* **`Console`.** A text is a sequence of byte classes. A CPU has a stack of calls, to which
  an NMI, another exception or a panic adds its own, `deactivate_vmm` included; nothing is
  unwound. Exceptions come at any moment, panics of the code outside of a print or while
  one is formatted. The log level is fixed at the start; `println!` ignores it.

## The runs

| Run | Question | Properties |
|---|---|---|
| `lifecycle` | Nothing fails, repeated cycles, deadlock checked: does a disable request always finish with code 0? | `TypeOK`, `DisableTerminates` |
| `init_errors` | Initialisation may fail anywhere: do the barriers implement `HvSwitch`, and does an error reach all CPUs? | `ImplementsSwitch`, `ErrorReachesAll` |
| `panics` | Up to two CPUs panic while initialising or in the guest: who is activated, who is counted, who leaves, who gets back to Linux? | `AllOrNothing`, `ActivatedExact`, `DisableTogetherOrPanicked`, `PanicReturns` |
| `slots` | Three CPUs race for two slots, VM entry and exit may fail. | `SlotsAndRootCell`, `DisableTogether`, `EnableTerminates` |
| `error_context` | Is a CPU back in Linux's context after an error? Violated, see below. | `ReturnsInLinuxContext` |
| `memory` | Frames, abstract regions and guest pointers, each under all sequences of operations. | `OwnedOnce`, `RegionsDisjoint`, `TranslatedOnce`, `DeletedIsUnmapped`, `GuestDataReached` |
| `memory_sets` | Real tables with enough frames, with too few, and cloned. | `NoPanic`, `AskedIsMapped`, `FramesOwnedOnce`, `ImplementsAddressSpace` |
| `hv_memory` | Good and bad configurations, pools down to nothing. | `GuestIsolated`, `HvSeesMemory`, `FailsCleanly`, `TablesInPool` |
| `vmexit` | Sequences of exits of both vendors; all vectors injected. | `AdvancedOnce`, `HypercallsAsDefined`, `InstructionsAsEmulated`, `ExitMakesProgress`, `DeliveredAsAsked` |
| `vcpu` | One CPU of either vendor into the guest, through VM exits and back to Linux. | `RegistersSwitched`, `LinuxGoesOn`, `RefusedUntouched`, `ControlsAsAsked`, `NothingStale`, `CrAsGuestWrote`, `SegmentsKept` |
| `console` | Two CPUs at one port, with NMIs, exceptions, panics and returns to Linux; the port is programmed. | `TextsWhole`, `LockNotLeftBehind`, `ReadyAtSpeed`, `EveryTextComesOut` |
| `msr_bitmap` | Do masked MSRs exit? Violated, see below. | `MaskedMsrsExit` |

**Parts in one run.** `MCMemory`, `MCVmExit`, `MCVcpu` and `MCConsole` each hold modules
that share no state (but the vendor, which never changes). The variable `part` says which
of them moves; the others rest in one state. A step of one part changes nothing another
part's properties look at, so exploring each alone reaches all that exploring them
together would.

**Bounds.** *Lifecycle:* three CPUs, a primary and two secondaries, is the smallest number
at which two secondaries can see different things while a third one fails. Counters wrap at
`Word` = 5 instead of 2^32, which is more than they reach. One error code for each source is
enough, because the code only tells zero from nonzero. At most two panics, so that one CPU
is left to wait. Two CPUs suffice for the counterexample of `error_context`. *Memory:* pages
of two or four bytes and tables of two or four entries keep four levels and all three page
sizes, and make every offset and boundary occur. Requests include single, huge and gigantic
pages, unaligned starts, frames not aligned like the pages, and regions without access. A
pool of six frames runs out while regions are inserted. `HvMemory` tries all lists of up to
two regions out of nine, some of three, and pools from ample to empty; one region names
hypervisor memory under another address. *Exits:* two exits, so that what one leaves behind
meets the next; a half register has 16 values. *Virtual CPU:* two registers changed by the
guest, so that one can be restored over the other; for the controls three rounds of enabling
with two roots, so that a root is used again; for the segments two rounds. Registers and
CR0/CR4 are followed through one enabling and disabling, with any number of exits.
*Console:* two CPUs and three events in all, each a print, a return to Linux, an exception
or a panic, with logging off and at level 3: enough for a panic within a print of one CPU
while the other one waits.

**Fairness.** Weak fairness of each CPU's own steps. Hypervisor code runs with interrupts
off and nothing deschedules it, and the driver's call reaches every CPU. In `Console` also
weak fairness of the transmitter, which is hardware. Panics, NMIs, disabling and reloading
are never forced. `spin::Mutex` is not fair, and no fairness of the lock is assumed: a CPU
that waits gets it once the others, with finitely many texts, are done. Deadlock checking is
off where the system really may stop: after failures, a panic, the last operation of a
bounded run.

**Limits of the properties.** `ErrorReachesAll` and `EnableTerminates` hold for errors, not
for panics: a CPU that panics before it is enabled loops forever without setting
`ERROR_NUM`, so the others spin. A failing VM entry happens after the last barrier, when
other CPUs may already run as guests, so `ImplementsSwitch` is checked without it. A CPU
that panics after another one has read `cpus` can leave that one waiting, so
`DisableTerminates` is checked without panics, and without failing VM exits,
after which Linux stays a guest. A panic between `PerCpu::init` and
`activate_vmm` would take `ACTIVATED_CPUS` below zero; nothing there is expected to panic
and `PanicPlaces` leaves it out. `LinuxGoesOn` names the registers for which Linux does
not get the value it last wrote. It gets the one saved when the hypervisor was enabled in the
SYSCALL registers, KERNEL_GSBASE, PAT, and with VMX EFER. LDTR, DR7, RFLAGS and the PCID are
reset when Linux becomes a guest (`Reset`), and `RegistersSwitched` says so; on the way back
the PCID and DR7 are reset again, LDTR too with VMX, and RFLAGS are the hypervisor's.
`SegmentsKept` is exact for selectors of the GDT. A selector of the LDT is looked up in the
GDT by `from_selector`, and the LDT is gone once Linux is a guest: Linux has the same
segment or a null one afterwards, or the way back faults. `GuestIsolated` is exact at the
addresses of the hypervisor's memory; under other guest-physical addresses the guest reaches
that memory only where the configuration itself says so.
`AskedIsMapped` is about requests that start on a page: `MemoryRegion::new` aligns start and
size separately, which can lose the last page of others. `EveryTextComesOut`
ends where a CPU is hit by an NMI, an exception or a panic while it holds the console
lock (`Hung`): its handler prints and waits for itself, and the others wait for it. With
SVM the global interrupt flag is clear while a handler prints, so an NMI cannot do this.
`LockNotLeftBehind` is about the other way to lose the lock, a CPU that goes back to Linux
with it.

## What was found

`error_context`: `PerCpu::init` replaces the CPU's GDT, IDT, TSS and page table. The path
that leaves a running guest undoes that (`deactivate_vmm`). The error path of `entry` does
not: it goes back through `switch_stack` and `arch_entry`, which restore only the stack,
the saved registers and the GS base. After an error on one CPU, any CPU that was already
past `PerCpu::init` goes back to the driver's code on the hypervisor's page table, and
with VMX on if `Vcpu::new` got that far.

`msr_bitmap`: `mask()` combines the bit into a zeroed page with `&=`, which leaves it zero,
so no access to a masked MSR exits.

Seen while modelling, without effect in the present program or only on a comment:

* The comment at `paging.rs:355` says tables are destroyed with the original; dropping a
  clone of a `MemorySet` clears the shared tables first (`mm.rs:161`). Nothing clones one.
* The comment in `InterruptType::from_vector` (`vmx/flags.rs:325`) counts vector 21 among the
  exceptions; the code ends at `VIRTUALIZATION_VECTOR`, which is 20.
* `load_vmcb_guest` takes FS, GS and TR from the processor but the SYSCALL registers from
  the values saved at the start.
* `as_ref` compares the offset in a 4K page with the size of a huge page, so it accepts data
  that crosses the end of the huge page. `GuestDataReached` has this as an exception.
* `query` asks `is_unused()` and not `is_present()` at the last level (`paging.rs:235`), so
  `GuestPtr` uses the address in an entry that is not present.
* `Cell::new_root` refuses a region whose guest-physical addresses are the hypervisor's, but
  not one whose host-physical addresses are (`cell.rs:31`).
* `Segment::from_selector` ignores the table indicator.
* A panic inside a print does not get as far as its own message: the handler's `error!`
  waits for the lock of the print. With logging off it is the `println!` of
  `deactivate_vmm` that waits.
* The comment on the default rate in `uart_16550/src/lib.rs:204` names 38400 baud; the
  code sets the rate it is given.

## What is proved

Every theorem holds for all values of the constants that meet the assumptions named with
it; each has the name of the property with `Holds` behind it unless given here. The safety
properties of the runs that are not in this table stay with TLC, see below.

| Module | Theorems | For all | Inductive invariant |
|---|---|---|---|
| `HvLifecycleProofs` | `TypeCorrect`, `AllOrNothing`, `SlotsAndRootCell` | finite sets of CPUs, headers, errors, panics | `InitedInv`, `SlotInv` |
| `HvSwitchProofs` | `ActivatedExact`, `DisableTogetherOrPanicked`, `DisableTogether`, `ImplementsSwitch` | the same | `LeaveInv`, `ErrorInv` |
| `MemoryProofs` | `DisjointHolds`, `TranslationHolds`, `DeletedHolds`, `OwnershipHolds` | page sizes, inputs, pools, alignments | `Inv`, `FramesInv` |
| `VcpuContextProofs` | `RegistersSwitched`, `LinuxGoesOn`, `RefusedUntouched` | sequences of exits and guest writes, vendors | `ContextInv` |
| `VcpuControlProofs` | `ControlsAsAsked`, `NothingStale`, `CrAsGuestWrote` | processors, roots, rounds; flags of CR0 and CR4 | `Inv`, `CrInv` |
| `VmExitProofs` | `AdvancedOnce`, `HypercallsAsDefined`, `InstructionsAsEmulated`, `ExitMakesProgress`, `DeliveredAsAsked` | register contents and word sizes, sequences of exits | `ExitInv`, `InjectedInv` |
| `DescriptorsProofs` | `SegmentsKept` | GDTs, LDTs and selectors of Linux, rounds | `SegInv` |
| `ConsoleProofs` | `LockNotLeftBehind`, `ReadyAtSpeed` | CPUs, texts, levels, exceptions, panics; speeds | `LockInv`, `PortInv` |

**Enabling.** `AllOrNothing` needs `Cardinality(CPU) <= OnlineCpus`: the driver's header
counts every CPU it calls. It is not inductive. `InitedInv` adds what `state` says about a
CPU's place (`StateInv`), that `INITED_CPUS` is at most the number of CPUs past `InitedAdd`
(`CountInv`), and that a CPU past the barrier's loop has seen an error or a full count
(`BarrierInv`). A full count means all CPUs, and a CPU once counted stays counted.
`SlotsAndRootCell` has no assumption: more CPUs may come than there are slots.

**Disabling.** `LeaveInv` bounds `ACTIVATED_CPUS` from both sides and `TRY_DISABLE_CPUS`
from above by numbers of CPUs at sets of places; a lemma (`MoveCount`) says how one CPU's
step changes such a number. The point is that `cpus` is never too small: it is read only
while nobody has left, when all are counted. `DisableTogetherOrPanicked` allows all errors,
and panics before the virtual CPU is set up, while it is entered, in the guest and up to the
vote. A CPU that panics after its vote has been counted and leaves at once, which makes the
count say too much; a panic between `PerCpu::init` and `activate_vmm` takes `ACTIVATED_CPUS`
below zero. `ActivatedExact` is for panics before the virtual CPU is set up or while the CPU
is counted, and without failing entries, which leave the counter raised. `DisableTogether`
is the case without panics.

**Refinement.** `ImplementsSwitchHolds` proves `Spec => ImplementsSwitch`, step by step: every
step of a CPU is a step of `HvSwitch` or leaves the modes alone, and `Reload` is its restart.
`ErrorInv` says how errors spread: the CPU that stored one stays refused, and once a CPU is
past the `INITED_CPUS` barrier none fails any more. Assumed are the header that counts all CPUs, no
panics, and no errors but of initialisation, as in the run.

**Memory.** The lemma behind `DisjointHolds` is that in a set of disjoint regions only the
two neighbours of a new region can overlap it. `TranslationHolds` is `TranslatedOnce`,
`DeletedHolds` is `DeletedIsUnmapped`, `OwnershipHolds` is `OwnedOnce`. Deleting a region
spares the others because they are disjoint, so the invariants about regions and about
translations are proved together, with recorded regions being inputs of nonzero size.

**Virtual CPU.** `ContextInv` says for each place in the program where every register of
Linux and of the hypervisor is: in the processor, the VMCS or VMCB, the saved context or on
the stack. For `NothingStale` the invariant keeps apart what an INVEPT leaves until tables
change, what a flush leaves until the next VMRUN, and what VMRUN may take from its cache
because a clean bit says it is unchanged. `CrAsGuestWrote` assumes (`CrAssumption`) that
Linux runs with caches on and with the CR0 flags VMX demands, and that VMX demands no CR4
flag but VMXE. `SegmentsKept` assumes (`SegmentsAssumption`) of Linux what the processor
checked when a register was loaded: a selector of the GDT is null or denotes a present code or
data segment, one of the LDT denotes a segment there and is in a register for data, TR
denotes a busy TSS of the GDT. What the processor does not check is assumed of 64-bit Linux:
entry 0 of its GDT is zero, the GDT has 16 entries like the hypervisor's own, the TSS lies in
them behind the entry of the hypervisor's code segment, and CS and SS are not in an LDT, for
the driver is kernel code.

**Exits.** Handlers are functions, so `ExitInv` needs little besides the properties: while
an exit is open, what the virtual CPU holds is what the guest held. A lemma for each handler
says what it changes, `ChosenTable` puts them together, and for SVM RAX moves from the VMCB
and back. A register's half has any size of at least four (`U32Assumption`), and the four
CPUID leaves that the handler knows are different (`LeavesAssumption`).

**Console.** `LockInv`: at most one call of one CPU is past `lock()`, and that CPU is the
holder. A CPU leaves by dropping its whole stack, so the invariant must say that no writer is
below a return that can be taken (`Guarded`): above a writer the return still has the `println!`
of `deactivate_vmm` on top, which cannot take the lock. The invariant uses that a record of
level `Off` is never filtered (`LevelsAssumption`).
`ReadyAtSpeed` is for speeds from 2 to 115200 (`SpeedsAssumption`): the divisor has 16 bits,
too few for speed 1, and is zero for speeds above the clock.

Assumptions on constants are stated where the constants are declared, and TLC evaluates
them in the runs: a finite nonempty set of CPUs, natural header fields, a counter range
larger than the number of CPUs, nonzero error codes; inputs that are regions; natural pool
bounds and positive run lengths; a value for "no CPU" that is not a CPU; and those above.

Only model-checked:

* Liveness (`DisableTerminates`, `ErrorReachesAll`, `PanicReturns`, `EnableTerminates`,
  `EveryTextComesOut`): fairness is beyond the prover.
* What walks page tables or copies bytes, because the walks are recursive and need induction
  over the levels: `NoPanic`, `AskedIsMapped`, `FramesOwnedOnce`, `ImplementsAddressSpace`,
  `GuestIsolated`, `HvSeesMemory`, `FailsCleanly`, `TablesInPool`, `GuestDataReached`.
* `TextsWhole`, which takes apart the sequence of bytes sent: induction over a sequence.

## Not modelled

* Heap: a static block handed to an external allocator. Statistics: counters for reports
  behind a feature flag. Log text and debug output.
* `update()`, `walk()` and `dump()` of page tables, `receive()` of the port: no caller that
  changes state. The IDT: a table filled once with addresses.
* Numbers and layouts: VMCS field encodings, the byte layout of the VMCB, MSR numbers,
  wrappers of single instructions in `libvmm` and `cpu.rs`. What they hold or do is in the
  modules that use them.
* Fields of configuration and header that nobody reads.
* The hidden state of the processor beyond what the modules name: APIC, debug registers,
  floating point, machine checks.
* Caches of the guest's own translations; weak memory orderings other than of the barriers.
