---------------------------- MODULE HvLifecycle ----------------------------
(***************************************************************************)
(* Enabling and disabling the hypervisor on all CPUs.                      *)
(*                                                                         *)
(* The Linux driver calls arch_entry on every online CPU.  The CPUs meet   *)
(* at busy-wait barriers on atomic counters (src/src/main.rs), initialise  *)
(* their per-CPU data and vCPU (src/src/percpu.rs) and enter guest mode.   *)
(* Later the driver issues the HypervisorDisable hypercall on every CPU,   *)
(* which meet at one more counter (src/src/hypercall/mod.rs) and leave.    *)
(*                                                                         *)
(* One step is one access to shared memory: a load, a store or a           *)
(* fetch_add of an atomic, with the CPU-local work up to the next one.     *)
(***************************************************************************)
EXTENDS Integers, FiniteSets

CONSTANTS
    CPU,          \* the CPUs on which the driver calls arch_entry
    OnlineCpus,   \* HvHeader.online_cpus, written by the driver
    MaxCpus,      \* HvHeader.max_cpus, written by the driver
    Word,         \* counters are integers modulo Word (2^32 in the code)
    EarlyErrors,  \* error codes primary_init_early may return
    VcpuErrors,   \* error codes Vcpu::new may return
    EnterErrors,  \* error codes Vcpu::enter may return (EIO, Intel only)
    ExitErrors,   \* error codes Vcpu::exit may return (EIO, Intel only)
    PanicAt,      \* the locations at which a CPU may panic
    MaxPanics     \* how many CPUs may panic

\* HvError::code() of the errors the lifecycle itself creates.
EIO    == -5
EBUSY  == -16
EINVAL == -22

\* Where a CPU can be: in the hypervisor, waiting in Linux for the driver to
\* call arch_entry, back in Linux, or in the endless loop of panic().
HvLocation == {"new", "wait_entered", "chk_entered", "early", "wait_early",
               "chk_early", "init", "vcpu", "inited", "wait_inited",
               "chk_inited", "late", "wait_late", "chk_late", "activate",
               "enter", "guest", "try_disable", "wait_disable", "deactivate",
               "exit", "guest_kept", "store_err", "load_err"}
Location == HvLocation \cup {"linux", "returned", "off", "hung"}

ASSUME CpuAssumption == IsFiniteSet(CPU) /\ CPU # {}

ASSUME HeaderAssumption ==
    /\ OnlineCpus \in Nat \ {0}
    /\ MaxCpus \in Nat

ASSUME WordAssumption == Word \in Nat /\ Word > Cardinality(CPU) + 1

\* HvError::code() is the negated error number, so never zero.
ASSUME ErrorAssumption ==
    EarlyErrors \cup VcpuErrors \cup EnterErrors \cup ExitErrors \subseteq Int \ {0}

ASSUME PanicAssumption == MaxPanics \in Nat /\ PanicAt \subseteq HvLocation

VARIABLES
    ENTERED_CPUS, INIT_EARLY_OK, INITED_CPUS, INIT_LATE_OK,
    ERROR_NUM, ACTIVATED_CPUS, TRY_DISABLE_CPUS,
    pc,         \* where each CPU is; see Location
    id,         \* PerCpu.id, NoId until PerCpu::new assigned it
    state,      \* PerCpu.state
    ctx,        \* whose CR3, GDT, IDT and TSS the CPU has loaded
    vmx,        \* is VMX (SVM) turned on
    cpus,       \* the local variable of hypervisor_disable
    code,       \* the error or return code a CPU carries back to Linux
    panicked,   \* the CPUs that have run the panic handler
    call_done,  \* driver: the CPUs whose call of arch_entry returned 0
    disabling   \* driver: the disable hypercall has been sent to all CPUs

sync  == <<ENTERED_CPUS, INIT_EARLY_OK, INITED_CPUS, INIT_LATE_OK>>
leave == <<ACTIVATED_CPUS, TRY_DISABLE_CPUS, cpus>>
host  == <<id, state, ctx, vmx>>
drv   == <<call_done, disabling>>
vars  == <<sync, ERROR_NUM, leave, pc, host, code, panicked, drv>>

NoId == -1

TypeOK ==
    /\ {ENTERED_CPUS, INITED_CPUS, ACTIVATED_CPUS, TRY_DISABLE_CPUS} \subseteq 0..(Word - 1)
    /\ {INIT_EARLY_OK, INIT_LATE_OK} \subseteq {0, 1}
    /\ ERROR_NUM \in Int
    /\ pc \in [CPU -> Location]
    /\ id \in [CPU -> Int]
    /\ state \in [CPU -> {"HvDisabled", "HvEnabled"}]
    /\ ctx \in [CPU -> {"linux", "hv"}]
    /\ vmx \in [CPU -> BOOLEAN]
    /\ cpus \in [CPU -> 0..(Word - 1)]
    /\ code \in [CPU -> Int]
    /\ panicked \subseteq CPU
    /\ call_done \subseteq CPU
    /\ disabling \in BOOLEAN

\* The image as the driver loads it: statics at their initial values, the
\* per-CPU area zeroed (HvDisabled is 0), every CPU in Linux.
Init ==
    /\ ENTERED_CPUS = 0 /\ INIT_EARLY_OK = 0 /\ INITED_CPUS = 0 /\ INIT_LATE_OK = 0
    /\ ERROR_NUM = 0 /\ ACTIVATED_CPUS = 0 /\ TRY_DISABLE_CPUS = 0
    /\ pc = [c \in CPU |-> "linux"]
    /\ id = [c \in CPU |-> NoId]
    /\ state = [c \in CPU |-> "HvDisabled"]
    /\ ctx = [c \in CPU |-> "linux"]
    /\ vmx = [c \in CPU |-> FALSE]
    /\ cpus = [c \in CPU |-> 0]
    /\ code = [c \in CPU |-> 0]
    /\ panicked = {} /\ call_done = {} /\ disabling = FALSE

-----------------------------------------------------------------------------
\* Helpers.

Goto(c, l) == pc' = [pc EXCEPT ![c] = l]

\* Mutants: CPUs are counted twice; only the first CPU is counted; the
\* decrement is lost.
IncTwice(n) == n + 2
IncOnce(n) == IF n = 0 THEN 1 ELSE n
DecLost(n) == n

\* fetch_add(1) and fetch_sub(1) wrap around.
Inc(n) == IF n = Word - 1 THEN 0 ELSE n + 1
Dec(n) == IF n = 0 THEN Word - 1 ELSE n - 1

IsPrimary(c) == id[c] = 0

has_err == ERROR_NUM # 0

\* An Err(e) on its way from main() back to entry().
Fail(c, e) ==
    /\ Goto(c, "store_err")
    /\ code' = [code EXCEPT ![c] = e]

\* The loop of wait_for ends when a load sees an error or the condition.
WaitFor(c, at, done, chk) ==
    /\ pc[c] = at
    /\ has_err \/ done
    /\ Goto(c, chk)
    /\ UNCHANGED <<sync, ERROR_NUM, leave, host, code, panicked, drv>>

\* Mutant: wait_for returns Ok whenever its loop has ended.
RecheckSkipped(c, chk, next) ==
    /\ pc[c] = chk
    /\ Goto(c, next)
    /\ UNCHANGED <<sync, ERROR_NUM, leave, host, code, panicked, drv>>

\* wait_for loads ERROR_NUM once more after its loop.
Recheck(c, chk, next) ==
    /\ pc[c] = chk
    /\ IF has_err THEN Fail(c, EBUSY) ELSE Goto(c, next) /\ UNCHANGED code
    /\ UNCHANGED <<sync, ERROR_NUM, leave, host, panicked, drv>>

-----------------------------------------------------------------------------
\* Entering the hypervisor: switch_stack and PerCpu::new.

\* The bound check of PerCpu::new; its error is returned to Linux as it is
\* and not stored in ERROR_NUM.
NewCheck(c) ==
    /\ pc[c] = "linux"
    /\ IF ENTERED_CPUS >= MaxCpus
       THEN Goto(c, "returned") /\ code' = [code EXCEPT ![c] = EINVAL]
       ELSE Goto(c, "new") /\ UNCHANGED code
    /\ UNCHANGED <<sync, ERROR_NUM, leave, host, panicked, drv>>

New(c) ==
    /\ pc[c] = "new"
    /\ id' = [id EXCEPT ![c] = ENTERED_CPUS]
    /\ ENTERED_CPUS' = Inc(ENTERED_CPUS)
    /\ Goto(c, "wait_entered")
    /\ UNCHANGED <<INIT_EARLY_OK, INITED_CPUS, INIT_LATE_OK, ERROR_NUM, leave,
                   state, ctx, vmx, code, panicked, drv>>

-----------------------------------------------------------------------------
\* main().

\* Mutant: waits for one CPU more than are online.
WaitEnteredOneMore(c) == WaitFor(c, "wait_entered", ENTERED_CPUS > OnlineCpus, "chk_entered")

WaitEntered(c) == WaitFor(c, "wait_entered", ENTERED_CPUS >= OnlineCpus, "chk_entered")

CheckEntered(c) ==
    Recheck(c, "chk_entered", IF IsPrimary(c) THEN "early" ELSE "wait_early")

PrimaryInitEarly(c) ==
    /\ pc[c] = "early"
    /\ \/ INIT_EARLY_OK' = 1 /\ Goto(c, "init") /\ UNCHANGED code
       \/ \E e \in EarlyErrors : Fail(c, e) /\ UNCHANGED INIT_EARLY_OK
    /\ UNCHANGED <<ENTERED_CPUS, INITED_CPUS, INIT_LATE_OK, ERROR_NUM, leave,
                   host, panicked, drv>>

WaitEarly(c)  == WaitFor(c, "wait_early", INIT_EARLY_OK >= 1, "chk_early")
CheckEarly(c) == Recheck(c, "chk_early", "init")

\* PerCpu::init up to Vcpu::new: the Linux context is saved and the
\* hypervisor's GDT, IDT, TSS and page table are loaded.
InitContext(c) ==
    /\ pc[c] = "init"
    /\ state' = [state EXCEPT ![c] = "HvDisabled"]
    /\ ctx' = [ctx EXCEPT ![c] = "hv"]
    /\ Goto(c, "vcpu")
    /\ UNCHANGED <<sync, ERROR_NUM, leave, id, vmx, code, panicked, drv>>

\* Vcpu::new and the end of PerCpu::init.  It can fail before VMX is on (no
\* VMX, VMX in use, no frame) and, on Intel, after (a VMCS access fails).
VcpuNew(c) ==
    /\ pc[c] = "vcpu"
    /\ \/ /\ vmx' = [vmx EXCEPT ![c] = TRUE]
          /\ state' = [state EXCEPT ![c] = "HvEnabled"]
          /\ Goto(c, "inited")
          /\ UNCHANGED code
       \/ \E e \in VcpuErrors, on \in BOOLEAN :
            /\ vmx' = [vmx EXCEPT ![c] = on]
            /\ Fail(c, e)
            /\ UNCHANGED state
    /\ UNCHANGED <<sync, ERROR_NUM, leave, id, ctx, panicked, drv>>

InitedAdd(c) ==
    /\ pc[c] = "inited"
    /\ INITED_CPUS' = Inc(INITED_CPUS)
    /\ Goto(c, "wait_inited")
    /\ UNCHANGED <<ENTERED_CPUS, INIT_EARLY_OK, INIT_LATE_OK, ERROR_NUM, leave,
                   host, code, panicked, drv>>

\* Mutant: the barrier opens one CPU too early.
WaitInitedOneLess(c) == WaitFor(c, "wait_inited", INITED_CPUS + 1 >= OnlineCpus, "chk_inited")

WaitInited(c)  == WaitFor(c, "wait_inited", INITED_CPUS >= OnlineCpus, "chk_inited")
CheckInited(c) == Recheck(c, "chk_inited", IF IsPrimary(c) THEN "late" ELSE "wait_late")

PrimaryInitLate(c) ==
    /\ pc[c] = "late"
    /\ INIT_LATE_OK' = 1
    /\ Goto(c, "activate")
    /\ UNCHANGED <<ENTERED_CPUS, INIT_EARLY_OK, INITED_CPUS, ERROR_NUM, leave,
                   host, code, panicked, drv>>

WaitLate(c)  == WaitFor(c, "wait_late", INIT_LATE_OK >= 1, "chk_late")
CheckLate(c) == Recheck(c, "chk_late", "activate")

-----------------------------------------------------------------------------
\* PerCpu::activate_vmm and the way back to the driver.

ActivateVmm(c) ==
    /\ pc[c] = "activate"
    /\ ACTIVATED_CPUS' = Inc(ACTIVATED_CPUS)
    /\ Goto(c, "enter")
    /\ UNCHANGED <<sync, ERROR_NUM, TRY_DISABLE_CPUS, cpus, host, code, panicked, drv>>

\* A successful VM entry resumes Linux, now the guest, at the return address
\* of arch_entry with rax = 0.
VcpuEnter(c) ==
    /\ pc[c] = "enter"
    /\ \/ Goto(c, "guest") /\ call_done' = call_done \cup {c} /\ UNCHANGED code
       \/ \E e \in EnterErrors : Fail(c, e) /\ UNCHANGED call_done
    /\ UNCHANGED <<sync, ERROR_NUM, leave, host, panicked, disabling>>

StoreErr(c) ==
    /\ pc[c] = "store_err"
    /\ ERROR_NUM' = code[c]
    /\ Goto(c, "load_err")
    /\ UNCHANGED <<sync, leave, host, code, panicked, drv>>

\* entry() returns what ERROR_NUM holds by then; switch_stack and arch_entry
\* pop the Linux stack and GS base and restore nothing else.
LoadErr(c) ==
    /\ pc[c] = "load_err"
    /\ code' = [code EXCEPT ![c] = ERROR_NUM]
    /\ Goto(c, "returned")
    /\ UNCHANGED <<sync, ERROR_NUM, leave, host, panicked, drv>>

-----------------------------------------------------------------------------
\* Leaving: the HypervisorDisable hypercall and PerCpu::deactivate_vmm.

\* VMCALL in the guest; the first thing hypervisor_disable does is to read
\* the number of activated CPUs.
HypervisorDisable(c) ==
    /\ pc[c] = "guest" /\ disabling
    /\ cpus' = [cpus EXCEPT ![c] = ACTIVATED_CPUS]
    /\ Goto(c, "try_disable")
    /\ UNCHANGED <<sync, ERROR_NUM, ACTIVATED_CPUS, TRY_DISABLE_CPUS, host, code, panicked, drv>>

TryDisable(c) ==
    /\ pc[c] = "try_disable"
    /\ TRY_DISABLE_CPUS' = Inc(TRY_DISABLE_CPUS)
    /\ Goto(c, "wait_disable")
    /\ UNCHANGED <<sync, ERROR_NUM, ACTIVATED_CPUS, cpus, host, code, panicked, drv>>

\* The loop of hypervisor_disable, and deactivate_vmm(0).
PassDisable(c, done) ==
    /\ pc[c] = "wait_disable"
    /\ done
    /\ Goto(c, "deactivate")
    /\ code' = [code EXCEPT ![c] = 0]
    /\ UNCHANGED <<sync, ERROR_NUM, leave, host, panicked, drv>>

\* Mutants: the barrier opens one CPU too early, or waits for one too many.
WaitDisableOneLess(c) == PassDisable(c, TRY_DISABLE_CPUS + 1 >= cpus[c])
WaitDisableOneMore(c) == PassDisable(c, TRY_DISABLE_CPUS > cpus[c])

WaitDisable(c) == PassDisable(c, TRY_DISABLE_CPUS >= cpus[c])

DeactivateVmm(c) ==
    /\ pc[c] = "deactivate"
    /\ ACTIVATED_CPUS' = Dec(ACTIVATED_CPUS)
    /\ Goto(c, "exit")
    /\ UNCHANGED <<sync, ERROR_NUM, TRY_DISABLE_CPUS, cpus, host, code, panicked, drv>>

\* Vcpu::exit, LinuxContext::restore and return_to_linux.  When exit fails
\* the hypercall returns the error to the driver, which reports it and does
\* not call again: Linux goes on as a guest.  The panic handler loops.
VcpuExit(c) ==
    /\ pc[c] = "exit"
    /\ \/ /\ vmx' = [vmx EXCEPT ![c] = FALSE]
          /\ ctx' = [ctx EXCEPT ![c] = "linux"]
          /\ state' = [state EXCEPT ![c] = "HvDisabled"]
          /\ Goto(c, "off")
          /\ call_done' = call_done \cup {c}
          /\ UNCHANGED code
       \/ \E e \in ExitErrors :
            /\ Goto(c, IF c \in panicked THEN "hung" ELSE "guest_kept")
            /\ code' = [code EXCEPT ![c] = e]
            /\ UNCHANGED <<vmx, ctx, state, call_done>>
    /\ UNCHANGED <<sync, ERROR_NUM, leave, id, panicked, disabling>>

-----------------------------------------------------------------------------
\* The panic handler.

\* Mutant: the handler only loops.
PanicLoops(c) ==
    /\ pc[c] \in PanicAt
    /\ c \notin panicked /\ Cardinality(panicked) < MaxPanics
    /\ panicked' = panicked \cup {c}
    /\ Goto(c, "hung")
    /\ UNCHANGED <<sync, ERROR_NUM, leave, host, code, drv>>

\* An enabled CPU deactivates itself, any other CPU loops forever.  The code
\* given to Linux is EIO inside a hypercall, else 0.
Panic(c) ==
    /\ pc[c] \in PanicAt
    /\ c \notin panicked /\ Cardinality(panicked) < MaxPanics
    /\ panicked' = panicked \cup {c}
    /\ IF state[c] = "HvEnabled"
       THEN /\ Goto(c, "deactivate")
            /\ \E in_hypercall \in BOOLEAN :
                 /\ pc[c] \in {"try_disable", "wait_disable"} => in_hypercall
                 /\ in_hypercall => pc[c] \in {"guest", "try_disable", "wait_disable"}
                 /\ code' = [code EXCEPT ![c] = IF in_hypercall THEN EIO ELSE 0]
       ELSE Goto(c, "hung") /\ UNCHANGED code
    /\ UNCHANGED <<sync, ERROR_NUM, leave, host, drv>>

-----------------------------------------------------------------------------
\* The driver.  It waits until arch_entry has returned on every CPU and
\* counts the hypervisor as enabled when every call returned 0; only then
\* does it send the disable hypercall, again to every CPU.

DriverDisable ==
    /\ call_done = CPU /\ ~disabling
    /\ disabling' = TRUE
    /\ UNCHANGED <<sync, ERROR_NUM, leave, pc, host, code, panicked, call_done>>

\* Enabling again loads a fresh image (statics and per-CPU area reset).
Reload ==
    /\ \A c \in CPU : pc[c] \in {"returned", "off"} /\ ctx[c] = "linux"
    /\ ENTERED_CPUS' = 0 /\ INIT_EARLY_OK' = 0 /\ INITED_CPUS' = 0 /\ INIT_LATE_OK' = 0
    /\ ERROR_NUM' = 0 /\ ACTIVATED_CPUS' = 0 /\ TRY_DISABLE_CPUS' = 0
    /\ pc' = [c \in CPU |-> "linux"]
    /\ id' = [c \in CPU |-> NoId]
    /\ state' = [c \in CPU |-> "HvDisabled"]
    /\ ctx' = [c \in CPU |-> "linux"]
    /\ vmx' = [c \in CPU |-> FALSE]
    /\ cpus' = [c \in CPU |-> 0]
    /\ code' = [c \in CPU |-> 0]
    /\ panicked' = {} /\ call_done' = {} /\ disabling' = FALSE

-----------------------------------------------------------------------------
Enable(c) ==
    \/ NewCheck(c) \/ New(c)
    \/ WaitEntered(c) \/ CheckEntered(c)
    \/ PrimaryInitEarly(c) \/ WaitEarly(c) \/ CheckEarly(c)
    \/ InitContext(c) \/ VcpuNew(c)
    \/ InitedAdd(c) \/ WaitInited(c) \/ CheckInited(c)
    \/ PrimaryInitLate(c) \/ WaitLate(c) \/ CheckLate(c)
    \/ ActivateVmm(c) \/ VcpuEnter(c)
    \/ StoreErr(c) \/ LoadErr(c)

Disable(c) ==
    \/ HypervisorDisable(c) \/ TryDisable(c) \/ WaitDisable(c)
    \/ DeactivateVmm(c) \/ VcpuExit(c)

Run(c) == Enable(c) \/ Disable(c)

Next ==
    \/ \E c \in CPU : Run(c) \/ Panic(c)
    \/ DriverDisable
    \/ Reload

Spec == Init /\ [][Next]_vars

\* Hypervisor code runs with interrupts off and is never descheduled; the
\* driver's on_each_cpu reaches every CPU.  Nothing forces a disable, a
\* reload or a panic.
FairSpec == Spec /\ \A c \in CPU : WF_vars(Run(c))

-----------------------------------------------------------------------------
\* How the counters and locations implement HvSwitch: a CPU is ready once it
\* is counted in INITED_CPUS, asks to leave once it is counted in
\* TRY_DISABLE_CPUS and has left once it is through that barrier.
ModeOf(l) ==
    CASE l \in {"wait_inited", "chk_inited", "late", "wait_late", "chk_late",
                "activate", "enter"}                -> "ready"
      [] l \in {"guest", "try_disable"}             -> "guest"
      [] l = "wait_disable"                         -> "leaving"
      [] l \in {"deactivate", "exit", "off"}        -> "left"
      [] l \in {"store_err", "load_err", "returned"} -> "refused"
      [] OTHER                                      -> "linux"

Switch == INSTANCE HvSwitch WITH mode <- [c \in CPU |-> ModeOf(pc[c])]

\* When only initialisation can fail, main(), activate_vmm() and
\* hypervisor_disable() implement the all-or-nothing switch.
ImplementsSwitch == Switch!Spec

-----------------------------------------------------------------------------
\* Properties.

\* Locations of a CPU that has passed the last barrier of main().
Activated == {"activate", "enter", "guest", "try_disable", "wait_disable",
              "deactivate", "exit", "off", "guest_kept"}

\* The CPUs that are counted in INITED_CPUS.
Inited(c) == \/ state[c] = "HvEnabled" /\ pc[c] # "inited"
             \/ pc[c] = "off"

\* The barrier on INITED_CPUS in main(): no CPU starts to activate before the
\* vCPU of every CPU has been set up; a CPU whose init failed or panicked
\* keeps all others from running the guest.
AllOrNothing ==
    (\E c \in CPU \ panicked : pc[c] \in Activated) => \A d \in CPU : Inited(d)

\* PerCpu::init uses root_cell() and hv_page_table(), which panic unless the
\* primary CPU has completed primary_init_early; and no two CPUs are primary,
\* because no two share a per-CPU slot.
SlotsAndRootCell ==
    /\ \A c \in CPU : pc[c] \in {"init", "vcpu", "inited"} => INIT_EARLY_OK = 1
    /\ \A c, d \in CPU : id[c] = id[d] /\ id[c] # NoId => c = d

\* ACTIVATED_CPUS counts the CPUs between activate_vmm and deactivate_vmm and
\* never wraps below zero.
ActivatedExact ==
    ACTIVATED_CPUS = Cardinality({c \in CPU :
        pc[c] \in {"enter", "guest", "try_disable", "wait_disable", "deactivate"}})

\* The barrier in hypervisor_disable: once a CPU starts to deactivate, every
\* CPU has asked to be disabled, so no CPU runs as a guest while another one
\* has given up virtualisation.
DisableTogether ==
    (\E c \in CPU : pc[c] \in {"deactivate", "exit", "off", "guest_kept"})
        => \A d \in CPU : pc[d] \in {"wait_disable", "deactivate", "exit", "off", "guest_kept"}

\* The same barrier when CPUs may have panicked out of the guest: a CPU passes
\* it only after every CPU that has not panicked has reached it.
DisableTogetherOrPanicked ==
    (\E c \in CPU \ panicked : pc[c] \in {"deactivate", "exit", "off", "guest_kept"})
        => \A d \in CPU \ panicked :
              pc[d] \in {"wait_disable", "deactivate", "exit", "off", "guest_kept"}

\* A CPU that returns to the driver, with an error code or after disabling,
\* is back in the Linux context it came from and has VMX turned off.
ReturnsInLinuxContext ==
    \A c \in CPU : pc[c] \in {"returned", "off"} => ctx[c] = "linux" /\ ~vmx[c]

\* No CPU spins forever in a wait_for of main(): each CPU that entered gets
\* into the guest or back to Linux.
EnableTerminates ==
    \A c \in CPU : pc[c] = "new" ~> pc[c] \in {"guest", "returned"}

\* An error on one CPU makes entry() return a nonzero code on all CPUs.
ErrorReachesAll ==
    has_err ~> \A c \in CPU : pc[c] = "returned" /\ code[c] # 0

\* Once the driver has sent the disable hypercall every CPU gets through the
\* barrier of hypervisor_disable and back to Linux with code 0.
DisableTerminates ==
    disabling ~> \A c \in CPU : pc[c] = "off" /\ code[c] = 0

\* A CPU on which the hypervisor was enabled and that panics gets back to
\* Linux; the panic handler needs no other CPU for it.
PanicReturns ==
    \A c \in CPU : (c \in panicked /\ state[c] = "HvEnabled") ~> pc[c] = "off"
=============================================================================
