------------------------------- MODULE VmExit -------------------------------
(***************************************************************************)
(* VM exits of one virtual CPU, from the instruction that leaves the guest *)
(* to its resumption: the assembly stubs vmx_exit and svm_run              *)
(* (src/src/arch/x86_64/intel/vcpu.rs, amd/vcpu.rs), vmexit_handler and    *)
(* the emulation (vmm.rs), the two dispatchers (intel/vmexit.rs,           *)
(* amd/vmexit.rs) and hypercalls (src/src/hypercall/mod.rs).               *)
(*                                                                         *)
(* A handler runs alone on its CPU, so it is a function from the state of  *)
(* the virtual CPU to its result and the new state.                        *)
(***************************************************************************)
EXTENDS Integers, InterruptInfo

CONSTANTS
    U32,       \* registers have two halves of U32 values each
    FeatureInfo, HypervisorInfo, HypervisorFeatures, AmdFeatureInfo, \* CpuIdEax
    HwFeature, \* the feature flags the processors report, by vendor
    Inputs,    \* values the guest puts into its registers
    MaxExits,  \* exits in a behaviour
    ExitFails  \* the vendors for which Vcpu::exit can fail in a disable hypercall

ASSUME U32Assumption == U32 \in Nat /\ U32 >= 4
ASSUME InputsAssumption == Inputs \subseteq Nat
ASSUME LeavesAssumption ==
    /\ {FeatureInfo, HypervisorInfo, HypervisorFeatures, AmdFeatureInfo} \subseteq 0..(U32 - 1)
    /\ FeatureInfo \notin {HypervisorInfo, HypervisorFeatures, AmdFeatureInfo}
    /\ AmdFeatureInfo \notin {HypervisorInfo, HypervisorFeatures}
    /\ HypervisorInfo # HypervisorFeatures

\* HvErrorNum::EIO.code() as usize: -5, sign extended.
EIO == U32 * U32 - 5
HypervisorDisable == 0

\* A register holds a number, or the feature flags that CPUID reports.
Num(n) == [n |-> n, f |-> {}]
Flags(f) == [n |-> 0, f |-> f]
low(r) == [r EXCEPT !.n = @ % U32]

\* FeatureInfoFlags: those that handle_cpuid names, and AVX for all the others
\* it lists.
Listed == {"VMX", "SVM", "OSXSAVE", "HYPERVISOR", "AVX"}

GPR == {"rax", "rbx", "rcx", "rdx", "rdi"}

VARIABLES
    vendor, \* "intel" or "amd", a feature of the build
    mode,   \* "guest", "exited" (in the hypervisor) or "linux" (hypervisor off)
    guest,  \* the registers as the guest, later Linux, sees them
    v,      \* Vcpu: regs (guest_regs) and the VMCS or VMCB
    last,   \* the last exit: its reason and the guest's registers then
    exits

vars == <<vendor, mode, guest, v, last, exits>>

-----------------------------------------------------------------------------
(* What leaves the guest.                                                  *)

\* VmxExitReason, as far as the controls of setup_vmcs_control allow: no
\* exception but the NMI is intercepted.  XSETBV stands for the instructions
\* that always leave the guest and have no handler, unknown for a reason
\* that the enumeration lacks, entry_failure for bit 31.
IntelReasons ==
    {"EXCEPTION_NMI", "TRIPLE_FAULT", "CPUID", "VMCALL", "MSR_READ", "MSR_WRITE",
     "EPT_VIOLATION", "XSETBV", "entry_failure", "unknown"}

\* SvmExitCode, for the intercepts of vmcb_setup.
AmdReasons ==
    {"NMI", "CPUID", "SHUTDOWN", "VMRUN", "VMMCALL", "VMLOAD", "VMSAVE", "STGI", "CLGI",
     "SKINIT", "NPF", "INVALID", "unknown"}

Reasons == IF vendor = "amd" THEN AmdReasons ELSE IntelReasons

-----------------------------------------------------------------------------
(* Vcpu                                                                    *)

Ok(w) == [res |-> "Ok", v |-> w]
Err(e, w) == [res |-> e, v |-> w]

advance_rip(w, len) == [w EXCEPT !.rip = @ + len]
inject_fault(w) ==
    [w EXCEPT !.event = IF vendor = "amd"
                        THEN inject_event(@, VmcbIntInfo(HardException, GeneralProtectionFault), 0)
                        ELSE inject_interrupt(@, GeneralProtectionFault, 0, [error |-> 0, length |-> 0])]
set_return_val(w, x) == [w EXCEPT !.regs["rax"] = Num(x)]
guest_is_privileged(w) == w.cpl = 0
in_hypercall(w) == w.reason \in {"VMCALL", "VMMCALL"}

\* PerCpu::deactivate_vmm, up to Vcpu::exit.
deactivate_vmm(w, ret, fails) ==
    IF fails THEN Err("EIO", set_return_val(w, ret))
    ELSE [res |-> "linux", v |-> set_return_val(w, ret)]

\* lang.rs: a panic of an enabled CPU switches the hypervisor off.  When that
\* fails the CPU stops.  With VMX in_hypercall panics again on an unknown
\* exit reason, without end.
panic(w, fails) ==
    LET d == deactivate_vmm(w, IF in_hypercall(w) THEN EIO ELSE 0, fails)
    IN  IF d.res = "EIO" \/ w.reason = "unknown" THEN [res |-> "halted", v |-> w] ELSE d

-----------------------------------------------------------------------------
(* Hypercalls                                                              *)

\* try_from accepts the one code there is; code is a u32.
TryFrom(code) == code = HypervisorDisable
is_privileged(code) == code < U32 \div 4

\* Mutant: everybody may call.
HypercallOpen(w, code, fails) ==
    LET d == deactivate_vmm(w, 0, fails)
    IN  IF ~ TryFrom(code) THEN Ok(w)
        ELSE IF d.res = "EIO" THEN Ok(set_return_val(d.v, EIO)) ELSE d

\* All CPUs meet before deactivate_vmm; that is in HvLifecycle.
hypercall(w, code, fails) ==
    LET d == deactivate_vmm(w, 0, fails)
    IN  IF ~ TryFrom(code) THEN Ok(w)
        ELSE IF guest_is_privileged(w) # is_privileged(code) THEN Ok(inject_fault(w))
        ELSE IF d.res = "EIO" THEN Ok(set_return_val(d.v, EIO)) ELSE d

-----------------------------------------------------------------------------
(* Emulation                                                               *)

handle_msr_read(w) ==
    Ok(advance_rip([w EXCEPT !.regs["rax"] = Num(0), !.regs["rdx"] = Num(0)], 2))

handle_msr_write(w) == Ok(advance_rip(w, 2))

\* The instruction CPUID in the hypervisor: four results of 32 bits.
cpuid(function, sub) ==
    [rax |-> Num(function.n), rbx |-> Num(sub.n), rdx |-> Num(U32 - 1),
     rcx |-> IF function.n \in {FeatureInfo, AmdFeatureInfo} THEN Flags(HwFeature[vendor]) ELSE Num(1)]

\* from_bits_truncate and what is added to and removed from the flags.
Features(function, osxsave) ==
    LET hw == HwFeature[vendor] \cap Listed
    IN  IF function = AmdFeatureInfo THEN hw \ {"SVM"}
        ELSE ((hw \cup (IF osxsave THEN {"OSXSAVE"} ELSE {})) \ {"VMX"}) \cup {"HYPERVISOR"}

CpuidOf(w, function) ==
    LET res == cpuid(function, low(w.regs["rcx"]))
        Set(a, b, c, d) == [w EXCEPT !.regs = [@ EXCEPT !["rax"] = a, !["rbx"] = b,
                                                        !["rcx"] = c, !["rdx"] = d]]
        new == CASE function = Num(HypervisorInfo) ->
                      Set(Num(HypervisorFeatures), Num(3), Num(3), Num(3))
                 [] function = Num(HypervisorFeatures) -> Set(Num(0), Num(0), Num(0), Num(0))
                 [] function \in {Num(FeatureInfo), Num(AmdFeatureInfo)} ->
                      Set(res.rax, res.rbx, Flags(Features(function.n, w.osxsave)), res.rdx)
                 [] OTHER -> Set(res.rax, res.rbx, res.rcx, res.rdx)
    IN  Ok(advance_rip(new, 2))

\* Mutant: all 64 bits of RAX are used.
CpuidWide(w) == CpuidOf(w, w.regs["rax"])
handle_cpuid(w) == CpuidOf(w, low(w.regs["rax"]))

\* Mutant: RIP is advanced when the call comes back.
HandleHypercallLate(w, fails) ==
    LET o == hypercall(w, low(w.regs["rax"]).n, fails)
    IN  IF o.res = "linux" THEN o ELSE [o EXCEPT !.v = advance_rip(@, 3)]

\* RIP is advanced first.
handle_hypercall(w, fails) ==
    hypercall(advance_rip(w, 3), low(w.regs["rax"]).n, fails)

-----------------------------------------------------------------------------
(* Dispatch                                                                *)

\* intel/vmexit.rs.  The NMI is handed to the hypervisor's own handler.
handle_exit_intel(w, fails) ==
    CASE w.reason \in {"unknown", "entry_failure"} -> panic(w, fails)
      [] w.reason = "EXCEPTION_NMI" -> Ok(w)
      [] w.reason = "CPUID"         -> handle_cpuid(w)
      [] w.reason = "VMCALL"        -> handle_hypercall(w, fails)
      [] w.reason = "MSR_READ"      -> handle_msr_read(w)
      [] w.reason = "MSR_WRITE"     -> handle_msr_write(w)
      [] w.reason = "TRIPLE_FAULT"  -> Ok(inject_fault(w))
      [] OTHER                      -> Err("ENOSYS", w)

\* amd/vmexit.rs.  RAX travels through the VMCB: it is fetched first and
\* written back last, but not on the way out with an unknown exit code.
handle_exit_amd(u, fails) ==
    LET w == [u EXCEPT !.regs["rax"] = u.save_rax]
        o == CASE w.reason = "INVALID"   -> panic(w, fails)
               [] w.reason \in {"NMI", "EXCP"} -> Ok(w)
               [] w.reason = "CPUID"     -> handle_cpuid(w)
               [] w.reason = "VMMCALL"   -> handle_hypercall(w, fails)
               [] w.reason = "MSR_READ"  -> handle_msr_read(w)
               [] w.reason = "MSR_WRITE" -> handle_msr_write(w)
               [] w.reason = "SHUTDOWN"  -> Ok(inject_fault(w))
               [] OTHER                  -> Err("ENOSYS", w)
    IN  IF w.reason = "unknown" THEN Err("EIO", w)
        ELSE [o EXCEPT !.v.save_rax = o.v.regs["rax"]]

handle_exit(w, fails) ==
    IF vendor = "amd" THEN handle_exit_amd(w, fails) ELSE handle_exit_intel(w, fails)

\* Mutant: an error goes unnoticed.
VmexitHandlerQuiet(w, fails) ==
    LET o == handle_exit(w, fails)
    IN  IF o.res \in {"Ok", "linux", "halted"} THEN o ELSE Ok(o.v)

\* An error becomes a fault of the guest.
vmexit_handler(w, fails) ==
    LET o == handle_exit(w, fails)
    IN  IF o.res \in {"Ok", "linux", "halted"} THEN o ELSE Ok(inject_fault(o.v))

-----------------------------------------------------------------------------
(* The life of the virtual CPU                                             *)

Start == [regs |-> [r \in GPR |-> Num(0)], rip |-> 0, cpl |-> 0, osxsave |-> TRUE,
          event |-> NoEvent]
VmcbPaddr == Num(U32)

Init ==
    /\ vendor \in {"intel", "amd"}
    /\ mode = "guest" /\ guest = Start
    /\ v = [regs |-> Start.regs, save_rax |-> Num(0), rip |-> 0, cpl |-> 0, osxsave |-> TRUE,
            event |-> NoEvent, reason |-> "none"]
    /\ last = [reason |-> "none", before |-> Start]
    /\ exits = 0

\* The guest runs on to an instruction or event that makes it leave.  The
\* processor stores part of its state into the VMCS or VMCB, vmx_exit and
\* svm_run the rest.  With SVM rax then holds what VMRUN was called with.
Exit(reason, rax, rcx, cpl, osxsave) ==
    /\ mode = "guest" /\ exits < MaxExits
    /\ LET g == [guest EXCEPT !.regs["rax"] = Num(rax), !.regs["rcx"] = Num(rcx),
                              !.cpl = cpl, !.osxsave = osxsave, !.event.info.valid = FALSE]
       IN  /\ last' = [reason |-> reason, before |-> g]
           /\ v' = [regs |-> IF vendor = "amd" THEN [g.regs EXCEPT !["rax"] = VmcbPaddr] ELSE g.regs,
                    save_rax |-> g.regs["rax"], rip |-> g.rip, cpl |-> cpl, osxsave |-> osxsave,
                    event |-> g.event, reason |-> reason]
           /\ guest' = g
    /\ mode' = "exited" /\ exits' = exits + 1

\* The registers the guest has after vmresume, or vmrun with the saved
\* host RAX.
Resumed(w) ==
    [regs |-> IF vendor = "amd" THEN [w.regs EXCEPT !["rax"] = w.save_rax] ELSE w.regs,
     rip |-> w.rip, cpl |-> w.cpl, osxsave |-> w.osxsave, event |-> w.event]

Handle(fails) ==
    /\ mode = "exited"
    /\ LET o == vmexit_handler(v, fails) IN
         /\ v' = o.v
         /\ mode' = IF o.res \in {"linux", "halted"} THEN o.res ELSE "guest"
         /\ guest' = IF o.res = "linux" THEN [Resumed(o.v) EXCEPT !.regs = o.v.regs] ELSE Resumed(o.v)
    /\ UNCHANGED <<last, exits>>

Next ==
    /\ UNCHANGED vendor
    /\ \/ \E reason \in Reasons, rax \in Inputs, rcx \in {0, U32 + 1}, cpl \in {0, 3}, x \in BOOLEAN :
            Exit(reason, rax, rcx, cpl, x)
       \/ \E fails \in BOOLEAN : (fails => vendor \in ExitFails) /\ Handle(fails)

Spec == Init /\ [][Next]_vars

-----------------------------------------------------------------------------
Handled == mode \in {"guest", "linux"} /\ last.reason # "none"
Call == last.reason \in {"VMCALL", "VMMCALL"}
GP == guest.event.info = [bits |-> 13 + 256 * HardException + 2048, valid |-> TRUE] /\ guest.event.error = 0
Code == last.before.regs["rax"].n % U32
Length == [CPUID |-> 2, MSR_READ |-> 2, MSR_WRITE |-> 2, VMCALL |-> 3, VMMCALL |-> 3]

\* An emulated instruction is completed once: on every path, a disable
\* hypercall that goes back to Linux included, execution goes on right behind
\* it.  Everything else goes on where it was.
AdvancedOnce ==
    Handled => guest.rip = last.before.rip
                 + (IF last.reason \in DOMAIN Length THEN Length[last.reason] ELSE 0)

\* A hypercall with an unsupported number has no effect: no register changes
\* and no fault is injected, whatever the privilege.  A test program relies
\* on it to find out whether it runs as a guest (test_hypercall.c).
UnknownCallHasNoEffect ==
    Handled /\ Call /\ Code # HypervisorDisable =>
        mode = "guest" /\ ~ guest.event.info.valid /\ guest.regs = last.before.regs

\* The hypervisor is left by a disable call of the guest kernel with 0 in
\* rax, or by a panic; a call that fails returns the error, and a call of a
\* user program is a fault that changes no register.
DisableIsPrivileged ==
    /\ mode = "linux" /\ last.reason \notin {"entry_failure", "INVALID"} =>
           Call /\ Code = HypervisorDisable /\ last.before.cpl = 0 /\ guest.regs["rax"] = Num(0)
    /\ Handled /\ Call /\ Code = HypervisorDisable /\ mode = "guest" =>
           IF last.before.cpl = 0 THEN guest.regs["rax"] = Num(EIO)
           ELSE GP /\ guest.regs = last.before.regs

\* The guest sees the registers an emulated instruction defines, of 32 bits
\* each, and no other register changes; with SVM this includes RAX, which is
\* kept in the VMCB and not with the other registers.
RegistersAsEmulated ==
    Handled /\ ~ Call /\ mode = "guest" =>
        LET written == CASE last.reason = "CPUID" -> {"rax", "rbx", "rcx", "rdx"}
                         [] last.reason = "MSR_READ" -> {"rax", "rdx"}
                         [] OTHER -> {}
        IN  /\ \A r \in GPR \ written : guest.regs[r] = last.before.regs[r]
            /\ \A r \in written : guest.regs[r].n < U32
            /\ last.reason = "CPUID" /\ Code = HypervisorInfo => guest.regs["rax"] = Num(HypervisorFeatures)
            /\ last.reason = "CPUID" /\ Code = HypervisorFeatures => guest.regs["rax"] = Num(0)

\* The guest is told that a hypervisor is there, that it cannot use VMX or
\* SVM itself, and of OSXSAVE when it has switched it on.
CpuidHidesVirtualization ==
    Handled /\ last.reason = "CPUID" =>
        /\ Code = FeatureInfo =>
             /\ "VMX" \notin guest.regs["rcx"].f /\ "HYPERVISOR" \in guest.regs["rcx"].f
             /\ last.before.osxsave => "OSXSAVE" \in guest.regs["rcx"].f
        /\ Code = AmdFeatureInfo => "SVM" \notin guest.regs["rcx"].f

\* No exit repeats for ever: after every exit but an NMI the guest goes on
\* behind the instruction or receives a fault.
ExitMakesProgress ==
    Handled /\ mode = "guest" /\ last.reason \notin {"NMI", "EXCEPTION_NMI"} =>
        guest.rip > last.before.rip \/ GP

\* A hypercall does what the guest was told it does: what is unsupported has
\* no effect, and the hypervisor is disabled by the guest kernel only
\* (hypercall, hypervisor_disable).
HypercallsAsDefined == UnknownCallHasNoEffect /\ DisableIsPrivileged

\* The guest finds in its registers what an emulated instruction defines, and
\* CPUID tells of the hypervisor and not of VMX or SVM (handle_cpuid,
\* handle_msr_read, handle_msr_write).
InstructionsAsEmulated == RegistersAsEmulated /\ CpuidHidesVirtualization
=============================================================================
