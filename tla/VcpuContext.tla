---------------------------- MODULE VcpuContext -----------------------------
(***************************************************************************)
(* The registers of one CPU, from the call of arch_entry to the return to  *)
(* Linux: LinuxContext (src/src/arch/x86_64/context.rs), ArchPerCpu        *)
(* (percpu.rs) and the virtual CPUs of both vendors (intel/vcpu.rs,        *)
(* amd/vcpu.rs).                                                           *)
(*                                                                         *)
(* A register holds "linux", what Linux had put there before, "guest",     *)
(* what Linux wrote while it was a guest, "hv", a value of the hypervisor, *)
(* or "reset", a value that is the same whatever was there before: 0, 2 in *)
(* RFLAGS, 400H in DR7, a null LDTR.  The register virt stands for         *)
(* CR4.VMXE or EFER.SVME; cr3 is the address in CR3 and pcid its low bits. *)
(***************************************************************************)
EXTENDS Naturals, FiniteSets, Vendor

CONSTANT MaxWrites  \* registers the guest changes

\* LinuxContext, and what the VMCS and the VMCB have beside it.
Segments == {"es", "cs", "ss", "ds", "fs", "gs", "tr"}
Syscall == {"star", "lstar", "cstar", "fmask", "kernel_gsbase"}
Control == {"cr0", "cr3", "cr4"}
Regs == Segments \cup Syscall \cup Control \cup
        {"rip", "rsp", "gpr", "fs_base", "gs_base", "gdtr", "idtr", "efer", "pat",
         "sysenter", "ldtr", "dr7", "pcid", "rflags", "virt"}

VARIABLES
    pc,     \* "linux", "init", "ready", "guest", "handler", "left", "error"
    hw,     \* the registers of the CPU
    op,     \* VMXON has been executed, or VM_HSAVE_PA is set
    stack,  \* what arch_entry and switch_stack pushed
    ctx,    \* PerCpu::linux
    vm,     \* the guest-state area of the VMCS, or the VMCB
    host,   \* the host-state area, or the host save area
    regs,   \* Vcpu::guest_regs
    fc,     \* IA32_FEATURE_CONTROL
    own,    \* what Linux last put into its registers
    err     \* the error of PerCpu::init

vars == <<vendor, pc, hw, op, stack, ctx, vm, host, regs, fc, own, err>>

\* Registers the processor takes from and keeps in the guest-state area or
\* the VMCB whenever the guest is entered and left.
Switched ==
    IF vendor = "intel"
    THEN Regs \ (Syscall \cup {"gpr"})
    ELSE {"es", "cs", "ss", "ds"} \cup Control \cup
         {"rip", "rsp", "rflags", "pcid", "gdtr", "idtr", "efer", "pat", "dr7", "virt"}
\* Registers that VMLOAD takes from the VMCB.
Vmload == Syscall \cup {"fs", "gs", "tr", "ldtr", "fs_base", "gs_base", "sysenter"}

With(f, S, g) == [r \in DOMAIN f |-> IF r \in S THEN g[r] ELSE f[r]]
All(x) == [r \in Regs |-> x]
Set(f, S, x) == With(f, S, All(x))

-----------------------------------------------------------------------------
(* LinuxContext                                                            *)

\* RSP, RIP, GS_BASE and the callee-saved registers come from the stack; of
\* CR3 only the address is kept.
load_from(h, s) == Set(With(h, {"rsp", "rip", "gpr", "gs_base"}, s), {"pcid"}, "reset")

\* The registers that restore() writes first.  CR3 is written without flags.
Restored == Syscall \cup Control \cup {"efer", "pat", "virt", "gdtr", "idtr"}

\* Loading a selector into FS or GS overwrites the base.
load_segments(h, c) == With(Set(h, {"fs_base", "gs_base"}, "hv"), Segments, c)

\* Mutant: FS_BASE is written with the other MSRs.
RestoreBaseFirst(h, c) ==
    load_segments(Set(With(h, Restored \cup {"fs_base"}, c), {"pcid"}, "reset"), c)
restore(h, c) ==
    With(load_segments(Set(With(h, Restored, c), {"pcid"}, "reset"), c), {"fs_base"}, c)

return_to_linux(h, c, g) == [With(h, {"gs_base", "rsp", "rip"}, c) EXCEPT !["gpr"] = g]

-----------------------------------------------------------------------------
(* Setting up                                                              *)

\* ArchPerCpu::init
arch_init(h) == Set(h, {"gdtr", "idtr", "es", "cs", "ss", "ds", "tr", "pat"}, "hv")

\* The hypervisor's page table, in a CR3 without flags.
activate(h) == Set(Set(h, {"cr3"}, "hv"), {"pcid"}, "reset")

\* CR0 and CR4 get well-defined values, VMX or SVM is switched on.
SwitchOn(h) == [Set(h, {"cr0", "cr4"}, "hv") EXCEPT !["virt"] = "on"]

\* Everything else is 0 or a selector of the hypervisor.  LDTR and DR7 have no
\* field: the processor resets them at every VM exit.
setup_vmcs_host(h) ==
    Set(With(All("hv"), {"pat", "efer", "cr0", "cr3", "cr4", "gs_base", "gdtr", "virt"}, h),
        {"ldtr", "dr7", "pcid"}, "reset")

\* LDTR, DR7 and RFLAGS get fixed values, SYSENTER is copied from the processor.
setup_vmcs_guest(h, c) ==
    [With(Set(h, {"ldtr", "dr7", "rflags"}, "reset"), Regs \ {"ldtr", "dr7", "rflags", "sysenter"}, c)
        EXCEPT !["virt"] = "on"]

\* The same, but KERNEL_GSBASE is copied from the processor as well.
vmcb_setup(h, c) == With(setup_vmcs_guest(h, c), {"kernel_gsbase"}, h)

-----------------------------------------------------------------------------
(* Leaving                                                                 *)

\* Among them the whole of CR3.
Loaded == Segments \cup Control \cup {"pcid", "rip", "rsp", "gdtr", "idtr", "fs_base", "gs_base"}

load_vmcs_guest(c, g) == [With(c, Loaded, g) EXCEPT !["virt"] = "off"]

\* FS, GS and TR are in the processor.
load_vmcb_guest(h, c, g) ==
    [With(With(c, Loaded \cup {"efer"}, g), {"fs", "gs", "tr", "fs_base"}, h) EXCEPT !["virt"] = "off"]

-----------------------------------------------------------------------------
Init ==
    /\ vendor \in {"intel", "amd"}
    /\ pc = "linux"
    /\ \E on \in {"on", "off"} : hw = [All("linux") EXCEPT !["virt"] = on]
    /\ own = hw /\ stack = All("hv") /\ ctx = All("hv") /\ vm = All("hv") /\ host = All("hv")
    /\ op = FALSE /\ regs = "hv" /\ err = "none"
    /\ fc \in SUBSET {"LOCKED", "VMXON_ENABLED_OUTSIDE_SMX"}

\* arch_entry disables interrupts and pushes the registers, but not RFLAGS;
\* switch_stack saves GS_BASE and PerCpu::new overwrites it, then the
\* hypervisor's stack is used.
SwitchStack ==
    /\ pc = "linux" /\ pc' = "init"
    /\ stack' = hw
    /\ hw' = Set(hw, {"gs_base", "rsp", "rip", "gpr", "rflags"}, "hv")
    /\ UNCHANGED <<op, ctx, vm, host, regs, fc, own, err>>

\* PerCpu::init gives up: entry returns to switch_stack and to Linux.
Fail(e, h) ==
    /\ pc' = "error" /\ err' = e
    /\ hw' = With(h, {"gs_base", "rsp", "rip", "gpr"}, stack)
    /\ UNCHANGED <<vm, host, regs, own>>

\* Mutant: nobody looks whether VMX is in use.
BusyNever(c) == FALSE
\* VMX or SVM is already on: in the saved CR4, or in EFER.
AlreadyOn(c) == c["virt"] = "on"

\* Vcpu::new of VMX, after the check of the processor's features.
new_intel(h, c) ==
    \/ AlreadyOn(c) /\ Fail("EBUSY", h) /\ UNCHANGED <<op, fc>>
    \/ /\ ~ AlreadyOn(c) /\ "LOCKED" \in fc /\ "VMXON_ENABLED_OUTSIDE_SMX" \notin fc
       /\ Fail("ENODEV", h) /\ UNCHANGED <<op, fc>>
    \/ /\ ~ AlreadyOn(c) /\ ("LOCKED" \in fc => "VMXON_ENABLED_OUTSIDE_SMX" \in fc)
       /\ fc' = fc \cup {"LOCKED", "VMXON_ENABLED_OUTSIDE_SMX"}
       /\ \/ Fail("ENOMEM", h) /\ UNCHANGED op               \* VmxRegion::new
          \/ Fail("EIO", SwitchOn(h)) /\ op' \in BOOLEAN     \* VMXON or vmcs_setup
          \/ /\ pc' = "ready" /\ op' = TRUE
             /\ hw' = SwitchOn(h)
             /\ host' = setup_vmcs_host(hw')
             /\ vm' = setup_vmcs_guest(hw', c)
             /\ UNCHANGED <<regs, own, err>>

\* Vcpu::new of SVM
new_amd(h, c) ==
    /\ UNCHANGED fc
    /\ \/ AlreadyOn(c) /\ Fail("EBUSY", h) /\ UNCHANGED op
       \/ ~ AlreadyOn(c) /\ Fail("ENOMEM", h) /\ UNCHANGED op
       \/ /\ ~ AlreadyOn(c) /\ pc' = "ready" /\ op' = TRUE
          /\ hw' = SwitchOn(h)
          /\ vm' = vmcb_setup(hw', c)
          /\ UNCHANGED <<host, regs, own, err>>

\* PerCpu::init
PerCpuInit ==
    /\ pc = "init"
    /\ ctx' = load_from(hw, stack)
    /\ LET h == activate(arch_init(hw)) IN
         \/ Fail("ENODEV", h) /\ UNCHANGED <<op, fc>>   \* check_hypervisor_feature
         \/ vendor = "intel" /\ new_intel(h, ctx')
         \/ vendor = "amd" /\ new_amd(h, ctx')
    /\ UNCHANGED stack

\* The processor enters the guest; VMRUN saves the host's registers.
EnterGuest(h, g) ==
    /\ pc' = "guest"
    /\ hw' = [With(h, Switched, vm) EXCEPT !["gpr"] = g]
    /\ host' = IF vendor = "amd" THEN h ELSE host

\* Vcpu::enter.  With SVM VMLOAD is executed this once.
enter_intel == vendor = "intel" /\ EnterGuest(hw, ctx["gpr"])
enter_amd == vendor = "amd" /\ EnterGuest(With(hw, Vmload, vm), ctx["gpr"])

Enter ==
    /\ pc = "ready"
    /\ enter_intel \/ enter_amd
    /\ regs' = ctx["gpr"]
    /\ UNCHANGED <<op, stack, ctx, vm, fc, own, err>>

\* Linux changes a register while it is a guest.
GuestWrite(r) ==
    /\ pc = "guest" /\ r # "virt"
    /\ Cardinality({q \in Regs : own[q] = "guest"}) < MaxWrites
    /\ own' = [own EXCEPT ![r] = "guest"]
    /\ hw' = [hw EXCEPT ![r] = "guest"]
    /\ UNCHANGED <<pc, op, stack, ctx, vm, host, regs, fc, err>>

\* Mutant: GS_BASE is left as the guest had it.
WrapperNoSwap(h) == h
\* vmexit_handler_wrapper: VMRUN does not switch GS_BASE.
vmexit_handler_wrapper(h) == Set(h, {"gs_base"}, "hv")

\* VM exits: the processor stores the guest's registers and loads the host's,
\* the first lines of vmx_exit and svm_run save the general registers.
vmx_exit ==
    /\ vendor = "intel"
    /\ vm' = With(vm, Switched, hw)
    /\ hw' = Set(With(hw, Switched, host), {"gpr"}, "hv")
svm_run ==
    /\ vendor = "amd"
    /\ vm' = With(vm, Switched \cup {"gs_base"}, hw)
    /\ hw' = vmexit_handler_wrapper(Set(Set(With(hw, Switched, host), {"gpr"}, "hv"), {"dr7"}, "reset"))

GuestExits ==
    /\ pc = "guest" /\ pc' = "handler"
    /\ regs' = hw["gpr"]
    /\ vmx_exit \/ svm_run
    /\ UNCHANGED <<op, stack, ctx, host, fc, own, err>>

\* The handler returns: with SVM the wrapper puts the guest's GS_BASE back.
Resume ==
    /\ pc = "handler"
    /\ EnterGuest(IF vendor = "amd" THEN With(hw, {"gs_base"}, vm) ELSE hw, regs)
    /\ UNCHANGED <<op, stack, ctx, vm, regs, fc, own, err>>

\* Vcpu::exit: the registers of the CPU and LinuxContext after it.  VMX keeps
\* SYSENTER in the VMCS, so that the MSRs are written.
exit_intel == [h |-> With(hw, {"sysenter"}, vm), c |-> load_vmcs_guest(ctx, vm)]
exit_amd == [h |-> [hw EXCEPT !["virt"] = "off"], c |-> load_vmcb_guest(hw, ctx, vm)]

\* PerCpu::deactivate_vmm
Deactivate ==
    /\ pc = "handler" /\ pc' = "left"
    /\ op' = FALSE
    /\ LET x == IF vendor = "amd" THEN exit_amd ELSE exit_intel IN
         /\ ctx' = x.c
         /\ hw' = return_to_linux(restore(x.h, x.c), x.c, regs)
    /\ UNCHANGED <<stack, vm, host, regs, fc, own, err>>

Next ==
    /\ UNCHANGED vendor
    /\ \/ SwitchStack \/ PerCpuInit \/ Enter \/ GuestExits \/ Resume \/ Deactivate
       \/ \E r \in Regs : GuestWrite(r)

Spec == Init /\ [][Next]_vars

-----------------------------------------------------------------------------
\* What Linux has in register r as a guest.  LDTR, DR7, RFLAGS and the low bits
\* of CR3 do not survive the first entry: they are reset, until Linux writes
\* them again.
Reset == {"ldtr", "dr7", "pcid", "rflags"}
AsGuest(r) ==
    CASE r = "virt" -> "on"
      [] r \in Reset /\ own[r] # "guest" -> "reset"
      [] OTHER -> own[r]

\* As a guest, Linux has its registers as it left them: at the first entry,
\* and after any number of exits, in which the hypervisor used its own.
GuestHasItsRegisters ==
    pc = "guest" => \A r \in Regs : hw[r] = AsGuest(r)

\* A handler of VM exits runs on the hypervisor's page table, segments and
\* descriptor tables, and GS_BASE leads it to its PerCpu, no matter what the
\* guest keeps there.
HandlerHasPerCpu ==
    pc = "handler" =>
        /\ \A r \in Control \cup {"gs_base", "gdtr", "idtr", "es", "cs", "ss", "ds", "pat"} : hw[r] = "hv"
        /\ hw["virt"] = "on"

\* What Linux has in register r after it has left the hypervisor: of Stale, what
\* it had before it was a guest; no PCID, no breakpoints, and the flags of the
\* hypervisor, since restore() clears the low bits of CR3 and nobody restores
\* DR7 and RFLAGS; an LDTR that VM exits of VMX have reset.
Stale == Syscall \cup {"pat"} \cup (IF vendor = "intel" THEN {"efer"} ELSE {})
AfterLeaving(r) ==
    CASE r = "virt" -> "off"
      [] r \in Stale -> "linux"
      [] r \in {"pcid", "dr7"} -> "reset"
      [] r = "rflags" -> "hv"
      [] r = "ldtr" /\ vendor = "intel" -> "reset"
      [] OTHER -> AsGuest(r)

\* A CPU on which the driver of another hypervisor is active never becomes a
\* guest, and a CPU that is refused keeps CR0, CR4 and VMX or SVM as they
\* were; only when the processor itself fails may they be left changed.
RefusedUntouched ==
    /\ own["virt"] = "on" => pc \in {"linux", "init", "error"}
    /\ pc = "error" /\ err # "EIO" =>
         ~ op /\ \A r \in {"cr0", "cr4", "virt", "gs_base", "rip", "rsp"} : hw[r] = own[r]

\* As a guest Linux has its registers as it left them, but for the four of
\* Reset, which start anew, and the handler of a VM exit those of the
\* hypervisor, with GS_BASE at its PerCpu, over any number of exits (Vcpu::new,
\* enter, vmx_exit, svm_run, vmexit_handler_wrapper).
RegistersSwitched == GuestHasItsRegisters /\ HandlerHasPerCpu

\* When the hypervisor is disabled VMX or SVM is off and Linux goes on with the
\* registers it had as a guest, except for the ones that AfterLeaving lists,
\* each with the value it then has (Vcpu::exit, LinuxContext::restore,
\* return_to_linux).
LinuxGoesOn == pc = "left" => ~ op /\ \A r \in Regs : hw[r] = AfterLeaving(r)
=============================================================================
