-------------------------- MODULE VcpuContextProofs --------------------------
(***************************************************************************)
(* Proofs about the registers of a CPU on its way into a guest, through    *)
(* any number of VM exits, and back to Linux.                              *)
(***************************************************************************)
EXTENDS VcpuContext, TLAPS

Val == {"linux", "guest", "hv", "reset", "on", "off"}

\* The types of the variables.
TypeOK ==
    /\ vendor \in {"intel", "amd"}
    /\ pc \in {"linux", "init", "ready", "guest", "handler", "left", "error"}
    /\ hw \in [Regs -> Val] /\ stack \in [Regs -> Val] /\ ctx \in [Regs -> Val]
    /\ vm \in [Regs -> Val] /\ host \in [Regs -> Val] /\ own \in [Regs -> Val]
    /\ regs \in Val /\ op \in BOOLEAN

\* Registers that lead a handler to the hypervisor's tables, and its flags.
HostRegs == Control \cup {"gdtr", "idtr", "es", "cs", "ss", "ds", "pat", "rflags"}
OfHost(h) == /\ \A r \in HostRegs : h[r] = "hv"
             /\ h["virt"] = "on"

\* Linux has not been a guest yet.
Fresh == own["virt"] \in {"on", "off"} /\ \A r \in Regs \ {"virt"} : own[r] = "linux"

Same(S, f, g) == \A r \in S : f[r] = g[r]

\* The registers Linux has as a guest.
GuestView == [r \in Regs |-> AsGuest(r)]

\* Registers that do not simply pass from Linux to the guest and back.
Fixed == Reset \cup {"virt"}

Pushed == {"gs_base", "rsp", "rip", "gpr"}
Used == Pushed \cup {"rflags"}

\* Where the registers of Linux and those of the hypervisor are, at each
\* point: in the processor, in the VMCS or VMCB, in guest_regs, on the stack.
LinuxInv == pc = "linux" => Fresh /\ ~ op /\ hw = own
InitInv ==
    pc = "init" =>
        /\ Fresh /\ ~ op /\ stack = own
        /\ Same(Regs \ Used, hw, own) /\ \A r \in Used : hw[r] = "hv"
ReadyInv ==
    pc = "ready" =>
        /\ Fresh
        /\ OfHost(hw) /\ hw["gs_base"] = "hv"
        /\ Same(Regs, vm, GuestView)
        /\ Same(Syscall \cup {"fs", "gs", "fs_base", "sysenter"}, hw, own)
ActiveInv ==
    pc \in {"ready", "guest", "handler"} =>
        /\ own["virt"] = "off"
        /\ \A r \in Regs \ {"virt", "pcid", "rflags"} : ctx[r] = "linux"
        /\ vendor = "intel" => /\ OfHost(host) /\ host["gs_base"] = "hv"
                               /\ host["ldtr"] = "reset" /\ host["dr7"] = "reset"
GuestInv == pc = "guest" => OfHost(host) /\ Same(Regs, hw, GuestView)
HandlerInv ==
    pc = "handler" =>
        /\ OfHost(hw) /\ hw["gs_base"] = "hv"
        /\ hw["dr7"] = "reset" /\ (vendor = "intel" => hw["ldtr"] = "reset")
        /\ regs = own["gpr"]
        /\ vm["gs_base"] = own["gs_base"]
        /\ Same(Switched, vm, GuestView)
        /\ Same(Regs \ (Switched \cup {"gpr", "gs_base"}), hw, GuestView)
ContextInv ==
    /\ TypeOK
    /\ LinuxInv /\ InitInv /\ ReadyInv /\ ActiveInv /\ GuestInv /\ HandlerInv
    /\ LinuxGoesOn /\ RefusedUntouched

-----------------------------------------------------------------------------
\* What With, Set and All give for a register (functions of the module).
LEMMA WithAt ==
    ASSUME NEW f \in [Regs -> Val], NEW g \in [Regs -> Val], NEW S
    PROVE  /\ With(f, S, g) \in [Regs -> Val]
           /\ \A r \in Regs : With(f, S, g)[r] = IF r \in S THEN g[r] ELSE f[r]
BY DEF With

\* Set gives the registers of S the value x.
LEMMA SetAt ==
    ASSUME NEW f \in [Regs -> Val], NEW x \in Val, NEW S
    PROVE  /\ Set(f, S, x) \in [Regs -> Val]
           /\ \A r \in Regs : Set(f, S, x)[r] = IF r \in S THEN x ELSE f[r]
BY DEF Set, With, All

\* The registers of a CPU that Linux calls for the first time (Init).
LEMMA ContextInit == Init => ContextInv
<1> SUFFICES ASSUME Init PROVE ContextInv
    OBVIOUS
<1>1. PICK on \in {"on", "off"} : hw = [All("linux") EXCEPT !["virt"] = on]
    BY DEF Init
<1>2. All("linux") \in [Regs -> Val] /\ All("hv") \in [Regs -> Val]
    BY DEF All, Val
<1>3. hw \in [Regs -> Val] /\ hw["virt"] = on /\ \A r \in Regs \ {"virt"} : hw[r] = "linux"
    BY <1>1, <1>2 DEF All, Regs, Val
<1>4. TypeOK
    BY <1>2, <1>3 DEF Init, TypeOK, Val
<1> QED
    BY <1>3, <1>4 DEF Init, ContextInv, LinuxInv, InitInv, ReadyInv, ActiveInv, GuestInv, HandlerInv,
       LinuxGoesOn, RefusedUntouched, Fresh

\* arch_entry and switch_stack: what Linux had is on the stack.
LEMMA ContextSwitchStack ==
    ASSUME ContextInv, UNCHANGED vendor, SwitchStack
    PROVE  ContextInv'
<1>1. hw' \in [Regs -> Val] /\ \A r \in Regs : hw'[r] = IF r \in Used THEN "hv" ELSE hw[r]
  <2>1. Used = {"gs_base", "rsp", "rip", "gpr", "rflags"}
      BY DEF Used, Pushed
  <2> QED
      BY <2>1, SetAt DEF SwitchStack, ContextInv, TypeOK, Val
<1>2. TypeOK'
    BY <1>1 DEF SwitchStack, ContextInv, TypeOK
<1>3. Used \subseteq Regs
    BY DEF Used, Pushed, Regs
<1> QED
    BY <1>1, <1>2, <1>3 DEF SwitchStack, ContextInv, TypeOK, LinuxInv, InitInv, ReadyInv, ActiveInv, GuestInv,
       HandlerInv, LinuxGoesOn, RefusedUntouched, Fresh, Same

\* What Linux has as a guest, for one register.
LEMMA GuestViewAt ==
    /\ GuestView["virt"] = "on"
    /\ \A r \in Reset : GuestView[r] = IF own[r] = "guest" THEN own[r] ELSE "reset"
    /\ \A r \in Regs \ Fixed : GuestView[r] = own[r]
BY DEF GuestView, AsGuest, Fixed, Reset, Regs

\* What PerCpu::init finds in LinuxContext, and the registers after
\* ArchPerCpu::init and the change of page table.
AfterArch == activate(arch_init(hw))
HvNow == {"gdtr", "idtr", "es", "cs", "ss", "ds", "tr", "pat", "cr3"} \cup Used
Saved(c) == /\ c \in [Regs -> Val] /\ c["pcid"] = "reset"
            /\ Same(Regs \ {"pcid", "rflags"}, c, own)

\* load_from finds Linux's registers, but for RFLAGS and the low bits of CR3;
\* afterwards those of HvNow are the hypervisor's and the others still Linux's.
LEMMA ContextSaved ==
    ASSUME ContextInv, pc = "init"
    PROVE  /\ Saved(load_from(hw, stack))
           /\ AfterArch \in [Regs -> Val]
           /\ \A r \in Regs \ (HvNow \cup {"pcid"}) : AfterArch[r] = own[r]
           /\ \A r \in HvNow : AfterArch[r] = "hv"
<1> USE DEF ContextInv, TypeOK, InitInv
<1> DEFINE w == With(hw, {"rsp", "rip", "gpr", "gs_base"}, stack)
<1>1. w \in [Regs -> Val] /\ \A r \in Regs : w[r] = IF r \in Pushed THEN stack[r] ELSE hw[r]
    BY WithAt DEF Pushed
<1>2. Saved(load_from(hw, stack))
  <2>1. load_from(hw, stack) = Set(w, {"pcid"}, "reset")
      BY DEF load_from
  <2> HIDE DEF w
  <2>2. /\ Set(w, {"pcid"}, "reset") \in [Regs -> Val]
        /\ \A r \in Regs : Set(w, {"pcid"}, "reset")[r] = IF r = "pcid" THEN "reset" ELSE w[r]
      BY <1>1, SetAt DEF Val
  <2>3. "pcid" \in Regs
      BY DEF Regs
  <2> QED
      BY <1>1, <2>1, <2>2, <2>3 DEF Saved, Same, Used
<1> DEFINE h == arch_init(hw)
           k == Set(h, {"cr3"}, "hv")
<1>3. /\ h \in [Regs -> Val]
      /\ \A r \in Regs : h[r] = IF r \in {"gdtr", "idtr", "es", "cs", "ss", "ds", "tr", "pat"}
                                THEN "hv" ELSE hw[r]
    BY SetAt DEF arch_init, Val
<1>4. AfterArch = Set(k, {"pcid"}, "reset")
    BY DEF AfterArch, activate
<1> HIDE DEF h
<1>5. k \in [Regs -> Val] /\ \A r \in Regs : k[r] = IF r = "cr3" THEN "hv" ELSE h[r]
    BY <1>3, SetAt DEF Val
<1> HIDE DEF k
<1>6. /\ AfterArch \in [Regs -> Val]
      /\ \A r \in Regs : AfterArch[r] = IF r = "pcid" THEN "reset" ELSE k[r]
    BY <1>4, <1>5, SetAt DEF Val
<1> QED
    BY <1>2, <1>3, <1>5, <1>6 DEF HvNow, Used, Pushed, Regs, Segments, Control, Same

\* VMX or SVM is switched on.
LEMMA SwitchOnAt ==
    ASSUME NEW h \in [Regs -> Val]
    PROVE  /\ SwitchOn(h) \in [Regs -> Val]
           /\ \A r \in Regs : SwitchOn(h)[r] = CASE r = "virt" -> "on"
                                                 [] r \in {"cr0", "cr4"} -> "hv"
                                                 [] OTHER -> h[r]
<1>1. Set(h, {"cr0", "cr4"}, "hv") \in [Regs -> Val]
      /\ \A r \in Regs : Set(h, {"cr0", "cr4"}, "hv")[r] = IF r \in {"cr0", "cr4"} THEN "hv" ELSE h[r]
    BY SetAt DEF Val
<1> QED
    BY <1>1 DEF SwitchOn, Val, Regs

\* PerCpu::init fails: a register the error path restores is that of Linux.
LEMMA ContextFails ==
    ASSUME ContextInv, UNCHANGED <<vendor, stack>>, pc = "init", ctx' \in [Regs -> Val],
           NEW e, NEW h \in [Regs -> Val], Fail(e, h), op' \in BOOLEAN,
           e # "EIO" => ~ op' /\ Same({"cr0", "cr4", "virt"}, h, own)
    PROVE  ContextInv'
<1> USE DEF ContextInv, TypeOK, InitInv
<1>1. hw' \in [Regs -> Val] /\ \A r \in Regs : hw'[r] = IF r \in Pushed THEN own[r] ELSE h[r]
    BY WithAt DEF Fail, Pushed
<1>2. TypeOK'
    BY <1>1 DEF Fail
<1>3. RefusedUntouched'
    BY <1>1 DEF Fail, RefusedUntouched, Same, Pushed, Regs, Control
<1> QED
    BY <1>2, <1>3 DEF Fail, LinuxInv, ReadyInv, ActiveInv, GuestInv,
       HandlerInv, LinuxGoesOn

\* The guest-state area or VMCB gets the registers of Linux.
LEMMA GuestArea ==
    ASSUME NEW h \in [Regs -> Val], NEW c \in [Regs -> Val]
    PROVE  /\ setup_vmcs_guest(h, c) \in [Regs -> Val] /\ vmcb_setup(h, c) \in [Regs -> Val]
           /\ \A r \in Regs \ {"ldtr", "dr7", "rflags", "virt", "sysenter"} :
                 setup_vmcs_guest(h, c)[r] = c[r]
           /\ \A r \in Regs \ {"ldtr", "dr7", "rflags", "virt", "sysenter", "kernel_gsbase"} :
                 vmcb_setup(h, c)[r] = c[r]
           /\ \A r \in {"ldtr", "dr7", "rflags"} :
                 setup_vmcs_guest(h, c)[r] = "reset" /\ vmcb_setup(h, c)[r] = "reset"
           /\ setup_vmcs_guest(h, c)["virt"] = "on" /\ vmcb_setup(h, c)["virt"] = "on"
           /\ setup_vmcs_guest(h, c)["sysenter"] = h["sysenter"]
           /\ vmcb_setup(h, c)["sysenter"] = h["sysenter"]
           /\ vmcb_setup(h, c)["kernel_gsbase"] = h["kernel_gsbase"]
<1> DEFINE R == {"ldtr", "dr7", "rflags"}
           S == Regs \ {"ldtr", "dr7", "rflags", "sysenter"}
           f == Set(h, R, "reset")
           g == With(f, S, c)
           k == [g EXCEPT !["virt"] = "on"]
<1>1. f \in [Regs -> Val] /\ \A r \in Regs : f[r] = IF r \in R THEN "reset" ELSE h[r]
    BY SetAt DEF Val
<1>2. k = setup_vmcs_guest(h, c) /\ vmcb_setup(h, c) = With(k, {"kernel_gsbase"}, h)
    BY DEF setup_vmcs_guest, vmcb_setup
<1> HIDE DEF f
<1>3. g \in [Regs -> Val] /\ \A r \in Regs : g[r] = IF r \in S THEN c[r] ELSE f[r]
    BY <1>1, WithAt
<1> HIDE DEF g
<1>4. k \in [Regs -> Val] /\ \A r \in Regs : k[r] = IF r = "virt" THEN "on" ELSE g[r]
    BY <1>3 DEF Val, Regs
<1> HIDE DEF k
<1>5. /\ With(k, {"kernel_gsbase"}, h) \in [Regs -> Val]
      /\ \A r \in Regs : With(k, {"kernel_gsbase"}, h)[r] = IF r = "kernel_gsbase" THEN h[r] ELSE k[r]
    BY <1>4, WithAt
<1> QED
    BY <1>1, <1>2, <1>3, <1>4, <1>5 DEF Regs, Syscall

\* The host-state area gets the registers of the hypervisor.
LEMMA HostArea ==
    ASSUME NEW h \in [Regs -> Val]
    PROVE  /\ setup_vmcs_host(h) \in [Regs -> Val]
           /\ OfHost(h) => OfHost(setup_vmcs_host(h))
           /\ h["gs_base"] = "hv" => setup_vmcs_host(h)["gs_base"] = "hv"
           /\ setup_vmcs_host(h)["ldtr"] = "reset" /\ setup_vmcs_host(h)["dr7"] = "reset"
<1> DEFINE S == {"pat", "efer", "cr0", "cr3", "cr4", "gs_base", "gdtr", "virt"}
           f == With(All("hv"), S, h)
<1>1. All("hv") \in [Regs -> Val] /\ \A r \in Regs : All("hv")[r] = "hv"
    BY DEF All, Val
<1>2. f \in [Regs -> Val] /\ \A r \in Regs : f[r] = IF r \in S THEN h[r] ELSE "hv"
    BY <1>1, WithAt
<1>3. setup_vmcs_host(h) = Set(f, {"ldtr", "dr7", "pcid"}, "reset")
    BY DEF setup_vmcs_host
<1> HIDE DEF f
<1>4. /\ setup_vmcs_host(h) \in [Regs -> Val]
      /\ \A r \in Regs : setup_vmcs_host(h)[r] = IF r \in {"ldtr", "dr7", "pcid"} THEN "reset" ELSE f[r]
    BY <1>2, <1>3, SetAt DEF Val
<1> QED
    BY <1>2, <1>4 DEF OfHost, HostRegs, Regs, Segments, Control

\* Vcpu::new succeeds: the VMCS or VMCB holds the registers of Linux, the CPU
\* those of the hypervisor.
LEMMA ContextReady ==
    ASSUME ContextInv, UNCHANGED <<vendor, own, stack, regs, err>>, pc = "init", pc' = "ready", Saved(ctx'),
           own["virt"] # "on", op' = TRUE, hw' = SwitchOn(AfterArch),
           \/ vendor = "intel" /\ host' = setup_vmcs_host(hw') /\ vm' = setup_vmcs_guest(hw', ctx')
           \/ vendor = "amd" /\ host' = host /\ vm' = vmcb_setup(hw', ctx')
    PROVE  ContextInv'
<1> USE DEF ContextInv, TypeOK, InitInv
<1>1. /\ hw' \in [Regs -> Val]
      /\ \A r \in Regs : hw'[r] = CASE r = "virt" -> "on"
                                    [] r \in {"cr0", "cr4"} -> "hv"
                                    [] OTHER -> AfterArch[r]
    BY ContextSaved, SwitchOnAt
<1>2. OfHost(hw') /\ hw'["gs_base"] = "hv"
    BY <1>1, ContextSaved, SMTT(30) DEF OfHost, HvNow, Used, Pushed, HostRegs, Regs, Segments, Control
<1>3. Same(Syscall \cup {"fs", "gs", "fs_base", "sysenter"}, hw', own)
    BY <1>1, ContextSaved DEF Same, HvNow, Used, Pushed, Regs, Segments, Syscall
<1>4. vm' \in [Regs -> Val] /\ Same(Regs, vm', GuestView)
  <2>1. /\ vm' \in [Regs -> Val] /\ vm'["virt"] = "on"
        /\ \A r \in {"ldtr", "dr7", "rflags"} : vm'[r] = "reset"
        /\ \A r \in Regs \ {"ldtr", "dr7", "rflags", "virt", "sysenter", "kernel_gsbase"} : vm'[r] = ctx'[r]
        /\ vm'["sysenter"] = hw'["sysenter"]
        /\ vm'["kernel_gsbase"] \in {hw'["kernel_gsbase"], ctx'["kernel_gsbase"]}
      BY <1>1, GuestArea DEF Saved, Regs, Syscall
  <2>2. /\ hw'["sysenter"] = own["sysenter"] /\ hw'["kernel_gsbase"] = own["kernel_gsbase"]
        /\ ctx'["pcid"] = "reset" /\ \A r \in Regs \ {"pcid", "rflags"} : ctx'[r] = own[r]
      BY <1>3 DEF Saved, Same, Syscall
  <2>3. \A r \in Reset : GuestView[r] = "reset"
      BY GuestViewAt DEF Fresh, Reset, Regs
  <2>4. {"sysenter", "kernel_gsbase"} \subseteq Regs \ Fixed
      BY DEF Fixed, Reset, Regs, Syscall
  <2> QED
      BY <2>1, <2>2, <2>3, <2>4, GuestViewAt, SMTT(30) DEF Same, Fixed, Reset
<1>5. /\ host' \in [Regs -> Val]
      /\ vendor = "intel" => /\ OfHost(host') /\ host'["gs_base"] = "hv"
                             /\ host'["ldtr"] = "reset" /\ host'["dr7"] = "reset"
    BY <1>1, <1>2, HostArea
<1>6. TypeOK'
    BY <1>1, <1>4, <1>5 DEF Saved
<1>7. ReadyInv' /\ ActiveInv'
  <2>1. GuestView' = GuestView
      BY DEF GuestView, AsGuest
  <2> QED
      BY <1>2, <1>3, <1>4, <1>5, <2>1 DEF ReadyInv, ActiveInv, Fresh, Same, Saved
<1>8. RefusedUntouched'
    BY DEF RefusedUntouched
<1> QED
    BY <1>6, <1>7, <1>8 DEF LinuxInv, GuestInv, HandlerInv, LinuxGoesOn

\* PerCpu::init: it is refused, fails, or leaves the virtual CPU ready.
LEMMA ContextPerCpuInit ==
    ASSUME ContextInv, UNCHANGED vendor, PerCpuInit
    PROVE  ContextInv'
<1>1. pc = "init" /\ UNCHANGED stack /\ Saved(ctx') /\ ctx'["virt"] = own["virt"]
    BY ContextSaved DEF PerCpuInit, Saved, Same, Regs
<1>2. AfterArch \in [Regs -> Val] /\ Same({"cr0", "cr4", "virt"}, AfterArch, own)
    BY <1>1, ContextSaved DEF Same, HvNow, Used, Pushed, Regs, Control
<1>3. SwitchOn(AfterArch) \in [Regs -> Val]
    BY <1>2, SwitchOnAt
<1>4. ~ op /\ op \in BOOLEAN
    BY <1>1 DEF ContextInv, InitInv, TypeOK
<1>5. \/ Fail("ENODEV", AfterArch) /\ UNCHANGED <<op, fc>>
      \/ vendor = "intel" /\ new_intel(AfterArch, ctx')
      \/ vendor = "amd" /\ new_amd(AfterArch, ctx')
    BY <1>1 DEF PerCpuInit, AfterArch
<1>6. ASSUME NEW e \in {"ENODEV", "EBUSY", "ENOMEM"}, Fail(e, AfterArch), UNCHANGED op
      PROVE  ContextInv'
    BY <1>1, <1>2, <1>4, <1>6, ContextFails DEF Saved
<1>7. CASE Fail("ENODEV", AfterArch) /\ UNCHANGED <<op, fc>>
    BY <1>6, <1>7
<1>8. CASE vendor = "intel" /\ new_intel(AfterArch, ctx')
  <2>1. CASE Fail("EIO", SwitchOn(AfterArch)) /\ op' \in BOOLEAN
      BY <1>1, <1>3, <2>1, ContextFails DEF Saved
  <2>2. CASE /\ ~ AlreadyOn(ctx') /\ pc' = "ready" /\ op' = TRUE
             /\ hw' = SwitchOn(AfterArch)
             /\ host' = setup_vmcs_host(hw')
             /\ vm' = setup_vmcs_guest(hw', ctx')
             /\ UNCHANGED <<regs, own, err>>
      BY <1>1, <1>8, <2>2, ContextReady DEF AlreadyOn
  <2> QED
      BY <1>6, <1>8, <2>1, <2>2 DEF new_intel
<1>9. CASE vendor = "amd" /\ new_amd(AfterArch, ctx')
  <2>1. CASE /\ ~ AlreadyOn(ctx') /\ pc' = "ready" /\ op' = TRUE
             /\ hw' = SwitchOn(AfterArch)
             /\ vm' = vmcb_setup(hw', ctx')
             /\ UNCHANGED <<host, regs, own, err>>
      BY <1>1, <1>9, <2>1, ContextReady DEF AlreadyOn
  <2> QED
      BY <1>6, <1>9, <2>1 DEF new_amd
<1> QED
    BY <1>5, <1>7, <1>8, <1>9

\* What the processor takes at an entry from the VMCS or VMCB, and what the
\* host save area then holds.
LEMMA EnterAt ==
    ASSUME TypeOK, NEW h \in [Regs -> Val], NEW g \in Val, EnterGuest(h, g)
    PROVE  /\ hw' \in [Regs -> Val] /\ host' \in [Regs -> Val]
           /\ \A r \in Regs \ {"gpr"} : hw'[r] = IF r \in Switched THEN vm[r] ELSE h[r]
           /\ hw'["gpr"] = g
           /\ host' = IF vendor = "amd" THEN h ELSE host
<1> DEFINE f == With(h, Switched, vm)
<1>1. f \in [Regs -> Val] /\ \A r \in Regs : f[r] = IF r \in Switched THEN vm[r] ELSE h[r]
    BY WithAt DEF TypeOK
<1>2. hw' = [f EXCEPT !["gpr"] = g]
    BY DEF EnterGuest
<1> HIDE DEF f
<1>3. "gpr" \in Regs
    BY DEF Regs
<1>4. host' = IF vendor = "amd" THEN h ELSE host
    BY DEF EnterGuest
<1> QED
    BY <1>1, <1>2, <1>3, <1>4 DEF TypeOK

\* The first entry.
LEMMA ContextEnter ==
    ASSUME ContextInv, UNCHANGED vendor, Enter
    PROVE  ContextInv'
<1> USE DEF ContextInv
<1> DEFINE h == IF vendor = "amd" THEN With(hw, Vmload, vm) ELSE hw
<1>1. EnterGuest(h, ctx["gpr"]) /\ pc = "ready" /\ pc' = "guest" /\ regs' = ctx["gpr"]
      /\ UNCHANGED <<op, stack, ctx, vm, fc, own, err>>
    BY DEF Enter, enter_intel, enter_amd, EnterGuest
<1>2. /\ h \in [Regs -> Val]
      /\ \A r \in Regs : h[r] = IF vendor = "amd" /\ r \in Vmload THEN vm[r] ELSE hw[r]
    BY WithAt DEF TypeOK
<1>3. ctx["gpr"] \in Val /\ ctx["gpr"] = own["gpr"]
    BY <1>1 DEF TypeOK, ActiveInv, ReadyInv, Fresh, Regs
<1> HIDE DEF h
<1>4. OfHost(h)
    BY <1>1, <1>2 DEF ReadyInv, OfHost, HostRegs, Control, Vmload, Regs, Segments, Syscall
<1>5. TypeOK'
    BY <1>1, <1>2, <1>3, EnterAt DEF TypeOK
<1>6. Same(Regs, hw', GuestView)
  <2> SUFFICES ASSUME NEW r \in Regs
               PROVE  hw'[r] = GuestView[r]
      BY DEF Same
  <2>1. CASE r = "gpr"
    <3>1. GuestView[r] = own[r]
        BY <2>1, GuestViewAt DEF Fixed, Reset
    <3> QED
        BY <1>1, <1>2, <1>3, <2>1, <3>1, EnterAt
  <2>2. CASE r # "gpr"
    <3>1. vm[r] = GuestView[r] /\ (r \in Syscall => hw[r] = GuestView[r])
      <4>1. r \in Syscall => r \notin Fixed
          BY DEF Syscall, Fixed, Reset
      <4> QED
          BY <1>1, <4>1, GuestViewAt DEF ReadyInv, Same
    <3>2. r \in Switched \/ r \in Syscall \/ (vendor = "amd" /\ r \in Vmload)
        BY <2>2 DEF Switched, Vmload, Regs, Segments, Control, TypeOK
    <3> QED
        BY <1>1, <1>2, <1>3, <2>2, <3>1, <3>2, EnterAt
  <2> QED
      BY <2>1, <2>2
<1>7. GuestInv' /\ ActiveInv'
  <2>1. GuestView' = GuestView
      BY <1>1 DEF GuestView, AsGuest
  <2> QED
      BY <1>1, <1>2, <1>3, <1>4, <1>6, <2>1, EnterAt DEF GuestInv, ActiveInv, Same, TypeOK
<1>8. RefusedUntouched'
    BY <1>1 DEF RefusedUntouched
<1> QED
    BY <1>1, <1>5, <1>7, <1>8 DEF LinuxInv, InitInv, ReadyInv, HandlerInv, LinuxGoesOn

\* The guest writes a register.
LEMMA ContextGuestWrite ==
    ASSUME ContextInv, UNCHANGED vendor, NEW q \in Regs, GuestWrite(q)
    PROVE  ContextInv'
<1> USE DEF ContextInv, TypeOK, GuestWrite
<1>1. /\ hw' \in [Regs -> Val] /\ \A r \in Regs : hw'[r] = IF r = q THEN "guest" ELSE hw[r]
      /\ own' \in [Regs -> Val] /\ \A r \in Regs : own'[r] = IF r = q THEN "guest" ELSE own[r]
    BY DEF Val
<1>2. "virt" \in Regs /\ own'["virt"] = own["virt"]
    BY <1>1 DEF Regs
<1>3. TypeOK'
    BY <1>1
<1>4. GuestInv' /\ ActiveInv'
  <2>1. \A r \in Regs : GuestView'[r] = IF r = q THEN "guest" ELSE GuestView[r]
      BY <1>1 DEF GuestView, AsGuest
  <2> QED
      BY <1>1, <1>2, <2>1 DEF GuestInv, ActiveInv, Same
<1>5. RefusedUntouched'
    BY <1>2 DEF RefusedUntouched
<1> QED
    BY <1>3, <1>4, <1>5 DEF LinuxInv, InitInv, ReadyInv, HandlerInv, LinuxGoesOn

\* A VM exit: the guest's registers are kept, and the hypervisor's are back.
LEMMA ContextGuestExits ==
    ASSUME ContextInv, UNCHANGED vendor, GuestExits
    PROVE  ContextInv'
<1> USE DEF ContextInv
<1> DEFINE kept == IF vendor = "amd" THEN Switched \cup {"gs_base"} ELSE Switched
           own_hv == IF vendor = "amd" THEN {"gpr", "gs_base"} ELSE {"gpr"}
<1>1. /\ pc = "guest" /\ pc' = "handler" /\ regs' = hw["gpr"]
      /\ UNCHANGED <<vendor, op, stack, ctx, host, fc, own, err>>
      /\ vendor \in {"intel", "amd"}
    BY DEF GuestExits, TypeOK
<1>2. vm' \in [Regs -> Val] /\ \A r \in Regs : vm'[r] = IF r \in kept THEN hw[r] ELSE vm[r]
    BY <1>1, WithAt DEF GuestExits, vmx_exit, svm_run, TypeOK
<1>3. /\ hw' \in [Regs -> Val]
      /\ \A r \in Regs : hw'[r] = CASE r \in own_hv -> "hv"
                                    [] vendor = "amd" /\ r = "dr7" -> "reset"
                                    [] OTHER -> IF r \in Switched THEN host[r] ELSE hw[r]
  <2> DEFINE f == With(hw, Switched, host)
             g == Set(f, {"gpr"}, "hv")
             k == Set(g, {"dr7"}, "reset")
  <2>1. f \in [Regs -> Val] /\ \A r \in Regs : f[r] = IF r \in Switched THEN host[r] ELSE hw[r]
      BY WithAt DEF TypeOK
  <2>2. \/ vendor = "intel" /\ hw' = g
        \/ vendor = "amd" /\ hw' = Set(k, {"gs_base"}, "hv")
      BY <1>1 DEF GuestExits, vmx_exit, svm_run, vmexit_handler_wrapper
  <2> HIDE DEF f
  <2>3. g \in [Regs -> Val] /\ \A r \in Regs : g[r] = IF r = "gpr" THEN "hv" ELSE f[r]
      BY <2>1, SetAt DEF Val
  <2> HIDE DEF g
  <2>4. k \in [Regs -> Val] /\ \A r \in Regs : k[r] = IF r = "dr7" THEN "reset" ELSE g[r]
      BY <2>3, SetAt DEF Val
  <2> HIDE DEF k
  <2>5. /\ Set(k, {"gs_base"}, "hv") \in [Regs -> Val]
        /\ \A r \in Regs : Set(k, {"gs_base"}, "hv")[r] = IF r = "gs_base" THEN "hv" ELSE k[r]
      BY <2>4, SetAt DEF Val
  <2> QED
      BY <2>1, <2>2, <2>3, <2>4, <2>5
<1>4. "gpr" \in Regs \ Fixed /\ "gs_base" \in Regs \ Fixed /\ Switched \subseteq Regs /\ "gs_base" \in kept
  <2>1. CASE vendor = "intel"
      BY <2>1 DEF Regs, Fixed, Reset, Switched, Segments, Control, Syscall
  <2>2. CASE vendor = "amd"
      BY <2>2 DEF Regs, Fixed, Reset, Switched, Segments, Control
  <2> QED
      BY <1>1, <2>1, <2>2
<1>5. TypeOK'
    BY <1>1, <1>2, <1>3, <1>4 DEF TypeOK
<1>6. OfHost(hw') /\ hw'["gs_base"] = "hv"
  <2>1. HostRegs \cup {"virt"} \subseteq Regs \cap Switched
      BY <1>1 DEF HostRegs, Switched, Regs, Segments, Control, Syscall
  <2>2. (HostRegs \cup {"virt"}) \cap (own_hv \cup {"dr7"}) = {}
      BY DEF HostRegs, Control
  <2>3. OfHost(hw')
      BY <1>1, <1>3, <2>1, <2>2 DEF OfHost, GuestInv
  <2>4. CASE vendor = "intel"
    <3>1. "gs_base" \in Switched
        BY <2>4 DEF Switched, Regs, Syscall
    <3> QED
        BY <1>1, <1>3, <1>4, <2>3, <2>4, <3>1 DEF ActiveInv
  <2> QED
      BY <1>1, <1>3, <1>4, <2>3, <2>4
<1>7. /\ regs' = own["gpr"] /\ vm'["gs_base"] = own["gs_base"]
      /\ Same(Switched, vm', GuestView)
      /\ Same(Regs \ (Switched \cup {"gpr", "gs_base"}), hw', GuestView)
  <2>1. Same(Regs, hw, GuestView)
      BY <1>1 DEF GuestInv
  <2>2. hw["gpr"] = own["gpr"] /\ hw["gs_base"] = own["gs_base"]
      BY <1>4, <2>1, GuestViewAt DEF Same
  <2>3. "dr7" \in Switched
      BY <1>1 DEF Switched, Regs, Syscall
  <2> QED
      BY <1>1, <1>2, <1>3, <1>4, <2>1, <2>2, <2>3 DEF Same
<1>8. Switched' = Switched /\ GuestView' = GuestView
    BY <1>1 DEF Switched, GuestView, AsGuest
<1>11. hw'["dr7"] = "reset" /\ (vendor = "intel" => hw'["ldtr"] = "reset")
  <2>1. "dr7" \in Regs /\ "ldtr" \in Regs
      BY DEF Regs
  <2>2. vendor = "intel" => "dr7" \in Switched /\ "ldtr" \in Switched
      BY <2>1 DEF Switched, Syscall
  <2> QED
      BY <1>1, <1>3, <2>1, <2>2 DEF ActiveInv
<1>9. HandlerInv' /\ ActiveInv'
    BY <1>1, <1>6, <1>7, <1>8, <1>11 DEF HandlerInv, ActiveInv
<1>10. RefusedUntouched'
    BY <1>1 DEF RefusedUntouched
<1> QED
    BY <1>1, <1>5, <1>9, <1>10 DEF LinuxInv, InitInv, ReadyInv, GuestInv, LinuxGoesOn

\* The handler is done: the guest has its registers back.
LEMMA ContextResume ==
    ASSUME ContextInv, UNCHANGED vendor, Resume
    PROVE  ContextInv'
<1> USE DEF ContextInv
<1> DEFINE h == IF vendor = "amd" THEN With(hw, {"gs_base"}, vm) ELSE hw
<1>1. /\ pc = "handler" /\ pc' = "guest" /\ EnterGuest(h, regs)
      /\ UNCHANGED <<vendor, op, stack, ctx, vm, regs, fc, own, err>>
      /\ vendor \in {"intel", "amd"}
    BY DEF Resume, EnterGuest, TypeOK
<1>2. /\ h \in [Regs -> Val]
      /\ \A r \in Regs : h[r] = IF vendor = "amd" /\ r = "gs_base" THEN vm[r] ELSE hw[r]
    BY WithAt DEF TypeOK
<1> HIDE DEF h
<1>3. /\ hw' \in [Regs -> Val] /\ host' \in [Regs -> Val]
      /\ \A r \in Regs \ {"gpr"} : hw'[r] = IF r \in Switched THEN vm[r] ELSE h[r]
      /\ hw'["gpr"] = regs
      /\ host' = IF vendor = "amd" THEN h ELSE host
    BY <1>1, <1>2, EnterAt DEF TypeOK
<1>4. TypeOK'
    BY <1>1, <1>3 DEF TypeOK
<1>5. OfHost(h)
    BY <1>1, <1>2 DEF HandlerInv, OfHost, HostRegs, Control, Regs, Segments
<1>6. Same(Regs, hw', GuestView)
  <2> SUFFICES ASSUME NEW r \in Regs
               PROVE  hw'[r] = GuestView[r]
      BY DEF Same
  <2>0. GuestView["gpr"] = own["gpr"] /\ GuestView["gs_base"] = own["gs_base"]
      BY GuestViewAt DEF Regs, Fixed, Reset
  <2>1. CASE r \in Switched
    <3>1. r # "gpr"
        BY <2>1 DEF Switched, Control
    <3> QED
        BY <1>1, <1>3, <2>1, <3>1 DEF HandlerInv, Same
  <2>2. CASE r \notin Switched /\ r = "gs_base"
    <3>1. vendor = "amd"
        BY <1>1, <2>2 DEF Switched, Syscall
    <3> QED
        BY <1>1, <1>2, <1>3, <2>0, <2>2, <3>1 DEF HandlerInv
  <2> QED
      BY <1>1, <1>2, <1>3, <2>0, <2>1, <2>2 DEF HandlerInv, Same
<1>7. GuestInv' /\ ActiveInv'
  <2>1. GuestView' = GuestView
      BY <1>1 DEF GuestView, AsGuest
  <2> QED
      BY <1>1, <1>3, <1>5, <1>6, <2>1 DEF GuestInv, ActiveInv, Same
<1>8. RefusedUntouched'
    BY <1>1 DEF RefusedUntouched
<1> QED
    BY <1>1, <1>4, <1>7, <1>8 DEF LinuxInv, InitInv, ReadyInv, HandlerInv, LinuxGoesOn

\* The registers after restore() and return_to_linux(), from LinuxContext c
\* and the saved general registers g.
RestoredTo(h, c, g) == return_to_linux(restore(h, c), c, g)
\* The registers that neither writes.
Kept == {"sysenter", "ldtr", "dr7", "rflags"}
\* They are those of c, but for the general registers and the ones that
\* restore() does not write.
LEMMA RestoreAt ==
    ASSUME NEW h \in [Regs -> Val], NEW c \in [Regs -> Val], NEW g \in Val
    PROVE  /\ RestoredTo(h, c, g) \in [Regs -> Val]
           /\ \A r \in Regs \ ({"gpr", "pcid"} \cup Kept) : RestoredTo(h, c, g)[r] = c[r]
           /\ RestoredTo(h, c, g)["gpr"] = g
           /\ RestoredTo(h, c, g)["pcid"] = "reset"
           /\ \A r \in Kept : RestoredTo(h, c, g)[r] = h[r]
<1> DEFINE f0 == With(h, Restored, c)
           f1 == Set(f0, {"pcid"}, "reset")
           f2 == Set(f1, {"fs_base", "gs_base"}, "hv")
           f3 == With(f2, Segments, c)
           f4 == With(f3, {"fs_base"}, c)
           f5 == With(f4, {"gs_base", "rsp", "rip"}, c)
           k == [f5 EXCEPT !["gpr"] = g]
<1>0. k = RestoredTo(h, c, g)
    BY DEF RestoredTo, return_to_linux, restore, load_segments
<1>7. f0 \in [Regs -> Val] /\ \A r \in Regs : f0[r] = IF r \in Restored THEN c[r] ELSE h[r]
    BY WithAt
<1> HIDE DEF f0
<1>1. f1 \in [Regs -> Val] /\ \A r \in Regs : f1[r] = IF r = "pcid" THEN "reset" ELSE f0[r]
    BY <1>7, SetAt DEF Val
<1> HIDE DEF f1
<1>2. f2 \in [Regs -> Val] /\ \A r \in Regs : f2[r] = IF r \in {"fs_base", "gs_base"} THEN "hv" ELSE f1[r]
    BY <1>1, SetAt DEF Val
<1> HIDE DEF f2
<1>3. f3 \in [Regs -> Val] /\ \A r \in Regs : f3[r] = IF r \in Segments THEN c[r] ELSE f2[r]
    BY <1>2, WithAt
<1> HIDE DEF f3
<1>4. f4 \in [Regs -> Val] /\ \A r \in Regs : f4[r] = IF r = "fs_base" THEN c[r] ELSE f3[r]
    BY <1>3, WithAt
<1> HIDE DEF f4
<1>5. f5 \in [Regs -> Val] /\ \A r \in Regs : f5[r] = IF r \in {"gs_base", "rsp", "rip"} THEN c[r] ELSE f4[r]
    BY <1>4, WithAt
<1> HIDE DEF f5
<1>6. k \in [Regs -> Val] /\ \A r \in Regs : k[r] = IF r = "gpr" THEN g ELSE f5[r]
    BY <1>5 DEF Regs
<1> HIDE DEF k
<1> QED
    BY <1>0, <1>1, <1>2, <1>3, <1>4, <1>5, <1>6, <1>7, SMTT(60) DEF Kept, Restored, Regs, Segments, Syscall, Control

\* LinuxContext after Vcpu::exit: the guest's registers, but for those in
\* Stale, and VMX or SVM off.
LEMMA LoadedAt ==
    ASSUME ContextInv, pc = "handler"
    PROVE  LET x == IF vendor = "amd" THEN exit_amd ELSE exit_intel IN
           /\ x.h \in [Regs -> Val] /\ x.c \in [Regs -> Val]
           /\ x.h["sysenter"] = own["sysenter"]
           /\ \A r \in {"ldtr", "dr7", "rflags"} : x.h[r] = hw[r]
           /\ x.c["virt"] = "off"
           /\ \A r \in Regs \ (Stale \cup Fixed \cup {"gpr", "sysenter"}) : x.c[r] = own[r]
           /\ \A r \in Stale : x.c[r] = "linux"
<1> USE DEF ContextInv
<1>1. /\ HandlerInv!2 /\ (\A r \in Regs \ {"virt", "pcid", "rflags"} : ctx[r] = "linux")
      /\ vendor \in {"intel", "amd"}
      /\ hw \in [Regs -> Val] /\ ctx \in [Regs -> Val] /\ vm \in [Regs -> Val]
    BY DEF HandlerInv, ActiveInv, TypeOK
<1>2. CASE vendor = "intel"
  <2> DEFINE f == With(ctx, Loaded, vm)
             c == [f EXCEPT !["virt"] = "off"]
             h == With(hw, {"sysenter"}, vm)
  <2>1. exit_intel.h = h /\ exit_intel.c = c
      BY DEF exit_intel, load_vmcs_guest
  <2>2. f \in [Regs -> Val] /\ \A r \in Regs : f[r] = IF r \in Loaded THEN vm[r] ELSE ctx[r]
      BY <1>1, WithAt
  <2>3. h \in [Regs -> Val] /\ \A r \in Regs : h[r] = IF r = "sysenter" THEN vm[r] ELSE hw[r]
      BY <1>1, WithAt
  <2> HIDE DEF f, h
  <2>4. c \in [Regs -> Val] /\ \A r \in Regs : c[r] = IF r = "virt" THEN "off" ELSE f[r]
      BY <2>2 DEF Val, Regs
  <2> HIDE DEF c
  <2>5. \A r \in Switched \ Fixed : vm[r] = own[r]
      BY <1>1, <1>2, GuestViewAt DEF Same, Switched
  <2>6. "sysenter" \in Switched \ Fixed /\ "sysenter" \in Regs /\ "virt" \in Regs
      BY <1>2 DEF Switched, Fixed, Reset, Regs, Syscall
  <2>7. \A r \in Regs \ (Stale \cup Fixed \cup {"gpr", "sysenter"}) : r \in Loaded /\ r \in Switched /\ r # "virt"
      BY <1>2 DEF Switched, Fixed, Reset, Loaded, Stale, Regs, Segments, Control, Syscall
  <2>8. \A r \in Stale : r \in Regs /\ r \notin Loaded /\ r \notin {"virt", "pcid", "rflags"}
      BY <1>2 DEF Loaded, Stale, Regs, Segments, Control, Syscall
  <2>9. {"ldtr", "dr7", "rflags"} \subseteq Regs
      BY DEF Regs
  <2> QED
      BY <1>1, <1>2, <2>1, <2>2, <2>3, <2>4, <2>5, <2>6, <2>7, <2>8, <2>9
<1>3. CASE vendor = "amd"
  <2> DEFINE Q == {"fs", "gs", "tr", "fs_base"}
             f == With(ctx, Loaded \cup {"efer"}, vm)
             g == With(f, Q, hw)
             c == [g EXCEPT !["virt"] = "off"]
             h == [hw EXCEPT !["virt"] = "off"]
  <2>1. exit_amd.h = h /\ exit_amd.c = c
      BY DEF exit_amd, load_vmcb_guest
  <2>2. f \in [Regs -> Val] /\ \A r \in Regs : f[r] = IF r \in Loaded \cup {"efer"} THEN vm[r] ELSE ctx[r]
      BY <1>1, WithAt
  <2>3. h \in [Regs -> Val] /\ \A r \in {"sysenter", "ldtr", "dr7", "rflags"} : h[r] = hw[r]
      BY <1>1 DEF Val, Regs
  <2> HIDE DEF f, h
  <2>4. g \in [Regs -> Val] /\ \A r \in Regs : g[r] = IF r \in Q THEN hw[r] ELSE f[r]
      BY <1>1, <2>2, WithAt
  <2> HIDE DEF g
  <2>5. c \in [Regs -> Val] /\ \A r \in Regs : c[r] = IF r = "virt" THEN "off" ELSE g[r]
      BY <2>4 DEF Val, Regs
  <2> HIDE DEF c
  <2>6. \A r \in (Switched \ Fixed) \cup {"gs_base"} : vm[r] = own[r]
    <3>1. Switched \subseteq Regs
        BY <1>3 DEF Switched, Regs, Segments, Control
    <3> QED
        BY <1>1, <3>1, GuestViewAt DEF Same
  <2>7. \A r \in Q \cup {"sysenter"} : hw[r] = own[r]
    <3>1. Q \cup {"sysenter"} \subseteq Regs \ (Switched \cup Fixed \cup {"gpr", "gs_base"})
        BY <1>3 DEF Regs, Segments, Control, Switched, Fixed, Reset
    <3> QED
        BY <1>1, <3>1, GuestViewAt DEF Same
  <2>8. \A r \in Regs \ (Stale \cup Fixed \cup {"gpr", "sysenter"} \cup Q) :
           r \in Loaded \cup {"efer"} /\ r \in (Switched \ Fixed) \cup {"gs_base"} /\ r # "virt"
      BY <1>3 DEF Switched, Fixed, Reset, Loaded, Stale, Regs, Segments, Control, Syscall
  <2>9. \A r \in Stale : r \in Regs /\ r \notin Loaded \cup {"efer"} \cup Q /\ r \notin {"virt", "pcid", "rflags"}
      BY <1>3 DEF Loaded, Stale, Regs, Segments, Control, Syscall
  <2>10. "virt" \in Regs
      BY DEF Regs
  <2> QED
      BY <1>1, <1>3, <2>1, <2>2, <2>3, <2>4, <2>5, <2>6, <2>7, <2>8, <2>9, <2>10
<1> QED
    BY <1>1, <1>2, <1>3

\* PerCpu::deactivate_vmm: Linux has its registers back.
LEMMA ContextDeactivate ==
    ASSUME ContextInv, UNCHANGED vendor, Deactivate
    PROVE  ContextInv'
<1> USE DEF ContextInv
<1> DEFINE x == IF vendor = "amd" THEN exit_amd ELSE exit_intel
           h == x.h
           c == x.c
<1>1. /\ pc = "handler" /\ pc' = "left" /\ op' = FALSE /\ ctx' = c
      /\ hw' = return_to_linux(restore(h, c), c, regs)
      /\ UNCHANGED <<vendor, stack, vm, host, regs, fc, own, err>>
    BY DEF Deactivate
<1>2. /\ h \in [Regs -> Val] /\ c \in [Regs -> Val]
      /\ h["sysenter"] = own["sysenter"]
      /\ \A r \in {"ldtr", "dr7", "rflags"} : h[r] = hw[r]
      /\ c["virt"] = "off"
      /\ \A r \in Regs \ (Stale \cup Fixed \cup {"gpr", "sysenter"}) : c[r] = own[r]
      /\ \A r \in Stale : c[r] = "linux"
    BY <1>1, LoadedAt
<1> HIDE DEF h, c
<1>3. /\ hw' \in [Regs -> Val]
      /\ \A r \in Regs \ ({"gpr", "pcid"} \cup Kept) : hw'[r] = c[r]
      /\ hw'["gpr"] = regs
      /\ hw'["pcid"] = "reset"
      /\ \A r \in Kept : hw'[r] = h[r]
  <2>1. regs \in Val
      BY DEF TypeOK
  <2>2. hw' = RestoredTo(h, c, regs)
      BY <1>1 DEF RestoredTo
  <2>3. h \in [Regs -> Val] /\ c \in [Regs -> Val]
      BY <1>2
  <2>4. /\ RestoredTo(h, c, regs) \in [Regs -> Val]
        /\ \A r \in Regs \ ({"gpr", "pcid"} \cup Kept) : RestoredTo(h, c, regs)[r] = c[r]
        /\ RestoredTo(h, c, regs)["gpr"] = regs
        /\ RestoredTo(h, c, regs)["pcid"] = "reset"
        /\ \A r \in Kept : RestoredTo(h, c, regs)[r] = h[r]
      BY <2>1, <2>3, RestoreAt, ZenonT(60)
  <2> QED
      BY <2>2, <2>4
<1>4. /\ regs = own["gpr"] /\ hw["rflags"] = "hv" /\ hw["dr7"] = "reset"
      /\ vendor = "intel" => hw["ldtr"] = "reset"
      /\ vendor = "amd" => hw["ldtr"] = GuestView["ldtr"]
  <2>1. vendor = "amd" => "ldtr" \in Regs \ (Switched \cup {"gpr", "gs_base"})
      BY DEF Regs, Switched, Segments, Control
  <2> QED
      BY <1>1, <2>1 DEF HandlerInv, OfHost, HostRegs, Same
<1>5. /\ vendor \in {"intel", "amd"}
      /\ \A r \in Regs : AfterLeaving(r)' = AfterLeaving(r)
    BY <1>1 DEF Stale, AfterLeaving, AsGuest, TypeOK
<1>6. \A r \in Stale \cup {"virt"} : r \in Regs \ ({"gpr", "pcid"} \cup Kept)
    BY DEF Stale, Regs, Syscall, Kept
<1>7. ASSUME NEW r \in Regs
      PROVE  hw'[r] = AfterLeaving(r)
  <2>1. CASE r \in Stale \cup {"virt"}
    <3>1. \A q \in Stale : q \notin {"virt", "pcid", "dr7", "rflags", "ldtr"}
        BY DEF Stale, Syscall
    <3>2. AfterLeaving(r) = IF r = "virt" THEN "off" ELSE "linux"
        BY <2>1, <3>1 DEF AfterLeaving
    <3> QED
        BY <1>2, <1>3, <1>6, <2>1, <3>1, <3>2
  <2>2. CASE r \in Reset
    <3>1. r \notin Stale \cup {"virt"}
        BY <2>2 DEF Stale, Syscall, Reset
    <3>2. r \in {"ldtr", "dr7", "rflags"} => hw'[r] = hw[r]
        BY <1>2, <1>3 DEF Kept
    <3>3. r = "ldtr" => GuestView[r] = AsGuest(r)
        BY DEF GuestView
    <3> QED
        BY <1>3, <1>4, <1>5, <2>2, <3>1, <3>2, <3>3 DEF AfterLeaving, Reset
  <2>3. CASE r \notin Stale \cup Fixed
    <3>1. AfterLeaving(r) = own[r]
        BY <2>3 DEF AfterLeaving, AsGuest, Fixed, Reset
    <3>2. CASE r \in {"gpr", "sysenter"}
        BY <1>2, <1>3, <1>4, <3>1, <3>2 DEF Kept
    <3>3. CASE r \notin {"gpr", "sysenter"}
      <4>1. r \in Regs \ ({"gpr", "pcid"} \cup Kept)
          BY <2>3, <3>3 DEF Kept, Fixed, Reset
      <4> QED
          BY <1>2, <1>3, <2>3, <3>1, <3>3, <4>1
    <3> QED
        BY <3>2, <3>3
  <2> QED
      BY <2>1, <2>2, <2>3 DEF Fixed
<1>8. TypeOK'
    BY <1>1, <1>2, <1>3 DEF TypeOK
<1>9. LinuxGoesOn'
    BY <1>1, <1>5, <1>7 DEF LinuxGoesOn
<1>10. RefusedUntouched'
    BY <1>1 DEF RefusedUntouched, ActiveInv
<1> QED
    BY <1>1, <1>8, <1>9, <1>10 DEF LinuxInv, InitInv, ReadyInv, ActiveInv, GuestInv, HandlerInv

-----------------------------------------------------------------------------
\* At each point of the way the registers are where ContextInv says.
LEMMA ContextCorrect == Spec => []ContextInv
<1>1. ContextInv /\ UNCHANGED vars => ContextInv'
  <2>1. UNCHANGED vars => UNCHANGED <<GuestView, Switched>> /\ \A r \in Regs : AfterLeaving(r)' = AfterLeaving(r)
      BY DEF vars, GuestView, AsGuest, AfterLeaving, Stale, Switched
  <2> QED
      BY <2>1, SMTT(60) DEF vars, ContextInv, TypeOK, LinuxInv, InitInv, ReadyInv, ActiveInv, GuestInv, HandlerInv,
       LinuxGoesOn, RefusedUntouched, Fresh, Same
<1>2. ContextInv /\ Next => ContextInv'
    BY ContextSwitchStack, ContextPerCpuInit, ContextEnter, ContextGuestWrite, ContextGuestExits,
       ContextResume, ContextDeactivate DEF Next
<1> QED
    BY <1>1, <1>2, ContextInit, PTL DEF Spec

\* As a guest Linux has its registers as it left them, but for the four that
\* are reset at the first entry, and a handler of VM exits those of the
\* hypervisor, for any number of exits and of registers that the guest writes
\* (LinuxContext::load_from, Vcpu::new, enter, vmx_exit, svm_run).
THEOREM RegistersSwitchedHolds == Spec => []RegistersSwitched
<1>1. ContextInv => RegistersSwitched
    BY DEF ContextInv, GuestInv, HandlerInv, RegistersSwitched, GuestHasItsRegisters, HandlerHasPerCpu,
       GuestView, Same, OfHost, HostRegs
<1> QED
    BY <1>1, ContextCorrect, PTL

\* After the hypervisor is switched off VMX or SVM is off and every register
\* holds what AfterLeaving says: what Linux had there as a guest, but for the
\* stale MSRs, the cleared low bits of CR3, DR7, RFLAGS and, with VMX, LDTR
\* (Vcpu::exit, LinuxContext::restore, return_to_linux).
THEOREM LinuxGoesOnHolds == Spec => []LinuxGoesOn
<1>1. ContextInv => LinuxGoesOn
    BY DEF ContextInv
<1> QED
    BY <1>1, ContextCorrect, PTL

\* A CPU on which VMX or SVM is in use is never made a guest, and a CPU that
\* is refused keeps CR0, CR4 and VMX or SVM as they were (Vcpu::new).
THEOREM RefusedUntouchedHolds == Spec => []RefusedUntouched
<1>1. ContextInv => RefusedUntouched
    BY DEF ContextInv
<1> QED
    BY <1>1, ContextCorrect, PTL

=============================================================================
