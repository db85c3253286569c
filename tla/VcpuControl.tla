---------------------------- MODULE VcpuControl ----------------------------
(***************************************************************************)
(* What the hypervisor asks of the processor when it makes one CPU a       *)
(* guest: the VM-execution, VM-exit and VM-entry controls of a VMCS, the   *)
(* intercepts and clean bits of a VMCB, and the caches of the processor    *)
(* that outlive a VMCS or VMCB when Linux disables the hypervisor and      *)
(* enables it again.  A control field is the set of the flags set in it.   *)
(***************************************************************************)
EXTENDS Integers, Vendor
CONSTANTS Roots,       \* frames the root of the nested tables may be in
          MaxRounds,   \* bound on enabling
          MaxExits     \* bound on VM exits of a round

(* The optional features and the revision of this processor. *)
VARIABLES cpu,
          mode,        \* "linux", "ready", "guest", "host", "failed"
          ctl,         \* the VMCS control fields, or the VMCB control area
          nested,      \* the nested tables: [root, version]
          vmcb,        \* the version of each cached area of the VMCB
          cache,       \* the areas the processor keeps between VMRUNs
          tlb,         \* the nested translations it keeps
          round, exits
control_vars == <<cpu, vendor, mode, ctl, nested, vmcb, cache, tlb, round, exits>>

(* --- The flags libvmm knows ------------------------------------------- *)
PinVmExecControls == {"INTR_EXITING", "NMI_EXITING", "VIRTUAL_NMIS",
    "PREEMPTION_TIMER", "POSTED_INTR"}
PrimaryVmExecControls == {"INTR_WINDOW_EXITING", "USE_TSC_OFFSETTING",
    "HLT_EXITING", "INVLPG_EXITING", "MWAIT_EXITING", "RDPMC_EXITING",
    "RDTSC_EXITING", "CR3_LOAD_EXITING", "CR3_STORE_EXITING",
    "CR8_LOAD_EXITING", "CR8_STORE_EXITING", "VIRTUAL_TPR",
    "NMI_WINDOW_EXITING", "MOV_DR_EXITING", "UNCOND_IO_EXITING",
    "USE_IO_BITMAPS", "MONITOR_TRAP_FLAG", "USE_MSR_BITMAPS",
    "MONITOR_EXITING", "PAUSE_EXITING", "SEC_CONTROLS"}
SecondaryVmExecControls == {"VIRT_APIC_ACCESSES", "EPT", "DESC_EXITING",
    "RDTSCP", "VIRTUAL_X2APIC", "VPID", "WBINVD_EXITING",
    "UNRESTRICTED_GUEST", "APIC_REGISTER_VIRT", "VIRT_INTR_DELIVERY",
    "PAUSE_LOOP_EXITING", "RDRAND_EXITING", "INVPCID", "VMFUNC",
    "SHADOW_VMCS", "ENCLS_EXITING", "RDSEED_EXITING", "PAGE_MOD_LOGGING",
    "EPT_VIOLATION_VE", "PT_CONCEAL_VMX", "XSAVES", "MODE_BASED_EPT_EXEC",
    "PT_USE_GPA", "TSC_SCALING", "USR_WAIT_PAUSE", "ENCLV_EXITING"}
VmExitControls == {"SAVE_DEBUG_CONTROLS", "HOST_ADDR_SPACE_SIZE",
    "LOAD_IA32_PERF_GLOBAL_CTRL", "ACK_INTR_ON_EXIT", "SAVE_IA32_PAT",
    "LOAD_IA32_PAT", "SAVE_IA32_EFER", "LOAD_IA32_EFER",
    "SAVE_VMX_PREEMPTION_TIMER", "CLEAR_BNDCFGS", "PT_CONCEAL_PIP",
    "CLEAR_IA32_RTIT_CTL", "LOAD_CET_STATE"}
VmEntryControls == {"LOAD_DEBUG_CONTROLS", "IA32E_MODE", "SMM",
    "DEACT_DUAL_MONITOR", "LOAD_IA32_PERF_GLOBAL_CTRL", "LOAD_IA32_PAT",
    "LOAD_IA32_EFER", "LOAD_BNDCFGS", "PT_CONCEAL_PIP",
    "LOAD_IA32_RTIT_CTL", "LOAD_CET_STATE"}
Optional == {"RDTSCP", "INVPCID", "XSAVES"}
Required == {"EPT", "UNRESTRICTED_GUEST"}

(* --- Intel: the capability MSRs of the processor (external) ------------ *)
(* The low half of a capability MSR: the settings that default to 1.       *)
Default1 == [pin |-> {"reserved"},
    primary |-> {"reserved", "CR3_LOAD_EXITING", "CR3_STORE_EXITING"},
    secondary |-> {}, exit |-> {"reserved", "SAVE_DEBUG_CONTROLS"},
    entry |-> {"reserved", "LOAD_DEBUG_CONTROLS"}]
(* The settings VM entry accepts: of the defaults, a processor with flexible
   controls lets software clear those of CR3 and of the debug controls. *)
MustBe1(f) == IF cpu.flex THEN Default1[f] \cap {"reserved"} ELSE Default1[f]
MayBe1(f) == {"reserved"} \cup CASE f = "pin" -> PinVmExecControls
    [] f = "primary" -> PrimaryVmExecControls
    [] f = "secondary" ->
        SecondaryVmExecControls \ ((Optional \cup Required) \ cpu.features)
    [] f = "exit" -> VmExitControls
    [] f = "entry" -> VmEntryControls

(* --- Intel: setting up ------------------------------------------------- *)
VmxRegion(revision_id, shadow, word) ==
    [revision |-> revision_id, shadow |-> shadow]
(* Mutant: nothing is cleared. *)
SetControlKeeps(old_msr, set, clear) == old_msr \cup set
set_control(old_msr, set, clear) == (old_msr \ clear) \cup set
CpuFeatures(has) == Optional \cap has
(* Mutant: no INVEPT. *)
SetEptPointerOnly(root, cached) == cached
set_ept_pointer(root, cached) == {t \in cached : t.key # root}
setup_vmcs_control ==
    [pin |-> set_control(Default1.pin, {"NMI_EXITING"}, {}),
     primary |-> set_control(Default1.primary,
         {"USE_MSR_BITMAPS", "SEC_CONTROLS"},
         {"CR3_LOAD_EXITING", "CR3_STORE_EXITING"}),
     secondary |-> set_control(Default1.secondary,
         {"EPT", "UNRESTRICTED_GUEST"} \cup CpuFeatures(cpu.features), {}),
     exit |-> set_control(Default1.exit,
         {"HOST_ADDR_SPACE_SIZE", "SAVE_IA32_PAT", "LOAD_IA32_PAT",
          "SAVE_IA32_EFER", "LOAD_IA32_EFER"}, {}),
     entry |-> set_control(Default1.entry,
         {"IA32E_MODE", "LOAD_IA32_PAT", "LOAD_IA32_EFER"}, {})]
EntryValid == \A f \in (IF vendor = "intel" THEN DOMAIN Default1 ELSE {}) :
    MustBe1(f) \subseteq ctl[f] /\ ctl[f] \subseteq MayBe1(f)

(* --- AMD: intercepts --------------------------------------------------- *)
SvmIntercept == [INTR |-> 96, NMI |-> 97, SMI |-> 98, INIT |-> 99,
    VINTR |-> 100, CR0_SEL_WRITE |-> 101, IDTR_READ |-> 102,
    GDTR_READ |-> 103, LDTR_READ |-> 104, TR_READ |-> 105,
    IDTR_WRITE |-> 106, GDTR_WRITE |-> 107, LDTR_WRITE |-> 108,
    TR_WRITE |-> 109, RDTSC |-> 110, RDPMC |-> 111, PUSHF |-> 112,
    POPF |-> 113, CPUID |-> 114, RSM |-> 115, IRET |-> 116, SWINT |-> 117,
    INVD |-> 118, PAUSE |-> 119, HLT |-> 120, INVLPG |-> 121,
    INVLPGA |-> 122, IOIO_PROT |-> 123, MSR_PROT |-> 124,
    TASK_SWITCH |-> 125, FERR_FREEZE |-> 126, SHUTDOWN |-> 127,
    VMRUN |-> 128, VMMCALL |-> 129, VMLOAD |-> 130, VMSAVE |-> 131,
    STGI |-> 132, CLGI |-> 133, SKINIT |-> 134, RDTSCP |-> 135,
    ICEBP |-> 136, WBINVD |-> 137, MONITOR |-> 138, MWAIT |-> 139,
    MWAIT_CONDITIONAL |-> 140, XSETBV |-> 141, RDPRU |-> 142,
    EFER_WRITE_TRAP |-> 143, INVLPGB |-> 160, INVLPGB_ILLEGAL |-> 161,
    INVPCID |-> 162, MCOMMIT |-> 163, TLBSYNC |-> 164]
MatchVal(c, val) ==
    CASE val \in 96 .. 127 -> [c EXCEPT !.vector3 = @ \cup {val - 96}]
      [] val \in 128 .. 143 -> [c EXCEPT !.vector4 = @ \cup {val - 128}]
      [] val \in 160 .. 164 -> [c EXCEPT !.vector5 = @ \cup {val - 160}]
      [] OTHER -> c
set_intercept(c, which) == MatchVal(c, SvmIntercept[which])
(* What the processor makes of the vectors: the exit codes it may report. *)
Intercepted(c) == {96 + b : b \in c.vector3} \cup {128 + b : b \in c.vector4}
                      \cup {160 + b : b \in c.vector5}
Asked == {"NMI", "CPUID", "SHUTDOWN", "VMRUN", "VMMCALL", "VMLOAD", "VMSAVE",
          "STGI", "CLGI", "SKINIT"}
VmcbCleanBits == {"I", "IOPM", "ASID", "TPR", "NP", "CR_X", "DR_X", "DT",
                  "SEG", "CR2", "LBR", "AVIC", "CET"}
Vmcb == [vector3 |-> {}, vector4 |-> {}, vector5 |-> {},
         clean_bits |-> {}, tlb_control |-> "FlushAsid"]
vmcb_setup_control ==
    LET a == set_intercept(set_intercept(set_intercept(Vmcb, "NMI"), "CPUID"), "SHUTDOWN")
        b == set_intercept(set_intercept(a, "VMRUN"), "VMMCALL")
        c == set_intercept(set_intercept(b, "VMLOAD"), "VMSAVE")
    IN  set_intercept(set_intercept(set_intercept(c, "STGI"), "CLGI"), "SKINIT")

(* --- One CPU: enabling, running and disabling -------------------------- *)
Key == IF vendor = "intel" THEN nested.root ELSE 1     \* EPTP, or guest_asid
NoFrame == [root |-> 0, version |-> 0]
None == [a \in VmcbCleanBits |-> 0]

ControlInit == /\ vendor \in {"intel", "amd"}
               /\ cpu \in IF vendor = "intel"
                        THEN [features : SUBSET (Optional \cup Required),
                              flex : BOOLEAN, revision : {4}]
                        ELSE [features : {{}}, flex : {TRUE}, revision : {0}]
               /\ mode = "linux" /\ ctl = Vmcb /\ nested = NoFrame
               /\ vmcb = None /\ cache = None /\ tlb = {}
               /\ round = 0 /\ exits = 0

(* cell::init and Vcpu::new: new tables, and a VMCS or VMCB; word is what a
   frame holds that was not zeroed. *)
SetupControl(root, word) ==
    /\ mode = "linux" /\ round < MaxRounds
    /\ round' = round + 1 /\ exits' = 0
    /\ nested' = [root |-> root, version |-> round + 1]
    /\ IF vendor = "intel"
       THEN LET region == VmxRegion(cpu.revision, FALSE, word) IN
            /\ vmcb' = vmcb
            /\ IF region # [revision |-> cpu.revision, shadow |-> FALSE]
               THEN mode' = "failed" /\ UNCHANGED <<ctl, tlb>>
               ELSE /\ mode' = "ready" /\ ctl' = setup_vmcs_control
                    /\ tlb' = set_ept_pointer(root, tlb)
       ELSE /\ mode' = "ready" /\ ctl' = vmcb_setup_control /\ tlb' = tlb
            /\ vmcb' = [a \in VmcbCleanBits |-> round + 1]
    /\ UNCHANGED <<cpu, cache>>

(* VMRUN, of the processor: an area marked clean may come from its cache, if
   the cache is still there. *)
Vmrun == /\ \E still \in BOOLEAN : cache' = [a \in VmcbCleanBits |->
               IF still /\ a \in ctl.clean_bits /\ cache[a] # 0
               THEN cache[a] ELSE vmcb[a]]
         /\ tlb' = IF ctl.tlb_control = "FlushAsid"
                   THEN {t \in tlb : t.key # Key} ELSE tlb

(* Vcpu::enter, and the end of vmx_exit and svm_run. *)
EnterVm == /\ \/ mode = "ready" /\ EntryValid
              \/ mode = "host"
           /\ mode' = "guest"
           /\ IF vendor = "amd" THEN Vmrun ELSE UNCHANGED <<cache, tlb>>
           /\ UNCHANGED <<cpu, ctl, nested, vmcb, round, exits>>
EnterFails == /\ mode = "ready" /\ ~EntryValid
              /\ mode' = "failed"
              /\ UNCHANGED <<cpu, ctl, nested, vmcb, cache, tlb, round, exits>>

(* The guest reaches memory: the processor walks the tables and keeps what
   it found. *)
Access == /\ mode = "guest"
          /\ tlb' = tlb \cup {[key |-> Key, version |-> nested.version]}
          /\ UNCHANGED <<cpu, mode, ctl, nested, vmcb, cache, round, exits>>

(* handle_exit of AMD marks the VMCB unmodified; the handlers then write RIP,
   RAX and the event to inject, which the processor does not keep. *)
MarkUnmodified(c) == [c EXCEPT !.clean_bits = VmcbCleanBits]
Exit == /\ mode = "guest" /\ exits < MaxExits
        /\ mode' = "host" /\ exits' = exits + 1
        /\ ctl' = IF vendor = "amd" THEN MarkUnmodified(ctl) ELSE ctl
        /\ UNCHANGED <<cpu, nested, vmcb, cache, tlb, round>>

(* Vcpu::exit switches VMX or SVM off; no cache is flushed. *)
Disable == /\ mode = "host" /\ mode' = "linux"
           /\ UNCHANGED <<cpu, ctl, nested, vmcb, cache, tlb, round, exits>>

ControlNext == /\ UNCHANGED vendor
               /\ \/ \E root \in Roots, s \in BOOLEAN :
                        SetupControl(root, [revision |-> 7, shadow |-> s])
                  \/ EnterVm \/ EnterFails \/ Access \/ Exit \/ Disable
ControlSpec == ControlInit /\ [][ControlNext]_control_vars

(* --- Properties -------------------------------------------------------- *)
(* Enabling fails on a processor only for want of something the design
   needs: EPT, unrestricted guests, and CR3 accesses that need not exit. An
   optional feature that is missing, or what a frame held before, is no
   reason (setup_vmcs_control, VmxRegion::new). *)
FailsForWantOfFeature ==
    mode = "failed" => ~cpu.flex \/ ~(Required \subseteq cpu.features)

(* While the guest runs, the events that exit are those the hypervisor asked
   for ("NO INTR_EXITING to pass-through interrupts", "NO UNCOND_IO_EXITING
   to pass-through PIO"), whatever the capability MSRs say, and the optional
   instructions of the processor work; on AMD every intercept that can be
   asked for sets the one bit the processor looks at. *)
ExitsAsAsked == mode = "guest" =>
    IF vendor = "intel"
    THEN /\ ctl.pin \ {"reserved"} = {"NMI_EXITING"}
         /\ {f \in ctl.primary : f \notin {"reserved", "SEC_CONTROLS"}}
                = {"USE_MSR_BITMAPS"}
         /\ cpu.features \subseteq ctl.secondary
    ELSE \A w \in DOMAIN SvmIntercept :
            /\ SvmIntercept[w] \in Intercepted(ctl) <=> w \in Asked
            /\ Intercepted(set_intercept(ctl, w))
                  = Intercepted(ctl) \cup {SvmIntercept[w]}

(* While the guest runs, no translation the processor keeps for it comes from
   the tables of an earlier enabling (set_ept_pointer's INVEPT, tlb_control
   of the VMCB), even when the new tables have the same root. *)
FreshTranslations == mode = "guest" =>
    \A t \in tlb : t.key = Key => t.version = nested.version

(* The guest never runs on VMCB state of an earlier enabling: what VMRUN
   takes from the processor's cache is what the VMCB holds. *)
RunsCurrentVmcb == mode = "guest" /\ vendor = "amd" => cache = vmcb

(* While the guest runs, the events that exit are those the hypervisor asked
   for, whatever the capability MSRs say; enabling fails only for want of
   EPT, unrestricted guests or CR3 accesses that need not exit
   (Vmcs::set_control, set_intercept, VmxRegion::new). *)
ControlsAsAsked == ExitsAsAsked /\ FailsForWantOfFeature

(* No translation and no VMCB state that the processor keeps for the running
   guest comes from an earlier enabling (set_ept_pointer, tlb_control,
   clean_bits). *)
NothingStale == FreshTranslations /\ RunsCurrentVmcb
==============================================================================
