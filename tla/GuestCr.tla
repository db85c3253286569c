------------------------------ MODULE GuestCr -------------------------------
(***************************************************************************)
(* CR0 and CR4 of a guest: set_cr and cr of the virtual CPUs               *)
(* (src/src/arch/x86_64/intel/vcpu.rs, amd/vcpu.rs), and what the          *)
(* processor makes of guest/host masks and read shadows when the guest     *)
(* reads and writes these registers.  A register is a set of flags.        *)
(***************************************************************************)
EXTENDS Vendor

CONSTANTS
    Cr0, Cr4,     \* the flags there are
    FixedCr0, FixedCr4,  \* flags VMX demands (IA32_VMX_CR0_FIXED0, CR4_FIXED0)
    LinuxCr0, LinuxCr4   \* what Linux may have in CR0 and CR4

\* Linux runs with caches on and with the flags of CR0 that VMX demands, and
\* VMX demands no flag of CR4 but its own.
ASSUME CrAssumption ==
    /\ \A a \in LinuxCr0 : FixedCr0 \ {"PG", "PE"} \subseteq a /\ a \subseteq Cr0 \ {"NW", "CD"}
    /\ FixedCr4 \subseteq {"VMXE"}

VARIABLES
    cr_pc,  \* "linux", "guest" or "left"
    r,      \* r[0] and r[4]: real, shadow and mask
    cr_own, \* cr_own[i]: what Linux last put into the register
    linux   \* LinuxContext: cr0 and cr4

cr_vars == <<vendor, cr_pc, r, cr_own, linux>>

-----------------------------------------------------------------------------
\* set_cr of the VMX virtual CPU.  The MSRs FIXED1 allow every flag.
set_cr0(val) ==
    LET must0 == Cr0 \ {"NW", "CD"}
        must1 == FixedCr0 \ {"PG", "PE"}
    IN  [real |-> (val \cap must0) \cup must1, shadow |-> val, mask |-> must1 \cup (Cr0 \ must0)]

set_cr4(val) ==
    [real |-> val \cup {"VMXE"} \cup FixedCr4, shadow |-> val \cup {"VMXE"}, mask |-> FixedCr4]

\* setup_vmcs_control clears CR4_GUEST_HOST_MASK, after set_cr.
setup_vmcs_control_cr4(x) == [x EXCEPT !.mask = {}]

\* set_cr of the SVM virtual CPU: there are no masks.
set_cr_amd(i, val) == [real |-> IF i = 0 THEN val \ {"NW"} ELSE val, shadow |-> {}, mask |-> {}]

\* Mutant: the shadow is taken for the register.
CrShadow(x) == x.shadow
\* Vcpu::cr(4)
cr(x) == (x.shadow \cap x.mask) \cup (x.real \ x.mask)

\* load_vmcs_guest and load_vmcb_guest
load_guest == [cr0 |-> r[0].real, cr4 |-> IF vendor = "intel" THEN r[4].real \ {"VMXE"} ELSE r[4].real]

-----------------------------------------------------------------------------
CrInit ==
    /\ vendor \in {"intel", "amd"}
    /\ cr_pc = "linux"
    /\ r = [i \in {0, 4} |-> [real |-> {}, shadow |-> {}, mask |-> {}]]
    /\ \E a \in LinuxCr0, b \in LinuxCr4 :
         cr_own = [i \in {0, 4} |-> IF i = 0 THEN a ELSE b] /\ linux = [cr0 |-> a, cr4 |-> b]

\* setup_vmcs_guest, setup_vmcs_control and vmcb_setup.
SetupCr ==
    /\ cr_pc = "linux" /\ cr_pc' = "guest"
    /\ r' = [i \in {0, 4} |->
               IF vendor = "amd" THEN set_cr_amd(i, IF i = 0 THEN linux.cr0 ELSE linux.cr4)
               ELSE IF i = 0 THEN set_cr0(linux.cr0) ELSE setup_vmcs_control_cr4(set_cr4(linux.cr4))]
    /\ UNCHANGED <<cr_own, linux>>

\* MOV to CR0 or CR4 in the guest.  A change of a bit of the mask is a VM
\* exit, which becomes a fault of the guest; so is a value that VMX forbids.
Forbidden(i, val) ==
    \/ (val \cap r[i].mask) # (r[i].shadow \cap r[i].mask)
    \/ vendor = "intel" /\ ~ (IF i = 0 THEN FixedCr0 \ {"PG", "PE"} ELSE FixedCr4) \subseteq
                             (val \ r[i].mask) \cup (r[i].real \cap r[i].mask)

Mov(i, val) ==
    /\ cr_pc = "guest" /\ ~ Forbidden(i, val)
    /\ r' = [r EXCEPT ![i].real = (@ \cap r[i].mask) \cup (val \ r[i].mask)]
    /\ cr_own' = [cr_own EXCEPT ![i] = val]
    /\ UNCHANGED <<cr_pc, linux>>

\* Vcpu::exit and LinuxContext::restore
Leave ==
    /\ cr_pc = "guest" /\ cr_pc' = "left"
    /\ linux' = load_guest
    /\ UNCHANGED <<r, cr_own>>

\* There is no VMXE on a processor without VMX.
Flags4 == IF vendor = "intel" THEN Cr4 ELSE Cr4 \ {"VMXE"}

CrNext ==
    /\ UNCHANGED vendor
    /\ \/ SetupCr \/ Leave
       \/ \E val \in SUBSET Cr0 : ({"PE", "PG"} \subseteq val) /\ Mov(0, val)
       \/ \E val \in SUBSET Flags4 : Mov(4, val)

CrSpec == CrInit /\ [][CrNext]_cr_vars

-----------------------------------------------------------------------------
\* Whatever the guest does to CR0 and CR4, the values the processor is
\* entered with obey VMX, and NW and CD are off in the hypervisor.
EntryIsValid ==
    cr_pc = "guest" /\ vendor = "intel" =>
        /\ FixedCr0 \ {"PE", "PG"} \subseteq r[0].real /\ FixedCr4 \subseteq r[4].real
        /\ r[0].real \cap {"NW", "CD"} = {}

\* Vcpu::cr(4), from which CPUID learns of OSXSAVE, follows the guest.
CrFollowsGuest == cr_pc = "guest" => cr(r[4]) \ {"VMXE"} = cr_own[4] \ {"VMXE"}

\* Linux has its own CR0 and CR4 back when the hypervisor is switched off.
LinuxKeepsCr ==
    cr_pc = "left" => linux.cr0 = cr_own[0] /\ linux.cr4 = cr_own[4] \ (IF vendor = "intel" THEN {"VMXE"} ELSE {})

\* Whatever the guest does to CR0 and CR4, the hypervisor reads what the guest
\* wrote, Linux has it back in the end, and the values the processor is
\* entered with obey VMX (Vcpu::set_cr, cr, load_vmcs_guest).
CrAsGuestWrote == CrFollowsGuest /\ LinuxKeepsCr /\ EntryIsValid
=============================================================================
