--------------------------- MODULE InterruptInfo ----------------------------
(***************************************************************************)
(* Events injected into the guest: the VM-entry interruption information   *)
(* of VMX (src/crates/libvmm/src/x86_64/vmx/flags.rs, vmx/vmcs.rs) and     *)
(* EVENTINJ of SVM (svm/flags.rs, svm/vmcb.rs).  Bits 7:0 are the vector,  *)
(* 10:8 the type, bit 11 says that an error code is delivered; bit 31,     *)
(* VALID, is a field of its own here.                                      *)
(***************************************************************************)
EXTENDS Integers

Vector == 0..255
NMI == 2
HardException == 3
SoftException == 6

\* Values of the crate x86: BREAKPOINT, OVERFLOW, VIRTUALIZATION ... _VECTOR.
BREAKPOINT_VECTOR == 3
OVERFLOW_VECTOR == 4
VIRTUALIZATION_VECTOR == 20
GeneralProtectionFault == 13

\* InterruptType::from_vector
InterruptType(vector) ==
    CASE vector = 2 -> NMI
      [] vector \in {BREAKPOINT_VECTOR, OVERFLOW_VECTOR} -> SoftException
      [] vector \in 0..VIRTUALIZATION_VECTOR \ {2, BREAKPOINT_VECTOR, OVERFLOW_VECTOR} -> HardException
      [] vector \in 32..255 -> 0
      [] OTHER -> 7

is_soft(type) == type \in {4, 5, 6}

\* The same function in both files.
has_error_code(vector) == vector \in {8, 10, 11, 12, 13, 14, 17}

\* set_bits, then VALID and ERROR_CODE.
Info(type, vector) ==
    [bits |-> vector + 256 * type + (IF has_error_code(vector) THEN 2048 ELSE 0), valid |-> TRUE]

\* InterruptInfo::from_vector and VmcbIntInfo::from
from_vector(vector) == Info(InterruptType(vector), vector)
VmcbIntInfo(type, vector) == Info(type, vector)

\* get_bits and contains
intr_type(info) == (info.bits \div 256) % 8
ErrorCode(info) == (info.bits \div 2048) % 2 = 1

\* Mutant: the error code follows the argument and not the vector.
InjectGivenCode(f, vector, code, exit) ==
    LET info == from_vector(vector)
    IN  [f EXCEPT !.info = info,
                  !.error = IF code # -1 THEN code ELSE @,
                  !.length = IF is_soft(intr_type(info)) THEN exit.length ELSE @]

\* Vmcs::inject_interrupt on the VM-entry fields f; code -1 is None.
inject_interrupt(f, vector, code, exit) ==
    LET info == from_vector(vector)
    IN  [f EXCEPT !.info = info,
                  !.error = IF ErrorCode(info) THEN (IF code = -1 THEN exit.error ELSE code) ELSE @,
                  !.length = IF is_soft(intr_type(info)) THEN exit.length ELSE @]

\* Vmcb::inject_event
inject_event(f, info, code) == [f EXCEPT !.info = info, !.error = code]

NoEvent == [info |-> [bits |-> 0, valid |-> FALSE], error |-> 0, length |-> 0]

\* ExitInterruptInfo::new, for what the processor reports about an event.
ExitInterruptInfo(info) ==
    [vector |-> info.bits % 256, interruption_type |-> (info.bits \div 256) % 8, valid |-> info.valid]
=============================================================================
