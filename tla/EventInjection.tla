--------------------------- MODULE EventInjection ---------------------------
(***************************************************************************)
(* One virtual CPU that takes exits and gets events injected, with every   *)
(* vector: the VM-entry fields keep their old values until they are        *)
(* written, and the processor takes back only VALID.                       *)
(***************************************************************************)
EXTENDS InterruptInfo

CONSTANTS Codes, Lengths  \* error codes and instruction lengths that occur

VARIABLES entry_fields, exit_fields, asked
event_vars == <<entry_fields, exit_fields, asked>>

Nothing == [vector |-> -1, code |-> -1]

EventInit ==
    /\ entry_fields = NoEvent /\ asked = Nothing
    /\ exit_fields \in [error : Codes, length : Lengths]

Inject(vector, code) ==
    /\ asked = Nothing
    /\ entry_fields' = inject_interrupt(entry_fields, vector, code, exit_fields)
    /\ asked' = [vector |-> vector, code |-> code]
    /\ UNCHANGED exit_fields

\* The guest is entered, the event delivered, and the guest leaves again.
Deliver ==
    /\ asked # Nothing
    /\ entry_fields' = [entry_fields EXCEPT !.info.valid = FALSE]
    /\ asked' = Nothing
    /\ exit_fields' \in [error : Codes, length : Lengths]

EventNext == Deliver \/ \E vector \in Vector, code \in Codes \cup {-1} : Inject(vector, code)
EventSpec == EventInit /\ [][EventNext]_event_vars

\* The event that the processor delivers is the one that was asked for, no
\* matter what earlier injections left in the fields: its vector and type, an
\* error code where the vector has one, which is the one given or else that of
\* the exit, and for a software exception the length of the instruction that
\* caused the exit.  ExitInterruptInfo::new reads back what from_vector put
\* together.
FieldsAsAsked ==
    asked # Nothing =>
        LET r == ExitInterruptInfo(entry_fields.info)
        IN  /\ r.valid /\ r.vector = asked.vector
            /\ r.interruption_type = InterruptType(asked.vector)
            /\ ErrorCode(entry_fields.info) <=> has_error_code(asked.vector)
            /\ has_error_code(asked.vector) =>
                 entry_fields.error = IF asked.code = -1 THEN exit_fields.error ELSE asked.code
            /\ r.vector \in {BREAKPOINT_VECTOR, OVERFLOW_VECTOR} => entry_fields.length = exit_fields.length

\* The two encoders agree on all hardware exceptions, so that a fault
\* injected with VMX is the fault injected with SVM.
VendorsAgree ==
    \A vector \in 0..VIRTUALIZATION_VECTOR \ {2, BREAKPOINT_VECTOR, OVERFLOW_VECTOR} :
        asked.vector = vector => entry_fields.info = VmcbIntInfo(HardException, vector)

\* The event that the processor delivers is the one that was asked for, no
\* matter what earlier injections left in the fields, and a fault injected
\* with VMX is the fault injected with SVM (Vmcs::inject_interrupt,
\* InterruptInfo::from_vector, VmcbIntInfo::from).
DeliveredAsAsked == FieldsAsAsked /\ VendorsAgree
=============================================================================
