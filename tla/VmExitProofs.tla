---------------------------- MODULE VmExitProofs -----------------------------
(***************************************************************************)
(* Proofs about the handling of VM exits, for registers of any width, any  *)
(* values in them and any number of exits.                                 *)
(***************************************************************************)
EXTENDS VmExit, EventInjection, TLAPS

Register == [n : Nat, f : SUBSET Listed]
Event == [info : [bits : Nat, valid : BOOLEAN], error : Nat, length : Nat]
Guest == [regs : [GPR -> Register], rip : Nat, cpl : {0, 3}, osxsave : BOOLEAN, event : Event]
AllReasons == IntelReasons \cup AmdReasons \cup {"none"}
Vcpu == [regs : [GPR -> Register], save_rax : Register, rip : Nat, cpl : {0, 3}, osxsave : BOOLEAN,
         event : Event, reason : AllReasons]

\* The event of a general protection fault.
IsGP(e) == e.info = [bits |-> 13 + 256 * HardException + 2048, valid |-> TRUE] /\ e.error = 0

\* u is w but for RIP, RAX or the event: cpl, osxsave and the reason stay.
Kept(w, u) == u.cpl = w.cpl /\ u.osxsave = w.osxsave /\ u.reason = w.reason

-----------------------------------------------------------------------------
\* Numbers and flags are registers; the lower half of a register is one.
LEMMA NumIsRegister == \A n \in Nat : Num(n) \in Register /\ Num(n).n = n /\ Num(n).f = {}
BY DEF Num, Register

\* The lower half of a number is the number modulo 2^32.
LEMMA LowIsRegister ==
    \A n \in Nat : low(Num(n)) = Num(n % U32) /\ n % U32 \in 0..(U32 - 1)
BY U32Assumption DEF Num, low

\* -5 of 64 bits is a number.
LEMMA EioIsNumber == EIO \in Nat
<1>1. U32 * U32 >= 16
    BY U32Assumption
<1> QED
    BY <1>1, U32Assumption DEF EIO

\* advance_rip moves RIP and nothing else.
Advanced(w, len, u) ==
    /\ u \in Vcpu /\ Kept(w, u) /\ u.rip = w.rip + len
    /\ u.regs = w.regs /\ u.save_rax = w.save_rax /\ u.event = w.event
\* advance_rip does that for every length.
LEMMA AdvanceAt ==
    ASSUME NEW w \in Vcpu, NEW len \in Nat
    PROVE  Advanced(w, len, advance_rip(w, len))
BY DEF advance_rip, Vcpu, Kept, Advanced

\* set_return_val writes RAX and nothing else.
LEMMA ReturnAt ==
    ASSUME NEW w \in Vcpu, NEW x \in Nat
    PROVE  LET u == set_return_val(w, x) IN
           /\ u \in Vcpu /\ Kept(w, u) /\ u.rip = w.rip
           /\ u.regs = [w.regs EXCEPT !["rax"] = Num(x)]
           /\ u.save_rax = w.save_rax /\ u.event = w.event
<1>1. Num(x) \in Register
    BY NumIsRegister
<1> QED
    BY <1>1 DEF set_return_val, Vcpu, Kept

\* Both vendors encode the same fault.
LEMMA FaultAt ==
    ASSUME NEW w \in Vcpu
    PROVE  LET u == inject_fault(w) IN
           /\ u \in Vcpu /\ Kept(w, u) /\ u.rip = w.rip
           /\ u.regs = w.regs /\ u.save_rax = w.save_rax /\ IsGP(u.event)
<1> DEFINE info == [bits |-> 13 + 256 * HardException + 2048, valid |-> TRUE]
<1>1. VmcbIntInfo(HardException, GeneralProtectionFault) = info
    BY DEF VmcbIntInfo, Info, has_error_code, GeneralProtectionFault
<1>2. from_vector(GeneralProtectionFault) = info
    BY DEF from_vector, Info, has_error_code, GeneralProtectionFault, InterruptType, HardException,
       VIRTUALIZATION_VECTOR, BREAKPOINT_VECTOR, OVERFLOW_VECTOR
<1>3. ErrorCode(info) /\ ~ is_soft(intr_type(info))
    BY DEF ErrorCode, is_soft, intr_type, HardException
<1>4. info \in [bits : Nat, valid : BOOLEAN]
    BY DEF HardException
<1> HIDE DEF info
<1> DEFINE e == inject_fault(w).event
<1>5. e \in Event /\ e.info = info /\ e.error = 0
    BY <1>1, <1>2, <1>3, <1>4 DEF inject_fault, inject_event, inject_interrupt, Vcpu, Event
<1>6. inject_fault(w) = [w EXCEPT !.event = e]
    BY DEF inject_fault, Vcpu
<1> HIDE DEF e
<1> QED
    BY <1>5, <1>6 DEF Vcpu, Kept, IsGP, info

\* Deactivation: it fails with VMXOFF or leads back to Linux, RAX is set.
LEMMA DeactivateAt ==
    ASSUME NEW w \in Vcpu, NEW ret \in Nat, NEW fails \in BOOLEAN
    PROVE  LET d == deactivate_vmm(w, ret, fails) IN
           d.v = set_return_val(w, ret) /\ d.res = IF fails THEN "EIO" ELSE "linux"
BY DEF deactivate_vmm, Err

\* What hypercall() makes of a code, by the privilege of the caller.
Served(w, code, fails, o) ==
    /\ o.v \in Vcpu /\ Kept(w, o.v) /\ o.v.rip = w.rip /\ o.v.save_rax = w.save_rax
    /\ code # HypervisorDisable => o.res = "Ok" /\ o.v.regs = w.regs /\ o.v.event = w.event
    /\ code = HypervisorDisable =>
         IF w.cpl # 0 THEN o.res = "Ok" /\ o.v.regs = w.regs /\ IsGP(o.v.event)
         ELSE IF fails THEN o.res = "Ok" /\ o.v.regs = [w.regs EXCEPT !["rax"] = Num(EIO)]
         ELSE o.res = "linux" /\ o.v.regs = [w.regs EXCEPT !["rax"] = Num(0)]

\* hypercall() serves every code that way.
LEMMA HypercallAt ==
    ASSUME NEW w \in Vcpu, NEW code \in Nat, NEW fails \in BOOLEAN
    PROVE  Served(w, code, fails, hypercall(w, code, fails))
<1> DEFINE d == deactivate_vmm(w, 0, fails)
           u == set_return_val(w, 0)
           x == set_return_val(u, EIO)
<1>1. d.v = u /\ d.res = IF fails THEN "EIO" ELSE "linux"
    BY DeactivateAt
<1>2. /\ u \in Vcpu /\ Kept(w, u) /\ u.rip = w.rip /\ u.regs = [w.regs EXCEPT !["rax"] = Num(0)]
      /\ u.save_rax = w.save_rax
    BY ReturnAt
<1>3. hypercall(w, code, fails) =
        IF code # HypervisorDisable THEN Ok(w)
        ELSE IF (w.cpl = 0) # is_privileged(code) THEN Ok(inject_fault(w))
        ELSE IF d.res = "EIO" THEN Ok(set_return_val(d.v, EIO)) ELSE d
    BY DEF hypercall, TryFrom, guest_is_privileged
<1> HIDE DEF d, u
<1>4. /\ x \in Vcpu /\ Kept(u, x) /\ x.rip = u.rip /\ x.regs = [u.regs EXCEPT !["rax"] = Num(EIO)]
      /\ x.save_rax = u.save_rax
    BY <1>2, ReturnAt, EioIsNumber
<1> HIDE DEF x
<1>5. x.regs = [w.regs EXCEPT !["rax"] = Num(EIO)] /\ Kept(w, x)
    BY <1>2, <1>4 DEF Vcpu, GPR, Kept
<1>6. CASE code # HypervisorDisable
    BY <1>3, <1>6 DEF Served, Ok, Kept
<1>7. CASE code = HypervisorDisable /\ w.cpl # 0
  <2>1. is_privileged(code)
      BY <1>7, U32Assumption DEF is_privileged, HypervisorDisable
  <2>2. hypercall(w, code, fails) = Ok(inject_fault(w))
      BY <1>3, <1>7, <2>1
  <2> QED
      BY <1>7, <2>2, FaultAt DEF Served, Ok
<1>8. CASE code = HypervisorDisable /\ w.cpl = 0
  <2>1. is_privileged(code)
      BY <1>8, U32Assumption DEF is_privileged, HypervisorDisable
  <2>2. hypercall(w, code, fails) = IF fails THEN Ok(x) ELSE d
      BY <1>1, <1>3, <1>8, <2>1 DEF x
  <2>3. CASE fails
      BY <1>2, <1>4, <1>5, <1>8, <2>2, <2>3 DEF Served, Ok
  <2>4. CASE ~ fails
      BY <1>1, <1>2, <1>8, <2>2, <2>4 DEF Served
  <2> QED
      BY <2>3, <2>4
<1> QED
    BY <1>6, <1>7, <1>8

\* What CPUID leaves in the registers, for the function in the lower half of
\* RAX and what the guest has in CR4.OSXSAVE.
CpuidRegs(old, function, osxsave, new) ==
    /\ new \in [GPR -> Register] /\ new["rdi"] = old["rdi"]
    /\ \A r \in GPR \ {"rdi"} : new[r].n < U32
    /\ function = HypervisorInfo => new["rax"] = Num(HypervisorFeatures)
    /\ function = HypervisorFeatures => new["rax"] = Num(0)
    /\ function = FeatureInfo =>
         /\ "VMX" \notin new["rcx"].f /\ "HYPERVISOR" \in new["rcx"].f
         /\ osxsave => "OSXSAVE" \in new["rcx"].f
    /\ function = AmdFeatureInfo => "SVM" \notin new["rcx"].f

\* Four values in the registers that CPUID writes.
Four(old, a, b, c, d) == [old EXCEPT !["rax"] = a, !["rbx"] = b, !["rcx"] = c, !["rdx"] = d]

Holds(new, old, a, b, c, d) ==
    /\ new \in [GPR -> Register] /\ new["rdi"] = old["rdi"]
    /\ new["rax"] = a /\ new["rbx"] = b /\ new["rcx"] = c /\ new["rdx"] = d

\* Four puts them there and leaves RDI.
LEMMA FourAt ==
    ASSUME NEW old \in [GPR -> Register],
           NEW a \in Register, NEW b \in Register, NEW c \in Register, NEW d \in Register
    PROVE  Holds(Four(old, a, b, c, d), old, a, b, c, d)
BY DEF Four, GPR, Holds

\* All of them have 32 bits.
LEMMA HoldsSmall ==
    ASSUME NEW new, NEW old, NEW a, NEW b, NEW c, NEW d, Holds(new, old, a, b, c, d),
           a.n < U32, b.n < U32, c.n < U32, d.n < U32
    PROVE  \A r \in GPR \ {"rdi"} : new[r].n < U32
BY DEF Holds, GPR

\* The flags that CPUID reports are known ones.
LEMMA FeaturesAt ==
    ASSUME NEW n, NEW x \in BOOLEAN
    PROVE  /\ Flags(Features(n, x)) \in Register
           /\ Flags(Features(n, x)).n = 0 /\ Flags(Features(n, x)).f = Features(n, x)
BY DEF Flags, Features, Register, Listed

\* handle_cpuid skips the instruction and returns what CpuidRegs says.
LEMMA CpuidAt ==
    ASSUME NEW w \in Vcpu, NEW a \in Nat, NEW c \in Nat,
           w.regs["rax"] = Num(a), w.regs["rcx"] = Num(c)
    PROVE  LET o == handle_cpuid(w) IN
           /\ o.res = "Ok" /\ o.v \in Vcpu /\ Kept(w, o.v) /\ o.v.rip = w.rip + 2
           /\ o.v.save_rax = w.save_rax /\ o.v.event = w.event
           /\ CpuidRegs(w.regs, a % U32, w.osxsave, o.v.regs)
<1> DEFINE n == a % U32
           m == c % U32
           fl == Flags(Features(n, w.osxsave))
           new == CASE n = HypervisorInfo -> Four(w.regs, Num(HypervisorFeatures), Num(3), Num(3), Num(3))
                    [] n = HypervisorFeatures -> Four(w.regs, Num(0), Num(0), Num(0), Num(0))
                    [] n \in {FeatureInfo, AmdFeatureInfo} -> Four(w.regs, Num(n), Num(m), fl, Num(U32 - 1))
                    [] OTHER -> Four(w.regs, Num(n), Num(m), Num(1), Num(U32 - 1))
           u == [w EXCEPT !.regs = new]
<1>1. /\ n \in 0..(U32 - 1) /\ m \in 0..(U32 - 1) /\ w.osxsave \in BOOLEAN
      /\ w.regs \in [GPR -> Register]
      /\ low(w.regs["rax"]) = Num(n) /\ low(w.regs["rcx"]) = Num(m)
    BY LowIsRegister DEF Vcpu
<1>2. Num(n).n = n /\ Num(m).n = m /\ \A k \in Nat : (Num(n) = Num(k)) <=> n = k
    BY <1>1, NumIsRegister
<1>3. cpuid(Num(n), Num(m)) = [rax |-> Num(n), rbx |-> Num(m), rdx |-> Num(U32 - 1),
                               rcx |-> IF n \in {FeatureInfo, AmdFeatureInfo}
                                       THEN Flags(HwFeature[vendor]) ELSE Num(1)]
    BY <1>2 DEF cpuid
<1> HIDE DEF n, m
<1>4. handle_cpuid(w) = Ok(advance_rip(u, 2))
    BY <1>1, <1>2, <1>3, LeavesAssumption DEF handle_cpuid, CpuidOf, Four
<1>5. CpuidRegs(w.regs, n, w.osxsave, new)
  <2>1. /\ fl \in Register /\ fl.n = 0 /\ fl.f = Features(n, w.osxsave)
        /\ \A k \in Nat : Num(k) \in Register /\ Num(k).n = k
        /\ U32 - 1 \in Nat /\ U32 > 3 /\ n \in Nat /\ m \in Nat /\ n < U32 /\ m < U32
        /\ HypervisorFeatures \in Nat /\ HypervisorFeatures < U32
      BY <1>1, FeaturesAt, NumIsRegister, U32Assumption, LeavesAssumption
  <2> HIDE DEF fl
  <2>2. /\ Num(HypervisorFeatures).n < U32 /\ Num(3).n < U32 /\ Num(0).n < U32 /\ Num(1).n < U32
        /\ Num(n).n < U32 /\ Num(m).n < U32 /\ Num(U32 - 1).n < U32 /\ fl.n < U32
      BY <2>1, U32Assumption
  <2>3. CASE n = HypervisorInfo
    <3>1. new = Four(w.regs, Num(HypervisorFeatures), Num(3), Num(3), Num(3))
        BY <2>3, LeavesAssumption
    <3> HIDE DEF new
    <3>2. Holds(new, w.regs, Num(HypervisorFeatures), Num(3), Num(3), Num(3))
        BY <1>1, <2>1, <3>1, FourAt
    <3>3. \A r \in GPR \ {"rdi"} : new[r].n < U32
        BY <2>2, <3>2, HoldsSmall
    <3> QED
        BY <2>3, <3>2, <3>3, LeavesAssumption DEF CpuidRegs, Holds
  <2>4. CASE n = HypervisorFeatures
    <3>1. new = Four(w.regs, Num(0), Num(0), Num(0), Num(0))
        BY <2>4, LeavesAssumption
    <3> HIDE DEF new
    <3>2. Holds(new, w.regs, Num(0), Num(0), Num(0), Num(0))
        BY <1>1, <2>1, <3>1, FourAt
    <3>3. \A r \in GPR \ {"rdi"} : new[r].n < U32
        BY <2>2, <3>2, HoldsSmall
    <3> QED
        BY <2>4, <3>2, <3>3, LeavesAssumption DEF CpuidRegs, Holds
  <2>5. CASE n \in {FeatureInfo, AmdFeatureInfo}
    <3>1. new = Four(w.regs, Num(n), Num(m), fl, Num(U32 - 1))
        BY <2>5, LeavesAssumption
    <3> HIDE DEF new
    <3>2. /\ n = AmdFeatureInfo => "SVM" \notin fl.f
          /\ n = FeatureInfo => /\ "VMX" \notin fl.f /\ "HYPERVISOR" \in fl.f
                                /\ w.osxsave => "OSXSAVE" \in fl.f
        BY <2>1, <2>5, LeavesAssumption DEF Features
    <3>3. Holds(new, w.regs, Num(n), Num(m), fl, Num(U32 - 1))
        BY <1>1, <2>1, <3>1, FourAt
    <3>4. \A r \in GPR \ {"rdi"} : new[r].n < U32
        BY <2>2, <3>3, HoldsSmall
    <3> QED
        BY <2>5, <3>2, <3>3, <3>4, LeavesAssumption DEF CpuidRegs, Holds
  <2>6. CASE n \notin {HypervisorInfo, HypervisorFeatures, FeatureInfo, AmdFeatureInfo}
    <3>1. new = Four(w.regs, Num(n), Num(m), Num(1), Num(U32 - 1))
        BY <2>6
    <3> HIDE DEF new
    <3>2. Holds(new, w.regs, Num(n), Num(m), Num(1), Num(U32 - 1))
        BY <1>1, <2>1, <3>1, FourAt
    <3>3. \A r \in GPR \ {"rdi"} : new[r].n < U32
        BY <2>2, <3>2, HoldsSmall
    <3> QED
        BY <2>6, <3>2, <3>3 DEF CpuidRegs, Holds
  <2> QED
      BY <2>3, <2>4, <2>5, <2>6
<1> HIDE DEF new
<1>6. u \in Vcpu /\ Kept(w, u) /\ u.rip = w.rip /\ u.save_rax = w.save_rax /\ u.event = w.event
      /\ u.regs = new
    BY <1>5 DEF CpuidRegs, Vcpu, Kept
<1> HIDE DEF u
<1>7. Advanced(u, 2, advance_rip(u, 2))
    BY <1>6, AdvanceAt
<1> QED
    BY <1>4, <1>5, <1>6, <1>7 DEF Ok, Kept, Advanced, n

-----------------------------------------------------------------------------
CallReasons == {"VMCALL", "VMMCALL"}
Nmis == {"NMI", "EXCEPTION_NMI"}
Panics == {"entry_failure", "INVALID"}
LengthOf(reason) == IF reason \in CallReasons THEN 3
                    ELSE IF reason \in {"CPUID", "MSR_READ", "MSR_WRITE"} THEN 2 ELSE 0
Others == AllReasons \ (CallReasons \cup Nmis \cup Panics \cup {"CPUID", "MSR_READ", "MSR_WRITE", "unknown"})

\* What comes of an exit, for each reason: w is the virtual CPU with the
\* registers of the guest, a what it has in RAX, o the outcome, in which one
\* of the errors errs may still be without consequence.
Table(w, a, fails, errs, o) ==
    /\ o.v \in Vcpu /\ o.v.rip = w.rip + LengthOf(w.reason)
    /\ w.reason \in CallReasons =>
         /\ a % U32 # HypervisorDisable => o.res = "Ok" /\ o.v.regs = w.regs /\ o.v.event = w.event
         /\ a % U32 = HypervisorDisable =>
              IF w.cpl # 0 THEN o.res = "Ok" /\ o.v.regs = w.regs /\ IsGP(o.v.event)
              ELSE IF fails THEN o.res = "Ok" /\ o.v.regs = [w.regs EXCEPT !["rax"] = Num(EIO)]
              ELSE o.res = "linux" /\ o.v.regs = [w.regs EXCEPT !["rax"] = Num(0)]
    /\ w.reason = "CPUID" => o.res = "Ok" /\ CpuidRegs(w.regs, a % U32, w.osxsave, o.v.regs)
    /\ w.reason = "MSR_READ" =>
         o.res = "Ok" /\ o.v.regs = [w.regs EXCEPT !["rax"] = Num(0), !["rdx"] = Num(0)]
    /\ w.reason \in Nmis \cup {"MSR_WRITE"} => o.res = "Ok" /\ o.v.regs = w.regs
    /\ w.reason \in Panics => o.res \in {"linux", "halted"}
    /\ (w.reason = "unknown" /\ o.res # "halted") \/ w.reason \in Others =>
         o.v.regs = w.regs /\ (o.res \in errs \/ (o.res = "Ok" /\ IsGP(o.v.event)))

\* handle_msr_read.
LEMMA MsrReadAt ==
    ASSUME NEW w \in Vcpu
    PROVE  LET o == handle_msr_read(w) IN
           /\ o.res = "Ok" /\ o.v \in Vcpu /\ o.v.rip = w.rip + 2
           /\ o.v.regs = [w.regs EXCEPT !["rax"] = Num(0), !["rdx"] = Num(0)]
<1> DEFINE u == [w EXCEPT !.regs["rax"] = Num(0), !.regs["rdx"] = Num(0)]
<1>1. /\ u \in Vcpu /\ u.rip = w.rip
      /\ u.regs = [w.regs EXCEPT !["rax"] = Num(0), !["rdx"] = Num(0)]
    BY NumIsRegister DEF Vcpu
<1>2. handle_msr_read(w) = Ok(advance_rip(u, 2))
    BY DEF handle_msr_read
<1> HIDE DEF u
<1>3. Advanced(u, 2, advance_rip(u, 2))
    BY <1>1, AdvanceAt
<1> QED
    BY <1>1, <1>2, <1>3 DEF Advanced, Ok

\* A panic in a handler ends in Linux, or the CPU stops.
LEMMA PanicAt ==
    ASSUME NEW w \in Vcpu, NEW fails \in BOOLEAN
    PROVE  LET o == panic(w, fails) IN
           /\ o.v \in Vcpu /\ o.v.rip = w.rip /\ o.res \in {"linux", "halted"}
           /\ w.reason = "unknown" => o.res = "halted"
<1> DEFINE x == IF in_hypercall(w) THEN EIO ELSE 0
<1>1. x \in Nat
    BY EioIsNumber
<1> HIDE DEF x
<1> DEFINE d == deactivate_vmm(w, x, fails)
           u == set_return_val(w, x)
<1>2. d.v = u /\ d.res = IF fails THEN "EIO" ELSE "linux"
    BY <1>1, DeactivateAt
<1>3. u \in Vcpu /\ u.rip = w.rip
    BY <1>1, ReturnAt
<1>4. panic(w, fails) = IF d.res = "EIO" \/ w.reason = "unknown" THEN [res |-> "halted", v |-> w] ELSE d
    BY DEF panic, x
<1> HIDE DEF d, u
<1> QED
    BY <1>2, <1>3, <1>4

Errs == {"ENOSYS", "EIO"}

\* The handler that each reason is given to; both vendors share them.
Chosen(w, fails, o) ==
    \/ w.reason \in CallReasons /\ o = handle_hypercall(w, fails)
    \/ w.reason = "CPUID" /\ o = handle_cpuid(w)
    \/ w.reason = "MSR_READ" /\ o = handle_msr_read(w)
    \/ w.reason = "MSR_WRITE" /\ o = handle_msr_write(w)
    \/ w.reason \in Nmis /\ o = Ok(w)
    \/ w.reason \in Panics \cup {"unknown"} /\ o = panic(w, fails)
    \/ w.reason \in Others /\ o = Ok(inject_fault(w))
    \/ w.reason \in Others /\ o = Err("ENOSYS", w)
    \/ w.reason = "unknown" /\ o = Err("EIO", w)

\* Every handler does what Table says of its reason.
LEMMA ChosenTable ==
    ASSUME NEW w \in Vcpu, NEW a \in Nat, NEW c \in Nat, NEW fails \in BOOLEAN, NEW o,
           w.regs["rax"] = Num(a), w.regs["rcx"] = Num(c), Chosen(w, fails, o)
    PROVE  Table(w, a, fails, Errs, o)
<1> USE DEF CallReasons, Nmis, Panics, Others, LengthOf, Errs
<1>0. w.rip \in Nat /\ w.reason \in AllReasons
    BY DEF Vcpu
<1>1. CASE w.reason \in CallReasons /\ o = handle_hypercall(w, fails)
  <2> DEFINE u == advance_rip(w, 3)
  <2>1. low(w.regs["rax"]).n = a % U32 /\ a % U32 \in Nat
      BY LowIsRegister, NumIsRegister
  <2>2. o = hypercall(u, a % U32, fails)
      BY <1>1, <2>1 DEF handle_hypercall
  <2>3. Advanced(w, 3, u)
      BY AdvanceAt
  <2> HIDE DEF u
  <2>4. u \in Vcpu
      BY <2>3 DEF Advanced
  <2>5. Served(u, a % U32, fails, o)
      BY <2>1, <2>2, <2>4, HypercallAt
  <2> QED
      BY <1>1, <2>3, <2>5 DEF Table, Served, Advanced, Kept
<1>2. CASE w.reason = "CPUID" /\ o = handle_cpuid(w)
    BY <1>2, CpuidAt DEF Table
<1>3. CASE w.reason = "MSR_READ" /\ o = handle_msr_read(w)
    BY <1>3, MsrReadAt DEF Table
<1>4. CASE w.reason = "MSR_WRITE" /\ o = handle_msr_write(w)
  <2>1. Advanced(w, 2, advance_rip(w, 2))
      BY AdvanceAt
  <2> QED
      BY <1>4, <2>1 DEF Table, Advanced, handle_msr_write, Ok
<1>5. CASE w.reason \in Nmis /\ o = Ok(w)
    BY <1>0, <1>5 DEF Table, Ok
<1>6. CASE w.reason \in Panics \cup {"unknown"} /\ o = panic(w, fails)
    BY <1>0, <1>6, PanicAt DEF Table
<1>7. CASE w.reason \in Others /\ o = Ok(inject_fault(w))
    BY <1>0, <1>7, FaultAt DEF Table, Ok
<1>8. CASE w.reason \in Others /\ o = Err("ENOSYS", w)
  <2>1. o.v = w /\ o.res = "ENOSYS"
      BY <1>8 DEF Err
  <2> QED
      BY <1>0, <1>8, <2>1 DEF Table
<1>9. CASE w.reason = "unknown" /\ o = Err("EIO", w)
  <2>1. o.v = w /\ o.res = "EIO"
      BY <1>9 DEF Err
  <2> QED
      BY <1>0, <1>9, <2>1 DEF Table
<1> QED
    BY <1>1, <1>2, <1>3, <1>4, <1>5, <1>6, <1>7, <1>8, <1>9 DEF Chosen

\* The dispatcher of VMX.
LEMMA IntelChosen ==
    ASSUME NEW w \in Vcpu, NEW fails \in BOOLEAN, w.reason \in IntelReasons
    PROVE  Chosen(w, fails, handle_exit_intel(w, fails))
BY DEF Chosen, handle_exit_intel, IntelReasons, AmdReasons, AllReasons, CallReasons, Nmis, Panics, Others

\* The dispatcher of SVM: w is the virtual CPU with RAX fetched from the VMCB,
\* and RAX is in the VMCB afterwards.
RaxFetched(u) == [u EXCEPT !.regs["rax"] = u.save_rax]
RaxStored(w, o, x) ==
    /\ x = IF w.reason = "unknown" THEN Err("EIO", w)
           ELSE [o EXCEPT !.v.save_rax = o.v.regs["rax"]]
    /\ w.reason = "unknown" => o = Err("EIO", w)
\* handle_exit of SVM picks the same handlers, around them RAX.
LEMMA AmdChosen ==
    ASSUME NEW u \in Vcpu, NEW fails \in BOOLEAN, u.reason \in AmdReasons
    PROVE  \E o : /\ Chosen(RaxFetched(u), fails, o)
                  /\ RaxStored(RaxFetched(u), o, handle_exit_amd(u, fails))
<1> DEFINE w == RaxFetched(u)
<1> DEFINE o == CASE w.reason = "INVALID"   -> panic(w, fails)
                  [] w.reason \in {"NMI", "EXCP"} -> Ok(w)
                  [] w.reason = "CPUID"     -> handle_cpuid(w)
                  [] w.reason = "VMMCALL"   -> handle_hypercall(w, fails)
                  [] w.reason = "MSR_READ"  -> handle_msr_read(w)
                  [] w.reason = "MSR_WRITE" -> handle_msr_write(w)
                  [] w.reason = "SHUTDOWN"  -> Ok(inject_fault(w))
                  [] OTHER                  -> Err("ENOSYS", w)
<1>1. w.reason = u.reason
    BY DEF Vcpu, RaxFetched
<1>2. handle_exit_amd(u, fails) =
        IF w.reason = "unknown" THEN Err("EIO", w) ELSE [o EXCEPT !.v.save_rax = o.v.regs["rax"]]
    BY DEF handle_exit_amd, RaxFetched
<1> HIDE DEF w
<1>3. w.reason # "unknown" => Chosen(w, fails, o)
    BY <1>1 DEF Chosen, IntelReasons, AmdReasons, AllReasons, CallReasons, Nmis, Panics, Others
<1>4. w.reason = "unknown" => Chosen(w, fails, Err("EIO", w))
    BY DEF Chosen
<1> HIDE DEF o
<1>5. CASE w.reason = "unknown"
    BY <1>2, <1>4, <1>5 DEF RaxStored, w
<1>6. CASE w.reason # "unknown"
    BY <1>2, <1>3, <1>6 DEF RaxStored, w
<1> QED
    BY <1>5, <1>6

\* Every handler has a result and a state.
LEMMA ChosenShape ==
    ASSUME NEW w, NEW fails, NEW o, Chosen(w, fails, o)
    PROVE  o = [res |-> o.res, v |-> o.v]
BY DEF Chosen, Ok, Err, handle_hypercall, hypercall, handle_cpuid, CpuidOf, handle_msr_read,
   handle_msr_write, panic, deactivate_vmm

\* With SVM the outcome has RAX in the VMCB as well.
InVmcb(x) == x.v.save_rax = x.v.regs["rax"]

\* Both dispatchers: w is the virtual CPU with the guest's registers.
LEMMA DispatchTable ==
    ASSUME NEW u \in Vcpu, NEW w \in Vcpu, NEW a \in Nat, NEW c \in Nat, NEW fails \in BOOLEAN,
           vendor \in {"intel", "amd"}, u.reason \in Reasons,
           w = IF vendor = "amd" THEN RaxFetched(u) ELSE u,
           w.regs["rax"] = Num(a), w.regs["rcx"] = Num(c)
    PROVE  /\ Table(w, a, fails, Errs, handle_exit(u, fails))
           /\ vendor = "amd" => InVmcb(handle_exit(u, fails))
<1>1. CASE vendor = "intel"
  <2>1. handle_exit(u, fails) = handle_exit_intel(w, fails) /\ w.reason \in IntelReasons
      BY <1>1 DEF handle_exit, Reasons
  <2> QED
      BY <1>1, <2>1, IntelChosen, ChosenTable
<1>2. CASE vendor = "amd"
  <2>1. handle_exit(u, fails) = handle_exit_amd(u, fails) /\ u.reason \in AmdReasons
        /\ w = RaxFetched(u)
      BY <1>2 DEF handle_exit, Reasons
  <2>2. PICK o : Chosen(w, fails, o) /\ RaxStored(w, o, handle_exit_amd(u, fails))
      BY <2>1, AmdChosen
  <2>3. Table(w, a, fails, Errs, o)
      BY <2>2, ChosenTable
  <2>4. CASE w.reason = "unknown"
    <3>1. handle_exit(u, fails) = o /\ o.v = w
        BY <2>1, <2>2, <2>4 DEF Err, RaxStored
    <3>2. InVmcb(o)
        BY <2>1, <3>1 DEF InVmcb, Vcpu, GPR, RaxFetched
    <3> QED
        BY <2>3, <3>1, <3>2
  <2>5. CASE w.reason # "unknown"
    <3> DEFINE x == [o EXCEPT !.v.save_rax = o.v.regs["rax"]]
    <3>1. handle_exit(u, fails) = x
        BY <2>1, <2>2, <2>5 DEF RaxStored
    <3>2. o.v \in Vcpu /\ o = [res |-> o.res, v |-> o.v]
        BY <2>2, <2>3, ChosenShape DEF Table
    <3>3. x.res = o.res /\ x.v = [o.v EXCEPT !.save_rax = o.v.regs["rax"]]
        BY <3>2
    <3> HIDE DEF x
    <3>4. /\ x.v \in Vcpu /\ x.v.rip = o.v.rip /\ x.v.regs = o.v.regs /\ x.v.event = o.v.event
          /\ x.v.save_rax = x.v.regs["rax"]
        BY <3>2, <3>3 DEF Vcpu, GPR
    <3> QED
        BY <2>3, <3>1, <3>3, <3>4 DEF Table, InVmcb
  <2> QED
      BY <2>4, <2>5
<1> QED
    BY <1>1, <1>2

\* vmexit_handler: no error is left, it has become a fault of the guest.
LEMMA HandlerTable ==
    ASSUME NEW u \in Vcpu, NEW w \in Vcpu, NEW a \in Nat, NEW c \in Nat, NEW fails \in BOOLEAN,
           vendor \in {"intel", "amd"}, u.reason \in Reasons,
           w = IF vendor = "amd" THEN RaxFetched(u) ELSE u,
           w.regs["rax"] = Num(a), w.regs["rcx"] = Num(c)
    PROVE  /\ Table(w, a, fails, {}, vmexit_handler(u, fails))
           /\ vendor = "amd" => InVmcb(vmexit_handler(u, fails))
           /\ vmexit_handler(u, fails).res \in {"Ok", "linux", "halted"}
<1> DEFINE o == handle_exit(u, fails)
           x == vmexit_handler(u, fails)
<1>1. Table(w, a, fails, Errs, o) /\ (vendor = "amd" => InVmcb(o))
    BY DispatchTable
<1>2. x = IF o.res \in {"Ok", "linux", "halted"} THEN o ELSE Ok(inject_fault(o.v))
    BY DEF vmexit_handler
<1>3. w.reason \in AllReasons
    BY DEF Vcpu
<1> HIDE DEF o, x
<1>4. CASE o.res \in {"Ok", "linux", "halted"}
  <2>1. Table(w, a, fails, {}, o)
      BY <1>1, <1>4 DEF Table, Errs
  <2> QED
      BY <1>1, <1>2, <1>4, <2>1 DEF x
<1>5. CASE o.res \notin {"Ok", "linux", "halted"}
  <2>1. (w.reason = "unknown" \/ w.reason \in Others) /\ o.v.regs = w.regs
      BY <1>1, <1>3, <1>5 DEF Table, Others
  <2>2. x = Ok(inject_fault(o.v)) /\ o.v \in Vcpu /\ o.v.rip = w.rip + LengthOf(w.reason)
      BY <1>1, <1>2, <1>5 DEF Table
  <2> DEFINE f == inject_fault(o.v)
  <2>3. f \in Vcpu /\ f.rip = o.v.rip /\ f.regs = o.v.regs /\ f.save_rax = o.v.save_rax /\ IsGP(f.event)
      BY <2>2, FaultAt
  <2>4. x.v = f /\ x.res = "Ok"
      BY <2>2 DEF Ok
  <2> HIDE DEF f
  <2>5. w.reason \notin CallReasons \cup Nmis \cup Panics \cup {"CPUID", "MSR_READ", "MSR_WRITE"}
      BY <2>1 DEF Others, CallReasons, Nmis, Panics
  <2>6. Table(w, a, fails, {}, x)
      BY <2>1, <2>2, <2>3, <2>4, <2>5 DEF Table
  <2> QED
      BY <1>1, <2>3, <2>4, <2>6 DEF InVmcb, x
<1> QED
    BY <1>4, <1>5

-----------------------------------------------------------------------------
TypeOK ==
    /\ vendor \in {"intel", "amd"}
    /\ mode \in {"guest", "exited", "linux", "halted"}
    /\ guest \in Guest
    /\ last \in [reason : AllReasons, before : Guest]

\* While the exit is handled, the virtual CPU holds the registers that the
\* guest had, with SVM RAX in the VMCB; no event is pending.
ExitedInv ==
    mode = "exited" =>
        /\ v \in Vcpu /\ last.reason \in Reasons /\ v.reason = last.reason
        /\ v.rip = last.before.rip /\ v.cpl = last.before.cpl /\ v.osxsave = last.before.osxsave
        /\ v.event = last.before.event /\ ~ last.before.event.info.valid
        /\ v.save_rax = last.before.regs["rax"]
        /\ v.regs = IF vendor = "amd" THEN [last.before.regs EXCEPT !["rax"] = VmcbPaddr]
                    ELSE last.before.regs
        /\ \E a, c \in Nat : last.before.regs["rax"] = Num(a) /\ last.before.regs["rcx"] = Num(c)

ExitInv ==
    /\ TypeOK /\ ExitedInv
    /\ AdvancedOnce /\ HypercallsAsDefined /\ InstructionsAsEmulated /\ ExitMakesProgress

\* The first entry of the guest.
LEMMA ExitInit == Init => ExitInv
<1> SUFFICES ASSUME Init PROVE ExitInv
    OBVIOUS
<1>1. Start \in Guest
    BY NumIsRegister DEF Start, Guest, Event, NoEvent
<1>2. TypeOK
    BY <1>1 DEF Init, TypeOK, AllReasons
<1>3. ~ Handled /\ mode = "guest"
    BY DEF Init, Handled
<1> QED
    BY <1>2, <1>3 DEF ExitInv, ExitedInv, AdvancedOnce, HypercallsAsDefined, UnknownCallHasNoEffect,
       DisableIsPrivileged, InstructionsAsEmulated, RegistersAsEmulated, CpuidHidesVirtualization,
       ExitMakesProgress

\* The guest leaves: what the processor and the stubs store.
LEMMA ExitLeaves ==
    ASSUME ExitInv, UNCHANGED vendor, NEW reason \in Reasons, NEW rax \in Inputs, NEW rcx \in {0, U32 + 1},
           NEW cpl \in {0, 3}, NEW x \in BOOLEAN, Exit(reason, rax, rcx, cpl, x)
    PROVE  ExitInv'
<1> DEFINE g == [guest EXCEPT !.regs["rax"] = Num(rax), !.regs["rcx"] = Num(rcx),
                              !.cpl = cpl, !.osxsave = x, !.event.info.valid = FALSE]
<1>1. rax \in Nat /\ rcx \in Nat /\ Num(rax) \in Register /\ Num(rcx) \in Register /\ VmcbPaddr \in Register
    BY NumIsRegister, U32Assumption, InputsAssumption DEF VmcbPaddr
<1>2. /\ g \in Guest /\ ~ g.event.info.valid /\ g.cpl = cpl /\ g.osxsave = x
      /\ g.regs["rax"] = Num(rax) /\ g.regs["rcx"] = Num(rcx)
    BY <1>1 DEF ExitInv, TypeOK, Guest, Event, GPR
<1>3. /\ last' = [reason |-> reason, before |-> g] /\ guest' = g /\ mode' = "exited"
      /\ v' = [regs |-> IF vendor = "amd" THEN [g.regs EXCEPT !["rax"] = VmcbPaddr] ELSE g.regs,
               save_rax |-> g.regs["rax"], rip |-> g.rip, cpl |-> cpl, osxsave |-> x,
               event |-> g.event, reason |-> reason]
    BY DEF Exit
<1> HIDE DEF g
<1>4. reason \in AllReasons /\ Reasons' = Reasons
    BY DEF Reasons, AllReasons
<1>5. TypeOK'
    BY <1>2, <1>3, <1>4 DEF ExitInv, TypeOK
<1>6. v' \in Vcpu
    BY <1>1, <1>2, <1>3, <1>4 DEF Vcpu, Guest
<1>7. ExitedInv'
    BY <1>1, <1>2, <1>3, <1>4, <1>6 DEF ExitedInv
<1>8. ~ Handled' /\ mode' = "exited"
    BY <1>3 DEF Handled
<1> QED
    BY <1>5, <1>7, <1>8 DEF ExitInv, AdvancedOnce, HypercallsAsDefined, UnknownCallHasNoEffect,
       DisableIsPrivileged, InstructionsAsEmulated, RegistersAsEmulated, CpuidHidesVirtualization,
       ExitMakesProgress

\* The exit is handled: Table, in terms of what the guest or Linux finds.
Found(w, a, fails, o) ==
    /\ w \in Vcpu /\ a \in Nat /\ last.before.regs["rax"] = Num(a)
    /\ w.regs = last.before.regs /\ w.rip = last.before.rip /\ w.cpl = last.before.cpl
    /\ w.osxsave = last.before.osxsave /\ w.event = last.before.event /\ w.reason = last.reason
    /\ Table(w, a, fails, {}, o) /\ o.res \in {"Ok", "linux", "halted"}
    /\ mode' = IF o.res \in {"linux", "halted"} THEN o.res ELSE "guest"
    /\ guest' \in Guest
    /\ guest'.regs = o.v.regs /\ guest'.rip = o.v.rip /\ guest'.event = o.v.event

\* vmexit_handler comes to that on either vendor.
LEMMA HandleFound ==
    ASSUME ExitInv, NEW fails \in BOOLEAN, Handle(fails)
    PROVE  \E w, a, o : Found(w, a, fails, o)
<1> USE DEF ExitInv
<1>1. /\ mode = "exited" /\ v \in Vcpu /\ v.reason \in Reasons /\ vendor \in {"intel", "amd"}
      /\ last.before \in Guest /\ last.before.regs \in [GPR -> Register]
    BY DEF Handle, ExitedInv, TypeOK, Guest
<1>2. PICK a \in Nat, c \in Nat : last.before.regs["rax"] = Num(a) /\ last.before.regs["rcx"] = Num(c)
    BY <1>1 DEF ExitedInv
<1> DEFINE w == IF vendor = "amd" THEN RaxFetched(v) ELSE v
           o == vmexit_handler(v, fails)
<1>3. /\ w \in Vcpu /\ w.regs = last.before.regs /\ w.rip = last.before.rip
      /\ w.cpl = last.before.cpl /\ w.osxsave = last.before.osxsave
      /\ w.event = last.before.event /\ w.reason = last.reason
  <2>1. CASE vendor = "amd"
    <3>1. w = [v EXCEPT !.regs["rax"] = v.save_rax]
        BY <2>1 DEF RaxFetched
    <3> HIDE DEF w
    <3>2. w.regs = [v.regs EXCEPT !["rax"] = v.save_rax] /\ w \in Vcpu
          /\ w.rip = v.rip /\ w.cpl = v.cpl /\ w.osxsave = v.osxsave /\ w.event = v.event
          /\ w.reason = v.reason
        BY <1>1, <3>1 DEF Vcpu
    <3>3. w.regs = last.before.regs
      <4>1. v.regs = [last.before.regs EXCEPT !["rax"] = VmcbPaddr] /\ v.save_rax = last.before.regs["rax"]
          BY <1>1, <2>1 DEF ExitedInv
      <4> QED
          BY <1>1, <3>2, <4>1 DEF GPR
    <3> QED
        BY <1>1, <3>2, <3>3 DEF ExitedInv
  <2>2. CASE vendor = "intel"
      BY <1>1, <2>2 DEF ExitedInv
  <2> QED
      BY <1>1, <2>1, <2>2
<1>4. /\ Table(w, a, fails, {}, o) /\ (vendor = "amd" => InVmcb(o))
      /\ o.res \in {"Ok", "linux", "halted"}
    BY <1>1, <1>2, <1>3, HandlerTable
<1>5. /\ mode' = IF o.res \in {"linux", "halted"} THEN o.res ELSE "guest"
      /\ guest' = IF o.res = "linux" THEN [Resumed(o.v) EXCEPT !.regs = o.v.regs] ELSE Resumed(o.v)
    BY DEF Handle
<1> HIDE DEF w, o
<1>6. o.v \in Vcpu
    BY <1>4 DEF Table
<1> DEFINE R == Resumed(o.v)
<1>7. /\ R \in Guest /\ R.regs = o.v.regs /\ R.rip = o.v.rip /\ R.event = o.v.event
  <2>1. vendor = "amd" => [o.v.regs EXCEPT !["rax"] = o.v.save_rax] = o.v.regs
      BY <1>4, <1>6 DEF InVmcb, Vcpu, GPR
  <2>2. R = [regs |-> o.v.regs, rip |-> o.v.rip, cpl |-> o.v.cpl, osxsave |-> o.v.osxsave,
             event |-> o.v.event]
      BY <2>1 DEF Resumed
  <2> HIDE DEF R
  <2> QED
      BY <1>6, <2>2 DEF Vcpu, Guest
<1> HIDE DEF R
<1>8. guest' \in Guest /\ guest'.regs = o.v.regs /\ guest'.rip = o.v.rip /\ guest'.event = o.v.event
  <2>1. guest' = IF o.res = "linux" THEN [R EXCEPT !.regs = o.v.regs] ELSE R
      BY <1>5 DEF R
  <2> QED
      BY <1>6, <1>7, <2>1 DEF Guest, Vcpu
<1>9. Found(w, a, fails, o)
    BY <1>2, <1>3, <1>4, <1>5, <1>8 DEF Found
<1> QED
    BY <1>9

\* So handling an exit preserves the invariant.
LEMMA ExitHandled ==
    ASSUME ExitInv, UNCHANGED vendor, NEW fails \in BOOLEAN, Handle(fails)
    PROVE  ExitInv'
<1>1. PICK w, a, o : Found(w, a, fails, o)
    BY HandleFound
<1>2. UNCHANGED last /\ Reasons' = Reasons
    BY DEF Handle, Reasons
<1> DEFINE r == last.reason
           b == last.before
<1>3. /\ last.reason \in AllReasons /\ last.before \in Guest /\ b.rip \in Nat
      /\ b.regs \in [GPR -> Register] /\ b.regs["rax"].n = a /\ Code' = a % U32
      /\ mode = "exited" /\ ~ b.event.info.valid /\ r \in Reasons
    BY <1>1, <1>2, NumIsRegister DEF Found, ExitInv, TypeOK, ExitedInv, Guest, Code, Handle
<1>4. TypeOK' /\ ExitedInv'
    BY <1>1, <1>2 DEF Found, ExitInv, TypeOK, ExitedInv
<1>5. AdvancedOnce'
  <2>1. DOMAIN Length = {"CPUID", "MSR_READ", "MSR_WRITE", "VMCALL", "VMMCALL"}
      BY DEF Length
  <2>2. guest'.rip = b.rip + LengthOf(r)
      BY <1>1 DEF Found, Table
  <2>3. LengthOf(r) = IF r \in DOMAIN Length THEN Length[r] ELSE 0
      BY <2>1 DEF LengthOf, Length, CallReasons
  <2> QED
      BY <1>2, <2>2, <2>3 DEF AdvancedOnce
<1>6. HypercallsAsDefined'
  <2>1. UnknownCallHasNoEffect'
      BY <1>1, <1>2, <1>3 DEF UnknownCallHasNoEffect, Found, Table, Call, CallReasons
  <2>2. DisableIsPrivileged'
    <3>1. ASSUME mode' = "linux", r \notin {"entry_failure", "INVALID"}
          PROVE  r \in CallReasons /\ a % U32 = HypervisorDisable /\ b.cpl = 0
                 /\ guest'.regs = [b.regs EXCEPT !["rax"] = Num(0)]
        BY <1>1, <1>3, <3>1 DEF Found, Table, Others, Panics, CallReasons, AllReasons
    <3>2. ASSUME mode' = "guest", r \in CallReasons, a % U32 = HypervisorDisable
          PROVE  IF b.cpl = 0 THEN guest'.regs = [b.regs EXCEPT !["rax"] = Num(EIO)]
                 ELSE IsGP(guest'.event) /\ guest'.regs = b.regs
        BY <1>1, <3>2 DEF Found, Table
    <3>3. \A k : [b.regs EXCEPT !["rax"] = k]["rax"] = k
        BY <1>3 DEF GPR
    <3> QED
        BY <1>2, <1>3, <3>1, <3>2, <3>3 DEF DisableIsPrivileged, Call, CallReasons, IsGP, GP, Handled
  <2> QED
      BY <2>1, <2>2 DEF HypercallsAsDefined
<1>7. InstructionsAsEmulated'
  <2>1. ASSUME r = "CPUID"
        PROVE  CpuidRegs(b.regs, a % U32, b.osxsave, guest'.regs) /\ mode' = "guest"
      BY <1>1, <2>1 DEF Found, Table
  <2>2. ASSUME r = "MSR_READ"
        PROVE  guest'.regs = [b.regs EXCEPT !["rax"] = Num(0), !["rdx"] = Num(0)]
      BY <1>1, <2>2 DEF Found, Table
  <2>3. ASSUME r \notin CallReasons \cup {"CPUID", "MSR_READ"}, mode' = "guest"
        PROVE  guest'.regs = b.regs
      BY <1>1, <1>3, <2>3 DEF Found, Table, Others, Panics, CallReasons, Nmis
  <2>4. RegistersAsEmulated'
    <3> SUFFICES ASSUME r \notin CallReasons, mode' = "guest"
                 PROVE  RegistersAsEmulated'
        BY <1>2 DEF RegistersAsEmulated, Call, CallReasons
    <3>1. CASE r = "CPUID"
        BY <1>2, <1>3, <2>1, <3>1 DEF RegistersAsEmulated, CpuidRegs, GPR
    <3>2. CASE r = "MSR_READ"
      <4>1. Num(0).n < U32
          BY NumIsRegister, U32Assumption
      <4> QED
          BY <1>2, <1>3, <2>2, <3>2, <4>1 DEF RegistersAsEmulated, GPR
    <3>3. CASE r \notin {"CPUID", "MSR_READ"}
        BY <1>2, <2>3, <3>3 DEF RegistersAsEmulated
    <3> QED
        BY <3>1, <3>2, <3>3
  <2>5. CpuidHidesVirtualization'
      BY <1>2, <1>3, <2>1 DEF CpuidHidesVirtualization, CpuidRegs
  <2> QED
      BY <2>4, <2>5 DEF InstructionsAsEmulated
<1>8. ExitMakesProgress'
    BY <1>1, <1>2, <1>3 DEF ExitMakesProgress, Found, Table, IsGP, GP, LengthOf, Others, Panics,
       CallReasons, Nmis
<1> QED
    BY <1>4, <1>5, <1>6, <1>7, <1>8 DEF ExitInv

\* The invariant holds in every state.
LEMMA ExitCorrect == Spec => []ExitInv
<1>1. ExitInv /\ UNCHANGED vars => ExitInv'
    BY SMTT(60) DEF vars, ExitInv, TypeOK, ExitedInv, Reasons, AdvancedOnce, HypercallsAsDefined,
       UnknownCallHasNoEffect, DisableIsPrivileged, InstructionsAsEmulated, RegistersAsEmulated,
       CpuidHidesVirtualization, ExitMakesProgress, Handled, Call, Code, GP
<1>2. ExitInv /\ Next => ExitInv'
    BY ExitLeaves, ExitHandled DEF Next
<1> QED
    BY <1>1, <1>2, ExitInit, PTL DEF Spec

\* An emulated instruction is completed once on every path, a disable
\* hypercall that goes back to Linux included, and everything else goes on
\* where it was (advance_rip, handle_hypercall).
THEOREM AdvancedOnceHolds == Spec => []AdvancedOnce
BY ExitCorrect, PTL DEF ExitInv

\* What is unsupported has no effect, and the hypervisor is disabled by the
\* guest kernel only (hypercall, hypervisor_disable).
THEOREM HypercallsAsDefinedHolds == Spec => []HypercallsAsDefined
BY ExitCorrect, PTL DEF ExitInv

\* The guest finds in its registers what an emulated instruction defines, and
\* CPUID tells of the hypervisor and not of VMX or SVM, whatever the processor
\* reports (handle_cpuid, handle_msr_read, handle_msr_write).
THEOREM InstructionsAsEmulatedHolds == Spec => []InstructionsAsEmulated
BY ExitCorrect, PTL DEF ExitInv

\* After every exit but an NMI the guest goes on behind the instruction or
\* receives a fault (vmexit_handler).
THEOREM ExitMakesProgressHolds == Spec => []ExitMakesProgress
BY ExitCorrect, PTL DEF ExitInv

-----------------------------------------------------------------------------
(* Injection of events                                                     *)


\* The fields hold what the last injection wrote.
InjectedInv ==
    /\ entry_fields = [info |-> entry_fields.info, error |-> entry_fields.error,
                       length |-> entry_fields.length]
    /\ asked # Nothing =>
         /\ asked.vector \in Vector
         /\ entry_fields.info = from_vector(asked.vector)
         /\ has_error_code(asked.vector) =>
              entry_fields.error = IF asked.code = -1 THEN exit_fields.error ELSE asked.code
         /\ asked.vector \in {BREAKPOINT_VECTOR, OVERFLOW_VECTOR} =>
              entry_fields.length = exit_fields.length

\* Every vector has a type of three bits, and the bits can be read back.
LEMMA InfoReadBack ==
    ASSUME NEW vector \in Vector
    PROVE  LET info == from_vector(vector) IN
           /\ info.valid /\ info.bits % 256 = vector
           /\ (info.bits \div 256) % 8 = InterruptType(vector)
           /\ ErrorCode(info) <=> has_error_code(vector)
           /\ vector \in {BREAKPOINT_VECTOR, OVERFLOW_VECTOR} => is_soft(intr_type(info))
<1>1. InterruptType(vector) \in {0, 2, 3, 6, 7}
    BY DEF InterruptType, NMI, HardException, SoftException, BREAKPOINT_VECTOR,
       OVERFLOW_VECTOR, VIRTUALIZATION_VECTOR, Vector
<1> DEFINE t == InterruptType(vector)
           k == IF has_error_code(vector) THEN 2048 ELSE 0
           bits == vector + 256 * t + k
<1>2. from_vector(vector) = [bits |-> bits, valid |-> TRUE]
    BY DEF from_vector, Info, has_error_code, has_error_code
<1>3. vector \in BREAKPOINT_VECTOR..OVERFLOW_VECTOR => t = 6
    BY DEF InterruptType, SoftException, BREAKPOINT_VECTOR, OVERFLOW_VECTOR, BREAKPOINT_VECTOR,
       OVERFLOW_VECTOR, Vector
<1>4. t \in {0, 2, 3, 6, 7} /\ k \in {0, 2048} /\ vector \in 0..255 /\ (has_error_code(vector) <=> k = 2048)
    BY <1>1 DEF Vector
<1> HIDE DEF t, k
<1>5. bits % 256 = vector /\ (bits \div 256) % 8 = t /\ ((bits \div 2048) % 2 = 1 <=> k = 2048)
  <2>1. CASE k = 0
      BY <1>4, <2>1
  <2>2. CASE k = 2048
      BY <1>4, <2>2
  <2> QED
      BY <1>4, <2>1, <2>2
<1> HIDE DEF bits
<1> QED
    BY <1>2, <1>3, <1>4, <1>5 DEF ErrorCode, is_soft, intr_type, t, BREAKPOINT_VECTOR, OVERFLOW_VECTOR

\* An injection writes the fields it needs and keeps the others.
LEMMA InjectedStep == InjectedInv /\ [EventNext]_event_vars => InjectedInv'
<1> SUFFICES ASSUME InjectedInv, [EventNext]_event_vars PROVE InjectedInv'
    OBVIOUS
<1>1. CASE Deliver
    BY <1>1 DEF InjectedInv, Deliver
<1>2. ASSUME NEW vector \in Vector, NEW code \in Codes \cup {-1}, Inject(vector, code)
      PROVE  InjectedInv'
  <2> DEFINE info == from_vector(vector)
  <2>1. /\ entry_fields' = [entry_fields EXCEPT
               !.info = info,
               !.error = IF ErrorCode(info) THEN (IF code = -1 THEN exit_fields.error ELSE code) ELSE @,
               !.length = IF is_soft(intr_type(info)) THEN exit_fields.length ELSE @]
        /\ asked' = [vector |-> vector, code |-> code] /\ exit_fields' = exit_fields
      BY <1>2 DEF Inject, inject_interrupt
  <2>2. /\ has_error_code(vector) => ErrorCode(info)
        /\ vector \in {BREAKPOINT_VECTOR, OVERFLOW_VECTOR} => is_soft(intr_type(info))
      BY InfoReadBack
  <2> HIDE DEF info
  <2>3. entry_fields' = [info |-> info,
               error |-> IF ErrorCode(info) THEN (IF code = -1 THEN exit_fields.error ELSE code)
                         ELSE entry_fields.error,
               length |-> IF is_soft(intr_type(info)) THEN exit_fields.length ELSE entry_fields.length]
      BY <2>1 DEF InjectedInv
  <2> QED
      BY <2>1, <2>2, <2>3 DEF InjectedInv, info
<1>3. CASE UNCHANGED event_vars
    BY <1>3 DEF InjectedInv, event_vars
<1> QED
    BY <1>1, <1>2, <1>3 DEF EventNext, Vector, Vector

\* The event the processor delivers is the one that was asked for, whatever
\* earlier injections left in the fields, and both vendors encode the same
\* fault (Vmcs::inject_interrupt, InterruptInfo::from_vector).
THEOREM DeliveredAsAskedHolds == EventSpec => []DeliveredAsAsked
<1>1. EventInit => InjectedInv
    BY DEF EventInit, InjectedInv, NoEvent
<1>2. InjectedInv => DeliveredAsAsked
  <2> SUFFICES ASSUME InjectedInv PROVE DeliveredAsAsked
      OBVIOUS
  <2>1. FieldsAsAsked
      BY InfoReadBack DEF InjectedInv, FieldsAsAsked, ExitInterruptInfo, has_error_code, has_error_code,
         BREAKPOINT_VECTOR, OVERFLOW_VECTOR, BREAKPOINT_VECTOR, OVERFLOW_VECTOR
  <2>2. VendorsAgree
    <3> SUFFICES ASSUME NEW vector \in 0..20 \ {2, 3, 4}, asked.vector = vector
                 PROVE  entry_fields.info = VmcbIntInfo(HardException, vector)
        BY DEF VendorsAgree, VIRTUALIZATION_VECTOR, BREAKPOINT_VECTOR, OVERFLOW_VECTOR
    <3>1. asked # Nothing
        BY DEF Nothing
    <3>2. entry_fields.info = from_vector(vector)
        BY <3>1 DEF InjectedInv
    <3>3. InterruptType(vector) = HardException
        BY DEF InterruptType, VIRTUALIZATION_VECTOR, BREAKPOINT_VECTOR, OVERFLOW_VECTOR
    <3> QED
        BY <3>2, <3>3 DEF from_vector, VmcbIntInfo
  <2> QED
      BY <2>1, <2>2 DEF DeliveredAsAsked
<1> QED
    BY <1>1, <1>2, InjectedStep, PTL DEF EventSpec

=============================================================================
