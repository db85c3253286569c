------------------------- MODULE HvLifecycleProofs -------------------------
(***************************************************************************)
(* Proofs about HvLifecycle for any finite set of CPUs, any error codes    *)
(* and any modulus of the counters.                                        *)
(***************************************************************************)
EXTENDS HvLifecycle, FiniteSetTheorems, TLAPS

\* The image as loaded has the types of TypeOK.
LEMMA InitType == Init => TypeOK
<1>. SUFFICES ASSUME Init PROVE TypeOK
  OBVIOUS
<1>1. Word \in Nat /\ Word > 1
  BY CpuAssumption, WordAssumption, FS_CardinalityType
<1>2. vmx \in [CPU -> BOOLEAN] /\ disabling \in BOOLEAN
  BY Zenon DEF Init
<1>. QED
  BY <1>1, <1>2 DEF Init, TypeOK, Location, HvLocation, NoId

\* Every step of a CPU or of the driver keeps them.
LEMMA TypeStep == TypeOK /\ [Next]_vars => TypeOK'
<1>. SUFFICES ASSUME TypeOK, [Next]_vars PROVE TypeOK'
  OBVIOUS
<1>. Word \in Nat /\ Word > 1
  BY CpuAssumption, WordAssumption, FS_CardinalityType
<1>. \A n \in 0..(Word - 1) : Inc(n) \in 0..(Word - 1) /\ Dec(n) \in 0..(Word - 1)
  BY DEF Inc, Dec
<1>. USE DEF TypeOK, Location, HvLocation, Goto, Fail, Recheck, WaitFor, PassDisable,
             sync, leave, host, drv, EIO, EBUSY, EINVAL, NoId
<1>1. ASSUME NEW c \in CPU, NewCheck(c) PROVE TypeOK'
  BY <1>1, SMTT(30) DEF NewCheck
<1>2. ASSUME NEW c \in CPU, New(c) PROVE TypeOK'
  BY <1>2 DEF New
<1>3. ASSUME NEW c \in CPU, WaitEntered(c) PROVE TypeOK'
  BY <1>3 DEF WaitEntered
<1>4. ASSUME NEW c \in CPU, CheckEntered(c) PROVE TypeOK'
  BY <1>4 DEF CheckEntered
<1>5. ASSUME NEW c \in CPU, PrimaryInitEarly(c) PROVE TypeOK'
  BY <1>5, ErrorAssumption, SMTT(30) DEF PrimaryInitEarly
<1>6. ASSUME NEW c \in CPU, WaitEarly(c) PROVE TypeOK'
  BY <1>6 DEF WaitEarly
<1>7. ASSUME NEW c \in CPU, CheckEarly(c) PROVE TypeOK'
  BY <1>7 DEF CheckEarly
<1>8. ASSUME NEW c \in CPU, InitContext(c) PROVE TypeOK'
  BY <1>8 DEF InitContext
<1>9. ASSUME NEW c \in CPU, VcpuNew(c) PROVE TypeOK'
  <2>1. vmx' \in [CPU -> BOOLEAN]
    BY <1>9, Zenon DEF VcpuNew
  <2>2. state' \in [CPU -> {"HvDisabled", "HvEnabled"}]
    BY <1>9 DEF VcpuNew
  <2>3. code' \in [CPU -> Int] /\ pc' \in [CPU -> Location]
    BY <1>9, ErrorAssumption DEF VcpuNew
  <2>. QED
    BY <1>9, <2>1, <2>2, <2>3 DEF VcpuNew
<1>10. ASSUME NEW c \in CPU, InitedAdd(c) PROVE TypeOK'
  BY <1>10 DEF InitedAdd
<1>11. ASSUME NEW c \in CPU, WaitInited(c) PROVE TypeOK'
  BY <1>11 DEF WaitInited
<1>12. ASSUME NEW c \in CPU, CheckInited(c) PROVE TypeOK'
  BY <1>12 DEF CheckInited
<1>13. ASSUME NEW c \in CPU, PrimaryInitLate(c) PROVE TypeOK'
  BY <1>13 DEF PrimaryInitLate
<1>14. ASSUME NEW c \in CPU, WaitLate(c) PROVE TypeOK'
  BY <1>14 DEF WaitLate
<1>15. ASSUME NEW c \in CPU, CheckLate(c) PROVE TypeOK'
  BY <1>15 DEF CheckLate
<1>16. ASSUME NEW c \in CPU, ActivateVmm(c) PROVE TypeOK'
  BY <1>16 DEF ActivateVmm
<1>17. ASSUME NEW c \in CPU, VcpuEnter(c) PROVE TypeOK'
  BY <1>17, ErrorAssumption, SMTT(30) DEF VcpuEnter
<1>18. ASSUME NEW c \in CPU, StoreErr(c) PROVE TypeOK'
  BY <1>18 DEF StoreErr
<1>19. ASSUME NEW c \in CPU, LoadErr(c) PROVE TypeOK'
  BY <1>19 DEF LoadErr
<1>20. ASSUME NEW c \in CPU, HypervisorDisable(c) PROVE TypeOK'
  BY <1>20 DEF HypervisorDisable
<1>21. ASSUME NEW c \in CPU, TryDisable(c) PROVE TypeOK'
  BY <1>21 DEF TryDisable
<1>22. ASSUME NEW c \in CPU, WaitDisable(c) PROVE TypeOK'
  BY <1>22 DEF WaitDisable
<1>23. ASSUME NEW c \in CPU, DeactivateVmm(c) PROVE TypeOK'
  BY <1>23 DEF DeactivateVmm
<1>24. ASSUME NEW c \in CPU, VcpuExit(c) PROVE TypeOK'
  <2>1. vmx' \in [CPU -> BOOLEAN]
    BY <1>24 DEF VcpuExit
  <2>2. code' \in [CPU -> Int] /\ pc' \in [CPU -> Location]
    BY <1>24, ErrorAssumption DEF VcpuExit
  <2>. QED
    BY <1>24, <2>1, <2>2 DEF VcpuExit
<1>25. ASSUME NEW c \in CPU, Panic(c) PROVE TypeOK'
  BY <1>25 DEF Panic
<1>26. CASE DriverDisable
  BY <1>26 DEF DriverDisable
<1>27. CASE Reload
  <2>1. vmx' \in [CPU -> BOOLEAN] /\ disabling' \in BOOLEAN
    BY <1>27, Zenon DEF Reload
  <2>. QED
    BY <1>27, <2>1 DEF Reload
<1>28. CASE UNCHANGED vars
  BY <1>28 DEF vars
<1>. HIDE DEF TypeOK
<1>29. QED
  BY <1>1, <1>2, <1>3, <1>4, <1>5, <1>6, <1>7, <1>8, <1>9, <1>10, <1>11, <1>12,
     <1>13, <1>14, <1>15, <1>16, <1>17, <1>18, <1>19, <1>20, <1>21, <1>22, <1>23,
     <1>24, <1>25, <1>26, <1>27, <1>28
  DEF Next, Run, Enable, Disable

\* Every shared counter and per-CPU field keeps its type; in particular the
\* counters of main.rs and percpu.rs stay within their machine word.
THEOREM TypeCorrect == Spec => []TypeOK
  BY InitType, TypeStep, PTL DEF Spec

-----------------------------------------------------------------------------
(***************************************************************************)
(* The barrier on INITED_CPUS.  AllOrNothing is not inductive: one must    *)
(* know that INITED_CPUS never exceeds the number of CPUs it counts, that  *)
(* a CPU which has left the waiting loop saw an error or a full count, and *)
(* that errors stay.                                                       *)
(***************************************************************************)
BeforeVcpu == {"linux", "new", "wait_entered", "chk_entered", "early",
               "wait_early", "chk_early", "init", "vcpu"}

Passed == {"late", "wait_late", "chk_late"} \cup Activated

AllInited == \A d \in CPU : Inited(d)

StateInv ==
    \A c \in CPU :
        /\ pc[c] \in BeforeVcpu => state[c] = "HvDisabled"
        /\ pc[c] \in {"inited", "wait_inited", "chk_inited"} \cup (Passed \ {"off"})
              => state[c] = "HvEnabled"
        /\ pc[c] = "store_err" => code[c] # 0

CountInv == INITED_CPUS <= Cardinality({c \in CPU : Inited(c)})

BarrierInv ==
    /\ \A c \in CPU : pc[c] = "chk_inited" => has_err \/ AllInited
    /\ \A c \in CPU \ panicked : pc[c] \in Passed => AllInited

\* What a step of a CPU may do to the barrier.
StepEffect ==
    /\ StateInv'
    /\ \A d \in CPU : Inited(d) => Inited(d)'
    /\ has_err => has_err'
    /\ panicked \subseteq panicked'
    /\ \A d \in CPU : pc'[d] = "chk_inited" =>
          \/ pc[d] = "chk_inited"
          \/ has_err \/ INITED_CPUS >= OnlineCpus
    /\ \A d \in CPU \ panicked' : pc'[d] \in Passed =>
          \/ pc[d] \in Passed
          \/ pc[d] = "chk_inited" /\ ~has_err

\* A step of any CPU other than its increment of INITED_CPUS keeps the count.
LEMMA StepEffects ==
  ASSUME TypeOK, StateInv, NEW c \in CPU, Run(c) \/ Panic(c)
  PROVE  StepEffect /\ (INITED_CPUS' = INITED_CPUS \/ InitedAdd(c))
<1>. USE DEF TypeOK, StateInv, StepEffect, Inited, has_err, BeforeVcpu, Passed, Activated,
             Goto, Fail, Recheck, WaitFor, PassDisable, sync, leave, host, drv,
             EIO, EBUSY, EINVAL
<1>1. CASE NewCheck(c)
  BY <1>1 DEF NewCheck
<1>2. CASE New(c)
  BY <1>2 DEF New
<1>3. CASE WaitEntered(c)
  BY <1>3 DEF WaitEntered
<1>4. CASE CheckEntered(c)
  BY <1>4 DEF CheckEntered
<1>5. CASE PrimaryInitEarly(c)
  BY <1>5, ErrorAssumption DEF PrimaryInitEarly
<1>6. CASE WaitEarly(c)
  BY <1>6 DEF WaitEarly
<1>7. CASE CheckEarly(c)
  BY <1>7 DEF CheckEarly
<1>8. CASE InitContext(c)
  BY <1>8 DEF InitContext
<1>9. CASE VcpuNew(c)
  BY <1>9, ErrorAssumption DEF VcpuNew
<1>10. CASE InitedAdd(c)
  BY <1>10 DEF InitedAdd
<1>11. CASE WaitInited(c)
  BY <1>11 DEF WaitInited
<1>12. CASE CheckInited(c)
  BY <1>12 DEF CheckInited
<1>13. CASE PrimaryInitLate(c)
  BY <1>13 DEF PrimaryInitLate
<1>14. CASE WaitLate(c)
  BY <1>14 DEF WaitLate
<1>15. CASE CheckLate(c)
  BY <1>15 DEF CheckLate
<1>16. CASE ActivateVmm(c)
  BY <1>16 DEF ActivateVmm
<1>17. CASE VcpuEnter(c)
  BY <1>17, ErrorAssumption DEF VcpuEnter
<1>18. CASE StoreErr(c)
  BY <1>18 DEF StoreErr
<1>19. CASE LoadErr(c)
  BY <1>19 DEF LoadErr
<1>20. CASE HypervisorDisable(c)
  BY <1>20 DEF HypervisorDisable
<1>21. CASE TryDisable(c)
  BY <1>21 DEF TryDisable
<1>22. CASE WaitDisable(c)
  BY <1>22 DEF WaitDisable
<1>23. CASE DeactivateVmm(c)
  BY <1>23 DEF DeactivateVmm
<1>24. CASE VcpuExit(c)
  BY <1>24, ErrorAssumption DEF VcpuExit
<1>25. CASE Panic(c)
  BY <1>25, PanicAssumption, SMTT(30) DEF Panic, HvLocation
<1>. HIDE DEF StepEffect
<1>. QED
  BY <1>1, <1>2, <1>3, <1>4, <1>5, <1>6, <1>7, <1>8, <1>9, <1>10, <1>11, <1>12, <1>13, <1>14, <1>15, <1>16, <1>17, <1>18, <1>19, <1>20, <1>21, <1>22, <1>23, <1>24, <1>25
  DEF Run, Enable, Disable

InitedInv == TypeOK /\ StateInv /\ CountInv /\ BarrierInv

\* PerCpu.state follows the location of a CPU, and an Err carries an error code.
LEMMA StateCorrect == Spec => []StateInv
<1>1. Init => StateInv
  BY DEF Init, StateInv, BeforeVcpu, Passed, Activated
<1>2. TypeOK /\ StateInv /\ [Next]_vars => StateInv'
  <2>. SUFFICES ASSUME TypeOK, StateInv, [Next]_vars PROVE StateInv'
    OBVIOUS
  <2>1. ASSUME NEW c \in CPU, Run(c) \/ Panic(c) PROVE StateInv'
    BY <2>1, StepEffects DEF StepEffect
  <2>2. CASE DriverDisable
    BY <2>2 DEF DriverDisable, StateInv, host
  <2>3. CASE Reload
    BY <2>3 DEF Reload, StateInv, BeforeVcpu, Passed, Activated
  <2>4. CASE UNCHANGED vars
    BY <2>4 DEF vars, StateInv, host
  <2>. QED
    BY <2>1, <2>2, <2>3, <2>4 DEF Next
<1>. QED
  BY <1>1, <1>2, TypeCorrect, PTL DEF Spec

\* INITED_CPUS full means that every CPU has been counted.
LEMMA FullCount ==
  ASSUME TypeOK, CountInv, Cardinality(CPU) <= OnlineCpus, INITED_CPUS >= OnlineCpus
  PROVE  AllInited
<1>. DEFINE S == {c \in CPU : Inited(c)}
<1>1. /\ IsFiniteSet(S) /\ Cardinality(S) <= Cardinality(CPU)
      /\ Cardinality(CPU) = Cardinality(S) => CPU = S
  <2>1. S \in SUBSET CPU
    OBVIOUS
  <2>. QED
    BY <2>1, CpuAssumption, FS_Subset
<1>2. Cardinality(S) \in Nat /\ Cardinality(CPU) \in Nat
  BY <1>1, CpuAssumption, FS_CardinalityType
<1>3. Cardinality(CPU) = Cardinality(S)
  <2>. HIDE DEF S
  <2>1. INITED_CPUS <= Cardinality(S)
    BY DEF CountInv, S
  <2>. QED
    BY <1>1, <1>2, <2>1, HeaderAssumption, WordAssumption DEF TypeOK
<1>. QED
  BY <1>1, <1>3 DEF AllInited

\* The increment of INITED_CPUS adds one CPU to the set it counts.
LEMMA CountKept ==
  ASSUME TypeOK, StateInv, CountInv, NEW c \in CPU, Run(c) \/ Panic(c)
  PROVE  CountInv'
<1>. DEFINE S == {d \in CPU : Inited(d)}
            T == {d \in CPU : Inited(d)'}
<1>1. S \in SUBSET T /\ T \in SUBSET CPU
  BY StepEffects DEF StepEffect
<1>2. IsFiniteSet(S) /\ IsFiniteSet(T) /\ Cardinality(S) <= Cardinality(T)
      /\ Cardinality(T) <= Cardinality(CPU)
  <2>1. IsFiniteSet(T) /\ Cardinality(T) <= Cardinality(CPU)
    BY <1>1, CpuAssumption, FS_Subset
  <2>. QED
    BY <1>1, <2>1, FS_Subset
<1>3. Cardinality(S) \in Nat /\ Cardinality(T) \in Nat /\ Cardinality(CPU) \in Nat
  BY <1>2, CpuAssumption, FS_CardinalityType
<1>4. INITED_CPUS <= Cardinality(S)
  BY DEF CountInv
<1>5. CASE INITED_CPUS' = INITED_CPUS
  <2>1. INITED_CPUS' <= Cardinality(T)
    <3>. HIDE DEF S, T
    <3>. QED BY <1>2, <1>3, <1>4, <1>5 DEF TypeOK
  <2>. QED
    BY <2>1 DEF CountInv
<1>6. CASE InitedAdd(c)
  <2>1. c \notin S /\ S \cup {c} \in SUBSET T
    BY <1>1, <1>6 DEF InitedAdd, Inited, StateInv, Goto, host, TypeOK
  <2>2. Cardinality(S \cup {c}) = Cardinality(S) + 1
    <3>. HIDE DEF S
    <3>. QED BY <1>2, <2>1, FS_AddElement
  <2>3. Cardinality(S \cup {c}) <= Cardinality(T)
    <3>. HIDE DEF S, T
    <3>. QED BY <1>2, <2>1, FS_Subset
  <2>4. INITED_CPUS' <= Cardinality(T)
    <3>. HIDE DEF S, T
    <3>. QED BY <1>2, <1>3, <1>4, <1>6, <2>2, <2>3, WordAssumption DEF InitedAdd, Inc, TypeOK
  <2>. QED
    BY <2>4 DEF CountInv
<1>. QED
  BY <1>5, <1>6, StepEffects

\* The loaded image satisfies the inductive invariant.
LEMMA InitedInit == Init => InitedInv
<1>. SUFFICES ASSUME Init PROVE InitedInv
  OBVIOUS
<1>1. TypeOK
  BY InitType
<1>2. StateInv /\ BarrierInv
  BY DEF Init, StateInv, BarrierInv, BeforeVcpu, Passed, Activated
<1>3. CountInv
  <2>1. {c \in CPU : Inited(c)} = {}
    BY DEF Init, Inited
  <2>. QED
    BY <2>1, FS_EmptySet DEF Init, CountInv
<1>. QED
  BY <1>1, <1>2, <1>3 DEF InitedInv

\* The barrier invariant holds when no more CPUs enter than the header announces.
LEMMA InitedCorrect ==
  ASSUME Cardinality(CPU) <= OnlineCpus
  PROVE  Spec => []InitedInv
<1>2. InitedInv /\ [Next]_vars => InitedInv'
  <2>. SUFFICES ASSUME InitedInv, [Next]_vars PROVE InitedInv'
    OBVIOUS
  <2>. USE DEF InitedInv
  <2>1. TypeOK'
    BY TypeStep
  <2>2. ASSUME NEW c \in CPU, Run(c) \/ Panic(c) PROVE InitedInv'
    <3>1. StepEffect /\ CountInv'
      BY <2>2, StepEffects, CountKept
    <3>2. AllInited => AllInited'
      BY <3>1 DEF AllInited, StepEffect
    <3>3. INITED_CPUS >= OnlineCpus => AllInited
      BY FullCount
    <3>4. BarrierInv'
      BY <3>1, <3>2, <3>3 DEF BarrierInv, StepEffect
    <3>. QED
      BY <2>1, <3>1, <3>4 DEF StepEffect
  <2>3. CASE DriverDisable
    BY <2>1, <2>3 DEF DriverDisable, StateInv, CountInv, BarrierInv, AllInited, Inited,
                      has_err, sync, leave, host
  <2>4. CASE Reload
    <3>1. Init'
      BY <2>4 DEF Reload, Init
    <3>2. Init' => InitedInv'
      BY InitedInit, PTL
    <3>. QED
      BY <3>1, <3>2
  <2>5. CASE UNCHANGED vars
    BY <2>1, <2>5 DEF vars, StateInv, CountInv, BarrierInv, AllInited, Inited,
                      has_err, sync, leave, host
  <2>. QED
    BY <2>2, <2>3, <2>4, <2>5 DEF Next
<1>. QED
  BY InitedInit, <1>2, PTL DEF Spec

\* Initialisation is all or nothing for any number of CPUs, errors and
\* panics included, when no more CPUs enter than the header announces.
THEOREM AllOrNothingHolds ==
  ASSUME Cardinality(CPU) <= OnlineCpus
  PROVE  Spec => []AllOrNothing
<1>1. InitedInv => AllOrNothing
  BY DEF InitedInv, BarrierInv, AllOrNothing, Passed, AllInited
<1>. QED
  BY <1>1, InitedCorrect, PTL


-----------------------------------------------------------------------------
\* How many CPUs a function on CPU sends into a set, and what one CPU adds.
Count(f, L) == Cardinality({d \in CPU : f[d] \in L})

In(x, L) == IF x \in L THEN 1 ELSE 0

\* f and g differ at c only.
OnlyAt(c, f, g) == \A d \in CPU \ {c} : g[d] = f[d]

\* Changing one CPU changes the count by at most one, as one expects.
LEMMA MoveCount ==
  ASSUME NEW f, NEW g, NEW c \in CPU, OnlyAt(c, f, g), NEW L
  PROVE  /\ Count(f, L) \in Nat /\ Count(g, L) \in Nat
         /\ Count(f, L) <= Cardinality(CPU)
         /\ Count(g, L) = Count(f, L) + In(g[c], L) - In(f[c], L)
<1>. DEFINE S == {d \in CPU : f[d] \in L}
            T == {d \in CPU : g[d] \in L}
<1>1. S \in SUBSET CPU /\ T \in SUBSET CPU
  OBVIOUS
<1>2. /\ IsFiniteSet(S) /\ IsFiniteSet(T)
      /\ Cardinality(S) \in Nat /\ Cardinality(T) \in Nat
      /\ Cardinality(S) <= Cardinality(CPU)
  BY <1>1, CpuAssumption, FS_Subset, FS_CardinalityType
<1>3. ASSUME g[c] \in L, f[c] \notin L PROVE Cardinality(T) = Cardinality(S) + 1
  <2>1. T = S \cup {c} /\ c \notin S
    BY <1>3 DEF OnlyAt
  <2>. HIDE DEF S, T
  <2>. QED BY <1>2, <2>1, FS_AddElement
<1>4. ASSUME g[c] \notin L, f[c] \in L PROVE Cardinality(T) = Cardinality(S) - 1
  <2>1. T = S \ {c} /\ c \in S
    BY <1>4 DEF OnlyAt
  <2>. HIDE DEF S, T
  <2>. QED BY <1>2, <2>1, FS_RemoveElement
<1>5. ASSUME g[c] \in L <=> f[c] \in L PROVE S = T
  BY <1>5 DEF OnlyAt
<1>6. Count(f, L) = Cardinality(S) /\ Count(g, L) = Cardinality(T)
  BY DEF Count
<1>. HIDE DEF S, T
<1>. QED
  BY <1>2, <1>3, <1>4, <1>5, <1>6 DEF In

\* A set that receives as many CPUs as there are receives them all.
LEMMA CountAll ==
  ASSUME NEW f, NEW L
  PROVE  /\ Count(f, L) >= Cardinality(CPU) => \A d \in CPU : f[d] \in L
         /\ (\A d \in CPU : f[d] \in L) => Count(f, L) = Cardinality(CPU)
         /\ \A d \in CPU : f[d] \in L => Count(f, L) > 0
         /\ Count(f, L) \in Nat /\ Cardinality(CPU) \in Nat
<1>. DEFINE S == {d \in CPU : f[d] \in L}
<1>1. S \in SUBSET CPU
  OBVIOUS
<1>2. /\ IsFiniteSet(S) /\ Cardinality(S) \in Nat /\ Cardinality(CPU) \in Nat
      /\ Cardinality(S) <= Cardinality(CPU)
      /\ Cardinality(CPU) = Cardinality(S) => CPU = S
      /\ Cardinality(S) = 0 <=> S = {}
  BY <1>1, CpuAssumption, FS_Subset, FS_CardinalityType, FS_EmptySet
<1>3. Cardinality(S) >= Cardinality(CPU) => CPU = S
  <2>. HIDE DEF S
  <2>. QED BY <1>2
<1>4. \A d \in CPU : f[d] \in L => Cardinality(S) > 0
  <2>1. \A d \in CPU : f[d] \in L => S # {}
    OBVIOUS
  <2>. HIDE DEF S
  <2>. QED BY <1>2, <2>1
<1>5. (\A d \in CPU : f[d] \in L) => S = CPU
  OBVIOUS
<1>. QED
  BY <1>2, <1>3, <1>4, <1>5 DEF Count

-----------------------------------------------------------------------------
(***************************************************************************)
(* Per-CPU slots and the root cell.  ENTERED_CPUS is the number of slots   *)
(* given out, all of them below it; a CPU is past the wait for the primary *)
(* CPU's early initialisation only if that has succeeded.                  *)
(***************************************************************************)
NeedsEarly == {"init", "vcpu", "inited"}

SlotInv ==
    /\ \A c \in CPU : pc[c] \in {"linux", "new"} => id[c] = NoId
    /\ \A c \in CPU : id[c] # NoId => id[c] \in 0..(ENTERED_CPUS - 1)
    /\ ENTERED_CPUS = Count(id, Nat)
    /\ \A c \in CPU : pc[c] = "chk_early" => has_err \/ INIT_EARLY_OK = 1
    /\ SlotsAndRootCell

\* What a step other than PerCpu::new may do to slots and early initialisation.
SlotStep(c) ==
    /\ UNCHANGED <<id, ENTERED_CPUS>>
    /\ OnlyAt(c, pc, pc')
    /\ pc'[c] \in {"linux", "new"} => pc[c] \in {"linux", "new"}
    /\ INIT_EARLY_OK = 1 => INIT_EARLY_OK' = 1
    /\ pc'[c] = "chk_early" => pc[c] = "chk_early" \/ has_err \/ INIT_EARLY_OK = 1
    /\ pc'[c] \in NeedsEarly => \/ pc[c] \in NeedsEarly
                                \/ pc[c] = "chk_early" /\ ~has_err
                                \/ INIT_EARLY_OK' = 1

\* Every step of a CPU is PerCpu::new or such a step.
LEMMA SlotSteps ==
  ASSUME TypeOK, NEW c \in CPU, Run(c) \/ Panic(c)
  PROVE  New(c) \/ SlotStep(c)
<1>. USE DEF TypeOK, SlotStep, OnlyAt, NeedsEarly, Goto, Fail, Recheck, WaitFor, PassDisable,
             sync, leave, host, drv, has_err
<1>1. CASE NewCheck(c)
  BY <1>1 DEF NewCheck
<1>2. CASE WaitEntered(c)
  BY <1>2 DEF WaitEntered
<1>3. CASE CheckEntered(c)
  BY <1>3 DEF CheckEntered
<1>4. CASE PrimaryInitEarly(c)
  BY <1>4 DEF PrimaryInitEarly
<1>5. CASE WaitEarly(c)
  BY <1>5 DEF WaitEarly
<1>6. CASE CheckEarly(c)
  BY <1>6 DEF CheckEarly
<1>7. CASE InitContext(c)
  BY <1>7 DEF InitContext
<1>8. CASE VcpuNew(c)
  BY <1>8 DEF VcpuNew
<1>9. CASE InitedAdd(c)
  BY <1>9 DEF InitedAdd
<1>10. CASE WaitInited(c)
  BY <1>10 DEF WaitInited
<1>11. CASE CheckInited(c)
  BY <1>11 DEF CheckInited
<1>12. CASE PrimaryInitLate(c)
  BY <1>12 DEF PrimaryInitLate
<1>13. CASE WaitLate(c)
  BY <1>13 DEF WaitLate
<1>14. CASE CheckLate(c)
  BY <1>14 DEF CheckLate
<1>15. CASE ActivateVmm(c)
  BY <1>15 DEF ActivateVmm
<1>16. CASE VcpuEnter(c)
  BY <1>16 DEF VcpuEnter
<1>17. CASE StoreErr(c)
  BY <1>17 DEF StoreErr
<1>18. CASE LoadErr(c)
  BY <1>18 DEF LoadErr
<1>19. CASE HypervisorDisable(c)
  BY <1>19 DEF HypervisorDisable
<1>20. CASE TryDisable(c)
  BY <1>20 DEF TryDisable
<1>21. CASE WaitDisable(c)
  BY <1>21 DEF WaitDisable
<1>22. CASE DeactivateVmm(c)
  BY <1>22 DEF DeactivateVmm
<1>23. CASE VcpuExit(c)
  BY <1>23 DEF VcpuExit
<1>24. CASE Panic(c)
  BY <1>24 DEF Panic
<1>. HIDE DEF SlotStep
<1>. QED
  BY <1>1, <1>2, <1>3, <1>4, <1>5, <1>6, <1>7, <1>8, <1>9, <1>10, <1>11, <1>12, <1>13, <1>14, <1>15, <1>16, <1>17, <1>18, <1>19, <1>20, <1>21, <1>22, <1>23, <1>24
  DEF Run, Enable, Disable

\* No two CPUs get the same per-CPU slot, so there is one primary CPU, and
\* PerCpu::init runs after primary_init_early: for any number of CPUs, more
\* than announced included, any errors and any panics.
THEOREM SlotsAndRootCellHolds == Spec => []SlotsAndRootCell
<1>1. Init => SlotInv
  <2>. SUFFICES ASSUME Init PROVE SlotInv
    OBVIOUS
  <2>1. {d \in CPU : id[d] \in Nat} = {}
    BY DEF Init, NoId
  <2>2. Count(id, Nat) = 0
    BY <2>1, FS_EmptySet DEF Count
  <2>. QED
    BY <2>2 DEF Init, SlotInv, SlotsAndRootCell
<1>2. TypeOK /\ StateInv /\ SlotInv /\ [Next]_vars => SlotInv'
  <2>. SUFFICES ASSUME TypeOK, StateInv, SlotInv, [Next]_vars PROVE SlotInv'
    OBVIOUS
  <2>1. ASSUME NEW c \in CPU, New(c) PROVE SlotInv'
    <3>1. /\ Count(id, Nat) \in Nat /\ Count(id, Nat) <= Cardinality(CPU)
          /\ Count(id', Nat) = Count(id, Nat) + In(id'[c], Nat) - In(id[c], Nat)
      <4>1. OnlyAt(c, id, id')
        BY <2>1 DEF New, TypeOK, OnlyAt
      <4>. QED
        BY <4>1, MoveCount
    <3>2. id[c] = NoId /\ id' = [id EXCEPT ![c] = ENTERED_CPUS] /\ id'[c] \in Nat
      BY <2>1 DEF New, SlotInv, TypeOK
    <3>3. ENTERED_CPUS' = ENTERED_CPUS + 1 /\ ENTERED_CPUS \in Nat
      BY <2>1, <3>1, WordAssumption, CpuAssumption, FS_CardinalityType DEF New, Inc, SlotInv, TypeOK
    <3>4. ENTERED_CPUS' = Count(id', Nat)
      BY <3>1, <3>2, <3>3 DEF SlotInv, In, NoId
    <3>5. \A d \in CPU : pc'[d] = IF d = c THEN "wait_entered" ELSE pc[d]
      BY <2>1 DEF New, Goto, TypeOK
    <3>6. \A d \in CPU : id'[d] = IF d = c THEN ENTERED_CPUS ELSE id[d]
      BY <3>2 DEF TypeOK
    <3>7. SlotsAndRootCell'
      <4>1. \A d \in CPU : id[d] # NoId => id[d] < ENTERED_CPUS
        BY DEF SlotInv, TypeOK
      <4>. QED
        BY <2>1, <3>3, <3>5, <3>6, <4>1 DEF New, SlotInv, SlotsAndRootCell, NoId, TypeOK
    <3>8. \A d \in CPU : id'[d] # NoId => id'[d] \in 0..(ENTERED_CPUS' - 1)
      BY <3>3, <3>6 DEF SlotInv, NoId, TypeOK
    <3>. QED
      BY <2>1, <3>4, <3>5, <3>6, <3>7, <3>8 DEF New, SlotInv, has_err
  <2>2. ASSUME NEW c \in CPU, SlotStep(c), has_err => has_err' PROVE SlotInv'
    <3>1. Count(id', Nat) = Count(id, Nat)
      BY <2>2 DEF SlotStep
    <3>2. \A d \in CPU : pc'[d] = "chk_early" => has_err' \/ INIT_EARLY_OK' = 1
      BY <2>2 DEF SlotStep, OnlyAt, SlotInv
    <3>3. \A d \in CPU : pc'[d] \in NeedsEarly => INIT_EARLY_OK' = 1
      BY <2>2 DEF SlotStep, OnlyAt, SlotInv, SlotsAndRootCell, NeedsEarly
    <3>. QED
      BY <2>2, <3>1, <3>2, <3>3 DEF SlotStep, OnlyAt, SlotInv, SlotsAndRootCell, NeedsEarly
  <2>3. ASSUME NEW c \in CPU, Run(c) \/ Panic(c) PROVE SlotInv'
    BY <2>1, <2>2, <2>3, SlotSteps, StepEffects DEF StepEffect
  <2>4. CASE DriverDisable
    BY <2>4 DEF DriverDisable, SlotInv, SlotsAndRootCell, Count, has_err, sync, host
  <2>5. CASE Reload
    <3>1. Init'
      BY <2>5 DEF Reload, Init
    <3>2. Init' => SlotInv'
      BY <1>1, PTL
    <3>. QED
      BY <3>1, <3>2
  <2>6. CASE UNCHANGED vars
    BY <2>6 DEF vars, SlotInv, SlotsAndRootCell, Count, has_err, sync, host
  <2>. QED
    BY <2>3, <2>4, <2>5, <2>6 DEF Next
<1>3. SlotInv => SlotsAndRootCell
  BY DEF SlotInv
<1>. QED
  BY <1>1, <1>2, <1>3, TypeCorrect, StateCorrect, PTL DEF Spec

=============================================================================
