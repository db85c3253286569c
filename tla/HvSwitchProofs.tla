--------------------------- MODULE HvSwitchProofs ---------------------------
(***************************************************************************)
(* Proofs about the counters of activate_vmm, deactivate_vmm and           *)
(* hypervisor_disable, and that HvLifecycle implements HvSwitch.           *)
(***************************************************************************)
EXTENDS HvLifecycleProofs

Active == {"enter", "guest", "try_disable", "wait_disable", "deactivate"}
Leaving == {"deactivate", "exit", "off", "guest_kept"}
Voted == Leaving \cup {"wait_disable"}
Joined == Voted \cup {"guest", "try_disable"}
NotYet == BeforeVcpu \cup {"inited", "wait_inited", "chk_inited", "late",
                           "wait_late", "chk_late", "activate"}
Started == Location \ NotYet
Failing == {"store_err", "load_err", "returned"}

\* A step that touches neither ACTIVATED_CPUS nor TRY_DISABLE_CPUS nor cpus.
CalmStep(c) ==
    /\ UNCHANGED <<ACTIVATED_CPUS, TRY_DISABLE_CPUS, cpus, disabling, panicked>>
    /\ OnlyAt(c, pc, pc')
    /\ \/ pc[c] \in NotYet /\ pc'[c] \in NotYet \cup Failing /\ call_done' = call_done
       \/ pc[c] \in Failing /\ pc'[c] \in Failing /\ call_done' = call_done
       \/ pc[c] = "enter" /\ pc'[c] = "guest" /\ call_done' = call_done \cup {c}
       \/ /\ pc[c] = "enter" /\ pc'[c] = "store_err" /\ call_done' = call_done
          /\ EnterErrors # {}
       \/ pc[c] = "exit" /\ pc'[c] = "off" /\ call_done' = call_done \cup {c}
       \/ /\ pc[c] = "exit" /\ call_done' = call_done
          /\ pc'[c] = IF c \in panicked THEN "hung" ELSE "guest_kept"

\* Every step of a CPU is such a step, one of five actions or a panic.
LEMMA CalmSteps ==
  ASSUME TypeOK, NEW c \in CPU, Run(c)
  PROVE  \/ CalmStep(c)
         \/ ActivateVmm(c) \/ HypervisorDisable(c) \/ TryDisable(c)
         \/ WaitDisable(c) \/ DeactivateVmm(c)
<1>. DEFINE Moves(L) == /\ OnlyAt(c, pc, pc') /\ pc'[c] \in L
                        /\ UNCHANGED <<ACTIVATED_CPUS, TRY_DISABLE_CPUS, cpus, disabling, panicked>>
<1>0. pc \in [CPU -> Location]
  BY DEF TypeOK
<1>a. ASSUME pc[c] \in NotYet, Moves(NotYet \cup Failing), call_done' = call_done PROVE CalmStep(c)
  BY <1>a DEF CalmStep
<1>b. ASSUME pc[c] \in Failing, Moves(Failing), call_done' = call_done PROVE CalmStep(c)
  BY <1>b DEF CalmStep
<1>r. ASSUME NEW at, NEW next, Recheck(c, at, next)
      PROVE  pc[c] = at /\ Moves({next, "store_err"}) /\ call_done' = call_done
  BY <1>0, <1>r DEF Recheck, Fail, Goto, leave, drv, OnlyAt
<1>w. ASSUME NEW at, NEW done, NEW next, WaitFor(c, at, done, next)
      PROVE  pc[c] = at /\ Moves({next}) /\ call_done' = call_done
  BY <1>0, <1>w DEF WaitFor, Goto, leave, drv, OnlyAt
<1>. USE <1>0 DEF NotYet, Failing, BeforeVcpu, Goto, Fail, leave, drv, OnlyAt
<1>1. CASE NewCheck(c)
  BY <1>1, <1>a DEF NewCheck
<1>2. CASE New(c)
  BY <1>2, <1>a DEF New
<1>3. CASE WaitEntered(c)
  BY <1>3, <1>w, <1>a DEF WaitEntered
<1>4. CASE CheckEntered(c)
  BY <1>4, <1>r, <1>a DEF CheckEntered
<1>5. CASE PrimaryInitEarly(c)
  BY <1>5, <1>a DEF PrimaryInitEarly
<1>6. CASE WaitEarly(c)
  BY <1>6, <1>w, <1>a DEF WaitEarly
<1>7. CASE CheckEarly(c)
  BY <1>7, <1>r, <1>a DEF CheckEarly
<1>8. CASE InitContext(c)
  BY <1>8, <1>a DEF InitContext
<1>9. CASE VcpuNew(c)
  BY <1>9, <1>a DEF VcpuNew
<1>10. CASE InitedAdd(c)
  BY <1>10, <1>a DEF InitedAdd
<1>11. CASE WaitInited(c)
  BY <1>11, <1>w, <1>a DEF WaitInited
<1>12. CASE CheckInited(c)
  BY <1>12, <1>r, <1>a DEF CheckInited
<1>13. CASE PrimaryInitLate(c)
  BY <1>13, <1>a DEF PrimaryInitLate
<1>14. CASE WaitLate(c)
  BY <1>14, <1>w, <1>a DEF WaitLate
<1>15. CASE CheckLate(c)
  BY <1>15, <1>r, <1>a DEF CheckLate
<1>16. CASE VcpuEnter(c)
  BY <1>16 DEF VcpuEnter, CalmStep
<1>17. CASE StoreErr(c)
  BY <1>17, <1>b DEF StoreErr
<1>18. CASE LoadErr(c)
  BY <1>18, <1>b DEF LoadErr
<1>19. CASE VcpuExit(c)
  BY <1>19 DEF VcpuExit, CalmStep
<1>. QED
  BY <1>1, <1>2, <1>3, <1>4, <1>5, <1>6, <1>7, <1>8, <1>9, <1>10, <1>11, <1>12, <1>13,
     <1>14, <1>15, <1>16, <1>17, <1>18, <1>19
  DEF Run, Enable, Disable

\* A panic before PerCpu::init is done hangs the CPU, one of an activated CPU
\* makes it deactivate.
LEMMA PanicStep ==
  ASSUME TypeOK, StateInv, NEW c \in CPU, Panic(c),
         PanicAt \subseteq BeforeVcpu \cup Active
  PROVE  /\ UNCHANGED <<ACTIVATED_CPUS, TRY_DISABLE_CPUS, cpus, call_done, disabling>>
         /\ OnlyAt(c, pc, pc') /\ panicked' = panicked \cup {c}
         /\ pc[c] \in PanicAt
         /\ \/ pc[c] \in BeforeVcpu /\ pc'[c] = "hung"
            \/ pc[c] \in Active /\ pc'[c] = "deactivate"
<1>1. pc[c] \in BeforeVcpu \cup Active
  BY DEF Panic
<1>2. /\ pc[c] \in BeforeVcpu => state[c] # "HvEnabled"
      /\ pc[c] \in Active => state[c] = "HvEnabled"
  BY DEF StateInv, Active, Passed, Activated
<1>3. /\ OnlyAt(c, pc, pc')
      /\ pc'[c] = IF state[c] = "HvEnabled" THEN "deactivate" ELSE "hung"
  BY DEF Panic, Goto, OnlyAt, TypeOK
<1>. QED
  BY <1>1, <1>2, <1>3 DEF Panic, leave, drv

-----------------------------------------------------------------------------
\* ACTIVATED_CPUS is exact for any number of CPUs, and its fetch_sub never
\* wraps below zero, when every VM entry succeeds and a CPU panics only before
\* its vCPU is set up or while it is activated.
THEOREM ActivatedExactHolds ==
  ASSUME EnterErrors = {}, PanicAt \subseteq BeforeVcpu \cup Active
  PROVE  Spec => []ActivatedExact
<1>. DEFINE Exact == ACTIVATED_CPUS = Count(pc, Active)
<1>0. ActivatedExact <=> Exact
  BY DEF ActivatedExact, Count, Active
<1>1. Init => Exact
  <2>. SUFFICES ASSUME Init PROVE Exact
    OBVIOUS
  <2>1. {d \in CPU : pc[d] \in Active} = {}
    BY DEF Init, Active
  <2>. QED
    BY <2>1, FS_EmptySet DEF Init, Count
<1>2. TypeOK /\ StateInv /\ Exact /\ [Next]_vars => Exact'
  <2>. SUFFICES ASSUME TypeOK, StateInv, Exact, [Next]_vars PROVE Exact'
    OBVIOUS
  <2>1. ASSUME NEW c \in CPU, OnlyAt(c, pc, pc')
        PROVE  /\ Count(pc, Active) \in Nat /\ Count(pc, Active) <= Cardinality(CPU)
               /\ Count(pc', Active) = Count(pc, Active) + In(pc'[c], Active) - In(pc[c], Active)
    BY <2>1, MoveCount
  <2>2. ASSUME NEW c \in CPU, OnlyAt(c, pc, pc'), ACTIVATED_CPUS' = ACTIVATED_CPUS,
               pc'[c] \in Active <=> pc[c] \in Active
        PROVE  Exact'
    BY <2>1, <2>2 DEF In
  <2>3. ASSUME NEW c \in CPU, ActivateVmm(c) PROVE Exact'
    <3>1. OnlyAt(c, pc, pc') /\ pc[c] = "activate" /\ pc'[c] = "enter"
      BY <2>3 DEF ActivateVmm, Goto, OnlyAt, TypeOK
    <3>2. Count(pc', Active) = Count(pc, Active) + 1 /\ Count(pc, Active) \in Nat
          /\ Count(pc, Active) <= Cardinality(CPU)
      BY <2>1, <3>1 DEF In, Active
    <3>. QED
      BY <2>3, <3>2, WordAssumption, CpuAssumption, FS_CardinalityType DEF ActivateVmm, Inc
  <2>4. ASSUME NEW c \in CPU, DeactivateVmm(c) PROVE Exact'
    <3>1. OnlyAt(c, pc, pc') /\ pc[c] = "deactivate" /\ pc'[c] = "exit"
      BY <2>4 DEF DeactivateVmm, Goto, OnlyAt, TypeOK
    <3>2. Count(pc', Active) = Count(pc, Active) - 1 /\ Count(pc, Active) \in Nat
      BY <2>1, <3>1 DEF In, Active
    <3>3. Count(pc, Active) > 0
      BY <3>1, CountAll DEF Active
    <3>. QED
      BY <2>4, <3>2, <3>3 DEF DeactivateVmm, Dec
  <2>5. ASSUME NEW c \in CPU, HypervisorDisable(c) \/ TryDisable(c) \/ WaitDisable(c) PROVE Exact'
    <3>1. /\ OnlyAt(c, pc, pc') /\ ACTIVATED_CPUS' = ACTIVATED_CPUS
          /\ pc[c] \in Active /\ pc'[c] \in Active
      BY <2>5 DEF HypervisorDisable, TryDisable, WaitDisable, PassDisable, Goto, leave,
                  OnlyAt, TypeOK, Active
    <3>. QED
      BY <2>2, <3>1
  <2>6. ASSUME NEW c \in CPU, CalmStep(c) PROVE Exact'
    <3>1. pc'[c] \in Active <=> pc[c] \in Active
      BY <2>6 DEF CalmStep, Active, NotYet, BeforeVcpu, Failing
    <3>. QED
      BY <2>2, <2>6, <3>1 DEF CalmStep
  <2>7. ASSUME NEW c \in CPU, Panic(c) PROVE Exact'
    <3>1. pc'[c] \in Active <=> pc[c] \in Active
      BY <2>7, PanicStep DEF Active, BeforeVcpu
    <3>. QED
      BY <2>2, <2>7, <3>1, PanicStep
  <2>8. CASE DriverDisable
    BY <2>8 DEF DriverDisable, Count, leave
  <2>9. CASE Reload
    <3>1. Init'
      BY <2>9 DEF Reload, Init
    <3>2. Init' => Exact'
      BY <1>1, PTL
    <3>. QED
      BY <3>1, <3>2
  <2>10. CASE UNCHANGED vars
    BY <2>10 DEF vars, Count, leave
  <2>. QED
    BY <2>3, <2>4, <2>5, <2>6, <2>7, <2>8, <2>9, <2>10, CalmSteps DEF Next
<1>. HIDE DEF Exact
<1>. QED
  BY <1>0, <1>1, <1>2, TypeCorrect, StateCorrect, PTL DEF Spec

-----------------------------------------------------------------------------
(***************************************************************************)
(* The barrier of hypervisor_disable.  Its bound is the local variable     *)
(* cpus, read once; the invariant says that it covers every CPU that has   *)
(* not panicked, because none of them can have left while a CPU has yet to *)
(* read it.  A CPU that panics never votes, so TRY_DISABLE_CPUS counts     *)
(* other CPUs only.                                                        *)
(***************************************************************************)
live == [c \in CPU |-> IF c \in panicked THEN "panicked" ELSE pc[c]]

LiveTogether ==
    (\E c \in CPU : live[c] \in Leaving) => \A d \in CPU : live[d] \in Voted \cup {"panicked"}

LeaveInv ==
    /\ \A c \in panicked : pc[c] \in {"deactivate", "exit", "off", "hung"}
    /\ \A c \in call_done : live[c] \in Joined \cup {"panicked"}
    /\ disabling => call_done = CPU
    /\ \A c \in CPU : live[c] \in {"try_disable"} \cup Voted => disabling
    /\ Count(pc, Active) <= ACTIVATED_CPUS
    /\ ACTIVATED_CPUS <= Count(pc, Started)
    /\ TRY_DISABLE_CPUS <= Count(live, Voted)
    /\ \A c \in CPU : live[c] \in {"try_disable", "wait_disable"}
          => cpus[c] >= Count(live, Location)
    /\ LiveTogether

\* It contains DisableTogetherOrPanicked.
LEMMA TogetherAsLive == TypeOK /\ LeaveInv => DisableTogetherOrPanicked
<1>. SUFFICES ASSUME TypeOK, LeaveInv, NEW c \in CPU \ panicked, pc[c] \in Leaving,
                     NEW d \in CPU \ panicked
              PROVE  pc[d] \in Voted
  BY DEF DisableTogetherOrPanicked, Leaving, Voted
<1>1. live[c] = pc[c] /\ live[d] = pc[d]
  BY DEF live
<1>2. pc[d] # "panicked"
  BY DEF TypeOK, Location, HvLocation
<1>. QED
  BY <1>1, <1>2 DEF LeaveInv, LiveTogether

\* The loaded image satisfies the invariant.
LEMMA LeaveInit == Init => LeaveInv
<1>. SUFFICES ASSUME Init PROVE LeaveInv
  OBVIOUS
<1>1. Count(pc, Active) = 0 /\ Count(live, Voted) \in Nat /\ Count(pc, Started) \in Nat
  <2>1. {d \in CPU : pc[d] \in Active} = {}
    BY DEF Init, Active
  <2>. QED
    BY <2>1, CountAll, FS_EmptySet DEF Count
<1>2. \A c \in CPU : live[c] = "linux"
  BY DEF Init, live
<1>. QED
  BY <1>1, <1>2 DEF Init, LeaveInv, LiveTogether, Voted, Leaving

\* What a step of one CPU has to respect for the invariant to be kept.
LeaveStep(c) ==
    /\ OnlyAt(c, pc, pc') /\ OnlyAt(c, cpus, cpus') /\ disabling' = disabling
    /\ panicked' \in {panicked, panicked \cup {c}}
    /\ call_done' \in {call_done, call_done \cup {c}}
    /\ c \in panicked' => pc'[c] \in {"deactivate", "exit", "off", "hung"}
    /\ c \in call_done' => live'[c] \in Joined \cup {"panicked"}
    /\ live'[c] \in {"try_disable"} \cup Voted => disabling
    /\ live'[c] \in {"try_disable", "wait_disable"} => cpus'[c] >= Count(live, Location)
    /\ live'[c] \in Leaving => \A d \in CPU : live[d] \in Voted \cup {"panicked"}
    /\ live[c] \in Voted \cup {"panicked"} => live'[c] \in Voted \cup {"panicked"}

\* Only the CPU that steps changes, panicked CPUs included.
LEMMA LiveMove ==
  ASSUME TypeOK, NEW c \in CPU, OnlyAt(c, pc, pc'),
         panicked' \in {panicked, panicked \cup {c}}
  PROVE  /\ OnlyAt(c, live, live')
         /\ live[c] = IF c \in panicked THEN "panicked" ELSE pc[c]
         /\ live'[c] = IF c \in panicked' THEN "panicked" ELSE pc'[c]
         /\ live[c] \in Location \cup {"panicked"}
  BY DEF OnlyAt, live, TypeOK

\* A step that changes one CPU as LeaveStep says, with the counters in their
\* bounds after it, preserves the invariant of leaving.
LEMMA LeaveKept ==
  ASSUME TypeOK, TypeOK', LeaveInv, NEW c \in CPU, LeaveStep(c),
         Count(pc', Active) <= ACTIVATED_CPUS', ACTIVATED_CPUS' <= Count(pc', Started),
         TRY_DISABLE_CPUS' <= Count(live', Voted)
  PROVE  LeaveInv'
<1>. USE DEF LeaveStep
<1>1. /\ OnlyAt(c, live, live') /\ live[c] \in Location \cup {"panicked"}
      /\ live[c] = "panicked" => live'[c] = "panicked"
      /\ live'[c] \in Location => live[c] \in Location
  <2>1. "panicked" \notin Location
    BY DEF Location, HvLocation
  <2>2. OnlyAt(c, pc, pc') /\ panicked' \in {panicked, panicked \cup {c}}
    OBVIOUS
  <2>3. /\ OnlyAt(c, live, live')
        /\ live[c] = IF c \in panicked THEN "panicked" ELSE pc[c]
        /\ live'[c] = IF c \in panicked' THEN "panicked" ELSE pc'[c]
    BY <2>2, LiveMove
  <2>4. pc[c] \in Location
    BY DEF TypeOK
  <2>. QED
    BY <2>1, <2>2, <2>3, <2>4
<1>2. Count(live', Location) <= Count(live, Location)
  <2>1. /\ Count(live, Location) \in Nat
        /\ Count(live', Location) = Count(live, Location) + In(live'[c], Location) - In(live[c], Location)
    BY <1>1, MoveCount
  <2>. QED
    BY <1>1, <2>1 DEF In
<1>3. Count(live', Location) \in Nat /\ Count(live, Location) \in Nat
  BY CountAll
<1>4. \A d \in CPU \ {c} : pc'[d] = pc[d] /\ live'[d] = live[d] /\ cpus'[d] = cpus[d]
  BY <1>1 DEF OnlyAt
<1>5. LiveTogether'
  BY <1>4 DEF LeaveInv, LiveTogether
<1>6. ASSUME NEW d \in CPU, live'[d] \in {"try_disable", "wait_disable"}
      PROVE  cpus'[d] >= Count(live', Location)
  <2>1. cpus'[d] >= Count(live, Location)
    BY <1>4, <1>6 DEF LeaveInv
  <2>2. cpus'[d] \in Int
    BY WordAssumption DEF TypeOK
  <2>. QED
    BY <1>2, <1>3, <2>1, <2>2
<1>7. \A d \in panicked' : pc'[d] \in {"deactivate", "exit", "off", "hung"}
  BY <1>4 DEF LeaveInv, TypeOK
<1>8. \A d \in call_done' : live'[d] \in Joined \cup {"panicked"}
  BY <1>4 DEF LeaveInv, TypeOK
<1>9. \A d \in CPU : live'[d] \in {"try_disable"} \cup Voted => disabling'
  BY <1>4 DEF LeaveInv
<1>10. disabling' => call_done' = CPU
  BY DEF LeaveInv
<1>. QED
  BY <1>5, <1>6, <1>7, <1>8, <1>9, <1>10 DEF LeaveInv

\* The steps that do not touch the counters keep it.
LEMMA LeaveCalm ==
  ASSUME TypeOK, TypeOK', LeaveInv, NEW c \in CPU, CalmStep(c)
  PROVE  LeaveInv'
<1>1. /\ OnlyAt(c, live, live')
      /\ live[c] = IF c \in panicked THEN "panicked" ELSE pc[c]
      /\ live'[c] = IF c \in panicked THEN "panicked" ELSE pc'[c]
  BY LiveMove DEF CalmStep
<1>2. pc[c] \in Location /\ pc'[c] \in Location
  BY DEF TypeOK
<1>3. c \in panicked => pc[c] \in {"deactivate", "exit", "off", "hung"}
  BY DEF LeaveInv
<1>4. LeaveStep(c)
  <2>1. OnlyAt(c, cpus, cpus')
    BY DEF CalmStep, OnlyAt
  <2>2. c \in panicked => pc'[c] \in {"off", "hung"}
    BY <1>3 DEF CalmStep, NotYet, BeforeVcpu, Failing
  <2>3. c \in call_done => live[c] \in Joined \cup {"panicked"}
    BY DEF LeaveInv
  <2>4. c \notin panicked =>
          \/ pc[c] \in NotYet /\ pc'[c] \in NotYet \cup Failing /\ call_done' = call_done
          \/ pc[c] \in Failing /\ pc'[c] \in Failing /\ call_done' = call_done
          \/ pc[c] = "enter" /\ pc'[c] \in {"guest"} /\ call_done' = call_done \cup {c}
          \/ pc[c] = "enter" /\ pc'[c] = "store_err" /\ call_done' = call_done
          \/ pc[c] = "exit" /\ pc'[c] \in {"off", "guest_kept"}
    BY DEF CalmStep
  <2>5. c \in call_done' => live'[c] \in Joined \cup {"panicked"}
    BY <1>1, <2>3, <2>4 DEF NotYet, BeforeVcpu, Failing, Joined, Voted, Leaving
  <2>6. /\ live'[c] \in {"try_disable"} \cup Voted => live[c] \in Leaving
        /\ live'[c] \in Leaving => live[c] \in Leaving
        /\ live'[c] \notin {"try_disable", "wait_disable"}
        /\ live[c] \in Voted \cup {"panicked"} => live'[c] \in Voted \cup {"panicked"}
    <3>1. CASE c \in panicked
      BY <1>1, <3>1 DEF Voted, Leaving
    <3>2. CASE c \notin panicked
      BY <1>1, <2>4, <3>2 DEF NotYet, BeforeVcpu, Failing, Voted, Leaving
    <3>. QED
      BY <3>1, <3>2
  <2>7. live'[c] \in {"try_disable"} \cup Voted => disabling
    BY <2>6 DEF LeaveInv, Voted
  <2>8. live'[c] \in Leaving => \A d \in CPU : live[d] \in Voted \cup {"panicked"}
    BY <2>6 DEF LeaveInv, LiveTogether
  <2>. QED
    BY <2>1, <2>2, <2>5, <2>6, <2>7, <2>8 DEF CalmStep, LeaveStep
<1>5. /\ pc'[c] \in Active => pc[c] \in Active
      /\ pc[c] \in Started => pc'[c] \in Started
      /\ live'[c] \in Voted <=> live[c] \in Voted
  <2>1. /\ pc'[c] \in Active => pc[c] \in Active
        /\ pc'[c] \in NotYet => pc[c] \in NotYet
        /\ c \notin panicked => (pc'[c] \in Voted <=> pc[c] \in Voted)
    BY DEF CalmStep, Active, Voted, Leaving, NotYet, BeforeVcpu, Failing
  <2>2. "panicked" \notin Voted
    BY DEF Voted, Leaving
  <2>. QED
    BY <1>1, <1>2, <2>1, <2>2 DEF Started
<1>6. /\ Count(pc, Active) \in Nat
      /\ Count(pc', Active) = Count(pc, Active) + In(pc'[c], Active) - In(pc[c], Active)
      /\ Count(pc, Started) \in Nat
      /\ Count(pc', Started) = Count(pc, Started) + In(pc'[c], Started) - In(pc[c], Started)
      /\ Count(live, Voted) \in Nat
      /\ Count(live', Voted) = Count(live, Voted) + In(live'[c], Voted) - In(live[c], Voted)
  BY <1>1, MoveCount DEF CalmStep
<1>7. /\ Count(pc', Active) <= Count(pc, Active) /\ Count(pc', Active) \in Int
      /\ Count(pc, Started) <= Count(pc', Started) /\ Count(pc', Started) \in Int
      /\ Count(live', Voted) = Count(live, Voted)
  BY <1>5, <1>6 DEF In
<1>8. /\ ACTIVATED_CPUS' = ACTIVATED_CPUS /\ TRY_DISABLE_CPUS' = TRY_DISABLE_CPUS
      /\ ACTIVATED_CPUS \in Int
  BY WordAssumption DEF CalmStep, TypeOK
<1>9. /\ Count(pc, Active) <= ACTIVATED_CPUS /\ ACTIVATED_CPUS <= Count(pc, Started)
      /\ TRY_DISABLE_CPUS <= Count(live, Voted)
  BY DEF LeaveInv
<1>10. /\ Count(pc', Active) <= ACTIVATED_CPUS' /\ ACTIVATED_CPUS' <= Count(pc', Started)
       /\ TRY_DISABLE_CPUS' <= Count(live', Voted)
  BY <1>6, <1>7, <1>8, <1>9
<1>. QED
  BY <1>4, <1>10, LeaveKept

\* The counts after a step, from the places the stepping CPU leaves and enters.
LEMMA LeaveCounts ==
  ASSUME TypeOK, LeaveInv, NEW c \in CPU, OnlyAt(c, pc, pc'),
         panicked' \in {panicked, panicked \cup {c}}
  PROVE  /\ Count(pc, Active) \in Nat /\ Count(pc, Started) \in Nat /\ Count(live, Voted) \in Nat
         /\ Count(pc', Active) = Count(pc, Active) + In(pc'[c], Active) - In(pc[c], Active)
         /\ Count(pc', Started) = Count(pc, Started) + In(pc'[c], Started) - In(pc[c], Started)
         /\ Count(live', Voted) = Count(live, Voted) + In(live'[c], Voted) - In(live[c], Voted)
         /\ Count(pc, Active) <= ACTIVATED_CPUS /\ ACTIVATED_CPUS <= Count(pc, Started)
         /\ TRY_DISABLE_CPUS <= Count(live, Voted)
         /\ Count(pc, Started) <= Cardinality(CPU) /\ Count(live, Voted) <= Cardinality(CPU)
         /\ Cardinality(CPU) \in Nat /\ ACTIVATED_CPUS \in Nat /\ TRY_DISABLE_CPUS \in Nat
<1>1. OnlyAt(c, live, live')
  BY LiveMove
<1>2. Cardinality(CPU) \in Nat /\ ACTIVATED_CPUS \in Nat /\ TRY_DISABLE_CPUS \in Nat
  BY CountAll, WordAssumption DEF TypeOK
<1>. QED
  BY <1>1, <1>2, MoveCount DEF LeaveInv

\* A step of an activated CPU that has not panicked.
LEMMA LiveAt ==
  ASSUME TypeOK, LeaveInv, NEW c \in CPU, OnlyAt(c, pc, pc'), panicked' = panicked,
         pc[c] \in {"activate", "guest", "try_disable", "wait_disable"}
  PROVE  c \notin panicked /\ live[c] = pc[c] /\ live'[c] = pc'[c] /\ OnlyAt(c, live, live')
<1>1. c \notin panicked
  BY DEF LeaveInv
<1>. QED
  BY <1>1, LiveMove

\* ActivateVmm keeps the invariant: the CPU is counted as it starts.
LEMMA LeaveActivate ==
  ASSUME TypeOK, TypeOK', LeaveInv, NEW c \in CPU, ActivateVmm(c)
  PROVE  LeaveInv'
<1>1. /\ OnlyAt(c, pc, pc') /\ pc[c] = "activate" /\ pc'[c] = "enter" /\ panicked' = panicked
      /\ OnlyAt(c, cpus, cpus') /\ call_done' = call_done /\ disabling' = disabling
      /\ TRY_DISABLE_CPUS' = TRY_DISABLE_CPUS
  BY DEF ActivateVmm, Goto, OnlyAt, TypeOK, drv
<1>2. c \notin panicked /\ live[c] = "activate" /\ live'[c] = "enter"
  BY <1>1, LiveAt
<1>3. c \notin call_done
  BY <1>2 DEF LeaveInv, Joined, Voted, Leaving
<1>4. LeaveStep(c)
  BY <1>1, <1>2, <1>3 DEF LeaveStep, Voted, Leaving
<1>5. /\ In("enter", Active) = 1 /\ In("enter", Started) = 1 /\ In("enter", Voted) = 0
      /\ In("activate", Active) = 0 /\ In("activate", Started) = 0 /\ In("activate", Voted) = 0
  BY DEF In, Active, Started, Voted, Leaving, NotYet, BeforeVcpu, Location, HvLocation
<1>6. /\ Count(pc', Active) = Count(pc, Active) + 1
      /\ Count(pc', Started) = Count(pc, Started) + 1
      /\ Count(live', Voted) = Count(live, Voted)
  BY <1>1, <1>2, <1>5, LeaveCounts
<1>7. ACTIVATED_CPUS' = ACTIVATED_CPUS + 1
  <2>1. Count(pc', Started) <= Cardinality(CPU)
    <3>1. OnlyAt(c, pc', pc')
      BY DEF OnlyAt
    <3>. QED
      BY <3>1, MoveCount
  <2>. QED
    BY <1>1, <1>6, <2>1, LeaveCounts, WordAssumption DEF ActivateVmm, Inc
<1>8. /\ Count(pc', Active) <= ACTIVATED_CPUS' /\ ACTIVATED_CPUS' <= Count(pc', Started)
      /\ TRY_DISABLE_CPUS' <= Count(live', Voted)
  BY <1>1, <1>6, <1>7, LeaveCounts
<1>. QED
  BY <1>4, <1>8, LeaveKept

\* HypervisorDisable keeps it: as this CPU has not voted, no live CPU has left,
\* so ACTIVATED_CPUS still covers all of them.
LEMMA LeaveAsk ==
  ASSUME TypeOK, TypeOK', LeaveInv, NEW c \in CPU, HypervisorDisable(c)
  PROVE  LeaveInv'
<1>1. /\ OnlyAt(c, pc, pc') /\ pc[c] = "guest" /\ pc'[c] = "try_disable" /\ panicked' = panicked
      /\ OnlyAt(c, cpus, cpus') /\ call_done' = call_done /\ disabling' = disabling
      /\ TRY_DISABLE_CPUS' = TRY_DISABLE_CPUS /\ ACTIVATED_CPUS' = ACTIVATED_CPUS
      /\ cpus'[c] = ACTIVATED_CPUS /\ disabling
  BY DEF HypervisorDisable, Goto, OnlyAt, TypeOK, drv
<1>2. c \notin panicked /\ live[c] = "guest" /\ live'[c] = "try_disable"
  BY <1>1, LiveAt
<1>3. ACTIVATED_CPUS >= Count(live, Location)
  <2>1. \A d \in CPU : live[d] \in Location => pc[d] \in Active
    <3>. SUFFICES ASSUME NEW d \in CPU, live[d] \in Location PROVE pc[d] \in Active
      OBVIOUS
    <3>1. live[d] \in Joined /\ live[d] = pc[d]
      BY <1>1 DEF LeaveInv, live, Location, HvLocation
    <3>2. live[d] \notin Leaving
      BY <1>2 DEF LeaveInv, LiveTogether, Voted, Leaving
    <3>. QED
      BY <3>1, <3>2 DEF Joined, Voted, Leaving, Active
  <2>2. Count(live, Location) <= Count(pc, Active)
    <3>. DEFINE S == {d \in CPU : live[d] \in Location}
                T == {d \in CPU : pc[d] \in Active}
    <3>1. S \in SUBSET T /\ T \in SUBSET CPU
      BY <2>1
    <3>2. Cardinality(S) <= Cardinality(T)
      BY <3>1, CpuAssumption, FS_Subset
    <3>. QED
      BY <3>2 DEF Count
  <2>3. Count(live, Location) \in Nat
    BY CountAll
  <2>. QED
    BY <1>1, <2>2, <2>3, LeaveCounts
<1>4. LeaveStep(c)
  <2>1. c \in call_done
    BY <1>1 DEF LeaveInv
  <2>. QED
    BY <1>1, <1>2, <1>3, <2>1 DEF LeaveStep, Voted, Leaving, Joined
<1>5. /\ In("try_disable", Active) = 1 /\ In("try_disable", Started) = 1 /\ In("try_disable", Voted) = 0
      /\ In("guest", Active) = 1 /\ In("guest", Started) = 1 /\ In("guest", Voted) = 0
  BY DEF In, Active, Started, Voted, Leaving, NotYet, BeforeVcpu, Location, HvLocation
<1>6. /\ Count(pc', Active) <= ACTIVATED_CPUS' /\ ACTIVATED_CPUS' <= Count(pc', Started)
      /\ TRY_DISABLE_CPUS' <= Count(live', Voted)
  BY <1>1, <1>2, <1>5, LeaveCounts
<1>. QED
  BY <1>4, <1>6, LeaveKept

\* TryDisable keeps it: the CPU votes as it is counted.
LEMMA LeaveVote ==
  ASSUME TypeOK, TypeOK', LeaveInv, NEW c \in CPU, TryDisable(c)
  PROVE  LeaveInv'
<1>1. /\ OnlyAt(c, pc, pc') /\ pc[c] = "try_disable" /\ pc'[c] = "wait_disable"
      /\ panicked' = panicked /\ OnlyAt(c, cpus, cpus') /\ call_done' = call_done
      /\ disabling' = disabling /\ ACTIVATED_CPUS' = ACTIVATED_CPUS /\ cpus' = cpus
  BY DEF TryDisable, Goto, OnlyAt, TypeOK, drv
<1>2. c \notin panicked /\ live[c] = "try_disable" /\ live'[c] = "wait_disable"
  BY <1>1, LiveAt
<1>4. LeaveStep(c)
  BY <1>1, <1>2 DEF LeaveInv, LeaveStep, Voted, Leaving, Joined
<1>5. /\ In("try_disable", Active) = 1 /\ In("try_disable", Started) = 1 /\ In("try_disable", Voted) = 0
      /\ In("wait_disable", Active) = 1 /\ In("wait_disable", Started) = 1 /\ In("wait_disable", Voted) = 1
  BY DEF In, Active, Started, Voted, Leaving, NotYet, BeforeVcpu, Location, HvLocation
<1>6. TRY_DISABLE_CPUS' = TRY_DISABLE_CPUS + 1
  BY <1>1, LeaveCounts, WordAssumption DEF TryDisable, Inc
<1>7. /\ Count(pc', Active) <= ACTIVATED_CPUS' /\ ACTIVATED_CPUS' <= Count(pc', Started)
      /\ TRY_DISABLE_CPUS' <= Count(live', Voted)
  BY <1>1, <1>2, <1>5, <1>6, LeaveCounts
<1>. QED
  BY <1>4, <1>7, LeaveKept

\* When TRY_DISABLE_CPUS has reached the number a CPU waits for, all live CPUs
\* have voted.
LEMMA AllVoted ==
  ASSUME TypeOK, LeaveInv, NEW c \in CPU, live[c] = "wait_disable", TRY_DISABLE_CPUS >= cpus[c]
  PROVE  \A d \in CPU : live[d] \in Voted \cup {"panicked"}
<1>. DEFINE S == {d \in CPU : live[d] \in Voted}
            T == {d \in CPU : live[d] \in Location}
<1>1. S \in SUBSET T /\ T \in SUBSET CPU
  BY DEF Voted, Leaving, Location, HvLocation
<1>2. /\ IsFiniteSet(T) /\ Cardinality(S) <= Cardinality(T)
      /\ Cardinality(S) = Cardinality(T) => S = T
  BY <1>1, CpuAssumption, FS_Subset
<1>3. Cardinality(S) = Cardinality(T)
  <2>1. cpus[c] >= Count(live, Location) /\ cpus[c] \in Int
    BY WordAssumption DEF LeaveInv, TypeOK
  <2>2. Count(live, Location) \in Nat /\ Count(live, Voted) \in Nat
    BY CountAll
  <2>3. Count(live, Voted) >= Count(live, Location)
    BY <2>1, <2>2, WordAssumption DEF LeaveInv, TypeOK
  <2>4. Cardinality(S) >= Cardinality(T) /\ Cardinality(S) \in Nat /\ Cardinality(T) \in Nat
    BY <2>2, <2>3 DEF Count
  <2>. HIDE DEF S, T
  <2>. QED
    BY <1>2, <2>4
<1>4. \A d \in CPU : live[d] \in Location \cup {"panicked"}
  BY DEF live, TypeOK
<1>. QED
  BY <1>2, <1>3, <1>4

\* WaitDisable keeps it: TRY_DISABLE_CPUS has reached the number of live CPUs,
\* so all of them have voted.
LEMMA LeavePass ==
  ASSUME TypeOK, TypeOK', LeaveInv, NEW c \in CPU, WaitDisable(c)
  PROVE  LeaveInv'
<1>1. /\ OnlyAt(c, pc, pc') /\ pc[c] = "wait_disable" /\ pc'[c] = "deactivate"
      /\ panicked' = panicked /\ OnlyAt(c, cpus, cpus') /\ call_done' = call_done
      /\ disabling' = disabling /\ ACTIVATED_CPUS' = ACTIVATED_CPUS
      /\ TRY_DISABLE_CPUS' = TRY_DISABLE_CPUS /\ TRY_DISABLE_CPUS >= cpus[c]
  BY DEF WaitDisable, PassDisable, Goto, OnlyAt, TypeOK, leave, drv
<1>2. c \notin panicked /\ live[c] = "wait_disable" /\ live'[c] = "deactivate"
  BY <1>1, LiveAt
<1>3. \A d \in CPU : live[d] \in Voted \cup {"panicked"}
  BY <1>1, <1>2, AllVoted
<1>4. LeaveStep(c)
  BY <1>1, <1>2, <1>3 DEF LeaveInv, LeaveStep, Voted, Leaving, Joined
<1>5. /\ In("wait_disable", Active) = 1 /\ In("wait_disable", Started) = 1 /\ In("wait_disable", Voted) = 1
      /\ In("deactivate", Active) = 1 /\ In("deactivate", Started) = 1 /\ In("deactivate", Voted) = 1
  BY DEF In, Active, Started, Voted, Leaving, NotYet, BeforeVcpu, Location, HvLocation
<1>6. /\ Count(pc', Active) <= ACTIVATED_CPUS' /\ ACTIVATED_CPUS' <= Count(pc', Started)
      /\ TRY_DISABLE_CPUS' <= Count(live', Voted)
  BY <1>1, <1>2, <1>5, LeaveCounts
<1>. QED
  BY <1>4, <1>6, LeaveKept

\* DeactivateVmm keeps it, on the way out of the barrier and after a panic.
LEMMA LeaveDeactivate ==
  ASSUME TypeOK, TypeOK', LeaveInv, NEW c \in CPU, DeactivateVmm(c)
  PROVE  LeaveInv'
<1>1. /\ OnlyAt(c, pc, pc') /\ pc[c] = "deactivate" /\ pc'[c] = "exit"
      /\ panicked' = panicked /\ OnlyAt(c, cpus, cpus') /\ call_done' = call_done
      /\ disabling' = disabling /\ TRY_DISABLE_CPUS' = TRY_DISABLE_CPUS
  BY DEF DeactivateVmm, Goto, OnlyAt, TypeOK, drv
<1>2. /\ live[c] = IF c \in panicked THEN "panicked" ELSE "deactivate"
      /\ live'[c] = IF c \in panicked THEN "panicked" ELSE "exit"
  BY <1>1, LiveMove
<1>4. LeaveStep(c)
  BY <1>1, <1>2 DEF LeaveInv, LiveTogether, LeaveStep, Voted, Leaving, Joined
<1>5. /\ In("exit", Active) = 0 /\ In("exit", Started) = 1 /\ In("exit", Voted) = 1
      /\ In("deactivate", Active) = 1 /\ In("deactivate", Started) = 1 /\ In("deactivate", Voted) = 1
  BY DEF In, Active, Started, Voted, Leaving, NotYet, BeforeVcpu, Location, HvLocation
<1>6. In(live'[c], Voted) = In(live[c], Voted)
  BY <1>2, <1>5
<1>7. Count(pc, Active) > 0
  BY <1>1, CountAll DEF Active
<1>8. ACTIVATED_CPUS' = ACTIVATED_CPUS - 1
  BY <1>1, <1>7, LeaveCounts DEF DeactivateVmm, Dec
<1>9. In(live'[c], Voted) \in Int /\ In(live[c], Voted) \in Int
  BY DEF In
<1>10. /\ Count(pc', Active) <= ACTIVATED_CPUS' /\ ACTIVATED_CPUS' <= Count(pc', Started)
       /\ TRY_DISABLE_CPUS' <= Count(live', Voted)
  BY <1>1, <1>5, <1>6, <1>8, <1>9, LeaveCounts
<1>. QED
  BY <1>4, <1>10, LeaveKept

\* A panic before the CPU has voted keeps it: the CPU leaves the live CPUs.
LEMMA LeavePanic ==
  ASSUME TypeOK, TypeOK', StateInv, LeaveInv, NEW c \in CPU, Panic(c),
         PanicAt \subseteq BeforeVcpu \cup {"enter", "guest", "try_disable"}
  PROVE  LeaveInv'
<1>1. /\ UNCHANGED <<ACTIVATED_CPUS, TRY_DISABLE_CPUS, cpus, call_done, disabling>>
      /\ OnlyAt(c, pc, pc') /\ panicked' = panicked \cup {c} /\ pc[c] \in PanicAt
      /\ \/ pc[c] \in BeforeVcpu /\ pc'[c] = "hung"
         \/ pc[c] \in Active /\ pc'[c] = "deactivate"
  <2>1. PanicAt \subseteq BeforeVcpu \cup Active
    BY DEF Active
  <2>. QED
    BY <2>1, PanicStep
<1>2. c \notin panicked /\ live[c] = pc[c] /\ live'[c] = "panicked"
  BY <1>1, LiveMove DEF Panic
<1>3. pc[c] \notin Voted /\ "panicked" \notin Voted
  BY <1>1 DEF Voted, Leaving, BeforeVcpu
<1>4. LeaveStep(c)
  BY <1>1, <1>2, <1>3 DEF LeaveStep, OnlyAt, Voted, Leaving
<1>5. /\ In(live'[c], Voted) = 0 /\ In(live[c], Voted) = 0
      /\ In(pc'[c], Started) = 1
      /\ In(pc'[c], Active) <= In(pc[c], Active)
      /\ In(pc[c], Started) \in {0, 1} /\ In(pc[c], Active) \in Int /\ In(pc'[c], Active) \in Int
  <2>1. "hung" \in Started /\ "deactivate" \in Started
    BY DEF Started, NotYet, BeforeVcpu, Location, HvLocation
  <2>2. "hung" \notin Active
    BY DEF Active
  <2>3. pc'[c] \in Started /\ (pc'[c] \in Active => pc[c] \in Active)
    BY <1>1, <2>1, <2>2, Zenon
  <2>4. live'[c] \notin Voted /\ live[c] \notin Voted
    BY <1>2, <1>3, Zenon
  <2>. QED
    BY <2>3, <2>4 DEF In
<1>6. /\ Count(pc', Active) <= ACTIVATED_CPUS' /\ ACTIVATED_CPUS' <= Count(pc', Started)
      /\ TRY_DISABLE_CPUS' <= Count(live', Voted)
  BY <1>1, <1>5, LeaveCounts, SMTT(30)
<1>. QED
  BY <1>4, <1>6, LeaveKept

\* The invariant of the disable barrier.
LEMMA LeaveCorrect ==
  ASSUME PanicAt \subseteq BeforeVcpu \cup {"enter", "guest", "try_disable"}
  PROVE  Spec => []LeaveInv
<1>1. TypeOK /\ TypeOK' /\ StateInv /\ LeaveInv /\ [Next]_vars => LeaveInv'
  <2>. SUFFICES ASSUME TypeOK, TypeOK', StateInv, LeaveInv, [Next]_vars PROVE LeaveInv'
    OBVIOUS
  <2>1. ASSUME NEW c \in CPU, Run(c) PROVE LeaveInv'
    BY <2>1, CalmSteps, LeaveCalm, LeaveActivate, LeaveAsk, LeaveVote, LeavePass, LeaveDeactivate
  <2>2. ASSUME NEW c \in CPU, Panic(c) PROVE LeaveInv'
    BY <2>2, LeavePanic
  <2>3. CASE DriverDisable
    BY <2>3 DEF DriverDisable, LeaveInv, LiveTogether, live, Count, leave, host
  <2>4. CASE Reload
    <3>1. Init'
      BY <2>4 DEF Reload, Init
    <3>2. Init' => LeaveInv'
      BY LeaveInit, PTL
    <3>. QED
      BY <3>1, <3>2
  <2>5. CASE UNCHANGED vars
    BY <2>5 DEF vars, leave, drv, LeaveInv, LiveTogether, live, Count
  <2>. QED
    BY <2>1, <2>2, <2>3, <2>4, <2>5 DEF Next
<1>. QED
  BY <1>1, LeaveInit, TypeCorrect, StateCorrect, PTL DEF Spec

\* hypervisor_disable() lets no CPU that has not panicked leave while another
\* such CPU is still a guest, whatever the number of CPUs and the errors of VM
\* entry and exit, as long as a CPU panics only before its vCPU is set up or
\* before it has been counted in TRY_DISABLE_CPUS.
THEOREM DisableTogetherOrPanickedHolds ==
  ASSUME PanicAt \subseteq BeforeVcpu \cup {"enter", "guest", "try_disable"}
  PROVE  Spec => []DisableTogetherOrPanicked
  BY LeaveCorrect, TogetherAsLive, TypeCorrect, PTL

\* Nobody is in panicked when nothing panics.
LEMMA NonePanicked ==
  ASSUME PanicAt = {}
  PROVE  Spec => [](panicked = {})
<1>1. Init => panicked = {}
  BY DEF Init
<1>2. panicked = {} /\ [Next]_vars => (panicked = {})'
  BY DEF Next, Run, Enable, Disable, NewCheck, New, WaitEntered, CheckEntered,
         PrimaryInitEarly, WaitEarly, CheckEarly, InitContext, VcpuNew, InitedAdd,
         WaitInited, CheckInited, PrimaryInitLate, WaitLate, CheckLate, ActivateVmm,
         VcpuEnter, StoreErr, LoadErr, HypervisorDisable, TryDisable, WaitDisable,
         DeactivateVmm, VcpuExit, Panic, DriverDisable, Reload, Recheck, WaitFor,
         PassDisable, vars
<1>. QED
  BY <1>1, <1>2, PTL DEF Spec

\* Without panics panicked stays empty, and all CPUs leave together.
THEOREM DisableTogetherHolds ==
  ASSUME PanicAt = {}
  PROVE  Spec => []DisableTogether
<1>1. panicked = {} /\ DisableTogetherOrPanicked => DisableTogether
  BY DEF DisableTogetherOrPanicked, DisableTogether
<1>2. Spec => []DisableTogetherOrPanicked
  BY DisableTogetherOrPanickedHolds
<1>. QED
  BY <1>1, <1>2, NonePanicked, PTL

-----------------------------------------------------------------------------
(***************************************************************************)
(* HvLifecycle implements HvSwitch when only initialisation can fail.  The *)
(* steps that change the mode of a CPU meet the guards of HvSwitch because *)
(* of the two barrier invariants and because of how errors spread: the CPU *)
(* that stored an error stays refused, and once a CPU has passed the       *)
(* INITED_CPUS barrier no CPU fails any more.                              *)
(***************************************************************************)
ReadyLocs == {"wait_inited", "chk_inited", "late", "wait_late", "chk_late", "activate", "enter"}

ErrorInv ==
    /\ \A c \in CPU : pc[c] \notin {"hung", "guest_kept"}
    /\ has_err => \E d \in CPU : pc[d] \in {"load_err", "returned"}
    /\ (\E c \in CPU : pc[c] \in Passed) => ~has_err /\ \A d \in CPU : pc[d] \notin Failing
    /\ \A d \in CPU : pc[d] \in Failing /\ Inited(d) => has_err

\* The moves a CPU can make when only initialisation fails.
Edge(c) ==
    \/ /\ pc[c] \in BeforeVcpu /\ pc'[c] \in BeforeVcpu \cup {"inited"}
       /\ ERROR_NUM' = ERROR_NUM
    \/ /\ pc[c] \in BeforeVcpu /\ pc'[c] \in {"store_err", "returned"}
       /\ ERROR_NUM' = ERROR_NUM /\ state'[c] = "HvDisabled"
    \/ /\ pc[c] = "inited" /\ pc'[c] = "wait_inited" /\ ERROR_NUM' = ERROR_NUM
    \/ /\ pc[c] \in ReadyLocs /\ pc'[c] \in ReadyLocs
       /\ pc'[c] \in Passed => pc[c] \in Passed \/ (pc[c] = "chk_inited" /\ ~has_err)
       /\ ERROR_NUM' = ERROR_NUM
    \/ /\ pc[c] \in {"chk_inited", "chk_late"} /\ pc'[c] = "store_err" /\ has_err
       /\ ERROR_NUM' = ERROR_NUM
    \/ /\ pc[c] = "store_err" /\ pc'[c] = "load_err" /\ ERROR_NUM' # 0
    \/ /\ pc[c] = "load_err" /\ pc'[c] = "returned"
       /\ ERROR_NUM' = ERROR_NUM /\ state'[c] = state[c]
    \/ /\ ERROR_NUM' = ERROR_NUM
       /\ <<pc[c], pc'[c]>> \in {<<"enter", "guest">>, <<"guest", "try_disable">>,
                                 <<"try_disable", "wait_disable">>,
                                 <<"wait_disable", "deactivate">>,
                                 <<"deactivate", "exit">>, <<"exit", "off">>}

\* Every step of a CPU is such a move of that CPU.
LEMMA EdgeSteps ==
  ASSUME TypeOK, StateInv, EnterErrors = {}, ExitErrors = {}, NEW c \in CPU, Run(c)
  PROVE  OnlyAt(c, pc, pc') /\ OnlyAt(c, state, state') /\ Edge(c)
<1>. USE DEF TypeOK, StateInv, Edge, OnlyAt, BeforeVcpu, ReadyLocs, Passed, Activated, has_err,
             Goto, Fail, Recheck, WaitFor, PassDisable, host
<1>1. CASE NewCheck(c)
  BY <1>1 DEF NewCheck
<1>2. CASE New(c)
  BY <1>2 DEF New
<1>3. CASE WaitEntered(c)
  BY <1>3 DEF WaitEntered
<1>4. CASE CheckEntered(c)
  BY <1>4 DEF CheckEntered
<1>5. CASE PrimaryInitEarly(c)
  BY <1>5 DEF PrimaryInitEarly
<1>6. CASE WaitEarly(c)
  BY <1>6 DEF WaitEarly
<1>7. CASE CheckEarly(c)
  BY <1>7 DEF CheckEarly
<1>8. CASE InitContext(c)
  BY <1>8 DEF InitContext
<1>9. CASE VcpuNew(c)
  BY <1>9 DEF VcpuNew
<1>10. CASE InitedAdd(c)
  BY <1>10 DEF InitedAdd
<1>11. CASE WaitInited(c)
  BY <1>11 DEF WaitInited
<1>12. CASE CheckInited(c)
  BY <1>12 DEF CheckInited
<1>13. CASE PrimaryInitLate(c)
  BY <1>13 DEF PrimaryInitLate
<1>14. CASE WaitLate(c)
  BY <1>14 DEF WaitLate
<1>15. CASE CheckLate(c)
  BY <1>15 DEF CheckLate
<1>16. CASE ActivateVmm(c)
  BY <1>16 DEF ActivateVmm
<1>17. CASE VcpuEnter(c)
  BY <1>17 DEF VcpuEnter
<1>18. CASE StoreErr(c)
  BY <1>18 DEF StoreErr
<1>19. CASE LoadErr(c)
  BY <1>19 DEF LoadErr
<1>20. CASE HypervisorDisable(c)
  BY <1>20 DEF HypervisorDisable
<1>21. CASE TryDisable(c)
  BY <1>21 DEF TryDisable
<1>22. CASE WaitDisable(c)
  BY <1>22 DEF WaitDisable
<1>23. CASE DeactivateVmm(c)
  BY <1>23 DEF DeactivateVmm
<1>24. CASE VcpuExit(c)
  BY <1>24 DEF VcpuExit
<1>. HIDE DEF Edge, OnlyAt
<1>. QED
  BY <1>1, <1>2, <1>3, <1>4, <1>5, <1>6, <1>7, <1>8, <1>9, <1>10, <1>11, <1>12, <1>13,
     <1>14, <1>15, <1>16, <1>17, <1>18, <1>19, <1>20, <1>21, <1>22, <1>23, <1>24
  DEF Run, Enable, Disable

\* Once a CPU is through the INITED_CPUS barrier every CPU has been counted
\* there, none fails and there is no error.
LEMMA PastBarrier ==
  ASSUME InitedInv, ErrorInv, panicked = {}, NEW c \in CPU,
         pc[c] \in Passed \/ (pc[c] = "chk_inited" /\ ~has_err)
  PROVE  /\ ~has_err
         /\ \A d \in CPU : Inited(d) /\ pc[d] \notin Failing /\ pc[d] \notin BeforeVcpu \cup {"inited"}
<1>1. AllInited
  BY DEF InitedInv, BarrierInv
<1>2. ~has_err /\ \A d \in CPU : pc[d] \notin Failing
  BY <1>1 DEF ErrorInv, AllInited
<1>3. \A d \in CPU : pc[d] \notin BeforeVcpu \cup {"inited"}
  BY <1>1 DEF AllInited, Inited, InitedInv, StateInv, BeforeVcpu
<1>. QED
  BY <1>1, <1>2, <1>3 DEF AllInited

\* Every move keeps ErrorInv.
LEMMA ErrorKept ==
  ASSUME TypeOK, InitedInv, ErrorInv, panicked = {}, NEW c \in CPU,
         OnlyAt(c, pc, pc'), OnlyAt(c, state, state'), Edge(c)
  PROVE  ErrorInv'
<1>0. \A d \in CPU \ {c} : pc'[d] = pc[d] /\ state'[d] = state[d]
  BY DEF OnlyAt
<1>1. \A d \in CPU : pc'[d] \notin {"hung", "guest_kept"}
  BY <1>0 DEF ErrorInv, Edge, BeforeVcpu, ReadyLocs
<1>2. ASSUME has_err' PROVE \E d \in CPU : pc'[d] \in {"load_err", "returned"}
  <2>1. CASE has_err
    <3>1. PICK d \in CPU : pc[d] \in {"load_err", "returned"}
      BY <2>1 DEF ErrorInv
    <3>2. pc'[d] \in {"load_err", "returned"}
      BY <1>0, <3>1 DEF Edge, BeforeVcpu, ReadyLocs
    <3>. QED
      BY <3>2
  <2>2. CASE ~has_err
    BY <1>2, <2>2 DEF Edge, has_err
  <2>. QED
    BY <2>1, <2>2
<1>3. ASSUME NEW e \in CPU, pc'[e] \in Passed
      PROVE  ~has_err' /\ \A d \in CPU : pc'[d] \notin Failing
  <2>1. \E b \in CPU : pc[b] \in Passed \/ (pc[b] = "chk_inited" /\ ~has_err)
    <3>1. CASE e = c
      BY <1>3, <3>1 DEF Edge, BeforeVcpu, Passed, Activated, ReadyLocs
    <3>2. CASE e # c
      BY <1>0, <1>3, <3>2
    <3>. QED
      BY <3>1, <3>2
  <2>2. /\ ~has_err
        /\ \A d \in CPU : pc[d] \notin Failing /\ pc[d] \notin BeforeVcpu \cup {"inited"}
    BY <2>1, PastBarrier
  <2>3. ERROR_NUM' = ERROR_NUM /\ pc'[c] \notin Failing
    BY <2>2 DEF Edge, Failing, ReadyLocs
  <2>. QED
    BY <1>0, <2>2, <2>3 DEF has_err
<1>4. ASSUME NEW d \in CPU, pc'[d] \in Failing, Inited(d)' PROVE has_err'
  <2>1. has_err => has_err'
    BY DEF Edge, has_err
  <2>2. CASE d # c
    BY <1>0, <1>4, <2>1, <2>2 DEF ErrorInv, Inited
  <2>3. CASE d = c
    BY <1>4, <2>1, <2>3 DEF Edge, ErrorInv, Inited, Failing, BeforeVcpu, ReadyLocs, has_err,
                            InitedInv, StateInv
  <2>. QED
    BY <2>2, <2>3
<1>. QED
  BY <1>1, <1>2, <1>3, <1>4 DEF ErrorInv

\* How errors spread, when only initialisation fails.
LEMMA ErrorCorrect ==
  ASSUME EnterErrors = {}, ExitErrors = {}, PanicAt = {}, Cardinality(CPU) <= OnlineCpus
  PROVE  Spec => []ErrorInv
<1>1. Init => ErrorInv
  BY DEF Init, ErrorInv, has_err, Passed, Activated, Failing
<1>2. InitedInv /\ ErrorInv /\ panicked = {} /\ [Next]_vars => ErrorInv'
  <2>. SUFFICES ASSUME InitedInv, ErrorInv, panicked = {}, [Next]_vars PROVE ErrorInv'
    OBVIOUS
  <2>0. TypeOK /\ StateInv
    BY DEF InitedInv
  <2>1. ASSUME NEW c \in CPU, Run(c) PROVE ErrorInv'
    BY <2>0, <2>1, EdgeSteps, ErrorKept
  <2>2. ASSUME NEW c \in CPU, Panic(c) PROVE ErrorInv'
    BY <2>2 DEF Panic
  <2>3. CASE DriverDisable
    BY <2>3 DEF DriverDisable, ErrorInv, has_err, Inited, host
  <2>4. CASE Reload
    <3>1. Init'
      BY <2>4 DEF Reload, Init
    <3>2. Init' => ErrorInv'
      BY <1>1, PTL
    <3>. QED
      BY <3>1, <3>2
  <2>5. CASE UNCHANGED vars
    BY <2>5 DEF vars, ErrorInv, has_err, Inited, host
  <2>. QED
    BY <2>1, <2>2, <2>3, <2>4, <2>5 DEF Next
<1>. QED
  BY <1>1, <1>2, InitedCorrect, NonePanicked, PTL DEF Spec

\* The mode of a CPU under the refinement mapping.
modes == [c \in CPU |-> ModeOf(pc[c])]

\* The guards of HvSwitch's Join, Ask and Leave hold where the code joins the
\* guest, votes and leaves.
LEMMA SwitchGuards ==
  ASSUME InitedInv, LeaveInv, ErrorInv, panicked = {}, NEW c \in CPU
  PROVE  /\ pc[c] = "enter" => \A d \in CPU : modes[d] \in {"ready", "guest"}
         /\ pc[c] = "try_disable" => \A d \in CPU : modes[d] \in {"guest", "leaving"}
         /\ WaitDisable(c) => \A d \in CPU : modes[d] \in {"leaving", "left"}
<1>0. \A d \in CPU : /\ pc[d] \in Location \ {"hung", "guest_kept"}
                     /\ live[d] = pc[d] /\ modes[d] = ModeOf(pc[d])
  BY DEF InitedInv, TypeOK, ErrorInv, live, modes
<1>1. ASSUME pc[c] = "enter", NEW d \in CPU PROVE modes[d] \in {"ready", "guest"}
  <2>1. pc[d] \notin Failing \cup BeforeVcpu \cup {"inited"}
    BY <1>1, PastBarrier DEF Passed, Activated
  <2>2. pc[d] \notin Voted
    <3>1. pc[c] \notin Joined
      BY <1>1 DEF Joined, Voted, Leaving
    <3>2. ~disabling
      BY <1>0, <3>1 DEF LeaveInv, InitedInv, TypeOK, Location, HvLocation
    <3>. QED
      BY <1>0, <3>2 DEF LeaveInv
  <2>. QED
    BY <1>0, <2>1, <2>2 DEF ModeOf, Failing, BeforeVcpu, Voted, Leaving, Location, HvLocation
<1>2. ASSUME pc[c] = "try_disable", NEW d \in CPU PROVE modes[d] \in {"guest", "leaving"}
  <2>1. pc[d] \in Joined
    BY <1>0, <1>2 DEF LeaveInv, Location, HvLocation
  <2>2. pc[d] \notin Leaving
    BY <1>0, <1>2 DEF LeaveInv, LiveTogether, Voted, Leaving
  <2>. QED
    BY <1>0, <2>1, <2>2 DEF ModeOf, Joined, Voted, Leaving
<1>3. ASSUME WaitDisable(c), NEW d \in CPU PROVE modes[d] \in {"leaving", "left"}
  <2>1. pc[d] \in Voted
    BY <1>0, <1>3, AllVoted DEF WaitDisable, PassDisable, InitedInv, Location, HvLocation
  <2>. QED
    BY <1>0, <2>1 DEF ModeOf, Voted, Leaving
<1>. QED
  BY <1>1, <1>2, <1>3

\* Every step of the code is a step of HvSwitch or leaves the modes alone.
LEMMA SwitchStep ==
  ASSUME InitedInv, LeaveInv, ErrorInv, panicked = {}, EnterErrors = {}, ExitErrors = {},
         NEW c \in CPU, Run(c)
  PROVE  [Switch!Next]_modes
<1>0. TypeOK /\ StateInv
  BY DEF InitedInv
<1>1. OnlyAt(c, pc, pc') /\ OnlyAt(c, state, state') /\ Edge(c)
  BY <1>0, EdgeSteps
<1>2. /\ modes' = [modes EXCEPT ![c] = ModeOf(pc'[c])]
      /\ modes[c] = ModeOf(pc[c])
  BY <1>1 DEF modes, OnlyAt
<1>3. CASE ModeOf(pc'[c]) = ModeOf(pc[c])
  BY <1>2, <1>3 DEF modes
<1>4. ASSUME ModeOf(pc[c]) = "linux", ModeOf(pc'[c]) = "ready" PROVE Switch!Next
  BY <1>2, <1>4 DEF Switch!Next, Switch!Ready, Switch!Become, modes
<1>5. ASSUME ModeOf(pc[c]) = "linux", ModeOf(pc'[c]) = "refused" PROVE Switch!Next
  BY <1>2, <1>5 DEF Switch!Next, Switch!Refuse, Switch!Become, modes
<1>6. ASSUME pc[c] \in {"chk_inited", "chk_late"}, pc'[c] = "store_err", has_err PROVE Switch!Next
  <2>1. \E d \in CPU : modes[d] = "refused"
    BY <1>6 DEF ErrorInv, modes, ModeOf
  <2>2. modes[c] = "ready" /\ modes' = [modes EXCEPT ![c] = "refused"]
    BY <1>2, <1>6 DEF ModeOf
  <2>. QED
    BY <2>1, <2>2 DEF Switch!Next, Switch!Refuse, Switch!Become, modes
<1>7. ASSUME pc[c] = "enter", pc'[c] = "guest" PROVE Switch!Next
  <2>1. modes[c] = "ready" /\ modes' = [modes EXCEPT ![c] = "guest"]
    BY <1>2, <1>7 DEF ModeOf
  <2>. QED
    BY <1>7, <2>1, SwitchGuards DEF Switch!Next, Switch!Join, Switch!Become, modes
<1>8. ASSUME pc[c] = "try_disable", pc'[c] = "wait_disable" PROVE Switch!Next
  <2>1. modes[c] = "guest" /\ modes' = [modes EXCEPT ![c] = "leaving"]
    BY <1>2, <1>8 DEF ModeOf
  <2>. QED
    BY <1>8, <2>1, SwitchGuards DEF Switch!Next, Switch!Ask, Switch!Become, modes
<1>9. ASSUME WaitDisable(c) PROVE Switch!Next
  <2>0. pc[c] = "wait_disable" /\ pc'[c] = "deactivate"
    BY <1>0, <1>9 DEF WaitDisable, PassDisable, Goto, TypeOK
  <2>1. modes[c] = "leaving" /\ modes' = [modes EXCEPT ![c] = "left"]
    BY <1>2, <2>0 DEF ModeOf
  <2>. QED
    BY <1>9, <2>1, SwitchGuards DEF Switch!Next, Switch!Leave, Switch!Become, modes
<1>10. pc[c] = "wait_disable" => WaitDisable(c)
  BY DEF Run, Enable, Disable, NewCheck, New, WaitEntered, CheckEntered, PrimaryInitEarly,
         WaitEarly, CheckEarly, InitContext, VcpuNew, InitedAdd, WaitInited, CheckInited,
         PrimaryInitLate, WaitLate, CheckLate, ActivateVmm, VcpuEnter, StoreErr, LoadErr,
         HypervisorDisable, TryDisable, DeactivateVmm, VcpuExit, Recheck, WaitFor
<1>11. \/ ModeOf(pc'[c]) = ModeOf(pc[c])
       \/ ModeOf(pc[c]) = "linux" /\ ModeOf(pc'[c]) \in {"ready", "refused"}
       \/ pc[c] \in {"chk_inited", "chk_late"} /\ pc'[c] = "store_err" /\ has_err
       \/ pc[c] = "enter" /\ pc'[c] = "guest"
       \/ pc[c] = "try_disable" /\ pc'[c] = "wait_disable"
       \/ pc[c] = "wait_disable"
  BY <1>1 DEF Edge, ModeOf, BeforeVcpu, ReadyLocs
<1>. QED
  BY <1>3, <1>4, <1>5, <1>6, <1>7, <1>8, <1>9, <1>10, <1>11

\* main(), activate_vmm() and hypervisor_disable() implement the all-or-nothing
\* switch for any number of CPUs: they become guests together or not at all,
\* and leave together, when only initialisation can fail and no more CPUs
\* enter than the header announces.
THEOREM ImplementsSwitchHolds ==
  ASSUME EnterErrors = {}, ExitErrors = {}, PanicAt = {}, Cardinality(CPU) <= OnlineCpus
  PROVE  Spec => ImplementsSwitch
<1>1. Init => Switch!Init
  BY DEF Init, Switch!Init, ModeOf
<1>2. InitedInv /\ LeaveInv /\ ErrorInv /\ panicked = {} /\ [Next]_vars => [Switch!Next]_modes
  <2>. SUFFICES ASSUME InitedInv, LeaveInv, ErrorInv, panicked = {}, [Next]_vars
                PROVE  [Switch!Next]_modes
    OBVIOUS
  <2>1. ASSUME NEW c \in CPU, Run(c) PROVE [Switch!Next]_modes
    BY <2>1, SwitchStep
  <2>2. ASSUME NEW c \in CPU, Panic(c) PROVE [Switch!Next]_modes
    BY <2>2 DEF Panic
  <2>3. CASE DriverDisable
    BY <2>3 DEF DriverDisable, modes
  <2>4. CASE Reload
    <3>1. \A c \in CPU : ModeOf(pc[c]) \in {"left", "refused"}
      BY <2>4 DEF Reload, ModeOf
    <3>2. modes' = [c \in CPU |-> "linux"]
      BY <2>4 DEF Reload, ModeOf, modes
    <3>. QED
      BY <3>1, <3>2 DEF Switch!Next, Switch!Reset, modes
  <2>5. CASE UNCHANGED vars
    BY <2>5 DEF vars, modes
  <2>. QED
    BY <2>1, <2>2, <2>3, <2>4, <2>5 DEF Next
<1>3. Spec => []LeaveInv
  BY LeaveCorrect
<1>. QED
  BY <1>1, <1>2, <1>3, InitedCorrect, ErrorCorrect, NonePanicked, PTL
  DEF Spec, ImplementsSwitch, Switch!Spec, modes

=============================================================================
