-------------------------- MODULE VcpuControlProofs --------------------------
(***************************************************************************)
(* Proofs about the controls of a virtual CPU and the caches of the        *)
(* processor, for any frames of the nested tables and any number of        *)
(* enablings and exits.                                                    *)
(***************************************************************************)
EXTENDS VcpuControl, GuestCr, TLAPS

\* The control area of a VMCB.
Area == [vector3 : SUBSET Int, vector4 : SUBSET Int, vector5 : SUBSET Int,
         clean_bits : SUBSET VmcbCleanBits, tlb_control : {"FlushAsid"}]

\* The intercepts have the numbers of three words of the VMCB, and those of
\* vmcb_setup these ten (SvmIntercept).
LEMMA InterceptRange ==
    \A w \in DOMAIN SvmIntercept : SvmIntercept[w] \in (96..143) \cup (160..164)
BY DEF SvmIntercept

AskedNumbers == {97, 114, 127, 128, 129, 130, 131, 132, 133, 134}
\* These ten are the numbers of the intercepts asked for.
LEMMA InterceptAsked ==
    \A w \in DOMAIN SvmIntercept :
        SvmIntercept[w] \in AskedNumbers <=> w \in Asked
BY DEF SvmIntercept, Asked, AskedNumbers

\* Adding one bit to a word adds one number to those the word stands for.
LEMMA ShiftedUnion ==
    ASSUME NEW m, NEW S, NEW k, NEW n, m + k = n
    PROVE  {m + b : b \in S \cup {k}} = {m + b : b \in S} \cup {n}
BY Zenon

\* set_intercept adds the one intercept to those the processor looks at.
Adds(c, n, d) ==
    /\ d \in Area /\ d.clean_bits = c.clean_bits
    /\ Intercepted(d) = Intercepted(c) \cup {n}

\* set_intercept adds one intercept, whichever word it is in.
LEMMA SetInterceptAdds ==
    ASSUME NEW c \in Area, NEW w \in DOMAIN SvmIntercept
    PROVE  Adds(c, SvmIntercept[w], set_intercept(c, w))
<1> DEFINE n == SvmIntercept[w]
           d == MatchVal(c, n)
<1>1. n \in (96..143) \cup (160..164)
    BY InterceptRange
<1>2. set_intercept(c, w) = d
    BY Zenon DEF set_intercept
<1> SUFFICES Adds(c, n, d)
    BY <1>2, Zenon
<1> HIDE DEF n
<1>3. CASE n \in 96..127
  <2>1. d = [c EXCEPT !.vector3 = @ \cup {n - 96}]
      BY <1>3 DEF MatchVal
  <2>2. /\ d.vector3 = c.vector3 \cup {n - 96}
        /\ d.vector4 = c.vector4 /\ d.vector5 = c.vector5 /\ d.clean_bits = c.clean_bits
        /\ d \in Area
      BY <1>3, <2>1 DEF Area
  <2>3. 96 + (n - 96) = n
      BY <1>3
  <2>4. {96 + b : b \in c.vector3 \cup {n - 96}} = {96 + b : b \in c.vector3} \cup {n}
      BY <2>3, ShiftedUnion
  <2> QED
      BY <2>2, <2>4 DEF Adds, Intercepted
<1>4. CASE n \in 128..143
  <2>1. d = [c EXCEPT !.vector4 = @ \cup {n - 128}]
      BY <1>4 DEF MatchVal
  <2>2. /\ d.vector4 = c.vector4 \cup {n - 128}
        /\ d.vector3 = c.vector3 /\ d.vector5 = c.vector5 /\ d.clean_bits = c.clean_bits
        /\ d \in Area
      BY <1>4, <2>1 DEF Area
  <2>3. 128 + (n - 128) = n
      BY <1>4
  <2>4. {128 + b : b \in c.vector4 \cup {n - 128}} = {128 + b : b \in c.vector4} \cup {n}
      BY <2>3, ShiftedUnion
  <2> QED
      BY <2>2, <2>4 DEF Adds, Intercepted
<1>5. CASE n \in 160..164
  <2>1. d = [c EXCEPT !.vector5 = @ \cup {n - 160}]
      BY <1>5 DEF MatchVal
  <2>2. /\ d.vector5 = c.vector5 \cup {n - 160}
        /\ d.vector3 = c.vector3 /\ d.vector4 = c.vector4 /\ d.clean_bits = c.clean_bits
        /\ d \in Area
      BY <1>5, <2>1 DEF Area
  <2>3. 160 + (n - 160) = n
      BY <1>5
  <2>4. {160 + b : b \in c.vector5 \cup {n - 160}} = {160 + b : b \in c.vector5} \cup {n}
      BY <2>3, ShiftedUnion
  <2> QED
      BY <2>2, <2>4 DEF Adds, Intercepted
<1> QED
    BY <1>1, <1>3, <1>4, <1>5

\* vmcb_setup: an area with the intercepts asked for, nothing clean.
LEMMA VmcbSetup ==
    vmcb_setup_control \in Area /\ vmcb_setup_control.clean_bits = {} /\ Intercepted(vmcb_setup_control) = AskedNumbers
<1> DEFINE a1 == set_intercept(Vmcb, "NMI")
           a2 == set_intercept(a1, "CPUID")
           a3 == set_intercept(a2, "SHUTDOWN")
           a4 == set_intercept(a3, "VMRUN")
           a5 == set_intercept(a4, "VMMCALL")
           a6 == set_intercept(a5, "VMLOAD")
           a7 == set_intercept(a6, "VMSAVE")
           a8 == set_intercept(a7, "STGI")
           a9 == set_intercept(a8, "CLGI")
           a10 == set_intercept(a9, "SKINIT")
<1>0. vmcb_setup_control = a10
    BY DEF vmcb_setup_control
<1>1. Vmcb \in Area /\ Vmcb.clean_bits = {} /\ Intercepted(Vmcb) = {}
    BY DEF Vmcb, Area, Intercepted
<1>2. /\ SvmIntercept["NMI"] = 97 /\ SvmIntercept["CPUID"] = 114 /\ SvmIntercept["SHUTDOWN"] = 127
      /\ SvmIntercept["VMRUN"] = 128 /\ SvmIntercept["VMMCALL"] = 129 /\ SvmIntercept["VMLOAD"] = 130
      /\ SvmIntercept["VMSAVE"] = 131 /\ SvmIntercept["STGI"] = 132 /\ SvmIntercept["CLGI"] = 133
      /\ SvmIntercept["SKINIT"] = 134
    BY DEF SvmIntercept
<1>3. Asked \subseteq DOMAIN SvmIntercept
    BY DEF SvmIntercept, Asked
<1>4. {"NMI", "CPUID", "SHUTDOWN", "VMRUN", "VMMCALL", "VMLOAD", "VMSAVE", "STGI", "CLGI", "SKINIT"}
          \subseteq DOMAIN SvmIntercept
    BY <1>3 DEF Asked
<1>11. Adds(Vmcb, 97, a1)
    BY <1>1, <1>2, <1>4, SetInterceptAdds
<1> HIDE DEF a1
<1>12. Adds(a1, 114, a2)
  <2>1. a1 \in Area
      BY <1>11 DEF Adds
  <2> QED
      BY <2>1, <1>2, <1>4, SetInterceptAdds
<1> HIDE DEF a2
<1>13. Adds(a2, 127, a3)
  <2>1. a2 \in Area
      BY <1>12 DEF Adds
  <2> QED
      BY <2>1, <1>2, <1>4, SetInterceptAdds
<1> HIDE DEF a3
<1>14. Adds(a3, 128, a4)
  <2>1. a3 \in Area
      BY <1>13 DEF Adds
  <2> QED
      BY <2>1, <1>2, <1>4, SetInterceptAdds
<1> HIDE DEF a4
<1>15. Adds(a4, 129, a5)
  <2>1. a4 \in Area
      BY <1>14 DEF Adds
  <2> QED
      BY <2>1, <1>2, <1>4, SetInterceptAdds
<1> HIDE DEF a5
<1>16. Adds(a5, 130, a6)
  <2>1. a5 \in Area
      BY <1>15 DEF Adds
  <2> QED
      BY <2>1, <1>2, <1>4, SetInterceptAdds
<1> HIDE DEF a6
<1>17. Adds(a6, 131, a7)
  <2>1. a6 \in Area
      BY <1>16 DEF Adds
  <2> QED
      BY <2>1, <1>2, <1>4, SetInterceptAdds
<1> HIDE DEF a7
<1>18. Adds(a7, 132, a8)
  <2>1. a7 \in Area
      BY <1>17 DEF Adds
  <2> QED
      BY <2>1, <1>2, <1>4, SetInterceptAdds
<1> HIDE DEF a8
<1>19. Adds(a8, 133, a9)
  <2>1. a8 \in Area
      BY <1>18 DEF Adds
  <2> QED
      BY <2>1, <1>2, <1>4, SetInterceptAdds
<1> HIDE DEF a9
<1>20. Adds(a9, 134, a10)
  <2>1. a9 \in Area
      BY <1>19 DEF Adds
  <2> QED
      BY <2>1, <1>2, <1>4, SetInterceptAdds
<1> HIDE DEF a10
<1> QED
    BY <1>0, <1>1, <1>11, <1>12, <1>13, <1>14, <1>15, <1>16, <1>17, <1>18, <1>19, <1>20
       DEF Adds, AskedNumbers

(***************************************************************************)
(* The inductive invariant.                                                *)
(***************************************************************************)
\* The hypervisor holds the CPU, between Vcpu::new and Vcpu::exit.
Live == mode \in {"ready", "guest", "host"}
\* No translation kept under the key comes from older tables.
FreshUnder(key) == \A t \in tlb : t.key = key => t.version = nested.version

TypeOK ==
    /\ vendor \in {"intel", "amd"}
    /\ mode \in {"linux", "ready", "guest", "host", "failed"}
    /\ cpu.features \subseteq Optional \cup Required
    /\ round \in Nat /\ vmcb \in [VmcbCleanBits -> Nat]

\* The controls are those of the last setup; an exit marks the VMCB clean.
ControlInv == Live =>
    /\ vendor = "intel" => ctl = setup_vmcs_control
    /\ vendor = "amd" => ctl \in Area /\ Intercepted(ctl) = AskedNumbers

\* An INVEPT lasts until the tables change, a flush until the next VMRUN; and
\* what VMRUN took from the cache the VMCB still holds after the exit.
CacheInv ==
    /\ Live /\ vendor = "intel" => FreshUnder(nested.root)
    /\ mode = "guest" /\ vendor = "amd" => FreshUnder(1)
    /\ mode = "ready" /\ vendor = "amd" => ctl.clean_bits = {}
    /\ mode \in {"guest", "host"} /\ vendor = "amd" => cache = vmcb

Inv == TypeOK /\ ControlInv /\ CacheInv /\ FailsForWantOfFeature

\* A processor with what the design needs accepts the controls of
\* setup_vmcs_control.
LEMMA SetupAccepted ==
    ASSUME TypeOK, vendor = "intel", cpu.flex = TRUE, Required \subseteq cpu.features,
           ctl = setup_vmcs_control
    PROVE  EntryValid
<1>0. DOMAIN Default1 = {"pin", "primary", "secondary", "exit", "entry"}
    BY DEF Default1
<1>1. MustBe1("pin") \subseteq ctl["pin"] /\ ctl["pin"] \subseteq MayBe1("pin")
    BY DEF setup_vmcs_control, set_control, Default1, MustBe1, MayBe1, PinVmExecControls
<1>2. MustBe1("primary") \subseteq ctl["primary"] /\ ctl["primary"] \subseteq MayBe1("primary")
    BY DEF setup_vmcs_control, set_control, Default1, MustBe1, MayBe1, PrimaryVmExecControls
<1>3. MustBe1("secondary") \subseteq ctl["secondary"] /\ ctl["secondary"] \subseteq MayBe1("secondary")
    BY DEF setup_vmcs_control, set_control, Default1, MustBe1, MayBe1, SecondaryVmExecControls,
           CpuFeatures, Required, Optional
<1>4. MustBe1("exit") \subseteq ctl["exit"] /\ ctl["exit"] \subseteq MayBe1("exit")
    BY DEF setup_vmcs_control, set_control, Default1, MustBe1, MayBe1, VmExitControls
<1>5. MustBe1("entry") \subseteq ctl["entry"] /\ ctl["entry"] \subseteq MayBe1("entry")
    BY DEF setup_vmcs_control, set_control, Default1, MustBe1, MayBe1, VmEntryControls
<1> QED
    BY <1>0, <1>1, <1>2, <1>3, <1>4, <1>5 DEF EntryValid

\* Before the vcpu is set up nothing is intercepted or cached.
LEMMA ControlStart == ControlInit => Inv
<1> SUFFICES ASSUME ControlInit PROVE Inv
    OBVIOUS
<1>1. TypeOK
  <2>1. CASE vendor = "intel"
      BY <2>1 DEF ControlInit, TypeOK, None
  <2>2. CASE vendor = "amd"
      BY <2>2 DEF ControlInit, TypeOK, None
  <2> QED
      BY <2>1, <2>2 DEF ControlInit
<1>2. ControlInv /\ CacheInv /\ FailsForWantOfFeature
    BY DEF ControlInit, ControlInv, CacheInv, FailsForWantOfFeature, Live
<1> QED
    BY <1>1, <1>2 DEF Inv

\* setup of either vendor: the controls asked for, or a failure for want of
\* a feature.
LEMMA ControlSetup ==
    ASSUME Inv, NEW root, NEW word, SetupControl(root, word), UNCHANGED vendor
    PROVE  Inv'
<1>1. CASE vendor = "intel"
  <2>1. /\ mode' = "ready" /\ ctl' = setup_vmcs_control /\ tlb' = set_ept_pointer(root, tlb)
        /\ vmcb' = vmcb /\ nested' = [root |-> root, version |-> round + 1]
        /\ cpu' = cpu /\ cache' = cache /\ round' = round + 1 /\ vendor' = "intel"
      BY <1>1 DEF SetupControl, VmxRegion
  <2>2. TypeOK'
      BY <2>1 DEF Inv, TypeOK
  <2>3. setup_vmcs_control' = setup_vmcs_control
      BY <2>1 DEF setup_vmcs_control
  <2>4. FreshUnder(nested.root)'
      BY <2>1 DEF FreshUnder, set_ept_pointer
  <2> QED
      BY <2>1, <2>2, <2>3, <2>4 DEF Inv, ControlInv, CacheInv, FailsForWantOfFeature
<1>2. CASE vendor = "amd"
  <2>1. /\ mode' = "ready" /\ ctl' = vmcb_setup_control /\ vmcb' = [a \in VmcbCleanBits |-> round + 1]
        /\ cpu' = cpu /\ round' = round + 1 /\ vendor' = "amd"
      BY <1>2 DEF SetupControl
  <2>2. TypeOK'
      BY <2>1 DEF Inv, TypeOK
  <2>3. ctl' \in Area /\ ctl'.clean_bits = {} /\ Intercepted(ctl') = AskedNumbers
      BY <2>1, VmcbSetup
  <2> QED
      BY <2>1, <2>2, <2>3 DEF Inv, ControlInv, CacheInv, FailsForWantOfFeature
<1> QED
    BY <1>1, <1>2 DEF Inv, TypeOK

\* VMRUN: only what the VMCB holds, and nothing kept under the ASID.
LEMMA VmrunFresh ==
    ASSUME Inv, vendor = "amd", Live, Vmrun, nested' = nested
    PROVE  cache' = vmcb /\ FreshUnder(1)'
<1>1. PICK still \in BOOLEAN : cache' = [a \in VmcbCleanBits |->
          IF still /\ a \in ctl.clean_bits /\ cache[a] # 0 THEN cache[a] ELSE vmcb[a]]
    BY DEF Vmrun
<1>2. ASSUME NEW a \in VmcbCleanBits PROVE cache'[a] = vmcb[a]
  <2>1. CASE mode = "ready"
      BY <1>1, <2>1 DEF Inv, CacheInv
  <2>2. CASE mode \in {"guest", "host"}
      BY <1>1, <2>2 DEF Inv, CacheInv
  <2> QED
      BY <2>1, <2>2 DEF Live
<1>3. cache' = vmcb
    BY <1>1, <1>2 DEF Inv, TypeOK
<1>4. ctl.tlb_control = "FlushAsid"
    BY DEF Inv, ControlInv, Area
<1>5. tlb' = {t \in tlb : t.key # 1}
    BY <1>4 DEF Vmrun, Key
<1> QED
    BY <1>3, <1>5 DEF FreshUnder

\* An entry with valid controls; after a VMRUN the processor holds what the
\* VMCB says.
LEMMA ControlEnter ==
    ASSUME Inv, EnterVm, UNCHANGED vendor
    PROVE  Inv'
<1>0. /\ Live /\ mode' = "guest"
      /\ UNCHANGED <<cpu, vendor, ctl, nested, vmcb, round>>
    BY DEF EnterVm, Live
<1>1. TypeOK' /\ FailsForWantOfFeature'
    BY <1>0 DEF Inv, TypeOK, FailsForWantOfFeature
<1>2. ControlInv'
    BY <1>0 DEF Inv, ControlInv, setup_vmcs_control
<1>3. CacheInv'
  <2>1. CASE vendor = "intel"
      BY <1>0, <2>1 DEF Inv, CacheInv, EnterVm, FreshUnder
  <2>2. CASE vendor = "amd"
    <3>1. cache' = vmcb /\ FreshUnder(1)'
        BY <1>0, <2>2, VmrunFresh DEF EnterVm
    <3> QED
        BY <1>0, <2>2, <3>1 DEF CacheInv
  <2> QED
      BY <2>1, <2>2 DEF Inv, TypeOK
<1> QED
    BY <1>1, <1>2, <1>3 DEF Inv

\* An entry is refused only for want of a required feature.
LEMMA ControlEnterFails ==
    ASSUME Inv, EnterFails, UNCHANGED vendor
    PROVE  Inv'
<1>0. /\ mode = "ready" /\ mode' = "failed" /\ ~EntryValid
      /\ UNCHANGED <<cpu, vendor, vmcb, round>>
    BY DEF EnterFails
<1>1. TypeOK'
    BY <1>0 DEF Inv, TypeOK
<1>2. vendor = "intel"
    BY <1>0 DEF Inv, TypeOK, EntryValid
<1>3. ctl = setup_vmcs_control
    BY <1>0, <1>2 DEF Inv, ControlInv, Live
<1>4. ~(cpu.flex = TRUE) \/ ~(Required \subseteq cpu.features)
    BY <1>0, <1>2, <1>3, SetupAccepted DEF Inv
<1> QED
    BY <1>0, <1>1, <1>4 DEF Inv, ControlInv, CacheInv, FailsForWantOfFeature, Live

\* A translation is cached at its present version.
LEMMA ControlAccess ==
    ASSUME Inv, Access, UNCHANGED vendor
    PROVE  Inv'
<1>0. /\ mode = "guest" /\ tlb' = tlb \cup {[key |-> Key, version |-> nested.version]}
      /\ UNCHANGED <<cpu, vendor, mode, ctl, nested, vmcb, cache, round>>
    BY DEF Access
<1>1. TypeOK' /\ FailsForWantOfFeature'
    BY <1>0 DEF Inv, TypeOK, FailsForWantOfFeature
<1>2. ControlInv'
    BY <1>0 DEF Inv, ControlInv, setup_vmcs_control, Live
<1>3. CacheInv'
    BY <1>0 DEF Inv, CacheInv, FreshUnder, Live
<1> QED
    BY <1>1, <1>2, <1>3 DEF Inv

\* A VM exit keeps the controls; the clean bits say what is unchanged.
LEMMA ControlExit ==
    ASSUME Inv, Exit, UNCHANGED vendor
    PROVE  Inv'
<1>0. /\ mode = "guest" /\ mode' = "host"
      /\ ctl' = IF vendor = "amd" THEN MarkUnmodified(ctl) ELSE ctl
      /\ UNCHANGED <<cpu, vendor, nested, vmcb, cache, tlb, round>>
    BY DEF Exit
<1>1. TypeOK' /\ FailsForWantOfFeature'
    BY <1>0 DEF Inv, TypeOK, FailsForWantOfFeature
<1>2. ControlInv'
  <2>1. CASE vendor = "intel"
      BY <1>0, <2>1 DEF Inv, ControlInv, setup_vmcs_control, Live
  <2>2. CASE vendor = "amd"
    <3>1. ctl \in Area /\ Intercepted(ctl) = AskedNumbers
        BY <1>0, <2>2 DEF Inv, ControlInv, Live
    <3>2. ctl' \in Area /\ ctl'.vector3 = ctl.vector3 /\ ctl'.vector4 = ctl.vector4
              /\ ctl'.vector5 = ctl.vector5
        BY <1>0, <2>2, <3>1 DEF MarkUnmodified, Area
    <3> QED
        BY <1>0, <2>2, <3>1, <3>2 DEF ControlInv, Intercepted
  <2> QED
      BY <2>1, <2>2 DEF Inv, TypeOK
<1>3. CacheInv'
    BY <1>0 DEF Inv, CacheInv, FreshUnder, Live
<1> QED
    BY <1>1, <1>2, <1>3 DEF Inv

\* Every step keeps the invariant.
LEMMA ControlStep == Inv /\ [ControlNext]_control_vars => Inv'
<1> SUFFICES ASSUME Inv, [ControlNext]_control_vars PROVE Inv'
    OBVIOUS
<1>1. ASSUME NEW root \in Roots, NEW s \in BOOLEAN, UNCHANGED vendor,
             SetupControl(root, [revision |-> 7, shadow |-> s])
      PROVE  Inv'
    BY <1>1, ControlSetup
<1>2. CASE EnterVm /\ UNCHANGED vendor
    BY <1>2, ControlEnter
<1>3. CASE EnterFails /\ UNCHANGED vendor
    BY <1>3, ControlEnterFails
<1>4. CASE Access /\ UNCHANGED vendor
    BY <1>4, ControlAccess
<1>5. CASE Exit /\ UNCHANGED vendor
    BY <1>5, ControlExit
<1>6. CASE Disable /\ UNCHANGED vendor
    BY <1>6 DEF Disable, Inv, TypeOK, ControlInv, CacheInv, FailsForWantOfFeature, Live
<1>7. CASE UNCHANGED control_vars
    BY <1>7 DEF control_vars, Inv, TypeOK, ControlInv, CacheInv, FailsForWantOfFeature, Live,
                FreshUnder, setup_vmcs_control
<1> QED
    BY <1>1, <1>2, <1>3, <1>4, <1>5, <1>6, <1>7 DEF ControlNext

\* The invariant holds of every behaviour.
LEMMA ControlCorrect == ControlSpec => []Inv
BY ControlStart, ControlStep, PTL DEF ControlSpec

\* With the invariant the controls in force are those asked for.
LEMMA InvAsAsked == Inv => ControlsAsAsked
<1> SUFFICES ASSUME Inv, mode = "guest" PROVE ExitsAsAsked
    BY DEF ControlsAsAsked, Inv, ExitsAsAsked
<1>1. CASE vendor = "intel"
  <2>1. ctl = setup_vmcs_control /\ cpu.features \subseteq Optional \cup Required
      BY <1>1 DEF Inv, TypeOK, ControlInv, Live
  <2>2. ctl.pin \ {"reserved"} = {"NMI_EXITING"}
      BY <2>1 DEF setup_vmcs_control, set_control, Default1
  <2>3. {f \in ctl.primary : f \notin {"reserved", "SEC_CONTROLS"}} = {"USE_MSR_BITMAPS"}
      BY <2>1 DEF setup_vmcs_control, set_control, Default1
  <2>4. cpu.features \subseteq ctl.secondary
      BY <2>1 DEF setup_vmcs_control, set_control, CpuFeatures, Default1, Required
  <2> QED
      BY <1>1, <2>2, <2>3, <2>4 DEF ExitsAsAsked
<1>2. CASE vendor = "amd"
  <2>1. ctl \in Area /\ Intercepted(ctl) = AskedNumbers
      BY <1>2 DEF Inv, ControlInv, Live
  <2>2. ASSUME NEW w \in DOMAIN SvmIntercept
        PROVE  /\ SvmIntercept[w] \in Intercepted(ctl) <=> w \in Asked
               /\ Intercepted(set_intercept(ctl, w)) = Intercepted(ctl) \cup {SvmIntercept[w]}
      BY <2>1, InterceptAsked, SetInterceptAdds DEF Adds
  <2> QED
      BY <1>2, <2>2 DEF ExitsAsAsked
<1> QED
    BY <1>1, <1>2 DEF Inv, TypeOK

\* On every processor, however often Linux enables and disables the
\* hypervisor: the events that exit are those vmcb_setup and
\* setup_vmcs_control ask for, and enabling fails only where EPT, unrestricted
\* guests or flexible CR3 controls are missing.
THEOREM ControlsAsAskedHolds == ControlSpec => []ControlsAsAsked
BY ControlCorrect, InvAsAsked, PTL

\* With the invariant nothing in use is stale.
LEMMA InvNothingStale == Inv => NothingStale
BY DEF Inv, TypeOK, CacheInv, NothingStale, FreshTranslations, RunsCurrentVmcb, FreshUnder, Live, Key

\* The guest never runs on a translation or on VMCB state of an earlier
\* enabling, whatever frames the nested tables were in (set_ept_pointer,
\* tlb_control, clean_bits).
THEOREM NothingStaleHolds == ControlSpec => []NothingStale
BY ControlCorrect, InvNothingStale, PTL

(***************************************************************************)
(* CR0 and CR4 of the guest.                                               *)
(***************************************************************************)

\* The flags of CR0 that the guest cannot change on VMX.
Demanded == FixedCr0 \ {"PG", "PE"}
Owned == Demanded \cup (Cr0 \cap {"NW", "CD"})
Flags == Cr0 \cup Cr4 \cup {"VMXE"} \cup FixedCr0 \cup FixedCr4
             \cup (UNION LinuxCr0) \cup (UNION LinuxCr4)

CrTypeOK ==
    /\ vendor \in {"intel", "amd"} /\ cr_pc \in {"linux", "guest", "left"}
    /\ r \in [{0, 4} -> [real : SUBSET Flags, shadow : SUBSET Flags, mask : SUBSET Flags]]
    /\ cr_own \in [{0, 4} -> SUBSET Flags]

\* While the guest runs the registers hold what it wrote last: for VMX
\* because every value it may write agrees with CR0 where the mask is set.
CrInv ==
    /\ CrTypeOK
    /\ cr_pc = "linux" =>
         cr_own[0] = linux.cr0 /\ cr_own[4] = linux.cr4 /\ cr_own[0] \in LinuxCr0 /\ cr_own[4] \in LinuxCr4
    /\ cr_pc = "guest" =>
         /\ r[0].real = cr_own[0] /\ r[4].mask = {}
         /\ IF vendor = "amd" THEN r[0].mask = {} /\ r[4].real = cr_own[4]
            ELSE /\ Demanded \subseteq cr_own[0] /\ cr_own[0] \cap {"NW", "CD"} = {}
                 /\ r[0].mask = Owned /\ r[0].shadow \cap Owned = Demanded
                 /\ r[4].real \ {"VMXE"} = cr_own[4] \ {"VMXE"} /\ FixedCr4 \subseteq r[4].real
    /\ LinuxKeepsCr

\* The values Linux may have are made of the flags.
LEMMA LinuxFlags ==
    /\ \A a \in LinuxCr0 : a \subseteq Flags
    /\ \A b \in LinuxCr4 : b \subseteq Flags
<1>1. ASSUME NEW a \in LinuxCr0, NEW x \in a PROVE x \in Flags
  <2>1. x \in UNION LinuxCr0
      BY Zenon
  <2> QED
      BY <2>1 DEF Flags
<1>2. ASSUME NEW b \in LinuxCr4, NEW x \in b PROVE x \in Flags
  <2>1. x \in UNION LinuxCr4
      BY Zenon
  <2> QED
      BY <2>1 DEF Flags
<1> QED
    BY <1>1, <1>2

\* Linux calls with control registers it may have.
LEMMA CrStart == CrInit => CrInv
<1> SUFFICES ASSUME CrInit PROVE CrInv
    OBVIOUS
<1>1. PICK a \in LinuxCr0, b \in LinuxCr4 :
          cr_own = [i \in {0, 4} |-> IF i = 0 THEN a ELSE b] /\ linux = [cr0 |-> a, cr4 |-> b]
    BY DEF CrInit
<1>2. a \subseteq Flags /\ b \subseteq Flags
    BY LinuxFlags
<1> QED
    BY <1>1, <1>2 DEF CrInit, CrInv, CrTypeOK, LinuxKeepsCr

\* setup gives the guest the values of Linux, and the bits VMX demands.
LEMMA CrSetupKept ==
    ASSUME CrInv, SetupCr, UNCHANGED vendor
    PROVE  CrInv'
<1> DEFINE a == linux.cr0
           b == linux.cr4
<1>0. /\ a = cr_own[0] /\ b = cr_own[4] /\ a \in LinuxCr0 /\ b \in LinuxCr4
      /\ cr_pc' = "guest" /\ cr_own' = cr_own /\ vendor' = vendor
    BY DEF SetupCr, CrInv
<1>1. /\ a \subseteq Flags /\ b \subseteq Flags /\ Demanded \subseteq a
      /\ a \cap {"NW", "CD"} = {} /\ a \subseteq Cr0 /\ FixedCr4 \subseteq {"VMXE"}
    BY <1>0, LinuxFlags, CrAssumption DEF Demanded
<1>2. CASE vendor = "amd"
  <2>1. r' = [i \in {0, 4} |-> set_cr_amd(i, IF i = 0 THEN a ELSE b)]
      BY <1>2 DEF SetupCr
  <2>2. /\ r'[0] = [real |-> a, shadow |-> {}, mask |-> {}]
        /\ r'[4] = [real |-> b, shadow |-> {}, mask |-> {}]
    <3>1. a \ {"NW"} = a
        BY <1>1
    <3> QED
        BY <2>1, <3>1 DEF set_cr_amd
  <2>3. CrTypeOK'
      BY <1>0, <1>1, <2>1, <2>2 DEF CrInv, CrTypeOK
  <2> QED
      BY <1>0, <1>2, <2>2, <2>3, SMTT(30) DEF CrInv, LinuxKeepsCr
<1>3. CASE vendor = "intel"
  <2>1. r' = [i \in {0, 4} |-> IF i = 0 THEN set_cr0(a) ELSE setup_vmcs_control_cr4(set_cr4(b))]
      BY <1>3 DEF SetupCr
  <2>2. r'[0] = [real |-> a, shadow |-> a, mask |-> Owned]
    <3>1. (a \cap (Cr0 \ {"NW", "CD"})) \cup Demanded = a
        BY <1>1
    <3>2. Demanded \cup (Cr0 \ (Cr0 \ {"NW", "CD"})) = Owned
        BY DEF Owned
    <3> QED
        BY <2>1, <3>1, <3>2 DEF set_cr0, Demanded
  <2>3. r'[4] = [real |-> b \cup {"VMXE"} \cup FixedCr4, shadow |-> b \cup {"VMXE"}, mask |-> {}]
      BY <2>1 DEF set_cr4, setup_vmcs_control_cr4
  <2>4. CrTypeOK'
      BY <1>0, <1>1, <2>1, <2>2, <2>3, SMTT(30) DEF CrInv, CrTypeOK, Flags, Owned, Demanded
  <2>5. a \cap Owned = Demanded
      BY <1>1 DEF Owned
  <2>6. (b \cup {"VMXE"} \cup FixedCr4) \ {"VMXE"} = b \ {"VMXE"}
      BY <1>1
  <2> QED
      BY <1>0, <1>1, <1>3, <2>2, <2>3, <2>4, <2>5, <2>6 DEF CrInv, LinuxKeepsCr
<1> QED
    BY <1>2, <1>3 DEF CrInv, CrTypeOK

\* A value the processor lets the guest write is the value CR0 then has.
LEMMA CrMov ==
    ASSUME CrInv, NEW i \in {0, 4}, NEW val \in SUBSET Flags, i = 0 => val \subseteq Cr0,
           Mov(i, val), UNCHANGED vendor
    PROVE  CrInv'
<1>0. /\ cr_pc = "guest" /\ cr_pc' = "guest" /\ vendor' = vendor /\ ~Forbidden(i, val)
      /\ r' = [r EXCEPT ![i].real = (@ \cap r[i].mask) \cup (val \ r[i].mask)]
      /\ cr_own' = [cr_own EXCEPT ![i] = val] /\ CrTypeOK
    BY DEF Mov, CrInv
<1>1. /\ r'[i].real = (r[i].real \cap r[i].mask) \cup (val \ r[i].mask)
      /\ r'[i].mask = r[i].mask /\ r'[i].shadow = r[i].shadow
      /\ \A j \in {0, 4} \ {i} : r'[j] = r[j] /\ cr_own'[j] = cr_own[j]
      /\ cr_own'[i] = val
    BY <1>0 DEF CrTypeOK
<1>2. CrTypeOK'
    BY <1>0 DEF CrTypeOK
<1>3. CASE vendor = "amd"
    BY <1>0, <1>1, <1>2, <1>3 DEF CrInv, LinuxKeepsCr
<1>4. CASE vendor = "intel" /\ i = 0
  <2>1. val \cap Owned = Demanded
      BY <1>0, <1>4 DEF CrInv, Forbidden
  <2>2. r[0].real \cap Owned = Demanded
      BY <1>0, <1>4 DEF CrInv, Owned
  <2>3. r'[0].real = val
      BY <1>0, <1>1, <1>4, <2>1, <2>2 DEF CrInv
  <2>4. Demanded \subseteq val /\ val \cap {"NW", "CD"} = {}
    <3>1. CASE FixedCr0 \cap {"NW", "CD"} = {}
        BY <1>4, <2>1, <3>1 DEF Owned, Demanded
    <3>2. CASE FixedCr0 \cap {"NW", "CD"} # {}
        BY <1>0, <1>4, <3>2 DEF CrInv, Demanded
    <3> QED
        BY <3>1, <3>2
  <2>5. r'[4] = r[4] /\ cr_own'[4] = cr_own[4] /\ cr_own'[0] = val
      BY <1>1, <1>4
  <2>6. r'[0].mask = Owned /\ r'[0].shadow \cap Owned = Demanded
      BY <1>0, <1>1, <1>4 DEF CrInv
  <2> QED
      BY <1>0, <1>2, <1>4, <2>3, <2>4, <2>5, <2>6 DEF CrInv, LinuxKeepsCr
<1>5. CASE vendor = "intel" /\ i = 4
  <2>0. r[4].mask = {} /\ (r[4].real \cap {}) \cup (val \ {}) = val
      BY <1>0 DEF CrInv
  <2>1. r'[4].real = val /\ FixedCr4 \subseteq val
    <3>1. FixedCr4 \subseteq (val \ {}) \cup (r[4].real \cap {})
        BY <1>0, <1>5, <2>0 DEF Forbidden
    <3> QED
        BY <1>1, <1>5, <2>0, <3>1
  <2> QED
      BY <1>0, <1>1, <1>2, <1>5, <2>1 DEF CrInv, LinuxKeepsCr
<1> QED
    BY <1>3, <1>4, <1>5 DEF CrInv, CrTypeOK

\* Linux gets the registers the guest ran with, VMXE left out.
LEMMA CrLeave ==
    ASSUME CrInv, Leave, UNCHANGED vendor
    PROVE  CrInv'
<1>0. cr_pc = "guest" /\ cr_pc' = "left" /\ linux' = load_guest /\ UNCHANGED <<r, cr_own, vendor>>
    BY DEF Leave
<1>1. linux'.cr0 = cr_own[0] /\ linux'.cr4 = cr_own[4] \ (IF vendor = "intel" THEN {"VMXE"} ELSE {})
    BY <1>0 DEF load_guest, CrInv, CrTypeOK
<1> QED
    BY <1>0, <1>1 DEF CrInv, CrTypeOK, LinuxKeepsCr

\* Every step preserves the invariant.
LEMMA CrStep == CrInv /\ [CrNext]_cr_vars => CrInv'
<1> SUFFICES ASSUME CrInv, [CrNext]_cr_vars PROVE CrInv'
    OBVIOUS
<1>1. CASE SetupCr /\ UNCHANGED vendor
    BY <1>1, CrSetupKept
<1>2. CASE Leave /\ UNCHANGED vendor
    BY <1>2, CrLeave
<1>3. ASSUME NEW val \in SUBSET Cr0, Mov(0, val), UNCHANGED vendor PROVE CrInv'
  <2>1. val \in SUBSET Flags
      BY DEF Flags
  <2> QED
      BY <1>3, <2>1, CrMov
<1>4. ASSUME NEW val \in SUBSET Flags4, Mov(4, val), UNCHANGED vendor PROVE CrInv'
  <2>1. val \in SUBSET Flags
      BY DEF Flags, Flags4
  <2> QED
      BY <1>4, <2>1, CrMov
<1>5. CASE UNCHANGED cr_vars
    BY <1>5 DEF cr_vars, CrInv, CrTypeOK, LinuxKeepsCr
<1> QED
    BY <1>1, <1>2, <1>3, <1>4, <1>5 DEF CrNext

\* The invariant says what the guest and Linux find.
LEMMA CrInvSuffices == CrInv => CrAsGuestWrote
<1> SUFFICES ASSUME CrInv PROVE CrAsGuestWrote
    OBVIOUS
<1>1. CrFollowsGuest
    BY DEF CrInv, CrTypeOK, CrFollowsGuest, cr
<1>2. EntryIsValid
    BY DEF CrInv, CrTypeOK, EntryIsValid, Demanded
<1> QED
    BY <1>1, <1>2 DEF CrInv, CrAsGuestWrote

\* For all flags, whatever the guest writes to CR0 and CR4 and however often:
\* Vcpu::cr reads what it wrote, Linux has it back in the end, and the values
\* the processor is entered with obey VMX (set_cr, load_vmcs_guest,
\* load_vmcb_guest).
THEOREM CrAsGuestWroteHolds == CrSpec => []CrAsGuestWrote
BY CrStart, CrStep, CrInvSuffices, PTL DEF CrSpec
=============================================================================
