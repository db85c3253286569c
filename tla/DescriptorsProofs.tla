-------------------------- MODULE DescriptorsProofs --------------------------
(***************************************************************************)
(* Proofs about Descriptors, for every GDT and all selectors Linux may     *)
(* have, and any number of enablings.                                      *)
(***************************************************************************)
EXTENDS Descriptors, TLAPS

Tables == [0..(ENTRIES - 1) -> Descriptor]
Sels == [index : Nat, ti : 0..1, rpl : 0..3]
LoadedSegment == [sel : Sels, base : Nat \X Nat, limit : Int, ar : SUBSET (0..16)]
\* Linux has the segment registers loaded from its tables.
HiddenOf(s) == \A r \in Reg : s[r] = Hidden(s[r].sel, linux_gdt) /\ Loadable(r, s[r].sel, linux_gdt)
\* from_selector finds all entries it looks at.
InTable(s) == \A r \in Reg : ~ Outside(s[r].sel, linux_gdt)
\* What load_from makes of the segment registers.
Read(s) == [r \in Reg |-> from_selector(s[r].sel, linux_gdt)]
\* A selector of the GDT stays, others may become null.
NullSel == Selector(0, 0, 0)
Stays(a, b) == a = b \/ (a = NullSel /\ (b.ti = 1 \/ Null(b)))
SelectorsKept(a, b) == \A r \in Reg : Stays(a[r].sel, b[r].sel)
FromLdt == \E r \in DataReg : before[r].sel.ti = 1

TypeOK ==
    /\ vendor \in {"intel", "amd"}
    /\ seg_pc \in {"linux", "saved", "host", "guest", "ready", "exiting", "stopped"}
    /\ linux_gdt \in LinuxTables
    /\ hv_gdt \in Tables
    /\ before \in [Reg -> LoadedSegment]
    /\ seg_ctx \in [Reg -> LoadedSegment]

\* before is what Linux is to get back; its selectors are in the saved context
\* or, while the guest runs, in the segment registers.  The table of the
\* hypervisor keeps its code segment from arch_init to restore.
SegInv ==
    /\ TypeOK /\ HiddenOf(before)
    /\ fault = "none" \/ (seg_pc = "stopped" /\ FromLdt)
    /\ seg_pc = "linux" => /\ seg \in [Reg -> LoadedSegment] /\ HiddenOf(seg)
                           /\ SelectorsKept(seg, before)
    /\ seg_pc \in {"saved", "host", "guest"} => InTable(before)
    /\ seg_pc \in {"saved", "host"} => seg_ctx = Read(before)
    /\ seg_pc \in {"guest", "ready"} => SelectorsKept(seg, before)
    /\ seg_pc = "guest" =>
         seg = IF vendor = "intel" THEN Read(before)
               ELSE [r \in Reg |-> [Read(before)[r] EXCEPT !.ar = as_svm_segment_attributes(@)]]
    /\ seg_pc = "exiting" => SelectorsKept(seg_ctx, before)
    /\ seg_pc \in {"host", "guest", "ready", "exiting"} =>
         hv_gdt[KCODE] = GdtInit[KCODE] /\ entries >= ENTRIES /\ entries \in Nat

(***************************************************************************)
(* Descriptors read by software and by the processor.                      *)
(***************************************************************************)
\* A table Linux may have has a null first entry.
LEMMA LinuxTable ==
    ASSUME NEW t \in LinuxTables
    PROVE  t \in Tables /\ PRESENT \notin t[0].ar /\ GRAN \in Nat \ {0}
BY SegmentsAssumption DEF Tables

\* from_descriptor loses bit 12 and no other bit that the processor keeps.
LEMMA RightsKept ==
    ASSUME NEW d \in Descriptor
    PROVE  from_descriptor(d) = (d.ar \ (8..11)) \ {12}
BY DEF from_descriptor, AllRights, Descriptor

\* The two forms of a limit in bytes are the same.
LEMMA LimitInBytes ==
    ASSUME NEW l \in Nat, GRAN \in Nat \ {0}
    PROVE  l * GRAN + GRAN - 1 = (l + 1) * GRAN - 1 /\ l * GRAN + GRAN - 1 \in Int
OBVIOUS

\* The attributes of a VMCB stand for the same rights.
LEMMA AttributesKept ==
    ASSUME NEW ar \in SUBSET ((0..7) \cup (13..15))
    PROVE  FromSvm(as_svm_segment_attributes(ar)) = ar
<1> DEFINE a == as_svm_segment_attributes(ar)
<1>1. a = (ar \cap (0..7)) \cup {b - 4 : b \in ar \cap (12..15)}
    BY DEF as_svm_segment_attributes
<1>2. a \cap (0..7) = ar \cap (0..7)
    BY <1>1
<1>3. a \cap (8..11) = {b - 4 : b \in ar \cap (12..15)}
    BY <1>1
<1>4. {c + 4 : c \in {b - 4 : b \in ar \cap (12..15)}} = ar \cap (12..15)
  <2>1. ASSUME NEW b \in ar \cap (12..15) PROVE (b - 4) + 4 = b
      OBVIOUS
  <2>2. ASSUME NEW x \in {c + 4 : c \in {b - 4 : b \in ar \cap (12..15)}} PROVE x \in ar \cap (12..15)
      BY <2>1
  <2>3. ASSUME NEW x \in ar \cap (12..15) PROVE x \in {c + 4 : c \in {b - 4 : b \in ar \cap (12..15)}}
    <3>1. x - 4 \in {b - 4 : b \in ar \cap (12..15)}
        OBVIOUS
    <3> QED
        BY <2>1, <3>1
  <2> QED
      BY <2>2, <2>3
<1>5. FromSvm(a) = (ar \cap (0..7)) \cup (ar \cap (12..15))
  <2> HIDE DEF a
  <2>1. {c + 4 : c \in a \cap (8..11)} = ar \cap (12..15)
      BY <1>3, <1>4, Zenon
  <2> QED
      BY <1>2, <2>1, Zenon DEF FromSvm
<1>6. (ar \cap (0..7)) \cup (ar \cap (12..15)) = ar
  <2>1. \A x \in ar : x \in 0..7 \/ x \in 13..15
      OBVIOUS
  <2>2. \A x \in ar : x \in 0..7 \/ x \in 12..15
      BY <2>1
  <2> QED
      BY <2>2, Zenon
<1> QED
    BY <1>5, <1>6

\* The null selector.
LEMMA NullSelector == NullSel \in Sels /\ Null(NullSel) /\ invalid \in LoadedSegment /\ invalid.sel = NullSel
BY DEF NullSel, Selector, Sels, Null, invalid, LoadedSegment, UNUSABLE

\* What the processor holds of a segment Linux may have loaded.
LEMMA HiddenSegment ==
    ASSUME GRAN \in Nat \ {0}, NEW t \in Tables, NEW r \in Reg, NEW sel, Loadable(r, sel, t)
    PROVE  Hidden(sel, t) \in LoadedSegment /\ Hidden(sel, t).sel = sel
<1> DEFINE d == IF sel.ti = 1 THEN LinuxLdt[sel.index] ELSE t[sel.index]
<1>0. sel \in Sels
    BY DEF Loadable, Sels
<1>1. CASE Null(sel)
    BY <1>0, <1>1, NullSelector DEF Hidden, LoadedSegment
<1>2. CASE ~ Null(sel)
  <2>1. d \in Descriptor /\ d.ar \subseteq 0..15 /\ d.base \in Nat /\ d.limit \in Nat
    <3>1. CASE sel.ti = 1
        BY <3>1, SegmentsAssumption DEF Loadable, Descriptor, Selector
    <3>2. CASE sel.ti # 1
        BY <1>0, <3>2 DEF Loadable, Tables, ENTRIES, Descriptor, Sels
    <3> QED
        BY <3>1, <3>2
  <2>2. CODE_DATA \notin d.ar => t[sel.index + 1].base \in Nat
    <3>1. CASE sel.ti = 1
        BY <3>1, SegmentsAssumption DEF Loadable, Selector
    <3>2. CASE sel.ti # 1
        BY <1>0, <1>2, <3>2 DEF Loadable, Tables, ENTRIES, Descriptor, Sels, Null
    <3> QED
        BY <3>1, <3>2
  <2>3. (d.limit + 1) * GRAN - 1 \in Int
      BY <2>1
  <2> HIDE DEF d
  <2>4. Hidden(sel, t) = [sel |-> sel, ar |-> (d.ar \ (8..11)),
            base |-> IF CODE_DATA \in d.ar THEN <<d.base, 0>> ELSE <<d.base, t[sel.index + 1].base>>,
            limit |-> IF GRANULARITY \in d.ar THEN (d.limit + 1) * GRAN - 1 ELSE d.limit]
      BY <1>2 DEF Hidden, d
  <2> QED
      BY <1>0, <2>1, <2>2, <2>3, <2>4 DEF LoadedSegment
<1> QED
    BY <1>1, <1>2

\* Read by software a segment of the GDT is the same but for bit 12, and a null
\* selector gives an unusable segment; one of the LDT gives either some segment
\* with its selector, or that.
ReadAs(sel, f, h) ==
    /\ f \in LoadedSegment /\ Stays(f.sel, sel)
    /\ Null(sel) => f = invalid
    /\ sel.ti = 0 /\ ~ Null(sel) => f = [h EXCEPT !.ar = @ \ {12}]

\* from_selector reads every segment register that way.
LEMMA SelectorRead ==
    ASSUME GRAN \in Nat \ {0}, NEW t \in Tables, PRESENT \notin t[0].ar,
           NEW r \in Reg, NEW sel, Loadable(r, sel, t), ~ Outside(sel, t)
    PROVE  ReadAs(sel, from_selector(sel, t), Hidden(sel, t))
<1> DEFINE d == t[sel.index]
           b == IF CODE_DATA \in d.ar THEN 0 ELSE t[sel.index + 1].base
<1>0. sel \in Sels /\ sel.index \in 0..(ENTRIES - 1) /\ d \in Descriptor /\ d.limit \in Nat /\ d.base \in Nat
    BY DEF Loadable, Sels, Outside, ENTRIES, Tables, Descriptor
<1>1. CASE PRESENT \notin d.ar
  <2>1. from_selector(sel, t) = invalid
      BY <1>1 DEF from_selector
  <2>2. sel.ti = 1 \/ Null(sel)
    <3>1. sel.ti # 1 => sel.ti = 0
        BY <1>0 DEF Sels
    <3> QED
        BY <1>1, <3>1 DEF Loadable, Null
  <2>3. ~ (sel.ti = 0 /\ ~ Null(sel))
      BY <2>2
  <2> QED
      BY <2>1, <2>2, <2>3, NullSelector DEF ReadAs, Stays
<1>2. CASE PRESENT \in d.ar
  <2>1. ~ Null(sel)
      BY <1>2 DEF Null
  <2>2. from_descriptor(d) = (d.ar \ (8..11)) \ {12}
      BY <1>0, RightsKept
  <2>3. d.limit * GRAN + GRAN - 1 = (d.limit + 1) * GRAN - 1 /\ (d.limit + 1) * GRAN - 1 \in Int
      BY <1>0, LimitInBytes
  <2>4. b \in Nat
    <3>1. CASE CODE_DATA \in d.ar
        BY <3>1
    <3>2. CASE CODE_DATA \notin d.ar
      <4>1. sel.index + 1 \in 0..(ENTRIES - 1)
          BY <1>0, <1>2, <3>2 DEF Outside, ENTRIES
      <4> QED
          BY <3>2, <4>1 DEF Tables, Descriptor
    <3> QED
        BY <3>1, <3>2
  <2>5. from_selector(sel, t) = [sel |-> sel, ar |-> (d.ar \ (8..11)) \ {12}, base |-> <<d.base, b>>,
            limit |-> IF GRANULARITY \in d.ar THEN (d.limit + 1) * GRAN - 1 ELSE d.limit]
      BY <1>2, <2>2, <2>3 DEF from_selector
  <2>6. sel.ti = 0 => from_selector(sel, t) = [Hidden(sel, t) EXCEPT !.ar = @ \ {12}]
    <3> SUFFICES ASSUME sel.ti = 0 PROVE from_selector(sel, t) = [Hidden(sel, t) EXCEPT !.ar = @ \ {12}]
        OBVIOUS
    <3> DEFINE limit == IF GRANULARITY \in d.ar THEN (d.limit + 1) * GRAN - 1 ELSE d.limit
               ar == d.ar \ (8..11)
    <3>1. (IF CODE_DATA \in d.ar THEN <<d.base, 0>> ELSE <<d.base, t[sel.index + 1].base>>) = <<d.base, b>>
        OBVIOUS
    <3>2. ~ (sel.ti = 1)
        OBVIOUS
    <3>3. Hidden(sel, t) = [sel |-> sel, ar |-> ar, base |-> <<d.base, b>>, limit |-> limit]
        BY <2>1, <3>1, <3>2, Zenon DEF Hidden
    <3>4. from_selector(sel, t) = [sel |-> sel, ar |-> ar \ {12}, base |-> <<d.base, b>>, limit |-> limit]
        BY <2>5
    <3> HIDE DEF ar, b, limit, d
    <3> QED
        BY <3>3, <3>4
  <2>7. from_selector(sel, t) \in LoadedSegment /\ from_selector(sel, t).sel = sel
    <3>1. d.ar \subseteq 0..15
        BY <1>0 DEF Descriptor
    <3> HIDE DEF b, d
    <3> QED
        BY <1>0, <2>3, <2>4, <2>5, <3>1 DEF LoadedSegment
  <2> QED
      BY <2>1, <2>6, <2>7 DEF ReadAs, Stays
<1> QED
    BY <1>1, <1>2

TssLoaded(t, sel, l) ==
    /\ l.table \in Tables /\ l.ok = TRUE /\ l.seg = Hidden(Selector(sel, 0, 0), l.table)
    /\ l.table[sel] = [t[sel] EXCEPT !.ar = (@ \ (0..3)) \cup TSS_BUSY]
    /\ \A i \in 0..(ENTRIES - 1) \ {sel} : l.table[i] = t[i]

\* load_tss: ltr finds an available TSS, and only its entry changes.
LEMMA LoadTss ==
    ASSUME NEW t \in Tables, NEW sel \in 0..(ENTRIES - 1)
    PROVE  TssLoaded(t, sel, load_tss(t, sel))
<1> DEFINE d == t[sel]
           u == [t EXCEPT ![sel] = set_descriptor_type(@, TSS_AVAIL)]
           w == [u EXCEPT ![sel] = Busy(@)]
<1>1. d \in Descriptor
    BY DEF Tables
<1>2. u \in Tables /\ u[sel] = [d EXCEPT !.ar = (@ \ (0..3)) \cup TSS_AVAIL]
          /\ \A i \in 0..(ENTRIES - 1) \ {sel} : u[i] = t[i]
  <2>1. [d EXCEPT !.ar = (@ \ (0..3)) \cup TSS_AVAIL] \in Descriptor
      BY <1>1 DEF Descriptor, TSS_AVAIL
  <2> QED
      BY <2>1 DEF Tables, set_descriptor_type
<1>3. load_tss(t, sel) = [table |-> w, ok |-> TypeOf(u[sel]) = TSS_AVAIL, seg |-> Hidden(Selector(sel, 0, 0), w)]
    BY DEF load_tss
<1> HIDE DEF u
<1>4. TypeOf(u[sel]) = TSS_AVAIL
    BY <1>1, <1>2 DEF TypeOf, TSS_AVAIL, Descriptor
<1>5. Busy(u[sel]) = [d EXCEPT !.ar = (@ \ (0..3)) \cup TSS_BUSY]
  <2>1. (((d.ar \ (0..3)) \cup TSS_AVAIL) \ (0..3)) \cup TSS_BUSY = (d.ar \ (0..3)) \cup TSS_BUSY
      BY DEF TSS_AVAIL, TSS_BUSY
  <2> QED
      BY <1>1, <1>2, <2>1 DEF Busy, set_descriptor_type, Descriptor
<1>6. [d EXCEPT !.ar = (@ \ (0..3)) \cup TSS_BUSY] \in Descriptor
    BY <1>1 DEF Descriptor, TSS_BUSY
<1>7. w \in Tables /\ w[sel] = [d EXCEPT !.ar = (@ \ (0..3)) \cup TSS_BUSY]
          /\ \A i \in 0..(ENTRIES - 1) \ {sel} : w[i] = t[i]
    BY <1>2, <1>5, <1>6 DEF Tables
<1> HIDE DEF w
<1>8. load_tss(t, sel).table = w /\ load_tss(t, sel).ok = TRUE
          /\ load_tss(t, sel).seg = Hidden(Selector(sel, 0, 0), w)
  <2>1. (TypeOf(u[sel]) = TSS_AVAIL) = TRUE
      BY <1>4
  <2>2. load_tss(t, sel) = [table |-> w, ok |-> TRUE, seg |-> Hidden(Selector(sel, 0, 0), w)]
      BY <1>3, <2>1, Zenon
  <2> QED
      BY <2>2
<1> QED
    BY <1>7, <1>8 DEF TssLoaded

\* The table of the hypervisor.
LEMMA HypervisorTable ==
    ASSUME GRAN \in Nat \ {0}
    PROVE  GdtInit \in Tables
<1>1. ASSUME NEW i \in 0..(ENTRIES - 1) PROVE GdtInit[i] \in Descriptor
    BY <1>1 DEF GdtInit, Descriptor, Zero, ENTRIES
<1> QED
    BY <1>1 DEF GdtInit, Tables

\* What load_from reads keeps the selectors of the GDT.
LEMMA ReadSegments ==
    ASSUME TypeOK, HiddenOf(before), InTable(before)
    PROVE  /\ Read(before) \in [Reg -> LoadedSegment]
           /\ SelectorsKept(Read(before), before)
<1>1. linux_gdt \in Tables /\ PRESENT \notin linux_gdt[0].ar /\ GRAN \in Nat \ {0}
    BY LinuxTable DEF TypeOK
<1>2. ASSUME NEW r \in Reg
      PROVE  from_selector(before[r].sel, linux_gdt) \in LoadedSegment
             /\ Stays(from_selector(before[r].sel, linux_gdt).sel, before[r].sel)
  <2>1. ReadAs(before[r].sel, from_selector(before[r].sel, linux_gdt), Hidden(before[r].sel, linux_gdt))
      BY <1>1, SelectorRead DEF HiddenOf, InTable
  <2> QED
      BY <2>1 DEF ReadAs
<1> QED
    BY <1>2 DEF Read, SelectorsKept

\* Linux calls with its segments loaded from its own tables.
LEMMA SegInit == SegmentsInit => SegInv
<1> SUFFICES ASSUME SegmentsInit PROVE SegInv
    OBVIOUS
<1>1. PICK s \in Selectors : /\ PRESENT \in linux_gdt[s["tr"].index].ar
                             /\ seg = [r \in Reg |-> Hidden(s[r], linux_gdt)]
    BY DEF SegmentsInit
<1>2. linux_gdt \in Tables /\ GRAN \in Nat \ {0} /\ linux_gdt \in LinuxTables
    BY LinuxTable DEF SegmentsInit
<1>3. ASSUME NEW r \in Reg PROVE Loadable(r, s[r], linux_gdt)
    BY <1>1, <1>2, SegmentsAssumption
<1>4. ASSUME NEW r \in Reg
      PROVE  seg[r] \in LoadedSegment /\ seg[r].sel = s[r] /\ seg[r] = Hidden(s[r], linux_gdt)
  <2>1. Hidden(s[r], linux_gdt) \in LoadedSegment /\ Hidden(s[r], linux_gdt).sel = s[r]
      BY <1>2, <1>3, HiddenSegment
  <2> QED
      BY <1>1, <2>1
<1>5. before = seg /\ seg \in [Reg -> LoadedSegment]
    BY <1>1, <1>4 DEF SegmentsInit
<1>6. HiddenOf(before) /\ HiddenOf(seg) /\ SelectorsKept(seg, before)
    BY <1>3, <1>4, <1>5 DEF HiddenOf, SelectorsKept, Stays
<1>7. TypeOK
    BY <1>2, <1>5, NullSelector, HypervisorTable DEF SegmentsInit, TypeOK
<1> QED
    BY <1>5, <1>6, <1>7 DEF SegmentsInit, SegInv

\* A segment of Linux that from_selector looks for outside the GDT is one of the
\* LDT.
LEMMA OutsideIsLdt ==
    ASSUME NEW t \in Tables, NEW r \in Reg, NEW sel, Loadable(r, sel, t), Outside(sel, t)
    PROVE  r \in DataReg /\ sel.ti = 1
<1>1. sel.index \in Nat
    BY DEF Loadable
<1>2. CASE r = "tr"
    BY <1>1, <1>2 DEF Loadable, Outside, ENTRIES
<1>3. CASE r # "tr" /\ sel.ti # 1
  <2>1. sel.index < ENTRIES /\ sel.index + 1 = ENTRIES /\ CODE_DATA \notin t[sel.index].ar /\ sel.index # 0
      BY <1>1, <1>3 DEF Loadable, Outside, ENTRIES
  <2> QED
      BY <1>3, <2>1 DEF Loadable
<1> QED
    BY <1>2, <1>3 DEF Loadable

\* LinuxContext::load_from records the segments and changes none.
LEMMA SegLoadFrom ==
    ASSUME SegInv, read_segments, UNCHANGED vendor
    PROVE  SegInv'
<1>0. /\ seg_pc = "linux" /\ before' = seg /\ fault = "none"
      /\ UNCHANGED <<vendor, linux_gdt, hv_gdt>>
      /\ linux_gdt \in Tables
    BY LinuxTable DEF read_segments, SegInv, TypeOK
<1>1. before' \in [Reg -> LoadedSegment] /\ HiddenOf(before)'
    BY <1>0 DEF SegInv, HiddenOf
<1>2. CASE \E r \in Reg : Outside(seg[r].sel, linux_gdt)
  <2>1. PICK r \in Reg : Outside(seg[r].sel, linux_gdt)
      BY <1>2
  <2>2. r \in DataReg /\ seg[r].sel.ti = 1
      BY <1>0, <2>1, OutsideIsLdt DEF SegInv, HiddenOf
  <2>3. FromLdt'
      BY <1>0, <2>2 DEF FromLdt
  <2>4. seg_pc' = "stopped" /\ fault' = "panic" /\ UNCHANGED seg_ctx
      BY <1>2 DEF read_segments
  <2>5. TypeOK'
      BY <1>0, <1>1, <2>4 DEF SegInv, TypeOK
  <2> QED
      BY <1>1, <2>3, <2>4, <2>5 DEF SegInv
<1>3. CASE ~ \E r \in Reg : Outside(seg[r].sel, linux_gdt)
  <2>1. /\ seg_pc' = "saved" /\ fault' = "none"
        /\ seg_ctx' = [r \in Reg |-> from_selector(before'[r].sel, linux_gdt)]
      BY <1>0, <1>3 DEF read_segments
  <2>2. seg_ctx' = Read(before)' /\ InTable(before)'
      BY <1>0, <1>3, <2>1 DEF Read, InTable
  <2>3. ASSUME NEW r \in Reg PROVE seg_ctx'[r] \in LoadedSegment
    <3>1. PRESENT \notin linux_gdt[0].ar /\ GRAN \in Nat \ {0}
        BY LinuxTable DEF SegInv, TypeOK
    <3>2. ReadAs(seg[r].sel, from_selector(seg[r].sel, linux_gdt), Hidden(seg[r].sel, linux_gdt))
        BY <1>0, <1>3, <3>1, SelectorRead DEF SegInv, HiddenOf
    <3> QED
        BY <1>0, <2>1, <3>2 DEF ReadAs
  <2>4. seg_ctx' \in [Reg -> LoadedSegment]
      BY <2>1, <2>3
  <2>5. TypeOK'
      BY <1>0, <1>1, <2>1, <2>4 DEF SegInv, TypeOK
  <2> QED
      BY <1>1, <2>1, <2>2, <2>5 DEF SegInv
<1> QED
    BY <1>2, <1>3

\* ArchPerCpu::init loads the hypervisor's table; the record stays.
LEMMA SegArchInit ==
    ASSUME SegInv, arch_init_tables, UNCHANGED vendor
    PROVE  SegInv'
<1> DEFINE t == load_tss(GdtInit, TSS)
<1>0. /\ seg_pc = "saved" /\ seg_pc' = "host" /\ hv_gdt' = t.table /\ entries' = ENTRIES
      /\ fault' = IF t.ok THEN fault ELSE "gp"
      /\ UNCHANGED <<vendor, linux_gdt, seg_ctx, before>>
    BY DEF arch_init_tables
<1>1. GRAN \in Nat \ {0}
    BY SegmentsAssumption
<1>2. t.table \in Tables /\ t.ok = TRUE /\ t.table[KCODE] = GdtInit[KCODE]
  <2>1. TSS \in 0..(ENTRIES - 1) /\ KCODE \in 0..(ENTRIES - 1) \ {TSS}
      BY DEF TSS, KCODE, ENTRIES
  <2>2. TssLoaded(GdtInit, TSS, t)
      BY <1>1, <2>1, HypervisorTable, LoadTss
  <2> QED
      BY <2>1, <2>2 DEF TssLoaded
<1> HIDE DEF t
<1>3. TypeOK'
    BY <1>0, <1>2 DEF SegInv, TypeOK
<1>4. Read(before)' = Read(before) /\ InTable(before)' = InTable(before) /\ HiddenOf(before)' = HiddenOf(before)
    BY <1>0 DEF Read, InTable, HiddenOf
<1> QED
    BY <1>0, <1>2, <1>3, <1>4 DEF SegInv, ENTRIES

\* The first entry gives the guest the recorded segments.
LEMMA SegEnter ==
    ASSUME SegInv, enter, UNCHANGED vendor
    PROVE  SegInv'
<1>0. /\ seg_pc = "host" /\ seg_pc' = "guest" /\ seg_ctx = Read(before)
      /\ seg' = IF vendor = "intel" THEN seg_ctx
                ELSE [r \in Reg |-> [seg_ctx[r] EXCEPT !.ar = as_svm_segment_attributes(@)]]
      /\ UNCHANGED <<vendor, linux_gdt, hv_gdt, entries, seg_ctx, before, fault>>
    BY DEF enter, SegInv
<1>1. TypeOK'
    BY <1>0 DEF SegInv, TypeOK
<1>2. Read(before)' = Read(before) /\ InTable(before)' = InTable(before) /\ HiddenOf(before)' = HiddenOf(before)
    BY <1>0 DEF Read, InTable, HiddenOf
<1>3. Read(before) \in [Reg -> LoadedSegment] /\ SelectorsKept(Read(before), before)
    BY <1>0, ReadSegments DEF SegInv
<1>4. ASSUME NEW r \in Reg PROVE seg'[r].sel = seg_ctx[r].sel
    BY <1>0, <1>3 DEF LoadedSegment
<1>5. SelectorsKept(seg, before)'
    BY <1>0, <1>3, <1>4 DEF SelectorsKept
<1> QED
    BY <1>0, <1>1, <1>2, <1>5 DEF SegInv

\* The guest loads FS from its own table.
LEMMA SegGuestLoadsFs ==
    ASSUME SegInv, GuestLoadsFs, UNCHANGED vendor
    PROVE  SegInv'
<1>0. PICK s \in {NullSel} \cup {Selector(i, 0, 3) : i \in {j \in 12..13 : PRESENT \in linux_gdt[j].ar}}
                 \cup {Selector(i, 1, 3) : i \in DOMAIN LinuxLdt} :
          /\ before' = [before EXCEPT !["fs"] = Hidden(s, linux_gdt)]
          /\ seg' = [seg EXCEPT !["fs"] = Hidden(s, linux_gdt)]
    BY DEF GuestLoadsFs, NullSel
<1>1. /\ seg_pc = "guest" /\ seg_pc' = "ready"
      /\ UNCHANGED <<vendor, linux_gdt, hv_gdt, entries, seg_ctx, fault>>
    BY DEF GuestLoadsFs
<1>2. linux_gdt \in Tables /\ GRAN \in Nat \ {0} /\ linux_gdt \in LinuxTables
    BY LinuxTable DEF SegInv, TypeOK
<1>3. "fs" \in Reg /\ Loadable("fs", s, linux_gdt)
  <2>1. CASE s = NullSel
      BY <2>1, NullSelector DEF NullSel, Selector, Sels, Loadable, Reg, ENTRIES
  <2>2. ASSUME NEW i \in 12..13, PRESENT \in linux_gdt[i].ar, s = Selector(i, 0, 3)
        PROVE  Loadable("fs", s, linux_gdt)
      BY <1>2, <2>2, SegmentsAssumption DEF Selector, Loadable, ENTRIES
  <2>3. ASSUME NEW i \in DOMAIN LinuxLdt, s = Selector(i, 1, 3)
        PROVE  Loadable("fs", s, linux_gdt)
      BY <2>3, SegmentsAssumption DEF Selector, Loadable, DataReg
  <2> QED
      BY <1>0, <2>1, <2>2, <2>3 DEF Reg
<1>4. Hidden(s, linux_gdt) \in LoadedSegment /\ Hidden(s, linux_gdt).sel = s
    BY <1>2, <1>3, HiddenSegment
<1>5. before \in [Reg -> LoadedSegment] /\ DOMAIN seg = Reg
    BY <1>1 DEF SegInv, TypeOK, Read
<1>6. TypeOK'
    BY <1>0, <1>1, <1>3, <1>4 DEF SegInv, TypeOK
<1>7. ASSUME NEW r \in Reg
      PROVE  /\ before'[r] = Hidden(before'[r].sel, linux_gdt) /\ Loadable(r, before'[r].sel, linux_gdt)
             /\ Stays(seg'[r].sel, before'[r].sel)
  <2>1. CASE r = "fs"
      BY <1>0, <1>3, <1>4, <1>5, <2>1 DEF Stays
  <2>2. CASE r # "fs"
    <3>1. before'[r] = before[r] /\ seg'[r] = seg[r]
        BY <1>0, <1>5, <2>2
    <3> QED
        BY <1>1, <3>1 DEF SegInv, HiddenOf, SelectorsKept
  <2> QED
      BY <2>1, <2>2
<1>8. HiddenOf(before)' /\ SelectorsKept(seg, before)'
    BY <1>1, <1>7 DEF HiddenOf, SelectorsKept
<1> QED
    BY <1>1, <1>6, <1>8 DEF SegInv

\* A VM exit loads the host's segments; the selectors of the guest are kept.
LEMMA SegExit ==
    ASSUME SegInv, exit, UNCHANGED vendor
    PROVE  SegInv'
<1>0. /\ seg_pc \in {"guest", "ready"} /\ seg_pc' = "exiting"
      /\ entries' = IF vendor = "intel" THEN 8192 ELSE ENTRIES
      /\ seg_ctx' = [r \in Reg |-> [seg_ctx[r] EXCEPT !.sel = seg[r].sel]]
      /\ UNCHANGED <<vendor, linux_gdt, hv_gdt, before, fault>>
    BY DEF exit
<1>1. ASSUME NEW r \in Reg PROVE Stays(seg[r].sel, before[r].sel) /\ seg[r].sel \in Sels
    BY <1>0, NullSelector DEF SegInv, TypeOK, SelectorsKept, Stays, LoadedSegment
<1>2. ASSUME NEW r \in Reg PROVE seg_ctx'[r] \in LoadedSegment /\ seg_ctx'[r].sel = seg[r].sel
  <2>1. seg_ctx[r] \in LoadedSegment
      BY DEF SegInv, TypeOK
  <2>2. seg_ctx'[r] = [seg_ctx[r] EXCEPT !.sel = seg[r].sel]
      BY <1>0
  <2> QED
      BY <1>1, <2>1, <2>2 DEF LoadedSegment
<1>3. TypeOK'
    BY <1>0, <1>2 DEF SegInv, TypeOK
<1>4. SelectorsKept(seg_ctx, before)'
    BY <1>0, <1>1, <1>2 DEF SelectorsKept
<1> QED
    BY <1>0, <1>3, <1>4 DEF SegInv, HiddenOf, ENTRIES

\* Linux's TSS, copied to the table of the hypervisor and loaded from there,
\* leaves in TR what loading it from the table of Linux would leave.
LEMMA TssCopied ==
    ASSUME NEW linux \in Tables, NEW hv \in Tables, hv = hv_gdt, linux = linux_gdt,
           NEW idx, Loadable("tr", Selector(idx, 0, 0), linux)
    PROVE  /\ CopyTss(idx).table \in Tables /\ CopyTss(idx).ok = TRUE
           /\ CopyTss(idx).seg = Hidden(Selector(idx, 0, 0), linux)
           /\ CopyTss(idx).table[KCODE] = hv[KCODE]
<1> DEFINE c == [hv EXCEPT ![idx] = linux[idx], ![idx + 1] = linux[idx + 1]]
           l == load_tss(c, idx)
           d == linux[idx]
<1>1. /\ idx \in 0..(ENTRIES - 1) /\ idx + 1 \in 0..(ENTRIES - 1) /\ idx # 0 /\ idx + 1 # idx
      /\ KCODE \in 0..(ENTRIES - 1) /\ KCODE # idx /\ KCODE # idx + 1
    BY DEF Loadable, Selector, ENTRIES, KCODE
<1>2. d \in Descriptor /\ linux[idx + 1] \in Descriptor /\ TypeOf(d) = TSS_BUSY
    BY <1>1 DEF Tables, Loadable, Selector
<1>3. c \in Tables /\ c[idx] = d /\ c[idx + 1] = linux[idx + 1] /\ c[KCODE] = hv[KCODE]
    BY <1>1, <1>2 DEF Tables
<1>4. CopyTss(idx) = l
    BY DEF CopyTss
<1> HIDE DEF c
<1>5. TssLoaded(c, idx, l)
    BY <1>1, <1>3, LoadTss
<1> HIDE DEF l, d
<1>6. l.table[idx] = d /\ l.table[idx + 1] = linux[idx + 1] /\ l.table[KCODE] = hv[KCODE]
  <2>1. (d.ar \ (0..3)) \cup TSS_BUSY = d.ar
      BY <1>2 DEF TypeOf
  <2>2. [d EXCEPT !.ar = (@ \ (0..3)) \cup TSS_BUSY] = d
      BY <1>2, <2>1 DEF Descriptor
  <2> QED
      BY <1>1, <1>3, <1>5, <2>2 DEF TssLoaded
<1>7. Hidden(Selector(idx, 0, 0), l.table) = Hidden(Selector(idx, 0, 0), linux)
  <2> DEFINE sel == Selector(idx, 0, 0)
  <2>1. sel.index = idx /\ sel.ti = 0
      BY DEF Selector
  <2> HIDE DEF sel
  <2>2. ~ (sel.ti = 1)
      BY <2>1
  <2>3. Hidden(sel, l.table) = Hidden(sel, linux)
      BY <1>6, <2>1, <2>2 DEF Hidden, d
  <2> QED
      BY <2>3 DEF sel
<1> QED
    BY <1>4, <1>5, <1>6, <1>7 DEF TssLoaded

\* LinuxContext::restore copies the TSS descriptor of Linux to the table in
\* force, loads TR from it and the other segments from Linux's table.
LEMMA SegRestore ==
    ASSUME SegInv, restore_segments, UNCHANGED vendor
    PROVE  SegInv'
<1> DEFINE idx == seg_ctx["tr"].sel.index
           t == CopyTss(idx)
<1>0. /\ seg_pc = "exiting" /\ hv_gdt' = t.table
      /\ fault' = CASE idx + 1 >= entries -> "panic"
                    [] idx + 1 < entries /\ idx + 1 >= ENTRIES -> "overrun"
                    [] idx + 1 < ENTRIES /\ t.table[KCODE] # GdtInit[KCODE] -> "cs"
                    [] idx + 1 < ENTRIES /\ ~ t.ok -> "gp"
                    [] OTHER -> IF LdtMissing THEN "gp" ELSE "none"
      /\ seg_pc' = IF fault' = "none" THEN "linux" ELSE "stopped"
      /\ seg' = [r \in Reg |-> IF r = "tr" THEN t.seg ELSE Hidden(seg_ctx[r].sel, linux_gdt)]
      /\ UNCHANGED <<vendor, linux_gdt, seg_ctx, before>>
    BY DEF restore_segments
<1>1. linux_gdt \in Tables /\ GRAN \in Nat \ {0}
    BY LinuxTable DEF SegInv, TypeOK
<1>2. SelectorsKept(seg_ctx, before)
    BY <1>0 DEF SegInv
<1>3. ASSUME NEW r \in Reg PROVE Loadable(r, seg_ctx[r].sel, linux_gdt)
  <2>1. Stays(seg_ctx[r].sel, before[r].sel) /\ Loadable(r, before[r].sel, linux_gdt)
      BY <1>2 DEF SegInv, HiddenOf, SelectorsKept
  <2>2. CASE seg_ctx[r].sel = before[r].sel
      BY <2>1, <2>2
  <2>3. CASE seg_ctx[r].sel # before[r].sel
    <3>1. r # "tr"
        BY <2>1, <2>3 DEF Stays, Loadable, Selector, Null
    <3> QED
        BY <2>1, <2>3, <3>1, NullSelector DEF Stays, Loadable, NullSel, Selector, Sels, ENTRIES
  <2> QED
      BY <2>2, <2>3
<1>4. "tr" \in Reg /\ seg_ctx["tr"].sel = Selector(idx, 0, 0) /\ Loadable("tr", Selector(idx, 0, 0), linux_gdt)
    BY <1>3 DEF Loadable, Reg
<1>5. /\ t.table \in Tables /\ t.ok = TRUE /\ t.seg = Hidden(Selector(idx, 0, 0), linux_gdt)
      /\ t.table[KCODE] = hv_gdt[KCODE]
  <2>1. hv_gdt \in Tables
      BY DEF SegInv, TypeOK
  <2>2. Loadable("tr", Selector(idx, 0, 0), linux_gdt)
      BY <1>4
  <2> HIDE DEF idx
  <2> QED
      BY <1>1, <2>1, <2>2, TssCopied, Zenon
<1>6. idx \in Nat /\ idx + 1 < ENTRIES /\ ~(idx + 1 >= entries)
    BY <1>0, <1>4 DEF Loadable, Selector, ENTRIES, SegInv
<1> HIDE DEF t, idx
<1>7. t.table[KCODE] = GdtInit[KCODE]
    BY <1>0, <1>5 DEF SegInv
<1>8. fault' = IF LdtMissing THEN "gp" ELSE "none"
    BY <1>0, <1>5, <1>6, <1>7 DEF ENTRIES
<1>9. LdtMissing => FromLdt'
  <2> SUFFICES ASSUME LdtMissing PROVE FromLdt'
      OBVIOUS
  <2>1. PICK r \in DataReg : seg_ctx[r].sel.ti = 1
      BY DEF LdtMissing
  <2>2. r \in Reg /\ NullSel.ti # 1
      BY DEF DataReg, Reg, NullSel, Selector
  <2>3. before[r].sel.ti = 1
      BY <1>2, <2>1, <2>2 DEF SelectorsKept, Stays
  <2> QED
      BY <1>0, <2>3 DEF FromLdt
<1>10. ASSUME NEW r \in Reg PROVE seg'[r] = Hidden(seg_ctx[r].sel, linux_gdt)
  <2>1. CASE r = "tr"
      BY <1>0, <1>4, <1>5, <2>1
  <2>2. CASE r # "tr"
      BY <1>0, <2>2
  <2> QED
      BY <2>1, <2>2
<1>11. ASSUME NEW r \in Reg PROVE seg'[r] \in LoadedSegment /\ seg'[r].sel = seg_ctx[r].sel
    BY <1>1, <1>3, <1>10, HiddenSegment
<1>12. seg' \in [Reg -> LoadedSegment] /\ HiddenOf(seg)' /\ SelectorsKept(seg, before)'
  <2>1. seg' \in [Reg -> LoadedSegment]
      BY <1>0, <1>11
  <2>2. HiddenOf(seg)'
      BY <1>0, <1>3, <1>10, <1>11 DEF HiddenOf
  <2>3. SelectorsKept(seg, before)'
      BY <1>0, <1>2, <1>11 DEF SelectorsKept
  <2> QED
      BY <2>1, <2>2, <2>3
<1>13. TypeOK' /\ HiddenOf(before)'
    BY <1>0, <1>5 DEF SegInv, TypeOK, HiddenOf
<1> QED
    BY <1>0, <1>8, <1>9, <1>12, <1>13 DEF SegInv

\* Every step preserves the invariant.
LEMMA SegNext == SegInv /\ [SegmentsNext]_segment_vars => SegInv'
<1> SUFFICES ASSUME SegInv, [SegmentsNext]_segment_vars PROVE SegInv'
    OBVIOUS
<1>1. CASE read_segments /\ UNCHANGED vendor
    BY <1>1, SegLoadFrom
<1>2. CASE arch_init_tables /\ UNCHANGED vendor
    BY <1>2, SegArchInit
<1>3. CASE enter /\ UNCHANGED vendor
    BY <1>3, SegEnter
<1>4. CASE GuestLoadsFs /\ UNCHANGED vendor
    BY <1>4, SegGuestLoadsFs
<1>5. CASE exit /\ UNCHANGED vendor
    BY <1>5, SegExit
<1>6. CASE restore_segments /\ UNCHANGED vendor
    BY <1>6, SegRestore
<1>7. CASE UNCHANGED segment_vars
    BY <1>7 DEF segment_vars, SegInv, TypeOK, HiddenOf, InTable, Read, SelectorsKept, FromLdt
<1> QED
    BY <1>1, <1>2, <1>3, <1>4, <1>5, <1>6, <1>7 DEF SegmentsNext

\* With the invariant the guest has the segments of Linux.
LEMMA SegInvSuffices == SegInv => SegmentsKept
<1> SUFFICES ASSUME SegInv PROVE SegmentsKept
    OBVIOUS
<1>0. TablesHold
    BY DEF SegInv, TablesHold, FromLdt
<1>1. ASSUME seg_pc = "linux", NEW r \in Reg
      PROVE  \/ seg[r] = before[r]
             \/ (before[r].sel.ti = 1 \/ Null(before[r].sel)) /\ seg[r] = invalid
  <2>1. /\ seg[r] = Hidden(seg[r].sel, linux_gdt) /\ before[r] = Hidden(before[r].sel, linux_gdt)
        /\ Stays(seg[r].sel, before[r].sel)
      BY <1>1 DEF SegInv, HiddenOf, SelectorsKept
  <2>2. CASE seg[r].sel = before[r].sel
      BY <2>1, <2>2
  <2>3. CASE seg[r].sel # before[r].sel
    <3>1. seg[r].sel = NullSel /\ (before[r].sel.ti = 1 \/ Null(before[r].sel))
        BY <2>1, <2>3 DEF Stays
    <3>2. Hidden(NullSel, linux_gdt) = invalid
        BY NullSelector DEF Hidden, invalid, NullSel, Selector
    <3> QED
        BY <2>1, <3>1, <3>2
  <2> QED
      BY <2>2, <2>3
<1>2. ASSUME seg_pc = "guest", NEW r \in Reg
      PROVE  LET s == seg[r]
                 ar == IF vendor = "intel" THEN s.ar ELSE FromSvm(s.ar)
             IN  before[r].sel.ti = 0 =>
                 IF before[r].sel.index = 0 THEN Null(s.sel) /\ PRESENT \notin ar
                 ELSE /\ [s EXCEPT !.ar = {}] = [before[r] EXCEPT !.ar = {}]
                      /\ ar = before[r].ar \ {12}
                      /\ r = "tr" => ar \cap (0..3) = TSS_BUSY
  <2> DEFINE s == seg[r]
             ar == IF vendor = "intel" THEN s.ar ELSE FromSvm(s.ar)
             sel == before[r].sel
             f == from_selector(sel, linux_gdt)
             h == before[r]
  <2>1. /\ linux_gdt \in Tables /\ PRESENT \notin linux_gdt[0].ar /\ GRAN \in Nat \ {0}
        /\ h = Hidden(sel, linux_gdt) /\ Loadable(r, sel, linux_gdt) /\ h \in LoadedSegment
        /\ ~ Outside(sel, linux_gdt)
      BY <1>2, LinuxTable DEF SegInv, TypeOK, HiddenOf, InTable
  <2>2. /\ f \in LoadedSegment
        /\ Null(sel) => f = invalid
        /\ sel.ti = 0 /\ ~ Null(sel) => f = [h EXCEPT !.ar = @ \ {12}]
    <3>1. ReadAs(sel, f, Hidden(sel, linux_gdt))
        BY <2>1, SelectorRead
    <3> HIDE DEF f, h, sel
    <3> QED
        BY <2>1, <3>1 DEF ReadAs
  <2>3. s = IF vendor = "intel" THEN f ELSE [f EXCEPT !.ar = as_svm_segment_attributes(@)]
      BY <1>2 DEF SegInv, Read
  <2>4. sel.ti = 0 /\ ~ Null(sel) =>
            h.ar = linux_gdt[sel.index].ar \ (8..11) /\ linux_gdt[sel.index] \in Descriptor
    <3> SUFFICES ASSUME sel.ti = 0, ~ Null(sel)
                 PROVE  h.ar = linux_gdt[sel.index].ar \ (8..11) /\ linux_gdt[sel.index] \in Descriptor
        OBVIOUS
    <3>1. linux_gdt[sel.index] \in Descriptor
        BY <2>1 DEF Loadable, Tables, ENTRIES
    <3>2. ~ (sel.ti = 1)
        OBVIOUS
    <3> HIDE DEF h, sel
    <3>3. h = [sel |-> sel, ar |-> (linux_gdt[sel.index].ar \ (8..11)), base |-> Hidden(sel, linux_gdt).base,
               limit |-> Hidden(sel, linux_gdt).limit]
        BY <2>1, <3>2 DEF Hidden
    <3> QED
        BY <3>1, <3>3
  <2> HIDE DEF s, f, h
  <2>5. CASE sel.ti = 0 /\ sel.index = 0
    <3>1. f = invalid
        BY <2>2, <2>5 DEF Null
    <3>2. as_svm_segment_attributes({UNUSABLE}) = {}
        BY DEF as_svm_segment_attributes, UNUSABLE
    <3>3. FromSvm({}) = {}
        BY DEF FromSvm
    <3>4. PRESENT \notin ar
        BY <2>3, <3>1, <3>2, <3>3 DEF invalid, UNUSABLE, PRESENT
    <3>5. s.sel = invalid.sel
        BY <2>3, <3>1, NullSelector DEF LoadedSegment
    <3> QED
        BY <2>5, <3>4, <3>5, NullSelector DEF s, h
  <2>6. CASE sel.ti = 0 /\ sel.index # 0
    <3>0. sel.ti = 0 /\ ~ Null(sel)
        BY <2>6 DEF Null
    <3>1. f = [h EXCEPT !.ar = @ \ {12}] /\ f.ar = h.ar \ {12}
        BY <2>1, <2>2, <3>0 DEF LoadedSegment
    <3>2. h.ar \ {12} \subseteq (0..7) \cup (13..15)
        BY <2>4, <3>0 DEF Descriptor
    <3>3. ar = h.ar \ {12}
      <4>1. CASE vendor = "intel"
          BY <2>3, <3>1, <4>1
      <4>2. CASE vendor # "intel"
        <5>1. s.ar = as_svm_segment_attributes(h.ar \ {12})
            BY <2>2, <2>3, <3>1, <4>2 DEF LoadedSegment
        <5> QED
            BY <3>2, <4>2, <5>1, AttributesKept
      <4> QED
          BY <4>1, <4>2
    <3>4. [s EXCEPT !.ar = {}] = [h EXCEPT !.ar = {}]
        BY <2>1, <2>3, <3>1 DEF LoadedSegment
    <3>5. r = "tr" => (h.ar \ {12}) \cap (0..3) = TSS_BUSY
        BY <2>1, <2>4, <3>0 DEF Loadable, TypeOf, TSS_BUSY
    <3> QED
        BY <2>6, <3>3, <3>4, <3>5 DEF s, h
  <2> QED
      BY <2>5, <2>6
<1>3. GuestHasLinuxSegments
    BY <1>2 DEF GuestHasLinuxSegments
<1>4. LinuxHasItsSegments
    BY <1>1 DEF LinuxHasItsSegments
<1> QED
    BY <1>0, <1>3, <1>4 DEF SegmentsKept

\* For every table and all selectors Linux may have, and however often the
\* hypervisor is switched on and off: the guest starts with the segments Linux
\* has in the GDT, Linux gets those of the guest back, and only a selector of
\* the LDT, which is looked up in the GDT, can make the way fault
\* (Segment::from_selector, GdtStruct::load_tss, LinuxContext::restore).
THEOREM SegmentsKeptHolds == SegmentsSpec => []SegmentsKept
BY SegInit, SegNext, SegInvSuffices, PTL DEF SegmentsSpec
=============================================================================
