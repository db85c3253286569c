---------------------------- MODULE MemoryProofs ----------------------------
(***************************************************************************)
(* Proofs about AddressSpace, for every page size, set of regions and      *)
(* flags, and about FrameAllocator, for every pool and every kind of run.  *)
(***************************************************************************)
EXTENDS AddressSpace, FrameAllocator, WellFoundedInduction, TLAPS

(***************************************************************************)
(* AddressSpace.                                                           *)
(***************************************************************************)
\* A nonempty set of natural numbers has a smallest member.
LEMMA SmallestExists ==
    ASSUME NEW D \in SUBSET Nat, D # {}
    PROVE  \E d \in D : \A e \in D : d <= e
<1> DEFINE R == OpToRel(<, Nat)
<1>1. IsWellFoundedOn(R, Nat)
  BY NatLessThanWellFounded
<1>2. \A a, b \in Nat : a < b => <<a, b>> \in R
  BY DEF OpToRel
<1> HIDE DEF R
<1>3. PICK d \in D : \A e \in D : ~ (<<e, d>> \in R)
  BY <1>1, WFMin
<1>4. ASSUME NEW e \in D PROVE d <= e
  <2>1. e \in Nat /\ d \in Nat
    OBVIOUS
  <2>2. ~ (e < d)
    BY <2>1, <1>2, <1>3
  <2> QED BY <2>1, <2>2
<1> QED BY <1>3, <1>4

\* regions.range(..o.start).last() is Some(..) when a region starts below o.
LEMMA LastExists ==
    ASSUME NEW S \in SUBSET Region, NEW o \in Region, NEW y \in S, y.start < o.start
    PROVE  \E b \in S : IsLastBefore(S, b, o)
<1> DEFINE D == {o.start - x.start : x \in {z \in S : z.start < o.start}}
<1>1. D \in SUBSET Nat
  BY DEF Region
<1>2. D # {}
  OBVIOUS
<1>3. PICK d \in D : \A e \in D : d <= e
  BY <1>1, <1>2, SmallestExists
<1>4. PICK b \in S : b.start < o.start /\ d = o.start - b.start
  BY <1>3
<1>5. ASSUME NEW x \in S, x.start < o.start
      PROVE  x.start <= b.start
  <2>1. o.start - x.start \in D
    BY <1>5
  <2>2. d <= o.start - x.start
    BY <2>1, <1>3
  <2> QED BY <2>2, <1>4, <1>5 DEF Region
<1> QED BY <1>4, <1>5 DEF IsLastBefore

\* regions.range(o.start..).next() is Some(..) when a region starts above o.
LEMMA NextExists ==
    ASSUME NEW S \in SUBSET Region, NEW o \in Region, NEW y \in S, y.start >= o.start
    PROVE  \E a \in S : IsNextAfter(S, a, o)
<1> DEFINE D == {x.start : x \in {z \in S : z.start >= o.start}}
<1>1. D \in SUBSET Nat
  BY DEF Region
<1>2. D # {}
  OBVIOUS
<1>3. PICK d \in D : \A e \in D : d <= e
  BY <1>1, <1>2, SmallestExists
<1>4. PICK a \in S : a.start >= o.start /\ d = a.start
  BY <1>3
<1>5. ASSUME NEW x \in S, x.start >= o.start
      PROVE  x.start >= a.start
  <2>1. x.start \in D
    BY <1>5
  <2>2. d <= x.start
    BY <2>1, <1>3
  <2> QED BY <2>2, <1>4, <1>5 DEF Region
<1> QED BY <1>4, <1>5 DEF IsNextAfter

\* Comparing a region with its two neighbours compares it with all, provided
\* the recorded regions are disjoint and not empty.
LEMMA NeighboursSuffice ==
    ASSUME NEW S \in SUBSET Region, NEW o \in Region,
           \A r \in S : r.size > 0,
           \A r, s \in S : r # s => ~ is_overlap_with(r, s),
           test_free_area(S, o)
    PROVE  \A y \in S : ~ is_overlap_with(y, o) /\ ~ is_overlap_with(o, y)
<1> SUFFICES ASSUME NEW y \in S PROVE ~ is_overlap_with(y, o) /\ ~ is_overlap_with(o, y)
  OBVIOUS
<1>0. \A r \in S : r.start \in Nat /\ r.size \in Nat
  BY DEF Region
<1>o. o.start \in Nat /\ o.size \in Nat
  BY DEF Region
<1>1. CASE y.start < o.start
  <2>1. PICK b \in S : IsLastBefore(S, b, o)
    BY <1>1, LastExists
  <2>2. ~ is_overlap_with(b, o) /\ y.start <= b.start /\ b.start < o.start
    BY <2>1, <1>1 DEF test_free_area, IsLastBefore
  <2>3. CASE y = b
    BY <2>2, <2>3, <1>0, <1>o DEF is_overlap_with
  <2>4. CASE y # b
    <3>1. ~ is_overlap_with(y, b)
      BY <2>4
    <3>2. b.size > 0
      OBVIOUS
    <3> QED BY <3>1, <3>2, <2>2, <1>0, <1>o DEF is_overlap_with
  <2> QED BY <2>3, <2>4
<1>2. CASE y.start >= o.start
  <2>1. PICK a \in S : IsNextAfter(S, a, o)
    BY <1>2, NextExists
  <2>2. ~ is_overlap_with(a, o) /\ y.start >= a.start /\ a.start >= o.start
    BY <2>1, <1>2 DEF test_free_area, IsNextAfter
  <2>3. a.size > 0
    OBVIOUS
  <2> QED BY <2>2, <2>3, <1>0, <1>o DEF is_overlap_with
<1> QED BY <1>0, <1>o, <1>1, <1>2

\* Pages of regions that do not overlap are different.
LEMMA PagesApart ==
    ASSUME NEW r \in Region, NEW s \in Region, ~ is_overlap_with(r, s)
    PROVE  Pages(r) \cap Pages(s) = {}
BY DEF Pages, is_overlap_with, Region

-----------------------------------------------------------------------------
\* The inductive invariant: besides the three properties, recorded regions
\* are inputs and not empty, which the argument about neighbours needs.
Inv ==
    /\ regions \subseteq Inputs
    /\ \A r \in regions : r.size > 0
    /\ RegionsDisjoint
    /\ RegionsTranslated
    /\ OneTranslation

\* An empty memory set and page table.
LEMMA InitInv == Init => Inv
BY DEF Init, Inv, RegionsDisjoint, RegionsTranslated, OneTranslation

\* A successful insertion.
LEMMA InsertInv ==
    ASSUME Inv, NEW r \in Inputs, Insert(r)
    PROVE  Inv'
<1> USE InputsAssumption DEF Inv
<1>1. regions' \subseteq Inputs /\ \A s \in regions' : s.size > 0
  BY DEF Insert
<1>2. RegionsDisjoint'
  <2>1. \A y \in regions : ~ is_overlap_with(y, r) /\ ~ is_overlap_with(r, y)
    BY NeighboursSuffice DEF Insert, RegionsDisjoint
  <2> QED BY <2>1 DEF Insert, RegionsDisjoint
<1>3. RegionsTranslated'
  BY DEF Insert, RegionsTranslated
<1>4. OneTranslation'
  <2>1. ASSUME NEW t \in xlate, NEW u \in Translations(r) PROVE t[1] # u[1]
    <3>1. PICK v \in Pages(r) : u = Translation(r, v)
      BY DEF Translations
    <3>2. u[1] = v
      BY <3>1 DEF Translation
    <3> QED BY <3>2 DEF Insert, Mapped
  <2>2. ASSUME NEW t \in Translations(r), NEW u \in Translations(r), t[1] = u[1] PROVE t = u
    BY <2>2 DEF Translations, Translation
  <2> QED BY <2>1, <2>2 DEF Insert, OneTranslation
<1> QED BY <1>1, <1>2, <1>3, <1>4

\* An insertion that fails half way.
LEMMA InsertFailsInv ==
    ASSUME Inv, NEW r \in Inputs, NEW end \in Pages(r), InsertFails(r, end)
    PROVE  Inv'
<1> DEFINE Added == {Translation(r, v) : v \in {p \in Pages(r) : p < end}}
<1>1. regions' = regions /\ xlate' = xlate \cup Added
  BY DEF InsertFails
<1>2. ASSUME NEW t \in xlate, NEW u \in Added PROVE t[1] # u[1]
  <2>1. PICK v \in Pages(r) : v < end /\ u = Translation(r, v)
    OBVIOUS
  <2>2. u[1] = v
    BY <2>1 DEF Translation
  <2> QED BY <2>1, <2>2 DEF InsertFails, Mapped
<1>3. ASSUME NEW t \in Added, NEW u \in Added, t[1] = u[1] PROVE t = u
  BY <1>3 DEF Translation
<1> HIDE DEF Added
<1>4. OneTranslation'
  BY <1>1, <1>2, <1>3 DEF Inv, OneTranslation
<1> QED BY <1>1, <1>4 DEF Inv, RegionsDisjoint, RegionsTranslated

\* A deletion takes nothing from the other regions.
LEMMA DeleteInv ==
    ASSUME Inv, NEW r \in regions, Delete(r)
    PROVE  Inv'
<1> USE InputsAssumption DEF Inv
<1>1. RegionsTranslated'
  <2> SUFFICES ASSUME NEW s \in regions, s # r, NEW v \in Pages(s)
               PROVE  Translation(s, v) \in xlate \ Translations(r)
    BY DEF Delete, RegionsTranslated, Translations
  <2>1. v \notin Pages(r)
    BY PagesApart DEF RegionsDisjoint
  <2>2. Translation(s, v) \notin Translations(r)
    BY <2>1 DEF Translations, Translation
  <2> QED BY <2>2 DEF RegionsTranslated, Translations
<1> QED BY <1>1 DEF Delete, RegionsDisjoint, OneTranslation

\* Every step of MemorySet preserves the invariant.
LEMMA StepInv == Inv /\ [Next]_vars => Inv'
<1> SUFFICES ASSUME Inv, [Next]_vars PROVE Inv'
  OBVIOUS
<1>1. ASSUME NEW r \in Inputs, Insert(r) PROVE Inv'
  BY <1>1, InsertInv
<1>2. ASSUME NEW r \in Inputs, NEW end \in Pages(r), InsertFails(r, end) PROVE Inv'
  BY <1>2, InsertFailsInv
<1>3. ASSUME NEW r \in regions, Delete(r) PROVE Inv'
  BY <1>3, DeleteInv
<1>4. CASE Clear
  BY <1>4 DEF Clear, Inv, RegionsDisjoint, RegionsTranslated, OneTranslation
<1>5. CASE Renew
  BY <1>5 DEF Renew, Inv, RegionsDisjoint, RegionsTranslated, OneTranslation
<1>6. CASE UNCHANGED vars
  BY <1>6 DEF vars, Inv, RegionsDisjoint, RegionsTranslated, OneTranslation
<1> QED BY <1>1, <1>2, <1>3, <1>4, <1>5, <1>6 DEF Next

\* So it holds of every behaviour.
LEMMA InvHolds == Spec => []Inv
<1>1. Init => Inv
  BY InitInv
<1>2. Inv /\ [Next]_vars => Inv'
  BY StepInv
<1> QED BY <1>1, <1>2, PTL DEF Spec

\* Recorded regions never overlap, although MemorySet::test_free_area looks
\* at two neighbours only.
THEOREM DisjointHolds == Spec => []RegionsDisjoint
<1>1. Inv => RegionsDisjoint
  BY DEF Inv
<1> QED BY <1>1, InvHolds, PTL

\* Every page of a recorded region stays translated as its mapper says, and
\* no page has two translations, whatever fails and whatever is deleted.
THEOREM TranslationHolds == Spec => []TranslatedOnce
<1>1. Inv => TranslatedOnce
  BY DEF Inv, TranslatedOnce
<1> QED BY <1>1, InvHolds, PTL

\* A region leaves the record only together with all its translations.
THEOREM DeletedHolds == Spec => DeletedIsUnmapped
<1> DEFINE Gone == \A r \in regions \ regions' : \A v \in Pages(r) : ~ \E t \in xlate' : t[1] = v
<1>1. ASSUME Inv, Next PROVE Gone
  <2> SUFFICES ASSUME NEW r \in regions \ regions', NEW v \in Pages(r),
                      NEW t \in xlate', t[1] = v
               PROVE  FALSE
    OBVIOUS
  <2>1. Translation(r, v) \in xlate /\ Translation(r, v) \in Translations(r)
    BY <1>1 DEF Inv, RegionsTranslated, Translations
  <2>2. ~ \E s \in Inputs : Insert(s) \/ \E end \in Pages(s) : InsertFails(s, end)
    BY DEF Insert, InsertFails
  <2>3. t \in xlate /\ t \notin Translations(r)
    <3>1. ASSUME NEW s \in regions, Delete(s) PROVE t \in xlate /\ t \notin Translations(r)
      BY <3>1 DEF Delete
    <3>2. CASE Clear
      BY <3>2 DEF Clear
    <3>3. CASE Renew
      BY <3>3 DEF Renew
    <3> QED BY <1>1, <2>2, <3>1, <3>2, <3>3 DEF Next
  <2>4. t = Translation(r, v)
    BY <1>1, <2>1, <2>3 DEF Inv, OneTranslation, Translation
  <2> QED BY <2>1, <2>3, <2>4
<1>2. ASSUME Inv, [Next]_vars PROVE [Gone]_vars
  BY <1>1, <1>2
<1> HIDE DEF Gone
<1>3. Spec => [][Gone]_vars
  BY <1>2, InvHolds, PTL DEF Spec
<1> QED BY <1>3 DEF DeletedIsUnmapped, Gone

(***************************************************************************)
(* FrameAllocator.                                                         *)
(***************************************************************************)
\* The inductive invariant is the conjunction of the three.
FramesInv == FramesTypeOK /\ FramesApart /\ NothingLost

\* Before init() the bitmap is empty and no frame is out.
LEMMA FramesStart == FramesInit => FramesInv
BY PoolAssumption DEF FramesInit, FramesInv, FramesTypeOK, FramesApart, NothingLost, Index

\* Handing out a run of free frames.
LEMMA FramesAlloc ==
    ASSUME FramesInv, NEW idx \in Index, NEW count \in Nat \ {0},
           idx .. (idx + count - 1) \subseteq inner,
           inner' = inner \ (idx .. (idx + count - 1)),
           frames' = frames \cup {[start_paddr |-> idx + Base, frame_count |-> count]},
           res' = "Ok"
    PROVE  FramesInv'
<1> DEFINE new == [start_paddr |-> idx + Base, frame_count |-> count]
           run == idx .. (idx + count - 1)
<1>1. new \in Frame /\ IndicesOf(new) = run
  BY PoolAssumption DEF Index, Frame, IndicesOf
<1>2. inner' = inner \ run /\ frames' = frames \cup {new} /\ run \subseteq inner
  OBVIOUS
<1> HIDE DEF new, run
<1>3. FramesTypeOK'
  BY <1>1, <1>2 DEF FramesInv, FramesTypeOK
<1>4. \A f \in frames : IndicesOf(f) \cap run = {}
  BY <1>2 DEF FramesInv, FramesApart
<1>5. FramesApart'
  BY <1>1, <1>2, <1>4 DEF FramesInv, FramesApart
<1>6. NothingLost'
  BY <1>1, <1>2 DEF FramesInv, NothingLost
<1> QED BY <1>3, <1>5, <1>6 DEF FramesInv

\* Every step of the allocator preserves the invariant.
LEMMA FramesStep == FramesInv /\ [FramesNext]_frame_vars => FramesInv'
<1> SUFFICES ASSUME FramesInv, [FramesNext]_frame_vars PROVE FramesInv'
  OBVIOUS
<1>1. ASSUME UNCHANGED <<inner, frames>>, res' \in {"Ok", "ENOMEM"} PROVE FramesInv'
  BY <1>1 DEF FramesInv, FramesTypeOK, FramesApart, NothingLost
<1>2. CASE New
  <2>1. CASE res' = "ENOMEM" /\ UNCHANGED <<inner, frames>>
    BY <2>1, <1>1
  <2>2. ASSUME NEW idx \in inner, inner' = inner \ {idx},
               frames' = frames \cup {[start_paddr |-> idx + Base, frame_count |-> 1]},
               res' = "Ok"
        PROVE  FramesInv'
    <3>1. idx \in Index /\ idx .. (idx + 1 - 1) = {idx}
      BY PoolAssumption DEF FramesInv, FramesTypeOK, Index
    <3> QED BY <2>2, <3>1, FramesAlloc
  <2> QED BY <1>2, <2>1, <2>2 DEF New
<1>3. ASSUME NEW count \in Counts, NEW align \in Aligns, NewContiguous(count, align) PROVE FramesInv'
  <2>1. CASE res' = "ENOMEM" /\ UNCHANGED <<inner, frames>>
    BY <2>1, <1>1
  <2>2. ASSUME NEW idx \in Fits(count, align), inner' = inner \ (idx .. (idx + count - 1)),
               frames' = frames \cup {[start_paddr |-> idx + Base, frame_count |-> count]},
               res' = "Ok"
        PROVE  FramesInv'
    BY <2>2, CountAssumption, FramesAlloc DEF Fits
  <2> QED BY <1>3, <2>1, <2>2 DEF NewContiguous
<1>4. ASSUME NEW i \in Index, FromPaddr(i + Base) PROVE FramesInv'
  <2> DEFINE new == [start_paddr |-> i + Base, frame_count |-> 0]
  <2>1. new \in Frame /\ IndicesOf(new) = {}
    BY PoolAssumption DEF Index, Frame, IndicesOf
  <2>2. frames' = frames \cup {new} /\ inner' = inner /\ res' = "Ok"
    BY <1>4 DEF FromPaddr
  <2> HIDE DEF new
  <2> QED BY <2>1, <2>2 DEF FramesInv, FramesTypeOK, FramesApart, NothingLost
<1>5. ASSUME NEW f \in frames, Drop(f) PROVE FramesInv'
  <2>1. IndicesOf(f) \subseteq Index
    BY DEF FramesInv, NothingLost
  <2> QED BY <1>5, <2>1 DEF Drop, FramesInv, FramesTypeOK, FramesApart, NothingLost
<1>6. CASE UNCHANGED frame_vars
  BY <1>1, <1>6 DEF frame_vars, FramesInv, FramesTypeOK
<1> QED BY <1>2, <1>3, <1>4, <1>5, <1>6 DEF FramesNext

\* No frame has two owners or is free while it is owned, and none is lost:
\* Frame::new, new_contiguous, from_paddr and Drop in any order.
THEOREM OwnershipHolds == FramesSpec => []OwnedOnce
<1>1. FramesInit => FramesInv
  BY FramesStart
<1>2. FramesInv /\ [FramesNext]_frame_vars => FramesInv'
  BY FramesStep
<1>3. FramesInv => OwnedOnce
  BY DEF FramesInv, OwnedOnce
<1> QED BY <1>1, <1>2, <1>3, PTL DEF FramesSpec
=============================================================================
