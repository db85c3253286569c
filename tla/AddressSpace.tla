---------------------------- MODULE AddressSpace ----------------------------
(***************************************************************************)
(* What a MemorySet promises, without page tables: a set of recorded       *)
(* regions and the translations in force.  Inserting a region adds all its *)
(* pages; an insertion that fails half way leaves the pages mapped so far  *)
(* in force although no region records them, as MemorySet::insert does     *)
(* (src/src/memory/mm.rs:83).                                              *)
(***************************************************************************)
EXTENDS MemoryRegion

CONSTANTS
    Inputs,   \* the regions a caller may insert
    Seen(_)   \* the flags a query reports for a page mapped with given flags

ASSUME InputsAssumption == Inputs \subseteq Region

VARIABLES
    regions,  \* the recorded regions (MemorySet.regions)
    xlate     \* the translations in force: <<page, frame, flags>>

vars == <<regions, xlate>>

Pages(r) == {v \in r.start .. (r.start + r.size - 1) : page_offset(v) = 0}
Translation(r, v) == <<v, map_fn(r, v), Seen(r.flags)>>
Translations(r) == {Translation(r, v) : v \in Pages(r)}
Mapped(v) == \E t \in xlate : t[1] = v

TypeOK ==
    /\ regions \subseteq Inputs
    /\ \A t \in xlate : \E r \in Inputs : t \in Translations(r)

Init == regions = {} /\ xlate = {}

\* Mutant: the region is recorded unchecked.
InsertUnchecked(r) ==
    /\ r.size > 0
    /\ regions' = regions \cup {r}
    /\ xlate' = xlate \cup Translations(r)

\* Every page of the region is free, and all of them are mapped.
Insert(r) ==
    /\ r.size > 0
    /\ test_free_area(regions, r)
    /\ \A v \in Pages(r) : ~ Mapped(v)
    /\ regions' = regions \cup {r}
    /\ xlate' = xlate \cup Translations(r)

\* map() returns an error when it comes to the page at end.
InsertFails(r, end) ==
    /\ r.size > 0
    /\ test_free_area(regions, r)
    /\ \A v \in Pages(r) : v < end => ~ Mapped(v)
    /\ regions' = regions
    /\ xlate' = xlate \cup {Translation(r, v) : v \in {p \in Pages(r) : p < end}}

\* Mutants: one page too many is unmapped; nothing is unmapped.
DeleteOneMore(r) ==
    /\ regions' = regions \ {r}
    /\ xlate' = {t \in xlate : t[1] < r.start \/ t[1] > r.start + r.size}
DeleteRecord(r) ==
    /\ regions' = regions \ {r}
    /\ UNCHANGED xlate

Delete(r) ==
    /\ regions' = regions \ {r}
    /\ xlate' = xlate \ Translations(r)

Clear ==
    /\ regions' = {}
    /\ xlate' = xlate \ UNION {Translations(r) : r \in regions}

\* The set is dropped, its tables with it, and a new one is made.
Renew == regions' = {} /\ xlate' = {}

Next ==
    \/ \E r \in Inputs : Insert(r) \/ \E end \in Pages(r) : InsertFails(r, end)
    \/ \E r \in regions : Delete(r)
    \/ Clear
    \/ Renew

Spec == Init /\ [][Next]_vars

-----------------------------------------------------------------------------
\* No two recorded regions overlap, although insert compares a new region
\* with its neighbours only (MemorySet::test_free_area).
RegionsDisjoint == \A r, s \in regions : r # s => ~ is_overlap_with(r, s)

\* Every page of a recorded region is translated as its mapper says, also
\* after other insertions failed and other regions were deleted.
RegionsTranslated == \A r \in regions : Translations(r) \subseteq xlate

\* A page has one translation.
OneTranslation == \A t, u \in xlate : t[1] = u[1] => t = u

\* Every page of a recorded region is translated as its mapper says and in no
\* other way, whatever insertions failed half way and whatever was deleted
\* (MemorySet::insert and delete).
TranslatedOnce == RegionsTranslated /\ OneTranslation

\* A recorded region leaves the record only together with its translations:
\* afterwards none of its pages is mapped (MemorySet::delete and clear).
DeletedIsUnmapped ==
    [][\A r \in regions \ regions' : \A v \in Pages(r) : ~ \E t \in xlate' : t[1] = v]_vars
=============================================================================
