---------------------------- MODULE MemoryRegion ----------------------------
(***************************************************************************)
(* Regions of an address space and the arithmetic on addresses             *)
(* (src/src/memory/mm.rs, mapper.rs, addr.rs).  Addresses are natural      *)
(* numbers.  The offset of a mapper is kept as an integer: in the code it  *)
(* is a usize that wraps when it is computed and wraps back when used.     *)
(***************************************************************************)
EXTENDS Integers

CONSTANTS
    PAGE_SIZE,  \* bytes in a page (4096 in the code, scaled down for TLC)
    MemFlag     \* the flags of MemFlags

ASSUME PageSizeAssumption == PAGE_SIZE \in Nat \ {0}

page_offset(a) == a % PAGE_SIZE
align_down(a) == a - page_offset(a)
align_up(a) == align_down(a + PAGE_SIZE - 1)

Mapper == [type : {"Offset", "Fixed"}, arg : Int]

Region == [start : Nat, size : Nat, flags : SUBSET MemFlag, mapper : Mapper]

NewRegion(start, size, flags, mapper) ==
    [start |-> align_down(start), size |-> align_up(size), flags |-> flags, mapper |-> mapper]

new_with_offset_mapper(start_vaddr, start_paddr, size, flags) ==
    NewRegion(start_vaddr, size, flags,
              [type |-> "Offset", arg |-> align_down(start_vaddr) - align_down(start_paddr)])

\* EMPTY_PAGE is a static of the image; paddr is where it lies.
new_with_empty_mapper(start, size, flags, paddr) ==
    NewRegion(start, size, flags, [type |-> "Fixed", arg |-> paddr])

map_fn(r, vaddr) == IF r.mapper.type = "Offset" THEN vaddr - r.mapper.arg ELSE r.mapper.arg

is_overlap_with(r, other) ==
    ~ (r.start + r.size <= other.start \/ r.start >= other.start + other.size)

-----------------------------------------------------------------------------
\* regions.range(..other.start).last() and regions.range(other.start..).next()
IsLastBefore(regions, b, other) ==
    /\ b.start < other.start
    /\ \A x \in regions : x.start < other.start => x.start <= b.start

IsNextAfter(regions, a, other) ==
    /\ a.start >= other.start
    /\ \A x \in regions : x.start >= other.start => x.start >= a.start

TestFreeAreaBelow(regions, other) ==
    \A b \in regions : IsLastBefore(regions, b, other) => ~ is_overlap_with(b, other)

\* Only the two neighbours of the new region are looked at.
test_free_area(regions, other) ==
    \A n \in regions :
        IsLastBefore(regions, n, other) \/ IsNextAfter(regions, n, other)
            => ~ is_overlap_with(n, other)
=============================================================================
