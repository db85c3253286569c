----------------------------- MODULE PageTable ------------------------------
(***************************************************************************)
(* Four-level page tables (src/src/memory/paging.rs) as operations on the  *)
(* memory that holds the tables.  A memory is a record of                  *)
(*   mem:  the contents of the frames in use as tables, by frame address,  *)
(*   free: the frames the frame allocator can still hand out.              *)
(* Levels count from 0 (p1) to 3 (p4).  A page of level 0, 1, 2 is one of  *)
(* Size4K, Size2M, Size1G.  The loops of the code are recursive operators. *)
(***************************************************************************)
EXTENDS MemoryRegion, PageEntry, FiniteSets, TLC

CONSTANT ENTRY_COUNT  \* entries of a table (512 in the code)

PageSize(l) == PAGE_SIZE * ENTRY_COUNT^l
is_aligned(l, a) == a % PageSize(l) = 0

\* p1_index .. p4_index
index(l, v) == (v \div PageSize(l)) % ENTRY_COUNT

EmptyTable == [i \in 0..(ENTRY_COUNT - 1) |-> Unused]

\* Frame::new_zero: the lowest free frame, its content zeroed.
Lowest(free) == CHOOSE f \in free : \A g \in free : f <= g

AllocTable(m) ==
    LET Take(t) == [frame |-> t, m |-> [free |-> m.free \ {t}, mem |-> (t :> EmptyTable) @@ m.mem]]
    IN  Take(Lowest(m.free))

SetEntry(m, f, l, v, e) == [m EXCEPT !.mem[f][index(l, v)] = e]

\* next_table_mut
next_table(k, e) ==
    CASE ~ is_present(k, e) -> "NotMapped"
      [] is_present(k, e) /\ is_huge(e) -> "MappedToHugePage"
      [] OTHER -> "Ok"

\* get_entry_mut: the table and level of the entry that decides on v.
RECURSIVE get_entry(_, _, _, _, _)
get_entry(k, m, f, v, l) ==
    LET At(e, next) ==
            IF l = 0 \/ (l < 3 /\ is_huge(e)) THEN [res |-> "Ok", frame |-> f, level |-> l]
            ELSE IF next # "Ok" THEN [res |-> next]
            ELSE get_entry(k, m, e.addr, v, l - 1)
        Entry(e) == At(e, next_table(k, e))
    IN  Entry(m.mem[f][index(l, v)])

query(k, m, root, v) ==
    LET Page(e, l) ==
            IF is_unused(e) THEN [res |-> "NotMapped"]
            ELSE [res |-> "Ok", paddr |-> e.addr + (v % PageSize(l)), flags |-> flags(k, e), level |-> l]
        Found(g) ==
            IF g.res # "Ok" THEN [res |-> g.res] ELSE Page(m.mem[g.frame][index(g.level, v)], g.level)
    IN  Found(get_entry(k, m, root, v, 3))

\* get_entry_mut_or_create, with next_table_mut_or_create and
\* alloc_intrm_table: missing tables are made on the way down, and stay when
\* a later one cannot be made.
RECURSIVE get_entry_or_create(_, _, _, _, _, _)
get_entry_or_create(k, m, f, v, l, to) ==
    LET Linked(new) ==
            get_entry_or_create(k, SetEntry(new.m, f, l, v, set_table(k, new.frame)), new.frame, v, l - 1, to)
        At(e, next) ==
            IF l = to THEN [res |-> "Ok", m |-> m, frame |-> f]
            ELSE IF is_unused(e) /\ m.free = {} THEN [res |-> "NoMemory", m |-> m]
            ELSE IF is_unused(e) THEN Linked(AllocTable(m))
            ELSE IF next # "Ok" THEN [res |-> next, m |-> m]
            ELSE get_entry_or_create(k, m, e.addr, v, l - 1, to)
        Entry(e) == At(e, next_table(k, e))
    IN  Entry(m.mem[f][index(l, v)])

map_page(k, m, root, v, l, paddr, f) ==
    LET Found(g) ==
            IF g.res # "Ok" THEN [res |-> g.res, m |-> g.m]
            ELSE IF ~ is_unused(g.m.mem[g.frame][index(l, v)]) THEN [res |-> "AlreadyMapped", m |-> g.m]
            ELSE [res |-> "Ok", m |-> SetEntry(g.m, g.frame, l, v,
                                               leaf(k, paddr - (paddr % PageSize(l)), f, l > 0))]
    IN  Found(get_entry_or_create(k, m, root, v, 3, l))

unmap_page(k, m, root, v) ==
    LET Found(g) ==
            IF g.res # "Ok" THEN [res |-> g.res, m |-> m]
            ELSE IF is_unused(m.mem[g.frame][index(g.level, v)]) THEN [res |-> "NotMapped", m |-> m]
            ELSE [res |-> "Ok", m |-> SetEntry(m, g.frame, g.level, v, Unused), level |-> g.level]
    IN  Found(get_entry(k, m, root, v, 3))

\* Mutant: huge pages without a look at the remaining size.
PageLevelAnySize(r, v, size) ==
    LET fits(l) == is_aligned(l, v) /\ is_aligned(l, map_fn(r, v)) /\ "NO_HUGEPAGES" \notin r.flags
    IN  IF fits(2) THEN 2 ELSE IF fits(1) THEN 1 ELSE 0

\* The largest page that fits.
PageLevel(r, v, size) ==
    LET fits(l) == /\ is_aligned(l, v) /\ is_aligned(l, map_fn(r, v))
                   /\ size >= PageSize(l)
                   /\ "NO_HUGEPAGES" \notin r.flags
    IN  IF fits(2) THEN 2 ELSE IF fits(1) THEN 1 ELSE 0

\* The loop of map(): stops at the first error and undoes nothing.
RECURSIVE map(_, _, _, _, _, _)
map(k, m, root, r, v, size) ==
    LET Mapped(p, l) ==
            IF p.res # "Ok" THEN p ELSE map(k, p.m, root, r, v + PageSize(l), size - PageSize(l))
        Page(l) == Mapped(map_page(k, m, root, v, l, map_fn(r, v), r.flags), l)
    IN  IF size = 0 THEN [res |-> "Ok", m |-> m] ELSE Page(PageLevel(r, v, size))

\* Mutant: off by one in the second assertion.
RECURSIVE UnmapStrict(_, _, _, _, _)
UnmapStrict(k, m, root, v, size) ==
    LET Unmapped(p) ==
            IF p.res # "Ok" THEN p
            ELSE IF ~ is_aligned(p.level, v) \/ PageSize(p.level) >= size THEN [res |-> "panic", m |-> p.m]
            ELSE UnmapStrict(k, p.m, root, v + PageSize(p.level), size - PageSize(p.level))
    IN  IF size = 0 THEN [res |-> "Ok", m |-> m] ELSE Unmapped(unmap_page(k, m, root, v))

\* The loop of unmap(), with its two assertions.
RECURSIVE unmap(_, _, _, _, _)
unmap(k, m, root, v, size) ==
    LET Unmapped(p) ==
            IF p.res # "Ok" THEN p
            ELSE IF ~ is_aligned(p.level, v) \/ PageSize(p.level) > size THEN [res |-> "panic", m |-> p.m]
            ELSE unmap(k, p.m, root, v + PageSize(p.level), size - PageSize(p.level))
    IN  IF size = 0 THEN [res |-> "Ok", m |-> m] ELSE Unmapped(unmap_page(k, m, root, v))
=============================================================================
