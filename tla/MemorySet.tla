----------------------------- MODULE MemorySet ------------------------------
(***************************************************************************)
(* Operations of MemorySet (src/src/memory/mm.rs) on a memory m of         *)
(* PageTable.  A set is a record of                                        *)
(*   kind:    whose page table entries it uses,                            *)
(*   root:    the frame of the top table,                                  *)
(*   intrm:   the frames of the tables below that it owns,                 *)
(*   regions: the recorded regions.                                        *)
(* Each operation returns the result, the memory and the set.              *)
(***************************************************************************)
EXTENDS PageTable

\* From<PagingError> for HvError.
HvErr(e) == CASE e = "NoMemory" -> "ENOMEM" [] e \in {"Ok", "panic"} -> e [] OTHER -> "EFAULT"

\* MemorySet::new, Level4PageTable::new: no frame for the root is a panic.
NewSet(k, m) ==
    LET Rooted(a) == [res |-> "Ok", m |-> a.m,
                      s |-> [kind |-> k, root |-> a.frame, intrm |-> {}, regions |-> {}]]
    IN  IF m.free = {} THEN [res |-> "panic", m |-> m, s |-> <<>>] ELSE Rooted(AllocTable(m))

\* Mutant: tables made by a failed map() are not kept track of.
InsertForgetsTables(m, s, r) ==
    LET Mapped(p, owned) ==
            IF p.res # "Ok" THEN [res |-> HvErr(p.res), m |-> p.m, s |-> s]
            ELSE [res |-> "Ok", m |-> p.m, s |-> [s EXCEPT !.intrm = owned, !.regions = @ \cup {r}]]
        Owning(p) == Mapped(p, s.intrm \cup (m.free \ p.m.free))
    IN  IF r.size = 0 THEN [res |-> "Ok", m |-> m, s |-> s]
        ELSE IF ~ test_free_area(s.regions, r) THEN [res |-> "EINVAL", m |-> m, s |-> s]
        ELSE Owning(map(s.kind, m, s.root, r, r.start, r.size))

\* A failed insertion keeps the pages mapped so far, and their tables.
insert(m, s, r) ==
    LET Mapped(p, owned) ==
            IF p.res # "Ok" THEN [res |-> HvErr(p.res), m |-> p.m, s |-> [s EXCEPT !.intrm = owned]]
            ELSE [res |-> "Ok", m |-> p.m, s |-> [s EXCEPT !.intrm = owned, !.regions = @ \cup {r}]]
        Owning(p) == Mapped(p, s.intrm \cup (m.free \ p.m.free))
    IN  IF r.size = 0 THEN [res |-> "Ok", m |-> m, s |-> s]
        ELSE IF ~ test_free_area(s.regions, r) THEN [res |-> "EINVAL", m |-> m, s |-> s]
        ELSE Owning(map(s.kind, m, s.root, r, r.start, r.size))

delete(m, s, start) ==
    LET Unmapped(u, r) ==
            IF u.res # "Ok" THEN [res |-> HvErr(u.res), m |-> u.m, s |-> s]
            ELSE [res |-> "Ok", m |-> u.m, s |-> [s EXCEPT !.regions = @ \ {r}]]
        Remove(r) == Unmapped(unmap(s.kind, m, s.root, r.start, r.size), r)
    IN  IF ~ \E x \in s.regions : x.start = start THEN [res |-> "EINVAL", m |-> m, s |-> s]
        ELSE Remove(CHOOSE x \in s.regions : x.start = start)

\* unmap(region).unwrap() for all regions, in the order of the BTreeMap.
RECURSIVE unmap_all(_, _, _)
unmap_all(m, s, rs) ==
    LET Unmapped(u, r) ==
            IF u.res # "Ok" THEN [res |-> "panic", m |-> u.m] ELSE unmap_all(u.m, s, rs \ {r})
        First(r) == Unmapped(unmap(s.kind, m, s.root, r.start, r.size), r)
    IN  IF rs = {} THEN [res |-> "Ok", m |-> m]
        ELSE First(CHOOSE x \in rs : \A y \in rs : x.start <= y.start)

clear(m, s) ==
    LET Unmapped(u) == [res |-> u.res, m |-> u.m, s |-> [s EXCEPT !.regions = {}]]
    IN  Unmapped(unmap_all(m, s, s.regions))

\* Drop of MemorySet, then of its page table: the frames go back.
drop(m, s) ==
    LET owned == {s.root} \cup s.intrm
        Cleared(c) ==
            IF c.res # "Ok" THEN [res |-> c.res, m |-> c.m]
            ELSE [res |-> "Ok",
                  m |-> [free |-> c.m.free \cup owned,
                         mem |-> [f \in DOMAIN c.m.mem \ owned |-> c.m.mem[f]]]]
    IN  Cleared(clear(m, s))

\* Mutant: the entries of the top table are not copied.
CloneBare(m, s) ==
    LET Copy(n) == IF n.res # "Ok" THEN n
                   ELSE [res |-> "Ok", m |-> n.m, s |-> [n.s EXCEPT !.regions = s.regions]]
    IN  Copy(NewSet(s.kind, m))

\* MemorySet::clone, Level4PageTable::clone_from: a new top table with the
\* same entries; the tables below are shared and belong to the original.
clone(m, s) ==
    LET Copy(n) == IF n.res # "Ok" THEN n
                   ELSE [res |-> "Ok", m |-> [n.m EXCEPT !.mem[n.s.root] = m.mem[s.root]],
                         s |-> [n.s EXCEPT !.regions = s.regions]]
    IN  Copy(NewSet(s.kind, m))
=============================================================================
