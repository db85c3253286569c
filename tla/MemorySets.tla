----------------------------- MODULE MemorySets -----------------------------
(***************************************************************************)
(* A MemorySet, and perhaps clones of it, under every sequence of calls.   *)
(***************************************************************************)
EXTENDS MemorySet

CONSTANTS
    Kind,      \* "PT", "EPT" or "NPT"
    Original,  \* the name of the set that is made with new()
    Clone,     \* the name of the set that is made with clone()
    Callers    \* what the callers do, records of
               \*   pool:     the frames of the frame allocator, by address
               \*   requests: the arguments [v, p, size, flags] of insertions
               \*   deletes:  whether regions are deleted
               \*   clones:   whether the set is cloned

NoSet == [kind |-> "none", root |-> 0, intrm |-> {}, regions |-> {}]

VARIABLES
    by,        \* the member of Callers, chosen once
    m,         \* the memory with the page tables
    set,       \* the sets by name
    res        \* result of the last operation

vars == <<by, m, set, res>>

Name == {Original, Clone}
Live == {n \in Name : set[n] # NoSet}
RegionOf(q) == new_with_offset_mapper(q.v, q.p, q.size, q.flags)
Space == {v \in 0 .. (PAGE_SIZE * ENTRY_COUNT^4 - 1) : page_offset(v) = 0}

Init ==
    /\ by \in Callers
    /\ m = [free |-> by.pool, mem |-> <<>>]
    /\ set = [n \in Name |-> NoSet]
    /\ res = "Ok"

\* A panic ends it.
Running == res # "panic"

New ==
    /\ Running /\ set[Original] = NoSet
    /\ LET o == NewSet(Kind, m) IN
         /\ m' = o.m /\ res' = o.res
         /\ set' = IF o.res = "Ok" THEN [set EXCEPT ![Original] = o.s] ELSE set

Insert(n, q) ==
    /\ Running /\ n \in Live
    /\ LET o == insert(m, set[n], RegionOf(q)) IN
         m' = o.m /\ res' = o.res /\ set' = [set EXCEPT ![n] = o.s]

Delete(n, start) ==
    /\ Running /\ n \in Live /\ by.deletes
    /\ LET o == delete(m, set[n], start) IN
         m' = o.m /\ res' = o.res /\ set' = [set EXCEPT ![n] = o.s]

Clear(n) ==
    /\ Running /\ n \in Live /\ by.deletes
    /\ LET o == clear(m, set[n]) IN
         m' = o.m /\ res' = o.res /\ set' = [set EXCEPT ![n] = o.s]

MakeClone ==
    /\ Running /\ by.clones /\ Clone \notin Live /\ Original \in Live
    /\ LET o == clone(m, set[Original]) IN
         /\ m' = o.m /\ res' = o.res
         /\ set' = IF o.res = "Ok" THEN [set EXCEPT ![Clone] = o.s] ELSE set

\* Dropping a clone clears the tables it shares with the original, so the
\* two are not dropped while both are in use.
Drop(n) ==
    /\ Running /\ Live = {n}
    /\ LET o == drop(m, set[n]) IN
         /\ m' = o.m /\ res' = o.res
         /\ set' = IF o.res = "Ok" THEN [set EXCEPT ![n] = NoSet] ELSE set

Next ==
    /\ UNCHANGED by
    /\ \/ New
       \/ MakeClone
       \/ \E n \in Name : \/ \E q \in by.requests : Insert(n, q)
                          \/ \E q \in by.requests : Delete(n, q.v)
                          \/ Clear(n)
                          \/ Drop(n)

Spec == Init /\ [][Next]_vars

-----------------------------------------------------------------------------
Query(n, v) == query(set[n].kind, m, set[n].root, v)

\* Every address asked for with an insertion that succeeded is translated as
\* asked, in the set and in a clone, whatever failed or was deleted before and
\* after.  Start and size are aligned separately (MemoryRegion::new), so this
\* is only promised when the request starts on a page and to a page; see
\* RegionsTranslated for the rest.
AskedIsMapped ==
    \A n \in Live, q \in by.requests :
        RegionOf(q) \in set[n].regions /\ page_offset(q.v) = 0 /\ page_offset(q.p) = 0 =>
            \A a \in q.v .. (q.v + q.size - 1) :
                Query(n, a).res = "Ok" /\ Query(n, a).paddr = q.p + (a - q.v)

\* Every frame that is not free belongs to a set, and in a set that is not
\* cloned the tables hang together as a tree, so that dropping the set returns
\* all of them and frees nothing that is still in use (PageTable.intrm_tables).
TableEntries(n) ==
    {<<f, i>> \in ({set[n].root} \cup set[n].intrm) \X (0..(ENTRY_COUNT - 1)) :
        m.mem[f][i].addr \in by.pool}
FramesOwnedOnce ==
    /\ DOMAIN m.mem = UNION {{set[n].root} \cup set[n].intrm : n \in Live}
    /\ ~ by.clones => \A n \in Live :
        /\ set[n].root \notin set[n].intrm
        /\ {m.mem[e[1]][e[2]].addr : e \in TableEntries(n)} = set[n].intrm
        /\ Cardinality(TableEntries(n)) = Cardinality(set[n].intrm)

\* unwrap() in MemorySet::clear and the assertions of unmap() never fail; the
\* only panic is the one for want of a frame for a top table.
NoPanic == res = "panic" => m.free = {}

\* The page tables of a set that is not cloned implement AddressSpace:
\* neighbours, huge pages, partly mapped regions and left-over tables included.
SeenBy(f) == flags(Kind, leaf(Kind, PAGE_SIZE, f, FALSE))
Alone == Original \in Live /\ ~ by.clones
Recorded == IF Alone THEN set[Original].regions ELSE {}
Xlate ==
    LET q == [v \in Space |-> Query(Original, v)]
    IN  IF ~ Alone THEN {}
        ELSE {<<v, q[v].paddr, q[v].flags>> : v \in {a \in Space : q[a].res = "Ok"}}
A == INSTANCE AddressSpace WITH regions <- Recorded, xlate <- Xlate,
        Inputs <- {RegionOf(q) : q \in UNION {c.requests : c \in Callers}}, Seen <- SeenBy
ImplementsAddressSpace == A!Spec
=============================================================================
