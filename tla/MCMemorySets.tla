--------------------------- MODULE MCMemorySets ----------------------------
(***************************************************************************)
(* Instances of MemorySets for TLC: pages of two bytes and tables of two   *)
(* entries, so 16 pages; Size2M is two pages, Size1G four.                 *)
(***************************************************************************)
EXTENDS MemorySets

RW == {"READ", "WRITE"}
Req(v, p, size, f) == [v |-> v, p |-> p, size |-> size, flags |-> f]

\* One page; a huge page at the same place; a page and a huge page; a
\* gigantic page; pages whose frames are not aligned like them; a region
\* that does not start on a page; a region without access; no huge pages.
Mixed == {Req(0, 0, 2, RW), Req(0, 0, 4, RW), Req(2, 2, 5, RW), Req(8, 0, 8, RW),
          Req(4, 6, 4, {"READ", "EXECUTE"}), Req(7, 3, 3, RW), Req(12, 12, 4, {"DMA"}),
          Req(0, 0, 8, {"READ", "NO_HUGEPAGES"})}
Few == {Req(0, 0, 2, RW), Req(0, 0, 4, RW), Req(2, 2, 6, RW), Req(16, 0, 4, {"READ", "NO_HUGEPAGES"})}
TwoRegions == {Req(0, 0, 4, RW), Req(8, 8, 2, RW)}

Frames(n) == {100 + 2 * i : i \in 1..n}

\* Frames for everything; too few of them; a clone.
AllCallers == {
    [pool |-> Frames(12), requests |-> Mixed, deletes |-> TRUE, clones |-> FALSE],
    [pool |-> Frames(6), requests |-> Few, deletes |-> TRUE, clones |-> FALSE],
    [pool |-> Frames(12), requests |-> TwoRegions, deletes |-> FALSE, clones |-> TRUE]}
=============================================================================
