------------------------------ MODULE MCMemory ------------------------------
(***************************************************************************)
(* Three parts of src/src/memory for TLC: the frame allocator, the record  *)
(* of regions and the pointers to guest data.  They share no state, so     *)
(* each is explored while the others rest.  Pages have four bytes and      *)
(* tables two entries: Size2M is 8 bytes and Size1G is 16.                 *)
(***************************************************************************)
EXTENDS AddressSpace, FrameAllocator

VARIABLES part, pt, mem, T, op, ops

guest_vars == <<pt, mem, T, op, ops>>
memory_vars == <<part, vars, frame_vars, guest_vars>>

-----------------------------------------------------------------------------
\* FrameAllocator: five frames, runs of one to three frames.
RunLengths == {1, 2, 3}
RunAligns == {1, 2}

\* AddressSpace: page aligned regions of up to three pages in six pages,
\* with both kinds of mappers.
Starts == {0, 4, 8, 12}
SmallRegions ==
    {new_with_offset_mapper(v, p, n, {"READ"}) : v \in Starts, p \in {0, 4}, n \in {0, 4, 12}}
    \cup {new_with_empty_mapper(v, 8, {"READ"}, 20) : v \in {0, 8}}
SameFlags(f) == f

\* GuestPtr: 4K pages in reverse order; two huge pages swapped, then a hole;
\* a huge page between 4K pages; two addresses of one page; a gigantic page; a
\* 4K page and a huge page that are not present.
\* Data of four bytes fits in a page, data of six does not.
RW == {"READ", "WRITE"}
Small == {"READ", "WRITE", "NO_HUGEPAGES"}
GuestMap(v, p, size, f) == new_with_offset_mapper(v, p, size, f)
Layouts == {
    <<GuestMap(0, 12, 4, Small), GuestMap(4, 8, 4, Small), GuestMap(8, 4, 4, Small),
      GuestMap(12, 0, 4, Small)>>,
    <<GuestMap(0, 8, 8, RW), GuestMap(8, 0, 8, RW), GuestMap(24, 16, 4, RW)>>,
    <<GuestMap(4, 20, 4, RW), GuestMap(8, 8, 8, RW), GuestMap(16, 0, 4, RW)>>,
    <<GuestMap(4, 4, 4, RW), GuestMap(8, 4, 4, Small), GuestMap(12, 8, 4, RW)>>,
    <<GuestMap(0, 16, 16, RW), GuestMap(16, 4, 4, RW)>>,
    <<GuestMap(4, 20, 4, RW), GuestMap(8, 12, 4, {}), GuestMap(12, 0, 4, Small)>>,
    <<GuestMap(8, 16, 8, {}), GuestMap(16, 4, 4, RW)>> }
Types == {[size_of |-> 4, align_of |-> 2], [size_of |-> 6, align_of |-> 2]}
TableFrames == {100 + 4 * i : i \in 1..12}
Vaddrs == 0..27
GuestBytes == 0..39
MaxOps == 2
ENTRY_COUNT == 2

G == INSTANCE GuestPtr

-----------------------------------------------------------------------------
MemoryInit ==
    /\ Init /\ FramesInit
    /\ \/ part = "guest" /\ G!Init
       \/ /\ part \in {"frames", "regions"}
          /\ pt = <<>> /\ mem = <<>> /\ T = <<>> /\ op = G!Idle /\ ops = 0

MemoryNext ==
    /\ UNCHANGED part
    /\ \/ part = "frames" /\ FramesNext /\ UNCHANGED <<vars, guest_vars>>
       \/ part = "regions" /\ Next /\ UNCHANGED <<frame_vars, guest_vars>>
       \/ part = "guest" /\ G!Next /\ UNCHANGED <<vars, frame_vars>>

MemorySpec == MemoryInit /\ [][MemoryNext]_memory_vars

-----------------------------------------------------------------------------
\* Data of the guest is reached where the guest's mappings have it, whatever
\* pages it lies in: read() returns the bytes the guest reads and fails only if
\* one of them is not present, _write() changes no others and only a leading part
\* if it fails, and a reference covers the bytes the guest has, up to the end of
\* a huge page (GuestPtr::read, _write, as_ref, Level4PageTableImmut::query).
GuestDataReached ==
    [][G!ReadSeesGuest' /\ G!RefIsGuestData' /\ G!WriteReachesGuest]_memory_vars
=============================================================================
