--------------------------- MODULE FrameAllocator ---------------------------
(***************************************************************************)
(* Physical frames and their owners (src/src/memory/frame.rs).  Every      *)
(* operation runs under the lock of FRAME_ALLOCATOR, so the order of the   *)
(* steps is the order in which the CPUs get the lock.  Addresses are in    *)
(* pages.                                                                  *)
(***************************************************************************)
EXTENDS Integers

CONSTANTS
    Base,       \* FrameAllocator.base
    PageCount,  \* number of frames given to init()
    Counts,     \* frame_count of calls of new_contiguous
    Aligns      \* 2^align_log2 of these calls

ASSUME PoolAssumption == Base \in Nat /\ PageCount \in Nat
ASSUME CountAssumption == Counts \subseteq Nat \ {0} /\ Aligns \subseteq Nat \ {0}

VARIABLES
    inner,   \* the bitmap: indices of free frames
    frames,  \* the live Frame objects
    res      \* result of the last operation

frame_vars == <<inner, frames, res>>

Index == 0 .. (PageCount - 1)
Frame == [start_paddr : Nat, frame_count : Nat]

\* The indices a Frame object stands for; none when it is from_paddr().
IndicesOf(f) == (f.start_paddr - Base) .. (f.start_paddr - Base + f.frame_count - 1)

FramesTypeOK == inner \subseteq Index /\ frames \subseteq Frame /\ res \in {"Ok", "ENOMEM"}

\* FrameAllocator::init
FramesInit == inner = Index /\ frames = {} /\ res = "Ok"

\* idx is the first index the bitmap finds.
IsFirst(idx, candidates) == \A j \in candidates : idx <= j

New ==
    \/ /\ inner = {}
       /\ res' = "ENOMEM" /\ UNCHANGED <<inner, frames>>
    \/ \E idx \in inner :
       /\ IsFirst(idx, inner)
       /\ inner' = inner \ {idx}
       /\ frames' = frames \cup {[start_paddr |-> idx + Base, frame_count |-> 1]}
       /\ res' = "Ok"

\* Mutant: the last frame of a run is not looked at.
FitsOneLess(count, align) ==
    {idx \in Index : idx % align = 0 /\ idx .. (idx + count - 2) \subseteq inner}

\* BitAlloc::alloc_contiguous: runs of free frames that start aligned.  The
\* alignment is the one of the index, not of the address.
Fits(count, align) ==
    {idx \in Index : idx % align = 0 /\ idx .. (idx + count - 1) \subseteq inner}

NewContiguous(count, align) ==
    \/ /\ Fits(count, align) = {}
       /\ res' = "ENOMEM" /\ UNCHANGED <<inner, frames>>
    \/ \E idx \in Fits(count, align) :
       /\ IsFirst(idx, Fits(count, align))
       /\ inner' = inner \ (idx .. (idx + count - 1))
       /\ frames' = frames \cup {[start_paddr |-> idx + Base, frame_count |-> count]}
       /\ res' = "Ok"

\* Frame::from_paddr borrows a frame: its count is 0.
FromPaddr(paddr) ==
    /\ frames' = frames \cup {[start_paddr |-> paddr, frame_count |-> 0]}
    /\ res' = "Ok"
    /\ UNCHANGED inner

\* Drop: dealloc or dealloc_contiguous, nothing for a borrowed frame.
Drop(f) ==
    /\ inner' = inner \cup IndicesOf(f)
    /\ frames' = frames \ {f}
    /\ res' = "Ok"

FramesNext ==
    \/ New
    \/ \E count \in Counts, align \in Aligns : NewContiguous(count, align)
    \/ \E idx \in Index : FromPaddr(idx + Base)
    \/ \E f \in frames : Drop(f)

FramesSpec == FramesInit /\ [][FramesNext]_frame_vars

-----------------------------------------------------------------------------
\* No frame has two owners, and none is free while a live Frame owns it,
\* over any sequence of allocations, borrowed frames and drops.
FramesApart ==
    \A f \in frames :
        /\ IndicesOf(f) \cap inner = {}
        /\ \A g \in frames \ {f} : IndicesOf(f) \cap IndicesOf(g) = {}

\* No frame is lost: each is free or belongs to a live Frame, and no Frame
\* reaches beyond the pool.
NothingLost == inner \cup UNION {IndicesOf(f) : f \in frames} = Index

\* Every frame of the pool is free or has one owner, over any sequence of
\* allocations, borrowed frames and drops (FrameAllocator, Drop for Frame).
OwnedOnce == FramesApart /\ NothingLost
=============================================================================
