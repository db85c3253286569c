----------------------------- MODULE GuestPtr ------------------------------
(***************************************************************************)
(* Access to guest data by guest virtual address                           *)
(* (src/src/memory/gaccess.rs).  The guest's page table is one of          *)
(* Layouts, lists of the mappings the guest has made, a mapping without    *)
(* flags being one whose entries are not present, as for a page swapped    *)
(* out; a byte of guest memory is 0 or the position in the data of the     *)
(* write that put it there.                                                *)
(***************************************************************************)
EXTENDS MemorySet, Sequences

CONSTANTS
    Types,           \* the types T: records of size_of and align_of
    Layouts,         \* sequences of regions the guest's table can hold
    TableFrames,     \* frames of the guest's tables
    Vaddrs,          \* guest addresses used
    GuestBytes,      \* physical addresses of guest memory
    MaxOps           \* operations of one behaviour

VARIABLES pt, mem, T, op, ops
vars == <<pt, mem, T, op, ops>>

Size == T.size_of
Align == T.align_of

\* The guest's table, made by the guest.
RECURSIVE GuestTable(_, _)
GuestTable(n, rs) ==
    IF rs = <<>> THEN n ELSE GuestTable(insert(n.m, n.s, Head(rs)), Tail(rs))

Query(v) == query("PT", pt.m, pt.s.root, v)

check_raw(a) ==
    CASE a = 0 -> "EFAULT"
      [] a # 0 /\ a % Align # 0 -> "EINVAL"
      [] OTHER -> "Ok"

\* Mutant: the offset in the page is forgotten.
RestWhole(v, l) == PageSize(l)

\* pg_size - pgoff: what is left of the page.
RestOfPage(v, l) == PageSize(l) - (v % PageSize(l))

\* The loop of read() and _write(): the physical addresses of the bytes
\* copied, page by page, up to the first page that is not mapped.
RECURSIVE Copied(_, _)
Copied(v, size) ==
    LET q == Query(v)
        left == RestOfPage(v, q.level)
        n == IF left < size THEN left ELSE size
        rest == Copied(v + n, size - n)
    IN  IF size = 0 THEN [res |-> "Ok", at |-> <<>>]
        ELSE IF q.res # "Ok" THEN [res |-> HvErr(q.res), at |-> <<>>]
        ELSE [res |-> rest.res, at |-> [i \in 1..n |-> q.paddr + i - 1] \o rest.at]

Checked(v) == IF check_raw(v) = "Ok" THEN Copied(v, Size) ELSE [res |-> check_raw(v), at |-> <<>>]

read(v) ==
    LET c == Checked(v)
    IN  [name |-> "read", v |-> v, res |-> c.res, at |-> c.at,
         val |-> IF c.res = "Ok" THEN [i \in 1..Size |-> mem[c.at[i]]] ELSE <<>>]

write(v) ==
    LET c == Checked(v)
    IN  [name |-> "write", v |-> v, res |-> c.res, at |-> c.at, val |-> <<>>]

\* Memory after the bytes at the addresses are written, the last one last.
Written(at) ==
    [a \in GuestBytes |->
        IF \E i \in DOMAIN at : at[i] = a
        THEN CHOOSE i \in DOMAIN at : at[i] = a /\ \A j \in DOMAIN at : at[j] = a => j <= i
        ELSE mem[a]]

\* as_ref() and as_mut(): the offset is the one in a 4K page.
as_ref(v) ==
    LET q == Query(v)
        res == CASE check_raw(v) # "Ok" -> check_raw(v)
                 [] check_raw(v) = "Ok" /\ q.res # "Ok" -> HvErr(q.res)
                 [] check_raw(v) = "Ok" /\ q.res = "Ok"
                        /\ page_offset(q.paddr) + Size > PageSize(q.level) -> "EINVAL"
                 [] OTHER -> "Ok"
    IN  [name |-> "ref", v |-> v, res |-> res, val |-> <<>>,
         at |-> IF res = "Ok" THEN [i \in 1..Size |-> q.paddr + i - 1] ELSE <<>>]

-----------------------------------------------------------------------------
Idle == [name |-> "none", v |-> 0, res |-> "Ok", at |-> <<>>, val |-> <<>>]

Init ==
    /\ \E rs \in Layouts :
          pt = LET n == NewSet("PT", [mem |-> <<>>, free |-> TableFrames]) IN GuestTable(n, rs)
    /\ mem = [a \in GuestBytes |-> 0]
    /\ T \in Types
    /\ op = Idle
    /\ ops = 0

Read == \E v \in Vaddrs : op' = read(v) /\ UNCHANGED mem
Write == \E v \in Vaddrs : op' = write(v) /\ mem' = Written(op'.at)
AsRef == \E v \in Vaddrs : op' = as_ref(v) /\ UNCHANGED mem

Next == /\ ops < MaxOps
        /\ ops' = ops + 1
        /\ UNCHANGED <<pt, T>>
        /\ Read \/ Write \/ AsRef

Spec == Init /\ [][Next]_vars

-----------------------------------------------------------------------------
\* The mapping of the guest that has the i-th byte of the data, and where the
\* byte is; the processor uses it if it is present.
Has(r, v, i) == v + i - 1 \in r.start .. (r.start + r.size - 1)
Entered(v, i) == \E r \in pt.s.regions : Has(r, v, i)
Present(v, i) == \E r \in pt.s.regions : Has(r, v, i) /\ r.flags # {}
Byte(v, i) == map_fn(CHOOSE r \in pt.s.regions : Has(r, v, i), v + i - 1)
Usable(v) == v # 0 /\ v % Align = 0

\* read() of a usable pointer returns the bytes the guest reads, whatever pages
\* they lie in, and fails if the guest has no entry for one of them.  Where an
\* entry is not present, and the guest would fault, it still takes the address
\* in the entry: query() asks is_unused() and not is_present() at the last level.
ReadSeesGuest ==
    op.name = "read" =>
        /\ Usable(op.v) /\ (\A i \in 1..Size : Present(op.v, i)) => op.res = "Ok"
        /\ op.res = "Ok" => /\ Usable(op.v)
                            /\ \A i \in 1..Size : Entered(op.v, i) /\ op.val[i] = mem[Byte(op.v, i)]

\* _write() changes bytes of the data only; if it succeeds the guest reads
\* the data back, if it fails only a leading part of it was written.
WriteReachesGuest ==
    op'.name = "write" =>
        LET v == op'.v
            n == Len(op'.at)
        IN  /\ (op'.res = "Ok") = (n = Size)
            /\ Usable(v) /\ (\A i \in 1..Size : Present(v, i)) => op'.res = "Ok"
            /\ \A i \in 1..n : /\ Entered(v, i)
                               /\ \E j \in i..n : Byte(v, j) = Byte(v, i) /\ mem'[Byte(v, i)] = j
            /\ \A a \in GuestBytes : mem'[a] # mem[a] => \E i \in 1..n : Byte(v, i) = a

\* A reference covers the bytes the guest has at the address, up to the end of
\* the page, and is given whenever the data lies in one page.  Data that crosses
\* a 4K page is refused; what lies past the end of a huge page is not, for the
\* offset compared with the size of the page is the one in 4K.
RefIsGuestData ==
    op.name = "ref" =>
        LET page == PageSize(Query(op.v).level)
            InPage(i) == (op.v + i - 1) \div page = op.v \div page
        IN  /\ Usable(op.v) /\ Present(op.v, 1) /\ InPage(Size) => op.res = "Ok"
            /\ op.res = "Ok" => \A i \in 1..Size :
                  \/ InPage(i) /\ Entered(op.v, i) /\ op.at[i] = Byte(op.v, i)
                  \/ ~ InPage(i) /\ page > PAGE_SIZE
=============================================================================
