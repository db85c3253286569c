----------------------------- MODULE MsrBitmap ------------------------------
(***************************************************************************)
(* The MSR bitmap of Intel VMX (src/src/arch/x86_64/intel/structs.rs).     *)
(* The page is the set of the numbers of its bits that are set; one step   *)
(* masks one MSR of the list in MsrBitmap::default().                      *)
(***************************************************************************)
EXTENDS Integers, Sequences, SequencesExt

CONSTANT HighMsrs  \* first high MSR (16#C0000000 in the code, scaled)

KBits == 8 * 1024  \* bits of one bitmap

\* The bits of the four bitmaps that the processor looks at (Intel SDM).
BitOf(msr, is_write) ==
    (msr % KBits) + (IF msr >= HighMsrs THEN KBits ELSE 0) + (IF is_write THEN 2 * KBits ELSE 0)

\* page[msr_byte] &= 1 << msr_bit: of the byte only the bit itself can stay.
mask(page, msr, is_write) ==
    LET bit == BitOf(msr, is_write)
        byte == {b \in page : b \div 8 = bit \div 8}
    IN  (page \ byte) \cup (byte \cap {bit})

mask_range(first, last, is_write) ==
    [i \in 1..(last - first + 1) |-> [msr |-> first + i - 1, w |-> is_write]]

\* The calls of MsrBitmap::default(), the numbers in decimal.
Reads == FoldLeft(LAMBDA s, r : s \o mask_range(r[1], r[2], FALSE), <<>>,
    << <<631, 631>>, <<767, 767>>, <<2050, 2051>>, <<2056, 2056>>, <<2058, 2058>>, <<2061, 2061>>,
       <<2063, 2063>>, <<2064, 2087>>, <<2088, 2088>>, <<2095, 2096>>, <<2098, 2105>>, <<2110, 2110>> >>)
Writes == FoldLeft(LAMBDA s, r : s \o mask_range(r[1], r[2], TRUE), <<>>,
    << <<27, 27>>, <<512, 631>>, <<631, 631>>, <<767, 767>>, <<911, 911>>, <<3200, 3471>>,
       <<2056, 2056>>, <<2059, 2059>>, <<2063, 2063>>, <<2088, 2088>>, <<2095, 2096>>,
       <<2098, 2105>>, <<2110, 2110>> >>)
Calls == Reads \o Writes

VARIABLES page, done
vars == <<page, done>>

\* AlignedPage::new() is zero.
Init == page = {} /\ done = 0

Mask == /\ done < Len(Calls)
        /\ done' = done + 1
        /\ page' = mask(page, Calls[done + 1].msr, Calls[done + 1].w)

Next == Mask
Spec == Init /\ [][Next]_vars

\* mask() is to set the bit of the MSR in its bitmap, so that the access
\* leaves the guest: once mask(msr) ran, its bit is set.
MaskedMsrsExit == \A i \in 1..done : BitOf(Calls[i].msr, Calls[i].w) \in page
=============================================================================
