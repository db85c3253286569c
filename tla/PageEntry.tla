----------------------------- MODULE PageEntry ------------------------------
(***************************************************************************)
(* Page table entries of the three tables the hypervisor builds or reads:  *)
(* "PT" is the x86 table of the hypervisor and of the guest                *)
(* (src/src/arch/x86_64/page_table.rs), "EPT" and "NPT" are the nested     *)
(* tables of Intel and AMD.  An entry is its address field and the set of  *)
(* its other bits that are set; the EPT memory type is the bit WriteBack.  *)
(***************************************************************************)

\* MemFlags is a set of these.
MemFlags == {"READ", "WRITE", "EXECUTE", "DMA", "IO", "NO_HUGEPAGES", "USER"}

If(set, name) == IF set THEN {name} ELSE {}

\* From<MemFlags> for PTF: anything but the empty set is present.
PTFofMem(f) ==
    IF f = {} THEN {}
    ELSE {"PRESENT"} \cup If("WRITE" \in f, "WRITABLE") \cup If("EXECUTE" \notin f, "NO_EXECUTE")
         \cup If("USER" \in f, "USER_ACCESSIBLE") \cup If("IO" \in f, "NO_CACHE")

\* From<PTF> for MemFlags.
MemOfPTF(b) ==
    IF b = {} THEN {}
    ELSE {"READ"} \cup If("WRITABLE" \in b, "WRITE") \cup If("NO_EXECUTE" \notin b, "EXECUTE")
         \cup If("USER_ACCESSIBLE" \in b, "USER") \cup If("NO_CACHE" \in b, "IO")

\* From<MemFlags> for EPTFlags and back.
EPTofMem(f) == f \cap {"READ", "WRITE", "EXECUTE"}
MemOfEPT(b) == b \cap {"READ", "WRITE", "EXECUTE"}

-----------------------------------------------------------------------------
\* clear() makes an entry zero, which is what is_unused() tests.
Unused == [addr |-> 0, bits |-> {}]
is_unused(e) == e = Unused
is_huge(e) == "HUGE_PAGE" \in e.bits

PT_is_present(e) == "PRESENT" \in e.bits
EPT_is_present(e) == e.bits \cap {"READ", "WRITE", "EXECUTE"} # {}

\* set_addr() followed by set_flags() on an unused entry.
PT_leaf(paddr, f, huge) ==
    [addr |-> paddr, bits |-> PTFofMem(f) \cup If(huge, "HUGE_PAGE")]
NPT_leaf(paddr, f, huge) == PT_leaf(paddr, f \cup {"USER"}, huge)
EPT_leaf(paddr, f, huge) ==
    [addr |-> paddr, bits |-> EPTofMem(f) \cup If(huge, "HUGE_PAGE") \cup {"WriteBack"}]

PT_set_table(paddr) == [addr |-> paddr, bits |-> {"PRESENT", "WRITABLE", "USER_ACCESSIBLE"}]
EPT_set_table(paddr) == [addr |-> paddr, bits |-> {"READ", "WRITE", "EXECUTE"}]

-----------------------------------------------------------------------------
\* The operations of trait GenericPTE, by the kind of table.
is_present(k, e) == IF k = "EPT" THEN EPT_is_present(e) ELSE PT_is_present(e)
flags(k, e) == IF k = "EPT" THEN MemOfEPT(e.bits) ELSE MemOfPTF(e.bits)
set_table(k, paddr) == IF k = "EPT" THEN EPT_set_table(paddr) ELSE PT_set_table(paddr)
leaf(k, paddr, f, huge) ==
    CASE k = "PT"  -> PT_leaf(paddr, f, huge)
      [] k = "NPT" -> NPT_leaf(paddr, f, huge)
      [] k = "EPT" -> EPT_leaf(paddr, f, huge)
=============================================================================
