------------------------------- MODULE Vendor -------------------------------
(***************************************************************************)
(* Whose processor the hypervisor is built for, Intel's or AMD's: the      *)
(* feature that src/src/arch/x86_64/vmm.rs picks its module vendor by.     *)
(* The modules of a virtual CPU share it.                                  *)
(***************************************************************************)
VARIABLE vendor  \* "intel" or "amd"
=============================================================================
