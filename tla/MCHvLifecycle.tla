--------------------------- MODULE MCHvLifecycle ---------------------------
(***************************************************************************)
(* Instances of HvLifecycle for TLC.                                       *)
(***************************************************************************)
EXTENDS HvLifecycle

CONSTANTS c1, c2, c3

TwoCpus == {c1, c2}
ThreeCpus == {c1, c2, c3}

None == {}
EarlyCodes == {EINVAL}
VcpuCodes == {EIO}
HardwareCodes == {EIO}

\* Where panics arise: before PerCpu::init is done, and while handling a VM
\* exit.
PanicPlaces == {"early", "init", "vcpu", "guest"}
=============================================================================
