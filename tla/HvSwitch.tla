------------------------------ MODULE HvSwitch ------------------------------
(***************************************************************************)
(* What enabling and disabling promise to Linux, without counters, waiting *)
(* loops or error codes: the CPUs become guests together or not at all,    *)
(* and leave together.                                                     *)
(***************************************************************************)
CONSTANT CPU

VARIABLE mode

\* A CPU is in Linux on the bare machine, has its vCPU ready, runs Linux as
\* a guest, has asked to leave, has left, or was sent back with an error.
Mode == {"linux", "ready", "guest", "leaving", "left", "refused"}

Init == mode = [c \in CPU |-> "linux"]

Become(c, from, to) ==
    /\ mode[c] = from
    /\ mode' = [mode EXCEPT ![c] = to]

Ready(c) == Become(c, "linux", "ready")

\* A CPU that is not ready may fail; one that is ready is sent back only
\* because another one failed.
Refuse(c) ==
    \/ Become(c, "linux", "refused")
    \/ Become(c, "ready", "refused") /\ \E d \in CPU : mode[d] = "refused"

Join(c) ==
    /\ Become(c, "ready", "guest")
    /\ \A d \in CPU : mode[d] \in {"ready", "guest"}

Ask(c) ==
    /\ Become(c, "guest", "leaving")
    /\ \A d \in CPU : mode[d] \in {"guest", "leaving"}

Leave(c) ==
    /\ Become(c, "leaving", "left")
    /\ \A d \in CPU : mode[d] \in {"leaving", "left"}

\* A fresh image is loaded.
Reset ==
    /\ \A c \in CPU : mode[c] \in {"left", "refused"}
    /\ mode' = [c \in CPU |-> "linux"]

Next ==
    \/ \E c \in CPU : Ready(c) \/ Refuse(c) \/ Join(c) \/ Ask(c) \/ Leave(c)
    \/ Reset

Spec == Init /\ [][Next]_mode
=============================================================================
