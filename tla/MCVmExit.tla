------------------------------ MODULE MCVmExit ------------------------------
(***************************************************************************)
(* VmExit for TLC, on processors of both vendors, and beside it            *)
(* EventInjection.  The two share no state: each is explored while the     *)
(* other rests.                                                            *)
(***************************************************************************)
EXTENDS VmExit, EventInjection

VARIABLE part

all_vars == <<part, vars, event_vars>>

Reported == [intel |-> {"VMX", "OSXSAVE", "AVX", "unlisted"}, amd |-> {"SVM", "AVX", "unlisted"}]

ExitInit ==
    /\ Init /\ EventInit
    /\ \/ part = "exits" /\ exit_fields = [error |-> 0, length |-> 1]
       \/ part = "events" /\ vendor = "intel"

ExitNext ==
    /\ UNCHANGED part
    /\ \/ part = "exits" /\ Next /\ UNCHANGED event_vars
       \/ part = "events" /\ EventNext /\ UNCHANGED vars

ExitSpec == ExitInit /\ [][ExitNext]_all_vars
=============================================================================
