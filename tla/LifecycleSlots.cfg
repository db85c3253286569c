SPECIFICATION FairSpec
CONSTANTS
    c1 = c1
    c2 = c2
    c3 = c3
    CPU <- ThreeCpus
    OnlineCpus = 2
    MaxCpus = 2
    Word = 5
    EarlyErrors <- None
    VcpuErrors <- None
    EnterErrors <- HardwareCodes
    ExitErrors <- HardwareCodes
    PanicAt <- None
    MaxPanics = 0
CHECK_DEADLOCK FALSE
INVARIANTS SlotsAndRootCell DisableTogether
PROPERTY EnableTerminates
