SPECIFICATION Spec
CONSTANTS
    c1 = c1
    c2 = c2
    c3 = c3
    CPU <- TwoCpus
    OnlineCpus = 2
    MaxCpus = 2
    Word = 5
    EarlyErrors <- None
    VcpuErrors <- VcpuCodes
    EnterErrors <- None
    ExitErrors <- None
    PanicAt <- None
    MaxPanics = 0
CHECK_DEADLOCK FALSE
INVARIANTS
    ReturnsInLinuxContext
