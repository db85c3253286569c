SPECIFICATION FairSpec
CONSTANTS
    c1 = c1
    c2 = c2
    c3 = c3
    CPU <- ThreeCpus
    OnlineCpus = 3
    MaxCpus = 3
    Word = 5
    EarlyErrors <- EarlyCodes
    VcpuErrors <- VcpuCodes
    EnterErrors <- None
    ExitErrors <- None
    PanicAt <- None
    MaxPanics = 0
CHECK_DEADLOCK FALSE
PROPERTIES ImplementsSwitch ErrorReachesAll
