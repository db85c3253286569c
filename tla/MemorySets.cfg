SPECIFICATION Spec
CONSTANTS
    PAGE_SIZE = 2
    ENTRY_COUNT = 2
    MemFlag <- MemFlags
    Kind = "EPT"
    Original = "orig"
    Clone = "clone"
    Callers <- AllCallers
CHECK_DEADLOCK FALSE
INVARIANTS NoPanic AskedIsMapped FramesOwnedOnce
PROPERTY ImplementsAddressSpace
