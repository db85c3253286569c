SPECIFICATION Spec
CONSTANTS
    PAGE_SIZE = 2
    ENTRY_COUNT = 4
    MemFlag <- MemFlags
    Word = 512
    HV_BASE = 384
    PER_CPU_SIZE = 4
    SIZE_CONFIG = 3
    SIZE_REGION = 2
    SIZE_U64 = 2
    CAP = 100
    Configs <- AllConfigs
    NestedKind = "NPT"
CHECK_DEADLOCK FALSE
INVARIANTS GuestIsolated HvSeesMemory FailsCleanly TablesInPool
