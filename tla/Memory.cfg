SPECIFICATION MemorySpec
CONSTANTS
    PAGE_SIZE = 4
    MemFlag = {"READ", "WRITE", "EXECUTE", "DMA", "IO", "NO_HUGEPAGES", "USER"}
    Inputs <- SmallRegions
    Seen <- SameFlags
    Base = 3
    PageCount = 5
    Counts <- RunLengths
    Aligns <- RunAligns
CHECK_DEADLOCK FALSE
INVARIANTS OwnedOnce RegionsDisjoint TranslatedOnce
PROPERTIES DeletedIsUnmapped GuestDataReached
