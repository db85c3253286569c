SPECIFICATION VcpuSpec
CONSTANTS
    MaxWrites = 2
    Roots = {2, 3}
    MaxRounds = 3
    MaxExits = 2
    Cr0 <- MCCr0
    Cr4 <- MCCr4
    FixedCr0 <- MCFixedCr0
    FixedCr4 <- MCFixedCr4
    LinuxCr0 <- MCLinuxCr0
    LinuxCr4 <- MCLinuxCr4
    GRAN = 16
    LinuxTables <- MCLinuxTables
    LinuxLdt <- MCLdt
    Selectors <- MCSelectors
    MaxSwitches = 2
CHECK_DEADLOCK FALSE
INVARIANTS RegistersSwitched LinuxGoesOn RefusedUntouched ControlsAsAsked NothingStale CrAsGuestWrote SegmentsKept
