SPECIFICATION ExitSpec
CONSTANTS
    U32 = 16
    FeatureInfo = 1
    HypervisorInfo = 4
    HypervisorFeatures = 5
    AmdFeatureInfo = 8
    HwFeature <- Reported
    Inputs = {0, 1, 4, 5, 7, 8, 16, 17, 22}
    MaxExits = 2
    ExitFails = {"intel"}
    Codes = {0, 5}
    Lengths = {1, 2}
CHECK_DEADLOCK FALSE
INVARIANTS AdvancedOnce HypercallsAsDefined InstructionsAsEmulated ExitMakesProgress DeliveredAsAsked
