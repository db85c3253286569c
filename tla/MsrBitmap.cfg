SPECIFICATION Spec
CONSTANT HighMsrs = 49152
INVARIANT MaskedMsrsExit
CHECK_DEADLOCK FALSE
