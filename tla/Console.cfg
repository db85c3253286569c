SPECIFICATION ConsoleSpec
CONSTANTS
    Cpu = {c1, c2}
    NoCpu = NoCpu
    Records <- Texts
    Levels = {0, 3}
    MaxEvents = 3
    Speeds <- Rates
CHECK_DEADLOCK FALSE
INVARIANTS LockNotLeftBehind TextsWhole ReadyAtSpeed
PROPERTY EveryTextComesOut
