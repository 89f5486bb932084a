CONSTANTS
    NCpu = 2
    User = {u1, u2}
    Kernel = {}
    Main = main
    Idle = idle
    None = none
    Calls = {"sleep"}
    MaxSleep = 1
    BoostPeriod = 1
    KeyCap = 1
    priority_quanta <- Quanta
SPECIFICATION FairSpec
INVARIANTS StackShared OneOwner
PROPERTIES NoStarvation SleepersWake
