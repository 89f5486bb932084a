CONSTANTS
    NCpu = 1
    User = {u1, u2}
    Kernel = {k1}
    Main = main
    Idle = idle
    None = none
    Calls = {"sleep", "kbd", "exit", "msleep"}
    MaxSleep = 2
    BoostPeriod = 2
    KeyCap = 1
    priority_quanta <- Quanta
SPECIFICATION FairSpec
INVARIANTS ListsMatchState 
 
