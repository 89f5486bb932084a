CONSTANTS
    Cpu = {c0, c1, c2}
    Bsp = c0
    NoCpu = none
    TicketMod = 4
    main = main
    Task = {main, u1, u2}
    Movable = {u1, u2}
    base_priority <- Base
    priority_quanta <- Quanta
    Remote = {r1}
    Body = body
    Tick = tick
    NULL = null
SPECIFICATION BothSpec
INVARIANTS MutualExclusion QueueIntact
PROPERTIES ImplementsFifo StarvationFree ScheduleReturns
CHECK_DEADLOCK FALSE
