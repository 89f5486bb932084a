CONSTANTS
    bsp = bsp
    a1 = a1
    a2 = a2
    dead = dead
    ApicId = {bsp, a1, a2, dead}
    Bsp = bsp
    Madt <- MCMadt
    TicketMod = 4
    NoId = NoId
SPECIFICATION FairSpec
INVARIANTS HandedOver QueueExclusive
PROPERTY SmpInitReturns
CHECK_DEADLOCK FALSE
