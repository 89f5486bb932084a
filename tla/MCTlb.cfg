CONSTANTS
    Cpu = {c0, c1}
    Bsp = c0
    Task = {t1, t2}
    Kernel = k
    Page = {p1}
    Frame = {f1, f2}
    Boot = b
    NULL = null
SPECIFICATION FairSpec
INVARIANTS   StaleHasIpi
PROPERTIES UnmapReturns
