CONSTANTS
    Pages = 12
    FirstMap <- Memory
    KernelPage = 4
    PageUnits = 2
    Images <- Kernels
    RamdiskPages = 2
    Stack = 1
    MaxChanges = 4
    NoPage = none
    Cpu = {c0, c1}
    NoCpu = boot
    ByteBits = 2
    QwordBytes = 2
    PageBytes = 4
    LowFrames = 2
    FixedFrames = {1}
    memory_map <- HighMap
    kernel_base = 5
    kernel_frames = 1
    MaxCount = 4
    NULL = null
SPECIFICATION BothSpec
INVARIANTS MapIsTrue ImageLoaded FramesAccounted OutOfMemoryIsReal
PROPERTIES LoaderEnds ImplementsFrameSource
CHECK_DEADLOCK FALSE
