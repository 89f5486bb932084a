CONSTANTS
    Desc = {1, 2, 3, 4}
    MaxPage = 5
    Pages = {1, 2}
    Flags = {rw, rx}
    NumFrames = 5
    Allowed = {"full"}
    NULL = null
    Sizes = {2040, 6000, 17000}
    heap_start = 4096
    HeapLimit = 36864
    MaxBlocks = 3
SPECIFICATION BothSpec
SYMMETRY Alike
INVARIANTS RedBlack TreeMatchesList AreasAreMapped BlocksSound
CHECK_DEADLOCK FALSE
