CONSTANTS
    cache_sizes = {1024, 2048}
    Request = {1024, 1025}
    Frames = {1, 2, 3}
    Cpu = {c0, c1}
    Size = {258, 315, 625}
    NumFrames = 5
    Taken = {2}
    NULL = null
    NoSlab = no_slab
SPECIFICATION Spec
SYMMETRY Alike
INVARIANTS SlabsSound BlocksTile
CHECK_DEADLOCK FALSE
