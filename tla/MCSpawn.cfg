CONSTANTS
    Radix = 2
    Frame = {1, 2, 3, 4, 5, 6, 7, 8, 9, 10, 11, 12, 13, 14, 15, 16, 17, 18, 19, 20, 21, 22, 23, 24, 25, 26, 27, 28, 29, 30, 31}
    Device = 99
    Task = {t1, t2}
    MaxAreas = 4
    MaxLost = 1
    NULL = null
    PageUnits = 2
    Images <- TestImages
    FixedHeap = 4
    HeapPages = 1
    StackPage = 6
    Grows = {1}
    Left = {2}
SPECIFICATION Spec
INVARIANTS TablesDisjoint AreasTranslate NoLeak ImageInPlace
CHECK_DEADLOCK FALSE
SYMMETRY Alike
