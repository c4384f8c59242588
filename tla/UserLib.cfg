SPECIFICATION Spec
CONSTANTS
    StdinSize = 3
    Limit <- MCLimit
    Lens = {0, 1, 2}
    MaxParts = 2
    MaxBytes = 4
    PageSize = 2
    PoolPages = 2
    ImageEnd = 5
    HeapTop = 7
    Word = 8
    MapSizes = {0, 1, 3, 7}
    MaxMaps = 2
INVARIANTS OutputReported NothingDropped InputInOrder MapsDisjoint
CHECK_DEADLOCK FALSE
