SPECIFICATION MemorySpec
CONSTANTS
    Procs = {p1, p2, p3}
    NoProc = NoProc
    MaxPage = 5
    MaxHeap = 1
    GrandForks = FALSE
    Untidy = FALSE
    Bounds <- MCBounds
    MinSize = 2
    Page = 4
    MinGrow = 8
    Sizes = {1, 3, 6}
    MaxSize = 24
SYMMETRY Symmetry
INVARIANTS
    LiveMemoryIsAllocated
    OnlyFamilyWrites
    FreeSpaceIndexed
PROPERTY HeapPromise
