\* One region of 400 bytes with the real header size, split threshold and
\* granule: room for three allocations, with and without a split.
CONSTANTS
    HeapStart = 4096
    HeapSize = 400
    Hdr = 29
    MinSplit = 64
    Align = 16
    Requests = {0, 20, 90}
SPECIFICATION Spec
INVARIANTS
    TypeOK
    HeapWellFormed
    NoAdjacentFree
    HeldIsAllocated
    StaleIsRejected
    FirstFitIsTheWalk
\* The machine stops for good when the double-free check halts it.
CHECK_DEADLOCK FALSE
