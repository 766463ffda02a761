\* The boot on every memory map of MCVmm, then callers that take, map, unmap
\* and give back frames.  Page 30 is beyond the direct map of the small maps.
CONSTANTS
    PAGE_SIZE = 2
    ByteBits = 4
    Memmaps <- MCMemmaps
    Fanout <- MCFanout
    HhdmBase = 0
    KernelVirt = 32
    KernelPhys = 0
    KernelPages = 2
    HeapVirt = 56
    HeapPages = 2
    ClientVirt <- MCClientVirt
SPECIFICATION Spec
INVARIANTS
    CountMatchesBitmap
    FreeIsUsableAndUnclaimed
    FramesHaveOneOwner
    TranslationIsTheLastMap
    KernelSeesItsMemory
    HeapIsBacked
\* The machine stops for good when it faults or has no room for its bitmap.
CHECK_DEADLOCK FALSE
