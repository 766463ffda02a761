\* Three nodes besides the root, so that a third child meets the limit of two,
\* three names, and files of up to three bytes, written one or two at a time,
\* in buffers of one, two and the limit of three.
CONSTANTS
    n0 = n0
    n1 = n1
    n2 = n2
    n3 = n3
    NULL = NULL
    root = n0
    Node = {n0, n1, n2, n3}
    Names = {"a", "b", "c"}
    Bytes = {"x", "y"}
    ZERO = ZERO
    Payloads <- MCPayloads
    RAMFS_MAX_CHILDREN = 2
    RAMFS_MAX_FILESIZE = 3
    RAMFS_INITIAL_CAP = 1
SPECIFICATION RamfsSpec
SYMMETRY MCSymmetry
INVARIANTS
    RamfsTypeOK
    TreeOK
    BuffersHoldTheirFiles
    NothingLeaks
PROPERTY RefinesFileTree
