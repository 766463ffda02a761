\* Two nodes besides the root and one file to type.
CONSTANTS
    n0 = n0
    n1 = n1
    n2 = n2
    NULL = NULL
    root = n0
    Node = {n0, n1, n2}
    fat_root = fat_root
    Names = {"a", "b"}
    Bytes = {"x", "y", "nl"}
    NL = "nl"
    ZERO = ZERO
    Payloads <- MCPayloads
    RAMFS_MAX_CHILDREN = 3
    RAMFS_MAX_FILESIZE = 4
    RAMFS_INITIAL_CAP = 1
    FirstFd = 3
    VFS_MAX_FDS = 5
    MAX_DEPTH = 2
    READ_LEN = 2
    Args <- MCOneFile
    Junk <- MCJunk
SPECIFICATION Spec
INVARIANT ContentIsWhatWasWritten
