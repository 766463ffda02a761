\* As Shell.cfg.
CONSTANTS
    n0 = n0
    n1 = n1
    n2 = n2
    n3 = n3
    NULL = NULL
    root = n0
    Node = {n0, n1, n2, n3}
    fat_root = fat_root
    Names = {"a", "disk"}
    Bytes = {"x", "nl"}
    NL = "nl"
    ZERO = ZERO
    Payloads <- MCOneByte
    RAMFS_MAX_CHILDREN = 3
    RAMFS_MAX_FILESIZE = 1
    RAMFS_INITIAL_CAP = 1
    FirstFd = 3
    VFS_MAX_FDS = 5
    MAX_DEPTH = 2
    READ_LEN = 2
    Args <- MCArgs
    Junk <- MCJunk
SPECIFICATION Spec
INVARIANT PathsAreWalked
