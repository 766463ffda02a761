\* Two sectors and one more address than the drive has, transfers of up to
\* two sectors, two polls before a wait gives up.
CONSTANTS
    Kinds = {"ata", "atapi", "no drive", "no bus"}
    Sectors = 2
    LbaLimit = 8
    MaxLba = 1
    MaxCount = 2
    Data = {x, y}
    Noise = noise
    TIMEOUT = 2
SPECIFICATION FairSpec
INVARIANTS
    ReadsAreTrue
    WriteIsAPrefix
PROPERTIES
    OnlyTheWriteChangesSectors
    EveryCallReturns
