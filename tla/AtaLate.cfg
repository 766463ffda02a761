\* The instance of Ata.cfg with an ATA drive on the bus.
CONSTANTS
    Kinds = {"ata"}
    Sectors = 2
    LbaLimit = 8
    MaxLba = 1
    MaxCount = 1
    Data = {x, y}
    Noise = noise
    TIMEOUT = 2
SPECIFICATION Spec
INVARIANT
    SuccessIsWritten
