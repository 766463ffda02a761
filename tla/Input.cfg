\* A key and two packets, after a boot nobody disturbs.
CONSTANTS
    MaxKeys = 1
    MaxPackets = 2
    YieldEvery = 2
    Quiet = TRUE
SPECIFICATION FairSpec
INVARIANTS
    EoiEndsItsOwn
    DecoderInStep
PROPERTY
    InputIsHandled
