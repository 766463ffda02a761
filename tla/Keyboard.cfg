\* A ring of 4 slots: it fills, drops and wraps within 5 characters.
CONSTANTS
    NUL = NUL
    a = a
    A = A
    b = b
    B = B
    kA = kA
    kB = kB
    kEsc = kEsc
    kShift = kShift
    kCtrl = kCtrl
    BUFFER_SIZE = 4
    Chars <- MCChars
    Scancodes <- MCScancodes
    ShiftCodes = {kShift}
    ModifierCodes = {kCtrl}
    scancode_to_ascii <- MCPlain
    scancode_to_ascii_shift <- MCShifted
    MaxKeys = 5
SPECIFICATION FairSpec
INVARIANTS
    SlotIsStable
PROPERTIES
    RefinesFifo
    EveryCharArrives
