\* Rows of two characters, and the mouse at rest while its cursor is drawn.
CONSTANTS
    FB_WIDTH = 13
    FB_HEIGHT = 13
    MENUBAR_H = 2
    WIN_X = 4
    WIN_Y = 2
    WIN_W = 7
    WIN_H = 11
    TITLEBAR_H = 5
    WIN_BORDER = 1
    FONT_W = 2
    FONT_H = 2
    CURSOR_SIZE = 6
    CON_PAD = 1
    BOOT_X = 6
    BOOT_Y = 8
    Byte = {"a", "$", "?", "blank", "tab", "dash", "NL"}
    Printable = {"a", "$", "?", "blank"}
    QUESTION = "?"
    Chars = {"a", "tab"}
    Blank = "blank"
    NL = "NL"
    Welcomes <- MCWelcomes
    Prompt <- MCPrompt
    Outputs <- MCOutputs
    Banner <- MCBanner
    Limit = 2
    Deltas <- MCDeltas
    CalmDraw = TRUE
SPECIFICATION FairSpec
INVARIANTS
    FrameStays
    LineIsOnScreen
PROPERTIES
    RefinesTerminal
    CursorFollowsMouse
