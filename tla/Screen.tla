------------------------------- MODULE Screen -------------------------------
(***************************************************************************)
(* What is on the screen: the window manager's window with its text        *)
(* console (src/kernel/gui.c), the pixels below (framebuffer.c), the mouse *)
(* cursor that is drawn over them and removed again (mouse.c), and the     *)
(* kernel's main loop that takes keys, clicks and the clock (kernel.c).    *)
(* Interrupt 12 moves the mouse between any two steps of the main loop.    *)
(* Sizes are constants; no size need be a multiple of the font's.  Of a    *)
(* pixel it is kept which part of which character it shows, or of what     *)
(* else; colours of text are left out.  The "OK" with which the boot       *)
(* console ends its log is drawn over the window, off its grid of cells.   *)
(***************************************************************************)
EXTENDS Integers, Sequences, SequencesExt

CONSTANTS
    FB_WIDTH, FB_HEIGHT, MENUBAR_H,
    WIN_X, WIN_Y, WIN_W, WIN_H, TITLEBAR_H, WIN_BORDER,
    FONT_W, FONT_H, CURSOR_SIZE,
    CON_PAD, BOOT_X, BOOT_Y, \* the boot console's margin and text cursor
    Byte,                \* what a char may hold
    Printable, QUESTION, \* the bytes 32 to 127, and '?' among them
    Chars,               \* what can be typed, but Enter and backspace
    Blank, NL, Welcomes, Prompt, Outputs, Banner,
    Limit,    \* characters a line may have (254 in the code)
    Deltas,   \* movements of the mouse, as int8_t
    CalmDraw  \* the mouse does not move while its cursor is drawn

VARIABLES
    fb,                        \* the framebuffer: a pixel to what it shows
    mouse_x, mouse_y, mouse_buttons, \* written by interrupt 12
    prev_mouse_x, prev_mouse_y, prev_buttons,
    save_x, save_y, cursor_save, cursor_saved,
    con_x, con_y,              \* the text cursor of the window
    input_line,
    wiped,                     \* history: characters of the line, from its
                               \* first, that a click has wiped off the screen
    last_mouse_buttons, jc,    \* handle_mouse_click
    pc                         \* [at |-> where, then |-> where to go after the cursor is drawn]

mouseVars == <<mouse_x, mouse_y, mouse_buttons>>
prevVars == <<prev_mouse_x, prev_mouse_y, prev_buttons>>
saveVars == <<save_x, save_y, cursor_save, cursor_saved>>
textVars == <<con_x, con_y, input_line, wiped>>
clickVars == <<last_mouse_buttons, jc>>
vars == <<fb, mouseVars, prevVars, saveVars, textVars, clickVars, pc>>

-----------------------------------------------------------------------------
(* framebuffer.c *)

Pixels == (0 .. FB_WIDTH - 1) \X (0 .. FB_HEIGHT - 1)
InRect(p, x, y, w, h) == x <= p[1] /\ p[1] < x + w /\ y <= p[2] /\ p[2] < y + h

Plain(what) == <<what, 0, 0>>
GUI_WINBG == Plain("window")
\* A pixel of a character, as its glyph and the colours make it.
Glyph(c, x, y) == IF c = Blank THEN GUI_WINBG ELSE <<c, x, y>>

\* The character shown for a byte.
Face(c) == IF c \in Printable THEN c ELSE QUESTION

fb_fill_rect(f, x, y, w, h, pixel) ==
    [p \in Pixels |-> IF InRect(p, x, y, w, h) THEN pixel ELSE f[p]]
fb_put_char(f, x, y, c) ==
    [p \in Pixels |-> IF InRect(p, x, y, FONT_W, FONT_H)
                      THEN Glyph(Face(c), p[1] - x, p[2] - y) ELSE f[p]]
fb_draw_rect(f, x, y, w, h, pixel) ==
    [p \in Pixels |-> IF /\ InRect(p, x, y, w, h)
                         /\ ~InRect(p, x + 1, y + 1, w - 2, h - 2)
                      THEN pixel ELSE f[p]]

-----------------------------------------------------------------------------
(* gui.c: the window's console is a record of the framebuffer and the text *)
(* cursor.                                                                 *)

content_x == WIN_X + WIN_BORDER
content_y == WIN_Y + TITLEBAR_H
content_w == WIN_W - 2 * WIN_BORDER
content_h == WIN_H - TITLEBAR_H - WIN_BORDER

Rows == content_h \div FONT_H
Cols == content_w \div FONT_W

Texts == Welcomes \cup Outputs \cup {Prompt, Banner}

\* The window lies on the screen below the menu bar, with room for one
\* character at least, and with the longest line in all rows but one.  The
\* boot console has room for "OK" and a line below it, and its last line is
\* not below the window's last row.
ASSUME ScreenAssumption ==
    /\ FB_WIDTH \in Nat /\ FB_HEIGHT \in Nat /\ MENUBAR_H \in Nat
    /\ WIN_X \in Nat /\ WIN_Y \in Nat /\ WIN_W \in Nat /\ WIN_H \in Nat
    /\ WIN_BORDER \in Nat /\ TITLEBAR_H \in Nat /\ WIN_BORDER <= TITLEBAR_H
    /\ FONT_W \in Nat \ {0} /\ FONT_H \in Nat \ {0} /\ CURSOR_SIZE \in Nat \ {0}
    /\ content_w >= FONT_W /\ content_h >= FONT_H
    /\ WIN_X + WIN_W <= FB_WIDTH /\ WIN_Y + WIN_H <= FB_HEIGHT /\ MENUBAR_H <= WIN_Y
    /\ 2 * CURSOR_SIZE < FB_WIDTH /\ 2 * CURSOR_SIZE < FB_HEIGHT
    /\ Deltas \subseteq Int \X Int
    /\ Limit \in Nat /\ Limit <= (Rows - 1) * Cols
    /\ CON_PAD \in Nat /\ BOOT_X \in Nat /\ BOOT_Y \in Nat
    /\ BOOT_X + 2 * FONT_W <= FB_WIDTH - CON_PAD /\ BOOT_Y + 2 * FONT_H <= FB_HEIGHT - CON_PAD
    /\ BOOT_Y + FONT_H <= content_y + Rows * FONT_H
    /\ Printable \subseteq Byte /\ {Blank, QUESTION} \subseteq Printable
    /\ NL \in Byte \ Printable /\ Chars \subseteq Byte \ {NL}
    /\ \A text \in Texts : text \in Seq(Byte)
    /\ {"window", "torn", "boot"} \cap Printable = {}

win_scroll(con) ==
    LET bot == content_y + content_h
        Moved(p) == IF p[2] < bot - FONT_H THEN con.fb[<<p[1], p[2] + FONT_H>>] ELSE GUI_WINBG
    IN  [fb |-> [p \in Pixels |-> IF InRect(p, content_x, content_y, content_w, content_h)
                                  THEN Moved(p) ELSE con.fb[p]],
         x |-> con.x, y |-> IF con.y >= content_y + FONT_H THEN con.y - FONT_H ELSE con.y]

win_newline(con) ==
    LET next == [fb |-> con.fb, x |-> content_x, y |-> con.y + FONT_H]
    IN  IF next.y + FONT_H > content_y + content_h THEN win_scroll(next) ELSE next

put(con, c) ==
    LET next == [fb |-> fb_put_char(con.fb, con.x, con.y, c), x |-> con.x + FONT_W, y |-> con.y]
    IN  IF c = NL THEN win_newline(con)
        ELSE IF next.x + FONT_W > content_x + content_w THEN win_newline(next) ELSE next

gui_print(con, text) ==
    LET after[k \in 0 .. Len(text)] == IF k = 0 THEN con ELSE put(after[k - 1], text[k])
    IN  after[Len(text)]

\* Mutant: the last column of the row above is taken to be one further left.
LastColumnLess == content_x + (content_w \div FONT_W - 2) * FONT_W
LastColumn == content_x + (content_w \div FONT_W - 1) * FONT_W

gui_backspace(con) ==
    LET x == IF con.x > content_x THEN con.x - FONT_W ELSE LastColumn
        y == IF con.x > content_x THEN con.y ELSE con.y - FONT_H
    IN  IF con.x <= content_x /\ con.y <= content_y THEN con
        ELSE [fb |-> fb_fill_rect(con.fb, x, y, FONT_W, FONT_H, GUI_WINBG), x |-> x, y |-> y]

gui_clear_window(con) ==
    [fb |-> fb_fill_rect(con.fb, content_x, content_y, content_w, content_h, GUI_WINBG),
     x |-> content_x, y |-> content_y]

\* The frame, the title bar in the colour of the focus, and the content's
\* background; the text cursor is left where it is.
gui_window_draw(f, focus) ==
    LET border == fb_draw_rect(f, WIN_X, WIN_Y, WIN_W, WIN_H, Plain("border"))
        title == fb_fill_rect(border, WIN_X + WIN_BORDER, WIN_Y + WIN_BORDER, WIN_W - 2 * WIN_BORDER,
                              TITLEBAR_H - WIN_BORDER, Plain(IF focus THEN "active" ELSE "title"))
    IN  fb_fill_rect(title, content_x, content_y, content_w, content_h, GUI_WINBG)

Desktop == [p \in Pixels |-> IF p[2] < MENUBAR_H THEN Plain("menubar") ELSE Plain("desktop")]

\* gui_init has left every slot free.
gui_window_create(f) == [fb |-> gui_window_draw(f, FALSE), x |-> content_x, y |-> content_y]

gui_window_focus(f) == gui_window_draw(gui_window_draw(f, FALSE), TRUE)

\* Two characters at the boot console's text cursor, on its black ground.
InOk(p) == InRect(p, BOOT_X, BOOT_Y, 2 * FONT_W, FONT_H)
print_ok(f) == [p \in Pixels |-> IF InOk(p) THEN Plain("boot") ELSE f[p]]

\* The window created and, as the first one, given the focus; the log's end.
Booted ==
    LET con == gui_window_create(Desktop)
    IN  [fb |-> print_ok(gui_window_draw(con.fb, TRUE)), x |-> con.x, y |-> con.y]

\* Mutant: two cells for one character.
EraseTwo(con) == gui_backspace(gui_backspace(con))
EraseOne(con) == gui_backspace(con)

shell_prompt(con) == gui_print(con, Prompt)

-----------------------------------------------------------------------------
(* mouse.c *)

Clamp(v, size) == IF v < 0 THEN 0 ELSE IF v >= size - CURSOR_SIZE THEN size - CURSOR_SIZE - 1 ELSE v

\* Mutant: the pixels are put back where the mouse is now.
RestoreAtMouse == <<mouse_x, mouse_y>>
RestoreAt == <<save_x, save_y>>

\* clear_cursor; what is below the cursor.
Restored ==
    LET at == RestoreAt
        SavedAt(p) == <<p[1] - at[1], p[2] - at[2]>>
    IN  [p \in Pixels |-> IF cursor_saved /\ InRect(p, at[1], at[2], CURSOR_SIZE, CURSOR_SIZE)
                          THEN cursor_save[SavedAt(p)] ELSE fb[p]]

Offsets == (0 .. CURSOR_SIZE - 1) \X (0 .. CURSOR_SIZE - 1)
\* The pixels draw_cursor puts: the edges of the arrow and its inside.
Arrow ==
    {o \in Offsets : \/ o[1] = o[2]
                     \/ o[2] = 0 /\ o[1] < CURSOR_SIZE \div 2
                     \/ o[1] = 0 /\ o[2] < (CURSOR_SIZE * 2) \div 3
                     \/ /\ o[2] \in 1 .. CURSOR_SIZE - 3 /\ o[1] \in 1 .. o[2] - 1
                        /\ o[1] + o[2] < CURSOR_SIZE}

At(where) == pc.at = where
GoTo(where) == pc' = [at |-> where, then |-> "none"]
ThenDraw(next) == pc' = [at |-> "save", then |-> next]

\* The desktop with the window, the welcome and the prompt, before the first
\* mouse_draw_cursor.  The cursor that mouse_init drew, gui_init has painted
\* over, and what it saved is not put back: nothing is saved as yet.
Init ==
    /\ \E welcome \in Welcomes :
        LET con == shell_prompt(gui_print(Booted, welcome))
        IN  fb = con.fb /\ con_x = con.x /\ con_y = con.y
    /\ mouse_x = FB_WIDTH \div 2 /\ mouse_y = FB_HEIGHT \div 2 /\ mouse_buttons = FALSE
    /\ prev_mouse_x = 0 /\ prev_mouse_y = 0 /\ prev_buttons = FALSE
    /\ save_x = mouse_x /\ save_y = mouse_y
    /\ cursor_save = [o \in Offsets |-> GUI_WINBG] /\ cursor_saved = FALSE
    /\ input_line = <<>> /\ wiped = 0
    /\ last_mouse_buttons = FALSE /\ jc = FALSE
    /\ pc = [at |-> "booted", then |-> "none"]

\* Interrupt 12 with the last byte of a packet.
Irq12 ==
    /\ CalmDraw => pc.at \notin {"save", "draw"}
    /\ \E d \in Deltas :
        /\ mouse_x' = Clamp(mouse_x + d[1], FB_WIDTH)
        /\ mouse_y' = Clamp(mouse_y + d[2], FB_HEIGHT)
    /\ mouse_buttons' \in BOOLEAN
    /\ UNCHANGED <<fb, prevVars, saveVars, textVars, clickVars, pc>>

\* draw_cursor: a loop over the pixels to save, then loops over those to
\* draw.  Each pixel reads mouse_x and mouse_y anew; a movement between the
\* loops stands for all that come between two pixels.
SaveUnder ==
    /\ At("save") /\ pc' = [pc EXCEPT !.at = "draw"]
    /\ save_x' = mouse_x /\ save_y' = mouse_y
    /\ cursor_save' = [o \in Offsets |-> fb[<<mouse_x + o[1], mouse_y + o[2]>>]]
    /\ cursor_saved' = TRUE
    /\ UNCHANGED <<fb, mouseVars, prevVars, textVars, clickVars>>

DrawArrow ==
    /\ At("draw") /\ GoTo(pc.then)
    /\ fb' = [p \in Pixels |-> IF <<p[1] - mouse_x, p[2] - mouse_y>> \in Arrow
                              THEN Plain("cursor") ELSE fb[p]]
    /\ UNCHANGED <<mouseVars, prevVars, saveVars, textVars, clickVars>>

-----------------------------------------------------------------------------
(* The main loop of kernel.c.  Every branch erases the cursor, does its    *)
(* work and draws the cursor.                                              *)

FirstDraw ==
    /\ At("booted") /\ ThenDraw("hlt")
    /\ UNCHANGED <<fb, mouseVars, prevVars, saveVars, textVars, clickVars>>

Hlt ==
    /\ At("hlt") /\ GoTo("clock")
    /\ UNCHANGED <<fb, mouseVars, prevVars, saveVars, textVars, clickVars>>

\* Mutant: the clock is drawn without the cursor being erased and drawn.
ClockAlone == FALSE
ClockTakesCursorAway == TRUE

\* update_menubar_clock, once a second.
ClockTick ==
    /\ At("clock")
    /\ IF ClockTakesCursorAway
       THEN cursor_saved' = FALSE /\ ThenDraw("poll")
       ELSE UNCHANGED cursor_saved /\ GoTo("poll")
    /\ fb' = fb_fill_rect(IF ClockTakesCursorAway THEN Restored ELSE fb,
                          FB_WIDTH - 2, 0, 1, MENUBAR_H - 1, Plain("clock"))
    /\ UNCHANGED <<save_x, save_y, cursor_save, mouseVars, prevVars, textVars, clickVars>>

SameSecond ==
    /\ At("clock") /\ GoTo("poll")
    /\ UNCHANGED <<fb, saveVars, mouseVars, prevVars, textVars, clickVars>>

HasNews == mouse_x # prev_mouse_x \/ mouse_y # prev_mouse_y \/ mouse_buttons # prev_buttons

\* mouse_poll, and the cursor erased if it has news.
MousePoll ==
    /\ At("poll")
    /\ prev_mouse_x' = mouse_x /\ prev_mouse_y' = mouse_y /\ prev_buttons' = mouse_buttons
    /\ IF HasNews
       THEN GoTo("click") /\ fb' = Restored /\ cursor_saved' = FALSE
       ELSE GoTo("keys") /\ UNCHANGED <<fb, cursor_saved>>
    /\ UNCHANGED <<mouseVars, save_x, save_y, cursor_save, textVars, clickVars>>

\* handle_mouse_click reads the buttons twice.
JustClicked ==
    /\ At("click") /\ GoTo("clicked")
    /\ jc' = (mouse_buttons /\ ~last_mouse_buttons)
    /\ UNCHANGED <<fb, mouseVars, prevVars, saveVars, textVars, last_mouse_buttons>>

LastButtons ==
    /\ At("clicked") /\ GoTo("focus")
    /\ last_mouse_buttons' = mouse_buttons
    /\ UNCHANGED <<fb, mouseVars, prevVars, saveVars, textVars, jc>>

\* A click on the title bar: gui_window_focus draws the window without and
\* with the focus, and its text is gone.
Focus ==
    /\ At("focus")
    /\ IF jc /\ InRect(<<mouse_x, mouse_y>>, WIN_X, WIN_Y, WIN_W, TITLEBAR_H)
       THEN fb' = gui_window_focus(fb) /\ wiped' = Len(input_line)
       ELSE UNCHANGED <<fb, wiped>>
    /\ ThenDraw("keys")
    /\ jc' = FALSE
    /\ UNCHANGED <<mouseVars, prevVars, saveVars, con_x, con_y, input_line, last_mouse_buttons>>

Shows(con) == fb' = con.fb /\ con_x' = con.x /\ con_y' = con.y
Console == [fb |-> Restored, x |-> con_x, y |-> con_y]

\* shell_key with an ordinary character, backspace, or the end of the line.
Insert(c) ==
    /\ Len(input_line) < Limit
    /\ input_line' = Append(input_line, c) /\ wiped' = wiped
    /\ Shows(gui_print(Console, <<c>>))
Delete ==
    /\ input_line # <<>>
    /\ input_line' = Front(input_line)
    /\ wiped' = IF wiped = Len(input_line) THEN wiped - 1 ELSE wiped
    /\ Shows(EraseOne(Console))
Return ==
    /\ input_line' = <<>> /\ wiped' = 0
    /\ \/ \E output \in Outputs :
            Shows(shell_prompt(gui_print(win_newline(Console), output)))
       \/ Shows(shell_prompt(gui_print(gui_clear_window(win_newline(Console)), Banner)))

shell_key ==
    /\ At("keys")
    /\ (\E c \in Chars : Insert(c)) \/ Delete \/ Return
    /\ cursor_saved' = FALSE
    /\ ThenDraw("keys")
    /\ UNCHANGED <<mouseVars, prevVars, save_x, save_y, cursor_save, clickVars>>

NoMoreKeys ==
    /\ At("keys") /\ GoTo("hlt")
    /\ UNCHANGED <<fb, mouseVars, prevVars, saveVars, textVars, clickVars>>

Kernel ==
    \/ FirstDraw \/ SaveUnder \/ DrawArrow \/ Hlt \/ ClockTick \/ SameSecond
    \/ MousePoll \/ JustClicked \/ LastButtons \/ Focus \/ shell_key \/ NoMoreKeys

Next == Irq12 \/ Kernel

Spec == Init /\ [][Next]_vars

\* The kernel runs, nobody types for ever, and the timer counts seconds.
FairSpec == Spec /\ WF_vars(Kernel) /\ SF_vars(NoMoreKeys) /\ SF_vars(ClockTick)

-----------------------------------------------------------------------------
\* The character of a cell of the window, or "torn".
Cell(f, r, c) ==
    LET x == content_x + c * FONT_W
        y == content_y + r * FONT_H
        char == IF f[<<x, y>>] = GUI_WINBG THEN Blank ELSE f[<<x, y>>][1]
    IN  IF /\ char \in Printable
           /\ \A i \in 0 .. FONT_W - 1, j \in 0 .. FONT_H - 1 :
                  f[<<x + i, y + j>>] = Glyph(char, i, j)
        THEN char ELSE "torn"

\* The cells that the boot console's "OK" lies in or across.
Stained == {rc \in (0 .. Rows - 1) \X (0 .. Cols - 1) :
               \E p \in Pixels :
                   InOk(p) /\ InRect(p, content_x + rc[2] * FONT_W, content_y + rc[1] * FONT_H, FONT_W, FONT_H)}

\* Below the cursor the window is the terminal it promises to be: every
\* character is in its cell, whole, or a question mark is if it has no glyph,
\* after any number of wraps, scrolls and redraws; what the boot console drew
\* over the cells goes with the cells it is in, until they are written or
\* wiped; and nothing but the main loop's own steps changes the window.
AsTerminal == INSTANCE Terminal WITH
    cells <- LET shown == Restored
             IN  [r \in 0 .. Rows - 1 |-> [c \in 0 .. Cols - 1 |-> Cell(shown, r, c)]],
    row <- (con_y - content_y) \div FONT_H,
    col <- (con_x - content_x) \div FONT_W,
    line <- input_line,
    Torn <- "torn"
RefinesTerminal == AsTerminal!Spec

TypeOK ==
    /\ DOMAIN fb = Pixels
    /\ mouse_x \in 0 .. FB_WIDTH - CURSOR_SIZE - 1 /\ mouse_y \in 0 .. FB_HEIGHT - CURSOR_SIZE - 1
    /\ con_x \in content_x .. content_x + content_w - FONT_W
    /\ con_y \in content_y .. content_y + content_h - FONT_H
    /\ Len(input_line) <= Limit

\* All but the window's content, the clock, and what print_ok may have drawn
\* across the window's border, which the next drawing of the window mends.
Frame == {p \in Pixels : /\ ~InRect(p, content_x, content_y, content_w, content_h)
                        /\ ~InRect(p, FB_WIDTH - 2, 0, 1, MENUBAR_H - 1)
                        /\ ~(InOk(p) /\ InRect(p, WIN_X, WIN_Y, WIN_W, WIN_H))}

\* Outside the window nothing the console does is seen: the frame, the
\* desktop and the menu bar but for its clock stay as they were drawn.
FrameStays ==
    LET shown == Restored
        booted == Booted.fb
    IN  \A p \in Frame : shown[p] = booted[p]

\* What Enter will run is on the screen: before the text cursor lies a cell
\* for each character of the line, blank for those that a click on the title
\* bar has wiped, and for every other the character, or a question mark where
\* a byte like Tab has no glyph.
LineIsOnScreen ==
    LET end == ((con_y - content_y) \div FONT_H) * Cols + (con_x - content_x) \div FONT_W
        shown == Restored
        Read(k) == LET n == end - Len(input_line) + k - 1 IN Cell(shown, n \div Cols, n % Cols)
    IN  \A k \in DOMAIN input_line :
            Read(k) = IF k <= wiped THEN Blank ELSE Face(input_line[k])

\* The cursor is where the mouse is, again and again, unless the mouse moves
\* for ever.  It is the clock that sees to it: mouse_poll has no news when
\* the mouse is back where it was polled, although a key has had the cursor
\* drawn where it was in between.
CursorFollowsMouse ==
    \/ []<><<<<mouse_x', mouse_y'>> # <<mouse_x, mouse_y>>>>_vars
    \/ []<>(cursor_saved /\ save_x = mouse_x /\ save_y = mouse_y)
=============================================================================
