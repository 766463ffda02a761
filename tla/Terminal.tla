------------------------------ MODULE Terminal ------------------------------
(***************************************************************************)
(* What the kernel's one window promises: a grid of character cells with a *)
(* text cursor, in which the line being typed can be read after the        *)
(* prompt.  Module Screen, where the window is an area of pixels over      *)
(* which a mouse cursor is drawn and removed, implements it.               *)
(***************************************************************************)
EXTENDS Naturals, Sequences, SequencesExt

CONSTANTS
    Rows, Cols, \* cells of the window
    Printable,  \* characters there is a glyph for
    QUESTION,   \* the one shown for all others
    Chars,      \* characters that can be typed
    Blank, NL,  \* an empty cell; the end of a line
    Stained,    \* cells with something else in them at the start
    Torn,       \* what such a cell shows
    Welcomes,   \* what may be printed at the start
    Prompt,     \* what shell_prompt prints
    Outputs,    \* what a command prints
    Banner,     \* what the command cls prints
    Limit       \* characters a line may have

VARIABLES
    cells,    \* [0..Rows-1 -> [0..Cols-1 -> character]]
    row, col, \* the text cursor
    line,     \* what has been typed since the prompt
    wiped     \* history: how many characters of the line, from its
              \* first, a drawing of the frame has wiped off the grid

vars == <<cells, row, col, line, wiped>>

Face(c) == IF c \in Printable THEN c ELSE QUESTION

EmptyRow == [k \in 0 .. Cols - 1 |-> Blank]
Cleared == [cells |-> [r \in 0 .. Rows - 1 |-> EmptyRow], row |-> 0, col |-> 0]
Fresh == [cells |-> [r \in 0 .. Rows - 1 |-> [k \in 0 .. Cols - 1 |->
                        IF <<r, k>> \in Stained THEN Torn ELSE Blank]],
          row |-> 0, col |-> 0]

Newline(t) ==
    IF t.row + 1 < Rows
    THEN [cells |-> t.cells, row |-> t.row + 1, col |-> 0]
    ELSE [cells |-> [r \in 0 .. Rows - 1 |-> IF r + 1 < Rows THEN t.cells[r + 1] ELSE EmptyRow],
          row |-> t.row, col |-> 0]

Put(t, c) ==
    LET written == [cells |-> [t.cells EXCEPT ![t.row][t.col] = Face(c)], row |-> t.row, col |-> t.col + 1]
    IN  IF c = NL THEN Newline(t)
        ELSE IF written.col = Cols THEN Newline(written) ELSE written

Show(t, text) ==
    LET after[k \in 0 .. Len(text)] == IF k = 0 THEN t ELSE Put(after[k - 1], text[k])
    IN  after[Len(text)]

\* The cell before the cursor, the last one of the row above at a row's start.
Backspace(t) ==
    LET r == IF t.col > 0 THEN t.row ELSE t.row - 1
        c == IF t.col > 0 THEN t.col - 1 ELSE Cols - 1
    IN  IF t.row = 0 /\ t.col = 0 THEN t
        ELSE [cells |-> [t.cells EXCEPT ![r][c] = Blank], row |-> r, col |-> c]

Now == [cells |-> cells, row |-> row, col |-> col]
Becomes(t) == cells' = t.cells /\ row' = t.row /\ col' = t.col

Init ==
    \E welcome \in Welcomes :
        LET t == Show(Show(Fresh, welcome), Prompt)
        IN  cells = t.cells /\ row = t.row /\ col = t.col /\ line = <<>> /\ wiped = 0

Type(c) ==
    /\ Len(line) < Limit
    /\ line' = Append(line, c) /\ wiped' = wiped
    /\ Becomes(Put(Now, c))

Erase ==
    /\ line # <<>>
    /\ line' = Front(line) /\ wiped' = IF wiped = Len(line) THEN wiped - 1 ELSE wiped
    /\ Becomes(Backspace(Now))

Enter(output) ==
    /\ line' = <<>> /\ wiped' = 0
    /\ Becomes(Show(Show(Newline(Now), output), Prompt))

\* The command cls.
Clear ==
    /\ line' = <<>> /\ wiped' = 0
    /\ Becomes(Show(Show(Cleared, Banner), Prompt))

\* The window's frame is drawn anew and its text with it, the cursor stays.
Wipe ==
    /\ cells' = Cleared.cells /\ wiped' = Len(line)
    /\ UNCHANGED <<row, col, line>>

Next ==
    \/ \E c \in Chars : Type(c)
    \/ Erase
    \/ \E output \in Outputs : Enter(output)
    \/ Clear
    \/ Wipe

Spec == Init /\ [][Next]_vars
=============================================================================
