---------------------------- MODULE ScreenProofs ----------------------------
(***************************************************************************)
(* Proofs about Screen: for every size of the screen, the window, the font *)
(* and the cursor, the window's pixels are the terminal it promises to be, *)
(* nothing outside the window changes, and the line being typed can be     *)
(* read on the screen.                                                     *)
(***************************************************************************)
EXTENDS Screen, SequenceTheorems, WellFoundedInduction, TLAPS

-----------------------------------------------------------------------------
(* Arithmetic. *)

LEMMA NatHasMin ==
    ASSUME NEW T, T \subseteq Nat, T # {}
    PROVE  \E x \in T : \A y \in T : x <= y
<1> DEFINE R == OpToRel(<, Nat)
<1>1. \E x \in T : \A y \in T : ~(<<y, x>> \in R)
  <2>1. IsWellFoundedOn(R, Nat)
    BY NatLessThanWellFounded
  <2> HIDE DEF R
  <2> QED  BY <2>1, WFMin
<1>2. \A x, y \in T : ~(<<y, x>> \in R) => x <= y
  BY DEF OpToRel
<1> HIDE DEF R
<1> QED  BY <1>1, <1>2

LEMMA CountingUp ==
    ASSUME NEW n \in Nat, NEW T, 0 \in T, \A k \in 0 .. n - 1 : k \in T => k + 1 \in T
    PROVE  \A k \in 0 .. n : k \in T
<1> DEFINE Out == {k \in 0 .. n : k \notin T}
<1>1. ASSUME Out # {}  PROVE FALSE
  <2>1. Out \subseteq Nat
    OBVIOUS
  <2>2. PICK k \in Out : \A j \in Out : k <= j
    <3> HIDE DEF Out
    <3> QED  BY <1>1, <2>1, NatHasMin
  <2>3. k - 1 \in 0 .. n - 1 /\ ~ (k <= k - 1) /\ k - 1 + 1 = k /\ k - 1 \in 0 .. n
    BY <2>2
  <2>4. k - 1 \in T
    BY <2>2, <2>3
  <2> QED  BY <2>2, <2>3, <2>4
<1> QED  BY <1>1

\* A recursive function over 0 .. n whose values stay in A is defined.
Recurs(f, n, b, F) == \A k \in 0 .. n : f[k] = IF k = 0 THEN b ELSE F[k][f[k - 1]]

LEMMA RecursionExists ==
    ASSUME NEW n \in Nat, NEW A, NEW b \in A, NEW F \in [1 .. n -> [A -> A]]
    PROVE  \E f \in [0 .. n -> A] : Recurs(f, n, b, F)
<1> DEFINE Is(f, m) == \A k \in 0 .. m : f[k] = IF k = 0 THEN b ELSE F[k][f[k - 1]]
           T == {m \in 0 .. n : \E f \in [0 .. m -> A] : Is(f, m)}
<1>1. 0 \in T
  <2> DEFINE f == [k \in 0 .. 0 |-> b]
  <2>1. f \in [0 .. 0 -> A]
    OBVIOUS
  <2>2. ASSUME NEW k \in 0 .. 0  PROVE f[k] = b /\ k = 0
    OBVIOUS
  <2>3. Is(f, 0)
    BY <2>2
  <2>4. 0 \in 0 .. n
    OBVIOUS
  <2> HIDE DEF f, Is
  <2> QED  BY <2>1, <2>3, <2>4
<1>2. ASSUME NEW m \in 0 .. n - 1, m \in T  PROVE m + 1 \in T
  <2>1. PICK f \in [0 .. m -> A] : Is(f, m)
    BY <1>2
  <2>2. m \in Nat /\ m + 1 \in 1 .. n /\ f[m] \in A
    OBVIOUS
  <2> DEFINE g == [k \in 0 .. m + 1 |-> IF k = m + 1 THEN F[m + 1][f[m]] ELSE f[k]]
  <2>3. F[m + 1][f[m]] \in A
    BY <2>2
  <2>4. g \in [0 .. m + 1 -> A]
    BY <2>2, <2>3
  <2>5. ASSUME NEW k \in 0 .. m + 1  PROVE g[k] = IF k = 0 THEN b ELSE F[k][g[k - 1]]
    <3>1. CASE k = m + 1
      <4>1. k # 0 /\ k - 1 = m /\ m \in 0 .. m + 1 /\ m # m + 1
        BY <3>1, <2>2
      <4> QED  BY <4>1, <3>1
    <3>2. CASE k # m + 1
      <4>1. k \in 0 .. m /\ (k # 0 => k - 1 \in 0 .. m + 1 /\ k - 1 # m + 1)
        BY <3>2, <2>2
      <4>2. f[k] = IF k = 0 THEN b ELSE F[k][f[k - 1]]
        BY <4>1, <2>1
      <4> QED  BY <4>1, <4>2, <3>2
    <3> QED  BY <3>1, <3>2
  <2>6. m + 1 \in 0 .. n
    BY <2>2
  <2> QED  BY <2>4, <2>5, <2>6
<1>3. \A m \in 0 .. n : m \in T
  <2> HIDE DEF T
  <2> QED  BY <1>1, <1>2, CountingUp
<1>4. n \in T
  <2> HIDE DEF T
  <2> QED  BY <1>3
<1> QED  BY <1>4 DEF Recurs

LEMMA DivMod ==
    ASSUME NEW x \in Nat, NEW p \in Nat \ {0}
    PROVE  /\ x \div p \in Nat /\ x % p \in Nat
           /\ x = p * (x \div p) + (x % p) /\ x % p < p
OBVIOUS

LEMMA TimesMonotone ==
    ASSUME NEW p \in Nat, NEW a \in Int, NEW b \in Int, a <= b
    PROVE  p * a <= p * b
<1>1. p * b = p * a + p * (b - a)
  OBVIOUS
<1>2. p * (b - a) >= 0
  OBVIOUS
<1> QED  BY <1>1, <1>2

LEMMA DivOfMultiple ==
    ASSUME NEW q \in Nat, NEW r \in Nat, NEW p \in Nat \ {0}, r < p
    PROVE  (p * q + r) \div p = q
<1> DEFINE x == p * q + r
           a == x \div p
<1>1. x \in Nat
  OBVIOUS
<1>2. a \in Nat /\ x >= p * a /\ x < p * a + p
  BY <1>1, DivMod
<1>0. p * q \in Nat /\ x = p * q + r
  OBVIOUS
<1> HIDE DEF x, a
<1>3. p * a \in Nat
  BY <1>2
<1>4. ASSUME a >= q + 1  PROVE FALSE
  <2>1. p * a >= p * (q + 1)
    BY <1>2, <1>4, TimesMonotone
  <2>2. p * (q + 1) = p * q + p
    OBVIOUS
  <2> QED  BY <2>1, <2>2, <1>0, <1>2, <1>3
<1>5. ASSUME a + 1 <= q  PROVE FALSE
  <2>1. p * q >= p * (a + 1)
    BY <1>2, <1>5, TimesMonotone
  <2>2. p * (a + 1) = p * a + p
    BY <1>2
  <2> QED  BY <2>1, <2>2, <1>0, <1>2, <1>3
<1>6. a = q
  BY <1>2, <1>4, <1>5
<1> QED  BY <1>6 DEF x, a

\* A length w cut in pieces of s: where they begin, and that they do not overlap.
Piece(a, s, k) == a + k * s

Cut(a, w, s, n) ==
    /\ n \in Nat \ {0}
    /\ \A k \in 0 .. n : Piece(a, s, k) \in Nat /\ Piece(a, s, k) >= a
    /\ \A k \in 0 .. n - 1 : Piece(a, s, k + 1) = Piece(a, s, k) + s
    /\ Piece(a, s, 0) = a
    /\ Piece(a, s, n) <= a + w /\ a + w < Piece(a, s, n) + s
    /\ \A k, j \in 0 .. n : k < j => Piece(a, s, k) + s <= Piece(a, s, j)
    /\ \A k \in 0 .. n - 1 : (Piece(a, s, k) - a) \div s = k

LEMMA Pieces ==
    ASSUME NEW a \in Nat, NEW w \in Nat, NEW s \in Nat \ {0}, s <= w
    PROVE  Cut(a, w, s, w \div s)
<1> DEFINE n == w \div s
           q == w % s
           at(k) == a + k * s
<1>1. n \in Nat /\ q \in Nat /\ w = s * n + q /\ q < s
  BY DivMod
<1> HIDE DEF n, q
<1>2. n # 0
  <2>1. n = 0 => s * n = 0
    OBVIOUS
  <2> QED  BY <1>1, <2>1
<1>3. \A k \in Int : s * k \in Int /\ k * s = s * k /\ s * (k + 1) = s * k + s
  OBVIOUS
<1>4. \A k \in Nat : s * k \in Nat
  OBVIOUS
<1>5. \A k, j \in Nat : k < j => s * k + s <= s * j
  <2> TAKE k, j \in Nat
  <2> HAVE k < j
  <2>1. s * (k + 1) <= s * j
    BY TimesMonotone
  <2> QED  BY <2>1, <1>3
<1>6. \A k \in Nat : (a + k * s - a) \div s = k
  <2> TAKE k \in Nat
  <2>1. (s * k + 0) \div s = k
    BY DivOfMultiple
  <2>2. a + k * s - a = s * k + 0
    BY <1>3
  <2> QED  BY <2>1, <2>2
<1>7. \A k \in 0 .. n : k \in Nat /\ s * k \in Nat /\ k * s = s * k
  BY <1>1, <1>3, <1>4
<1>8. \A k \in 0 .. n - 1 : (k + 1) * s = s * k + s
  BY <1>1, <1>3
<1>9. s * n \in Nat /\ n * s = s * n
  BY <1>1, <1>3, <1>4
<1>10. \A k \in 0 .. n : Piece(a, s, k) = a + s * k
  BY <1>7 DEF Piece
<1>11. \A k, j \in 0 .. n : k < j => Piece(a, s, k) + s <= Piece(a, s, j)
  BY <1>1, <1>5, <1>7, <1>10
<1>12. \A k \in 0 .. n : Piece(a, s, k) \in Nat /\ Piece(a, s, k) >= a
  BY <1>7, <1>10
<1>13. \A k \in 0 .. n - 1 : Piece(a, s, k + 1) = Piece(a, s, k) + s
  BY <1>7, <1>8, <1>1 DEF Piece
<1>14. Piece(a, s, n) <= a + w /\ a + w < Piece(a, s, n) + s
  BY <1>1, <1>9 DEF Piece
<1>15. \A k \in 0 .. n - 1 : (Piece(a, s, k) - a) \div s = k
  BY <1>6, <1>1 DEF Piece
<1>16. Piece(a, s, 0) = a
  BY DEF Piece
<1> QED  BY <1>1, <1>2, <1>11, <1>12, <1>13, <1>14, <1>15, <1>16 DEF Cut, n

-----------------------------------------------------------------------------
(* The grid of cells. *)

Left(c) == content_x + c * FONT_W
Top(r) == content_y + r * FONT_H
Right == content_x + content_w
Bottom == content_y + content_h

Sizes ==
    /\ FB_WIDTH \in Nat /\ FB_HEIGHT \in Nat
    /\ FONT_W \in Nat \ {0} /\ FONT_H \in Nat \ {0}
    /\ content_x \in Nat /\ content_y \in Nat /\ Right \in Nat /\ Bottom \in Nat
    /\ Right = content_x + content_w /\ Bottom = content_y + content_h
    /\ Right <= FB_WIDTH /\ Bottom <= FB_HEIGHT

Columns ==
    /\ Cols \in Nat \ {0}
    /\ \A c \in 0 .. Cols : Left(c) \in Nat /\ Left(c) >= content_x
    /\ \A c \in 0 .. Cols - 1 : Left(c + 1) = Left(c) + FONT_W
    /\ Left(0) = content_x
    /\ Left(Cols) <= Right /\ Right < Left(Cols) + FONT_W
    /\ \A c, d \in 0 .. Cols : c < d => Left(c) + FONT_W <= Left(d)
    /\ \A c \in 0 .. Cols - 1 : (Left(c) - content_x) \div FONT_W = c

Lines ==
    /\ Rows \in Nat \ {0}
    /\ \A r \in 0 .. Rows : Top(r) \in Nat /\ Top(r) >= content_y
    /\ \A r \in 0 .. Rows - 1 : Top(r + 1) = Top(r) + FONT_H
    /\ Top(0) = content_y
    /\ Top(Rows) <= Bottom /\ Bottom < Top(Rows) + FONT_H
    /\ \A r, q \in 0 .. Rows : r < q => Top(r) + FONT_H <= Top(q)
    /\ \A r \in 0 .. Rows - 1 : (Top(r) - content_y) \div FONT_H = r

LEMMA SizesAre == Sizes
<1>1. /\ FB_WIDTH \in Nat /\ FB_HEIGHT \in Nat /\ WIN_X \in Nat /\ WIN_Y \in Nat /\ WIN_W \in Nat /\ WIN_H \in Nat
      /\ WIN_BORDER \in Nat /\ TITLEBAR_H \in Nat /\ FONT_W \in Nat \ {0} /\ FONT_H \in Nat \ {0}
      /\ content_w >= FONT_W /\ content_h >= FONT_H
      /\ WIN_X + WIN_W <= FB_WIDTH /\ WIN_Y + WIN_H <= FB_HEIGHT
  BY ScreenAssumption DEF ScreenAssumption
<1> QED  BY <1>1 DEF Sizes, Right, Bottom, content_x, content_y, content_w, content_h

LEMMA ContentIs ==
    /\ content_w \in Nat /\ content_h \in Nat
    /\ FONT_W <= content_w /\ FONT_H <= content_h
<1>1. /\ WIN_W \in Nat /\ WIN_H \in Nat /\ WIN_BORDER \in Nat /\ TITLEBAR_H \in Nat
      /\ FONT_W \in Nat \ {0} /\ FONT_H \in Nat \ {0} /\ content_w >= FONT_W /\ content_h >= FONT_H
  BY ScreenAssumption DEF ScreenAssumption
<1> QED  BY <1>1 DEF content_w, content_h

LEMMA ColumnsAre == Columns
<1>1. Cut(content_x, content_w, FONT_W, content_w \div FONT_W)
  BY SizesAre, ContentIs, Pieces DEF Sizes
<1>2. Cut(content_x, content_w, FONT_W, Cols)
  BY <1>1 DEF Cols
<1>0. \A c : Left(c) = Piece(content_x, FONT_W, c)
  BY DEF Left, Piece
<1>3. Cols \in Nat \ {0}
  BY <1>2 DEF Cut
<1>4. \A c \in 0 .. Cols : Left(c) \in Nat /\ Left(c) >= content_x
  BY <1>0, <1>2 DEF Cut
<1>5. \A c \in 0 .. Cols - 1 : Left(c + 1) = Left(c) + FONT_W
  BY <1>0, <1>2 DEF Cut
<1>6. Left(0) = content_x
  BY <1>0, <1>2 DEF Cut
<1>7. Left(Cols) <= Right /\ Right < Left(Cols) + FONT_W
  BY <1>0, <1>2 DEF Cut, Right
<1>8. \A c, d \in 0 .. Cols : c < d => Left(c) + FONT_W <= Left(d)
  BY <1>0, <1>2 DEF Cut
<1>9. \A c \in 0 .. Cols - 1 : (Left(c) - content_x) \div FONT_W = c
  BY <1>0, <1>2 DEF Cut
<1> QED  BY <1>3, <1>4, <1>5, <1>6, <1>7, <1>8, <1>9 DEF Columns

LEMMA LinesAre == Lines
<1>1. Cut(content_y, content_h, FONT_H, content_h \div FONT_H)
  BY SizesAre, ContentIs, Pieces DEF Sizes
<1>2. Cut(content_y, content_h, FONT_H, Rows)
  BY <1>1 DEF Rows
<1>0. \A r : Top(r) = Piece(content_y, FONT_H, r)
  BY DEF Top, Piece
<1>3. Rows \in Nat \ {0}
  BY <1>2 DEF Cut
<1>4. \A r \in 0 .. Rows : Top(r) \in Nat /\ Top(r) >= content_y
  BY <1>0, <1>2 DEF Cut
<1>5. \A r \in 0 .. Rows - 1 : Top(r + 1) = Top(r) + FONT_H
  BY <1>0, <1>2 DEF Cut
<1>6. Top(0) = content_y
  BY <1>0, <1>2 DEF Cut
<1>7. Top(Rows) <= Bottom /\ Bottom < Top(Rows) + FONT_H
  BY <1>0, <1>2 DEF Cut, Bottom
<1>8. \A r, q \in 0 .. Rows : r < q => Top(r) + FONT_H <= Top(q)
  BY <1>0, <1>2 DEF Cut
<1>9. \A r \in 0 .. Rows - 1 : (Top(r) - content_y) \div FONT_H = r
  BY <1>0, <1>2 DEF Cut
<1> QED  BY <1>3, <1>4, <1>5, <1>6, <1>7, <1>8, <1>9 DEF Lines

-----------------------------------------------------------------------------
(* Pixels. *)

\* What a pixel may show.
Kinds == Printable \union {"window", "boot", "border", "active", "title", "menubar", "desktop", "clock", "cursor"}
PixelValue == Kinds \X Nat \X Nat
Framebuffer == [Pixels -> PixelValue]

LEMMA PixelIs ==
    ASSUME NEW p \in Pixels
    PROVE  /\ p = <<p[1], p[2]>> /\ p[1] \in Nat /\ p[2] \in Nat
           /\ p[1] < FB_WIDTH /\ p[2] < FB_HEIGHT
BY SizesAre DEF Sizes, Pixels

LEMMA IsPixel ==
    ASSUME NEW x \in Int, NEW y \in Int, 0 <= x, x < FB_WIDTH, 0 <= y, y < FB_HEIGHT
    PROVE  <<x, y>> \in Pixels
<1>1. x \in 0 .. FB_WIDTH - 1 /\ y \in 0 .. FB_HEIGHT - 1
  BY SizesAre DEF Sizes
<1> QED  BY <1>1 DEF Pixels

LEMMA InRectIs ==
    ASSUME NEW p, p[1] \in Int, p[2] \in Int, NEW x \in Int, NEW y \in Int, NEW w \in Int, NEW h \in Int
    PROVE  InRect(p, x, y, w, h) <=> x <= p[1] /\ p[1] < x + w /\ y <= p[2] /\ p[2] < y + h
<1>1. \A k, a, n \in Int : k \in a .. a + n - 1 <=> a <= k /\ k < a + n
  OBVIOUS
<1> QED  BY <1>1 DEF InRect

LEMMA KindsAre ==
    ASSUME NEW what \in Kinds, NEW i \in Nat, NEW j \in Nat
    PROVE  <<what, i, j>> \in PixelValue /\ Plain(what) \in PixelValue
BY DEF PixelValue, Plain

LEMMA BackgroundIs == GUI_WINBG \in PixelValue /\ GUI_WINBG = <<"window", 0, 0>> /\ Blank \in Printable
BY KindsAre, ScreenAssumption DEF Kinds, GUI_WINBG, Plain, ScreenAssumption

\* What is shown for a byte has a glyph; a character with a glyph is shown.
LEMMA FaceIs ==
    /\ \A c : Face(c) \in Printable /\ AsTerminal!Face(c) = Face(c)
    /\ Face(Blank) = Blank
BY BackgroundIs, ScreenAssumption DEF Face, AsTerminal!Face, ScreenAssumption

\* A character is told from the background and from every other character.
LEMMA GlyphIs ==
    ASSUME NEW char \in Printable, NEW i \in Nat, NEW j \in Nat
    PROVE  /\ Glyph(char, i, j) \in PixelValue
           /\ Glyph(char, i, j) = GUI_WINBG <=> char = Blank
           /\ char # Blank => Glyph(char, i, j)[1] = char
<1>1. char # "window" /\ char \in Kinds
  BY ScreenAssumption DEF ScreenAssumption, Kinds
<1>2. <<char, i, j>> # <<"window", 0, 0>>
  BY <1>1
<1> QED  BY <1>1, <1>2, KindsAre, BackgroundIs DEF Glyph

-----------------------------------------------------------------------------
(* Cells. *)

\* A pixel of a cell, counted from the cell's corner.
Dot(r, c, i, j) == <<Left(c) + i, Top(r) + j>>

LEMMA DotIs ==
    ASSUME NEW r \in 0 .. Rows - 1, NEW c \in 0 .. Cols - 1,
           NEW i \in 0 .. FONT_W - 1, NEW j \in 0 .. FONT_H - 1
    PROVE  LET p == Dot(r, c, i, j)
           IN  /\ p \in Pixels /\ p[1] = Left(c) + i /\ p[2] = Top(r) + j
               /\ p[1] \in Nat /\ p[2] \in Nat
               /\ Left(c) <= p[1] /\ p[1] < Left(c) + FONT_W
               /\ Top(r) <= p[2] /\ p[2] < Top(r) + FONT_H
               /\ content_x <= p[1] /\ p[1] < Right /\ content_y <= p[2] /\ p[2] < Top(Rows)
               /\ p[2] < Bottom
<1> DEFINE x == Left(c) + i
           y == Top(r) + j
<1>0. /\ c \in 0 .. Cols /\ Cols \in 0 .. Cols /\ c < Cols /\ Cols \in Nat
      /\ r \in 0 .. Rows /\ Rows \in 0 .. Rows /\ r < Rows /\ Rows \in Nat
  BY ColumnsAre, LinesAre DEF Columns, Lines
<1>7. /\ Left(c) \in Nat /\ Left(c) >= content_x /\ Left(c) + FONT_W <= Left(Cols) /\ Left(Cols) <= Right
      /\ Left(Cols) \in Nat
  BY <1>0, ColumnsAre DEF Columns
<1>1. Left(c) + FONT_W <= Right
  BY <1>7, SizesAre DEF Sizes
<1>2. /\ Top(r) \in Nat /\ Top(r) >= content_y /\ Top(r) + FONT_H <= Top(Rows) /\ Top(Rows) <= Bottom
      /\ Top(Rows) \in Nat
  BY <1>0, LinesAre DEF Lines
<1>3. /\ x \in Nat /\ content_x <= x /\ x < Right /\ x < FB_WIDTH
      /\ Left(c) <= x /\ x < Left(c) + FONT_W
  BY <1>1, <1>7, SizesAre DEF Sizes
<1>4. /\ y \in Nat /\ content_y <= y /\ y < Top(Rows) /\ y < FB_HEIGHT /\ y < Bottom
      /\ Top(r) <= y /\ y < Top(r) + FONT_H
  BY <1>2, SizesAre DEF Sizes
<1> HIDE DEF x, y
<1>5. <<x, y>> \in Pixels
  BY <1>3, <1>4, IsPixel
<1>6. Dot(r, c, i, j) = <<x, y>> /\ x = Left(c) + i /\ y = Top(r) + j
  BY DEF Dot, x, y
<1> QED  BY <1>3, <1>4, <1>5, <1>6

LEMMA CellIs ==
    ASSUME NEW f, NEW r \in 0 .. Rows - 1, NEW c \in 0 .. Cols - 1
    PROVE  LET char == IF f[Dot(r, c, 0, 0)] = GUI_WINBG THEN Blank ELSE f[Dot(r, c, 0, 0)][1]
               whole == \A i \in 0 .. FONT_W - 1, j \in 0 .. FONT_H - 1 : f[Dot(r, c, i, j)] = Glyph(char, i, j)
           IN  /\ char \in Printable /\ whole => Cell(f, r, c) = char
               /\ ~(char \in Printable /\ whole) => Cell(f, r, c) = "torn"
<1>1. Left(c) \in Nat /\ Top(r) \in Nat
  BY ColumnsAre, LinesAre DEF Columns, Lines
<1>2. Dot(r, c, 0, 0) = <<Left(c), Top(r)>>
  BY <1>1 DEF Dot
<1> DEFINE first == f[<<Left(c), Top(r)>>]
           char == IF first = GUI_WINBG THEN Blank ELSE first[1]
           whole == \A i \in 0 .. FONT_W - 1, j \in 0 .. FONT_H - 1 :
                        f[<<Left(c) + i, Top(r) + j>>] = Glyph(char, i, j)
<1>3. Cell(f, r, c) = IF char \in Printable /\ whole THEN char ELSE "torn"
  BY DEF Cell, Left, Top
<1> QED  BY <1>2, <1>3 DEF Dot

LEMMA CellShows ==
    ASSUME NEW f, NEW r \in 0 .. Rows - 1, NEW c \in 0 .. Cols - 1, NEW char \in Printable,
           \A i \in 0 .. FONT_W - 1, j \in 0 .. FONT_H - 1 : f[Dot(r, c, i, j)] = Glyph(char, i, j)
    PROVE  Cell(f, r, c) = char
<1>1. 0 \in 0 .. FONT_W - 1 /\ 0 \in 0 .. FONT_H - 1
  BY SizesAre DEF Sizes
<1>2. f[Dot(r, c, 0, 0)] = Glyph(char, 0, 0)
  BY <1>1
<1>3. (IF f[Dot(r, c, 0, 0)] = GUI_WINBG THEN Blank ELSE f[Dot(r, c, 0, 0)][1]) = char
  BY <1>2, GlyphIs
<1> QED  BY <1>3, CellIs

\* Two cells whose pixels are the same show the same.
Alike(f, r, c, g, q, d) ==
    \A i \in 0 .. FONT_W - 1, j \in 0 .. FONT_H - 1 : f[Dot(r, c, i, j)] = g[Dot(q, d, i, j)]

LEMMA CellSame ==
    ASSUME NEW f, NEW r \in 0 .. Rows - 1, NEW c \in 0 .. Cols - 1,
           NEW g, NEW q \in 0 .. Rows - 1, NEW d \in 0 .. Cols - 1,
           Alike(f, r, c, g, q, d)
    PROVE  Cell(f, r, c) = Cell(g, q, d)
<1>1. 0 \in 0 .. FONT_W - 1 /\ 0 \in 0 .. FONT_H - 1
  BY SizesAre DEF Sizes
<1>2. f[Dot(r, c, 0, 0)] = g[Dot(q, d, 0, 0)]
  BY <1>1 DEF Alike
<1> DEFINE char == IF f[Dot(r, c, 0, 0)] = GUI_WINBG THEN Blank ELSE f[Dot(r, c, 0, 0)][1]
           W(h, a, b) == \A i \in 0 .. FONT_W - 1, j \in 0 .. FONT_H - 1 : h[Dot(a, b, i, j)] = Glyph(char, i, j)
<1>3. char = IF g[Dot(q, d, 0, 0)] = GUI_WINBG THEN Blank ELSE g[Dot(q, d, 0, 0)][1]
  BY <1>2
<1>4. W(f, r, c) <=> W(g, q, d)
  BY DEF Alike
<1>5. Cell(f, r, c) = IF char \in Printable /\ W(f, r, c) THEN char ELSE "torn"
  BY CellIs
<1>6. Cell(g, q, d) = IF char \in Printable /\ W(g, q, d) THEN char ELSE "torn"
  BY <1>3, CellIs
<1> QED  BY <1>4, <1>5, <1>6

\* A pixel of one cell is in no other.
LEMMA CellsApart ==
    ASSUME NEW r \in 0 .. Rows - 1, NEW c \in 0 .. Cols - 1,
           NEW q \in 0 .. Rows - 1, NEW d \in 0 .. Cols - 1,
           NEW i \in 0 .. FONT_W - 1, NEW j \in 0 .. FONT_H - 1
    PROVE  InRect(Dot(r, c, i, j), Left(d), Top(q), FONT_W, FONT_H) <=> r = q /\ c = d
<1> DEFINE p == Dot(r, c, i, j)
<1>1. /\ p[1] \in Nat /\ p[2] \in Nat
      /\ Left(c) <= p[1] /\ p[1] < Left(c) + FONT_W
      /\ Top(r) <= p[2] /\ p[2] < Top(r) + FONT_H
  BY DotIs
<1>2. /\ Left(c) \in Nat /\ Left(d) \in Nat /\ Cols \in Nat
      /\ c < d => Left(c) + FONT_W <= Left(d)
      /\ d < c => Left(d) + FONT_W <= Left(c)
  BY ColumnsAre DEF Columns
<1>3. /\ Top(r) \in Nat /\ Top(q) \in Nat /\ Rows \in Nat
      /\ r < q => Top(r) + FONT_H <= Top(q)
      /\ q < r => Top(q) + FONT_H <= Top(r)
  BY LinesAre DEF Lines
<1>4. FONT_W \in Nat /\ FONT_H \in Nat
  BY SizesAre DEF Sizes
<1> HIDE DEF p
<1>5. InRect(p, Left(d), Top(q), FONT_W, FONT_H)
      <=> Left(d) <= p[1] /\ p[1] < Left(d) + FONT_W /\ Top(q) <= p[2] /\ p[2] < Top(q) + FONT_H
  BY <1>1, <1>2, <1>3, <1>4, InRectIs
<1>6. Left(d) <= p[1] /\ p[1] < Left(d) + FONT_W <=> c = d
  BY <1>1, <1>2, <1>4
<1>7. Top(q) <= p[2] /\ p[2] < Top(q) + FONT_H <=> r = q
  BY <1>1, <1>3, <1>4
<1> QED  BY <1>5, <1>6, <1>7 DEF p

-----------------------------------------------------------------------------
(* The console and what it stands for. *)

Consoles == [fb : Framebuffer, x : Nat, y : Nat]

InContent(p) == content_x <= p[1] /\ p[1] < Right /\ content_y <= p[2] /\ p[2] < Bottom

\* The pixels below the last row are background: scrolling moves them into it.
Spare(f) == \A p \in Pixels : InContent(p) /\ Top(Rows) <= p[2] => f[p] = GUI_WINBG

\* A console whose text cursor stands on a cell.
Stands(con, r, c) == con \in Consoles /\ Spare(con.fb) /\ con.x = Left(c) /\ con.y = Top(r)
IsConsole(con) == \E r \in 0 .. Rows - 1, c \in 0 .. Cols - 1 : Stands(con, r, c)

\* Nothing outside the window's content differs.
Around(f, g) == \A p \in Pixels : ~InContent(p) => g[p] = f[p]

Grid(f) == [r \in 0 .. Rows - 1 |-> [c \in 0 .. Cols - 1 |-> Cell(f, r, c)]]

\* The terminal that a console is.
Term(con) == [cells |-> Grid(con.fb),
              row |-> (con.y - content_y) \div FONT_H, col |-> (con.x - content_x) \div FONT_W]

LEMMA TermIs ==
    ASSUME NEW r \in 0 .. Rows - 1, NEW c \in 0 .. Cols - 1, NEW con, Stands(con, r, c)
    PROVE  Term(con) = [cells |-> Grid(con.fb), row |-> r, col |-> c]
<1>1. (Left(c) - content_x) \div FONT_W = c /\ (Top(r) - content_y) \div FONT_H = r
  BY ColumnsAre, LinesAre DEF Columns, Lines
<1>2. con.x = Left(c) /\ con.y = Top(r)
  BY DEF Stands
<1> QED  BY <1>1, <1>2 DEF Term

LEMMA InContentIs ==
    ASSUME NEW p, p[1] \in Int, p[2] \in Int
    PROVE  InRect(p, content_x, content_y, content_w, content_h) <=> InContent(p)
BY SizesAre, ContentIs, InRectIs DEF Sizes, InContent

LEMMA CellRect ==
    ASSUME NEW p \in Pixels, NEW r \in 0 .. Rows - 1, NEW c \in 0 .. Cols - 1,
           InRect(p, Left(c), Top(r), FONT_W, FONT_H)
    PROVE  /\ InContent(p) /\ p[2] < Top(Rows)
           /\ p[1] - Left(c) \in Nat /\ p[2] - Top(r) \in Nat
<1>0. /\ c \in 0 .. Cols /\ Cols \in 0 .. Cols /\ c < Cols /\ Cols \in Nat
      /\ r \in 0 .. Rows /\ Rows \in 0 .. Rows /\ r < Rows /\ Rows \in Nat
  BY ColumnsAre, LinesAre DEF Columns, Lines
<1>1. /\ Left(c) \in Nat /\ Left(c) >= content_x /\ Left(c) + FONT_W <= Left(Cols) /\ Left(Cols) <= Right
      /\ Left(Cols) \in Nat
  BY <1>0, ColumnsAre DEF Columns
<1>2. /\ Top(r) \in Nat /\ Top(r) >= content_y /\ Top(r) + FONT_H <= Top(Rows) /\ Top(Rows) <= Bottom
      /\ Top(Rows) \in Nat
  BY <1>0, LinesAre DEF Lines
<1>3. /\ FONT_W \in Nat /\ FONT_H \in Nat /\ Right \in Nat /\ Bottom \in Nat
      /\ content_x \in Nat /\ content_y \in Nat
  BY SizesAre DEF Sizes
<1>4. p[1] \in Nat /\ p[2] \in Nat
  BY PixelIs
<1>5. Left(c) <= p[1] /\ p[1] < Left(c) + FONT_W /\ Top(r) <= p[2] /\ p[2] < Top(r) + FONT_H
  BY <1>1, <1>2, <1>3, <1>4, InRectIs
<1>6. content_x <= p[1] /\ p[1] < Right /\ p[1] - Left(c) \in Nat
  BY <1>1, <1>3, <1>4, <1>5
<1>7. content_y <= p[2] /\ p[2] < Bottom /\ p[2] < Top(Rows) /\ p[2] - Top(r) \in Nat
  BY <1>2, <1>3, <1>4, <1>5
<1> QED  BY <1>6, <1>7 DEF InContent

\* A character drawn in a cell is what that cell shows, and no other changes.
LEMMA PutCharIs ==
    ASSUME NEW f \in Framebuffer, Spare(f), NEW r \in 0 .. Rows - 1, NEW c \in 0 .. Cols - 1, NEW char
    PROVE  LET g == fb_put_char(f, Left(c), Top(r), char)
           IN  /\ g \in Framebuffer /\ Spare(g) /\ Around(f, g)
               /\ Grid(g) = [Grid(f) EXCEPT ![r][c] = Face(char)]
<1> DEFINE g == fb_put_char(f, Left(c), Top(r), char)
           In(p) == InRect(p, Left(c), Top(r), FONT_W, FONT_H)
<1>1. \A p \in Pixels : g[p] = IF In(p) THEN Glyph(Face(char), p[1] - Left(c), p[2] - Top(r)) ELSE f[p]
  BY DEF fb_put_char
<1>2. \A p \in Pixels : In(p) => Glyph(Face(char), p[1] - Left(c), p[2] - Top(r)) \in PixelValue
  BY CellRect, GlyphIs, FaceIs
<1>3. g \in Framebuffer
  <2>1. g = [p \in Pixels |-> IF In(p) THEN Glyph(Face(char), p[1] - Left(c), p[2] - Top(r)) ELSE f[p]]
    BY DEF fb_put_char
  <2>2. \A p \in Pixels : (IF In(p) THEN Glyph(Face(char), p[1] - Left(c), p[2] - Top(r)) ELSE f[p]) \in PixelValue
    BY <1>2 DEF Framebuffer
  <2> HIDE DEF g, In
  <2> QED  BY <2>1, <2>2 DEF Framebuffer
<1> HIDE DEF g
<1>4. \A p \in Pixels : In(p) => InContent(p) /\ p[2] < Top(Rows)
  BY CellRect
<1>10. Top(Rows) \in Nat
  BY LinesAre DEF Lines
<1>5. Spare(g)
  <2> SUFFICES ASSUME NEW p \in Pixels, InContent(p), Top(Rows) <= p[2]  PROVE g[p] = GUI_WINBG
    BY DEF Spare
  <2>1. ~In(p)
    BY <1>4, <1>10, PixelIs
  <2> QED  BY <2>1, <1>1 DEF Spare
<1>6. Around(f, g)
  BY <1>1, <1>4 DEF Around
<1>7. Cell(g, r, c) = Face(char)
  <2>1. ASSUME NEW i \in 0 .. FONT_W - 1, NEW j \in 0 .. FONT_H - 1  PROVE g[Dot(r, c, i, j)] = Glyph(Face(char), i, j)
    <3> DEFINE p == Dot(r, c, i, j)
    <3>1. p \in Pixels /\ p[1] = Left(c) + i /\ p[2] = Top(r) + j
      BY DotIs
    <3>2. In(p)
      BY CellsApart
    <3>3. Left(c) \in Nat /\ Top(r) \in Nat
      BY ColumnsAre, LinesAre DEF Columns, Lines
    <3>5. i \in Nat /\ j \in Nat
      BY SizesAre DEF Sizes
    <3> HIDE DEF p, In
    <3>4. p[1] - Left(c) = i /\ p[2] - Top(r) = j
      BY <3>1, <3>3, <3>5
    <3> QED  BY <3>1, <3>2, <3>4, <1>1 DEF p
  <2> QED  BY <2>1, CellShows, FaceIs
<1>8. ASSUME NEW q \in 0 .. Rows - 1, NEW d \in 0 .. Cols - 1, ~(q = r /\ d = c)  PROVE Cell(g, q, d) = Cell(f, q, d)
  <2>1. ASSUME NEW i \in 0 .. FONT_W - 1, NEW j \in 0 .. FONT_H - 1  PROVE g[Dot(q, d, i, j)] = f[Dot(q, d, i, j)]
    <3> DEFINE p == Dot(q, d, i, j)
    <3>1. ~In(p)
      BY <1>8, CellsApart
    <3>2. p \in Pixels
      BY DotIs
    <3> HIDE DEF p, In
    <3>3. g[p] = f[p]
      BY <3>1, <3>2, <1>1
    <3> QED  BY <3>3 DEF p
  <2>2. Alike(g, q, d, f, q, d)
    BY <2>1 DEF Alike
  <2> QED  BY <2>2, CellSame
<1>9. Grid(g) = [Grid(f) EXCEPT ![r][c] = Face(char)]
  BY <1>7, <1>8 DEF Grid
<1> QED  BY <1>3, <1>5, <1>6, <1>9 DEF g

\* To fill a cell with the background is to draw the blank.
LEMMA FillIsBlank ==
    ASSUME NEW f, NEW x, NEW y
    PROVE  fb_fill_rect(f, x, y, FONT_W, FONT_H, GUI_WINBG) = fb_put_char(f, x, y, Blank)
BY FaceIs DEF fb_fill_rect, fb_put_char, Glyph

-----------------------------------------------------------------------------
(* The operations of the console are those of the terminal. *)

Scrolled(f) ==
    [p \in Pixels |-> IF InContent(p)
                      THEN IF p[2] < Bottom - FONT_H THEN f[<<p[1], p[2] + FONT_H>>] ELSE GUI_WINBG
                      ELSE f[p]]

LEMMA ScrolledIs ==
    ASSUME NEW con \in Consoles
    PROVE  win_scroll(con) = [fb |-> Scrolled(con.fb), x |-> con.x,
                              y |-> IF con.y >= content_y + FONT_H THEN con.y - FONT_H ELSE con.y]
<1> DEFINE Moved(p) == IF p[2] < (content_y + content_h) - FONT_H THEN con.fb[<<p[1], p[2] + FONT_H>>] ELSE GUI_WINBG
           S == [p \in Pixels |-> IF InRect(p, content_x, content_y, content_w, content_h)
                                  THEN Moved(p) ELSE con.fb[p]]
           Y == IF con.y >= content_y + FONT_H THEN con.y - FONT_H ELSE con.y
<1>1. ASSUME NEW p \in Pixels
      PROVE  /\ InRect(p, content_x, content_y, content_w, content_h) <=> InContent(p)
             /\ Moved(p) = IF p[2] < Bottom - FONT_H THEN con.fb[<<p[1], p[2] + FONT_H>>] ELSE GUI_WINBG
  BY InContentIs, PixelIs DEF Bottom
<1>2. S = Scrolled(con.fb)
  <2> HIDE DEF Moved
  <2> QED  BY <1>1 DEF Scrolled
<1>3. win_scroll(con) = [fb |-> S, x |-> con.x, y |-> Y]
  BY DEF win_scroll
<1> HIDE DEF S
<1> QED  BY <1>2, <1>3

\* Every row shows what the row below it showed, the last one nothing.
LEMMA ScrollIs ==
    ASSUME NEW f \in Framebuffer, Spare(f)
    PROVE  LET g == Scrolled(f)
           IN  /\ g \in Framebuffer /\ Spare(g) /\ Around(f, g)
               /\ \A r \in 0 .. Rows - 1, c \in 0 .. Cols - 1 :
                      Cell(g, r, c) = IF r + 1 < Rows THEN Cell(f, r + 1, c) ELSE Blank
<1> DEFINE g == Scrolled(f)
           Below(p) == <<p[1], p[2] + FONT_H>>
           Goes(p) == InContent(p) /\ p[2] < Bottom - FONT_H
<1>0. /\ FONT_W \in Nat /\ FONT_H \in Nat /\ Right \in Nat /\ Bottom \in Nat /\ FONT_H > 0
      /\ content_x \in Nat /\ content_y \in Nat /\ Right <= FB_WIDTH /\ Bottom <= FB_HEIGHT
      /\ FB_WIDTH \in Nat /\ FB_HEIGHT \in Nat
  BY SizesAre DEF Sizes
<1>1. \A p \in Pixels : g[p] = IF InContent(p) THEN IF p[2] < Bottom - FONT_H THEN f[Below(p)] ELSE GUI_WINBG
                               ELSE f[p]
  BY DEF Scrolled
<1>2. ASSUME NEW p \in Pixels, Goes(p)  PROVE Below(p) \in Pixels /\ InContent(Below(p))
  <2>1. p[1] \in Nat /\ p[2] \in Nat
    BY PixelIs
  <2>2. /\ content_x <= p[1] /\ p[1] < Right /\ content_y <= p[2] + FONT_H /\ p[2] + FONT_H < Bottom
        /\ p[2] + FONT_H \in Nat
    BY <2>1, <1>0, <1>2 DEF InContent
  <2>3. p[1] < FB_WIDTH /\ p[2] + FONT_H < FB_HEIGHT
    BY <2>1, <2>2, <1>0
  <2>4. Below(p) \in Pixels
    BY <2>1, <2>2, <2>3, IsPixel
  <2> QED  BY <2>2, <2>4 DEF InContent
<1>3. g \in Framebuffer
  <2>1. \A p \in Pixels : (IF InContent(p) THEN IF p[2] < Bottom - FONT_H THEN f[Below(p)] ELSE GUI_WINBG
                           ELSE f[p]) \in PixelValue
    <3> HIDE DEF Below
    <3> QED  BY <1>2, BackgroundIs DEF Framebuffer
  <2>2. g = [p \in Pixels |-> IF InContent(p) THEN IF p[2] < Bottom - FONT_H THEN f[Below(p)] ELSE GUI_WINBG
                              ELSE f[p]]
    BY DEF Scrolled
  <2> HIDE DEF g, Below
  <2> QED  BY <2>1, <2>2 DEF Framebuffer
<1> HIDE DEF g
<1>4. Around(f, g)
  BY <1>1 DEF Around
<1>5. Top(Rows) \in Nat /\ Bottom < Top(Rows) + FONT_H /\ Rows \in Nat
  BY LinesAre DEF Lines
<1>6. Spare(g)
  <2> SUFFICES ASSUME NEW p \in Pixels, InContent(p), Top(Rows) <= p[2]  PROVE g[p] = GUI_WINBG
    BY DEF Spare
  <2>1. ~(p[2] < Bottom - FONT_H)
    BY <1>0, <1>5, PixelIs
  <2> QED  BY <2>1, <1>1
<1>7. ASSUME NEW r \in 0 .. Rows - 1, NEW c \in 0 .. Cols - 1
      PROVE  Cell(g, r, c) = IF r + 1 < Rows THEN Cell(f, r + 1, c) ELSE Blank
  <2>1. CASE r + 1 < Rows
    <3>1. r + 1 \in 0 .. Rows - 1 /\ Top(r + 1) = Top(r) + FONT_H /\ Top(r) \in Nat
      BY <2>1, LinesAre DEF Lines
    <3>2. ASSUME NEW i \in 0 .. FONT_W - 1, NEW j \in 0 .. FONT_H - 1
          PROVE  g[Dot(r, c, i, j)] = f[Dot(r + 1, c, i, j)]
      <4> DEFINE p == Dot(r, c, i, j)
                 q == Dot(r + 1, c, i, j)
      <4>1. /\ p \in Pixels /\ p[1] = Left(c) + i /\ p[2] = Top(r) + j /\ p[1] \in Nat /\ p[2] \in Nat
            /\ content_x <= p[1] /\ p[1] < Right /\ content_y <= p[2] /\ p[2] < Bottom
        BY DotIs
      <4>2. /\ q \in Pixels /\ q[1] = Left(c) + i /\ q[2] = Top(r + 1) + j /\ q[2] \in Nat /\ q[2] < Bottom
        BY <3>1, DotIs
      <4> HIDE DEF p, q
      <4>3. j \in Nat
        BY <1>0
      <4>4. q[2] = p[2] + FONT_H /\ q[1] = p[1]
        BY <4>1, <4>2, <4>3, <3>1, <1>0
      <4>5. Goes(p)
        BY <4>1, <4>2, <4>4, <1>0 DEF InContent
      <4>6. q = Below(p)
        BY <4>2, <4>4, PixelIs
      <4> QED  BY <4>1, <4>5, <4>6, <1>1 DEF p, q
    <3>3. Alike(g, r, c, f, r + 1, c)
      BY <3>2 DEF Alike
    <3>4. Cell(g, r, c) = Cell(f, r + 1, c)
      BY <3>1, <3>3, CellSame
    <3> QED  BY <2>1, <3>4
  <2>2. CASE ~(r + 1 < Rows)
    <3>1. r = Rows - 1 /\ Top(r + 1) = Top(r) + FONT_H /\ Top(r) \in Nat /\ r + 1 = Rows
      BY <2>2, <1>5, LinesAre DEF Lines
    <3>2. ASSUME NEW i \in 0 .. FONT_W - 1, NEW j \in 0 .. FONT_H - 1
          PROVE  g[Dot(r, c, i, j)] = Glyph(Blank, i, j)
      <4> DEFINE p == Dot(r, c, i, j)
      <4>1. /\ p \in Pixels /\ p[1] = Left(c) + i /\ p[2] = Top(r) + j /\ p[1] \in Nat /\ p[2] \in Nat
            /\ content_x <= p[1] /\ p[1] < Right /\ content_y <= p[2] /\ p[2] < Bottom
        BY DotIs
      <4>2. InContent(p)
        BY <4>1 DEF InContent
      <4>3. j \in Nat
        BY <1>0
      <4> HIDE DEF p
      <4>4. CASE Goes(p)
        <5>1. Below(p) \in Pixels /\ InContent(Below(p))
          BY <4>1, <4>4, <1>2
        <5>2. Below(p)[2] >= Top(Rows)
          BY <4>1, <4>3, <3>1, <1>0, <1>5
        <5>3. f[Below(p)] = GUI_WINBG
          BY <5>1, <5>2 DEF Spare
        <5> QED  BY <4>1, <4>4, <5>3, <1>1 DEF p, Glyph
      <4>5. CASE ~Goes(p)
        BY <4>1, <4>2, <4>5, <1>1 DEF p, Glyph
      <4> QED  BY <4>4, <4>5
    <3>3. Cell(g, r, c) = Blank
      BY <3>2, BackgroundIs, CellShows
    <3> QED  BY <2>2, <3>3
  <2> QED  BY <2>1, <2>2
<1> QED  BY <1>3, <1>4, <1>6, <1>7 DEF g

LEMMA NewlineIs ==
    ASSUME NEW r \in 0 .. Rows - 1, NEW con \in Consoles, Spare(con.fb), con.y = Top(r),
           NEW t, t.cells = Grid(con.fb), t.row = r
    PROVE  LET next == win_newline(con)
           IN  /\ Stands(next, IF r + 1 < Rows THEN r + 1 ELSE r, 0)
               /\ Around(con.fb, next.fb)
               /\ Term(next) = AsTerminal!Newline(t)
<1> DEFINE next == win_newline(con)
           down == [fb |-> con.fb, x |-> content_x, y |-> con.y + FONT_H]
<1>0. /\ FONT_H \in Nat \ {0} /\ content_x \in Nat /\ content_y \in Nat /\ Bottom \in Nat
      /\ Bottom = content_y + content_h
  BY SizesAre DEF Sizes
<1>1. con \in Consoles /\ con.y \in Nat
      /\ con.fb \in Framebuffer /\ Spare(con.fb) /\ con.y = Top(r)
  BY DEF Consoles
<1>3. next = IF down.y + FONT_H > content_y + content_h THEN win_scroll(down) ELSE down
  BY DEF win_newline
<1>4. down \in Consoles
  <2>1. con.y + FONT_H \in Nat
    BY <1>0, <1>1
  <2> HIDE DEF next
  <2> QED  BY <1>0, <1>1, <2>1 DEF Consoles
<1>5. /\ 0 \in 0 .. Cols - 1 /\ Left(0) = content_x /\ Cols \in Nat \ {0}
  BY ColumnsAre DEF Columns
<1>6. Top(r) \in Nat /\ Top(r + 1) = Top(r) + FONT_H /\ Rows \in Nat \ {0} /\ r + 1 \in 0 .. Rows
      /\ Top(r + 1) \in Nat /\ Top(r) >= content_y
  BY LinesAre DEF Lines
<1>8. CASE r + 1 < Rows
  <2>1. r + 1 \in 0 .. Rows - 1 /\ Rows \in 0 .. Rows /\ r + 1 < Rows
    BY <1>8, <1>6
  <2>2. Top(r + 1) + FONT_H <= Top(Rows) /\ Top(Rows) <= Bottom /\ Top(Rows) \in Nat
    BY <2>1, <1>6, LinesAre DEF Lines
  <2>3. ~(down.y + FONT_H > content_y + content_h) /\ down.y = Top(r + 1)
    BY <2>2, <1>0, <1>1, <1>6
  <2>4. next = down
    BY <1>3, <2>3
  <2> HIDE DEF next
  <2>5. Stands(down, r + 1, 0)
    BY <1>1, <1>4, <1>5, <2>3 DEF Stands
  <2>6. Term(down) = [cells |-> Grid(con.fb), row |-> r + 1, col |-> 0]
    BY <2>1, <2>5, <1>5, TermIs
  <2>7. AsTerminal!Newline(t) = [cells |-> Grid(con.fb), row |-> r + 1, col |-> 0]
    BY <1>8 DEF AsTerminal!Newline
  <2>8. Around(con.fb, down.fb)
    BY DEF Around
  <2> HIDE DEF down
  <2> QED  BY <1>8, <2>4, <2>5, <2>6, <2>7, <2>8 DEF next
<1>9. CASE ~(r + 1 < Rows)
  <2>1. r + 1 = Rows
    BY <1>9, <1>6
  <2>2. Bottom < Top(Rows) + FONT_H
    BY LinesAre DEF Lines
  <2>3. down.y + FONT_H > content_y + content_h /\ down.y = Top(r) + FONT_H
    BY <2>1, <2>2, <1>0, <1>1, <1>6
  <2>4. next = win_scroll(down)
    BY <1>3, <2>3
  <2>5. down.fb = con.fb /\ down.x = content_x /\ down.y = Top(r) + FONT_H
    BY <2>3
  <2> HIDE DEF next, down
  <2>6. next = [fb |-> Scrolled(con.fb), x |-> content_x,
                y |-> IF down.y >= content_y + FONT_H THEN down.y - FONT_H ELSE down.y]
    BY <2>4, <2>5, <1>4, ScrolledIs
  <2>7. down.y >= content_y + FONT_H /\ down.y - FONT_H = Top(r)
    BY <2>5, <1>0, <1>6
  <2>8. next = [fb |-> Scrolled(con.fb), x |-> content_x, y |-> Top(r)]
    BY <2>6, <2>7
  <2> DEFINE g == Scrolled(con.fb)
  <2>9. /\ g \in Framebuffer /\ Spare(g) /\ Around(con.fb, g)
        /\ \A q \in 0 .. Rows - 1, d \in 0 .. Cols - 1 :
               Cell(g, q, d) = IF q + 1 < Rows THEN Cell(con.fb, q + 1, d) ELSE Blank
    BY <1>1, ScrollIs
  <2> HIDE DEF g
  <2>10. next.fb = g /\ next.x = content_x /\ next.y = Top(r) /\ next \in Consoles
    BY <2>8, <2>9, <1>0, <1>6 DEF g, Consoles
  <2>11. Stands(next, r, 0)
    BY <2>9, <2>10, <1>5 DEF Stands
  <2>12. Term(next) = [cells |-> Grid(g), row |-> r, col |-> 0]
    BY <2>10, <2>11, <1>5, TermIs
  <2>13. Grid(g) = [q \in 0 .. Rows - 1 |-> IF q + 1 < Rows THEN Grid(con.fb)[q + 1] ELSE [d \in 0 .. Cols - 1 |-> Blank]]
    <3>1. ASSUME NEW q \in 0 .. Rows - 1
          PROVE  [d \in 0 .. Cols - 1 |-> Cell(g, q, d)]
                 = IF q + 1 < Rows THEN Grid(con.fb)[q + 1] ELSE [d \in 0 .. Cols - 1 |-> Blank]
      <4>1. CASE q + 1 < Rows
        <5>1. q + 1 \in 0 .. Rows - 1
          BY <4>1, <1>6
        <5>2. Grid(con.fb)[q + 1] = [d \in 0 .. Cols - 1 |-> Cell(con.fb, q + 1, d)]
          BY <5>1 DEF Grid
        <5>3. \A d \in 0 .. Cols - 1 : Cell(g, q, d) = Cell(con.fb, q + 1, d)
          BY <4>1, <2>9
        <5> QED  BY <4>1, <5>2, <5>3
      <4>2. CASE ~(q + 1 < Rows)
        BY <4>2, <2>9
      <4> QED  BY <4>1, <4>2
    <3> QED  BY <3>1 DEF Grid
  <2>14. AsTerminal!Newline(t) = [cells |-> Grid(g), row |-> r, col |-> 0]
    BY <1>9, <2>13 DEF AsTerminal!Newline, AsTerminal!EmptyRow
  <2> QED  BY <1>9, <2>9, <2>10, <2>11, <2>12, <2>14 DEF next
<1> QED  BY <1>8, <1>9

\* What an operation on the console must do.
Follows(con, next, t) == IsConsole(next) /\ Around(con.fb, next.fb) /\ Term(next) = t

LEMMA AroundIsOrder ==
    ASSUME NEW f, NEW g, NEW h
    PROVE  Around(f, f) /\ (Around(f, g) /\ Around(g, h) => Around(f, h))
BY DEF Around

LEMMA ConsoleIs ==
    ASSUME NEW con, IsConsole(con)
    PROVE  con \in Consoles /\ con.fb \in Framebuffer /\ Spare(con.fb)
BY DEF IsConsole, Stands, Consoles

LEMMA NewlineFollows ==
    ASSUME NEW con, IsConsole(con)
    PROVE  Follows(con, win_newline(con), AsTerminal!Newline(Term(con)))
<1>1. PICK r \in 0 .. Rows - 1, c \in 0 .. Cols - 1 : Stands(con, r, c)
  BY DEF IsConsole
<1>2. Term(con).cells = Grid(con.fb) /\ Term(con).row = r
  BY <1>1, TermIs
<1>3. con \in Consoles /\ Spare(con.fb) /\ con.y = Top(r)
  BY <1>1 DEF Stands
<1> DEFINE next == win_newline(con)
           t == Term(con)
           q == IF r + 1 < Rows THEN r + 1 ELSE r
<1>6. t.cells = Grid(con.fb) /\ t.row = r
  BY <1>2
<1> HIDE DEF next, t
<1>4. Stands(next, q, 0) /\ Around(con.fb, next.fb) /\ Term(next) = AsTerminal!Newline(t)
  BY <1>3, <1>6, NewlineIs DEF next
<1>5. q \in 0 .. Rows - 1 /\ 0 \in 0 .. Cols - 1
  BY LinesAre, ColumnsAre DEF Lines, Columns
<1> HIDE DEF q
<1> QED  BY <1>4, <1>5 DEF Follows, IsConsole, next, t

LEMMA PutFollows ==
    ASSUME NEW con, IsConsole(con), NEW char
    PROVE  Follows(con, put(con, char), AsTerminal!Put(Term(con), char))
<1>1. PICK r \in 0 .. Rows - 1, c \in 0 .. Cols - 1 : Stands(con, r, c)
  BY DEF IsConsole
<1>2. Term(con) = [cells |-> Grid(con.fb), row |-> r, col |-> c]
  BY <1>1, TermIs
<1>3. con \in Consoles /\ con.fb \in Framebuffer /\ Spare(con.fb) /\ con.x = Left(c) /\ con.y = Top(r)
  BY <1>1 DEF Stands, Consoles
<1> DEFINE g == fb_put_char(con.fb, Left(c), Top(r), char)
           next == [fb |-> g, x |-> Left(c) + FONT_W, y |-> Top(r)]
           written == [cells |-> [Grid(con.fb) EXCEPT ![r][c] = Face(char)], row |-> r, col |-> c + 1]
<1>4. put(con, char) = IF char = NL THEN win_newline(con)
                       ELSE IF next.x + FONT_W > content_x + content_w THEN win_newline(next) ELSE next
  BY <1>3 DEF put
<1>5. AsTerminal!Put(Term(con), char) = IF char = NL THEN AsTerminal!Newline(Term(con))
                                        ELSE IF written.col = Cols THEN AsTerminal!Newline(written) ELSE written
  BY <1>2, FaceIs DEF AsTerminal!Put
<1>6. g \in Framebuffer /\ Spare(g) /\ Around(con.fb, g) /\ Grid(g) = [Grid(con.fb) EXCEPT ![r][c] = Face(char)]
  BY <1>3, PutCharIs
<1>7. /\ Left(c) \in Nat /\ c + 1 \in 0 .. Cols /\ Left(c + 1) = Left(c) + FONT_W /\ Cols \in Nat
      /\ Left(c + 1) \in Nat /\ Left(Cols) <= Right /\ Right < Left(Cols) + FONT_W /\ Left(Cols) \in Nat
      /\ c + 1 < Cols => Left(c + 1) + FONT_W <= Left(Cols)
  BY ColumnsAre DEF Columns
<1>8. Top(r) \in Nat
  BY LinesAre DEF Lines
<1>9. FONT_W \in Nat /\ Right \in Nat /\ Right = content_x + content_w
  BY SizesAre DEF Sizes
<1> HIDE DEF g
<1>10. next \in Consoles /\ next.fb = g /\ next.y = Top(r) /\ next.x = Left(c + 1)
  BY <1>6, <1>7, <1>8, <1>9 DEF Consoles
<1>11. written.cells = Grid(g) /\ written.row = r /\ written.col = c + 1
  BY <1>6
<1>12. CASE char = NL
  BY <1>4, <1>5, <1>12, NewlineFollows
<1>13. CASE char # NL /\ c + 1 < Cols
  <2>1. c + 1 \in 0 .. Cols - 1
    BY <1>13, <1>7
  <2>2. ~(next.x + FONT_W > content_x + content_w) /\ written.col # Cols
    BY <1>7, <1>9, <1>10, <1>11, <1>13
  <2>3. Stands(next, r, c + 1)
    BY <1>6, <1>10 DEF Stands
  <2>4. IsConsole(next)
    BY <2>1, <2>3 DEF IsConsole
  <2>5. Term(next) = [cells |-> Grid(g), row |-> r, col |-> c + 1]
    <3> HIDE DEF next
    <3> QED  BY <2>1, <2>3, <1>10, TermIs
  <2>6. written = [cells |-> Grid(g), row |-> r, col |-> c + 1]
    BY <1>6
  <2>7. put(con, char) = next /\ AsTerminal!Put(Term(con), char) = written
    <3> HIDE DEF next, written
    <3> QED  BY <1>4, <1>5, <2>2, <1>13
  <2>8. Around(con.fb, next.fb)
    BY <1>6, <1>10
  <2> HIDE DEF next, written
  <2> QED  BY <2>4, <2>5, <2>6, <2>7, <2>8 DEF Follows
<1>14. CASE char # NL /\ ~(c + 1 < Cols)
  <2>1. c + 1 = Cols
    BY <1>14, <1>7
  <2>2. next.x + FONT_W > content_x + content_w /\ written.col = Cols
    BY <2>1, <1>7, <1>9, <1>10, <1>11
  <2> HIDE DEF next, written
  <2>3. put(con, char) = win_newline(next) /\ AsTerminal!Put(Term(con), char) = AsTerminal!Newline(written)
    BY <1>4, <1>5, <2>2, <1>14
  <2> DEFINE last == win_newline(next)
             q == IF r + 1 < Rows THEN r + 1 ELSE r
  <2>4. Stands(last, q, 0) /\ Around(next.fb, last.fb) /\ Term(last) = AsTerminal!Newline(written)
    <3> HIDE DEF last
    <3> QED  BY <1>6, <1>10, <1>11, NewlineIs DEF last
  <2>5. q \in 0 .. Rows - 1 /\ 0 \in 0 .. Cols - 1
    BY LinesAre, ColumnsAre DEF Lines, Columns
  <2> HIDE DEF last, q
  <2>6. Around(con.fb, last.fb)
    BY <1>6, <1>10, <2>4, AroundIsOrder
  <2> QED  BY <2>3, <2>4, <2>5, <2>6 DEF Follows, IsConsole, last
<1> QED  BY <1>12, <1>13, <1>14

IsPrint(g, con, text) ==
    g = [k \in 0 .. Len(text) |-> IF k = 0 THEN con ELSE put(g[k - 1], text[k])]
IsShow(h, t, text) ==
    h = [k \in 0 .. Len(text) |-> IF k = 0 THEN t ELSE AsTerminal!Put(h[k - 1], text[k])]

\* Character by character.
LEMMA PrintFollows ==
    ASSUME NEW con, IsConsole(con), NEW text \in Seq(Byte)
    PROVE  Follows(con, gui_print(con, text), AsTerminal!Show(Term(con), text))
<1> DEFINE A == {a \in Consoles : IsConsole(a)}
           n == Len(text)
           F == [k \in 1 .. n |-> [a \in A |-> put(a, text[k])]]
<1>1. n \in Nat
  OBVIOUS
<1>2. con \in A
  BY ConsoleIs
<1>3. ASSUME NEW a \in A, NEW k \in 1 .. n
      PROVE  Follows(a, put(a, text[k]), AsTerminal!Put(Term(a), text[k])) /\ put(a, text[k]) \in A
  <2>1. Follows(a, put(a, text[k]), AsTerminal!Put(Term(a), text[k]))
    BY <1>1, PutFollows
  <2>2. IsConsole(put(a, text[k]))
    BY <2>1 DEF Follows
  <2> QED  BY <2>1, <2>2, ConsoleIs
<1> HIDE DEF n, A
<1>4. F \in [1 .. n -> [A -> A]]
  BY <1>3
<1>5. PICK f \in [0 .. n -> A] : Recurs(f, n, con, F)
  <2> HIDE DEF F
  <2> QED  BY <1>1, <1>2, <1>4, RecursionExists
<1>6. ASSUME NEW k \in 0 .. n  PROVE f[k] = IF k = 0 THEN con ELSE put(f[k - 1], text[k])
  <2>1. k # 0 => k \in 1 .. n /\ f[k - 1] \in A
    BY <1>1
  <2> QED  BY <2>1, <1>5 DEF Recurs
<1>7. IsPrint(f, con, text)
  BY <1>6 DEF IsPrint, n
<1> DEFINE g == CHOOSE h : IsPrint(h, con, text)
           h == CHOOSE s : IsShow(s, Term(con), text)
           s == [k \in 0 .. n |-> Term(f[k])]
<1>8. IsPrint(g, con, text) /\ gui_print(con, text) = g[n]
  <2>1. IsPrint(g, con, text)
    BY <1>7
  <2> QED  BY <2>1 DEF gui_print, IsPrint, n
<1>9. ASSUME NEW k \in 0 .. n  PROVE s[k] = IF k = 0 THEN Term(con) ELSE AsTerminal!Put(s[k - 1], text[k])
  <2>1. CASE k = 0
    BY <2>1, <1>6
  <2>2. CASE k # 0
    <3>1. k \in 1 .. n /\ k - 1 \in 0 .. n /\ f[k - 1] \in A
      BY <2>2, <1>1
    <3>2. f[k] = put(f[k - 1], text[k])
      BY <2>2, <1>6
    <3>3. Term(f[k]) = AsTerminal!Put(Term(f[k - 1]), text[k])
      BY <3>1, <3>2, <1>3 DEF Follows
    <3> QED  BY <2>2, <3>1, <3>3
  <2> QED  BY <2>1, <2>2
<1> HIDE DEF s
<1>10. IsShow(s, Term(con), text)
  <2>1. s = [k \in 0 .. n |-> s[k]]
    BY DEF s
  <2> QED  BY <2>1, <1>9 DEF IsShow, n
<1>11. IsShow(h, Term(con), text) /\ AsTerminal!Show(Term(con), text) = h[n]
  <2>1. IsShow(h, Term(con), text)
    BY <1>10
  <2> QED  BY <2>1 DEF AsTerminal!Show, IsShow, n
<1> HIDE DEF g, h
<1>12. \A k \in 0 .. n : g[k] = IF k = 0 THEN con ELSE put(g[k - 1], text[k])
  BY <1>8 DEF IsPrint, n
<1>13. \A k \in 0 .. n : h[k] = IF k = 0 THEN Term(con) ELSE AsTerminal!Put(h[k - 1], text[k])
  BY <1>11 DEF IsShow, n
<1> DEFINE T == {k \in 0 .. n : g[k] \in A /\ Follows(con, g[k], h[k])}
<1>14. 0 \in T
  <2>1. 0 \in 0 .. n /\ g[0] = con /\ h[0] = Term(con)
    BY <1>1, <1>12, <1>13
  <2>2. Follows(con, con, Term(con))
    BY AroundIsOrder DEF Follows
  <2> QED  BY <2>1, <2>2, <1>2
<1>15. ASSUME NEW k \in 0 .. n - 1, k \in T  PROVE k + 1 \in T
  <2> DEFINE j == k + 1
  <2>1. j \in 0 .. n /\ j \in 1 .. n /\ j # 0 /\ j - 1 = k /\ k \in 0 .. n
    BY <1>1
  <2> HIDE DEF j
  <2>2. g[j] = put(g[k], text[j]) /\ h[j] = AsTerminal!Put(h[k], text[j])
    BY <2>1, <1>12, <1>13
  <2>3. g[k] \in A /\ Follows(con, g[k], h[k])
    BY <1>15
  <2>4. Follows(g[k], put(g[k], text[j]), AsTerminal!Put(Term(g[k]), text[j])) /\ put(g[k], text[j]) \in A
    BY <2>1, <2>3, <1>3
  <2>5. h[k] = Term(g[k])
    BY <2>3 DEF Follows
  <2>6. Follows(con, g[j], h[j])
    BY <2>2, <2>3, <2>4, <2>5, AroundIsOrder DEF Follows
  <2>7. j \in T
    BY <2>1, <2>2, <2>4, <2>6
  <2> HIDE DEF T
  <2> QED  BY <2>7 DEF j
<1>16. \A k \in 0 .. n : k \in T
  <2> HIDE DEF T
  <2> QED  BY <1>1, <1>14, <1>15, CountingUp
<1>17. n \in T
  BY <1>1, <1>16
<1> QED  BY <1>8, <1>11, <1>17

LEMMA EraseCell ==
    ASSUME NEW con, IsConsole(con), NEW r \in 0 .. Rows - 1, NEW c \in 0 .. Cols - 1
    PROVE  Follows(con, [fb |-> fb_fill_rect(con.fb, Left(c), Top(r), FONT_W, FONT_H, GUI_WINBG),
                         x |-> Left(c), y |-> Top(r)],
                   [cells |-> [Grid(con.fb) EXCEPT ![r][c] = Blank], row |-> r, col |-> c])
<1> DEFINE g == fb_put_char(con.fb, Left(c), Top(r), Blank)
           next == [fb |-> g, x |-> Left(c), y |-> Top(r)]
<1>1. con.fb \in Framebuffer /\ Spare(con.fb) /\ Blank \in Printable
  BY ConsoleIs, BackgroundIs
<1>2. g \in Framebuffer /\ Spare(g) /\ Around(con.fb, g) /\ Grid(g) = [Grid(con.fb) EXCEPT ![r][c] = Blank]
  <2>1. /\ g \in Framebuffer /\ Spare(g) /\ Around(con.fb, g)
        /\ Grid(g) = [Grid(con.fb) EXCEPT ![r][c] = Face(Blank)]
    BY <1>1, PutCharIs
  <2>2. Face(Blank) = Blank
    BY FaceIs
  <2> HIDE DEF g
  <2> QED  BY <2>1, <2>2
<1>3. g = fb_fill_rect(con.fb, Left(c), Top(r), FONT_W, FONT_H, GUI_WINBG)
  BY FillIsBlank
<1> HIDE DEF g
<1>4. Left(c) \in Nat /\ Top(r) \in Nat
  BY ColumnsAre, LinesAre DEF Columns, Lines
<1>5. next \in Consoles /\ next.fb = g /\ next.x = Left(c) /\ next.y = Top(r)
  BY <1>2, <1>4 DEF Consoles
<1>8. next = [fb |-> fb_fill_rect(con.fb, Left(c), Top(r), FONT_W, FONT_H, GUI_WINBG), x |-> Left(c), y |-> Top(r)]
  BY <1>3
<1> HIDE DEF next
<1>6. Stands(next, r, c)
  BY <1>2, <1>5 DEF Stands
<1>7. Term(next) = [cells |-> Grid(g), row |-> r, col |-> c]
  BY <1>5, <1>6, TermIs
<1> QED  BY <1>2, <1>5, <1>6, <1>7, <1>8 DEF Follows, IsConsole

LEMMA BackspaceFollows ==
    ASSUME NEW con, IsConsole(con)
    PROVE  Follows(con, EraseOne(con), AsTerminal!Backspace(Term(con)))
<1>1. PICK r \in 0 .. Rows - 1, c \in 0 .. Cols - 1 : Stands(con, r, c)
  BY DEF IsConsole
<1>2. Term(con) = [cells |-> Grid(con.fb), row |-> r, col |-> c]
  BY <1>1, TermIs
<1>3. con \in Consoles /\ con.fb \in Framebuffer /\ Spare(con.fb) /\ con.x = Left(c) /\ con.y = Top(r)
  BY <1>1 DEF Stands, Consoles
<1> DEFINE x == IF con.x > content_x THEN con.x - FONT_W ELSE LastColumn
           y == IF con.x > content_x THEN con.y ELSE con.y - FONT_H
           q == IF c > 0 THEN r ELSE r - 1
           d == IF c > 0 THEN c - 1 ELSE Cols - 1
<1>4. EraseOne(con) = IF con.x <= content_x /\ con.y <= content_y THEN con
                      ELSE [fb |-> fb_fill_rect(con.fb, x, y, FONT_W, FONT_H, GUI_WINBG), x |-> x, y |-> y]
  BY DEF EraseOne, gui_backspace
<1>5. AsTerminal!Backspace(Term(con))
      = IF r = 0 /\ c = 0 THEN Term(con)
        ELSE [cells |-> [Grid(con.fb) EXCEPT ![q][d] = Blank], row |-> q, col |-> d]
  BY <1>2 DEF AsTerminal!Backspace
<1>6. /\ Cols \in Nat \ {0} /\ c \in 0 .. Cols /\ 0 \in 0 .. Cols /\ Left(c) \in Nat /\ content_x \in Nat
      /\ Left(0) = content_x /\ FONT_W \in Nat \ {0} /\ (0 < c => Left(0) + FONT_W <= Left(c))
  BY ColumnsAre, SizesAre DEF Columns, Sizes
<1>7. /\ Rows \in Nat \ {0} /\ r \in 0 .. Rows /\ 0 \in 0 .. Rows /\ Top(r) \in Nat /\ content_y \in Nat
      /\ Top(0) = content_y /\ FONT_H \in Nat \ {0} /\ (0 < r => Top(0) + FONT_H <= Top(r))
  BY LinesAre, SizesAre DEF Lines, Sizes
<1>8. (con.x > content_x <=> c > 0) /\ (con.x <= content_x <=> c = 0) /\ (con.y <= content_y <=> r = 0)
  <2>1. con.x > content_x <=> c > 0
    BY <1>3, <1>6
  <2>2. con.x <= content_x <=> c = 0
    BY <1>3, <1>6
  <2>3. con.y <= content_y <=> r = 0
    BY <1>3, <1>7
  <2> QED  BY <2>1, <2>2, <2>3
<1>9. CASE r = 0 /\ c = 0
  <2>1. EraseOne(con) = con /\ AsTerminal!Backspace(Term(con)) = Term(con)
    BY <1>4, <1>5, <1>8, <1>9
  <2> QED  BY <2>1, AroundIsOrder DEF Follows
<1>10. CASE ~(r = 0 /\ c = 0)
  <2>1. q \in 0 .. Rows - 1 /\ d \in 0 .. Cols - 1
    BY <1>6, <1>7, <1>10
  <2>2. x = Left(d)
    <3>1. CASE c > 0
      <4>1. c - 1 \in 0 .. Cols - 1 /\ c - 1 + 1 = c
        BY <1>6, <3>1
      <4>2. Left(c) = Left(c - 1) + FONT_W /\ Left(c - 1) \in Nat
        BY <4>1, ColumnsAre DEF Columns
      <4>3. x = Left(c) - FONT_W /\ d = c - 1
        BY <3>1, <1>3, <1>8
      <4> HIDE DEF x, d
      <4> QED  BY <4>2, <4>3, <1>6
    <3>2. CASE ~(c > 0)
      <4>1. LastColumn = Left(Cols - 1)
        BY DEF LastColumn, Left, Cols
      <4> QED  BY <4>1, <3>2, <1>8
    <3> QED  BY <3>1, <3>2
  <2>3. y = Top(q)
    <3>1. CASE c > 0
      BY <3>1, <1>3, <1>8
    <3>2. CASE ~(c > 0)
      <4>1. r - 1 \in 0 .. Rows - 1 /\ r - 1 + 1 = r
        BY <1>6, <1>7, <1>10, <3>2
      <4>2. Top(r) = Top(r - 1) + FONT_H /\ Top(r - 1) \in Nat
        BY <4>1, LinesAre DEF Lines
      <4>3. y = Top(r) - FONT_H /\ q = r - 1
        BY <3>2, <1>3, <1>8
      <4> HIDE DEF y, q
      <4> QED  BY <4>2, <4>3, <1>7
    <3> QED  BY <3>1, <3>2
  <2> HIDE DEF x, y, q, d
  <2>4. EraseOne(con) = [fb |-> fb_fill_rect(con.fb, Left(d), Top(q), FONT_W, FONT_H, GUI_WINBG),
                         x |-> Left(d), y |-> Top(q)]
    BY <1>4, <1>8, <1>10, <2>2, <2>3
  <2>5. AsTerminal!Backspace(Term(con)) = [cells |-> [Grid(con.fb) EXCEPT ![q][d] = Blank], row |-> q, col |-> d]
    BY <1>5, <1>10
  <2> QED  BY <2>1, <2>4, <2>5, EraseCell
<1> QED  BY <1>9, <1>10

\* A content that is all background shows nothing.
LEMMA BlankGrid ==
    ASSUME NEW f \in Framebuffer, \A p \in Pixels : InContent(p) => f[p] = GUI_WINBG
    PROVE  Spare(f) /\ Grid(f) = AsTerminal!Cleared.cells
<1>1. ASSUME NEW r \in 0 .. Rows - 1, NEW c \in 0 .. Cols - 1  PROVE Cell(f, r, c) = Blank
  <2>1. ASSUME NEW i \in 0 .. FONT_W - 1, NEW j \in 0 .. FONT_H - 1  PROVE f[Dot(r, c, i, j)] = Glyph(Blank, i, j)
    <3>1. Dot(r, c, i, j) \in Pixels /\ InContent(Dot(r, c, i, j))
      BY DotIs DEF InContent
    <3> QED  BY <3>1 DEF Glyph
  <2> QED  BY <2>1, BackgroundIs, CellShows
<1>2. Grid(f) = [r \in 0 .. Rows - 1 |-> [c \in 0 .. Cols - 1 |-> Blank]]
  BY <1>1 DEF Grid
<1>3. AsTerminal!Cleared.cells = [r \in 0 .. Rows - 1 |-> [c \in 0 .. Cols - 1 |-> Blank]]
  BY DEF AsTerminal!Cleared, AsTerminal!EmptyRow
<1> QED  BY <1>2, <1>3 DEF Spare

\* With its text cursor in the corner it is the terminal cleared.
LEMMA BlankConsole ==
    ASSUME NEW f \in Framebuffer, \A p \in Pixels : InContent(p) => f[p] = GUI_WINBG
    PROVE  LET con == [fb |-> f, x |-> content_x, y |-> content_y]
           IN  IsConsole(con) /\ Term(con) = AsTerminal!Cleared
<1> DEFINE con == [fb |-> f, x |-> content_x, y |-> content_y]
<1>1. /\ 0 \in 0 .. Cols - 1 /\ 0 \in 0 .. Rows - 1 /\ Left(0) = content_x /\ Top(0) = content_y
      /\ content_x \in Nat /\ content_y \in Nat
  BY ColumnsAre, LinesAre, SizesAre DEF Columns, Lines, Sizes
<1>2. Spare(f) /\ Grid(f) = AsTerminal!Cleared.cells
  BY BlankGrid
<1>3. con \in Consoles /\ con.fb = f /\ con.x = content_x /\ con.y = content_y
  BY <1>1 DEF Consoles
<1> HIDE DEF con
<1>4. Stands(con, 0, 0)
  BY <1>1, <1>2, <1>3 DEF Stands
<1>5. Term(con) = [cells |-> Grid(f), row |-> 0, col |-> 0]
  BY <1>1, <1>3, <1>4, TermIs
<1>6. Term(con) = AsTerminal!Cleared
  BY <1>2, <1>5 DEF AsTerminal!Cleared
<1> QED  BY <1>1, <1>4, <1>6 DEF IsConsole, con

LEMMA FillContent ==
    ASSUME NEW f \in Framebuffer
    PROVE  LET g == fb_fill_rect(f, content_x, content_y, content_w, content_h, GUI_WINBG)
           IN  /\ g \in Framebuffer /\ Around(f, g)
               /\ \A p \in Pixels : InContent(p) => g[p] = GUI_WINBG
<1> DEFINE g == fb_fill_rect(f, content_x, content_y, content_w, content_h, GUI_WINBG)
<1>1. \A p \in Pixels : InRect(p, content_x, content_y, content_w, content_h) <=> InContent(p)
  BY InContentIs, PixelIs
<1>2. g = [p \in Pixels |-> IF InContent(p) THEN GUI_WINBG ELSE f[p]]
  BY <1>1 DEF fb_fill_rect
<1> HIDE DEF g
<1>3. g \in Framebuffer
  BY <1>2, BackgroundIs DEF Framebuffer
<1> QED  BY <1>2, <1>3 DEF Around, g

LEMMA ClearFollows ==
    ASSUME NEW con, IsConsole(con)
    PROVE  Follows(con, gui_clear_window(con), AsTerminal!Cleared)
<1> DEFINE g == fb_fill_rect(con.fb, content_x, content_y, content_w, content_h, GUI_WINBG)
<1>1. g \in Framebuffer /\ Around(con.fb, g) /\ \A p \in Pixels : InContent(p) => g[p] = GUI_WINBG
  BY ConsoleIs, FillContent
<1>2. gui_clear_window(con) = [fb |-> g, x |-> content_x, y |-> content_y]
  BY DEF gui_clear_window
<1> HIDE DEF g
<1> QED  BY <1>1, <1>2, BlankConsole DEF Follows

-----------------------------------------------------------------------------
(* The window's frame. *)

InTitle(p) == InRect(p, WIN_X + WIN_BORDER, WIN_Y + WIN_BORDER, WIN_W - 2 * WIN_BORDER, TITLEBAR_H - WIN_BORDER)
InBorder(p) == /\ InRect(p, WIN_X, WIN_Y, WIN_W, WIN_H)
               /\ ~InRect(p, WIN_X + 1, WIN_Y + 1, WIN_W - 2, WIN_H - 2)

\* What the window puts over a pixel.
Over(p, focus, under) ==
    IF InContent(p) THEN GUI_WINBG
    ELSE IF InTitle(p) THEN Plain(IF focus THEN "active" ELSE "title")
    ELSE IF InBorder(p) THEN Plain("border")
    ELSE under

LEMMA WindowIs ==
    ASSUME NEW f, NEW focus \in BOOLEAN
    PROVE  /\ \A p \in Pixels : gui_window_draw(f, focus)[p] = Over(p, focus, f[p])
           /\ f \in Framebuffer => gui_window_draw(f, focus) \in Framebuffer
<1>1. \A p \in Pixels : InRect(p, content_x, content_y, content_w, content_h) <=> InContent(p)
  BY InContentIs, PixelIs
<1> DEFINE g == gui_window_draw(f, focus)
           border == fb_draw_rect(f, WIN_X, WIN_Y, WIN_W, WIN_H, Plain("border"))
           title == fb_fill_rect(border, WIN_X + WIN_BORDER, WIN_Y + WIN_BORDER, WIN_W - 2 * WIN_BORDER,
                                 TITLEBAR_H - WIN_BORDER, Plain(IF focus THEN "active" ELSE "title"))
<1>2. border = [p \in Pixels |-> IF InBorder(p) THEN Plain("border") ELSE f[p]]
  BY DEF fb_draw_rect, InBorder
<1>3. title = [p \in Pixels |-> IF InTitle(p) THEN Plain(IF focus THEN "active" ELSE "title") ELSE border[p]]
  BY DEF fb_fill_rect, InTitle
<1>4. g = fb_fill_rect(title, content_x, content_y, content_w, content_h, GUI_WINBG)
  BY DEF gui_window_draw
<1> HIDE DEF g, title, border
<1>5. g = [p \in Pixels |-> IF InContent(p) THEN GUI_WINBG ELSE title[p]]
  BY <1>1, <1>4 DEF fb_fill_rect
<1>6. \A p \in Pixels : g[p] = Over(p, focus, f[p])
  BY <1>2, <1>3, <1>5 DEF Over
<1>7. ASSUME f \in Framebuffer, NEW p \in Pixels  PROVE Over(p, focus, f[p]) \in PixelValue
  <2>1. "active" \in Kinds /\ "title" \in Kinds /\ "border" \in Kinds
    BY DEF Kinds
  <2>2. Plain("active") \in PixelValue /\ Plain("title") \in PixelValue /\ Plain("border") \in PixelValue
    BY <2>1, KindsAre
  <2>3. f[p] \in PixelValue
    BY <1>7 DEF Framebuffer
  <2> QED  BY <2>2, <2>3, BackgroundIs DEF Over
<1>8. g = [p \in Pixels |-> Over(p, focus, f[p])]
  BY <1>5, <1>6
<1>9. f \in Framebuffer => g \in Framebuffer
  BY <1>7, <1>8 DEF Framebuffer
<1> QED  BY <1>6, <1>9 DEF g

\* What FrameStays says of what is below the cursor.
FrameIs(f) == \A p \in Frame : f[p] = Booted.fb[p]

LEMMA OutsideIsFrame ==
    ASSUME NEW f, NEW g, Around(f, g), FrameIs(f)
    PROVE  FrameIs(g)
<1>1. \A p \in Frame : p \in Pixels /\ ~InContent(p)
  BY InContentIs, PixelIs DEF Frame
<1> QED  BY <1>1 DEF Around, FrameIs

LEMMA DesktopIs == Desktop \in Framebuffer
<1>1. Plain("menubar") \in PixelValue /\ Plain("desktop") \in PixelValue
  BY KindsAre DEF Kinds
<1> QED  BY <1>1 DEF Desktop, Framebuffer

\* The window drawn without and with the focus.
LEMMA FocusIs ==
    ASSUME NEW f \in Framebuffer
    PROVE  LET g == gui_window_focus(f)
           IN  g \in Framebuffer /\ \A p \in Pixels : g[p] = Over(p, TRUE, Over(p, FALSE, f[p]))
<1> DEFINE h == gui_window_draw(f, FALSE)
           g == gui_window_draw(h, TRUE)
<1>1. h \in Framebuffer /\ \A p \in Pixels : h[p] = Over(p, FALSE, f[p])
  BY WindowIs
<1>2. g \in Framebuffer /\ \A p \in Pixels : g[p] = Over(p, TRUE, h[p])
  <2> HIDE DEF h
  <2> QED  BY <1>1, WindowIs
<1>3. gui_window_focus(f) = g
  BY DEF gui_window_focus
<1> HIDE DEF g, h
<1> QED  BY <1>1, <1>2, <1>3

LEMMA BootedIs ==
    /\ Booted.fb \in Framebuffer /\ Booted.x = content_x /\ Booted.y = content_y
    /\ Booted = [fb |-> Booted.fb, x |-> content_x, y |-> content_y]
    /\ \A p \in Pixels : Booted.fb[p] = IF InOk(p) THEN Plain("boot") ELSE Over(p, TRUE, Over(p, FALSE, Desktop[p]))
<1> DEFINE g == gui_window_focus(Desktop)
           h == print_ok(g)
<1>1. Booted = [fb |-> h, x |-> content_x, y |-> content_y]
  BY DEF Booted, gui_window_create, gui_window_focus
<1>2. g \in Framebuffer /\ \A p \in Pixels : g[p] = Over(p, TRUE, Over(p, FALSE, Desktop[p]))
  BY DesktopIs, FocusIs
<1> HIDE DEF g
<1>3. h = [p \in Pixels |-> IF InOk(p) THEN Plain("boot") ELSE g[p]]
  BY DEF print_ok
<1> HIDE DEF h
<1>4. Plain("boot") \in PixelValue
  BY KindsAre DEF Kinds
<1>5. h \in Framebuffer
  BY <1>2, <1>3, <1>4 DEF Framebuffer
<1> QED  BY <1>1, <1>2, <1>3, <1>5

\* The title bar and the border are in the window.
LEMMA WindowCovers ==
    ASSUME NEW p \in Pixels, InTitle(p) \/ InBorder(p)
    PROVE  InRect(p, WIN_X, WIN_Y, WIN_W, WIN_H)
<1>1. /\ WIN_X \in Nat /\ WIN_Y \in Nat /\ WIN_W \in Nat /\ WIN_H \in Nat
      /\ WIN_BORDER \in Nat /\ TITLEBAR_H \in Nat
  BY ScreenAssumption DEF ScreenAssumption
<1>2. TITLEBAR_H <= WIN_H
  BY <1>1, ContentIs DEF content_h
<1>3. p[1] \in Nat /\ p[2] \in Nat
  BY PixelIs
<1>4. InTitle(p) => InRect(p, WIN_X, WIN_Y, WIN_W, WIN_H)
  BY <1>1, <1>2, <1>3 DEF InTitle, InRect
<1> QED  BY <1>4 DEF InBorder

\* The window drawn anew: its content is wiped, its frame as it was.
LEMMA RedrawnIs ==
    ASSUME NEW f \in Framebuffer
    PROVE  LET g == gui_window_focus(f)
           IN  /\ g \in Framebuffer /\ \A p \in Pixels : InContent(p) => g[p] = GUI_WINBG
               /\ FrameIs(f) => FrameIs(g)
<1> DEFINE g == gui_window_focus(f)
<1>1. g \in Framebuffer /\ \A p \in Pixels : g[p] = Over(p, TRUE, Over(p, FALSE, f[p]))
  BY FocusIs
<1> HIDE DEF g
<1>2. \A p \in Pixels : InContent(p) => g[p] = GUI_WINBG
  BY <1>1 DEF Over
<1>3. ASSUME FrameIs(f)  PROVE FrameIs(g)
  <2> SUFFICES ASSUME NEW p \in Frame  PROVE g[p] = Booted.fb[p]
    BY DEF FrameIs
  <2>1. p \in Pixels /\ f[p] = Booted.fb[p] /\ ~(InOk(p) /\ InRect(p, WIN_X, WIN_Y, WIN_W, WIN_H))
        /\ ~InRect(p, content_x, content_y, content_w, content_h)
    BY <1>3 DEF FrameIs, Frame
  <2>2. g[p] = Over(p, TRUE, Over(p, FALSE, f[p]))
    BY <2>1, <1>1
  <2>3. CASE InOk(p)
    <3>1. ~InTitle(p) /\ ~InBorder(p)
      BY <2>1, <2>3, WindowCovers
    <3>2. ~InContent(p)
      BY <2>1, InContentIs, PixelIs
    <3> QED  BY <2>1, <2>2, <3>1, <3>2 DEF Over
  <2>4. CASE ~InOk(p)
    <3>1. Booted.fb[p] = Over(p, TRUE, Over(p, FALSE, Desktop[p]))
      BY <2>1, <2>4, BootedIs
    <3>2. \A u : Over(p, TRUE, Over(p, FALSE, Over(p, TRUE, Over(p, FALSE, u)))) = Over(p, TRUE, Over(p, FALSE, u))
      BY DEF Over
    <3> QED  BY <2>1, <2>2, <3>1, <3>2
  <2> QED  BY <2>3, <2>4
<1> QED  BY <1>1, <1>2, <1>3 DEF g

-----------------------------------------------------------------------------
(* The window as the boot leaves it. *)

LEMMA OkIs ==
    ASSUME NEW p \in Pixels, InOk(p)
    PROVE  p[2] < Top(Rows)
<1>1. BOOT_X \in Nat /\ BOOT_Y \in Nat /\ FONT_H \in Nat /\ BOOT_Y + FONT_H <= Top(Rows)
  BY ScreenAssumption DEF ScreenAssumption, Top
<1>2. p[2] \in Nat /\ p[2] < BOOT_Y + FONT_H
  BY PixelIs DEF InOk, InRect
<1>3. Top(Rows) \in Nat
  BY LinesAre DEF Lines
<1> QED  BY <1>1, <1>2, <1>3

LEMMA StainedIs ==
    ASSUME NEW r \in 0 .. Rows - 1, NEW c \in 0 .. Cols - 1
    PROVE  <<r, c>> \in Stained <=> \E i \in 0 .. FONT_W - 1, j \in 0 .. FONT_H - 1 : InOk(Dot(r, c, i, j))
<1>1. <<r, c>> \in Stained <=> \E p \in Pixels : InOk(p) /\ InRect(p, Left(c), Top(r), FONT_W, FONT_H)
  BY DEF Stained, Left, Top
<1>2. ASSUME NEW p \in Pixels, InOk(p), InRect(p, Left(c), Top(r), FONT_W, FONT_H)
      PROVE  \E i \in 0 .. FONT_W - 1, j \in 0 .. FONT_H - 1 : InOk(Dot(r, c, i, j))
  <2> DEFINE i == p[1] - Left(c)
             j == p[2] - Top(r)
             x == Left(c)
             y == Top(r)
  <2>1. x \in Nat /\ y \in Nat /\ FONT_W \in Nat /\ FONT_H \in Nat
    BY ColumnsAre, LinesAre, SizesAre DEF Columns, Lines, Sizes
  <2>2. p = <<p[1], p[2]>> /\ p[1] \in Nat /\ p[2] \in Nat
    BY PixelIs
  <2>3. x <= p[1] /\ p[1] < x + FONT_W /\ y <= p[2] /\ p[2] < y + FONT_H
    BY <1>2 DEF InRect
  <2>4. Dot(r, c, i, j) = <<x + i, y + j>> /\ i = p[1] - x /\ j = p[2] - y
    BY DEF Dot
  <2> HIDE DEF i, j, x, y
  <2>5. i \in 0 .. FONT_W - 1 /\ j \in 0 .. FONT_H - 1 /\ x + i = p[1] /\ y + j = p[2]
    BY <2>1, <2>2, <2>3, <2>4
  <2>6. Dot(r, c, i, j) = p
    BY <2>2, <2>4, <2>5
  <2> QED  BY <2>5, <2>6, <1>2
<1>3. ASSUME NEW i \in 0 .. FONT_W - 1, NEW j \in 0 .. FONT_H - 1
      PROVE  Dot(r, c, i, j) \in Pixels /\ InRect(Dot(r, c, i, j), Left(c), Top(r), FONT_W, FONT_H)
  BY DotIs, CellsApart
<1> QED  BY <1>1, <1>2, <1>3

\* It is the terminal fresh from the boot.
LEMMA BootedConsole == IsConsole(Booted) /\ Term(Booted) = AsTerminal!Fresh
<1> DEFINE f == Booted.fb
<1>1. f \in Framebuffer /\ Booted.x = content_x /\ Booted.y = content_y
  BY BootedIs
<1>2. ASSUME NEW p \in Pixels, InContent(p)
      PROVE  f[p] = IF InOk(p) THEN Plain("boot") ELSE GUI_WINBG
  BY <1>2, BootedIs DEF Over
<1> HIDE DEF f
<1>3. Spare(f)
  <2> SUFFICES ASSUME NEW p \in Pixels, InContent(p), Top(Rows) <= p[2]  PROVE f[p] = GUI_WINBG
    BY DEF Spare
  <2>1. Top(Rows) \in Nat /\ p[2] \in Nat
    BY LinesAre, PixelIs DEF Lines
  <2>2. ~InOk(p)
    BY <2>1, OkIs
  <2> QED  BY <2>2, <1>2
<1>4. ASSUME NEW r \in 0 .. Rows - 1, NEW c \in 0 .. Cols - 1
      PROVE  Cell(f, r, c) = IF <<r, c>> \in Stained THEN "torn" ELSE Blank
  <2>1. ASSUME NEW i \in 0 .. FONT_W - 1, NEW j \in 0 .. FONT_H - 1
        PROVE  f[Dot(r, c, i, j)] = IF InOk(Dot(r, c, i, j)) THEN Plain("boot") ELSE GUI_WINBG
    <3>1. Dot(r, c, i, j) \in Pixels /\ InContent(Dot(r, c, i, j))
      BY DotIs DEF InContent
    <3> QED  BY <3>1, <1>2
  <2>2. CASE <<r, c>> \notin Stained
    <3>1. ASSUME NEW i \in 0 .. FONT_W - 1, NEW j \in 0 .. FONT_H - 1  PROVE f[Dot(r, c, i, j)] = Glyph(Blank, i, j)
      BY <2>1, <2>2, StainedIs DEF Glyph
    <3> QED  BY <3>1, <2>2, BackgroundIs, CellShows
  <2>3. CASE <<r, c>> \in Stained
    <3>1. PICK i \in 0 .. FONT_W - 1, j \in 0 .. FONT_H - 1 : InOk(Dot(r, c, i, j))
      BY <2>3, StainedIs
    <3>2. f[Dot(r, c, i, j)] = <<"boot", 0, 0>>
      BY <3>1, <2>1 DEF Plain
    <3>3. i \in Nat /\ j \in Nat
      BY SizesAre DEF Sizes
    <3>4. ASSUME NEW char \in Printable  PROVE f[Dot(r, c, i, j)] # Glyph(char, i, j)
      <4>1. char # "boot" /\ "boot" # "window"
        BY ScreenAssumption DEF ScreenAssumption
      <4>2. <<char, i, j>> # <<"boot", 0, 0>> /\ <<"window", 0, 0>> # <<"boot", 0, 0>>
        BY <4>1
      <4> QED  BY <3>2, <4>2, BackgroundIs DEF Glyph
    <3> QED  BY <3>4, <2>3, CellIs
  <2> QED  BY <2>2, <2>3
<1>5. Grid(f) = AsTerminal!Fresh.cells
  BY <1>4 DEF Grid, AsTerminal!Fresh
<1>6. /\ 0 \in 0 .. Cols - 1 /\ 0 \in 0 .. Rows - 1 /\ Left(0) = content_x /\ Top(0) = content_y
      /\ content_x \in Nat /\ content_y \in Nat
  BY ColumnsAre, LinesAre, SizesAre DEF Columns, Lines, Sizes
<1>7. Booted \in Consoles
  BY <1>6, BootedIs DEF Consoles
<1>8. Stands(Booted, 0, 0)
  BY <1>1, <1>3, <1>6, <1>7 DEF Stands, f
<1>9. Term(Booted) = [cells |-> Grid(f), row |-> 0, col |-> 0]
  BY <1>6, <1>8, TermIs DEF f
<1>10. Term(Booted) = AsTerminal!Fresh
  BY <1>5, <1>9 DEF AsTerminal!Fresh
<1> QED  BY <1>6, <1>8, <1>10 DEF IsConsole

-----------------------------------------------------------------------------
(* The invariant. *)

MouseX == 0 .. FB_WIDTH - CURSOR_SIZE - 1
MouseY == 0 .. FB_HEIGHT - CURSOR_SIZE - 1
Phases == {"booted", "save", "draw", "hlt", "clock", "poll", "click", "clicked", "focus", "keys"}
Nexts == {"none", "hlt", "poll", "keys"}

ScreenTypes ==
    /\ fb \in Framebuffer
    /\ mouse_x \in MouseX /\ mouse_y \in MouseY
    /\ save_x \in MouseX /\ save_y \in MouseY
    /\ cursor_save \in [Offsets -> PixelValue] /\ cursor_saved \in BOOLEAN
    /\ input_line \in Seq(Chars) /\ Len(input_line) <= Limit
    /\ pc \in [at : Phases, then : Nexts]
    /\ pc.at \in {"save", "draw"} => pc.then # "none"

\* Whatever draws finds the cursor erased; between the loops of draw_cursor
\* what is saved belongs where the arrow will be.
CursorPhase ==
    /\ pc.at \in {"booted", "save", "click", "clicked", "focus"} => ~cursor_saved
    /\ pc.at = "draw" => cursor_saved /\ save_x = mouse_x /\ save_y = mouse_y

Picture == IsConsole(Console) /\ FrameIs(Restored)

\* The inductive invariant: what is below the cursor is a console in the
\* frame that was drawn, and the cursor can always be taken off it.
ScreenInv ==
    /\ ScreenTypes
    /\ CursorPhase
    /\ Picture

LEMMA CursorFits ==
    /\ CURSOR_SIZE \in Nat \ {0} /\ FB_WIDTH \in Nat /\ FB_HEIGHT \in Nat
    /\ FB_WIDTH \div 2 \in MouseX /\ FB_HEIGHT \div 2 \in MouseY
<1> DEFINE w == FB_WIDTH
           h == FB_HEIGHT
<1>1. CURSOR_SIZE \in Nat \ {0} /\ w \in Nat /\ h \in Nat /\ 2 * CURSOR_SIZE < w /\ 2 * CURSOR_SIZE < h
  BY ScreenAssumption DEF ScreenAssumption
<1> HIDE DEF w, h
<1>2. w \div 2 \in 0 .. w - CURSOR_SIZE - 1 /\ h \div 2 \in 0 .. h - CURSOR_SIZE - 1
  BY <1>1
<1> QED  BY <1>1, <1>2 DEF w, h, MouseX, MouseY

LEMMA ClampIs ==
    ASSUME NEW v \in Int
    PROVE  Clamp(v, FB_WIDTH) \in MouseX /\ Clamp(v, FB_HEIGHT) \in MouseY
<1>1. CURSOR_SIZE \in Nat \ {0} /\ FB_WIDTH \in Nat /\ FB_HEIGHT \in Nat
      /\ 2 * CURSOR_SIZE < FB_WIDTH /\ 2 * CURSOR_SIZE < FB_HEIGHT
  BY ScreenAssumption DEF ScreenAssumption
<1> QED  BY <1>1 DEF Clamp, MouseX, MouseY

-----------------------------------------------------------------------------
(* Taking the cursor off. *)

Covers(p) == InRect(p, save_x, save_y, CURSOR_SIZE, CURSOR_SIZE)

LEMMA CoveredIs ==
    ASSUME NEW p \in Pixels, NEW x \in MouseX, NEW y \in MouseY
    PROVE  /\ InRect(p, x, y, CURSOR_SIZE, CURSOR_SIZE) <=> <<p[1] - x, p[2] - y>> \in Offsets
           /\ <<x + (p[1] - x), y + (p[2] - y)>> = p
<1>1. p = <<p[1], p[2]>> /\ p[1] \in Nat /\ p[2] \in Nat
  BY PixelIs
<1>2. CURSOR_SIZE \in Nat /\ x \in Nat /\ y \in Nat
  BY CursorFits DEF MouseX, MouseY
<1>3. InRect(p, x, y, CURSOR_SIZE, CURSOR_SIZE)
      <=> x <= p[1] /\ p[1] < x + CURSOR_SIZE /\ y <= p[2] /\ p[2] < y + CURSOR_SIZE
  BY <1>1, <1>2, InRectIs
<1>4. p[1] - x \in 0 .. CURSOR_SIZE - 1 <=> x <= p[1] /\ p[1] < x + CURSOR_SIZE
  BY <1>1, <1>2
<1>5. p[2] - y \in 0 .. CURSOR_SIZE - 1 <=> y <= p[2] /\ p[2] < y + CURSOR_SIZE
  BY <1>1, <1>2
<1>6. x + (p[1] - x) = p[1] /\ y + (p[2] - y) = p[2]
  BY <1>1, <1>2
<1> QED  BY <1>1, <1>3, <1>4, <1>5, <1>6 DEF Offsets

LEMMA UnderTheCursor ==
    ASSUME NEW x \in MouseX, NEW y \in MouseY, NEW o \in Offsets
    PROVE  <<x + o[1], y + o[2]>> \in Pixels
<1>1. o[1] \in 0 .. CURSOR_SIZE - 1 /\ o[2] \in 0 .. CURSOR_SIZE - 1
  BY DEF Offsets
<1>2. x + o[1] \in Int /\ 0 <= x + o[1] /\ x + o[1] < FB_WIDTH
  BY <1>1, CursorFits DEF MouseX
<1>3. y + o[2] \in Int /\ 0 <= y + o[2] /\ y + o[2] < FB_HEIGHT
  BY <1>1, CursorFits DEF MouseY
<1> QED  BY <1>2, <1>3, IsPixel

LEMMA RestoredAt ==
    \A p \in Pixels : Restored[p] = IF cursor_saved /\ Covers(p)
                                    THEN cursor_save[<<p[1] - save_x, p[2] - save_y>>] ELSE fb[p]
BY DEF Restored, RestoreAt, Covers

LEMMA RestoredIs ==
    ASSUME ScreenTypes
    PROVE  /\ Restored \in Framebuffer
           /\ ~cursor_saved => Restored = fb
<1>1. Restored = [p \in Pixels |-> IF cursor_saved /\ Covers(p)
                                   THEN cursor_save[<<p[1] - save_x, p[2] - save_y>>] ELSE fb[p]]
  BY DEF Restored, RestoreAt, Covers
<1>2. ASSUME NEW p \in Pixels
      PROVE  (IF cursor_saved /\ Covers(p)
              THEN cursor_save[<<p[1] - save_x, p[2] - save_y>>] ELSE fb[p]) \in PixelValue
  <2>1. Covers(p) => <<p[1] - save_x, p[2] - save_y>> \in Offsets
    BY CoveredIs DEF ScreenTypes, Covers
  <2> QED  BY <2>1 DEF ScreenTypes, Framebuffer
<1>3. Restored \in Framebuffer
  BY <1>1, <1>2 DEF Framebuffer
<1>4. ASSUME ~cursor_saved  PROVE Restored = fb
  <2>1. fb \in [Pixels -> PixelValue]
    BY DEF ScreenTypes, Framebuffer
  <2>2. Restored = [p \in Pixels |-> fb[p]]
    BY <1>1, <1>4
  <2> QED  BY <2>1, <2>2
<1> QED  BY <1>3, <1>4

\* A step that leaves the cursor erased shows what it drew.
LEMMA NothingSaved ==
    ASSUME fb' \in Framebuffer, ~cursor_saved'
    PROVE  Restored' = fb'
<1>1. fb' \in [Pixels -> PixelValue]
  BY DEF Framebuffer
<1>2. Restored' = [p \in Pixels |-> fb'[p]]
  BY DEF Restored, RestoreAt
<1> QED  BY <1>1, <1>2

LEMMA SaveLeaves ==
    ASSUME ScreenInv, SaveUnder
    PROVE  Restored' = Restored
<1>1. ~cursor_saved /\ Restored = fb /\ fb \in [Pixels -> PixelValue]
  BY RestoredIs DEF ScreenInv, CursorPhase, SaveUnder, At, ScreenTypes, Framebuffer
<1>2. /\ mouse_x \in MouseX /\ mouse_y \in MouseY /\ fb' = fb /\ cursor_saved'
      /\ save_x' = mouse_x /\ save_y' = mouse_y
      /\ cursor_save' = [o \in Offsets |-> fb[<<mouse_x + o[1], mouse_y + o[2]>>]]
  BY DEF ScreenInv, ScreenTypes, SaveUnder
<1>3. Restored' = [p \in Pixels |-> IF InRect(p, mouse_x, mouse_y, CURSOR_SIZE, CURSOR_SIZE)
                                    THEN cursor_save'[<<p[1] - mouse_x, p[2] - mouse_y>>] ELSE fb[p]]
  BY <1>2 DEF Restored, RestoreAt
<1>4. ASSUME NEW p \in Pixels, InRect(p, mouse_x, mouse_y, CURSOR_SIZE, CURSOR_SIZE)
      PROVE  cursor_save'[<<p[1] - mouse_x, p[2] - mouse_y>>] = fb[p]
  <2> DEFINE o == <<p[1] - mouse_x, p[2] - mouse_y>>
  <2>1. o \in Offsets /\ <<mouse_x + o[1], mouse_y + o[2]>> = p
    BY <1>2, <1>4, CoveredIs
  <2> HIDE DEF o
  <2> QED  BY <2>1, <1>2 DEF o
<1>5. Restored' = [p \in Pixels |-> fb[p]]
  BY <1>3, <1>4
<1> QED  BY <1>1, <1>5

LEMMA DrawLeaves ==
    ASSUME ScreenInv, DrawArrow
    PROVE  Restored' = Restored
<1>1. /\ cursor_saved /\ save_x = mouse_x /\ save_y = mouse_y
      /\ save_x \in MouseX /\ save_y \in MouseY
  BY DEF ScreenInv, ScreenTypes, CursorPhase, DrawArrow, At
<1>2. /\ UNCHANGED <<save_x, save_y, cursor_save, cursor_saved>>
      /\ fb' = [p \in Pixels |-> IF <<p[1] - mouse_x, p[2] - mouse_y>> \in Arrow
                                 THEN Plain("cursor") ELSE fb[p]]
  BY DEF DrawArrow, saveVars
<1>3. Restored' = [p \in Pixels |-> IF Covers(p)
                                    THEN cursor_save[<<p[1] - save_x, p[2] - save_y>>] ELSE fb'[p]]
  BY <1>1, <1>2 DEF Restored, RestoreAt, Covers
<1>4. Restored = [p \in Pixels |-> IF Covers(p)
                                   THEN cursor_save[<<p[1] - save_x, p[2] - save_y>>] ELSE fb[p]]
  BY <1>1 DEF Restored, RestoreAt, Covers
<1>5. ASSUME NEW p \in Pixels, ~Covers(p)  PROVE fb'[p] = fb[p]
  <2>1. <<p[1] - mouse_x, p[2] - mouse_y>> \notin Offsets
    BY <1>1, <1>5, CoveredIs DEF Covers
  <2>2. <<p[1] - mouse_x, p[2] - mouse_y>> \notin Arrow
    BY <2>1 DEF Arrow
  <2> QED  BY <2>2, <1>2
<1> QED  BY <1>3, <1>4, <1>5

-----------------------------------------------------------------------------
(* What a step does to what is below the cursor. *)

LEMMA TermNow == AsTerminal!Now = Term(Console)
BY DEF AsTerminal!Now, Term, Console, Grid

LEMMA SameConsole ==
    ASSUME NEW con, IsConsole(con)
    PROVE  IsConsole([fb |-> con.fb, x |-> con.x, y |-> con.y])
<1>1. PICK r \in 0 .. Rows - 1, c \in 0 .. Cols - 1 : Stands(con, r, c)
  BY DEF IsConsole
<1>2. [fb |-> con.fb, x |-> con.x, y |-> con.y] \in Consoles
  BY <1>1 DEF Stands, Consoles
<1> QED  BY <1>1, <1>2 DEF Stands, IsConsole

LEMMA PictureStays ==
    ASSUME Picture, Restored' = Restored, UNCHANGED <<con_x, con_y>>
    PROVE  /\ Picture'
           /\ UNCHANGED <<input_line, wiped>> => UNCHANGED AsTerminal!vars
<1>1. Console' = Console
  BY DEF Console
<1>2. IsConsole(Console)' /\ FrameIs(Restored)'
  BY <1>1 DEF Picture, IsConsole, FrameIs, Stands
<1>3. ASSUME UNCHANGED <<input_line, wiped>>  PROVE UNCHANGED AsTerminal!vars
  BY <1>3 DEF AsTerminal!vars
<1> QED  BY <1>2, <1>3 DEF Picture

\* The console's operations, with the cursor erased.
LEMMA PictureFollows ==
    ASSUME Picture, NEW next, NEW t, Follows(Console, next, t), Shows(next), ~cursor_saved'
    PROVE  Picture' /\ AsTerminal!Becomes(t) /\ fb' \in Framebuffer
<1>1. /\ fb' = next.fb /\ con_x' = next.x /\ con_y' = next.y
      /\ IsConsole(next) /\ Around(Restored, next.fb) /\ t = Term(next)
  BY DEF Shows, Follows, Console
<1>2. fb' \in Framebuffer
  BY <1>1, ConsoleIs
<1>3. Restored' = next.fb
  BY <1>1, <1>2, NothingSaved
<1>4. Console' = [fb |-> next.fb, x |-> next.x, y |-> next.y]
  BY <1>1, <1>3 DEF Console
<1>5. IsConsole(Console')
  BY <1>1, <1>4, SameConsole
<1>6. FrameIs(next.fb)
  BY <1>1, OutsideIsFrame DEF Picture
<1>7. Picture'
  BY <1>3, <1>5, <1>6 DEF Picture, IsConsole, FrameIs, Stands
<1>8. AsTerminal!Becomes(t)
  BY <1>1, <1>3 DEF AsTerminal!Becomes, Term, Grid
<1> QED  BY <1>2, <1>7, <1>8

\* Drawing outside the content.
LEMMA OutsideDrawn ==
    ASSUME Picture, fb' \in Framebuffer, ~cursor_saved', UNCHANGED <<con_x, con_y, input_line, wiped>>,
           \A p \in Pixels : InContent(p) \/ p \in Frame => fb'[p] = Restored[p]
    PROVE  Picture' /\ UNCHANGED AsTerminal!vars
<1>1. Restored' = fb'
  BY NothingSaved
<1>2. PICK r \in 0 .. Rows - 1, c \in 0 .. Cols - 1 : Stands(Console, r, c)
  BY DEF Picture, IsConsole
<1>3. Console' = [fb |-> fb', x |-> con_x, y |-> con_y]
  BY <1>1 DEF Console
<1>4. Spare(Restored) /\ con_x = Left(c) /\ con_y = Top(r) /\ con_x \in Nat /\ con_y \in Nat
  BY <1>2 DEF Stands, Console, Consoles
<1>5. Spare(fb')
  BY <1>4 DEF Spare
<1>6. Stands(Console', r, c)
  BY <1>3, <1>4, <1>5 DEF Stands, Consoles
<1>7. FrameIs(fb')
  BY DEF Picture, FrameIs, Frame
<1>8. Picture'
  BY <1>1, <1>6, <1>7 DEF Picture, IsConsole, FrameIs, Stands
<1>9. ASSUME NEW q \in 0 .. Rows - 1, NEW d \in 0 .. Cols - 1  PROVE Cell(fb', q, d) = Cell(Restored, q, d)
  <2>1. ASSUME NEW i \in 0 .. FONT_W - 1, NEW j \in 0 .. FONT_H - 1
        PROVE  fb'[Dot(q, d, i, j)] = Restored[Dot(q, d, i, j)]
    <3>1. Dot(q, d, i, j) \in Pixels /\ InContent(Dot(q, d, i, j))
      BY DotIs DEF InContent
    <3> QED  BY <3>1
  <2>2. Alike(fb', q, d, Restored, q, d)
    BY <2>1 DEF Alike
  <2> QED  BY <2>2, CellSame
<1>10. Grid(Restored') = Grid(Restored)
  BY <1>1, <1>9 DEF Grid
<1>11. UNCHANGED AsTerminal!vars
  BY <1>10 DEF AsTerminal!vars, Grid
<1> QED  BY <1>8, <1>11

\* The window drawn anew around its text cursor.
LEMMA WipedDrawn ==
    ASSUME Picture, fb' \in Framebuffer, ~cursor_saved', UNCHANGED <<con_x, con_y, input_line>>,
           \A p \in Pixels : InContent(p) => fb'[p] = GUI_WINBG, FrameIs(fb'),
           wiped' = Len(input_line)
    PROVE  Picture' /\ AsTerminal!Wipe
<1>1. Restored' = fb'
  BY NothingSaved
<1>2. PICK r \in 0 .. Rows - 1, c \in 0 .. Cols - 1 : Stands(Console, r, c)
  BY DEF Picture, IsConsole
<1>3. Console' = [fb |-> fb', x |-> con_x, y |-> con_y]
  BY <1>1 DEF Console
<1>4. con_x = Left(c) /\ con_y = Top(r) /\ con_x \in Nat /\ con_y \in Nat
  BY <1>2 DEF Stands, Console, Consoles
<1>5. Spare(fb') /\ Grid(fb') = AsTerminal!Cleared.cells
  BY BlankGrid
<1>6. Stands(Console', r, c)
  BY <1>3, <1>4, <1>5 DEF Stands, Consoles
<1>7. Picture'
  BY <1>1, <1>6 DEF Picture, IsConsole, FrameIs, Stands
<1>8. AsTerminal!Wipe
  BY <1>1, <1>5 DEF AsTerminal!Wipe, Grid
<1> QED  BY <1>7, <1>8

-----------------------------------------------------------------------------
(* Every step keeps the invariant and is a step of the terminal. *)

\* What every step has to keep.
Kept == ScreenTypes' /\ CursorPhase' /\ Picture' /\ [AsTerminal!Next]_AsTerminal!vars

LEMMA FollowsOn ==
    ASSUME NEW con, NEW next, NEW last, NEW t, NEW u, Follows(con, next, t), Follows(next, last, u)
    PROVE  Follows(con, last, u)
BY AroundIsOrder DEF Follows

LEMMA ScreenStart == Init => ScreenInv /\ AsTerminal!Init
<1> SUFFICES ASSUME Init  PROVE ScreenInv /\ AsTerminal!Init
  OBVIOUS
<1>1. PICK welcome \in Welcomes :
          LET con == shell_prompt(gui_print(Booted, welcome))
          IN  fb = con.fb /\ con_x = con.x /\ con_y = con.y
  BY DEF Init
<1> DEFINE said == gui_print(Booted, welcome)
           u == AsTerminal!Show(AsTerminal!Fresh, welcome)
           con == gui_print(said, Prompt)
           t == AsTerminal!Show(u, Prompt)
<1>2. welcome \in Seq(Byte) /\ Prompt \in Seq(Byte)
  BY ScreenAssumption DEF ScreenAssumption, Texts
<1>3. Follows(Booted, said, u)
  BY <1>2, BootedConsole, PrintFollows
<1>5. fb = con.fb /\ con_x = con.x /\ con_y = con.y
  BY <1>1 DEF shell_prompt
<1> HIDE DEF said, u
<1>4. Follows(said, con, t)
  <2>1. IsConsole(said) /\ Term(said) = u
    BY <1>3 DEF Follows
  <2> QED  BY <1>2, <2>1, PrintFollows
<1> HIDE DEF con, t
<1>6. Follows(Booted, con, t)
  BY <1>3, <1>4, FollowsOn
<1>7. IsConsole(con) /\ Around(Booted.fb, con.fb) /\ Term(con) = t
  BY <1>6 DEF Follows
<1>8. ScreenTypes
  <2>1. mouse_x \in MouseX /\ mouse_y \in MouseY /\ save_x = mouse_x /\ save_y = mouse_y
    BY CursorFits DEF Init
  <2>2. fb \in Framebuffer
    BY <1>5, <1>7, ConsoleIs
  <2>3. cursor_save \in [Offsets -> PixelValue]
    BY BackgroundIs DEF Init
  <2>4. input_line = <<>> /\ Len(input_line) = 0 /\ 0 <= Limit
    BY ScreenAssumption DEF ScreenAssumption, Init
  <2>5. input_line \in Seq(Chars)
    BY <2>4
  <2>6. pc = [at |-> "booted", then |-> "none"] /\ cursor_saved = FALSE
    BY DEF Init
  <2>7. pc \in [at : Phases, then : Nexts] /\ pc.at \notin {"save", "draw"}
    BY <2>6 DEF Phases, Nexts
  <2> QED  BY <2>1, <2>2, <2>3, <2>4, <2>5, <2>6, <2>7 DEF ScreenTypes
<1>9. CursorPhase
  BY DEF Init, CursorPhase
<1>10. Restored = con.fb
  BY <1>5, <1>8, RestoredIs DEF Init
<1>11. Console = [fb |-> con.fb, x |-> con.x, y |-> con.y]
  BY <1>5, <1>10 DEF Console
<1>12. Picture
  <2>1. FrameIs(Booted.fb)
    BY DEF FrameIs
  <2> QED  BY <1>7, <1>10, <1>11, <2>1, SameConsole, OutsideIsFrame DEF Picture
<1>13. AsTerminal!Init
  <2>1. /\ t.cells = Grid(con.fb) /\ t.row = (con.y - content_y) \div FONT_H
        /\ t.col = (con.x - content_x) \div FONT_W
    BY <1>7 DEF Term
  <2>2. input_line = <<>> /\ wiped = 0
    BY DEF Init
  <2> QED  BY <1>5, <1>10, <2>1, <2>2 DEF AsTerminal!Init, Grid, t, u
<1> QED  BY <1>8, <1>9, <1>12, <1>13 DEF ScreenInv

\* Steps that change nothing but the phase.
LEMMA GoesOn ==
    ASSUME ScreenInv, NEW where \in {"hlt", "clock", "poll", "click", "clicked", "focus", "keys"}, GoTo(where),
           UNCHANGED <<fb, mouseVars, saveVars, textVars>>,
           where \in {"click", "clicked", "focus"} => ~cursor_saved
    PROVE  Kept
<1>1. Restored' = Restored
  BY DEF Restored, RestoreAt, saveVars
<1>2. Picture' /\ UNCHANGED AsTerminal!vars
  BY <1>1, PictureStays DEF ScreenInv, textVars
<1>3. pc' = [at |-> where, then |-> "none"]
  BY DEF GoTo
<1>4. pc' \in [at : Phases, then : Nexts] /\ pc'.at = where /\ where \notin {"save", "draw"}
  BY <1>3 DEF Phases, Nexts
<1>5. ScreenTypes'
  BY <1>4 DEF ScreenInv, ScreenTypes, mouseVars, saveVars, textVars
<1>6. CursorPhase'
  BY <1>4 DEF CursorPhase, saveVars
<1> QED  BY <1>2, <1>5, <1>6 DEF Kept

LEMMA FirstStep == ASSUME ScreenInv, FirstDraw  PROVE Kept
<1>1. /\ pc.at = "booted" /\ pc' = [at |-> "save", then |-> "hlt"]
      /\ UNCHANGED <<fb, mouseVars, saveVars, textVars>>
  BY DEF FirstDraw, At, ThenDraw
<1>2. Restored' = Restored
  BY <1>1 DEF Restored, RestoreAt, saveVars
<1>3. Picture' /\ UNCHANGED AsTerminal!vars
  BY <1>1, <1>2, PictureStays DEF ScreenInv, textVars
<1>4. pc' \in [at : Phases, then : Nexts] /\ pc'.at = "save" /\ pc'.then # "none"
  BY <1>1 DEF Phases, Nexts
<1>5. ScreenTypes'
  BY <1>1, <1>4 DEF ScreenInv, ScreenTypes, mouseVars, saveVars, textVars
<1>6. CursorPhase'
  BY <1>1, <1>4 DEF ScreenInv, CursorPhase, saveVars
<1> QED  BY <1>3, <1>5, <1>6 DEF Kept

LEMMA IrqStep == ASSUME CalmDraw, ScreenInv, Irq12  PROVE Kept
<1>1. /\ pc.at \notin {"save", "draw"} /\ UNCHANGED <<fb, saveVars, textVars, pc>>
      /\ \E d \in Deltas : mouse_x' = Clamp(mouse_x + d[1], FB_WIDTH) /\ mouse_y' = Clamp(mouse_y + d[2], FB_HEIGHT)
  BY DEF Irq12
<1>2. Restored' = Restored
  BY <1>1 DEF Restored, RestoreAt, saveVars
<1>3. Picture' /\ UNCHANGED AsTerminal!vars
  BY <1>1, <1>2, PictureStays DEF ScreenInv, textVars
<1>4. mouse_x' \in MouseX /\ mouse_y' \in MouseY
  <2>1. PICK d \in Deltas : mouse_x' = Clamp(mouse_x + d[1], FB_WIDTH) /\ mouse_y' = Clamp(mouse_y + d[2], FB_HEIGHT)
    BY <1>1
  <2>2. d[1] \in Int /\ d[2] \in Int
    BY ScreenAssumption DEF ScreenAssumption
  <2>3. mouse_x + d[1] \in Int /\ mouse_y + d[2] \in Int
    BY <2>2, CursorFits DEF ScreenInv, ScreenTypes, MouseX, MouseY
  <2> QED  BY <2>1, <2>3, ClampIs
<1>5. ScreenTypes'
  BY <1>1, <1>4 DEF ScreenInv, ScreenTypes, saveVars, textVars
<1>6. CursorPhase'
  BY <1>1 DEF ScreenInv, CursorPhase, saveVars
<1> QED  BY <1>3, <1>5, <1>6 DEF Kept

LEMMA SaveStep == ASSUME ScreenInv, SaveUnder  PROVE Kept
<1>1. Picture' /\ UNCHANGED AsTerminal!vars
  BY SaveLeaves, PictureStays DEF ScreenInv, SaveUnder, textVars
<1>2. /\ pc.at = "save" /\ pc' = [pc EXCEPT !.at = "draw"] /\ cursor_saved' = TRUE
      /\ save_x' = mouse_x /\ save_y' = mouse_y
      /\ cursor_save' = [o \in Offsets |-> fb[<<mouse_x + o[1], mouse_y + o[2]>>]]
      /\ UNCHANGED <<fb, mouse_x, mouse_y, input_line>>
  BY DEF SaveUnder, At, mouseVars, textVars
<1>3. pc' \in [at : Phases, then : Nexts] /\ pc'.at = "draw" /\ pc'.then # "none"
  BY <1>2 DEF ScreenInv, ScreenTypes, Phases, Nexts
<1>4. cursor_save' \in [Offsets -> PixelValue]
  <2>1. \A o \in Offsets : fb[<<mouse_x + o[1], mouse_y + o[2]>>] \in PixelValue
    BY UnderTheCursor DEF ScreenInv, ScreenTypes, Framebuffer
  <2> QED  BY <1>2, <2>1
<1>5. ScreenTypes'
  BY <1>2, <1>3, <1>4 DEF ScreenInv, ScreenTypes
<1>6. CursorPhase'
  BY <1>2, <1>3 DEF CursorPhase
<1> QED  BY <1>1, <1>5, <1>6 DEF Kept

LEMMA DrawStep == ASSUME ScreenInv, DrawArrow  PROVE Kept
<1>1. Picture' /\ UNCHANGED AsTerminal!vars
  BY DrawLeaves, PictureStays DEF ScreenInv, DrawArrow, textVars
<1>2. /\ pc.at = "draw" /\ pc' = [at |-> pc.then, then |-> "none"]
      /\ fb' = [p \in Pixels |-> IF <<p[1] - mouse_x, p[2] - mouse_y>> \in Arrow THEN Plain("cursor") ELSE fb[p]]
      /\ UNCHANGED <<mouse_x, mouse_y, save_x, save_y, cursor_save, cursor_saved, input_line>>
  BY DEF DrawArrow, At, GoTo, mouseVars, saveVars, textVars
<1>3. pc' \in [at : Phases, then : Nexts] /\ pc'.at \in {"hlt", "poll", "keys"}
  BY <1>2 DEF ScreenInv, ScreenTypes, Phases, Nexts
<1>4. fb' \in Framebuffer
  <2>1. Plain("cursor") \in PixelValue
    BY KindsAre DEF Kinds
  <2>2. fb \in Framebuffer
    BY DEF ScreenInv, ScreenTypes
  <2> QED  BY <1>2, <2>1, <2>2 DEF Framebuffer
<1>5. ScreenTypes'
  BY <1>2, <1>3, <1>4 DEF ScreenInv, ScreenTypes
<1>6. CursorPhase'
  BY <1>3 DEF CursorPhase
<1> QED  BY <1>1, <1>5, <1>6 DEF Kept

\* The cursor erased, drawn over, and about to be drawn.
LEMMA ErasedTypes ==
    ASSUME ScreenInv, fb' \in Framebuffer, cursor_saved' = FALSE, UNCHANGED <<mouseVars, save_x, save_y, cursor_save>>,
           input_line' \in Seq(Chars), Len(input_line') <= Limit,
           \/ \E next \in {"poll", "keys"} : ThenDraw(next)
           \/ GoTo("click")
    PROVE  ScreenTypes' /\ CursorPhase'
<1>1. /\ pc' \in [at : Phases, then : Nexts]
      /\ pc'.at \in {"save", "click"} /\ (pc'.at = "save" => pc'.then # "none")
  BY DEF ThenDraw, GoTo, Phases, Nexts
<1>2. ScreenTypes'
  BY <1>1 DEF ScreenInv, ScreenTypes, mouseVars
<1>3. CursorPhase'
  BY <1>1 DEF CursorPhase
<1> QED  BY <1>2, <1>3

LEMMA ClockStep == ASSUME ScreenInv, ClockTick  PROVE Kept
<1>1. /\ cursor_saved' = FALSE /\ ThenDraw("poll")
      /\ fb' = fb_fill_rect(Restored, FB_WIDTH - 2, 0, 1, MENUBAR_H - 1, Plain("clock"))
      /\ UNCHANGED <<save_x, save_y, cursor_save, mouseVars, textVars>>
  BY DEF ClockTick, ClockTakesCursorAway
<1> DEFINE In(p) == InRect(p, FB_WIDTH - 2, 0, 1, MENUBAR_H - 1)
<1>2. fb' = [p \in Pixels |-> IF In(p) THEN Plain("clock") ELSE Restored[p]]
  BY <1>1 DEF fb_fill_rect
<1>3. fb' \in Framebuffer
  <2>1. Plain("clock") \in PixelValue
    BY KindsAre DEF Kinds
  <2>2. Restored \in Framebuffer
    BY RestoredIs DEF ScreenInv
  <2> HIDE DEF In
  <2> QED  BY <1>2, <2>1, <2>2 DEF Framebuffer
<1>4. ASSUME NEW p \in Pixels, InContent(p) \/ p \in Frame  PROVE fb'[p] = Restored[p]
  <2>1. ~In(p)
    <3>1. CASE p \in Frame
      BY <3>1 DEF Frame
    <3>2. CASE InContent(p)
      <4>1. content_y >= MENUBAR_H /\ content_y \in Nat /\ MENUBAR_H \in Nat /\ FB_WIDTH \in Nat
        BY ScreenAssumption DEF ScreenAssumption, content_y
      <4>2. p[1] \in Nat /\ p[2] \in Nat /\ content_y <= p[2]
        BY <3>2, PixelIs DEF InContent
      <4>3. In(p) => p[2] < 0 + (MENUBAR_H - 1)
        BY <4>1, <4>2, InRectIs
      <4> QED  BY <4>1, <4>2, <4>3
    <3> QED  BY <3>1, <3>2, <1>4
  <2> QED  BY <2>1, <1>2
<1>5. UNCHANGED <<con_x, con_y, input_line, wiped>>
  BY <1>1 DEF textVars
<1>6. Picture' /\ UNCHANGED AsTerminal!vars
  BY <1>1, <1>3, <1>4, <1>5, OutsideDrawn DEF ScreenInv
<1>7. ScreenTypes' /\ CursorPhase'
  BY <1>1, <1>3, <1>5, ErasedTypes DEF ScreenInv, ScreenTypes
<1> QED  BY <1>6, <1>7 DEF Kept

LEMMA PollStep == ASSUME ScreenInv, MousePoll  PROVE Kept
<1>1. CASE HasNews
  <2>1. /\ GoTo("click") /\ fb' = Restored /\ cursor_saved' = FALSE
        /\ UNCHANGED <<mouseVars, save_x, save_y, cursor_save, textVars>>
    BY <1>1 DEF MousePoll
  <2>2. Restored \in Framebuffer
    BY RestoredIs DEF ScreenInv
  <2>3. Restored' = Restored
    BY <2>1, <2>2, NothingSaved
  <2>4. UNCHANGED <<con_x, con_y, input_line, wiped>>
    BY <2>1 DEF textVars
  <2>5. Picture' /\ UNCHANGED AsTerminal!vars
    BY <2>3, <2>4, PictureStays DEF ScreenInv
  <2>6. ScreenTypes' /\ CursorPhase'
    BY <2>1, <2>2, <2>4, ErasedTypes DEF ScreenInv, ScreenTypes
  <2> QED  BY <2>5, <2>6 DEF Kept
<1>2. CASE ~HasNews
  <2>1. GoTo("keys") /\ UNCHANGED <<fb, mouseVars, saveVars, textVars>>
    BY <1>2 DEF MousePoll, saveVars
  <2> QED  BY <2>1, GoesOn
<1> QED  BY <1>1, <1>2

LEMMA FocusStep == ASSUME ScreenInv, Focus  PROVE Kept
<1>1. ~cursor_saved /\ Restored = fb /\ fb \in Framebuffer
  BY RestoredIs DEF ScreenInv, ScreenTypes, CursorPhase, Focus, At
<1>2. /\ ThenDraw("keys") /\ cursor_saved' = cursor_saved
      /\ UNCHANGED <<mouseVars, save_x, save_y, cursor_save, con_x, con_y, input_line>>
  BY DEF Focus, saveVars, textVars
<1>3. cursor_saved' = FALSE
  BY <1>1, <1>2 DEF ScreenInv, ScreenTypes
<1>4. CASE fb' = fb /\ wiped' = wiped
  <2>1. Restored' = Restored
    BY <1>1, <1>3, <1>4, NothingSaved
  <2>2. Picture' /\ UNCHANGED AsTerminal!vars
    BY <1>2, <1>4, <2>1, PictureStays DEF ScreenInv
  <2>3. ScreenTypes' /\ CursorPhase'
    BY <1>1, <1>2, <1>3, <1>4, ErasedTypes DEF ScreenInv, ScreenTypes
  <2> QED  BY <2>2, <2>3 DEF Kept
<1>5. CASE fb' = gui_window_focus(fb) /\ wiped' = Len(input_line)
  <2>1. FrameIs(fb)
    BY <1>1 DEF ScreenInv, Picture
  <2>2. fb' \in Framebuffer /\ (\A p \in Pixels : InContent(p) => fb'[p] = GUI_WINBG) /\ FrameIs(fb')
    BY <1>1, <1>5, <2>1, RedrawnIs
  <2>3. Picture' /\ AsTerminal!Wipe
    BY <1>2, <1>3, <1>5, <2>2, WipedDrawn DEF ScreenInv
  <2>4. ScreenTypes' /\ CursorPhase'
    BY <1>2, <1>3, <2>2, ErasedTypes DEF ScreenInv, ScreenTypes
  <2> QED  BY <2>3, <2>4 DEF Kept, AsTerminal!Next
<1> QED  BY <1>4, <1>5 DEF Focus

LEMMA PrintOne ==
    ASSUME NEW con, NEW char
    PROVE  gui_print(con, <<char>>) = put(con, char)
<1> DEFINE text == <<char>>
           g == CHOOSE h : IsPrint(h, con, text)
           f == [k \in 0 .. 1 |-> IF k = 0 THEN con ELSE put(con, char)]
<1>1. Len(text) = 1 /\ text[1] = char /\ 0 .. Len(text) = 0 .. 1
  OBVIOUS
<1>2. IsPrint(f, con, text)
  <2>1. f = [k \in 0 .. 1 |-> IF k = 0 THEN con ELSE put(f[k - 1], text[k])]
    <3>1. \A k \in 0 .. 1 : k # 0 => k = 1 /\ k - 1 = 0 /\ 0 \in 0 .. 1
      OBVIOUS
    <3>2. f[0] = con
      OBVIOUS
    <3> HIDE DEF text
    <3>3. \A k \in 0 .. 1 : f[k] = IF k = 0 THEN con ELSE put(f[k - 1], text[k])
      BY <3>1, <3>2, <1>1
    <3> QED  BY <3>3
  <2> HIDE DEF f, text
  <2> QED  BY <2>1, <1>1 DEF IsPrint
<1>3. IsPrint(g, con, text)
  <2> HIDE DEF f, text
  <2> QED  BY <1>2
<1>4. gui_print(con, text) = g[Len(text)]
  BY <1>3 DEF gui_print, IsPrint
<1> HIDE DEF g, text
<1>5. 0 \in 0 .. 1 /\ 1 \in 0 .. 1 /\ 1 # 0 /\ 1 - 1 = 0
  OBVIOUS
<1>6. \A k \in 0 .. 1 : g[k] = IF k = 0 THEN con ELSE put(g[k - 1], text[k])
  BY <1>1, <1>3 DEF IsPrint
<1>7. g[1] = put(con, char)
  BY <1>1, <1>5, <1>6
<1> QED  BY <1>1, <1>4, <1>7 DEF text

LEMMA InsertStep ==
    ASSUME ScreenInv, NEW c \in Chars, Insert(c), cursor_saved' = FALSE
    PROVE  Picture' /\ AsTerminal!Type(c) /\ fb' \in Framebuffer
           /\ input_line' \in Seq(Chars) /\ Len(input_line') <= Limit
<1> DEFINE next == put(Console, c)
           t == AsTerminal!Put(Term(Console), c)
<1>1. Len(input_line) < Limit /\ input_line' = Append(input_line, c) /\ wiped' = wiped /\ Shows(next)
  BY PrintOne DEF Insert
<1>2. Follows(Console, next, t)
  BY PutFollows DEF ScreenInv, Picture
<1> HIDE DEF next, t
<1>3. Picture' /\ AsTerminal!Becomes(t) /\ fb' \in Framebuffer
  BY <1>1, <1>2, PictureFollows DEF ScreenInv
<1>4. t = AsTerminal!Put(AsTerminal!Now, c)
  BY TermNow DEF t
<1>5. AsTerminal!Type(c)
  BY <1>1, <1>3, <1>4 DEF AsTerminal!Type
<1>6. input_line' \in Seq(Chars) /\ Len(input_line') <= Limit
  <2>1. input_line \in Seq(Chars) /\ Limit \in Nat
    BY ScreenAssumption DEF ScreenAssumption, ScreenInv, ScreenTypes
  <2>2. Append(input_line, c) \in Seq(Chars) /\ Len(Append(input_line, c)) = Len(input_line) + 1
    BY <2>1, AppendProperties
  <2> QED  BY <1>1, <2>1, <2>2
<1> QED  BY <1>3, <1>5, <1>6

LEMMA FrontIs ==
    ASSUME NEW S, NEW s \in Seq(S), s # <<>>
    PROVE  /\ Front(s) \in Seq(S) /\ Len(Front(s)) = Len(s) - 1 /\ Len(s) \in Nat \ {0}
           /\ \A k \in 1 .. Len(s) - 1 : Front(s)[k] = s[k]
<1>1. Len(s) \in Nat \ {0}
  BY EmptySeq
<1> DEFINE n == Len(s)
           m == n - 1
<1>2. m \in Nat /\ 1 \in Int /\ (\A i \in 1 .. m : s[i] \in S) /\ m - 1 + 1 = m /\ m \in Int
  BY <1>1
<1>3. Front(s) = SubSeq(s, 1, m)
  BY DEF Front
<1>4. n \in Nat /\ m = n - 1
  BY <1>1
<1> HIDE DEF n, m
<1>5. /\ SubSeq(s, 1, m) \in Seq(S) /\ Len(SubSeq(s, 1, m)) = IF 1 <= m THEN m - 1 + 1 ELSE 0
      /\ \A i \in 1 .. m - 1 + 1 : SubSeq(s, 1, m)[i] = s[1 + i - 1]
  BY <1>2, SubSeqProperties
<1>6. \A i \in 1 .. m : SubSeq(s, 1, m)[i] = s[i]
  <2>1. \A i \in 1 .. m : i \in 1 .. m - 1 + 1 /\ 1 + i - 1 = i
    BY <1>2
  <2> QED  BY <1>5, <2>1
<1>7. Len(SubSeq(s, 1, m)) = m
  BY <1>2, <1>5
<1> QED  BY <1>1, <1>3, <1>5, <1>6, <1>7 DEF n, m

LEMMA DeleteStep ==
    ASSUME ScreenInv, Delete, cursor_saved' = FALSE
    PROVE  Picture' /\ AsTerminal!Erase /\ fb' \in Framebuffer
           /\ input_line' \in Seq(Chars) /\ Len(input_line') <= Limit
<1> DEFINE next == EraseOne(Console)
           t == AsTerminal!Backspace(Term(Console))
<1>1. /\ input_line # <<>> /\ input_line' = Front(input_line) /\ Shows(next)
      /\ wiped' = IF wiped = Len(input_line) THEN wiped - 1 ELSE wiped
  BY DEF Delete
<1>2. Follows(Console, next, t)
  BY BackspaceFollows DEF ScreenInv, Picture
<1> HIDE DEF next, t
<1>3. Picture' /\ AsTerminal!Becomes(t) /\ fb' \in Framebuffer
  BY <1>1, <1>2, PictureFollows DEF ScreenInv
<1>4. t = AsTerminal!Backspace(AsTerminal!Now)
  BY TermNow DEF t
<1>5. AsTerminal!Erase
  BY <1>1, <1>3, <1>4 DEF AsTerminal!Erase, AsTerminal!Front, Front
<1>6. input_line' \in Seq(Chars) /\ Len(input_line') <= Limit
  <2>1. input_line \in Seq(Chars) /\ Limit \in Nat /\ Len(input_line) <= Limit
    BY ScreenAssumption DEF ScreenAssumption, ScreenInv, ScreenTypes
  <2>2. Front(input_line) \in Seq(Chars) /\ Len(Front(input_line)) = Len(input_line) - 1
        /\ Len(input_line) \in Nat
    BY <1>1, <2>1, FrontIs
  <2> QED  BY <1>1, <2>1, <2>2
<1> QED  BY <1>3, <1>5, <1>6

LEMMA ReturnStep ==
    ASSUME ScreenInv, Return, cursor_saved' = FALSE
    PROVE  Picture' /\ AsTerminal!Next /\ fb' \in Framebuffer
           /\ input_line' \in Seq(Chars) /\ Len(input_line') <= Limit
<1> DEFINE down == win_newline(Console)
           t == AsTerminal!Newline(Term(Console))
<1>1. Follows(Console, down, t)
  BY NewlineFollows DEF ScreenInv, Picture
<1>2. Prompt \in Seq(Byte) /\ Banner \in Seq(Byte) /\ (\A output \in Outputs : output \in Seq(Byte))
      /\ Limit \in Nat
  BY ScreenAssumption DEF ScreenAssumption, Texts
<1>3. input_line' = <<>> /\ wiped' = 0
  BY DEF Return
<1>4. input_line' \in Seq(Chars) /\ Len(input_line') <= Limit
  BY <1>2, <1>3
<1>5. t = AsTerminal!Newline(AsTerminal!Now)
  BY TermNow
<1> HIDE DEF down, t
<1>6. ASSUME NEW output \in Outputs, Shows(shell_prompt(gui_print(down, output)))
      PROVE  Picture' /\ AsTerminal!Next /\ fb' \in Framebuffer
  <2> DEFINE said == gui_print(down, output)
             u == AsTerminal!Show(t, output)
             last == gui_print(said, Prompt)
             v == AsTerminal!Show(u, Prompt)
  <2>1. IsConsole(down) /\ Term(down) = t
    BY <1>1 DEF Follows
  <2>2. Follows(down, said, u)
    BY <1>2, <2>1, PrintFollows
  <2> HIDE DEF said, u
  <2>3. IsConsole(said) /\ Term(said) = u
    BY <2>2 DEF Follows
  <2>4. Follows(said, last, v)
    BY <1>2, <2>3, PrintFollows
  <2>5. Shows(last)
    BY <1>6 DEF shell_prompt, said
  <2> HIDE DEF last, v
  <2>6. Follows(Console, last, v)
    BY <1>1, <2>2, <2>4, FollowsOn
  <2>7. Picture' /\ AsTerminal!Becomes(v) /\ fb' \in Framebuffer
    BY <2>5, <2>6, PictureFollows DEF ScreenInv
  <2>8. AsTerminal!Enter(output)
    BY <1>3, <1>5, <2>7 DEF AsTerminal!Enter, u, v
  <2> QED  BY <2>7, <2>8 DEF AsTerminal!Next
<1>7. ASSUME Shows(shell_prompt(gui_print(gui_clear_window(down), Banner)))
      PROVE  Picture' /\ AsTerminal!Next /\ fb' \in Framebuffer
  <2> DEFINE blank == gui_clear_window(down)
             said == gui_print(blank, Banner)
             u == AsTerminal!Show(AsTerminal!Cleared, Banner)
             last == gui_print(said, Prompt)
             v == AsTerminal!Show(u, Prompt)
  <2>1. Follows(down, blank, AsTerminal!Cleared)
    BY <1>1, ClearFollows DEF Follows
  <2> HIDE DEF blank
  <2>2. IsConsole(blank) /\ Term(blank) = AsTerminal!Cleared
    BY <2>1 DEF Follows
  <2>3. Follows(blank, said, u)
    BY <1>2, <2>2, PrintFollows
  <2> HIDE DEF said, u
  <2>4. IsConsole(said) /\ Term(said) = u
    BY <2>3 DEF Follows
  <2>5. Follows(said, last, v)
    BY <1>2, <2>4, PrintFollows
  <2>6. Shows(last)
    BY <1>7 DEF shell_prompt, said, blank
  <2> HIDE DEF last, v
  <2>7. Follows(Console, last, v)
    BY <1>1, <2>1, <2>3, <2>5, FollowsOn
  <2>8. Picture' /\ AsTerminal!Becomes(v) /\ fb' \in Framebuffer
    BY <2>6, <2>7, PictureFollows DEF ScreenInv
  <2>9. AsTerminal!Clear
    BY <1>3, <2>8 DEF AsTerminal!Clear, u, v
  <2> QED  BY <2>8, <2>9 DEF AsTerminal!Next
<1> QED  BY <1>4, <1>6, <1>7 DEF Return, down

LEMMA KeyStep == ASSUME ScreenInv, shell_key  PROVE Kept
<1>1. /\ cursor_saved' = FALSE /\ ThenDraw("keys") /\ UNCHANGED <<mouseVars, save_x, save_y, cursor_save>>
      /\ (\E c \in Chars : Insert(c)) \/ Delete \/ Return
  BY DEF shell_key
<1>2. /\ Picture' /\ AsTerminal!Next /\ fb' \in Framebuffer
      /\ input_line' \in Seq(Chars) /\ Len(input_line') <= Limit
  <2>1. ASSUME NEW c \in Chars, Insert(c)
        PROVE  /\ Picture' /\ AsTerminal!Next /\ fb' \in Framebuffer
               /\ input_line' \in Seq(Chars) /\ Len(input_line') <= Limit
    BY <1>1, <2>1, InsertStep DEF AsTerminal!Next
  <2>2. CASE Delete
    BY <1>1, <2>2, DeleteStep DEF AsTerminal!Next
  <2>3. CASE Return
    BY <1>1, <2>3, ReturnStep
  <2> QED  BY <1>1, <2>1, <2>2, <2>3
<1>3. ScreenTypes' /\ CursorPhase'
  BY <1>1, <1>2, ErasedTypes
<1> QED  BY <1>2, <1>3 DEF Kept

LEMMA ScreenStep == CalmDraw /\ ScreenInv /\ [Next]_vars => Kept
<1> SUFFICES ASSUME CalmDraw, ScreenInv, [Next]_vars  PROVE Kept
  OBVIOUS
<1>1. CASE Irq12
  BY <1>1, IrqStep
<1>2. CASE SaveUnder
  BY <1>2, SaveStep
<1>3. CASE DrawArrow
  BY <1>3, DrawStep
<1>4. CASE Hlt
  BY <1>4, GoesOn DEF Hlt
<1>5. CASE ClockTick
  BY <1>5, ClockStep
<1>6. CASE SameSecond
  BY <1>6, GoesOn DEF SameSecond
<1>7. CASE MousePoll
  BY <1>7, PollStep
<1>8. CASE JustClicked
  BY <1>8, GoesOn DEF JustClicked, ScreenInv, CursorPhase, At
<1>9. CASE LastButtons
  BY <1>9, GoesOn DEF LastButtons, ScreenInv, CursorPhase, At
<1>10. CASE Focus
  BY <1>10, FocusStep
<1>11. CASE shell_key
  BY <1>11, KeyStep
<1>12. CASE NoMoreKeys
  BY <1>12, GoesOn DEF NoMoreKeys
<1>14. CASE FirstDraw
  BY <1>14, FirstStep
<1>13. CASE UNCHANGED vars
  <2>1. Restored' = Restored /\ UNCHANGED <<con_x, con_y, input_line, wiped>>
    BY <1>13 DEF vars, Restored, RestoreAt, saveVars, textVars
  <2>2. Picture' /\ UNCHANGED AsTerminal!vars
    BY <2>1, PictureStays DEF ScreenInv
  <2>3. ScreenTypes' /\ CursorPhase'
    BY <1>13 DEF vars, mouseVars, saveVars, textVars, ScreenInv, ScreenTypes, CursorPhase
  <2> QED  BY <2>2, <2>3 DEF Kept
<1> QED  BY <1>1, <1>2, <1>3, <1>4, <1>5, <1>6, <1>7, <1>8, <1>9, <1>10, <1>11, <1>12, <1>13, <1>14 DEF Next, Kernel

\* The invariant holds, for every size of everything, as long as the mouse
\* is at rest while its cursor is being drawn (mouse.c:166-204).
THEOREM ScreenInvariant == CalmDraw => (Spec => []ScreenInv)
<1> SUFFICES ASSUME CalmDraw  PROVE Spec => []ScreenInv
  OBVIOUS
<1>1. Init => ScreenInv
  BY ScreenStart
<1>2. ScreenInv /\ [Next]_vars => ScreenInv'
  BY ScreenStep DEF Kept, ScreenInv
<1> QED  BY <1>1, <1>2, PTL DEF Spec

\* Outside the window's content nothing but the clock changes: the frame,
\* the desktop and the menu bar stay as the boot left them (kernel.c:342-347),
\* under a cursor that is drawn and erased all over them.
THEOREM FrameIsKept == CalmDraw => (Spec => []FrameStays)
<1> SUFFICES ASSUME CalmDraw  PROVE Spec => []FrameStays
  OBVIOUS
<1>1. ScreenInv => FrameStays
  BY DEF ScreenInv, Picture, FrameIs, FrameStays
<1> QED  BY <1>1, ScreenInvariant, PTL

\* The window's pixels implement the grid of characters of Terminal: from a
\* window over which the boot console has drawn (kernel.c:347), through every
\* print, wrap, scroll, backspace and redraw, each byte being shown as the
\* character that fb_put_char has for it (framebuffer.c:161).
THEOREM WindowIsATerminal == CalmDraw => (Spec => RefinesTerminal)
<1> SUFFICES ASSUME CalmDraw  PROVE Spec => RefinesTerminal
  OBVIOUS
<1>1. Init => AsTerminal!Init
  BY ScreenStart
<1>2. ScreenInv /\ [Next]_vars => [AsTerminal!Next]_AsTerminal!vars
  BY ScreenStep DEF Kept
<1> QED  BY <1>1, <1>2, ScreenInvariant, PTL DEF Spec, RefinesTerminal, AsTerminal!Spec

-----------------------------------------------------------------------------
(* The line being typed, on the terminal. *)

\* The cells in reading order.
Place(r, c) == Cols * r + c

LEMMA Counts == Rows \in Nat \ {0} /\ Cols \in Nat \ {0}
BY LinesAre, ColumnsAre DEF Lines, Columns

LEMMA PlaceIsNat ==
    ASSUME NEW r \in 0 .. Rows, NEW c \in 0 .. Cols
    PROVE  Place(r, c) \in Nat
<1>1. r \in Nat /\ c \in Nat /\ Cols \in Nat
  BY Counts
<1>2. Cols * r \in Nat
  BY <1>1
<1> QED  BY <1>1, <1>2 DEF Place

LEMMA PlaceNext ==
    ASSUME NEW r \in 0 .. Rows, NEW c \in 0 .. Cols - 1
    PROVE  Place(r, c + 1) = Place(r, c) + 1
<1>1. r \in Nat /\ c \in Nat /\ Cols \in Nat
  BY Counts
<1>2. Cols * r \in Nat
  BY <1>1
<1> QED  BY <1>1, <1>2 DEF Place

LEMMA PlaceBelow ==
    ASSUME NEW r \in 0 .. Rows - 1, NEW c \in 0 .. Cols
    PROVE  Place(r + 1, c) = Place(r, c) + Cols /\ Place(r + 1, 0) = Place(r, Cols)
<1>1. r \in Nat /\ c \in Nat /\ Cols \in Nat
  BY Counts
<1>2. Cols * r \in Nat /\ Cols * (r + 1) = Cols * r + Cols
  BY <1>1
<1> QED  BY <1>1, <1>2 DEF Place

LEMMA LimitFits == Limit \in Nat /\ Limit <= Place(Rows - 1, 0)
<1>1. Limit \in Nat /\ Limit <= (Rows - 1) * Cols
  BY ScreenAssumption DEF ScreenAssumption
<1>2. (Rows - 1) * Cols = Cols * (Rows - 1) /\ Cols * (Rows - 1) \in Int
  BY Counts
<1>3. Place(Rows - 1, 0) = Cols * (Rows - 1)
  BY <1>2 DEF Place
<1> QED  BY <1>1, <1>2, <1>3

\* A row ends before the next begins.
LEMMA RowsInOrder ==
    ASSUME NEW r \in Int, NEW q \in Int, r < q, NEW c \in 0 .. Cols - 1
    PROVE  Cols * r \in Int /\ Cols * q \in Int /\ Place(r, c) < Cols * q
<1>1. Cols \in Nat /\ c \in Nat /\ c < Cols
  BY Counts
<1>2. Cols * (r + 1) <= Cols * q
  BY <1>1, TimesMonotone
<1>3. Cols * (r + 1) = Cols * r + Cols /\ Cols * r \in Int /\ Cols * q \in Int
  BY <1>1
<1> QED  BY <1>1, <1>2, <1>3 DEF Place

LEMMA PlacesDiffer ==
    ASSUME NEW r \in 0 .. Rows - 1, NEW q \in 0 .. Rows - 1, NEW c \in 0 .. Cols - 1, NEW d \in 0 .. Cols - 1,
           Place(r, c) = Place(q, d)
    PROVE  r = q /\ c = d
<1> DEFINE a == Cols * r
           b == Cols * q
<1>1. r \in Int /\ q \in Int /\ c \in Int /\ d \in Int /\ Cols \in Nat /\ c >= 0 /\ d >= 0
  BY Counts
<1>2. a \in Int /\ b \in Int /\ Place(r, c) = a + c /\ Place(q, d) = b + d
  BY <1>1 DEF Place
<1>3. a + c = b + d
  BY <1>2
<1>4. ~(r < q)
  <2>1. r < q => a + c < b
    BY <1>1, <1>2, RowsInOrder
  <2> HIDE DEF a, b
  <2> QED  BY <1>1, <1>2, <1>3, <2>1
<1>5. ~(q < r)
  <2>1. q < r => b + d < a
    BY <1>1, <1>2, RowsInOrder
  <2> HIDE DEF a, b
  <2> QED  BY <1>1, <1>2, <1>3, <2>1
<1>6. r = q
  BY <1>1, <1>4, <1>5
<1>7. a = b
  BY <1>6
<1>8. c = d
  <2> HIDE DEF a, b
  <2> QED  BY <1>1, <1>2, <1>3, <1>7
<1> QED  BY <1>6, <1>8

\* A terminal whose text cursor is on a cell, or just after the last of a row.
IsTerm(t) ==
    /\ t.row \in 0 .. Rows - 1 /\ t.col \in 0 .. Cols
    /\ t.cells = [r \in 0 .. Rows - 1 |-> [c \in 0 .. Cols - 1 |-> t.cells[r][c]]]

\* What is left of a line of which w characters are wiped.
Mark(line, w, k) == IF k <= w THEN Blank ELSE Face(line[k])

\* The cells before the text cursor hold the line, but for what is wiped.
Holds(t, line, w) ==
    /\ w \in 0 .. Len(line)
    /\ Place(t.row, t.col) >= Len(line)
    /\ \A k \in 1 .. Len(line), r \in 0 .. Rows - 1, c \in 0 .. Cols - 1 :
           Place(r, c) = Place(t.row, t.col) - Len(line) + k - 1 => t.cells[r][c] = Mark(line, w, k)

LEMMA HoldsNothing ==
    ASSUME NEW t, IsTerm(t)
    PROVE  Holds(t, <<>>, 0)
<1>1. t.row \in 0 .. Rows /\ t.col \in 0 .. Cols
  BY Counts DEF IsTerm
<1>2. Place(t.row, t.col) \in Nat
  BY <1>1, PlaceIsNat
<1> QED  BY <1>2 DEF Holds

\* A character written where the cursor is.
LEMMA WrittenHolds ==
    ASSUME NEW t, IsTerm(t), t.col < Cols, NEW line \in Seq(Chars), NEW char \in Chars,
           NEW gone, Holds(t, line, gone)
    PROVE  LET w == [cells |-> [t.cells EXCEPT ![t.row][t.col] = Face(char)], row |-> t.row, col |-> t.col + 1]
           IN  IsTerm(w) /\ Holds(w, Append(line, char), gone)
<1> DEFINE face == Face(char)
           w == [cells |-> [t.cells EXCEPT ![t.row][t.col] = face], row |-> t.row, col |-> t.col + 1]
           n == Len(line)
           longer == Append(line, char)
           p == Place(t.row, t.col)
<1>1. Cols \in Nat /\ Rows \in Nat /\ t.row \in 0 .. Rows - 1 /\ t.col \in 0 .. Cols - 1 /\ t.col + 1 \in 0 .. Cols
      /\ t.row \in 0 .. Rows /\ t.col \in 0 .. Cols
  BY Counts DEF IsTerm
<1>2. \A r \in 0 .. Rows - 1, c \in 0 .. Cols - 1 :
          w.cells[r][c] = IF r = t.row /\ c = t.col THEN face ELSE t.cells[r][c]
  BY <1>1 DEF IsTerm
<1>3. w.cells = [r \in 0 .. Rows - 1 |-> [c \in 0 .. Cols - 1 |-> w.cells[r][c]]]
  <2> DEFINE g == t.cells
  <2>1. g = [r \in 0 .. Rows - 1 |-> [c \in 0 .. Cols - 1 |-> g[r][c]]]
    BY DEF IsTerm
  <2> HIDE DEF g
  <2>2. [g EXCEPT ![t.row][t.col] = face]
        = [r \in 0 .. Rows - 1 |-> [c \in 0 .. Cols - 1 |-> [g EXCEPT ![t.row][t.col] = face][r][c]]]
    BY <2>1, <1>1
  <2> QED  BY <2>2 DEF g
<1>4. w.row = t.row /\ w.col = t.col + 1
  OBVIOUS
<1> HIDE DEF w
<1>5. IsTerm(w)
  BY <1>1, <1>3, <1>4 DEF IsTerm
<1>6. n \in Nat /\ Len(longer) = n + 1 /\ longer[n + 1] = char /\ \A k \in 1 .. n : longer[k] = line[k]
  BY AppendProperties
<1>7. p \in Nat /\ Place(w.row, w.col) = p + 1
  BY <1>1, <1>4, PlaceIsNat, PlaceNext
<1>8. p >= n /\ gone \in 0 .. n
  BY DEF Holds
<1> HIDE DEF longer
<1>9. ASSUME NEW k \in 1 .. n + 1, NEW r \in 0 .. Rows - 1, NEW c \in 0 .. Cols - 1,
             Place(r, c) = p + 1 - (n + 1) + k - 1
      PROVE  w.cells[r][c] = Mark(longer, gone, k)
  <2>1. Place(r, c) = p - n + k - 1 /\ Place(r, c) \in Nat
    <3>1. Place(r, c) \in Nat
      <4>1. r \in 0 .. Rows /\ c \in 0 .. Cols
        BY <1>1
      <4> QED  BY <4>1, PlaceIsNat
    <3> HIDE DEF n, p
    <3> QED  BY <3>1, <1>6, <1>7, <1>9
  <2>2. CASE k = n + 1
    <3>1. Place(r, c) = p
      <4> HIDE DEF n, p
      <4> QED  BY <2>1, <2>2, <1>6, <1>7
    <3>2. r = t.row /\ c = t.col
      BY <3>1, <1>1, PlacesDiffer
    <3>3. w.cells[r][c] = face
      BY <3>2, <1>2
    <3>4. ~(k <= gone) /\ longer[k] = char
      <4> HIDE DEF n
      <4> QED  BY <2>2, <1>6, <1>8
    <3> QED  BY <3>3, <3>4 DEF Mark
  <2>3. CASE k # n + 1
    <3>1. k \in 1 .. n /\ Place(r, c) < p
      <4> HIDE DEF n, p
      <4> QED  BY <2>1, <2>3, <1>6, <1>7
    <3>2. ~(r = t.row /\ c = t.col)
      BY <3>1, <1>7
    <3>3. w.cells[r][c] = t.cells[r][c]
      BY <3>2, <1>2
    <3>4. t.cells[r][c] = Mark(line, gone, k)
      BY <3>1, <2>1 DEF Holds
    <3>5. longer[k] = line[k]
      BY <3>1, <1>6
    <3> QED  BY <3>3, <3>4, <3>5 DEF Mark
  <2> QED  BY <2>2, <2>3
<1>10. Holds(w, longer, gone)
  <2>1. p + 1 >= n + 1 /\ gone \in 0 .. n + 1
    <3> HIDE DEF n, p
    <3> QED  BY <1>6, <1>7, <1>8
  <2> HIDE DEF n, p
  <2> QED  BY <1>6, <1>7, <1>9, <2>1 DEF Holds
<1> QED  BY <1>5, <1>10 DEF w, longer

\* The cursor wraps to the next row; when there is none, all rows go up.
LEMMA WrappedHolds ==
    ASSUME NEW t, IsTerm(t), t.col = Cols, NEW line \in Seq(Chars), Len(line) <= Limit,
           NEW gone, Holds(t, line, gone)
    PROVE  Holds(AsTerminal!Newline(t), line, gone)
<1> DEFINE u == AsTerminal!Newline(t)
           n == Len(line)
           p == Place(t.row, t.col)
<1>1. /\ Cols \in Nat \ {0} /\ Rows \in Nat \ {0} /\ t.row \in 0 .. Rows - 1 /\ t.col \in 0 .. Cols
      /\ Limit \in Nat /\ Limit <= Place(Rows - 1, 0) /\ t.row \in 0 .. Rows
  BY Counts, LimitFits DEF IsTerm
<1>2. n \in Nat /\ n <= Limit /\ p >= n /\ gone \in 0 .. n
  BY DEF Holds
<1>3. p \in Nat /\ p = Place(t.row + 1, 0)
  BY <1>1, PlaceIsNat, PlaceBelow
<1>4. CASE t.row + 1 < Rows
  <2>1. u.cells = t.cells /\ Place(u.row, u.col) = p
    BY <1>3, <1>4 DEF AsTerminal!Newline
  <2> HIDE DEF u, n, p
  <2> QED  BY <2>1 DEF Holds, u, p
<1>5. CASE ~(t.row + 1 < Rows)
  <2>1. t.row = Rows - 1 /\ 0 \in 0 .. Cols /\ t.row + 1 = Rows
    BY <1>1, <1>5
  <2>2. u.row = t.row /\ u.col = 0
    BY <1>5 DEF AsTerminal!Newline
  <2>3. u.cells = [r \in 0 .. Rows - 1 |-> IF r + 1 < Rows THEN t.cells[r + 1] ELSE [c \in 0 .. Cols - 1 |-> Blank]]
    BY <1>5 DEF AsTerminal!Newline, AsTerminal!EmptyRow
  <2>4. Place(u.row, u.col) = p - Cols /\ p - Cols >= n
    <3>1. Place(t.row + 1, 0) = Place(t.row, 0) + Cols /\ Place(t.row, 0) \in Nat
      BY <1>1, <2>1, PlaceBelow, PlaceIsNat
    <3> HIDE DEF n, p, u
    <3> QED  BY <3>1, <2>1, <2>2, <1>1, <1>2, <1>3
  <2> HIDE DEF u
  <2>5. ASSUME NEW k \in 1 .. n, NEW r \in 0 .. Rows - 1, NEW c \in 0 .. Cols - 1,
               Place(r, c) = p - Cols - n + k - 1
        PROVE  u.cells[r][c] = Mark(line, gone, k)
    <3>1. CASE r + 1 < Rows
      <4>1. r + 1 \in 0 .. Rows - 1 /\ c \in 0 .. Cols /\ r \in 0 .. Rows
        BY <3>1, <1>1
      <4>2. Place(r + 1, c) = Place(r, c) + Cols /\ Place(r, c) \in Nat
        BY <4>1, PlaceBelow, PlaceIsNat
      <4>3. Place(r + 1, c) = p - n + k - 1
        <5>1. k \in Int /\ n \in Int /\ p \in Int /\ Cols \in Int /\ Place(r, c) \in Int
          BY <4>2, <1>1, <1>2, <1>3
        <5> DEFINE x == Place(r, c)
                   y == Place(r + 1, c)
        <5>2. y = x + Cols /\ x = p - Cols - n + k - 1
          BY <4>2, <2>5
        <5> HIDE DEF n, p, x, y
        <5>3. x \in Int
          BY <5>1 DEF x
        <5>4. y = p - n + k - 1
          BY <5>1, <5>2, <5>3
        <5> QED  BY <5>4 DEF y
      <4>4. t.cells[r + 1][c] = Mark(line, gone, k)
        BY <4>1, <4>3 DEF Holds
      <4> QED  BY <4>4, <3>1, <2>3
    <3>2. r + 1 < Rows
      <4>1. Place(Rows - 1, 0) = p - Cols
        BY <2>1, <2>2, <2>4
      <4>2. Cols * (Rows - 1) \in Int /\ c \in Nat
        BY <1>1
      <4>3. Place(Rows - 1, 0) <= Place(Rows - 1, c) /\ Place(Rows - 1, c) \in Int
        BY <4>2 DEF Place
      <4>4. p - Cols - n + k - 1 < p - Cols
        <5> HIDE DEF n, p
        <5> QED  BY <1>1, <1>2, <1>3
      <4>5. p - Cols \in Int /\ p - Cols - n + k - 1 \in Int
        <5> HIDE DEF n, p
        <5> QED  BY <1>1, <1>2, <1>3
      <4>6. r # Rows - 1
        <5> HIDE DEF n, p
        <5> QED  BY <4>1, <4>3, <4>4, <4>5, <2>5
      <4> QED  BY <4>6, <1>1
    <3> QED  BY <3>1, <3>2
  <2>6. ASSUME NEW k \in 1 .. n, NEW r \in 0 .. Rows - 1, NEW c \in 0 .. Cols - 1,
               Place(r, c) = Place(u.row, u.col) - n + k - 1
        PROVE  u.cells[r][c] = Mark(line, gone, k)
    BY <2>4, <2>5, <2>6
  <2> QED  BY <2>4, <2>6 DEF Holds, u
<1> QED  BY <1>4, <1>5

\* The last character of the line taken off again.
LEMMA ErasedHolds ==
    ASSUME NEW t, IsTerm(t), t.col < Cols, NEW line \in Seq(Chars), line # <<>>,
           NEW gone, Holds(t, line, gone)
    PROVE  Holds(AsTerminal!Backspace(t), Front(line), IF gone = Len(line) THEN gone - 1 ELSE gone)
<1> DEFINE r0 == IF t.col > 0 THEN t.row ELSE t.row - 1
           c0 == IF t.col > 0 THEN t.col - 1 ELSE Cols - 1
           u == [cells |-> [t.cells EXCEPT ![r0][c0] = Blank], row |-> r0, col |-> c0]
           n == Len(line)
           p == Place(t.row, t.col)
           shorter == Front(line)
           left == IF gone = n THEN gone - 1 ELSE gone
<1>1. Cols \in Nat \ {0} /\ Rows \in Nat \ {0} /\ t.row \in 0 .. Rows - 1 /\ t.col \in 0 .. Cols - 1
      /\ t.row \in 0 .. Rows /\ t.col \in 0 .. Cols
  BY Counts DEF IsTerm
<1>2. n \in Nat \ {0} /\ Len(shorter) = n - 1 /\ \A k \in 1 .. n - 1 : shorter[k] = line[k]
  BY FrontIs
<1>3. p \in Nat /\ p >= n /\ gone \in 0 .. n
  BY <1>1, PlaceIsNat DEF Holds
<1>11. left \in 0 .. n - 1 /\ \A k \in 1 .. n - 1 : k <= left <=> k <= gone
  <2> HIDE DEF n
  <2> QED  BY <1>2, <1>3
<1>4. ~(t.row = 0 /\ t.col = 0)
  <2>1. Place(0, 0) = 0
    BY <1>1 DEF Place
  <2> HIDE DEF n
  <2> QED  BY <2>1, <1>2, <1>3
<1>5. AsTerminal!Backspace(t) = u
  BY <1>4 DEF AsTerminal!Backspace
<1>6. r0 \in 0 .. Rows - 1 /\ c0 \in 0 .. Cols - 1 /\ Place(r0, c0) = p - 1 /\ Place(r0, c0) \in Nat
  <2>1. CASE t.col > 0
    <3> DEFINE c == t.col - 1
    <3>1. c \in 0 .. Cols - 1 /\ c + 1 = t.col /\ c \in 0 .. Cols
      BY <1>1, <2>1
    <3>2. r0 = t.row /\ c0 = c
      BY <2>1
    <3> HIDE DEF c, r0, c0
    <3>3. Place(t.row, c + 1) = Place(t.row, c) + 1 /\ Place(t.row, c) \in Nat
      BY <3>1, <1>1, PlaceNext, PlaceIsNat
    <3> QED  BY <3>1, <3>2, <3>3, <1>1
  <2>2. CASE ~(t.col > 0)
    <3> DEFINE r == t.row - 1
               c == Cols - 1
    <3>1. /\ r \in 0 .. Rows - 1 /\ r + 1 = t.row /\ t.col = 0 /\ r \in 0 .. Rows
          /\ c \in 0 .. Cols - 1 /\ c + 1 = Cols /\ c \in 0 .. Cols /\ Cols \in 0 .. Cols
      BY <1>1, <1>4, <2>2
    <3>2. r0 = r /\ c0 = c
      BY <2>2
    <3> HIDE DEF r, c, r0, c0
    <3>3. Place(r + 1, 0) = Place(r, Cols)
      BY <3>1, PlaceBelow
    <3>4. Place(r, c + 1) = Place(r, c) + 1 /\ Place(r, c) \in Nat
      BY <3>1, PlaceNext, PlaceIsNat
    <3>5. p = Place(r, c) + 1
      BY <3>1, <3>3, <3>4
    <3> QED  BY <3>1, <3>2, <3>4, <3>5
  <2> QED  BY <2>1, <2>2
<1> HIDE DEF r0, c0, shorter, left
<1>7. \A r \in 0 .. Rows - 1, c \in 0 .. Cols - 1 :
          u.cells[r][c] = IF r = r0 /\ c = c0 THEN Blank ELSE t.cells[r][c]
  BY <1>1, <1>6 DEF IsTerm
<1>8. u.row = r0 /\ u.col = c0
  OBVIOUS
<1> HIDE DEF u
<1>9. ASSUME NEW k \in 1 .. n - 1, NEW r \in 0 .. Rows - 1, NEW c \in 0 .. Cols - 1,
             Place(r, c) = p - 1 - (n - 1) + k - 1
      PROVE  u.cells[r][c] = Mark(shorter, left, k)
  <2>1. k \in 1 .. n /\ Place(r, c) = p - n + k - 1
    <3> HIDE DEF n, p
    <3> QED  BY <1>2, <1>3, <1>9
  <2>2. t.cells[r][c] = Mark(line, gone, k)
    BY <2>1 DEF Holds
  <2>3. Mark(shorter, left, k) = Mark(line, gone, k)
    BY <1>2, <1>11 DEF Mark
  <2>4. Place(r, c) # p - 1
    <3> HIDE DEF n, p
    <3> QED  BY <1>2, <1>3, <1>9
  <2>5. ~(r = r0 /\ c = c0)
    BY <2>4, <1>6
  <2> QED  BY <2>2, <2>3, <2>5, <1>7
<1>10. Holds(u, shorter, left)
  <2>1. p - 1 >= n - 1 /\ Place(u.row, u.col) = p - 1
    <3> HIDE DEF n, p
    <3> QED  BY <1>2, <1>3, <1>6, <1>8
  <2> HIDE DEF n, p
  <2> QED  BY <1>2, <1>9, <1>11, <2>1 DEF Holds
<1> QED  BY <1>5, <1>10 DEF shorter, left

\* What the window holds of the line.
LineNow == Holds(Term(Console), input_line, wiped)

LEMMA ConsoleIsTerm ==
    ASSUME NEW con, IsConsole(con)
    PROVE  IsTerm(Term(con)) /\ Term(con).col < Cols
<1>1. PICK r \in 0 .. Rows - 1, c \in 0 .. Cols - 1 : Stands(con, r, c)
  BY DEF IsConsole
<1>2. Term(con) = [cells |-> Grid(con.fb), row |-> r, col |-> c]
  BY <1>1, TermIs
<1>3. c \in 0 .. Cols /\ c < Cols
  BY Counts
<1>4. Grid(con.fb) = [q \in 0 .. Rows - 1 |-> [d \in 0 .. Cols - 1 |-> Grid(con.fb)[q][d]]]
  BY DEF Grid
<1> QED  BY <1>2, <1>3, <1>4 DEF IsTerm

LEMMA HoldsSame ==
    ASSUME NEW t, NEW u, u.cells = t.cells, u.row = t.row, u.col = t.col, NEW line, NEW gone, Holds(t, line, gone)
    PROVE  Holds(u, line, gone)
BY DEF Holds

LEMMA NextLine ==
    ASSUME NEW t, Picture', AsTerminal!Becomes(t), Holds(t, input_line', wiped')
    PROVE  LineNow'
<1>1. Term(Console)'.cells = t.cells /\ Term(Console)'.row = t.row /\ Term(Console)'.col = t.col
  BY DEF AsTerminal!Becomes, Term, Console, Grid
<1> QED  BY <1>1, HoldsSame DEF LineNow, Holds

LEMMA TypeHolds ==
    ASSUME ScreenInv, LineNow, Picture', NEW c \in Chars, AsTerminal!Type(c)
    PROVE  LineNow'
<1> DEFINE t == Term(Console)
           longer == Append(input_line, c)
           w == [cells |-> [t.cells EXCEPT ![t.row][t.col] = Face(c)], row |-> t.row, col |-> t.col + 1]
<1>1. IsTerm(t) /\ t.col < Cols /\ Holds(t, input_line, wiped) /\ input_line \in Seq(Chars)
  BY ConsoleIsTerm DEF ScreenInv, ScreenTypes, Picture, LineNow
<1>2. AsTerminal!Becomes(AsTerminal!Put(t, c)) /\ input_line' = longer /\ Len(input_line) < Limit
      /\ wiped' = wiped
  BY TermNow DEF AsTerminal!Type
<1>3. longer \in Seq(Chars) /\ Len(longer) <= Limit
  <2>1. longer \in Seq(Chars) /\ Len(longer) = Len(input_line) + 1 /\ Len(input_line) \in Nat /\ Limit \in Nat
    BY <1>1, LimitFits, AppendProperties
  <2> QED  BY <1>2, <2>1
<1> HIDE DEF t
<1>4. IsTerm(w) /\ Holds(w, longer, wiped)
  BY <1>1, WrittenHolds
<1>5. c # NL
  BY ScreenAssumption DEF ScreenAssumption
<1>8. AsTerminal!Face(c) = Face(c)
  BY FaceIs
<1>6. AsTerminal!Put(t, c) = IF w.col = Cols THEN AsTerminal!Newline(w) ELSE w
  BY <1>5, <1>8 DEF AsTerminal!Put
<1> HIDE DEF w, longer
<1>7. Holds(AsTerminal!Put(t, c), longer, wiped)
  BY <1>3, <1>4, <1>6, WrappedHolds
<1> QED  BY <1>2, <1>7, NextLine

LEMMA EraseHolds ==
    ASSUME ScreenInv, LineNow, Picture', AsTerminal!Erase
    PROVE  LineNow'
<1> DEFINE t == Term(Console)
<1>1. IsTerm(t) /\ t.col < Cols /\ Holds(t, input_line, wiped) /\ input_line \in Seq(Chars)
  BY ConsoleIsTerm DEF ScreenInv, ScreenTypes, Picture, LineNow
<1>2. AsTerminal!Becomes(AsTerminal!Backspace(t)) /\ input_line # <<>> /\ input_line' = Front(input_line)
      /\ wiped' = IF wiped = Len(input_line) THEN wiped - 1 ELSE wiped
  BY TermNow DEF AsTerminal!Erase, AsTerminal!Front, Front
<1> HIDE DEF t
<1>3. Holds(AsTerminal!Backspace(t), Front(input_line), IF wiped = Len(input_line) THEN wiped - 1 ELSE wiped)
  BY <1>1, <1>2, ErasedHolds
<1> QED  BY <1>2, <1>3, NextLine

LEMMA NoLine == ASSUME Picture', input_line' = <<>>, wiped' = 0  PROVE LineNow'
<1>1. IsConsole(Console')
  BY DEF Picture, IsConsole, Stands
<1>2. IsTerm(Term(Console'))
  BY <1>1, ConsoleIsTerm
<1>3. Holds(Term(Console'), <<>>, 0)
  BY <1>2, HoldsNothing
<1> QED  BY <1>3 DEF LineNow, Holds, Term, Grid

LEMMA WipeHolds == ASSUME ScreenInv, LineNow, AsTerminal!Wipe  PROVE LineNow'
<1> DEFINE t == Term(Console)
           u == Term(Console)'
<1>1. Holds(t, input_line, wiped) /\ input_line' = input_line /\ wiped' = Len(input_line)
  BY DEF LineNow, AsTerminal!Wipe
<1>2. u.cells = AsTerminal!Cleared.cells /\ u.row = t.row /\ u.col = t.col
  BY DEF AsTerminal!Wipe, Term, Console, Grid
<1>3. \A r \in 0 .. Rows - 1, c \in 0 .. Cols - 1 : u.cells[r][c] = Blank
  BY <1>2 DEF AsTerminal!Cleared, AsTerminal!EmptyRow
<1> HIDE DEF t, u
<1>5. Len(input_line) \in Nat
  BY DEF ScreenInv, ScreenTypes
<1>6. \A k \in 1 .. Len(input_line) : Mark(input_line, Len(input_line), k) = Blank
  BY DEF Mark
<1>4. Holds(u, input_line, Len(input_line))
  BY <1>1, <1>2, <1>3, <1>5, <1>6 DEF Holds
<1> QED  BY <1>1, <1>4 DEF LineNow, u, Holds

LEMMA LineStep ==
    ASSUME ScreenInv, LineNow, Picture', [AsTerminal!Next]_AsTerminal!vars
    PROVE  LineNow'
<1>1. ASSUME NEW c \in Chars, AsTerminal!Type(c)  PROVE LineNow'
  BY <1>1, TypeHolds
<1>2. CASE AsTerminal!Erase
  BY <1>2, EraseHolds
<1>3. ASSUME NEW output \in Outputs, AsTerminal!Enter(output)  PROVE LineNow'
  BY <1>3, NoLine DEF AsTerminal!Enter
<1>4. CASE AsTerminal!Clear
  BY <1>4, NoLine DEF AsTerminal!Clear
<1>5. CASE AsTerminal!Wipe
  BY <1>5, WipeHolds
<1>6. CASE UNCHANGED AsTerminal!vars
  <2>1. Term(Console)' = Term(Console) /\ input_line' = input_line /\ wiped' = wiped
    BY <1>6 DEF AsTerminal!vars, Term, Console, Grid
  <2> QED  BY <2>1 DEF LineNow, Holds
<1> QED  BY <1>1, <1>2, <1>3, <1>4, <1>5, <1>6 DEF AsTerminal!Next

\* Division finds the row and the column of a place.
LEMMA PlaceFound ==
    ASSUME NEW n \in Nat, n < Place(Rows - 1, Cols)
    PROVE  n \div Cols \in 0 .. Rows - 1 /\ n % Cols \in 0 .. Cols - 1 /\ Place(n \div Cols, n % Cols) = n
<1> DEFINE q == n \div Cols
           d == n % Cols
<1>1. Cols \in Nat \ {0} /\ Rows \in Nat \ {0}
  BY Counts
<1>2. q \in Nat /\ d \in Nat /\ n = Cols * q + d /\ d < Cols
  BY <1>1, DivMod
<1>3. Place(Rows - 1, Cols) = Cols * Rows
  <2>1. Cols * Rows = Cols * (Rows - 1) + Cols
    BY <1>1
  <2> QED  BY <2>1 DEF Place
<1> HIDE DEF q, d
<1>4. q < Rows
  <2>1. Rows <= q => Cols * Rows <= Cols * q
    BY <1>1, <1>2, TimesMonotone
  <2>2. Cols * Rows \in Nat /\ Cols * q \in Nat
    BY <1>1, <1>2
  <2> QED  BY <1>1, <1>2, <1>3, <2>1, <2>2
<1>5. q \in 0 .. Rows - 1 /\ d \in 0 .. Cols - 1
  BY <1>1, <1>2, <1>4
<1> QED  BY <1>2, <1>5 DEF Place, q, d

LEMMA LineRead == ScreenInv /\ LineNow => LineIsOnScreen
<1> SUFFICES ASSUME ScreenInv, LineNow  PROVE LineIsOnScreen
  OBVIOUS
<1> DEFINE t == Term(Console)
           end == ((con_y - content_y) \div FONT_H) * Cols + (con_x - content_x) \div FONT_W
           m == Len(input_line)
<1>1. IsTerm(t) /\ t.col < Cols /\ Holds(t, input_line, wiped) /\ input_line \in Seq(Chars)
  BY ConsoleIsTerm DEF ScreenInv, ScreenTypes, Picture, LineNow
<1>2. /\ t.row = (con_y - content_y) \div FONT_H /\ t.col = (con_x - content_x) \div FONT_W
      /\ t.cells = Grid(Restored)
  BY DEF Term, Console
<1> HIDE DEF t
<1>3. Cols \in Nat \ {0} /\ Rows \in Nat \ {0} /\ t.row \in 0 .. Rows - 1 /\ t.col \in 0 .. Cols - 1
  BY <1>1, Counts DEF IsTerm
<1>4. end = Place(t.row, t.col) /\ end \in Nat /\ end < Place(Rows - 1, Cols)
  <2>1. t.row * Cols = Cols * t.row
    BY <1>3
  <2>2. end = Place(t.row, t.col)
    BY <1>2, <2>1 DEF Place
  <2>3. t.row \in 0 .. Rows /\ t.col \in 0 .. Cols
    BY <1>3
  <2>4. Place(t.row, t.col) \in Nat
    BY <2>3, PlaceIsNat
  <2>5. Cols * t.row <= Cols * (Rows - 1) /\ Cols * t.row \in Int /\ Cols * (Rows - 1) \in Int
    BY <1>3, TimesMonotone
  <2>6. Place(t.row, t.col) < Place(Rows - 1, Cols)
    BY <1>3, <2>5 DEF Place
  <2> QED  BY <2>2, <2>4, <2>6
<1>5. m \in Nat /\ DOMAIN input_line = 1 .. m /\ end >= m
  BY <1>1, <1>4 DEF Holds
<1> HIDE DEF end, m
<1>6. ASSUME NEW k \in 1 .. m
      PROVE  Cell(Restored, (end - m + k - 1) \div Cols, (end - m + k - 1) % Cols) = Mark(input_line, wiped, k)
  <2> DEFINE n == end - m + k - 1
  <2>1. n \in Nat /\ n < Place(Rows - 1, Cols)
    <3> DEFINE z == Place(Rows - 1, Cols)
    <3>1. z \in Nat
      <4>1. Rows - 1 \in 0 .. Rows /\ Cols \in 0 .. Cols
        BY <1>3
      <4> QED  BY <4>1, PlaceIsNat
    <3> HIDE DEF z
    <3>2. end < z
      BY <1>4 DEF z
    <3>3. n \in Nat /\ n < z
      BY <1>4, <1>5, <3>1, <3>2
    <3> QED  BY <3>3 DEF z
  <2> DEFINE r == n \div Cols
             c == n % Cols
  <2> HIDE DEF n
  <2>2. r \in 0 .. Rows - 1 /\ c \in 0 .. Cols - 1 /\ Place(r, c) = n
    BY <2>1, PlaceFound
  <2> HIDE DEF r, c
  <2>3. t.cells[r][c] = Mark(input_line, wiped, k)
    BY <1>1, <1>4, <2>2 DEF Holds, m, n
  <2>4. t.cells[r][c] = Cell(Restored, r, c)
    BY <1>2, <2>2 DEF Grid
  <2> QED  BY <2>3, <2>4 DEF r, c, n
<1> QED  BY <1>5, <1>6 DEF LineIsOnScreen, Mark, end, m

\* What Enter will run can be read: however often the line wrapped and the
\* window scrolled, a cell before the text cursor shows each character of the
\* line (kernel.c:272-276), a question mark for one that has no glyph, and is
\* blank exactly where a click on the title bar has wiped it.
THEOREM LineStaysOnScreen == CalmDraw => (Spec => []LineIsOnScreen)
<1> SUFFICES ASSUME CalmDraw  PROVE Spec => []LineIsOnScreen
  OBVIOUS
<1>1. Init => ScreenInv /\ LineNow
  <2> SUFFICES ASSUME Init  PROVE ScreenInv /\ LineNow
    OBVIOUS
  <2>1. ScreenInv /\ input_line = <<>> /\ wiped = 0
    BY ScreenStart DEF Init
  <2>2. IsTerm(Term(Console))
    BY <2>1, ConsoleIsTerm DEF ScreenInv, Picture
  <2> QED  BY <2>1, <2>2, HoldsNothing DEF LineNow
<1>2. ScreenInv /\ LineNow /\ [Next]_vars => (ScreenInv /\ LineNow)'
  BY ScreenStep, LineStep DEF Kept, ScreenInv
<1>3. ScreenInv /\ LineNow => LineIsOnScreen
  BY LineRead
<1> QED  BY <1>1, <1>2, <1>3, PTL DEF Spec
=============================================================================
