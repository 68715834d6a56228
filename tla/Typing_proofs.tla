--------------------------- MODULE Typing_proofs ---------------------------
(***************************************************************************)
(* Proofs about Console and Typing, for a screen and a keyboard buffer of  *)
(* any size.                                                               *)
(***************************************************************************)
EXTENDS MCTyping, SequenceTheorems, WellFoundedInduction, TLAPS

-----------------------------------------------------------------------------
(* Places on the screen. *)

\* The constants, as the proofs use them: the screen has two lines or more.
LEMMA ScreenType ==
  /\ NUM_ROWS \in Nat /\ NUM_COLS \in Nat /\ NUM_ROWS >= 2 /\ NUM_COLS >= 1
  /\ KEY_BUF_SIZE \in Nat /\ KEY_BUF_SIZE >= 1 /\ TAB_SPACE \in Nat
  /\ NUM_COLS * NUM_ROWS \in Nat
  /\ NUM_ROWS * NUM_COLS = NUM_COLS * NUM_ROWS
  /\ NUM_COLS * (NUM_ROWS - 1) = NUM_COLS * NUM_ROWS - NUM_COLS
  /\ KEY_BUF_SIZE <= NUM_COLS * NUM_ROWS - NUM_COLS
<1>1. NUM_ROWS \in Nat \ {0} /\ NUM_COLS \in Nat \ {0} /\ KEY_BUF_SIZE \in Nat \ {0}
      /\ KEY_BUF_SIZE <= (NUM_ROWS - 1) * NUM_COLS /\ TAB_SPACE \in Nat
  BY ConsoleAssumption, TypingAssumption
<1>2. NUM_ROWS # 1
  BY <1>1
<1>3. /\ (NUM_ROWS - 1) * NUM_COLS = NUM_COLS * NUM_ROWS - NUM_COLS
      /\ NUM_COLS * (NUM_ROWS - 1) = NUM_COLS * NUM_ROWS - NUM_COLS
      /\ NUM_ROWS * NUM_COLS = NUM_COLS * NUM_ROWS /\ NUM_COLS * NUM_ROWS \in Nat
  BY <1>1
<1> QED  BY <1>1, <1>2, <1>3

\* The lines are as far apart as they are long, and the last one is the end.
LEMMA RowPlace ==
  ASSUME NEW y \in Rows
  PROVE  /\ NUM_COLS * y \in Nat /\ NUM_COLS * (y + 1) = NUM_COLS * y + NUM_COLS
         /\ NUM_COLS * y + NUM_COLS <= NUM_COLS * NUM_ROWS
         /\ (y + 1 < NUM_ROWS => NUM_COLS * y + NUM_COLS + NUM_COLS <= NUM_COLS * NUM_ROWS)
         /\ (y + 1 >= NUM_ROWS => NUM_COLS * y + NUM_COLS = NUM_COLS * NUM_ROWS)
<1>1. y \in Nat /\ y <= NUM_ROWS - 1 /\ NUM_COLS \in Nat /\ NUM_ROWS \in Nat
  BY ScreenType DEF Rows
<1>2. NUM_COLS * y \in Nat /\ NUM_COLS * (y + 1) = NUM_COLS * y + NUM_COLS
  BY <1>1
<1>3. \A a, b \in Nat : a <= b => NUM_COLS * a <= NUM_COLS * b
  BY <1>1
<1>4. NUM_COLS * (y + 1) <= NUM_COLS * NUM_ROWS
  BY <1>1, <1>3
<1>5. y + 1 < NUM_ROWS => NUM_COLS * (y + 2) <= NUM_COLS * NUM_ROWS
  BY <1>1, <1>3
<1>6. NUM_COLS * (y + 2) = NUM_COLS * y + NUM_COLS + NUM_COLS
  BY <1>1
<1>7. y + 1 >= NUM_ROWS => y + 1 = NUM_ROWS
  BY <1>1
<1> QED  BY <1>1, <1>2, <1>4, <1>5, <1>6, <1>7

\* A place on the screen is the place of a cell.
LEMMA PlaceType ==
  ASSUME NEW x \in Cols, NEW y \in Rows
  PROVE  At(x, y) \in Cells /\ At(x, y) \in Nat
BY RowPlace, ScreenType DEF At, Cols, Cells

\* The cells, by the size of the screen.
LEMMA CellsAre == \A i : i \in Cells <=> i \in Nat /\ i < NUM_COLS * NUM_ROWS
BY ScreenType DEF Cells

\* The cells before a cell.
LEMMA EarlierCell ==
  ASSUME NEW j \in Cells PROVE \A i \in Nat : i <= j => i \in Cells
BY CellsAre, ScreenType

\* How far an operation scrolls.
Shift(s) == IF s.scrolled THEN NUM_COLS ELSE 0

\* A character at the cursor moves the cursor on by one cell.
LEMMA CharPutIs ==
  ASSUME ConsoleTypeOK, NEW ch \in Printed
  PROVE  LET s == char_put(ch) IN
         /\ s.x \in Cols /\ s.y \in Rows /\ s.scrolled \in BOOLEAN
         /\ At(s.x, s.y) + Shift(s) = Cursor + 1
         /\ s.scrolled => Cursor + 1 = NUM_COLS * NUM_ROWS
         /\ s.scrolled <=> cursor_x + 1 >= NUM_COLS /\ cursor_y + 1 >= NUM_ROWS
         /\ s.x = IF cursor_x + 1 >= NUM_COLS THEN 0 ELSE cursor_x + 1
         /\ s.y = IF cursor_x + 1 >= NUM_COLS /\ cursor_y + 1 < NUM_ROWS
                    THEN cursor_y + 1 ELSE cursor_y
         /\ s.cells \in [Cells -> Printed \cup {Underline, Picture}]
         /\ \A i \in Cells : s.cells[i] =
              IF i + Shift(s) \in Cells
                THEN IF i + Shift(s) = Cursor THEN ch ELSE cells[i + Shift(s)]
                ELSE BLANK
<1> DEFINE c == [cells EXCEPT ![Cursor] = ch]
           s == char_put(ch)
<1>0. /\ cursor_x \in Cols /\ cursor_y \in Rows /\ Cursor \in Cells
      /\ cells \in [Cells -> Printed \cup {Underline, Picture}] /\ BLANK \in Printed
  BY PlaceType, ConsoleAssumption DEF ConsoleTypeOK, Cursor
<1>1. /\ c \in [Cells -> Printed \cup {Underline, Picture}]
      /\ \A i \in Cells : c[i] = IF i = Cursor THEN ch ELSE cells[i]
  BY <1>0
<1>2. /\ NUM_ROWS \in Nat /\ NUM_COLS \in Nat /\ NUM_COLS >= 1 /\ NUM_ROWS >= 2
      /\ cursor_x \in Int /\ 0 <= cursor_x /\ cursor_x < NUM_COLS
      /\ cursor_y \in Int /\ 0 <= cursor_y /\ cursor_y < NUM_ROWS
  BY <1>0, ScreenType DEF Cols, Rows
<1>3. CASE cursor_y = NUM_ROWS - 1 /\ cursor_x + 1 >= NUM_COLS
  <2>1. s = Screen(shift_screen(c), 0, cursor_y, TRUE)
    BY <1>3 DEF char_put
  <2>2. /\ s.x = 0 /\ s.y = cursor_y /\ s.scrolled = TRUE /\ s.cells = shift_screen(c)
        /\ Shift(s) = NUM_COLS
    BY <2>1 DEF Screen, Shift
  <2> HIDE DEF s, c
  <2>3. At(0, cursor_y) + NUM_COLS = Cursor + 1 /\ Cursor + 1 = NUM_COLS * NUM_ROWS
    BY <1>0, <1>2, <1>3, RowPlace DEF At, Cursor
  <2>4. /\ shift_screen(c) \in [Cells -> Printed \cup {Underline, Picture}]
        /\ \A i \in Cells : shift_screen(c)[i] =
             IF i + NUM_COLS \in Cells THEN c[i + NUM_COLS] ELSE BLANK
    BY <1>0, <1>1 DEF shift_screen
  <2>5. 0 \in Cols
    BY <1>2 DEF Cols
  <2>6. /\ cursor_x + 1 >= NUM_COLS /\ cursor_y + 1 >= NUM_ROWS
        /\ ~ (cursor_y + 1 < NUM_ROWS)
    BY <1>2, <1>3
  <2> QED  BY <1>0, <1>1, <2>2, <2>3, <2>4, <2>5, <2>6 DEF s
<1>4. CASE ~ (cursor_y = NUM_ROWS - 1 /\ cursor_x + 1 >= NUM_COLS)
  <2> DEFINE x == (cursor_x + 1) % NUM_COLS
             y == (cursor_y + (cursor_x + 1) \div NUM_COLS) % NUM_ROWS
  <2>1. s = Screen(c, x, y, FALSE)
    BY <1>4 DEF char_put
  <2>2. /\ x \in Cols /\ y \in Rows /\ At(x, y) = Cursor + 1
        /\ x = IF cursor_x + 1 >= NUM_COLS THEN 0 ELSE cursor_x + 1
        /\ y = IF cursor_x + 1 >= NUM_COLS /\ cursor_y + 1 < NUM_ROWS
                 THEN cursor_y + 1 ELSE cursor_y
    <3>1. CASE cursor_x + 1 < NUM_COLS
      <4>1. (cursor_x + 1) % NUM_COLS = cursor_x + 1 /\ (cursor_x + 1) \div NUM_COLS = 0
        BY <1>2, <3>1
      <4>2. cursor_y % NUM_ROWS = cursor_y /\ cursor_y + 0 = cursor_y
        BY <1>2
      <4>3. x = cursor_x + 1 /\ y = cursor_y
        BY <4>1, <4>2
      <4> HIDE DEF x, y
      <4> QED  BY <1>0, <1>2, <3>1, <4>3, RowPlace DEF At, Cursor, Cols
    <3>2. CASE cursor_x + 1 = NUM_COLS
      <4>1. (cursor_x + 1) % NUM_COLS = 0 /\ (cursor_x + 1) \div NUM_COLS = 1
        BY <1>2, <3>2
      <4>2. (cursor_y + 1) % NUM_ROWS = cursor_y + 1
        BY <1>2, <1>4, <3>2
      <4>3. x = 0 /\ y = cursor_y + 1
        BY <4>1, <4>2
      <4> HIDE DEF x, y
      <4> QED  BY <1>0, <1>2, <1>4, <3>2, <4>3, RowPlace DEF At, Cursor, Cols, Rows
    <3> QED  BY <1>2, <3>1, <3>2
  <2>3. /\ s.x = x /\ s.y = y /\ s.scrolled = FALSE /\ s.cells = c /\ Shift(s) = 0
    BY <2>1 DEF Screen, Shift
  <2> HIDE DEF s, c, x, y
  <2>4. \A i \in Cells : i + 0 = i
    BY CellsAre
  <2>5. ~ (cursor_x + 1 >= NUM_COLS /\ cursor_y + 1 >= NUM_ROWS)
    BY <1>2, <1>4
  <2>6. At(x, y) + 0 = Cursor + 1
    BY <2>2, PlaceType
  <2> QED  BY <1>0, <1>1, <2>2, <2>3, <2>4, <2>5, <2>6 DEF s
<1> QED  BY <1>3, <1>4

\* The end of a line takes the cursor to the start of the next.
LEMMA NewlineIs ==
  ASSUME ConsoleTypeOK, NEW c \in [Cells -> Printed \cup {Underline, Picture}]
  PROVE  LET s == newline_on(c) IN
         /\ s.x = 0 /\ s.x \in Cols /\ s.y \in Rows /\ s.scrolled \in BOOLEAN
         /\ At(s.x, s.y) + Shift(s) = NUM_COLS * cursor_y + NUM_COLS
         /\ s.scrolled <=> cursor_y + 1 >= NUM_ROWS
         /\ s.y = IF cursor_y + 1 < NUM_ROWS THEN cursor_y + 1 ELSE cursor_y
         /\ s.cells \in [Cells -> Printed \cup {Underline, Picture}]
         /\ \A i \in Cells : s.cells[i] =
              IF i + Shift(s) \in Cells THEN c[i + Shift(s)] ELSE BLANK
<1> DEFINE s == newline_on(c)
<1>0. cursor_x \in Cols /\ cursor_y \in Rows /\ BLANK \in Printed
  BY ConsoleAssumption DEF ConsoleTypeOK
<1>1. /\ NUM_ROWS \in Nat /\ NUM_COLS \in Nat /\ NUM_COLS >= 1 /\ NUM_ROWS >= 2 /\ 0 \in Cols
      /\ cursor_y \in Int /\ 0 <= cursor_y /\ cursor_y < NUM_ROWS
  BY <1>0, ScreenType DEF Cols, Rows
<1>2. CASE cursor_y + 1 >= NUM_ROWS
  <2>1. /\ s.x = 0 /\ s.y = NUM_ROWS - 1 /\ s.scrolled = TRUE /\ s.cells = shift_screen(c)
        /\ Shift(s) = NUM_COLS
    BY <1>2 DEF newline_on, Screen, Shift
  <2> HIDE DEF s
  <2>2. NUM_ROWS - 1 = cursor_y
    BY <1>1, <1>2
  <2>3. At(0, cursor_y) + NUM_COLS = NUM_COLS * cursor_y + NUM_COLS
    BY <1>0, <1>1, RowPlace DEF At
  <2>4. /\ shift_screen(c) \in [Cells -> Printed \cup {Underline, Picture}]
        /\ \A i \in Cells : shift_screen(c)[i] =
             IF i + NUM_COLS \in Cells THEN c[i + NUM_COLS] ELSE BLANK
    BY <1>0 DEF shift_screen
  <2>5. ~ (cursor_y + 1 < NUM_ROWS)
    BY <1>1, <1>2
  <2> QED  BY <1>0, <1>1, <1>2, <2>1, <2>2, <2>3, <2>4, <2>5 DEF s
<1>3. CASE ~ (cursor_y + 1 >= NUM_ROWS)
  <2>1. /\ s.x = 0 /\ s.y = cursor_y + 1 /\ s.scrolled = FALSE /\ s.cells = c
        /\ Shift(s) = 0
    BY <1>3 DEF newline_on, Screen, Shift
  <2> HIDE DEF s
  <2>2. cursor_y + 1 \in Rows
    BY <1>1, <1>3 DEF Rows
  <2>3. At(0, cursor_y + 1) + 0 = NUM_COLS * cursor_y + NUM_COLS
    BY <1>0, <1>1, RowPlace DEF At
  <2>4. \A i \in Cells : i + 0 = i
    BY CellsAre
  <2>5. cursor_y + 1 < NUM_ROWS
    BY <1>1, <1>3
  <2> QED  BY <1>1, <1>3, <2>1, <2>2, <2>3, <2>4, <2>5 DEF s
<1> QED  BY <1>2, <1>3

\* Removing a character takes the cursor back by one cell.
LEMMA RemcIs ==
  ASSUME ConsoleTypeOK
  PROVE  /\ remc.x \in Cols /\ remc.y \in Rows /\ remc.scrolled = FALSE
         /\ At(remc.x, remc.y) = IF Cursor = 0 THEN 0 ELSE Cursor - 1
         /\ remc.cells \in [Cells -> Printed \cup {Underline, Picture}]
         /\ \A i \in Cells : remc.cells[i] =
              IF i \in {At(remc.x, remc.y), At(remc.x, remc.y) + 1} THEN BLANK ELSE cells[i]
<1> DEFINE x == before_cursor[1]
           y == before_cursor[2]
           c == IF Cursor = 0 THEN cells ELSE [cells EXCEPT ![At(x, y)] = BLANK]
<1>0. /\ cursor_x \in Cols /\ cursor_y \in Rows /\ Cursor \in Cells
      /\ cells \in [Cells -> Printed \cup {Underline, Picture}] /\ BLANK \in Printed
  BY PlaceType, ConsoleAssumption DEF ConsoleTypeOK, Cursor
<1>1. /\ NUM_ROWS \in Nat /\ NUM_COLS \in Nat /\ NUM_COLS >= 1 /\ NUM_ROWS >= 2
      /\ cursor_x \in Int /\ 0 <= cursor_x /\ cursor_x < NUM_COLS
      /\ cursor_y \in Int /\ 0 <= cursor_y /\ cursor_y < NUM_ROWS
  BY <1>0, ScreenType DEF Cols, Rows
<1>2. x \in Cols /\ y \in Rows /\ At(x, y) = IF Cursor = 0 THEN 0 ELSE Cursor - 1
  <2>1. CASE cursor_x = 0 /\ cursor_y = 0
    <3>1. before_cursor = <<0, 0>>
      BY <2>1 DEF before_cursor
    <3> QED  BY <1>1, <2>1, <3>1 DEF At, Cursor, Cols, Rows
  <2>2. CASE cursor_x = 0 /\ cursor_y > 0
    <3>1. before_cursor = <<NUM_COLS - 1, cursor_y - 1>>
      BY <1>1, <2>2 DEF before_cursor
    <3>2. x = NUM_COLS - 1 /\ y = cursor_y - 1
      BY <3>1
    <3> HIDE DEF x, y
    <3>3. cursor_y - 1 \in Rows /\ NUM_COLS - 1 \in Cols /\ (cursor_y - 1) + 1 = cursor_y
      BY <1>1, <2>2 DEF Rows, Cols
    <3>4. NUM_COLS * (cursor_y - 1) \in Nat
          /\ NUM_COLS * cursor_y = NUM_COLS * (cursor_y - 1) + NUM_COLS
      BY <3>3, RowPlace
    <3>5. NUM_COLS * cursor_y \in Nat
      BY <1>0, RowPlace
    <3> QED  BY <1>1, <2>2, <3>2, <3>3, <3>4, <3>5 DEF At, Cursor
  <2>3. CASE cursor_x > 0
    <3>1. before_cursor = <<cursor_x - 1, cursor_y>>
      BY <1>1, <2>3 DEF before_cursor
    <3>2. x = cursor_x - 1 /\ y = cursor_y
      BY <3>1
    <3> HIDE DEF x, y
    <3>3. NUM_COLS * cursor_y \in Nat
      BY <1>0, RowPlace
    <3> QED  BY <1>0, <1>1, <2>3, <3>2, <3>3 DEF At, Cursor, Cols
  <2> QED  BY <1>1, <2>1, <2>2, <2>3
<1>3. /\ remc.x = x /\ remc.y = y /\ remc.scrolled = FALSE
      /\ remc.cells = check_cursor(c, x, y)
  BY DEF remc, Screen
<1> HIDE DEF x, y
<1>4. At(x, y) \in Cells
  BY <1>2, PlaceType
<1>5. /\ c \in [Cells -> Printed \cup {Underline, Picture}]
      /\ \A i \in Cells : i # At(x, y) => c[i] = cells[i]
  BY <1>0, <1>4
<1> HIDE DEF c
<1>6. \A i \in Cells : check_cursor(c, x, y)[i] =
         IF i \in {At(x, y), At(x, y) + 1} THEN BLANK ELSE c[i]
  BY DEF check_cursor
<1>7. check_cursor(c, x, y) \in [Cells -> Printed \cup {Underline, Picture}]
  BY <1>0, <1>5 DEF check_cursor
<1> QED  BY <1>2, <1>3, <1>5, <1>6, <1>7
-----------------------------------------------------------------------------
(* No text is on the screen from the cursor on. *)

\* A screen with nothing on it from its cursor on but what programs drew.
Sound(s) ==
  /\ s.x \in Cols /\ s.y \in Rows
  /\ s.cells \in [Cells -> Printed \cup {Underline, Picture}]
  /\ \A i \in Cells :
       /\ i = At(s.x, s.y) => s.cells[i] \in {BLANK, Underline, Picture}
       /\ i > At(s.x, s.y) => s.cells[i] \in {BLANK, Picture}

\* The facts about the screen that every operation starts from.
LEMMA ScreenFacts ==
  ASSUME ConsoleInv
  PROVE  /\ ConsoleTypeOK /\ Cursor \in Cells /\ Cursor \in Nat
         /\ cells \in [Cells -> Printed \cup {Underline, Picture}] /\ BLANK \in Printed
         /\ cells[Cursor] \in {BLANK, Underline, Picture}
         /\ \A i \in Cells : i > Cursor => cells[i] \in {BLANK, Picture}
         /\ NUM_COLS * cursor_y \in Nat
         /\ Cursor < NUM_COLS * cursor_y + NUM_COLS
<1>1. /\ ConsoleTypeOK /\ Cursor \in Cells /\ Cursor \in Nat
      /\ cells \in [Cells -> Printed \cup {Underline, Picture}] /\ BLANK \in Printed
      /\ cursor_x \in Cols /\ cursor_y \in Rows
  BY PlaceType, ConsoleAssumption DEF ConsoleInv, ConsoleTypeOK, Cursor
<1>2. /\ cells[Cursor] \in {BLANK, Underline, Picture}
      /\ \A i \in Cells : i > Cursor => cells[i] \in {BLANK, Picture}
  BY <1>1 DEF ConsoleInv, BlankFromCursor
<1>3. /\ NUM_COLS * cursor_y \in Nat
      /\ Cursor < NUM_COLS * cursor_y + NUM_COLS
  BY <1>1, RowPlace, ScreenType DEF Cursor, At, Cols
<1> QED  BY <1>1, <1>2, <1>3

\* An operation with a sound result keeps the invariant.
LEMMA BecomesSound ==
  ASSUME NEW s, Sound(s), becomes(s)
  PROVE  ConsoleInv' /\ Cursor' = At(s.x, s.y)
<1>1. Cursor' = At(s.x, s.y)
  BY DEF becomes, Cursor, At
<1>2. ConsoleTypeOK'
  BY DEF Sound, becomes, ConsoleTypeOK, Cells, Cols, Rows
<1>3. BlankFromCursor'
  BY <1>1 DEF Sound, becomes, BlankFromCursor, Cells
<1> QED  BY <1>1, <1>2, <1>3 DEF ConsoleInv

\* Printing a character.
LEMMA CharSound ==
  ASSUME ConsoleInv, NEW ch \in Printed
  PROVE  Sound(char_put(ch))
<1> DEFINE s == char_put(ch)
<1>1. /\ s.x \in Cols /\ s.y \in Rows /\ s.scrolled \in BOOLEAN
      /\ At(s.x, s.y) + Shift(s) = Cursor + 1
      /\ s.cells \in [Cells -> Printed \cup {Underline, Picture}]
      /\ \A i \in Cells : s.cells[i] =
           IF i + Shift(s) \in Cells
             THEN IF i + Shift(s) = Cursor THEN ch ELSE cells[i + Shift(s)]
             ELSE BLANK
  BY ScreenFacts, CharPutIs
<1> HIDE DEF s
<1>2. Shift(s) \in Nat /\ At(s.x, s.y) \in Nat /\ Cursor \in Nat
  BY <1>1, ScreenType, ScreenFacts, PlaceType DEF Shift
<1>3. ASSUME NEW i \in Cells, i >= At(s.x, s.y) PROVE s.cells[i] \in {BLANK, Picture}
  <2>1. i + Shift(s) > Cursor
    BY <1>1, <1>2, <1>3, CellsAre
  <2> QED  BY <1>1, <1>2, <2>1, ScreenFacts
<1> QED  BY <1>1, <1>2, <1>3, CellsAre DEF Sound, s

\* Ending a line.
LEMMA NewlineSound ==
  ASSUME ConsoleInv, NEW c \in [Cells -> Printed \cup {Underline, Picture}],
         \A i \in Cells : i > Cursor => c[i] \in {BLANK, Picture}
  PROVE  Sound(newline_on(c))
<1> DEFINE s == newline_on(c)
<1>1. /\ s.x \in Cols /\ s.y \in Rows /\ s.scrolled \in BOOLEAN
      /\ At(s.x, s.y) + Shift(s) = NUM_COLS * cursor_y + NUM_COLS
      /\ s.cells \in [Cells -> Printed \cup {Underline, Picture}]
      /\ \A i \in Cells : s.cells[i] =
           IF i + Shift(s) \in Cells THEN c[i + Shift(s)] ELSE BLANK
  BY ScreenFacts, NewlineIs
<1> HIDE DEF s
<1>2. Shift(s) \in Nat /\ At(s.x, s.y) \in Nat
  BY <1>1, ScreenType, PlaceType DEF Shift
<1>3. ASSUME NEW i \in Cells, i >= At(s.x, s.y) PROVE s.cells[i] \in {BLANK, Picture}
  <2>1. i + Shift(s) > Cursor
    BY <1>1, <1>2, <1>3, CellsAre, ScreenFacts
  <2> QED  BY <1>1, <2>1
<1> QED  BY <1>1, <1>2, <1>3, CellsAre DEF Sound, s

\* The contents Enter finds: check_cursor has taken the cursor away, and what
\* was drawn behind it.
LEMMA UndrawnIs ==
  ASSUME ConsoleInv
  PROVE  LET c == check_cursor(cells, cursor_x, cursor_y) IN
         /\ c \in [Cells -> Printed \cup {Underline, Picture}]
         /\ \A i \in Cells : c[i] = cells[i] \/ (i >= Cursor /\ c[i] = BLANK)
<1>1. /\ Cursor \in Nat /\ BLANK \in Printed
      /\ cells \in [Cells -> Printed \cup {Underline, Picture}]
  BY ScreenFacts
<1>2. Cursor + 1 >= Cursor /\ Cursor >= Cursor
  BY <1>1
<1> QED  BY <1>1, <1>2 DEF check_cursor, Cursor

\* The echo of a key.
LEMMA KeySound ==
  ASSUME ConsoleInv, NEW ch \in Chars
  PROVE  /\ Sound(put_key(cells, ch)) /\ Sound(put_key(Undrawn(ch), ch))
         /\ Sound(putc(ch))
<1>1. CASE ch = NewlineCh
  <2> DEFINE c == check_cursor(cells, cursor_x, cursor_y)
  <2>1. /\ c \in [Cells -> Printed \cup {Underline, Picture}]
        /\ \A i \in Cells : i > Cursor => c[i] \in {BLANK, Picture}
    BY UndrawnIs, ScreenFacts
  <2>2. put_key(Undrawn(ch), ch) = newline_on(c)
    BY <1>1 DEF put_key, Undrawn
  <2>3. put_key(cells, ch) = newline_on(cells) /\ putc(ch) = newline_on(cells)
    BY <1>1 DEF put_key, putc
  <2> HIDE DEF c
  <2> QED  BY <2>1, <2>2, <2>3, NewlineSound, ScreenFacts
<1>2. CASE ch # NewlineCh
  <2>1. ch \in Printed
    BY <1>2 DEF Chars
  <2> QED  BY <1>2, <2>1, CharSound DEF put_key, putc
<1> QED  BY <1>1, <1>2

\* Erasing.
LEMMA RemcSound == ASSUME ConsoleInv PROVE Sound(remc)
<1>1. /\ remc.x \in Cols /\ remc.y \in Rows
      /\ At(remc.x, remc.y) = IF Cursor = 0 THEN 0 ELSE Cursor - 1
      /\ remc.cells \in [Cells -> Printed \cup {Underline, Picture}]
      /\ \A i \in Cells : remc.cells[i] =
           IF i \in {At(remc.x, remc.y), At(remc.x, remc.y) + 1} THEN BLANK ELSE cells[i]
  BY ScreenFacts, RemcIs
<1>2. Cursor \in Nat /\ \A i \in Cells : i > Cursor => cells[i] \in {BLANK, Picture}
  BY ScreenFacts
<1>3. ASSUME NEW i \in Cells, i > At(remc.x, remc.y) PROVE remc.cells[i] \in {BLANK, Picture}
  <2>1. i = At(remc.x, remc.y) + 1 \/ i > Cursor
    BY <1>1, <1>2, <1>3, CellsAre
  <2> QED  BY <1>1, <1>2, <2>1
<1> QED  BY <1>1, <1>3 DEF Sound

\* Ctrl-l, drawing and undrawing the cursor, and drawing by a program.
LEMMA OtherSound ==
  ASSUME ConsoleInv
  PROVE  /\ Sound(clear_screen) /\ Sound(put_cursor) /\ Sound(rem_cursor)
         /\ \A i \in Cells : Sound(mp1_poke(i))
<1>1. /\ Cursor \in Cells /\ Cursor \in Nat /\ BLANK \in Printed
      /\ cells \in [Cells -> Printed \cup {Underline, Picture}]
      /\ cells[Cursor] \in {BLANK, Underline, Picture}
      /\ \A i \in Cells : i > Cursor => cells[i] \in {BLANK, Picture}
      /\ cursor_x \in Cols /\ cursor_y \in Rows /\ 0 \in Cols /\ 0 \in Rows
  BY ScreenFacts, ScreenType DEF ConsoleTypeOK, Cols, Rows
<1>2. Sound(clear_screen)
  BY <1>1 DEF Sound, clear_screen, Screen, BlankScreen
<1>3. Sound(put_cursor)
  BY <1>1, CellsAre DEF Sound, put_cursor, Screen, Cursor
<1>4. Sound(rem_cursor)
  BY <1>1, CellsAre DEF Sound, rem_cursor, Screen, Cursor
<1>5. ASSUME NEW j \in Cells PROVE Sound(mp1_poke(j))
  BY <1>1, CellsAre DEF Sound, mp1_poke, Screen, Cursor
<1> QED  BY <1>2, <1>3, <1>4, <1>5

\* Every step keeps the invariant of the screen.
LEMMA ConsoleStep ==
  ASSUME ConsoleInv, [TypingNext]_tvars
  PROVE  ConsoleInv'
<1>1. ASSUME UNCHANGED <<cells, cursor_x, cursor_y>> PROVE ConsoleInv'
  BY <1>1 DEF ConsoleInv, ConsoleTypeOK, BlankFromCursor, Cursor, At, Cells, Cols, Rows
<1>2. ASSUME NEW ch \in Chars, type_key(ch) PROVE ConsoleInv'
  BY <1>2, KeySound, BecomesSound DEF type_key, echo
<1>3. ASSUME NEW ch \in Chars, ctrl_key(ch) PROVE ConsoleInv'
  BY <1>3, KeySound, BecomesSound DEF ctrl_key, echo
<1>4. CASE ctrl_l
  BY <1>4, OtherSound, BecomesSound DEF ctrl_l
<1>5. CASE type_backspace
  BY <1>5, RemcSound, BecomesSound DEF type_backspace, echo
<1>6. CASE type_tab
  BY <1>6, <1>1 DEF type_tab
<1>7. CASE tab_space
  <2>1. BLANK \in Chars
    BY ConsoleAssumption DEF Chars
  <2> QED  BY <1>1, <1>7, <2>1, KeySound, BecomesSound DEF tab_space, echo
<1>8. CASE clear_keyboard_buf
  BY <1>8, <1>1 DEF clear_keyboard_buf
<1>9. ASSUME NEW ch \in Chars, print(ch) PROVE ConsoleInv'
  BY <1>9, KeySound, BecomesSound DEF print, printed
<1>10. CASE handle_exception
  BY <1>10, OtherSound, BecomesSound DEF handle_exception, printed
<1>11. CASE blink
  BY <1>11, OtherSound, BecomesSound DEF blink
<1>12. CASE vidmap_write
  BY <1>12, OtherSound, BecomesSound DEF vidmap_write
<1>13. CASE UNCHANGED tvars
  BY <1>13, <1>1 DEF tvars
<1> QED  BY <1>2, <1>3, <1>4, <1>5, <1>6, <1>7, <1>8, <1>9, <1>10, <1>11, <1>12, <1>13
         DEF TypingNext, keyboard_handler

\* The first screen is blank.
LEMMA ConsoleStart == ASSUME TypingInit PROVE ConsoleInv
<1>1. 0 \in Cols /\ 0 \in Rows /\ BLANK \in Printed
  BY ScreenType, ConsoleAssumption DEF Cols, Rows
<1> QED  BY <1>1 DEF TypingInit, ConsoleInit, ConsoleInv, ConsoleTypeOK, BlankFromCursor, BlankScreen

(***************************************************************************)
(* The cursor stays on the screen and no text is behind it, after any      *)
(* keys, output, scrolling, erasing and blinking, and whatever programs    *)
(* draw through vidmap: putc, put_key, remc, check_cursor and the RTC's    *)
(* put_cursor and rem_cursor erase no text and leave none behind; what     *)
(* stands behind the cursor was drawn there by a program.                  *)
(***************************************************************************)
THEOREM ConsoleCorrect == TypingSpec => []ConsoleInv
BY ConsoleStart, ConsoleStep, PTL DEF TypingSpec
-----------------------------------------------------------------------------
(* The prompt. *)

\* The keyboard buffer and the histories.
TypingTypeOK ==
  /\ keyboard_buf \in Seq(Chars) /\ Len(keyboard_buf) <= KEY_BUF_SIZE
  /\ tabbing \in Nat
  /\ apart \in BOOLEAN /\ mixed \in BOOLEAN /\ prompt \in Int

\* Room for a character keeps the buffer within its length.
LEMMA AppendRoom ==
  ASSUME TypingTypeOK, NEW ch \in Chars, HasRoom(ch)
  PROVE  /\ Append(keyboard_buf, ch) \in Seq(Chars)
         /\ Len(Append(keyboard_buf, ch)) = Len(keyboard_buf) + 1
         /\ Len(keyboard_buf) + 1 <= KEY_BUF_SIZE
BY ScreenType, AppendProperties DEF TypingTypeOK, HasRoom

\* delete_char
LEMMA DeletedIs ==
  ASSUME TypingTypeOK, CanDelete(keyboard_buf)
  PROVE  /\ Len(keyboard_buf) >= 1
         /\ Deleted(keyboard_buf) \in Seq(Chars)
         /\ Len(Deleted(keyboard_buf)) = Len(keyboard_buf) - 1
         /\ \A k \in 1 .. Len(keyboard_buf) - 1 : Deleted(keyboard_buf)[k] = keyboard_buf[k]
<1> DEFINE n == Len(keyboard_buf)
<1>1. keyboard_buf \in Seq(Chars) /\ n \in Nat /\ n >= 1
  BY EmptySeq DEF TypingTypeOK, CanDelete
<1>2. \A i \in 1 .. n - 1 : keyboard_buf[i] \in Chars
  BY <1>1, ElementOfSeq
<1> HIDE DEF n
<1>3. /\ SubSeq(keyboard_buf, 1, n - 1) \in Seq(Chars)
      /\ Len(SubSeq(keyboard_buf, 1, n - 1)) = IF 1 <= n - 1 THEN n - 1 - 1 + 1 ELSE 0
      /\ \A i \in 1 .. n - 1 - 1 + 1 : SubSeq(keyboard_buf, 1, n - 1)[i] = keyboard_buf[1 + i - 1]
  BY <1>1, <1>2, SubSeqProperties
<1>4. Len(SubSeq(keyboard_buf, 1, n - 1)) = n - 1
  BY <1>1, <1>3
<1>5. ASSUME NEW k \in 1 .. n - 1 PROVE SubSeq(keyboard_buf, 1, n - 1)[k] = keyboard_buf[k]
  <2>1. k \in 1 .. n - 1 - 1 + 1 /\ 1 + k - 1 = k
    BY <1>1
  <2> QED  BY <1>3, <2>1
<1> QED  BY <1>1, <1>3, <1>4, <1>5 DEF Deleted, n

\* Every step keeps the types.
LEMMA TypingTypeStep ==
  ASSUME ConsoleInv, TypingTypeOK, [TypingNext]_tvars
  PROVE  TypingTypeOK'
<1>0. /\ ConsoleInv' /\ Cursor \in Int /\ Cursor' \in Int
      /\ << >> \in Seq(Chars) /\ Len(<< >>) <= KEY_BUF_SIZE
  <2>1. ConsoleInv'
    BY ConsoleStep
  <2>2. Cursor' \in Int
    <3>1. cursor_x' \in Int /\ cursor_y' \in Int
      BY <2>1 DEF ConsoleInv, ConsoleTypeOK, Cols, Rows
    <3> QED  BY <3>1, ScreenType DEF Cursor, At
  <2> QED  BY <2>1, <2>2, ScreenFacts, ScreenType, EmptySeq
<1>1. ASSUME NEW s, Sound(s), echo(s) PROVE mixed' \in BOOLEAN /\ prompt' \in Int
  <2>1. At(s.x, s.y) \in Int
    BY <1>1, PlaceType DEF Sound
  <2>2. Moved(prompt, s) \in Int
    BY ScreenType DEF Moved, TypingTypeOK
  <2> QED  BY <1>1, <2>1, <2>2 DEF echo
<1>2. ASSUME NEW ch \in Chars, type_key(ch) PROVE TypingTypeOK'
  <2>1. mixed' \in BOOLEAN /\ prompt' \in Int
    BY <1>1, <1>2, KeySound DEF type_key
  <2> QED  BY <1>2, <2>1, AppendRoom DEF type_key, TypingTypeOK, NowApart
<1>3. ASSUME NEW ch \in Chars, ctrl_key(ch) PROVE TypingTypeOK'
  <2>1. mixed' \in BOOLEAN /\ prompt' \in Int
    BY <1>1, <1>3, KeySound DEF ctrl_key
  <2>2. keyboard_buf' \in Seq(Chars) /\ Len(keyboard_buf') <= KEY_BUF_SIZE
    BY <1>3, AppendRoom DEF ctrl_key, TypingTypeOK
  <2> QED  BY <1>3, <2>1, <2>2 DEF ctrl_key, TypingTypeOK, NowApart
<1>4. CASE ctrl_l
  <2>1. keyboard_buf' = << >> /\ prompt' = 0 /\ tabbing' = tabbing
    BY <1>4 DEF ctrl_l
  <2>2. apart' \in BOOLEAN /\ mixed' \in BOOLEAN
    BY <1>4, Zenon DEF ctrl_l
  <2> QED  BY <1>0, <2>1, <2>2 DEF TypingTypeOK
<1>5. CASE type_backspace
  <2>1. mixed' \in BOOLEAN /\ prompt' \in Int
    BY <1>1, <1>5, RemcSound DEF type_backspace
  <2>2. keyboard_buf' \in Seq(Chars) /\ Len(keyboard_buf') <= KEY_BUF_SIZE
    BY <1>5, DeletedIs, ScreenType DEF type_backspace, TypingTypeOK
  <2> QED  BY <1>5, <2>1, <2>2 DEF type_backspace, TypingTypeOK, NowApart
<1>6. CASE type_tab
  BY <1>6, ScreenType DEF type_tab, TypingTypeOK
<1>7. CASE tab_space
  <2>0. BLANK \in Chars
    BY ConsoleAssumption DEF Chars
  <2>1. CASE HasRoom(BLANK)
    <3>1. mixed' \in BOOLEAN /\ prompt' \in Int
      BY <1>1, <1>7, <2>0, <2>1, KeySound DEF tab_space
    <3>2. tabbing' \in Nat
      BY <1>7, <2>1 DEF tab_space, Ready, TypingTypeOK
    <3> QED  BY <1>7, <2>0, <2>1, <3>1, <3>2, AppendRoom DEF tab_space, TypingTypeOK, NowApart
  <2>2. CASE ~ HasRoom(BLANK)
    BY <1>7, <2>2 DEF tab_space, TypingTypeOK
  <2> QED  BY <2>1, <2>2
<1>8. CASE clear_keyboard_buf
  BY <1>0, <1>8 DEF clear_keyboard_buf, TypingTypeOK
<1>9. ASSUME NEW s, Sound(s), printed(s) PROVE TypingTypeOK'
  <2>1. At(s.x, s.y) \in Int
    BY <1>9, PlaceType DEF Sound
  <2> QED  BY <1>9, <2>1 DEF printed, TypingTypeOK, NowApart
<1>10. CASE (\E ch \in Chars : print(ch)) \/ handle_exception
  BY <1>9, <1>10, KeySound, OtherSound DEF print, handle_exception
<1>11. CASE blink \/ vidmap_write
  BY <1>11 DEF blink, vidmap_write, TypingTypeOK
<1>12. CASE UNCHANGED tvars
  BY <1>12 DEF tvars, TypingTypeOK
<1> QED  BY <1>2, <1>3, <1>4, <1>5, <1>6, <1>7, <1>8, <1>10, <1>11, <1>12
         DEF TypingNext, keyboard_handler

\* An echo keeps the prompt where it is if the cursor moves at least as far
\* as the buffer grows.
LEMMA EchoPrompt ==
  ASSUME TypingTypeOK, PromptKept, NEW s, Sound(s), echo(s), s.scrolled \in BOOLEAN,
         Cursor \in Int, Len(keyboard_buf') \in Nat, Len(keyboard_buf') <= KEY_BUF_SIZE,
         keyboard_buf' = << >> <=> Len(keyboard_buf') = 0,
         Cursor - Len(keyboard_buf) <= At(s.x, s.y) + Shift(s) - Len(keyboard_buf')
  PROVE  PromptKept'
<1>1. Cursor' = At(s.x, s.y) /\ At(s.x, s.y) \in Nat
  BY BecomesSound, PlaceType DEF echo, Sound
<1>2. Len(keyboard_buf) \in Nat /\ prompt \in Int /\ mixed \in BOOLEAN
  BY DEF TypingTypeOK
<1>3. CASE mixed
  <2>1. mixed' => PromptKept'
    BY DEF PromptKept
  <2>2. ~ mixed' => keyboard_buf' = << >> /\ prompt' = At(s.x, s.y)
    BY <1>3 DEF echo
  <2>3. ~ mixed' => prompt' + Len(keyboard_buf') <= Cursor'
    BY <1>1, <2>2
  <2> QED  BY <2>3 DEF PromptKept
<1>4. CASE ~ mixed
  <2>1. prompt' = Moved(prompt, s)
    BY <1>4 DEF echo
  <2>2. prompt + Len(keyboard_buf) <= Cursor
    BY <1>4 DEF PromptKept
  <2>3. prompt' = IF prompt - Shift(s) < - KEY_BUF_SIZE THEN - KEY_BUF_SIZE ELSE prompt - Shift(s)
    BY <1>2, <2>1, ScreenType DEF Moved, Shift
  <2>4. Shift(s) \in Int
    BY ScreenType DEF Shift
  <2>5. prompt' + Len(keyboard_buf') <= Cursor'
    BY <1>1, <1>2, <2>2, <2>3, <2>4, ScreenType
  <2> QED  BY <2>5 DEF PromptKept
<1> QED  BY <1>3, <1>4

\* Every step keeps what programs have printed from backspace.
LEMMA PromptStep ==
  ASSUME ConsoleInv, TypingTypeOK, PromptKept, [TypingNext]_tvars
  PROVE  PromptKept'
<1>0. /\ TypingTypeOK' /\ Cursor \in Nat /\ keyboard_buf \in Seq(Chars)
      /\ keyboard_buf' \in Seq(Chars) /\ Len(keyboard_buf') \in Nat
      /\ Len(keyboard_buf) \in Nat /\ Len(keyboard_buf') <= KEY_BUF_SIZE
      /\ (keyboard_buf' = << >> <=> Len(keyboard_buf') = 0)
  BY TypingTypeStep, ScreenFacts, EmptySeq DEF TypingTypeOK, Chars
<1>1. ASSUME NEW ch \in Chars, NEW c \in [Cells -> Printed \cup {Underline, Picture}],
             echo(put_key(c, ch)), Sound(put_key(c, ch)),
             Len(keyboard_buf') <= Len(keyboard_buf) + 1
      PROVE  PromptKept'
  <2> DEFINE s == put_key(c, ch)
  <2>1. s.scrolled \in BOOLEAN /\ At(s.x, s.y) + Shift(s) >= Cursor + 1
    <3>1. CASE ch = NewlineCh
      <4>1. s = newline_on(c)
        BY <3>1 DEF put_key
      <4> QED  BY <1>1, <4>1, NewlineIs, ScreenFacts, ScreenType
    <3>2. CASE ch # NewlineCh
      <4>1. s = char_put(ch) /\ ch \in Printed
        BY <3>2 DEF put_key, Chars
      <4> QED  BY <1>0, <4>1, CharPutIs, ScreenFacts
    <3> QED  BY <3>1, <3>2
  <2> HIDE DEF s
  <2>2. At(s.x, s.y) \in Nat /\ Shift(s) \in Nat
    BY <1>1, PlaceType, ScreenType DEF s, Sound, Shift
  <2>3. Cursor - Len(keyboard_buf) <= At(s.x, s.y) + Shift(s) - Len(keyboard_buf')
    BY <1>0, <1>1, <2>1, <2>2
  <2> QED  BY <1>0, <1>1, <2>1, <2>3, EchoPrompt DEF s
<1>2. ASSUME NEW ch \in Chars, type_key(ch) PROVE PromptKept'
  <2>1. Undrawn(ch) \in [Cells -> Printed \cup {Underline, Picture}]
    BY UndrawnIs, ScreenFacts DEF Undrawn
  <2>2. Len(keyboard_buf') <= Len(keyboard_buf) + 1
    BY <1>0, <1>2, AppendRoom DEF type_key
  <2> QED  BY <1>1, <1>2, <2>1, <2>2, KeySound DEF type_key
<1>3. ASSUME NEW ch \in Chars, ctrl_key(ch) PROVE PromptKept'
  <2>2. Len(keyboard_buf') <= Len(keyboard_buf) + 1
    BY <1>0, <1>3, AppendRoom DEF ctrl_key
  <2> QED  BY <1>1, <1>3, <2>2, KeySound, ScreenFacts DEF ctrl_key
<1>4. CASE ctrl_l
  <2>1. ConsoleInv' /\ prompt' = 0 /\ Len(keyboard_buf') = 0
    BY <1>4, ConsoleStep, EmptySeq DEF ctrl_l
  <2>2. Cursor' = 0
    BY <1>4, ScreenType DEF ctrl_l, becomes, clear_screen, Screen, Cursor, At
  <2> QED  BY <2>1, <2>2 DEF PromptKept
<1>5. CASE type_backspace
  <2>1. /\ Len(keyboard_buf) >= 1 /\ Len(keyboard_buf') = Len(keyboard_buf) - 1 /\ echo(remc)
    BY <1>5, DeletedIs DEF type_backspace
  <2>2. remc.scrolled = FALSE /\ At(remc.x, remc.y) = IF Cursor = 0 THEN 0 ELSE Cursor - 1
    BY RemcIs, ScreenFacts
  <2>3. Shift(remc) = 0
    BY <2>2 DEF Shift
  <2>4. Cursor - Len(keyboard_buf) <= At(remc.x, remc.y) + Shift(remc) - Len(keyboard_buf')
    BY <1>0, <2>1, <2>2, <2>3
  <2>5. remc.scrolled \in BOOLEAN
    BY <2>2, Zenon
  <2> QED  BY <1>0, <2>1, <2>4, <2>5, RemcSound, EchoPrompt
<1>6. ASSUME UNCHANGED <<cursor_x, cursor_y, keyboard_buf, mixed, prompt>> PROVE PromptKept'
  BY <1>6 DEF PromptKept, Cursor, At
<1>7. CASE tab_space
  <2>0. BLANK \in Chars
    BY ConsoleAssumption DEF Chars
  <2>1. CASE HasRoom(BLANK)
    <3>2. Len(keyboard_buf') <= Len(keyboard_buf) + 1
      BY <1>0, <1>7, <2>0, <2>1, AppendRoom DEF tab_space
    <3> QED  BY <1>1, <1>7, <2>0, <2>1, <3>2, KeySound, ScreenFacts DEF tab_space
  <2>2. CASE ~ HasRoom(BLANK)
    BY <1>6, <1>7, <2>2 DEF tab_space
  <2> QED  BY <2>1, <2>2
<1>8. CASE clear_keyboard_buf
  <2>1. Len(keyboard_buf') = 0 /\ prompt' = Cursor /\ Cursor' = Cursor
    BY <1>8, EmptySeq DEF clear_keyboard_buf, Cursor, At
  <2> QED  BY <1>0, <2>1 DEF PromptKept
<1>9. ASSUME NEW s, Sound(s), printed(s) PROVE PromptKept'
  <2>1. Cursor' = At(s.x, s.y) /\ At(s.x, s.y) \in Nat
    BY <1>9, BecomesSound, PlaceType DEF Sound, printed
  <2>2. prompt' = At(s.x, s.y) /\ (~ mixed' => keyboard_buf' = << >>)
    BY <1>9 DEF printed
  <2>3. ~ mixed' => prompt' + Len(keyboard_buf') <= Cursor'
    BY <1>0, <2>1, <2>2
  <2> QED  BY <2>3 DEF PromptKept
<1>10. CASE (\E ch \in Chars : print(ch)) \/ handle_exception
  BY <1>9, <1>10, KeySound, OtherSound DEF print, handle_exception
<1>11. CASE blink \/ vidmap_write
  BY <1>6, <1>11 DEF blink, vidmap_write, becomes, put_cursor, rem_cursor, mp1_poke, Screen
<1>12. CASE type_tab \/ UNCHANGED tvars
  BY <1>6, <1>12 DEF type_tab, tvars
<1> QED  BY <1>2, <1>3, <1>4, <1>5, <1>7, <1>8, <1>10, <1>11, <1>12
         DEF TypingNext, keyboard_handler

\* The start: nothing is typed.
LEMMA TypingStart == ASSUME TypingInit PROVE ConsoleInv /\ TypingTypeOK /\ PromptKept
<1>1. keyboard_buf \in Seq(Chars) /\ Len(keyboard_buf) = 0 /\ Cursor = 0
  BY ScreenType, EmptySeq DEF TypingInit, ConsoleInit, Cursor, At
<1>2. tabbing = 0 /\ prompt = 0
  BY DEF TypingInit
<1>3. apart \in BOOLEAN /\ mixed \in BOOLEAN
  BY Zenon DEF TypingInit
<1> QED  BY <1>1, <1>2, <1>3, ScreenType, ConsoleStart DEF TypingTypeOK, PromptKept

(***************************************************************************)
(* Holding backspace erases what was typed and never the prompt: remc is   *)
(* called as often as delete_char finds a character, and echo took the     *)
(* cursor at least that far from the prompt, scrolling included.           *)
(***************************************************************************)
THEOREM PromptCorrect == TypingSpec => []PromptKept
<1>1. ConsoleInv /\ TypingTypeOK /\ PromptKept /\ [TypingNext]_tvars
        => (ConsoleInv /\ TypingTypeOK /\ PromptKept)'
  BY ConsoleStep, TypingTypeStep, PromptStep
<1> QED  BY TypingStart, <1>1, PTL DEF TypingSpec
-----------------------------------------------------------------------------
(* The line being typed. *)

\* What is smaller among the numbers.
Below == {ss \in Nat \X Nat : ss[1] < ss[2]}

\* A set of numbers has a least one.
LEMMA LeastOf ==
  ASSUME NEW S \in SUBSET Nat, S # {}
  PROVE  \E k \in S : \A j \in S : k <= j
<1>1. IsWellFoundedOn(Below, Nat)
  BY NatLessThanWellFounded DEF Below, OpToRel
<1>2. PICK k \in S : \A j \in S : ~ (<<j, k>> \in Below)
  BY <1>1, WFMin
<1>3. ASSUME NEW j \in S PROVE k <= j
  <2>1. <<j, k>> \in Nat \X Nat /\ <<j, k>> \notin Below
    BY <1>2
  <2>2. ~ (j < k)
    BY <2>1 DEF Below
  <2> QED  BY <2>2
<1> QED  BY <1>3

\* The current line of a buffer starts behind its kth character.
StartsAfter(buf, k) ==
  /\ k \in 0 .. Len(buf)
  /\ k = 0 \/ buf[k] = NewlineCh
  /\ \A j \in 1 .. Len(buf) : j > k => buf[j] # NewlineCh

\* Every buffer has a current line.
LEMMA LineStarts ==
  ASSUME NEW buf \in Seq(Chars)
  PROVE  \E k \in 0 .. Len(buf) : StartsAfter(buf, k)
<1> DEFINE ends == {k \in 0 .. Len(buf) : k = 0 \/ buf[k] = NewlineCh}
           back == {Len(buf) - k : k \in ends}
<1>1. Len(buf) \in Nat
  OBVIOUS
<1>2. back \subseteq Nat /\ back # {}
  <2>1. 0 \in ends
    BY <1>1
  <2> QED  BY <1>1, <2>1
<1>3. PICK m \in back : \A j \in back : m <= j
  BY <1>2, LeastOf
<1>4. PICK k \in ends : m = Len(buf) - k
  BY <1>3
<1>5. ASSUME NEW j \in 1 .. Len(buf), j > k PROVE buf[j] # NewlineCh
  <2> SUFFICES ASSUME buf[j] = NewlineCh PROVE FALSE
    OBVIOUS
  <2>1. j \in ends
    BY <1>1
  <2>2. Len(buf) - j \in back
    BY <2>1
  <2>3. Len(buf) - k <= Len(buf) - j
    BY <1>3, <1>4, <2>2
  <2> QED  BY <1>1, <1>5, <2>3
<1>6. k \in 0 .. Len(buf) /\ (k = 0 \/ buf[k] = NewlineCh)
  OBVIOUS
<1> QED  BY <1>5, <1>6 DEF StartsAfter

\* The end of a sequence.
LEMMA EndOf ==
  ASSUME NEW buf \in Seq(Chars), NEW k \in 0 .. Len(buf)
  PROVE  /\ SubSeq(buf, k + 1, Len(buf)) \in Seq(Chars)
         /\ Len(SubSeq(buf, k + 1, Len(buf))) = Len(buf) - k
         /\ \A j \in 1 .. Len(buf) - k : SubSeq(buf, k + 1, Len(buf))[j] = buf[k + j]
<1> DEFINE n == Len(buf)
<1>1. n \in Nat /\ k \in Int /\ 0 <= k /\ k <= n
  OBVIOUS
<1>2. \A i \in k + 1 .. n : buf[i] \in Chars
  BY <1>1, ElementOfSeq
<1> HIDE DEF n
<1>3. /\ SubSeq(buf, k + 1, n) \in Seq(Chars)
      /\ Len(SubSeq(buf, k + 1, n)) = IF k + 1 <= n THEN n - (k + 1) + 1 ELSE 0
      /\ \A i \in 1 .. n - (k + 1) + 1 : SubSeq(buf, k + 1, n)[i] = buf[(k + 1) + i - 1]
  BY <1>1, <1>2, SubSeqProperties
<1>4. Len(SubSeq(buf, k + 1, n)) = n - k
  BY <1>1, <1>3
<1>5. ASSUME NEW j \in 1 .. n - k PROVE SubSeq(buf, k + 1, n)[j] = buf[k + j]
  <2>1. j \in 1 .. n - (k + 1) + 1 /\ (k + 1) + j - 1 = k + j
    BY <1>1
  <2> QED  BY <1>3, <2>1
<1> QED  BY <1>3, <1>4, <1>5 DEF n

\* CurrentLine is that line.
LEMMA LineIs ==
  ASSUME NEW buf \in Seq(Chars), NEW k \in 0 .. Len(buf), StartsAfter(buf, k)
  PROVE  /\ CurrentLine(buf) \in Seq(Chars)
         /\ Len(CurrentLine(buf)) = Len(buf) - k
         /\ \A j \in 1 .. Len(buf) - k : CurrentLine(buf)[j] = buf[k + j]
<1> DEFINE ends == {m \in 1 .. Len(buf) : buf[m] = NewlineCh}
           Part(m) == SubSeq(buf, m + 1, Len(buf))
           Free(s) == \A i \in 1 .. Len(s) : s[i] # NewlineCh
<1>0. Len(buf) \in Nat /\ k \in ends \cup {0}
  BY DEF StartsAfter
<1>1. CurrentLine(buf) = CHOOSE s \in {Part(m) : m \in ends \cup {0}} : Free(s)
  BY DEF CurrentLine
<1>2. Part(k) \in {Part(m) : m \in ends \cup {0}} /\ Free(Part(k))
  <2>1. ASSUME NEW i \in 1 .. Len(Part(k)) PROVE Part(k)[i] # NewlineCh
    <3>1. i \in 1 .. Len(buf) - k /\ Part(k)[i] = buf[k + i]
      BY EndOf
    <3>2. k + i \in 1 .. Len(buf) /\ k + i > k
      BY <1>0, <3>1
    <3> QED  BY <3>1, <3>2 DEF StartsAfter
  <2> QED  BY <1>0, <2>1
<1>3. ASSUME NEW m \in ends \cup {0}, Free(Part(m)) PROVE m = k
  <2>1. m \in 0 .. Len(buf)
    BY <1>0
  <2>2. ~ (m > k)
    BY <1>0, <2>1 DEF StartsAfter
  <2>3. ~ (m < k)
    <3> SUFFICES ASSUME m < k PROVE FALSE
      OBVIOUS
    <3>1. k - m \in 1 .. Len(buf) - m /\ m + (k - m) = k
      BY <1>0, <2>1
    <3>2. Part(m)[k - m] = buf[k] /\ k - m \in 1 .. Len(Part(m))
      BY <2>1, <3>1, EndOf
    <3>3. buf[k] = NewlineCh
      BY <1>0, <2>1 DEF StartsAfter
    <3> QED  BY <1>3, <3>2, <3>3
  <2> QED  BY <1>0, <2>1, <2>2, <2>3
<1>4. CurrentLine(buf) \in {Part(m) : m \in ends \cup {0}} /\ Free(CurrentLine(buf))
  BY <1>1, <1>2
<1>5. CurrentLine(buf) = Part(k)
  BY <1>3, <1>4
<1> QED  BY <1>5, EndOf

\* Nothing typed is an empty line.
LEMMA EmptyLine == CurrentLine(<< >>) = << >>
<1>1. ASSUME NEW buf \in Seq(Chars), Len(buf) = 0 PROVE CurrentLine(buf) = << >>
  <2>1. StartsAfter(buf, 0) /\ 0 \in 0 .. Len(buf)
    BY <1>1 DEF StartsAfter
  <2>2. CurrentLine(buf) \in Seq(Chars) /\ Len(CurrentLine(buf)) = Len(buf) - 0
    BY <2>1, LineIs
  <2> QED  BY <1>1, <2>2, EmptySeq
<1> QED  BY <1>1, EmptySeq

\* A newline ends the line.
LEMMA AppendNewline ==
  ASSUME NEW buf \in Seq(Chars)
  PROVE  CurrentLine(Append(buf, NewlineCh)) = << >>
<1> DEFINE b == Append(buf, NewlineCh)
<1>1. b \in Seq(Chars) /\ Len(b) = Len(buf) + 1 /\ b[Len(buf) + 1] = NewlineCh /\ Len(buf) \in Nat
  BY AppendProperties DEF Chars
<1> HIDE DEF b
<1>2. StartsAfter(b, Len(b)) /\ Len(b) \in 0 .. Len(b)
  BY <1>1 DEF StartsAfter
<1>3. CurrentLine(b) \in Seq(Chars) /\ Len(CurrentLine(b)) = 0
  BY <1>1, <1>2, LineIs
<1> QED  BY <1>3, EmptySeq DEF b

\* Any other character goes to its end.
LEMMA AppendLine ==
  ASSUME NEW buf \in Seq(Chars), NEW ch \in Chars, ch # NewlineCh
  PROVE  LET new == CurrentLine(Append(buf, ch))
             old == CurrentLine(buf) IN
         /\ new \in Seq(Chars) /\ old \in Seq(Chars)
         /\ Len(new) = Len(old) + 1 /\ Len(new) <= Len(buf) + 1
         /\ new[Len(new)] = ch
         /\ \A j \in 1 .. Len(old) : new[j] = old[j]
<1> DEFINE b == Append(buf, ch)
<1>1. /\ b \in Seq(Chars) /\ Len(b) = Len(buf) + 1 /\ b[Len(buf) + 1] = ch /\ Len(buf) \in Nat
      /\ \A j \in 1 .. Len(buf) : b[j] = buf[j]
  BY AppendProperties
<1>2. PICK k \in 0 .. Len(buf) : StartsAfter(buf, k)
  BY LineStarts
<1> HIDE DEF b
<1>3. StartsAfter(b, k) /\ k \in 0 .. Len(b)
  <2>1. ASSUME NEW j \in 1 .. Len(b), j > k PROVE b[j] # NewlineCh
    BY <1>1, <1>2, <2>1 DEF StartsAfter
  <2> QED  BY <1>1, <1>2, <2>1 DEF StartsAfter
<1>4. /\ CurrentLine(b) \in Seq(Chars) /\ Len(CurrentLine(b)) = Len(b) - k
      /\ \A j \in 1 .. Len(b) - k : CurrentLine(b)[j] = b[k + j]
  BY <1>1, <1>3, LineIs
<1>5. /\ CurrentLine(buf) \in Seq(Chars) /\ Len(CurrentLine(buf)) = Len(buf) - k
      /\ \A j \in 1 .. Len(buf) - k : CurrentLine(buf)[j] = buf[k + j]
  BY <1>2, LineIs
<1>6. Len(CurrentLine(b)) = Len(CurrentLine(buf)) + 1 /\ Len(CurrentLine(b)) <= Len(buf) + 1
  BY <1>1, <1>2, <1>4, <1>5
<1>7. CurrentLine(b)[Len(CurrentLine(b))] = ch
  <2>1. Len(b) - k \in 1 .. Len(b) - k /\ k + (Len(b) - k) = Len(buf) + 1
    BY <1>1, <1>2
  <2> QED  BY <1>1, <1>4, <2>1
<1>8. ASSUME NEW j \in 1 .. Len(CurrentLine(buf)) PROVE CurrentLine(b)[j] = CurrentLine(buf)[j]
  <2>1. j \in 1 .. Len(buf) - k /\ j \in 1 .. Len(b) - k /\ k + j \in 1 .. Len(buf)
    BY <1>1, <1>2, <1>5
  <2> QED  BY <1>1, <1>4, <1>5, <2>1
<1> QED  BY <1>4, <1>5, <1>6, <1>7, <1>8 DEF b

\* delete_char takes the last character of the line away.
LEMMA DeleteLine ==
  ASSUME TypingTypeOK, CanDelete(keyboard_buf),
         keyboard_buf[Len(keyboard_buf)] # NewlineCh
  PROVE  LET new == CurrentLine(Deleted(keyboard_buf))
             old == CurrentLine(keyboard_buf) IN
         /\ new \in Seq(Chars) /\ old \in Seq(Chars)
         /\ Len(new) = Len(old) - 1
         /\ \A j \in 1 .. Len(new) : new[j] = old[j]
<1> DEFINE b == Deleted(keyboard_buf)
           n == Len(keyboard_buf)
<1>1. /\ keyboard_buf \in Seq(Chars) /\ n \in Nat /\ n >= 1
      /\ b \in Seq(Chars) /\ Len(b) = n - 1 /\ \A j \in 1 .. n - 1 : b[j] = keyboard_buf[j]
      /\ keyboard_buf[n] # NewlineCh
  BY DeletedIs DEF TypingTypeOK
<1>2. PICK k \in 0 .. n : StartsAfter(keyboard_buf, k)
  BY <1>1, LineStarts
<1> HIDE DEF b
<1>3. StartsAfter(b, k) /\ k \in 0 .. n - 1
  <2>1. k # n
    BY <1>1, <1>2 DEF StartsAfter
  <2>2. k \in 0 .. n - 1 /\ (k = 0 \/ k \in 1 .. n - 1)
    BY <1>1, <1>2, <2>1
  <2>3. k = 0 \/ b[k] = NewlineCh
    BY <1>1, <1>2, <2>2 DEF StartsAfter
  <2>4. ASSUME NEW j \in 1 .. n - 1, j > k PROVE b[j] # NewlineCh
    BY <1>1, <1>2, <2>4 DEF StartsAfter
  <2> QED  BY <1>1, <2>2, <2>3, <2>4 DEF StartsAfter
<1>4. /\ CurrentLine(b) \in Seq(Chars) /\ Len(CurrentLine(b)) = n - 1 - k
      /\ \A j \in 1 .. n - 1 - k : CurrentLine(b)[j] = b[k + j]
  BY <1>1, <1>3, LineIs
<1>5. /\ CurrentLine(keyboard_buf) \in Seq(Chars) /\ Len(CurrentLine(keyboard_buf)) = n - k
      /\ \A j \in 1 .. n - k : CurrentLine(keyboard_buf)[j] = keyboard_buf[k + j]
  BY <1>1, <1>2, LineIs
<1>6. Len(CurrentLine(b)) = Len(CurrentLine(keyboard_buf)) - 1
  BY <1>1, <1>2, <1>4, <1>5
<1>7. ASSUME NEW j \in 1 .. Len(CurrentLine(b))
      PROVE  CurrentLine(b)[j] = CurrentLine(keyboard_buf)[j]
  <2>1. j \in 1 .. n - k /\ j \in 1 .. n - 1 - k /\ k + j \in 1 .. n - 1
    BY <1>1, <1>2, <1>4
  <2> QED  BY <1>1, <1>4, <1>5, <2>1
<1> QED  BY <1>4, <1>5, <1>6, <1>7 DEF b

\* A line stands right before a place of a screen, as far as nothing was drawn
\* over it.
Shows(line, c, pos) ==
  /\ Len(line) <= pos
  /\ \A k \in 1 .. Len(line) : c[pos - Len(line) + k - 1] \in {line[k], Picture}

\* The property, in these terms.
LEMMA EchoByShows ==
  EchoIsBuffer <=> (~ apart => Shows(CurrentLine(keyboard_buf), cells, Cursor))
BY DEF EchoIsBuffer, Shows

\* An empty line stands anywhere.
LEMMA EmptyShows ==
  ASSUME NEW c, NEW pos \in Nat PROVE Shows(<< >>, c, pos)
BY EmptySeq DEF Shows

\* A character is echoed behind the line, which scrolls as a whole; the
\* buffer is too short for its start to leave the screen.
LEMMA CharShows ==
  ASSUME ConsoleInv, TypingTypeOK, NEW ch \in Printed, HasRoom(ch),
         Shows(CurrentLine(keyboard_buf), cells, Cursor)
  PROVE  LET s == char_put(ch) IN
         Shows(CurrentLine(Append(keyboard_buf, ch)), s.cells, At(s.x, s.y))
<1> DEFINE s   == char_put(ch)
           old == CurrentLine(keyboard_buf)
           new == CurrentLine(Append(keyboard_buf, ch))
           pos == At(s.x, s.y)
<1>1. /\ s.x \in Cols /\ s.y \in Rows /\ s.scrolled \in BOOLEAN
      /\ pos + Shift(s) = Cursor + 1
      /\ (s.scrolled => Cursor + 1 = NUM_COLS * NUM_ROWS)
      /\ \A i \in Cells : s.cells[i] =
           IF i + Shift(s) \in Cells
             THEN IF i + Shift(s) = Cursor THEN ch ELSE cells[i + Shift(s)]
             ELSE BLANK
  BY ScreenFacts, CharPutIs
<1>2. keyboard_buf \in Seq(Chars) /\ ch \in Chars /\ ch # NewlineCh
  BY ConsoleAssumption DEF TypingTypeOK, Chars
<1>3. /\ new \in Seq(Chars) /\ old \in Seq(Chars)
      /\ Len(new) = Len(old) + 1 /\ Len(new) <= Len(keyboard_buf) + 1
      /\ new[Len(new)] = ch /\ \A j \in 1 .. Len(old) : new[j] = old[j]
  BY <1>2, AppendLine
<1>4. Len(keyboard_buf) + 1 <= KEY_BUF_SIZE
  BY <1>2, AppendRoom
<1>5. /\ Len(old) \in Nat /\ Len(new) \in Nat /\ Len(keyboard_buf) \in Nat /\ Cursor \in Nat
      /\ Cursor \in Cells /\ pos \in Nat
      /\ Shift(s) \in Nat /\ Shift(s) = IF s.scrolled THEN NUM_COLS ELSE 0
  BY <1>1, <1>2, <1>3, ScreenFacts, ScreenType, PlaceType DEF Shift
<1>6. /\ Len(old) <= Cursor
      /\ \A k \in 1 .. Len(old) : cells[Cursor - Len(old) + k - 1] \in {old[k], Picture}
  BY DEF Shows
<1> HIDE DEF s, old, new, pos
<1>7. Len(new) <= pos
  BY <1>1, <1>3, <1>4, <1>5, <1>6, ScreenType
<1>8. ASSUME NEW k \in 1 .. Len(new) PROVE s.cells[pos - Len(new) + k - 1] \in {new[k], Picture}
  <2> DEFINE i == pos - Len(new) + k - 1
  <2>0. /\ pos + Shift(s) = Cursor + 1 /\ pos \in Int /\ Shift(s) \in Nat /\ Cursor \in Nat
        /\ Len(new) = Len(old) + 1 /\ Len(new) <= pos /\ Len(old) \in Nat
        /\ k \in Int /\ 1 <= k /\ k <= Len(new)
    BY <1>1, <1>3, <1>5, <1>7
  <2>1. i \in Nat /\ i + Shift(s) = Cursor - Len(old) + k - 1 /\ i + Shift(s) <= Cursor
    BY <2>0
  <2> HIDE DEF i
  <2>2. i \in Cells /\ i + Shift(s) \in Cells
    BY <1>5, <2>0, <2>1, EarlierCell
  <2>3. CASE k = Len(new)
    <3>1. i + Shift(s) = Cursor
      BY <2>0, <2>1, <2>3
    <3>2. s.cells[i] = ch
      BY <1>1, <2>2, <3>1
    <3> QED  BY <1>3, <2>3, <3>2 DEF i
  <2>4. CASE k # Len(new)
    <3>1. k \in 1 .. Len(old) /\ i + Shift(s) # Cursor
      BY <2>0, <2>1, <2>4
    <3>2. s.cells[i] = cells[i + Shift(s)]
      BY <1>1, <2>2, <3>1
    <3>3. cells[i + Shift(s)] \in {new[k], Picture}
      BY <1>3, <1>6, <2>1, <3>1
    <3> QED  BY <3>2, <3>3 DEF i
  <2> QED  BY <2>3, <2>4
<1> QED  BY <1>7, <1>8 DEF Shows, s, new, pos

\* Erasing takes the last character of the line and no other.
LEMMA RemcShows ==
  ASSUME ConsoleInv, TypingTypeOK, CanDelete(keyboard_buf),
         keyboard_buf[Len(keyboard_buf)] # NewlineCh,
         Shows(CurrentLine(keyboard_buf), cells, Cursor)
  PROVE  Shows(CurrentLine(Deleted(keyboard_buf)), remc.cells, At(remc.x, remc.y))
<1> DEFINE old == CurrentLine(keyboard_buf)
           new == CurrentLine(Deleted(keyboard_buf))
           pos == At(remc.x, remc.y)
<1>1. /\ pos = IF Cursor = 0 THEN 0 ELSE Cursor - 1
      /\ \A i \in Cells : remc.cells[i] = IF i \in {pos, pos + 1} THEN BLANK ELSE cells[i]
  BY ScreenFacts, RemcIs
<1>2. /\ new \in Seq(Chars) /\ old \in Seq(Chars) /\ Len(new) = Len(old) - 1
      /\ \A j \in 1 .. Len(new) : new[j] = old[j]
  BY DeleteLine
<1>3. Len(old) \in Nat /\ Len(new) \in Nat /\ Cursor \in Nat /\ Cursor \in Cells
  BY <1>2, ScreenFacts
<1>4. /\ Len(old) <= Cursor
      /\ \A k \in 1 .. Len(old) : cells[Cursor - Len(old) + k - 1] \in {old[k], Picture}
  BY DEF Shows
<1> HIDE DEF old, new, pos
<1>5. pos = Cursor - 1 /\ Len(new) <= pos
  BY <1>1, <1>2, <1>3, <1>4
<1>6. ASSUME NEW k \in 1 .. Len(new) PROVE remc.cells[pos - Len(new) + k - 1] \in {new[k], Picture}
  <2>1. /\ pos - Len(new) + k - 1 = Cursor - Len(old) + k - 1
        /\ pos - Len(new) + k - 1 \in Nat /\ pos - Len(new) + k - 1 < pos
        /\ k \in 1 .. Len(old)
    BY <1>2, <1>3, <1>5
  <2>2. pos - Len(new) + k - 1 \in Cells /\ pos - Len(new) + k - 1 \notin {pos, pos + 1}
    <3>1. \A i \in Nat : i < pos => i \in Cells /\ i # pos /\ i # pos + 1
      BY <1>3, <1>5, EarlierCell
    <3> QED  BY <2>1, <3>1
  <2> QED  BY <1>1, <1>2, <1>4, <2>1, <2>2
<1> QED  BY <1>5, <1>6 DEF Shows, new, pos

\* Every step keeps the line and its echo together.
LEMMA EchoStep ==
  ASSUME ConsoleInv, TypingTypeOK, EchoIsBuffer, [TypingNext]_tvars
  PROVE  EchoIsBuffer'
<1> DEFINE old == CurrentLine(keyboard_buf)
           new == CurrentLine(keyboard_buf')
<1>0. /\ EchoIsBuffer' <=> (~ apart' => Shows(new, cells', Cursor'))
      /\ ~ apart => Shows(old, cells, Cursor)
  BY EchoByShows DEF EchoIsBuffer, Shows, CurrentLine
<1>1. Cursor' \in Nat
  <2>1. ConsoleInv'
    BY ConsoleStep
  <2>2. cursor_x' \in Cols /\ cursor_y' \in Rows
    BY <2>1 DEF ConsoleInv, ConsoleTypeOK, Cols, Rows
  <2> QED  BY <2>2, PlaceType DEF Cursor, At
<1> HIDE DEF old, new
<1>2. ASSUME new = << >> PROVE EchoIsBuffer'
  BY <1>0, <1>1, <1>2, EmptyShows
<1>3. ASSUME NEW ch \in Chars, HasRoom(ch), keyboard_buf' = Append(keyboard_buf, ch),
             NEW c, becomes(put_key(c, ch)), Sound(put_key(c, ch)), NowApart(FALSE)
      PROVE  EchoIsBuffer'
  <2>1. CASE ch = NewlineCh
    BY <1>2, <1>3, <2>1, AppendNewline DEF new, TypingTypeOK
  <2>2. CASE ch # NewlineCh
    <3>1. ch \in Printed /\ put_key(c, ch) = char_put(ch)
      BY <2>2 DEF Chars, put_key
    <3>2. new # << >>
      <4>1. Len(new) = Len(old) + 1 /\ old \in Seq(Chars)
        BY <1>3, <2>2, AppendLine DEF new, old, TypingTypeOK
      <4>2. Len(new) # 0
        BY <4>1
      <4> QED  BY <4>2, EmptySeq
    <3>3. ~ apart' => ~ apart
      BY <1>3, <3>2 DEF NowApart, new
    <3>4. Cursor' = At(char_put(ch).x, char_put(ch).y) /\ cells' = char_put(ch).cells
      BY <1>3, <3>1, BecomesSound DEF becomes
    <3> QED  BY <1>0, <1>3, <3>1, <3>3, <3>4, CharShows DEF old, new
  <2> QED  BY <2>1, <2>2
<1>4. ASSUME NowApart(TRUE) PROVE EchoIsBuffer'
  <2>1. ~ apart' => new = << >>
    BY <1>4 DEF NowApart, new
  <2> QED  BY <1>0, <1>2, <2>1
<1>5. ASSUME NEW ch \in Chars, type_key(ch) PROVE EchoIsBuffer'
  BY <1>3, <1>5, KeySound DEF type_key, echo
<1>6. ASSUME NEW ch \in Chars, ctrl_key(ch) PROVE EchoIsBuffer'
  <2>1. CASE HasRoom(ch)
    <3>1. NowApart(FALSE)
      BY <1>6, <2>1 DEF ctrl_key, NowApart
    <3> QED  BY <1>3, <1>6, <2>1, <3>1, KeySound DEF ctrl_key, echo
  <2>2. CASE ~ HasRoom(ch)
    <3>1. NowApart(TRUE)
      BY <1>6, <2>2 DEF ctrl_key, NowApart
    <3> QED  BY <1>4, <3>1
  <2> QED  BY <2>1, <2>2
<1>7. ASSUME keyboard_buf' = << >> PROVE EchoIsBuffer'
  BY <1>2, <1>7, EmptyLine DEF new
<1>8. CASE type_backspace
  <2>0. /\ CanDelete(keyboard_buf) /\ keyboard_buf' = Deleted(keyboard_buf) /\ becomes(remc)
        /\ NowApart(\E k \in DOMAIN keyboard_buf :
                      k = Len(keyboard_buf) /\ keyboard_buf[k] = NewlineCh)
    BY <1>8 DEF type_backspace, echo
  <2>1. DOMAIN keyboard_buf = 1 .. Len(keyboard_buf) /\ Len(keyboard_buf) \in 1 .. Len(keyboard_buf)
    BY <2>0, DeletedIs DEF TypingTypeOK
  <2>2. CASE keyboard_buf[Len(keyboard_buf)] = NewlineCh
    <3>1. NowApart(TRUE)
      BY <2>0, <2>1, <2>2 DEF NowApart
    <3> QED  BY <1>4, <3>1
  <2>3. CASE keyboard_buf[Len(keyboard_buf)] # NewlineCh
    <3>1. ~ apart' => new = << >> \/ ~ apart
      BY <2>0, <2>3 DEF NowApart, new
    <3>2. Cursor' = At(remc.x, remc.y) /\ cells' = remc.cells
      BY <2>0, RemcSound, BecomesSound DEF becomes
    <3>3. ~ apart => EchoIsBuffer'
      BY <1>0, <2>0, <2>3, <3>2, RemcShows DEF old, new
    <3> QED  BY <1>0, <1>2, <3>1, <3>3
  <2> QED  BY <2>2, <2>3
<1>9. CASE tab_space
  <2>0. BLANK \in Chars
    BY ConsoleAssumption DEF Chars
  <2>1. CASE HasRoom(BLANK)
    BY <1>3, <1>9, <2>0, <2>1, KeySound DEF tab_space, echo
  <2>2. CASE ~ HasRoom(BLANK)
    BY <1>9, <2>2 DEF tab_space, EchoIsBuffer, Cursor, At
  <2> QED  BY <2>1, <2>2
<1>10. CASE blink \/ vidmap_write
  <2>1. /\ Cursor' = Cursor /\ apart' = apart /\ keyboard_buf' = keyboard_buf
        /\ \A i \in Cells : i < Cursor => cells'[i] \in {cells[i], Picture}
    <3>1. \A i \in Cells : i < Cursor => i # Cursor
      BY ScreenFacts, CellsAre
    <3> QED  BY <1>10, <3>1, ScreenFacts
             DEF blink, vidmap_write, becomes, put_cursor, rem_cursor, mp1_poke, Screen, Cursor, At
  <2>2. new = old /\ old \in Seq(Chars)
    <3>1. PICK k \in 0 .. Len(keyboard_buf) : StartsAfter(keyboard_buf, k)
      BY LineStarts DEF TypingTypeOK
    <3> QED  BY <2>1, <3>1, LineIs DEF new, old, TypingTypeOK
  <2>3. ASSUME Shows(old, cells, Cursor) PROVE Shows(old, cells', Cursor')
    <3>1. ASSUME NEW k \in 1 .. Len(old)
          PROVE  Cursor - Len(old) + k - 1 \in Cells /\ Cursor - Len(old) + k - 1 < Cursor
      <4>1. Len(old) \in Nat /\ Len(old) <= Cursor /\ Cursor \in Nat /\ Cursor \in Cells
        BY <2>2, <2>3, ScreenFacts DEF Shows
      <4>2. Cursor - Len(old) + k - 1 \in Nat /\ Cursor - Len(old) + k - 1 < Cursor
        BY <4>1
      <4>3. \A i \in Nat : i < Cursor => i \in Cells
        BY <4>1, EarlierCell
      <4> QED  BY <4>2, <4>3
    <3> QED  BY <2>1, <2>3, <3>1 DEF Shows
  <2> QED  BY <1>0, <2>1, <2>2, <2>3
<1>11. CASE type_tab \/ UNCHANGED tvars
  BY <1>11 DEF type_tab, tvars, EchoIsBuffer, Cursor, At
<1>12. CASE (\E ch \in Chars : print(ch)) \/ handle_exception
  BY <1>4, <1>12 DEF print, handle_exception, printed
<1>13. CASE ctrl_l \/ clear_keyboard_buf
  BY <1>7, <1>13 DEF ctrl_l, clear_keyboard_buf
<1> QED  BY <1>5, <1>6, <1>8, <1>9, <1>10, <1>11, <1>12, <1>13 DEF TypingNext, keyboard_handler

(***************************************************************************)
(* What stands on the screen before the cursor is the line a program will  *)
(* read: write_char and put_key, and delete_char and remc, go together     *)
(* through wrapping, scrolling and blinking.  A character of it is hidden  *)
(* only where a program drew through vidmap.                               *)
(***************************************************************************)
THEOREM EchoCorrect == TypingSpec => []EchoIsBuffer
<1>1. TypingInit => ConsoleInv /\ TypingTypeOK /\ EchoIsBuffer
  <2> SUFFICES ASSUME TypingInit PROVE ConsoleInv /\ TypingTypeOK /\ EchoIsBuffer
    OBVIOUS
  <2>1. CurrentLine(keyboard_buf) = << >>
    BY EmptyLine DEF TypingInit
  <2> QED  BY <2>1, TypingStart, EmptyShows, EchoByShows, ScreenFacts
<1>2. ConsoleInv /\ TypingTypeOK /\ EchoIsBuffer /\ [TypingNext]_tvars
        => (ConsoleInv /\ TypingTypeOK /\ EchoIsBuffer)'
  BY ConsoleStep, TypingTypeStep, EchoStep
<1> QED  BY <1>1, <1>2, PTL DEF TypingSpec
-----------------------------------------------------------------------------
(* The screen as a scrolling text. *)

\* Characters on the screen.
Drawn == Printed \cup {Underline, Picture}

\* The first n characters of a line of a screen, and the lines above it.
RowIn(c, y, n) == [i \in 1 .. n |-> c[At(i - 1, y)]]
AboveIn(c, y)  == [i \in 1 .. y |-> RowIn(c, i - 1, NUM_COLS)]

\* A function on an initial segment of the numbers is a sequence.
LEMMA FunIsSeq ==
  ASSUME NEW S, NEW n \in Nat, NEW f \in [1 .. n -> S]
  PROVE  f \in Seq(S) /\ Len(f) = n
<1>1. f \in Seq(S)
  BY SeqDef
<1>2. DOMAIN f = 1 .. n /\ DOMAIN f = 1 .. Len(f) /\ Len(f) \in Nat
  BY <1>1, LenProperties
<1> QED  BY <1>1, <1>2

\* The cells of a line are on the screen, before those of later lines.
LEMMA RowCells ==
  ASSUME NEW y \in Rows, NEW j \in 1 .. NUM_COLS
  PROVE  /\ At(j - 1, y) \in Cells /\ At(j - 1, y) = NUM_COLS * y + (j - 1)
         /\ \A z \in Rows : y < z => At(j - 1, y) < NUM_COLS * z
         /\ (y + 1 \in Rows => At(j - 1, y) + NUM_COLS = At(j - 1, y + 1))
<1>1. j - 1 \in Cols /\ j - 1 < NUM_COLS /\ j \in Nat
  BY ScreenType DEF Cols
<1>2. At(j - 1, y) \in Cells
  BY <1>1, PlaceType
<1>3. At(j - 1, y) = NUM_COLS * y + (j - 1)
  BY DEF At
<1>4. NUM_COLS * y \in Nat /\ NUM_COLS * (y + 1) = NUM_COLS * y + NUM_COLS
  BY RowPlace
<1>5. ASSUME NEW z \in Rows, y < z PROVE At(j - 1, y) < NUM_COLS * z
  <2>1. y \in Nat /\ z \in Nat /\ y + 1 <= z /\ NUM_COLS \in Nat
    BY <1>5, ScreenType DEF Rows
  <2>2. \A a, b \in Nat : a <= b => NUM_COLS * a <= NUM_COLS * b
    BY <2>1
  <2>3. NUM_COLS * (y + 1) <= NUM_COLS * z /\ NUM_COLS * z \in Nat
    BY <2>1, <2>2, RowPlace
  <2> QED  BY <1>1, <1>3, <1>4, <2>3, ScreenType
<1>6. At(j - 1, y) + NUM_COLS = At(j - 1, y + 1)
  BY <1>1, <1>4, ScreenType DEF At
<1> QED  BY <1>2, <1>3, <1>5, <1>6

\* Every cell is in a line.
LEMMA RowOf ==
  ASSUME NEW p \in Cells
  PROVE  \E y \in Rows, k \in 1 .. NUM_COLS : p = At(k - 1, y)
<1> DEFINE y == p \div NUM_COLS
           k == (p % NUM_COLS) + 1
<1>1. p \in Nat /\ p < NUM_COLS * NUM_ROWS /\ NUM_COLS \in Nat /\ NUM_COLS >= 1 /\ NUM_ROWS \in Nat
  BY CellsAre, ScreenType
<1>2. y \in Nat /\ p = NUM_COLS * y + (k - 1) /\ k \in 1 .. NUM_COLS
  BY <1>1
<1> HIDE DEF y, k
<1>3. ASSUME NUM_ROWS <= y PROVE FALSE
  <2>1. NUM_COLS * NUM_ROWS <= NUM_COLS * y /\ NUM_COLS * y \in Nat
    BY <1>1, <1>2, <1>3
  <2> QED  BY <1>1, <1>2, <2>1, ScreenType
<1>4. y \in Rows
  BY <1>1, <1>2, <1>3 DEF Rows
<1>5. p = At(k - 1, y)
  BY <1>2 DEF At
<1> QED  BY <1>2, <1>4, <1>5

\* The beginning of a line.
LEMMA RowType ==
  ASSUME NEW c \in [Cells -> Drawn], NEW y \in Rows, NEW n \in 0 .. NUM_COLS
  PROVE  /\ RowIn(c, y, n) \in [1 .. n -> Drawn] /\ RowIn(c, y, n) \in Seq(Drawn)
         /\ Len(RowIn(c, y, n)) = n
         /\ \A j \in 1 .. n : RowIn(c, y, n)[j] = c[At(j - 1, y)]
<1>1. n \in Nat /\ \A j \in 1 .. n : j \in 1 .. NUM_COLS
  BY ScreenType
<1>2. \A j \in 1 .. n : At(j - 1, y) \in Cells
  BY <1>1, RowCells
<1>3. RowIn(c, y, n) \in [1 .. n -> Drawn]
  BY <1>2 DEF RowIn
<1> QED  BY <1>1, <1>3, FunIsSeq DEF RowIn

\* A whole line.
LEMMA FullRow ==
  ASSUME NEW c \in [Cells -> Drawn], NEW y \in Rows
  PROVE  /\ RowIn(c, y, NUM_COLS) \in [1 .. NUM_COLS -> Drawn]
         /\ \A j \in 1 .. NUM_COLS : RowIn(c, y, NUM_COLS)[j] = c[At(j - 1, y)]
<1>1. NUM_COLS \in 0 .. NUM_COLS
  BY ScreenType
<1> QED  BY <1>1, RowType

\* The lines above a line.
LEMMA AboveType ==
  ASSUME NEW c \in [Cells -> Drawn], NEW y \in Rows
  PROVE  /\ AboveIn(c, y) \in Seq(Seq(Drawn)) /\ Len(AboveIn(c, y)) = y
         /\ \A i \in 1 .. y : AboveIn(c, y)[i] = RowIn(c, i - 1, NUM_COLS)
<1>1. y \in Nat /\ NUM_COLS \in 0 .. NUM_COLS /\ \A i \in 1 .. y : i - 1 \in Rows
  BY ScreenType DEF Rows
<1>2. \A i \in 1 .. y : RowIn(c, i - 1, NUM_COLS) \in Seq(Drawn)
  BY <1>1, RowType
<1>3. AboveIn(c, y) \in [1 .. y -> Seq(Drawn)]
  BY <1>2 DEF AboveIn
<1> QED  BY <1>1, <1>3, FunIsSeq DEF AboveIn

\* Screens that agree on a line have the same line.
LEMMA RowSame ==
  ASSUME NEW c, NEW d, NEW y, NEW n,
         \A j \in 1 .. n : c[At(j - 1, y)] = d[At(j - 1, y)]
  PROVE  RowIn(c, y, n) = RowIn(d, y, n)
BY DEF RowIn

\* Screens that agree up to a line have the same lines above it.
LEMMA AboveSame ==
  ASSUME NEW c, NEW d, NEW y \in Rows,
         \A i \in Cells : i < NUM_COLS * y => c[i] = d[i]
  PROVE  AboveIn(c, y) = AboveIn(d, y)
<1>1. ASSUME NEW i \in 1 .. y PROVE RowIn(c, i - 1, NUM_COLS) = RowIn(d, i - 1, NUM_COLS)
  <2>1. i - 1 \in Rows /\ i - 1 < y
    BY ScreenType DEF Rows
  <2>2. \A j \in 1 .. NUM_COLS : c[At(j - 1, i - 1)] = d[At(j - 1, i - 1)]
    BY <2>1, RowCells
  <2> QED  BY <2>2, RowSame
<1> QED  BY <1>1 DEF AboveIn

\* The mapping, in these terms.
LEMMA TextIs ==
  /\ [i \in 1 .. cursor_y |-> LineAt(i - 1, NUM_COLS)] = AboveIn(cells, cursor_y)
  /\ LineAt(cursor_y, cursor_x) = RowIn(cells, cursor_y, cursor_x)
  /\ [i \in 1 .. cursor_y |-> LineAt(i - 1, NUM_COLS)]' = AboveIn(cells', cursor_y')
  /\ LineAt(cursor_y, cursor_x)' = RowIn(cells', cursor_y', cursor_x')
BY DEF LineAt, AboveIn, RowIn, At

\* Whether anything that programs drew is on a screen.
Pictured(c) == \E i \in Cells : c[i] = Picture

\* A line that is finished, with blanks and what was drawn behind its text.
LEMMA PaddedHas ==
  ASSUME NEW line \in Seq(Drawn), NEW P \in [1 .. NUM_COLS -> Drawn],
         \A j \in 1 .. NUM_COLS :
           IF j <= Len(line) THEN P[j] = line[j]
           ELSE P[j] \in {BLANK, Picture} /\ (P[j] = Picture => Pictured(cells))
  PROVE  P \in Text!Padded(line)
<1> DEFINE rest == [j \in Len(line) + 1 .. NUM_COLS |-> P[j]]
<1>0. Len(line) \in Nat /\ NUM_COLS \in Nat
  BY ScreenType
<1>1. \A j \in Len(line) + 1 .. NUM_COLS : j \in 1 .. NUM_COLS /\ ~ (j <= Len(line))
  BY <1>0
<1>2. \A j \in Len(line) + 1 .. NUM_COLS : P[j] \in Text!Fill
  BY <1>1 DEF Text!Fill, Pictured
<1>3. rest \in [Len(line) + 1 .. NUM_COLS -> Text!Fill]
  BY <1>2
<1>4. \A j \in 1 .. NUM_COLS : ~ (j <= Len(line)) => j \in Len(line) + 1 .. NUM_COLS
  BY <1>0
<1>5. P = [j \in 1 .. NUM_COLS |-> IF j <= Len(line) THEN line[j] ELSE rest[j]]
  BY <1>4
<1> QED  BY <1>3, <1>5 DEF Text!Padded

(***************************************************************************)
(* A line that ends, on a screen d that still has to be scrolled if it was *)
(* the last one: the lines above the cursor are those that were, and the   *)
(* line that ended, without the first one if there is no room for it.      *)
(***************************************************************************)
LEMMA FinishLines ==
  ASSUME NEW c \in [Cells -> Drawn], NEW d \in [Cells -> Drawn], NEW e \in [Cells -> Drawn],
         NEW y \in Rows,
         NEW sh, sh = IF y + 1 >= NUM_ROWS THEN NUM_COLS ELSE 0,
         \A i \in Cells : i < NUM_COLS * y => d[i] = c[i],
         \A i \in Cells : e[i] = IF i + sh \in Cells THEN d[i + sh] ELSE BLANK
  PROVE  AboveIn(e, IF y + 1 < NUM_ROWS THEN y + 1 ELSE y)
           = Text!Visible(Append(AboveIn(c, y), RowIn(d, y, NUM_COLS)))
<1> DEFINE P == RowIn(d, y, NUM_COLS)
           l == Append(AboveIn(c, y), P)
<1>0. /\ y \in Nat /\ NUM_ROWS \in Nat /\ NUM_COLS \in Nat /\ y + 1 <= NUM_ROWS
      /\ NUM_COLS \in 0 .. NUM_COLS /\ NUM_COLS * y \in Nat
  BY ScreenType, RowPlace DEF Rows
<1>1. P \in [1 .. NUM_COLS -> Drawn] /\ P \in Seq(Drawn)
  BY <1>0, RowType
<1>2. /\ AboveIn(c, y) \in Seq(Seq(Drawn)) /\ Len(AboveIn(c, y)) = y
      /\ \A i \in 1 .. y : AboveIn(c, y)[i] = RowIn(c, i - 1, NUM_COLS)
  BY AboveType
<1>3. /\ l \in Seq(Seq(Drawn)) /\ Len(l) = y + 1 /\ l[y + 1] = P
      /\ \A i \in 1 .. y : l[i] = RowIn(c, i - 1, NUM_COLS)
  <2> DEFINE A == AboveIn(c, y)
  <2>1. A \in Seq(Seq(Drawn)) /\ Len(A) = y /\ \A i \in 1 .. y : A[i] = RowIn(c, i - 1, NUM_COLS)
    BY <1>2
  <2> HIDE DEF P, A
  <2>2. /\ Append(A, P) \in Seq(Seq(Drawn)) /\ Len(Append(A, P)) = y + 1
        /\ Append(A, P)[y + 1] = P /\ \A i \in 1 .. y : Append(A, P)[i] = A[i]
    BY <1>1, <2>1, AppendProperties
  <2> QED  BY <2>1, <2>2 DEF A
<1>4. RowIn(d, y, NUM_COLS) = P
  OBVIOUS
<1> HIDE DEF P, l
<1>5. ASSUME NEW i \in 1 .. y + 1 PROVE RowIn(d, i - 1, NUM_COLS) = l[i]
  <2>1. CASE i = y + 1
    <3>1. i - 1 = y
      BY <1>0, <2>1
    <3> QED  BY <1>3, <1>4, <2>1, <3>1
  <2>2. CASE i # y + 1
    <3>1. i \in 1 .. y /\ i - 1 \in Rows /\ i - 1 < y
      BY <1>0, <2>2 DEF Rows
    <3>2. \A j \in 1 .. NUM_COLS : d[At(j - 1, i - 1)] = c[At(j - 1, i - 1)]
      BY <3>1, RowCells
    <3>3. RowIn(d, i - 1, NUM_COLS) = RowIn(c, i - 1, NUM_COLS)
      BY <3>2 DEF RowIn
    <3> QED  BY <1>3, <3>1, <3>3
  <2> QED  BY <2>1, <2>2
<1>6. CASE y + 1 < NUM_ROWS
  <2>1. Text!Visible(l) = l
    BY <1>3, <1>6 DEF Text!Visible
  <2>2. y + 1 \in Rows /\ y + 1 \in Nat
    BY <1>0, <1>6 DEF Rows
  <2>3. \A i \in Cells : e[i] = d[i]
    <3>1. sh = 0 /\ \A i \in Cells : i + 0 = i
      BY <1>0, <1>6, CellsAre
    <3> QED  BY <3>1
  <2>4. /\ AboveIn(e, y + 1) \in Seq(Seq(Drawn)) /\ Len(AboveIn(e, y + 1)) = y + 1
        /\ \A i \in 1 .. y + 1 : AboveIn(e, y + 1)[i] = RowIn(e, i - 1, NUM_COLS)
    BY <2>2, AboveType
  <2>5. ASSUME NEW i \in 1 .. y + 1 PROVE AboveIn(e, y + 1)[i] = l[i]
    <3>1. i - 1 \in Rows
      BY <1>0 DEF Rows
    <3>2. \A j \in 1 .. NUM_COLS : e[At(j - 1, i - 1)] = d[At(j - 1, i - 1)]
      BY <2>3, <3>1, RowCells
    <3>3. RowIn(e, i - 1, NUM_COLS) = RowIn(d, i - 1, NUM_COLS)
      BY <3>2 DEF RowIn
    <3> QED  BY <1>5, <2>4, <3>3
  <2>6. AboveIn(e, y + 1) = l
    BY <1>3, <2>4, <2>5, SeqEqual
  <2> QED  BY <1>6, <2>1, <2>6 DEF l, P
<1>7. CASE ~ (y + 1 < NUM_ROWS)
  <2>0. y + 1 = NUM_ROWS /\ y >= 1 /\ sh = NUM_COLS
    BY <1>0, <1>7, ScreenType
  <2> DEFINE v == SubSeq(l, 2, y + 1)
  <2>1. Text!Visible(l) = v
    <3>1. ~ (Len(l) < NUM_ROWS) /\ Len(l) - NUM_ROWS + 2 = 2 /\ Len(l) = y + 1
      BY <1>0, <1>3, <2>0
    <3> QED  BY <3>1 DEF Text!Visible
  <2>2. v \in Seq(Seq(Drawn)) /\ Len(v) = y /\ \A i \in 1 .. y : v[i] = l[i + 1]
    <3>1. \A i \in 2 .. y + 1 : l[i] \in Seq(Drawn)
      BY <1>0, <1>3, ElementOfSeq
    <3>2. /\ v \in Seq(Seq(Drawn))
          /\ Len(v) = IF 2 <= y + 1 THEN (y + 1) - 2 + 1 ELSE 0
          /\ \A i \in 1 .. (y + 1) - 2 + 1 : v[i] = l[2 + i - 1]
      BY <1>0, <3>1, SubSeqProperties
    <3> HIDE DEF v
    <3>3. Len(v) = y
      BY <1>0, <2>0, <3>2
    <3>4. ASSUME NEW i \in 1 .. y PROVE v[i] = l[i + 1]
      <4>1. i \in 1 .. (y + 1) - 2 + 1 /\ 2 + i - 1 = i + 1
        BY <1>0
      <4> QED  BY <3>2, <4>1
    <3> QED  BY <3>2, <3>3, <3>4
  <2> HIDE DEF v
  <2>3. /\ AboveIn(e, y) \in Seq(Seq(Drawn)) /\ Len(AboveIn(e, y)) = y
        /\ \A i \in 1 .. y : AboveIn(e, y)[i] = RowIn(e, i - 1, NUM_COLS)
    BY AboveType
  <2>4. ASSUME NEW i \in 1 .. y PROVE RowIn(e, i - 1, NUM_COLS) = v[i]
    <3>1. /\ i - 1 \in Rows /\ (i - 1) + 1 \in Rows /\ (i - 1) + 1 = i
          /\ i + 1 \in 1 .. y + 1 /\ (i + 1) - 1 = i
      BY <1>0, <2>0 DEF Rows
    <3>2. ASSUME NEW j \in 1 .. NUM_COLS PROVE e[At(j - 1, i - 1)] = d[At(j - 1, i)]
      <4>1. /\ At(j - 1, i - 1) \in Cells /\ At(j - 1, i) \in Cells
            /\ At(j - 1, i - 1) + NUM_COLS = At(j - 1, i)
        BY <3>1, RowCells
      <4> QED  BY <2>0, <4>1
    <3>3. RowIn(e, i - 1, NUM_COLS) = RowIn(d, i, NUM_COLS)
      BY <3>2 DEF RowIn
    <3>4. RowIn(d, i, NUM_COLS) = l[i + 1]
      BY <1>5, <3>1
    <3> QED  BY <2>2, <3>3, <3>4
  <2>5. AboveIn(e, y) = v
    BY <1>0, <2>2, <2>3, <2>4, SeqEqual
  <2> QED  BY <1>7, <2>1, <2>5 DEF l, P
<1> QED  BY <1>6, <1>7

\* The step of ScrollingText that ends a line.
LEMMA FinishStep ==
  ASSUME ConsoleInv, NEW s, becomes(s), NEW line \in Seq(Drawn), NEW d \in [Cells -> Drawn],
         s.cells \in [Cells -> Drawn], s.x = 0,
         s.y = IF cursor_y + 1 < NUM_ROWS THEN cursor_y + 1 ELSE cursor_y,
         Shift(s) = IF cursor_y + 1 >= NUM_ROWS THEN NUM_COLS ELSE 0,
         \A i \in Cells : i < NUM_COLS * cursor_y => d[i] = cells[i],
         \A j \in 1 .. NUM_COLS :
           IF j <= Len(line) THEN d[At(j - 1, cursor_y)] = line[j]
           ELSE /\ d[At(j - 1, cursor_y)] \in {BLANK, Picture}
                /\ d[At(j - 1, cursor_y)] = Picture => Pictured(cells),
         \A i \in Cells : s.cells[i] = IF i + Shift(s) \in Cells THEN d[i + Shift(s)] ELSE BLANK
  PROVE  Text!FinishLine(line)
<1>1. cells \in [Cells -> Drawn] /\ cursor_y \in Rows
  BY DEF ConsoleInv, ConsoleTypeOK, Drawn
<1> DEFINE P == RowIn(d, cursor_y, NUM_COLS)
<1>2. AboveIn(cells', cursor_y') = Text!Visible(Append(AboveIn(cells, cursor_y), P))
  BY <1>1, FinishLines DEF becomes
<1>3. RowIn(cells', cursor_y', cursor_x') = << >>
  BY DEF becomes, RowIn
<1>4. P \in Text!Padded(line)
  <2>1. /\ P \in [1 .. NUM_COLS -> Drawn]
        /\ \A j \in 1 .. NUM_COLS : P[j] = d[At(j - 1, cursor_y)]
    <3>1. /\ RowIn(d, cursor_y, NUM_COLS) \in [1 .. NUM_COLS -> Drawn]
          /\ \A j \in 1 .. NUM_COLS :
               RowIn(d, cursor_y, NUM_COLS)[j] = d[At(j - 1, cursor_y)]
      BY <1>1, FullRow
    <3> QED  BY <3>1
  <2> HIDE DEF P
  <2> QED  BY <2>1, PaddedHas
<1> HIDE DEF P
<1> QED  BY <1>2, <1>3, <1>4, TextIs DEF Text!FinishLine

\* Nothing happens to the text when only cells from the cursor on change.
LEMMA SameText ==
  ASSUME ConsoleInv, cursor_x' = cursor_x, cursor_y' = cursor_y,
         \A i \in Cells : i < Cursor => cells'[i] = cells[i]
  PROVE  Text!Same
<1>1. /\ cursor_x \in Cols /\ cursor_y \in Rows /\ Cursor = NUM_COLS * cursor_y + cursor_x
      /\ NUM_COLS * cursor_y \in Nat /\ cursor_x \in Nat /\ cursor_x < NUM_COLS
  BY RowPlace, ScreenType DEF ConsoleInv, ConsoleTypeOK, Cursor, At, Cols
<1>2. \A i \in Cells : i < NUM_COLS * cursor_y => i < Cursor
  BY <1>1, CellsAre
<1>3. AboveIn(cells', cursor_y) = AboveIn(cells, cursor_y)
  BY <1>1, <1>2, AboveSame
<1>4. ASSUME NEW j \in 1 .. cursor_x PROVE cells'[At(j - 1, cursor_y)] = cells[At(j - 1, cursor_y)]
  <2>1. j \in 1 .. NUM_COLS
    BY <1>1, ScreenType
  <2>2. At(j - 1, cursor_y) \in Cells /\ At(j - 1, cursor_y) < Cursor
    BY <1>1, <2>1, RowCells
  <2> QED  BY <2>2
<1>5. RowIn(cells', cursor_y, cursor_x) = RowIn(cells, cursor_y, cursor_x)
  BY <1>4, RowSame
<1> QED  BY <1>3, <1>5, TextIs DEF Text!Same

\* Where the cursor is, as the lines of the text see it.
LEMMA CursorFacts ==
  ASSUME ConsoleInv
  PROVE  /\ cursor_x \in Cols /\ cursor_y \in Rows /\ Cursor = NUM_COLS * cursor_y + cursor_x
         /\ NUM_COLS * cursor_y \in Nat /\ cursor_x \in Nat /\ cursor_x < NUM_COLS
         /\ cursor_x \in 0 .. NUM_COLS /\ NUM_COLS \in Nat /\ Cursor \in Cells
         /\ cells \in [Cells -> Drawn] /\ NUM_ROWS \in Nat /\ cursor_y \in Nat
         /\ \A i \in Cells : i > Cursor => cells[i] \in {BLANK, Picture}
<1>1. cells \in [Cells -> Drawn] /\ cursor_x \in Cols /\ cursor_y \in Rows
  BY DEF ConsoleInv, ConsoleTypeOK, Drawn
<1>2. Cursor = NUM_COLS * cursor_y + cursor_x /\ NUM_COLS * cursor_y \in Nat
  BY <1>1, RowPlace DEF Cursor, At
<1>3. /\ cursor_x \in Nat /\ cursor_x < NUM_COLS /\ cursor_x \in 0 .. NUM_COLS
      /\ NUM_COLS \in Nat /\ NUM_ROWS \in Nat /\ cursor_y \in Nat
  BY <1>1, ScreenType DEF Cols, Rows
<1> QED  BY <1>1, <1>2, <1>3, ScreenFacts

\* A character is written.
LEMMA WriteStep ==
  ASSUME ConsoleInv, NEW ch \in Printed, becomes(char_put(ch))
  PROVE  Text!Write
<1> DEFINE s   == char_put(ch)
           cur == RowIn(cells, cursor_y, cursor_x)
           d   == [cells EXCEPT ![Cursor] = ch]
<1>0. /\ cursor_x \in Cols /\ cursor_y \in Rows /\ Cursor = NUM_COLS * cursor_y + cursor_x
      /\ NUM_COLS * cursor_y \in Nat /\ cursor_x \in Nat /\ cursor_x < NUM_COLS
      /\ cursor_x \in 0 .. NUM_COLS /\ NUM_COLS \in Nat /\ Cursor \in Cells
      /\ cells \in [Cells -> Drawn] /\ ch \in Drawn /\ NUM_ROWS \in Nat /\ cursor_y \in Nat
  BY CursorFacts DEF Drawn
<1>1. /\ cur \in Seq(Drawn) /\ Len(cur) = cursor_x
      /\ \A j \in 1 .. cursor_x : cur[j] = cells[At(j - 1, cursor_y)]
  BY <1>0, RowType
<1>2. /\ s.scrolled \in BOOLEAN
      /\ s.scrolled <=> cursor_x + 1 >= NUM_COLS /\ cursor_y + 1 >= NUM_ROWS
      /\ s.x = IF cursor_x + 1 >= NUM_COLS THEN 0 ELSE cursor_x + 1
      /\ s.y = IF cursor_x + 1 >= NUM_COLS /\ cursor_y + 1 < NUM_ROWS
                 THEN cursor_y + 1 ELSE cursor_y
      /\ s.cells \in [Cells -> Drawn]
      /\ \A i \in Cells : s.cells[i] =
           IF i + Shift(s) \in Cells
             THEN IF i + Shift(s) = Cursor THEN ch ELSE cells[i + Shift(s)]
             ELSE BLANK
  BY ScreenFacts, CharPutIs DEF Drawn
<1>3. /\ d \in [Cells -> Drawn]
      /\ \A i \in Cells : d[i] = IF i = Cursor THEN ch ELSE cells[i]
  BY <1>0
<1>4. /\ Append(cur, ch) \in Seq(Drawn) /\ Len(Append(cur, ch)) = cursor_x + 1
      /\ Append(cur, ch)[cursor_x + 1] = ch
      /\ \A j \in 1 .. cursor_x : Append(cur, ch)[j] = cur[j]
  <2> HIDE DEF cur
  <2> QED  BY <1>0, <1>1, AppendProperties
<1>5. \A j \in 1 .. NUM_COLS : At(j - 1, cursor_y) \in Cells
                               /\ At(j - 1, cursor_y) = NUM_COLS * cursor_y + (j - 1)
  BY <1>0, RowCells
<1> HIDE DEF s, cur, d
<1>6. becomes(s)
  BY DEF s
<1>7. CASE cursor_x + 1 < NUM_COLS
  <2>1. s.x = cursor_x + 1 /\ s.y = cursor_y /\ Shift(s) = 0
    BY <1>0, <1>2, <1>7 DEF Shift
  <2>2. \A i \in Cells : s.cells[i] = d[i]
    <3>1. \A i \in Cells : i + 0 = i
      BY CellsAre
    <3> QED  BY <1>2, <1>3, <2>1, <3>1
  <2>3. AboveIn(s.cells, cursor_y) = AboveIn(cells, cursor_y)
    <3>1. \A i \in Cells : i < NUM_COLS * cursor_y => i # Cursor
      BY <1>0, CellsAre
    <3>2. \A i \in Cells : i < NUM_COLS * cursor_y => s.cells[i] = cells[i]
      BY <1>3, <2>2, <3>1
    <3> QED  BY <1>0, <3>2, AboveSame
  <2>4. cursor_x + 1 \in 0 .. NUM_COLS
    BY <1>0, <1>7
  <2>5. /\ RowIn(s.cells, cursor_y, cursor_x + 1) \in Seq(Drawn)
        /\ Len(RowIn(s.cells, cursor_y, cursor_x + 1)) = cursor_x + 1
        /\ \A j \in 1 .. cursor_x + 1 :
             RowIn(s.cells, cursor_y, cursor_x + 1)[j] = s.cells[At(j - 1, cursor_y)]
    <3>1. s.cells \in [Cells -> Drawn] /\ cursor_y \in Rows
      BY <1>0, <1>2
    <3> QED  BY <2>4, <3>1, RowType
  <2>6. ASSUME NEW j \in 1 .. cursor_x + 1
        PROVE  s.cells[At(j - 1, cursor_y)] = Append(cur, ch)[j]
    <3>0. j \in 1 .. NUM_COLS
      BY <1>0, <1>7
    <3>1. CASE j = cursor_x + 1
      <4>1. At(j - 1, cursor_y) = Cursor
        BY <1>0, <1>5, <3>0, <3>1
      <4> QED  BY <1>0, <1>3, <1>4, <2>2, <3>1, <4>1
    <3>2. CASE j # cursor_x + 1
      <4>1. j \in 1 .. cursor_x /\ At(j - 1, cursor_y) # Cursor
        BY <1>0, <1>5, <3>0, <3>2
      <4> QED  BY <1>1, <1>3, <1>4, <1>5, <2>2, <3>0, <4>1
    <3> QED  BY <3>1, <3>2
  <2>7. RowIn(s.cells, cursor_y, cursor_x + 1) = Append(cur, ch)
    BY <1>0, <1>4, <2>5, <2>6, SeqEqual
  <2>8. /\ AboveIn(cells', cursor_y') = AboveIn(cells, cursor_y)
        /\ RowIn(cells', cursor_y', cursor_x') = Append(cur, ch)
    BY <1>6, <2>1, <2>3, <2>7 DEF becomes
  <2>9. Len(cur) + 1 < NUM_COLS
    BY <1>1, <1>7
  <2> QED  BY <2>8, <2>9, TextIs DEF Text!Write, cur
<1>8. CASE ~ (cursor_x + 1 < NUM_COLS)
  <2> DEFINE line == Append(cur, ch)
  <2>0. /\ cursor_x + 1 = NUM_COLS /\ cursor_x + 1 >= NUM_COLS
        /\ \A j \in 1 .. NUM_COLS : j <= cursor_x + 1
    BY <1>0, <1>8
  <2>1. /\ s.x = 0 /\ s.y = IF cursor_y + 1 < NUM_ROWS THEN cursor_y + 1 ELSE cursor_y
        /\ Shift(s) = IF cursor_y + 1 >= NUM_ROWS THEN NUM_COLS ELSE 0
    BY <1>2, <2>0 DEF Shift
  <2>2. \A i \in Cells : i < NUM_COLS * cursor_y => d[i] = cells[i]
    <3>1. \A i \in Cells : i < NUM_COLS * cursor_y => i # Cursor
      BY <1>0, CellsAre
    <3> QED  BY <1>3, <3>1
  <2>3. ASSUME NEW j \in 1 .. NUM_COLS
        PROVE  d[At(j - 1, cursor_y)] = line[j] /\ j <= Len(line)
    <3>1. j <= Len(line)
      BY <1>4, <2>0
    <3>2. CASE j = cursor_x + 1
      <4>1. At(j - 1, cursor_y) = Cursor
        BY <1>0, <1>5, <3>2
      <4> QED  BY <1>0, <1>3, <1>4, <3>1, <3>2, <4>1
    <3>3. CASE j # cursor_x + 1
      <4>1. j \in 1 .. cursor_x /\ At(j - 1, cursor_y) # Cursor
        BY <1>0, <1>5, <2>0, <3>3
      <4> QED  BY <1>1, <1>3, <1>4, <1>5, <3>1, <4>1
    <3> QED  BY <3>2, <3>3
  <2>4. \A i \in Cells : s.cells[i] = IF i + Shift(s) \in Cells THEN d[i + Shift(s)] ELSE BLANK
    BY <1>2, <1>3
  <2>5. Text!FinishLine(line)
    <3>1. line \in Seq(Drawn)
      BY <1>4
    <3> HIDE DEF line
    <3>2. \A j \in 1 .. NUM_COLS :
            IF j <= Len(line) THEN d[At(j - 1, cursor_y)] = line[j]
            ELSE /\ d[At(j - 1, cursor_y)] \in {BLANK, Picture}
                 /\ d[At(j - 1, cursor_y)] = Picture => Pictured(cells)
      BY <2>3
    <3> QED  BY <1>2, <1>3, <1>6, <2>1, <2>2, <2>4, <3>1, <3>2, FinishStep
  <2>6. ~ (Len(cur) + 1 < NUM_COLS)
    BY <1>1, <1>8
  <2> QED  BY <2>5, <2>6, TextIs DEF Text!Write, cur
<1> QED  BY <1>7, <1>8

\* A line is ended by a newline, on the contents cells or with the cursor
\* taken away.
LEMMA NewLineStep ==
  ASSUME ConsoleInv, NEW c \in [Cells -> Drawn], becomes(newline_on(c)),
         \A i \in Cells : c[i] = cells[i] \/ (i >= Cursor /\ c[i] = BLANK)
  PROVE  Text!NewLine
<1> DEFINE s   == newline_on(c)
           cur == RowIn(cells, cursor_y, cursor_x)
<1>0. /\ cursor_x \in Cols /\ cursor_y \in Rows /\ Cursor = NUM_COLS * cursor_y + cursor_x
      /\ NUM_COLS * cursor_y \in Nat /\ cursor_x \in Nat /\ cursor_x < NUM_COLS
      /\ cursor_x \in 0 .. NUM_COLS /\ NUM_COLS \in Nat /\ Cursor \in Cells
      /\ cells \in [Cells -> Drawn] /\ Underline \in Drawn
      /\ \A i \in Cells : i > Cursor => cells[i] \in {BLANK, Picture}
      /\ cells[Cursor] \in {BLANK, Underline, Picture} /\ BLANK # Picture
  BY CursorFacts, ScreenFacts DEF Drawn, BLANK, Picture
<1>1. /\ cur \in Seq(Drawn) /\ Len(cur) = cursor_x
      /\ \A j \in 1 .. cursor_x : cur[j] = cells[At(j - 1, cursor_y)]
  BY <1>0, RowType
<1>2. /\ s.x = 0 /\ s.scrolled \in BOOLEAN
      /\ s.scrolled <=> cursor_y + 1 >= NUM_ROWS
      /\ s.y = IF cursor_y + 1 < NUM_ROWS THEN cursor_y + 1 ELSE cursor_y
      /\ s.cells \in [Cells -> Drawn]
      /\ \A i \in Cells : s.cells[i] = IF i + Shift(s) \in Cells THEN c[i + Shift(s)] ELSE BLANK
  BY ScreenFacts, NewlineIs DEF Drawn
<1> HIDE DEF s
<1>3. Shift(s) = (IF cursor_y + 1 >= NUM_ROWS THEN NUM_COLS ELSE 0) /\ becomes(s)
  BY <1>2 DEF Shift, s
<1>4. \A i \in Cells : i < NUM_COLS * cursor_y => c[i] = cells[i]
  <2>1. \A i \in Cells : i < NUM_COLS * cursor_y => ~ (i >= Cursor)
    BY <1>0, CellsAre
  <2> QED  BY <2>1
<1>5. \A j \in 1 .. NUM_COLS : At(j - 1, cursor_y) \in Cells
                               /\ At(j - 1, cursor_y) = NUM_COLS * cursor_y + (j - 1)
  BY <1>0, RowCells
<1>6. ASSUME NEW j \in 1 .. NUM_COLS, j # cursor_x + 1
      PROVE  IF j <= cursor_x THEN c[At(j - 1, cursor_y)] = cur[j]
             ELSE /\ c[At(j - 1, cursor_y)] \in {BLANK, Picture}
                  /\ c[At(j - 1, cursor_y)] = Picture => Pictured(cells)
  <2>1. CASE j <= cursor_x
    <3>1. j \in 1 .. cursor_x /\ ~ (At(j - 1, cursor_y) >= Cursor)
      BY <1>0, <1>5, <2>1
    <3> QED  BY <1>1, <1>5, <2>1, <3>1
  <2>2. CASE ~ (j <= cursor_x)
    <3>1. At(j - 1, cursor_y) > Cursor
      BY <1>0, <1>5, <1>6, <2>2
    <3> QED  BY <1>0, <1>5, <2>2, <3>1 DEF Pictured
  <2> QED  BY <2>1, <2>2
<1>7. cursor_x + 1 \in 1 .. NUM_COLS /\ At((cursor_x + 1) - 1, cursor_y) = Cursor
  BY <1>0, <1>5
<1> HIDE DEF cur
<1>8. CASE c[Cursor] # Underline
  <2>1. ASSUME NEW j \in 1 .. NUM_COLS
        PROVE  IF j <= Len(cur) THEN c[At(j - 1, cursor_y)] = cur[j]
               ELSE /\ c[At(j - 1, cursor_y)] \in {BLANK, Picture}
                    /\ c[At(j - 1, cursor_y)] = Picture => Pictured(cells)
    <3>1. c[Cursor] \in {BLANK, Picture} /\ (c[Cursor] = Picture => Pictured(cells))
      BY <1>0, <1>8 DEF Pictured
    <3>2. j = cursor_x + 1 => ~ (j <= cursor_x)
      BY <1>0
    <3> QED  BY <1>1, <1>6, <1>7, <3>1, <3>2
  <2>2. Text!FinishLine(cur)
    BY <1>1, <1>2, <1>3, <1>4, <2>1, FinishStep
  <2> QED  BY <2>2, TextIs DEF Text!NewLine, cur
<1>9. CASE c[Cursor] = Underline
  <2> DEFINE line == Append(cur, Underline)
  <2>0. /\ line \in Seq(Drawn) /\ Len(line) = cursor_x + 1 /\ line[cursor_x + 1] = Underline
        /\ \A j \in 1 .. cursor_x : line[j] = cur[j]
    BY <1>0, <1>1, AppendProperties
  <2> HIDE DEF line
  <2>1. ASSUME NEW j \in 1 .. NUM_COLS
        PROVE  IF j <= Len(line) THEN c[At(j - 1, cursor_y)] = line[j]
               ELSE /\ c[At(j - 1, cursor_y)] \in {BLANK, Picture}
                    /\ c[At(j - 1, cursor_y)] = Picture => Pictured(cells)
    <3>1. CASE j = cursor_x + 1
      <4>1. j <= Len(line)
        BY <1>0, <2>0, <3>1
      <4> QED  BY <1>7, <1>9, <2>0, <3>1, <4>1
    <3>2. CASE j # cursor_x + 1
      <4>1. j <= Len(line) <=> j \in 1 .. cursor_x
        BY <1>0, <2>0, <3>2
      <4>2. j <= cursor_x <=> j \in 1 .. cursor_x
        BY <1>0
      <4> QED  BY <1>6, <2>0, <3>2, <4>1, <4>2
    <3> QED  BY <3>1, <3>2
  <2>2. Text!FinishLine(line)
    BY <1>2, <1>3, <1>4, <2>0, <2>1, FinishStep
  <2> QED  BY <2>2, TextIs DEF Text!NewLine, cur, line
<1> QED  BY <1>8, <1>9

\* A sequence without its last element.
LEMMA FrontIs ==
  ASSUME NEW S, NEW s \in Seq(S), Len(s) >= 1
  PROVE  SubSeq(s, 1, Len(s) - 1) = [i \in 1 .. Len(s) - 1 |-> s[i]]
<1> DEFINE n == Len(s) - 1
<1>1. n \in Nat /\ n + 1 = Len(s)
  OBVIOUS
<1>2. \A i \in 1 .. n : s[i] \in S
  BY <1>1, ElementOfSeq
<1> HIDE DEF n
<1>3. /\ SubSeq(s, 1, n) \in Seq(S)
      /\ Len(SubSeq(s, 1, n)) = IF 1 <= n THEN n - 1 + 1 ELSE 0
      /\ \A i \in 1 .. n - 1 + 1 : SubSeq(s, 1, n)[i] = s[1 + i - 1]
  BY <1>1, <1>2, SubSeqProperties
<1>4. Len(SubSeq(s, 1, n)) = n
  BY <1>1, <1>3
<1>5. \A i \in 1 .. n : SubSeq(s, 1, n)[i] = s[i]
  <2> TAKE i \in 1 .. n
  <2>1. i \in 1 .. n - 1 + 1 /\ 1 + i - 1 = i
    BY <1>1
  <2> QED  BY <1>3, <2>1
<1>6. [i \in 1 .. n |-> s[i]] \in Seq(S) /\ Len([i \in 1 .. n |-> s[i]]) = n
  BY <1>1, <1>2, FunIsSeq
<1>7. SubSeq(s, 1, n) = [i \in 1 .. n |-> s[i]]
  BY <1>1, <1>3, <1>4, <1>5, <1>6, SeqEqual
<1> QED  BY <1>7 DEF n

\* The last character is erased, across the end of a line too.
LEMMA EraseStep ==
  ASSUME ConsoleInv, becomes(remc)
  PROVE  Text!Erase \/ Text!Same
<1> DEFINE cur == RowIn(cells, cursor_y, cursor_x)
           ab  == AboveIn(cells, cursor_y)
           pos == At(remc.x, remc.y)
<1>0. /\ cursor_x \in Cols /\ cursor_y \in Rows /\ Cursor = NUM_COLS * cursor_y + cursor_x
      /\ NUM_COLS * cursor_y \in Nat /\ cursor_x \in Nat /\ cursor_x < NUM_COLS
      /\ cursor_x \in 0 .. NUM_COLS /\ NUM_COLS \in Nat /\ Cursor \in Cells
      /\ cells \in [Cells -> Drawn] /\ NUM_ROWS \in Nat /\ cursor_y \in Nat
      /\ Cursor \in Nat
  BY CursorFacts
<1>1. /\ pos = IF Cursor = 0 THEN 0 ELSE Cursor - 1
      /\ remc.cells \in [Cells -> Drawn]
      /\ \A i \in Cells : i < pos => remc.cells[i] = cells[i]
  <2>1. /\ pos = IF Cursor = 0 THEN 0 ELSE Cursor - 1
        /\ remc.cells \in [Cells -> Drawn]
        /\ \A i \in Cells : remc.cells[i] = IF i \in {pos, pos + 1} THEN BLANK ELSE cells[i]
    BY ScreenFacts, RemcIs DEF Drawn
  <2> HIDE DEF pos
  <2>2. pos \in Int
    BY <1>0, <2>1
  <2>3. \A i \in Cells : i < pos => i \notin {pos, pos + 1}
    BY <2>2, CellsAre
  <2> QED  BY <2>1, <2>3
<1>2. /\ cur \in Seq(Drawn) /\ Len(cur) = cursor_x
      /\ \A j \in 1 .. cursor_x : cur[j] = cells[At(j - 1, cursor_y)]
  BY <1>0, RowType
<1>3. /\ ab \in Seq(Seq(Drawn)) /\ Len(ab) = cursor_y
      /\ \A i \in 1 .. cursor_y : ab[i] = RowIn(cells, i - 1, NUM_COLS)
  BY <1>0, AboveType
<1>4. cells' = remc.cells /\ cursor_x' = remc.x /\ cursor_y' = remc.y
  BY DEF becomes
<1> HIDE DEF cur, ab
<1>5. CASE cursor_x = 0 /\ cursor_y = 0
  <2>1. Cursor = 0
    BY <1>0, <1>5 DEF Cursor, At
  <2>2. remc.x = 0 /\ remc.y = 0
    BY <1>5 DEF remc, before_cursor, Screen
  <2>3. \A i \in Cells : ~ (i < Cursor)
    BY <2>1, CellsAre
  <2> QED  BY <1>4, <1>5, <2>2, <2>3, SameText
<1>6. CASE cursor_x > 0
  <2>1. before_cursor = <<cursor_x - 1, cursor_y>>
    BY <1>0, <1>6 DEF before_cursor
  <2>2. remc.x = cursor_x - 1 /\ remc.y = cursor_y
    BY <2>1 DEF remc, Screen
  <2>3. pos = NUM_COLS * cursor_y + (cursor_x - 1)
    BY <2>2 DEF At
  <2> HIDE DEF pos
  <2>4. \A i \in Cells : i < NUM_COLS * cursor_y => i < pos
    BY <1>0, <1>6, <2>3, CellsAre
  <2>5. AboveIn(cells', cursor_y') = AboveIn(cells, cursor_y)
    <3>1. \A i \in Cells : i < NUM_COLS * cursor_y => remc.cells[i] = cells[i]
      BY <1>1, <2>4
    <3>2. AboveIn(remc.cells, cursor_y) = AboveIn(cells, cursor_y)
      BY <1>0, <3>1, AboveSame
    <3> QED  BY <1>4, <2>2, <3>2
  <2>6. ASSUME NEW j \in 1 .. cursor_x - 1 PROVE remc.cells[At(j - 1, cursor_y)] = cur[j]
    <3>1. j \in 1 .. NUM_COLS /\ j \in 1 .. cursor_x /\ j \in Int /\ j <= cursor_x - 1
      BY <1>0
    <3>2. At(j - 1, cursor_y) \in Cells /\ At(j - 1, cursor_y) = NUM_COLS * cursor_y + (j - 1)
      BY <1>0, <3>1, RowCells
    <3>3. At(j - 1, cursor_y) < pos
      BY <1>0, <2>3, <3>1, <3>2
    <3> QED  BY <1>1, <1>2, <3>1, <3>2, <3>3
  <2>7. RowIn(cells', cursor_y', cursor_x') = SubSeq(cur, 1, Len(cur) - 1)
    <3>1. RowIn(cells', cursor_y', cursor_x') = [j \in 1 .. cursor_x - 1 |-> cur[j]]
      BY <1>4, <2>2, <2>6 DEF RowIn
    <3>2. SubSeq(cur, 1, cursor_x - 1) = [j \in 1 .. cursor_x - 1 |-> cur[j]]
      BY <1>0, <1>2, <1>6, FrontIs
    <3> QED  BY <1>2, <3>1, <3>2
  <2>8. cur # << >>
    BY <1>0, <1>2, <1>6, EmptySeq
  <2>9. Text!Erase
    BY <2>5, <2>7, <2>8, TextIs DEF Text!Erase, Text!Front, cur
  <2> QED  BY <2>9
<1>7. CASE cursor_x = 0 /\ cursor_y > 0
  <2> DEFINE last == RowIn(cells, cursor_y - 1, NUM_COLS)
  <2>1. before_cursor = <<NUM_COLS - 1, cursor_y - 1>>
    BY <1>0, <1>7 DEF before_cursor
  <2>2. remc.x = NUM_COLS - 1 /\ remc.y = cursor_y - 1
    BY <2>1 DEF remc, Screen
  <2>3. cursor_y - 1 \in Rows /\ NUM_COLS >= 1 /\ NUM_COLS \in 0 .. NUM_COLS
    BY <1>0, <1>7 DEF Rows
  <2>4. pos = NUM_COLS * (cursor_y - 1) + (NUM_COLS - 1) /\ NUM_COLS * (cursor_y - 1) \in Nat
    BY <2>2, <2>3, RowPlace DEF At
  <2> HIDE DEF pos
  <2>5. \A i \in Cells : i < NUM_COLS * (cursor_y - 1) => i < pos
    BY <1>0, <2>3, <2>4, CellsAre
  <2>6. AboveIn(cells', cursor_y') = AboveIn(cells, cursor_y - 1)
    <3>1. \A i \in Cells : i < NUM_COLS * (cursor_y - 1) => remc.cells[i] = cells[i]
      BY <1>1, <2>5
    <3>2. AboveIn(remc.cells, cursor_y - 1) = AboveIn(cells, cursor_y - 1)
      BY <2>3, <3>1, AboveSame
    <3> QED  BY <1>4, <2>2, <3>2
  <2>7. AboveIn(cells, cursor_y - 1) = SubSeq(ab, 1, Len(ab) - 1)
    <3>1. \A i \in 1 .. cursor_y - 1 : i \in 1 .. cursor_y
      BY <1>0
    <3>2. AboveIn(cells, cursor_y - 1) = [i \in 1 .. cursor_y - 1 |-> ab[i]]
      BY <1>3, <3>1 DEF AboveIn
    <3>3. SubSeq(ab, 1, cursor_y - 1) = [i \in 1 .. cursor_y - 1 |-> ab[i]]
      BY <1>0, <1>3, <1>7, FrontIs
    <3> QED  BY <1>3, <3>2, <3>3
  <2>8. /\ last \in Seq(Drawn) /\ Len(last) = NUM_COLS
        /\ \A j \in 1 .. NUM_COLS : last[j] = cells[At(j - 1, cursor_y - 1)]
    BY <1>0, <2>3, RowType
  <2>9. ab[Len(ab)] = last
    <3>1. cursor_y \in 1 .. cursor_y
      BY <1>0, <1>7
    <3> QED  BY <1>3, <3>1
  <2> HIDE DEF last
  <2>10. ASSUME NEW j \in 1 .. NUM_COLS - 1 PROVE remc.cells[At(j - 1, cursor_y - 1)] = last[j]
    <3>1. j \in 1 .. NUM_COLS /\ j \in Int /\ j <= NUM_COLS - 1
      BY <1>0
    <3>2. /\ At(j - 1, cursor_y - 1) \in Cells
          /\ At(j - 1, cursor_y - 1) = NUM_COLS * (cursor_y - 1) + (j - 1)
      BY <2>3, <3>1, RowCells
    <3>3. At(j - 1, cursor_y - 1) < pos
      BY <1>0, <2>4, <3>1, <3>2
    <3> QED  BY <1>1, <2>8, <3>1, <3>2, <3>3
  <2>11. RowIn(cells', cursor_y', cursor_x') = SubSeq(last, 1, Len(last) - 1)
    <3>1. RowIn(cells', cursor_y', cursor_x') = [j \in 1 .. NUM_COLS - 1 |-> last[j]]
      BY <1>4, <2>2, <2>10 DEF RowIn
    <3>2. SubSeq(last, 1, NUM_COLS - 1) = [j \in 1 .. NUM_COLS - 1 |-> last[j]]
      BY <1>0, <2>3, <2>8, FrontIs
    <3> QED  BY <2>8, <3>1, <3>2
  <2>12. cur = << >> /\ ab # << >>
    BY <1>0, <1>2, <1>3, <1>7, EmptySeq
  <2>13. /\ AboveIn(cells', cursor_y') = SubSeq(ab, 1, Len(ab) - 1)
         /\ RowIn(cells', cursor_y', cursor_x') = SubSeq(ab[Len(ab)], 1, Len(ab[Len(ab)]) - 1)
    BY <2>6, <2>7, <2>9, <2>11
  <2>14. Text!Erase
    BY <2>12, <2>13, TextIs DEF Text!Erase, Text!Front, Text!Last, cur, ab
  <2> QED  BY <2>14
<1> QED  BY <1>0, <1>5, <1>6, <1>7

\* The screen is cleared.
LEMMA ClearStep == ASSUME becomes(clear_screen) PROVE Text!Clear
<1>1. cursor_x' = 0 /\ cursor_y' = 0 /\ cells' = BlankScreen
  BY DEF becomes, clear_screen, Screen
<1>2. AboveIn(cells', cursor_y') = << >> /\ RowIn(cells', cursor_y', cursor_x') = << >>
  BY <1>1 DEF AboveIn, RowIn
<1>3. ~ \E i \in Cells : cells'[i] = Picture
  BY <1>1 DEF BlankScreen, BLANK, Picture
<1>4. (\E i \in Cells : cells[i] = Picture)' = FALSE
  BY <1>3 DEF Cells
<1> QED  BY <1>2, <1>4, TextIs DEF Text!Clear

\* The echo of a key and the output of a character are steps of the text.
LEMMA PutStep ==
  ASSUME ConsoleInv, NEW ch \in Chars,
         \/ becomes(put_key(cells, ch)) \/ becomes(put_key(Undrawn(ch), ch)) \/ becomes(putc(ch))
  PROVE  Text!Write \/ Text!NewLine
<1>1. CASE ch = NewlineCh
  <2> DEFINE c == check_cursor(cells, cursor_x, cursor_y)
  <2>1. /\ c \in [Cells -> Drawn] /\ Cursor \in Cells
        /\ \A i \in Cells : c[i] = cells[i] \/ (i >= Cursor /\ c[i] = BLANK)
        /\ cells \in [Cells -> Drawn]
    BY UndrawnIs, ScreenFacts DEF Drawn
  <2>2. becomes(newline_on(c)) \/ becomes(newline_on(cells))
    BY <1>1 DEF put_key, putc, Undrawn
  <2> HIDE DEF c
  <2>3. CASE becomes(newline_on(c))
    BY <2>1, <2>3, NewLineStep
  <2>4. CASE becomes(newline_on(cells))
    BY <2>1, <2>4, NewLineStep
  <2> QED  BY <2>2, <2>3, <2>4
<1>2. CASE ch # NewlineCh
  <2>1. ch \in Printed /\ becomes(char_put(ch))
    BY <1>2 DEF Chars, put_key, putc
  <2> QED  BY <2>1, WriteStep
<1> QED  BY <1>1, <1>2

\* An operation leaves no more drawn on the screen than there was.
Fades(s) == Pictured(s.cells) => Pictured(cells)

\* All operations but the drawing of programs do.
LEMMA OperationsFade ==
  ASSUME ConsoleInv
  PROVE  /\ \A ch \in Chars : /\ Fades(put_key(cells, ch)) /\ Fades(put_key(Undrawn(ch), ch))
                             /\ Fades(putc(ch))
         /\ Fades(remc) /\ Fades(put_cursor) /\ Fades(rem_cursor)
<1>1. /\ BLANK # Picture /\ Underline # Picture /\ Picture \notin Printed
      /\ Cursor \in Cells /\ cells \in [Cells -> Printed \cup {Underline, Picture}]
      /\ ConsoleTypeOK
  BY ConsoleAssumption, ScreenFacts DEF BLANK, Underline, Picture
<1>2. ASSUME NEW ch \in Printed PROVE Fades(char_put(ch))
  <2> DEFINE s == char_put(ch)
  <2>1. \A i \in Cells : s.cells[i] =
          IF i + Shift(s) \in Cells
            THEN IF i + Shift(s) = Cursor THEN ch ELSE cells[i + Shift(s)]
            ELSE BLANK
    BY <1>1, CharPutIs
  <2> HIDE DEF s
  <2>2. ch # Picture
    BY <1>1
  <2> QED  BY <1>1, <2>1, <2>2 DEF Fades, Pictured, s
<1>3. ASSUME NEW c \in [Cells -> Printed \cup {Underline, Picture}],
             \A i \in Cells : c[i] = cells[i] \/ c[i] = BLANK
      PROVE  Fades(newline_on(c))
  <2> DEFINE s == newline_on(c)
  <2>1. \A i \in Cells : s.cells[i] = IF i + Shift(s) \in Cells THEN c[i + Shift(s)] ELSE BLANK
    BY <1>1, NewlineIs
  <2> HIDE DEF s
  <2> QED  BY <1>1, <1>3, <2>1 DEF Fades, Pictured, s
<1>4. ASSUME NEW ch \in Chars
      PROVE  /\ Fades(put_key(cells, ch)) /\ Fades(put_key(Undrawn(ch), ch))
             /\ Fades(putc(ch))
  <2>1. CASE ch = NewlineCh
    <3> DEFINE c == check_cursor(cells, cursor_x, cursor_y)
    <3>1. /\ c \in [Cells -> Printed \cup {Underline, Picture}]
          /\ \A i \in Cells : c[i] = cells[i] \/ c[i] = BLANK
      BY UndrawnIs
    <3>2. /\ put_key(Undrawn(ch), ch) = newline_on(c)
          /\ put_key(cells, ch) = newline_on(cells) /\ putc(ch) = newline_on(cells)
      BY <2>1 DEF put_key, putc, Undrawn
    <3> HIDE DEF c
    <3> QED  BY <1>1, <1>3, <3>1, <3>2
  <2>2. CASE ch # NewlineCh
    <3>1. ch \in Printed
      BY <2>2 DEF Chars
    <3> QED  BY <1>2, <2>2, <3>1 DEF put_key, putc
  <2> QED  BY <2>1, <2>2
<1>5. Fades(remc)
  <2>1. \A i \in Cells : remc.cells[i] =
          IF i \in {At(remc.x, remc.y), At(remc.x, remc.y) + 1} THEN BLANK ELSE cells[i]
    BY <1>1, RemcIs
  <2> QED  BY <1>1, <2>1 DEF Fades, Pictured
<1>6. Fades(put_cursor) /\ Fades(rem_cursor)
  BY <1>1 DEF Fades, Pictured, put_cursor, rem_cursor, Screen
<1> QED  BY <1>4, <1>5, <1>6

\* What is drawn on the screen after an operation, as the text sees it.
LEMMA FadeStep ==
  ASSUME NEW s, becomes(s), Fades(s)
  PROVE  (\E i \in Cells : cells[i] = Picture)' => \E i \in Cells : cells[i] = Picture
BY DEF becomes, Fades, Pictured, Cells

\* A program draws: over the lines above, the current line, or neither.
LEMMA DrawStep ==
  ASSUME ConsoleInv, NEW p \in Cells, becomes(mp1_poke(p))
  PROVE  Text!Draw
<1> DEFINE cur == RowIn(cells, cursor_y, cursor_x)
           ab  == AboveIn(cells, cursor_y)
<1>0. /\ cursor_x \in Cols /\ cursor_y \in Rows /\ Cursor = NUM_COLS * cursor_y + cursor_x
      /\ NUM_COLS * cursor_y \in Nat /\ cursor_x \in Nat /\ cursor_x < NUM_COLS
      /\ cursor_x \in 0 .. NUM_COLS /\ NUM_COLS \in Nat /\ cursor_y \in Nat
      /\ cells \in [Cells -> Drawn] /\ p \in Nat /\ NUM_COLS \in 0 .. NUM_COLS
  BY CursorFacts, CellsAre
<1>1. /\ cells' = [cells EXCEPT ![p] = Picture] /\ cursor_x' = cursor_x /\ cursor_y' = cursor_y
  BY DEF becomes, mp1_poke, Screen
<1>2. cells' \in [Cells -> Drawn] /\ \A i \in Cells : cells'[i] = IF i = p THEN Picture ELSE cells[i]
  BY <1>0, <1>1 DEF Drawn
<1>3. (\E i \in Cells : cells[i] = Picture)' = TRUE
  <2>1. \E i \in Cells : cells'[i] = Picture
    BY <1>2
  <2> QED  BY <2>1 DEF Cells
<1>4. /\ cur \in [1 .. cursor_x -> Drawn] /\ RowIn(cells', cursor_y, cursor_x) \in [1 .. cursor_x -> Drawn]
      /\ \A j \in 1 .. cursor_x : /\ cur[j] = cells[At(j - 1, cursor_y)]
                                 /\ RowIn(cells', cursor_y, cursor_x)[j] = cells'[At(j - 1, cursor_y)]
  BY <1>0, <1>2, RowType
<1>5. /\ ab \in Seq(Seq(Drawn)) /\ Len(ab) = cursor_y
      /\ \A i \in 1 .. cursor_y : ab[i] = RowIn(cells, i - 1, NUM_COLS)
  BY <1>0, AboveType
<1>6. CASE p >= Cursor
  <2>1. \A i \in Cells : i < Cursor => i # p
    BY <1>0, <1>6, CellsAre
  <2>2. Text!Same
    BY <1>1, <1>2, <2>1, SameText
  <2> QED  BY <1>3, <2>2 DEF Text!Draw
<1>7. CASE p < Cursor /\ p >= NUM_COLS * cursor_y
  <2> DEFINE k == p - NUM_COLS * cursor_y + 1
  <2>1. k \in 1 .. cursor_x /\ \A j \in 1 .. cursor_x : j \in 1 .. NUM_COLS
    BY <1>0, <1>7
  <2>2. \A j \in 1 .. cursor_x : At(j - 1, cursor_y) \in Cells
                               /\ At(j - 1, cursor_y) = NUM_COLS * cursor_y + (j - 1)
    BY <1>0, <2>1, RowCells
  <2>3. \A j \in 1 .. cursor_x : At(j - 1, cursor_y) = p <=> j = k
    BY <1>0, <2>1, <2>2
  <2> HIDE DEF k, cur, ab
  <2>4. \A j \in 1 .. cursor_x :
           RowIn(cells', cursor_y, cursor_x)[j] = IF j = k THEN Picture ELSE cur[j]
    BY <1>2, <1>4, <2>2, <2>3
  <2>5. RowIn(cells', cursor_y, cursor_x) = [cur EXCEPT ![k] = Picture]
    BY <1>4, <2>4
  <2>6. DOMAIN cur = 1 .. cursor_x
    BY <1>4
  <2>7. AboveIn(cells', cursor_y) = AboveIn(cells, cursor_y)
    <3>1. \A i \in Cells : i < NUM_COLS * cursor_y => i # p
      BY <1>0, <1>7, CellsAre
    <3> QED  BY <1>0, <1>2, <3>1, AboveSame
  <2>8. RowIn(cells', cursor_y, cursor_x) \in Text!DrawnOver(cur)
    BY <2>1, <2>5, <2>6 DEF Text!DrawnOver
  <2> QED  BY <1>1, <1>3, <2>7, <2>8, TextIs DEF Text!Draw, cur
<1>8. CASE p < NUM_COLS * cursor_y
  <2>1. PICK y \in Rows, k \in 1 .. NUM_COLS : p = At(k - 1, y)
    BY RowOf
  <2>2. p = NUM_COLS * y + (k - 1) /\ y \in Nat /\ y < cursor_y
    <3>1. p = NUM_COLS * y + (k - 1) /\ y \in Nat
      BY <2>1, RowCells DEF Rows
    <3>2. ASSUME cursor_y <= y PROVE FALSE
      <4>1. NUM_COLS * cursor_y <= NUM_COLS * y /\ NUM_COLS * y \in Nat
        BY <1>0, <3>1, <3>2
      <4> QED  BY <1>0, <1>8, <3>1, <4>1
    <3> QED  BY <1>0, <3>1, <3>2
  <2> DEFINE n    == y + 1
             line == [RowIn(cells, y, NUM_COLS) EXCEPT ![k] = Picture]
  <2>3. n \in 1 .. cursor_y /\ n - 1 = y /\ \A i \in 1 .. cursor_y : i - 1 \in Rows
    <3>1. y \in Nat /\ y < cursor_y /\ cursor_y \in 0 .. NUM_ROWS - 1 /\ NUM_ROWS \in Nat
      BY <1>0, <2>2, ScreenType DEF Rows
    <3> QED  BY <3>1 DEF Rows
  <2>4. ASSUME NEW z \in Rows
        PROVE  /\ RowIn(cells, z, NUM_COLS) \in [1 .. NUM_COLS -> Drawn]
               /\ RowIn(cells', z, NUM_COLS) \in [1 .. NUM_COLS -> Drawn]
               /\ \A j \in 1 .. NUM_COLS :
                    RowIn(cells', z, NUM_COLS)[j] =
                      IF z = y /\ j = k THEN Picture ELSE RowIn(cells, z, NUM_COLS)[j]
    <3>1. /\ RowIn(cells, z, NUM_COLS) \in [1 .. NUM_COLS -> Drawn]
          /\ RowIn(cells', z, NUM_COLS) \in [1 .. NUM_COLS -> Drawn]
          /\ \A j \in 1 .. NUM_COLS :
               /\ RowIn(cells, z, NUM_COLS)[j] = cells[At(j - 1, z)]
               /\ RowIn(cells', z, NUM_COLS)[j] = cells'[At(j - 1, z)]
      BY <1>0, <1>2, RowType
    <3>2. ASSUME NEW j \in 1 .. NUM_COLS
          PROVE  At(j - 1, z) \in Cells /\ (At(j - 1, z) = p <=> z = y /\ j = k)
      <4>1. /\ At(j - 1, z) \in Cells /\ At(j - 1, z) = NUM_COLS * z + (j - 1)
            /\ \A u \in Rows : z < u => At(j - 1, z) < NUM_COLS * u
            /\ \A u \in Rows : y < u => At(k - 1, y) < NUM_COLS * u
            /\ NUM_COLS * z \in Nat /\ NUM_COLS * y \in Nat /\ z \in Nat
        BY RowCells, RowPlace DEF Rows
      <4>2. CASE z = y
        BY <2>1, <2>2, <4>1, <4>2
      <4>3. CASE z < y
        <5>1. At(j - 1, z) < NUM_COLS * y
          BY <4>1, <4>3
        <5> QED  BY <2>2, <4>1, <4>3, <5>1
      <4>4. CASE z > y
        <5>1. At(k - 1, y) < NUM_COLS * z
          BY <2>2, <4>1, <4>4
        <5> QED  BY <2>1, <2>2, <4>1, <4>4, <5>1
      <4> QED  BY <2>2, <4>1, <4>2, <4>3, <4>4
    <3> QED  BY <1>2, <3>1, <3>2
  <2>5. RowIn(cells', y, NUM_COLS) = line
    BY <2>4
  <2>6. ASSUME NEW z \in Rows, z # y PROVE RowIn(cells', z, NUM_COLS) = RowIn(cells, z, NUM_COLS)
    <3> DEFINE f == RowIn(cells', z, NUM_COLS)
               g == RowIn(cells, z, NUM_COLS)
    <3>0. ~ (z = y)
      BY <2>6
    <3>1. /\ f \in [1 .. NUM_COLS -> Drawn] /\ g \in [1 .. NUM_COLS -> Drawn]
          /\ \A j \in 1 .. NUM_COLS : f[j] = IF z = y /\ j = k THEN Picture ELSE g[j]
      BY <2>4
    <3>2. f = [j \in 1 .. NUM_COLS |-> f[j]] /\ g = [j \in 1 .. NUM_COLS |-> g[j]]
      BY DEF RowIn
    <3> HIDE DEF f, g
    <3>3. \A j \in 1 .. NUM_COLS : f[j] = g[j]
      BY <3>0, <3>1
    <3>4. f = g
      BY <3>2, <3>3
    <3> QED  BY <3>4 DEF f, g
  <2>7. line \in Text!DrawnOver(ab[n])
    <3>1. ab[n] = RowIn(cells, y, NUM_COLS) /\ DOMAIN RowIn(cells, y, NUM_COLS) = 1 .. NUM_COLS
      BY <1>5, <2>3, <2>4
    <3> HIDE DEF ab
    <3> QED  BY <3>1 DEF Text!DrawnOver
  <2> HIDE DEF line
  <2>8. /\ AboveIn(cells', cursor_y) \in Seq(Seq(Drawn)) /\ Len(AboveIn(cells', cursor_y)) = cursor_y
        /\ \A i \in 1 .. cursor_y : AboveIn(cells', cursor_y)[i] = RowIn(cells', i - 1, NUM_COLS)
    BY <1>0, <1>2, AboveType
  <2>9. AboveIn(cells', cursor_y) = [ab EXCEPT ![n] = line]
    <3>1. \A i \in 1 .. cursor_y : AboveIn(cells', cursor_y)[i] = IF i = n THEN line ELSE ab[i]
      <4> TAKE i \in 1 .. cursor_y
      <4>1. i - 1 = y <=> i = n
        BY <2>2
      <4> HIDE DEF n, ab
      <4> QED  BY <1>5, <2>3, <2>5, <2>6, <2>8, <4>1
    <3>2. AboveIn(cells', cursor_y) = [i \in 1 .. cursor_y |-> AboveIn(cells', cursor_y)[i]]
      BY DEF AboveIn
    <3>3. ab = [i \in 1 .. cursor_y |-> ab[i]]
      BY DEF AboveIn
    <3> HIDE DEF ab, n
    <3> QED  BY <2>3, <3>1, <3>2, <3>3
  <2>10. RowIn(cells', cursor_y, cursor_x) = RowIn(cells, cursor_y, cursor_x)
    <3>1. ASSUME NEW j \in 1 .. cursor_x
          PROVE  cells'[At(j - 1, cursor_y)] = cells[At(j - 1, cursor_y)]
      <4>1. j \in 1 .. NUM_COLS
        BY <1>0
      <4>2. At(j - 1, cursor_y) \in Cells /\ At(j - 1, cursor_y) # p
        BY <1>0, <1>8, <4>1, RowCells
      <4> QED  BY <1>2, <4>2
    <3> QED  BY <3>1, RowSame
  <2>11. DOMAIN ab = 1 .. cursor_y
    BY DEF AboveIn
  <2> HIDE DEF n
  <2>12. \E m \in DOMAIN AboveIn(cells, cursor_y) :
           \E l \in Text!DrawnOver(AboveIn(cells, cursor_y)[m]) :
             AboveIn(cells', cursor_y') = [AboveIn(cells, cursor_y) EXCEPT ![m] = l]
    BY <1>1, <2>3, <2>7, <2>9, <2>11
  <2>13. RowIn(cells', cursor_y', cursor_x') = RowIn(cells, cursor_y, cursor_x)
    BY <1>1, <2>10
  <2> QED  BY <1>3, <2>12, <2>13, TextIs DEF Text!Draw
<1> QED  BY <1>0, <1>6, <1>7, <1>8

\* Every step of the screen is a step of the text.
LEMMA TextStep ==
  ASSUME ConsoleInv, [TypingNext]_tvars
  PROVE  [Text!TextNext]_(Text!textvars)
<1>1. ASSUME UNCHANGED <<cells, cursor_x, cursor_y>> PROVE UNCHANGED Text!textvars
  <2>1. Text!Same
    BY <1>1, SameText
  <2>2. (\E i \in Cells : cells[i] = Picture)' = (\E i \in Cells : cells[i] = Picture)
    BY <1>1 DEF Cells
  <2> QED  BY <2>1, <2>2 DEF Text!Same, Text!textvars
<1>2. ASSUME NEW s, becomes(s), Fades(s), Text!Same \/ Text!Write \/ Text!Erase \/ Text!NewLine
      PROVE  Text!TextNext
  BY <1>2, FadeStep DEF Text!TextNext
<1>3. ASSUME NEW ch \in Chars,
             \/ becomes(put_key(cells, ch)) \/ becomes(put_key(Undrawn(ch), ch)) \/ becomes(putc(ch))
      PROVE  Text!TextNext
  BY <1>2, <1>3, PutStep, OperationsFade
<1>4. ASSUME NEW ch \in Chars, type_key(ch) \/ ctrl_key(ch) \/ print(ch) PROVE Text!TextNext
  BY <1>3, <1>4 DEF type_key, ctrl_key, print, echo, printed
<1>5. CASE ctrl_l \/ handle_exception
  BY <1>5, ClearStep DEF ctrl_l, handle_exception, printed, Text!TextNext
<1>6. CASE type_backspace
  BY <1>2, <1>6, EraseStep, OperationsFade DEF type_backspace, echo
<1>7. CASE type_tab \/ clear_keyboard_buf \/ UNCHANGED tvars
  BY <1>1, <1>7 DEF type_tab, clear_keyboard_buf, tvars
<1>8. CASE tab_space
  <2>1. BLANK \in Chars
    BY ConsoleAssumption DEF Chars
  <2> QED  BY <1>1, <1>3, <1>8, <2>1 DEF tab_space, echo
<1>9. CASE blink
  <2>1. cursor_x' = cursor_x /\ cursor_y' = cursor_y
    BY <1>9 DEF blink, becomes, put_cursor, rem_cursor, Screen
  <2>2. \A i \in Cells : i < Cursor => i # Cursor
    BY ScreenFacts, CellsAre
  <2>3. \A i \in Cells : i < Cursor => cells'[i] = cells[i]
    BY <1>9, <2>2, ScreenFacts DEF blink, becomes, put_cursor, rem_cursor, Screen
  <2>4. Text!Same
    BY <2>1, <2>3, SameText
  <2> QED  BY <1>2, <1>9, <2>4, OperationsFade DEF blink
<1>10. CASE vidmap_write
  BY <1>10, DrawStep DEF vidmap_write, Text!TextNext
<1> QED  BY <1>4, <1>5, <1>6, <1>7, <1>8, <1>9, <1>10 DEF TypingNext, keyboard_handler

(***************************************************************************)
(* The cells, the cursor and its blinking are a scrolling text: putc,      *)
(* put_key, remc and shift_screen add, erase and scroll characters and do  *)
(* nothing else to what is on the screen, whatever its size.  Programs     *)
(* that draw through vidmap change characters of the text and what stands  *)
(* behind the ends of its lines, and nothing else.                         *)
(***************************************************************************)
THEOREM TextRefined == TypingSpec => ImplementsScrollingText
<1>1. TypingInit => Text!TextInit
  <2> SUFFICES ASSUME TypingInit PROVE Text!TextInit
    OBVIOUS
  <2>1. cursor_x = 0 /\ cursor_y = 0 /\ cells = BlankScreen
    BY DEF TypingInit, ConsoleInit
  <2>2. AboveIn(cells, cursor_y) = << >> /\ RowIn(cells, cursor_y, cursor_x) = << >>
    BY <2>1 DEF AboveIn, RowIn
  <2>3. (\E i \in Cells : cells[i] = Picture) = FALSE
    BY <2>1 DEF BlankScreen, BLANK, Picture
  <2> QED  BY <2>2, <2>3, TextIs DEF Text!TextInit
<1> QED  BY <1>1, TextStep, ConsoleCorrect, PTL DEF TypingSpec, ImplementsScrollingText, Text!TextSpec
=============================================================================
