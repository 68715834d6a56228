------------------------------ MODULE Console ------------------------------
(***************************************************************************)
(* The screen of one terminal, character by character: printing, echo,     *)
(* backspace, scrolling and the cursor, an underscore the RTC interrupt    *)
(* draws and takes away twice a second.  Module Screens shows that what is *)
(* written for a terminal goes to its screen; this one is about what is    *)
(* then on it.  Each of the operations runs with interrupts disabled.      *)
(* Module Typing combines them with the keyboard buffer.                   *)
(***************************************************************************)
EXTENDS Integers

CONSTANTS
  NUM_ROWS,       \* lines of the screen
  NUM_COLS,       \* characters of a line
  Printed         \* characters that are printed, the blank among them

BLANK     == " "
Underline == "_"
NewlineCh == "newline"

\* What a program draws through vidmap, whatever the character: kept apart from
\* what is printed, so that it can be told where drawing has touched text.
Picture   == "picture"

ASSUME ConsoleAssumption ==
  /\ NUM_ROWS \in Nat \ {0}
  /\ NUM_COLS \in Nat \ {0}
  /\ BLANK \in Printed /\ {Underline, NewlineCh, Picture} \cap Printed = {}

Rows  == 0 .. NUM_ROWS - 1
Cols  == 0 .. NUM_COLS - 1

\* Character cells in the order of video memory.
Cells == 0 .. NUM_ROWS * NUM_COLS - 1

\* What programs print and keys type; '\r' is treated like '\n'.
Chars == Printed \cup {NewlineCh}

VARIABLES
  cells,     \* the characters on the screen
  cursor_x,
  cursor_y

convars == <<cells, cursor_x, cursor_y>>

ConsoleTypeOK ==
  /\ cells \in [Cells -> Printed \cup {Underline, Picture}]
  /\ cursor_x \in Cols
  /\ cursor_y \in Rows

BlankScreen == [i \in Cells |-> BLANK]

ConsoleInit == cells = BlankScreen /\ cursor_x = 0 /\ cursor_y = 0

-----------------------------------------------------------------------------
At(x, y) == NUM_COLS * y + x
Cursor   == At(cursor_x, cursor_y)

\* shift_screen: every line moves up by one and the last one is blanked.
shift_screen(c) ==
  [i \in Cells |-> IF i + NUM_COLS \in Cells THEN c[i + NUM_COLS] ELSE BLANK]

\* A screen and its cursor, and whether an operation scrolled it.
Screen(c, x, y, scrolled) ==
  [cells |-> c, x |-> x, y |-> y, scrolled |-> scrolled]

becomes(s) == cells' = s.cells /\ cursor_x' = s.x /\ cursor_y' = s.y

\* Ending a line on contents c.
newline_on(c) ==
  IF cursor_y + 1 >= NUM_ROWS
    THEN Screen(shift_screen(c), 0, NUM_ROWS - 1, TRUE)
    ELSE Screen(c, 0, cursor_y + 1, FALSE)

\* A character at the cursor; a full last line scrolls at once.
char_put(ch) ==
  LET c == [cells EXCEPT ![Cursor] = ch] IN
  IF cursor_y = NUM_ROWS - 1 /\ cursor_x + 1 >= NUM_COLS
    THEN Screen(shift_screen(c), 0, cursor_y, TRUE)
    ELSE Screen(c, (cursor_x + 1) % NUM_COLS,
                (cursor_y + (cursor_x + 1) \div NUM_COLS) % NUM_ROWS, FALSE)

\* A character of a program's output.  The cursor is not undrawn first: if it
\* is drawn, it stays behind at the end of the line.
putc(ch) == IF ch = NewlineCh THEN newline_on(cells) ELSE char_put(ch)

\* Mutants of check_cursor: only one cell is cleared; one cell too many, on
\* the left, is cleared.
check_one(c, x, y)   == [c EXCEPT ![At(x, y)] = BLANK]
check_three(c, x, y) ==
  [i \in Cells |-> IF i \in At(x, y) - 1 .. At(x, y) + 1 THEN BLANK ELSE c[i]]

\* The cell at (x, y) and the one after it; the one after the last cell is
\* in the part of the video page that is not displayed.
check_cursor(c, x, y) ==
  [i \in Cells |-> IF i \in {At(x, y), At(x, y) + 1} THEN BLANK ELSE c[i]]

\* Echo of a character on contents c, which differ from cells for Enter only.
put_key(c, ch) == IF ch = NewlineCh THEN newline_on(c) ELSE char_put(ch)

\* Mutant of before_cursor: nothing is removed at the start of a line.
before_in_line ==
  IF cursor_x = 0 THEN <<0, cursor_y>> ELSE <<cursor_x - 1, cursor_y>>

\* Where the cursor goes when a character is removed.
before_cursor ==
  CASE cursor_x = 0 /\ cursor_y = 0 -> <<0, 0>>
    [] cursor_x = 0 /\ cursor_y > 0 -> <<NUM_COLS - 1, cursor_y - 1>>
    [] OTHER -> <<cursor_x - 1, cursor_y>>

\* remc, which does nothing in the top left corner, then check_cursor.
remc ==
  LET x == before_cursor[1]
      y == before_cursor[2]
      c == IF Cursor = 0 THEN cells ELSE [cells EXCEPT ![At(x, y)] = BLANK] IN
  Screen(check_cursor(c, x, y), x, y, FALSE)

\* Ctrl-l, and the start of an exception message.
clear_screen == Screen(BlankScreen, 0, 0, FALSE)

\* rtc_handler draws the cursor, and half a second later takes it away.
put_cursor ==
  Screen([cells EXCEPT ![Cursor] = Underline], cursor_x, cursor_y, FALSE)

rem_cursor ==
  Screen([cells EXCEPT ![Cursor] = BLANK], cursor_x, cursor_y, FALSE)

\* A program writes to the page sys_vidmap gave it, as fish does: any cell, and
\* the cursor stays where it is.  What it drew is still there when it ends.
mp1_poke(i) ==
  Screen([cells EXCEPT ![i] = Picture], cursor_x, cursor_y, FALSE)

-----------------------------------------------------------------------------
(***************************************************************************)
(* No printed or typed text is on the screen from the cursor on, only the  *)
(* cursor itself and what programs drew through vidmap: drawing and        *)
(* undrawing the cursor and check_cursor's two cells erase no text, though *)
(* they may erase part of a picture, and later output is never mixed with  *)
(* remains of earlier lines.                                               *)
(***************************************************************************)
BlankFromCursor ==
  \A i \in Cells :
    /\ i = Cursor => cells[i] \in {BLANK, Underline, Picture}
    /\ i > Cursor => cells[i] \in {BLANK, Picture}

(***************************************************************************)
(* The two together: the cursor stays on the screen through wrapping,      *)
(* scrolling and erasing at its corners, and no text is behind it.         *)
(***************************************************************************)
ConsoleInv == ConsoleTypeOK /\ BlankFromCursor
=============================================================================
