----------------------------- MODULE MCTyping -----------------------------
(***************************************************************************)
(* Model of Typing for TLC, with the mapping to ScrollingText: the lines   *)
(* above the cursor, the cursor's line up to the cursor, and whether       *)
(* anything a program drew is left on the screen.                          *)
(***************************************************************************)
EXTENDS Typing, FiniteSets

CONSTANT MAX_PICTURES  \* bound: characters drawn and left on the screen

FewPictures == Cardinality({i \in Cells : cells[i] = Picture}) <= MAX_PICTURES

LineAt(y, n) == [i \in 1 .. n |-> cells[At(i - 1, y)]]

Text == INSTANCE ScrollingText WITH
  Glyphs  <- Printed,
  Empty   <- BLANK,
  Mark    <- Underline,
  Picture <- Picture,
  Width   <- NUM_COLS,
  Height  <- NUM_ROWS,
  above    <- [i \in 1 .. cursor_y |-> LineAt(i - 1, NUM_COLS)],
  current  <- LineAt(cursor_y, cursor_x),
  pictured <- \E i \in Cells : cells[i] = Picture

(***************************************************************************)
(* Cells, cursor, blinking and programs that draw implement a scrolling    *)
(* text: printing, echo and scrolling lose and change no character.  All   *)
(* the blinking cursor can do to the text is to stay at the end of a line  *)
(* that was ended while it was drawn.  A character of the text is replaced *)
(* only by a program drawing over it, and only what programs drew and left *)
(* can stand behind the end of a line; on a screen nobody drew on this is  *)
(* plain scrolling text.                                                   *)
(***************************************************************************)
ImplementsScrollingText == Text!TextSpec
=============================================================================
