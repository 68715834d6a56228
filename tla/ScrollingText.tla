--------------------------- MODULE ScrollingText ---------------------------
(***************************************************************************)
(* What a console promises: text is added at its end, lines that no longer *)
(* fit leave at the top, and nothing else about the text changes.  A line  *)
(* that ends may keep one mark, where the cursor was.  Programs may draw   *)
(* on the screen: over the text, and where later lines will end.           *)
(***************************************************************************)
EXTENDS Integers, Sequences, SequencesExt

CONSTANTS
  Glyphs,  \* characters
  Empty,   \* the blank one
  Mark,    \* the cursor
  Picture, \* what programs draw
  Width,   \* characters in a line
  Height   \* lines that can be seen

VARIABLES
  above,    \* the finished lines that can be seen, each padded to Width
  current,  \* the line being written
  pictured  \* something that was drawn may be left on the screen

textvars == <<above, current, pictured>>

\* A finished line: behind its text are blanks, and what was drawn there.
Fill == IF pictured THEN {Empty, Picture} ELSE {Empty}

Padded(line) ==
  {[i \in 1 .. Width |-> IF i <= Len(line) THEN line[i] ELSE rest[i]] :
     rest \in [Len(line) + 1 .. Width -> Fill]}

\* The lines that can still be seen above the one being written.
Visible(lines) ==
  IF Len(lines) < Height THEN lines
  ELSE SubSeq(lines, Len(lines) - Height + 2, Len(lines))

FinishLine(line) ==
  /\ current' = << >>
  /\ \E p \in Padded(line) : above' = Visible(Append(above, p))

Write ==
  \E c \in Glyphs :
    IF Len(current) + 1 < Width
      THEN current' = Append(current, c) /\ UNCHANGED above
      ELSE FinishLine(Append(current, c))

NewLine == FinishLine(current) \/ FinishLine(Append(current, Mark))

Erase ==
  \/ /\ current # << >>
     /\ current' = Front(current)
     /\ UNCHANGED above
  \/ /\ current = << >> /\ above # << >>
     /\ current' = Front(Last(above))
     /\ above' = Front(above)

\* Parts of a picture that are not on the text may go at any time.
Same == UNCHANGED <<above, current>>

Clear == above' = << >> /\ current' = << >> /\ pictured' = FALSE

DrawnOver(line) == {[line EXCEPT ![i] = Picture] : i \in DOMAIN line}

Draw ==
  /\ pictured' = TRUE
  /\ \/ Same
     \/ current' \in DrawnOver(current) /\ UNCHANGED above
     \/ /\ \E n \in DOMAIN above :
             \E line \in DrawnOver(above[n]) : above' = [above EXCEPT ![n] = line]
        /\ UNCHANGED current

TextInit == above = << >> /\ current = << >> /\ pictured = FALSE

TextNext ==
  \/ (pictured' => pictured) /\ (Same \/ Write \/ Erase \/ NewLine)
  \/ Clear
  \/ Draw

TextSpec == TextInit /\ [][TextNext]_textvars
=============================================================================
