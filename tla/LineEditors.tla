---------------------------- MODULE LineEditors ----------------------------
(***************************************************************************)
(* What line input promises: every terminal has a line of its own that     *)
(* only the user in front of it edits and only its programs read.  There   *)
(* is no shared buffer: showing another terminal changes no line.          *)
(***************************************************************************)
EXTENDS Integers, Sequences, SequencesExt

CONSTANTS
  Terminals, \* the terminals
  Capacity,  \* characters a line can hold
  TabWidth,  \* characters a tab stands for
  NoLine     \* no line is handed over

VARIABLES
  line,   \* line[t], what has been typed on terminal t
  shown,  \* the terminal the user sees
  handed  \* the line just handed to a program

lvars == <<line, shown, handed>>

EditorsInit ==
  /\ line = [t \in Terminals |-> << >>]
  /\ shown \in Terminals
  /\ handed = NoLine

Edit(new) ==
  /\ line' = [line EXCEPT ![shown] = new]
  /\ handed' = NoLine
  /\ UNCHANGED shown

\* Enter always fits, other characters leave room for it.
Enter     == Len(line[shown]) < Capacity /\ Edit(Append(line[shown], "newline"))
Letter    == Len(line[shown]) < Capacity - 1 /\ Edit(Append(line[shown], "char"))
Tab       == \E n \in 0 .. TabWidth :
               /\ n = TabWidth \/ Len(line[shown]) + n = Capacity - 1
               /\ Len(line[shown]) + n < Capacity
               /\ Edit(line[shown] \o [i \in 1 .. n |-> "char"])
Backspace == line[shown] # << >> /\ Edit(Front(line[shown]))
Kill      == Edit(<< >>)

Show == shown' \in Terminals /\ handed' = NoLine /\ UNCHANGED line

\* A program of terminal t reads up to the first newline; the rest is lost.
Read ==
  \E n \in 1 .. Len(line[shown]) :
    /\ \A i \in 1 .. n - 1 : line[shown][i] # "newline"
    /\ handed' = [to |-> shown, text |-> SubSeq(line[shown], 1, n)]
    /\ line' = [line EXCEPT ![shown] = << >>]
    /\ UNCHANGED shown

\* A program ends and takes the line typed so far with it.
EndProgram ==
  \E t \in Terminals :
    /\ line' = [line EXCEPT ![t] = << >>]
    /\ handed' = NoLine
    /\ UNCHANGED shown

Done == handed' = NoLine /\ UNCHANGED <<line, shown>>

EditorsNext ==
  \/ Enter \/ Letter \/ Tab \/ Backspace \/ Kill
  \/ Show \/ Read \/ EndProgram \/ Done

EditorsSpec == EditorsInit /\ [][EditorsNext]_lvars
=============================================================================
