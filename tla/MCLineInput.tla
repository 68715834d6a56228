---------------------------- MODULE MCLineInput ----------------------------
(***************************************************************************)
(* Model of LineInput for TLC, with the mapping to LineEditors: the line   *)
(* of a terminal is the used part of the buffer that belongs to it.        *)
(***************************************************************************)
EXTENDS LineInput

LineOf(t) == [i \in 1 .. IndexOf(t) |-> BufferOf(t)[i - 1].ch]

HandedOver ==
  [to |-> delivered.to,
   text |-> [i \in DOMAIN delivered.text |-> delivered.text[i].ch]]

Editors == INSTANCE LineEditors WITH
  Terminals <- Terms,
  Capacity  <- KEY_BUF_SIZE,
  TabWidth  <- TAB_SPACE,
  NoLine    <- [to |-> 0, text |-> << >>],
  line      <- [t \in Terms |-> LineOf(t)],
  shown     <- ts,
  handed    <- HandedOver

(***************************************************************************)
(* The one keyboard_buf, swapped by terminal_switch and cleared by reads   *)
(* and halts, implements a line of its own for every terminal.             *)
(***************************************************************************)
ImplementsLineEditors == Editors!EditorsSpec
=============================================================================
