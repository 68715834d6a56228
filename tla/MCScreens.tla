----------------------------- MODULE MCScreens -----------------------------
(***************************************************************************)
(* Model of Screens for TLC, with the mapping to VirtualScreens.           *)
(***************************************************************************)
EXTENDS Screens

DrawnBy(t) == {c \in Content : c.by = t}

Virtual == INSTANCE VirtualScreens WITH
  Terminals <- Terms,
  Pictures  <- DrawnBy,
  Empty     <- Blank,
  screen    <- [t \in Terms |-> ScreenOf(t)],
  shown     <- ts

(***************************************************************************)
(* Four pages, the copies of terminal_switch and the two pointers          *)
(* implement one screen per terminal: nothing is lost when a terminal is   *)
(* hidden and shown again, and nothing appears on a screen by switching.   *)
(***************************************************************************)
ImplementsVirtualScreens == Virtual!VirtualSpec
=============================================================================
