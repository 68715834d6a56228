--------------------------- MODULE VirtualScreens ---------------------------
(***************************************************************************)
(* What the terminals promise about their screens: each has one of its     *)
(* own.  Output and echo change the screen of the terminal they belong to, *)
(* showing another terminal changes no screen.  Only a fault reaches over: *)
(* wherever it happens, it clears the screen that is shown.                *)
(***************************************************************************)
EXTENDS Integers

CONSTANTS
  Terminals,     \* the terminals
  Pictures(_),   \* what the programs of a terminal can draw
  Empty          \* the picture of a new screen

VARIABLES screen, shown

Draw ==
  \E t \in Terminals, c \in UNION {Pictures(u) : u \in Terminals} :
    /\ c \in Pictures(t)
    /\ screen' = [screen EXCEPT ![t] = c]
    /\ UNCHANGED shown

Fault ==
  \E t \in Terminals, c \in UNION {Pictures(u) : u \in Terminals} :
    /\ c \in Pictures(t)
    /\ screen' = [screen EXCEPT ![shown] = Empty, ![t] = c]
    /\ UNCHANGED shown

Show == shown' \in Terminals /\ UNCHANGED screen

VirtualInit == screen = [t \in Terminals |-> Empty] /\ shown \in Terminals

VirtualSpec == VirtualInit /\ [][Draw \/ Fault \/ Show]_<<screen, shown>>
=============================================================================
