---------------------------- MODULE MCProcesses ----------------------------
(***************************************************************************)
(* Model of Processes for TLC, with the refinement mapping to Sessions: a  *)
(* terminal's stack is the chain of parents of its active process.         *)
(***************************************************************************)
EXTENDS Processes

StackOf(t) == IF Booted /\ t \in Started THEN Chain(t) ELSE << >>

Abstract == INSTANCE Sessions WITH
  Ids         <- Pids,
  NumSessions <- NUM_TERMS,
  Results     <- Statuses \cup {EXCEPTION_HALT},
  Refused     <- {-1, FUNNY_NUMBER},
  None        <- NoRet,
  stack       <- [t \in Terms |-> StackOf(t)],
  turn        <- ta,
  result      <- ret

(***************************************************************************)
(* sys_execute, halt_helper and pit_handler implement the stacks of        *)
(* processes: a step of one terminal touches no other terminal's stack,    *)
(* halt returns to the program that called execute and to no other, with   *)
(* its status, and every terminal's turn comes.                            *)
(***************************************************************************)
ImplementsSessions == Abstract!SessionsSpec
=============================================================================
