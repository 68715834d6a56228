------------------------------ MODULE Sessions ------------------------------
(***************************************************************************)
(* What the process management of the kernel promises to its users: every  *)
(* terminal holds a stack of processes.  Its bottom is a shell that can    *)
(* not be left, its top is the program that runs; execute pushes, halt     *)
(* pops and hands the status to the new top, and the terminals take turns. *)
(* There are no pids to reuse by accident, control blocks, kernel stacks   *)
(* or page mappings at this level.                                         *)
(***************************************************************************)
EXTENDS Integers, Sequences, SequencesExt

CONSTANTS
  Ids,          \* process identities
  NumSessions,  \* number of terminals
  Results,      \* what a halted process can hand to its parent
  Refused,      \* what execute answers when it can not run the program
  None          \* nothing has been handed over

Terminals == 0 .. NumSessions - 1

VARIABLES
  stack,   \* stack[t], the processes of terminal t, bottom first
  turn,    \* the terminal that has the CPU
  result   \* what the program that has the CPU was handed last

svars == <<stack, turn, result>>

InUse(s)   == UNION {ToSet(s[t]) : t \in Terminals}
Fresh(s)   == Ids \ InUse(s)
AllStarted == \A t \in Terminals : stack[t] # << >>

SessionsInit ==
  /\ stack = [t \in Terminals |-> << >>]
  /\ turn = 0
  /\ result = None

\* The terminals get their shells in order; the new one takes the turn.
Start ==
  \E t \in Terminals :
    /\ stack[t] = << >> /\ \A u \in 0 .. t - 1 : stack[u] # << >>
    /\ \E p \in Fresh(stack) : stack' = [stack EXCEPT ![t] = <<p>>]
    /\ turn' = t
    /\ result' = None

Execute ==
  /\ AllStarted
  /\ \E p \in Fresh(stack) :
       stack' = [stack EXCEPT ![turn] = Append(@, p)]
  /\ result' = None
  /\ UNCHANGED turn

Refuse ==
  /\ AllStarted
  /\ result' \in Refused
  /\ UNCHANGED <<stack, turn>>

\* The status reaches the process below the one that ends.
Halt ==
  /\ Len(stack[turn]) > 1
  /\ stack' = [stack EXCEPT ![turn] = Front(@)]
  /\ result' \in Results
  /\ UNCHANGED turn

\* The bottom shell is replaced: only its own identity is free again.
Restart ==
  /\ Len(stack[turn]) = 1
  /\ result' = None
  /\ UNCHANGED <<stack, turn>>

Rotate ==
  /\ AllStarted
  /\ turn' = (turn + 1) % NumSessions
  /\ result' = None
  /\ UNCHANGED stack

SessionsNext == Start \/ Execute \/ Refuse \/ Halt \/ Restart \/ Rotate

\* What never happens, and with it what does.
SessionsSafe == SessionsInit /\ [][SessionsNext]_svars
SessionsSpec == SessionsSafe /\ WF_svars(Start) /\ WF_svars(Rotate)
=============================================================================
