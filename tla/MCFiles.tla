------------------------------ MODULE MCFiles ------------------------------
(***************************************************************************)
(* Model of Files for TLC: one regular file of two bytes.                  *)
(***************************************************************************)
EXTENDS Files, TLC

MCFileLengths == "frame0.txt" :> 2

\* A count a careful caller passes, one past the end, and an invalid one.
MCCounts == {-1, 1, 3}

\* The process slots are alike.
MCProcSymmetry == Permutations(Procs)
=============================================================================
