---------------------------- MODULE MCShell379 -----------------------------
(* Small instances of Shell379: a few pids, so that they are given again,   *)
(* and a table of two or three entries.                                     *)
EXTENDS Shell379, TLC

\* All pids but the first shell's are alike.
PidSymmetry == Permutations(Pids \ {First})
=============================================================================
