----------------------------- MODULE MCMsh379 ------------------------------
(* Small instances of Msh379.                                               *)
EXTENDS Msh379, TLC

\* All pids but the first shell's are alike.
PidSymmetry == Permutations(Pids \ {First})
=============================================================================
