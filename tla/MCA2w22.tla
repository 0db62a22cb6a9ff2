------------------------------ MODULE MCA2w22 -------------------------------
(***************************************************************************)
(* A small network of a2w22 for TLC.                                       *)
(***************************************************************************)
EXTENDS A2w22

OnlyFirst == <<2, 0, 0>>
OneAgain == <<2, 1, 1>>
=============================================================================
