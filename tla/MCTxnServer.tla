---------------------------- MODULE MCTxnServer ----------------------------
(* Small instances of TxnServer: more clients than slots, so that a         *)
(* connection may be forgotten.                                             *)
EXTENDS TxnServer, TLC

\* Clients are told apart by nothing but their names; slots are ordered.
ClientSymmetry == Permutations(Clients)
=============================================================================
