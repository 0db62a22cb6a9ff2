----------------------------- MODULE MCProdcon -----------------------------
(* Small instances of Prodcon for TLC.                                      *)
EXTENDS Prodcon
=============================================================================
