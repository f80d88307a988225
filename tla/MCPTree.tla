------------------------------ MODULE MCPTree ------------------------------
(***************************************************************************)
(* A small instance of PTree for TLC.                                      *)
(***************************************************************************)
EXTENDS PTree
=============================================================================
