--------------------------- MODULE MCDataEmitter ----------------------------
(***************************************************************************)
(* A small instance of DataEmitter for TLC.                                *)
(***************************************************************************)
EXTENDS DataEmitter
=============================================================================
