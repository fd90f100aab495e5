---------------------------- MODULE MCConnection ----------------------------
(* Instance of Connection for TLC.                                         *)
EXTENDS Connection, TLC
=============================================================================
