---------------------------- MODULE MCTransport ----------------------------
(* The whole path for TLC.                                                 *)
EXTENDS Transport, TLC
=============================================================================
