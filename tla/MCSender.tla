------------------------------ MODULE MCSender ------------------------------
(* The sender for TLC.                                                     *)
EXTENDS Sender, TLC
=============================================================================
