----------------------------- MODULE MCSession -----------------------------
(* A session for TLC.                                                      *)
EXTENDS Session, TLC
=============================================================================
