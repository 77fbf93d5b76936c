---------------------------- MODULE MCHandshake ----------------------------
(* The handshake for TLC: two senders of the receiver's kind, one of not.  *)
EXTENDS Handshake

MCSpeaks == [s \in Senders |-> s # "skewed"]
=============================================================================
