----------------------------- MODULE MCSegment -----------------------------
(* The segment's life for TLC.                                             *)
EXTENDS Segment, TLC
=============================================================================
