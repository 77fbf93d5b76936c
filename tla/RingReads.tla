----------------------------- MODULE RingReads -----------------------------
(***************************************************************************)
(* What Ring::read (src/harness/include/shm_ring.h) may answer at index i  *)
(* of a ring whose write_index is w, taken as one step: the view of the    *)
(* ring BroadcastLog leaves to the processes at its two ends.  "more" says *)
(* that the producer is, or may be, in the middle of publishing message    *)
(* w + 1.                                                                  *)
(***************************************************************************)
EXTENDS Integers

Empty(w, i) == i >= w

Overwritten(w, slots, i) == i + slots < w

\* The slot is the one the next publication fills.
InReach(w, slots, i, more) == more /\ i + slots = w

\* Mutant: less than nothing has been overwritten of a ring not yet full.
ResumeAtUnclamped(w, slots) == w - slots

IsOk(w, slots, i)            == ~Empty(w, i) /\ ~Overwritten(w, slots, i)
IsLapped(w, slots, i, more)  == Overwritten(w, slots, i) \/ InReach(w, slots, i, more)
ResumeAt(w, slots)           == IF w > slots THEN w - slots ELSE 0

\* The messages whose header a read answered kOk may carry.
Headers(w, slots, i, more) ==
    IF InReach(w, slots, i, more) THEN {i + 1, i + 1 + slots} ELSE {i + 1}
=============================================================================
