------------------------------- MODULE Dedup -------------------------------
(***************************************************************************)
(* dedup::Window (src/transport/include/dedup.h) as operators on the       *)
(* object's state: the duplicate filter a receiver runs every message      *)
(* through before it publishes it.  bits_ is the set of the indices of its *)
(* bits that are 1; a sequence number shares its bit with every other of   *)
(* the same residue modulo the window.                                     *)
(***************************************************************************)
EXTENDS Integers

CONSTANT Window  \* kWindow, in messages

\* kWindow is 1 << kWindowPow2, which is what makes "seq & (kWindow - 1)" the
\* remainder Bit computes.
ASSUME WindowAssumption == /\ Window \in Nat \ {0}
                           /\ \E k \in 0 .. 31 : Window = 2 ^ k

Bits == 0 .. Window - 1

Windows == [started : BOOLEAN, base : Nat, bits : SUBSET Bits,
            accepted : Nat, duplicates : Nat, too_old : Nat]

\* The constructor, and reset().
Fresh == [started |-> FALSE, base |-> 0, bits |-> {},
          accepted |-> 0, duplicates |-> 0, too_old |-> 0]

Bit(seq) == seq % Window

\* Mutant: a slide clears one bit however far it goes.
AdvanceToKeepingBits(w, new_base) ==
    [w EXCEPT !.base = new_base, !.bits = @ \ {Bit(new_base - 1)}]

\* Retire [base, new_base): its bits are the ones the numbers ahead will use.
AdvanceTo(w, new_base) ==
    [w EXCEPT !.base = new_base,
              !.bits = IF new_base - w.base >= Window
                       THEN {}
                       ELSE @ \ {Bit(s) : s \in w.base .. new_base - 1}]

\* The first number places the window so that it is the newest number in it.
Started(w, seq) ==
    IF w.started THEN w
    ELSE [w EXCEPT !.started = TRUE,
                   !.base = IF seq >= Window THEN seq - Window + 1 ELSE 0]

Reaching(w, seq) ==
    IF seq >= w.base + Window THEN AdvanceTo(w, seq - Window + 1) ELSE w

\* Mutant: nothing is ever too old, so a retired number is taken by its bit.
VerdictIgnoringAge(w, seq) ==
    IF Bit(seq) \in Reaching(Started(w, seq), seq).bits THEN "duplicate" ELSE "new"

\* Which of its three outcomes accept(seq) has.
Verdict(w, seq) ==
    LET s == Started(w, seq) IN
    IF seq < s.base THEN "too_old"
    ELSE IF Bit(seq) \in Reaching(s, seq).bits THEN "duplicate" ELSE "new"

\* Mutant: the number is accepted but its bit is not recorded.
AcceptUnrecorded(w, seq) ==
    [Reaching(Started(w, seq), seq) EXCEPT !.accepted = @ + 1]

\* accept(seq): the state it leaves behind.
Accept(w, seq) ==
    LET s == Started(w, seq)
        a == Reaching(s, seq)
        v == Verdict(w, seq)
    IN  IF v = "too_old" THEN [s EXCEPT !.too_old = @ + 1]
        ELSE IF v = "duplicate" THEN [a EXCEPT !.duplicates = @ + 1]
        ELSE [a EXCEPT !.bits = @ \cup {Bit(seq)}, !.accepted = @ + 1]

\* seen(seq): asks without recording.
Seen(w, seq) ==
    /\ w.started
    /\ w.base <= seq /\ seq < w.base + Window
    /\ Bit(seq) \in w.bits
=============================================================================
