---------------------------- MODULE DedupWindow ----------------------------
(***************************************************************************)
(* A receiver's dedup::Window (src/transport/include/dedup.h) offered      *)
(* sequence numbers in any order and any number of times, as redundant     *)
(* streams and a reordering network offer them.                            *)
(***************************************************************************)
EXTENDS Dedup, FiniteSets

CONSTANTS
    Seqs,      \* the sequence numbers that may arrive
    MaxOffers  \* bound on the numbers offered since a reset; 0 is no bound

ASSUME SeqsAssumption == Seqs \subseteq Nat
ASSUME MaxOffersAssumption == MaxOffers \in Nat

VARIABLES
    window,     \* the object
    delivered,  \* history: numbers accept() answered true since the last reset
    answer      \* history: the last number offered and the answer

vars == <<window, delivered, answer>>

None == [seq |-> -1, new |-> FALSE]

TypeOK ==
    /\ window \in Windows
    /\ delivered \in SUBSET Seqs
    /\ answer \in [seq : Seqs \cup {-1}, new : BOOLEAN]

Init == window = Fresh /\ delivered = {} /\ answer = None

Offers == window.accepted + window.duplicates + window.too_old

Offer(seq) ==
    /\ MaxOffers = 0 \/ Offers < MaxOffers
    /\ window' = Accept(window, seq)
    /\ IF Verdict(window, seq) = "new"
       THEN /\ delivered' = delivered \cup {seq}
            /\ answer' = [seq |-> seq, new |-> TRUE]
       ELSE /\ answer' = [seq |-> seq, new |-> FALSE]
            /\ UNCHANGED delivered

Reset ==
    /\ window.started
    /\ window' = Fresh
    /\ delivered' = {} /\ answer' = None

Next == (\E seq \in Seqs : Offer(seq)) \/ Reset

Spec == Init /\ [][Next]_vars

-----------------------------------------------------------------------------
(* Properties.                                                             *)

\* Every number counted as accepted is a different one: nothing is published
\* twice, however far apart and however reordered the copies arrive.
AtMostOnce == window.accepted = Cardinality(delivered)

\* A bit is 1 exactly when the one number of the window that owns it has been
\* delivered: no bit survives from a number that has been retired, and none is
\* lost when the window slides.
BitsExact ==
    \A seq \in Seqs : window.base <= seq /\ seq < window.base + Window =>
        (Seen(window, seq) <=> seq \in delivered)

\* The window ends at the newest number delivered, so it never slides further
\* than a message that was really let through made it.
WindowEndsAtNewest ==
    /\ \A seq \in delivered : seq < window.base + Window
    /\ window.base = 0 \/ window.base + Window - 1 \in delivered

-----------------------------------------------------------------------------
Once == INSTANCE OnceFilter WITH published <- delivered

\* The window never refuses a number on other grounds than OnceFilter's.
ImplementsOnceFilter == Once!Spec
=============================================================================
