----------------------------- MODULE OnceFilter -----------------------------
(***************************************************************************)
(* What duplicate suppression promises: a number is let through at most    *)
(* once, and it is refused only because it has been let through already or *)
(* because one at least Window ahead of it has.                            *)
(***************************************************************************)
EXTENDS Integers

CONSTANTS Window, Seqs

VARIABLES
    published,  \* numbers let through since the last reset
    answer      \* the last number offered and whether it was let through

vars == <<published, answer>>

None == [seq |-> -1, new |-> FALSE]

Outlived(seq) == \E p \in published : p >= seq + Window

Init == published = {} /\ answer = None

Publish(seq) ==
    /\ seq \notin published /\ ~Outlived(seq)
    /\ published' = published \cup {seq}
    /\ answer' = [seq |-> seq, new |-> TRUE]

Refuse(seq) ==
    /\ seq \in published \/ Outlived(seq)
    /\ answer' = [seq |-> seq, new |-> FALSE]
    /\ UNCHANGED published

Reset == published' = {} /\ answer' = None

Next == (\E seq \in Seqs : Publish(seq) \/ Refuse(seq)) \/ Reset

Spec == Init /\ [][Next]_vars
=============================================================================
