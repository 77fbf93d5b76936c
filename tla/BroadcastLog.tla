---------------------------- MODULE BroadcastLog ----------------------------
(***************************************************************************)
(* What shm::Ring promises its readers, without slots or memory accesses.  *)
(* The producer appends and is never blocked; a reader follows at its own  *)
(* pace, gets each message once and in order, and loses a message only     *)
(* when SlotCount younger ones have been published.  A frame it gets may   *)
(* carry words of the message SlotCount further on, but only once the      *)
(* producer has come as far as that message.                               *)
(***************************************************************************)
EXTENDS Naturals

CONSTANTS SlotCount, Readers, Words

VARIABLES
    published,  \* number of messages appended
    joined,     \* reader -> has it attached
    cursor,     \* reader -> index of the next message it wants
    got         \* reader -> index and words of the last frame delivered

vars == <<published, joined, cursor, got>>

NoFrame == [at |-> 0, words |-> [w \in Words |-> 0]]

Init ==
    /\ published = 0
    /\ joined = [r \in Readers |-> FALSE]
    /\ cursor = [r \in Readers |-> 0]
    /\ got = [r \in Readers |-> NoFrame]

Publish ==
    /\ published' = published + 1
    /\ UNCHANGED <<joined, cursor, got>>

\* From the beginning or from the edge; the edge a reader sees may be one short
\* of what is published.
Join(r) ==
    /\ ~joined[r]
    /\ joined' = [joined EXCEPT ![r] = TRUE]
    /\ \E start \in 0 .. published :
           /\ start = 0 \/ start + 1 >= published
           /\ cursor' = [cursor EXCEPT ![r] = start]
    /\ UNCHANGED <<published, got>>

\* The frame at the cursor, whole unless the producer is within a lap's reach.
Deliver(r) ==
    /\ joined[r]
    /\ cursor[r] < published
    /\ \E words \in [Words -> {cursor[r] + 1, cursor[r] + 1 + SlotCount}] :
           /\ \/ \A w \in Words : words[w] = cursor[r] + 1
              \/ published >= cursor[r] + SlotCount
           /\ got' = [got EXCEPT ![r] = [at |-> cursor[r], words |-> words]]
    /\ cursor' = [cursor EXCEPT ![r] = @ + 1]
    /\ UNCHANGED <<published, joined>>

\* Jump over messages that SlotCount younger ones have replaced.
Skip(r) ==
    /\ joined[r]
    /\ \E resume \in cursor[r] + 1 .. published :
           /\ resume + SlotCount <= published
           /\ cursor' = [cursor EXCEPT ![r] = resume]
    /\ UNCHANGED <<published, joined, got>>

Next == Publish \/ \E r \in Readers : Join(r) \/ Deliver(r) \/ Skip(r)

Spec == Init /\ [][Next]_vars
=============================================================================
