---------------------------- MODULE OnceDelivery ----------------------------
(***************************************************************************)
(* What the whole path promises a consumer: messages the producer has      *)
(* published, in any order, some of them missing, each at most once; but   *)
(* where a message is overwritten while it is read, the one that takes its *)
(* place may come in its stead, ahead of its own turn.                     *)
(***************************************************************************)
EXTENDS Integers, Sequences, SequencesExt

VARIABLES
    sent,      \* messages 1 .. sent are published
    turns,     \* whose turn it was, in the order the turns came
    delivered  \* what the consumer received in them

vars == <<sent, turns, delivered>>

Init == sent = 0 /\ turns = <<>> /\ delivered = <<>>

Waiting == (1 .. sent) \ ToSet(turns)

Send == sent' = sent + 1 /\ UNCHANGED <<turns, delivered>>

Deliver ==
    /\ \E m \in Waiting : turns' = Append(turns, m) /\ delivered' = Append(delivered, m)
    /\ UNCHANGED sent

\* m comes in the place of another, at most once and only before its own turn.
DeliverAhead ==
    /\ \E turn \in Waiting, m \in Waiting \ ToSet(delivered) :
           /\ m # turn
           /\ turns' = Append(turns, turn) /\ delivered' = Append(delivered, m)
    /\ UNCHANGED sent

Next == Send \/ Deliver \/ DeliverAhead

Spec == Init /\ [][Next]_vars
=============================================================================
