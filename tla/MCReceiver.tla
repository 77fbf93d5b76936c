----------------------------- MODULE MCReceiver -----------------------------
(***************************************************************************)
(* The receiver for TLC, alone: the copies that will ever arrive are on    *)
(* the wire from the start, and recvmmsg returns them when it likes.       *)
(***************************************************************************)
EXTENDS Receiver

CONSTANT Streams

\* Datagram k carries batch k; the last repeats a message, as a datagram does
\* that was filled from a torn read.
Datagrams == << <<1, 2>>, <<3>>, <<3, 6>> >>

\* From elsewhere: a stranger's datagram, and one with a frame that is too
\* short, one that is in order and one that was cut.
Foreign == {[dest |-> Me, stream |-> 0, id |-> Alien, msgs |-> <<>>],
            [dest |-> Me, stream |-> 0, id |-> 3, msgs |-> <<Short, 2, Cut>>]}

AllCopies == Foreign \cup
             {[dest |-> Me, stream |-> s, id |-> k - 1, msgs |-> Datagrams[k]] :
                  s \in 0 .. Streams - 1, k \in 1 .. Len(Datagrams)}

Init == wire = AllCopies /\ ReceiverInit

Spec == Init /\ [][ReceiverNext]_vars
=============================================================================
