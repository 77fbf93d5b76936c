----------------------------- MODULE Transport -----------------------------
(***************************************************************************)
(* The whole path, for one receiver: producer, its ring, the sender, the   *)
(* network, the receiver, its ring and the consumer, each process at its   *)
(* own pace.  Receivers share nothing but the sender, so one is enough.    *)
(***************************************************************************)
EXTENDS Integers, Sequences, SequencesExt, FiniteSets

CONSTANTS
    TxSlots, Count, SenderCount, Streams, Dests, MaxBatch, MaxStalls, Signals, TornReads,
    Me, Window, RxMax, ReceiverCount, Drops, RxSignals,
    RxSlots, ConsumerCount

ASSUME TransportAssumption ==
    /\ TxSlots \in Nat \ {0} /\ Count \in Nat \ {0} /\ SenderCount \in Nat
    /\ Streams \in Nat \ {0} /\ MaxBatch \in Nat \ {0} /\ MaxStalls \in Nat
    /\ Signals \in BOOLEAN /\ TornReads \in BOOLEAN
    /\ Me \in Dests /\ Window \in Nat \ {0} /\ \E k \in 0 .. 31 : Window = 2 ^ k
    /\ RxMax \in Nat \ {0} /\ ReceiverCount \in Nat
    /\ Drops \in BOOLEAN /\ RxSignals \in BOOLEAN
    /\ RxSlots \in Nat \ {0} /\ ConsumerCount \in Nat

VARIABLES
    write_index, spc, read_index, start, batch, stream, datagrams, st, idle, stalls,
    wire,
    rpc, rx, frames, window, ring, rst, ridle, opened,
    cpc, cread, cstart, got, turns, skipped, acc, cidle

S == INSTANCE Sender
R == INSTANCE Receiver

\* publish() of the receiver's ring is under way from the moment the filter let
\* the message through.
writing == IF R!HasFrame /\ frames[1] # R!Short /\ R!Publishes(frames[1])
           THEN frames[1] ELSE 0

C == INSTANCE Consumer

txVars == <<write_index, spc, read_index, start, batch, stream, datagrams, st, idle, stalls>>
rxVars == <<rpc, rx, frames, window, ring, rst, ridle, opened>>
coVars == <<cpc, cread, cstart, got, turns, skipped, acc, cidle>>
vars   == <<txVars, wire, rxVars, coVars>>

Init == S!Init /\ R!ReceiverInit /\ C!ConsumerInit

Others == <<rxVars, coVars>>

ProducerStep == S!Publish /\ UNCHANGED Others
SenderAttach == S!Attach /\ UNCHANGED Others
SendStep     == S!SenderLoop /\ UNCHANGED Others
SenderTimer  == (S!Quiet \/ S!Stall) /\ UNCHANGED Others

ReceiveStep == R!ReceiverLoop /\ UNCHANGED <<txVars, coVars>>

ConsumeStep == (C!ConsumerAttach \/ C!ConsumerLoop)
               /\ UNCHANGED <<txVars, wire, rxVars>>

\* The timers downstream run out once there is nothing more to come.  One that
\* runs out earlier only ends its process, which Spec allows at any time: a
\* process need not take another step.
ReceiverTimer ==
    /\ spc = "exit" /\ wire = {}
    /\ R!RxQuiet
    /\ UNCHANGED <<txVars, coVars>>

ConsumerTimer ==
    /\ rpc = "exit"
    /\ C!ConsumerQuiet
    /\ UNCHANGED <<txVars, wire, rxVars>>

Next == \/ ProducerStep \/ SenderAttach \/ SendStep \/ SenderTimer
        \/ ReceiveStep \/ ReceiverTimer \/ ConsumeStep \/ ConsumerTimer

Spec == Init /\ [][Next]_vars

\* Every process spins without blocking, and time passes.
Fairness == /\ WF_vars(ProducerStep) /\ WF_vars(SendStep) /\ WF_vars(SenderTimer)
            /\ WF_vars(ReceiveStep) /\ WF_vars(ReceiverTimer)
            /\ WF_vars(ConsumeStep) /\ WF_vars(ConsumerTimer)

FairSpec == Spec /\ Fairness

-----------------------------------------------------------------------------
(* Properties.                                                             *)

Carried == UNION {ToSet(c.msgs) : c \in opened}

\* Each message the sender's cursor passed is in exactly one column of the four
\* reports, or was on no copy that reached the receiver: lapped before the
\* wire, lost on it, too old at the receiver, or published there; and what was
\* published there was before the consumer's start, skipped by a lap, received,
\* or not read.  It takes a sender without torn reads.
LossesAddUp ==
    (~TornReads /\ rpc \in {"poll", "exit"}) =>
        LET lost    == {S!Message(p) : p \in S!Drained} \ Carried
            too_old == Carried \ ToSet(ring)
        IN  /\ read_index - start =
                   st.lapped_msgs + Cardinality(lost) + Cardinality(too_old) + Len(ring)
            /\ Len(ring) = cstart + Cardinality(skipped) + acc.received + Len(ring) - cread
            /\ too_old # {} => window.too_old > 0

\* The consumer's "dropped" over the whole path: redundant copies that arrive in
\* any order never hide a loss nor make one up, and it is exact but for the reads
\* the receiver tore, which hide one loss each at the most.
DropsExact == C!DropsExact

\* The consumer has it, or joined later, was lapped before it or while it was
\* reading it, or it was a window late.
Arrived(m) == \/ m \in ToSet(got)
              \/ m \in skipped
              \/ \E k \in C!Torn : turns[k] = m
              \/ \E k \in 1 .. cstart : ring[k] = m
              \/ \E r \in ToSet(ring) : r - m >= Window

\* Redundancy masks loss: one copy of a datagram read by the receiver is enough
\* for each message in it to reach the consumer, unless the consumer joined
\* later, was lapped before it or in the middle of it, or the message was a window
\* late.  Of a torn read it had the turn.  It takes a consumer whose
\* idle_ms outlasts the pauses of the path, as the fairness of its timer does.
OneCopyArrives == \A m \in 1 .. Count : m \in Carried ~> Arrived(m)

\* Once the producer is done, everything downstream ends, in order.
AllEnd == (spc # "attach" /\ cpc # "attach") ~> (spc = "exit" /\ rpc = "exit" /\ cpc = "exit")

-----------------------------------------------------------------------------
(* What is so when a process has ended: the part of OneCopyArrives and     *)
(* AllEnd that is safety.                                                  *)

SenderUndisturbed   == ~Signals /\ SenderCount = 0 /\ MaxStalls = 0
ReceiverUndisturbed == ~RxSignals /\ ReceiverCount = 0

\* A process that only its idle timer can end leaves nothing to do: the sender
\* no message in its ring, the receiver no copy on its way, the consumer no
\* message in its ring.
NothingLeftBehind ==
    /\ spc = "exit" /\ SenderUndisturbed => write_index = Count /\ read_index = Count
    /\ rpc = "exit" /\ ReceiverUndisturbed => spc = "exit" /\ wire = {}
    /\ cpc = "exit" /\ ConsumerCount = 0 => rpc = "exit" /\ cread = Len(ring)

\* When the consumer has ended, what one copy carried has arrived.
ArrivedByTheEnd == cpc = "exit" /\ ConsumerCount = 0 => \A m \in Carried : Arrived(m)

\* When a session that nobody interrupted has ended, the reports account for all
\* the producer published from the sender's start on: lapped before the wire,
\* lost on it, too old, before the consumer's start, skipped, or received.
FinalReportsClose ==
    (/\ cpc = "exit" /\ ConsumerCount = 0
     /\ SenderUndisturbed /\ ReceiverUndisturbed /\ ~TornReads) =>
        LET lost    == {S!Message(p) : p \in S!Drained} \ Carried
            too_old == Carried \ ToSet(ring)
        IN  Count - start = st.lapped_msgs + Cardinality(lost) + Cardinality(too_old)
                            + cstart + Cardinality(skipped) + acc.received

-----------------------------------------------------------------------------
Path == INSTANCE OnceDelivery WITH sent <- write_index, delivered <- got

\* The path delivers what was published and gives no message two turns; a message
\* comes in another's turn only if it is read while it overwrites that one, ahead of
\* its own turn and once: a header read early is never one read late, or twice.
ImplementsOnceDelivery == Path!Spec
=============================================================================
