------------------------------ MODULE Producer ------------------------------
(***************************************************************************)
(* The producer's loop (src/harness/src/producer.cpp): --count messages at *)
(* --rate of them a second, each when its time has come by the wall clock, *)
(* which may be set while it runs.  The ring it publishes into is ShmRing. *)
(***************************************************************************)
EXTENDS Integers

CONSTANTS
    Second,    \* clock units in a second
    Rates,     \* what --rate may be; 0 is as fast as possible
    PCount,    \* --count
    Epoch,     \* the clock when the producer starts
    MaxClock,  \* bound: the clock
    MaxStep    \* how far the clock may be set at a time

ASSUME ProducerAssumption ==
    /\ Second \in Nat \ {0} /\ Rates \subseteq Nat /\ PCount \in Nat \ {0}
    /\ MaxStep \in Nat /\ Epoch \in MaxStep .. MaxClock /\ MaxClock \in Nat

VARIABLES
    rate,       \* --rate
    clock,      \* util::now_ns()
    next_send,
    seq,
    ppc,        \* "head" | "spin" | "publish" | "done"
    setBack     \* history: the clock was set back

producerVars == <<rate, clock, next_send, seq, ppc, setBack>>

\* interval_ns: whole units, so that the rate is that asked for or a higher one.
Interval == IF rate > 0 THEN Second \div rate ELSE 0

ProducerTypeOK ==
    /\ rate \in Rates /\ clock \in 0 .. MaxClock
    /\ next_send \in Epoch .. Epoch + PCount * Interval
    /\ seq \in 0 .. PCount
    /\ ppc \in {"head", "spin", "publish", "done"} /\ setBack \in BOOLEAN

ProducerInit ==
    /\ rate \in Rates
    /\ clock = Epoch /\ next_send = Epoch /\ seq = 0
    /\ ppc = "head" /\ setBack = FALSE

-----------------------------------------------------------------------------
\* The loop condition.
NextTurn ==
    /\ ppc = "head"
    /\ ppc' = IF seq = PCount THEN "done" ELSE IF Interval > 0 THEN "spin" ELSE "publish"
    /\ UNCHANGED <<rate, clock, next_send, seq, setBack>>

\* Mutant: the next message is due an interval after this one was sent.
FollowingFromNow == clock + Interval

Following == next_send + Interval

\* now_ns() < next_send has failed.
Due ==
    /\ ppc = "spin" /\ clock >= next_send
    /\ next_send' = Following
    /\ ppc' = "publish"
    /\ UNCHANGED <<rate, clock, seq, setBack>>

PublishNext ==
    /\ ppc = "publish"
    /\ seq' = seq + 1
    /\ ppc' = "head"
    /\ UNCHANGED <<rate, clock, next_send, setBack>>

\* Time passes, at every step of the producer and by any amount, if it is not
\* scheduled or the clock is set forward.
Tick ==
    /\ clock' \in clock + 1 .. clock + MaxStep /\ clock' <= MaxClock
    /\ UNCHANGED <<rate, next_send, seq, ppc, setBack>>

SetBack ==
    /\ clock' \in clock - MaxStep .. clock - 1 /\ clock' >= 0
    /\ setBack' = TRUE
    /\ UNCHANGED <<rate, next_send, seq, ppc>>

ProducerNext == NextTurn \/ Due \/ PublishNext \/ Tick \/ SetBack

ProducerSpec == ProducerInit /\ [][ProducerNext]_producerVars

-----------------------------------------------------------------------------
(* Properties.                                                             *)

\* The pace is kept over any pauses: when the producer spins, everything due
\* since it started is out, so that time lost is caught up and the rate asked
\* for reached, however the clock jumped forward; what is out beyond that, after
\* the clock was set back, is waited for.  And with a clock that was never set
\* back no message goes out before the interval, whole units, has passed since the
\* one before was due.
PaceKept ==
    Interval > 0 =>
        LET elapsed == clock - Epoch IN
        /\ (ppc = "spin" /\ clock < next_send) =>
               /\ seq * Interval > elapsed
               /\ seq * Second > elapsed * rate
        /\ (~setBack /\ seq > 0) => (seq - 1) * Interval <= elapsed
=============================================================================
