------------------------------ MODULE Consumer ------------------------------
(***************************************************************************)
(* The consumer's loop (src/harness/src/consumer.cpp): read the ring a     *)
(* receiver publishes into, slot after slot, and feed the metrics.         *)
(***************************************************************************)
EXTENDS RingReads, Metrics, Sequences, SequencesExt

CONSTANTS
    RxSlots,       \* slots of the ring
    ConsumerCount  \* consumer --count; 0 is no limit

VARIABLES
    ring,     \* what was published; the message at index i is ring[i + 1]
    writing,  \* the message the ring's writer is in the middle of publishing, or 0
    cpc,      \* "attach" | "read" | "exit"
    cread,    \* read_index
    cstart,   \* history: where it began
    got,      \* history: the messages received
    turns,    \* history: the messages whose slots they were read from
    skipped,  \* history: the messages a lap made it skip
    acc,      \* the accumulator
    cidle     \* more than idle_ms since last_progress

consumerVars == <<cpc, cread, cstart, got, turns, skipped, acc, cidle>>

ConsumerInit ==
    /\ cpc = "attach" /\ cread = 0 /\ cstart = 0
    /\ got = <<>> /\ turns = <<>> /\ skipped = {}
    /\ acc = NoObservation /\ cidle = FALSE

-----------------------------------------------------------------------------
\* With --from-edge at the live edge, else at the beginning.
ConsumerAttach ==
    /\ cpc = "attach"
    /\ cread' \in {0, Len(ring)}
    /\ cstart' = cread'
    /\ cpc' = "read"
    /\ UNCHANGED <<got, turns, skipped, acc, cidle>>

ConsumerCountReached == ConsumerCount # 0 /\ acc.received >= ConsumerCount

\* While the slot is overwritten the header may be that of the message which takes
\* its place.
ReadOk ==
    /\ cpc = "read" /\ ~ConsumerCountReached
    /\ IsOk(Len(ring), RxSlots, cread)
    /\ \E k \in Headers(Len(ring), RxSlots, cread, writing # 0) :
           LET seq_id == Append(ring, writing)[k] IN
           /\ got' = Append(got, seq_id)
           /\ acc' = Record(acc, seq_id)
    /\ turns' = Append(turns, ring[cread + 1])
    /\ cread' = cread + 1
    /\ cidle' = FALSE
    /\ UNCHANGED <<cpc, cstart, skipped>>

ReadLapped ==
    /\ cpc = "read" /\ ~ConsumerCountReached
    /\ IsLapped(Len(ring), RxSlots, cread, writing # 0)
    /\ cread' = ResumeAt(Len(ring), RxSlots)
    /\ skipped' = skipped \cup {ring[i + 1] : i \in cread .. cread' - 1}
    /\ UNCHANGED <<cpc, cstart, got, turns, acc, cidle>>

\* Mutant: the timer is looked at before the ring.
NothingToReadUnread == TRUE

NothingToRead == Empty(Len(ring), cread)

\* kEmpty for idle_ms: "producer done".
ConsumerIdleExit ==
    /\ cpc = "read" /\ ~ConsumerCountReached
    /\ NothingToRead /\ cidle
    /\ cpc' = "exit"
    /\ UNCHANGED <<cread, cstart, got, turns, skipped, acc, cidle>>

ConsumerStop ==
    /\ cpc = "read" /\ ConsumerCountReached
    /\ cpc' = "exit"
    /\ UNCHANGED <<cread, cstart, got, turns, skipped, acc, cidle>>

ConsumerLoop == ReadOk \/ ReadLapped \/ ConsumerIdleExit \/ ConsumerStop

\* idle_ms pass since the last message received or, before the first, since the
\* consumer started.
ConsumerQuiet ==
    /\ cpc = "read" /\ ~cidle
    /\ cidle' = TRUE
    /\ UNCHANGED <<cpc, cread, cstart, got, turns, skipped, acc>>

ConsumerNext == ConsumerAttach \/ ConsumerLoop \/ ConsumerQuiet

-----------------------------------------------------------------------------
(* Properties.                                                             *)

\* The reads that were torn: another message's header came in their place.
Torn == {k \in DOMAIN got : got[k] # turns[k]}

\* The report's "dropped" never makes a loss up and, of the messages missing
\* between the first and the last received, hides at most one for each torn read:
\* without torn reads it is exact.  Order of arrival does not matter, no message is
\* counted twice otherwise, and the subtraction's clamp hides no more than that.
\* It takes a ring without duplicates.
DropsExact ==
    got # <<>> =>
        LET missing == Cardinality((Min(ToSet(got)) .. Max(ToSet(got))) \ ToSet(got))
        IN  Dropped(acc) <= missing /\ missing <= Dropped(acc) + Cardinality(Torn)
=============================================================================
