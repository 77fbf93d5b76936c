------------------------------ MODULE Metrics ------------------------------
(***************************************************************************)
(* metrics::Accumulator (src/harness/include/metrics.h): what the consumer *)
(* makes of the sequence numbers it received.  The latencies are left out: *)
(* nothing the other parts do depends on them.                             *)
(***************************************************************************)
EXTENDS Integers

NoObservation == [received |-> 0, first_seq |-> 0, last_seq |-> 0]

Accumulators == [received : Nat, first_seq : Nat, last_seq : Nat]

Lesser(a, b)  == IF a < b THEN a ELSE b
Greater(a, b) == IF a > b THEN a ELSE b

Record(acc, seq_id) ==
    [received  |-> acc.received + 1,
     first_seq |-> IF acc.received = 0 THEN seq_id ELSE Lesser(acc.first_seq, seq_id),
     last_seq  |-> IF acc.received = 0 THEN seq_id ELSE Greater(acc.last_seq, seq_id)]

Expected(acc) == IF acc.received = 0 THEN 0 ELSE acc.last_seq - acc.first_seq + 1

\* Never negative: the counters are unsigned and the code checks first.
Dropped(acc) == Greater(Expected(acc) - acc.received, 0)
=============================================================================
