------------------------------- MODULE Fanout -------------------------------
(***************************************************************************)
(* net::TxStream::send_all (src/transport/include/net.h): one datagram to  *)
(* every destination by one sendmmsg, in an order that rotates from call   *)
(* to call.  The kernel takes a first part of the list and the rest is     *)
(* dropped: send_all never retries.  Destination d is the (d + 1)th --dest *)
(***************************************************************************)
EXTENDS Integers, FiniteSets, Functions

CONSTANTS
    N,        \* destinations
    MaxCalls  \* bound on the calls

ASSUME FanoutAssumption == N \in Nat \ {0} /\ MaxCalls \in Nat \ {0}

VARIABLES
    rotate,   \* rotate_
    calls,    \* history: calls of send_all
    counters, \* sent_, blocked_, partial_ and errors_
    lastServed, \* history: how often each destination came last
    taken     \* history: datagrams the kernel took for each destination

fanoutVars == <<rotate, calls, counters, lastServed, taken>>

D == 0 .. N - 1

FanoutTypeOK ==
    /\ rotate \in D /\ calls \in 0 .. MaxCalls
    /\ counters \in [sent : Nat, blocked : Nat, partial : Nat, errors : Nat]
    /\ lastServed \in [D -> Nat] /\ taken \in [D -> Nat]

FanoutInit ==
    /\ rotate = 0 /\ calls = 0
    /\ counters = [sent |-> 0, blocked |-> 0, partial |-> 0, errors |-> 0]
    /\ lastServed = [d \in D |-> 0] /\ taken = [d \in D |-> 0]

\* The destination in place k of the list sendmmsg is given.
Place(k) == (k + rotate) % N

\* Mutant: the order does not rotate.
RotatedNever == rotate

Rotated == IF rotate + 1 >= N THEN 0 ELSE rotate + 1

Counted(sent) ==
    [counters EXCEPT !.sent    = @ + sent,
                     !.partial = @ + IF sent < N THEN 1 ELSE 0]

\* sendmmsg accepted the first "sent" of the list, at least one.
Sends(sent) ==
    /\ calls < MaxCalls
    /\ counters' = Counted(sent)
    /\ taken' = [d \in D |-> taken[d] + IF \E k \in 0 .. sent - 1 : Place(k) = d THEN 1 ELSE 0]
    /\ lastServed' = [lastServed EXCEPT ![Place(N - 1)] = @ + 1]
    /\ rotate' = Rotated
    /\ calls' = calls + 1

\* It accepted none: the socket's buffer is full, or another error.
Fails(why) ==
    /\ calls < MaxCalls
    /\ counters' = [counters EXCEPT ![why] = @ + 1]
    /\ lastServed' = [lastServed EXCEPT ![Place(N - 1)] = @ + 1]
    /\ rotate' = Rotated
    /\ calls' = calls + 1
    /\ UNCHANGED taken

FanoutNext == (\E sent \in 1 .. N : Sends(sent)) \/ (\E why \in {"blocked", "errors"} : Fails(why))

FanoutSpec == FanoutInit /\ [][FanoutNext]_fanoutVars

-----------------------------------------------------------------------------
(* Properties.                                                             *)

\* No receiver is systematically served last: over any number of calls the
\* destinations have come last equally often, up to one.  What the kernel did not
\* take was for those late in the list, so with no call failing outright every
\* destination has been sent a datagram for every N calls, however little the
\* kernel took of each.
ServedInTurn ==
    /\ \A d, e \in D : lastServed[d] <= lastServed[e] + 1
    /\ counters.blocked + counters.errors = 0 => \A d \in D : taken[d] >= calls \div N
=============================================================================
