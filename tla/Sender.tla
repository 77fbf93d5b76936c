------------------------------- MODULE Sender -------------------------------
(***************************************************************************)
(* The sender's loop (src/transport/src/sender.cpp) between the producer's *)
(* ring and the wire: drain what the ring holds into one datagram, send a  *)
(* copy of it on every stream to every destination, repeat.                *)
(*                                                                         *)
(* A message is its msg::Header.seq_id: the one at index i is i + 1.  Time *)
(* is one flag, "more than idle_ms since last_progress", raised when the   *)
(* sender has nothing left to do (Quiet) or was itself held up (Stall).    *)
(***************************************************************************)
EXTENDS RingReads, Sequences, FiniteSets

CONSTANTS
    TxSlots,      \* slots of the producer's ring
    Count,        \* producer --count
    SenderCount,  \* sender --count; 0 is no limit
    Streams,      \* sender --streams
    Dests,        \* the receivers
    MaxBatch,     \* messages that fit in one datagram
    MaxStalls,    \* bound: times the sender is held up for idle_ms or longer
    Signals,      \* may SIGINT or SIGTERM arrive
    TornReads     \* may the reader be close enough to a lap to read torn frames

ASSUME SenderAssumption ==
    /\ TxSlots \in Nat \ {0} /\ Count \in Nat \ {0} /\ SenderCount \in Nat
    /\ Streams \in Nat \ {0} /\ MaxBatch \in Nat \ {0} /\ MaxStalls \in Nat
    /\ Signals \in BOOLEAN /\ TornReads \in BOOLEAN

VARIABLES
    write_index,  \* of the producer's ring
    spc,          \* "attach" | "head" | "drain" | "idle" | "send" | "exit"
    read_index,
    start,        \* history: where read_index began
    batch,        \* messages appended to the datagram under construction
    stream,       \* next stream to send it on
    datagrams,    \* history: the datagrams sent; dgram_id is their number
    st,           \* messages and lapped_msgs of Stats
    idle,         \* more than idle_ms since last_progress
    stalls,       \* bound on Stall
    wire          \* copies in flight

senderVars == <<spc, read_index, start, batch, stream, datagrams, st, idle, stalls>>
vars       == <<write_index, spc, read_index, start, batch, stream, datagrams, st,
                idle, stalls, wire>>

Messages == 1 .. Count
Batches  == UNION {[1 .. n -> Messages] : n \in 0 .. MaxBatch}
dgram_id == Len(datagrams)
Copies   == [dest : Dests, stream : 0 .. Streams - 1, id : Nat, msgs : Batches]

TypeOK ==
    /\ write_index \in 0 .. Count
    /\ spc \in {"attach", "head", "drain", "idle", "send", "exit"}
    /\ read_index \in 0 .. Count /\ start \in 0 .. Count
    /\ batch \in Batches
    /\ stream \in 0 .. Streams - 1
    /\ \A k \in 1 .. dgram_id : datagrams[k] \in Batches
    /\ st \in [messages : Nat, lapped_msgs : Nat]
    /\ idle \in BOOLEAN
    /\ stalls \in 0 .. MaxStalls
    /\ \A c \in wire : c \in Copies

Init ==
    /\ write_index = 0
    /\ spc = "attach"
    /\ read_index = 0 /\ start = 0
    /\ batch = <<>> /\ stream = 0 /\ datagrams = <<>>
    /\ st = [messages |-> 0, lapped_msgs |-> 0]
    /\ idle = FALSE /\ stalls = 0
    /\ wire = {}

-----------------------------------------------------------------------------
(* The producer: publishes message after message and never waits.          *)

MorePending == write_index < Count

Publish ==
    /\ MorePending
    /\ write_index' = write_index + 1
    /\ UNCHANGED <<senderVars, wire>>

-----------------------------------------------------------------------------
(* The sender.                                                             *)

\* At the live edge or, with --no-from-edge, at the beginning.
Attach ==
    /\ spc = "attach"
    /\ read_index' \in {0, write_index}
    /\ start' = read_index'
    /\ spc' = "head"
    /\ UNCHANGED <<write_index, batch, stream, datagrams, st, idle, stalls, wire>>

CountReached(messages) == SenderCount # 0 /\ messages >= SenderCount

\* The loop condition, and begin().
LoopHead ==
    /\ spc = "head"
    /\ \/ /\ ~CountReached(st.messages)
          /\ spc' = "drain"
       \/ /\ Signals \/ CountReached(st.messages)
          /\ spc' = "exit"
    /\ UNCHANGED <<write_index, read_index, start, batch, stream, datagrams, st, idle,
                   stalls, wire>>

\* Where the drain loop's break leads: an empty datagram is not sent.
Flush(b) == IF b = <<>> THEN "idle" ELSE "send"

\* Mutant: append_ptr does not see that the datagram is full.
RoomForOneTooMany == Len(batch) <= MaxBatch

RoomForOne == Len(batch) < MaxBatch

DrainFull ==
    /\ spc = "drain" /\ ~RoomForOne
    /\ spc' = Flush(batch)
    /\ UNCHANGED <<write_index, read_index, start, batch, stream, datagrams, st, idle,
                   stalls, wire>>

DrainEmpty ==
    /\ spc = "drain" /\ RoomForOne
    /\ Empty(write_index, read_index)
    /\ spc' = Flush(batch)
    /\ UNCHANGED <<write_index, read_index, start, batch, stream, datagrams, st, idle,
                   stalls, wire>>

\* Mutant: the cursor jumps but the messages jumped over are not counted.
OvertakenUncounted(resume) == 0

\* The clamped difference of unsigned numbers.
Overtaken(resume) == IF resume > read_index THEN resume - read_index ELSE 0

DrainLapped ==
    /\ spc = "drain" /\ RoomForOne
    /\ IsLapped(write_index, TxSlots, read_index, MorePending)
    /\ read_index' = ResumeAt(write_index, TxSlots)
    /\ st' = [st EXCEPT !.lapped_msgs = @ + Overtaken(read_index')]
    /\ spc' = Flush(batch)
    /\ UNCHANGED <<write_index, start, batch, stream, datagrams, idle, stalls, wire>>

\* Mutant: --count leaves both loops.
AfterAppendLeaving(messages) == IF CountReached(messages) THEN "head" ELSE "drain"

\* --count ends the drain, not the sending of what was drained.
AfterAppend(messages) == IF CountReached(messages) THEN "send" ELSE "drain"

DrainOne ==
    /\ spc = "drain" /\ RoomForOne
    /\ IsOk(write_index, TxSlots, read_index)
    /\ \E seq_id \in Headers(write_index, TxSlots, read_index, TornReads /\ MorePending) :
           batch' = Append(batch, seq_id)
    /\ read_index' = read_index + 1
    /\ st' = [st EXCEPT !.messages = @ + 1]
    /\ spc' = AfterAppend(st'.messages)
    /\ UNCHANGED <<write_index, start, stream, datagrams, idle, stalls, wire>>

\* Mutant: the idle timer is not consulted.
DoneNever == FALSE

\* "producer done", by the timer.
Done == idle

IdleCheck ==
    /\ spc = "idle"
    /\ spc' = IF Done THEN "exit" ELSE "head"
    /\ UNCHANGED <<write_index, read_index, start, batch, stream, datagrams, st, idle,
                   stalls, wire>>

\* Mutant: the next datagram is begun on top of the last.
BegunKeeping == batch

\* begin(), as the next turn of the loop calls it.
Begun == <<>>

\* send_all() on one stream.  The kernel takes the datagram for a part of the
\* destinations, the network loses it for others: either way no copy arrives
\* and nobody retries.
SendOnStream ==
    /\ spc = "send"
    /\ \E reached \in SUBSET Dests :
           wire' = wire \cup [dest : reached, stream : {stream},
                              id : {dgram_id}, msgs : {batch}]
    /\ IF stream < Streams - 1
       THEN /\ stream' = stream + 1
            /\ UNCHANGED <<spc, batch, datagrams, idle>>
       ELSE /\ stream' = 0
            /\ datagrams' = Append(datagrams, batch)
            /\ batch' = Begun
            /\ idle' = FALSE
            /\ spc' = "head"
    /\ UNCHANGED <<write_index, read_index, start, st, stalls>>

SenderLoop == \/ LoopHead \/ DrainFull \/ DrainEmpty \/ DrainLapped \/ DrainOne
              \/ IdleCheck \/ SendOnStream

-----------------------------------------------------------------------------
(* Time.                                                                   *)

\* idle_ms after the last message the producer will ever publish was sent.
Quiet ==
    /\ ~idle /\ ~MorePending
    /\ spc \in {"head", "drain", "idle"} /\ batch = <<>> /\ read_index = Count
    /\ idle' = TRUE
    /\ UNCHANGED <<write_index, spc, read_index, start, batch, stream, datagrams, st, stalls, wire>>

\* The producer pauses for idle_ms, or the sender is not scheduled for as long,
\* and messages are still to come or already wait for it.
Stall ==
    /\ ~idle /\ stalls < MaxStalls
    /\ spc \in {"head", "drain", "idle"} /\ batch = <<>> /\ read_index < Count
    /\ idle' = TRUE
    /\ stalls' = stalls + 1
    /\ UNCHANGED <<write_index, spc, read_index, start, batch, stream, datagrams, st, wire>>

Next == Publish \/ Attach \/ SenderLoop \/ Quiet \/ Stall

Spec == Init /\ [][Next]_vars

-----------------------------------------------------------------------------
(* Properties.                                                             *)

\* The datagrams sent, and the one under construction.
Filled == Append(datagrams, batch)

\* Where the messages drained are: place j of the kth of these.
Drained == UNION {{k} \X (1 .. Len(Filled[k])) : k \in 1 .. Len(Filled)}

Message(p) == Filled[p[1]][p[2]]

Before(p, q) == p[1] < q[1] \/ (p[1] = q[1] /\ p[2] < q[2])

\* Each index the cursor has passed is counted once: as drained or as lapped.
\* It is what lets the report separate loss before the wire from loss on it.
EveryIndexCounted ==
    /\ st.messages + st.lapped_msgs = read_index - start
    /\ st.messages = Cardinality(Drained)

\* Without torn reads, datagrams carry the messages in order and each once,
\* however often the sender was lapped in between: receivers then see a
\* duplicate only as a redundant copy.
DrainedInOrder ==
    ~TornReads => \A p, q \in Drained : Before(p, q) => Message(p) < Message(q)

\* The sender never leaves with messages it has drained and not sent, whatever
\* ends it: --count reached in the middle of a datagram, a signal, the idle timer
\* or a lap just before; and no message left on some of the streams only.
NothingHeldBack ==
    spc = "exit" => /\ batch = <<>> /\ stream = 0
                    /\ st.messages = Cardinality({p \in Drained : p[1] <= dgram_id})

-----------------------------------------------------------------------------
(* What a comment of the source claims and the code does not do.           *)

\* sender.cpp:304 leaves the loop on the idle timer with the comment "producer
\* done": then the ring holds no message the sender has not read.
IdleMeansDone == [][spc = "idle" /\ spc' = "exit" => read_index = write_index]_vars
=============================================================================
