------------------------------ MODULE Receiver ------------------------------
(***************************************************************************)
(* The receiver's loop (src/transport/src/receiver.cpp) between the socket *)
(* and the consumer's ring: take what the socket holds, datagram by        *)
(* datagram and frame by frame, and publish each message the duplicate     *)
(* filter lets through.                                                    *)
(*                                                                         *)
(* "wire" holds the copies on their way.  Those recvmmsg did not return    *)
(* yet are late, or lost: a poll may find nothing whatever the set holds.  *)
(* A copy is the sequence of its frames' seq_id; the port is open, so that *)
(* it may also hold what no sender of ours has sent: see Alien, Short, Cut.*)
(***************************************************************************)
EXTENDS Dedup, Sequences, SequencesExt

CONSTANTS
    Me,             \* this receiver, as the senders' --dest
    RxMax,          \* datagrams one recvmmsg can return, the 32 of RxBatch<32>
    ReceiverCount,  \* receiver --count; 0 is no limit
    Drops,          \* may --drop-pct discard a datagram
    RxSignals       \* may SIGINT or SIGTERM arrive

ASSUME ReceiverAssumption ==
    /\ RxMax \in Nat \ {0} /\ ReceiverCount \in Nat
    /\ Drops \in BOOLEAN /\ RxSignals \in BOOLEAN

VARIABLES
    wire,    \* copies in flight: [dest, stream, id, msgs]
    rpc,     \* "poll" | "datagrams" | "frames" | "exit"
    rx,      \* datagrams of the batch still to be read
    frames,  \* messages of the open datagram still to be read
    window,  \* dd, the duplicate filter
    ring,    \* what was published in the consumer's ring; its index is the length
    rst,     \* Stats
    ridle,   \* more than idle_ms since last_progress
    opened   \* history: copies read past the dropper

receiverVars == <<rpc, rx, frames, window, ring, rst, ridle, opened>>
vars         == <<wire, receiverVars>>

published == Len(ring)

Alien == -1  \* the id of a datagram in whose header reset() finds a fault
Short == 0   \* a frame with no room for a msg::Header
Cut   == -1  \* the end of a datagram behind which more was announced

Stats == [{"datagrams", "messages", "malformed", "injected_drops"} -> Nat]

ReceiverTypeOK ==
    /\ rpc \in {"poll", "datagrams", "frames", "exit"}
    /\ Len(rx) <= RxMax
    /\ rpc = "poll" => rx = <<>>
    /\ rpc # "frames" => frames = <<>>
    /\ window \in Windows
    /\ \A k \in 1 .. published : ring[k] \in Nat
    /\ rst \in Stats
    /\ ridle \in BOOLEAN

ReceiverInit ==
    /\ rpc = "poll" /\ rx = <<>> /\ frames = <<>>
    /\ window = Fresh /\ ring = <<>>
    /\ rst = [datagrams |-> 0, messages |-> 0, malformed |-> 0, injected_drops |-> 0]
    /\ ridle = FALSE /\ opened = {}

-----------------------------------------------------------------------------
RxCountReached == ReceiverCount # 0 /\ published >= ReceiverCount

\* Mutant: one more datagram than the batch has room for.
RoomOneMore == 1 .. RxMax + 1

Room == 1 .. RxMax

\* What one recvmmsg may return: some of the copies on their way to this
\* receiver, in any order, since streams and paths overtake each other.
Returns == UNION {SetToSeqs(s) : s \in
               {s \in SUBSET {c \in wire : c.dest = Me} : Cardinality(s) \in Room}}

Recv ==
    /\ rpc = "poll" /\ ~RxCountReached
    /\ \E q \in Returns : rx' = q /\ wire' = wire \ ToSet(q)
    /\ rpc' = "datagrams"
    /\ UNCHANGED <<frames, window, ring, rst, ridle, opened>>

\* recvmmsg found nothing, and has found nothing for idle_ms.
RxIdleExit ==
    /\ rpc = "poll" /\ ~RxCountReached /\ ridle
    /\ rpc' = "exit"
    /\ UNCHANGED <<wire, rx, frames, window, ring, rst, ridle, opened>>

\* The loop condition fails, which is looked at between batches only, or
\* recvmmsg returns an error, as it does when a signal arrives meanwhile.
RxStop ==
    /\ rpc = "poll" /\ (RxSignals \/ RxCountReached)
    /\ rpc' = "exit"
    /\ UNCHANGED <<wire, rx, frames, window, ring, rst, ridle, opened>>

\* reset() fails.
Reject ==
    /\ rpc = "datagrams" /\ rx # <<>> /\ rx[1].id = Alien
    /\ rst' = [rst EXCEPT !.datagrams = @ + 1, !.malformed = @ + 1]
    /\ rx' = Tail(rx)
    /\ UNCHANGED <<wire, rpc, frames, window, ring, ridle, opened>>

Drop ==
    /\ Drops /\ rpc = "datagrams" /\ rx # <<>> /\ rx[1].id # Alien
    /\ rst' = [rst EXCEPT !.datagrams = @ + 1, !.injected_drops = @ + 1]
    /\ rx' = Tail(rx)
    /\ UNCHANGED <<wire, rpc, frames, window, ring, ridle, opened>>

Open ==
    /\ rpc = "datagrams" /\ rx # <<>> /\ rx[1].id # Alien
    /\ rst' = [rst EXCEPT !.datagrams = @ + 1]
    /\ frames' = rx[1].msgs
    /\ opened' = opened \cup {rx[1]}
    /\ rx' = Tail(rx)
    /\ rpc' = "frames"
    /\ UNCHANGED <<wire, window, ring, ridle>>

\* next_raw() has a frame to return.
HasFrame == rpc = "frames" /\ frames # <<>> /\ frames[1] # Cut

ShortFrame ==
    /\ HasFrame /\ frames[1] = Short
    /\ rst' = [rst EXCEPT !.messages = @ + 1, !.malformed = @ + 1]
    /\ frames' = Tail(frames)
    /\ UNCHANGED <<wire, rpc, rx, window, ring, ridle, opened>>

\* Mutant: a message the filter calls too old is published.
PublishesOld(seq_id) == Verdict(window, seq_id) # "duplicate"

Publishes(seq_id) == Verdict(window, seq_id) = "new"

\* Mutant: a duplicate ends the datagram.
RestIfNew == IF Verdict(window, frames[1]) = "new" THEN Tail(frames) ELSE <<>>

Rest == Tail(frames)

\* publish(), if accept() says that it is new.
NextFrame ==
    /\ HasFrame /\ frames[1] # Short
    /\ rst' = [rst EXCEPT !.messages = @ + 1]
    /\ window' = Accept(window, frames[1])
    /\ ring' = IF Publishes(frames[1]) THEN Append(ring, frames[1]) ELSE ring
    /\ frames' = Rest
    /\ UNCHANGED <<wire, rpc, rx, ridle, opened>>

\* complete() fails if anything is left.
Close ==
    /\ rpc = "frames" /\ ~HasFrame
    /\ rst' = [rst EXCEPT !.malformed = @ + Len(frames)]
    /\ frames' = <<>>
    /\ rpc' = "datagrams"
    /\ UNCHANGED <<wire, rx, window, ring, ridle, opened>>

\* The batch is read: last_progress = now.
BatchDone ==
    /\ rpc = "datagrams" /\ rx = <<>>
    /\ rpc' = "poll"
    /\ ridle' = FALSE
    /\ UNCHANGED <<wire, rx, frames, window, ring, rst, opened>>

ReceiverLoop == \/ Recv \/ RxIdleExit \/ RxStop \/ Reject \/ Drop \/ Open
                \/ ShortFrame \/ NextFrame \/ Close \/ BatchDone

\* Nothing arrives for idle_ms, because nothing was sent or all of it is late.
RxQuiet ==
    /\ rpc = "poll" /\ ~ridle
    /\ ridle' = TRUE
    /\ UNCHANGED <<wire, rpc, rx, frames, window, ring, rst, opened>>

ReceiverNext == ReceiverLoop \/ RxQuiet

-----------------------------------------------------------------------------
(* Properties.                                                             *)

\* No message is in the consumer's ring twice, whatever copies of it arrived
\* and in whatever order: the consumer counts one reception per ring slot.
PublishedOnce == IsInjective(ring)

\* Where the frames of the copies in cs are: frame k of copy c.
FramesOf(cs) == UNION {{c} \X (1 .. Len(c.msgs)) : c \in cs}

Frame(p) == p[1].msgs[p[2]]

\* How many frames of the copies opened are among kinds.
Number(kinds) == Cardinality({p \in FramesOf(opened) : Frame(p) \in kinds})

\* Whenever the report may be printed, every datagram and every frame is in
\* one of its columns, whatever the port was sent: what the filter was asked,
\* frames too short and nothing else among the messages; among "malformed" the
\* latter, datagrams rejected whole and those that were cut.  "accepted" is what
\* the ring got.
EveryFrameAccounted ==
    /\ window.accepted = published
    /\ rpc = "poll" =>
          /\ rst.messages = Number(Nat)
          /\ rst.messages - Number({Short}) =
                 window.accepted + window.duplicates + window.too_old
          /\ rst.malformed = (rst.datagrams - rst.injected_drops - Cardinality(opened))
                             + Number({Short}) + Number({Cut})

\* Messages of the copies in cs.
MessagesOf(cs) == (UNION {ToSet(c.msgs) : c \in cs}) \ {Short, Cut}

\* Messages of opened datagrams that were read to the end.
Read == MessagesOf(opened) \ ToSet(frames)

\* One copy is enough: what any copy let past the dropper carried is in the
\* ring, unless a message a whole window newer was published first; a frame that
\* is malformed costs nothing of the same datagram but itself; and the ring has
\* nothing that came from nowhere.
OneCopySuffices ==
    /\ \A m \in Read : m \notin ToSet(ring) => \E r \in ToSet(ring) : r - m >= Window
    /\ ToSet(ring) \subseteq MessagesOf(opened)
=============================================================================
