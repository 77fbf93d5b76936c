-------------------------------- MODULE Wire --------------------------------
(***************************************************************************)
(* The datagram format (src/transport/include/wire.h): wire::Builder fills *)
(* one buffer with frames, wire::Reader walks what arrived of it.  A byte  *)
(* is only a position; frames are told apart by the seq of their header.   *)
(***************************************************************************)
EXTENDS Integers, Sequences, SequencesExt

CONSTANTS
    HeaderSize,  \* sizeof(DgramHeader)
    RecordSize,  \* sizeof(RawRecord)
    FrameCap,    \* shm::kFrameCap, the longest frame
    Cap,         \* kMaxDatagram
    FrameLens    \* the lengths frames have

ASSUME WireAssumption ==
    /\ HeaderSize \in Nat \ {0} /\ RecordSize \in Nat \ {0}
    /\ FrameCap \in Nat \ {0} /\ Cap \in Nat /\ HeaderSize <= Cap
    /\ FrameLens \subseteq 0 .. FrameCap

VARIABLES
    len,      \* Builder.len_
    n_msgs,   \* of the header
    first,    \* first_msg_seq of the header, 0 before the first frame
    records,  \* the records in the buffer: [off, len, seq]
    staged,   \* length of a frame read into append_ptr, -1 if there is none
    arrived,  \* bytes of the datagram that arrived, -1 before it does
    off,      \* Reader.off_
    n_seen,   \* Reader.n_seen_
    yielded,  \* history: the frames next_raw returned
    outcome   \* "none" | "refused" | "complete" | "incomplete", of the walk

buildVars == <<len, n_msgs, first, records, staged>>
readVars  == <<arrived, off, n_seen, yielded, outcome>>
wireVars  == <<buildVars, readVars>>

NoFrame == -1

Frames == [off : 0 .. Cap, len : FrameLens, seq : Nat]

WireTypeOK ==
    /\ len \in HeaderSize .. Cap /\ n_msgs \in 0 .. Cap /\ first \in 0 .. Cap
    /\ \A k \in 1 .. Len(records) : records[k] \in Frames
    /\ staged \in FrameLens \cup {NoFrame}
    /\ arrived \in -1 .. Cap /\ off \in 0 .. Cap /\ n_seen \in 0 .. Cap
    /\ \A k \in 1 .. Len(yielded) : yielded[k] \in Frames
    /\ outcome \in {"none", "refused", "complete", "incomplete"}

\* The state begin() leaves.
WireInit ==
    /\ len = HeaderSize /\ n_msgs = 0 /\ first = 0 /\ records = <<>> /\ staged = NoFrame
    /\ arrived = -1 /\ off = 0 /\ n_seen = 0 /\ yielded = <<>> /\ outcome = "none"

-----------------------------------------------------------------------------
(* The builder.                                                            *)

Building == arrived = -1

\* A frame of length l is in the buffer and in the header.
Commit(l) ==
    LET seq == n_msgs + 1 IN
    /\ records' = Append(records, [off |-> len + RecordSize, len |-> l, seq |-> seq])
    /\ first' = IF first = 0 THEN seq ELSE first
    /\ len' = len + RecordSize + l
    /\ n_msgs' = n_msgs + 1

\* append_ptr(kFrameCap) offered a place and the ring copied a frame there.
Stage ==
    /\ Building /\ staged = NoFrame
    /\ len + RecordSize + FrameCap <= Cap
    /\ staged' \in FrameLens
    /\ UNCHANGED <<len, n_msgs, first, records, readVars>>

AppendCommit ==
    /\ Building /\ staged # NoFrame
    /\ Commit(staged)
    /\ staged' = NoFrame
    /\ UNCHANGED readVars

\* The read turned out to have been lapped.
Abandon ==
    /\ Building /\ staged # NoFrame
    /\ staged' = NoFrame
    /\ UNCHANGED <<len, n_msgs, first, records, readVars>>

\* Mutant: the frame is written where it does not fit.
AppendRawUnchecked ==
    /\ Building /\ staged = NoFrame
    /\ len < Cap
    /\ \E l \in FrameLens : Commit(l)
    /\ UNCHANGED <<staged, readVars>>

\* append_raw() that finds room for the very frame; a refusal changes nothing.
AppendRaw ==
    /\ Building /\ staged = NoFrame
    /\ \E l \in FrameLens : len + RecordSize + l <= Cap /\ Commit(l)
    /\ UNCHANGED <<staged, readVars>>

-----------------------------------------------------------------------------
(* The reader.                                                             *)

\* All of the datagram arrives, or less of it; reset() looks at the header.
ReaderReset ==
    /\ Building /\ staged = NoFrame
    /\ arrived' \in 0 .. len
    /\ off' = HeaderSize
    /\ outcome' = IF arrived' < HeaderSize THEN "refused" ELSE "none"
    /\ UNCHANGED <<buildVars, n_seen, yielded>>

Walking == ~Building /\ outcome = "none"

\* Mutant: only the length record is checked to have arrived.
HasNextUnchecked == n_seen < n_msgs /\ off + RecordSize <= arrived

\* next_raw() finds another record whole.
HasNext ==
    /\ n_seen < n_msgs
    /\ off + RecordSize <= arrived
    /\ off + RecordSize + records[n_seen + 1].len <= arrived

NextRaw ==
    /\ Walking /\ HasNext
    /\ LET rec == records[n_seen + 1] IN
       /\ yielded' = Append(yielded, [rec EXCEPT !.off = off + RecordSize])
       /\ off' = off + RecordSize + rec.len
    /\ n_seen' = n_seen + 1
    /\ UNCHANGED <<buildVars, arrived, outcome>>

\* complete()
Complete == n_seen = n_msgs /\ off = arrived

WalkEnds ==
    /\ Walking /\ ~HasNext
    /\ outcome' = IF Complete THEN "complete" ELSE "incomplete"
    /\ UNCHANGED <<buildVars, arrived, off, n_seen, yielded>>

WireNext == Stage \/ AppendCommit \/ Abandon \/ AppendRaw \/ ReaderReset \/ NextRaw \/ WalkEnds

WireSpec == WireInit /\ [][WireNext]_wireVars

-----------------------------------------------------------------------------
(* Properties.                                                             *)

\* A walk gives the frames appended, in order and from where they were written,
\* as many of them as arrived whole, and never a byte that did not arrive; and
\* complete() tells a whole datagram from a truncated one, wherever it was cut.
YieldsWhatArrived ==
    /\ IsPrefix(yielded, records)
    /\ \A k \in 1 .. Len(yielded) : yielded[k].off + yielded[k].len <= arrived
    /\ outcome \in {"complete", "incomplete"} =>
           /\ \A k \in 1 .. Len(records) :
                  records[k].off + records[k].len <= arrived => k <= Len(yielded)
           /\ outcome = "complete" <=> arrived = len
=============================================================================
