------------------------------ MODULE ShmRing ------------------------------
(***************************************************************************)
(* shm::Ring (src/harness/include/shm_ring.h): a shared-memory broadcast   *)
(* ring with one producer and any number of readers, at the grain of the   *)
(* memory accesses the two sides interleave.                               *)
(*                                                                         *)
(* A message is named by the value its publication stores in Slot.seq, so  *)
(* the message at logical index i is i + 1 and 0 means "never written".    *)
(* A frame is three words that are written and copied one at a time: the   *)
(* length, the msg::Header (seq_id, send_ts_ns) and the payload behind it; *)
(* what a word holds is abstracted to the message it belongs to.           *)
(***************************************************************************)
EXTENDS Naturals, FiniteSets

CONSTANTS
    SlotCount,  \* Header.slot_count
    Count,      \* producer --count; 0 publishes for ever
    Readers     \* processes that read the ring

\* producer.cpp refuses a slot count that is not a power of two, which is what
\* makes "index & mask_" the remainder SlotOf computes.
ASSUME SlotCountAssumption == /\ SlotCount \in Nat \ {0}
                              /\ \E k \in 0 .. 31 : SlotCount = 2 ^ k
ASSUME CountAssumption == Count \in Nat

VARIABLES
    seq,          \* slot -> Slot.seq
    frame,        \* slot -> word -> message the word belongs to
    write_index,  \* Header.write_index
    pc,           \* producer: "frame" (filling), "write_index" (seq stored)
    unwritten,    \* producer: words of the frame still to be written
    rpc,          \* reader -> "detached" | "seq" | "copy" | "edge"
    read_index,   \* reader -> its cursor
    uncopied,     \* reader -> words still to be copied
    out,          \* reader -> its frame buffer
    got           \* reader -> index and contents of the last frame read kOk

producerVars == <<pc, unwritten>>
slotVars     == <<seq, frame, write_index>>
readerVars   == <<rpc, read_index, uncopied, out, got>>
vars         == <<seq, frame, write_index, pc, unwritten,
                  rpc, read_index, uncopied, out, got>>

Slots     == 0 .. SlotCount - 1
Words     == {"frame_len", "header", "payload"}
SlotOf(i) == i % SlotCount
Blank     == [w \in Words |-> 0]
NoFrame   == [at |-> 0, words |-> Blank]
Frames    == [Words -> Nat]

TypeOK ==
    /\ seq \in [Slots -> Nat]
    /\ frame \in [Slots -> Frames]
    /\ write_index \in Nat
    /\ pc \in {"frame", "write_index"}
    /\ unwritten \in SUBSET Words
    /\ rpc \in [Readers -> {"detached", "seq", "copy", "edge"}]
    /\ read_index \in [Readers -> Nat]
    /\ uncopied \in [Readers -> SUBSET Words]
    /\ out \in [Readers -> Frames]
    /\ got \in [Readers -> [at : Nat, words : Frames]]

-----------------------------------------------------------------------------
(* attach(init = true): nothing is published and every seq is 0.           *)
Init ==
    /\ seq = [s \in Slots |-> 0]
    /\ frame = [s \in Slots |-> Blank]
    /\ write_index = 0
    /\ pc = "frame"
    /\ unwritten = Words
    /\ rpc = [r \in Readers |-> "detached"]
    /\ read_index = [r \in Readers |-> 0]
    /\ uncopied = [r \in Readers |-> {}]
    /\ out = [r \in Readers |-> Blank]
    /\ got = [r \in Readers |-> NoFrame]

-----------------------------------------------------------------------------
(* publish().  frame_len and the bytes memcpy moves are plain stores: only *)
(* the release-store of seq orders them, so any order among them is built. *)

MorePending == Count = 0 \/ write_index < Count

WriteWord(w) ==
    /\ pc = "frame" /\ MorePending
    /\ w \in unwritten
    /\ frame' = [frame EXCEPT ![SlotOf(write_index)][w] = write_index + 1]
    /\ unwritten' = unwritten \ {w}
    /\ UNCHANGED <<seq, write_index, pc, readerVars>>

\* Mutant: the seq may be stored while the frame is still being written.
StoreSeqEarly ==
    /\ pc = "frame"
    /\ seq' = [seq EXCEPT ![SlotOf(write_index)] = write_index + 1]
    /\ pc' = "write_index"
    /\ UNCHANGED <<frame, write_index, unwritten, readerVars>>

StoreSeq ==
    /\ pc = "frame" /\ unwritten = {}
    /\ seq' = [seq EXCEPT ![SlotOf(write_index)] = write_index + 1]
    /\ pc' = "write_index"
    /\ UNCHANGED <<frame, write_index, unwritten, readerVars>>

StoreWriteIndex ==
    /\ pc = "write_index"
    /\ write_index' = write_index + 1
    /\ pc' = "frame"
    /\ unwritten' = Words
    /\ UNCHANGED <<seq, frame, readerVars>>

Producer == (\E w \in Words : WriteWord(w)) \/ StoreSeq \/ StoreWriteIndex

-----------------------------------------------------------------------------
(* read(), called in a loop by the consumer and by the sender.             *)

live_edge == write_index

\* A reader starts at 0 or, with --from-edge, at the live edge.
Attach(r) ==
    /\ rpc[r] = "detached"
    /\ \E start \in {0, live_edge} :
           read_index' = [read_index EXCEPT ![r] = start]
    /\ rpc' = [rpc EXCEPT ![r] = "seq"]
    /\ UNCHANGED <<slotVars, producerVars, uncopied, out, got>>

Want(r) == read_index[r] + 1
SeqOf(r) == seq[SlotOf(read_index[r])]

\* Mutant: a seq that moved on is taken for an empty slot.
LoadSeqIgnoringLaps(r) ==
    /\ rpc[r] = "seq"
    /\ SeqOf(r) = Want(r)
    /\ rpc' = [rpc EXCEPT ![r] = "copy"]
    /\ uncopied' = [uncopied EXCEPT ![r] = Words]
    /\ UNCHANGED <<slotVars, producerVars, read_index, out, got>>

\* First load of seq.  A seq below Want is kEmpty: the caller polls again and
\* nothing has changed.
LoadSeq(r) ==
    /\ rpc[r] = "seq"
    /\ \/ /\ SeqOf(r) = Want(r)
          /\ rpc' = [rpc EXCEPT ![r] = "copy"]
          /\ uncopied' = [uncopied EXCEPT ![r] = Words]
       \/ /\ SeqOf(r) > Want(r)
          /\ rpc' = [rpc EXCEPT ![r] = "edge"]
          /\ UNCHANGED uncopied
    /\ UNCHANGED <<slotVars, producerVars, read_index, out, got>>

\* The length is loaded first, memcpy moves the rest in an order of its own.
CopyWord(r, w) ==
    /\ rpc[r] = "copy"
    /\ w \in uncopied[r]
    /\ w = "frame_len" \/ "frame_len" \notin uncopied[r]
    /\ out' = [out EXCEPT ![r][w] = frame[SlotOf(read_index[r])][w]]
    /\ uncopied' = [uncopied EXCEPT ![r] = @ \ {w}]
    /\ UNCHANGED <<slotVars, producerVars, rpc, read_index, got>>

\* Mutant: the copy is trusted without a second load.
RecheckNothing(r) ==
    /\ rpc[r] = "copy" /\ uncopied[r] = {}
    /\ got' = [got EXCEPT ![r] = [at |-> read_index[r], words |-> out[r]]]
    /\ read_index' = [read_index EXCEPT ![r] = @ + 1]
    /\ rpc' = [rpc EXCEPT ![r] = "seq"]
    /\ UNCHANGED <<slotVars, producerVars, uncopied, out>>

\* Second load of seq: unchanged is kOk and the caller moves on by one.
Recheck(r) ==
    /\ rpc[r] = "copy" /\ uncopied[r] = {}
    /\ \/ /\ SeqOf(r) = Want(r)
          /\ got' = [got EXCEPT ![r] = [at |-> read_index[r], words |-> out[r]]]
          /\ read_index' = [read_index EXCEPT ![r] = @ + 1]
          /\ rpc' = [rpc EXCEPT ![r] = "seq"]
       \/ /\ SeqOf(r) # Want(r)
          /\ rpc' = [rpc EXCEPT ![r] = "edge"]
          /\ UNCHANGED <<read_index, got>>
    /\ UNCHANGED <<slotVars, producerVars, uncopied, out>>

\* Mutants: the edge itself, a position counted from seq instead of from the
\* index, one slot before the oldest, and two laps back without the clamp.
ResumeAtEdge     == live_edge
ResumePastEdge   == live_edge + 1
ResumeTooFarBack == IF live_edge > SlotCount THEN live_edge - SlotCount - 1 ELSE 0
ResumeUnclamped  == live_edge - 2 * SlotCount

resume_at == IF live_edge > SlotCount THEN live_edge - SlotCount ELSE 0

\* kLapped: the caller jumps to the position read() computed.
Lapped(r) ==
    /\ rpc[r] = "edge"
    /\ read_index' = [read_index EXCEPT ![r] = resume_at]
    /\ rpc' = [rpc EXCEPT ![r] = "seq"]
    /\ UNCHANGED <<slotVars, producerVars, uncopied, out, got>>

Read(r) == LoadSeq(r) \/ (\E w \in Words : CopyWord(r, w)) \/ Recheck(r) \/ Lapped(r)

-----------------------------------------------------------------------------
Next == Producer \/ \E r \in Readers : Attach(r) \/ Read(r)

Spec == Init /\ [][Next]_vars

\* The producer loops without blocking until --count messages are out; a reader
\* that has attached spins on read().  Nobody is obliged to attach.
Fairness == WF_vars(Producer) /\ \A r \in Readers : WF_vars(Read(r))

FairSpec == Spec /\ Fairness

-----------------------------------------------------------------------------
(* Properties.                                                             *)

\* Messages whose seq is visible: write_index lags it by one between the two
\* stores that end publish().
Published == IF pc = "write_index" THEN write_index + 1 ELSE write_index

Torn(r) == \E w \in Words : got[r].words[w] # got[r].words["header"]

\* A frame read kOk may mix two messages (see NoTornRead) but never more than
\* the message asked for and the one that overwrites it a lap later: the second
\* load of seq in read() stops everything else.
OnlyTheLapMixes ==
    \A r \in Readers : got[r] # NoFrame =>
        \A w \in Words : got[r].words[w] \in {got[r].at + 1, got[r].at + 1 + SlotCount}

\* A foreign word in a frame read kOk means the producer had come all the way
\* round to that slot: a reader that stays less than SlotCount behind always
\* gets the message it asked for.
ForeignOnlyWhenLapped ==
    \A r \in Readers : got[r] # NoFrame =>
        \/ \A w \in Words : got[r].words[w] = got[r].at + 1
        \/ write_index >= got[r].at + SlotCount

\* A reader's cursor never runs ahead of what is published, whatever mixture of
\* laps and reads brought it there; ahead of it, read() would answer kEmpty
\* while messages go by uncounted.
CursorWithinPublished == \A r \in Readers : read_index[r] <= Published

\* Once attached, a cursor only moves forward; a resume_at behind it would read
\* messages a second time.
NeverBackward ==
    [][\A r \in Readers : rpc[r] # "detached" => read_index'[r] >= read_index[r]]_vars

\* Every index a cursor passes was either read kOk by that step or had already
\* been overwritten: a lap skips nothing that could still be read.
NoNeedlessSkip ==
    [][\A r \in Readers : rpc[r] # "detached" =>
          \A i \in read_index[r] .. read_index'[r] - 1 :
              \/ i = read_index[r] /\ got'[r].at = i /\ got'[r].words = out[r]
              \/ seq[SlotOf(i)] >= i + 1 + SlotCount]_vars

\* To its caller a read is one step, for all that it loads seq twice and the edge
\* after them: RingReads, which the models of the processes at the ring's two ends
\* are built on, allows every answer.  kEmpty and kOk are answers of the ring as
\* the seqs have it at the last load; kLapped and resume_at are those of the ring
\* as write_index has it, which may be one message behind.
Reads == INSTANCE RingReads

ReadsAsOneStep ==
    [][\A r \in Readers :
          LET i         == read_index[r]
              answers(c) == rpc[r] = c /\ rpc'[r] = "seq"
          IN
          /\ rpc[r] = "seq" /\ SeqOf(r) < Want(r) => Reads!Empty(Published, i)
          /\ answers("copy") =>
                /\ Reads!IsOk(Published, SlotCount, i)
                /\ got'[r].words["header"] \in
                       Reads!Headers(Published, SlotCount, i, pc = "frame" /\ unwritten # Words)
                /\ read_index'[r] = i + 1
          /\ answers("edge") =>
                /\ Reads!IsLapped(write_index, SlotCount, i, pc = "write_index")
                /\ read_index'[r] = Reads!ResumeAt(write_index, SlotCount)]_vars

\* When the producer has finished, every attached reader reaches the end of the
\* ring, however far it had been lapped.
CatchesUp ==
    \A r \in Readers :
        (rpc[r] # "detached" /\ ~MorePending) ~> (read_index[r] = Count)

\* The safety CatchesUp rests on, in two parts.  A reader of a ring whose producer
\* has finished is told kEmpty at the end only.
EmptyOnlyAtTheEnd ==
    ~MorePending => \A r \in Readers :
        rpc[r] = "seq" /\ read_index[r] < Count => SeqOf(r) >= Want(r)

\* And each of its steps brings it nearer to the end, the one that jumps on after
\* a lap no less than the one that takes a frame.
StepsLeft(r) ==
    6 * (Count - read_index[r]) + CASE rpc[r] = "seq"  -> 6
                                    [] rpc[r] = "copy" -> 2 + Cardinality(uncopied[r])
                                    [] OTHER           -> 1

FinishedRingDrains ==
    [][~MorePending => \A r \in Readers : rpc[r] # "detached" =>
          \/ UNCHANGED <<rpc[r], read_index[r], uncopied[r]>>
          \/ StepsLeft(r)' < StepsLeft(r)]_vars

-----------------------------------------------------------------------------
(* The inductive invariant behind the safety properties.                   *)

\* A slot holds the youngest published message of its residue: seq never names
\* a message of another slot, of the future, or one a lap too old.
SlotsCurrent ==
    /\ \A s \in Slots : /\ seq[s] <= Published
                        /\ seq[s] = 0 \/ SlotOf(seq[s] - 1) = s
    /\ \A i \in 0 .. Published - 1 : seq[SlotOf(i)] >= i + 1

\* Each word belongs to the message seq names, but for the words already
\* written of the message in progress.
FramesMatchSeq ==
    \A s \in Slots, w \in Words :
        frame[s][w] = IF pc = "frame" /\ s = SlotOf(write_index) /\ w \notin unwritten
                      THEN write_index + 1 ELSE seq[s]

\* A word read for index i is of message i + 1, or of the one a lap later if the
\* producer has begun to write that.
WordFor(i, word) == \/ word = i + 1
                    \/ /\ word = i + 1 + SlotCount
                       /\ write_index >= i + SlotCount
                       /\ write_index = i + SlotCount => unwritten # Words

ReaderInv(r) ==
    /\ read_index[r] <= Published
    /\ rpc[r] = "copy" =>
          /\ SeqOf(r) >= Want(r)
          /\ SeqOf(r) = Want(r) =>
                \A w \in Words \ uncopied[r] : WordFor(read_index[r], out[r][w])
    /\ rpc[r] = "edge" => SeqOf(r) > Want(r)
    /\ got[r] # NoFrame => \A w \in Words : WordFor(got[r].at, got[r].words[w])

IndInv == TypeOK /\ SlotsCurrent /\ FramesMatchSeq /\ \A r \in Readers : ReaderInv(r)

-----------------------------------------------------------------------------
(* What comments of the source claim and the code does not do.             *)

\* shm_ring.h:105 "Re-check seq: if the producer began overwriting mid-copy, we
\* were lapped": a frame read kOk is then of one message.
NoTornRead == \A r \in Readers : ~Torn(r)

-----------------------------------------------------------------------------
(* What a reader is promised: BroadcastLog, with a message published when  *)
(* its seq is visible.                                                     *)
Log == INSTANCE BroadcastLog WITH
           published <- Published,
           joined    <- [r \in Readers |-> rpc[r] # "detached"],
           cursor    <- read_index,
           got       <- got

ImplementsBroadcastLog == Log!Spec
=============================================================================
