------------------------------ MODULE Segment ------------------------------
(***************************************************************************)
(* The life of the producer's shared-memory segment: the producer's main   *)
(* (src/harness/src/producer.cpp) creates, sizes, initialises, fills and   *)
(* unlinks it through shm::Segment; a sender waits for it with             *)
(* wait_for_segment (src/transport/src/sender.cpp), maps it and reads.  An *)
(* inode outlives its name for who has it mapped.  Every run of the        *)
(* producer is given the same --shm and --slots.                           *)
(***************************************************************************)
EXTENDS RingReads, Sequences, FiniteSets

CONSTANTS
    MaxRuns,      \* bound: producers started, one after the other
    Slots,        \* of the ring
    MaxMessages,  \* messages each of them publishes
    MaxProbes,    \* timeout_ms / step_ms + 1
    Kills         \* may a producer be killed

ASSUME SegmentAssumption ==
    /\ MaxRuns \in Nat \ {0} /\ Slots \in Nat \ {0}
    /\ MaxMessages \in Nat /\ MaxProbes \in Nat \ {0}
    /\ Kills \in BOOLEAN

VARIABLES
    name,    \* the inode the name stands for, or None
    inodes,  \* inodes[i], one per shm_open that created: see Inodes
    run,     \* producers started
    ppc,     \* "off" | "truncate" | "header" | "slots" | "publish"
    pmap,    \* the inode the producer has mapped
    spc,     \* "probe" | "sleep" | "open" | "attach" | "streams" | "edge" | "read", or one of Ends
    probes,  \* shm_open calls of wait_for_segment
    smap,    \* the inode the sender has mapped, or None
    masked,  \* mask_ was computed from an initialised header
    srun,    \* history: the producer's run when it mapped it
    read_index

producerVars == <<name, inodes, run, ppc, pmap>>
senderVars   == <<spc, probes, smap, masked, srun, read_index>>
vars         == <<producerVars, senderVars>>

None == 0

\* "newest" is the highest seq in the slots: the write index, except between
\* the two loops of a second attach(init).
Inodes == [sized : BOOLEAN, ready : BOOLEAN,
           write_index : 0 .. MaxMessages, newest : 0 .. MaxMessages]

Ends == {"gave_up", "open_failed", "sigbus", "no_stream", "sigsegv", "idle"}

TypeOK ==
    /\ {name, pmap, smap} \subseteq 0 .. Len(inodes)
    /\ \A i \in 1 .. Len(inodes) : inodes[i] \in Inodes
    /\ run \in 0 .. MaxRuns /\ srun \in 0 .. run
    /\ ppc \in {"off", "truncate", "header", "slots", "publish"}
    /\ spc \in {"probe", "sleep", "open", "attach", "streams", "edge", "read"} \cup Ends
    /\ probes \in 0 .. MaxProbes /\ masked \in BOOLEAN
    /\ read_index \in 0 .. MaxMessages

Init ==
    /\ name = None /\ inodes = <<>> /\ run = 0 /\ ppc = "off" /\ pmap = None
    /\ spc = "probe" /\ probes = 0 /\ smap = None /\ masked = FALSE /\ srun = 0 /\ read_index = 0

-----------------------------------------------------------------------------
(* The producer.                                                           *)

\* shm_open with O_CREAT: a segment left behind is opened as it is.
Create ==
    /\ ppc = "off" /\ run < MaxRuns
    /\ run' = run + 1
    /\ IF name = None
       THEN /\ inodes' = Append(inodes, [sized |-> FALSE, ready |-> FALSE,
                                         write_index |-> 0, newest |-> 0])
            /\ name' = Len(inodes')
       ELSE UNCHANGED <<name, inodes>>
    /\ pmap' = name'
    /\ ppc' = "truncate"
    /\ UNCHANGED senderVars

\* Mutant: the segment is unlinked as soon as it is mapped and initialised.
ProducerWritesUnlinking(from, to, i) ==
    /\ ppc = from /\ ppc' = to
    /\ inodes' = [inodes EXCEPT ![pmap] = i]
    /\ name' = IF to = "publish" THEN None ELSE name
    /\ UNCHANGED <<run, pmap, senderVars>>

\* The producer goes from one step to the next and has changed its inode to i.
ProducerWrites(from, to, i) ==
    /\ ppc = from /\ ppc' = to
    /\ inodes' = [inodes EXCEPT ![pmap] = i]
    /\ UNCHANGED <<name, run, pmap, senderVars>>

\* ftruncate: new bytes are zero, and with the same size nothing changes.
Truncate == ProducerWrites("truncate", "header", [inodes[pmap] EXCEPT !.sized = TRUE])

\* Ring::attach with init: the header with write_index, then every seq.
InitHeader ==
    ProducerWrites("header", "slots", [inodes[pmap] EXCEPT !.ready = TRUE, !.write_index = 0])

InitSlots == ProducerWrites("slots", "publish", [inodes[pmap] EXCEPT !.newest = 0])

Publish ==
    LET w == inodes[pmap].write_index IN
    /\ ppc = "publish" /\ w < MaxMessages
    /\ ProducerWrites("publish", "publish",
                      [inodes[pmap] EXCEPT !.write_index = w + 1, !.newest = w + 1])

\* All is published: unlink().
Finish ==
    /\ ppc = "publish" /\ inodes[pmap].write_index = MaxMessages
    /\ name' = None
    /\ ppc' = "off" /\ pmap' = None
    /\ UNCHANGED <<inodes, run, senderVars>>

\* The producer handles no signal, so nothing unlinks the segment.
Kill ==
    /\ Kills /\ ppc # "off"
    /\ ppc' = "off" /\ pmap' = None
    /\ UNCHANGED <<name, inodes, run, senderVars>>

-----------------------------------------------------------------------------
(* The sender.                                                             *)

\* Mutant: any segment of that name will do.
IsThereUnsized == name # None

\* shm_open succeeds and fstat says the segment is large enough.
IsThere == name # None /\ inodes[name].sized

\* Mutant: the timeout is never looked at.
TimedOutNever(n) == FALSE

TimedOut(n) == n = MaxProbes

Probe ==
    /\ spc = "probe"
    /\ probes' = IF probes < MaxProbes THEN probes + 1 ELSE probes
    /\ spc' = IF IsThere THEN "open" ELSE IF TimedOut(probes') THEN "gave_up" ELSE "sleep"
    /\ UNCHANGED <<smap, masked, srun, read_index, producerVars>>

Sleep ==
    /\ spc = "sleep"
    /\ spc' = "probe"
    /\ UNCHANGED <<probes, smap, masked, srun, read_index, producerVars>>

\* Segment::open: a second shm_open, of what may be another segment by now.
Open ==
    /\ spc = "open"
    /\ IF name = None
       THEN spc' = "open_failed" /\ UNCHANGED <<smap, srun>>
       ELSE spc' = "attach" /\ smap' = name /\ srun' = run
    /\ UNCHANGED <<probes, masked, read_index, producerVars>>

\* Ring::attach takes slot_count - 1 for its mask.  A page past the end of the
\* segment is a SIGBUS.
Attach ==
    /\ spc = "attach"
    /\ spc' = IF inodes[smap].sized THEN "streams" ELSE "sigbus"
    /\ masked' = inodes[smap].ready
    /\ UNCHANGED <<probes, smap, srun, read_index, producerVars>>

\* The streams are opened, a source port that is taken ends main; calibration.
OpenStreams ==
    /\ spc = "streams"
    /\ spc' \in {"edge", "no_stream"}
    /\ UNCHANGED <<probes, smap, masked, srun, read_index, producerVars>>

\* live_edge() or, with --no-from-edge, the beginning.
Edge ==
    /\ spc = "edge"
    /\ spc' = "read"
    /\ read_index' \in {0, inodes[smap].write_index}
    /\ UNCHANGED <<probes, smap, masked, srun, producerVars>>

Newest == inodes[smap].newest

\* With a mask of all ones the index itself is the slot's, and from the first
\* lap on it is outside of the mapping.
Wild == ~masked /\ read_index >= Slots

ReadWild ==
    /\ spc = "read" /\ Wild
    /\ spc' = "sigsegv"
    /\ UNCHANGED <<probes, smap, masked, srun, read_index, producerVars>>

ReadOne ==
    /\ spc = "read" /\ ~Wild /\ IsOk(Newest, Slots, read_index)
    /\ read_index' = read_index + 1
    /\ UNCHANGED <<spc, probes, smap, masked, srun, producerVars>>

\* seq is too high, but the edge may be that of a ring initialised meanwhile.
\* Nothing was sent, so that the idle timer is looked at.
ReadLapped ==
    /\ spc = "read" /\ ~Wild /\ IsLapped(Newest, Slots, read_index, FALSE)
    /\ read_index' = ResumeAt(inodes[smap].write_index, Slots)
    /\ spc' \in {"read", "idle"}
    /\ UNCHANGED <<probes, smap, masked, srun, producerVars>>

\* Nothing to read, and nothing sent for idle_ms, or the clock was set back.
IdleExit ==
    /\ spc = "read" /\ ~Wild /\ Empty(Newest, read_index)
    /\ spc' = "idle"
    /\ UNCHANGED <<probes, smap, masked, srun, read_index, producerVars>>

Approach == Probe \/ Sleep \/ Open \/ Attach \/ OpenStreams \/ Edge

ProducerNext == Create \/ Truncate \/ InitHeader \/ InitSlots \/ Publish \/ Finish \/ Kill
SenderNext   == Approach \/ ReadWild \/ ReadOne \/ ReadLapped \/ IdleExit

Next == ProducerNext \/ SenderNext

Spec == Init /\ [][Next]_vars

-----------------------------------------------------------------------------
(* Properties.                                                             *)

\* With one run of the producer, the check of the size keeps the sender from
\* touching a page that is not there, however the two interleave.
FirstRunNoSigbus == run <= 1 => spc # "sigbus"

\* While the run a sender attached in is still publishing, the sender reads the
\* ring that run writes, which is the one the name still leads others to.
ReadsTheLiveRing ==
    (spc = "read" /\ srun = run /\ ppc = "publish") =>
        smap = pmap /\ smap = name

-----------------------------------------------------------------------------
(* What a comment of the source claims and the code does not do.           *)

\* sender.cpp:101-103: "we can attach to a segment that is about to vanish, or
\* mmap one that is still zero-length and take a SIGBUS on first touch.
\* Checking the size closes both windows."
SizeCheckClosesWindow == spc # "sigbus"
=============================================================================
