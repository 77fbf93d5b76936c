# The low-latency transport in TLA+

The repository is a solution to a data-transfer challenge: a *producer* writes
market messages into a shared-memory ring, a *sender* drains the ring into UDP
datagrams and sends redundant copies of each on several streams, a *receiver*
removes the duplicates and publishes what is left into a second ring, and a
*consumer* reads that one and reports latency and drops. Producer and consumer
(`src/harness`) are given; sender and receiver (`src/transport`) are the work.
This directory holds TLA+ models of that code, the TLC runs that check them and
proofs that TLAPS checks.

## Inventory

| part | state | operations | talks to |
|---|---|---|---|
| ring, `shm_ring.h` | slots (`seq`, length, frame), `write_index` | `attach`, `publish`, `read`, `live_edge` | one writer and any readers share the memory; no locks |
| segment, `shm_segment.h` | a name and the memory it stands for | `open` (create or not), `unlink` | producer, sender, receiver, consumer |
| producer, `producer.cpp` | messages published, time of the next | creates the segment, publishes `--count` messages at `--rate`, unlinks | ring |
| sender, `sender.cpp` | cursor, datagram under construction, `Stats`, idle timer | handshake, wait for the segment, drain, flush on every stream, stop | producer's ring, UDP streams, control channel |
| UDP streams, `net.h` | rotation, counters | `send_all` (one `sendmmsg`), `recv` (one `recvmmsg`) | kernel and network: loss, reordering, short counts |
| datagram format, `wire.h` | buffer and positions | `append_ptr`/`append_commit`, `append_raw`, `reset`, `next_raw`, `complete` | sender builds, receiver walks |
| receiver, `receiver.cpp` | batch, filter, `Stats`, idle timer | handshake, receive, drop on purpose, parse, filter, publish | UDP, consumer's ring |
| duplicate filter, `dedup.h` | base, bitmap, counters | `accept`, `seen`, `reset` | receiver |
| control channel, `control.h` | one connection, a hello, an ack | `listen_on`, `accept_hello`, `connect_hello`, `close` | sender and receiver over TCP |
| histogram, `hist.h` | buckets, count, min, max | `record`, `merge`, `reset`, `percentile` | sender and receiver |
| consumer, `consumer.cpp` | cursor, idle timer | read, skip, stop | receiver's ring |
| metrics, `metrics.h` | received, lowest and highest `seq_id`, latencies | `record`, `report` | consumer |
| calibration, `tsc.h` | two anchors of counter and wall clock | `sample_anchor`, `calibrate` | sender and receiver, for latencies |
| clock, `util.h`; scripts, `bench/` | | | modelled as far as the others depend on them |
| messages, `message.h` | | | not modelled, see below |

What makes it hard:

* the ring is read while it is overwritten, and the only protection is `seq`;
* readers are lapped, and what they skip must be accounted for and be as little
  as possible;
* redundancy means that every message normally arrives more than once, out of
  order, and the filter's window slides meanwhile;
* nothing announces the end: sender, receiver and consumer stop on idle timers;
* the programs are started in any order, and may be killed and restarted.

What makes each part correct:

* *ring*: a frame read `kOk` is the message asked for; a cursor never goes back,
  never passes the writer, and skips only what is gone;
* *sender*: each message is on the wire in order or counted as lapped; it does
  not stop while there is work;
* *datagram format*: what arrived whole is yielded and nothing else;
* *fan-out*: no receiver is always last or always the one left out;
* *receiver and filter*: published once, and one copy is enough;
* *metrics*: `dropped` is what is missing; the reports of all parts add up;
* *histogram*: a percentile is within a bucket of the exact one, and not below;
* *control channel*: one sender of the same protocol, or both ends fail;
* *segment*: no access to memory that is not there, and the live ring is read;
* *calibration*: the slope is as good as the best readings of the two anchors;
* *pacing*: a pause is caught up, and a clock that is set does not wreck the rate;
* *start-up*: nobody streams before there is something to stream into, and
  nobody waits for ever for a program that does not come;
* *whole*: each message has one turn at most, only the beginning of a stream missed when
  nothing is lost, and everything ends.

`PROJECT.json` lists under `hazards` where in the code each can go wrong.

## Modules

| module | models | how |
|---|---|---|
| `ShmRing` | `Ring::publish` and `Ring::read` | One step per memory access. A frame is three words (length, header, payload) written and copied one at a time, the length first on the reading side. A word's value is the message it belongs to; the message at index *i* is *i*+1, the value of its `seq`. |
| `BroadcastLog` | what a ring promises | Append, join, deliver, skip what `SlotCount` younger messages replaced. `ShmRing` implements it. |
| `RingReads` | the answers of `read` as one step | The view of a ring the processes at its ends have; used by `Sender`, `Consumer` and `Segment`. Every answer of `ShmRing` is one of these (`ReadsAsOneStep`). |
| `Sender` | the loop of `sender.cpp` | One action per way through the drain loop (`DrainFull`, `DrainEmpty`, `DrainLapped`, `DrainOne`), the idle check, one `send_all` per stream. |
| `Dedup`, `DedupWindow` | `dedup::Window` | `Dedup` gives the class as operators on a record whose `bits` are the indices of the 1 bits; `DedupWindow` offers it any numbers in any order. |
| `OnceFilter` | what the filter promises | Remembers everything; refuses a number let through before or outlived by a window. `DedupWindow` implements it. |
| `Receiver` | the loop of `receiver.cpp` | Receive a batch; drop, reject or open each datagram; one frame at a time, too short, cut or whole, through `Dedup`; publish. |
| `Metrics`, `Consumer` | `metrics::Accumulator`, the loop of `consumer.cpp` | Received, lowest, highest. `ReadOk` takes its header from `RingReads!Headers`: while the receiver overwrites the slot (`writing`) it may be that of the next lap. `turns` remembers whose slot it was. |
| `Transport` | the four loops together | `INSTANCE`s of `Sender`, `Receiver`, `Consumer` sharing `wire` and `ring`. |
| `OnceDelivery` | what the path promises | Published messages, each in one turn at most, in any order, some missing; in a turn may come another message, once and ahead of its own, if it overwrote the one that was read. `Transport` implements it. |
| `Wire` | `wire::Builder`, `wire::Reader` | Positions and lengths; the datagram may be cut at any byte. |
| `Histogram` | `hist::Histogram` | Buckets, merge and percentiles beside the values recorded, each with its number. |
| `Fanout` | `TxStream::send_all` | Rotation and counters under any answer of `sendmmsg`. |
| `Handshake` | `control.h` and the mains around it | Several senders, one receiver, the kernel's backlog, crashes. |
| `Segment` | `shm_segment.h`, `wait_for_segment`, the mains of producer and sender | Names and inodes; a run of the producer is `Create`, `Truncate`, `InitHeader`, `InitSlots`, `Publish`, `Finish`, or is killed at any of them; the sender probes, opens, attaches, opens its streams, reads the edge, then the ring. |
| `Session` | the mains of all four | `Segment` with the receiver's set-up, the handshake as one step, and the consumer; started in the documented order or in any. |
| `Calibration` | `tsc::Calibration` | Tries of an anchor with any gaps between the readings. |
| `Producer` | the producer's loop | The pacing of `--rate` under a clock that passes and is set. |
| `ShmRingProofs`, `BlocksProofs`, `HandshakeProofs`, `SessionProofs`, `SenderProofs`, `ReceiverProofs`, `TransportProofs` | | proofs: `BlocksProofs` of the filter, `Wire`, `Histogram`, `Fanout`, `Calibration` and `Producer`, `SessionProofs` of `Segment` too |
| `DedupProofs` | | lemmas on the filter's operators, and two facts on remainders, that the others cite |
| `MC*` | | TLC instances; `MCBlocks` runs the filter, `Wire`, `Histogram`, `Fanout`, `Calibration` and `Producer`, one in each behaviour |

A definition below a comment that begins with "Mutant" is a plausible wrong
version of the definition after it.
Each property of each run has one that violates it (`mutants` in
`PROJECT.json`), which shows that the property can fail. No specification uses
them.

### Memory model

The ring is `std::atomic` stores and loads around plain ones. The models use
sequentially consistent interleavings of single accesses. On x86-64, the target
the source names, that loses nothing here: each location has one writer, stores
become visible in order, loads are done in order, and neither side reads
anything after its own pending stores that the other writes in turn. `memcpy`
is called with a length known only at run time, so no compiler moves it past
the atomic accesses, but the order among its own words is arbitrary, and so it
is in `WriteWord` and `CopyWord`. A read that races with a write yields a word
of one of the two messages. On a weakly ordered CPU (the source mentions
development on aarch64) the copies may be delayed past the second load of `seq`
as well; that is not modelled, and `OnlyTheLapMixes` would not hold there.

### Time

Only `Producer` and `Calibration` have a clock: they are about it. Elsewhere a
timer is a flag that a step raises: `Quiet`, `RxQuiet`
and `ConsumerQuiet` when there is nothing left to wait for, and `Stall` when the
producer pauses or the sender is held up for longer than `idle_ms`. In
`Transport` the timers of receiver and consumer run out after the process before
them has ended; one that runs out earlier merely ends its process, which the
safety specification allows at any time, since no process is obliged to step.
In `Session` every timer may run out whenever its process has nothing to do, and
the history `early` names the programs that left while more was to come.

## Runs

| run | bounds | shows |
|---|---|---|
| `ShmRing` | 2 slots, 6 messages, 1 reader | type and mixing, `NeverBackward`, `NoNeedlessSkip`, `ReadsAsOneStep`, `ImplementsBroadcastLog`, and `CatchesUp` |
| `Blocks` | window 4, numbers 0..11, 5 offers; buffer of 15 bytes, frames of 0 to 4; 4 buckets per octave, 3 values; 3 destinations, 7 calls; 2 tries, gaps of 0 to 2; rates 0, 3 and 5 of 11, 4 messages, clock set by up to 3 | the sequential classes |
| `Sender` | 2 slots, 4 messages, `--count` 3, 2 streams, 2 messages to a datagram, 1 stall, signals | accounting, order, nothing drained left unsent |
| `Receiver` | 2 copies of 3 datagrams, two foreign ones, batches of 2, window 4, `--count` 4, drops, signals | once, one column of the report for each datagram and frame, one copy suffices |
| `Transport_safety` | 2-slot rings, 3 messages, 2 streams, window 2; reads torn at the consumer's ring | the four reports add up, `dropped` is exact but for torn reads, `OnceDelivery` |
| `Transport_live` | 1-slot rings, 2 messages, 2 streams, torn reads at both rings | one copy arrives, everything ends |
| `Handshake` | 3 senders, one skewed, backlog 2, 2 connects each, crashes | one agreed sender, skew fails, no sender hangs |
| `Session` | 2 runs of the producer, 1 slot, 2 messages, 2 probes, kills, control port | no SIGBUS within a run, the live ring, nobody too early, only the beginning missed, everyone ends |
| `ShmRing_torn` | as `ShmRing`, 4 messages | **violated**: a frame read `kOk` of two messages |
| `Sender_idle_exit` | as `Sender`, without `--count` and signals, on a ring of 4 slots that no lap reaches | **violated**: "producer done" with messages in the ring |
| `Segment_sigbus` | `Segment` alone, 3 probes | **violated**: the size check closes both windows |
| `Session_received` | as `Session`, no kills | **violated**: "received == count" |

Why the bounds are enough:

* *Ring*. What a reader can see depends on its slot and how many laps the
  producer is ahead. Two slots tell "this slot" from "another", six messages
  take the producer round three times, so a reader is lapped, resumes, and is
  lapped again. Readers do not affect anybody, so one is enough; the proofs
  cover any number of slots, messages and readers.
* *Filter*. Numbers over three windows of four reach every branch of `accept`:
  a first number below and above a window, a slide by less and by more than a
  window, too old, duplicate. A reset starts over; five offers between resets.
* *Datagram*. The buffer takes two of the longest frames or six empty ones, and
  the cut falls on every byte.
* *Histogram*. Values at both ends of the exact region, of octaves and past the
  last; three of them split over two histograms and merged either way, also when
  one of the two or both are empty.
* *Fan-out*. Three destinations and seven calls: more than two rotations.
* *Sender, receiver, path*. A ring of two is lapped by the third message, and
  datagrams of two messages can be partly filled when a lap ends them. Two
  streams give every datagram a redundant copy. Liveness is checked on one-slot
  rings, where every read is within reach of a lap.
* *Handshake*. Three senders at a backlog of two: one served, two queued or
  waiting in `connect`.
* *Calibration*. Two tries for each of the two anchors, with gaps of 0 to 2
  before and after the clock is read: the first, the second or neither is the
  better, and either may be discarded. The history `offered` keeps all brackets
  tried, so that the slope is measured against the best reading of each anchor
  and not only against the one the code kept.
* *Producer*. No rate and two that do not divide the second, so that the interval
  is rounded down; a clock set by up to 3, no less than either interval, several
  times in either direction.
* *Session, Segment*. Two runs are what a restart takes, two probes a sender that
  finds nothing at first; one slot makes the second message the first of another
  lap. The consumer's ring is as long as the session: `Transport` has its laps. The invariants were checked once at two slots and four messages as well.

Deadlock is not checked: in every model all programs may have ended, or, in
`Blocks`, the bound on the calls is reached. What must not wait for ever is
stated as liveness instead.

Fairness is weak fairness of whole processes. Every loop in this code spins
without blocking, so a process that can step will; the timers run out because
time passes. Nobody is made to start, to attach, to be killed or to stall, and
the network is not made to deliver: only taking from the socket what the loop
asked for. In `Handshake`, `ReceiverEnds` is fair because the receiver's loop
ends by its own idle timer, and nothing makes a receiver start. In `Session`
the loops of receiver and consumer and the sender that has been greeted go on,
and the sender's timer runs out though it may be lapped again and again; no
fairness is asked of any program's start, nor of the producer at all.

### Where code and comments disagree

* `shm_ring.h:105` says the second load of `seq` detects an overwrite that has
  begun. It detects one that is finished: `publish` marks nothing before it
  writes the frame. What does hold is proved: a mixed frame has words of the
  message asked for and of the one exactly a lap later, and only when the
  producer is a whole ring ahead.
* `sender.cpp:304` takes an idle timer for "producer done". The ring is asked
  before the clock: after a pause of producer or sender longer than `idle_ms`, one
  poll that drains nothing (`kEmpty`, as in the run, or `kLapped`) is enough for the
  sender to leave, though by then messages are in the ring. What it has drained is
  on the wire (`NothingHeldBack`).
* `sender.cpp:101-103` says that checking the size closes both windows. It does
  for one run of the producer (`FirstRunNoSigbus`); if the producer is restarted
  between the probe and the open, another segment is opened than was probed.
* `plans/04_V0_TRANSPORT.txt:57` and `plans/GENERAL.md:408-410` expect
  "received == count" of the documented order. The producer does not wait for the
  sender, which finds the segment up to 20 ms after it is there
  (`sender.cpp:106`), calibrates (`sender.cpp:236`) and then begins at the live
  edge (`sender.cpp:252`): what was published until then is never sent. No report
  shows it, since each counts from where it began; `OnlyTheBeginningIsMissed`
  says that nothing else is missing.
* Not a run: `control.h:10-13` has the handshake fail on a different number of
  streams too. `accept_hello` (`control.h:130-132`) compares the magic, the version
  and the encoding and hands the number of streams on; `OneAgreedSender` is about
  the three.
* Not a run: `consumer.cpp:116` says that skipped messages show up as gaps. Those
  skipped before the first message received do not, and `LossesAddUp` has a term
  for them.
* Not a run: values past the last octave of a histogram are reported as the last
  bucket's upper bound, which is below them (`hist.h:110`), while `hist.h:10-12`
  says the data are never reported better than they are. `test_hist.cpp:44`
  asks for the saturation. `PercentilesClose` is stated for values below it.

## Proofs

Every safety property of a run that passes is also a theorem, for every value of
the constants, and so is the safety that most of its liveness rests on. A
theorem assumes what the named `ASSUME`s of the module say of the constants,
which TLC evaluates in the runs: the numbers are naturals or positive, the flags
Booleans, `SlotCount` and `Window` powers of two (the producer's check of
`--slots` and the `1 << kWindowPow2` of the filter are what makes them so), one
receiver among the destinations, and in `Handshake` no sender named `NoOne`.
`Transport` instantiates the others and states all of theirs in
`TransportAssumption`.

Hardly any property is inductive. What each proof adds:

*Ring* (`ShmRingProofs`). The invariant `IndInv` is in `ShmRing`:

* `SlotsCurrent`: `seq` of a slot names a published message of that slot, and
  one at least as young as any published index of that residue;
* `FramesMatchSeq`: each word is of the message `seq` names, except those of the
  message in progress that are already written;
* `ReaderInv`: the cursor is not ahead; while a reader copies and its `seq` is
  still what it wants, every word copied so far is of the message wanted or of
  the one a lap later, the latter only if the producer has begun to write that;
  a reader that goes for the edge has a younger message in its slot.

The weight is in the reader's part under the producer's steps: a word written
into the slot being copied belongs to message `write_index + 1`, and two indices
of one slot differ by a multiple of `SlotCount`, so it is the one a lap later and
no other. The action properties follow from the invariant and the step: `Lapped`
goes to `write_index - SlotCount`, at least the cursor because the reader has
been lapped. For the refinement, a message counts as published when its `seq` is
stored; `StoreSeq` is `Publish`, a successful `Recheck` is `Deliver`, `Lapped` is
`Skip` or, when the edge is one behind, a stutter.

`ReadIsOneStep` is what the other models rest on: they read a ring in one step,
through `RingReads`. An answer `kEmpty` or `kOk` is one of the ring as its `seq`s
have it at the last load, with a header of the next lap only if that message is
half written; `kLapped` is one of the ring as `write_index` has it, and if the
two differ the message that makes the difference is being published.

What `CatchesUp` rests on is proved as well. Once the producer has finished
nothing is begun any more (`BeginsNoMore`), so by `SlotsCurrent` a slot that a
cursor has still to read names that message or a younger one: `kEmpty` is
answered at the end only (`EmptyMeansTheEnd`), and any other step of a read makes
`StepsLeft` smaller (`FinishedRingIsDrained`), for a lap jumps over a message or more.

*Filter* (`DedupProofs`, `BlocksProofs`). `DedupProofs` says what one `accept`
does to a window that is `Good` for a set of numbers: the bit of a number in the
window is set exactly if it is in the set, nothing of the set is at or past the
window's end, the window's last number is in it (or the base is 0), and
`accepted` is its size. The slide is the hard case: the numbers that enter have
the residues of those retired, so their bits must be and are cleared; a bit kept
belongs to one number only, because two of a window have different residues.
That the window of `DedupWindow` is good for `delivered`, and that of `Receiver`
for what is in its ring, are their invariants.

*Datagram* (`BlocksProofs`). `Laid`: each record begins where the one before it
ends, and the positions ascend. `Walked`: the reader stands at the end of the
record it yielded last, within what arrived. `Ended`: a walk stopped because the
next record does not end within what arrived, so by `Laid` no later one does.

*Histogram* (`BlocksProofs`). Induction over data is done for sets here, not for
predicates: a set of naturals that has 0 and with each number the next has them
all, since otherwise the least one left out has no predecessor (`InductionOn`,
`LeastOf`, from the well-foundedness of `<`). That 2^(n+1) = 2 * 2^n is not known
to the provers; it is proved by counting the subsets of 1..n+1 (`PowerSucc`), and
the other facts about powers follow by `InductionOn`. `BucketsJoin` and
`BucketsAscend` are then arithmetic, and a value lies between the bounds of
`BucketOf(value)` and, the buckets being disjoint, of no other. `Summarises` is the
invariant: what the object keeps is what its samples give, bucket by bucket, and
it survives `merge` because the two sets of samples have no number in common. The
loop of `percentile` sums the buckets by a fold, of which `FoldUnique` shows that
its equation has one solution on the subsets of a finite set, so that the
cardinality of the samples in the first buckets, which satisfies it, is what the
fold computes (`CumulativeCounts`). So the loop stops at the bucket of the exact
percentile, and a bucket is not wider than its lower bound over `kSub`.
`BlocksTypeCorrect` shows that the run `Blocks`, where each class takes its steps
while the others stand still, is a behaviour of each of the six specifications.

*Fan-out, calibration, pacing* (`BlocksProofs`). `FanoutInv` counts the calls as
rounds and places: where `rotate_` points, `lastServed` of the destinations
before it is one more than of the others. `CalibrationInv` carries the skew of
each anchor, half of its bracket at most, rounded up on one side, that no try of
an anchor had a narrower bracket than the one kept (`NarrowestKept`), and that
the ticks of two anchors ascend, for `Baseline` lies between them. `PaceInv` is
that `next_send` is the epoch plus one interval for each message waited for,
whatever the clock did, and at most one ahead of a clock that was never set
back.

*Control channel* (`HandshakeProofs`). The receiver has said "ok" to nobody until
it has a verdict, and then to the one sender it runs with; who streams has read
an "ok". An ack read is an ack sent, whoever dies in between. For the blocking
calls, `ConnectionsLive` says that connections exist only while the receiver
listens and that the one it serves has its verdict by the time its loop runs,
`HelloToCome` that a connected sender has written its hello, is about to, or is
gone. Then whoever blocks waits for something that can come (`NoWaitInVain`), and
every step, also of a program that crashes or tries again, uses up a stage of a
finite number (`StepsAreCounted`).

*Segment and start-up* (`SessionProofs`). `SegInv`: while a producer is at work
the name stands for its inode; within one run what was probed is what is opened,
and it does not lose its size; whoever opened a segment in the current run
opened that of the producer. `SessionIsASegmentsLife` shows that each step of
the four programs is a step of `Segment` or leaves it alone, so that what is
proved of `Segment` holds in `Session`. `SessionInv` adds who waits for whom,
and for the smooth runs `OnlyTheBeginningIsMissed` is about, that what the
sender has read since its start is in the ring or on the way, in order, and that
receiver and consumer end only after the sender, with nothing on the way. The
consumer may well leave before the receiver then, whose timer runs on: it has
all the same.

*Sender* (`SenderProofs`). The reports count messages, the properties are about
sequences of batches. The proof speaks of places `<<datagram, position>>`:
a message drained adds one place behind all others, so that `messages` is the
number of places (`Counted`), and the cursor is past every message at a place
(`Ordered`, without torn reads). `Phases` says where the loop may hold a batch.

*Receiver* (`ReceiverProofs`). Proved of `PortSpec`, where between any two steps
anything may appear on the port or vanish from it: foreign datagrams, short
frames, frames cut, any numbers. `Filtered` makes the filter good for the ring;
`Served` says that what was read is in the ring or too old; `Accounted` are the
sums of the report in the middle of a datagram, with what is left of it in a
column of its own.

*Path* (`TransportProofs`). `TransportInv` joins the invariants of both ends,
cited from their proofs, by one sentence: a copy on the way, in the socket or
read (`Underway`) is of a datagram the sender has sent. What the receiver finds
in it is then a batch, its port's traffic is of the kind `PortSpec` allows, and
the filter's set is part of what was drained. `ConsumerInv` counts what the
consumer read and skipped against its cursor. What a read yields is the message
of its slot or, where the receiver is writing into it, the one being written
(`ReadOkIs`), which is in `ring` one publication later: so all that came is in
the ring or about to be, and the message being written is in nobody's hands
unless the cursor has just passed its slot (`Ahead`). `EveryLossIsAccounted`
adds up three cardinalities: drained and published, published and read, read and
received. `DroppedIsExact` compares what came with the slots read: each torn
read leaves one message out and may bring one twice. `DeliversOnlyOnce` has the
hypothesis `~TornReads`, which is about the sender: with a torn read there a
datagram may name a message that is not yet published, which `OnceDelivery` does
not allow; the run `ShmRing_torn` shows how the ring comes to that.

Of the end, `EndInv` says what a timer that has run out stands for: the process
before has ended and left nothing in between; and `Covered` that the consumer
has been told of all its cursor has passed. So a process that only its timer can
end has taken all there was to take (`NothingIsLeftBehind`). With what the
receiver's proof says of a copy read, a message of which one copy was delivered
is then in the consumer's hands, or outlived by a window, or before its start,
skipped, or overwritten while it was read (`ArrivesByTheEnd`, the safety of
`OneCopyArrives`), and the sums that hold during the run close over what was
published (`ReportsClose`).

| theorem | property of a run |
|---|---|
| `ShmRingProofs!TypeCorrect` | `TypeOK` |
| `ShmRingProofs!MixIsBounded` | `OnlyTheLapMixes` |
| `ShmRingProofs!CloseReaderReadsWhole` | `ForeignOnlyWhenLapped` |
| `ShmRingProofs!CursorNeverAhead` | (`CursorWithinPublished`, in no run) |
| `ShmRingProofs!CursorMonotone` | `NeverBackward` |
| `ShmRingProofs!SkipsOnlyOverwritten` | `NoNeedlessSkip` |
| `ShmRingProofs!ReadIsOneStep` | `ReadsAsOneStep` |
| `ShmRingProofs!Refinement` | `ImplementsBroadcastLog` |
| `ShmRingProofs!EmptyMeansTheEnd` | (`EmptyOnlyAtTheEnd`, in no run; behind `CatchesUp`) |
| `ShmRingProofs!FinishedRingIsDrained` | (`FinishedRingDrains`, in no run; behind `CatchesUp`) |
| `BlocksProofs!TypeCorrect` | the filter's part of `BlocksTypeOK` |
| `BlocksProofs!AcceptedOnce` | `AtMostOnce` |
| `BlocksProofs!SeenIsExact` | `BitsExact` |
| `BlocksProofs!SlidesWithNewest` | (`WindowEndsAtNewest`, in no run) |
| `BlocksProofs!Refinement` | `ImplementsOnceFilter` |
| `BlocksProofs!ReaderFollowsBuilder` | `YieldsWhatArrived` |
| `BlocksProofs!EveryoneInTurn` | `ServedInTurn` |
| `BlocksProofs!SlopeIsClose` | `SlopeError` |
| `BlocksProofs!KeepsPace` | `PaceKept` |
| `BlocksProofs!BucketsAreExact` | `BucketsPartition` |
| `BlocksProofs!PercentilesAreClose` | `PercentilesClose` |
| `BlocksProofs!HistogramTypeCorrect` | the histogram's part of `BlocksTypeOK` |
| `BlocksProofs!BlocksTypeCorrect` | `BlocksTypeOK` |
| `HandshakeProofs!TypeCorrect` | `TypeOK` |
| `HandshakeProofs!OneSender` | `OneAgreedSender` |
| `HandshakeProofs!NoWaitInVain` | (`NobodyWaitsInVain`, in no run; behind `EverySenderEnds`) |
| `HandshakeProofs!StepsAreCounted` | (`EveryStepCounts`, in no run; behind `EverySenderEnds`) |
| `SessionProofs!SessionIsASegmentsLife` | (the behaviours of `Segment`) |
| `SessionProofs!NoSigbusInFirstRun` | `FirstRunNoSigbus` |
| `SessionProofs!SenderReadsLiveRing` | `ReadsTheLiveRing` |
| `SessionProofs!SessionTypeCorrect` | `SessionTypeOK` |
| `SessionProofs!TooEarlyNever` | `NobodyTooEarly` |
| `SessionProofs!BeginningOnlyIsMissed` | `OnlyTheBeginningIsMissed` |
| `SenderProofs!SenderTypeCorrect` | `TypeOK` |
| `SenderProofs!CountsEveryIndex` | `EveryIndexCounted` |
| `SenderProofs!DrainsInOrder` | `DrainedInOrder` |
| `SenderProofs!HoldsNothingBack` | `NothingHeldBack` |
| `ReceiverProofs!ReceiverTypeCorrect` | `ReceiverTypeOK` |
| `ReceiverProofs!PublishesOnce` | `PublishedOnce` |
| `ReceiverProofs!OneCopyIsEnough` | `OneCopySuffices` |
| `ReceiverProofs!ReportAddsUp` | `EveryFrameAccounted` |
| `TransportProofs!DeliversOnlyOnce` | `ImplementsOnceDelivery` |
| `TransportProofs!EveryLossIsAccounted` | `LossesAddUp` |
| `TransportProofs!DroppedIsExact` | `DropsExact` |
| `TransportProofs!NothingIsLeftBehind` | (`NothingLeftBehind`, in no run; behind `AllEnd`) |
| `TransportProofs!ArrivesByTheEnd` | (`ArrivedByTheEnd`, in no run; behind `OneCopyArrives`) |
| `TransportProofs!ReportsClose` | (`FinalReportsClose`, in no run) |

The properties marked "in no run" are theorems and nothing else; each was checked
by TLC with the constants of its module's runs before it was proved.

Only model-checked:

* What must happen eventually: `CatchesUp`, `OneCopyArrives`, `AllEnd`,
  `EverySenderEnds`, `EveryoneEnds`. Weak fairness speaks of `ENABLED`, which the
  provers here do not expand. Proved, as said above, is the part of it that is
  safety: nobody waits for what cannot come, steps lead to the end, and what is
  so at the end. For `Session` that part is not stated.
* The four violated properties; a counterexample is all they need.

## Not modelled

* The conversions of `tsc.h`, floating-point arithmetic that only enters
  reports. `SlopeError` leaves out an anchor of which every try was discarded, and
  a clock set between the anchors: both give a slope nobody checks.
* `message.h` and what `build()` puts into messages: the transport looks at
  `seq_id` and `send_ts_ns` alone, and frames are at least a header long.
* Latencies: the time stamps, the metrics' percentiles, the histogram's mean and
  CSV dump, the sampling of the time to the ring (`receiver.cpp:294`).
* Socket options, address parsing, binding by name, command lines, reports. A
  base port near 65535 whose streams wrap round (`sender.cpp:229`) is one of them.
* Signals that arrive while a program is blocked in `accept` or `read` of the
  handshake: the handler only sets a flag, and the call goes on.
* A second receiver started by mistake beside a live one, which initialises the
  ring the consumer reads.
* Errors that end a process at once (`mmap`, `ftruncate`, `socket`, `bind`).
* The network namespaces of `bench/` and the evaluation of logs; the notebook.

Nothing is promised either, and no property states it, of a producer that is
restarted under a receiver that lives on: its numbers begin at 1 again and are
refused until they pass the old ones, and a small ring may hold numbers of both
runs, no longer ascending.

## Plan

In the order of what matters most:

1. (done) `ShmRing` and its abstract specification, checked and proved.
2. (done) `Dedup` and its abstract specification, checked and proved; `Sender`,
   `Receiver`, `Consumer`, and `Transport` over them; the sequential classes;
   `Handshake` and `Segment`, checked.
3. (done) Start-up as a whole: `Session`, with restarts of the producer and idle
   timers that run out before what they wait for.
4. (done) Malformed datagrams in `Receiver`, the pacing of the producer, the
   calibration.
5. (done) Proofs of the safety properties of every component, of the path and of
   the start-up; `ShmRing` answers as `RingReads`.
6. `Segment` and `Sender` still state their rings each in their own variables,
   which `ReadIsOneStep` justifies in words. An abstract ring with `RingReads` for
   its reads, implemented by `ShmRing` and instantiated by both, would make it
   a refinement.
7. (done for the ring, the control channel and the path) The safety that liveness
   rests on, as theorems. Left: a variant for the programs of `Session`, whose
   sender may be lapped again and again by a producer that is restarted.
