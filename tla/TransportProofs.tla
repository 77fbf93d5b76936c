-------------------------- MODULE TransportProofs --------------------------
(***************************************************************************)
(* Proofs about Transport: what SenderProofs and ReceiverProofs show of    *)
(* the parts, the copies on the wire and the consumer behind the receiver, *)
(* composed into what the whole path guarantees.                           *)
(***************************************************************************)
EXTENDS Transport, FiniteSetTheorems, TLAPS

SP == INSTANCE SenderProofs
RP == INSTANCE ReceiverProofs

-----------------------------------------------------------------------------
(* The parts of Transport are those the proofs are about.                  *)

LEMMA SenderConstants ==
    /\ TxSlots \in Nat \ {0} /\ Count \in Nat \ {0} /\ SenderCount \in Nat
    /\ Streams \in Nat \ {0} /\ MaxBatch \in Nat \ {0} /\ MaxStalls \in Nat
    /\ Signals \in BOOLEAN /\ TornReads \in BOOLEAN
BY TransportAssumption

LEMMA ReceiverConstants ==
    /\ Window \in Nat \ {0} /\ \E k \in 0 .. 31 : Window = 2 ^ k
    /\ RxMax \in Nat \ {0} /\ ReceiverCount \in Nat
    /\ Drops \in BOOLEAN /\ RxSignals \in BOOLEAN
BY TransportAssumption

LEMMA SameSets ==
    \A D : /\ SP!Cardinality(D) = Cardinality(D) /\ SP!IsFiniteSet(D) = IsFiniteSet(D)
           /\ C!Cardinality(D) = Cardinality(D)
           /\ RP!ToSet(D) = ToSet(D) /\ C!ToSet(D) = ToSet(D)
           /\ RP!IsInjective(D) = IsInjective(D)
BY DEF SP!Cardinality, C!Cardinality, Cardinality, SP!IsFiniteSet, IsFiniteSet,
       RP!ToSet, C!ToSet, ToSet, RP!IsInjective, IsInjective

LEMMA SenderStepIs ==
    /\ S!Publish => SP!Publish
    /\ S!Attach => SP!Attach
    /\ S!SenderLoop => SP!SenderLoop
    /\ S!Quiet \/ S!Stall => SP!Quiet \/ SP!Stall
<1>1. S!Publish => SP!Publish
  BY DEF S!Publish, SP!Publish, S!MorePending, SP!MorePending, S!senderVars, SP!senderVars
<1>2. S!Attach => SP!Attach BY DEF S!Attach, SP!Attach
<1>3. S!LoopHead => SP!LoopHead BY DEF S!LoopHead, SP!LoopHead, S!CountReached, SP!CountReached
<1>4. S!DrainFull \/ S!DrainEmpty => SP!DrainFull \/ SP!DrainEmpty
  BY DEF S!DrainFull, SP!DrainFull, S!DrainEmpty, SP!DrainEmpty, S!RoomForOne, SP!RoomForOne,
         S!Flush, SP!Flush, S!Empty, SP!Empty
<1>5. S!DrainLapped => SP!DrainLapped
  BY DEF S!DrainLapped, SP!DrainLapped, S!RoomForOne, SP!RoomForOne, S!Flush, SP!Flush,
         S!IsLapped, SP!IsLapped, S!Overwritten, SP!Overwritten, S!InReach, SP!InReach,
         S!ResumeAt, SP!ResumeAt, S!Overtaken, SP!Overtaken, S!MorePending, SP!MorePending
<1>6. S!DrainOne => SP!DrainOne
  BY DEF S!DrainOne, SP!DrainOne, S!RoomForOne, SP!RoomForOne, S!IsOk, SP!IsOk,
         S!Empty, SP!Empty, S!Overwritten, SP!Overwritten, S!InReach, SP!InReach,
         S!Headers, SP!Headers, S!MorePending, SP!MorePending,
         S!AfterAppend, SP!AfterAppend, S!CountReached, SP!CountReached
<1>7. S!IdleCheck => SP!IdleCheck BY DEF S!IdleCheck, SP!IdleCheck, S!Done, SP!Done
<1>8. S!SendOnStream => SP!SendOnStream
  BY DEF S!SendOnStream, SP!SendOnStream, S!Begun, SP!Begun, S!dgram_id, SP!dgram_id
<1>9. S!Quiet \/ S!Stall => SP!Quiet \/ SP!Stall
  BY DEF S!Quiet, SP!Quiet, S!Stall, SP!Stall, S!MorePending, SP!MorePending
<1> QED BY <1>1, <1>2, <1>3, <1>4, <1>5, <1>6, <1>7, <1>8, <1>9
        DEF S!SenderLoop, SP!SenderLoop

LEMMA ReceiverStepIs ==
    /\ R!ReceiverInit => RP!ReceiverInit
    /\ R!ReceiverLoop => RP!ReceiverLoop
    /\ R!RxQuiet => RP!RxQuiet
<1>0. R!ReceiverInit => RP!ReceiverInit
  BY DEF R!ReceiverInit, RP!ReceiverInit, R!Fresh, RP!Fresh
<1>1. R!Recv => RP!Recv
  BY DEF R!Recv, RP!Recv, R!RxCountReached, RP!RxCountReached, R!published, RP!published,
         R!Returns, RP!Returns, R!Room, RP!Room, R!SetToSeqs, RP!SetToSeqs,
         R!Cardinality, RP!Cardinality, R!ToSet, RP!ToSet
<1>2. R!RxIdleExit \/ R!RxStop => RP!RxIdleExit \/ RP!RxStop
  BY DEF R!RxIdleExit, RP!RxIdleExit, R!RxStop, RP!RxStop,
         R!RxCountReached, RP!RxCountReached, R!published, RP!published
<1>3. R!Reject \/ R!Drop \/ R!Open => RP!Reject \/ RP!Drop \/ RP!Open
  BY DEF R!Reject, RP!Reject, R!Drop, RP!Drop, R!Open, RP!Open, R!Alien, RP!Alien
<1>4. R!ShortFrame => RP!ShortFrame
  BY DEF R!ShortFrame, RP!ShortFrame, R!HasFrame, RP!HasFrame, R!Short, RP!Short, R!Cut, RP!Cut
<1>5. R!NextFrame => RP!NextFrame
  BY DEF R!NextFrame, RP!NextFrame, R!HasFrame, RP!HasFrame, R!Short, RP!Short, R!Cut, RP!Cut,
         R!Publishes, RP!Publishes, R!Rest, RP!Rest, R!Accept, RP!Accept, R!Verdict, RP!Verdict,
         R!Started, RP!Started, R!Reaching, RP!Reaching, R!AdvanceTo, RP!AdvanceTo, R!Bit, RP!Bit
<1>6. R!Close \/ R!BatchDone => RP!Close \/ RP!BatchDone
  BY DEF R!Close, RP!Close, R!BatchDone, RP!BatchDone, R!HasFrame, RP!HasFrame, R!Cut, RP!Cut
<1>7. R!RxQuiet => RP!RxQuiet BY DEF R!RxQuiet, RP!RxQuiet
<1> QED BY <1>0, <1>1, <1>2, <1>3, <1>4, <1>5, <1>6, <1>7 DEF R!ReceiverLoop, RP!ReceiverLoop

-----------------------------------------------------------------------------
(* The copies on their way.                                                *)

\* c is a copy of a datagram the sender has sent, or is sending: then the stream
\* it went out on is behind.
Sent(c) ==
    /\ c \in SP!Copies
    /\ c.id <= SP!dgram_id /\ c.msgs = SP!Filled[c.id + 1]
    /\ c.id = SP!dgram_id => spc = "send" /\ c.stream < stream

Underway == wire \cup ToSet(rx) \cup opened

PathInv == SP!SenderInv /\ RP!IndInv /\ \A c \in Underway : Sent(c)

\* The sender's invariant does not mind what becomes of the copies.
LEMMA SenderElsewhere ==
    ASSUME SP!SenderInv, wire' \subseteq wire, UNCHANGED <<write_index, spc, read_index, start,
                           batch, stream, datagrams, st, idle, stalls>>
    PROVE  SP!SenderInv'
<1>1. SP!SenderTypes' /\ SP!Phases' BY DEF SP!SenderInv, SP!SenderTypes, SP!Phases
<1> QED BY <1>1, SP!QuietStep, SenderConstants

LEMMA SentElsewhere ==
    ASSUME NEW c, Sent(c), UNCHANGED <<spc, batch, stream, datagrams>> PROVE Sent(c)'
BY DEF Sent, SP!dgram_id, SP!Filled

LEMMA BatchesArePayloads == SP!Batches \subseteq RP!Payloads
<1> SUFFICES ASSUME NEW b \in SP!Batches PROVE b \in RP!Payloads
  OBVIOUS
<1>1. b \in Seq(SP!Messages) BY SP!BatchesAre, SenderConstants
<1>2. \A m \in SP!Messages : m \in Nat /\ m # RP!Cut BY SenderConstants DEF SP!Messages, RP!Cut
<1>3. Len(b) \in Nat /\ \A k \in 1 .. Len(b) : b[k] \in SP!Messages BY <1>1
<1>4. b \in Seq(Nat \cup {RP!Cut}) BY <1>1, <1>2
<1>5. \A k \in 1 .. Len(b) - 1 : b[k] # RP!Cut
  <2>1. \A k \in 1 .. Len(b) - 1 : k \in 1 .. Len(b) BY <1>3
  <2> QED BY <1>2, <1>3, <2>1
<1> QED BY <1>4, <1>5 DEF RP!Payloads

LEMMA PathInit == Init => PathInv
<1> SUFFICES ASSUME Init PROVE PathInv
  OBVIOUS
<1>1. SP!SenderInv
  <2>1. SP!Init BY DEF Init, S!Init, SP!Init
  <2> QED BY <2>1, SP!SenderInit, SenderConstants
<1>2. wire = {} /\ opened = {} /\ rx = <<>> BY DEF Init, S!Init, R!ReceiverInit
<1>3. RP!IndInv
  <2>1. RP!PortInit BY <1>2, ReceiverStepIs DEF Init, RP!PortInit
  <2> QED BY <2>1, RP!IndInit, ReceiverConstants
<1>4. Underway = {}
  <2>1. ToSet(<<>>) = {} BY DEF ToSet
  <2> QED BY <1>2, <2>1 DEF Underway
<1> QED BY <1>1, <1>3, <1>4 DEF PathInv

\* What the receiver's port sees of a step of the sender.
LEMMA TrafficKeeps ==
    ASSUME RP!IndInv, UNCHANGED rxVars, \A c \in wire' : c.msgs \in RP!Payloads,
           wire' \cap (ToSet(rx) \cup opened) = {}
    PROVE  RP!IndInv'
<1>1. RP!Traffic BY SameSets DEF RP!Traffic, RP!receiverVars, rxVars
<1> QED BY <1>1, RP!TrafficStep, ReceiverConstants

\* The sender moves on without sending.
LEMMA SenderMoves ==
    ASSUME PathInv, S!Publish \/ S!Attach \/ S!SenderLoop \/ S!Quiet \/ S!Stall,
           ~SP!SendOnStream, UNCHANGED Others
    PROVE  PathInv'
<1>1. SP!Publish \/ SP!Attach \/ SP!SenderLoop \/ SP!Quiet \/ SP!Stall BY SenderStepIs
<1>2. SP!SenderInv' BY <1>1, SP!SenderStep, SenderConstants DEF PathInv, SP!Next
<1>3. /\ wire' = wire /\ datagrams' = datagrams /\ stream' = stream
      /\ (batch' = batch /\ spc' = spc) \/ spc # "send"
  BY <1>1 DEF SP!Publish, SP!senderVars, SP!Attach, SP!SenderLoop, SP!Quiet, SP!Stall,
     SP!LoopHead, SP!DrainFull, SP!DrainEmpty, SP!DrainLapped, SP!DrainOne, SP!IdleCheck
<1>4. UNCHANGED rxVars BY DEF Others
<1>5. RP!IndInv'
  <2>1. UNCHANGED RP!vars BY <1>3, <1>4 DEF RP!vars, RP!receiverVars, rxVars
  <2> QED BY <2>1, RP!IndStep, ReceiverConstants DEF PathInv
<1>6. ASSUME NEW c \in Underway' PROVE Sent(c)'
  <2>1. c \in Underway BY <1>3, <1>4, <1>6 DEF Underway, rxVars
  <2>2. Sent(c) BY <2>1 DEF PathInv
  <2>3. CASE batch' = batch /\ spc' = spc BY <1>3, <2>2, <2>3, SentElsewhere
  <2>4. CASE spc # "send"
    <3>1. c.id # SP!dgram_id /\ c.id <= SP!dgram_id /\ c.id \in Nat
      BY <2>2, <2>4 DEF Sent, SP!Copies
    <3>2. SP!dgram_id' = SP!dgram_id BY <1>3 DEF SP!dgram_id
    <3>3. SP!dgram_id \in Nat /\ \A k \in 1 .. SP!dgram_id : SP!Filled[k] = datagrams[k]
      BY SP!FilledTyped, SenderConstants DEF PathInv, SP!SenderInv
    <3>4. \A k \in 1 .. SP!dgram_id : SP!Filled'[k] = datagrams[k]
      BY <1>2, <1>3, <3>3 DEF SP!SenderInv, SP!SenderTypes, SP!Filled, SP!dgram_id
    <3>5. c.id + 1 \in 1 .. SP!dgram_id BY <3>1, <3>3
    <3> QED BY <2>2, <3>1, <3>2, <3>3, <3>4, <3>5 DEF Sent
  <2> QED BY <1>3, <2>3, <2>4
<1> QED BY <1>2, <1>5, <1>6 DEF PathInv

LEMMA SendKeeps ==
    ASSUME PathInv, SP!SendOnStream, UNCHANGED Others PROVE PathInv'
<1>1. PICK reached \in SUBSET Dests :
          wire' = wire \cup [dest : reached, stream : {stream},
                             id : {SP!dgram_id}, msgs : {batch}]
  BY DEF SP!SendOnStream
<1> DEFINE new == [dest : reached, stream : {stream}, id : {SP!dgram_id}, msgs : {batch}]
<1>2. SP!SenderInv' BY SP!SenderStep, SenderConstants DEF PathInv, SP!Next, SP!SenderLoop
<1>3. /\ SP!dgram_id \in Nat /\ SP!Filled[SP!dgram_id + 1] = batch
      /\ batch \in SP!Batches /\ stream \in Nat /\ spc = "send"
      /\ SP!Filled \in Seq(SP!Batches) /\ Len(SP!Filled) = SP!dgram_id + 1
  BY SP!FilledTyped, SenderConstants DEF PathInv, SP!SenderInv, SP!SenderTypes, SP!SendOnStream
<1>4. UNCHANGED rxVars BY DEF Others
<1>5. ASSUME NEW c \in new
      PROVE  /\ c.id = SP!dgram_id /\ c.stream = stream /\ c.msgs = batch
             /\ c \notin Underway
  <2>1. c.id = SP!dgram_id /\ c.stream = stream /\ c.msgs = batch BY <1>5
  <2>2. Sent(c) => stream < stream BY <2>1 DEF Sent
  <2> QED BY <1>3, <2>1, <2>2 DEF PathInv
<1>6. \A c \in wire' : c \in Underway \/ c \in new BY <1>1 DEF Underway
<1>7. ASSUME NEW c \in wire' PROVE c.msgs \in RP!Payloads
  <2>1. CASE c \in new BY <1>3, <1>5, <2>1, BatchesArePayloads
  <2>2. CASE c \in Underway
    <3>1. c.msgs \in SP!Batches BY <2>2 DEF PathInv, Sent, SP!Copies
    <3> QED BY <3>1, BatchesArePayloads
  <2> QED BY <1>6, <2>1, <2>2
<1>8. wire' \cap (ToSet(rx) \cup opened) = {}
  <2>1. wire \cap (ToSet(rx) \cup opened) = {} BY SameSets DEF PathInv, RP!IndInv, RP!CopiesApart
  <2> QED BY <1>1, <1>5, <2>1 DEF Underway
<1>9. RP!IndInv' BY <1>4, <1>7, <1>8, TrafficKeeps DEF PathInv
<1>10. ASSUME NEW c \in Underway' PROVE Sent(c)'
  <2>1. c \in Underway \/ c \in new BY <1>4, <1>6, <1>10 DEF Underway, rxVars
  <2>2. c \in SP!Copies
    <3>1. c \in new => c \in SP!Copies
      <4>1. new \subseteq wire' BY <1>1
      <4> QED BY <1>2, <4>1 DEF SP!SenderInv, SP!SenderTypes
    <3> QED BY <2>1, <3>1 DEF PathInv, Sent
  <2>3. /\ c.id \in Nat /\ c.id <= SP!dgram_id /\ c.msgs = SP!Filled[c.id + 1]
        /\ c.id = SP!dgram_id => c.stream <= stream
    <3>1. CASE c \in new BY <1>3, <1>5, <3>1
    <3>2. CASE c \in Underway
      <4>1. c.id \in Nat /\ c.stream \in Nat BY <2>2, SenderConstants DEF SP!Copies
      <4> QED BY <1>3, <3>2, <4>1 DEF PathInv, Sent
    <3> QED BY <2>1, <3>1, <3>2
  <2>4. c.stream \in Nat BY <2>2, SenderConstants DEF SP!Copies
  <2>5. CASE stream < Streams - 1
    <3>1. stream' = stream + 1 /\ UNCHANGED <<spc, batch, datagrams, idle>>
      BY <2>5 DEF SP!SendOnStream
    <3>2. SP!dgram_id' = SP!dgram_id /\ SP!Filled' = SP!Filled
      BY <3>1 DEF SP!dgram_id, SP!Filled
    <3>3. c.id = SP!dgram_id => c.stream < stream + 1 BY <1>3, <2>3, <2>4
    <3> QED BY <1>3, <2>2, <2>3, <3>1, <3>2, <3>3 DEF Sent
  <2>6. CASE ~(stream < Streams - 1)
    <3>1. datagrams' = Append(datagrams, batch) /\ batch' = <<>>
      BY <2>6 DEF SP!SendOnStream, SP!Begun
    <3>2. SP!Filled' = Append(SP!Filled, <<>>) BY <3>1 DEF SP!Filled
    <3>3. SP!dgram_id' = SP!dgram_id + 1
      <4>1. datagrams \in Seq(SP!Batches) BY DEF PathInv, SP!SenderInv, SP!SenderTypes
      <4> QED BY <3>1, <4>1 DEF SP!dgram_id
    <3>4. c.id + 1 \in 1 .. Len(SP!Filled) BY <1>3, <2>3
    <3>5. SP!Filled'[c.id + 1] = SP!Filled[c.id + 1] BY <1>3, <3>2, <3>4
    <3>6. c.id <= SP!dgram_id' /\ c.id # SP!dgram_id' BY <1>3, <2>3, <3>3
    <3> QED BY <2>2, <2>3, <3>5, <3>6 DEF Sent
  <2> QED BY <2>5, <2>6
<1> QED BY <1>2, <1>9, <1>10 DEF PathInv

LEMMA ReceiveKeeps ==
    ASSUME PathInv, R!ReceiverLoop \/ R!RxQuiet, UNCHANGED txVars PROVE PathInv'
<1>1. RP!ReceiverLoop \/ RP!RxQuiet BY ReceiverStepIs
<1>2. RP!IndInv' BY <1>1, RP!IndStep, ReceiverConstants DEF PathInv, RP!ReceiverNext
<1>3. wire' \subseteq wire /\ Underway' \subseteq Underway
  <2>1. CASE RP!Recv
    <3>1. PICK q \in RP!Returns : rx' = q /\ wire' = wire \ RP!ToSet(q)
      BY <2>1 DEF RP!Recv
    <3>2. RP!ToSet(q) \subseteq wire BY RP!ReturnsAre, ReceiverConstants
    <3>3. opened' = opened BY <2>1 DEF RP!Recv
    <3> QED BY <3>1, <3>2, <3>3, SameSets DEF Underway
  <2>2. CASE RP!Reject \/ RP!Drop \/ RP!Open
    <3>1. /\ rx # <<>> /\ rx' = Tail(rx) /\ wire' = wire
          /\ opened' = opened \/ opened' = opened \cup {rx[1]}
      BY <2>2 DEF RP!Reject, RP!Drop, RP!Open
    <3>2. RP!ToSet(rx) = {rx[1]} \cup RP!ToSet(rx')
      BY <3>1, RP!TakeNext, ReceiverConstants DEF PathInv
    <3> QED BY <3>1, <3>2, SameSets DEF Underway
  <2>3. CASE UNCHANGED <<wire, rx, opened>> BY <2>3 DEF Underway
  <2> QED BY <1>1, <2>1, <2>2, <2>3
          DEF RP!ReceiverLoop, RP!RxIdleExit, RP!RxStop, RP!ShortFrame, RP!NextFrame, RP!Close,
              RP!BatchDone, RP!RxQuiet
<1>4. SP!SenderInv' BY <1>3, SenderElsewhere DEF PathInv, txVars
<1>5. \A c \in Underway' : Sent(c)' BY <1>3, SentElsewhere DEF PathInv, txVars
<1> QED BY <1>2, <1>4, <1>5 DEF PathInv

LEMMA PathStep == PathInv /\ [Next]_vars => PathInv'
<1> SUFFICES ASSUME PathInv, [Next]_vars PROVE PathInv'
  OBVIOUS
<1>1. CASE ProducerStep \/ SenderAttach \/ SendStep \/ SenderTimer
  <2>1. /\ S!Publish \/ S!Attach \/ S!SenderLoop \/ S!Quiet \/ S!Stall
        /\ UNCHANGED Others
    BY <1>1 DEF ProducerStep, SenderAttach, SendStep, SenderTimer
  <2> QED BY <2>1, SenderMoves, SendKeeps
<1>2. CASE ReceiveStep \/ ReceiverTimer
  BY <1>2, ReceiveKeeps DEF ReceiveStep, ReceiverTimer
<1>3. CASE UNCHANGED <<txVars, wire, rxVars>>
  <2>1. UNCHANGED RP!vars BY <1>3 DEF RP!vars, RP!receiverVars, rxVars
  <2>2. RP!IndInv' BY <2>1, RP!IndStep, ReceiverConstants DEF PathInv
  <2>3. SP!SenderInv' BY <1>3, SenderElsewhere DEF PathInv, txVars
  <2>4. Underway' = Underway BY <1>3 DEF Underway, rxVars
  <2>5. \A c \in Underway' : Sent(c)' BY <1>3, <2>4, SentElsewhere DEF PathInv, txVars
  <2> QED BY <2>2, <2>3, <2>5 DEF PathInv
<1> QED BY <1>1, <1>2, <1>3 DEF Next, ConsumeStep, ConsumerTimer, vars

-----------------------------------------------------------------------------
(* The consumer behind a ring of different messages.                       *)

\* The messages of the ring from index a on and before index b.
Slice(a, b) == {ring[i + 1] : i \in a .. b - 1}

ConsumerTypes ==
    /\ cpc \in {"attach", "read", "exit"}
    /\ cread \in 0 .. Len(ring) /\ cstart \in 0 .. cread
    /\ got \in Seq(Nat) /\ turns \in Seq(Nat) /\ Len(got) = Len(turns)
    /\ acc \in C!Accumulators
    /\ cpc = "attach" => cread = 0 /\ got = <<>> /\ turns = <<>> /\ skipped = {}

\* Where the cursor is, in messages read and skipped: no message has two turns.
Passed ==
    /\ ToSet(turns) \cup skipped \subseteq Slice(0, cread)
    /\ IsInjective(turns) /\ IsFiniteSet(skipped)
    /\ acc.received = Len(turns)
    /\ cread = cstart + Cardinality(skipped) + acc.received

\* The accumulator's two ends.
Ends ==
    got # <<>> => /\ acc.first_seq \in ToSet(got) /\ acc.last_seq \in ToSet(got)
                  /\ \A m \in ToSet(got) : acc.first_seq <= m /\ m <= acc.last_seq

ConsumerInv == ConsumerTypes /\ Passed /\ Ends

RingOfDifferent == ring \in Seq(Nat) /\ IsInjective(ring)

LEMMA RingIs == PathInv => RingOfDifferent
BY SameSets DEF PathInv, RP!IndInv, RP!Types, RP!Filtered, RingOfDifferent

\* What is being published is a message the ring does not hold.
LEMMA WritingIs ==
    ASSUME PathInv
    PROVE  /\ writing \in Nat
           /\ writing # 0 => /\ frames # <<>> /\ frames[1] = writing
                             /\ rpc = "frames" /\ frames[1] # RP!Cut /\ frames[1] # RP!Short
                             /\ RP!Publishes(frames[1]) /\ writing \notin ToSet(ring)
<1>1. CASE writing = 0 BY <1>1
<1>2. CASE writing # 0
  <2>1. /\ R!HasFrame /\ frames[1] # R!Short /\ R!Publishes(frames[1]) /\ writing = frames[1]
    BY <1>2 DEF writing
  <2>2. /\ rpc = "frames" /\ frames # <<>>
        /\ frames[1] # RP!Cut /\ frames[1] # RP!Short /\ RP!Publishes(frames[1])
    BY <2>1 DEF R!HasFrame, R!Short, RP!Short, R!Cut, RP!Cut, R!Publishes, RP!Publishes,
                R!Verdict, RP!Verdict, R!Started, RP!Started, R!Reaching, RP!Reaching,
                R!AdvanceTo, RP!AdvanceTo, R!Bit, RP!Bit
  <2>3. frames \in RP!Payloads BY DEF PathInv, RP!IndInv, RP!Types
  <2>4. frames[1] \in Nat BY <2>2, <2>3, RP!PayloadFacts, ReceiverConstants
  <2>5. RP!Good(window, RP!ToSet(ring)) BY DEF PathInv, RP!IndInv, RP!Filtered
  <2>6. RP!Verdict(window, frames[1]) = "new" BY <2>2 DEF RP!Publishes
  <2>7. frames[1] \notin RP!ToSet(ring)
    BY <2>4, <2>5, <2>6, RP!FilterKeeps, ReceiverConstants
  <2> QED BY <2>1, <2>2, <2>4, <2>7, SameSets
<1> QED BY <1>1, <1>2

\* The receiver's next step ends that publication.
LEMMA WrittenNext ==
    ASSUME PathInv, writing # 0, R!ReceiverLoop \/ R!RxQuiet
    PROVE  ring' = Append(ring, writing)
<1>1. /\ frames # <<>> /\ frames[1] = writing /\ rpc = "frames"
      /\ frames[1] # RP!Cut /\ frames[1] # RP!Short /\ RP!Publishes(frames[1])
  BY WritingIs
<1>2. RP!ReceiverLoop \/ RP!RxQuiet BY ReceiverStepIs
<1>3. RP!NextFrame
  BY <1>1, <1>2 DEF RP!ReceiverLoop, RP!Recv, RP!RxIdleExit, RP!RxStop, RP!Reject, RP!Drop,
     RP!Open, RP!ShortFrame, RP!Close, RP!BatchDone, RP!RxQuiet, RP!HasFrame
<1> QED BY <1>1, <1>3 DEF RP!NextFrame

LEMMA SliceFacts ==
    ASSUME RingOfDifferent, NEW a \in Nat, NEW b \in Nat, a <= b, b <= Len(ring)
    PROVE  /\ Slice(0, a) \subseteq Slice(0, b) /\ Slice(a, b) \subseteq Slice(0, b)
           /\ Slice(0, a) \cap Slice(a, b) = {}
           /\ IsFiniteSet(Slice(a, b)) /\ Cardinality(Slice(a, b)) = b - a
<1> DEFINE D == a .. b - 1  f == [i \in D |-> ring[i + 1]]
<1>0. /\ Len(ring) \in Nat /\ DOMAIN ring = 1 .. Len(ring)
      /\ \A i \in 0 .. b - 1 : i + 1 \in 1 .. Len(ring)
  BY DEF RingOfDifferent
<1>1. \A i, j \in 0 .. b - 1 : ring[i + 1] = ring[j + 1] => i = j
  BY <1>0 DEF RingOfDifferent, IsInjective
<1>2. Slice(0, a) \subseteq Slice(0, b) /\ Slice(a, b) \subseteq Slice(0, b)
  <2>1. 0 .. a - 1 \subseteq 0 .. b - 1 /\ a .. b - 1 \subseteq 0 .. b - 1 OBVIOUS
  <2> QED BY <2>1 DEF Slice
<1>3. Slice(0, a) \cap Slice(a, b) = {}
  <2>1. ASSUME NEW i \in 0 .. a - 1, NEW j \in a .. b - 1 PROVE ring[i + 1] # ring[j + 1]
    <3>1. i \in 0 .. b - 1 /\ j \in 0 .. b - 1 /\ i # j OBVIOUS
    <3> QED BY <1>1, <3>1
  <2> QED BY <2>1 DEF Slice
<1>4. IsFiniteSet(D) /\ Cardinality(D) = b - a
  <2>1. IsFiniteSet(D) /\ Cardinality(D) = IF a > b - 1 THEN 0 ELSE (b - 1) - a + 1
    BY FS_Interval
  <2> QED BY <2>1
<1>5. f \in Bijection(D, Slice(a, b))
  <2>1. f \in [D -> Slice(a, b)] BY DEF Slice
  <2>2. \A i, j \in D : f[i] = f[j] => i = j
    <3>1. D \subseteq 0 .. b - 1 OBVIOUS
    <3> QED BY <1>1, <3>1
  <2>3. \A m \in Slice(a, b) : \E i \in D : f[i] = m BY DEF Slice
  <2> QED BY <2>1, <2>2, <2>3 DEF Bijection, Injection, Surjection, IsInjective
<1>6. ExistsBijection(D, Slice(a, b)) BY <1>5 DEF ExistsBijection
<1> HIDE DEF D
<1>7. IsFiniteSet(Slice(a, b)) /\ Cardinality(Slice(a, b)) = Cardinality(D)
  BY <1>4, <1>6, FS_Bijection
<1> QED BY <1>2, <1>3, <1>4, <1>7

LEMMA ConsumerStart == Init => ConsumerInv
<1> SUFFICES ASSUME Init PROVE ConsumerInv
  OBVIOUS
<1>1. /\ ring = <<>> /\ cpc = "attach" /\ cread = 0 /\ cstart = 0
      /\ got = <<>> /\ turns = <<>> /\ skipped = {} /\ acc = C!NoObservation
  BY DEF Init, R!ReceiverInit, C!ConsumerInit
<1>2. Len(<<>>) = 0 /\ ToSet(<<>>) = {} /\ IsInjective(<<>>) BY DEF ToSet, IsInjective
<1>3. got \in Seq(Nat) /\ turns \in Seq(Nat) BY <1>1
<1>4. acc \in C!Accumulators /\ acc.received = 0
  BY <1>1 DEF C!NoObservation, C!Accumulators
<1>5. ConsumerTypes BY <1>1, <1>2, <1>3, <1>4 DEF ConsumerTypes
<1>6. Passed BY <1>1, <1>2, <1>4, FS_EmptySet DEF Passed
<1>7. Ends BY <1>1 DEF Ends
<1> QED BY <1>5, <1>6, <1>7 DEF ConsumerInv

\* The ring grows under the consumer.
LEMMA RingGrows ==
    ASSUME RingOfDifferent, ConsumerInv, UNCHANGED coVars,
           NEW m \in Nat, ring' = ring \/ ring' = Append(ring, m)
    PROVE  ConsumerInv'
<1>1. /\ ring \in Seq(Nat) /\ Len(ring) \in Nat /\ Len(ring') \in Nat /\ Len(ring') >= Len(ring)
      /\ \A i \in 1 .. Len(ring) : ring'[i] = ring[i]
  BY DEF RingOfDifferent
<1>2. cread \in 0 .. Len(ring) BY DEF ConsumerInv, ConsumerTypes
<1>3. Slice(0, cread)' = Slice(0, cread)
  <2>1. \A i \in 0 .. cread - 1 : ring'[i + 1] = ring[i + 1] BY <1>1, <1>2
  <2>2. cread' = cread BY DEF coVars
  <2> QED BY <2>1, <2>2 DEF Slice
<1>4. ConsumerTypes' BY <1>1, <1>2 DEF ConsumerInv, ConsumerTypes, coVars
<1>5. Passed' BY <1>3 DEF ConsumerInv, Passed, coVars
<1>6. Ends' BY DEF ConsumerInv, Ends, coVars
<1> QED BY <1>4, <1>5, <1>6 DEF ConsumerInv

LEMMA AttachKeeps ==
    ASSUME RingOfDifferent, ConsumerInv, C!ConsumerAttach, ring' = ring PROVE ConsumerInv'
<1>1. /\ cpc = "attach" /\ cpc' = "read" /\ cread' \in {0, Len(ring)} /\ cstart' = cread'
      /\ UNCHANGED <<got, turns, skipped, acc, cidle>>
  BY DEF C!ConsumerAttach
<1>2. cread = 0 /\ cstart = 0 /\ got = <<>> /\ turns = <<>> /\ skipped = {}
  BY <1>1 DEF ConsumerInv, ConsumerTypes
<1>3. Len(ring) \in Nat BY DEF RingOfDifferent
<1>4. ConsumerTypes' BY <1>1, <1>3 DEF ConsumerInv, ConsumerTypes
<1>5. Passed'
  <2>1. ToSet(turns) = {} BY <1>2 DEF ToSet
  <2>2. Len(turns) = 0 BY <1>2
  <2>3. Cardinality({}) = 0 BY FS_EmptySet
  <2>4. acc.received = Len(turns) /\ IsInjective(turns) BY DEF ConsumerInv, Passed
  <2>5. cread' = cstart' + Cardinality(skipped') + acc'.received
    <3>1. acc'.received = 0 /\ Cardinality(skipped') = 0 BY <1>1, <1>2, <2>2, <2>3, <2>4
    <3>2. \A n \in Nat : n = n + 0 + 0 OBVIOUS
    <3>3. cread' \in Nat /\ cstart' = cread' BY <1>1, <1>3
    <3>4. cread' = cread' + 0 + 0 BY <3>2, <3>3
    <3> QED BY <3>1, <3>3, <3>4, Zenon
  <2>6. IsFiniteSet(skipped') BY <1>1, <1>2, FS_EmptySet
  <2>7. ToSet(turns) \cup skipped = {} BY <1>2, <2>1
  <2> QED BY <1>1, <2>4, <2>5, <2>6, <2>7 DEF Passed
<1>6. Ends' BY <1>1, <1>2 DEF Ends
<1> QED BY <1>4, <1>5, <1>6 DEF ConsumerInv

LEMMA LappedKeeps ==
    ASSUME RingOfDifferent, ConsumerInv, C!ReadLapped, ring' = ring PROVE ConsumerInv'
<1>1. /\ cpc = "read" /\ C!IsLapped(Len(ring), RxSlots, cread, writing # 0)
      /\ cread' = C!ResumeAt(Len(ring), RxSlots)
      /\ skipped' = skipped \cup {ring[i + 1] : i \in cread .. cread' - 1}
      /\ UNCHANGED <<cpc, cstart, got, turns, acc, cidle>>
  BY DEF C!ReadLapped
<1>2. /\ Len(ring) \in Nat /\ cread \in Nat /\ cread <= Len(ring) /\ cstart \in 0 .. cread
      /\ RxSlots \in Nat \ {0}
  BY TransportAssumption DEF RingOfDifferent, ConsumerInv, ConsumerTypes
<1>3. cread' \in Nat /\ cread <= cread' /\ cread' <= Len(ring)
  BY <1>1, <1>2 DEF C!IsLapped, C!Overwritten, C!InReach, C!ResumeAt
<1>p. PICK to \in Nat : to = cread' /\ cread <= to /\ to <= Len(ring) BY <1>3
<1>4. /\ Slice(0, cread) \subseteq Slice(0, to) /\ Slice(cread, to) \subseteq Slice(0, to)
      /\ Slice(0, cread) \cap Slice(cread, to) = {}
      /\ IsFiniteSet(Slice(cread, to)) /\ Cardinality(Slice(cread, to)) = to - cread
  BY <1>2, <1>p, SliceFacts
<1>5. skipped' = skipped \cup Slice(cread, to) /\ Slice(0, cread)' = Slice(0, to)
  BY <1>1, <1>p DEF Slice
<1>6. ConsumerTypes'
  <2>1. cread' \in 0 .. Len(ring) /\ cstart \in 0 .. cread' BY <1>2, <1>3
  <2> QED BY <1>1, <2>1 DEF ConsumerInv, ConsumerTypes
<1>7. Passed'
  <2>1. /\ ToSet(turns) \cup skipped \subseteq Slice(0, cread) /\ IsFiniteSet(skipped)
        /\ cread = cstart + Cardinality(skipped) + acc.received
    BY DEF ConsumerInv, Passed
  <2>2. skipped \cap Slice(cread, to) = {} BY <1>4, <2>1
  <2>3. /\ IsFiniteSet(skipped')
        /\ Cardinality(skipped') = Cardinality(skipped) + (to - cread)
    <3>1. /\ IsFiniteSet(skipped \cup Slice(cread, to))
          /\ Cardinality(skipped \cup Slice(cread, to)) =
                 Cardinality(skipped) + Cardinality(Slice(cread, to))
                 - Cardinality(skipped \cap Slice(cread, to))
      BY <1>4, <2>1, FS_Union
    <3>2. Cardinality(skipped \cap Slice(cread, to)) = 0 BY <2>2, FS_EmptySet
    <3>3. Cardinality(skipped) \in Nat BY <2>1, FS_CardinalityType
    <3> QED BY <1>2, <1>4, <1>5, <1>p, <3>1, <3>2, <3>3
  <2>4. acc.received \in Nat BY DEF ConsumerInv, ConsumerTypes, C!Accumulators
  <2>5. Cardinality(skipped) \in Nat BY <2>1, FS_CardinalityType
  <2>6. cread' = cstart + Cardinality(skipped') + acc.received
    <3> DEFINE c == Cardinality(skipped)  a == acc.received
    <3>1. c \in Nat /\ a \in Nat /\ cstart \in Nat /\ cread \in Nat BY <1>2, <2>4, <2>5
    <3>2. cread = cstart + c + a /\ Cardinality(skipped') = c + (to - cread) /\ cread' = to
      BY <1>p, <2>1, <2>3
    <3> HIDE DEF c, a
    <3>3. cread' = cstart + (c + (to - cread)) + a BY <3>1, <3>2
    <3> QED BY <3>2, <3>3 DEF a
  <2>7. ToSet(turns) \cup skipped' \subseteq Slice(0, cread)' BY <1>4, <1>5, <2>1
  <2> QED BY <1>1, <2>3, <2>6, <2>7 DEF ConsumerInv, Passed
<1>8. Ends' BY <1>1 DEF ConsumerInv, Ends
<1> QED BY <1>6, <1>7, <1>8 DEF ConsumerInv

\* What a read answered kOk adds: a turn, and the header of the message whose
\* turn it was or of the one that takes its place.
LEMMA ReadOkIs ==
    ASSUME RingOfDifferent, writing \in Nat, cread \in Nat, C!ReadOk
    PROVE  /\ cread + 1 \in 1 .. Len(ring) /\ ring[cread + 1] \in Nat
           /\ turns' = Append(turns, ring[cread + 1])
           /\ \E m \in Nat :
                  /\ got' = Append(got, m) /\ acc' = C!Record(acc, m)
                  /\ \/ m = ring[cread + 1]
                     \/ m = writing /\ writing # 0 /\ cread + RxSlots = Len(ring)
<1>1. /\ Len(ring) \in Nat /\ cread < Len(ring) /\ ring \in Seq(Nat)
  BY DEF RingOfDifferent, C!ReadOk, C!IsOk, C!Empty
<1>2. cread + 1 \in 1 .. Len(ring) /\ ring[cread + 1] \in Nat BY <1>1
<1>3. PICK k \in C!Headers(Len(ring), RxSlots, cread, writing # 0) :
          /\ got' = Append(got, Append(ring, writing)[k])
          /\ acc' = C!Record(acc, Append(ring, writing)[k])
  BY DEF C!ReadOk
<1>4. \/ k = cread + 1
      \/ k = Len(ring) + 1 /\ writing # 0 /\ cread + RxSlots = Len(ring)
  <2>1. \/ k = cread + 1
        \/ k = cread + 1 + RxSlots /\ writing # 0 /\ cread + RxSlots = Len(ring)
    BY <1>3 DEF C!Headers, C!InReach
  <2>2. RxSlots \in Nat BY TransportAssumption
  <2>3. cread + RxSlots = Len(ring) => cread + 1 + RxSlots = Len(ring) + 1 BY <1>1, <2>2
  <2> QED BY <2>1, <2>3
<1>5. /\ Append(ring, writing)[cread + 1] = ring[cread + 1]
      /\ Append(ring, writing)[Len(ring) + 1] = writing
  BY <1>1, <1>2
<1> QED BY <1>2, <1>3, <1>4, <1>5 DEF C!ReadOk

LEMMA ReadOkKeeps ==
    ASSUME RingOfDifferent, writing \in Nat, ConsumerInv, C!ReadOk, ring' = ring
    PROVE  ConsumerInv'
<1> DEFINE t == ring[cread + 1]
<1>1. /\ cpc = "read" /\ C!IsOk(Len(ring), RxSlots, cread)
      /\ cread' = cread + 1 /\ UNCHANGED <<cpc, cstart, skipped>>
  BY DEF C!ReadOk
<1>2. /\ Len(ring) \in Nat /\ cread \in Nat /\ cread < Len(ring) /\ cstart \in 0 .. cread
  BY <1>1 DEF RingOfDifferent, ConsumerInv, ConsumerTypes, C!IsOk, C!Empty
<1>3. t \in Nat /\ turns' = Append(turns, t) BY <1>2, ReadOkIs
<1>m. PICK m \in Nat : got' = Append(got, m) /\ acc' = C!Record(acc, m) BY <1>2, ReadOkIs
<1>4. /\ got \in Seq(Nat) /\ turns \in Seq(Nat) /\ Len(got) = Len(turns)
      /\ acc \in C!Accumulators
      /\ ToSet(turns) \cup skipped \subseteq Slice(0, cread)
      /\ IsInjective(turns) /\ IsFiniteSet(skipped)
      /\ acc.received = Len(turns)
      /\ cread = cstart + Cardinality(skipped) + acc.received
  BY DEF ConsumerInv, ConsumerTypes, Passed
<1>5. Slice(0, cread) \subseteq Slice(0, cread + 1) /\ Slice(0, cread) \cap Slice(cread, cread + 1) = {}
  BY <1>2, SliceFacts
<1>6. t \in Slice(cread, cread + 1) /\ t \in Slice(0, cread + 1)
  <2>1. cread \in cread .. (cread + 1) - 1 /\ cread \in 0 .. (cread + 1) - 1 BY <1>2
  <2> QED BY <2>1 DEF Slice
<1>7. t \notin ToSet(turns) BY <1>4, <1>5, <1>6
<1> HIDE DEF t
<1>8. /\ Append(got, m) \in Seq(Nat) /\ Len(Append(got, m)) = Len(got) + 1
      /\ ToSet(Append(got, m)) = ToSet(got) \cup {m}
  <2>1. m \in Nat /\ got \in Seq(Nat) BY <1>4
  <2>2. /\ Append(got, m) \in Seq(Nat) /\ Len(Append(got, m)) = Len(got) + 1
        /\ RP!ToSet(Append(got, m)) = RP!ToSet(got) \cup {m}
    BY <2>1, RP!AppendFacts, ReceiverConstants
  <2> QED BY <2>2, SameSets
<1>t. /\ Append(turns, t) \in Seq(Nat) /\ Len(Append(turns, t)) = Len(turns) + 1
      /\ ToSet(Append(turns, t)) = ToSet(turns) \cup {t}
      /\ IsInjective(Append(turns, t))
  <2>1. RP!IsInjective(turns) /\ t \notin RP!ToSet(turns) BY <1>4, <1>7, SameSets
  <2>2. t \in Nat /\ turns \in Seq(Nat) BY <1>3, <1>4
  <2>3. /\ Append(turns, t) \in Seq(Nat) /\ Len(Append(turns, t)) = Len(turns) + 1
        /\ RP!ToSet(Append(turns, t)) = RP!ToSet(turns) \cup {t}
        /\ RP!IsInjective(turns) /\ t \notin RP!ToSet(turns)
           => RP!IsInjective(Append(turns, t))
    BY <2>2, RP!AppendFacts, ReceiverConstants
  <2> QED BY <2>1, <2>3, SameSets
<1>9. /\ acc.received \in Nat /\ acc.first_seq \in Nat /\ acc.last_seq \in Nat
  BY <1>4 DEF C!Accumulators
<1>10. /\ acc'.received = acc.received + 1
       /\ acc'.first_seq = IF acc.received = 0 THEN m ELSE C!Lesser(acc.first_seq, m)
       /\ acc'.last_seq = IF acc.received = 0 THEN m ELSE C!Greater(acc.last_seq, m)
       /\ acc' \in C!Accumulators
  BY <1>m, <1>9 DEF C!Record, C!Accumulators, C!Lesser, C!Greater
<1>11. ConsumerTypes'
  <2>1. cread' \in 0 .. Len(ring) /\ cstart \in 0 .. cread' BY <1>1, <1>2
  <2>2. got' \in Seq(Nat) /\ turns' \in Seq(Nat) /\ Len(got') = Len(turns')
    BY <1>3, <1>m, <1>4, <1>8, <1>t
  <2> QED BY <1>1, <1>10, <2>1, <2>2 DEF ConsumerInv, ConsumerTypes
<1>12. Passed'
  <2>1. ToSet(turns') = ToSet(turns) \cup {t} /\ Len(turns') = Len(turns) + 1 /\ IsInjective(turns')
    BY <1>3, <1>t
  <2>3. ToSet(turns') \cup skipped' \subseteq Slice(0, cread)'
    <3>1. Slice(0, cread)' = Slice(0, cread + 1) BY <1>1 DEF Slice
    <3> QED BY <1>1, <1>4, <1>5, <1>6, <2>1, <3>1
  <2>4. cread' = cstart + Cardinality(skipped') + acc'.received
    <3> DEFINE c == Cardinality(skipped)  a == acc.received
    <3>1. c \in Nat /\ a \in Nat /\ cstart \in Nat BY <1>2, <1>4, <1>9, FS_CardinalityType
    <3>2. /\ cread = cstart + c + a /\ cread' = cread + 1
          /\ Cardinality(skipped') = c /\ acc'.received = a + 1
      BY <1>1, <1>4, <1>10
    <3> HIDE DEF c, a
    <3>3. cread' = cstart + c + (a + 1) BY <3>1, <3>2
    <3> QED BY <3>2, <3>3
  <2>5. acc'.received = Len(turns') BY <1>4, <1>10, <2>1
  <2> QED BY <1>1, <1>4, <2>1, <2>3, <2>4, <2>5 DEF Passed
<1>13. Ends'
  <2>1. ToSet(got') = ToSet(got) \cup {m} BY <1>m, <1>8
  <2>2. CASE got = <<>>
    <3>1. ToSet(got) = {} BY <2>2 DEF ToSet
    <3>2. acc.received = 0 BY <1>4, <2>2
    <3>3. acc'.first_seq = m /\ acc'.last_seq = m BY <1>10, <3>2
    <3> QED BY <2>1, <3>1, <3>3 DEF Ends
  <2>3. CASE got # <<>>
    <3>1. acc.received # 0
      <4>1. \A q \in Seq(Nat) : q # <<>> => Len(q) # 0 OBVIOUS
      <4>2. Len(got) # 0 BY <1>4, <2>3, <4>1
      <4> QED BY <1>4, <4>2
    <3>2. /\ acc'.first_seq = C!Lesser(acc.first_seq, m)
          /\ acc'.last_seq = C!Greater(acc.last_seq, m)
      BY <1>10, <3>1
    <3>3. /\ acc.first_seq \in ToSet(got) /\ acc.last_seq \in ToSet(got)
          /\ \A k \in ToSet(got) : acc.first_seq <= k /\ k <= acc.last_seq
      BY <2>3 DEF ConsumerInv, Ends
    <3>4. ToSet(got) \subseteq Nat BY <1>4 DEF ToSet
    <3>5. /\ acc'.first_seq \in ToSet(got) \cup {m} /\ acc'.last_seq \in ToSet(got) \cup {m}
          /\ \A k \in ToSet(got) \cup {m} : acc'.first_seq <= k /\ k <= acc'.last_seq
      BY <1>9, <3>2, <3>3, <3>4 DEF C!Lesser, C!Greater
    <3> QED BY <2>1, <3>5 DEF Ends
  <2> QED BY <2>2, <2>3
<1> QED BY <1>11, <1>12, <1>13 DEF ConsumerInv

LEMMA ConsumerKeeps ==
    ASSUME RingOfDifferent, writing \in Nat, ConsumerInv,
           C!ConsumerAttach \/ C!ConsumerLoop \/ C!ConsumerQuiet, UNCHANGED rxVars
    PROVE  ConsumerInv'
<1>1. ring' = ring BY DEF rxVars
<1>2. CASE C!ConsumerIdleExit \/ C!ConsumerStop \/ C!ConsumerQuiet
  <2>1. /\ UNCHANGED <<cread, cstart, got, turns, skipped, acc>>
        /\ cpc = "read" /\ cpc' \in {"read", "exit"}
    BY <1>2 DEF C!ConsumerIdleExit, C!ConsumerStop, C!ConsumerQuiet
  <2>2. Slice(0, cread)' = Slice(0, cread) BY <1>1, <2>1 DEF Slice
  <2>3. ConsumerTypes' BY <1>1, <2>1 DEF ConsumerInv, ConsumerTypes
  <2>4. Passed' /\ Ends' BY <2>1, <2>2 DEF ConsumerInv, Passed, Ends
  <2> QED BY <2>3, <2>4 DEF ConsumerInv
<1> QED BY <1>1, <1>2, AttachKeeps, ReadOkKeeps, LappedKeeps DEF C!ConsumerLoop

\* What the receiver does to the ring.
LEMMA RingAppended ==
    ASSUME PathInv, R!ReceiverLoop \/ R!RxQuiet
    PROVE  \E m \in Nat : ring' = ring \/ ring' = Append(ring, m)
<1>1. RP!ReceiverLoop \/ RP!RxQuiet BY ReceiverStepIs
<1>2. CASE RP!NextFrame
  <2>1. /\ frames # <<>> /\ frames[1] # RP!Cut
        /\ ring' = ring \/ ring' = Append(ring, frames[1])
    BY <1>2 DEF RP!NextFrame, RP!HasFrame
  <2>2. frames \in RP!Payloads BY DEF PathInv, RP!IndInv, RP!Types
  <2>3. frames[1] \in Nat \cup {RP!Cut} BY <2>1, <2>2, RP!PayloadFacts, ReceiverConstants
  <2> QED BY <2>1, <2>3
<1>3. CASE ring' = ring BY <1>3
<1> QED BY <1>1, <1>2, <1>3
        DEF RP!ReceiverLoop, RP!Recv, RP!RxIdleExit, RP!RxStop, RP!Reject, RP!Drop, RP!Open,
            RP!ShortFrame, RP!Close, RP!BatchDone, RP!RxQuiet

\* A header that came ahead of its turn is of a message the ring holds by now, or
\* of the one being published, which the cursor then cannot reach again.
Ahead ==
    \A k \in 1 .. Len(got) :
        \/ got[k] \in ToSet(ring)
        \/ got[k] = writing /\ writing # 0 /\ cread + RxSlots > Len(ring)

TransportInv == PathInv /\ ConsumerInv /\ Ahead

LEMMA AheadKeeps == TransportInv /\ [Next]_vars => Ahead'
<1> SUFFICES ASSUME TransportInv, [Next]_vars PROVE Ahead'
  OBVIOUS
<1>0. /\ PathInv /\ ConsumerInv /\ RingOfDifferent /\ ring \in Seq(Nat) /\ Len(ring) \in Nat
      /\ writing \in Nat /\ cread \in Nat /\ cread <= Len(ring)
      /\ got \in Seq(Nat) /\ Len(got) \in Nat /\ RxSlots \in Nat
  BY RingIs, WritingIs, TransportAssumption
     DEF TransportInv, ConsumerInv, ConsumerTypes, RingOfDifferent
<1>1. CASE ReceiveStep \/ ReceiverTimer
  <2>1. (R!ReceiverLoop \/ R!RxQuiet) /\ got' = got /\ cread' = cread
    BY <1>1 DEF ReceiveStep, ReceiverTimer, coVars
  <2>2. PICK m \in Nat : ring' = ring \/ ring' = Append(ring, m)
    BY <2>1, <1>0, RingAppended
  <2>3. ToSet(ring) \subseteq ToSet(ring')
    <3>1. RP!ToSet(Append(ring, m)) = RP!ToSet(ring) \cup {m}
      BY <1>0, RP!AppendFacts, ReceiverConstants
    <3> QED BY <2>2, <3>1, SameSets
  <2>4. writing # 0 => writing \in ToSet(ring')
    <3>1. RP!ToSet(Append(ring, writing)) = RP!ToSet(ring) \cup {writing}
      BY <1>0, RP!AppendFacts, ReceiverConstants
    <3> QED BY <1>0, <2>1, <3>1, WrittenNext, SameSets
  <2> QED BY <2>1, <2>3, <2>4 DEF TransportInv, Ahead
<1>2. ConsumeStep \/ ConsumerTimer => ring' = ring /\ writing' = writing
  BY DEF ConsumeStep, ConsumerTimer, rxVars, writing, R!HasFrame, R!Publishes, R!Verdict,
         R!Started, R!Reaching, R!AdvanceTo, R!Bit
<1>3. CASE ConsumeStep /\ C!ConsumerAttach
  <2>1. got' = got /\ got = <<>>
    BY <1>3 DEF C!ConsumerAttach, TransportInv, ConsumerInv, ConsumerTypes
  <2>2. 1 .. Len(got') = {} BY <2>1
  <2> QED BY <2>2 DEF Ahead
<1>4. CASE ConsumeStep /\ C!ReadOk
  <2>1. PICK m \in Nat : /\ got' = Append(got, m)
                         /\ \/ m = ring[cread + 1]
                            \/ m = writing /\ writing # 0 /\ cread + RxSlots = Len(ring)
    BY <1>0, <1>4, ReadOkIs
  <2>2. cread' = cread + 1 BY <1>4 DEF C!ReadOk
  <2>3. ring[cread + 1] \in ToSet(ring)
    <3>1. cread + 1 \in DOMAIN ring BY <1>0, <1>4, ReadOkIs
    <3> QED BY <3>1 DEF ToSet
  <2>4. \/ m \in ToSet(ring)
        \/ m = writing /\ writing # 0 /\ cread' + RxSlots > Len(ring)
    BY <1>0, <2>1, <2>2, <2>3
  <2>5. ASSUME NEW k \in 1 .. Len(got') PROVE k \in 1 .. Len(got) \/ got'[k] = m
    BY <1>0, <2>1
  <2>6. \A k \in 1 .. Len(got) : got'[k] = got[k] BY <1>0, <2>1
  <2>7. cread + RxSlots > Len(ring) => cread' + RxSlots > Len(ring) BY <1>0, <2>2
  <2> QED BY <1>2, <1>4, <2>4, <2>5, <2>6, <2>7 DEF TransportInv, Ahead
<1>5. CASE ConsumeStep /\ C!ReadLapped
  <2>1. /\ C!IsLapped(Len(ring), RxSlots, cread, writing # 0)
        /\ cread' = C!ResumeAt(Len(ring), RxSlots) /\ got' = got
    BY <1>5 DEF C!ReadLapped
  <2>2. cread' \in Nat /\ cread <= cread'
    BY <1>0, <2>1 DEF C!IsLapped, C!Overwritten, C!InReach, C!ResumeAt
  <2>3. cread + RxSlots > Len(ring) => cread' + RxSlots > Len(ring) BY <1>0, <2>2
  <2> QED BY <1>2, <1>5, <2>1, <2>3 DEF TransportInv, Ahead
<1>6. C!ConsumerIdleExit \/ C!ConsumerStop \/ C!ConsumerQuiet => UNCHANGED <<cread, got>>
  BY DEF C!ConsumerIdleExit, C!ConsumerStop, C!ConsumerQuiet
<1>7. CASE UNCHANGED <<cread, got, ring>> /\ writing' = writing
  BY <1>7 DEF TransportInv, Ahead
<1>8. UNCHANGED <<coVars, rxVars>> => UNCHANGED <<cread, got, ring>> /\ writing' = writing
  BY DEF coVars, rxVars, writing, R!HasFrame, R!Publishes, R!Verdict, R!Started, R!Reaching,
         R!AdvanceTo, R!Bit
<1> QED BY <1>1, <1>2, <1>3, <1>4, <1>5, <1>6, <1>7, <1>8
        DEF Next, vars, ConsumeStep, ConsumerTimer, C!ConsumerLoop, ProducerStep, SenderAttach,
            SendStep, SenderTimer, Others

LEMMA TransportStep == TransportInv /\ [Next]_vars => TransportInv'
<1> SUFFICES ASSUME TransportInv, [Next]_vars PROVE TransportInv'
  OBVIOUS
<1>1. PathInv' /\ Ahead' BY PathStep, AheadKeeps DEF TransportInv
<1>2. RingOfDifferent /\ writing \in Nat BY RingIs, WritingIs DEF TransportInv
<1>3. CASE ReceiveStep \/ ReceiverTimer
  <2>1. (R!ReceiverLoop \/ R!RxQuiet) /\ UNCHANGED coVars BY <1>3 DEF ReceiveStep, ReceiverTimer
  <2>2. PICK m \in Nat : ring' = ring \/ ring' = Append(ring, m)
    BY <2>1, RingAppended DEF TransportInv
  <2> QED BY <1>1, <1>2, <2>1, <2>2, RingGrows DEF TransportInv
<1>4. CASE ConsumeStep \/ ConsumerTimer
  <2>1. (C!ConsumerAttach \/ C!ConsumerLoop \/ C!ConsumerQuiet) /\ UNCHANGED rxVars
    BY <1>4 DEF ConsumeStep, ConsumerTimer
  <2> QED BY <1>1, <1>2, <2>1, ConsumerKeeps DEF TransportInv
<1>5. CASE UNCHANGED <<coVars, ring>>
  <2>1. ring' = ring \/ ring' = Append(ring, 0) BY <1>5
  <2> QED BY <1>1, <1>2, <1>5, <2>1, RingGrows DEF TransportInv
<1> QED BY <1>3, <1>4, <1>5
        DEF Next, vars, rxVars, Others, ProducerStep, SenderAttach, SendStep, SenderTimer

LEMMA TransportInvariance == Spec => []TransportInv
<1>1. Init => TransportInv
  <2>1. Init => got = <<>> BY DEF Init, C!ConsumerInit
  <2>2. Init => Ahead BY <2>1 DEF Ahead
  <2> QED BY <2>2, PathInit, ConsumerStart DEF TransportInv
<1> QED BY <1>1, TransportStep, PTL DEF Spec

-----------------------------------------------------------------------------
(* What the ring behind the receiver holds, of what the sender drained.    *)

SentMessages == {S!Message(p) : p \in S!Drained}

LEMMA SamePlaces ==
    S!Drained = SP!Drained /\ \A p : S!Message(p) = SP!Message(p)
BY DEF S!Drained, SP!Drained, S!Filled, SP!Filled, S!Message, SP!Message

\* A copy carries what was drained, in 1 .. Count.
LEMMA CarriedIsSent ==
    ASSUME PathInv
    PROVE  /\ Carried \subseteq SentMessages
           /\ \A m \in SentMessages : m \in 1 .. Count
           /\ Carried = RP!MessagesOf(opened)
<1>1. SP!SenderTypes BY DEF PathInv, SP!SenderInv
<1>2. \A p \in SP!Drained : SP!Message(p) \in 1 .. Count
  BY <1>1, SP!MessagesAreNat, SenderConstants
<1>3. \A m \in SentMessages : m \in 1 .. Count BY <1>2, SamePlaces DEF SentMessages
<1>4. ASSUME NEW c \in opened, NEW m \in ToSet(c.msgs) PROVE m \in SentMessages
  <2>1. Sent(c) BY DEF PathInv, Underway
  <2>2. /\ c.id \in Nat /\ c.id <= SP!dgram_id /\ c.msgs = SP!Filled[c.id + 1]
        /\ c.msgs \in SP!Batches
    BY <2>1 DEF Sent, SP!Copies
  <2>3. SP!dgram_id \in Nat /\ Len(SP!Filled) = SP!dgram_id + 1
    BY <1>1, SP!FilledTyped, SenderConstants
  <2>4. c.msgs \in Seq(SP!Messages) BY <2>2, SP!BatchesAre, SenderConstants
  <2>5. PICK j \in 1 .. Len(c.msgs) : m = c.msgs[j] BY <2>4 DEF ToSet
  <2>6. c.id + 1 \in 1 .. Len(SP!Filled) BY <2>2, <2>3
  <2>7. <<c.id + 1, j>> \in SP!Drained BY <2>2, <2>5, <2>6 DEF SP!Drained
  <2>8. SP!Message(<<c.id + 1, j>>) = m BY <2>2, <2>5 DEF SP!Message
  <2> QED BY <2>7, <2>8, SamePlaces DEF SentMessages
<1>5. Carried \subseteq SentMessages BY <1>4 DEF Carried
<1>6. Carried = RP!MessagesOf(opened)
  <2>1. \A m \in Carried : m \notin {RP!Short, RP!Cut}
    <3>1. \A m \in Carried : m \in 1 .. Count BY <1>3, <1>5
    <3> QED BY <3>1, SenderConstants DEF RP!Short, RP!Cut
  <2>2. Carried = UNION {RP!ToSet(c.msgs) : c \in opened} BY SameSets DEF Carried
  <2> QED BY <2>1, <2>2 DEF RP!MessagesOf
<1> QED BY <1>3, <1>5, <1>6

LEMMA RingIsCarried ==
    ASSUME PathInv PROVE ToSet(ring) \subseteq Carried
BY CarriedIsSent, SameSets DEF PathInv, RP!IndInv, RP!Served, RP!OneCopySuffices

LEMMA WritingIsCarried ==
    ASSUME PathInv, writing # 0 PROVE writing \in Carried
<1>1. /\ frames # <<>> /\ frames[1] = writing /\ frames[1] # RP!Cut /\ frames[1] # RP!Short
  BY WritingIs
<1>2. frames \in RP!Payloads BY DEF PathInv, RP!IndInv, RP!Types
<1>3. frames[1] \in RP!ToSet(frames)
  <2>1. frames \in Seq(Nat \cup {RP!Cut}) BY <1>2 DEF RP!Payloads
  <2>2. 1 \in DOMAIN frames BY <1>1, <2>1
  <2> QED BY <2>2 DEF RP!ToSet
<1> QED BY <1>1, <1>3, CarriedIsSent DEF PathInv, RP!IndInv, RP!Served

\* Without torn reads the messages drained are behind the cursor, each once.
LEMMA SentOnce ==
    ASSUME PathInv, ~TornReads
    PROVE  /\ \A m \in SentMessages : m \in 1 .. write_index
           /\ IsFiniteSet(SentMessages) /\ Cardinality(SentMessages) = st.messages
<1> DEFINE D == SP!Drained  f == [p \in D |-> SP!Message(p)]
<1>1. /\ SP!SenderTypes /\ IsFiniteSet(D) /\ st.messages = Cardinality(D)
      /\ \A p \in D : SP!Message(p) <= read_index
      /\ \A p, q \in D : SP!Before(p, q) => SP!Message(p) < SP!Message(q)
  BY SameSets DEF PathInv, SP!SenderInv, SP!Counted, SP!Ordered
<1>2. \A p \in D : SP!Message(p) \in 1 .. Count
  BY <1>1, SP!MessagesAreNat, SenderConstants
<1>3. SentMessages = {SP!Message(p) : p \in D} BY SamePlaces DEF SentMessages
<1>4. read_index \in 0 .. write_index /\ write_index \in Nat BY <1>1 DEF SP!SenderTypes
<1>5. \A p \in D : SP!Message(p) \in 1 .. write_index BY <1>1, <1>2, <1>4
<1>6. \A p, q \in D : SP!Message(p) = SP!Message(q) => p = q
  <2> SUFFICES ASSUME NEW p \in D, NEW q \in D, p # q PROVE SP!Message(p) # SP!Message(q)
    OBVIOUS
  <2>1. D \subseteq Nat \X Nat BY <1>1, SP!DrainedArePairs, SenderConstants
  <2>2. SP!Before(p, q) \/ SP!Before(q, p)
    <3>1. /\ p \in Nat \X Nat /\ q \in Nat \X Nat BY <2>1
    <3>2. p[1] # q[1] \/ p[2] # q[2] BY <3>1
    <3> QED BY <3>1, <3>2 DEF SP!Before
  <2>3. SP!Message(p) < SP!Message(q) \/ SP!Message(q) < SP!Message(p) BY <1>1, <2>2
  <2> QED BY <1>2, <2>3
<1>7. f \in Bijection(D, SentMessages)
  <2>1. f \in [D -> SentMessages] BY <1>3
  <2>2. \A p, q \in D : f[p] = f[q] => p = q BY <1>6
  <2>3. \A m \in SentMessages : \E p \in D : f[p] = m BY <1>3
  <2> QED BY <2>1, <2>2, <2>3 DEF Bijection, Injection, Surjection, IsInjective
<1>8. ExistsBijection(D, SentMessages) BY <1>7 DEF ExistsBijection
<1> HIDE DEF D
<1>9. IsFiniteSet(SentMessages) /\ Cardinality(SentMessages) = Cardinality(D)
  BY <1>1, <1>8, FS_Bijection
<1> QED BY <1>1, <1>3, <1>5, <1>9

\* What is next for the consumer is on the ring and new to it.
LEMMA NextIsNew ==
    ASSUME TransportInv, C!IsOk(Len(ring), RxSlots, cread)
    PROVE  ring[cread + 1] \in ToSet(ring) \ ToSet(turns) /\ ToSet(turns) \subseteq ToSet(ring)
<1>1. RingOfDifferent BY RingIs DEF TransportInv
<1>2. Len(ring) \in Nat /\ cread \in Nat /\ cread < Len(ring)
  BY <1>1 DEF RingOfDifferent, TransportInv, ConsumerInv, ConsumerTypes, C!IsOk, C!Empty
<1>3. ring[cread + 1] \in ToSet(ring)
  <2>1. cread + 1 \in DOMAIN ring BY <1>1, <1>2 DEF RingOfDifferent
  <2> QED BY <2>1 DEF ToSet
<1>4. Slice(0, cread) \cap Slice(cread, cread + 1) = {} BY <1>1, <1>2, SliceFacts
<1>5. ring[cread + 1] \in Slice(cread, cread + 1)
  <2>1. cread \in cread .. (cread + 1) - 1 BY <1>2
  <2> QED BY <2>1 DEF Slice
<1>6. ToSet(turns) \subseteq Slice(0, cread) BY DEF TransportInv, ConsumerInv, Passed
<1>7. Slice(0, cread) \subseteq ToSet(ring)
  <2>1. \A i \in 0 .. cread - 1 : i + 1 \in DOMAIN ring BY <1>1, <1>2 DEF RingOfDifferent
  <2> QED BY <2>1 DEF Slice, ToSet
<1> QED BY <1>3, <1>4, <1>5, <1>6, <1>7

LEMMA DeliversOnce ==
    ~TornReads /\ TransportInv /\ [Next]_vars => [Path!Next]_(Path!vars)
<1> SUFFICES ASSUME ~TornReads, TransportInv, [Next]_vars PROVE [Path!Next]_(Path!vars)
  OBVIOUS
<1>1. CASE ProducerStep
  <2>1. write_index' = write_index + 1 /\ got' = got /\ turns' = turns
    BY <1>1 DEF ProducerStep, S!Publish, Others, coVars
  <2> QED BY <2>1 DEF Path!Next, Path!Send
<1>2. CASE ConsumeStep /\ C!ReadOk
  <2> DEFINE t == ring[cread + 1]
  <2>1. C!IsOk(Len(ring), RxSlots, cread) /\ write_index' = write_index
    BY <1>2 DEF ConsumeStep, C!ReadOk, txVars
  <2>2. /\ PathInv /\ RingOfDifferent /\ writing \in Nat /\ cread \in Nat
        /\ writing # 0 => writing \notin ToSet(ring)
        /\ Len(ring) \in Nat /\ RxSlots \in Nat
    BY RingIs, WritingIs, TransportAssumption
       DEF TransportInv, ConsumerInv, ConsumerTypes, RingOfDifferent
  <2>3. /\ turns' = Append(turns, t)
        /\ \E m \in Nat : /\ got' = Append(got, m)
                          /\ \/ m = t
                             \/ m = writing /\ writing # 0 /\ cread + RxSlots = Len(ring)
    BY <1>2, <2>2, ReadOkIs
  <2>4. t \in ToSet(ring) /\ t \notin ToSet(turns) /\ ToSet(turns) \subseteq ToSet(ring)
    BY <2>1, NextIsNew
  <2>5. \A m \in Carried : m \in 1 .. write_index BY <2>2, CarriedIsSent, SentOnce
  <2>6. t \in 1 .. write_index BY <2>2, <2>4, <2>5, RingIsCarried
  <2>7. \A D : Path!ToSet(D) = ToSet(D) BY DEF Path!ToSet, ToSet
  <2> HIDE DEF t
  <2>8. t \in Path!Waiting BY <2>4, <2>6, <2>7 DEF Path!Waiting
  <2>9. CASE got' = Append(got, t) BY <2>1, <2>3, <2>8, <2>9 DEF Path!Next, Path!Deliver
  <2>10. CASE /\ got' = Append(got, writing) /\ writing # 0
              /\ cread + RxSlots = Len(ring)
    <3>1. ToSet(got) \subseteq ToSet(ring)
      <4>1. ~(cread + RxSlots > Len(ring)) BY <2>2, <2>10
      <4>2. DOMAIN got = 1 .. Len(got) BY DEF TransportInv, ConsumerInv, ConsumerTypes
      <4> QED BY <4>1, <4>2 DEF TransportInv, Ahead, ToSet
    <3>2. writing \in 1 .. write_index BY <2>2, <2>5, <2>10, WritingIsCarried
    <3>3. writing \in Path!Waiting \ Path!ToSet(got) /\ writing # t
      BY <2>2, <2>4, <2>7, <2>10, <3>1, <3>2 DEF Path!Waiting
    <3> QED BY <2>1, <2>3, <2>8, <2>10, <3>3 DEF Path!Next, Path!DeliverAhead
  <2> QED BY <2>3, <2>9, <2>10
<1>3. CASE UNCHANGED <<write_index, got, turns>> BY <1>3 DEF Path!vars
<1>4. SenderAttach \/ SendStep \/ SenderTimer => UNCHANGED <<write_index, got, turns>>
  <2>1. S!Attach \/ S!SenderLoop \/ S!Quiet \/ S!Stall => write_index' = write_index
    BY SenderStepIs
       DEF SP!Attach, SP!SenderLoop, SP!Quiet, SP!Stall, SP!LoopHead, SP!DrainFull,
           SP!DrainEmpty, SP!DrainLapped, SP!DrainOne, SP!IdleCheck, SP!SendOnStream
  <2> QED BY <2>1 DEF SenderAttach, SendStep, SenderTimer, Others, coVars
<1>5. ReceiveStep \/ ReceiverTimer => UNCHANGED <<write_index, got, turns>>
  BY DEF ReceiveStep, ReceiverTimer, txVars, coVars
<1>6. (ConsumeStep /\ ~C!ReadOk) \/ ConsumerTimer => UNCHANGED <<write_index, got, turns>>
  BY DEF ConsumeStep, ConsumerTimer, txVars, C!ConsumerAttach, C!ConsumerLoop, C!ConsumerQuiet,
         C!ReadLapped, C!ConsumerIdleExit, C!ConsumerStop
<1>7. UNCHANGED vars => UNCHANGED <<write_index, got, turns>> BY DEF vars, txVars, coVars
<1> QED BY <1>1, <1>2, <1>3, <1>4, <1>5, <1>6, <1>7 DEF Next

-----------------------------------------------------------------------------
(* The theorems.                                                           *)

\* The whole path implements OnceDelivery: through laps on either ring, copies
\* lost, repeated and out of order, and a signal or --count wherever it comes,
\* the consumer receives what was published, and nothing of it has two turns.  A
\* read torn at the consumer's ring costs it one message, in whose turn it gets a
\* later one, once, ahead of its own.  A read torn in the sender is excluded: the
\* filter then takes the message that was repeated for the one that was not sent.
THEOREM DeliversOnlyOnce == ~TornReads => (Spec => ImplementsOnceDelivery)
<1> SUFFICES ASSUME ~TornReads PROVE Spec => ImplementsOnceDelivery
  OBVIOUS
<1>1. Init => Path!Init
  BY DEF Init, S!Init, C!ConsumerInit, Path!Init
<1>2. TransportInv /\ [Next]_vars => [Path!Next]_(Path!vars) BY DeliversOnce
<1> QED BY <1>1, <1>2, TransportInvariance, PTL DEF Spec, ImplementsOnceDelivery, Path!Spec

\* Each message the sender's cursor passed is in one column of the reports or
\* was lost on the wire, and each slot of the ring in one of the consumer's.
THEOREM EveryLossIsAccounted == Spec => []LossesAddUp
<1>1. TransportInv => LossesAddUp
  <2> SUFFICES ASSUME TransportInv, ~TornReads, rpc \in {"poll", "exit"},
                      NEW lost, lost = SentMessages \ Carried,
                      NEW too_old, too_old = Carried \ ToSet(ring)
               PROVE  /\ read_index - start =
                             st.lapped_msgs + Cardinality(lost) + Cardinality(too_old)
                             + Len(ring)
                      /\ Len(ring) = cstart + Cardinality(skipped) + acc.received
                                     + Len(ring) - cread
                      /\ too_old # {} => window.too_old > 0
    BY DEF LossesAddUp, SentMessages
  <2>1. PathInv /\ ConsumerInv /\ RingOfDifferent BY RingIs DEF TransportInv
  <2>2. ToSet(ring) \subseteq Carried /\ Carried \subseteq SentMessages
    BY <2>1, RingIsCarried, CarriedIsSent
  <2>3. IsFiniteSet(SentMessages) /\ Cardinality(SentMessages) = st.messages
    BY <2>1, SentOnce
  <2>4. IsFiniteSet(Carried) BY <2>2, <2>3, FS_Subset
  <2>5. Len(ring) \in Nat /\ Cardinality(ToSet(ring)) = Len(ring)
    <3>1. Len(ring) \in Nat /\ DOMAIN ring = 1 .. Len(ring) BY <2>1 DEF RingOfDifferent
    <3>2. Cardinality(Slice(0, Len(ring))) = Len(ring) - 0 BY <2>1, <3>1, SliceFacts
    <3>3. \A x : x \in Slice(0, Len(ring)) <=> x \in ToSet(ring)
      <4>1. \A i \in 0 .. Len(ring) - 1 : i + 1 \in 1 .. Len(ring) BY <3>1
      <4>2. \A k \in 1 .. Len(ring) : k - 1 \in 0 .. Len(ring) - 1 /\ (k - 1) + 1 = k BY <3>1
      <4> QED BY <3>1, <4>1, <4>2 DEF Slice, ToSet
    <3>4. Slice(0, Len(ring)) = ToSet(ring) BY <3>3
    <3> QED BY <3>1, <3>2, <3>4
  <2>6. Cardinality(lost) = st.messages - Cardinality(Carried)
    <3>1. Cardinality(lost) = Cardinality(SentMessages) - Cardinality(SentMessages \cap Carried)
      BY <2>3, FS_Difference
    <3>2. SentMessages \cap Carried = Carried BY <2>2
    <3> QED BY <2>3, <3>1, <3>2
  <2>7. Cardinality(too_old) = Cardinality(Carried) - Len(ring)
    <3>1. Cardinality(too_old) = Cardinality(Carried) - Cardinality(Carried \cap ToSet(ring))
      BY <2>4, FS_Difference
    <3>2. Carried \cap ToSet(ring) = ToSet(ring) BY <2>2
    <3> QED BY <2>5, <3>1, <3>2
  <2>8. read_index - start = st.lapped_msgs + Cardinality(lost) + Cardinality(too_old) + Len(ring)
    <3> DEFINE c == Cardinality(Carried)  m == st.messages  l == st.lapped_msgs
               r == read_index - start  n == Len(ring)
    <3>1. m \in Nat /\ l \in Nat /\ c \in Nat /\ n \in Nat
      BY <2>1, <2>4, <2>5, FS_CardinalityType DEF PathInv, SP!SenderInv, SP!SenderTypes
    <3>2. m + l = r BY <2>1 DEF PathInv, SP!SenderInv, SP!Counted
    <3>3. Cardinality(lost) = m - c /\ Cardinality(too_old) = c - n BY <2>6, <2>7
    <3> HIDE DEF c, m, l, r, n
    <3>4. r = l + (m - c) + (c - n) + n BY <3>1, <3>2
    <3> QED BY <3>3, <3>4 DEF l, r, n
  <2>9. Len(ring) = cstart + Cardinality(skipped) + acc.received + Len(ring) - cread
    <3> DEFINE c == cstart + Cardinality(skipped) + acc.received  n == Len(ring)
    <3>1. cread = c /\ c \in Nat
      BY <2>1 DEF ConsumerInv, ConsumerTypes, Passed
    <3>2. n \in Nat BY <2>5
    <3> HIDE DEF c, n
    <3>3. n = c + n - c BY <3>1, <3>2
    <3> QED BY <3>1, <3>3 DEF c, n
  <2>10. ASSUME too_old # {} PROVE window.too_old > 0
    <3>1. RP!ReceiverTypeOK /\ RP!Served BY <2>1 DEF PathInv, RP!IndInv, RP!Types
    <3>2. frames = <<>> BY <3>1 DEF RP!ReceiverTypeOK
    <3>3. RP!ToSet(frames) = {} BY <3>2 DEF RP!ToSet
    <3>4. RP!Read = Carried BY <2>1, <3>3, CarriedIsSent DEF RP!Read
    <3> QED BY <2>10, <3>1, <3>4, SameSets DEF RP!Served
  <2> QED BY <2>8, <2>9, <2>10
<1> QED BY <1>1, TransportInvariance, PTL

LEMMA BoundsAre ==
    ASSUME NEW D \in SUBSET Nat, NEW a \in D, NEW b \in D, \A m \in D : a <= m /\ m <= b
    PROVE  C!Min(D) = a /\ C!Max(D) = b
<1>1. C!Min(D) \in D /\ \A m \in D : C!Min(D) <= m
  <2>1. \E x \in D : \A m \in D : x <= m OBVIOUS
  <2> QED BY <2>1 DEF C!Min
<1>2. C!Max(D) \in D /\ \A m \in D : C!Max(D) >= m
  <2>1. \E x \in D : \A m \in D : x >= m OBVIOUS
  <2> QED BY <2>1 DEF C!Max
<1>3. C!Min(D) <= a /\ a <= C!Min(D) /\ C!Max(D) >= b /\ C!Max(D) <= b BY <1>1, <1>2
<1>4. C!Min(D) \in Nat /\ C!Max(D) \in Nat /\ a \in Nat /\ b \in Nat BY <1>1, <1>2
<1> QED BY <1>3, <1>4

\* How many messages the reads brought: as many as there were reads, but for those
\* that were torn.
LEMMA ReadsAreMessages ==
    ASSUME ConsumerInv
    PROVE  /\ IsFiniteSet(ToSet(got)) /\ IsFiniteSet(C!Torn)
           /\ Cardinality(ToSet(got)) <= Len(got)
           /\ Len(got) <= Cardinality(ToSet(got)) + Cardinality(C!Torn)
<1> DEFINE I == 1 .. Len(got)  U == I \ C!Torn
           all == [k \in I |-> got[k]]  untorn == [k \in U |-> got[k]]
<1>1. /\ got \in Seq(Nat) /\ turns \in Seq(Nat) /\ Len(got) = Len(turns) /\ IsInjective(turns)
      /\ Len(got) \in Nat /\ DOMAIN got = I /\ DOMAIN turns = I
  BY DEF ConsumerInv, ConsumerTypes, Passed
<1>2. C!Torn \subseteq I /\ \A k \in U : got[k] = turns[k] BY <1>1 DEF C!Torn
<1>3. IsFiniteSet(I) /\ Cardinality(I) = Len(got)
  <2>1. \A x, y \in Nat : /\ IsFiniteSet(x .. y)
                          /\ Cardinality(x .. y) = IF x > y THEN 0 ELSE y - x + 1
    BY FS_Interval
  <2>2. IsFiniteSet(I) /\ Cardinality(I) = IF 1 > Len(got) THEN 0 ELSE Len(got) - 1 + 1
    BY <1>1, <2>1
  <2> QED BY <1>1, <2>2
<1>4. all \in Surjection(I, ToSet(got)) BY <1>1 DEF Surjection, ToSet
<1>5. untorn \in Injection(U, ToSet(got))
  <2>1. untorn \in [U -> ToSet(got)] BY <1>1 DEF ToSet
  <2>2. \A j, k \in U : untorn[j] = untorn[k] => j = k BY <1>1, <1>2 DEF IsInjective
  <2> QED BY <2>1, <2>2 DEF Injection, IsInjective
<1> HIDE DEF I, U, all, untorn
<1>6. IsFiniteSet(ToSet(got)) /\ Cardinality(ToSet(got)) <= Len(got)
  BY <1>3, <1>4, FS_Surjection
<1>7. Cardinality(U) <= Cardinality(ToSet(got)) BY <1>5, <1>6, FS_Injection
<1>8. Cardinality(U) = Len(got) - Cardinality(C!Torn) /\ IsFiniteSet(C!Torn)
  <2>1. Cardinality(U) = Cardinality(I) - Cardinality(I \cap C!Torn)
    BY <1>3, FS_Difference DEF U
  <2>2. I \cap C!Torn = C!Torn BY <1>2
  <2>3. IsFiniteSet(C!Torn) BY <1>2, <1>3, FS_Subset
  <2> QED BY <1>3, <2>1, <2>2, <2>3
<1>9. Cardinality(ToSet(got)) \in Nat /\ Cardinality(C!Torn) \in Nat
  BY <1>6, <1>8, FS_CardinalityType
<1> QED BY <1>1, <1>6, <1>7, <1>8, <1>9

\* The consumer's "dropped" makes no loss up, and of the messages missing between
\* the first and the last it received it hides one for each torn read at most: no
\* copy makes up for another's loss, and the clamp of metrics.h hides nothing else.
THEOREM DroppedIsExact == Spec => []DropsExact
<1>1. TransportInv => DropsExact
  <2> SUFFICES ASSUME TransportInv, got # <<>>, NEW D, D = ToSet(got),
                      NEW missing, missing = Cardinality((C!Min(D) .. C!Max(D)) \ D)
               PROVE  /\ C!Dropped(acc) <= missing
                      /\ missing <= C!Dropped(acc) + Cardinality(C!Torn)
    BY SameSets DEF DropsExact, C!DropsExact
  <2>1. /\ got \in Seq(Nat) /\ acc \in C!Accumulators
        /\ acc.first_seq \in D /\ acc.last_seq \in D
        /\ \A m \in D : acc.first_seq <= m /\ m <= acc.last_seq
        /\ acc.received = Len(got)
    BY DEF TransportInv, ConsumerInv, ConsumerTypes, Passed, Ends
  <2>2. D \subseteq Nat BY <2>1 DEF ToSet
  <2> DEFINE a == acc.first_seq  b == acc.last_seq  n == acc.received  I == a .. b
             c == Cardinality(D)  t == Cardinality(C!Torn)
  <2>3. C!Min(D) = a /\ C!Max(D) = b BY <2>1, <2>2, BoundsAre
  <2>4. a \in Nat /\ b \in Nat /\ n \in Nat /\ a <= b BY <2>1 DEF C!Accumulators
  <2>5. D \subseteq I BY <2>1, <2>2, <2>4
  <2>6. IsFiniteSet(I) /\ Cardinality(I) = b - a + 1
    <3>1. \A x, y \in Nat : /\ IsFiniteSet(x .. y)
                            /\ Cardinality(x .. y) = IF x > y THEN 0 ELSE y - x + 1
      BY FS_Interval
    <3>2. IsFiniteSet(I) /\ Cardinality(I) = IF a > b THEN 0 ELSE b - a + 1
      BY <2>4, <3>1
    <3> QED BY <2>4, <3>2
  <2>7. c \in Nat /\ t \in Nat /\ c <= n /\ n <= c + t
    BY <2>1, ReadsAreMessages, FS_CardinalityType DEF TransportInv
  <2> HIDE DEF I
  <2>8. missing = (b - a + 1) - c /\ missing \in Nat
    <3>1. IsFiniteSet(I \ D) /\ Cardinality(I \ D) = Cardinality(I) - Cardinality(I \cap D)
      BY <2>6, FS_Difference
    <3>2. I \cap D = D BY <2>5
    <3>3. Cardinality(I \ D) \in Nat BY <3>1, FS_CardinalityType
    <3>4. missing = Cardinality(I \ D) BY <2>3 DEF I
    <3> QED BY <2>6, <3>1, <3>2, <3>3, <3>4
  <2>9. n # 0
    <3>1. \A q \in Seq(Nat) : q # <<>> => Len(q) # 0 OBVIOUS
    <3> QED BY <2>1, <3>1
  <2>10. C!Dropped(acc) = C!Greater((b - a + 1) - n, 0)
    BY <2>9 DEF C!Expected, C!Dropped
  <2> HIDE DEF a, b, n, c, t
  <2>11. /\ C!Dropped(acc) <= missing /\ missing <= C!Dropped(acc) + t
    BY <2>4, <2>7, <2>8, <2>10 DEF C!Greater
  <2> QED BY <2>11 DEF t
<1> QED BY <1>1, TransportInvariance, PTL

-----------------------------------------------------------------------------
(* What is so when a process has ended.                                    *)

\* A timer that has run out says what its process may rely on, and keeps
\* saying so until the process ends or goes on.
SenderTimerInv ==
    /\ idle /\ MaxStalls = 0 => write_index = Count /\ read_index = Count
    /\ spc = "attach" => ~idle
    /\ spc = "exit" => idle \/ ~SenderUndisturbed

ReceiverTimerInv ==
    /\ ridle => spc = "exit" /\ wire = {}
    /\ rpc = "exit" => ridle \/ ~ReceiverUndisturbed

ConsumerTimerInv ==
    /\ cidle => rpc = "exit"
    /\ cpc = "exit" => ConsumerCount # 0 \/ (rpc = "exit" /\ cread = Len(ring))

\* Every message the consumer's cursor has passed was skipped or had its turn.
Covered == Slice(0, cread) \subseteq Slice(0, cstart) \cup skipped \cup ToSet(turns)

EndInv == SenderTimerInv /\ ReceiverTimerInv /\ ConsumerTimerInv /\ Covered

LEMMA EndInit == Init => EndInv
<1> SUFFICES ASSUME Init PROVE EndInv
  OBVIOUS
<1>1. /\ idle = FALSE /\ spc = "attach" /\ ridle = FALSE /\ rpc = "poll"
      /\ cidle = FALSE /\ cpc = "attach" /\ cread = 0 /\ cstart = 0
  BY DEF Init, S!Init, R!ReceiverInit, C!ConsumerInit
<1>2. Covered BY <1>1 DEF Covered
<1> QED BY <1>1, <1>2 DEF EndInv, SenderTimerInv, ReceiverTimerInv, ConsumerTimerInv

\* The sender's timer does not run out while there are messages to send, and
\* nothing is published after the last.
LEMMA SenderTimerKeeps ==
    ASSUME PathInv, SenderTimerInv,
           S!Publish \/ S!Attach \/ S!SenderLoop \/ S!Quiet \/ S!Stall
    PROVE  SenderTimerInv'
<1>0. idle \in BOOLEAN BY DEF PathInv, SP!SenderInv, SP!SenderTypes
<1>1. /\ write_index \in Nat /\ read_index \in Nat /\ Count \in Nat
      /\ read_index <= write_index /\ write_index <= Count
  BY SenderConstants DEF PathInv, SP!SenderInv, SP!SenderTypes
<1>2. ASSUME idle, MaxStalls = 0 PROVE write_index = Count /\ read_index = Count
  BY <1>2 DEF SenderTimerInv
<1> USE DEF SenderTimerInv, SenderUndisturbed
<1>3. CASE S!Publish BY <1>1, <1>2, <1>3 DEF S!Publish, S!MorePending, S!senderVars
<1>4. CASE S!Attach BY <1>1, <1>2, <1>4 DEF S!Attach
<1>5. CASE S!LoopHead BY <1>5 DEF S!LoopHead, S!CountReached
<1>6. CASE S!DrainFull \/ S!DrainEmpty BY <1>6 DEF S!DrainFull, S!DrainEmpty, S!Flush
<1>7. CASE S!DrainLapped
  <2>1. /\ S!IsLapped(write_index, TxSlots, read_index, S!MorePending)
        /\ spc' \notin {"attach", "exit"} /\ UNCHANGED <<write_index, idle>>
    BY <1>7 DEF S!DrainLapped, S!Flush
  <2>2. ~(write_index = Count /\ read_index = Count)
    BY <1>1, <2>1, SenderConstants, TransportAssumption
       DEF S!IsLapped, S!Overwritten, S!InReach, S!MorePending
  <2> QED BY <1>2, <2>1, <2>2
<1>8. CASE S!DrainOne
  <2>1. /\ ~S!Empty(write_index, read_index)
        /\ spc' \notin {"attach", "exit"} /\ UNCHANGED <<write_index, idle>>
    BY <1>8 DEF S!DrainOne, S!IsOk, S!AfterAppend
  <2>2. ~(write_index = Count /\ read_index = Count) BY <1>1, <2>1 DEF S!Empty
  <2> QED BY <1>2, <2>1, <2>2
<1>9. CASE S!IdleCheck BY <1>9 DEF S!IdleCheck, S!Done
<1>10. CASE S!SendOnStream BY <1>10 DEF S!SendOnStream
<1>11. CASE S!Quiet BY <1>1, <1>11 DEF S!Quiet, S!MorePending
<1>12. CASE S!Stall
  <2>1. MaxStalls # 0
    <3>1. stalls \in 0 .. MaxStalls BY DEF PathInv, SP!SenderInv, SP!SenderTypes
    <3> QED BY <1>12, <3>1, SenderConstants DEF S!Stall
  <2> QED BY <1>12, <2>1 DEF S!Stall
<1> QED BY <1>3, <1>4, <1>5, <1>6, <1>7, <1>8, <1>9, <1>10, <1>11, <1>12 DEF S!SenderLoop

\* The receiver's timer runs out when the sender has ended and all its copies
\* have been read, so that none comes any more.
LEMMA ReceiverTimerKeeps ==
    ASSUME ReceiverTimerInv, [Next]_vars
    PROVE  ReceiverTimerInv'
<1> USE DEF ReceiverTimerInv, ReceiverUndisturbed
<1>1. CASE ProducerStep \/ SenderAttach \/ SendStep \/ SenderTimer
  <2>1. UNCHANGED <<rpc, ridle>>
    BY <1>1 DEF ProducerStep, SenderAttach, SendStep, SenderTimer, Others, rxVars
  <2>2. spc = "exit" => UNCHANGED <<spc, wire>>
    BY <1>1 DEF ProducerStep, SenderAttach, SendStep, SenderTimer, S!Publish, S!senderVars,
       S!Attach, S!SenderLoop, S!LoopHead, S!DrainFull, S!DrainEmpty, S!DrainLapped, S!DrainOne,
       S!IdleCheck, S!SendOnStream, S!Quiet, S!Stall
  <2> QED BY <2>1, <2>2
<1>2. CASE ReceiveStep
  <2>1. spc' = spc /\ R!ReceiverLoop BY <1>2 DEF ReceiveStep, txVars
  <2>2. wire = {} => wire' = {}
    BY <2>1 DEF R!ReceiverLoop, R!Recv, R!RxIdleExit, R!RxStop, R!Reject, R!Drop, R!Open,
       R!ShortFrame, R!NextFrame, R!Close, R!BatchDone
  <2>3. ridle' = ridle \/ ridle' = FALSE
    BY <2>1 DEF R!ReceiverLoop, R!Recv, R!RxIdleExit, R!RxStop, R!Reject, R!Drop, R!Open,
       R!ShortFrame, R!NextFrame, R!Close, R!BatchDone
  <2>4. rpc # "exit" /\ (rpc' = "exit" => ridle' = ridle /\ (ridle \/ ~ReceiverUndisturbed))
    BY <2>1 DEF R!ReceiverLoop, R!Recv, R!RxIdleExit, R!RxStop, R!Reject, R!Drop, R!Open,
       R!ShortFrame, R!NextFrame, R!Close, R!BatchDone, R!HasFrame, R!RxCountReached
  <2> QED BY <2>1, <2>2, <2>3, <2>4
<1>3. CASE ReceiverTimer
  BY <1>3 DEF ReceiverTimer, R!RxQuiet, txVars
<1>4. CASE UNCHANGED <<spc, wire, rpc, ridle>> BY <1>4
<1> QED BY <1>1, <1>2, <1>3, <1>4
        DEF Next, vars, ConsumeStep, ConsumerTimer, txVars, rxVars

\* The consumer's timer runs out when the receiver has ended, so that the ring
\* is as long as it will ever be.
LEMMA ConsumerTimerKeeps ==
    ASSUME TransportInv, ConsumerTimerInv, [Next]_vars
    PROVE  ConsumerTimerInv'
<1> USE DEF ConsumerTimerInv
<1>1. CASE ReceiveStep \/ ReceiverTimer
  <2>1. UNCHANGED <<cpc, cread, cidle>> BY <1>1 DEF ReceiveStep, ReceiverTimer, coVars
  <2>2. rpc # "exit"
    BY <1>1 DEF ReceiveStep, ReceiverTimer, R!ReceiverLoop, R!Recv, R!RxIdleExit, R!RxStop,
       R!Reject, R!Drop, R!Open, R!ShortFrame, R!NextFrame, R!Close, R!BatchDone, R!HasFrame,
       R!RxQuiet
  <2> QED BY <2>1, <2>2
<1>2. CASE ConsumeStep
  <2>1. UNCHANGED <<rpc, ring>> BY <1>2 DEF ConsumeStep, rxVars
  <2>2. CASE C!ConsumerAttach \/ C!ReadOk \/ C!ReadLapped
    BY <2>1, <2>2 DEF C!ConsumerAttach, C!ReadOk, C!ReadLapped
  <2>3. CASE C!ConsumerIdleExit
    <3>1. cread >= Len(ring) /\ cidle /\ UNCHANGED <<cread, cidle>>
      BY <2>3 DEF C!ConsumerIdleExit, C!NothingToRead, C!Empty
    <3>2. cread \in 0 .. Len(ring) /\ Len(ring) \in Nat
      BY RingIs DEF TransportInv, ConsumerInv, ConsumerTypes, RingOfDifferent
    <3> QED BY <2>1, <3>1, <3>2
  <2>4. CASE C!ConsumerStop
    <3>1. ConsumerCount # 0 BY <2>4 DEF C!ConsumerStop, C!ConsumerCountReached
    <3> QED BY <2>1, <2>4, <3>1 DEF C!ConsumerStop
  <2> QED BY <1>2, <2>2, <2>3, <2>4 DEF ConsumeStep, C!ConsumerLoop
<1>3. CASE ConsumerTimer
  BY <1>3 DEF ConsumerTimer, C!ConsumerQuiet, rxVars
<1>4. CASE UNCHANGED <<rpc, ring, cpc, cread, cidle>> BY <1>4
<1> QED BY <1>1, <1>2, <1>3, <1>4
        DEF Next, vars, ProducerStep, SenderAttach, SendStep, SenderTimer, Others, rxVars, coVars

LEMMA CoveredKeeps ==
    ASSUME TransportInv, Covered, [Next]_vars
    PROVE  Covered'
<1>0. /\ RingOfDifferent /\ ring \in Seq(Nat) /\ Len(ring) \in Nat
      /\ cread \in 0 .. Len(ring) /\ cstart \in 0 .. cread
  BY RingIs DEF TransportInv, ConsumerInv, ConsumerTypes, RingOfDifferent
<1>1. CASE ReceiveStep \/ ReceiverTimer
  <2>1. UNCHANGED coVars /\ (R!ReceiverLoop \/ R!RxQuiet)
    BY <1>1 DEF ReceiveStep, ReceiverTimer
  <2>2. PICK m \in Nat : ring' = ring \/ ring' = Append(ring, m)
    BY <2>1, RingAppended DEF TransportInv
  <2>3. \A i \in 1 .. Len(ring) : ring'[i] = ring[i] BY <1>0, <2>2
  <2>4. \A i \in 0 .. cread - 1 : ring'[i + 1] = ring[i + 1] BY <1>0, <2>3
  <2>5. \A i \in 0 .. cstart - 1 : ring'[i + 1] = ring[i + 1] BY <1>0, <2>3
  <2>6. Slice(0, cread)' = Slice(0, cread) /\ Slice(0, cstart)' = Slice(0, cstart)
    BY <2>1, <2>4, <2>5 DEF coVars, Slice
  <2> QED BY <2>1, <2>6 DEF Covered, coVars
<1>2. CASE ConsumeStep /\ C!ConsumerAttach
  <2>1. ring' = ring /\ cread' = cstart'
    BY <1>2 DEF ConsumeStep, rxVars, C!ConsumerAttach
  <2> QED BY <2>1 DEF Covered, Slice
<1>3. CASE ConsumeStep /\ C!ReadOk
  <2>1. /\ ring' = ring /\ cread' = cread + 1 /\ turns' = Append(turns, ring[cread + 1])
        /\ UNCHANGED <<cstart, skipped>>
    BY <1>3 DEF ConsumeStep, rxVars, C!ReadOk
  <2>2. turns \in Seq(Nat) BY DEF TransportInv, ConsumerInv, ConsumerTypes
  <2>3. cread + 1 \in 1 .. Len(ring) BY <1>0, <1>3 DEF C!ReadOk, C!IsOk, C!Empty
  <2>4. ToSet(turns') = ToSet(turns) \cup {ring[cread + 1]}
    <3>1. RP!ToSet(turns') = RP!ToSet(turns) \cup {ring[cread + 1]}
      <4>1. ring[cread + 1] \in Nat BY <1>0, <2>3
      <4> QED BY <2>1, <2>2, <4>1, RP!AppendFacts, ReceiverConstants
    <3> QED BY <3>1, SameSets
  <2>5. Slice(0, cread + 1) \subseteq Slice(0, cread) \cup {ring[cread + 1]}
    <3>1. \A i \in 0 .. (cread + 1) - 1 : i \in 0 .. cread - 1 \/ i = cread BY <1>0
    <3> QED BY <3>1 DEF Slice
  <2>6. Slice(0, cread)' = Slice(0, cread + 1) /\ Slice(0, cstart)' = Slice(0, cstart)
    BY <2>1 DEF Slice
  <2> QED BY <2>1, <2>4, <2>5, <2>6 DEF Covered
<1>4. CASE ConsumeStep /\ C!ReadLapped
  <2>1. /\ ring' = ring /\ UNCHANGED <<cstart, turns>>
        /\ skipped' = skipped \cup {ring[i + 1] : i \in cread .. cread' - 1}
        /\ cread' = C!ResumeAt(Len(ring), RxSlots)
    BY <1>4 DEF ConsumeStep, rxVars, C!ReadLapped
  <2>2. cread' \in Nat BY <1>0, <2>1, TransportAssumption DEF C!ResumeAt
  <2>p. PICK to \in Nat : to = cread' BY <2>2
  <2>3. Slice(0, to) \subseteq Slice(0, cread) \cup Slice(cread, to)
    <3>1. \A i \in 0 .. to - 1 : i \in 0 .. cread - 1 \/ i \in cread .. to - 1 BY <1>0
    <3> QED BY <3>1 DEF Slice
  <2>4. skipped' = skipped \cup Slice(cread, to) BY <2>1, <2>p DEF Slice
  <2>5. Slice(0, cread)' = Slice(0, to) /\ Slice(0, cstart)' = Slice(0, cstart)
    BY <2>1, <2>p DEF Slice
  <2> QED BY <2>1, <2>3, <2>4, <2>5 DEF Covered
<1>5. CASE UNCHANGED <<ring, cread, cstart, turns, skipped>> BY <1>5 DEF Covered, Slice
<1>6. C!ConsumerIdleExit \/ C!ConsumerStop \/ C!ConsumerQuiet
      => UNCHANGED <<cread, cstart, turns, skipped>>
  BY DEF C!ConsumerIdleExit, C!ConsumerStop, C!ConsumerQuiet
<1>7. ConsumeStep \/ ConsumerTimer => UNCHANGED ring BY DEF ConsumeStep, ConsumerTimer, rxVars
<1> QED BY <1>1, <1>2, <1>3, <1>4, <1>5, <1>6, <1>7
        DEF Next, vars, ConsumeStep, ConsumerTimer, C!ConsumerLoop, ProducerStep, SenderAttach,
            SendStep, SenderTimer, Others, rxVars, coVars

LEMMA EndInvariance == Spec => [](TransportInv /\ EndInv)
<1>1. TransportInv /\ EndInv /\ [Next]_vars => EndInv'
  <2> SUFFICES ASSUME TransportInv, EndInv, [Next]_vars PROVE EndInv'
    OBVIOUS
  <2>1. SenderTimerInv'
    <3>1. CASE ProducerStep \/ SenderAttach \/ SendStep \/ SenderTimer
      BY <3>1, SenderTimerKeeps
         DEF ProducerStep, SenderAttach, SendStep, SenderTimer, TransportInv, EndInv
    <3>2. CASE UNCHANGED txVars BY <3>2 DEF txVars, EndInv, SenderTimerInv
    <3> QED BY <3>1, <3>2 DEF Next, vars, ReceiveStep, ReceiverTimer, ConsumeStep, ConsumerTimer
  <2> QED BY <2>1, ReceiverTimerKeeps, ConsumerTimerKeeps, CoveredKeeps DEF EndInv
<1> QED BY <1>1, EndInit, TransportInvariance, PTL DEF Spec

\* A process that nothing but its idle timer can end has done all its work when
\* it ends: no timer is stale, set before what it waited for came after all.
THEOREM NothingIsLeftBehind == Spec => []NothingLeftBehind
<1>1. TransportInv /\ EndInv => NothingLeftBehind
  BY DEF EndInv, SenderTimerInv, ReceiverTimerInv, ConsumerTimerInv, NothingLeftBehind,
         SenderUndisturbed
<1> QED BY <1>1, EndInvariance, PTL

\* What a copy read by the receiver carried has arrived when the consumer ends.
THEOREM ArrivesByTheEnd == Spec => []ArrivedByTheEnd
<1>1. TransportInv /\ EndInv => ArrivedByTheEnd
  <2> SUFFICES ASSUME TransportInv, EndInv, cpc = "exit", ConsumerCount = 0, NEW m \in Carried
               PROVE  Arrived(m)
    BY DEF ArrivedByTheEnd
  <2>1. rpc = "exit" /\ cread = Len(ring) BY DEF EndInv, ConsumerTimerInv
  <2>2. frames = <<>> BY <2>1 DEF TransportInv, PathInv, RP!IndInv, RP!Types, RP!ReceiverTypeOK
  <2>3. m \in RP!Read
    <3>1. RP!ToSet(frames) = {} BY <2>2 DEF RP!ToSet
    <3> QED BY <3>1, CarriedIsSent DEF RP!Read, TransportInv
  <2>4. m \in ToSet(ring) \/ \E r \in ToSet(ring) : r - m >= Window
    BY <2>3, SameSets DEF TransportInv, PathInv, RP!IndInv, RP!Served, RP!OneCopySuffices
  <2>5. CASE m \in ToSet(ring)
    <3>1. /\ DOMAIN ring = 1 .. Len(ring) /\ Len(ring) \in Nat
          /\ cstart \in 0 .. Len(ring)
      BY <2>1, RingIs DEF RingOfDifferent, TransportInv, ConsumerInv, ConsumerTypes
    <3>2. PICK k \in 1 .. Len(ring) : ring[k] = m BY <2>5, <3>1 DEF ToSet
    <3>3. k - 1 \in 0 .. cread - 1 /\ (k - 1) + 1 = k BY <2>1, <3>1
    <3>4. m \in Slice(0, cread) BY <3>2, <3>3 DEF Slice
    <3>5. m \in Slice(0, cstart) \cup skipped \cup ToSet(turns) BY <3>4 DEF EndInv, Covered
    <3>7. m \in ToSet(turns) => m \in ToSet(got) \/ \E n \in C!Torn : turns[n] = m
      <4>1. /\ DOMAIN turns = 1 .. Len(turns) /\ DOMAIN got = 1 .. Len(got)
            /\ Len(got) = Len(turns)
        BY DEF TransportInv, ConsumerInv, ConsumerTypes
      <4> QED BY <4>1 DEF ToSet, C!Torn
    <3>6. m \in Slice(0, cstart) => \E n \in 1 .. cstart : ring[n] = m
      <4>1. \A i \in 0 .. cstart - 1 : i + 1 \in 1 .. cstart BY <3>1
      <4> QED BY <4>1 DEF Slice
    <3> QED BY <3>5, <3>6, <3>7 DEF Arrived
  <2> QED BY <2>4, <2>5 DEF Arrived
<1> QED BY <1>1, EndInvariance, PTL

\* When a session that nobody interrupted has ended, nothing published since the
\* sender's start is missing from the four reports.
THEOREM ReportsClose == Spec => []FinalReportsClose
<1>1. TransportInv /\ EndInv /\ LossesAddUp => FinalReportsClose
  <2> SUFFICES ASSUME TransportInv, EndInv, LossesAddUp, cpc = "exit", ConsumerCount = 0,
                      SenderUndisturbed, ReceiverUndisturbed, ~TornReads,
                      NEW lost, lost = {S!Message(p) : p \in S!Drained} \ Carried,
                      NEW too_old, too_old = Carried \ ToSet(ring)
               PROVE  Count - start = st.lapped_msgs + Cardinality(lost) + Cardinality(too_old)
                                      + cstart + Cardinality(skipped) + acc.received
    BY DEF FinalReportsClose
  <2>1. rpc = "exit" /\ cread = Len(ring) BY DEF EndInv, ConsumerTimerInv
  <2>2. read_index = Count
    BY <2>1 DEF EndInv, ReceiverTimerInv, SenderTimerInv, SenderUndisturbed
  <2>3. read_index - start = st.lapped_msgs + Cardinality(lost) + Cardinality(too_old) + Len(ring)
    BY <2>1 DEF LossesAddUp
  <2>4. cread = cstart + Cardinality(skipped) + acc.received
    BY DEF TransportInv, ConsumerInv, Passed
  <2>5. /\ cread \in Nat /\ cstart \in Nat /\ acc.received \in Nat
        /\ Cardinality(skipped) \in Nat
    <3>1. Len(ring) \in Nat BY RingIs DEF TransportInv, RingOfDifferent
    <3> QED BY <2>1, <3>1, FS_CardinalityType
            DEF TransportInv, ConsumerInv, ConsumerTypes, Passed, C!Accumulators
  <2>6. st.lapped_msgs \in Nat /\ Cardinality(lost) \in Nat /\ Cardinality(too_old) \in Nat
    <3>1. IsFiniteSet(lost) /\ IsFiniteSet(too_old)
      <4>1. IsFiniteSet(SentMessages) BY SentOnce DEF TransportInv
      <4>2. lost \subseteq SentMessages /\ too_old \subseteq SentMessages
        BY CarriedIsSent DEF SentMessages, TransportInv
      <4> QED BY <4>1, <4>2, FS_Subset
    <3> QED BY <3>1, FS_CardinalityType DEF TransportInv, PathInv, SP!SenderInv, SP!SenderTypes
  <2> DEFINE l == st.lapped_msgs  o == Cardinality(lost)  t == Cardinality(too_old)
             s == Cardinality(skipped)  g == acc.received
  <2>7. Count - start = l + o + t + cread BY <2>1, <2>2, <2>3
  <2>8. cread = cstart + s + g BY <2>4
  <2>9. \A u, v, w, x, y, z \in Nat : u + v + w + (x + y + z) = u + v + w + x + y + z OBVIOUS
  <2>10. l \in Nat /\ o \in Nat /\ t \in Nat /\ s \in Nat /\ g \in Nat /\ cstart \in Nat
    BY <2>5, <2>6
  <2> HIDE DEF l, o, t, s, g
  <2>11. Count - start = l + o + t + cstart + s + g BY <2>7, <2>8, <2>9, <2>10
  <2> QED BY <2>11 DEF l, o, t, s, g
<1> QED BY <1>1, EndInvariance, EveryLossIsAccounted, PTL

=============================================================================
