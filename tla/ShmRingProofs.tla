---------------------------- MODULE ShmRingProofs ----------------------------
(***************************************************************************)
(* Proofs about ShmRing for every slot count, every --count and every set  *)
(* of readers: type correctness, the safety invariants, the two action     *)
(* properties and the implementation of BroadcastLog.                      *)
(***************************************************************************)
EXTENDS ShmRing, FiniteSetTheorems, TLAPS

(* Arithmetic of slots: a slot is to the ring what a bit is to the filter. *)

Lap == INSTANCE DedupProofs WITH Window <- SlotCount

LEMMA SlotType == ASSUME NEW a \in Nat PROVE SlotOf(a) \in Slots
BY SlotCountAssumption DEF SlotOf, Slots

\* Two indices of one slot are a whole lap apart.
LEMMA LapGap ==
    ASSUME NEW a \in Nat, NEW b \in Nat, SlotOf(a) = SlotOf(b), a > b
    PROVE  a >= b + SlotCount
BY Lap!ResidueGap, SlotCountAssumption DEF SlotOf

LEMMA NextLap == ASSUME NEW a \in Nat PROVE SlotOf(a + SlotCount) = SlotOf(a)
BY Lap!ResidueShift, SlotCountAssumption DEF SlotOf

-----------------------------------------------------------------------------
(* Type correctness.                                                       *)

LEMMA UpdateType ==
    ASSUME NEW S, NEW T, NEW f \in [S -> T], NEW x, NEW v \in T
    PROVE  [f EXCEPT ![x] = v] \in [S -> T]
OBVIOUS

LEMMA PublishedType ==
    /\ write_index \in Nat => Published \in Nat
    /\ write_index' \in Nat => Published' \in Nat
BY DEF Published

LEMMA TypeInit == Init => TypeOK
BY DEF Init, TypeOK, Frames, Blank, NoFrame, Words

LEMMA TypeStep == TypeOK /\ [Next]_vars => TypeOK'
<1> SUFFICES ASSUME TypeOK, [Next]_vars PROVE TypeOK'
  OBVIOUS
<1> USE DEF TypeOK
<1>1. ASSUME NEW w \in Words, WriteWord(w) PROVE TypeOK'
  <2> DEFINE s == SlotOf(write_index)
  <2>1. [frame[s] EXCEPT ![w] = write_index + 1] \in Frames
    BY SlotType DEF Frames
  <2>2. frame' = [frame EXCEPT ![s] = [frame[s] EXCEPT ![w] = write_index + 1]]
    BY <1>1 DEF WriteWord
  <2> HIDE DEF s
  <2>3. frame' \in [Slots -> Frames]
    BY <2>1, <2>2
  <2> QED BY <1>1, <2>3 DEF WriteWord, readerVars
<1>2. CASE StoreSeq
  <2> DEFINE s == SlotOf(write_index)
  <2>1. seq' = [seq EXCEPT ![s] = write_index + 1] /\ pc' = "write_index"
    BY <1>2 DEF StoreSeq
  <2> HIDE DEF s
  <2>2. seq' \in [Slots -> Nat] /\ pc' \in {"frame", "write_index"}
    BY <2>1, UpdateType, write_index + 1 \in Nat
  <2>3. UNCHANGED <<frame, write_index, unwritten, readerVars>>
    BY <1>2 DEF StoreSeq
  <2> QED BY <2>2, <2>3 DEF readerVars
<1>3. CASE StoreWriteIndex
  BY <1>3 DEF StoreWriteIndex, readerVars
<1>4. ASSUME NEW r \in Readers, Attach(r) PROVE TypeOK'
  BY <1>4 DEF Attach, slotVars, producerVars, live_edge
<1>5. ASSUME NEW r \in Readers, LoadSeq(r) PROVE TypeOK'
  BY <1>5 DEF LoadSeq, slotVars, producerVars
<1>6. ASSUME NEW r \in Readers, NEW w \in Words, CopyWord(r, w) PROVE TypeOK'
  <2>1. frame[SlotOf(read_index[r])][w] \in Nat BY SlotType DEF Frames
  <2>2. out' \in [Readers -> Frames] BY <1>6, <2>1 DEF CopyWord, Frames
  <2> QED BY <1>6, <2>2 DEF CopyWord, slotVars, producerVars
<1>7. ASSUME NEW r \in Readers, Recheck(r) PROVE TypeOK'
  <2>1. [at |-> read_index[r], words |-> out[r]] \in [at : Nat, words : Frames]
    OBVIOUS
  <2>2. /\ got' \in [Readers -> [at : Nat, words : Frames]]
        /\ read_index' \in [Readers -> Nat]
        /\ rpc' \in [Readers -> {"detached", "seq", "copy", "edge"}]
    BY <1>7, <2>1 DEF Recheck
  <2> QED BY <1>7, <2>2 DEF Recheck, slotVars, producerVars
<1>8. ASSUME NEW r \in Readers, Lapped(r) PROVE TypeOK'
  <2>1. resume_at \in Nat BY SlotCountAssumption DEF resume_at, live_edge
  <2> QED BY <1>8, <2>1 DEF Lapped, slotVars, producerVars
<1>9. CASE UNCHANGED vars
  BY <1>9 DEF vars
<1> QED BY <1>1, <1>2, <1>3, <1>4, <1>5, <1>6, <1>7, <1>8, <1>9
        DEF Next, Producer, Read

\* Every variable keeps its type: a cursor, an index or a seq never leaves the
\* naturals, so no subtraction in read() wraps round.
THEOREM TypeCorrect == Spec => []TypeOK
BY TypeInit, TypeStep, PTL DEF Spec

-----------------------------------------------------------------------------
(* The slots, whose contents only the producer changes.                    *)

LEMMA SlotsInit == Init => SlotsCurrent /\ FramesMatchSeq
<1> SUFFICES ASSUME Init PROVE SlotsCurrent /\ FramesMatchSeq
  OBVIOUS
<1>1. Published = 0 BY DEF Init, Published
<1> QED BY <1>1 DEF Init, SlotsCurrent, FramesMatchSeq, Blank

\* A seq beyond the message wanted is at least a lap beyond it.
LEMMA SeqGap ==
    ASSUME TypeOK, SlotsCurrent,
           NEW i \in Nat, seq[SlotOf(i)] > i + 1
    PROVE  /\ seq[SlotOf(i)] >= i + 1 + SlotCount
           /\ write_index >= i + SlotCount
<1> DEFINE q == seq[SlotOf(i)]
<1>1. SlotOf(i) \in Slots BY SlotType
<1>2. q \in Nat /\ q <= Published BY <1>1 DEF TypeOK, SlotsCurrent
<1>3. SlotOf(q - 1) = SlotOf(i) BY <1>1, <1>2 DEF SlotsCurrent
<1>4. q - 1 \in Nat /\ q - 1 > i BY <1>2
<1>5. q - 1 >= i + SlotCount BY <1>3, <1>4, LapGap
<1> QED BY <1>2, <1>5, SlotCountAssumption DEF Published, TypeOK

LEMMA SlotsStep ==
    TypeOK /\ SlotsCurrent /\ FramesMatchSeq /\ Producer
        => SlotsCurrent' /\ FramesMatchSeq'
<1> SUFFICES ASSUME TypeOK, SlotsCurrent, FramesMatchSeq, Producer
             PROVE  SlotsCurrent' /\ FramesMatchSeq'
  OBVIOUS
<1> USE DEF TypeOK
<1>s. SlotOf(write_index) \in Slots BY SlotType
<1>1. ASSUME NEW w \in Words, WriteWord(w) PROVE SlotsCurrent' /\ FramesMatchSeq'
  <2>1. SlotsCurrent'
    BY <1>1 DEF WriteWord, SlotsCurrent, Published
  <2>2. FramesMatchSeq'
    BY <1>1, <1>s DEF WriteWord, FramesMatchSeq, Frames
  <2> QED BY <2>1, <2>2
<1>2. CASE StoreSeq
  <2>1. Published = write_index /\ Published' = write_index + 1
    BY <1>2 DEF StoreSeq, Published
  <2>2. seq' = [seq EXCEPT ![SlotOf(write_index)] = write_index + 1]
    BY <1>2 DEF StoreSeq
  <2>3. \A s \in Slots : seq'[s] <= Published' /\ (seq'[s] = 0 \/ SlotOf(seq'[s] - 1) = s)
    BY <1>s, <2>1, <2>2 DEF SlotsCurrent
  <2>4. ASSUME NEW i \in 0 .. Published' - 1 PROVE seq'[SlotOf(i)] >= i + 1
    <3>1. SlotOf(i) \in Slots BY <2>1, SlotType
    <3>2. CASE SlotOf(i) = SlotOf(write_index)
      BY <1>s, <2>1, <2>2, <3>2
    <3>3. CASE SlotOf(i) # SlotOf(write_index)
      <4>1. i # write_index BY <3>3
      <4>2. i \in 0 .. Published - 1 BY <2>1, <4>1
      <4> QED BY <2>2, <3>1, <3>3, <4>2 DEF SlotsCurrent
    <3> QED BY <3>2, <3>3
  <2>5. SlotsCurrent' BY <2>3, <2>4 DEF SlotsCurrent
  <2>6. FramesMatchSeq'
    BY <1>2, <1>s, <2>2 DEF StoreSeq, FramesMatchSeq
  <2> QED BY <2>5, <2>6
<1>3. CASE StoreWriteIndex
  <2>1. Published' = Published
    BY <1>3 DEF StoreWriteIndex, Published
  <2>2. SlotsCurrent'
    BY <1>3, <2>1 DEF StoreWriteIndex, SlotsCurrent
  <2>3. FramesMatchSeq'
    BY <1>3 DEF StoreWriteIndex, FramesMatchSeq
  <2> QED BY <2>2, <2>3
<1> QED BY <1>1, <1>2, <1>3 DEF Producer

-----------------------------------------------------------------------------
(* The readers.                                                            *)

\* What a producer's step can do to what a reader has seen.
LEMMA ProducerMonotone ==
    ASSUME TypeOK, SlotsCurrent, Producer
    PROVE  /\ write_index' >= write_index
           /\ Published' >= Published
           /\ \A s \in Slots : seq'[s] \in Nat /\ seq'[s] >= seq[s]
           /\ write_index' = write_index /\ unwritten # Words => unwritten' # Words
           /\ UNCHANGED readerVars
<1> USE DEF TypeOK
<1>s. SlotOf(write_index) \in Slots BY SlotType
<1>1. ASSUME NEW w \in Words, WriteWord(w)
      PROVE  /\ write_index' = write_index /\ seq' = seq /\ pc' = pc /\ UNCHANGED readerVars
             /\ unwritten' # Words
  BY <1>1 DEF WriteWord
<1>2. CASE StoreSeq
  <2>1. /\ Published = write_index /\ Published' = write_index + 1
        /\ write_index' = write_index /\ unwritten' = unwritten /\ UNCHANGED readerVars
        /\ seq' = [seq EXCEPT ![SlotOf(write_index)] = write_index + 1]
    BY <1>2 DEF StoreSeq, Published
  <2> QED BY <1>s, <2>1 DEF SlotsCurrent
<1>3. CASE StoreWriteIndex
  BY <1>3 DEF StoreWriteIndex, Published
<1> QED BY <1>1, <1>2, <1>3 DEF Producer, Published

LEMMA ReaderStepOfProducer ==
    ASSUME TypeOK, TypeOK', SlotsCurrent, Producer, NEW r \in Readers, ReaderInv(r)
    PROVE  ReaderInv(r)'
<1> USE DEF TypeOK
<1> DEFINE i == read_index[r]  s == SlotOf(i)
<1>1. /\ write_index' >= write_index /\ write_index \in Nat /\ write_index' \in Nat
      /\ Published' >= Published /\ Published \in Nat /\ Published' \in Nat
      /\ \A t \in Slots : seq'[t] \in Nat /\ seq'[t] >= seq[t]
      /\ write_index' = write_index /\ unwritten # Words => unwritten' # Words
      /\ UNCHANGED readerVars
  <2>2. write_index \in Nat /\ write_index' \in Nat OBVIOUS
  <2>1. Published \in Nat /\ Published' \in Nat BY <2>2, PublishedType
  <2> QED BY <2>1, <2>2, ProducerMonotone
<1>2. i \in Nat /\ s \in Slots /\ SlotCount \in Nat BY SlotType, SlotCountAssumption
<1>3. \A j \in Nat, word \in Nat : WordFor(j, word) => WordFor(j, word)'
  BY <1>1, <1>2 DEF WordFor
<1>4. (read_index[r] <= Published)'
  BY <1>1, <1>2 DEF ReaderInv, readerVars
<1>5. rpc'[r] = "copy" =>
         /\ SeqOf(r)' >= Want(r)'
         /\ SeqOf(r)' = Want(r)' =>
               \A w \in Words \ uncopied'[r] : WordFor(read_index[r], out[r][w])'
  <2> SUFFICES ASSUME rpc'[r] = "copy"
               PROVE  /\ SeqOf(r)' >= Want(r)'
                      /\ SeqOf(r)' = Want(r)' =>
                            \A w \in Words \ uncopied'[r] :
                                WordFor(read_index[r], out[r][w])'
    OBVIOUS
  <2>1. /\ rpc' = rpc /\ read_index' = read_index
        /\ uncopied' = uncopied /\ out' = out
    BY <1>1 DEF readerVars
  <2>2. SeqOf(r)' = seq'[s] /\ SeqOf(r) = seq[s] /\ Want(r)' = i + 1 /\ Want(r) = i + 1
    BY <2>1 DEF SeqOf, Want, SlotOf
  <2>3. seq'[s] >= seq[s] /\ seq[s] \in Nat /\ seq'[s] \in Nat BY <1>1, <1>2
  <2>4. seq[s] >= i + 1 BY <2>1, <2>2 DEF ReaderInv
  <2>5. ASSUME seq'[s] = i + 1, NEW w \in Words \ uncopied[r]
        PROVE  WordFor(i, out[r][w])
    BY <1>2, <2>1, <2>2, <2>3, <2>4, <2>5 DEF ReaderInv
  <2>6. \A w \in Words : out[r][w] \in Nat BY DEF Frames
  <2>7. ASSUME seq'[s] = i + 1, NEW w \in Words \ uncopied[r]
        PROVE  WordFor(read_index[r], out[r][w])'
    BY <1>2, <1>3, <2>1, <2>5, <2>6, <2>7 DEF WordFor
  <2> QED BY <1>2, <2>1, <2>2, <2>3, <2>4, <2>7
<1>6. rpc'[r] = "edge" => SeqOf(r)' > Want(r)'
  <2>1. rpc' = rpc /\ read_index' = read_index BY <1>1 DEF readerVars
  <2>2. SeqOf(r)' = seq'[s] /\ SeqOf(r) = seq[s] /\ Want(r)' = i + 1 /\ Want(r) = i + 1
    BY <2>1 DEF SeqOf, Want, SlotOf
  <2>3. seq'[s] >= seq[s] /\ seq[s] \in Nat /\ seq'[s] \in Nat BY <1>1, <1>2
  <2> QED BY <1>2, <2>1, <2>2, <2>3 DEF ReaderInv
<1>7. got'[r] # NoFrame => \A w \in Words : WordFor(got[r].at, got[r].words[w])'
  <2>1. got' = got BY <1>1 DEF readerVars
  <2>2. got[r].at \in Nat /\ \A w \in Words : got[r].words[w] \in Nat BY DEF Frames
  <2> QED BY <1>3, <2>1, <2>2 DEF ReaderInv, WordFor
<1> QED BY <1>4, <1>5, <1>6, <1>7 DEF ReaderInv, NoFrame, Blank

\* A step of a reader leaves the ring and the other readers alone.
LEMMA ReaderStepOfOther ==
    ASSUME TypeOK, NEW r \in Readers, ReaderInv(r),
           UNCHANGED <<slotVars, producerVars>>,
           rpc'[r] = rpc[r], read_index'[r] = read_index[r],
           uncopied'[r] = uncopied[r], out'[r] = out[r], got'[r] = got[r]
    PROVE  ReaderInv(r)'
BY DEF ReaderInv, SeqOf, Want, WordFor, Published, slotVars, producerVars,
       NoFrame, Blank, SlotOf

LEMMA ReaderStepOfReader ==
    ASSUME IndInv, NEW q \in Readers, Attach(q) \/ Read(q), NEW r \in Readers
    PROVE  ReaderInv(r)'
<1> USE DEF IndInv, TypeOK
<1>s. /\ UNCHANGED <<slotVars, producerVars>>
      /\ \A p \in Readers \ {q} :
             /\ rpc'[p] = rpc[p] /\ read_index'[p] = read_index[p]
             /\ uncopied'[p] = uncopied[p] /\ out'[p] = out[p] /\ got'[p] = got[p]
  BY DEF Attach, Read, LoadSeq, CopyWord, Recheck, Lapped
<1>o. CASE r # q
  BY <1>o, <1>s, ReaderStepOfOther
<1>r. CASE r = q
  <2> DEFINE i == read_index[r]  s == SlotOf(i)
  <2>i. i \in Nat /\ s \in Slots /\ SlotCount \in Nat \ {0} /\ Published \in Nat
    BY SlotType, SlotCountAssumption DEF Published
  <2>u. /\ seq' = seq /\ frame' = frame /\ write_index' = write_index
        /\ pc' = pc /\ unwritten' = unwritten /\ Published' = Published
    BY <1>s DEF slotVars, producerVars, Published
  <2>g. got[r] # NoFrame => \A w \in Words : WordFor(got[r].at, got[r].words[w])
    BY DEF ReaderInv
  <2>1. CASE Attach(r)
    <3>1. /\ rpc'[r] = "seq" /\ read_index'[r] \in {0, write_index}
          /\ got'[r] = got[r]
      BY <2>1 DEF Attach, live_edge
    <3>2. read_index'[r] <= Published' BY <3>1, <2>u DEF Published
    <3> QED BY <2>u, <2>g, <3>1, <3>2 DEF ReaderInv, WordFor, NoFrame, Blank
  <2>2. CASE LoadSeq(r)
    <3>1. read_index' = read_index /\ out' = out /\ got' = got
      BY <2>2 DEF LoadSeq
    <3>2. CASE SeqOf(r) = Want(r) /\ rpc'[r] = "copy" /\ uncopied'[r] = Words
      <4>1. (SeqOf(r) = Want(r))' BY <2>u, <3>1, <3>2 DEF SeqOf, Want, SlotOf
      <4>2. Want(r)' \in Nat BY <2>i, <3>1 DEF Want
      <4> QED BY <2>u, <2>g, <3>1, <3>2, <4>1, <4>2 DEF ReaderInv, WordFor, NoFrame, Blank
    <3>3. CASE SeqOf(r) > Want(r) /\ rpc'[r] = "edge"
      <4>1. (SeqOf(r) > Want(r))' BY <2>u, <3>1, <3>3 DEF SeqOf, Want, SlotOf
      <4> QED BY <2>u, <2>g, <3>1, <3>3, <4>1 DEF ReaderInv, WordFor, NoFrame, Blank
    <3> QED BY <2>2, <3>2, <3>3 DEF LoadSeq
  <2>3. ASSUME NEW w \in Words, CopyWord(r, w) PROVE ReaderInv(r)'
    <3>1. /\ rpc[r] = "copy" /\ rpc' = rpc /\ read_index' = read_index /\ got' = got
          /\ out'[r] = [out[r] EXCEPT ![w] = frame[s][w]]
          /\ uncopied'[r] = uncopied[r] \ {w}
      BY <2>3 DEF CopyWord
    <3>2. SeqOf(r)' = seq[s] /\ SeqOf(r) = seq[s] /\ Want(r)' = i + 1 /\ Want(r) = i + 1
      BY <2>u, <3>1 DEF SeqOf, Want, SlotOf
    <3>3. ASSUME seq[s] = i + 1 PROVE WordFor(i, frame[s][w])
      <4>1. CASE frame[s][w] = seq[s]
        BY <3>3, <4>1 DEF WordFor
      <4>2. CASE /\ pc = "frame" /\ s = SlotOf(write_index) /\ frame[s][w] = write_index + 1
                 /\ unwritten # Words
        <5>1. Published = write_index BY <4>2 DEF Published
        <5>2. write_index > i BY <2>i, <3>3, <5>1 DEF SlotsCurrent
        <5>3. write_index >= i + SlotCount BY <2>i, <4>2, <5>2, LapGap
        <5>4. ~(i + SlotCount <= Published - 1)
          <6>1. i + SlotCount \in Nat /\ SlotOf(i + SlotCount) = s BY <2>i, NextLap
          <6>2. SUFFICES ASSUME i + SlotCount \in 0 .. Published - 1 PROVE FALSE
            BY <2>i, <6>1
          <6>3. seq[s] >= i + SlotCount + 1 BY <6>1, <6>2 DEF SlotsCurrent
          <6> QED BY <2>i, <3>3, <6>3
        <5>5. write_index \in Nat OBVIOUS
        <5>6. write_index = i + SlotCount BY ONLY <2>i, <5>1, <5>3, <5>4, <5>5
        <5>7. frame[s][w] = i + 1 + SlotCount BY ONLY <2>i, <4>2, <5>6
        <5> QED BY ONLY <2>i, <4>2, <5>3, <5>7 DEF WordFor
      <4> QED BY <2>i, <4>1, <4>2 DEF FramesMatchSeq
    <3>4. \A v \in Words : out'[r][v] = IF v = w THEN frame[s][w] ELSE out[r][v]
      BY <3>1 DEF Frames
    <3>5. seq[s] >= i + 1 BY <3>1, <3>2 DEF ReaderInv
    <3>6. ASSUME seq[s] = i + 1, NEW v \in Words \ uncopied'[r]
          PROVE  WordFor(i, out'[r][v])
      <4>1. CASE v = w BY <3>3, <3>4, <3>6, <4>1
      <4>2. CASE v # w
        <5>1. v \in Words \ uncopied[r] BY <3>1, <3>6, <4>2
        <5>2. WordFor(i, out[r][v]) BY <3>1, <3>2, <3>6, <5>1 DEF ReaderInv
        <5> QED BY <3>4, <4>2, <5>1, <5>2
      <4> QED BY <4>1, <4>2
    <3>7. \A v \in Words \ uncopied'[r] : seq[s] = i + 1 => WordFor(i, out[r][v])'
      BY <2>u, <3>1, <3>6 DEF WordFor
    <3> QED BY <2>i, <2>u, <2>g, <3>1, <3>2, <3>5, <3>7 DEF ReaderInv, WordFor, NoFrame, Blank
  <2>4. CASE Recheck(r)
    <3>0. rpc[r] = "copy" /\ uncopied[r] = {} /\ SeqOf(r) >= Want(r)
      BY <2>4 DEF Recheck, ReaderInv
    <3>1. CASE SeqOf(r) = Want(r)
      <4>1. /\ got'[r] = [at |-> i, words |-> out[r]]
            /\ read_index'[r] = i + 1 /\ rpc'[r] = "seq"
        BY <2>4, <3>1 DEF Recheck
      <4>2. \A w \in Words : WordFor(i, out[r][w])
        BY <3>0, <3>1 DEF ReaderInv
      <4>3. i + 1 <= Published BY <2>i, <3>1 DEF SeqOf, Want, SlotsCurrent
      <4> QED BY <2>u, <4>1, <4>2, <4>3 DEF ReaderInv, WordFor
    <3>2. CASE SeqOf(r) # Want(r)
      <4>1. rpc'[r] = "edge" /\ read_index' = read_index /\ got' = got
        BY <2>4, <3>2 DEF Recheck
      <4>2. seq[s] > i + 1 BY <2>i, <3>0, <3>2 DEF SeqOf, Want
      <4>3. (SeqOf(r) > Want(r))' BY <2>u, <4>1, <4>2 DEF SeqOf, Want, SlotOf
      <4> QED BY <2>u, <2>g, <4>1, <4>3 DEF ReaderInv, WordFor, NoFrame, Blank
    <3> QED BY <3>1, <3>2
  <2>5. CASE Lapped(r)
    <3>1. rpc'[r] = "seq" /\ read_index'[r] = resume_at /\ got' = got
      BY <2>5 DEF Lapped
    <3>2. resume_at <= Published
      BY <2>i DEF resume_at, live_edge, Published
    <3> QED BY <2>u, <2>g, <3>1, <3>2 DEF ReaderInv, WordFor, NoFrame, Blank
  <2> QED BY <1>r, <2>1, <2>2, <2>3, <2>4, <2>5 DEF Read
<1> QED BY <1>o, <1>r

-----------------------------------------------------------------------------
(* Safety.                                                                 *)

LEMMA IndInit == Init => IndInv
BY TypeInit, SlotsInit DEF Init, IndInv, ReaderInv, Published

LEMMA IndStep == IndInv /\ [Next]_vars => IndInv'
<1> SUFFICES ASSUME IndInv, [Next]_vars PROVE IndInv'
  OBVIOUS
<1>1. TypeOK' BY TypeStep DEF IndInv
<1>2. CASE Producer
  BY <1>1, <1>2, SlotsStep, ReaderStepOfProducer DEF IndInv
<1>3. ASSUME NEW q \in Readers, Attach(q) \/ Read(q) PROVE IndInv'
  <2>1. UNCHANGED <<slotVars, producerVars>>
    BY <1>3 DEF Attach, Read, LoadSeq, CopyWord, Recheck, Lapped
  <2>2. SlotsCurrent' /\ FramesMatchSeq'
    BY <2>1 DEF IndInv, SlotsCurrent, FramesMatchSeq, Published, slotVars, producerVars
  <2>3. \A r \in Readers : ReaderInv(r)' BY <1>3, ReaderStepOfReader
  <2> QED BY <1>1, <2>2, <2>3 DEF IndInv
<1>4. CASE UNCHANGED vars
  BY <1>1, <1>4 DEF vars, IndInv, SlotsCurrent, FramesMatchSeq, Published, ReaderInv,
                    SeqOf, Want, WordFor
<1> QED BY <1>2, <1>3, <1>4 DEF Next

LEMMA Invariance == Spec => []IndInv
BY IndInit, IndStep, PTL DEF Spec

\* A frame read kOk holds words of the message asked for and of the one a lap
\* later, and of no other.
THEOREM MixIsBounded == Spec => []OnlyTheLapMixes
<1>1. IndInv => OnlyTheLapMixes
  BY DEF IndInv, ReaderInv, WordFor, OnlyTheLapMixes
<1> QED BY <1>1, Invariance, PTL

\* A reader less than a lap behind gets exactly the message it asked for.
THEOREM CloseReaderReadsWhole == Spec => []ForeignOnlyWhenLapped
<1>1. IndInv => ForeignOnlyWhenLapped
  BY DEF IndInv, ReaderInv, WordFor, ForeignOnlyWhenLapped
<1> QED BY <1>1, Invariance, PTL

\* No sequence of reads and laps takes a cursor ahead of the producer.
THEOREM CursorNeverAhead == Spec => []CursorWithinPublished
<1>1. IndInv => CursorWithinPublished
  BY DEF IndInv, ReaderInv, CursorWithinPublished
<1> QED BY <1>1, Invariance, PTL

-----------------------------------------------------------------------------
(* What a step does to a cursor.                                           *)

LEMMA CursorStep ==
    ASSUME IndInv, [Next]_vars, NEW r \in Readers, rpc[r] # "detached"
    PROVE  \/ read_index'[r] = read_index[r]
           \/ /\ read_index'[r] = read_index[r] + 1
              /\ got'[r] = [at |-> read_index[r], words |-> out[r]]
           \/ /\ rpc[r] = "edge"
              /\ read_index'[r] = resume_at
<1> USE DEF IndInv, TypeOK
<1>1. CASE Producer
  BY <1>1 DEF Producer, WriteWord, StoreSeq, StoreWriteIndex, readerVars
<1>2. ASSUME NEW q \in Readers, Attach(q) \/ LoadSeq(q) \/ Lapped(q)
      PROVE  read_index'[r] = read_index[r] \/ (rpc[r] = "edge" /\ read_index'[r] = resume_at)
  BY <1>2 DEF Attach, LoadSeq, Lapped
<1>3. ASSUME NEW q \in Readers, NEW w \in Words, CopyWord(q, w)
      PROVE  read_index'[r] = read_index[r]
  BY <1>3 DEF CopyWord
<1>4. ASSUME NEW q \in Readers, Recheck(q)
      PROVE  \/ read_index'[r] = read_index[r]
             \/ /\ read_index'[r] = read_index[r] + 1
                /\ got'[r] = [at |-> read_index[r], words |-> out[r]]
  BY <1>4 DEF Recheck
<1>5. CASE UNCHANGED vars
  BY <1>5 DEF vars
<1> QED BY <1>1, <1>2, <1>3, <1>4, <1>5 DEF Next, Read

LEMMA ResumeBounds ==
    ASSUME IndInv, NEW r \in Readers, rpc[r] = "edge"
    PROVE  /\ resume_at \in Nat
           /\ resume_at >= read_index[r]
           /\ resume_at + SlotCount <= write_index
<1>1. write_index \in Nat /\ read_index[r] \in Nat BY DEF IndInv, TypeOK
<1>2. write_index >= read_index[r] + SlotCount
  <2>1. seq[SlotOf(read_index[r])] > read_index[r] + 1 BY DEF IndInv, ReaderInv, SeqOf, Want
  <2> QED BY <1>1, <2>1, SeqGap DEF IndInv
<1> QED BY <1>1, <1>2, SlotCountAssumption DEF resume_at, live_edge

\* A cursor never moves back, so no message is read a second time.
THEOREM CursorMonotone == Spec => NeverBackward
<1>1. ASSUME IndInv, [Next]_vars
      PROVE  \A r \in Readers : rpc[r] # "detached" => read_index'[r] >= read_index[r]
  <2>1. ASSUME NEW r \in Readers, rpc[r] # "detached"
        PROVE  read_index'[r] >= read_index[r]
    <3>1. read_index[r] \in Nat BY <1>1 DEF IndInv, TypeOK
    <3>2. rpc[r] = "edge" => resume_at \in Nat /\ resume_at >= read_index[r]
      BY <1>1, ResumeBounds
    <3>3. \/ read_index'[r] = read_index[r]
          \/ read_index'[r] = read_index[r] + 1
          \/ rpc[r] = "edge" /\ read_index'[r] = resume_at
      BY <1>1, <2>1, CursorStep
    <3> QED BY <3>1, <3>2, <3>3
  <2> QED BY <2>1
<1> QED BY <1>1, Invariance, PTL DEF Spec, NeverBackward

\* Only messages that have been overwritten are skipped.
THEOREM SkipsOnlyOverwritten == Spec => NoNeedlessSkip
<1> DEFINE Passed(r, i) ==
               \/ i = read_index[r] /\ got'[r].at = i /\ got'[r].words = out[r]
               \/ seq[SlotOf(i)] >= i + 1 + SlotCount
<1>1. ASSUME IndInv, [Next]_vars, NEW r \in Readers, rpc[r] # "detached",
             NEW i \in read_index[r] .. read_index'[r] - 1
      PROVE  Passed(r, i)
  <2>0. read_index[r] \in Nat /\ write_index \in Nat /\ SlotCount \in Nat
    BY <1>1, SlotCountAssumption DEF IndInv, TypeOK
  <2>1. CASE read_index'[r] = read_index[r]
    BY <1>1, <2>0, <2>1
  <2>2. CASE /\ read_index'[r] = read_index[r] + 1
             /\ got'[r] = [at |-> read_index[r], words |-> out[r]]
    BY <1>1, <2>0, <2>2
  <2>3. CASE rpc[r] = "edge" /\ read_index'[r] = resume_at
    <3>1. resume_at \in Nat /\ resume_at + SlotCount <= write_index
      BY <1>1, <2>3, ResumeBounds
    <3>2. i \in Nat /\ i + SlotCount < write_index BY <1>1, <2>0, <2>3, <3>1
    <3>3. i + SlotCount \in 0 .. Published - 1 BY <2>0, <3>2 DEF Published
    <3>4. seq[SlotOf(i + SlotCount)] >= i + SlotCount + 1
      BY <1>1, <3>3 DEF IndInv, SlotsCurrent
    <3> QED BY <2>0, <3>2, <3>4, NextLap
  <2> QED BY <1>1, <2>1, <2>2, <2>3, CursorStep
<1>2. ASSUME IndInv, [Next]_vars
      PROVE  \A r \in Readers : rpc[r] # "detached" =>
                 \A i \in read_index[r] .. read_index'[r] - 1 : Passed(r, i)
  BY <1>1, <1>2
<1> QED BY <1>2, Invariance, PTL DEF Spec, NoNeedlessSkip

-----------------------------------------------------------------------------
(* A read as one step.                                                     *)

\* An empty slot is that of a message not yet published.
LEMMA EmptyIsEmpty ==
    ASSUME IndInv, NEW r \in Readers, SeqOf(r) < Want(r)
    PROVE  Reads!Empty(Published, read_index[r])
<1> DEFINE i == read_index[r]
<1>1. i \in Nat /\ write_index \in Nat /\ Published \in Nat /\ SlotOf(i) \in Slots
  BY PublishedType, SlotType DEF IndInv, TypeOK
<1>2. seq[SlotOf(i)] \in Nat /\ seq[SlotOf(i)] < i + 1
  BY <1>1 DEF IndInv, TypeOK, SeqOf, Want
<1>3. ~(i \in 0 .. Published - 1) BY <1>1, <1>2 DEF IndInv, SlotsCurrent
<1> QED BY <1>1, <1>3 DEF Reads!Empty

\* While a slot has the seq asked for, its message is published, and not a whole
\* lap has been published since.
LEMMA SlotInDate ==
    ASSUME IndInv, NEW i \in Nat, seq[SlotOf(i)] = i + 1
    PROVE  i < Published /\ Published <= i + SlotCount
<1>1. SlotOf(i) \in Slots /\ SlotCount \in Nat \ {0} /\ Published \in Nat
  BY PublishedType, SlotType, SlotCountAssumption DEF IndInv, TypeOK
<1>2. i < Published BY <1>1 DEF IndInv, SlotsCurrent
<1>3. ~(i + SlotCount \in 0 .. Published - 1)
  <2> SUFFICES ASSUME i + SlotCount \in 0 .. Published - 1 PROVE FALSE
    OBVIOUS
  <2>1. seq[SlotOf(i + SlotCount)] >= i + SlotCount + 1 BY DEF IndInv, SlotsCurrent
  <2> QED BY <1>1, <2>1, NextLap
<1> QED BY <1>1, <1>2, <1>3

\* kOk: the message is there, and a header of the next lap has been written by the
\* publication under way.
LEMMA OkIsOk ==
    ASSUME IndInv, NEW r \in Readers, Recheck(r), SeqOf(r) = Want(r)
    PROVE  /\ Reads!IsOk(Published, SlotCount, read_index[r])
           /\ got'[r].words["header"] \in
                  Reads!Headers(Published, SlotCount, read_index[r],
                                pc = "frame" /\ unwritten # Words)
           /\ read_index'[r] = read_index[r] + 1
<1> DEFINE i == read_index[r]  word == out[r]["header"]
<1>1. /\ i \in Nat /\ write_index \in Nat /\ Published \in Nat /\ SlotCount \in Nat \ {0}
      /\ pc \in {"frame", "write_index"}
  BY PublishedType, SlotCountAssumption DEF IndInv, TypeOK
<1>2. got'[r].words["header"] = word /\ read_index'[r] = i + 1
  BY DEF IndInv, TypeOK, Recheck
<1>3. i < Published /\ Published <= i + SlotCount
  BY <1>1, SlotInDate DEF SeqOf, Want
<1>4. "header" \in Words \ uncopied[r] BY DEF Recheck, Words
<1>5. WordFor(i, word) BY <1>4 DEF IndInv, ReaderInv, Recheck
<1>6. word # i + 1 => Reads!InReach(Published, SlotCount, i, pc = "frame" /\ unwritten # Words)
  <2> SUFFICES ASSUME word # i + 1
               PROVE  Published = i + SlotCount /\ pc = "frame" /\ unwritten # Words
    BY <1>1 DEF Reads!InReach
  <2>1. write_index >= i + SlotCount /\ (write_index = i + SlotCount => unwritten # Words)
    BY <1>5 DEF WordFor
  <2>2. pc = "frame" /\ Published = write_index BY <1>1, <1>3, <2>1 DEF Published
  <2> QED BY <1>1, <1>3, <2>1, <2>2
<1>7. Reads!IsOk(Published, SlotCount, i)
  BY <1>1, <1>3 DEF Reads!IsOk, Reads!Empty, Reads!Overwritten
<1> QED BY <1>2, <1>5, <1>6, <1>7 DEF WordFor, Reads!Headers

\* kLapped: the position is the one of the ring as write_index has it, and the
\* message is overwritten by what that counts or by the one it does not count yet.
LEMMA LappedIsLapped ==
    ASSUME IndInv, NEW r \in Readers, Lapped(r)
    PROVE  /\ Reads!IsLapped(write_index, SlotCount, read_index[r], pc = "write_index")
           /\ read_index'[r] = Reads!ResumeAt(write_index, SlotCount)
<1> DEFINE i == read_index[r]
<1>1. i \in Nat /\ write_index \in Nat /\ SlotCount \in Nat \ {0} /\ SlotOf(i) \in Slots
  BY SlotType, SlotCountAssumption DEF IndInv, TypeOK
<1>2. seq[SlotOf(i)] \in Nat /\ seq[SlotOf(i)] > i + 1 /\ seq[SlotOf(i)] <= Published
  BY <1>1 DEF IndInv, TypeOK, SlotsCurrent, ReaderInv, Lapped, SeqOf, Want
<1>3. i + 1 + SlotCount <= Published /\ i + SlotCount <= write_index
  <2>1. seq[SlotOf(i)] >= i + 1 + SlotCount /\ write_index >= i + SlotCount
    BY <1>1, <1>2, SeqGap DEF IndInv
  <2>2. Published \in Nat BY <1>1, PublishedType
  <2> QED BY <1>1, <1>2, <2>1, <2>2
<1>4. i + SlotCount < write_index \/ (i + SlotCount = write_index /\ pc = "write_index")
  BY <1>1, <1>3 DEF Published
<1>5. read_index'[r] = resume_at BY DEF IndInv, TypeOK, Lapped
<1> QED BY <1>4, <1>5 DEF Reads!IsLapped, Reads!Overwritten, Reads!InReach,
                          Reads!ResumeAt, resume_at, live_edge

\* What answer a step of a reader gives.
LEMMA AnswerStep ==
    ASSUME IndInv, [Next]_vars, NEW r \in Readers, rpc'[r] = "seq"
    PROVE  /\ rpc[r] = "copy" => Recheck(r) /\ SeqOf(r) = Want(r)
           /\ rpc[r] = "edge" => Lapped(r)
<1> USE DEF IndInv, TypeOK
<1>1. CASE Producer
  BY <1>1 DEF Producer, WriteWord, StoreSeq, StoreWriteIndex, readerVars
<1>2. ASSUME NEW q \in Readers, Attach(q) \/ LoadSeq(q)
      PROVE  rpc'[r] = rpc[r] \/ rpc[r] \in {"detached", "seq"}
  BY <1>2 DEF Attach, LoadSeq
<1>3. ASSUME NEW q \in Readers, NEW w \in Words, CopyWord(q, w) PROVE rpc' = rpc
  BY <1>3 DEF CopyWord
<1>4. ASSUME NEW q \in Readers, Recheck(q)
      PROVE  rpc'[r] = rpc[r] \/ (q = r /\ rpc[r] = "copy" /\ SeqOf(r) = Want(r))
  BY <1>4 DEF Recheck
<1>5. ASSUME NEW q \in Readers, Lapped(q)
      PROVE  rpc'[r] = rpc[r] \/ (q = r /\ rpc[r] = "edge")
  BY <1>5 DEF Lapped
<1>6. CASE UNCHANGED vars
  BY <1>6 DEF vars
<1> QED BY <1>1, <1>2, <1>3, <1>4, <1>5, <1>6 DEF Next, Read

\* The read of RingReads, one step, is what the read of the ring is to its caller.
THEOREM ReadIsOneStep == Spec => ReadsAsOneStep
<1> DEFINE Answered(r) ==
      /\ rpc[r] = "seq" /\ SeqOf(r) < Want(r) => Reads!Empty(Published, read_index[r])
      /\ rpc[r] = "copy" /\ rpc'[r] = "seq" =>
            /\ Reads!IsOk(Published, SlotCount, read_index[r])
            /\ got'[r].words["header"] \in
                   Reads!Headers(Published, SlotCount, read_index[r],
                                 pc = "frame" /\ unwritten # Words)
            /\ read_index'[r] = read_index[r] + 1
      /\ rpc[r] = "edge" /\ rpc'[r] = "seq" =>
            /\ Reads!IsLapped(write_index, SlotCount, read_index[r], pc = "write_index")
            /\ read_index'[r] = Reads!ResumeAt(write_index, SlotCount)
<1>1. ASSUME IndInv, [Next]_vars, NEW r \in Readers PROVE Answered(r)
  <2>1. SeqOf(r) < Want(r) => Reads!Empty(Published, read_index[r]) BY <1>1, EmptyIsEmpty
  <2>2. CASE rpc'[r] # "seq" BY <2>1, <2>2
  <2>3. CASE rpc'[r] = "seq"
    <3>1. /\ rpc[r] = "copy" => Recheck(r) /\ SeqOf(r) = Want(r)
          /\ rpc[r] = "edge" => Lapped(r)
      BY <1>1, <2>3, AnswerStep
    <3> QED BY <1>1, <2>1, <3>1, OkIsOk, LappedIsLapped
  <2> QED BY <2>2, <2>3
<1>2. ASSUME IndInv, [Next]_vars PROVE \A r \in Readers : Answered(r)
  BY <1>1, <1>2
<1> QED BY <1>2, Invariance, PTL DEF Spec, ReadsAsOneStep

-----------------------------------------------------------------------------
(* Refinement.                                                             *)

LEMMA RefinesInit == Init => Log!Init
BY DEF Init, Log!Init, Log!NoFrame, NoFrame, Blank, Published

LEMMA RefinesStep == IndInv /\ [Next]_vars => [Log!Next]_Log!vars
<1> DEFINE joined == [p \in Readers |-> rpc[p] # "detached"]
<1> SUFFICES ASSUME IndInv, [Next]_vars PROVE [Log!Next]_Log!vars
  OBVIOUS
<1> USE DEF IndInv, TypeOK
<1>t. /\ write_index \in Nat /\ Published \in Nat /\ SlotCount \in Nat \ {0}
      /\ write_index <= Published
  <2>1. write_index \in Nat OBVIOUS
  <2> QED BY <2>1, PublishedType, SlotCountAssumption DEF Published
<1>1. ASSUME NEW w \in Words, WriteWord(w) PROVE UNCHANGED Log!vars
  BY <1>1 DEF WriteWord, Log!vars, Published, readerVars
<1>2. CASE StoreSeq
  <2>1. Published' = Published + 1 /\ UNCHANGED readerVars
    BY <1>2 DEF StoreSeq, Published
  <2> QED BY <2>1 DEF Log!Next, Log!Publish, readerVars
<1>3. CASE StoreWriteIndex
  <2>1. Published' = Published /\ UNCHANGED readerVars
    BY <1>3 DEF StoreWriteIndex, Published
  <2> QED BY <2>1 DEF Log!vars, readerVars
<1>r. ASSUME NEW r \in Readers, Attach(r) \/ Read(r) PROVE Published' = Published
  BY <1>r DEF Attach, Read, LoadSeq, CopyWord, Recheck, Lapped, slotVars,
              producerVars, Published
<1>4. ASSUME NEW r \in Readers, Attach(r) PROVE Log!Join(r)
  <2>1. ~joined[r] BY <1>4 DEF Attach
  <2>2. joined' = [joined EXCEPT ![r] = TRUE] BY <1>4 DEF Attach
  <2>3. PICK start \in {0, live_edge} : read_index' = [read_index EXCEPT ![r] = start]
    BY <1>4 DEF Attach
  <2>4. start \in 0 .. Published /\ (start = 0 \/ start + 1 >= Published)
    BY <1>t, <2>3 DEF live_edge, Published
  <2>5. got' = got BY <1>4 DEF Attach
  <2> QED BY <1>4, <1>r, <2>1, <2>2, <2>3, <2>4, <2>5 DEF Log!Join
<1>5. ASSUME NEW r \in Readers, LoadSeq(r) PROVE UNCHANGED Log!vars
  <2>1. joined' = joined BY <1>5 DEF LoadSeq
  <2>2. read_index' = read_index /\ got' = got BY <1>5 DEF LoadSeq
  <2> QED BY <1>5, <1>r, <2>1, <2>2 DEF Log!vars, Read
<1>6. ASSUME NEW r \in Readers, NEW w \in Words, CopyWord(r, w) PROVE UNCHANGED Log!vars
  <2>1. rpc' = rpc /\ read_index' = read_index /\ got' = got BY <1>6 DEF CopyWord
  <2> QED BY <1>6, <1>r, <2>1 DEF Log!vars, Read
<1>7. ASSUME NEW r \in Readers, Recheck(r) PROVE Log!Deliver(r) \/ UNCHANGED Log!vars
  <2>1. joined[r] /\ joined' = joined BY <1>7 DEF Recheck
  <2>2. Published' = Published BY <1>7, <1>r DEF Read
  <2>3. CASE SeqOf(r) = Want(r)
    <3> DEFINE i == read_index[r]  words == out[r]
    <3>1. /\ got' = [got EXCEPT ![r] = [at |-> i, words |-> words]]
          /\ read_index' = [read_index EXCEPT ![r] = @ + 1]
      BY <1>7, <2>3 DEF Recheck
    <3>2. i \in Nat /\ SlotOf(i) \in Slots BY SlotType
    <3>3. i < Published BY <1>t, <2>3, <3>2 DEF SeqOf, Want, SlotsCurrent
    <3>4. \A w \in Words : WordFor(i, words[w])
      BY <1>7, <2>3 DEF ReaderInv, Recheck
    <3>5. words \in [Words -> {i + 1, i + 1 + SlotCount}]
      BY <3>4 DEF WordFor, Frames
    <3>6. (\A w \in Words : words[w] = i + 1) \/ Published >= i + SlotCount
      BY <1>t, <3>2, <3>4 DEF WordFor
    <3> QED BY <2>1, <2>2, <3>1, <3>3, <3>5, <3>6 DEF Log!Deliver
  <2>4. CASE SeqOf(r) # Want(r)
    <3>1. read_index' = read_index /\ got' = got BY <1>7, <2>4 DEF Recheck
    <3> QED BY <2>1, <2>2, <3>1 DEF Log!vars
  <2> QED BY <2>3, <2>4
<1>8. ASSUME NEW r \in Readers, Lapped(r) PROVE Log!Skip(r) \/ UNCHANGED Log!vars
  <2>1. joined[r] /\ joined' = joined BY <1>8 DEF Lapped
  <2>2. Published' = Published /\ got' = got BY <1>8, <1>r DEF Read, Lapped
  <2>3. read_index' = [read_index EXCEPT ![r] = resume_at] BY <1>8 DEF Lapped
  <2>4. /\ resume_at \in Nat /\ resume_at >= read_index[r]
        /\ resume_at + SlotCount <= Published
    BY <1>8, <1>t, ResumeBounds DEF Lapped
  <2>5. read_index[r] \in Nat OBVIOUS
  <2>6. CASE resume_at = read_index[r]
    <3>1. read_index' = read_index BY <2>3, <2>6
    <3> QED BY <2>1, <2>2, <3>1 DEF Log!vars
  <2>7. CASE resume_at > read_index[r]
    <3>1. resume_at \in read_index[r] + 1 .. Published BY <1>t, <2>4, <2>5, <2>7
    <3> QED BY <2>1, <2>2, <2>3, <2>4, <3>1 DEF Log!Skip
  <2>8. resume_at = read_index[r] \/ resume_at > read_index[r] BY ONLY <2>4, <2>5
  <2> QED BY <2>6, <2>7, <2>8
<1>9. CASE UNCHANGED vars
  BY <1>9 DEF vars, Log!vars, Published
<1> QED BY <1>1, <1>2, <1>3, <1>4, <1>5, <1>6, <1>7, <1>8, <1>9
        DEF Next, Producer, Read, Log!Next

\* The ring implements the broadcast log: to a reader, the slots, the seqs and
\* the order of memory accesses are never visible beyond what the log allows.
THEOREM Refinement == Spec => ImplementsBroadcastLog
BY RefinesInit, RefinesStep, Invariance, PTL DEF Spec, ImplementsBroadcastLog, Log!Spec

-----------------------------------------------------------------------------
(* A ring whose producer has finished.                                     *)

\* Nothing is begun after the last message.
BeginsNoMore ==
    /\ Count # 0 => write_index <= Count
    /\ pc = "write_index" \/ unwritten # Words => MorePending

LEMMA BeginsNoMoreStep ==
    ASSUME IndInv, BeginsNoMore, [Next]_vars PROVE BeginsNoMore'
<1> USE CountAssumption DEF IndInv, TypeOK, BeginsNoMore, MorePending
<1>1. ASSUME NEW w \in Words, WriteWord(w) PROVE BeginsNoMore' BY <1>1 DEF WriteWord
<1>2. CASE StoreSeq
  <2>1. unwritten # Words BY <1>2 DEF StoreSeq, Words
  <2> QED BY <1>2, <2>1 DEF StoreSeq
<1>3. CASE StoreWriteIndex BY <1>3 DEF StoreWriteIndex
<1>4. CASE UNCHANGED <<slotVars, producerVars>> BY <1>4 DEF slotVars, producerVars
<1> QED BY <1>1, <1>2, <1>3, <1>4
        DEF Next, Producer, Attach, Read, LoadSeq, CopyWord, Recheck, Lapped, vars,
            slotVars, producerVars

LEMMA FinishedInvariance == Spec => [](IndInv /\ BeginsNoMore)
<1>1. Init => BeginsNoMore
  BY CountAssumption DEF Init, BeginsNoMore, MorePending
<1>2. IndInv /\ BeginsNoMore /\ [Next]_vars => BeginsNoMore' BY BeginsNoMoreStep
<1> QED BY <1>1, <1>2, Invariance, PTL DEF Spec

LEMMA FinishedIs ==
    ASSUME IndInv, BeginsNoMore, ~MorePending
    PROVE  write_index = Count /\ Published = Count /\ pc = "frame" /\ Count \in Nat
BY CountAssumption DEF IndInv, TypeOK, BeginsNoMore, MorePending, Published

\* A reader of a finished ring finds each message, or a younger one, until the end.
THEOREM EmptyMeansTheEnd == Spec => []EmptyOnlyAtTheEnd
<1>1. IndInv /\ BeginsNoMore => EmptyOnlyAtTheEnd
  <2> SUFFICES ASSUME IndInv, BeginsNoMore, ~MorePending, NEW r \in Readers,
                      read_index[r] < Count
               PROVE  SeqOf(r) >= Want(r)
    BY DEF EmptyOnlyAtTheEnd
  <2>1. read_index[r] \in Nat BY DEF IndInv, TypeOK
  <2>2. read_index[r] \in 0 .. Published - 1 BY <2>1, FinishedIs
  <2> QED BY <2>2 DEF IndInv, SlotsCurrent, SeqOf, Want
<1> QED BY <1>1, FinishedInvariance, PTL

LEMMA CopiesLeft ==
    ASSUME IndInv, NEW r \in Readers
    PROVE  /\ IsFiniteSet(uncopied[r]) /\ Cardinality(uncopied[r]) \in 0 .. 3
           /\ Cardinality(Words) = 3
           /\ \A w \in uncopied[r] :
                 Cardinality(uncopied[r] \ {w}) = Cardinality(uncopied[r]) - 1
<1>1. IsFiniteSet(Words) /\ Cardinality(Words) = 3
  <2>1. IsFiniteSet({}) /\ Cardinality({}) = 0 BY FS_EmptySet
  <2>2. IsFiniteSet({"frame_len"}) /\ Cardinality({"frame_len"}) = 1 BY FS_Singleton
  <2>3. /\ IsFiniteSet({"frame_len"} \cup {"header"})
        /\ Cardinality({"frame_len"} \cup {"header"}) = 2
    BY <2>2, FS_AddElement
  <2>4. /\ IsFiniteSet({"frame_len", "header"} \cup {"payload"})
        /\ Cardinality({"frame_len", "header"} \cup {"payload"}) = 3
    <3>1. {"frame_len"} \cup {"header"} = {"frame_len", "header"} OBVIOUS
    <3> QED BY <2>3, <3>1, FS_AddElement
  <2>5. Words = {"frame_len", "header"} \cup {"payload"} BY DEF Words
  <2> QED BY <2>4, <2>5
<1>2. uncopied[r] \subseteq Words BY DEF IndInv, TypeOK
<1>3. IsFiniteSet(uncopied[r]) /\ Cardinality(uncopied[r]) <= 3 BY <1>1, <1>2, FS_Subset
<1>4. Cardinality(uncopied[r]) \in Nat BY <1>3, FS_CardinalityType
<1> QED BY <1>1, <1>3, <1>4, FS_RemoveElement

\* A reader that has been lapped resumes behind the message it wanted.
LEMMA ResumesAhead ==
    ASSUME IndInv, BeginsNoMore, ~MorePending, NEW r \in Readers, rpc[r] = "edge"
    PROVE  resume_at \in read_index[r] + 1 .. Count
<1> DEFINE i == read_index[r]
<1>1. i \in Nat /\ SlotCount \in Nat \ {0} /\ SlotOf(i) \in Slots
  BY SlotType, SlotCountAssumption DEF IndInv, TypeOK
<1>2. write_index = Count /\ Published = Count /\ Count \in Nat BY FinishedIs
<1>3. seq[SlotOf(i)] > i + 1 BY DEF IndInv, ReaderInv, SeqOf, Want
<1>4. seq[SlotOf(i)] >= i + 1 + SlotCount BY <1>1, <1>3, SeqGap DEF IndInv
<1>5. seq[SlotOf(i)] \in Nat /\ seq[SlotOf(i)] <= Count
  BY <1>1, <1>2 DEF IndInv, TypeOK, SlotsCurrent
<1> QED BY <1>1, <1>2, <1>4, <1>5 DEF resume_at, live_edge

\* Whatever a reader of a finished ring does leaves it less to do, and nobody
\* else gives it more.
THEOREM FinishedRingIsDrained == Spec => FinishedRingDrains
<1> DEFINE Nearer(r) == \/ UNCHANGED <<rpc[r], read_index[r], uncopied[r]>>
                        \/ StepsLeft(r)' < StepsLeft(r)
<1>1. ASSUME IndInv, BeginsNoMore, [Next]_vars, ~MorePending,
             NEW r \in Readers, rpc[r] # "detached"
      PROVE  Nearer(r)
  <2> DEFINE i == read_index[r]  n == Cardinality(uncopied[r])
  <2>1. /\ i \in Nat /\ Count \in Nat /\ i <= Count /\ n \in 0 .. 3
        /\ rpc[r] \in {"seq", "copy", "edge"}
    BY <1>1, FinishedIs, CopiesLeft DEF IndInv, TypeOK, ReaderInv
  <2> USE <1>1 DEF IndInv, TypeOK
  <2>2. CASE Producer
    BY <2>2 DEF Producer, WriteWord, StoreSeq, StoreWriteIndex, readerVars
  <2>3. ASSUME NEW q \in Readers, Attach(q) PROVE Nearer(r)
    BY <2>3 DEF Attach
  <2>4. ASSUME NEW q \in Readers, LoadSeq(q) PROVE Nearer(r)
    <3>1. CASE q # r BY <2>4, <3>1 DEF LoadSeq
    <3>2. CASE q = r
      <4>1. rpc[r] = "seq" /\ StepsLeft(r) = 6 * (Count - i) + 6 BY <2>4, <3>2 DEF LoadSeq, StepsLeft
      <4>2. /\ read_index' = read_index
            /\ rpc'[r] = "edge" \/ (rpc'[r] = "copy" /\ uncopied'[r] = Words)
        <5>1. read_index' = read_index BY <2>4 DEF LoadSeq
        <5>2. CASE /\ rpc' = [rpc EXCEPT ![r] = "copy"]
                   /\ uncopied' = [uncopied EXCEPT ![r] = Words]
          BY <5>1, <5>2
        <5>3. CASE rpc' = [rpc EXCEPT ![r] = "edge"] BY <5>1, <5>3
        <5> QED BY <2>4, <3>2, <5>2, <5>3 DEF LoadSeq
      <4>3. rpc'[r] = "edge" => StepsLeft(r)' = 6 * (Count - i) + 1 BY <4>2 DEF StepsLeft
      <4>4. rpc'[r] = "copy" => StepsLeft(r)' = 6 * (Count - i) + (2 + 3)
        BY <4>2, CopiesLeft DEF StepsLeft
      <4> QED BY <2>1, <4>1, <4>2, <4>3, <4>4
    <3> QED BY <3>1, <3>2
  <2>5. ASSUME NEW q \in Readers, NEW w \in Words, CopyWord(q, w) PROVE Nearer(r)
    <3>1. CASE q # r BY <2>5, <3>1 DEF CopyWord
    <3>2. CASE q = r
      <4>1. rpc[r] = "copy" /\ StepsLeft(r) = 6 * (Count - i) + (2 + n)
        BY <2>5, <3>2 DEF CopyWord, StepsLeft
      <4>2. /\ read_index' = read_index /\ rpc' = rpc /\ w \in uncopied[r]
            /\ uncopied'[r] = uncopied[r] \ {w}
        BY <2>5, <3>2 DEF CopyWord
      <4>3. StepsLeft(r)' = 6 * (Count - i) + (2 + (n - 1))
        BY <4>1, <4>2, CopiesLeft DEF StepsLeft
      <4> QED BY <2>1, <4>1, <4>3
    <3> QED BY <3>1, <3>2
  <2>6. ASSUME NEW q \in Readers, Recheck(q) PROVE Nearer(r)
    <3>1. CASE q # r BY <2>6, <3>1 DEF Recheck
    <3>2. CASE q = r
      <4>1. rpc[r] = "copy" /\ StepsLeft(r) = 6 * (Count - i) + (2 + n)
        BY <2>6, <3>2 DEF Recheck, StepsLeft
      <4>2. \/ rpc'[r] = "seq" /\ read_index'[r] = i + 1
            \/ rpc'[r] = "edge" /\ read_index'[r] = i
        BY <2>6, <3>2 DEF Recheck
      <4>3. \/ StepsLeft(r)' = 6 * (Count - (i + 1)) + 6
            \/ StepsLeft(r)' = 6 * (Count - i) + 1
        BY <4>2 DEF StepsLeft
      <4> QED BY <2>1, <4>1, <4>3
    <3> QED BY <3>1, <3>2
  <2>7. ASSUME NEW q \in Readers, Lapped(q) PROVE Nearer(r)
    <3>1. CASE q # r BY <2>7, <3>1 DEF Lapped
    <3>2. CASE q = r
      <4>1. rpc[r] = "edge" /\ StepsLeft(r) = 6 * (Count - i) + 1
        BY <2>7, <3>2 DEF Lapped, StepsLeft
      <4>2. StepsLeft(r)' = 6 * (Count - resume_at) + 6 BY <2>7, <3>2 DEF Lapped, StepsLeft
      <4>3. resume_at \in i + 1 .. Count BY <4>1, ResumesAhead
      <4> QED BY <2>1, <4>1, <4>2, <4>3
    <3> QED BY <3>1, <3>2
  <2>8. CASE UNCHANGED vars BY <2>8 DEF vars
  <2> QED BY <2>2, <2>3, <2>4, <2>5, <2>6, <2>7, <2>8 DEF Next, Read
<1>2. IndInv /\ BeginsNoMore /\ [Next]_vars =>
          (~MorePending => \A r \in Readers : rpc[r] # "detached" => Nearer(r))
  BY <1>1
<1> QED BY <1>2, FinishedInvariance, PTL DEF Spec, FinishedRingDrains

=============================================================================
