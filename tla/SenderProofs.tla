---------------------------- MODULE SenderProofs ----------------------------
(***************************************************************************)
(* Proofs about Sender, for any ring, any number of messages, of streams,  *)
(* of destinations and of messages in a datagram, with signals and torn    *)
(* reads and without.                                                      *)
(***************************************************************************)
EXTENDS Sender, FiniteSetTheorems, TLAPS

-----------------------------------------------------------------------------
(* Batches, and the places of the messages in a sequence of them.          *)

LEMMA BatchesAre ==
    ASSUME NEW b
    PROVE  b \in Batches <=> b \in Seq(Messages) /\ Len(b) \in 0 .. MaxBatch
<1>1. ASSUME b \in Batches PROVE b \in Seq(Messages) /\ Len(b) \in 0 .. MaxBatch
  <2>1. PICK n \in 0 .. MaxBatch : b \in [1 .. n -> Messages] BY <1>1 DEF Batches
  <2>2. n \in Nat BY <2>1
  <2>3. b \in Seq(Messages) /\ Len(b) = n BY <2>1, <2>2
  <2> QED BY <2>1, <2>3
<1>2. ASSUME b \in Seq(Messages), Len(b) \in 0 .. MaxBatch PROVE b \in Batches
  <2>1. b \in [1 .. Len(b) -> Messages] BY <1>2
  <2> QED BY <1>2, <2>1 DEF Batches
<1> QED BY <1>1, <1>2

Places(F) == UNION {{k} \X (1 .. Len(F[k])) : k \in 1 .. Len(F)}

LEMMA PlacesAre ==
    ASSUME NEW F, NEW p
    PROVE  p \in Places(F) <=> \E k \in 1 .. Len(F) : \E j \in 1 .. Len(F[k]) : p = <<k, j>>
BY DEF Places

\* G is F with m more in the last batch, and its place.
Grown(F, G, m) ==
    /\ Len(F) > 0 /\ Len(G) = Len(F) /\ G[Len(F)] = Append(F[Len(F)], m)
    /\ \A k \in 1 .. Len(F) - 1 : G[k] = F[k]

NextPlace(F) == <<Len(F), Len(F[Len(F)]) + 1>>

LEMMA PlaceAdded ==
    ASSUME NEW F \in Seq(Batches), NEW G \in Seq(Batches), NEW m, Grown(F, G, m),
           NEW new, new = NextPlace(F)
    PROVE  /\ Places(G) = Places(F) \cup {new} /\ new \notin Places(F)
           /\ G[new[1]][new[2]] = m
           /\ \A p \in Places(F) : G[p[1]][p[2]] = F[p[1]][p[2]] /\ Before(p, new)
<1>g. /\ Len(F) > 0 /\ Len(G) = Len(F) /\ G[Len(F)] = Append(F[Len(F)], m)
      /\ \A k \in 1 .. Len(F) - 1 : G[k] = F[k]
  BY DEF Grown
<1> DEFINE n == Len(F)  b == F[n]  l == Len(b)
<1>0. new = <<n, l + 1>> BY DEF NextPlace
<1>1. n \in Nat /\ n \in 1 .. n BY <1>g
<1>2. b \in Seq(Messages) /\ l \in Nat BY <1>1, BatchesAre
<1>3. /\ Len(G[n]) = l + 1 /\ G[n][l + 1] = m
      /\ \A j \in 1 .. l : G[n][j] = b[j]
  BY <1>2, <1>g
<1>4. \A k \in 1 .. n : Len(F[k]) \in Nat BY BatchesAre
<1> HIDE DEF n, b, l
<1>5. Places(G) = Places(F) \cup {new}
  <2>1. ASSUME NEW p \in Places(G) PROVE p \in Places(F) \cup {new}
    <3>1. PICK k \in 1 .. n : \E j \in 1 .. Len(G[k]) : p = <<k, j>> BY PlacesAre, <1>g DEF n
    <3>2. PICK j \in 1 .. Len(G[k]) : p = <<k, j>> BY <3>1
    <3>3. CASE k = n BY <1>0, <1>1, <1>2, <1>3, <3>2, <3>3, PlacesAre, <1>g DEF n, b, l
    <3>4. CASE k # n
      <4>1. k \in 1 .. n - 1 BY <1>1, <3>4
      <4>2. G[k] = F[k] BY <1>g, <4>1 DEF n
      <4> QED BY <3>2, <4>2, PlacesAre, <1>g DEF n
    <3> QED BY <3>3, <3>4
  <2>2. ASSUME NEW p \in Places(F) PROVE p \in Places(G)
    <3>1. PICK k \in 1 .. n : \E j \in 1 .. Len(F[k]) : p = <<k, j>> BY PlacesAre, <1>g DEF n
    <3>2. PICK j \in 1 .. Len(F[k]) : p = <<k, j>> BY <3>1
    <3>3. j \in 1 .. Len(G[k])
      <4>1. CASE k = n BY <1>2, <1>3, <3>2, <4>1 DEF n, b, l
      <4>2. CASE k # n
        <5>1. k \in 1 .. n - 1 BY <1>1, <4>2
        <5> QED BY <1>g, <5>1, <3>2 DEF n
      <4> QED BY <4>1, <4>2
    <3> QED BY <3>2, <3>3, PlacesAre, <1>g DEF n
  <2>3. new \in Places(G)
    <3>1. l + 1 \in 1 .. Len(G[n]) BY <1>2, <1>3
    <3> QED BY <1>0, <1>1, <3>1, PlacesAre, <1>g DEF n
  <2> QED BY <2>1, <2>2, <2>3
<1>6. new \notin Places(F)
  <2>1. ASSUME new \in Places(F) PROVE FALSE
    <3>1. PICK k \in 1 .. n : \E j \in 1 .. Len(F[k]) : new = <<k, j>> BY <2>1, PlacesAre, <1>g DEF n
    <3>2. PICK j \in 1 .. Len(F[k]) : new = <<k, j>> BY <3>1
    <3>3. k = n /\ j = l + 1 BY <1>0, <3>2
    <3> QED BY <1>2, <3>2, <3>3 DEF b, l
  <2> QED BY <2>1
<1>7. ASSUME NEW p \in Places(F)
      PROVE  G[p[1]][p[2]] = F[p[1]][p[2]] /\ Before(p, new)
  <2>1. PICK k \in 1 .. n : \E j \in 1 .. Len(F[k]) : p = <<k, j>> BY PlacesAre, <1>g DEF n
  <2>2. PICK j \in 1 .. Len(F[k]) : p = <<k, j>> BY <2>1
  <2>3. p[1] = k /\ p[2] = j /\ new[1] = n /\ new[2] = l + 1 BY <1>0, <2>2
  <2>4. CASE k = n BY <1>1, <1>2, <1>3, <2>2, <2>3, <2>4 DEF b, l, Before
  <2>5. CASE k # n
    <3>1. k \in 1 .. n - 1 /\ k < n BY <1>1, <2>5
    <3>2. G[k] = F[k] BY <1>g, <3>1 DEF n
    <3> QED BY <2>3, <3>1, <3>2 DEF Before
  <2> QED BY <2>4, <2>5
<1>8. G[new[1]][new[2]] = m BY <1>0, <1>3
<1> QED BY <1>5, <1>6, <1>7, <1>8 DEF n, b, l

\* An empty batch behind the others is no place more.
LEMMA PlacesKept ==
    ASSUME NEW F \in Seq(Batches)
    PROVE  /\ Places(Append(F, <<>>)) = Places(F)
           /\ \A p \in Places(F) : Append(F, <<>>)[p[1]][p[2]] = F[p[1]][p[2]]
<1> DEFINE G == Append(F, <<>>)
<1>1. /\ Len(F) \in Nat /\ Len(G) = Len(F) + 1 /\ G[Len(F) + 1] = <<>>
      /\ \A k \in 1 .. Len(F) : G[k] = F[k]
  OBVIOUS
<1> HIDE DEF G
<1>2. ASSUME NEW p \in Places(G) PROVE p \in Places(F)
  <2>1. PICK k \in 1 .. Len(G) : \E j \in 1 .. Len(G[k]) : p = <<k, j>> BY PlacesAre
  <2>2. PICK j \in 1 .. Len(G[k]) : p = <<k, j>> BY <2>1
  <2>3. k # Len(F) + 1
    <3>1. ASSUME k = Len(F) + 1 PROVE FALSE
      <4>1. j \in 1 .. Len(<<>>) BY <1>1, <2>2, <3>1
      <4> QED BY <4>1
    <3> QED BY <3>1
  <2>4. k \in 1 .. Len(F) BY <1>1, <2>3
  <2> QED BY <1>1, <2>2, <2>4, PlacesAre
<1>3. ASSUME NEW p \in Places(F) PROVE p \in Places(G) /\ G[p[1]][p[2]] = F[p[1]][p[2]]
  <2>1. PICK k \in 1 .. Len(F) : \E j \in 1 .. Len(F[k]) : p = <<k, j>> BY PlacesAre
  <2>2. PICK j \in 1 .. Len(F[k]) : p = <<k, j>> BY <2>1
  <2>3. k \in 1 .. Len(G) /\ G[k] = F[k] BY <1>1
  <2>4. p \in Places(G) BY <2>2, <2>3, PlacesAre
  <2> QED BY <2>2, <2>3, <2>4
<1> QED BY <1>2, <1>3 DEF G

-----------------------------------------------------------------------------
(* The inductive invariant.                                                *)

SenderTypes ==
    /\ write_index \in 0 .. Count
    /\ spc \in {"attach", "head", "drain", "idle", "send", "exit"}
    /\ read_index \in 0 .. write_index /\ start \in 0 .. read_index
    /\ batch \in Batches /\ datagrams \in Seq(Batches)
    /\ stream \in 0 .. Streams - 1
    /\ st \in [messages : Nat, lapped_msgs : Nat]
    /\ idle \in BOOLEAN /\ stalls \in 0 .. MaxStalls
    /\ wire \subseteq Copies

\* Where the loop leaves nothing behind.
Phases ==
    /\ spc \notin {"drain", "send"} => batch = <<>>
    /\ spc # "send" => stream = 0
    /\ spc = "attach" => read_index = start

Counted ==
    /\ st.messages + st.lapped_msgs = read_index - start
    /\ IsFiniteSet(Drained) /\ st.messages = Cardinality(Drained)

\* The cursor is past what was drained.
Ordered ==
    ~TornReads => /\ \A p \in Drained : Message(p) <= read_index
                  /\ \A p, q \in Drained : Before(p, q) => Message(p) < Message(q)

SenderInv == SenderTypes /\ Phases /\ Counted /\ Ordered

LEMMA FilledTyped ==
    ASSUME SenderTypes
    PROVE  /\ Filled \in Seq(Batches) /\ Len(Filled) = dgram_id + 1 /\ dgram_id \in Nat
           /\ Filled[dgram_id + 1] = batch
           /\ \A k \in 1 .. dgram_id : Filled[k] = datagrams[k]
BY DEF SenderTypes, Filled, dgram_id

LEMMA DrainedIsPlaces == Drained = Places(Filled)
BY DEF Drained, Places

LEMMA MessagesAreNat == ASSUME SenderTypes, NEW p \in Drained PROVE Message(p) \in 1 .. Count
<1>1. PICK k \in 1 .. Len(Filled) : \E j \in 1 .. Len(Filled[k]) : p = <<k, j>>
  BY PlacesAre, DrainedIsPlaces
<1>2. PICK j \in 1 .. Len(Filled[k]) : p = <<k, j>> BY <1>1
<1>3. Filled[k] \in Seq(Messages) BY FilledTyped, BatchesAre
<1>4. Filled[k][j] \in Messages BY <1>2, <1>3
<1> QED BY <1>2, <1>4 DEF Message, Messages

LEMMA DrainedArePairs == ASSUME SenderTypes PROVE Drained \subseteq Nat \X Nat
<1> SUFFICES ASSUME NEW p \in Drained PROVE p \in Nat \X Nat
  OBVIOUS
<1>1. PICK k \in 1 .. Len(Filled) : \E j \in 1 .. Len(Filled[k]) : p = <<k, j>>
  BY PlacesAre, DrainedIsPlaces
<1>2. PICK j \in 1 .. Len(Filled[k]) : p = <<k, j>> BY <1>1
<1>3. Len(Filled) \in Nat /\ Len(Filled[k]) \in Nat BY FilledTyped, BatchesAre
<1> QED BY <1>2, <1>3

LEMMA BeforeIsStrict ==
    ASSUME NEW p \in Nat \X Nat, NEW q \in Nat \X Nat, Before(p, q)
    PROVE  ~Before(q, p) /\ p # q
BY DEF Before

LEMMA SenderInit == Init => SenderInv
<1> SUFFICES ASSUME Init PROVE SenderInv
  OBVIOUS
<1>1. SenderTypes
  <2>1. <<>> \in Batches
    <3>1. <<>> \in Seq(Messages) /\ Len(<<>>) = 0 /\ 0 \in 0 .. MaxBatch BY SenderAssumption
    <3> QED BY <3>1, BatchesAre
  <2>2. <<>> \in Seq(Batches) OBVIOUS
  <2>3. 0 \in 0 .. Count /\ 0 \in 0 .. 0 /\ 0 \in 0 .. Streams - 1 /\ 0 \in 0 .. MaxStalls
    BY SenderAssumption
  <2>4. st \in [messages : Nat, lapped_msgs : Nat] BY DEF Init
  <2> QED BY <2>1, <2>2, <2>3, <2>4 DEF Init, SenderTypes
<1>2. Drained = {}
  <2>1. Len(Filled) = 1 /\ Filled[1] = <<>> BY <1>1, FilledTyped DEF Init, dgram_id
  <2>2. ASSUME NEW p \in Drained PROVE FALSE
    <3>1. PICK k \in 1 .. 1 : \E j \in 1 .. Len(Filled[k]) : p = <<k, j>>
      BY <2>1, PlacesAre, DrainedIsPlaces
    <3>2. Len(Filled[k]) = 0 BY <2>1
    <3> QED BY <3>1, <3>2
  <2> QED BY <2>2
<1>3. Counted BY <1>2, FS_EmptySet DEF Init, Counted
<1>4. Phases /\ Ordered BY <1>2 DEF Init, Phases, Ordered
<1> QED BY <1>1, <1>3, <1>4 DEF SenderInv

-----------------------------------------------------------------------------
(* The steps.                                                              *)

\* Steps that neither drain nor send, nor move the cursor.
LEMMA QuietStep ==
    ASSUME SenderInv, SenderTypes', Phases',
           UNCHANGED <<read_index, start, batch, datagrams, st>>
    PROVE  SenderInv'
<1>1. Filled' = Filled BY DEF Filled
<1>2. Drained' = Drained /\ \A p : Message(p)' = Message(p) BY <1>1 DEF Drained, Message
<1> QED BY <1>2 DEF SenderInv, Counted, Ordered

LEMMA FlushTo ==
    ASSUME NEW b
    PROVE  Flush(b) \in {"idle", "send"} /\ (Flush(b) # "send" => b = <<>>)
BY DEF Flush

LEMMA DrainOneKeeps == ASSUME SenderInv, DrainOne PROVE SenderInv'
<1> USE DEF SenderInv
<1>1. PICK seq_id \in Headers(write_index, TxSlots, read_index, TornReads /\ MorePending) :
          batch' = Append(batch, seq_id)
  BY DEF DrainOne
<1>2. /\ spc = "drain" /\ Len(batch) < MaxBatch /\ IsOk(write_index, TxSlots, read_index)
      /\ read_index' = read_index + 1 /\ st' = [st EXCEPT !.messages = @ + 1]
      /\ spc' \in {"send", "drain"}
      /\ UNCHANGED <<write_index, start, stream, datagrams, idle, stalls, wire>>
  BY DEF DrainOne, RoomForOne, AfterAppend
<1>3. read_index \in Nat /\ write_index \in 0 .. Count /\ start \in Nat /\ read_index < write_index
  BY <1>2 DEF SenderTypes, IsOk, Empty
<1>4. seq_id \in 1 .. Count /\ (~TornReads => seq_id = read_index + 1)
  BY <1>1, <1>3, SenderAssumption DEF Headers, InReach, MorePending
<1>5. SenderTypes'
  <2>1. batch \in Seq(Messages) /\ Len(batch) \in 0 .. MaxBatch BY BatchesAre DEF SenderTypes
  <2>2. batch' \in Seq(Messages) /\ Len(batch') \in 0 .. MaxBatch
    BY <1>1, <1>2, <1>4, <2>1, SenderAssumption DEF Messages
  <2>3. batch' \in Batches BY <2>2, BatchesAre
  <2>4. st' \in [messages : Nat, lapped_msgs : Nat] BY <1>2 DEF SenderTypes
  <2>5. read_index' \in 0 .. write_index /\ start \in 0 .. read_index'
    BY <1>2, <1>3 DEF SenderTypes
  <2> QED BY <1>2, <2>3, <2>4, <2>5 DEF SenderTypes
<1>6. Phases' BY <1>2 DEF Phases
<1>p. PICK new : new = NextPlace(Filled) OBVIOUS
<1>7. /\ Drained' = Drained \cup {new} /\ new \notin Drained
      /\ Message(new)' = seq_id
      /\ \A p \in Drained : Message(p)' = Message(p) /\ Before(p, new)
  <2>1. /\ Filled \in Seq(Batches) /\ Len(Filled) = dgram_id + 1 /\ dgram_id \in Nat
        /\ Filled[dgram_id + 1] = batch /\ \A k \in 1 .. dgram_id : Filled[k] = datagrams[k]
    BY FilledTyped
  <2>2. /\ Filled' \in Seq(Batches) /\ Len(Filled') = dgram_id + 1
        /\ Filled'[dgram_id + 1] = Append(batch, seq_id)
        /\ \A k \in 1 .. dgram_id : Filled'[k] = datagrams[k]
    BY <1>1, <1>2, <1>5 DEF SenderTypes, Filled, dgram_id
  <2>3. /\ Len(Filled) > 0 /\ Len(Filled) - 1 = dgram_id /\ Len(Filled') = Len(Filled)
        /\ Filled'[Len(Filled)] = Append(Filled[Len(Filled)], seq_id)
        /\ \A k \in 1 .. Len(Filled) - 1 : Filled'[k] = Filled[k]
    BY <2>1, <2>2
  <2>4. /\ Places(Filled') = Places(Filled) \cup {new} /\ new \notin Places(Filled)
        /\ Filled'[new[1]][new[2]] = seq_id
        /\ \A p \in Places(Filled) :
               Filled'[p[1]][p[2]] = Filled[p[1]][p[2]] /\ Before(p, new)
    <3>1. Grown(Filled, Filled', seq_id) BY <2>3 DEF Grown
    <3> QED BY <1>p, <2>1, <2>2, <3>1, PlaceAdded
  <2>5. Drained = Places(Filled) /\ Drained' = Places(Filled') BY DEF Drained, Places
  <2> QED BY <2>4, <2>5 DEF Message
<1>8. Counted'
  <2>1. IsFiniteSet(Drained') /\ Cardinality(Drained') = Cardinality(Drained) + 1
    BY <1>7, FS_AddElement DEF Counted
  <2>2. st'.messages = st.messages + 1 /\ st'.lapped_msgs = st.lapped_msgs
        /\ st.messages \in Nat /\ st.lapped_msgs \in Nat
    BY <1>2 DEF SenderTypes
  <2> QED BY <1>2, <1>3, <2>1, <2>2 DEF Counted
<1>9. Ordered'
  <2> SUFFICES ASSUME ~TornReads
               PROVE  /\ \A p \in Drained' : Message(p)' <= read_index'
                      /\ \A p, q \in Drained' : Before(p, q) => Message(p)' < Message(q)'
    BY DEF Ordered
  <2>1. \A p \in Drained : Message(p) \in Nat /\ Message(p) <= read_index
    BY MessagesAreNat DEF Ordered
  <2>2. \A p \in Drained' : Message(p)' <= read_index'
    BY <1>2, <1>3, <1>4, <1>7, <2>1
  <2>3. ASSUME NEW p \in Drained', NEW q \in Drained', Before(p, q)
        PROVE  Message(p)' < Message(q)'
    <3>1. CASE p \in Drained /\ q \in Drained BY <1>7, <2>3, <3>1 DEF Ordered
    <3>2. CASE p \in Drained /\ q = new BY <1>3, <1>4, <1>7, <2>1, <3>2
    <3>3. CASE p = new
      <4>1. ~Before(new, q)
        <5>1. q = new \/ Before(q, new) BY <1>7
        <5>2. q \in Nat \X Nat /\ new \in Nat \X Nat
          <6>1. new \in Nat \X Nat
            <7>1. /\ Filled \in Seq(Batches) /\ Len(Filled) \in Nat /\ Len(Filled) \in 1 .. Len(Filled)
              BY FilledTyped
            <7>2. Len(Filled[Len(Filled)]) \in Nat BY <7>1, BatchesAre
            <7> QED BY <1>p, <7>1, <7>2 DEF NextPlace
          <6> QED BY <1>7, <6>1, DrainedArePairs
        <5> QED BY <5>1, <5>2, BeforeIsStrict
      <4> QED BY <2>3, <3>3, <4>1
    <3> QED BY <1>7, <3>1, <3>2, <3>3
  <2> QED BY <2>2, <2>3
<1> QED BY <1>5, <1>6, <1>8, <1>9

LEMMA DrainLappedKeeps == ASSUME SenderInv, DrainLapped PROVE SenderInv'
<1> USE DEF SenderInv
<1>1. /\ spc = "drain" /\ IsLapped(write_index, TxSlots, read_index, MorePending)
      /\ read_index' = ResumeAt(write_index, TxSlots)
      /\ st' = [st EXCEPT !.lapped_msgs = @ + Overtaken(read_index')]
      /\ spc' = Flush(batch)
      /\ UNCHANGED <<write_index, start, batch, stream, datagrams, idle, stalls, wire>>
  BY DEF DrainLapped
<1>2. read_index \in Nat /\ write_index \in 0 .. Count /\ start \in 0 .. read_index
      /\ TxSlots \in Nat \ {0}
  BY SenderAssumption DEF SenderTypes
<1>3. read_index' >= read_index /\ read_index' \in 0 .. write_index
  BY <1>1, <1>2 DEF IsLapped, Overwritten, InReach, ResumeAt
<1>4. Overtaken(read_index') = read_index' - read_index /\ Overtaken(read_index') \in Nat
  <2>1. read_index' \in Nat BY <1>2, <1>3
  <2>2. \A a, b \in Nat : a >= b => (IF a > b THEN a - b ELSE 0) = a - b /\ a - b \in Nat
    OBVIOUS
  <2> QED BY <1>2, <1>3, <2>1, <2>2 DEF Overtaken
<1>5. st.messages \in Nat /\ st.lapped_msgs \in Nat BY DEF SenderTypes
<1>6. /\ st' \in [messages : Nat, lapped_msgs : Nat] /\ st'.messages = st.messages
      /\ st'.lapped_msgs = st.lapped_msgs + (read_index' - read_index)
  BY <1>1, <1>4, <1>5 DEF SenderTypes
<1>7. SenderTypes' BY <1>1, <1>2, <1>3, <1>6, FlushTo DEF SenderTypes
<1>8. Phases' BY <1>1, FlushTo DEF Phases
<1>9. Drained' = Drained /\ \A p : Message(p)' = Message(p)
  BY <1>1 DEF Drained, Filled, Message
<1>10. Counted' BY <1>1, <1>2, <1>3, <1>5, <1>6, <1>9 DEF Counted
<1>11. Ordered'
  <2>1. \A p \in Drained : Message(p) \in Nat BY MessagesAreNat
  <2> QED BY <1>2, <1>3, <1>9, <2>1 DEF Ordered
<1> QED BY <1>7, <1>8, <1>10, <1>11

LEMMA SendOnStreamKeeps == ASSUME SenderInv, SendOnStream PROVE SenderInv'
<1> USE DEF SenderInv
<1>1. spc = "send" /\ UNCHANGED <<write_index, read_index, start, st, stalls>>
  BY DEF SendOnStream
<1>2. wire' \subseteq Copies
  <2>1. PICK reached \in SUBSET Dests :
            wire' = wire \cup [dest : reached, stream : {stream},
                               id : {dgram_id}, msgs : {batch}]
    BY DEF SendOnStream
  <2>2. stream \in 0 .. Streams - 1 /\ dgram_id \in Nat /\ batch \in Batches
    BY FilledTyped DEF SenderTypes
  <2> QED BY <2>1, <2>2 DEF SenderTypes, Copies
<1>3. CASE stream < Streams - 1
  <2>1. stream' = stream + 1 /\ UNCHANGED <<spc, batch, datagrams, idle>>
    BY <1>3 DEF SendOnStream
  <2>2. stream' \in 0 .. Streams - 1 BY <1>3, <2>1, SenderAssumption DEF SenderTypes
  <2>3. SenderTypes' /\ Phases' BY <1>1, <1>2, <2>1, <2>2 DEF SenderTypes, Phases
  <2> QED BY <1>1, <2>1, <2>3, QuietStep
<1>4. CASE ~(stream < Streams - 1)
  <2>1. /\ stream' = 0 /\ datagrams' = Append(datagrams, batch) /\ batch' = <<>>
        /\ idle' = FALSE /\ spc' = "head"
    BY <1>4 DEF SendOnStream, Begun
  <2>2. SenderTypes'
    <3>1. <<>> \in Batches
      <4>1. <<>> \in Seq(Messages) /\ Len(<<>>) = 0 /\ 0 \in 0 .. MaxBatch BY SenderAssumption
      <4> QED BY <4>1, BatchesAre
    <3>2. datagrams' \in Seq(Batches) BY <2>1 DEF SenderTypes
    <3>3. 0 \in 0 .. Streams - 1 BY SenderAssumption
    <3> QED BY <1>1, <1>2, <2>1, <3>1, <3>2, <3>3 DEF SenderTypes
  <2>3. Phases' BY <2>1 DEF Phases
  <2>4. Filled' = Append(Filled, <<>>) BY <2>1 DEF Filled
  <2>5. Drained' = Drained /\ \A p \in Drained : Message(p)' = Message(p)
    <3>1. Drained = Places(Filled) /\ Drained' = Places(Filled') BY DEF Drained, Places
    <3>2. Filled \in Seq(Batches) BY FilledTyped
    <3> QED BY <2>4, <3>1, <3>2, PlacesKept DEF Message
  <2>6. Counted' /\ Ordered' BY <1>1, <2>5 DEF Counted, Ordered
  <2> QED BY <2>2, <2>3, <2>6
<1> QED BY <1>3, <1>4

LEMMA SenderStep == SenderInv /\ [Next]_vars => SenderInv'
<1> SUFFICES ASSUME SenderInv, [Next]_vars PROVE SenderInv'
  OBVIOUS
<1> USE DEF SenderInv
<1>1. CASE UNCHANGED vars
  BY <1>1, QuietStep DEF vars, SenderTypes, Phases
<1>2. CASE Publish
  <2>1. write_index' = write_index + 1 /\ write_index < Count /\ UNCHANGED <<senderVars, wire>>
    BY <1>2 DEF Publish, MorePending
  <2>2. /\ write_index' \in 0 .. Count /\ read_index \in 0 .. write_index'
    BY <2>1, SenderAssumption DEF SenderTypes
  <2>3. SenderTypes' /\ Phases' BY <2>1, <2>2 DEF SenderTypes, Phases, senderVars
  <2> QED BY <2>1, <2>3, QuietStep DEF senderVars
<1>3. CASE Attach
  <2>1. /\ spc = "attach" /\ spc' = "head" /\ read_index' \in {0, write_index}
        /\ start' = read_index'
        /\ UNCHANGED <<write_index, batch, stream, datagrams, st, idle, stalls, wire>>
    BY <1>3 DEF Attach
  <2>2. read_index' \in 0 .. write_index /\ start' \in 0 .. read_index' /\ read_index' \in Nat
    BY <2>1 DEF SenderTypes
  <2>3. SenderTypes' BY <2>1, <2>2 DEF SenderTypes
  <2>4. Phases' BY <2>1 DEF Phases
  <2>5. Drained' = Drained /\ \A p : Message(p)' = Message(p)
    BY <2>1 DEF Drained, Filled, Message
  <2>6. st.messages = 0 /\ st.lapped_msgs = 0
    <3>1. read_index = start /\ start \in Nat /\ st.messages \in Nat /\ st.lapped_msgs \in Nat
      BY <2>1 DEF Phases, SenderTypes
    <3> QED BY <3>1 DEF Counted
  <2>7. Drained = {} BY <2>6, FS_EmptySet DEF Counted
  <2>8. Counted' BY <2>1, <2>2, <2>5, <2>6 DEF Counted
  <2>9. Ordered' BY <2>5, <2>7 DEF Ordered
  <2> QED BY <2>3, <2>4, <2>8, <2>9
<1>4. CASE LoopHead \/ DrainFull \/ DrainEmpty \/ IdleCheck
  <2>1. /\ UNCHANGED <<write_index, read_index, start, batch, stream, datagrams, st, idle,
                       stalls, wire>>
        /\ spc \in {"head", "drain", "idle"}
        /\ spc' \in {"head", "drain", "idle", "send", "exit"}
        /\ spc' \notin {"drain", "send"} => batch = <<>>
    BY <1>4, FlushTo DEF LoopHead, DrainFull, DrainEmpty, IdleCheck, Phases
  <2>2. SenderTypes' /\ Phases' BY <2>1 DEF SenderTypes, Phases
  <2> QED BY <2>1, <2>2, QuietStep
<1>5. CASE Quiet \/ Stall
  <2>1. /\ UNCHANGED <<write_index, spc, read_index, start, batch, stream, datagrams, st, wire>>
        /\ idle' = TRUE /\ stalls' \in 0 .. MaxStalls
    BY <1>5, SenderAssumption DEF Quiet, Stall, SenderTypes
  <2>2. SenderTypes' /\ Phases' BY <2>1 DEF SenderTypes, Phases
  <2> QED BY <2>1, <2>2, QuietStep
<1> QED BY <1>1, <1>2, <1>3, <1>4, <1>5, DrainOneKeeps, DrainLappedKeeps, SendOnStreamKeeps
    DEF Next, SenderLoop

LEMMA SenderInvariance == Spec => []SenderInv
BY SenderInit, SenderStep, PTL DEF Spec

-----------------------------------------------------------------------------
(* The theorems.                                                           *)

\* The loop's variables and what it sends keep to what they stand for: no
\* datagram has more than fit in it, and none a message that was not published.
THEOREM SenderTypeCorrect == Spec => []TypeOK
<1>1. SenderInv => TypeOK
  <2> SUFFICES ASSUME SenderInv PROVE TypeOK
    OBVIOUS
  <2>1. SenderTypes BY DEF SenderInv
  <2>2. read_index \in 0 .. Count /\ start \in 0 .. Count BY <2>1, SenderAssumption DEF SenderTypes
  <2>3. \A k \in 1 .. dgram_id : datagrams[k] \in Batches BY <2>1 DEF SenderTypes, dgram_id
  <2> QED BY <2>1, <2>2, <2>3 DEF SenderTypes, TypeOK
<1> QED BY <1>1, SenderInvariance, PTL

\* "messages" and "lapped" of the sender's report add up to the indexes its
\* cursor has passed, and "messages" is the number of those in its datagrams,
\* however often the producer laps it and wherever in a batch.
THEOREM CountsEveryIndex == Spec => []EveryIndexCounted
<1>1. SenderInv => EveryIndexCounted BY DEF SenderInv, Counted, EveryIndexCounted
<1> QED BY <1>1, SenderInvariance, PTL

\* A sender that reads no torn frame puts the messages in order and each once:
\* ResumeAt never moves the cursor back.
THEOREM DrainsInOrder == Spec => []DrainedInOrder
<1>1. SenderInv => DrainedInOrder BY DEF SenderInv, Ordered, DrainedInOrder
<1> QED BY <1>1, SenderInvariance, PTL

\* Whatever ends the loop of sender.cpp, all it drained was sent, on every stream.
THEOREM HoldsNothingBack == Spec => []NothingHeldBack
<1>1. SenderInv => NothingHeldBack
  <2> SUFFICES ASSUME SenderInv, spc = "exit"
               PROVE  /\ batch = <<>> /\ stream = 0
                      /\ st.messages = Cardinality({p \in Drained : p[1] <= dgram_id})
    BY DEF NothingHeldBack
  <2>1. batch = <<>> /\ stream = 0 BY DEF SenderInv, Phases
  <2>2. ASSUME NEW p \in Drained PROVE p[1] <= dgram_id
    <3>1. /\ Len(Filled) = dgram_id + 1 /\ dgram_id \in Nat /\ Filled[dgram_id + 1] = <<>>
      BY <2>1, FilledTyped DEF SenderInv
    <3>2. PICK k \in 1 .. Len(Filled) : \E j \in 1 .. Len(Filled[k]) : p = <<k, j>>
      BY PlacesAre, DrainedIsPlaces
    <3>3. PICK j \in 1 .. Len(Filled[k]) : p = <<k, j>> BY <3>2
    <3>4. k # dgram_id + 1
      <4>1. ASSUME k = dgram_id + 1 PROVE FALSE
        <5>1. j \in 1 .. Len(<<>>) BY <3>1, <3>3, <4>1
        <5> QED BY <5>1
      <4> QED BY <4>1
    <3> QED BY <3>1, <3>3, <3>4
  <2>3. {p \in Drained : p[1] <= dgram_id} = Drained BY <2>2
  <2> QED BY <2>1, <2>3 DEF SenderInv, Counted
<1> QED BY <1>1, SenderInvariance, PTL
=============================================================================
