--------------------------- MODULE ReceiverProofs ---------------------------
(***************************************************************************)
(* Proofs about Receiver, for any window, any batch of datagrams and any   *)
(* traffic on its port, with signals and dropped datagrams and without.    *)
(***************************************************************************)
EXTENDS Receiver, DedupProofs

-----------------------------------------------------------------------------
(* The port.                                                               *)

\* What a datagram may hold: frames, and at the end the mark of a cut.
Payloads == {q \in Seq(Nat \cup {Cut}) : \A k \in 1 .. Len(q) - 1 : q[k] # Cut}

\* Anything at all may be put on the wire, and anything may be lost there.  Two
\* datagrams alike are two copies: nothing reads their "stream", which tells them
\* apart.
Traffic ==
    /\ \A c \in wire' : c.msgs \in Payloads
    /\ wire' \cap (ToSet(rx) \cup opened) = {}
    /\ UNCHANGED receiverVars

PortInit == ReceiverInit /\ \A c \in wire : c.msgs \in Payloads

\* A receiver at a port on which anything may arrive.
PortSpec == PortInit /\ [][ReceiverNext \/ Traffic]_vars

-----------------------------------------------------------------------------
(* The duplicate filter.                                                   *)

\* accept(seq), as AcceptKeeps has it, in what the receiver's columns need.
LEMMA FilterKeeps ==
    ASSUME NEW w, NEW D, Good(w, D), NEW seq \in Nat
    PROVE  /\ Accept(w, seq) \in Windows
           /\ Good(Accept(w, seq), IF Verdict(w, seq) = "new" THEN D \cup {seq} ELSE D)
           /\ Total(Accept(w, seq)) = Total(w) + 1
           /\ Accept(w, seq).accepted =
                  IF Verdict(w, seq) = "new" THEN w.accepted + 1 ELSE w.accepted
           /\ Verdict(w, seq) = "new" => seq \notin D
           /\ Verdict(w, seq) # "new" => seq \in D \/ \E r \in D : r - seq >= Window
           /\ w.too_old \in Nat /\ Accept(w, seq).too_old >= w.too_old
           /\ Verdict(w, seq) # "new" => seq \in D \/ Accept(w, seq).too_old > 0
<1>1. /\ Good(Accept(w, seq), IF Verdict(w, seq) = "new" THEN D \cup {seq} ELSE D)
      /\ Total(Accept(w, seq)) = Total(w) + 1
      /\ Accept(w, seq).accepted =
             IF Verdict(w, seq) = "new" THEN w.accepted + 1 ELSE w.accepted
      /\ Verdict(w, seq) \in {"new", "duplicate", "too_old"}
      /\ Verdict(w, seq) = "duplicate" => seq \in D
      /\ Verdict(w, seq) = "too_old" => \E r \in D : r - seq >= Window
      /\ Verdict(w, seq) = "new" => seq \notin D
      /\ Verdict(w, seq) = "too_old" => Accept(w, seq).too_old = w.too_old + 1
      /\ Accept(w, seq).too_old >= w.too_old
  BY AcceptKeeps
<1>2. Accept(w, seq) \in Windows BY <1>1 DEF Good
<1>3. w.too_old \in Nat BY DEF Good, Windows
<1>4. Verdict(w, seq) # "new" => seq \in D \/ Accept(w, seq).too_old > 0
  BY <1>1, <1>3
<1> QED BY <1>1, <1>2, <1>3, <1>4

-----------------------------------------------------------------------------
(* Counting frames.                                                        *)

\* How many frames of q are among kinds.
Left(q, kinds) == Cardinality({k \in 1 .. Len(q) : q[k] \in kinds})

LEMMA LeftType == ASSUME NEW q \in Seq(Nat \cup {Cut}), NEW kinds PROVE Left(q, kinds) \in Nat
<1>1. IsFiniteSet(1 .. Len(q)) BY FS_Interval
<1>2. {k \in 1 .. Len(q) : q[k] \in kinds} \in SUBSET (1 .. Len(q)) OBVIOUS
<1>3. IsFiniteSet({k \in 1 .. Len(q) : q[k] \in kinds}) BY <1>1, <1>2, FS_Subset
<1> QED BY <1>3, FS_CardinalityType DEF Left

LEMMA LeftOfNone == ASSUME NEW kinds PROVE Left(<<>>, kinds) = 0
<1>1. {k \in 1 .. Len(<<>>) : <<>>[k] \in kinds} = {} OBVIOUS
<1> QED BY <1>1, FS_EmptySet DEF Left

\* Reading a frame leaves one less of its kind.
LEMMA LeftOfTail ==
    ASSUME NEW q \in Seq(Nat \cup {Cut}), q # <<>>, NEW kinds
    PROVE  Left(q, kinds) = Left(Tail(q), kinds) + (IF q[1] \in kinds THEN 1 ELSE 0)
<1> DEFINE A == {k \in 1 .. Len(q) : q[k] \in kinds}
           B == {k \in 1 .. Len(Tail(q)) : Tail(q)[k] \in kinds}
           C == A \ {1}
           f == [k \in B |-> k + 1]
<1>1. /\ Len(q) \in Nat \ {0} /\ Len(Tail(q)) = Len(q) - 1
      /\ \A k \in 1 .. Len(Tail(q)) : Tail(q)[k] = q[k + 1]
  OBVIOUS
<1>2. IsFiniteSet(A) /\ IsFiniteSet(B)
  <2>1. IsFiniteSet(1 .. Len(q)) /\ IsFiniteSet(1 .. Len(Tail(q))) BY <1>1, FS_Interval
  <2> QED BY <2>1, FS_Subset
<1>3. f \in Bijection(B, C)
  <2>1. \A k \in B : k \in Nat /\ k + 1 \in C BY <1>1
  <2>2. f \in [B -> C] BY <2>1
  <2>3. \A j, k \in B : f[j] = f[k] => j = k BY <2>1
  <2>4. \A j \in C : j - 1 \in B /\ f[j - 1] = j BY <1>1
  <2> QED BY <2>2, <2>3, <2>4 DEF Bijection, Injection, Surjection, IsInjective
<1>4. Cardinality(B) = Cardinality(C)
  <2>1. ExistsBijection(B, C) BY <1>3 DEF ExistsBijection
  <2> QED BY <1>2, <2>1, FS_Bijection
<1>5. Cardinality(C) = IF 1 \in A THEN Cardinality(A) - 1 ELSE Cardinality(A)
  BY <1>2, FS_RemoveElement
<1>6. 1 \in A <=> q[1] \in kinds BY <1>1
<1>7. Cardinality(A) \in Nat BY <1>2, FS_CardinalityType
<1> HIDE DEF A, B, C
<1>8. Cardinality(A) = Cardinality(B) + (IF q[1] \in kinds THEN 1 ELSE 0)
  BY <1>4, <1>5, <1>6, <1>7
<1> QED BY <1>8 DEF A, B, Left

NumberIn(cs, kinds) == Cardinality({p \in FramesOf(cs) : Frame(p) \in kinds})

\* A copy not opened before brings its frames.
LEMMA NumberGrows ==
    ASSUME NEW cs, NEW c, c \notin cs, c.msgs \in Seq(Nat \cup {Cut}), NEW kinds,
           IsFiniteSet(FramesOf(cs))
    PROVE  /\ IsFiniteSet(FramesOf(cs \cup {c}))
           /\ NumberIn(cs \cup {c}, kinds) = NumberIn(cs, kinds) + Left(c.msgs, kinds)
<1> DEFINE q == c.msgs
           A == {k \in 1 .. Len(q) : q[k] \in kinds}
           P == {p \in FramesOf(cs) : Frame(p) \in kinds}
           N == {p \in FramesOf({c}) : Frame(p) \in kinds}
           f == [k \in A |-> <<c, k>>]
<1>1. FramesOf(cs \cup {c}) = FramesOf(cs) \cup FramesOf({c}) BY DEF FramesOf
<1>2. FramesOf({c}) = {c} \X (1 .. Len(q)) BY DEF FramesOf
<1>3. IsFiniteSet(1 .. Len(q)) BY FS_Interval
<1>4. IsFiniteSet(FramesOf({c})) 
  <2>1. IsFiniteSet({c}) BY FS_Singleton
  <2>2. IsFiniteSet({c} \X (1 .. Len(q))) BY <1>3, <2>1, FS_Product
  <2> QED BY <1>2, <2>2
<1>5. IsFiniteSet(FramesOf(cs \cup {c})) BY <1>1, <1>4, FS_Union
<1>6. IsFiniteSet(A) /\ IsFiniteSet(P) /\ IsFiniteSet(N) BY <1>3, <1>4, FS_Subset
<1>7. P \cap N = {} BY <1>2 DEF FramesOf
<1>8. Cardinality(N) = Cardinality(A)
  <2>1. \A k \in A : <<c, k>> \in N BY <1>2 DEF Frame
  <2>2. \A p \in N : \E k \in A : p = <<c, k>> BY <1>2 DEF Frame
  <2>3. f \in [A -> N] BY <2>1
  <2>4. \A j, k \in A : f[j] = f[k] => j = k OBVIOUS
  <2>5. \A p \in N : \E k \in A : f[k] = p BY <2>2
  <2>6. f \in Bijection(A, N) BY <2>3, <2>4, <2>5 DEF Bijection, Injection, Surjection, IsInjective
  <2>7. ExistsBijection(A, N) BY <2>6 DEF ExistsBijection
  <2> QED BY <1>6, <2>7, FS_Bijection
<1>9. {p \in FramesOf(cs \cup {c}) : Frame(p) \in kinds} = P \cup N BY <1>1
<1>10. Cardinality(P \cup N) = Cardinality(P) + Cardinality(N)
  <2>1. Cardinality(P \cup N) = Cardinality(P) + Cardinality(N) - Cardinality(P \cap N)
    BY <1>6, FS_Union
  <2>2. Cardinality(P \cap N) = 0 BY <1>7, FS_EmptySet
  <2>3. Cardinality(P) \in Nat /\ Cardinality(N) \in Nat BY <1>6, FS_CardinalityType
  <2> QED BY <2>1, <2>2, <2>3
<1> HIDE DEF P, N, A
<1>11. Cardinality(P \cup N) = Cardinality(P) + Cardinality(A) BY <1>8, <1>10
<1>12. NumberIn(cs \cup {c}, kinds) = Cardinality(P \cup N) BY <1>9 DEF NumberIn
<1>13. NumberIn(cs, kinds) = Cardinality(P) BY DEF P, NumberIn
<1>14. Left(c.msgs, kinds) = Cardinality(A) BY DEF A, Left
<1> QED BY <1>5, <1>11, <1>12, <1>13, <1>14

-----------------------------------------------------------------------------
(* Sequences.                                                              *)

IsSeq(q) == \E S : q \in Seq(S)

LEMMA TailFacts ==
    ASSUME NEW S, NEW q \in Seq(S), q # <<>>
    PROVE  /\ Tail(q) \in Seq(S) /\ Len(q) \in Nat \ {0} /\ Len(Tail(q)) = Len(q) - 1
           /\ \A k \in 1 .. Len(Tail(q)) : Tail(q)[k] = q[k + 1]
           /\ ToSet(q) = {q[1]} \cup ToSet(Tail(q))
           /\ IsInjective(q) => IsInjective(Tail(q)) /\ q[1] \notin ToSet(Tail(q))
<1>1. /\ Tail(q) \in Seq(S) /\ Len(q) \in Nat \ {0} /\ Len(Tail(q)) = Len(q) - 1
      /\ \A k \in 1 .. Len(Tail(q)) : Tail(q)[k] = q[k + 1]
  OBVIOUS
<1>2. DOMAIN q = 1 .. Len(q) /\ DOMAIN Tail(q) = 1 .. Len(q) - 1 BY <1>1
<1>3. ASSUME NEW x \in ToSet(q) PROVE x \in {q[1]} \cup ToSet(Tail(q))
  <2>1. PICK k \in 1 .. Len(q) : x = q[k] BY <1>2 DEF ToSet
  <2>2. k # 1 => k - 1 \in 1 .. Len(q) - 1 /\ Tail(q)[k - 1] = q[k] BY <1>1
  <2> QED BY <1>2, <2>1, <2>2 DEF ToSet
<1>4. ASSUME NEW x \in ToSet(Tail(q)) PROVE \E k \in 2 .. Len(q) : x = q[k]
  <2>1. PICK k \in 1 .. Len(q) - 1 : x = Tail(q)[k] BY <1>2 DEF ToSet
  <2> QED BY <1>1, <2>1
<1>5. ToSet(q) = {q[1]} \cup ToSet(Tail(q))
  <2>1. q[1] \in ToSet(q) BY <1>1, <1>2 DEF ToSet
  <2>2. ToSet(Tail(q)) \subseteq ToSet(q) BY <1>1, <1>2, <1>4 DEF ToSet
  <2> QED BY <1>3, <2>1, <2>2
<1>6. ASSUME IsInjective(q) PROVE IsInjective(Tail(q)) /\ q[1] \notin ToSet(Tail(q))
  <2>1. \A j, k \in 1 .. Len(q) : q[j] = q[k] => j = k BY <1>2, <1>6 DEF IsInjective
  <2>2. IsInjective(Tail(q)) BY <1>1, <1>2, <2>1 DEF IsInjective
  <2>3. q[1] \notin ToSet(Tail(q)) BY <1>1, <1>4, <2>1
  <2> QED BY <2>2, <2>3
<1> QED BY <1>1, <1>5, <1>6

LEMMA AppendFacts ==
    ASSUME NEW S, NEW q \in Seq(S), NEW x \in S
    PROVE  /\ Append(q, x) \in Seq(S) /\ Len(Append(q, x)) = Len(q) + 1
           /\ ToSet(Append(q, x)) = ToSet(q) \cup {x}
           /\ IsInjective(q) /\ x \notin ToSet(q) => IsInjective(Append(q, x))
<1> DEFINE r == Append(q, x)
<1>1. /\ r \in Seq(S) /\ Len(q) \in Nat /\ Len(r) = Len(q) + 1 /\ r[Len(q) + 1] = x
      /\ \A k \in 1 .. Len(q) : r[k] = q[k]
      /\ DOMAIN q = 1 .. Len(q) /\ DOMAIN r = 1 .. Len(q) + 1
  OBVIOUS
<1> HIDE DEF r
<1>2. ToSet(r) = ToSet(q) \cup {x}
  <2>1. ASSUME NEW y \in ToSet(r) PROVE y \in ToSet(q) \cup {x}
    <3>1. PICK k \in 1 .. Len(q) + 1 : y = r[k] BY <1>1 DEF ToSet
    <3>2. k = Len(q) + 1 \/ k \in 1 .. Len(q) BY <1>1
    <3> QED BY <1>1, <3>1, <3>2 DEF ToSet
  <2>2. x \in ToSet(r) BY <1>1 DEF ToSet
  <2>3. \A k \in 1 .. Len(q) : q[k] = r[k] /\ k \in 1 .. Len(q) + 1 BY <1>1
  <2>4. ToSet(q) \subseteq ToSet(r) BY <1>1, <2>3 DEF ToSet
  <2> QED BY <2>1, <2>2, <2>4
<1>3. ASSUME IsInjective(q), x \notin ToSet(q) PROVE IsInjective(r)
  <2>1. \A k \in 1 .. Len(q) : r[k] # x BY <1>1, <1>3 DEF ToSet
  <2>2. \A j, k \in 1 .. Len(q) : r[j] = r[k] => j = k BY <1>1, <1>3 DEF IsInjective
  <2>3. \A k \in 1 .. Len(q) + 1 : k \in 1 .. Len(q) \/ k = Len(q) + 1 BY <1>1
  <2> QED BY <1>1, <2>1, <2>2, <2>3 DEF IsInjective
<1> QED BY <1>1, <1>2, <1>3 DEF r

\* What is left of a datagram behind its first frame, and behind a cut.
LEMMA PayloadFacts ==
    ASSUME NEW q \in Payloads
    PROVE  /\ q \in Seq(Nat \cup {Cut})
           /\ q # <<>> => Tail(q) \in Payloads /\ q[1] \in Nat \cup {Cut}
           /\ q # <<>> /\ q[1] = Cut =>
                  Len(q) = 1 /\ ToSet(q) = {Cut} /\ Left(q, {Short}) = 0 /\ Left(q, {Cut}) = 1
                  /\ Left(q, Nat) = 0
<1>1. q \in Seq(Nat \cup {Cut}) /\ \A k \in 1 .. Len(q) - 1 : q[k] # Cut BY DEF Payloads
<1>2. ASSUME q # <<>> PROVE Tail(q) \in Payloads /\ q[1] \in Nat \cup {Cut}
  <2>1. /\ Tail(q) \in Seq(Nat \cup {Cut}) /\ Len(q) \in Nat \ {0} /\ Len(Tail(q)) = Len(q) - 1
        /\ \A k \in 1 .. Len(Tail(q)) : Tail(q)[k] = q[k + 1]
    BY <1>1, <1>2, TailFacts
  <2>2. \A k \in 1 .. Len(Tail(q)) - 1 : Tail(q)[k] # Cut BY <1>1, <2>1
  <2>3. q[1] \in Nat \cup {Cut} BY <1>1, <2>1
  <2> QED BY <2>1, <2>2, <2>3 DEF Payloads
<1>3. ASSUME q # <<>>, q[1] = Cut
      PROVE  Len(q) = 1 /\ ToSet(q) = {Cut} /\ Left(q, {Short}) = 0 /\ Left(q, {Cut}) = 1
             /\ Left(q, Nat) = 0
  <2>1. Len(q) \in Nat \ {0} BY <1>1, <1>3
  <2>2. Len(q) = 1
    <3>1. \A n \in Nat \ {0} : n # 1 => 1 \in 1 .. n - 1 OBVIOUS
    <3> QED BY <1>1, <1>3, <2>1, <3>1
  <2>3. DOMAIN q = {1} BY <1>1, <2>2
  <2>4. ToSet(q) = {Cut} BY <1>3, <2>3 DEF ToSet
  <2>5. {k \in 1 .. Len(q) : q[k] \in {Short}} = {} BY <1>3, <2>2 DEF Short, Cut
  <2>6. {k \in 1 .. Len(q) : q[k] \in Nat} = {} BY <1>3, <2>2 DEF Cut
  <2>7. {k \in 1 .. Len(q) : q[k] \in {Cut}} = {1} BY <1>3, <2>2
  <2>8. Cardinality({1}) = 1 BY FS_Singleton
  <2> QED BY <2>2, <2>4, <2>5, <2>6, <2>7, <2>8, FS_EmptySet DEF Left
<1> QED BY <1>1, <1>2, <1>3

-----------------------------------------------------------------------------
(* The inductive invariant.                                                *)

Types ==
    /\ ReceiverTypeOK
    /\ IsSeq(rx) /\ frames \in Payloads /\ ring \in Seq(Nat)
    /\ \A c \in wire \cup ToSet(rx) : c.msgs \in Payloads
    /\ IsFiniteSet(opened) /\ IsFiniteSet(FramesOf(opened))

\* No copy is opened twice.
CopiesApart ==
    /\ wire \cap (ToSet(rx) \cup opened) = {} /\ ToSet(rx) \cap opened = {}
    /\ IsInjective(rx)

\* The filter has let through what is in the ring.
Filtered ==
    /\ Good(window, ToSet(ring))
    /\ IsInjective(ring) /\ window.accepted = published

\* What is read was published or outlived, which was counted; and it came from
\* where the rest is.
Served ==
    /\ OneCopySuffices
    /\ Read \subseteq ToSet(ring) \/ window.too_old > 0
    /\ ToSet(frames) \ {Short, Cut} \subseteq MessagesOf(opened)

\* The columns, in the middle of a datagram too.
Accounted ==
    /\ rst.messages + Left(frames, Nat) = NumberIn(opened, Nat)
    /\ rst.messages + Left(frames, {Short}) = Total(window) + NumberIn(opened, {Short})
    /\ rst.malformed + Left(frames, {Short}) + Left(frames, {Cut}) =
           (rst.datagrams - rst.injected_drops - Cardinality(opened))
           + NumberIn(opened, {Short}) + NumberIn(opened, {Cut})

IndInv == Types /\ CopiesApart /\ Filtered /\ Served /\ Accounted

LEMMA NoFrames == <<>> \in Payloads /\ ToSet(<<>>) = {} /\ IsInjective(<<>>) /\ Len(<<>>) = 0
<1>1. <<>> \in Seq(Nat \cup {Cut}) /\ Len(<<>>) = 0 /\ DOMAIN <<>> = {} OBVIOUS
<1> QED BY <1>1 DEF Payloads, ToSet, IsInjective

LEMMA IndInit == PortInit => IndInv
<1> SUFFICES ASSUME PortInit PROVE IndInv
  OBVIOUS
<1>1. /\ rpc = "poll" /\ rx = <<>> /\ frames = <<>> /\ window = Fresh /\ ring = <<>>
      /\ rst = [datagrams |-> 0, messages |-> 0, malformed |-> 0, injected_drops |-> 0]
      /\ ridle = FALSE /\ opened = {} /\ \A c \in wire : c.msgs \in Payloads
  BY DEF PortInit, ReceiverInit
<1>2. FramesOf({}) = {} BY DEF FramesOf
<1>3. IsFiniteSet({}) /\ Cardinality({}) = 0 BY FS_EmptySet
<1>4. Good(Fresh, {}) /\ Fresh \in Windows /\ Total(Fresh) = 0 /\ Fresh.accepted = 0
  <2>1. Good(Fresh, {}) /\ Total(Fresh) = 0 BY FreshIsGood
  <2>2. Fresh \in Windows BY <2>1 DEF Good
  <2> QED BY <2>1, <2>2 DEF Fresh
<1>5. Types
  <2>1. rst \in Stats BY <1>1 DEF Stats
  <2>4. Len(rx) <= RxMax BY <1>1, NoFrames, ReceiverAssumption
  <2>5. \A k \in 1 .. published : ring[k] \in Nat
    <3>1. published = 0 BY <1>1, NoFrames DEF published
    <3> QED BY <3>1
  <2>2. ReceiverTypeOK BY <1>1, <1>4, <2>1, <2>4, <2>5 DEF ReceiverTypeOK
  <2>3. rx \in Seq(Nat) /\ ring \in Seq(Nat) BY <1>1
  <2> QED BY <1>1, <1>2, <1>3, <2>2, <2>3, NoFrames DEF Types, IsSeq
<1>6. CopiesApart BY <1>1, NoFrames DEF CopiesApart
<1>7. Filtered BY <1>1, <1>4, NoFrames DEF Filtered, published
<1>8. Served BY <1>1, NoFrames DEF Served, OneCopySuffices, Read, MessagesOf
<1>9. Accounted
  <2>1. \A kinds : NumberIn({}, kinds) = 0 /\ Left(<<>>, kinds) = 0
    BY <1>2, <1>3, LeftOfNone DEF NumberIn
  <2> QED BY <1>1, <1>3, <1>4, <2>1 DEF Accounted
<1> QED BY <1>5, <1>6, <1>7, <1>8, <1>9 DEF IndInv

\* Between datagrams there is no frame to read.
LEMMA Between == IndInv /\ rpc # "frames" => frames = <<>>
BY DEF IndInv, Types, ReceiverTypeOK

-----------------------------------------------------------------------------
(* Its steps.                                                              *)

LEMMA FilteredKept == ASSUME Filtered, UNCHANGED <<window, ring>> PROVE Filtered'
BY DEF Filtered, published

LEMMA ServedKept == ASSUME Served, UNCHANGED <<frames, window, ring, opened>> PROVE Served'
BY DEF Served, OneCopySuffices, Read, MessagesOf

LEMMA AccountedKept ==
    ASSUME Accounted, UNCHANGED <<frames, window, rst, opened>> PROVE Accounted'
BY DEF Accounted

LEMMA ReturnsAre ==
    ASSUME NEW q \in Returns
    PROVE  q \in Seq(wire) /\ Len(q) <= RxMax /\ IsInjective(q) /\ ToSet(q) \subseteq wire
<1>1. PICK s \in SUBSET wire : Cardinality(s) \in 1 .. RxMax /\ q \in SetToSeqs(s)
  BY DEF Returns, Room
<1>2. /\ q \in [1 .. Cardinality(s) -> s]
      /\ \A i, j \in 1 .. Cardinality(s) : i # j => q[i] # q[j]
  BY <1>1 DEF SetToSeqs
<1>3. Cardinality(s) \in Nat /\ Cardinality(s) <= RxMax BY <1>1, ReceiverAssumption
<1>4. q \in Seq(s) /\ Len(q) = Cardinality(s) /\ DOMAIN q = 1 .. Cardinality(s) BY <1>2, <1>3
<1>5. q \in Seq(wire) BY <1>2, <1>3, <1>4
<1>6. ToSet(q) \subseteq s BY <1>2, <1>4 DEF ToSet
<1>7. IsInjective(q) BY <1>2, <1>4 DEF IsInjective
<1> QED BY <1>3, <1>4, <1>5, <1>6, <1>7

LEMMA RecvStep == ASSUME IndInv, Recv PROVE IndInv'
<1>1. PICK q \in Returns : rx' = q /\ wire' = wire \ ToSet(q) BY DEF Recv
<1>2. /\ rpc = "poll" /\ rpc' = "datagrams"
      /\ UNCHANGED <<frames, window, ring, rst, ridle, opened>>
  BY DEF Recv
<1>3. q \in Seq(wire) /\ Len(q) <= RxMax /\ IsInjective(q) /\ ToSet(q) \subseteq wire
  BY ReturnsAre
<1>4. Types'
  <2>1. ReceiverTypeOK' BY <1>1, <1>2, <1>3 DEF IndInv, Types, ReceiverTypeOK, published
  <2>2. IsSeq(rx') BY <1>1, <1>3 DEF IsSeq
  <2>3. wire' \cup ToSet(rx') \subseteq wire BY <1>1, <1>3
  <2> QED BY <1>2, <2>1, <2>2, <2>3 DEF IndInv, Types
<1>5. CopiesApart' BY <1>1, <1>2, <1>3 DEF IndInv, CopiesApart
<1>6. Filtered' /\ Served' /\ Accounted'
  BY <1>2, FilteredKept, ServedKept, AccountedKept DEF IndInv
<1> QED BY <1>4, <1>5, <1>6 DEF IndInv

\* Steps that change nothing but where the loop is.
LEMMA IdleStep ==
    ASSUME IndInv, UNCHANGED <<wire, rx, frames, window, ring, rst, opened>>,
           \/ rpc' = rpc
           \/ rpc' = "exit" /\ rpc = "poll"
           \/ rpc' = "poll" /\ rpc = "datagrams" /\ rx = <<>>,
           ridle' \in BOOLEAN
    PROVE  IndInv'
<1>1. ReceiverTypeOK' BY DEF IndInv, Types, ReceiverTypeOK, published
<1>2. Types' BY <1>1 DEF IndInv, Types
<1>3. CopiesApart' BY DEF IndInv, CopiesApart
<1>4. Filtered' /\ Served' /\ Accounted'
  BY FilteredKept, ServedKept, AccountedKept DEF IndInv
<1> QED BY <1>2, <1>3, <1>4 DEF IndInv

\* The next datagram of the batch is taken.
LEMMA TakeNext ==
    ASSUME IndInv, rx # <<>>, rx' = Tail(rx)
    PROVE  /\ IsSeq(rx') /\ Len(rx') <= RxMax /\ IsInjective(rx')
           /\ ToSet(rx) = {rx[1]} \cup ToSet(rx') /\ rx[1] \notin ToSet(rx')
           /\ rx[1].msgs \in Payloads /\ rx[1] \notin opened
<1>1. PICK S : rx \in Seq(S) BY DEF IndInv, Types, IsSeq
<1>2. /\ Tail(rx) \in Seq(S) /\ Len(rx) \in Nat /\ Len(Tail(rx)) = Len(rx) - 1
      /\ ToSet(rx) = {rx[1]} \cup ToSet(Tail(rx))
      /\ IsInjective(rx) => IsInjective(Tail(rx)) /\ rx[1] \notin ToSet(Tail(rx))
  BY <1>1, TailFacts
<1>3. Len(rx) <= RxMax /\ RxMax \in Nat
  BY ReceiverAssumption DEF IndInv, Types, ReceiverTypeOK
<1>4. IsInjective(rx) BY DEF IndInv, CopiesApart
<1>5. rx[1] \in ToSet(rx) BY <1>2
<1>6. rx[1].msgs \in Payloads /\ rx[1] \notin opened BY <1>5 DEF IndInv, Types, CopiesApart
<1>7. Len(Tail(rx)) <= RxMax BY <1>2, <1>3
<1> QED BY <1>2, <1>4, <1>6, <1>7 DEF IsSeq

\* Two columns of the report are counted up.
LEMMA TwoMore ==
    ASSUME NEW C, NEW r \in [C -> Nat], NEW a \in C, NEW b \in C, a # b
    PROVE  [r EXCEPT ![a] = @ + 1, ![b] = @ + 1] \in [C -> Nat]
OBVIOUS

LEMMA DiscardStep ==
    ASSUME IndInv, Reject \/ Drop PROVE IndInv'
<1>1. /\ rpc = "datagrams" /\ rx # <<>> /\ rx' = Tail(rx)
      /\ UNCHANGED <<wire, rpc, frames, window, ring, ridle, opened>>
  BY DEF Reject, Drop
<1>2. /\ IsSeq(rx') /\ Len(rx') <= RxMax /\ IsInjective(rx')
      /\ ToSet(rx) = {rx[1]} \cup ToSet(rx')
  BY <1>1, TakeNext
<1>3. /\ rst.datagrams \in Nat /\ rst.messages \in Nat /\ rst.malformed \in Nat
      /\ rst.injected_drops \in Nat
  BY DEF IndInv, Types, ReceiverTypeOK, Stats
<1>4. /\ rst' \in Stats /\ rst'.messages = rst.messages
      /\ rst'.datagrams = rst.datagrams + 1
      /\ \/ rst'.malformed = rst.malformed + 1 /\ rst'.injected_drops = rst.injected_drops
         \/ rst'.malformed = rst.malformed /\ rst'.injected_drops = rst.injected_drops + 1
  <2>t. rst \in [{"datagrams", "messages", "malformed", "injected_drops"} -> Nat]
    BY DEF IndInv, Types, ReceiverTypeOK, Stats
  <2>1. CASE Reject
    <3>1. rst' = [rst EXCEPT !.datagrams = @ + 1, !.malformed = @ + 1] BY <2>1 DEF Reject
    <3>2. rst' \in Stats BY <2>t, <3>1, TwoMore DEF Stats
    <3>3. /\ rst'.datagrams = rst.datagrams + 1 /\ rst'.malformed = rst.malformed + 1
          /\ rst'.messages = rst.messages /\ rst'.injected_drops = rst.injected_drops
      BY <2>t, <3>1
    <3> QED BY <3>2, <3>3
  <2>2. CASE Drop
    <3>1. rst' = [rst EXCEPT !.datagrams = @ + 1, !.injected_drops = @ + 1] BY <2>2 DEF Drop
    <3>2. rst' \in Stats BY <2>t, <3>1, TwoMore DEF Stats
    <3>3. /\ rst'.datagrams = rst.datagrams + 1 /\ rst'.malformed = rst.malformed
          /\ rst'.messages = rst.messages /\ rst'.injected_drops = rst.injected_drops + 1
      BY <2>t, <3>1
    <3> QED BY <3>2, <3>3
  <2> QED BY <2>1, <2>2
<1>5. Types'
  <2>1. ReceiverTypeOK' BY <1>1, <1>2, <1>4 DEF IndInv, Types, ReceiverTypeOK, published
  <2> QED BY <1>1, <1>2, <2>1 DEF IndInv, Types
<1>6. CopiesApart' BY <1>1, <1>2 DEF IndInv, CopiesApart
<1>7. Filtered' /\ Served' BY <1>1, FilteredKept, ServedKept DEF IndInv
<1>8. Accounted'
  <2>1. Left(frames, {Short}) \in Nat /\ Left(frames, {Cut}) \in Nat
    BY LeftType, PayloadFacts DEF IndInv, Types
  <2>2. Cardinality(opened) \in Nat BY FS_CardinalityType DEF IndInv, Types
  <2>3. rst'.messages = rst.messages
        /\ rst'.datagrams - rst'.injected_drops - rst'.malformed =
           rst.datagrams - rst.injected_drops - rst.malformed
    BY <1>3, <1>4
  <2>4. NumberIn(opened, {Short}) \in Nat /\ NumberIn(opened, {Cut}) \in Nat
    BY FS_Subset, FS_CardinalityType DEF IndInv, Types, NumberIn
  <2>5. rst'.malformed + Left(frames, {Short}) + Left(frames, {Cut}) =
           (rst'.datagrams - rst'.injected_drops - Cardinality(opened))
           + NumberIn(opened, {Short}) + NumberIn(opened, {Cut})
    BY <1>3, <1>4, <2>1, <2>2, <2>4 DEF IndInv, Accounted
  <2> QED BY <1>1, <2>3, <2>5 DEF IndInv, Accounted
<1> QED BY <1>5, <1>6, <1>7, <1>8 DEF IndInv

LEMMA NumberType == ASSUME Types, NEW kinds PROVE NumberIn(opened, kinds) \in Nat
BY FS_Subset, FS_CardinalityType DEF Types, NumberIn

LEMMA CountsAre ==
    ASSUME Types
    PROVE  /\ rst \in Stats
           /\ rst.datagrams \in Nat /\ rst.messages \in Nat /\ rst.malformed \in Nat
           /\ rst.injected_drops \in Nat
           /\ Cardinality(opened) \in Nat
<1>1. rst \in [{"datagrams", "messages", "malformed", "injected_drops"} -> Nat]
  BY DEF Types, ReceiverTypeOK, Stats
<1>2. Cardinality(opened) \in Nat BY FS_CardinalityType DEF Types
<1> QED BY <1>1, <1>2 DEF Stats

LEMMA MessagesGrow ==
    ASSUME NEW cs, NEW c
    PROVE  MessagesOf(cs \cup {c}) = MessagesOf(cs) \cup (ToSet(c.msgs) \ {Short, Cut})
BY DEF MessagesOf

LEMMA OpenStep == ASSUME IndInv, Open PROVE IndInv'
<1> DEFINE c == rx[1]
<1>1. /\ rpc = "datagrams" /\ rx # <<>> /\ rx' = Tail(rx) /\ rpc' = "frames"
      /\ rst' = [rst EXCEPT !.datagrams = @ + 1]
      /\ frames' = c.msgs /\ opened' = opened \cup {c}
      /\ UNCHANGED <<wire, window, ring, ridle>>
  BY DEF Open
<1>2. /\ IsSeq(rx') /\ Len(rx') <= RxMax /\ IsInjective(rx')
      /\ ToSet(rx) = {c} \cup ToSet(rx') /\ c \notin ToSet(rx')
      /\ c.msgs \in Payloads /\ c \notin opened
  BY <1>1, TakeNext
<1>t. Types /\ frames = <<>> BY <1>1, Between DEF IndInv
<1>3. /\ rst \in Stats /\ rst.datagrams \in Nat /\ rst.messages \in Nat
      /\ rst.malformed \in Nat /\ rst.injected_drops \in Nat /\ Cardinality(opened) \in Nat
  BY <1>t, CountsAre
<1>4. /\ rst' \in Stats /\ rst'.datagrams = rst.datagrams + 1
      /\ rst'.messages = rst.messages /\ rst'.malformed = rst.malformed
      /\ rst'.injected_drops = rst.injected_drops
  BY <1>1, <1>3 DEF Stats
<1>5. c.msgs \in Seq(Nat \cup {Cut}) BY <1>2, PayloadFacts
<1>6. \A kinds : /\ IsFiniteSet(FramesOf(opened'))
                 /\ NumberIn(opened', kinds) = NumberIn(opened, kinds) + Left(frames', kinds)
  BY <1>1, <1>2, <1>5, <1>t, NumberGrows DEF Types
<1>7. IsFiniteSet(opened') /\ Cardinality(opened') = Cardinality(opened) + 1
  BY <1>1, <1>2, <1>t, FS_AddElement DEF Types
<1> HIDE DEF c
<1>8. Types'
  <2>1. ReceiverTypeOK' BY <1>1, <1>2, <1>4, <1>t DEF Types, ReceiverTypeOK, published
  <2> QED BY <1>1, <1>2, <1>6, <1>7, <1>t, <2>1 DEF Types
<1>9. CopiesApart' BY <1>1, <1>2 DEF IndInv, CopiesApart
<1>10. Filtered' BY <1>1, FilteredKept DEF IndInv
<1>11. Served'
  <2>1. MessagesOf(opened') = MessagesOf(opened) \cup (ToSet(frames') \ {Short, Cut})
    BY <1>1, MessagesGrow
  <2>2. Read' \subseteq Read BY <1>t, <2>1, NoFrames DEF Read
  <2> QED BY <1>1, <2>1, <2>2 DEF IndInv, Served, OneCopySuffices
<1>12. Accounted'
  <2>1. \A kinds : Left(frames', kinds) \in Nat BY <1>1, <1>5, LeftType
  <2>2. \A kinds : Left(frames, kinds) = 0 BY <1>t, LeftOfNone
  <2>3. \A kinds : NumberIn(opened, kinds) \in Nat BY <1>t, NumberType
  <2>4. /\ rst.messages = NumberIn(opened, Nat)
        /\ rst.messages = Total(window) + NumberIn(opened, {Short})
        /\ rst.malformed = (rst.datagrams - rst.injected_drops - Cardinality(opened))
                           + NumberIn(opened, {Short}) + NumberIn(opened, {Cut})
    <3>1. Total(window) \in Nat BY <1>t DEF Types, ReceiverTypeOK, Windows, Total
    <3> QED BY <1>3, <2>2, <2>3, <3>1 DEF IndInv, Accounted
  <2>5. rst'.messages + Left(frames', Nat) = NumberIn(opened', Nat)
    BY <1>4, <1>6, <2>1, <2>3, <2>4
  <2>6. rst'.messages + Left(frames', {Short}) = Total(window') + NumberIn(opened', {Short})
    <3>1. Total(window) \in Nat BY <1>t DEF Types, ReceiverTypeOK, Windows, Total
    <3>2. NumberIn(opened', {Short}) = NumberIn(opened, {Short}) + Left(frames', {Short})
      BY <1>6
    <3>3. Left(frames', {Short}) \in Nat /\ NumberIn(opened, {Short}) \in Nat BY <2>1, <2>3
    <3>4. Total(window') = Total(window) BY <1>1
    <3> QED BY <1>3, <1>4, <2>4, <3>1, <3>2, <3>3, <3>4
  <2>7. rst'.malformed + Left(frames', {Short}) + Left(frames', {Cut}) =
           (rst'.datagrams - rst'.injected_drops - Cardinality(opened'))
           + NumberIn(opened', {Short}) + NumberIn(opened', {Cut})
    BY <1>3, <1>4, <1>6, <1>7, <2>1, <2>3, <2>4
  <2> QED BY <2>5, <2>6, <2>7 DEF Accounted
<1> QED BY <1>8, <1>9, <1>10, <1>11, <1>12 DEF IndInv

\* The next frame is taken.
LEMMA TakeFrame ==
    ASSUME IndInv, HasFrame, frames' = Tail(frames)
    PROVE  /\ frames' \in Payloads /\ frames[1] \in Nat
           /\ ToSet(frames) = {frames[1]} \cup ToSet(frames')
           /\ \A kinds : /\ Left(frames, kinds) \in Nat /\ Left(frames', kinds) \in Nat
                         /\ frames[1] \in kinds => Left(frames, kinds) = Left(frames', kinds) + 1
                         /\ frames[1] \notin kinds => Left(frames, kinds) = Left(frames', kinds)
<1>1. frames \in Payloads /\ frames # <<>> /\ frames[1] # Cut
  BY DEF IndInv, Types, HasFrame
<1>2. /\ frames \in Seq(Nat \cup {Cut}) /\ Tail(frames) \in Payloads
      /\ frames[1] \in Nat \cup {Cut}
  BY <1>1, PayloadFacts
<1>3. ToSet(frames) = {frames[1]} \cup ToSet(Tail(frames)) BY <1>1, <1>2, TailFacts
<1>4. Tail(frames) \in Seq(Nat \cup {Cut}) BY <1>2, PayloadFacts
<1>5. ASSUME NEW kinds
      PROVE  /\ Left(frames, kinds) \in Nat /\ Left(Tail(frames), kinds) \in Nat
             /\ frames[1] \in kinds => Left(frames, kinds) = Left(Tail(frames), kinds) + 1
             /\ frames[1] \notin kinds => Left(frames, kinds) = Left(Tail(frames), kinds)
  <2>1. Left(frames, kinds) \in Nat /\ Left(Tail(frames), kinds) \in Nat
    BY <1>2, <1>4, LeftType
  <2>2. Left(frames, kinds) = Left(Tail(frames), kinds)
                              + (IF frames[1] \in kinds THEN 1 ELSE 0)
    BY <1>1, <1>2, LeftOfTail
  <2> QED BY <2>1, <2>2
<1> QED BY <1>1, <1>2, <1>3, <1>5

LEMMA ShortStep == ASSUME IndInv, ShortFrame PROVE IndInv'
<1>1. /\ HasFrame /\ frames[1] = Short /\ frames' = Tail(frames) /\ rpc = "frames"
      /\ rst' = [rst EXCEPT !.messages = @ + 1, !.malformed = @ + 1]
      /\ UNCHANGED <<wire, rpc, rx, window, ring, ridle, opened>>
  BY DEF ShortFrame, HasFrame
<1>2. /\ frames' \in Payloads /\ ToSet(frames) = {Short} \cup ToSet(frames')
      /\ Left(frames, Nat) = Left(frames', Nat) + 1
      /\ Left(frames, {Short}) = Left(frames', {Short}) + 1
      /\ Left(frames, {Cut}) = Left(frames', {Cut})
      /\ Left(frames', Nat) \in Nat /\ Left(frames', {Short}) \in Nat
      /\ Left(frames', {Cut}) \in Nat
  BY <1>1, TakeFrame DEF Short, Cut
<1>t. Types BY DEF IndInv
<1>3. /\ rst \in Stats /\ rst.datagrams \in Nat /\ rst.messages \in Nat
      /\ rst.malformed \in Nat /\ rst.injected_drops \in Nat /\ Cardinality(opened) \in Nat
  BY <1>t, CountsAre
<1>4. /\ rst' \in Stats /\ rst'.datagrams = rst.datagrams
      /\ rst'.messages = rst.messages + 1 /\ rst'.malformed = rst.malformed + 1
      /\ rst'.injected_drops = rst.injected_drops
  <2>1. rst' \in Stats BY <1>1, <1>3, TwoMore DEF Stats
  <2> QED BY <1>1, <1>3, <2>1 DEF Stats
<1>5. Types'
  <2>1. ReceiverTypeOK' BY <1>1, <1>4, <1>t DEF Types, ReceiverTypeOK, published
  <2> QED BY <1>1, <1>2, <1>t, <2>1 DEF Types
<1>6. CopiesApart' BY <1>1 DEF IndInv, CopiesApart
<1>7. Filtered' BY <1>1, FilteredKept DEF IndInv
<1>8. Served'
  <2>1. Short \notin MessagesOf(opened) BY DEF MessagesOf
  <2>2. Read' \subseteq Read BY <1>1, <1>2, <2>1 DEF Read
  <2> QED BY <1>1, <1>2, <2>2 DEF IndInv, Served, OneCopySuffices
<1>9. Accounted'
  <2>e. /\ rst.messages + Left(frames, Nat) = NumberIn(opened, Nat)
        /\ rst.messages + Left(frames, {Short}) = Total(window) + NumberIn(opened, {Short})
        /\ rst.malformed + Left(frames, {Short}) + Left(frames, {Cut}) =
               (rst.datagrams - rst.injected_drops - Cardinality(opened))
               + NumberIn(opened, {Short}) + NumberIn(opened, {Cut})
    BY DEF IndInv, Accounted
  <2>1. /\ NumberIn(opened, Nat) \in Nat /\ NumberIn(opened, {Short}) \in Nat
        /\ NumberIn(opened, {Cut}) \in Nat
    BY <1>t, NumberType
  <2>2. Total(window) \in Nat BY <1>t DEF Types, ReceiverTypeOK, Windows, Total
  <2> DEFINE m == rst.messages  f == rst.malformed
             r == rst.datagrams - rst.injected_drops - Cardinality(opened)
             sl == Left(frames, {Short})  s == Left(frames', {Short})
             c == Left(frames', {Cut})
             ns == NumberIn(opened, {Short})  nc == NumberIn(opened, {Cut})
             asked == Total(window)
  <2>3. rst'.messages + Left(frames', Nat) = NumberIn(opened, Nat)
    BY <1>2, <1>3, <1>4, <2>1, <2>e
  <2>n. /\ m \in Nat /\ f \in Nat /\ r \in Int /\ s \in Nat /\ c \in Nat
        /\ ns \in Nat /\ nc \in Nat /\ asked \in Nat
    BY <1>2, <1>3, <2>1, <2>2
  <2>a. /\ sl = s + 1 /\ m + sl = asked + ns /\ f + sl + c = r + ns + nc
        /\ rst'.messages = m + 1 /\ rst'.malformed = f + 1
        /\ rst'.datagrams - rst'.injected_drops - Cardinality(opened) = r
    BY <1>2, <1>4, <2>e
  <2> HIDE DEF m, f, r, sl, s, c, ns, nc, asked
  <2>4. rst'.messages + s = asked + ns BY <2>a, <2>n
  <2>5. rst'.malformed + s + c = r + ns + nc BY <2>a, <2>n
  <2> QED BY <1>1, <2>3, <2>4, <2>5, <2>a DEF Accounted, r, s, c, ns, nc, asked
<1> QED BY <1>5, <1>6, <1>7, <1>8, <1>9 DEF IndInv

LEMMA FrameStep == ASSUME IndInv, NextFrame PROVE IndInv'
<1> DEFINE seq == frames[1]  new == Verdict(window, seq) = "new"
<1>1. /\ HasFrame /\ seq # Short /\ frames' = Tail(frames) /\ rpc = "frames"
      /\ rst' = [rst EXCEPT !.messages = @ + 1]
      /\ window' = Accept(window, seq)
      /\ ring' = IF new THEN Append(ring, seq) ELSE ring
      /\ UNCHANGED <<wire, rpc, rx, ridle, opened>>
  BY DEF NextFrame, HasFrame, Publishes, Rest
<1>2. /\ frames' \in Payloads /\ seq \in Nat /\ seq \notin {Short, Cut}
      /\ ToSet(frames) = {seq} \cup ToSet(frames')
      /\ Left(frames, Nat) = Left(frames', Nat) + 1
      /\ Left(frames, {Short}) = Left(frames', {Short})
      /\ Left(frames, {Cut}) = Left(frames', {Cut})
      /\ Left(frames', Nat) \in Nat /\ Left(frames', {Short}) \in Nat
      /\ Left(frames', {Cut}) \in Nat
  BY <1>1, TakeFrame DEF HasFrame
<1>t. Types BY DEF IndInv
<1>3. /\ rst \in Stats /\ rst.datagrams \in Nat /\ rst.messages \in Nat
      /\ rst.malformed \in Nat /\ rst.injected_drops \in Nat /\ Cardinality(opened) \in Nat
  BY <1>t, CountsAre
<1>4. /\ rst' \in Stats /\ rst'.datagrams = rst.datagrams
      /\ rst'.messages = rst.messages + 1 /\ rst'.malformed = rst.malformed
      /\ rst'.injected_drops = rst.injected_drops
  BY <1>1, <1>3 DEF Stats
<1>5. /\ Accept(window, seq) \in Windows
      /\ Good(Accept(window, seq), IF new THEN ToSet(ring) \cup {seq} ELSE ToSet(ring))
      /\ Total(Accept(window, seq)) = Total(window) + 1
      /\ Accept(window, seq).accepted = IF new THEN window.accepted + 1 ELSE window.accepted
      /\ new => seq \notin ToSet(ring)
      /\ ~new => seq \in ToSet(ring) \/ \E r \in ToSet(ring) : r - seq >= Window
      /\ window.too_old \in Nat /\ Accept(window, seq).too_old >= window.too_old
      /\ ~new => seq \in ToSet(ring) \/ Accept(window, seq).too_old > 0
  BY <1>2, FilterKeeps DEF IndInv, Filtered
<1>6. /\ ring' \in Seq(Nat) /\ IsInjective(ring')
      /\ new => ToSet(ring') = ToSet(ring) \cup {seq} /\ Len(ring') = Len(ring) + 1
      /\ ~new => ring' = ring
  <2>1. ring \in Seq(Nat) /\ IsInjective(ring) BY <1>t DEF Types, IndInv, Filtered
  <2>2. CASE new BY <1>1, <1>2, <1>5, <2>1, <2>2, AppendFacts
  <2>3. CASE ~new BY <1>1, <2>1, <2>3
  <2> QED BY <2>2, <2>3
<1>7. ToSet(ring') = IF new THEN ToSet(ring) \cup {seq} ELSE ToSet(ring)
  BY <1>6
<1>8. Types'
  <2>1. \A k \in 1 .. Len(ring') : ring'[k] \in Nat BY <1>6
  <2>2. ReceiverTypeOK' BY <1>1, <1>4, <1>5, <1>t, <2>1 DEF Types, ReceiverTypeOK, published
  <2> QED BY <1>1, <1>2, <1>6, <1>t, <2>2 DEF Types
<1>9. CopiesApart' BY <1>1 DEF IndInv, CopiesApart
<1> HIDE DEF seq, new
<1>10. Filtered'
  <2>1. Good(window', ToSet(ring')) BY <1>1, <1>5, <1>7
  <2>2. window'.accepted = Len(ring')
    <3>1. window'.accepted = IF new THEN window.accepted + 1 ELSE window.accepted
      BY <1>1, <1>5
    <3>2. window.accepted = Len(ring) BY DEF IndInv, Filtered, published
    <3> QED BY <1>6, <3>1, <3>2
  <2> QED BY <1>6, <2>1, <2>2 DEF Filtered, published
<1>11. Served'
  <2>1. /\ ToSet(ring) \subseteq ToSet(ring') /\ ToSet(ring') \subseteq ToSet(ring) \cup {seq}
        /\ new => seq \in ToSet(ring')
    BY <1>7
  <2>2. seq \in MessagesOf(opened) BY <1>2 DEF IndInv, Served
  <2>3. ASSUME NEW m \in Read', m \notin ToSet(ring')
        PROVE  \E r \in ToSet(ring') : r - m >= Window
    <3>1. m \in Read \/ m = seq BY <1>1, <1>2 DEF Read
    <3>2. CASE m = seq BY <1>5, <2>1, <2>3, <3>2
    <3>3. CASE m \in Read BY <2>1, <2>3, <3>3 DEF IndInv, Served, OneCopySuffices
    <3> QED BY <3>1, <3>2, <3>3
  <2>4. ToSet(ring') \subseteq MessagesOf(opened) BY <2>1, <2>2 DEF IndInv, Served, OneCopySuffices
  <2>5. ToSet(frames') \ {Short, Cut} \subseteq MessagesOf(opened) BY <1>2 DEF IndInv, Served
  <2>6. Read' \subseteq ToSet(ring') \/ window'.too_old > 0
    <3>1. Read' \subseteq Read \cup {seq} BY <1>1, <1>2 DEF Read
    <3>2. CASE Accept(window, seq).too_old > 0 BY <1>1, <3>2
    <3>3. CASE ~(Accept(window, seq).too_old > 0)
      <4>1. Accept(window, seq).too_old \in Nat BY <1>5 DEF Windows
      <4>2. ~(window.too_old > 0) BY <1>5, <3>3, <4>1
      <4>3. Read \subseteq ToSet(ring) BY <4>2 DEF IndInv, Served
      <4>4. seq \in ToSet(ring') BY <1>5, <2>1, <3>3
      <4> QED BY <2>1, <3>1, <4>3, <4>4
    <3> QED BY <3>2, <3>3
  <2> QED BY <1>1, <2>3, <2>4, <2>5, <2>6 DEF Served, OneCopySuffices
<1>12. Accounted'
  <2>e. /\ rst.messages + Left(frames, Nat) = NumberIn(opened, Nat)
        /\ rst.messages + Left(frames, {Short}) = Total(window) + NumberIn(opened, {Short})
        /\ rst.malformed + Left(frames, {Short}) + Left(frames, {Cut}) =
               (rst.datagrams - rst.injected_drops - Cardinality(opened))
               + NumberIn(opened, {Short}) + NumberIn(opened, {Cut})
    BY DEF IndInv, Accounted
  <2>1. /\ NumberIn(opened, Nat) \in Nat /\ NumberIn(opened, {Short}) \in Nat
        /\ NumberIn(opened, {Cut}) \in Nat
    BY <1>t, NumberType
  <2>2. Total(window) \in Nat /\ Total(window') = Total(window) + 1
    <3>1. Total(window) \in Nat BY <1>t DEF Types, ReceiverTypeOK, Windows, Total
    <3>2. Total(window') = Total(window) + 1 BY <1>1, <1>5
    <3> QED BY <3>1, <3>2
  <2> DEFINE m == rst.messages  f == rst.malformed
             r == rst.datagrams - rst.injected_drops - Cardinality(opened)
             s == Left(frames', {Short})  c == Left(frames', {Cut})
             ns == NumberIn(opened, {Short})  nc == NumberIn(opened, {Cut})
             asked == Total(window)
  <2>3. rst'.messages + Left(frames', Nat) = NumberIn(opened, Nat)
    <3> DEFINE al == Left(frames, Nat)  a == Left(frames', Nat)  na == NumberIn(opened, Nat)
    <3>1. /\ m \in Nat /\ a \in Nat /\ al = a + 1 /\ m + al = na
          /\ rst'.messages = m + 1
      BY <1>2, <1>3, <1>4, <2>e
    <3> HIDE DEF m, al, a, na
    <3>2. rst'.messages + a = na BY <3>1
    <3> QED BY <3>2 DEF a, na
  <2>n. m \in Nat /\ s \in Nat /\ ns \in Nat /\ asked \in Nat
    BY <1>2, <1>3, <2>1, <2>2
  <2>a. /\ m + s = asked + ns /\ f + s + c = r + ns + nc
        /\ rst'.messages = m + 1 /\ rst'.malformed = f
        /\ rst'.datagrams - rst'.injected_drops - Cardinality(opened) = r
        /\ Total(window') = asked + 1
    BY <1>2, <1>4, <2>2, <2>e
  <2> HIDE DEF m, f, r, s, c, ns, nc, asked
  <2>4. rst'.messages + s = Total(window') + ns BY <2>a, <2>n
  <2>5. rst'.malformed + s + c = r + ns + nc BY <2>a, <2>n
  <2> QED BY <1>1, <2>3, <2>4, <2>5, <2>a DEF Accounted, r, s, c, ns, nc
<1> QED BY <1>8, <1>9, <1>10, <1>11, <1>12 DEF IndInv

LEMMA CloseStep == ASSUME IndInv, Close PROVE IndInv'
<1>1. /\ rpc = "frames" /\ rpc' = "datagrams" /\ ~HasFrame /\ frames' = <<>>
      /\ rst' = [rst EXCEPT !.malformed = @ + Len(frames)]
      /\ UNCHANGED <<wire, rx, window, ring, ridle, opened>>
  BY DEF Close
<1>t. Types /\ frames \in Payloads BY DEF IndInv, Types
<1>2. frames = <<>> \/ (frames # <<>> /\ frames[1] = Cut) BY <1>1 DEF HasFrame
<1>3. /\ ToSet(frames) \subseteq {Cut} /\ Len(frames) \in Nat
      /\ Left(frames, Nat) = 0 /\ Left(frames, {Short}) = 0
      /\ Left(frames, {Cut}) = Len(frames)
  <2>1. CASE frames = <<>> BY <2>1, LeftOfNone, NoFrames
  <2>2. CASE frames # <<>> /\ frames[1] = Cut
    <3>1. /\ Len(frames) = 1 /\ ToSet(frames) = {Cut} /\ Left(frames, Nat) = 0
          /\ Left(frames, {Short}) = 0 /\ Left(frames, {Cut}) = 1
      BY <1>t, <2>2, PayloadFacts
    <3> QED BY <3>1
  <2> QED BY <1>2, <2>1, <2>2
<1>4. /\ rst \in Stats /\ rst.datagrams \in Nat /\ rst.messages \in Nat
      /\ rst.malformed \in Nat /\ rst.injected_drops \in Nat /\ Cardinality(opened) \in Nat
  BY <1>t, CountsAre
<1>5. /\ rst' \in Stats /\ rst'.datagrams = rst.datagrams
      /\ rst'.messages = rst.messages /\ rst'.malformed = rst.malformed + Len(frames)
      /\ rst'.injected_drops = rst.injected_drops
  BY <1>1, <1>3, <1>4 DEF Stats
<1>6. Types'
  <2>1. ReceiverTypeOK' BY <1>1, <1>5, <1>t DEF Types, ReceiverTypeOK, published
  <2> QED BY <1>1, <1>t, <2>1, NoFrames DEF Types
<1>7. CopiesApart' BY <1>1 DEF IndInv, CopiesApart
<1>8. Filtered' BY <1>1, FilteredKept DEF IndInv
<1>9. Served'
  <2>1. Read' \subseteq Read BY <1>1, <1>3 DEF Read, MessagesOf
  <2> QED BY <1>1, <2>1, NoFrames DEF IndInv, Served, OneCopySuffices
<1>10. Accounted'
  <2>1. \A kinds : Left(frames', kinds) = 0 BY <1>1, LeftOfNone
  <2>2. /\ rst.messages = NumberIn(opened, Nat)
        /\ rst.messages = Total(window) + NumberIn(opened, {Short})
        /\ rst.malformed + Len(frames) =
               (rst.datagrams - rst.injected_drops - Cardinality(opened))
               + NumberIn(opened, {Short}) + NumberIn(opened, {Cut})
    BY <1>3, <1>4 DEF IndInv, Accounted
  <2>3. /\ rst'.messages + Left(frames', Nat) = rst.messages
        /\ rst'.messages + Left(frames', {Short}) = rst.messages
        /\ rst'.malformed + Left(frames', {Short}) + Left(frames', {Cut}) =
               rst.malformed + Len(frames)
    BY <1>3, <1>4, <1>5, <2>1
  <2> QED BY <1>1, <1>5, <2>2, <2>3 DEF Accounted
<1> QED BY <1>6, <1>7, <1>8, <1>9, <1>10 DEF IndInv

LEMMA TrafficStep == ASSUME IndInv, Traffic PROVE IndInv'
<1>1. /\ \A c \in wire' : c.msgs \in Payloads
      /\ wire' \cap (ToSet(rx) \cup opened) = {}
      /\ UNCHANGED <<rpc, rx, frames, window, ring, rst, ridle, opened>>
  BY DEF Traffic, receiverVars
<1>2. ReceiverTypeOK' BY <1>1 DEF IndInv, Types, ReceiverTypeOK, published
<1>3. Types' BY <1>1, <1>2 DEF IndInv, Types
<1>4. CopiesApart' BY <1>1 DEF IndInv, CopiesApart
<1>5. Filtered' /\ Served' /\ Accounted'
  BY <1>1, FilteredKept, ServedKept, AccountedKept DEF IndInv
<1> QED BY <1>3, <1>4, <1>5 DEF IndInv

LEMMA IndStep == IndInv /\ [ReceiverNext \/ Traffic]_vars => IndInv'
<1> SUFFICES ASSUME IndInv, [ReceiverNext \/ Traffic]_vars PROVE IndInv'
  OBVIOUS
<1>0. ridle \in BOOLEAN BY DEF IndInv, Types, ReceiverTypeOK
<1>1. CASE Recv BY <1>1, RecvStep
<1>2. CASE RxIdleExit \/ RxStop BY <1>0, <1>2, IdleStep DEF RxIdleExit, RxStop
<1>3. CASE Reject \/ Drop BY <1>3, DiscardStep
<1>4. CASE Open BY <1>4, OpenStep
<1>5. CASE ShortFrame BY <1>5, ShortStep
<1>6. CASE NextFrame BY <1>6, FrameStep
<1>7. CASE Close BY <1>7, CloseStep
<1>8. CASE BatchDone BY <1>8, IdleStep DEF BatchDone
<1>9. CASE RxQuiet BY <1>9, IdleStep DEF RxQuiet
<1>10. CASE Traffic BY <1>10, TrafficStep
<1>11. CASE UNCHANGED vars BY <1>0, <1>11, IdleStep DEF vars, receiverVars
<1> QED BY <1>1, <1>2, <1>3, <1>4, <1>5, <1>6, <1>7, <1>8, <1>9, <1>10, <1>11
        DEF ReceiverNext, ReceiverLoop

LEMMA Invariance == PortSpec => []IndInv
BY IndInit, IndStep, PTL DEF PortSpec

-----------------------------------------------------------------------------
(* What the receiver guarantees.                                           *)

\* No traffic brings a field out of its type.
THEOREM ReceiverTypeCorrect == PortSpec => []ReceiverTypeOK
<1>1. IndInv => ReceiverTypeOK BY DEF IndInv, Types
<1> QED BY <1>1, Invariance, PTL

\* No traffic, however redundant and reordered, gets a message published twice.
THEOREM PublishesOnce == PortSpec => []PublishedOnce
<1>1. IndInv => PublishedOnce BY DEF IndInv, Filtered, PublishedOnce
<1> QED BY <1>1, Invariance, PTL

\* Whatever the port was sent, one copy of a message is enough for it to be
\* published, unless one a window newer was, and nothing is made up.
THEOREM OneCopyIsEnough == PortSpec => []OneCopySuffices
<1>1. IndInv => OneCopySuffices BY DEF IndInv, Served
<1> QED BY <1>1, Invariance, PTL

\* Whatever the port was sent, the columns of the report add up to it.
THEOREM ReportAddsUp == PortSpec => []EveryFrameAccounted
<1>1. IndInv => EveryFrameAccounted
  <2> SUFFICES ASSUME IndInv PROVE EveryFrameAccounted
    OBVIOUS
  <2>1. window.accepted = published BY DEF IndInv, Filtered
  <2>2. ASSUME rpc = "poll"
        PROVE  /\ rst.messages = Number(Nat)
               /\ rst.messages - Number({Short}) = Total(window)
               /\ rst.malformed =
                      (rst.datagrams - rst.injected_drops - Cardinality(opened))
                      + Number({Short}) + Number({Cut})
    <3>1. Types /\ frames = <<>> BY <2>2, Between DEF IndInv
    <3>2. \A kinds : Left(frames, kinds) = 0 BY <3>1, LeftOfNone
    <3>3. \A kinds : Number(kinds) = NumberIn(opened, kinds) BY DEF Number, NumberIn
    <3>4. \A kinds : NumberIn(opened, kinds) \in Nat BY <3>1, NumberType
    <3>5. Total(window) \in Nat BY <3>1 DEF Types, ReceiverTypeOK, Windows, Total
    <3> QED BY <3>1, <3>2, <3>3, <3>4, <3>5, CountsAre DEF IndInv, Accounted
  <2> QED BY <2>1, <2>2 DEF EveryFrameAccounted, Total
<1> QED BY <1>1, Invariance, PTL
=============================================================================
