---------------------------- MODULE BlocksProofs ----------------------------
(***************************************************************************)
(* Proofs about the sequential classes MCBlocks runs, each on its own: the *)
(* duplicate filter, the fan-out of one stream, the producer's pacing, the *)
(* calibration, the datagram format and the histogram.                     *)
(***************************************************************************)
EXTENDS MCBlocks, DedupProofs

-----------------------------------------------------------------------------
(* The duplicate filter, offered any numbers: its inductive invariant.     *)

WindowInv == TypeOK /\ Good(window, delivered)

LEMMA IndInit == Init => WindowInv
<1> SUFFICES ASSUME Init PROVE WindowInv
  OBVIOUS
<1>1. Good(window, delivered) BY FreshIsGood DEF Init
<1>2. TypeOK BY <1>1 DEF Init, TypeOK, None, Good
<1> QED BY <1>1, <1>2 DEF WindowInv

LEMMA OfferStep == ASSUME WindowInv, NEW n \in Seqs, Offer(n) PROVE WindowInv'
<1>1. n \in Nat BY SeqsAssumption
<1>2. /\ window' = Accept(window, n)
      /\ delivered' = IF Verdict(window, n) = "new" THEN delivered \cup {n} ELSE delivered
      /\ answer' \in [seq : Seqs \cup {-1}, new : BOOLEAN]
      /\ delivered' \in SUBSET Seqs
  <2>1. delivered \in SUBSET Seqs BY DEF WindowInv, TypeOK
  <2>2. /\ [seq |-> n, new |-> TRUE] \in [seq : Seqs \cup {-1}, new : BOOLEAN]
        /\ [seq |-> n, new |-> FALSE] \in [seq : Seqs \cup {-1}, new : BOOLEAN]
    OBVIOUS
  <2>3. CASE Verdict(window, n) = "new"
    <3>1. /\ window' = Accept(window, n) /\ delivered' = delivered \cup {n}
          /\ answer' = [seq |-> n, new |-> TRUE]
      BY <2>3 DEF Offer
    <3> QED BY <2>1, <2>2, <2>3, <3>1
  <2>4. CASE Verdict(window, n) # "new"
    <3>1. /\ window' = Accept(window, n) /\ delivered' = delivered
          /\ answer' = [seq |-> n, new |-> FALSE]
      BY <2>4 DEF Offer
    <3> QED BY <2>1, <2>2, <2>4, <3>1
  <2> QED BY <2>3, <2>4
<1>3. Good(window', delivered') BY <1>1, <1>2, AcceptKeeps DEF WindowInv
<1>4. TypeOK' BY <1>2, <1>3 DEF TypeOK, Good
<1> QED BY <1>3, <1>4 DEF WindowInv

LEMMA IndStep == WindowInv /\ [Next]_vars => WindowInv'
<1> SUFFICES ASSUME WindowInv, [Next]_vars PROVE WindowInv'
  OBVIOUS
<1>1. ASSUME NEW n \in Seqs, Offer(n) PROVE WindowInv'
  BY <1>1, OfferStep
<1>2. CASE Reset
  <2>1. Good(window', delivered') BY <1>2, FreshIsGood DEF Reset
  <2> QED BY <1>2, <2>1 DEF Reset, WindowInv, TypeOK, None, Good
<1>3. CASE UNCHANGED vars
  BY <1>3 DEF vars, WindowInv, TypeOK
<1> QED BY <1>1, <1>2, <1>3 DEF Next

LEMMA WindowInvariance == Spec => []WindowInv
BY IndInit, IndStep, PTL DEF Spec

-----------------------------------------------------------------------------
(* What the filter guarantees.                                             *)

\* Every field keeps its type; in particular no slide takes the base below 0.
THEOREM TypeCorrect == Spec => []TypeOK
<1>1. WindowInv => TypeOK BY DEF WindowInv
<1> QED BY <1>1, WindowInvariance, PTL

\* The accepted counter is the number of different messages let through: no
\* message is published twice.
THEOREM AcceptedOnce == Spec => []AtMostOnce
<1>1. WindowInv => AtMostOnce BY DEF WindowInv, Good, AtMostOnce
<1> QED BY <1>1, WindowInvariance, PTL

\* Inside the window, seen() is right about every number.
THEOREM SeenIsExact == Spec => []BitsExact
<1>1. WindowInv => BitsExact
  <2> SUFFICES ASSUME WindowInv, NEW n \in Seqs,
                      window.base <= n, n < window.base + Window
               PROVE  Seen(window, n) <=> n \in delivered
    BY DEF BitsExact
  <2>1. n \in Nat BY SeqsAssumption
  <2>2. CASE window.started
    <3>1. Bit(n) \in window.bits <=> n \in delivered BY <2>1 DEF WindowInv, Good, Tracks
    <3> QED BY <2>2, <3>1 DEF Seen
  <2>3. CASE ~window.started
    BY <2>3 DEF WindowInv, Good, Seen
  <2> QED BY <2>2, <2>3
<1> QED BY <1>1, WindowInvariance, PTL

\* The window never slides past the newest number let through.
THEOREM SlidesWithNewest == Spec => []WindowEndsAtNewest
<1>1. WindowInv => WindowEndsAtNewest BY DEF WindowInv, Good, Tracks, WindowEndsAtNewest
<1> QED BY <1>1, WindowInvariance, PTL

LEMMA RefinesInit == Init => Once!Init
BY DEF Init, Once!Init, None, Once!None

LEMMA RefinesOffer ==
    ASSUME WindowInv, NEW n \in Seqs, Offer(n)
    PROVE  Once!Publish(n) \/ Once!Refuse(n)
<1>1. n \in Nat /\ Good(window, delivered) BY SeqsAssumption DEF WindowInv
<1> DEFINE v == Verdict(window, n)
<1>2. /\ v \in {"new", "duplicate", "too_old"}
      /\ v = "duplicate" => n \in delivered
      /\ v = "too_old" => \E r \in delivered : r - n >= Window
      /\ v = "new" => n \notin delivered /\ ~\E r \in delivered : r - n >= Window
  BY <1>1, AcceptKeeps
<1>3. \A r \in delivered : r \in Nat BY <1>1 DEF Good
<1>4. Once!Outlived(n) <=> \E r \in delivered : r - n >= Window
  BY <1>1, <1>3, WindowAssumption DEF Once!Outlived
<1>5. CASE v = "new" BY <1>2, <1>4, <1>5 DEF Offer, Once!Publish
<1>6. CASE v # "new" BY <1>2, <1>4, <1>6 DEF Offer, Once!Refuse
<1> QED BY <1>5, <1>6

LEMMA RefinesStep == WindowInv /\ [Next]_vars => [Once!Next]_Once!vars
<1> SUFFICES ASSUME WindowInv, [Next]_vars PROVE [Once!Next]_Once!vars
  OBVIOUS
<1>1. ASSUME NEW n \in Seqs, Offer(n) PROVE Once!Next
  BY <1>1, RefinesOffer DEF Once!Next
<1>2. CASE Reset
  BY <1>2 DEF Reset, Once!Next, Once!Reset, None, Once!None
<1>3. CASE UNCHANGED vars
  BY <1>3 DEF vars, Once!vars
<1> QED BY <1>1, <1>2, <1>3 DEF Next

\* The sliding bit window implements the filter that remembers everything: it
\* refuses a number only if it was let through or outlived by a whole window.
THEOREM Refinement == Spec => ImplementsOnceFilter
BY RefinesInit, RefinesStep, WindowInvariance, PTL DEF Spec, ImplementsOnceFilter, Once!Spec

-----------------------------------------------------------------------------
(* The fan-out.                                                            *)

\* Division leaves what was multiplied.
LEMMA QuotientIs ==
    ASSUME NEW m \in Nat \ {0}, NEW q \in Nat, NEW r \in Nat, r < m
    PROVE  (q * m + r) \div m = q
<1> DEFINE n == q * m + r  k == n \div m  s == n % m  d == k - q
<1>0. n \in Nat
  <2>1. q * m \in Nat OBVIOUS
  <2> QED BY <2>1
<1> HIDE DEF n
<1>1. n = m * k + s /\ k \in Nat /\ s \in 0 .. m - 1 BY <1>0
<1>2. m * d = r - s /\ d \in Int BY <1>1 DEF n
<1> HIDE DEF k, s, d
<1>3. ~(d >= 1)
  <2>1. d >= 1 => m * d >= m BY <1>2
  <2> QED BY <2>1, <1>1, <1>2
<1>4. ~(d <= -1)
  <2>1. d <= -1 => m * d <= -m BY <1>2
  <2> QED BY <2>1, <1>1, <1>2
<1>5. d = 0 BY <1>2, <1>3, <1>4
<1> QED BY <1>1, <1>5 DEF k, d, n

\* The first and the last of the list sendmmsg is given.
LEMMA PlacesInTurn ==
    ASSUME rotate \in D
    PROVE  Place(0) = rotate /\ Place(N - 1) = IF rotate = 0 THEN N - 1 ELSE rotate - 1
<1>1. N \in Nat \ {0} /\ rotate \in 0 .. N - 1 BY FanoutAssumption DEF D
<1>2. \A x \in 0 .. N - 1 : x % N = x BY <1>1
<1>3. Place(0) = rotate BY <1>1, <1>2 DEF Place
<1>4. CASE rotate = 0 BY <1>1, <1>2, <1>4 DEF Place
<1>5. CASE rotate # 0
  <2>1. rotate - 1 \in 0 .. N - 1 /\ rotate - 1 \in Nat /\ (N - 1) + rotate = (rotate - 1) + N
    BY <1>1, <1>5
  <2>2. ((rotate - 1) + N) % N = (rotate - 1) % N BY <1>1, <2>1, ResidueShift
  <2> QED BY <1>2, <1>3, <1>5, <2>1, <2>2 DEF Place
<1> QED BY <1>3, <1>4, <1>5

\* After "rounds" whole turns and "rotate" calls, each destination came last in
\* every turn and some in the one under way; and was first likewise, when the
\* kernel took it whatever else it took.
Rounds(rounds) ==
    /\ calls = rounds * N + rotate
    /\ \A d \in D : lastServed[d] =
           rounds + IF (d = N - 1 /\ rotate > 0) \/ d + 1 < rotate THEN 1 ELSE 0
    /\ counters.blocked + counters.errors = 0 =>
           \A d \in D : taken[d] >= rounds + IF d < rotate THEN 1 ELSE 0

FanoutInv == FanoutTypeOK /\ \E rounds \in Nat : Rounds(rounds)

LEMMA FanoutStart == FanoutInit => FanoutInv
<1> SUFFICES ASSUME FanoutInit PROVE FanoutInv
  OBVIOUS
<1>1. N \in Nat \ {0} /\ MaxCalls \in Nat /\ 0 \in D BY FanoutAssumption DEF D
<1>2. FanoutTypeOK BY <1>1 DEF FanoutInit, FanoutTypeOK
<1>3. Rounds(0)
  <2>1. \A d \in D : d \in Nat BY <1>1 DEF D
  <2> QED BY <1>1, <2>1 DEF FanoutInit, Rounds
<1> QED BY <1>2, <1>3 DEF FanoutInv

\* Whatever the kernel answers, the turn goes on.
LEMMA TurnStep ==
    ASSUME FanoutInv, calls < MaxCalls,
           lastServed' = [lastServed EXCEPT ![Place(N - 1)] = @ + 1],
           rotate' = Rotated, calls' = calls + 1,
           taken' \in [D -> Nat],
           counters' \in [sent : Nat, blocked : Nat, partial : Nat, errors : Nat],
           counters'.blocked + counters'.errors = 0 =>
               /\ counters.blocked + counters.errors = 0
               /\ \A d \in D : taken'[d] >= taken[d]
               /\ taken'[Place(0)] >= taken[Place(0)] + 1
    PROVE  FanoutInv'
<1>1. /\ N \in Nat \ {0} /\ MaxCalls \in Nat /\ rotate \in 0 .. N - 1 /\ calls \in 0 .. MaxCalls
      /\ lastServed \in [D -> Nat] /\ taken \in [D -> Nat] /\ rotate \in D
  BY FanoutAssumption DEF FanoutInv, FanoutTypeOK, D
<1>2. PICK rounds \in Nat : Rounds(rounds) BY DEF FanoutInv
<1>3. /\ calls = rounds * N + rotate
      /\ \A d \in D : lastServed[d] =
             rounds + IF (d = N - 1 /\ rotate > 0) \/ d + 1 < rotate THEN 1 ELSE 0
      /\ counters.blocked + counters.errors = 0 =>
             \A d \in D : taken[d] >= rounds + IF d < rotate THEN 1 ELSE 0
  BY <1>2 DEF Rounds
<1>4. /\ Place(0) = rotate /\ Place(N - 1) = IF rotate = 0 THEN N - 1 ELSE rotate - 1
      /\ Place(N - 1) \in D
  <2>1. Place(0) = rotate /\ Place(N - 1) = IF rotate = 0 THEN N - 1 ELSE rotate - 1
    BY <1>1, PlacesInTurn
  <2>2. N - 1 \in D /\ (rotate # 0 => rotate - 1 \in D) BY <1>1 DEF D
  <2>3. Place(N - 1) \in D BY <2>1, <2>2, Zenon
  <2> QED BY <2>1, <2>3
<1>5. \A d \in D : d \in 0 .. N - 1 /\ lastServed[d] \in Nat /\ taken[d] \in Nat
                   /\ taken'[d] \in Nat
  BY <1>1 DEF D
<1>6. \A d \in D : lastServed'[d] = lastServed[d] + IF d = Place(N - 1) THEN 1 ELSE 0
  BY <1>1, <1>4
<1>7. FanoutTypeOK'
  <2>1. rotate' \in D BY <1>1 DEF Rotated, D
  <2>2. calls' \in 0 .. MaxCalls BY <1>1
  <2>3. lastServed' \in [D -> Nat] BY <1>1, <1>4, <1>5
  <2> QED BY <2>1, <2>2, <2>3 DEF FanoutTypeOK
<1>8. CASE rotate + 1 < N
  <2>1. rotate' = rotate + 1 BY <1>1, <1>8 DEF Rotated
  <2>2. calls' = rounds * N + rotate'
    <3>1. rounds * N \in Nat BY <1>1
    <3> QED BY <1>1, <1>3, <2>1, <3>1
  <2>3. ASSUME NEW d \in D
        PROVE  lastServed'[d] =
                   rounds + IF (d = N - 1 /\ rotate' > 0) \/ d + 1 < rotate' THEN 1 ELSE 0
    <3>1. d \in 0 .. N - 1 /\ lastServed'[d] = lastServed[d] + IF d = Place(N - 1) THEN 1 ELSE 0
      BY <1>5, <1>6
    <3> QED BY <1>1, <1>3, <1>4, <1>8, <2>1, <3>1
  <2>4. ASSUME counters'.blocked + counters'.errors = 0, NEW d \in D
        PROVE  taken'[d] >= rounds + IF d < rotate' THEN 1 ELSE 0
    <3>1. /\ taken[d] >= rounds + IF d < rotate THEN 1 ELSE 0
          /\ taken'[d] >= taken[d] /\ (d = rotate => taken'[d] >= taken[d] + 1)
          /\ d \in 0 .. N - 1 /\ taken[d] \in Nat /\ taken'[d] \in Nat
      BY <1>3, <1>4, <1>5, <2>4
    <3> QED BY <1>1, <2>1, <3>1
  <2>5. Rounds(rounds)' BY <2>2, <2>3, <2>4 DEF Rounds
  <2> QED BY <1>7, <2>5 DEF FanoutInv
<1>9. CASE rotate + 1 = N
  <2>1. rotate' = 0 BY <1>1, <1>9 DEF Rotated
  <2>2. calls' = (rounds + 1) * N + rotate'
    <3>1. rounds * N \in Nat /\ (rounds + 1) * N = rounds * N + N BY <1>1
    <3> QED BY <1>1, <1>3, <1>9, <2>1, <3>1
  <2>3. ASSUME NEW d \in D
        PROVE  lastServed'[d] = (rounds + 1) +
                   IF (d = N - 1 /\ rotate' > 0) \/ d + 1 < rotate' THEN 1 ELSE 0
    <3>1. d \in 0 .. N - 1 /\ lastServed'[d] = lastServed[d] + IF d = Place(N - 1) THEN 1 ELSE 0
      BY <1>5, <1>6
    <3>2. lastServed'[d] = rounds + 1 BY <1>1, <1>3, <1>4, <1>9, <3>1
    <3> QED BY <2>1, <3>1, <3>2
  <2>4. ASSUME counters'.blocked + counters'.errors = 0, NEW d \in D
        PROVE  taken'[d] >= (rounds + 1) + IF d < rotate' THEN 1 ELSE 0
    <3>1. /\ taken[d] >= rounds + IF d < rotate THEN 1 ELSE 0
          /\ taken'[d] >= taken[d] /\ (d = rotate => taken'[d] >= taken[d] + 1)
          /\ d \in 0 .. N - 1 /\ taken[d] \in Nat /\ taken'[d] \in Nat
      BY <1>3, <1>4, <1>5, <2>4
    <3>2. taken'[d] >= rounds + 1 BY <1>1, <1>9, <3>1
    <3> QED BY <2>1, <3>1, <3>2
  <2>5. Rounds(rounds + 1)' BY <2>2, <2>3, <2>4 DEF Rounds
  <2> QED BY <1>7, <2>5 DEF FanoutInv
<1> QED BY <1>1, <1>8, <1>9

LEMMA FanoutStep == FanoutInv /\ [FanoutNext]_fanoutVars => FanoutInv'
<1> SUFFICES ASSUME FanoutInv, [FanoutNext]_fanoutVars PROVE FanoutInv'
  OBVIOUS
<1>1. /\ N \in Nat \ {0} /\ rotate \in D /\ taken \in [D -> Nat]
      /\ counters \in [sent : Nat, blocked : Nat, partial : Nat, errors : Nat]
  BY FanoutAssumption DEF FanoutInv, FanoutTypeOK
<1>2. ASSUME NEW sent \in 1 .. N, Sends(sent) PROVE FanoutInv'
  <2>1. taken' = [d \in D |-> taken[d] + IF \E k \in 0 .. sent - 1 : Place(k) = d THEN 1 ELSE 0]
    BY <1>2 DEF Sends
  <2>2. \A d \in D : taken[d] \in Nat BY <1>1
  <2>3. taken' \in [D -> Nat] /\ \A d \in D : taken'[d] >= taken[d] BY <2>1, <2>2
  <2>4. taken'[Place(0)] = taken[Place(0)] + 1
    <3>1. 0 \in 0 .. sent - 1 OBVIOUS
    <3>2. Place(0) \in D BY <1>1, PlacesInTurn
    <3> QED BY <2>1, <3>1, <3>2
  <2>5. /\ counters' \in [sent : Nat, blocked : Nat, partial : Nat, errors : Nat]
        /\ counters'.blocked = counters.blocked /\ counters'.errors = counters.errors
    <3> DEFINE short == IF sent < N THEN 1 ELSE 0
    <3>1. counters' = [counters EXCEPT !.sent = @ + sent, !.partial = @ + short]
      BY <1>2 DEF Sends, Counted
    <3>2. short \in Nat /\ sent \in Nat OBVIOUS
    <3> HIDE DEF short
    <3>3. counters.sent + sent \in Nat /\ counters.partial + short \in Nat BY <1>1, <3>2
    <3> QED BY <1>1, <3>1, <3>3
  <2>6. Place(0) \in D BY <1>1, PlacesInTurn
  <2>7. taken'[Place(0)] >= taken[Place(0)] + 1 BY <2>2, <2>4, <2>6
  <2> QED BY <1>2, <2>3, <2>5, <2>7, TurnStep DEF Sends
<1>3. ASSUME NEW why \in {"blocked", "errors"}, Fails(why) PROVE FanoutInv'
  <2>1. /\ counters' \in [sent : Nat, blocked : Nat, partial : Nat, errors : Nat]
        /\ counters'.blocked + counters'.errors # 0
    BY <1>1, <1>3 DEF Fails
  <2> QED BY <1>1, <1>3, <2>1, TurnStep DEF Fails
<1>4. CASE UNCHANGED fanoutVars
  BY <1>4 DEF fanoutVars, FanoutInv, FanoutTypeOK, Rounds
<1> QED BY <1>2, <1>3, <1>4 DEF FanoutNext

\* send_all takes turns: any two destinations have come last equally often, up to
\* one, so that the kernel's short counts fall on all of them alike.
THEOREM EveryoneInTurn == FanoutSpec => []ServedInTurn
<1>1. FanoutInv => ServedInTurn
  <2> SUFFICES ASSUME FanoutInv PROVE ServedInTurn
    OBVIOUS
  <2>1. /\ N \in Nat \ {0} /\ rotate \in 0 .. N - 1
        /\ lastServed \in [D -> Nat] /\ taken \in [D -> Nat]
    BY FanoutAssumption DEF FanoutInv, FanoutTypeOK, D
  <2>2. PICK rounds \in Nat : Rounds(rounds) BY DEF FanoutInv
  <2>3. \A d \in D : lastServed[d] = rounds \/ lastServed[d] = rounds + 1
    BY <2>2 DEF Rounds
  <2>4. \A d, e \in D : lastServed[d] <= lastServed[e] + 1 BY <2>3
  <2>5. calls \div N = rounds BY <2>1, <2>2, QuotientIs DEF Rounds
  <2>6. ASSUME counters.blocked + counters.errors = 0, NEW d \in D PROVE taken[d] >= rounds
    <3>1. taken[d] >= rounds + IF d < rotate THEN 1 ELSE 0 BY <2>2, <2>6 DEF Rounds
    <3> QED BY <2>1, <3>1
  <2> QED BY <2>4, <2>5, <2>6 DEF ServedInTurn
<1> QED BY <1>1, FanoutStart, FanoutStep, PTL DEF FanoutSpec

-----------------------------------------------------------------------------
(* The producer's pacing.                                                  *)

\* The messages whose time the producer has waited for.
Waited == IF ppc = "publish" THEN seq + 1 ELSE seq

PaceInv ==
    /\ rate \in Rates /\ clock \in 0 .. MaxClock /\ setBack \in BOOLEAN
    /\ seq \in 0 .. PCount /\ ppc \in {"head", "spin", "publish", "done"}
    /\ ppc \in {"spin", "publish"} => seq < PCount
    /\ ppc = "spin" => Interval > 0
    /\ next_send = Epoch + Waited * Interval
    /\ (Interval > 0 /\ ~setBack /\ Waited > 0) => next_send - Interval <= clock

LEMMA IntervalIs ==
    ASSUME rate \in Rates
    PROVE  /\ Interval \in Nat /\ rate \in Nat
           /\ Interval > 0 => rate > 0 /\ Interval * rate <= Second
<1>1. rate \in Nat /\ Second \in Nat BY ProducerAssumption
<1>2. CASE rate = 0 BY <1>1, <1>2 DEF Interval
<1>3. CASE rate # 0
  <2>1. Interval = Second \div rate BY <1>1, <1>3 DEF Interval
  <2> DEFINE q == Second \div rate  r == Second % rate
  <2>2. q \in Nat /\ Second = rate * q + r /\ r \in Nat BY <1>1, <1>3
  <2> HIDE DEF q, r
  <2>3. rate * q \in Nat /\ q * rate = rate * q BY <1>1, <2>2
  <2>4. q * rate <= Second BY <1>1, <2>2, <2>3
  <2> QED BY <1>1, <1>3, <2>1, <2>2, <2>4 DEF q
<1> QED BY <1>2, <1>3

LEMMA PaceStart == ProducerInit => PaceInv
<1> SUFFICES ASSUME ProducerInit PROVE PaceInv
  OBVIOUS
<1>1. /\ rate \in Rates /\ clock = Epoch /\ next_send = Epoch /\ seq = 0
      /\ ppc = "head" /\ setBack = FALSE
  BY DEF ProducerInit
<1>2. Epoch \in 0 .. MaxClock /\ PCount \in Nat BY ProducerAssumption
<1>3. Interval \in Nat BY <1>1, IntervalIs
<1>4. Waited = 0 BY <1>1 DEF Waited
<1>5. next_send = Epoch + Waited * Interval BY <1>1, <1>2, <1>3, <1>4
<1>6. seq \in 0 .. PCount /\ clock \in 0 .. MaxClock BY <1>1, <1>2
<1>8. setBack \in BOOLEAN BY <1>1, Zenon
<1>7. ~(Waited > 0) BY <1>4
<1> QED BY <1>1, <1>5, <1>6, <1>7, <1>8 DEF PaceInv

LEMMA PaceStep == PaceInv /\ [ProducerNext]_producerVars => PaceInv'
<1> SUFFICES ASSUME PaceInv, [ProducerNext]_producerVars PROVE PaceInv'
  OBVIOUS
<1>1. /\ rate \in Rates /\ clock \in 0 .. MaxClock /\ setBack \in BOOLEAN
      /\ seq \in 0 .. PCount /\ ppc \in {"head", "spin", "publish", "done"}
      /\ ppc \in {"spin", "publish"} => seq < PCount
      /\ ppc = "spin" => Interval > 0
      /\ next_send = Epoch + Waited * Interval
      /\ (Interval > 0 /\ ~setBack /\ Waited > 0) => next_send - Interval <= clock
  BY DEF PaceInv
<1>2. /\ Interval \in Nat /\ PCount \in Nat /\ MaxClock \in Nat /\ MaxStep \in Nat
      /\ Epoch \in Nat
  BY <1>1, IntervalIs, ProducerAssumption
<1>3. Waited \in Nat /\ next_send \in Nat
  <2>1. Waited \in Nat BY <1>1, <1>2 DEF Waited
  <2>2. Waited * Interval \in Nat BY <1>2, <2>1
  <2> QED BY <1>1, <1>2, <2>1, <2>2
<1>4. rate' = rate /\ Interval' = Interval
  BY DEF ProducerNext, NextTurn, Due, PublishNext, Tick, SetBack, producerVars, Interval
<1>5. CASE NextTurn
  <2>1. /\ ppc = "head" /\ UNCHANGED <<rate, clock, next_send, seq, setBack>>
        /\ ppc' = IF seq = PCount THEN "done" ELSE IF Interval > 0 THEN "spin" ELSE "publish"
    BY <1>5 DEF NextTurn
  <2>2. CASE ppc' # "publish"
    <3>1. Waited' = Waited BY <2>1, <2>2 DEF Waited
    <3>2. /\ ppc' \in {"head", "spin", "publish", "done"}
          /\ ppc' \in {"spin", "publish"} => seq < PCount
          /\ ppc' = "spin" => Interval > 0
      BY <1>1, <1>2, <2>1, <2>2
    <3> QED BY <1>1, <1>4, <2>1, <3>1, <3>2 DEF PaceInv
  <2>3. CASE ppc' = "publish"
    <3>1. Interval = 0 /\ seq < PCount BY <1>1, <1>2, <2>1, <2>3
    <3>2. Waited' = seq + 1 /\ Waited = seq BY <2>1, <2>3 DEF Waited
    <3>3. next_send = Epoch
      <4>1. seq * 0 = 0 BY <1>1, <1>2
      <4> QED BY <1>1, <1>2, <3>1, <3>2, <4>1
    <3>4. next_send' = Epoch + Waited' * Interval'
      <4>1. (seq + 1) * 0 = 0 BY <1>1, <1>2
      <4> QED BY <1>2, <1>4, <2>1, <3>1, <3>2, <3>3, <4>1
    <3>5. ~(Interval' > 0) BY <1>4, <3>1
    <3> QED BY <1>1, <1>4, <2>1, <2>3, <3>1, <3>4, <3>5 DEF PaceInv
  <2> QED BY <2>2, <2>3
<1>6. CASE Due
  <2>1. /\ ppc = "spin" /\ clock >= next_send /\ next_send' = next_send + Interval
        /\ ppc' = "publish" /\ UNCHANGED <<rate, clock, seq, setBack>>
    BY <1>6 DEF Due, Following
  <2>2. Waited = seq /\ Waited' = seq + 1 BY <2>1 DEF Waited
  <2>3. next_send' = Epoch + Waited' * Interval'
    <3>1. (seq + 1) * Interval = seq * Interval + Interval /\ seq * Interval \in Nat
      BY <1>1, <1>2
    <3> QED BY <1>1, <1>2, <1>4, <2>1, <2>2, <3>1
  <2>4. next_send' - Interval' <= clock' BY <1>2, <1>3, <1>4, <2>1
  <2> QED BY <1>1, <1>4, <2>1, <2>3, <2>4 DEF PaceInv
<1>7. CASE PublishNext
  <2>1. /\ ppc = "publish" /\ seq' = seq + 1 /\ ppc' = "head"
        /\ UNCHANGED <<rate, clock, next_send, setBack>>
    BY <1>7 DEF PublishNext
  <2>2. Waited' = Waited BY <2>1 DEF Waited
  <2>3. seq' \in 0 .. PCount BY <1>1, <1>2, <2>1
  <2> QED BY <1>1, <1>4, <2>1, <2>2, <2>3 DEF PaceInv
<1>8. CASE Tick
  <2>1. /\ clock' \in 0 .. MaxClock /\ clock' >= clock
        /\ UNCHANGED <<rate, next_send, seq, ppc, setBack>>
    BY <1>1, <1>2, <1>8 DEF Tick
  <2>2. Waited' = Waited BY <2>1 DEF Waited
  <2>3. next_send - Interval <= clock => next_send - Interval <= clock'
    BY <1>1, <1>2, <1>3, <2>1
  <2> QED BY <1>1, <1>4, <2>1, <2>2, <2>3 DEF PaceInv
<1>9. CASE SetBack
  <2>1. /\ clock' \in 0 .. MaxClock /\ setBack' = TRUE
        /\ UNCHANGED <<rate, next_send, seq, ppc>>
    BY <1>1, <1>2, <1>9 DEF SetBack
  <2>2. Waited' = Waited BY <2>1 DEF Waited
  <2> QED BY <1>1, <1>4, <2>1, <2>2 DEF PaceInv
<1>10. CASE UNCHANGED producerVars
  <2>1. UNCHANGED <<rate, clock, next_send, seq, ppc, setBack>> BY <1>10 DEF producerVars
  <2>2. Waited' = Waited BY <2>1 DEF Waited
  <2> QED BY <1>1, <1>4, <2>1, <2>2 DEF PaceInv
<1> QED BY <1>5, <1>6, <1>7, <1>8, <1>9, <1>10 DEF ProducerNext

\* The loop of producer.cpp does not fall behind --rate over pauses or a clock that
\* is set: next_send grows by the truncated interval with every message, from when
\* it started, and no message goes out before unless the clock was set back.
THEOREM KeepsPace == ProducerSpec => []PaceKept
<1>1. PaceInv => PaceKept
  <2> SUFFICES ASSUME PaceInv, Interval > 0, NEW elapsed, elapsed = clock - Epoch
               PROVE  /\ (ppc = "spin" /\ clock < next_send) =>
                             seq * Interval > elapsed /\ seq * Second > elapsed * rate
                      /\ (~setBack /\ seq > 0) => (seq - 1) * Interval <= elapsed
    BY DEF PaceKept
  <2>1. /\ clock \in Nat /\ seq \in Nat /\ Epoch \in Nat /\ Second \in Nat
        /\ Interval \in Nat /\ rate \in Nat /\ rate > 0 /\ Interval * rate <= Second
        /\ next_send = Epoch + Waited * Interval
    BY IntervalIs, ProducerAssumption DEF PaceInv
  <2>2. seq * Interval \in Nat BY <2>1
  <2>3. ASSUME ppc = "spin", clock < next_send
        PROVE  seq * Interval > elapsed /\ seq * Second > elapsed * rate
    <3>1. Waited = seq BY <2>3 DEF Waited
    <3>2. elapsed < seq * Interval /\ elapsed \in Int BY <2>1, <2>2, <2>3, <3>1
    <3>3. elapsed * rate < (seq * Interval) * rate
      <4>1. \A x, y \in Int, z \in Nat : x < y /\ z > 0 => x * z < y * z OBVIOUS
      <4> QED BY <2>1, <2>2, <3>2, <4>1
    <3>4. (seq * Interval) * rate = seq * (Interval * rate) BY <2>1
    <3>5. seq * (Interval * rate) <= seq * Second
      <4>1. \A x, y, z \in Nat : x <= y => z * x <= z * y OBVIOUS
      <4>2. Interval * rate \in Nat BY <2>1
      <4> QED BY <2>1, <4>1, <4>2
    <3>6. /\ elapsed * rate \in Int /\ seq * Second \in Int
          /\ seq * (Interval * rate) \in Int
      <4>1. Interval * rate \in Int BY <2>1
      <4> QED BY <2>1, <3>2, <4>1
    <3> QED BY <3>2, <3>3, <3>4, <3>5, <3>6
  <2>4. ASSUME ~setBack, seq > 0 PROVE (seq - 1) * Interval <= elapsed
    <3>1. Waited \in {seq, seq + 1} BY DEF Waited
    <3>2. next_send - Interval <= clock BY <2>1, <2>4, <3>1 DEF PaceInv
    <3>3. /\ (seq - 1) * Interval = seq * Interval - Interval
          /\ (seq + 1) * Interval = seq * Interval + Interval
      BY <2>1
    <3> QED BY <2>1, <2>2, <3>1, <3>2, <3>3
  <2> QED BY <2>3, <2>4
<1> QED BY <1>1, PaceStart, PaceStep, PTL DEF ProducerSpec

-----------------------------------------------------------------------------
(* The calibration.                                                        *)

\* How far, doubled, an anchor's tick is from its time.
Skew(a) == 2 * (a.tick - a.realtime * Freq)

\* An anchor that a try was good enough for.
Sampled(a) ==
    /\ a \in Anchors
    /\ a # NoAnchor => Skew(a) >= -a.bracket - 1 /\ Skew(a) <= a.bracket

\* No try of an anchor has a narrower bracket than the one kept.
NarrowestKept ==
    /\ \A s \in tried : best.bracket <= s
    /\ \A k \in 1 .. Len(anchors) : \A s \in offered[k] : anchors[k].bracket <= s

\* The second anchor is sampled a baseline after the first.
CalibrationInv ==
    /\ CalibrationTypeOK /\ NarrowestKept
    /\ Sampled(best) /\ best.tick <= time * Freq
    /\ \A k \in 1 .. Len(anchors) : Sampled(anchors[k])
    /\ Len(anchors) = 1 =>
           /\ anchors[1].tick < time * Freq
           /\ best # NoAnchor => anchors[1].tick < best.tick
    /\ (Len(anchors) = 2 /\ anchors[2] # NoAnchor) => anchors[1].tick < anchors[2].tick

LEMMA CalibrationStart == CalibrationInit => CalibrationInv
<1> SUFFICES ASSUME CalibrationInit PROVE CalibrationInv
  OBVIOUS
<1>1. /\ time = 0 /\ tries = 0 /\ best = NoAnchor /\ anchors = <<>>
      /\ tried = {} /\ offered = <<>>
  BY DEF CalibrationInit
<1>2. NoAnchor \in Anchors /\ NoAnchor.tick = 0
  <2>1. Widest \in Nat
    <3>1. 2 ^ 30 \in Nat OBVIOUS
    <3> QED BY <3>1 DEF Widest
  <2> QED BY <2>1 DEF NoAnchor, Anchors
<1>3. Freq \in Nat /\ Tries \in Nat BY CalibrationAssumption
<1>4. anchors \in Seq(Anchors) /\ Len(anchors) = 0 BY <1>1
<1>5. CalibrationTypeOK /\ NarrowestKept
  BY <1>1, <1>2, <1>3, <1>4 DEF CalibrationTypeOK, NarrowestKept
<1>6. Sampled(best) BY <1>1, <1>2 DEF Sampled
<1>7. best.tick <= time * Freq BY <1>1, <1>2, <1>3
<1> QED BY <1>4, <1>5, <1>6, <1>7 DEF CalibrationInv

LEMMA TrySamples ==
    ASSUME CalibrationInv, NEW before \in Nat, NEW after \in Nat, Try(before, after)
    PROVE  CalibrationInv'
<1> DEFINE t0 == time * Freq  x == before * Freq  y == after * Freq  bracket == x + y
           half == bracket \div 2
           new == [tick |-> t0 + half, realtime |-> time + before, bracket |-> bracket]
<1>1. /\ Freq \in Nat \ {0} /\ time \in Nat /\ tries \in 0 .. Tries /\ Tries \in Nat
      /\ best \in Anchors /\ anchors \in Seq(Anchors) /\ Len(anchors) <= 2
  BY CalibrationAssumption DEF CalibrationInv, CalibrationTypeOK
<1>2. /\ (before + after) * Freq = bracket
      /\ (time + before) * Freq = t0 + x
      /\ (time + before + after) * Freq = t0 + x + y
  BY <1>1
<1>3. t0 \in Nat /\ x \in Nat /\ y \in Nat /\ bracket \in Nat BY <1>1
<1>4. half \in Nat /\ 2 * half <= bracket /\ bracket <= 2 * half + 1 BY <1>3
<1>5. /\ Len(anchors) < 2 /\ tries < Tries /\ time' = time + before + after
      /\ tries' = tries + 1 /\ anchors' = anchors
      /\ tried' = tried \cup {bracket} /\ offered' = offered
      /\ IF bracket < best.bracket THEN best' = new ELSE best' = best
  BY <1>2 DEF Try, Middle, Narrower
<1>6. time' * Freq = t0 + x + y BY <1>2, <1>5
<1> HIDE DEF t0, x, y, bracket, half
<1>7. Sampled(new) /\ new.tick >= t0 /\ new.tick <= t0 + x + y
  <2>1. new.tick = t0 + half /\ new.realtime * Freq = t0 + x /\ new.bracket = bracket
    BY <1>2
  <2>2. t0 + half \in Nat /\ time + before \in Nat BY <1>1, <1>3, <1>4
  <2>3. new \in Anchors BY <1>3, <2>2 DEF Anchors
  <2>4. Skew(new) = 2 * half - 2 * x
    <3>1. Skew(new) = 2 * ((t0 + half) - (t0 + x)) BY <2>1 DEF Skew
    <3> QED BY <1>3, <1>4, <3>1
  <2>5. x <= bracket /\ bracket = x + y BY <1>3 DEF bracket
  <2> HIDE DEF new
  <2>6. Skew(new) >= -bracket - 1 /\ Skew(new) <= bracket BY <1>3, <1>4, <2>4, <2>5
  <2>7. half <= bracket BY <1>3, <1>4
  <2> QED BY <1>3, <1>4, <2>1, <2>3, <2>5, <2>6, <2>7 DEF Sampled
<1> HIDE DEF new
<1>8. CalibrationTypeOK'
  <2>1. time' \in Nat /\ tries' \in 0 .. Tries BY <1>1, <1>5
  <2>2. best' \in Anchors BY <1>1, <1>5, <1>7 DEF Sampled
  <2>3. /\ tried' \in SUBSET Nat /\ offered' \in Seq(SUBSET Nat)
        /\ Len(offered') = Len(anchors')
    BY <1>3, <1>5 DEF CalibrationInv, CalibrationTypeOK
  <2> QED BY <1>1, <1>5, <2>1, <2>2, <2>3 DEF CalibrationTypeOK
<1>13. NarrowestKept'
  <2>1. ASSUME NEW s \in tried' PROVE best'.bracket <= s
    <3>1. /\ \A u \in tried : u \in Nat /\ best.bracket <= u
          /\ best.bracket \in Nat /\ (s \in tried \/ s = bracket)
      BY <1>1, <1>5, <2>1 DEF CalibrationInv, CalibrationTypeOK, NarrowestKept, Anchors
    <3>2. new.bracket = bracket BY DEF new
    <3> HIDE DEF new
    <3>3. CASE bracket < best.bracket
      <4>1. best'.bracket = bracket BY <1>5, <3>2, <3>3
      <4> QED BY <1>3, <3>1, <3>3, <4>1
    <3>4. CASE ~(bracket < best.bracket)
      <4>1. best' = best BY <1>5, <3>4
      <4> QED BY <1>3, <3>1, <3>4, <4>1
    <3> QED BY <3>3, <3>4
  <2> QED BY <1>5, <2>1 DEF CalibrationInv, NarrowestKept
<1>9. Sampled(best') BY <1>5, <1>7 DEF CalibrationInv
<1>10. best.tick <= t0 BY DEF CalibrationInv, t0
<1>11. best'.tick <= time' * Freq
  <2>1. best.tick \in Nat BY <1>1 DEF Anchors
  <2> QED BY <1>3, <1>5, <1>6, <1>7, <1>10, <2>1
<1>12. ASSUME Len(anchors) = 1
       PROVE  anchors[1].tick < time' * Freq /\ (best' # NoAnchor => anchors[1].tick < best'.tick)
  <2>1. anchors[1].tick < t0 /\ (best # NoAnchor => anchors[1].tick < best.tick)
    BY <1>12 DEF CalibrationInv, t0
  <2>2. anchors[1].tick \in Nat
    <3>0. \A q \in Seq(Anchors) : Len(q) = 1 => q[1] \in Anchors OBVIOUS
    <3>1. anchors[1] \in Anchors BY <1>1, <1>12, <3>0
    <3> QED BY <3>1 DEF Anchors
  <2>3. new.tick \in Nat BY <1>7 DEF Sampled, Anchors
  <2> QED BY <1>3, <1>5, <1>6, <1>7, <2>1, <2>2, <2>3, SMTT(30)
<1> QED BY <1>5, <1>8, <1>9, <1>11, <1>12, <1>13 DEF CalibrationInv

LEMMA AnchorTaken ==
    ASSUME CalibrationInv, NEW gap \in Nat, SampleAnchor(gap) PROVE CalibrationInv'
<1>1. /\ Freq \in Nat \ {0} /\ time \in Nat /\ Tries \in Nat /\ Baseline \in Nat \ {0}
      /\ best \in Anchors /\ anchors \in Seq(Anchors) /\ Len(anchors) <= 2
      /\ Sampled(best) /\ best.tick <= time * Freq
  BY CalibrationAssumption DEF CalibrationInv, CalibrationTypeOK
<1>2. /\ Len(anchors) < 2 /\ anchors' = Append(anchors, best)
      /\ time' = time + Baseline + gap /\ best' = NoAnchor /\ tries' = 0
      /\ offered' = Append(offered, tried) /\ tried' = {}
  BY DEF SampleAnchor
<1>3. /\ Len(anchors) \in Nat /\ Len(anchors') = Len(anchors) + 1
      /\ anchors' \in Seq(Anchors) /\ anchors'[Len(anchors) + 1] = best
      /\ \A k \in 1 .. Len(anchors) : anchors'[k] = anchors[k]
  BY <1>1, <1>2
<1>4. NoAnchor \in Anchors /\ NoAnchor.tick = 0
  <2>1. Widest \in Nat
    <3>1. 2 ^ 30 \in Nat OBVIOUS
    <3> QED BY <3>1 DEF Widest
  <2> QED BY <2>1 DEF NoAnchor, Anchors
<1>5. time' \in Nat /\ time' * Freq \in Nat /\ time * Freq < time' * Freq
  <2>1. \A t, n \in Nat, f \in Nat \ {0} : n > 0 => t * f < (t + n) * f OBVIOUS
  <2>2. Baseline + gap \in Nat /\ Baseline + gap > 0 /\ time' = time + (Baseline + gap)
    BY <1>1, <1>2
  <2>3. time' \in Nat /\ time * Freq < time' * Freq BY <1>1, <2>1, <2>2
  <2>4. \A t, f \in Nat : t * f \in Nat OBVIOUS
  <2>5. time' * Freq \in Nat BY <1>1, <2>3, <2>4
  <2> QED BY <2>3, <2>5
<1>11. /\ tried \in SUBSET Nat /\ offered \in Seq(SUBSET Nat)
       /\ Len(offered) = Len(anchors)
  BY DEF CalibrationInv, CalibrationTypeOK
<1>12. /\ offered' \in Seq(SUBSET Nat) /\ Len(offered') = Len(anchors')
       /\ offered'[Len(anchors) + 1] = tried
       /\ \A k \in 1 .. Len(anchors) : offered'[k] = offered[k]
  BY <1>2, <1>3, <1>11
<1>6. CalibrationTypeOK'
  BY <1>1, <1>2, <1>3, <1>4, <1>5, <1>12 DEF CalibrationTypeOK
<1>13. NarrowestKept'
  <2>1. ASSUME NEW k \in 1 .. Len(anchors'), NEW s \in offered'[k]
        PROVE  anchors'[k].bracket <= s
    <3>1. k \in 1 .. Len(anchors) \/ k = Len(anchors) + 1 BY <1>3
    <3> QED BY <1>3, <1>12, <2>1, <3>1 DEF CalibrationInv, NarrowestKept
  <2> QED BY <1>2, <2>1 DEF NarrowestKept
<1>7. Sampled(best') /\ best'.tick <= time' * Freq BY <1>2, <1>4, <1>5 DEF Sampled
<1>8. ASSUME NEW k \in 1 .. Len(anchors') PROVE Sampled(anchors'[k])
  <2>1. k \in 1 .. Len(anchors) \/ k = Len(anchors) + 1 BY <1>3
  <2> QED BY <1>1, <1>3, <2>1 DEF CalibrationInv
<1>9. ASSUME Len(anchors') = 1 PROVE anchors'[1].tick < time' * Freq
  <2>1. anchors'[1] = best BY <1>3, <1>9
  <2>2. best.tick \in Nat BY <1>1 DEF Anchors
  <2>3. \A t, f \in Nat : t * f \in Nat OBVIOUS
  <2>4. time * Freq \in Nat BY <1>1, <2>3
  <2>5. \A x, y, z \in Nat : x <= y /\ y < z => x < z OBVIOUS
  <2>6. best.tick < time' * Freq BY <1>1, <1>5, <2>2, <2>4, <2>5
  <2> QED BY <2>1, <2>6
<1>10. ASSUME Len(anchors') = 2, anchors'[2] # NoAnchor PROVE anchors'[1].tick < anchors'[2].tick
  <2>1. Len(anchors) = 1 /\ anchors'[2] = best /\ anchors'[1] = anchors[1]
    <3>0. Len(anchors) + 1 = 2 /\ Len(anchors) \in Nat BY <1>3, <1>10, Zenon
    <3>00. \A n \in Nat : n + 1 = 2 => n = 1 OBVIOUS
    <3>1. Len(anchors) = 1 BY <3>0, <3>00, Zenon
    <3>2. 1 \in 1 .. Len(anchors) /\ Len(anchors) + 1 = 2 BY <3>1
    <3> QED BY <1>3, <3>1, <3>2
  <2> QED BY <1>10, <2>1 DEF CalibrationInv
<1> QED BY <1>2, <1>6, <1>7, <1>8, <1>9, <1>10, <1>13 DEF CalibrationInv

LEMMA CalibrationStep == CalibrationInv /\ [CalibrationNext]_calibrationVars => CalibrationInv'
<1> SUFFICES ASSUME CalibrationInv, [CalibrationNext]_calibrationVars PROVE CalibrationInv'
  OBVIOUS
<1>0. MaxGap \in Nat BY CalibrationAssumption
<1>1. ASSUME NEW before \in 0 .. MaxGap, NEW after \in 0 .. MaxGap, Try(before, after)
      PROVE  CalibrationInv'
  BY <1>0, <1>1, TrySamples
<1>2. ASSUME NEW gap \in 0 .. MaxGap, SampleAnchor(gap) PROVE CalibrationInv'
  BY <1>0, <1>2, AnchorTaken
<1>3. CASE UNCHANGED <<time, best, anchors, tried, offered>> /\ tries' \in 0 .. Tries
  BY <1>3 DEF CalibrationInv, CalibrationTypeOK, NarrowestKept
<1>4. Discard => UNCHANGED <<time, best, anchors, tried, offered>> /\ tries' \in 0 .. Tries
  BY CalibrationAssumption DEF Discard, CalibrationInv, CalibrationTypeOK
<1>5. UNCHANGED calibrationVars
          => UNCHANGED <<time, best, anchors, tried, offered>> /\ tries' \in 0 .. Tries
  BY DEF calibrationVars, CalibrationInv, CalibrationTypeOK
<1> QED BY <1>1, <1>2, <1>3, <1>4, <1>5 DEF CalibrationNext

\* The slope of tsc.h's calibration is as good as any two brackets tried, one at
\* each anchor: the tick in the middle is off by half a bracket at most, in either
\* direction, and the narrowest bracket is the one kept.
THEOREM SlopeIsClose == CalibrationSpec => []SlopeError
<1>0. ASSUME CalibrationInv, Len(anchors) = 2, NoAnchor \notin {anchors[1], anchors[2]}
      PROVE  anchors[2].tick - anchors[1].tick > 0
  <2>1. 1 \in 1 .. 2 /\ 2 \in 1 .. 2 OBVIOUS
  <2>2. /\ anchors[1] \in Anchors /\ anchors[2] \in Anchors
        /\ anchors[1].tick < anchors[2].tick
    BY <1>0, <2>1 DEF CalibrationInv, Sampled
  <2> QED BY <2>2 DEF Anchors
<1>1. CalibrationInv => SlopeError
  <2> SUFFICES ASSUME CalibrationInv, Len(anchors) = 2, NEW a, a = anchors[1],
                      NEW b, b = anchors[2], a # NoAnchor, b # NoAnchor,
                      NEW dt, dt = b.tick - a.tick,
                      NEW drt, drt = b.realtime - a.realtime,
                      NEW off1, off1 = dt - drt * Freq,
                      NEW s \in offered[1], NEW t \in offered[2]
               PROVE  (IF off1 < 0 THEN -off1 ELSE off1) * 2 <= s + t + 1
    BY <1>0 DEF SlopeError
  <2>1. 1 \in 1 .. 2 /\ 2 \in 1 .. 2 OBVIOUS
  <2>2. Sampled(a) /\ Sampled(b) /\ a.tick < b.tick /\ Freq \in Nat
    BY <2>1, CalibrationAssumption DEF CalibrationInv
  <2>3. /\ a.tick \in Nat /\ b.tick \in Nat /\ a.realtime \in Nat /\ b.realtime \in Nat
        /\ a.bracket \in Nat /\ b.bracket \in Nat
    BY <2>2 DEF Sampled, Anchors
  <2>4. drt * Freq = b.realtime * Freq - a.realtime * Freq BY <2>2, <2>3
  <2> DEFINE at == a.tick  bt == b.tick  ar == a.realtime * Freq  br == b.realtime * Freq
             ab == a.bracket  bb == b.bracket
  <2>5. /\ at \in Nat /\ bt \in Nat /\ ar \in Nat /\ br \in Nat /\ ab \in Nat /\ bb \in Nat
        /\ at < bt /\ dt = bt - at /\ off1 = dt - (br - ar)
        /\ 2 * (at - ar) >= -ab - 1 /\ 2 * (at - ar) <= ab
        /\ 2 * (bt - br) >= -bb - 1 /\ 2 * (bt - br) <= bb
    BY <2>2, <2>3, <2>4 DEF Sampled, Skew
  <2> HIDE DEF at, bt, ar, br, ab, bb
  <2>6. s \in Nat /\ t \in Nat /\ ab <= s /\ bb <= t
    <3>1. /\ offered \in Seq(SUBSET Nat) /\ Len(offered) = 2
          /\ a.bracket <= s /\ b.bracket <= t
      BY <2>1 DEF CalibrationInv, CalibrationTypeOK, NarrowestKept
    <3>2. ASSUME NEW S, NEW q \in Seq(S), Len(q) = 2 PROVE q[1] \in S /\ q[2] \in S
      <4>1. 1 \in 1 .. Len(q) /\ 2 \in 1 .. Len(q) BY <3>2
      <4>2. \A k \in 1 .. Len(q) : q[k] \in S OBVIOUS
      <4> QED BY <4>1, <4>2
    <3>3. offered[1] \in SUBSET Nat /\ offered[2] \in SUBSET Nat BY <3>1, <3>2
    <3>4. s \in Nat /\ t \in Nat BY <3>3
    <3> QED BY <3>1, <3>4 DEF ab, bb
  <2>7. off1 \in Int /\ ab + bb + 1 <= s + t + 1 BY <2>5, <2>6
  <2>8. (IF off1 < 0 THEN -off1 ELSE off1) * 2 <= ab + bb + 1 BY <2>5
  <2>9. (IF off1 < 0 THEN -off1 ELSE off1) * 2 \in Int BY <2>7
  <2>10. ab + bb + 1 \in Int /\ s + t + 1 \in Int BY <2>5, <2>6
  <2>11. \A x, y, z \in Int : x <= y /\ y <= z => x <= z OBVIOUS
  <2> QED BY <2>7, <2>8, <2>9, <2>10, <2>11
<1> QED BY <1>1, CalibrationStart, CalibrationStep, PTL DEF CalibrationSpec

-----------------------------------------------------------------------------
(* The datagram format.                                                    *)

\* Where the kth record ends, and the header.
EndOf(k) == IF k = 0 THEN HeaderSize ELSE records[k].off + records[k].len

\* Records lie one behind the other, from the header on.
Laid ==
    /\ records \in Seq(Frames) /\ n_msgs = Len(records)
    /\ len = EndOf(n_msgs)
    /\ \A k \in 1 .. n_msgs : records[k].off = EndOf(k - 1) + RecordSize
    /\ \A j, k \in 0 .. n_msgs : j <= k => EndOf(j) <= EndOf(k)
    /\ len >= HeaderSize + n_msgs
    /\ first = IF n_msgs = 0 THEN 0 ELSE 1
    /\ staged # NoFrame => len + RecordSize + FrameCap <= Cap

\* The walk has come to the end of the records it yielded.
Walked ==
    /\ yielded \in Seq(Frames) /\ n_seen = Len(yielded) /\ n_seen \in 0 .. n_msgs
    /\ \A k \in 1 .. n_seen : yielded[k] = records[k]
    /\ Building => n_seen = 0 /\ off = 0 /\ outcome = "none"
    /\ ~Building => /\ staged = NoFrame /\ arrived \in 0 .. len
                    /\ off = EndOf(n_seen)
                    /\ IF outcome = "refused" THEN n_seen = 0 ELSE off <= arrived

\* How it ended.
Ended ==
    outcome \in {"complete", "incomplete"} =>
        /\ ~Building /\ (n_seen < n_msgs => EndOf(n_seen + 1) > arrived)
        /\ outcome = "complete" <=> (n_seen = n_msgs /\ off = arrived)

WireInv == WireTypeOK /\ Laid /\ Walked /\ Ended

LEMMA WireConstants ==
    /\ HeaderSize \in Nat \ {0} /\ RecordSize \in Nat \ {0} /\ FrameCap \in Nat
    /\ Cap \in Nat /\ HeaderSize <= Cap
    /\ \A l \in FrameLens : l \in Nat /\ l <= FrameCap
BY WireAssumption

LEMMA EndsAreNat ==
    ASSUME Laid, NEW k \in 0 .. n_msgs PROVE EndOf(k) \in Nat
<1>1. CASE k = 0 BY <1>1, WireConstants DEF EndOf
<1>2. CASE k # 0
  <2>1. k \in 1 .. Len(records) BY <1>2 DEF Laid
  <2>2. records[k] \in Frames BY <2>1 DEF Laid
  <2>3. records[k].off \in Nat /\ records[k].len \in Nat BY <2>2, WireConstants DEF Frames
  <2> QED BY <1>2, <2>3 DEF EndOf
<1> QED BY <1>1, <1>2

LEMMA WireStart == WireInit => WireInv
<1> SUFFICES ASSUME WireInit PROVE WireInv
  OBVIOUS
<1>1. /\ len = HeaderSize /\ n_msgs = 0 /\ first = 0 /\ records = <<>> /\ staged = NoFrame
      /\ arrived = -1 /\ off = 0 /\ n_seen = 0 /\ yielded = <<>> /\ outcome = "none"
  BY DEF WireInit
<1>2. <<>> \in Seq(Frames) /\ Len(<<>>) = 0 OBVIOUS
<1>3. WireTypeOK BY <1>1, <1>2, WireConstants DEF WireTypeOK, NoFrame
<1>4. \A k \in 0 .. 0 : k = 0 OBVIOUS
<1>5. Laid BY <1>1, <1>2, <1>4, WireConstants DEF Laid, EndOf
<1>6. Walked BY <1>1, <1>2 DEF Walked, Building
<1>7. Ended BY <1>1 DEF Ended
<1> QED BY <1>3, <1>5, <1>6, <1>7 DEF WireInv

\* A frame appended where it fits.
LEMMA CommitStep ==
    ASSUME WireInv, Building, NEW l \in FrameLens, Commit(l), UNCHANGED readVars,
           staged' = NoFrame, len + RecordSize + l <= Cap
    PROVE  WireInv'
<1> DEFINE rec == [off |-> len + RecordSize, len |-> l, seq |-> n_msgs + 1]
<1>1. /\ records' = Append(records, rec) /\ first' = IF first = 0 THEN n_msgs + 1 ELSE first
      /\ len' = len + RecordSize + l /\ n_msgs' = n_msgs + 1
      /\ UNCHANGED <<arrived, off, n_seen, yielded, outcome>>
  BY DEF Commit, readVars
<1>2. /\ records \in Seq(Frames) /\ n_msgs = Len(records) /\ len = EndOf(n_msgs)
      /\ \A k \in 1 .. n_msgs : records[k].off = EndOf(k - 1) + RecordSize
      /\ \A j, k \in 0 .. n_msgs : j <= k => EndOf(j) <= EndOf(k)
      /\ len >= HeaderSize + n_msgs
      /\ first = IF n_msgs = 0 THEN 0 ELSE 1
  BY DEF WireInv, Laid
<1>3. len \in Nat /\ n_msgs \in Nat /\ l \in Nat /\ len <= Cap
  BY <1>2, WireConstants DEF WireInv, WireTypeOK
<1>4. rec \in Frames
  <2>1. len + RecordSize \in 0 .. Cap /\ n_msgs + 1 \in Nat BY <1>3, WireConstants
  <2> QED BY <2>1 DEF Frames
<1>5. /\ records' \in Seq(Frames) /\ Len(records') = n_msgs' /\ records'[n_msgs + 1] = rec
      /\ \A k \in 1 .. n_msgs : records'[k] = records[k]
  BY <1>1, <1>2, <1>4
<1>6. \A k \in 0 .. n_msgs : EndOf(k)' = EndOf(k)
  <2>1. \A k \in 0 .. n_msgs : k # 0 => k \in 1 .. n_msgs BY <1>3
  <2> QED BY <1>5, <2>1 DEF EndOf
<1>7. rec.off = len + RecordSize /\ rec.len = l OBVIOUS
<1> HIDE DEF rec
<1>8. \A k : k = n_msgs + 1 => EndOf(k)' = len'
  <2>1. n_msgs + 1 # 0 BY <1>3
  <2> QED BY <1>1, <1>5, <1>7, <2>1 DEF EndOf
<1>9. \A k \in 1 .. n_msgs + 1 : records'[k].off = EndOf(k - 1)' + RecordSize
  <2> SUFFICES ASSUME NEW k \in 1 .. n_msgs + 1
               PROVE  records'[k].off = EndOf(k - 1)' + RecordSize
    OBVIOUS
  <2>1. k - 1 \in 0 .. n_msgs /\ (k = n_msgs + 1 \/ k \in 1 .. n_msgs) BY <1>3
  <2>2. EndOf(k - 1)' = EndOf(k - 1) BY <1>6, <2>1
  <2>3. CASE k \in 1 .. n_msgs BY <1>2, <1>5, <2>2, <2>3
  <2>4. CASE k = n_msgs + 1
    <3>1. k - 1 = n_msgs BY <1>3, <2>4
    <3> QED BY <1>2, <1>5, <1>7, <2>2, <2>4, <3>1
  <2> QED BY <2>1, <2>3, <2>4
<1>10. \A j, k \in 0 .. n_msgs + 1 : j <= k => EndOf(j)' <= EndOf(k)'
  <2> SUFFICES ASSUME NEW j \in 0 .. n_msgs + 1, NEW k \in 0 .. n_msgs + 1, j <= k
               PROVE  EndOf(j)' <= EndOf(k)'
    OBVIOUS
  <2>1. CASE k \in 0 .. n_msgs
    <3>1. j \in 0 .. n_msgs BY <1>3, <2>1
    <3> QED BY <1>2, <1>6, <2>1, <3>1
  <2>2. CASE k = n_msgs + 1 /\ j \in 0 .. n_msgs
    <3>1. EndOf(j) <= EndOf(n_msgs) /\ EndOf(j)' = EndOf(j) BY <1>2, <1>3, <1>6, <2>2
    <3>2. EndOf(j) \in Nat BY <2>2, EndsAreNat DEF WireInv
    <3> QED BY <1>1, <1>2, <1>3, <1>8, <2>2, <3>1, <3>2, WireConstants
  <2>3. CASE k = n_msgs + 1 /\ j = n_msgs + 1
    <3>1. len' \in Nat BY <1>1, <1>3, WireConstants
    <3> QED BY <1>8, <2>3, <3>1
  <2> QED BY <1>3, <2>1, <2>2, <2>3
<1>11. len' >= HeaderSize + n_msgs' BY <1>1, <1>2, <1>3, WireConstants
<1>12. first' = 1 BY <1>1, <1>2, <1>3
<1>13. Laid'
  <2>1. n_msgs' # 0 BY <1>1, <1>3
  <2>2. len' = EndOf(n_msgs)' BY <1>1, <1>8
  <2>3. /\ \A k \in 1 .. n_msgs' : records'[k].off = EndOf(k - 1)' + RecordSize
        /\ \A j, k \in 0 .. n_msgs' : j <= k => EndOf(j)' <= EndOf(k)'
    BY <1>1, <1>9, <1>10
  <2> QED BY <1>1, <1>5, <1>11, <1>12, <2>1, <2>2, <2>3 DEF Laid
<1>14. WireTypeOK'
  <2>1. len' \in HeaderSize .. Cap BY <1>1, <1>3, <1>2, WireConstants
  <2>2. n_msgs' \in 0 .. Cap /\ first' \in 0 .. Cap BY <1>1, <1>3, <1>11, <1>12, <2>1, WireConstants
  <2>3. \A k \in 1 .. Len(records') : records'[k] \in Frames BY <1>5
  <2> QED BY <1>1, <2>1, <2>2, <2>3 DEF WireInv, WireTypeOK
<1>15. Walked'
  <2>1. /\ n_seen = 0 /\ off = 0 /\ outcome = "none" /\ yielded \in Seq(Frames) /\ n_seen = Len(yielded)
    BY DEF WireInv, Walked
  <2>2. Building' BY <1>1 DEF Building
  <2>3. n_seen' \in 0 .. n_msgs' /\ \A k \in 1 .. 0 : FALSE BY <1>1, <1>3, <2>1
  <2> QED BY <1>1, <2>1, <2>2, <2>3 DEF Walked
<1>16. Ended'
  <2>1. outcome = "none" BY DEF WireInv, Walked
  <2> QED BY <1>1, <2>1 DEF Ended
<1> QED BY <1>13, <1>14, <1>15, <1>16 DEF WireInv

\* A place offered or given back.
LEMMA StageStep ==
    ASSUME WireInv, Stage \/ Abandon PROVE WireInv'
<1>1. /\ UNCHANGED <<len, n_msgs, first, records, arrived, off, n_seen, yielded, outcome>>
      /\ staged' \in FrameLens \cup {NoFrame}
      /\ Building /\ staged' # NoFrame => len + RecordSize + FrameCap <= Cap
  BY DEF Stage, Abandon, readVars
<1>2. \A k \in 0 .. n_msgs : EndOf(k)' = EndOf(k) BY <1>1 DEF EndOf
<1>3. WireTypeOK' BY <1>1 DEF WireInv, WireTypeOK
<1>4. Laid'
  <2>1. Building BY DEF Stage, Abandon
  <2> QED BY <1>1, <2>1 DEF WireInv, Laid, EndOf
<1>5. Walked'
  <2>1. Building /\ Building' BY <1>1 DEF Stage, Abandon, Building
  <2> QED BY <1>1, <2>1 DEF WireInv, Walked
<1>6. Ended'
  <2>1. outcome = "none"
    <3>1. Building BY DEF Stage, Abandon
    <3> QED BY <3>1 DEF WireInv, Walked
  <2> QED BY <1>1, <2>1 DEF Ended
<1> QED BY <1>3, <1>4, <1>5, <1>6 DEF WireInv

\* The reader touches nothing of the datagram.
LEMMA DatagramKept ==
    ASSUME UNCHANGED buildVars, Laid PROVE Laid' /\ \A k : EndOf(k)' = EndOf(k)
BY DEF buildVars, Laid, EndOf

LEMMA ResetStep == ASSUME WireInv, ReaderReset PROVE WireInv'
<1>1. /\ Building /\ staged = NoFrame /\ arrived' \in 0 .. len /\ off' = HeaderSize
      /\ outcome' = IF arrived' < HeaderSize THEN "refused" ELSE "none"
      /\ UNCHANGED <<n_seen, yielded>> /\ UNCHANGED buildVars
  BY DEF ReaderReset
<1>2. Laid' /\ \A k : EndOf(k)' = EndOf(k) BY <1>1, DatagramKept DEF WireInv
<1>3. /\ len \in HeaderSize .. Cap /\ n_seen = 0 /\ yielded \in Seq(Frames)
      /\ n_seen = Len(yielded) /\ n_msgs \in Nat
  BY <1>1 DEF WireInv, Walked, Laid, WireTypeOK
<1>4. WireTypeOK'
  <2>1. arrived' \in -1 .. Cap /\ off' \in 0 .. Cap BY <1>1, <1>3, WireConstants
  <2>2. outcome' \in {"none", "refused", "complete", "incomplete"} BY <1>1
  <2> QED BY <1>1, <2>1, <2>2 DEF WireInv, WireTypeOK, buildVars
<1>5. Walked'
  <2>1. ~Building' /\ arrived' \in 0 .. len'
    <3>1. arrived' # -1 BY <1>1, <1>3, WireConstants
    <3> QED BY <1>1, <3>1 DEF Building, buildVars
  <2>2. off' = EndOf(n_seen)' BY <1>1, <1>2, <1>3 DEF EndOf
  <2>3. outcome' # "refused" => off' <= arrived' BY <1>1, <1>3, WireConstants
  <2>4. n_seen' \in 0 .. n_msgs' BY <1>1, <1>3 DEF buildVars
  <2>5. \A k \in 1 .. n_seen' : FALSE BY <1>1, <1>3
  <2> QED BY <1>1, <1>3, <2>1, <2>2, <2>3, <2>4, <2>5 DEF Walked, buildVars
<1>6. Ended' BY <1>1 DEF Ended
<1> QED BY <1>2, <1>4, <1>5, <1>6 DEF WireInv

LEMMA NextRawStep == ASSUME WireInv, NextRaw PROVE WireInv'
<1> DEFINE rec == records[n_seen + 1]
<1>1. /\ ~Building /\ outcome = "none" /\ n_seen < n_msgs
      /\ off + RecordSize + rec.len <= arrived
      /\ yielded' = Append(yielded, [rec EXCEPT !.off = off + RecordSize])
      /\ off' = off + RecordSize + rec.len /\ n_seen' = n_seen + 1
      /\ UNCHANGED <<arrived, outcome>> /\ UNCHANGED buildVars
  BY DEF NextRaw, Walking, HasNext
<1>2. Laid' /\ \A k : EndOf(k)' = EndOf(k) BY <1>1, DatagramKept DEF WireInv
<1>3. /\ yielded \in Seq(Frames) /\ n_seen = Len(yielded) /\ n_seen \in 0 .. n_msgs
      /\ \A k \in 1 .. n_seen : yielded[k] = records[k]
      /\ staged = NoFrame /\ arrived \in 0 .. len /\ off = EndOf(n_seen)
      /\ n_msgs = Len(records) /\ records \in Seq(Frames) /\ n_msgs \in Nat
      /\ len \in HeaderSize .. Cap
  BY <1>1 DEF WireInv, Walked, Laid, WireTypeOK
<1>4. n_seen + 1 \in 1 .. n_msgs /\ n_seen + 1 \in 0 .. n_msgs /\ (n_seen + 1) - 1 = n_seen BY <1>1, <1>3
<1>5. rec \in Frames /\ rec.off = off + RecordSize
  <2>1. rec \in Frames BY <1>3, <1>4
  <2>2. rec.off = EndOf((n_seen + 1) - 1) + RecordSize BY <1>4 DEF WireInv, Laid
  <2> QED BY <1>3, <1>4, <2>1, <2>2
<1>6. [rec EXCEPT !.off = off + RecordSize] = rec BY <1>5 DEF Frames
<1>7. rec.len \in Nat /\ off \in Nat
  <2>1. off \in 0 .. Cap BY DEF WireInv, WireTypeOK
  <2>2. rec.len \in FrameLens BY <1>5 DEF Frames
  <2> QED BY <2>1, <2>2, WireConstants
<1>8. EndOf(n_seen + 1) = off'
  <2>1. n_seen + 1 # 0 BY <1>3
  <2> QED BY <1>1, <1>5, <2>1 DEF EndOf
<1> HIDE DEF rec
<1>9. /\ yielded' \in Seq(Frames) /\ Len(yielded') = n_seen + 1 /\ yielded'[n_seen + 1] = rec
      /\ \A k \in 1 .. n_seen : yielded'[k] = yielded[k]
  BY <1>1, <1>3, <1>5, <1>6
<1>10. off' <= arrived /\ off' \in 0 .. Cap BY <1>1, <1>3, <1>7, WireConstants, SMTT(30)
<1>11. WireTypeOK'
  <2>1. n_seen' \in 0 .. Cap
    <3>1. n_msgs \in 0 .. Cap BY DEF WireInv, WireTypeOK
    <3> QED BY <1>1, <1>4, <3>1, WireConstants
  <2>2. \A k \in 1 .. Len(yielded') : yielded'[k] \in Frames BY <1>9
  <2> QED BY <1>1, <1>10, <2>1, <2>2 DEF WireInv, WireTypeOK, buildVars
<1>12. Walked'
  <2>1. \A k \in 1 .. n_seen + 1 : yielded'[k] = records[k]
    <3>1. \A k \in 1 .. n_seen + 1 : k = n_seen + 1 \/ k \in 1 .. n_seen BY <1>3
    <3> QED BY <1>3, <1>9, <3>1 DEF rec
  <2>2. off' = EndOf(n_seen)'
    <3>1. \A k : k = n_seen + 1 => EndOf(k)' = off' BY <1>2, <1>8
    <3> QED BY <1>1, <3>1
  <2>3. Building' = Building /\ n_msgs' = n_msgs /\ records' = records /\ len' = len /\ staged' = staged
    BY <1>1 DEF Building, buildVars
  <2> QED BY <1>1, <1>3, <1>4, <1>9, <1>10, <2>1, <2>2, <2>3 DEF Walked
<1>13. Ended' BY <1>1 DEF Ended
<1> QED BY <1>2, <1>11, <1>12, <1>13 DEF WireInv

LEMMA WalkEndsStep == ASSUME WireInv, WalkEnds PROVE WireInv'
<1>1. /\ ~Building /\ outcome = "none" /\ ~HasNext
      /\ outcome' = IF n_seen = n_msgs /\ off = arrived THEN "complete" ELSE "incomplete"
      /\ UNCHANGED <<arrived, off, n_seen, yielded>> /\ UNCHANGED buildVars
  BY DEF WalkEnds, Walking, Complete
<1>2. Laid' /\ \A k : EndOf(k)' = EndOf(k) BY <1>1, DatagramKept DEF WireInv
<1>3. WireTypeOK' BY <1>1 DEF WireInv, WireTypeOK, buildVars
<1>4. Building' = Building BY <1>1 DEF Building
<1>5. Walked'
  <2>1. off <= arrived BY <1>1 DEF WireInv, Walked
  <2> QED BY <1>1, <1>2, <1>4, <2>1 DEF WireInv, Walked, buildVars
<1>6. ASSUME n_seen < n_msgs PROVE EndOf(n_seen + 1) > arrived
  <2>1. /\ n_seen \in Nat /\ n_msgs \in Nat /\ n_msgs = Len(records) /\ records \in Seq(Frames)
        /\ off = EndOf(n_seen) /\ arrived \in Nat /\ off \in Nat
    BY <1>1, WireConstants DEF WireInv, Walked, Laid, WireTypeOK
  <2>2. n_seen + 1 \in 1 .. n_msgs /\ (n_seen + 1) - 1 = n_seen /\ n_seen + 1 # 0 BY <1>6, <2>1
  <2>3. records[n_seen + 1].off = off + RecordSize
    <3>1. records[n_seen + 1].off = EndOf((n_seen + 1) - 1) + RecordSize BY <2>2 DEF WireInv, Laid
    <3> QED BY <2>1, <2>2, <3>1
  <2>4. EndOf(n_seen + 1) = off + RecordSize + records[n_seen + 1].len BY <2>2, <2>3 DEF EndOf
  <2>5. records[n_seen + 1].len \in Nat
    <3>1. records[n_seen + 1] \in Frames BY <2>1, <2>2
    <3>2. records[n_seen + 1].len \in FrameLens BY <3>1 DEF Frames
    <3> QED BY <3>2, WireConstants
  <2>6. ~(off + RecordSize + records[n_seen + 1].len <= arrived)
    <3>1. ~(off + RecordSize <= arrived /\ off + RecordSize + records[n_seen + 1].len <= arrived)
      BY <1>1, <1>6 DEF HasNext
    <3> QED BY <2>1, <2>5, <3>1, WireConstants
  <2> QED BY <2>1, <2>4, <2>5, <2>6, WireConstants
<1>7. Ended'
  <2>1. n_msgs' = n_msgs BY <1>1 DEF buildVars
  <2> QED BY <1>1, <1>2, <1>4, <1>6, <2>1 DEF Ended
<1> QED BY <1>2, <1>3, <1>5, <1>7 DEF WireInv

LEMMA WireStep == WireInv /\ [WireNext]_wireVars => WireInv'
<1> SUFFICES ASSUME WireInv, [WireNext]_wireVars PROVE WireInv'
  OBVIOUS
<1>1. CASE AppendCommit
  <2>1. Building /\ staged # NoFrame /\ Commit(staged) /\ staged' = NoFrame /\ UNCHANGED readVars
    BY <1>1 DEF AppendCommit
  <2>2. staged \in FrameLens BY <2>1 DEF WireInv, WireTypeOK
  <2>3. len + RecordSize + staged <= Cap
    <3>1. len + RecordSize + FrameCap <= Cap BY <2>1 DEF WireInv, Laid
    <3>2. len \in Nat BY WireConstants DEF WireInv, WireTypeOK
    <3> QED BY <2>2, <3>1, <3>2, WireConstants
  <2> QED BY <2>1, <2>2, <2>3, CommitStep
<1>2. CASE AppendRaw
  <2>1. PICK l \in FrameLens : len + RecordSize + l <= Cap /\ Commit(l) BY <1>2 DEF AppendRaw
  <2>2. Building /\ staged' = NoFrame /\ UNCHANGED readVars BY <1>2 DEF AppendRaw
  <2> QED BY <2>1, <2>2, CommitStep
<1>3. CASE UNCHANGED wireVars
  <2>1. UNCHANGED buildVars /\ UNCHANGED readVars BY <1>3 DEF wireVars
  <2>2. Laid' /\ \A k : EndOf(k)' = EndOf(k) BY <2>1, DatagramKept DEF WireInv
  <2>3. WireTypeOK' BY <2>1 DEF buildVars, readVars, WireInv, WireTypeOK
  <2>4. Walked' BY <2>1, <2>2 DEF buildVars, readVars, WireInv, Walked, Building
  <2>5. Ended' BY <2>1, <2>2 DEF buildVars, readVars, WireInv, Ended, Building
  <2> QED BY <2>2, <2>3, <2>4, <2>5 DEF WireInv
<1> QED BY <1>1, <1>2, <1>3, StageStep, ResetStep, NextRawStep, WalkEndsStep DEF WireNext

\* Reader gives back what Builder was given, as much of it as arrived whole, and
\* knows whether that is all, wherever the datagram was cut.
THEOREM ReaderFollowsBuilder == WireSpec => []YieldsWhatArrived
<1>1. WireInv => YieldsWhatArrived
  <2> SUFFICES ASSUME WireInv PROVE YieldsWhatArrived
    OBVIOUS
  <2>1. /\ yielded \in Seq(Frames) /\ records \in Seq(Frames)
        /\ n_seen = Len(yielded) /\ n_msgs = Len(records) /\ n_seen \in 0 .. n_msgs
        /\ n_seen \in Nat /\ n_msgs \in Nat
        /\ \A k \in 1 .. n_seen : yielded[k] = records[k]
        /\ \A j, k \in 0 .. n_msgs : j <= k => EndOf(j) <= EndOf(k)
        /\ \A k \in 0 .. n_msgs : EndOf(k) \in Nat
        /\ len = EndOf(n_msgs)
    BY EndsAreNat DEF WireInv, Walked, Laid
  <2>2. IsPrefix(yielded, records)
    <3>1. /\ SubSeq(yielded, 1, n_seen) \in Seq(Frames)
          /\ SubSeq(records, 1, n_seen) \in Seq(Frames)
          /\ Len(SubSeq(yielded, 1, n_seen)) = n_seen /\ Len(SubSeq(records, 1, n_seen)) = n_seen
          /\ \A k \in 1 .. n_seen : SubSeq(yielded, 1, n_seen)[k] = yielded[k]
          /\ \A k \in 1 .. n_seen : SubSeq(records, 1, n_seen)[k] = records[k]
      BY <2>1
    <3>2. SubSeq(yielded, 1, n_seen) = SubSeq(records, 1, n_seen) BY <2>1, <3>1
    <3> QED BY <2>1, <3>2 DEF IsPrefix
  <2>3. \A k \in 1 .. n_msgs : k \in 0 .. n_msgs /\ EndOf(k) = records[k].off + records[k].len
    BY <2>1 DEF EndOf
  <2>4. ASSUME NEW k \in 1 .. n_seen PROVE yielded[k].off + yielded[k].len <= arrived
    <3>1. /\ ~Building /\ outcome # "refused" /\ off = EndOf(n_seen) /\ off <= arrived
          /\ arrived \in 0 .. len
      BY <2>1, <2>4 DEF WireInv, Walked
    <3>2. k \in 1 .. n_msgs /\ k <= n_seen /\ n_seen \in 0 .. n_msgs /\ k \in 0 .. n_msgs BY <2>1, <2>4
    <3>3. EndOf(k) <= EndOf(n_seen) /\ EndOf(k) \in Nat /\ EndOf(n_seen) \in Nat BY <2>1, <3>2
    <3>4. len \in Nat BY <2>1
    <3>5. EndOf(k) <= arrived BY <3>1, <3>3, <3>4
    <3> QED BY <2>1, <2>3, <2>4, <3>2, <3>5
  <2>5. ASSUME outcome \in {"complete", "incomplete"}
        PROVE  /\ \A k \in 1 .. n_msgs :
                      records[k].off + records[k].len <= arrived => k <= n_seen
               /\ outcome = "complete" <=> arrived = len
    <3>1. /\ ~Building /\ (n_seen < n_msgs => EndOf(n_seen + 1) > arrived)
          /\ outcome = "complete" <=> (n_seen = n_msgs /\ off = arrived)
          /\ off = EndOf(n_seen) /\ arrived \in Nat /\ arrived <= len
      BY <2>1, <2>5 DEF WireInv, Ended, Walked
    <3>2. ASSUME NEW k \in 1 .. n_msgs, k > n_seen PROVE EndOf(k) > arrived
      <4>1. n_seen < n_msgs /\ n_seen + 1 \in 0 .. n_msgs /\ k \in 0 .. n_msgs /\ n_seen + 1 <= k
        BY <2>1, <3>2
      <4>2. EndOf(n_seen + 1) <= EndOf(k) /\ EndOf(n_seen + 1) \in Nat /\ EndOf(k) \in Nat
        BY <2>1, <4>1
      <4> QED BY <3>1, <4>1, <4>2
    <3>3. \A k \in 1 .. n_msgs : records[k].off + records[k].len <= arrived => k <= n_seen
      <4> SUFFICES ASSUME NEW k \in 1 .. n_msgs, k > n_seen
                   PROVE  ~(records[k].off + records[k].len <= arrived)
        BY <2>1
      <4>1. EndOf(k) > arrived /\ EndOf(k) \in Nat BY <2>1, <2>3, <3>2
      <4> QED BY <2>3, <3>1, <4>1
    <3>4. n_seen < n_msgs => arrived # len
      <4> SUFFICES ASSUME n_seen < n_msgs PROVE arrived # len
        OBVIOUS
      <4>1. n_msgs \in 1 .. n_msgs /\ n_msgs > n_seen BY <2>1
      <4>2. EndOf(n_msgs) > arrived BY <3>2, <4>1
      <4> QED BY <2>1, <3>1, <4>2
    <3>5. n_seen = n_msgs => off = len BY <2>1, <3>1
    <3>6. n_seen = n_msgs \/ n_seen < n_msgs BY <2>1
    <3> QED BY <3>1, <3>3, <3>4, <3>5, <3>6
  <2> QED BY <2>1, <2>2, <2>4, <2>5 DEF YieldsWhatArrived
<1> QED BY <1>1, WireStart, WireStep, PTL DEF WireSpec

-----------------------------------------------------------------------------
(* Natural numbers: induction over a set, and powers of two.               *)

\* A nonempty set of naturals has a least element.
LEMMA LeastOf ==
    ASSUME NEW S \in SUBSET Nat, S # {}
    PROVE  \E x \in S : \A y \in S : x <= y
<1>1. PICK x \in S : \A y \in S : ~(<<y, x>> \in OpToRel(<, Nat))
  <2> HIDE DEF OpToRel, IsWellFoundedOn
  <2> QED BY NatLessThanWellFounded, WFMin
<1>2. \A y \in S : x <= y
  <2> TAKE y \in S
  <2>1. x \in Nat /\ y \in Nat OBVIOUS
  <2>2. ~(y < x) BY <1>1, <2>1 DEF OpToRel
  <2> QED BY <2>1, <2>2
<1> QED BY <1>2

\* Induction, for a set instead of a predicate.
LEMMA InductionOn ==
    ASSUME NEW S, 0 \in S, \A n \in Nat : n \in S => n + 1 \in S
    PROVE  \A n \in Nat : n \in S
<1> SUFFICES ASSUME NEW m \in Nat, m \notin S PROVE FALSE
  OBVIOUS
<1> DEFINE T == {n \in Nat : n \notin S}
<1>1. PICK x \in T : \A y \in T : x <= y BY LeastOf
<1>2. x # 0 BY <1>1
<1>3. x - 1 \in Nat /\ x - 1 + 1 = x BY <1>1, <1>2
<1>4. x - 1 \in S BY <1>1, <1>3
<1> QED BY <1>1, <1>3, <1>4

\* The subsets of 1 .. n + 1 are those of 1 .. n, each without and with n + 1.
LEMMA PowerSucc ==
    ASSUME NEW n \in Nat
    PROVE  2 ^ n \in Nat /\ 2 ^ (n + 1) = 2 * 2 ^ n
<1> DEFINE A == SUBSET (1 .. n)
           B == {s \cup {n + 1} : s \in A}
<1>1. IsFiniteSet(1 .. n) /\ Cardinality(1 .. n) = n BY FS_Interval
<1>2. IsFiniteSet(1 .. n + 1) /\ Cardinality(1 .. n + 1) = n + 1 BY FS_Interval
<1>3. IsFiniteSet(A) /\ Cardinality(A) = 2 ^ n BY <1>1, FS_SUBSET
<1>4. Cardinality(SUBSET (1 .. n + 1)) = 2 ^ (n + 1) BY <1>2, FS_SUBSET
<1>5. IsFiniteSet(B) /\ Cardinality(B) = Cardinality(A)
  <2> DEFINE f == [s \in A |-> s \cup {n + 1}]
  <2>1. f \in [A -> B] OBVIOUS
  <2>2. ASSUME NEW s \in A, NEW t \in A, f[s] = f[t] PROVE s = t
    <3>1. n + 1 \notin s /\ n + 1 \notin t OBVIOUS
    <3>2. s \cup {n + 1} = t \cup {n + 1} BY <2>2
    <3> QED BY <3>1, <3>2
  <2>3. \A t \in B : \E s \in A : f[s] = t OBVIOUS
  <2> HIDE DEF A, B, f
  <2>4. f \in Bijection(A, B)
    BY <2>1, <2>2, <2>3 DEF Bijection, Injection, Surjection, IsInjective
  <2>5. ExistsBijection(A, B) BY <2>4 DEF ExistsBijection
  <2> QED BY <2>5, <1>3, FS_Bijection
<1>6. A \cap B = {} OBVIOUS
<1>7. SUBSET (1 .. n + 1) = A \cup B
  <2>1. 1 .. n + 1 = (1 .. n) \cup {n + 1} OBVIOUS
  <2>2. ASSUME NEW s \in SUBSET (1 .. n + 1) PROVE s \in A \cup B
    <3>1. CASE n + 1 \in s
      <4>1. s \ {n + 1} \in A BY <2>1
      <4>2. s = (s \ {n + 1}) \cup {n + 1} BY <3>1
      <4> QED BY <4>1, <4>2
    <3>2. CASE n + 1 \notin s BY <3>2, <2>1
    <3> QED BY <3>1, <3>2
  <2>3. A \cup B \subseteq SUBSET (1 .. n + 1) BY <2>1
  <2> QED BY <2>2, <2>3
<1> HIDE DEF A, B
<1>8. 2 ^ n \in Nat /\ Cardinality(B) = 2 ^ n BY <1>3, <1>5, FS_CardinalityType
<1>9. Cardinality(A \cup B) = Cardinality(A) + Cardinality(B) - Cardinality(A \cap B)
  BY <1>3, <1>5, FS_Union
<1>10. Cardinality(A \cap B) = 0 BY <1>6, FS_EmptySet
<1>11. 2 ^ (n + 1) = Cardinality(A) + Cardinality(B) - 0 BY <1>4, <1>7, <1>9, <1>10
<1>12. 2 ^ (n + 1) = 2 ^ n + 2 ^ n BY <1>3, <1>8, <1>11
<1> QED BY <1>8, <1>12

LEMMA PowerZero == 2 ^ 0 = 1
<1>1. Cardinality(SUBSET {}) = 2 ^ Cardinality({}) BY FS_SUBSET, FS_EmptySet
<1>2. SUBSET {} = {{}} OBVIOUS
<1>3. Cardinality({{}}) = 1 BY FS_Singleton
<1> QED BY <1>1, <1>2, <1>3, FS_EmptySet

LEMMA PowerExceeds == \A n \in Nat : 2 ^ n \in Nat /\ 2 ^ n > n
<1> DEFINE S == {n \in Nat : 2 ^ n \in Nat /\ 2 ^ n > n}
<1>1. 0 \in S BY PowerZero
<1>2. \A n \in Nat : n \in S => n + 1 \in S BY PowerSucc
<1> HIDE DEF S
<1>3. \A n \in Nat : n \in S BY <1>1, <1>2, InductionOn
<1> QED BY <1>3 DEF S

LEMMA PowerSum ==
    ASSUME NEW m \in Nat
    PROVE  \A n \in Nat : 2 ^ (m + n) = 2 ^ m * 2 ^ n
<1> DEFINE S == {n \in Nat : 2 ^ (m + n) = 2 ^ m * 2 ^ n}
<1>1. 0 \in S
  <2>1. 2 ^ m \in Nat BY PowerExceeds
  <2>2. 2 ^ (m + 0) = 2 ^ m OBVIOUS
  <2>3. 2 ^ m * 2 ^ 0 = 2 ^ m BY <2>1, PowerZero
  <2> QED BY <2>2, <2>3
<1>2. ASSUME NEW n \in Nat, n \in S PROVE n + 1 \in S
  <2> DEFINE a == 2 ^ m  b == 2 ^ n  c == 2 ^ (m + n)
  <2>1. a \in Nat /\ b \in Nat /\ c \in Nat BY PowerExceeds
  <2>2. 2 ^ ((m + n) + 1) = 2 * c /\ 2 ^ (n + 1) = 2 * b BY PowerSucc
  <2>3. m + (n + 1) = (m + n) + 1 OBVIOUS
  <2>4. c = a * b BY <1>2
  <2>5. 2 ^ (m + (n + 1)) = 2 * c BY <2>2, <2>3
  <2> HIDE DEF a, b, c
  <2>6. 2 * c = a * (2 * b) BY <2>1, <2>4
  <2> QED BY <2>2, <2>5, <2>6 DEF a
<1> HIDE DEF S
<1>3. \A n \in Nat : n \in S BY <1>1, <1>2, InductionOn
<1> QED BY <1>3 DEF S

LEMMA PowerMonotone ==
    ASSUME NEW m \in Nat, NEW n \in Nat, m <= n
    PROVE  2 ^ m <= 2 ^ n
<1> DEFINE d == n - m  a == 2 ^ m  b == 2 ^ d
<1>1. d \in Nat /\ n = m + d OBVIOUS
<1>2. a \in Nat /\ b \in Nat /\ b > 0 BY <1>1, PowerExceeds
<1>3. 2 ^ n = a * b BY <1>1, PowerSum
<1> HIDE DEF a, b
<1>4. a * b >= a BY <1>2
<1> QED BY <1>3, <1>4 DEF a

-----------------------------------------------------------------------------
(* The buckets of the histogram.                                           *)

\* Every positive number has a leading one, and Log2 is its position.
LEMMA LeadingOne ==
    ASSUME NEW v \in Nat, v > 0
    PROVE  /\ Log2(v) \in 0 .. v
           /\ 2 ^ Log2(v) <= v /\ v < 2 ^ (Log2(v) + 1)
<1> DEFINE S == {n \in Nat : v < 2 ^ n}
<1>1. v \in S BY PowerExceeds
<1>2. PICK n \in S : \A y \in S : n <= y BY <1>1, LeastOf
<1>3. n # 0
  <2>1. n \in Nat /\ v < 2 ^ n BY <1>2
  <2>2. n = 0 => 2 ^ n = 1 BY PowerZero
  <2> QED BY <2>1, <2>2
<1>4. n - 1 \in Nat /\ (n - 1) + 1 = n /\ n <= v BY <1>1, <1>2, <1>3
<1>5. n - 1 \notin S BY <1>2, <1>4
<1>6. 2 ^ (n - 1) \in Nat BY <1>4, PowerExceeds
<1>7. 2 ^ (n - 1) <= v /\ v < 2 ^ ((n - 1) + 1) BY <1>2, <1>4, <1>5, <1>6
<1>8. \E k \in 0 .. v : 2 ^ k <= v /\ v < 2 ^ (k + 1) BY <1>4, <1>7
<1> QED BY <1>8 DEF Log2

LEMMA HistogramConstants ==
    /\ SubBits \in Nat /\ MaxPow2 \in Nat /\ MaxPow2 > SubBits
    /\ kSub \in Nat /\ kSub > 1
    /\ kMaxOctave \in Nat /\ kMaxOctave > 1
    /\ kBuckets \in Nat /\ kBuckets = (kMaxOctave + 1) * kSub /\ kBuckets > kSub
<1>1. SubBits \in Nat /\ SubBits >= 1 /\ MaxPow2 \in Nat /\ MaxPow2 > SubBits
  BY HistogramAssumption
<1>2. kSub \in Nat /\ kSub > 1 BY <1>1, PowerExceeds DEF kSub
<1>3. kMaxOctave \in Nat /\ kMaxOctave > 1 BY <1>1 DEF kMaxOctave
<1>4. (kMaxOctave + 1) * kSub \in Nat /\ (kMaxOctave + 1) * kSub > kSub BY <1>2, <1>3
<1> QED BY <1>1, <1>2, <1>3, <1>4 DEF kBuckets

LEMMA DivUnique ==
    ASSUME NEW b \in Nat \ {0}, NEW q \in Nat, NEW r \in 0 .. b - 1
    PROVE  (q * b + r) \div b = q /\ (q * b + r) % b = r
OBVIOUS

LEMMA DivFacts ==
    ASSUME NEW a \in Nat, NEW b \in Nat \ {0}
    PROVE  /\ a \div b \in Nat /\ a % b \in 0 .. b - 1
           /\ a = (a \div b) * b + (a % b)
OBVIOUS

\* Where bucket m of octave e lies.
LEMMA BucketAt ==
    ASSUME NEW e \in 1 .. kMaxOctave, NEW m \in 0 .. kSub - 1
    PROVE  /\ e * kSub + m \in Buckets /\ e * kSub + m >= kSub
           /\ 2 ^ (e - 1) \in Nat /\ 2 ^ (e - 1) > 0
           /\ BucketLower(e * kSub + m) = (kSub + m) * 2 ^ (e - 1)
           /\ BucketUpper(e * kSub + m) = (kSub + m + 1) * 2 ^ (e - 1) - 1
<1> DEFINE i == e * kSub + m  d == 2 ^ (e - 1)
<1>1. e \in Nat /\ e >= 1 /\ e <= kMaxOctave /\ m \in Nat /\ m < kSub /\ kSub \in Nat \ {0}
  BY HistogramConstants
<1>2. i \in Nat /\ i >= kSub BY <1>1
<1>3. i < kBuckets
  <2>1. e * kSub <= kMaxOctave * kSub BY <1>1, HistogramConstants
  <2>2. kBuckets = kMaxOctave * kSub + kSub BY HistogramConstants
  <2> QED BY <1>1, <2>1, <2>2, HistogramConstants
<1>4. i \div kSub = e /\ i % kSub = m BY <1>1, DivUnique
<1>5. d \in Nat /\ d > 0 BY <1>1, PowerExceeds
<1> HIDE DEF i, d
<1>6. BucketLower(i) = (kSub + m) * d BY <1>1, <1>2, <1>4 DEF BucketLower, d
<1>7. BucketUpper(i) = (kSub + m) * d + d - 1 BY <1>1, <1>2, <1>4, <1>6 DEF BucketUpper, d
<1>8. (kSub + m) * d + d - 1 = (kSub + m + 1) * d - 1 BY <1>1, <1>5
<1>9. i \in Buckets BY <1>2, <1>3, HistogramConstants DEF Buckets
<1> QED BY <1>2, <1>5, <1>6, <1>7, <1>8, <1>9 DEF i, d

\* A bucket past the exact ones is one of some octave.
LEMMA BucketSplit ==
    ASSUME NEW i \in Buckets, i >= kSub
    PROVE  \E e \in 1 .. kMaxOctave, m \in 0 .. kSub - 1 : i = e * kSub + m
<1> DEFINE e == i \div kSub  m == i % kSub
<1>1. i \in Nat /\ i < kBuckets /\ kSub \in Nat \ {0} BY HistogramConstants DEF Buckets
<1>2. e \in Nat /\ m \in 0 .. kSub - 1 /\ i = e * kSub + m BY <1>1, DivFacts
<1> HIDE DEF e, m
<1>3. e # 0 BY <1>1, <1>2
<1>4. e <= kMaxOctave
  <2> SUFFICES ASSUME e >= kMaxOctave + 1 PROVE FALSE BY <1>2, HistogramConstants
  <2>1. e * kSub >= (kMaxOctave + 1) * kSub BY <1>1, <1>2, HistogramConstants
  <2> QED BY <1>1, <1>2, <2>1, HistogramConstants
<1> QED BY <1>2, <1>3, <1>4

LEMMA BucketBounds ==
    ASSUME NEW i \in Buckets
    PROVE  /\ BucketLower(i) \in Nat /\ BucketUpper(i) \in Nat
           /\ BucketLower(i) <= BucketUpper(i)
           /\ (BucketUpper(i) - BucketLower(i)) * kSub <= BucketLower(i)
<1>1. i \in Nat /\ kSub \in Nat /\ kSub > 1 BY HistogramConstants DEF Buckets
<1>2. CASE i < kSub
  <2>1. BucketLower(i) = i /\ BucketUpper(i) = i BY <1>2 DEF BucketLower, BucketUpper
  <2> QED BY <1>1, <2>1
<1>3. CASE i >= kSub
  <2>1. PICK e \in 1 .. kMaxOctave, m \in 0 .. kSub - 1 : i = e * kSub + m
    BY <1>3, BucketSplit
  <2> DEFINE d == 2 ^ (e - 1)  low == (kSub + m) * d
  <2>2. /\ d \in Nat /\ d > 0
        /\ BucketLower(i) = low /\ BucketUpper(i) = (kSub + m + 1) * d - 1
    BY <2>1, BucketAt
  <2>3. m \in Nat BY <1>1
  <2> HIDE DEF d
  <2>4. low \in Nat /\ (kSub + m + 1) * d - 1 = low + d - 1 BY <1>1, <2>2, <2>3
  <2>5. (d - 1) * kSub <= low
    <3>1. low = kSub * d + m * d /\ m * d >= 0 /\ (d - 1) * kSub = kSub * d - kSub
      BY <1>1, <2>2, <2>3
    <3>2. kSub * d \in Nat /\ m * d \in Nat BY <1>1, <2>2, <2>3
    <3> HIDE DEF low
    <3> QED BY <1>1, <3>1, <3>2
  <2> HIDE DEF low
  <2>6. BucketUpper(i) = low + d - 1 BY <2>2, <2>4
  <2>7. BucketUpper(i) - BucketLower(i) = d - 1 BY <2>2, <2>4, <2>6
  <2> QED BY <2>2, <2>4, <2>5, <2>6, <2>7
<1> QED BY <1>1, <1>2, <1>3

\* Each bucket begins where the one before it ends.
LEMMA BucketsJoin ==
    ASSUME NEW i \in Buckets, i > 0
    PROVE  i - 1 \in Buckets /\ BucketLower(i) = BucketUpper(i - 1) + 1
<1>1. i \in Nat /\ i < kBuckets /\ kSub \in Nat /\ kSub > 1 BY HistogramConstants DEF Buckets
<1>2. i - 1 \in Buckets BY <1>1, HistogramConstants DEF Buckets
<1>3. CASE i < kSub
  <2>1. i - 1 < kSub BY <1>1, <1>3
  <2>2. BucketLower(i) = i /\ BucketUpper(i - 1) = i - 1
    BY <1>3, <2>1 DEF BucketLower, BucketUpper
  <2> QED BY <1>1, <1>2, <2>2
<1>4. CASE i >= kSub
  <2>1. PICK e \in 1 .. kMaxOctave, m \in 0 .. kSub - 1 : i = e * kSub + m
    BY <1>4, BucketSplit
  <2>2. e \in Nat /\ m \in Nat /\ e >= 1 /\ e <= kMaxOctave BY <1>1, HistogramConstants
  <2>3. /\ 2 ^ (e - 1) \in Nat
        /\ BucketLower(i) = (kSub + m) * 2 ^ (e - 1)
    BY <2>1, BucketAt
  <2>4. CASE m > 0
    <3>1. m - 1 \in 0 .. kSub - 1 /\ e * kSub + (m - 1) = i - 1 BY <1>1, <2>1, <2>2, <2>4
    <3>2. BucketUpper(i - 1) = (kSub + (m - 1) + 1) * 2 ^ (e - 1) - 1 BY <3>1, BucketAt
    <3>3. kSub + (m - 1) + 1 = kSub + m BY <1>1, <2>2
    <3>4. (kSub + m) * 2 ^ (e - 1) \in Nat BY <1>1, <2>2, <2>3
    <3> QED BY <1>2, <2>3, <3>2, <3>3, <3>4
  <2>5. CASE m = 0 /\ e = 1
    <3>1. i = kSub BY <1>1, <2>1, <2>5
    <3>2. e - 1 = 0 BY <2>5
    <3>3. 2 ^ (e - 1) = 1 BY <3>2, PowerZero
    <3>4. BucketLower(i) = kSub BY <1>1, <2>3, <2>5, <3>3
    <3>5. BucketUpper(i - 1) = kSub - 1 BY <1>1, <3>1 DEF BucketUpper
    <3> QED BY <1>1, <1>2, <3>4, <3>5
  <2>6. CASE m = 0 /\ e > 1
    <3>1. e - 1 \in 1 .. kMaxOctave /\ kSub - 1 \in 0 .. kSub - 1 /\ e - 2 \in Nat
      BY <1>1, <2>2, <2>6, HistogramConstants
    <3>2. (e - 1) * kSub + (kSub - 1) = i - 1 BY <1>1, <2>1, <2>2, <2>6
    <3>3. BucketUpper(i - 1) = (kSub + (kSub - 1) + 1) * 2 ^ ((e - 1) - 1) - 1
      BY <3>1, <3>2, BucketAt
    <3>4. (e - 1) - 1 = e - 2 /\ (e - 2) + 1 = e - 1 BY <2>2
    <3>5. 2 ^ (e - 2) \in Nat /\ 2 ^ (e - 1) = 2 * 2 ^ (e - 2) BY <3>1, <3>4, PowerSucc
    <3> DEFINE d == 2 ^ (e - 2)
    <3>6. BucketLower(i) = kSub * (2 * d) BY <1>1, <2>3, <2>6, <3>5
    <3>7. BucketUpper(i - 1) = (kSub + (kSub - 1) + 1) * d - 1 BY <3>3, <3>4
    <3>8. d \in Nat BY <3>5
    <3> HIDE DEF d
    <3>9. (kSub + (kSub - 1) + 1) * d = kSub * (2 * d) /\ kSub * (2 * d) \in Nat BY <1>1, <3>8
    <3> QED BY <1>2, <3>6, <3>7, <3>9
  <2> QED BY <2>2, <2>4, <2>5, <2>6
<1> QED BY <1>1, <1>3, <1>4, <1>2

\* So the buckets ascend.
LEMMA BucketsAscend ==
    ASSUME NEW i \in Buckets, NEW j \in Buckets, i < j
    PROVE  BucketUpper(i) < BucketLower(j)
<1> DEFINE S == {n \in Nat : i + n + 1 \in Buckets => BucketUpper(i) < BucketLower(i + n + 1)}
<1>1. i \in Nat /\ j \in Nat /\ BucketUpper(i) \in Nat BY BucketBounds DEF Buckets
<1>2. 0 \in S
  <2> SUFFICES ASSUME i + 1 \in Buckets PROVE BucketUpper(i) < BucketLower(i + 1) BY <1>1
  <2>1. i + 1 > 0 /\ (i + 1) - 1 = i BY <1>1
  <2>2. BucketLower(i + 1) = BucketUpper(i) + 1 BY <2>1, BucketsJoin
  <2> QED BY <1>1, <2>2
<1>3. ASSUME NEW n \in Nat, n \in S PROVE n + 1 \in S
  <2> DEFINE k == i + n + 1
  <2>1. i + (n + 1) + 1 = k + 1 /\ k \in Nat /\ (k + 1) - 1 = k /\ k + 1 > 0 BY <1>1
  <2> SUFFICES ASSUME k + 1 \in Buckets PROVE BucketUpper(i) < BucketLower(k + 1) BY <2>1
  <2> HIDE DEF k
  <2>2. k \in Buckets /\ BucketLower(k + 1) = BucketUpper(k) + 1 BY <2>1, BucketsJoin
  <2>3. BucketUpper(i) < BucketLower(k) BY <1>3, <2>2 DEF k
  <2>4. BucketLower(k) <= BucketUpper(k) /\ BucketLower(k) \in Nat /\ BucketUpper(k) \in Nat
    BY <2>2, BucketBounds
  <2> QED BY <1>1, <2>2, <2>3, <2>4
<1> HIDE DEF S
<1>4. \A n \in Nat : n \in S BY <1>2, <1>3, InductionOn
<1>5. j - i - 1 \in Nat /\ i + (j - i - 1) + 1 = j BY <1>1
<1>6. j - i - 1 \in S BY <1>4, <1>5
<1> QED BY <1>5, <1>6 DEF S

LEMMA BucketOfBounds ==
    ASSUME NEW v \in Nat
    PROVE  /\ BucketOf(v) \in Buckets
           /\ BucketLower(BucketOf(v)) <= v
           /\ BucketOf(v) < kBuckets - 1 \/ v < 2 ^ (MaxPow2 + 1) => v <= BucketUpper(BucketOf(v))
<1>1. kSub \in Nat /\ kSub > 1 /\ kBuckets \in Nat /\ kBuckets > kSub
  BY HistogramConstants
<1>2. CASE v < kSub
  <2>1. BucketOf(v) = v /\ BucketLower(v) = v /\ BucketUpper(v) = v
    BY <1>2 DEF BucketOf, BucketLower, BucketUpper
  <2> QED BY <1>1, <1>2, <2>1 DEF Buckets
<1>3. CASE v >= kSub
  <2> DEFINE k == Log2(v)
  <2>1. k \in Nat /\ 2 ^ k \in Nat /\ 2 ^ k <= v /\ v < 2 ^ (k + 1)
    BY <1>1, <1>3, LeadingOne, PowerExceeds
  <2>2. SubBits \in Nat /\ MaxPow2 \in Nat /\ MaxPow2 > SubBits BY HistogramConstants
  <2>3. kSub = 2 ^ SubBits BY DEF kSub
  <2> HIDE DEF k
  <2>4. k >= SubBits
    <3> SUFFICES ASSUME k + 1 <= SubBits PROVE FALSE BY <2>1, <2>2
    <3>1. 2 ^ (k + 1) <= 2 ^ SubBits /\ 2 ^ (k + 1) \in Nat
      BY <2>1, <2>2, PowerMonotone, PowerExceeds
    <3> QED BY <1>1, <1>3, <2>1, <2>3, <3>1
  <2>5. CASE k <= MaxPow2
    <3> DEFINE e == k - SubBits + 1
               d == 2 ^ (k - SubBits)
               q == v \div d
    <3>1. /\ e \in 1 .. kMaxOctave /\ e - 1 = k - SubBits /\ e - 1 \in Nat
      BY <2>1, <2>2, <2>4, <2>5 DEF kMaxOctave
    <3>2. d \in Nat /\ d > 0 BY <3>1, PowerExceeds
    <3>3. 2 ^ k = kSub * d
      <4>1. k = SubBits + (k - SubBits) BY <2>1, <2>2
      <4>2. 2 ^ (SubBits + (k - SubBits)) = 2 ^ SubBits * 2 ^ (k - SubBits)
        BY <2>2, <3>1, PowerSum
      <4> QED BY <4>1, <4>2, <2>3
    <3>4. 2 ^ (k + 1) = 2 * (kSub * d) BY <2>1, <3>3, PowerSucc
    <3>5. BucketOf(v) = e * kSub + q - kSub
      <4>1. ~(v < kSub) /\ ~(k > MaxPow2) BY <1>1, <1>3, <2>1, <2>2, <2>5
      <4> QED BY <4>1 DEF BucketOf, k
    <3> HIDE DEF d
    <3>6. q \in Nat /\ q * d <= v /\ v < q * d + d
      <4>1. v % d \in 0 .. d - 1 /\ v = q * d + (v % d) /\ q \in Nat BY <3>2, DivFacts
      <4> HIDE DEF q
      <4>2. q * d \in Nat BY <3>2, <4>1
      <4> QED BY <3>2, <4>1, <4>2
    <3> HIDE DEF e, q
    <3>7. q >= kSub
      <4> SUFFICES ASSUME q + 1 <= kSub PROVE FALSE BY <1>1, <3>6
      <4>1. (q + 1) * d <= kSub * d BY <1>1, <3>2, <3>6
      <4>2. (q + 1) * d = q * d + d BY <3>2, <3>6
      <4> QED BY <1>1, <2>1, <3>2, <3>3, <3>6, <4>1, <4>2
    <3>8. q < 2 * kSub
      <4> SUFFICES ASSUME q >= 2 * kSub PROVE FALSE BY <1>1, <3>6
      <4>1. q * d >= (2 * kSub) * d BY <1>1, <3>2, <3>6
      <4>2. (2 * kSub) * d = 2 * (kSub * d) BY <1>1, <3>2
      <4>3. q * d \in Nat /\ kSub * d \in Nat BY <1>1, <3>2, <3>6
      <4> QED BY <2>1, <3>4, <3>6, <4>1, <4>2, <4>3
    <3> DEFINE m == q - kSub
    <3>9. m \in 0 .. kSub - 1 /\ kSub + m = q BY <1>1, <3>6, <3>7, <3>8
    <3>10. BucketOf(v) = e * kSub + m
      <4>1. e \in Nat /\ e * kSub \in Nat BY <1>1, <3>1, HistogramConstants
      <4> QED BY <1>1, <3>5, <3>6, <4>1
    <3> HIDE DEF m
    <3>11. /\ BucketOf(v) \in Buckets
           /\ BucketLower(BucketOf(v)) = (kSub + m) * d
           /\ BucketUpper(BucketOf(v)) = (kSub + m + 1) * d - 1
      BY <3>1, <3>9, <3>10, BucketAt DEF d
    <3>12. (kSub + m + 1) * d = q * d + d BY <1>1, <3>2, <3>6, <3>9
    <3>13. q * d \in Nat BY <3>2, <3>6
    <3> QED BY <3>2, <3>6, <3>9, <3>11, <3>12, <3>13
  <2>6. CASE k > MaxPow2
    <3>1. BucketOf(v) = kBuckets - 1
      <4>1. ~(v < kSub) BY <1>1, <1>3
      <4> QED BY <2>6, <4>1 DEF BucketOf, k
    <3>2. kMaxOctave \in 1 .. kMaxOctave /\ kSub - 1 \in 0 .. kSub - 1
      BY <1>1, HistogramConstants
    <3>3. kMaxOctave * kSub + (kSub - 1) = kBuckets - 1
      BY <1>1, HistogramConstants
    <3> DEFINE d == 2 ^ (kMaxOctave - 1)
    <3>4. kBuckets - 1 \in Buckets /\ BucketLower(kBuckets - 1) = (kSub + (kSub - 1)) * d
      BY <3>2, <3>3, BucketAt
    <3>5. 2 ^ MaxPow2 = kSub * d
      <4>1. kMaxOctave - 1 = MaxPow2 - SubBits /\ MaxPow2 - SubBits \in Nat
            /\ MaxPow2 = SubBits + (MaxPow2 - SubBits)
        BY <2>2 DEF kMaxOctave
      <4>2. 2 ^ (SubBits + (MaxPow2 - SubBits)) = 2 ^ SubBits * 2 ^ (MaxPow2 - SubBits)
        BY <2>2, <4>1, PowerSum
      <4> QED BY <2>3, <4>1, <4>2
    <3>6. 2 ^ (MaxPow2 + 1) = 2 * (kSub * d) BY <2>2, <3>5, PowerSucc
    <3>7. 2 ^ (MaxPow2 + 1) <= v
      <4>1. 2 ^ (MaxPow2 + 1) <= 2 ^ k /\ 2 ^ (MaxPow2 + 1) \in Nat
        BY <2>1, <2>2, <2>6, PowerMonotone, PowerExceeds
      <4> QED BY <2>1, <4>1
    <3>8. d \in Nat BY HistogramConstants, PowerExceeds
    <3> HIDE DEF d
    <3>9. (kSub + (kSub - 1)) * d <= 2 * (kSub * d) /\ (kSub + (kSub - 1)) * d \in Nat
          /\ 2 * (kSub * d) \in Nat
      BY <1>1, <3>8
    <3> QED BY <1>1, <3>1, <3>4, <3>6, <3>7, <3>9
  <2> QED BY <2>1, <2>2, <2>5, <2>6
<1> QED BY <1>1, <1>2, <1>3

\* BucketOf gives the bucket whose bounds a value is between.
LEMMA BucketOfIff ==
    ASSUME NEW v \in Nat, NEW i \in Buckets
    PROVE  BucketOf(v) = i <=>
             /\ BucketLower(i) <= v
             /\ i < kBuckets - 1 => v <= BucketUpper(i)
<1> DEFINE b == BucketOf(v)
<1>1. b \in Buckets /\ BucketLower(b) <= v /\ (b < kBuckets - 1 => v <= BucketUpper(b))
  BY BucketOfBounds
<1> HIDE DEF b
<1>2. /\ BucketLower(b) \in Nat /\ BucketUpper(b) \in Nat
      /\ BucketLower(i) \in Nat /\ BucketUpper(i) \in Nat
      /\ b \in Nat /\ i \in Nat /\ b <= kBuckets - 1 /\ i <= kBuckets - 1 /\ kBuckets \in Nat
  BY <1>1, BucketBounds, HistogramConstants DEF Buckets
<1>3. ASSUME BucketLower(i) <= v, i < kBuckets - 1 => v <= BucketUpper(i)
      PROVE  b = i
  <2>1. ~(b < i)
    <3> SUFFICES ASSUME b < i PROVE FALSE OBVIOUS
    <3>1. BucketUpper(b) < BucketLower(i) BY <1>1, BucketsAscend
    <3> QED BY <1>1, <1>2, <1>3, <3>1
  <2>2. ~(i < b)
    <3> SUFFICES ASSUME i < b PROVE FALSE OBVIOUS
    <3>1. BucketUpper(i) < BucketLower(b) BY <1>1, BucketsAscend
    <3> QED BY <1>1, <1>2, <1>3, <3>1
  <2> QED BY <1>2, <2>1, <2>2
<1> QED BY <1>1, <1>3 DEF b

\* Greater values are in the same or later buckets.
LEMMA BucketOfMonotone ==
    ASSUME NEW v \in Nat, NEW w \in Nat, v <= w
    PROVE  BucketOf(v) <= BucketOf(w)
<1> DEFINE b == BucketOf(v)  c == BucketOf(w)
<1>1. /\ b \in Buckets /\ BucketLower(b) <= v
      /\ c \in Buckets /\ (c < kBuckets - 1 => w <= BucketUpper(c))
  BY BucketOfBounds
<1> HIDE DEF b, c
<1>2. /\ BucketLower(b) \in Nat /\ BucketUpper(c) \in Nat
      /\ b \in Nat /\ c \in Nat /\ b <= kBuckets - 1 /\ kBuckets \in Nat
  BY <1>1, BucketBounds, HistogramConstants DEF Buckets
<1>3. ~(c < b)
  <2> SUFFICES ASSUME c < b PROVE FALSE OBVIOUS
  <2>1. BucketUpper(c) < BucketLower(b) BY <1>1, BucketsAscend
  <2> QED BY <1>1, <1>2, <2>1
<1> QED BY <1>2, <1>3 DEF b, c

-----------------------------------------------------------------------------
(* What the histogram keeps of the values recorded.                        *)

\* The equation of a sum over a set of indices, which takes its elements in the
\* order CHOOSE gives.
SumsUp(F, c, T) ==
    F = [s \in SUBSET T |-> IF s = {} THEN 0
             ELSE c[CHOOSE x \in s : TRUE] + F[s \ {CHOOSE x \in s : TRUE}]]

\* Two functions that satisfy the equation a fold is defined by are equal.
LEMMA FoldUnique ==
    ASSUME NEW T, IsFiniteSet(T), NEW c, NEW F, NEW G,
           SumsUp(F, c, T), SumsUp(G, c, T)
    PROVE  F = G
<1> USE DEF SumsUp
<1> DEFINE S == {n \in Nat : \A s \in SUBSET T : Cardinality(s) = n => F[s] = G[s]}
<1>1. \A s \in SUBSET T : IsFiniteSet(s) BY FS_Subset
<1>2. 0 \in S
  <2> SUFFICES ASSUME NEW s \in SUBSET T, Cardinality(s) = 0 PROVE F[s] = G[s]
    OBVIOUS
  <2>1. s = {} BY <1>1, FS_EmptySet
  <2>2. F[s] = 0 BY <2>1
  <2>3. G[s] = 0 BY <2>1
  <2> QED BY <2>2, <2>3
<1>3. ASSUME NEW n \in Nat, n \in S PROVE n + 1 \in S
  <2> SUFFICES ASSUME NEW s \in SUBSET T, Cardinality(s) = n + 1 PROVE F[s] = G[s]
    OBVIOUS
  <2>1. s # {}
    <3>1. n + 1 # 0 OBVIOUS
    <3> QED BY <3>1, FS_EmptySet
  <2> DEFINE x == CHOOSE x \in s : TRUE
  <2>2. x \in s BY <2>1
  <2>3. s \ {x} \in SUBSET T OBVIOUS
  <2>4. F[s] = c[x] + F[s \ {x}] BY <2>1
  <2>5. G[s] = c[x] + G[s \ {x}] BY <2>1
  <2> HIDE DEF x
  <2>6. Cardinality(s \ {x}) = n
    <3>1. IsFiniteSet(s) BY <1>1
    <3>2. Cardinality(s \ {x}) = (n + 1) - 1 BY <2>2, <3>1, FS_RemoveElement
    <3> QED BY <3>2
  <2>7. F[s \ {x}] = G[s \ {x}] BY <1>3, <2>3, <2>6
  <2> QED BY <2>4, <2>5, <2>7
<1> HIDE DEF S
<1>4. \A n \in Nat : n \in S BY <1>2, <1>3, InductionOn
<1>5. ASSUME NEW s \in SUBSET T PROVE F[s] = G[s]
  <2>1. Cardinality(s) \in Nat BY <1>1, FS_CardinalityType
  <2> QED BY <1>4, <2>1 DEF S
<1>6. DOMAIN F = SUBSET T /\ DOMAIN G = SUBSET T OBVIOUS
<1>7. F = [s \in SUBSET T |-> F[s]] BY <1>6
<1>8. G = [s \in SUBSET T |-> G[s]] BY <1>6
<1> HIDE DEF S
<1> QED BY <1>5, <1>7, <1>8

\* So a fold is any function that satisfies its equation.
LEMMA FoldIs ==
    ASSUME NEW T, IsFiniteSet(T), NEW c, NEW F,
           SumsUp(F, c, T)
    PROVE  SumFunctionOnSet(c, T) = F[T]
<1>1. \A G : SumsUp(G, c, T) => G = F BY FoldUnique
<1> QED BY <1>1 DEF SumsUp, SumFunctionOnSet, FoldFunctionOnSet, MapThenFoldSet

LEMMA CardinalityOfBoth ==
    ASSUME NEW A, NEW B, IsFiniteSet(A), IsFiniteSet(B), A \cap B = {}
    PROVE  IsFiniteSet(A \cup B) /\ Cardinality(A \cup B) = Cardinality(A) + Cardinality(B)
<1>1. Cardinality(A \cap B) = 0 BY FS_EmptySet
<1>2. Cardinality(A) \in Nat /\ Cardinality(B) \in Nat BY FS_CardinalityType
<1>3. IsFiniteSet(A \cup B) /\
      Cardinality(A \cup B) = Cardinality(A) + Cardinality(B) - Cardinality(A \cap B)
  BY FS_Union
<1> QED BY <1>1, <1>2, <1>3

\* The samples of S that are in buckets of U, and the values of S.
Within(S, U) == {s \in S : BucketOf(s[2]) \in U}

\* g is what is left of the samples S.
Summarises(g, S) ==
    /\ IsFiniteSet(S) /\ S \subseteq Nat \X Values
    /\ g = [counts |-> g.counts, count |-> g.count, min |-> g.min, max |-> g.max]
    /\ g.counts = [i \in Buckets |-> Cardinality(Within(S, {i}))]
    /\ g.count = Cardinality(S)
    /\ S = {} => g.min = 0 /\ g.max = 0
    /\ S # {} => /\ \E s \in S : s[2] = g.min
                 /\ \E s \in S : s[2] = g.max
    /\ \A s \in S : g.min <= s[2] /\ s[2] <= g.max

HistogramInv ==
    /\ Summarises(h, samples) /\ Summarises(other, samplesOfOther)
    /\ samples \cap samplesOfOther = {}
    /\ \A s \in samples \cup samplesOfOther : s[1] < Samples

LEMMA SampleType ==
    ASSUME NEW S, S \subseteq Nat \X Values, NEW s \in S
    PROVE  s[1] \in Nat /\ s[2] \in Nat /\ s[2] \in Values /\ s = <<s[1], s[2]>>
           /\ BucketOf(s[2]) \in Buckets
<1>1. s[1] \in Nat /\ s[2] \in Nat /\ s[2] \in Values /\ s = <<s[1], s[2]>>
  <2>1. PICK n \in Nat, v \in Values : s = <<n, v>> OBVIOUS
  <2>2. Values \subseteq Nat BY HistogramAssumption
  <2> QED BY <2>1, <2>2
<1> QED BY <1>1, BucketOfBounds

LEMMA WithinFinite ==
    ASSUME NEW S, IsFiniteSet(S), NEW U
    PROVE  IsFiniteSet(Within(S, U)) /\ Cardinality(Within(S, U)) \in Nat
<1>1. Within(S, U) \in SUBSET S BY DEF Within
<1>2. IsFiniteSet(Within(S, U)) BY <1>1, FS_Subset
<1> QED BY <1>2, FS_CardinalityType

\* The running sum over the first buckets counts the samples in them.
LEMMA CumulativeCounts ==
    ASSUME NEW g, NEW S, Summarises(g, S), NEW i \in Buckets
    PROVE  Cumulative(g, i) = Cardinality(Within(S, 0 .. i))
<1> DEFINE T == 0 .. i
           F == [s \in SUBSET T |-> Cardinality(Within(S, s))]
<1>1. i \in Nat /\ T \subseteq Buckets /\ IsFiniteSet(T)
  BY FS_Interval, HistogramConstants DEF Buckets
<1>2. IsFiniteSet(S) /\ g.counts = [j \in Buckets |-> Cardinality(Within(S, {j}))]
  BY DEF Summarises
<1> HIDE DEF T
<1>3. ASSUME NEW s \in SUBSET T
      PROVE  Cardinality(Within(S, s)) = IF s = {} THEN 0
                 ELSE g.counts[CHOOSE x \in s : TRUE] + F[s \ {CHOOSE x \in s : TRUE}]
  <2>1. CASE s = {}
    <3>1. Within(S, s) = {} BY <2>1 DEF Within
    <3> QED BY <2>1, <3>1, FS_EmptySet
  <2>2. CASE s # {}
    <3> DEFINE x == CHOOSE x \in s : TRUE
    <3>1. x \in s BY <2>2
    <3>2. F[s \ {x}] = Cardinality(Within(S, s \ {x})) OBVIOUS
    <3> HIDE DEF x, F
    <3>3. x \in Buckets BY <1>1, <3>1
    <3>4. g.counts[x] = Cardinality(Within(S, {x})) BY <1>2, <3>3
    <3>5. /\ Within(S, s) = Within(S, {x}) \cup Within(S, s \ {x})
          /\ Within(S, {x}) \cap Within(S, s \ {x}) = {}
      BY <3>1 DEF Within
    <3>6. Cardinality(Within(S, s)) = Cardinality(Within(S, {x})) + Cardinality(Within(S, s \ {x}))
      BY <1>2, <3>5, WithinFinite, CardinalityOfBoth
    <3> QED BY <2>2, <3>2, <3>4, <3>6 DEF x
  <2> QED BY <2>1, <2>2
<1>4. SumsUp(F, g.counts, T) BY <1>3 DEF SumsUp
<1> HIDE DEF F
<1>5. SumFunctionOnSet(g.counts, T) = F[T] BY <1>1, <1>4, FoldIs
<1>6. F[T] = Cardinality(Within(S, T)) BY DEF F
<1> QED BY <1>5, <1>6 DEF Cumulative, T

LEMMA FreshSummarises == Summarises(FreshHistogram, {})
<1>1. \A i : Within({}, {i}) = {} BY DEF Within
<1>2. Cardinality({}) = 0 /\ IsFiniteSet({}) BY FS_EmptySet
<1> QED BY <1>1, <1>2 DEF Summarises, FreshHistogram

\* record() adds one sample to what is summarised.
LEMMA RecordedSummarises ==
    ASSUME NEW g, NEW S, Summarises(g, S), NEW n \in Nat, NEW v \in Values, <<n, v>> \notin S
    PROVE  Summarises(Recorded(g, v), S \cup {<<n, v>>})
<1> DEFINE r == Recorded(g, v)  new == <<n, v>>  R == S \cup {new}
<1>1. v \in Nat /\ BucketOf(v) \in Buckets BY HistogramAssumption, BucketOfBounds
<1>2. /\ IsFiniteSet(S) /\ S \subseteq Nat \X Values
      /\ g.counts = [i \in Buckets |-> Cardinality(Within(S, {i}))]
      /\ g.count = Cardinality(S) /\ Cardinality(S) \in Nat
      /\ \A s \in S : g.min <= s[2] /\ s[2] <= g.max
      /\ S = {} => g.min = 0 /\ g.max = 0
      /\ S # {} => (\E s \in S : s[2] = g.min) /\ (\E s \in S : s[2] = g.max)
      /\ g.min \in Nat /\ g.max \in Nat
  <2>1. IsFiniteSet(S) /\ S \subseteq Nat \X Values BY DEF Summarises
  <2>2. S # {} => g.min \in Nat /\ g.max \in Nat BY <2>1, SampleType DEF Summarises
  <2> QED BY <2>1, <2>2, FS_CardinalityType DEF Summarises
<1>3. /\ r.counts = [g.counts EXCEPT ![BucketOf(v)] = @ + 1]
      /\ r.count = g.count + 1
      /\ r.min = IF g.count = 0 \/ v < g.min THEN v ELSE g.min
      /\ r.max = IF v > g.max THEN v ELSE g.max
      /\ r = [counts |-> r.counts, count |-> r.count, min |-> r.min, max |-> r.max]
  BY DEF Recorded
<1>4. IsFiniteSet(R) /\ Cardinality(R) = g.count + 1 /\ R \subseteq Nat \X Values
  BY <1>2, FS_AddElement
<1>5. ASSUME NEW i \in Buckets PROVE r.counts[i] = Cardinality(Within(R, {i}))
  <2>1. CASE i = BucketOf(v)
    <3>1. Within(R, {i}) = Within(S, {i}) \cup {new} /\ new \notin Within(S, {i})
      BY <2>1 DEF Within
    <3>2. Cardinality(Within(R, {i})) = Cardinality(Within(S, {i})) + 1
      BY <1>2, <3>1, WithinFinite, FS_AddElement
    <3> QED BY <1>2, <1>3, <2>1, <3>2
  <2>2. CASE i # BucketOf(v)
    <3>1. Within(R, {i}) = Within(S, {i}) BY <2>2 DEF Within
    <3> QED BY <1>2, <1>3, <2>2, <3>1
  <2> QED BY <2>1, <2>2
<1>6. r.counts = [i \in Buckets |-> Cardinality(Within(R, {i}))]
  BY <1>2, <1>3, <1>5
<1>7. g.count = 0 <=> S = {} BY <1>2, FS_EmptySet
<1>8. new \in R /\ new[2] = v /\ \A s \in S : s \in R /\ s[2] \in Nat BY <1>2, SampleType
<1> HIDE DEF r
<1>9. \A s \in R : s \in S \/ s = new OBVIOUS
<1> HIDE DEF R, new
<1>10. \A s \in R : r.min <= s[2] /\ s[2] <= r.max
  BY <1>1, <1>2, <1>3, <1>7, <1>8, <1>9
<1>11. (\E s \in R : s[2] = r.min) /\ (\E s \in R : s[2] = r.max)
  <2>1. \E s \in R : s[2] = r.min BY <1>2, <1>3, <1>7, <1>8
  <2>2. \E s \in R : s[2] = r.max
    <3>1. CASE S = {} BY <1>1, <1>2, <1>3, <1>8, <3>1
    <3>2. CASE S # {} BY <1>2, <1>3, <1>8, <3>2
    <3> QED BY <3>1, <3>2
  <2> QED BY <2>1, <2>2
<1>12. Summarises(r, R) BY <1>3, <1>4, <1>6, <1>8, <1>10, <1>11 DEF Summarises
<1> QED BY <1>12 DEF r, R, new

\* merge() puts the samples of both together.
LEMMA MergedSummarises ==
    ASSUME NEW g, NEW S, Summarises(g, S), NEW f, NEW T, Summarises(f, T), S \cap T = {}
    PROVE  Summarises(Merged(g, f), S \cup T)
<1> DEFINE r == Merged(g, f)  R == S \cup T
<1>1. /\ IsFiniteSet(S) /\ S \subseteq Nat \X Values
      /\ g.counts = [i \in Buckets |-> Cardinality(Within(S, {i}))]
      /\ g.count = Cardinality(S) /\ Cardinality(S) \in Nat
      /\ \A s \in S : s[2] \in Nat /\ g.min <= s[2] /\ s[2] <= g.max
      /\ S = {} => g.min = 0 /\ g.max = 0
      /\ S # {} => (\E s \in S : s[2] = g.min) /\ (\E s \in S : s[2] = g.max)
      /\ g.min \in Nat /\ g.max \in Nat
      /\ g.count = 0 <=> S = {}
  <2>1. IsFiniteSet(S) /\ S \subseteq Nat \X Values BY DEF Summarises
  <2>2. \A s \in S : s[2] \in Nat BY <2>1, SampleType
  <2>3. S # {} => g.min \in Nat /\ g.max \in Nat BY <2>2 DEF Summarises
  <2> QED BY <2>1, <2>2, <2>3, FS_CardinalityType, FS_EmptySet DEF Summarises
<1>2. /\ IsFiniteSet(T) /\ T \subseteq Nat \X Values
      /\ f.counts = [i \in Buckets |-> Cardinality(Within(T, {i}))]
      /\ f.count = Cardinality(T) /\ Cardinality(T) \in Nat
      /\ \A s \in T : s[2] \in Nat /\ f.min <= s[2] /\ s[2] <= f.max
      /\ T # {} => (\E s \in T : s[2] = f.min) /\ (\E s \in T : s[2] = f.max)
      /\ f.min \in Nat /\ f.max \in Nat
      /\ f.count = 0 <=> T = {}
  <2>1. IsFiniteSet(T) /\ T \subseteq Nat \X Values BY DEF Summarises
  <2>2. \A s \in T : s[2] \in Nat BY <2>1, SampleType
  <2>3. f.min \in Nat /\ f.max \in Nat BY <2>2 DEF Summarises
  <2> QED BY <2>1, <2>2, <2>3, FS_CardinalityType, FS_EmptySet DEF Summarises
<1>3. /\ r.counts = [i \in Buckets |-> g.counts[i] + f.counts[i]]
      /\ r.count = g.count + f.count
      /\ r.min = IF f.count # 0 /\ (g.count = 0 \/ f.min < g.min) THEN f.min ELSE g.min
      /\ r.max = IF f.count # 0 /\ f.max > g.max THEN f.max ELSE g.max
      /\ r = [counts |-> r.counts, count |-> r.count, min |-> r.min, max |-> r.max]
  BY DEF Merged
<1>4. IsFiniteSet(R) /\ Cardinality(R) = g.count + f.count /\ R \subseteq Nat \X Values
  <2>1. IsFiniteSet(R) /\ Cardinality(R) = Cardinality(S) + Cardinality(T)
    BY <1>1, <1>2, CardinalityOfBoth
  <2> QED BY <1>1, <1>2, <2>1
<1>5. ASSUME NEW i \in Buckets PROVE g.counts[i] + f.counts[i] = Cardinality(Within(R, {i}))
  <2>1. /\ Within(R, {i}) = Within(S, {i}) \cup Within(T, {i})
        /\ Within(S, {i}) \cap Within(T, {i}) = {}
    BY DEF Within
  <2>2. Cardinality(Within(R, {i})) = Cardinality(Within(S, {i})) + Cardinality(Within(T, {i}))
    <3>1. IsFiniteSet(Within(S, {i})) /\ IsFiniteSet(Within(T, {i}))
      BY <1>1, <1>2, WithinFinite
    <3> QED BY <2>1, <3>1, CardinalityOfBoth
  <2> QED BY <1>1, <1>2, <2>2
<1>6. r.counts = [i \in Buckets |-> Cardinality(Within(R, {i}))] BY <1>3, <1>5
<1>7. \A s : s \in R <=> s \in S \/ s \in T OBVIOUS
<1>8. R = {} <=> S = {} /\ T = {} OBVIOUS
<1> HIDE DEF r, R
<1>9. \A s \in R : r.min <= s[2] /\ s[2] <= r.max
  <2> SUFFICES ASSUME NEW s \in R PROVE r.min <= s[2] /\ s[2] <= r.max
    OBVIOUS
  <2>1. CASE s \in S BY <1>1, <1>2, <1>3, <2>1
  <2>2. CASE s \in T BY <1>1, <1>2, <1>3, <2>2
  <2> QED BY <1>7, <2>1, <2>2
<1>10. R # {} => \E s \in R : s[2] = r.min BY <1>1, <1>2, <1>3, <1>7, <1>8
<1>11. R # {} => \E s \in R : s[2] = r.max BY <1>1, <1>2, <1>3, <1>7, <1>8
<1>12. R = {} => r.min = 0 /\ r.max = 0 BY <1>1, <1>2, <1>3, <1>8
<1>13. Summarises(r, R)
  BY <1>3, <1>4, <1>6, <1>9, <1>10, <1>11, <1>12 DEF Summarises
<1> QED BY <1>13 DEF r, R

LEMMA HistogramInvInit == HistogramInit => HistogramInv
<1> SUFFICES ASSUME HistogramInit PROVE HistogramInv
  OBVIOUS
<1>1. h = FreshHistogram /\ other = FreshHistogram /\ samples = {} /\ samplesOfOther = {}
  BY DEF HistogramInit
<1> QED BY <1>1, FreshSummarises DEF HistogramInv

LEMMA SamplesType ==
    ASSUME HistogramInv
    PROVE  /\ IsFiniteSet(samples \cup samplesOfOther) /\ Samples \in Nat
           /\ \A s \in samples \cup samplesOfOther : s[1] \in Nat
<1>1. /\ IsFiniteSet(samples) /\ samples \subseteq Nat \X Values
      /\ IsFiniteSet(samplesOfOther) /\ samplesOfOther \subseteq Nat \X Values
  BY DEF HistogramInv, Summarises
<1>2. IsFiniteSet(samples \cup samplesOfOther) BY <1>1, FS_Union
<1>3. \A s \in samples \cup samplesOfOther : s[1] \in Nat BY <1>1, SampleType
<1> QED BY <1>2, <1>3, FS_CardinalityType DEF Samples

LEMMA RecordStep ==
    ASSUME HistogramInv, NEW v \in Values, Record(v)
    PROVE  HistogramInv'
<1> DEFINE n == Samples  new == <<n, v>>  all == samples \cup samplesOfOther
<1>1. /\ h' = Recorded(h, v) /\ samples' = samples \cup {new}
      /\ other' = other /\ samplesOfOther' = samplesOfOther
  BY DEF Record
<1>2. IsFiniteSet(all) /\ n \in Nat /\ n = Cardinality(all) /\ \A s \in all : s[1] \in Nat
  BY SamplesType DEF Samples
<1>3. \A s \in all : s[1] < n BY DEF HistogramInv
<1> HIDE DEF n
<1>4. new \notin all
  <2>1. new[1] = n OBVIOUS
  <2> HIDE DEF new
  <2> QED BY <1>2, <1>3, <2>1
<1>5. Summarises(h', samples') BY <1>1, <1>2, <1>4, RecordedSummarises DEF HistogramInv
<1>6. Summarises(other', samplesOfOther') BY <1>1 DEF HistogramInv
<1>7. samples' \cap samplesOfOther' = {} BY <1>1, <1>4 DEF HistogramInv
<1>8. Samples' = n + 1
  <2>1. (samples \cup samplesOfOther)' = all \cup {new} BY <1>1
  <2> HIDE DEF all, new
  <2>2. Cardinality(all \cup {new}) = n + 1 BY <1>2, <1>4, FS_AddElement
  <2> QED BY <2>1, <2>2 DEF Samples
<1>9. \A s \in (samples \cup samplesOfOther)' : s[1] < Samples'
  BY <1>1, <1>2, <1>3, <1>8
<1> QED BY <1>5, <1>6, <1>7, <1>9 DEF HistogramInv

LEMMA SwapStep == ASSUME HistogramInv, Swap PROVE HistogramInv'
<1>1. /\ other = FreshHistogram /\ other' = h /\ samplesOfOther' = samples
      /\ h' = FreshHistogram /\ samples' = {}
  BY DEF Swap
<1>2. samplesOfOther = {}
  <2>1. other.count = 0 BY <1>1 DEF FreshHistogram
  <2>2. IsFiniteSet(samplesOfOther) /\ other.count = Cardinality(samplesOfOther)
    BY DEF HistogramInv, Summarises
  <2> QED BY <2>1, <2>2, FS_EmptySet
<1>3. (samples \cup samplesOfOther)' = samples \cup samplesOfOther BY <1>1, <1>2
<1>4. Samples' = Samples BY <1>3 DEF Samples
<1>5. \A s \in (samples \cup samplesOfOther)' : s[1] < Samples' BY <1>3, <1>4 DEF HistogramInv
<1> QED BY <1>1, <1>5, FreshSummarises DEF HistogramInv

LEMMA MergeStep == ASSUME HistogramInv, Merge PROVE HistogramInv'
<1>1. /\ h' = Merged(h, other) /\ samples' = samples \cup samplesOfOther
      /\ other' = FreshHistogram /\ samplesOfOther' = {}
  BY DEF Merge
<1>2. (samples \cup samplesOfOther)' = samples \cup samplesOfOther BY <1>1
<1>3. Samples' = Samples BY <1>2 DEF Samples
<1>4. \A s \in (samples \cup samplesOfOther)' : s[1] < Samples' BY <1>2, <1>3 DEF HistogramInv
<1>5. Summarises(h', samples') BY <1>1, MergedSummarises DEF HistogramInv
<1> QED BY <1>1, <1>4, <1>5, FreshSummarises DEF HistogramInv

LEMMA HistogramInvariance == HistogramSpec => []HistogramInv
<1>1. HistogramInv /\ [HistogramNext]_histogramVars => HistogramInv'
  <2> SUFFICES ASSUME HistogramInv, [HistogramNext]_histogramVars PROVE HistogramInv'
    OBVIOUS
  <2>1. CASE UNCHANGED histogramVars
    BY <2>1 DEF histogramVars, HistogramInv, Samples
  <2>2. CASE \E v \in Values : Record(v) BY <2>2, RecordStep
  <2>3. CASE Swap BY <2>3, SwapStep
  <2>4. CASE Merge BY <2>4, MergeStep
  <2> QED BY <2>1, <2>2, <2>3, <2>4 DEF HistogramNext
<1> QED BY <1>1, HistogramInvInit, PTL DEF HistogramSpec

\* Every bucket counts exactly the values between its bounds, and the buckets
\* cover the numbers without a gap, none wider than its lower bound over kSub.
THEOREM BucketsAreExact == HistogramSpec => []BucketsPartition
<1>1. HistogramInv => BucketsPartition
  <2> SUFFICES ASSUME HistogramInv, NEW i \in Buckets
               PROVE  /\ h.counts[i] = Cardinality({s \in samples :
                             /\ BucketLower(i) <= s[2]
                             /\ i < kBuckets - 1 => s[2] <= BucketUpper(i)})
                      /\ i > 0 => BucketLower(i) = BucketUpper(i - 1) + 1
                      /\ (BucketUpper(i) - BucketLower(i)) * kSub <= BucketLower(i)
    BY DEF BucketsPartition
  <2>1. /\ samples \subseteq Nat \X Values
        /\ h.counts = [j \in Buckets |-> Cardinality(Within(samples, {j}))]
    BY DEF HistogramInv, Summarises
  <2>2. Within(samples, {i}) = {s \in samples :
                             /\ BucketLower(i) <= s[2]
                             /\ i < kBuckets - 1 => s[2] <= BucketUpper(i)}
    BY <2>1, SampleType, BucketOfIff DEF Within
  <2>3. h.counts[i] = Cardinality(Within(samples, {i})) BY <2>1
  <2> QED BY <2>2, <2>3, BucketsJoin, BucketBounds
<1> QED BY <1>1, HistogramInvariance, PTL

LEMMA TypeOfSummary ==
    ASSUME NEW g, NEW S, Summarises(g, S)
    PROVE  /\ g.counts \in [Buckets -> Nat] /\ g.count \in Nat
           /\ g.min \in Values \cup {0} /\ g.max \in Values \cup {0}
           /\ g.count = Cumulative(g, kBuckets - 1)
<1>1. /\ IsFiniteSet(S) /\ S \subseteq Nat \X Values
      /\ g.counts = [i \in Buckets |-> Cardinality(Within(S, {i}))]
      /\ g.count = Cardinality(S)
  BY DEF Summarises
<1>2. \A s \in S : s[2] \in Values /\ BucketOf(s[2]) \in Buckets BY <1>1, SampleType
<1>3. g.counts \in [Buckets -> Nat] /\ g.count \in Nat
  <2>1. \A i \in Buckets : Cardinality(Within(S, {i})) \in Nat BY <1>1, WithinFinite
  <2> QED BY <1>1, <2>1, FS_CardinalityType
<1>4. g.min \in Values \cup {0} /\ g.max \in Values \cup {0} BY <1>2 DEF Summarises
<1>5. kBuckets - 1 \in Buckets BY HistogramConstants DEF Buckets
<1>6. Within(S, 0 .. kBuckets - 1) = S BY <1>2 DEF Within, Buckets
<1>7. Cumulative(g, kBuckets - 1) = g.count BY <1>1, <1>5, <1>6, CumulativeCounts
<1> QED BY <1>3, <1>4, <1>7

\* The fields keep their types and count is the sum of the buckets.
THEOREM HistogramTypeCorrect == HistogramSpec => []HistogramTypeOK
<1>1. HistogramInv => HistogramTypeOK BY TypeOfSummary DEF HistogramInv, HistogramTypeOK
<1> QED BY <1>1, HistogramInvariance, PTL

LEMMA RankBounds ==
    ASSUME NEW p \in 0 .. Denominator, NEW n \in Nat \ {0}
    PROVE  /\ Rank(p, n) \in 1 .. n
           /\ p = 0 => Rank(p, n) = 1
           /\ p = Denominator => Rank(p, n) = n
<1>1. Denominator \in Nat \ {0} BY HistogramAssumption
<1> DEFINE d == Denominator
<1> HIDE DEF d
<1>2. CASE p = 0 BY <1>1, <1>2 DEF Rank
<1>3. CASE p # 0
  <2>1. p \in Nat /\ p >= 1 /\ p <= d /\ d \in Nat \ {0} BY <1>1, <1>3 DEF d
  <2> DEFINE a == p * n  q == (a + d - 1) \div d
  <2>2. a \in Nat /\ a >= 1 /\ a <= n * d BY <2>1
  <2>3. Rank(p, n) = q BY <1>3 DEF Rank, CeilDiv, d
  <2>4. p = d => q = n
    <3> SUFFICES ASSUME p = d PROVE q = n OBVIOUS
    <3>1. a + d - 1 = n * d + (d - 1) BY <2>1
    <3>2. d - 1 \in 0 .. d - 1 BY <2>1
    <3> HIDE DEF a
    <3> QED BY <2>1, <3>1, <3>2, DivUnique
  <2> HIDE DEF a
  <2>5. q \in Nat /\ a + d - 1 >= q * d /\ a + d - 1 < q * d + d
    <3>1. a + d - 1 \in Nat BY <2>1, <2>2
    <3> DEFINE b == a + d - 1
    <3> HIDE DEF b
    <3>2. q \in Nat /\ b % d \in 0 .. d - 1 /\ b = q * d + (b % d) BY <2>1, <3>1, DivFacts DEF b
    <3> HIDE DEF q
    <3>3. q * d \in Nat BY <2>1, <3>2
    <3>4. b >= q * d /\ b < q * d + d BY <2>1, <3>2, <3>3
    <3> QED BY <3>2, <3>4 DEF b
  <2> HIDE DEF q
  <2>6. q > 0
    <3> SUFFICES ASSUME q = 0 PROVE FALSE BY <2>5
    <3>1. q * d = 0 BY <2>1
    <3> QED BY <2>1, <2>2, <2>5, <3>1
  <2>7. q <= n
    <3> SUFFICES ASSUME q >= n + 1 PROVE FALSE BY <2>5
    <3>1. q * d >= (n + 1) * d BY <2>1, <2>5
    <3>2. (n + 1) * d = n * d + d /\ n * d \in Nat /\ q * d \in Nat BY <2>1, <2>5
    <3> QED BY <2>1, <2>2, <2>5, <3>1, <3>2
  <2> QED BY <1>3, <2>3, <2>4, <2>5, <2>6, <2>7 DEF d
<1> QED BY <1>2, <1>3

\* A nonempty finite set of samples has one of the greatest value.
LEMMA GreatestSample ==
    ASSUME NEW W, W # {}, NEW top \in Nat, \A s \in W : s[2] \in Nat /\ s[2] <= top
    PROVE  \E t \in W : \A s \in W : s[2] <= t[2]
<1> DEFINE U == {u \in Nat : \A s \in W : s[2] <= u}
<1>1. top \in U OBVIOUS
<1>2. PICK m \in U : \A u \in U : m <= u BY <1>1, LeastOf
<1>3. \E t \in W : t[2] = m
  <2> SUFFICES ASSUME \A t \in W : t[2] # m PROVE FALSE OBVIOUS
  <2>1. \A s \in W : s[2] <= m - 1 BY <1>2
  <2>2. m - 1 \in Nat BY <1>2, <2>1
  <2>3. m - 1 \in U BY <2>1, <2>2
  <2> QED BY <1>2, <2>3
<1> QED BY <1>2, <1>3

LEMMA SubsetCount ==
    ASSUME NEW A, NEW B, IsFiniteSet(B), A \subseteq B
    PROVE  Cardinality(A) \in Nat /\ Cardinality(B) \in Nat /\ Cardinality(A) <= Cardinality(B)
<1>1. IsFiniteSet(A) /\ Cardinality(A) <= Cardinality(B) BY FS_Subset
<1> QED BY <1>1, FS_CardinalityType

Upto(v) == {s \in samples : s[2] <= v}

\* The exact percentile is a value recorded, the least that so many are at most.
LEMMA ExactFacts ==
    ASSUME HistogramInv, samples # {}, NEW p \in 0 .. Denominator
    PROVE  /\ Rank(p, Cardinality(samples)) \in 1 .. Cardinality(samples)
           /\ Cardinality(samples) \in Nat \ {0}
           /\ \E s \in samples : s[2] = Exact(p)
           /\ Exact(p) \in Nat
           /\ Cardinality(Upto(Exact(p))) >= Rank(p, Cardinality(samples))
           /\ \A s \in samples : Cardinality(Upto(s[2])) >= Rank(p, Cardinality(samples))
                                   => Exact(p) <= s[2]
<1> DEFINE n == Cardinality(samples)  rank == Rank(p, n)
           V == {v \in {s[2] : s \in samples} : AtMost(v) >= rank}
<1>1. /\ IsFiniteSet(samples) /\ samples \subseteq Nat \X Values
      /\ \A s \in samples : s[2] \in Nat /\ s[2] <= h.max
      /\ \E s \in samples : s[2] = h.max
  BY SampleType DEF HistogramInv, Summarises
<1>2. n \in Nat \ {0} BY <1>1, FS_CardinalityType, FS_EmptySet
<1>3. rank \in 1 .. n BY <1>2, RankBounds
<1>4. \A v : AtMost(v) = Cardinality(Upto(v)) BY DEF AtMost, Upto
<1>5. h.max \in V
  <2>1. Upto(h.max) = samples BY <1>1 DEF Upto
  <2> QED BY <1>1, <1>3, <1>4, <2>1
<1>6. V \in SUBSET Nat BY <1>1
<1>7. Exact(p) = CHOOSE x \in V : \A y \in V : x <= y BY DEF Exact, Min
<1> HIDE DEF rank
<1>8. \E x \in V : \A y \in V : x <= y
  <2> HIDE DEF V
  <2> QED BY <1>5, <1>6, LeastOf
<1>9. Exact(p) \in V /\ \A y \in V : Exact(p) <= y BY <1>7, <1>8
<1> QED BY <1>2, <1>3, <1>4, <1>6, <1>9 DEF rank

\* Its bucket is where the running sum reaches the rank.
LEMMA RankReached ==
    ASSUME HistogramInv, samples # {}, NEW p \in 0 .. Denominator
    PROVE  LET i == BucketOf(Exact(p))
               rank == Rank(p, Cardinality(samples))
           IN  /\ i \in Buckets
               /\ Cumulative(h, i) >= rank
               /\ i > 0 => Cumulative(h, i - 1) < rank
<1> DEFINE n == Cardinality(samples)  rank == Rank(p, n)  x == Exact(p)  i == BucketOf(x)
<1>1. /\ IsFiniteSet(samples) /\ Summarises(h, samples)
      /\ \A s \in samples : s[2] \in Nat /\ s[2] <= h.max /\ BucketOf(s[2]) \in Buckets
      /\ h.max \in Nat
  BY SampleType DEF HistogramInv, Summarises
<1>2. /\ rank \in Nat /\ rank >= 1 /\ x \in Nat /\ n \in Nat
      /\ Cardinality(Upto(x)) >= rank
      /\ \A s \in samples : Cardinality(Upto(s[2])) >= rank => x <= s[2]
  BY ExactFacts
<1> HIDE DEF n, rank, x
<1>3. i \in Buckets /\ i \in Nat BY <1>2, BucketOfBounds DEF Buckets
<1> DEFINE W(k) == Within(samples, 0 .. k)
<1>4. Cumulative(h, i) >= rank
  <2>1. Cumulative(h, i) = Cardinality(W(i)) BY <1>1, <1>3, CumulativeCounts
  <2>2. ASSUME NEW s \in Upto(x) PROVE s \in W(i)
    <3>1. s \in samples /\ s[2] <= x /\ s[2] \in Nat BY <1>1 DEF Upto
    <3>2. BucketOf(s[2]) <= i BY <1>2, <3>1, BucketOfMonotone
    <3>3. BucketOf(s[2]) \in 0 .. i BY <1>1, <1>3, <3>1, <3>2 DEF Buckets
    <3> QED BY <3>1, <3>3 DEF Within
  <2>3. Upto(x) \subseteq W(i) BY <2>2
  <2>4. IsFiniteSet(W(i)) BY <1>1, WithinFinite
  <2>5. /\ Cardinality(Upto(x)) \in Nat /\ Cardinality(W(i)) \in Nat
        /\ Cardinality(Upto(x)) <= Cardinality(W(i))
    BY <2>3, <2>4, SubsetCount
  <2> QED BY <1>2, <2>1, <2>5
<1>5. ASSUME i > 0, Cumulative(h, i - 1) >= rank PROVE FALSE
  <2>1. i - 1 \in Buckets /\ i - 1 \in Nat
    BY <1>3, <1>5, HistogramConstants DEF Buckets
  <2>2. Cumulative(h, i - 1) = Cardinality(W(i - 1)) BY <1>1, <2>1, CumulativeCounts
  <2>3. IsFiniteSet(W(i - 1)) /\ Cardinality(W(i - 1)) \in Nat BY <1>1, WithinFinite
  <2>4. W(i - 1) # {}
    <3>1. Cardinality(W(i - 1)) # 0
      <4> HIDE DEF W
      <4> QED BY <1>2, <1>5, <2>2
    <3> QED BY <3>1, FS_EmptySet
  <2>5. W(i - 1) \subseteq samples BY DEF Within
  <2> HIDE DEF W
  <2>6. PICK t \in W(i - 1) : \A s \in W(i - 1) : s[2] <= t[2]
    BY <1>1, <2>4, <2>5, GreatestSample
  <2>7. W(i - 1) \subseteq Upto(t[2]) BY <2>5, <2>6 DEF Upto
  <2>8. t \in samples /\ Upto(t[2]) \subseteq samples BY <2>5 DEF Upto
  <2>9. IsFiniteSet(Upto(t[2])) BY <1>1, <2>8, FS_Subset
  <2>10. Cardinality(Upto(t[2])) \in Nat /\ Cardinality(W(i - 1)) <= Cardinality(Upto(t[2]))
    BY <2>7, <2>9, SubsetCount
  <2>11. Cardinality(Upto(t[2])) >= rank BY <1>2, <1>5, <2>2, <2>3, <2>10
  <2>12. x <= t[2] /\ t[2] \in Nat BY <1>1, <1>2, <2>8, <2>11
  <2>13. i <= BucketOf(t[2]) BY <1>2, <2>12, BucketOfMonotone
  <2>14. BucketOf(t[2]) \in 0 .. i - 1 BY <2>6 DEF W, Within
  <2> QED BY <1>3, <2>13, <2>14
<1>6. ASSUME i > 0 PROVE Cumulative(h, i - 1) < rank
  <2>1. i - 1 \in Buckets BY <1>3, <1>6, HistogramConstants DEF Buckets
  <2>2. Cumulative(h, i - 1) = Cardinality(W(i - 1)) BY <1>1, <2>1, CumulativeCounts
  <2>3. Cardinality(W(i - 1)) \in Nat BY <1>1, WithinFinite
  <2> QED BY <1>2, <1>5, <1>6, <2>2, <2>3
<1> QED BY <1>3, <1>4, <1>6 DEF n, rank, x

\* The running sum never falls.
LEMMA CumulativeAscends ==
    ASSUME HistogramInv, NEW i \in Buckets, NEW j \in Buckets, i <= j
    PROVE  /\ Cumulative(h, i) \in Nat /\ Cumulative(h, j) \in Nat
           /\ Cumulative(h, i) <= Cumulative(h, j)
<1>1. Summarises(h, samples) /\ IsFiniteSet(samples) BY DEF HistogramInv, Summarises
<1>2. /\ Cumulative(h, i) = Cardinality(Within(samples, 0 .. i))
      /\ Cumulative(h, j) = Cardinality(Within(samples, 0 .. j))
  BY <1>1, CumulativeCounts
<1>3. Within(samples, 0 .. i) \subseteq Within(samples, 0 .. j)
  <2>1. i \in Nat /\ j \in Nat BY HistogramConstants DEF Buckets
  <2>2. 0 .. i \subseteq 0 .. j BY <2>1
  <2> QED BY <2>2 DEF Within
<1>4. IsFiniteSet(Within(samples, 0 .. j)) BY <1>1, WithinFinite
<1> QED BY <1>2, <1>3, <1>4, SubsetCount

\* So percentile() stops at the bucket of the exact percentile.
LEMMA PercentileBetween ==
    ASSUME HistogramInv, samples # {}, NEW p \in 1 .. Denominator - 1
    PROVE  LET hi == BucketUpper(BucketOf(Exact(p)))
           IN  Percentile(h, p) = IF hi > h.max THEN h.max ELSE hi
<1> DEFINE rank == Rank(p, Cardinality(samples))
           Stops(k) == /\ Cumulative(h, k) >= rank
                       /\ k > 0 => Cumulative(h, k - 1) < rank
           i == BucketOf(Exact(p))
           j == CHOOSE k \in Buckets : Stops(k)
<1>1. p \in 0 .. Denominator /\ p # 0 /\ p # Denominator /\ Denominator \in Nat
  BY HistogramAssumption
<1>2. h.count = Cardinality(samples) /\ h.count # 0
  <2>1. IsFiniteSet(samples) /\ h.count = Cardinality(samples) BY DEF HistogramInv, Summarises
  <2> QED BY <2>1, FS_EmptySet
<1>3. i \in Buckets /\ Stops(i) BY <1>1, RankReached
<1>4. j \in Buckets /\ Stops(j)
  <2> HIDE DEF Stops, i
  <2> QED BY <1>3
<1>5. rank \in Nat BY <1>1, ExactFacts
<1>6. Percentile(h, p) = IF BucketUpper(j) > h.max THEN h.max ELSE BucketUpper(j)
  BY <1>1, <1>2 DEF Percentile
<1> HIDE DEF rank, i, j
<1>7. i \in Nat /\ j \in Nat BY <1>3, <1>4 DEF Buckets
<1>8. ~(j < i)
  <2> SUFFICES ASSUME j < i PROVE FALSE OBVIOUS
  <2>1. i - 1 \in Buckets /\ j <= i - 1 /\ i > 0
    BY <1>3, <1>7, HistogramConstants DEF Buckets
  <2>2. /\ Cumulative(h, j) <= Cumulative(h, i - 1)
        /\ Cumulative(h, j) \in Nat /\ Cumulative(h, i - 1) \in Nat
    BY <1>4, <2>1, CumulativeAscends
  <2> QED BY <1>3, <1>4, <1>5, <2>1, <2>2
<1>9. ~(i < j)
  <2> SUFFICES ASSUME i < j PROVE FALSE OBVIOUS
  <2>1. j - 1 \in Buckets /\ i <= j - 1 /\ j > 0
    BY <1>4, <1>7, HistogramConstants DEF Buckets
  <2>2. /\ Cumulative(h, i) <= Cumulative(h, j - 1)
        /\ Cumulative(h, i) \in Nat /\ Cumulative(h, j - 1) \in Nat
    BY <1>3, <2>1, CumulativeAscends
  <2> QED BY <1>3, <1>4, <1>5, <2>1, <2>2
<1>10. i = j BY <1>7, <1>8, <1>9
<1> QED BY <1>6, <1>10 DEF i

LEMMA PercentileAtEnds ==
    ASSUME HistogramInv, samples # {}, NEW p \in {0, Denominator}
    PROVE  Percentile(h, p) = Exact(p)
<1> DEFINE n == Cardinality(samples)  x == Exact(p)
<1>1. p \in 0 .. Denominator /\ Denominator \in Nat \ {0} BY HistogramAssumption
<1>2. /\ IsFiniteSet(samples) /\ h.count = n
      /\ \A s \in samples : s[2] \in Nat /\ h.min <= s[2] /\ s[2] <= h.max
      /\ \E s \in samples : s[2] = h.min
      /\ \E s \in samples : s[2] = h.max
  BY SampleType DEF HistogramInv, Summarises
<1>3. /\ n \in Nat \ {0} /\ \E s \in samples : s[2] = x
      /\ Cardinality(Upto(x)) >= Rank(p, n)
      /\ \A s \in samples : Cardinality(Upto(s[2])) >= Rank(p, n) => x <= s[2]
  BY <1>1, ExactFacts
<1>4. \A v : Upto(v) \subseteq samples BY DEF Upto
<1> HIDE DEF n, x
<1>5. h.count # 0 BY <1>2, <1>3
<1>6. CASE p = 0
  <2>1. Percentile(h, p) = h.min BY <1>5, <1>6 DEF Percentile
  <2>2. PICK s \in samples : s[2] = h.min BY <1>2
  <2>3. s \in Upto(s[2]) BY <1>2 DEF Upto
  <2>4. IsFiniteSet(Upto(s[2])) BY <1>2, <1>4, FS_Subset
  <2>5. Cardinality(Upto(s[2])) \in Nat /\ Cardinality(Upto(s[2])) # 0
    BY <2>3, <2>4, FS_CardinalityType, FS_EmptySet
  <2>6. Rank(p, n) = 1 BY <1>6 DEF Rank
  <2>7. x <= h.min BY <1>3, <2>2, <2>5, <2>6
  <2>8. h.min <= x /\ x \in Nat /\ h.min \in Nat BY <1>2, <1>3
  <2> QED BY <2>1, <2>7, <2>8 DEF x
<1>7. CASE p = Denominator
  <2>1. Percentile(h, p) = h.max BY <1>1, <1>5, <1>7 DEF Percentile
  <2>2. Rank(p, n) = n BY <1>1, <1>3, <1>7, RankBounds
  <2>3. Upto(x) = samples
    <3>1. Cardinality(Upto(x)) \in Nat /\ Cardinality(Upto(x)) <= n
      BY <1>2, <1>4, SubsetCount DEF n
    <3>2. Cardinality(Upto(x)) = n BY <1>3, <2>2, <3>1
    <3> QED BY <1>2, <1>4, <3>2, FS_Subset DEF n
  <2>4. h.max <= x BY <1>2, <2>3 DEF Upto
  <2>5. x <= h.max /\ x \in Nat /\ h.max \in Nat BY <1>2, <1>3
  <2> QED BY <2>1, <2>4, <2>5 DEF x
<1> QED BY <1>6, <1>7

\* A percentile reported is at least the exact one and at most the width of a
\* bucket more, however the values were recorded and merged.
THEOREM PercentilesAreClose == HistogramSpec => []PercentilesClose
<1>1. HistogramInv => PercentilesClose
  <2> SUFFICES ASSUME HistogramInv, NEW p \in 0 .. Denominator, samples # {},
                      \A s \in samples : s[2] < 2 ^ (MaxPow2 + 1)
               PROVE  /\ Percentile(h, p) >= Exact(p)
                      /\ (Percentile(h, p) - Exact(p)) * kSub <= Exact(p)
                      /\ p \in {0, Denominator} => Percentile(h, p) = Exact(p)
    BY DEF PercentilesClose
  <2> DEFINE x == Exact(p)  i == BucketOf(x)  r == Percentile(h, p)
  <2>1. /\ x \in Nat /\ x < 2 ^ (MaxPow2 + 1)
        /\ \E s \in samples : s[2] = x
    BY ExactFacts
  <2>2. x <= h.max /\ h.max \in Nat /\ kSub \in Nat
    BY <2>1, SampleType, HistogramConstants DEF HistogramInv, Summarises
  <2>3. CASE p \in {0, Denominator}
    <3>1. r = x BY <2>3, PercentileAtEnds
    <3> HIDE DEF x, r
    <3>2. (r - x) * kSub = 0 BY <2>1, <2>2, <3>1
    <3> QED BY <2>1, <3>1, <3>2 DEF x, r
  <2>4. CASE p \notin {0, Denominator}
    <3>1. p \in 1 .. Denominator - 1 BY <2>4, HistogramAssumption
    <3>2. r = IF BucketUpper(i) > h.max THEN h.max ELSE BucketUpper(i)
      BY <3>1, PercentileBetween
    <3> HIDE DEF x, r
    <3>3. i \in Buckets /\ BucketLower(i) <= x /\ x <= BucketUpper(i)
      BY <2>1, BucketOfBounds
    <3> HIDE DEF i
    <3>4. /\ BucketLower(i) \in Nat /\ BucketUpper(i) \in Nat
          /\ (BucketUpper(i) - BucketLower(i)) * kSub <= BucketLower(i)
      BY <3>3, BucketBounds
    <3>5. r \in Nat /\ x <= r /\ r <= BucketUpper(i) BY <2>1, <2>2, <3>2, <3>3, <3>4
    <3>6. (r - x) * kSub <= (BucketUpper(i) - BucketLower(i)) * kSub
      <4>1. r - x \in Nat /\ BucketUpper(i) - BucketLower(i) \in Nat
            /\ r - x <= BucketUpper(i) - BucketLower(i)
        BY <2>1, <3>3, <3>4, <3>5
      <4> QED BY <2>2, <4>1
    <3>7. /\ (r - x) * kSub \in Int
          /\ (BucketUpper(i) - BucketLower(i)) * kSub \in Int
      BY <2>1, <2>2, <3>4, <3>5
    <3> QED BY <2>1, <2>4, <3>3, <3>4, <3>5, <3>6, <3>7 DEF x, r
  <2> QED BY <2>3, <2>4
<1> QED BY <1>1, HistogramInvariance, PTL

-----------------------------------------------------------------------------
(* All of them, as MCBlocks runs them.                                     *)

LEMMA BlocksTakeTurns ==
    /\ BlocksInit => Init /\ WireInit /\ HistogramInit /\ FanoutInit
                     /\ CalibrationInit /\ ProducerInit
    /\ [BlocksNext]_blockVars => /\ [Next]_vars /\ [WireNext]_wireVars
                                 /\ [HistogramNext]_histogramVars
                                 /\ [FanoutNext]_fanoutVars
                                 /\ [CalibrationNext]_calibrationVars
                                 /\ [ProducerNext]_producerVars
<1>1. BlocksInit => Init /\ WireInit /\ HistogramInit /\ FanoutInit
                   /\ CalibrationInit /\ ProducerInit
  BY DEF BlocksInit
<1>2. BlocksNext \/ UNCHANGED blockVars =>
                     /\ Next \/ UNCHANGED vars
                     /\ WireNext \/ UNCHANGED wireVars
                     /\ HistogramNext \/ UNCHANGED histogramVars
                     /\ FanoutNext \/ UNCHANGED fanoutVars
                     /\ CalibrationNext \/ UNCHANGED calibrationVars
                     /\ ProducerNext \/ UNCHANGED producerVars
  BY DEF BlocksNext, Only, blockVars
<1> QED BY <1>1, <1>2

\* Whichever class the run follows, all the objects keep to their types.
THEOREM BlocksTypeCorrect == BlocksSpec => []BlocksTypeOK
<1>1. BlocksSpec => Spec /\ WireSpec /\ HistogramSpec /\ FanoutSpec
                    /\ CalibrationSpec /\ ProducerSpec
  BY BlocksTakeTurns, PTL
     DEF BlocksSpec, Spec, WireSpec, HistogramSpec, FanoutSpec, CalibrationSpec, ProducerSpec
<1>2. WindowInv /\ WireInv /\ HistogramInv /\ FanoutInv /\ CalibrationInv /\ PaceInv
        => BlocksTypeOK
  <2>1. WindowInv => TypeOK BY DEF WindowInv
  <2>2. WireInv => WireTypeOK BY DEF WireInv
  <2>3. HistogramInv => HistogramTypeOK BY TypeOfSummary DEF HistogramInv, HistogramTypeOK
  <2>4. FanoutInv => FanoutTypeOK BY DEF FanoutInv
  <2>5. CalibrationInv => CalibrationTypeOK BY DEF CalibrationInv
  <2>6. ASSUME PaceInv PROVE ProducerTypeOK
    <3>1. /\ rate \in Rates /\ seq \in 0 .. PCount /\ next_send = Epoch + Waited * Interval
          /\ ppc \in {"spin", "publish"} => seq < PCount
      BY <2>6 DEF PaceInv
    <3>2. Interval \in Nat /\ PCount \in Nat /\ Epoch \in Nat
      BY <3>1, IntervalIs, ProducerAssumption
    <3>3. Waited \in Nat /\ Waited <= PCount BY <3>1, <3>2 DEF Waited
    <3>4. /\ Waited * Interval \in Nat /\ PCount * Interval \in Nat
          /\ Waited * Interval <= PCount * Interval
      BY <3>2, <3>3
    <3>5. next_send \in Epoch .. Epoch + PCount * Interval BY <3>1, <3>2, <3>4
    <3> QED BY <2>6, <3>5 DEF PaceInv, ProducerTypeOK
  <2> QED BY <2>1, <2>2, <2>3, <2>4, <2>5, <2>6 DEF BlocksTypeOK
<1> QED BY <1>1, <1>2, WindowInvariance, WireStart, WireStep, HistogramInvariance,
           FanoutStart, FanoutStep, CalibrationStart, CalibrationStep, PaceStart, PaceStep, PTL
        DEF WireSpec, FanoutSpec, CalibrationSpec, ProducerSpec
=============================================================================
