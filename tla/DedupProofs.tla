---------------------------- MODULE DedupProofs ----------------------------
(***************************************************************************)
(* What the operators of Dedup do to one window: the lemmas BlocksProofs   *)
(* and ReceiverProofs rest on, for every window.                           *)
(***************************************************************************)
EXTENDS Dedup, FiniteSetTheorems, TLAPS

-----------------------------------------------------------------------------
(* Remainders: the filter and the ring index by "n & (size - 1)".          *)

\* Two different numbers of one residue are at least the modulus apart.
LEMMA ResidueGap ==
    ASSUME NEW m \in Nat \ {0}, NEW a \in Nat, NEW b \in Nat, a % m = b % m, a > b
    PROVE  a >= b + m
<1> DEFINE qa == a \div m  qb == b \div m
<1>1. a = m * qa + (a % m) /\ qa \in Nat OBVIOUS
<1>2. b = m * qb + (b % m) /\ qb \in Nat OBVIOUS
<1>3. a - b = m * (qa - qb) BY <1>1, <1>2
<1>4. qa - qb >= 1 BY <1>1, <1>2, <1>3
<1>5. m * (qa - qb) >= m BY <1>1, <1>2, <1>4
<1> QED BY <1>1, <1>2, <1>3, <1>5

\* The modulus further on, the residue is the same.
LEMMA ResidueShift ==
    ASSUME NEW m \in Nat \ {0}, NEW a \in Nat PROVE (a + m) % m = a % m
<1> DEFINE b  == a + m
           ra == a % m     rb == b % m
           d  == (b \div m) - (a \div m) - 1
<1>1. a = m * (a \div m) + ra /\ a \div m \in Nat OBVIOUS
<1>2. b = m * (b \div m) + rb /\ b \div m \in Nat OBVIOUS
<1>3. ra \in 0 .. m - 1 /\ rb \in 0 .. m - 1 OBVIOUS
<1>4. m * d = ra - rb BY <1>1, <1>2
<1>5. d \in Int BY <1>1, <1>2
<1> HIDE DEF ra, rb, d
<1>6. ~(d >= 1)
  <2>1. d >= 1 => m * d >= m BY <1>5
  <2> QED BY <2>1, <1>3, <1>4
<1>7. ~(d <= -1)
  <2>1. d <= -1 => m * d <= -m BY <1>5
  <2> QED BY <2>1, <1>3, <1>4, <1>5
<1>8. d = 0 BY <1>5, <1>6, <1>7
<1> QED BY <1>3, <1>4, <1>8 DEF ra, rb

-----------------------------------------------------------------------------
(* One window.                                                             *)

\* The bits inside the window are those of the numbers in D, and D has nothing
\* past the window.
Tracks(w, D) ==
    /\ \A n \in Nat : w.base <= n /\ n < w.base + Window => (Bit(n) \in w.bits <=> n \in D)
    /\ \A n \in D : n < w.base + Window

LEMMA BitType == ASSUME NEW n \in Nat PROVE Bit(n) \in Bits
BY WindowAssumption DEF Bit, Bits

LEMMA BitGap ==
    ASSUME NEW a \in Nat, NEW b \in Nat, Bit(a) = Bit(b), a > b
    PROVE  a >= b + Window
BY ResidueGap, WindowAssumption DEF Bit

LEMMA BitShift == ASSUME NEW a \in Nat PROVE Bit(a + Window) = Bit(a)
BY ResidueShift, WindowAssumption DEF Bit

\* Numbers less than a window apart share a bit only if they are equal.
LEMMA BitOwner ==
    ASSUME NEW a \in Nat, NEW b \in Nat, Bit(a) = Bit(b),
           a < b + Window, b < a + Window
    PROVE  a = b
<1>1. a > b \/ b > a \/ a = b OBVIOUS
<1> QED BY <1>1, BitGap, WindowAssumption

LEMMA StartedType ==
    ASSUME NEW w \in Windows, NEW seq \in Nat
    PROVE  Started(w, seq) \in Windows
<1>1. CASE w.started
  BY <1>1 DEF Started
<1>2. CASE ~w.started /\ seq >= Window
  <2>1. seq - Window + 1 \in Nat BY <1>2, WindowAssumption
  <2> QED BY <1>2, <2>1 DEF Started, Windows
<1>3. CASE ~w.started /\ ~(seq >= Window)
  BY <1>3 DEF Started, Windows
<1> QED BY <1>1, <1>2, <1>3

LEMMA ReachingType ==
    ASSUME NEW w \in Windows, NEW seq \in Nat
    PROVE  Reaching(w, seq) \in Windows
<1>1. CASE seq >= w.base + Window
  <2> DEFINE nb == seq - Window + 1
  <2>1. nb \in Nat BY <1>1, WindowAssumption DEF Windows
  <2>2. w.bits \ {Bit(s) : s \in w.base .. nb - 1} \in SUBSET Bits BY DEF Windows
  <2>3. {} \in SUBSET Bits OBVIOUS
  <2> HIDE DEF nb
  <2>4. AdvanceTo(w, nb) \in Windows BY <2>1, <2>2, <2>3 DEF AdvanceTo, Windows
  <2> QED BY <1>1, <2>4 DEF Reaching, nb
<1>2. CASE ~(seq >= w.base + Window)
  BY <1>2 DEF Reaching
<1> QED BY <1>1, <1>2

\* What recording a new number does to the fields.
Marked(w, bits) == [w EXCEPT !.bits = bits, !.accepted = @ + 1]

LEMMA RecordNew ==
    ASSUME NEW w \in Windows, NEW bits \in SUBSET Bits
    PROVE  /\ Marked(w, bits) \in Windows
           /\ Marked(w, bits).base = w.base
           /\ Marked(w, bits).bits = bits
           /\ Marked(w, bits).started = w.started
           /\ Marked(w, bits).accepted = w.accepted + 1
           /\ Marked(w, bits).duplicates = w.duplicates
           /\ Marked(w, bits).too_old = w.too_old
<1> DEFINE v == Marked(w, bits)
<1>1. /\ w.started \in BOOLEAN /\ w.base \in Nat /\ w.accepted \in Nat
      /\ w.duplicates \in Nat /\ w.too_old \in Nat
  BY DEF Windows
<1>2. \A f \in {"started", "base", "bits", "accepted", "duplicates", "too_old"} :
          v[f] = IF f = "bits" THEN bits ELSE IF f = "accepted" THEN w.accepted + 1 ELSE w[f]
  BY DEF Windows, Marked
<1>6. DOMAIN v = {"started", "base", "bits", "accepted", "duplicates", "too_old"}
  BY DEF Windows, Marked
<1>7. v = [f \in DOMAIN v |-> v[f]]
  BY DEF Windows, Marked
<1> HIDE DEF v
<1>3. v \in Windows BY <1>1, <1>2, <1>6, <1>7 DEF Windows
<1>4. v.base = w.base /\ v.bits = bits /\ v.accepted = w.accepted + 1 BY <1>2
<1>5. v.started = w.started /\ v.duplicates = w.duplicates /\ v.too_old = w.too_old BY <1>2
<1> QED BY <1>3, <1>4, <1>5 DEF v

\* Sliding the window up to seq keeps it exact and brings seq inside it.
LEMMA ReachingTracks ==
    ASSUME NEW w \in Windows, NEW D \in SUBSET Nat, NEW seq \in Nat,
           Tracks(w, D), seq >= w.base
    PROVE  LET a == Reaching(w, seq) IN
           /\ Tracks(a, D)
           /\ a.base <= seq /\ seq < a.base + Window
           /\ a.started = w.started /\ a.accepted = w.accepted
           /\ a.base = w.base \/ a.base + Window - 1 = seq
<1> DEFINE a == Reaching(w, seq)  nb == seq - Window + 1  gone == w.base .. nb - 1
<1>w. Window \in Nat /\ Window > 0 /\ w.base \in Nat
  BY WindowAssumption DEF Windows
<1>1. CASE ~(seq >= w.base + Window)
  BY <1>1, <1>w DEF Reaching
<1>2. CASE seq >= w.base + Window
  <2>1. nb \in Nat /\ nb > w.base BY <1>2, <1>w
  <2>2. /\ a.base = nb /\ a.started = w.started /\ a.accepted = w.accepted
        /\ a.bits = IF nb - w.base >= Window THEN {} ELSE w.bits \ {Bit(s) : s \in gone}
    BY <1>2 DEF Reaching, AdvanceTo, Windows
  <2> HIDE DEF a
  <2>3. \A n \in D : n < nb + Window BY <1>w, <2>1 DEF Tracks
  <2>4. ASSUME NEW n \in Nat, nb <= n, n < nb + Window
        PROVE  Bit(n) \in a.bits <=> n \in D
    <3>1. CASE nb - w.base >= Window
      <4>1. n \notin D BY <1>w, <2>1, <2>4, <3>1 DEF Tracks
      <4> QED BY <2>2, <3>1, <4>1
    <3>2. CASE ~(nb - w.base >= Window) /\ n < w.base + Window
      <4>1. Bit(n) \in w.bits <=> n \in D BY <1>w, <2>1, <2>4, <3>2 DEF Tracks
      <4>2. ASSUME NEW s \in gone, Bit(s) = Bit(n) PROVE FALSE
        <5>1. s \in Nat /\ s < n /\ n < s + Window BY <1>w, <2>1, <2>4, <3>2
        <5> QED BY <4>2, <5>1, BitOwner, <1>w
      <4> QED BY <2>2, <3>2, <4>1, <4>2
    <3>3. CASE ~(nb - w.base >= Window) /\ ~(n < w.base + Window)
      <4>1. n \notin D BY <1>w, <2>4, <3>3 DEF Tracks
      <4>2. n - Window \in gone /\ n - Window \in Nat BY <1>w, <2>1, <2>4, <3>3
      <4>3. Bit(n - Window) = Bit(n)
        <5>1. Bit((n - Window) + Window) = Bit(n - Window) BY <4>2, BitShift
        <5>2. (n - Window) + Window = n BY <1>w
        <5> QED BY <5>1, <5>2
      <4> QED BY <2>2, <3>3, <4>1, <4>2, <4>3
    <3> QED BY <3>1, <3>2, <3>3
  <2>5. Tracks(a, D) BY <2>2, <2>3, <2>4 DEF Tracks
  <2>6. nb <= seq /\ seq < nb + Window /\ nb + Window - 1 = seq BY <1>w
  <2> QED BY <2>2, <2>5, <2>6 DEF a
<1> QED BY <1>1, <1>2

-----------------------------------------------------------------------------
(* A window and what it let through, as one invariant of the two.          *)

Good(w, D) ==
    /\ w \in Windows /\ D \in SUBSET Nat /\ IsFiniteSet(D)
    /\ Tracks(w, D)
    /\ w.base = 0 \/ w.base + Window - 1 \in D
    /\ ~w.started => w = Fresh /\ D = {}
    /\ w.accepted = Cardinality(D)

Total(w) == w.accepted + w.duplicates + w.too_old

LEMMA FreshIsGood == Good(Fresh, {}) /\ Total(Fresh) = 0
<1>1. Fresh \in Windows /\ Tracks(Fresh, {}) BY DEF Fresh, Windows, Tracks
<1> QED BY <1>1, FS_EmptySet DEF Good, Fresh, Total

\* The window an offered number is judged by.
LEMMA StartedFacts ==
    ASSUME NEW w, NEW D, Good(w, D), NEW seq \in Nat
    PROVE  LET s == Started(w, seq) IN
           /\ s \in Windows /\ s.started /\ s.accepted = w.accepted
           /\ Total(s) = Total(w)
           /\ Tracks(s, D)
           /\ \/ s.base = 0
              \/ s.base + Window - 1 \in D
              \/ s.base + Window - 1 = seq
<1> DEFINE s == Started(w, seq)
<1>t. w \in Windows /\ Window \in Nat \ {0} BY WindowAssumption DEF Good
<1>1. s \in Windows BY <1>t, StartedType
<1>2. CASE w.started BY <1>1, <1>2 DEF Good, Started
<1>3. CASE ~w.started
  <2>1. w = Fresh /\ D = {} BY <1>3 DEF Good
  <2>2. s = [Fresh EXCEPT !.started = TRUE, !.base = IF seq >= Window THEN seq - Window + 1 ELSE 0]
    BY <1>3, <2>1 DEF Started
  <2>3. s.started /\ s.accepted = 0 /\ s.duplicates = 0 /\ s.too_old = 0 /\ s.bits = {}
    BY <2>2 DEF Fresh
  <2>4. s.base = 0 \/ s.base + Window - 1 = seq BY <1>t, <2>2 DEF Fresh
  <2>5. Total(s) = 0 /\ Total(w) = 0 BY <2>1, <2>3, FreshIsGood DEF Total
  <2> QED BY <1>1, <2>1, <2>3, <2>4, <2>5 DEF Tracks, Fresh
<1> QED BY <1>2, <1>3

\* accept(seq) keeps the window good for what it let through, counts the number
\* in one of its three counters, and answers for a reason: "duplicate" when it
\* was let through, "too_old" when one a window newer was, "new" when neither.
LEMMA AcceptKeeps ==
    ASSUME NEW w, NEW D, Good(w, D), NEW seq \in Nat
    PROVE  /\ Good(Accept(w, seq), IF Verdict(w, seq) = "new" THEN D \cup {seq} ELSE D)
           /\ Total(Accept(w, seq)) = Total(w) + 1
           /\ Accept(w, seq).accepted =
                  IF Verdict(w, seq) = "new" THEN w.accepted + 1 ELSE w.accepted
           /\ Verdict(w, seq) \in {"new", "duplicate", "too_old"}
           /\ Verdict(w, seq) = "duplicate" => seq \in D
           /\ Verdict(w, seq) = "too_old" => \E r \in D : r - seq >= Window
           /\ Verdict(w, seq) = "new" => seq \notin D /\ ~\E r \in D : r - seq >= Window
           /\ Verdict(w, seq) = "too_old" => Accept(w, seq).too_old = w.too_old + 1
           /\ Accept(w, seq).too_old >= w.too_old
<1> DEFINE s == Started(w, seq)  a == Reaching(s, seq)  v == Verdict(w, seq)
           next == Accept(w, seq)
<1>t. /\ Window \in Nat \ {0} /\ D \in SUBSET Nat /\ IsFiniteSet(D)
      /\ w.accepted = Cardinality(D) /\ w \in Windows
  BY WindowAssumption DEF Good
<1>s. /\ s \in Windows /\ s.started /\ s.accepted = w.accepted /\ Tracks(s, D)
      /\ Total(s) = Total(w) /\ s.too_old = w.too_old
      /\ s.base = 0 \/ s.base + Window - 1 \in D \/ s.base + Window - 1 = seq
  BY StartedFacts DEF Started, Windows
<1>b. s.base \in Nat BY <1>s DEF Windows
<1>1. CASE seq < s.base
  <2>1. v = "too_old" BY <1>1 DEF Verdict
  <2>2. next = [s EXCEPT !.too_old = @ + 1] BY <2>1 DEF Accept
  <2> HIDE DEF s, v
  <2>3. s.base + Window - 1 \in D BY <1>1, <1>b, <1>s, <1>t
  <2>4. /\ next \in Windows /\ next.base = s.base /\ next.bits = s.bits
        /\ next.started /\ next.accepted = s.accepted
        /\ next.too_old = s.too_old + 1 /\ next.duplicates = s.duplicates
    BY <1>s, <2>2 DEF Windows
  <2>5. Tracks(next, D) BY <1>s, <2>4 DEF Tracks
  <2>6. Good(next, D) BY <1>s, <1>t, <2>3, <2>4, <2>5 DEF Good
  <2>7. Total(next) = Total(w) + 1
    <3>1. s.accepted \in Nat /\ s.duplicates \in Nat /\ s.too_old \in Nat BY <1>s DEF Windows
    <3> QED BY <1>s, <2>4, <3>1 DEF Total
  <2>8. \E r \in D : r - seq >= Window
    <3>1. (s.base + Window - 1) - seq >= Window BY <1>1, <1>b, <1>t
    <3> QED BY <2>3, <3>1
  <2>9. next.too_old = w.too_old + 1 /\ next.too_old >= w.too_old
    BY <1>s, <1>t, <2>4 DEF Windows
  <2>c. next.accepted = w.accepted BY <1>s, <2>4
  <2> HIDE DEF next
  <2> QED BY <2>1, <2>6, <2>7, <2>8, <2>9, <2>c DEF next, v
<1>2. CASE ~(seq < s.base)
  <2>1. seq >= s.base BY <1>2, <1>b
  <2>2. /\ Tracks(a, D) /\ a.base <= seq /\ seq < a.base + Window
        /\ a.started = s.started /\ a.accepted = s.accepted
        /\ a.base = s.base \/ a.base + Window - 1 = seq
    BY <1>s, <1>t, <2>1, ReachingTracks
  <2>3. a \in Windows BY <1>s, <1>t, ReachingType
  <2>4. Bit(seq) \in a.bits <=> seq \in D BY <1>t, <2>2 DEF Tracks
  <2>5. v = IF Bit(seq) \in a.bits THEN "duplicate" ELSE "new"
    BY <1>2 DEF Verdict
  <2>6. a.base = 0 \/ a.base + Window - 1 \in D \/ a.base + Window - 1 = seq
    BY <1>s, <2>2
  <2>7. Bit(seq) \in Bits BY <1>t, BitType
  <2>8. a.duplicates = s.duplicates /\ a.too_old = s.too_old
    BY <1>s DEF Reaching, AdvanceTo, Windows
  <2>9. a.base \in Nat /\ a.accepted \in Nat /\ a.duplicates \in Nat /\ a.too_old \in Nat
    BY <2>3 DEF Windows
  <2>r. ~\E r \in D : r - seq >= Window BY <1>b, <1>s, <1>t, <2>1, <2>2, <2>9 DEF Tracks
  <2>o. w.too_old \in Nat BY <1>t DEF Windows
  <2>a. CASE Bit(seq) \in a.bits
    <3>1. v = "duplicate" /\ seq \in D BY <2>4, <2>5, <2>a
    <3>2. next = [a EXCEPT !.duplicates = @ + 1] BY <3>1 DEF Accept
    <3> HIDE DEF a, s, v
    <3>3. /\ next \in Windows /\ next.base = a.base /\ next.bits = a.bits
          /\ next.started = a.started /\ next.accepted = a.accepted
          /\ next.duplicates = a.duplicates + 1 /\ next.too_old = a.too_old
      BY <2>3, <3>2 DEF Windows
    <3>4. Tracks(next, D) BY <2>2, <3>3 DEF Tracks
    <3>5. Good(next, D) BY <1>s, <1>t, <2>2, <2>6, <3>1, <3>3, <3>4 DEF Good
    <3>6. Total(next) = Total(w) + 1 BY <1>s, <2>2, <2>8, <2>9, <3>3 DEF Total
    <3>7. next.too_old >= w.too_old BY <1>s, <2>8, <2>o, <3>3
    <3>8. next.accepted = w.accepted BY <1>s, <2>2, <3>3
    <3> HIDE DEF next
    <3> QED BY <3>1, <3>5, <3>6, <3>7, <3>8 DEF next, v
  <2>b. CASE Bit(seq) \notin a.bits
    <3>1. v = "new" /\ seq \notin D BY <2>4, <2>5, <2>b
    <3>2. next = [a EXCEPT !.bits = @ \cup {Bit(seq)}, !.accepted = @ + 1] BY <3>1 DEF Accept
    <3> HIDE DEF a, s, v
    <3> DEFINE bits == a.bits \cup {Bit(seq)}
    <3>3. bits \in SUBSET Bits BY <2>3, <2>7 DEF Windows
    <3>4. next = Marked(a, bits) BY <3>2 DEF Marked
    <3> HIDE DEF bits
    <3>5. /\ next \in Windows /\ next.base = a.base /\ next.bits = bits
          /\ next.started = a.started /\ next.accepted = a.accepted + 1
          /\ next.duplicates = a.duplicates /\ next.too_old = a.too_old
      BY <2>3, <3>3, <3>4, RecordNew
    <3>6. next.bits = a.bits \cup {Bit(seq)} BY <3>5 DEF bits
    <3>7. ASSUME NEW n \in Nat, a.base <= n, n < a.base + Window, Bit(n) = Bit(seq)
          PROVE  n = seq
      BY <1>t, <2>2, <2>9, <3>7, BitOwner
    <3>8. Tracks(next, D \cup {seq})
      <4>1. ASSUME NEW n \in Nat, a.base <= n, n < a.base + Window
            PROVE  Bit(n) \in next.bits <=> n \in D \cup {seq}
        BY <2>2, <3>6, <3>7, <4>1 DEF Tracks
      <4>2. \A n \in D \cup {seq} : n < a.base + Window BY <2>2 DEF Tracks
      <4> QED BY <3>5, <4>1, <4>2 DEF Tracks
    <3>9. IsFiniteSet(D \cup {seq}) /\ Cardinality(D \cup {seq}) = Cardinality(D) + 1
      BY <1>t, <3>1, FS_AddElement
    <3>10. Good(next, D \cup {seq}) BY <1>s, <1>t, <2>2, <2>6, <3>5, <3>8, <3>9 DEF Good
    <3>11. Total(next) = Total(w) + 1 BY <1>s, <2>2, <2>8, <2>9, <3>5 DEF Total
    <3>12. next.too_old >= w.too_old BY <1>s, <2>8, <2>o, <3>5
    <3>13. next.accepted = w.accepted + 1 BY <1>s, <2>2, <3>5
    <3> HIDE DEF next
    <3> QED BY <2>r, <3>1, <3>10, <3>11, <3>12, <3>13 DEF next, v
  <2> QED BY <2>a, <2>b
<1> QED BY <1>1, <1>2
=============================================================================
