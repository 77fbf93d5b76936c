----------------------------- MODULE Histogram -----------------------------
(***************************************************************************)
(* hist::Histogram (src/transport/include/hist.h): the log-linear buckets  *)
(* and the percentiles read from them, which every stage of the sender and *)
(* the receiver reports.  The mean's sum_ is left out, and a probability   *)
(* is a fraction p / Denominator computed without rounding.                *)
(***************************************************************************)
EXTENDS Integers, FiniteSetsExt, Functions

CONSTANTS
    SubBits,     \* kSubBits
    MaxPow2,     \* kMaxPow2
    Values,      \* the values that may be recorded
    Denominator, \* of the probabilities asked for
    MaxSamples   \* bound on the values in both histograms; 0 is no bound

ASSUME HistogramAssumption ==
    /\ SubBits \in 1 .. 16 /\ MaxPow2 \in Nat /\ MaxPow2 > SubBits
    /\ Values \subseteq Nat /\ Denominator \in Nat \ {0} /\ MaxSamples \in Nat

VARIABLES
    h,       \* the histogram
    other,   \* a second one, to merge from
    samples, \* history: the values in h, each in a pair with its number
    samplesOfOther

histogramVars == <<h, other, samples, samplesOfOther>>

kSub       == 2 ^ SubBits
kMaxOctave == MaxPow2 - SubBits + 1
kBuckets   == (kMaxOctave + 1) * kSub
Buckets    == 0 .. kBuckets - 1

-----------------------------------------------------------------------------
(* The buckets.                                                            *)

\* 63 - clzll: the position of the leading one.
Log2(value) == CHOOSE k \in 0 .. value : 2 ^ k <= value /\ value < 2 ^ (k + 1)

\* Mutant: the octaves start one too low, so two of them share buckets.
BucketOfShifted(value) ==
    IF value < kSub THEN value
    ELSE LET k == Log2(value) IN
         IF k > MaxPow2 THEN kBuckets - 1
         ELSE (k - SubBits) * kSub + value \div 2 ^ (k - SubBits) - kSub

\* bucket_of: exact below kSub, then kSub buckets to the octave; what is past
\* the last octave saturates.
BucketOf(value) ==
    IF value < kSub THEN value
    ELSE LET k == Log2(value) IN
         IF k > MaxPow2 THEN kBuckets - 1
         ELSE (k - SubBits + 1) * kSub + value \div 2 ^ (k - SubBits) - kSub

BucketLower(index) ==
    IF index < kSub THEN index
    ELSE (kSub + (index % kSub)) * 2 ^ (index \div kSub - 1)

BucketUpper(index) ==
    IF index < kSub THEN index
    ELSE BucketLower(index) + 2 ^ (index \div kSub - 1) - 1

-----------------------------------------------------------------------------
(* The object.                                                             *)

FreshHistogram == [counts |-> [i \in Buckets |-> 0], count |-> 0, min |-> 0, max |-> 0]

Recorded(g, value) ==
    [counts |-> [g.counts EXCEPT ![BucketOf(value)] = @ + 1],
     count  |-> g.count + 1,
     min    |-> IF g.count = 0 \/ value < g.min THEN value ELSE g.min,
     max    |-> IF value > g.max THEN value ELSE g.max]

\* Mutant: an empty histogram's min is merged as if it were a value.
MergedUnguarded(g, from) ==
    [counts |-> [i \in Buckets |-> g.counts[i] + from.counts[i]],
     count  |-> g.count + from.count,
     min    |-> IF g.count = 0 \/ from.min < g.min THEN from.min ELSE g.min,
     max    |-> IF from.max > g.max THEN from.max ELSE g.max]

Merged(g, from) ==
    [counts |-> [i \in Buckets |-> g.counts[i] + from.counts[i]],
     count  |-> g.count + from.count,
     min    |-> IF from.count # 0 /\ (g.count = 0 \/ from.min < g.min)
                THEN from.min ELSE g.min,
     max    |-> IF from.count # 0 /\ from.max > g.max THEN from.max ELSE g.max]

\* Nearest rank of p / Denominator among n values.
CeilDiv(a, b) == (a + b - 1) \div b
Rank(p, n)    == IF p = 0 THEN 1 ELSE CeilDiv(p * n, Denominator)

\* Values in buckets 0 .. i.
Cumulative(g, i) == SumFunctionOnSet(g.counts, 0 .. i)

Percentile(g, p) ==
    IF g.count = 0 THEN 0
    ELSE IF p = 0 THEN g.min
    ELSE IF p = Denominator THEN g.max
    ELSE LET i  == CHOOSE i \in Buckets :
                       /\ Cumulative(g, i) >= Rank(p, g.count)
                       /\ i > 0 => Cumulative(g, i - 1) < Rank(p, g.count)
             hi == BucketUpper(i)
         IN  IF hi > g.max THEN g.max ELSE hi

-----------------------------------------------------------------------------
HistogramInit ==
    /\ h = FreshHistogram /\ other = FreshHistogram
    /\ samples = {} /\ samplesOfOther = {}

\* The number of the next sample, which no earlier one has.
Samples == Cardinality(samples \cup samplesOfOther)

Record(value) ==
    /\ MaxSamples = 0 \/ Samples < MaxSamples
    /\ h' = Recorded(h, value)
    /\ samples' = samples \cup {<<Samples, value>>}
    /\ UNCHANGED <<other, samplesOfOther>>

\* The histogram is put aside and a new one taken into use.
Swap ==
    /\ other = FreshHistogram /\ h # FreshHistogram
    /\ other' = h /\ samplesOfOther' = samples
    /\ h' = FreshHistogram /\ samples' = {}

Merge ==
    /\ h' = Merged(h, other) /\ samples' = samples \cup samplesOfOther
    /\ other' = FreshHistogram /\ samplesOfOther' = {}

HistogramNext == (\E value \in Values : Record(value)) \/ Swap \/ Merge

HistogramSpec == HistogramInit /\ [][HistogramNext]_histogramVars

-----------------------------------------------------------------------------
(* Properties.                                                             *)

HistogramTypeOK ==
    /\ h.counts \in [Buckets -> Nat] /\ h.count \in Nat
    /\ h.min \in Values \cup {0} /\ h.max \in Values \cup {0}
    /\ h.count = Cumulative(h, kBuckets - 1)

\* A bucket counts the values recorded between its two bounds, the last one all
\* from its lower bound on; the buckets leave no gap, and none is wider than
\* its lower bound over kSub, which is the error the reports have.
BucketsPartition ==
    \A i \in Buckets :
        /\ h.counts[i] = Cardinality({s \in samples :
                             /\ BucketLower(i) <= s[2]
                             /\ i < kBuckets - 1 => s[2] <= BucketUpper(i)})
        /\ i > 0 => BucketLower(i) = BucketUpper(i - 1) + 1
        /\ (BucketUpper(i) - BucketLower(i)) * kSub <= BucketLower(i)

\* The nearest-rank percentile of the values themselves.
AtMost(v) == Cardinality({s \in samples : s[2] <= v})
Exact(p)  == Min({v \in {s[2] : s \in samples} :
                    AtMost(v) >= Rank(p, Cardinality(samples))})

\* A percentile is never better than the exact one and worse by no more than
\* the width of one bucket, also after merging; min and max are exact.  It takes
\* values below 2^(MaxPow2 + 1).
PercentilesClose ==
    \A p \in 0 .. Denominator :
        LET exact == Exact(p) IN
        samples # {} /\ (\A s \in samples : s[2] < 2 ^ (MaxPow2 + 1)) =>
            /\ Percentile(h, p) >= exact
            /\ (Percentile(h, p) - exact) * kSub <= exact
            /\ p \in {0, Denominator} => Percentile(h, p) = exact
=============================================================================
