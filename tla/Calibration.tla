----------------------------- MODULE Calibration -----------------------------
(***************************************************************************)
(* tsc::Calibration (src/transport/include/tsc.h): the counter is compared *)
(* with the wall clock at two anchors, each the best of several tries to   *)
(* read the clock between two readings of the counter.  Time is that of    *)
(* the wall clock, and the counter makes Freq ticks in a unit of it; a try *)
(* that changes to a core whose counter is behind is discarded.            *)
(***************************************************************************)
EXTENDS Integers, Sequences

CONSTANTS
    Freq,      \* ticks in a unit of time
    Tries,     \* of sample_anchor
    Baseline,  \* time between the anchors
    MaxGap     \* bound: time between two readings

ASSUME CalibrationAssumption ==
    /\ Freq \in Nat \ {0} /\ Tries \in Nat \ {0}
    /\ Baseline \in Nat \ {0} /\ MaxGap \in Nat

VARIABLES
    time,
    tries,    \* tries of the anchor being sampled
    best,     \* the best of them, or NoAnchor
    anchors,  \* those sampled
    tried,    \* history: the brackets of the tries so far
    offered   \* history: of those of each anchor sampled

calibrationVars == <<time, tries, best, anchors, tried, offered>>

\* UINT64_MAX
Widest == 2 ^ 30

NoAnchor == [tick |-> 0, realtime |-> 0, bracket |-> Widest]

Anchors == [tick : Nat, realtime : Nat, bracket : Nat]

CalibrationTypeOK ==
    /\ time \in Nat /\ tries \in 0 .. Tries
    /\ best \in Anchors
    /\ anchors \in Seq(Anchors) /\ Len(anchors) <= 2
    /\ tried \in SUBSET Nat /\ offered \in Seq(SUBSET Nat) /\ Len(offered) = Len(anchors)

CalibrationInit ==
    /\ time = 0 /\ tries = 0 /\ best = NoAnchor /\ anchors = <<>>
    /\ tried = {} /\ offered = <<>>

-----------------------------------------------------------------------------
Middle(t0, bracket) == t0 + bracket \div 2

\* Mutant: the first try is kept, interrupted or not.
NarrowerNever(bracket) == best.bracket = Widest

Narrower(bracket) == bracket < best.bracket

\* One try: t0, the clock "before" later, t1 "after" later.
Try(before, after) ==
    LET t0      == time * Freq
        bracket == (before + after) * Freq
    IN  /\ Len(anchors) < 2 /\ tries < Tries
        /\ best' = IF Narrower(bracket)
                   THEN [tick |-> Middle(t0, bracket), realtime |-> time + before,
                         bracket |-> bracket]
                   ELSE best
        /\ time' = time + before + after
        /\ tries' = tries + 1
        /\ tried' = tried \cup {bracket}
        /\ UNCHANGED <<anchors, offered>>

\* t1 < t0
Discard ==
    /\ Len(anchors) < 2 /\ tries < Tries
    /\ tries' = tries + 1
    /\ UNCHANGED <<time, best, anchors, tried, offered>>

\* The tries are over; after the first anchor, nanosleep(), or longer.
SampleAnchor(gap) ==
    /\ Len(anchors) < 2 /\ tries = Tries
    /\ anchors' = Append(anchors, best)
    /\ time' = time + Baseline + gap
    /\ best' = NoAnchor /\ tries' = 0
    /\ offered' = Append(offered, tried) /\ tried' = {}

CalibrationNext ==
    \/ \E before, after \in 0 .. MaxGap : Try(before, after)
    \/ Discard
    \/ \E gap \in 0 .. MaxGap : SampleAnchor(gap)

CalibrationSpec == CalibrationInit /\ [][CalibrationNext]_calibrationVars

-----------------------------------------------------------------------------
(* Properties.                                                             *)

\* What a stage reports is drt / dt times its ticks: the error of that slope is no
\* more than half of one bracket at each anchor, rounded, over the baseline, and of
\* any of those tried: interruptions do no harm as long as one try of each anchor
\* had none, whichever it was.
SlopeError ==
    (Len(anchors) = 2 /\ NoAnchor \notin {anchors[1], anchors[2]}) =>
        LET dt  == anchors[2].tick - anchors[1].tick
            drt == anchors[2].realtime - anchors[1].realtime
            off == dt - drt * Freq
        IN  /\ dt > 0
            /\ \A s \in offered[1], t \in offered[2] :
                   (IF off < 0 THEN -off ELSE off) * 2 <= s + t + 1
=============================================================================
