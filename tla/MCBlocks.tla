------------------------------ MODULE MCBlocks ------------------------------
(***************************************************************************)
(* The sequential classes for TLC, one at a time: a behaviour is that of   *)
(* the duplicate filter, the datagram format, the histogram, the fan-out   *)
(* of one stream, a calibration or the producer's pacing.                  *)
(***************************************************************************)
EXTENDS DedupWindow, Wire, Histogram, Fanout, Calibration, Producer

VARIABLE block

\* Numbers three windows of four long.
MCSeqs == 0 .. 11

\* Frames of which two of the longest, or up to six, fit the buffer of 15.
MCFrameLens == {0, 1, 3, 4}

\* Four buckets to the octave and four octaves: the bounds of exact, of linear
\* and of last buckets, and a value past the last.
MCValues == {0, 3, 4, 7, 8, 9, 13, 31, 32, 63, 70}

\* No rate, and two that do not divide the second of eleven.
MCRates == {0, 3, 5}

blockVars == <<vars, wireVars, histogramVars, fanoutVars, calibrationVars, producerVars, block>>

BlocksInit ==
    /\ block \in {"dedup", "wire", "histogram", "fanout", "calibration", "producer"}
    /\ Init /\ WireInit /\ HistogramInit /\ FanoutInit /\ CalibrationInit
    /\ ProducerInit /\ (block # "producer" => rate = 0)

\* A step of the block named, which leaves the variables of the others alone.
Only(b, step, others) == block = b /\ step /\ UNCHANGED <<block, others>>

BlocksNext ==
    \/ Only("dedup", Next, <<wireVars, histogramVars, fanoutVars, calibrationVars, producerVars>>)
    \/ Only("wire", WireNext, <<vars, histogramVars, fanoutVars, calibrationVars, producerVars>>)
    \/ Only("histogram", HistogramNext, <<vars, wireVars, fanoutVars, calibrationVars, producerVars>>)
    \/ Only("fanout", FanoutNext, <<vars, wireVars, histogramVars, calibrationVars, producerVars>>)
    \/ Only("calibration", CalibrationNext, <<vars, wireVars, histogramVars, fanoutVars, producerVars>>)
    \/ Only("producer", ProducerNext, <<vars, wireVars, histogramVars, fanoutVars, calibrationVars>>)

BlocksSpec == BlocksInit /\ [][BlocksNext]_blockVars

\* All the objects keep to their types.
BlocksTypeOK == /\ TypeOK /\ WireTypeOK /\ HistogramTypeOK /\ FanoutTypeOK
                /\ CalibrationTypeOK /\ ProducerTypeOK
=============================================================================
