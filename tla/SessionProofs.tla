---------------------------- MODULE SessionProofs ----------------------------
(***************************************************************************)
(* Proofs about Segment and about Session, which composes it, for any      *)
(* number of runs of the producer, any ring and any number of messages and *)
(* probes, with kills and without, with the control channel and without.   *)
(***************************************************************************)
EXTENDS Session, TLAPS

-----------------------------------------------------------------------------
(* The segment: the inductive invariant.                                   *)

SegTypes ==
    /\ inodes \in Seq(Inodes)
    /\ name \in 0 .. Len(inodes) /\ pmap \in 0 .. Len(inodes) /\ smap \in 0 .. Len(inodes)
    /\ run \in 0 .. MaxRuns /\ srun \in 0 .. run
    /\ ppc \in {"off", "truncate", "header", "slots", "publish"}
    /\ spc \in {"probe", "sleep", "open", "attach", "streams", "edge", "read"} \cup Ends
    /\ probes \in 0 .. MaxProbes /\ masked \in BOOLEAN
    /\ read_index \in 0 .. MaxMessages

LEMMA SegTypesMean == SegTypes => TypeOK
<1> SUFFICES ASSUME SegTypes PROVE TypeOK
  OBVIOUS
<1>1. {name, pmap, smap} \subseteq 0 .. Len(inodes) BY DEF SegTypes
<1>2. \A i \in 1 .. Len(inodes) : inodes[i] \in Inodes BY DEF SegTypes
<1> QED BY <1>1, <1>2 DEF SegTypes, TypeOK

\* While the producer is at work its inode is the one the name stands for, and
\* has come as far as the producer.
ProducersInode ==
    /\ ppc # "off" => pmap \in 1 .. Len(inodes) /\ name = pmap
    /\ ppc \in {"header", "slots", "publish"} => inodes[pmap].sized
    /\ run = 0 => name = None /\ inodes = <<>> /\ ppc = "off"

\* The sender has something mapped from open() on, found at a time when there
\* was a producer.
SendersInode ==
    /\ spc \in {"attach", "streams", "edge", "read"} => smap # None
    /\ spc \notin {"probe", "sleep", "gave_up"} => run > 0
    /\ spc \in {"probe", "sleep", "open"} => smap = None

\* In one run the segment found by the probe is that opened, and stays sized.
SizedStays ==
    run <= 1 => /\ spc = "open" => name = None \/ inodes[name].sized
                /\ spc = "attach" => inodes[smap].sized
                /\ spc # "sigbus"

\* Whoever opened the segment in this run opened that of its producer.
SameRun == (smap # None /\ srun = run /\ ppc # "off") => smap = pmap

SegInv == SegTypes /\ ProducersInode /\ SendersInode /\ SizedStays /\ SameRun

LEMMA SegInit == Init => SegInv
<1> SUFFICES ASSUME Init PROVE SegInv
  OBVIOUS
<1>1. <<>> \in Seq(Inodes) /\ Len(<<>>) = 0 OBVIOUS
<1>2. SegTypes
  <2>1. inodes \in Seq(Inodes) /\ Len(inodes) = 0 BY <1>1 DEF Init
  <2>2. 0 \in 0 .. MaxRuns /\ 0 \in 0 .. MaxProbes /\ 0 \in 0 .. MaxMessages /\ 0 \in 0 .. 0
    BY SegmentAssumption
  <2> QED BY <2>1, <2>2 DEF Init, SegTypes, None
<1>3. ProducersInode /\ SendersInode /\ SizedStays /\ SameRun
  BY DEF Init, ProducersInode, SendersInode, SizedStays, SameRun, None
<1> QED BY <1>2, <1>3 DEF SegInv

-----------------------------------------------------------------------------
(* The producer's steps.                                                   *)

\* What a step that changes the producer's inode does to the others.
LEMMA Written ==
    ASSUME SegInv, NEW from, NEW to, NEW i \in Inodes,
           from # "off", ProducerWrites(from, to, i)
    PROVE  /\ inodes' \in Seq(Inodes) /\ Len(inodes') = Len(inodes)
           /\ inodes'[pmap] = i /\ pmap \in 1 .. Len(inodes)
           /\ \A k \in 1 .. Len(inodes) : k # pmap => inodes'[k] = inodes[k]
BY DEF SegInv, SegTypes, ProducersInode, ProducerWrites

\* Such a step, if it keeps the inode sized and the producer at work.
LEMMA WritesStep ==
    ASSUME SegInv, NEW from, NEW to, NEW i \in Inodes,
           from \in {"truncate", "header", "slots", "publish"},
           to \in {"header", "slots", "publish"}, i.sized,
           ProducerWrites(from, to, i)
    PROVE  SegInv'
<1>1. /\ inodes' \in Seq(Inodes) /\ Len(inodes') = Len(inodes)
      /\ inodes'[pmap] = i /\ pmap \in 1 .. Len(inodes)
      /\ \A k \in 1 .. Len(inodes) : k # pmap => inodes'[k] = inodes[k]
  BY Written
<1>2. ppc = from /\ ppc' = to /\ UNCHANGED <<name, run, pmap, senderVars>>
  BY DEF ProducerWrites
<1>4. SegTypes' BY <1>1, <1>2 DEF SegInv, SegTypes, senderVars
<1>5. ProducersInode' BY <1>1, <1>2 DEF SegInv, ProducersInode
<1>6. SendersInode' /\ SameRun'
  BY <1>2 DEF SegInv, SendersInode, SameRun, senderVars
<1>7. SizedStays'
  BY <1>1, <1>2 DEF SegInv, SegTypes, ProducersInode, SendersInode, SizedStays, senderVars, None
<1> QED BY <1>4, <1>5, <1>6, <1>7 DEF SegInv

LEMMA ProducerKeeps == ASSUME SegInv, ProducerNext PROVE SegInv'
<1> USE DEF SegInv
<1>m. pmap \in 1 .. Len(inodes) => inodes[pmap] \in Inodes BY DEF SegTypes
<1>1. CASE Create
  <2>0. run \in Nat /\ run' = run + 1 /\ ppc' = "truncate" /\ pmap' = name' /\ UNCHANGED senderVars
    BY <1>1 DEF Create, SegTypes
  <2>1. CASE name = None
    <3> DEFINE new == [sized |-> FALSE, ready |-> FALSE, write_index |-> 0, newest |-> 0]
    <3>1. new \in Inodes BY SegmentAssumption DEF Inodes
    <3>2. inodes' = Append(inodes, new) /\ name' = Len(inodes') BY <1>1, <2>1 DEF Create
    <3> HIDE DEF new
    <3>3. /\ inodes' \in Seq(Inodes) /\ Len(inodes') = Len(inodes) + 1
          /\ \A k \in 1 .. Len(inodes) : inodes'[k] = inodes[k]
          /\ inodes'[Len(inodes) + 1] = new
      BY <3>1, <3>2 DEF SegTypes
    <3>4. name' \in 1 .. Len(inodes') /\ run' \in 0 .. MaxRuns /\ srun' \in 0 .. run'
      BY <1>1, <2>0, <3>2, <3>3, SegmentAssumption DEF SegTypes, Create, senderVars
    <3>5. SegTypes' BY <2>0, <3>3, <3>4 DEF SegTypes, senderVars
    <3>6. ProducersInode' BY <2>0, <3>2, <3>3 DEF SegTypes, ProducersInode
    <3>7. SendersInode' BY <2>0 DEF SendersInode, senderVars
    <3>8. SizedStays'
      BY <2>0, <3>3 DEF SegTypes, SizedStays, SendersInode, senderVars
    <3>9. SameRun' BY <2>0 DEF SegTypes, SameRun, senderVars
    <3> QED BY <3>5, <3>6, <3>7, <3>8, <3>9
  <2>2. CASE name # None
    <3>1. UNCHANGED <<name, inodes>> BY <1>1, <2>2 DEF Create
    <3>2. name \in 1 .. Len(inodes) BY <2>2 DEF SegTypes, None
    <3>0. run' \in 0 .. MaxRuns /\ srun' \in 0 .. run'
      BY <1>1, <2>0, SegmentAssumption DEF SegTypes, Create, senderVars
    <3>3. SegTypes' BY <2>0, <3>0, <3>1, <3>2 DEF SegTypes, senderVars
    <3>4. ProducersInode' BY <2>0, <3>1, <3>2 DEF ProducersInode
    <3>5. SendersInode' BY <2>0 DEF SendersInode, senderVars
    <3>6. SizedStays'
      BY <2>0, <2>2, <3>1 DEF SizedStays, ProducersInode, SendersInode, senderVars
    <3>7. SameRun' BY <2>0 DEF SegTypes, SameRun, senderVars
    <3> QED BY <3>3, <3>4, <3>5, <3>6, <3>7
  <2> QED BY <2>1, <2>2
<1>2. CASE Truncate
  <2> DEFINE i == [inodes[pmap] EXCEPT !.sized = TRUE]
  <2>1. ProducerWrites("truncate", "header", i) BY <1>2 DEF Truncate
  <2>2. pmap \in 1 .. Len(inodes) BY <2>1 DEF ProducerWrites, ProducersInode
  <2>3. i \in Inodes /\ i.sized BY <1>m, <2>2 DEF Inodes
  <2> HIDE DEF i
  <2> QED BY <2>1, <2>3, WritesStep
<1>3. CASE InitHeader
  <2> DEFINE i == [inodes[pmap] EXCEPT !.ready = TRUE, !.write_index = 0]
  <2>1. ProducerWrites("header", "slots", i) BY <1>3 DEF InitHeader
  <2>2. pmap \in 1 .. Len(inodes) /\ inodes[pmap].sized
    BY <2>1 DEF ProducerWrites, ProducersInode
  <2>3. i \in Inodes /\ i.sized
    <3> DEFINE h == [inodes[pmap] EXCEPT !.ready = TRUE]
    <3>1. h \in Inodes /\ h.sized BY <1>m, <2>2 DEF Inodes
    <3>2. i = [h EXCEPT !.write_index = 0] OBVIOUS
    <3> HIDE DEF h, i
    <3> QED BY <3>1, <3>2, SegmentAssumption DEF Inodes
  <2> HIDE DEF i
  <2> QED BY <2>1, <2>3, WritesStep
<1>4. CASE InitSlots
  <2> DEFINE i == [inodes[pmap] EXCEPT !.newest = 0]
  <2>1. ProducerWrites("slots", "publish", i) BY <1>4 DEF InitSlots
  <2>2. pmap \in 1 .. Len(inodes) /\ inodes[pmap].sized
    BY <2>1 DEF ProducerWrites, ProducersInode
  <2>3. i \in Inodes /\ i.sized BY <1>m, <2>2, SegmentAssumption DEF Inodes
  <2> HIDE DEF i
  <2> QED BY <2>1, <2>3, WritesStep
<1>5. CASE Publish
  <2> DEFINE w == inodes[pmap].write_index
             i == [inodes[pmap] EXCEPT !.write_index = w + 1, !.newest = w + 1]
  <2>1. ProducerWrites("publish", "publish", i) /\ w < MaxMessages BY <1>5 DEF Publish
  <2>2. pmap \in 1 .. Len(inodes) /\ inodes[pmap].sized
    BY <2>1 DEF ProducerWrites, ProducersInode
  <2>n. inodes[pmap] \in Inodes /\ w + 1 \in 0 .. MaxMessages
    BY <1>m, <2>1, <2>2, SegmentAssumption DEF Inodes
  <2>3. i \in Inodes /\ i.sized
    <3> DEFINE h == [inodes[pmap] EXCEPT !.write_index = w + 1]
    <3>1. h \in Inodes /\ h.sized BY <2>2, <2>n DEF Inodes
    <3>2. i = [h EXCEPT !.newest = w + 1] OBVIOUS
    <3> HIDE DEF h, i
    <3> QED BY <2>n, <3>1, <3>2 DEF Inodes
  <2> HIDE DEF i
  <2> QED BY <2>1, <2>3, WritesStep
<1>6. CASE Finish \/ Kill
  <2>1. /\ ppc # "off" /\ ppc' = "off" /\ pmap' = None /\ name' \in {name, None}
        /\ UNCHANGED <<inodes, run, senderVars>>
    BY <1>6 DEF Finish, Kill
  <2>2. SegTypes' BY <2>1 DEF SegTypes, senderVars, None
  <2>3. ProducersInode' /\ SendersInode' /\ SizedStays' /\ SameRun'
    BY <2>1 DEF ProducersInode, SendersInode, SizedStays, SameRun, senderVars
  <2> QED BY <2>2, <2>3
<1> QED BY <1>1, <1>2, <1>3, <1>4, <1>5, <1>6 DEF ProducerNext

-----------------------------------------------------------------------------
(* The sender's steps.                                                     *)

LEMMA SenderKeeps == ASSUME SegInv, SenderNext PROVE SegInv'
<1> USE DEF SegInv
<1>p. UNCHANGED producerVars
  BY DEF SenderNext, Approach, Probe, Sleep, Open, Attach, OpenStreams, Edge,
         ReadWild, ReadOne, ReadLapped, IdleExit
<1>q. ProducersInode' BY <1>p DEF ProducersInode, producerVars
<1>m. smap # None => inodes[smap] \in Inodes BY DEF SegTypes, None
<1>r. smap # None => inodes[smap].write_index \in 0 .. MaxMessages
                     /\ inodes[smap].newest \in 0 .. MaxMessages
  BY <1>m DEF Inodes
<1>1. CASE Probe
  <2>1. /\ spc = "probe" /\ spc' \in {"open", "gave_up", "sleep"}
        /\ spc' = "open" => name # None /\ inodes[name].sized
        /\ UNCHANGED <<smap, masked, srun, read_index>>
    BY <1>1 DEF Probe, IsThere
  <2>2. probes' \in 0 .. MaxProbes BY <1>1, SegmentAssumption DEF Probe, SegTypes
  <2>3. SegTypes' BY <1>p, <2>1, <2>2 DEF SegTypes, Ends, producerVars
  <2>4. SendersInode' BY <1>p, <2>1 DEF SegTypes, SendersInode, ProducersInode, producerVars
  <2>5. SizedStays' /\ SameRun' BY <1>p, <2>1 DEF SizedStays, SameRun, producerVars
  <2> QED BY <1>q, <2>3, <2>4, <2>5
<1>2. CASE Sleep
  <2>1. SegTypes' BY <1>2, <1>p DEF Sleep, SegTypes, producerVars
  <2>2. SendersInode' /\ SizedStays' /\ SameRun'
    BY <1>2, <1>p DEF Sleep, SendersInode, SizedStays, SameRun, producerVars
  <2> QED BY <1>q, <2>1, <2>2
<1>3. CASE Open
  <2>1. CASE name = None
    <3>1. spc = "open" /\ spc' = "open_failed" /\ UNCHANGED <<probes, smap, masked, srun, read_index>>
      BY <1>3, <2>1 DEF Open
    <3>2. SegTypes' BY <1>p, <3>1 DEF SegTypes, Ends, producerVars
    <3>3. SendersInode' /\ SizedStays' /\ SameRun'
      BY <1>p, <3>1 DEF SendersInode, SizedStays, SameRun, producerVars
    <3> QED BY <1>q, <3>2, <3>3
  <2>2. CASE name # None
    <3>1. /\ spc = "open" /\ spc' = "attach" /\ smap' = name /\ srun' = run
          /\ UNCHANGED <<probes, masked, read_index>>
      BY <1>3, <2>2 DEF Open
    <3>2. SegTypes' BY <1>p, <3>1 DEF SegTypes, producerVars
    <3>3. SendersInode' /\ SameRun'
      BY <1>p, <2>2, <3>1 DEF SendersInode, SameRun, ProducersInode, producerVars
    <3>4. SizedStays' BY <1>p, <2>2, <3>1 DEF SizedStays, producerVars
    <3> QED BY <1>q, <3>2, <3>3, <3>4
  <2> QED BY <2>1, <2>2
<1>4. CASE Attach
  <2>1. /\ spc = "attach" /\ spc' = IF inodes[smap].sized THEN "streams" ELSE "sigbus"
        /\ masked' = inodes[smap].ready
        /\ UNCHANGED <<probes, smap, srun, read_index>>
    BY <1>4 DEF Attach
  <2>2. masked' \in BOOLEAN BY <1>m, <2>1 DEF Inodes, SendersInode
  <2>3. SegTypes' BY <1>p, <2>1, <2>2 DEF SegTypes, Ends, producerVars
  <2>4. SendersInode' /\ SizedStays' /\ SameRun'
    BY <1>p, <2>1 DEF SendersInode, SizedStays, SameRun, producerVars
  <2> QED BY <1>q, <2>3, <2>4
<1>5. CASE OpenStreams \/ ReadWild \/ IdleExit
  <2>1. /\ spc \in {"streams", "read"} /\ spc' \in {"edge", "no_stream", "sigsegv", "idle"}
        /\ spc' = "edge" => spc = "streams"
        /\ UNCHANGED <<probes, smap, masked, srun, read_index>>
    BY <1>5 DEF OpenStreams, ReadWild, IdleExit
  <2>2. SegTypes' BY <1>p, <2>1 DEF SegTypes, Ends, producerVars
  <2>3. SendersInode' /\ SizedStays' /\ SameRun'
    BY <1>p, <2>1 DEF SendersInode, SizedStays, SameRun, producerVars
  <2> QED BY <1>q, <2>2, <2>3
<1>6. CASE Edge \/ ReadOne \/ ReadLapped
  <2>1. /\ spc \in {"edge", "read"} /\ spc' \in {"read", "idle"}
        /\ UNCHANGED <<probes, smap, masked, srun>>
    BY <1>6 DEF Edge, ReadOne, ReadLapped
  <2>2. smap # None BY <2>1 DEF SendersInode
  <2>3. read_index' \in 0 .. MaxMessages
    <3>1. CASE Edge BY <1>r, <2>2, <3>1, SegmentAssumption DEF Edge
    <3>2. CASE ReadOne BY <1>r, <2>2, <3>2, SegmentAssumption DEF ReadOne, SegTypes, IsOk, Empty, Newest
    <3>3. CASE ReadLapped BY <1>r, <2>2, <3>3, SegmentAssumption DEF ReadLapped, ResumeAt
    <3> QED BY <1>6, <3>1, <3>2, <3>3
  <2>4. SegTypes' BY <1>p, <2>1, <2>3 DEF SegTypes, Ends, producerVars
  <2>5. SendersInode' /\ SizedStays' /\ SameRun'
    BY <1>p, <2>1 DEF SendersInode, SizedStays, SameRun, producerVars
  <2> QED BY <1>q, <2>4, <2>5
<1> QED BY <1>1, <1>2, <1>3, <1>4, <1>5, <1>6 DEF SenderNext, Approach

LEMMA SegStep == SegInv /\ [Next]_vars => SegInv'
<1> SUFFICES ASSUME SegInv, [Next]_vars PROVE SegInv'
  OBVIOUS
<1>1. CASE UNCHANGED vars
  BY <1>1 DEF vars, producerVars, senderVars, SegInv, SegTypes, ProducersInode, SendersInode,
              SizedStays, SameRun
<1> QED BY <1>1, ProducerKeeps, SenderKeeps DEF Next

LEMMA SegInvariance == Spec => []SegInv
BY SegInit, SegStep, PTL DEF Spec

\* The properties as consequences of the invariant.
LEMMA SegMeans == SegInv => TypeOK /\ FirstRunNoSigbus /\ ReadsTheLiveRing
<1> SUFFICES ASSUME SegInv PROVE TypeOK /\ FirstRunNoSigbus /\ ReadsTheLiveRing
  OBVIOUS
<1>1. TypeOK BY SegTypesMean DEF SegInv
<1>2. FirstRunNoSigbus BY DEF SegInv, SizedStays, FirstRunNoSigbus
<1>3. ReadsTheLiveRing
  BY DEF SegInv, ReadsTheLiveRing, SameRun, SendersInode, ProducersInode
<1> QED BY <1>1, <1>2, <1>3

-----------------------------------------------------------------------------
(* The receiver's set-up.                                                  *)

LEMMA SetupSteps ==
    /\ AfterStep("off") = "truncate" /\ AfterStep("truncate") = "init"
    /\ AfterStep("init") = "bind" /\ AfterStep("bind") = "listen"
    /\ AfterStep("listen") = "accept" /\ AfterStep("accept") = "loop"
<1>1. DOMAIN Setup = 1 .. 7 BY DEF Setup
<1>2. /\ Setup[1] = "off" /\ Setup[2] = "truncate" /\ Setup[3] = "init" /\ Setup[4] = "bind"
      /\ Setup[5] = "listen" /\ Setup[6] = "accept" /\ Setup[7] = "loop"
  BY DEF Setup
<1>3. \A k \in 1 .. 7 : k = 1 \/ k = 2 \/ k = 3 \/ k = 4 \/ k = 5 \/ k = 6 \/ k = 7 OBVIOUS
<1>4. \A n \in 1 .. 7 : (CHOOSE k \in 1 .. 7 : Setup[k] = Setup[n]) = n
  <2>1. \A n, k \in 1 .. 7 : Setup[k] = Setup[n] => k = n BY <1>2, <1>3
  <2> QED BY <2>1
<1> QED BY <1>1, <1>2, <1>4 DEF AfterStep

LEMMA SetupPassed ==
    /\ Passed("truncate") <=> rpc \in {"init", "bind", "listen", "accept", "loop"}
    /\ Passed("init") <=> rpc \in {"bind", "listen", "accept", "loop"}
    /\ Passed("bind") <=> rpc \in {"listen", "accept", "loop"}
    /\ Passed("listen") <=> rpc \in {"accept", "loop"}
<1>1. Len(Setup) = 7 BY DEF Setup
<1>2. /\ Setup[1] = "off" /\ Setup[2] = "truncate" /\ Setup[3] = "init" /\ Setup[4] = "bind"
      /\ Setup[5] = "listen" /\ Setup[6] = "accept" /\ Setup[7] = "loop"
  BY DEF Setup
<1>3. \A k \in 1 .. 7 : k = 1 \/ k = 2 \/ k = 3 \/ k = 4 \/ k = 5 \/ k = 6 \/ k = 7 OBVIOUS
<1>4. \A step : Passed(step) <=>
          rpc # "exit" /\ \E j, k \in 1 .. 7 : Setup[j] = step /\ Setup[k] = rpc /\ j < k
  BY <1>1 DEF Passed
<1> QED BY <1>2, <1>3, <1>4

LEMMA SetupStates ==
    ToSet(Setup) = {"off", "truncate", "init", "bind", "listen", "accept", "loop"}
<1>1. DOMAIN Setup = 1 .. 7 BY DEF Setup
<1>2. /\ Setup[1] = "off" /\ Setup[2] = "truncate" /\ Setup[3] = "init" /\ Setup[4] = "bind"
      /\ Setup[5] = "listen" /\ Setup[6] = "accept" /\ Setup[7] = "loop"
  BY DEF Setup
<1>3. \A k \in 1 .. 7 : k = 1 \/ k = 2 \/ k = 3 \/ k = 4 \/ k = 5 \/ k = 6 \/ k = 7 OBVIOUS
<1> QED BY <1>1, <1>2, <1>3 DEF ToSet

-----------------------------------------------------------------------------
(* The session: the inductive invariant.                                   *)

OuterTypes ==
    /\ ordered \in BOOLEAN /\ lapped \in BOOLEAN
    /\ hs \in {"off", "connect", "greeted", "failed"}
    /\ rpc \in {"off", "truncate", "init", "bind", "listen", "accept", "loop", "exit"}
    /\ cpc \in {"off", "read", "exit", "open_failed", "sigbus", "wild"}
    /\ start \in 0 .. MaxMessages
    /\ net \in Seq(1 .. MaxMessages) /\ ring \in Seq(1 .. MaxMessages)
    /\ cstart \in 0 .. cread /\ cread \in 0 .. Len(ring)
    /\ early \subseteq {"sender", "receiver", "consumer"}

\* Nobody is ahead of whom it waits for.
InTurn ==
    /\ hs # "greeted" => spc = "probe"
    /\ Control /\ hs = "greeted" => rpc \in {"loop", "exit"}
    /\ ordered /\ hs # "off" => cpc # "off"
    /\ ordered => cpc \in {"off", "read", "exit"}
    /\ ordered /\ cpc # "off" => cstart = 0

Reading == {"read", "idle", "sigsegv"}

NothingSentYet == spc \notin Reading => net = <<>> /\ ring = <<>>

\* In the first run a ring has its write index in its slots, 0 before it is
\* initialised, and the sender does not pass it.
FirstRunRing ==
    run <= 1 =>
        /\ \A k \in 1 .. Len(inodes) : inodes[k].newest = inodes[k].write_index
        /\ ppc \in {"truncate", "header", "slots"} => inodes[pmap].write_index = 0
        /\ spc = "read" => read_index <= inodes[smap].write_index

\* At most one run, in the documented order, and nobody lapped or out of patience.
Smooth == ordered /\ Control /\ run <= 1 /\ early = {} /\ ~lapped

\* What the sender read since its start is in the consumer's ring or on the way.
NothingLost ==
    /\ start <= read_index /\ Len(ring) + Len(net) = read_index - start
    /\ \A k \in 1 .. Len(ring) : ring[k] = start + k
    /\ \A k \in 1 .. Len(net) : net[k] = start + Len(ring) + k

\* They end in the order in which the messages pass them.
EndsInOrder ==
    /\ spc = "idle" => ppc = "off" /\ read_index = inodes[smap].write_index
    /\ rpc = "exit" => Ended /\ net = <<>>
    /\ cpc = "exit" => Ended /\ net = <<>> /\ cread = Len(ring)

SmoothRun == Smooth => /\ spc \in {"read", "idle"} => NothingLost
                       /\ EndsInOrder

SessionInv == SegInv /\ OuterTypes /\ InTurn /\ NothingSentYet /\ FirstRunRing /\ SmoothRun

LEMMA SessionInvInit == SessionInit => SessionInv
<1> SUFFICES ASSUME SessionInit PROVE SessionInv
  OBVIOUS
<1>1. SegInv BY SegInit DEF SessionInit
<1>2. OuterTypes
  <2>1. <<>> \in Seq(1 .. MaxMessages) /\ Len(<<>>) = 0 OBVIOUS
  <2>2. 0 \in 0 .. MaxMessages /\ 0 \in 0 .. 0 BY SegmentAssumption
  <2> QED BY <2>1, <2>2 DEF SessionInit, OuterTypes
<1>3. InTurn /\ NothingSentYet BY DEF SessionInit, Init, InTurn, NothingSentYet
<1>4. FirstRunRing /\ SmoothRun BY DEF SessionInit, Init, FirstRunRing, SmoothRun, EndsInOrder, Smooth
<1> QED BY <1>1, <1>2, <1>3, <1>4 DEF SessionInv

-----------------------------------------------------------------------------
(* The steps.                                                              *)

\* A step that changes the producer's inode keeps FirstRunRing when the write
\* index does not fall and the slots follow it.
LEMMA FirstRunWrites ==
    ASSUME SegInv, FirstRunRing, NEW from, NEW to, NEW i \in Inodes,
           ProducerWrites(from, to, i), from # "off",
           i.newest = i.write_index, i.write_index >= inodes[pmap].write_index,
           to \in {"truncate", "header", "slots"} => i.write_index = 0
    PROVE  FirstRunRing'
<1> SUFFICES ASSUME run' <= 1 PROVE FirstRunRing'
  BY DEF FirstRunRing
<1> USE DEF SegInv, SegTypes
<1>i. \A x \in Inodes : x.write_index \in Nat BY DEF Inodes
<1>1. /\ inodes' \in Seq(Inodes) /\ Len(inodes') = Len(inodes)
      /\ inodes'[pmap] = i /\ pmap \in 1 .. Len(inodes)
      /\ \A k \in 1 .. Len(inodes) : k # pmap => inodes'[k] = inodes[k]
  BY Written
<1>2. ppc' = to /\ UNCHANGED <<pmap, run, spc, smap, read_index>>
  BY DEF ProducerWrites, senderVars
<1>3. \A k \in 1 .. Len(inodes') : inodes'[k].newest = inodes'[k].write_index
  BY <1>1, <1>2 DEF FirstRunRing
<1>4. ppc' \in {"truncate", "header", "slots"} => inodes'[pmap'].write_index = 0
  BY <1>1, <1>2
<1>5. ASSUME spc' = "read" PROVE read_index' <= inodes'[smap'].write_index
  <2>1. smap \in 1 .. Len(inodes) /\ read_index \in Nat
    BY <1>2, <1>5 DEF SendersInode, None
  <2>2. read_index <= inodes[smap].write_index BY <1>2, <1>5 DEF FirstRunRing
  <2>3. inodes[smap] \in Inodes /\ inodes'[smap] \in Inodes BY <1>1, <2>1
  <2>4. inodes[smap].write_index \in Nat /\ inodes'[smap].write_index \in Nat
    BY <1>i, <2>3
  <2>5. inodes'[smap].write_index >= inodes[smap].write_index
    <3>1. CASE smap = pmap BY <1>1, <3>1
    <3>2. CASE smap # pmap BY <1>1, <2>1, <2>4, <3>2
    <3> QED BY <3>1, <3>2
  <2> QED BY <1>2, <2>1, <2>2, <2>4, <2>5
<1> QED BY <1>3, <1>4, <1>5 DEF FirstRunRing

LEMMA FirstRunByProducer ==
    ASSUME SegInv, FirstRunRing, ProducerNext PROVE FirstRunRing'
<1> SUFFICES ASSUME run' <= 1 PROVE FirstRunRing'
  BY DEF FirstRunRing
<1> USE DEF SegInv, SegTypes
<1>1. CASE Create
  <2>1. run = 0 /\ inodes = <<>> /\ name = None
    BY <1>1, SegmentAssumption DEF Create, ProducersInode
  <2>2. inodes' = <<[sized |-> FALSE, ready |-> FALSE, write_index |-> 0, newest |-> 0]>>
        /\ pmap' = 1 /\ ppc' = "truncate" /\ spc' = spc
    BY <1>1, <2>1 DEF Create, senderVars
  <2>3. spc # "read" BY <2>1 DEF SendersInode
  <2>4. Len(inodes') = 1 /\ inodes'[1].newest = 0 /\ inodes'[1].write_index = 0 BY <2>2
  <2> QED BY <2>2, <2>3, <2>4 DEF FirstRunRing
<1>2. CASE Finish \/ Kill
  <2>1. ppc' = "off" /\ UNCHANGED <<inodes, run, spc, smap, read_index>>
    BY <1>2 DEF Finish, Kill, senderVars
  <2> QED BY <2>1 DEF FirstRunRing
<1>3. CASE Truncate \/ InitHeader \/ InitSlots \/ Publish
  <2> DEFINE n == inodes[pmap]
  <2>1. run' = run /\ ppc \in {"truncate", "header", "slots", "publish"}
    BY <1>3 DEF Truncate, InitHeader, InitSlots, Publish, ProducerWrites
  <2>2. pmap \in 1 .. Len(inodes) BY <2>1 DEF ProducersInode
  <2>3. n.newest = n.write_index /\ (ppc \in {"truncate", "header", "slots"} => n.write_index = 0)
    BY <2>1, <2>2 DEF FirstRunRing
  <2>4. n \in Inodes BY <2>2
  <2>5. n.write_index \in 0 .. MaxMessages BY <2>4 DEF Inodes
  <2>z. 0 \in 0 .. MaxMessages BY SegmentAssumption
  <2>6. CASE Truncate
    <3> DEFINE i == [n EXCEPT !.sized = TRUE]
    <3>1. ProducerWrites("truncate", "header", i) /\ ppc = "truncate"
      BY <2>6 DEF Truncate, ProducerWrites
    <3>2. i \in Inodes BY <2>4 DEF Inodes
    <3>3. i.write_index = n.write_index /\ i.newest = n.newest BY <2>4 DEF Inodes
    <3> HIDE DEF i
    <3>4. i.newest = i.write_index /\ i.write_index >= n.write_index /\ i.write_index = 0
      BY <2>3, <2>5, <3>1, <3>3
    <3> QED BY <3>1, <3>2, <3>4, FirstRunWrites
  <2>7. CASE InitHeader
    <3> DEFINE h == [n EXCEPT !.ready = TRUE]
               i == [n EXCEPT !.ready = TRUE, !.write_index = 0]
    <3>1. ProducerWrites("header", "slots", i) /\ ppc = "header"
      BY <2>7 DEF InitHeader, ProducerWrites
    <3>2. h \in Inodes /\ h.newest = n.newest BY <2>4 DEF Inodes
    <3>3. i = [h EXCEPT !.write_index = 0] OBVIOUS
    <3> HIDE DEF h, i
    <3>4. i \in Inodes BY <2>z, <3>2, <3>3 DEF Inodes
    <3>5. i.write_index = 0 /\ i.newest = n.newest BY <3>2, <3>3 DEF Inodes
    <3>6. i.newest = i.write_index /\ i.write_index >= n.write_index
      BY <2>3, <3>1, <3>5
    <3> QED BY <3>1, <3>4, <3>5, <3>6, FirstRunWrites
  <2>8. CASE InitSlots
    <3> DEFINE i == [n EXCEPT !.newest = 0]
    <3>1. ProducerWrites("slots", "publish", i) /\ ppc = "slots"
      BY <2>8 DEF InitSlots, ProducerWrites
    <3>2. i \in Inodes BY <2>4, <2>z DEF Inodes
    <3>3. i.write_index = n.write_index /\ i.newest = 0 BY <2>4 DEF Inodes
    <3> HIDE DEF i
    <3>4. i.newest = i.write_index /\ i.write_index >= n.write_index
      BY <2>3, <3>1, <3>3
    <3> QED BY <3>1, <3>2, <3>4, FirstRunWrites
  <2>9. CASE Publish
    <3> DEFINE w == n.write_index
               h == [n EXCEPT !.write_index = w + 1]
               i == [n EXCEPT !.write_index = w + 1, !.newest = w + 1]
    <3>1. ProducerWrites("publish", "publish", i) /\ w < MaxMessages
      BY <2>9 DEF Publish
    <3>0. w \in 0 .. MaxMessages BY <2>5
    <3>2. w + 1 \in 0 .. MaxMessages /\ w + 1 >= w
      <4> HIDE DEF w
      <4> QED BY <3>0, <3>1, SegmentAssumption
    <3>3. h \in Inodes /\ h.write_index = w + 1 BY <2>4, <3>2 DEF Inodes
    <3>4. i = [h EXCEPT !.newest = w + 1] OBVIOUS
    <3> HIDE DEF h, i
    <3>5. i \in Inodes BY <3>2, <3>3, <3>4 DEF Inodes
    <3>6. i.write_index = w + 1 /\ i.newest = w + 1 BY <3>3, <3>4 DEF Inodes
    <3>7. i.newest = i.write_index /\ i.write_index >= n.write_index BY <3>2, <3>6
    <3> QED BY <3>1, <3>5, <3>7, FirstRunWrites
  <2> QED BY <1>3, <2>6, <2>7, <2>8, <2>9
<1> QED BY <1>1, <1>2, <1>3 DEF ProducerNext

\* The sender reads where something is mapped.
LEMMA SendersView ==
    ASSUME SegInv, spc \in {"edge", "read"}
    PROVE  /\ smap \in 1 .. Len(inodes) /\ read_index \in Nat
           /\ inodes[smap].write_index \in Nat /\ inodes[smap].newest \in Nat
<1>1. smap \in 1 .. Len(inodes) /\ read_index \in Nat
  BY DEF SegInv, SegTypes, SendersInode, None
<1>2. inodes[smap] \in Inodes BY <1>1 DEF SegInv, SegTypes
<1>3. inodes[smap].write_index \in Nat /\ inodes[smap].newest \in Nat BY <1>2 DEF Inodes
<1> QED BY <1>1, <1>3

\* What is left of the invariant once the segment's part is known.
Outer == OuterTypes /\ InTurn /\ NothingSentYet /\ FirstRunRing /\ SmoothRun

LEMMA SegmentSide ==
    ASSUME SessionInv, SegInv', ProducerStep PROVE Outer'
<1> USE DEF SessionInv
<1>1. UNCHANGED outerVars /\ UNCHANGED <<spc, smap, read_index>> /\ run' >= run
  <2>1. UNCHANGED outerVars /\ UNCHANGED senderVars /\ run' \in {run, run + 1}
    BY DEF ProducerStep, ProducerNext, Create, Truncate, InitHeader, InitSlots, Publish, Finish,
           Kill, ProducerWrites
  <2> QED BY <2>1 DEF senderVars, SegInv, SegTypes
<1>2. FirstRunRing' BY FirstRunByProducer DEF ProducerStep
<1>3. OuterTypes' BY <1>1 DEF OuterTypes, outerVars
<1>4. InTurn' /\ NothingSentYet' BY <1>1 DEF InTurn, NothingSentYet, outerVars
<1>5. SmoothRun'
  <2> SUFFICES ASSUME Smooth'
               PROVE  (spc' \in {"read", "idle"} => NothingLost') /\ EndsInOrder'
    BY DEF SmoothRun
  <2>1. Smooth BY <1>1 DEF Smooth, outerVars, SegInv, SegTypes
  <2>2. spc' \in {"read", "idle"} => NothingLost'
    BY <1>1, <2>1 DEF SmoothRun, NothingLost, outerVars
  <2>3. spc # "idle"
    <3>1. ASSUME spc = "idle" PROVE FALSE
      <4>1. ppc = "off" /\ run > 0
        BY <2>1, <3>1 DEF SmoothRun, EndsInOrder, SegInv, SendersInode
      <4>2. run' = run + 1
        BY <4>1 DEF ProducerStep, ProducerNext, Create, Truncate, InitHeader, InitSlots,
                    Publish, Finish, Kill, ProducerWrites
      <4> QED BY <4>1, <4>2 DEF Smooth, SegInv, SegTypes
    <3> QED BY <3>1
  <2>4. EndsInOrder' BY <1>1, <2>1, <2>3 DEF SmoothRun, EndsInOrder, Ended, outerVars
  <2> QED BY <2>2, <2>4
<1> QED BY <1>2, <1>3, <1>4, <1>5 DEF Outer

LEMMA SenderSide ==
    ASSUME SessionInv, SegInv', SenderStep PROVE Outer'
<1> USE DEF SessionInv
<1>1. CASE SenderStart \/ Greet \/ ConnectFails
  <2>1. /\ UNCHANGED <<ordered, cpc, start, net, ring, cstart, cread, lapped, early>>
        /\ UNCHANGED <<spc, smap, read_index, inodes, ppc, pmap, run>>
    BY <1>1 DEF SenderStart, Greet, ConnectFails, vars, producerVars, senderVars
  <2>2. /\ hs \in {"off", "connect"} /\ hs' \in {"connect", "greeted", "failed"}
        /\ Control /\ hs' = "greeted" => rpc' = "loop"
        /\ rpc' = rpc \/ (rpc = "accept" /\ rpc' = "loop")
        /\ ordered => cpc # "off"
    BY <1>1, SetupSteps DEF SenderStart, Greet, ConnectFails, InTurn
  <2>3. OuterTypes' BY <2>1, <2>2 DEF OuterTypes
  <2>4. spc = "probe" BY <2>2 DEF InTurn
  <2>5. InTurn' BY <2>1, <2>2, <2>4 DEF InTurn
  <2>6. NothingSentYet' /\ FirstRunRing' BY <2>1 DEF NothingSentYet, FirstRunRing
  <2>7. SmoothRun'
    BY <2>1, <2>2, <2>4 DEF SmoothRun, Smooth, EndsInOrder, Ended
  <2> QED BY <2>3, <2>5, <2>6, <2>7 DEF Outer
<1>2. CASE SenderApproach
  <2>1. /\ hs = "greeted" /\ UNCHANGED producerVars /\ start' = read_index'
        /\ UNCHANGED <<ordered, hs, rpc, cpc, net, ring, cstart, cread, lapped, early>>
    BY <1>2 DEF SenderApproach, Approach, Probe, Sleep, Open, Attach, OpenStreams, Edge
  <2>2. spc \notin Reading /\ spc \notin Ends /\ spc' \notin {"idle", "sigsegv"}
    BY <1>2 DEF SenderApproach, Approach, Probe, Sleep, Open, Attach, OpenStreams, Edge,
                Reading, Ends
  <2>3. net = <<>> /\ ring = <<>> BY <2>2 DEF NothingSentYet
  <2>4. OuterTypes' BY <2>1 DEF OuterTypes, SegInv, SegTypes
  <2>5. InTurn' /\ NothingSentYet' BY <2>1, <2>3 DEF InTurn, NothingSentYet
  <2>6. FirstRunRing'
    <3>1. ASSUME run <= 1, spc' = "read" PROVE read_index' <= inodes'[smap'].write_index
      <4>1. /\ spc = "edge" /\ smap' = smap /\ inodes' = inodes
            /\ read_index' \in {0, inodes[smap].write_index}
        BY <1>2, <2>1, <3>1 DEF SenderApproach, Approach, Probe, Sleep, Open, Attach,
                                OpenStreams, Edge, producerVars
      <4>2. inodes[smap].write_index \in Nat BY <4>1, SendersView
      <4> QED BY <4>1, <4>2
    <3> QED BY <2>1, <3>1 DEF FirstRunRing, producerVars
  <2>7. SmoothRun'
    <3> SUFFICES ASSUME Smooth'
                 PROVE  (spc' \in {"read", "idle"} => NothingLost') /\ EndsInOrder'
      BY DEF SmoothRun
    <3>1. Smooth BY <2>1 DEF Smooth, producerVars
    <3>2. NothingLost'
      <4>1. read_index' \in Nat BY DEF SegInv, SegTypes
      <4>2. Len(net') = 0 /\ Len(ring') = 0 BY <2>1, <2>3
      <4>3. start' = read_index' BY <2>1
      <4>4. 1 .. 0 = {} OBVIOUS
      <4>0. \A n \in Nat : n <= n /\ 0 = n - n OBVIOUS
      <4>5. start' <= read_index' /\ 0 = read_index' - start' BY <4>0, <4>1, <4>3
      <4> QED BY <4>2, <4>4, <4>5 DEF NothingLost
    <3>3. rpc # "exit" /\ cpc # "exit"
      BY <2>1, <2>2, <3>1 DEF SmoothRun, EndsInOrder, Ended
    <3>4. EndsInOrder' BY <2>1, <2>2, <3>1, <3>3 DEF SmoothRun, EndsInOrder
    <3> QED BY <3>2, <3>4
  <2> QED BY <2>4, <2>5, <2>6, <2>7 DEF Outer
<1>3. CASE SendOne
  <2>1. /\ spc = "read" /\ read_index' = read_index + 1 /\ IsOk(Newest, Slots, read_index)
        /\ UNCHANGED <<spc, smap, producerVars>>
        /\ UNCHANGED <<ordered, hs, rpc, cpc, start, ring, cstart, cread, lapped, early>>
        /\ net' = IF Bound THEN Append(net, read_index') ELSE net
    BY <1>3 DEF SendOne, ReadOne
  <2>2. read_index \in Nat /\ read_index' \in 1 .. MaxMessages
    BY <2>1, SegmentAssumption DEF SegInv, SegTypes
  <2>3. OuterTypes'
    <3>1. net' \in Seq(1 .. MaxMessages)
      <4>1. net \in Seq(1 .. MaxMessages) BY DEF OuterTypes
      <4>2. Append(net, read_index') \in Seq(1 .. MaxMessages) BY <2>2, <4>1
      <4> QED BY <2>1, <4>1, <4>2
    <3> QED BY <2>1, <3>1 DEF OuterTypes
  <2>4. InTurn' /\ NothingSentYet' BY <2>1 DEF InTurn, NothingSentYet, Reading
  <2>5. FirstRunRing'
    <3>1. smap \in 1 .. Len(inodes) /\ inodes[smap].newest \in Nat BY <2>1, SendersView
    <3>4. read_index + 1 <= inodes[smap].newest BY <2>1, <2>2, <3>1 DEF IsOk, Empty, Newest
    <3> QED BY <2>1, <3>1, <3>4 DEF FirstRunRing, producerVars
  <2>6. SmoothRun'
    <3> SUFFICES ASSUME Smooth' PROVE NothingLost' /\ EndsInOrder'
      BY DEF SmoothRun
    <3>1. Smooth BY <2>1 DEF Smooth, producerVars
    <3>2. NothingLost /\ EndsInOrder BY <2>1, <3>1 DEF SmoothRun
    <3>3. rpc = "loop" /\ cpc # "exit"
      <4>1. hs = "greeted" BY <2>1 DEF InTurn
      <4>2. ~Ended BY <2>1, <4>1 DEF Ended, Ends
      <4> QED BY <3>1, <3>2, <4>1, <4>2 DEF Smooth, InTurn, EndsInOrder
    <3>4. net' = Append(net, read_index + 1) BY <2>1, <3>3, SetupPassed DEF Bound
    <3>5. /\ Len(net') = Len(net) + 1 /\ net'[Len(net) + 1] = read_index + 1
          /\ \A k \in 1 .. Len(net) : net'[k] = net[k]
      BY <3>4 DEF OuterTypes
    <3>6. Len(net) \in Nat /\ Len(ring) \in Nat /\ start \in Nat BY DEF OuterTypes
    <3>l. /\ start <= read_index' /\ Len(ring) + Len(net') = read_index' - start
          /\ read_index + 1 = start + Len(ring) + (Len(net) + 1)
      BY <2>1, <2>2, <3>2, <3>5, <3>6 DEF NothingLost
    <3>7. ASSUME NEW k \in 1 .. Len(net') PROVE net'[k] = start + Len(ring) + k
      <4>1. CASE k \in 1 .. Len(net) BY <3>2, <3>5, <4>1 DEF NothingLost
      <4>2. CASE k = Len(net) + 1 BY <3>5, <3>l, <4>2
      <4> QED BY <3>5, <3>6, <3>7, <4>1, <4>2
    <3>8. NothingLost' BY <2>1, <3>2, <3>l, <3>7 DEF NothingLost
    <3>9. EndsInOrder' BY <2>1, <3>2, <3>3 DEF EndsInOrder
    <3> QED BY <3>8, <3>9
  <2> QED BY <2>3, <2>4, <2>5, <2>6 DEF Outer
<1>4. CASE SenderLapped
  <2>1. /\ spc = "read" /\ spc' \in {"read", "idle"} /\ lapped'
        /\ read_index' = ResumeAt(inodes[smap].write_index, Slots)
        /\ UNCHANGED <<smap, producerVars>>
        /\ UNCHANGED <<ordered, hs, rpc, cpc, start, net, ring, cstart, cread>>
        /\ early' \in {early, early \cup {"sender"}}
    BY <1>4 DEF SenderLapped, ReadLapped
  <2>2. OuterTypes'
    <3>1. lapped' \in BOOLEAN BY <1>4 DEF SenderLapped
    <3> QED BY <2>1, <3>1 DEF OuterTypes
  <2>3. InTurn' /\ NothingSentYet' BY <2>1 DEF InTurn, NothingSentYet, Reading
  <2>4. FirstRunRing'
    <3>3. inodes[smap].write_index \in Nat BY <2>1, SendersView
    <3>4. read_index' <= inodes[smap].write_index
      BY <2>1, <3>3, SegmentAssumption DEF ResumeAt
    <3> QED BY <2>1, <3>4 DEF FirstRunRing, producerVars
  <2>5. SmoothRun' BY <2>1 DEF SmoothRun, Smooth
  <2> QED BY <2>2, <2>3, <2>4, <2>5 DEF Outer
<1>5. CASE SenderLeaves
  <2>1. /\ spc = "read" /\ spc' \in {"idle", "sigsegv"}
        /\ spc' = "idle" => Empty(Newest, read_index)
        /\ UNCHANGED <<smap, read_index, producerVars>>
        /\ UNCHANGED <<ordered, hs, rpc, cpc, start, net, ring, cstart, cread, lapped>>
        /\ early' = early \cup IF Pending THEN {"sender"} ELSE {}
    BY <1>5 DEF SenderLeaves, ReadWild, IdleExit
  <2>2. OuterTypes' BY <2>1 DEF OuterTypes
  <2>3. InTurn' /\ NothingSentYet' /\ FirstRunRing'
    BY <2>1 DEF InTurn, NothingSentYet, FirstRunRing, Reading, producerVars
  <2>4. SmoothRun'
    <3> SUFFICES ASSUME Smooth'
                 PROVE  (spc' \in {"read", "idle"} => NothingLost') /\ EndsInOrder'
      BY DEF SmoothRun
    <3>1. Smooth /\ ~Pending BY <2>1 DEF Smooth, producerVars
    <3>2. NothingLost /\ EndsInOrder BY <2>1, <3>1 DEF SmoothRun
    <3>3. NothingLost' BY <2>1, <3>2 DEF NothingLost
    <3>4. ppc' = "off" BY <2>1, <3>1 DEF Pending, producerVars
    <3>5. ASSUME spc' = "idle" PROVE read_index' = inodes'[smap'].write_index
      <4>1. smap \in 1 .. Len(inodes) BY <2>1, SendersView
      <4>3. inodes[smap].write_index \in Nat /\ read_index \in Nat BY <2>1, SendersView
      <4>4. /\ inodes[smap].newest = inodes[smap].write_index
            /\ read_index <= inodes[smap].write_index
        BY <2>1, <3>1, <4>1 DEF FirstRunRing, Smooth
      <4>5. read_index >= inodes[smap].newest BY <2>1, <3>5 DEF Empty, Newest
      <4> QED BY <2>1, <4>3, <4>4, <4>5 DEF producerVars
    <3>6. Ended' BY <2>1 DEF Ended, Ends
    <3>7. EndsInOrder' BY <2>1, <3>2, <3>4, <3>5, <3>6 DEF EndsInOrder
    <3> QED BY <3>3, <3>7
  <2> QED BY <2>2, <2>3, <2>4 DEF Outer
<1> QED BY <1>1, <1>2, <1>3, <1>4, <1>5 DEF SenderStep

LEMMA HeadAndTail ==
    ASSUME NEW S, NEW s \in Seq(S), s # <<>>
    PROVE  /\ Head(s) \in S /\ Head(s) = s[1]
           /\ Tail(s) \in Seq(S) /\ Len(s) \in Nat \ {0} /\ Len(Tail(s)) = Len(s) - 1
           /\ \A k \in 1 .. Len(s) - 1 : Tail(s)[k] = s[k + 1]
<1>1. Len(s) \in Nat \ {0} OBVIOUS
<1>2. 1 \in 1 .. Len(s) BY <1>1
<1>3. Head(s) = s[1] /\ s[1] \in S BY <1>1, <1>2
<1>4. Tail(s) \in Seq(S) /\ Len(Tail(s)) = Len(s) - 1 BY <1>1
<1>5. \A k \in 1 .. Len(s) - 1 : Tail(s)[k] = s[k + 1] BY <1>1
<1> QED BY <1>1, <1>3, <1>4, <1>5

LEMMA ReceiverSide ==
    ASSUME SessionInv, SegInv', ReceiverSetup \/ ReceiverLoop PROVE Outer'
<1> USE DEF SessionInv
<1>1. /\ UNCHANGED <<ordered, hs, cpc, start, cstart, cread, lapped>>
      /\ UNCHANGED <<spc, smap, read_index, inodes, ppc, pmap, run>>
  BY DEF ReceiverSetup, ReceiverLoop, ReceiveOne, ReceiverLeaves, vars, producerVars, senderVars
<1>2. FirstRunRing' BY <1>1 DEF FirstRunRing
<1>3. CASE ReceiverSetup
  <2>1. /\ rpc \in {"off", "truncate", "init", "bind", "listen", "accept"}
        /\ rpc' \in {"truncate", "init", "bind", "listen", "accept", "loop"}
        /\ rpc' = "loop" => ~Control
        /\ UNCHANGED <<net, ring, early>>
    BY <1>3, SetupSteps DEF ReceiverSetup, OuterTypes
  <2>2. OuterTypes' BY <1>1, <2>1 DEF OuterTypes
  <2>3. InTurn' /\ NothingSentYet' BY <1>1, <2>1 DEF InTurn, NothingSentYet
  <2>4. SmoothRun' BY <1>1, <2>1 DEF SmoothRun, Smooth, NothingLost, EndsInOrder, Ended
  <2> QED BY <1>2, <2>2, <2>3, <2>4 DEF Outer
<1>4. CASE ReceiveOne
  <2>1. /\ rpc = "loop" /\ net # <<>> /\ UNCHANGED <<rpc, early>>
        /\ ring' = IF IsNew(Head(net)) THEN Append(ring, Head(net)) ELSE ring
        /\ net' = Tail(net)
    BY <1>4 DEF ReceiveOne
  <2>2. /\ Head(net) \in 1 .. MaxMessages /\ Head(net) = net[1]
        /\ Tail(net) \in Seq(1 .. MaxMessages) /\ Len(net) \in Nat \ {0}
        /\ Len(Tail(net)) = Len(net) - 1
        /\ \A k \in 1 .. Len(net) - 1 : Tail(net)[k] = net[k + 1]
    <3>1. net \in Seq(1 .. MaxMessages) BY DEF OuterTypes
    <3> QED BY <2>1, <3>1, HeadAndTail
  <2>3. Len(ring) \in Nat /\ start \in Nat BY DEF OuterTypes
  <2>4. /\ ring' \in Seq(1 .. MaxMessages) /\ Len(ring') >= Len(ring) /\ Len(ring') \in Nat
    <3>1. ring \in Seq(1 .. MaxMessages) BY DEF OuterTypes
    <3>2. /\ Append(ring, Head(net)) \in Seq(1 .. MaxMessages)
          /\ Len(Append(ring, Head(net))) = Len(ring) + 1
      BY <2>2, <3>1
    <3>3. CASE ring' = ring BY <2>3, <3>1, <3>3
    <3>4. CASE ring' = Append(ring, Head(net)) BY <2>3, <3>2, <3>4
    <3> QED BY <2>1, <3>3, <3>4
  <2>5. OuterTypes' BY <1>1, <2>1, <2>2, <2>3, <2>4 DEF OuterTypes
  <2>6. spc \in Reading BY <2>1 DEF NothingSentYet
  <2>7. InTurn' /\ NothingSentYet' BY <1>1, <2>1, <2>6 DEF InTurn, NothingSentYet
  <2>8. SmoothRun'
    <3> SUFFICES ASSUME Smooth'
                 PROVE  (spc' \in {"read", "idle"} => NothingLost') /\ EndsInOrder'
      BY DEF SmoothRun
    <3>1. Smooth BY <1>1, <2>1 DEF Smooth
    <3>2. EndsInOrder' BY <1>1, <2>1, <3>1 DEF SmoothRun, EndsInOrder
    <3>3. ASSUME spc' \in {"read", "idle"} PROVE NothingLost'
      <4>1. NothingLost BY <1>1, <3>1, <3>3 DEF SmoothRun
      <4>2. Head(net) = start + Len(ring) + 1 BY <2>2, <4>1 DEF NothingLost
      <4>3. IsNew(Head(net))
        <5>1. \A k \in 1 .. Len(ring) : ring[k] # start + Len(ring) + 1
          BY <2>3, <4>1 DEF NothingLost
        <5>2. DOMAIN ring = 1 .. Len(ring) BY DEF OuterTypes
        <5> QED BY <4>2, <5>1, <5>2 DEF IsNew, ToSet
      <4>4. /\ Len(ring') = Len(ring) + 1 /\ ring'[Len(ring) + 1] = start + Len(ring) + 1
            /\ \A k \in 1 .. Len(ring) : ring'[k] = ring[k]
        BY <2>1, <4>2, <4>3 DEF OuterTypes
      <4>5. start' <= read_index' /\ Len(ring') + Len(net') = read_index' - start'
        BY <1>1, <2>1, <2>2, <2>3, <4>1, <4>4 DEF NothingLost
      <4>6. ASSUME NEW k \in 1 .. Len(ring') PROVE ring'[k] = start' + k
        <5>1. CASE k \in 1 .. Len(ring) BY <1>1, <4>1, <4>4, <5>1 DEF NothingLost
        <5>2. CASE k = Len(ring) + 1 BY <1>1, <2>3, <4>4, <5>2
        <5> QED BY <2>3, <4>4, <4>6, <5>1, <5>2
      <4>7. ASSUME NEW k \in 1 .. Len(net') PROVE net'[k] = start' + Len(ring') + k
        <5>1. k \in 1 .. Len(net) - 1 /\ k + 1 \in 1 .. Len(net) BY <2>1, <2>2, <4>7
        <5>2. net'[k] = start + Len(ring) + (k + 1) BY <2>1, <2>2, <4>1, <5>1 DEF NothingLost
        <5> QED BY <1>1, <2>3, <4>4, <5>1, <5>2
      <4> QED BY <4>5, <4>6, <4>7 DEF NothingLost
    <3> QED BY <3>2, <3>3
  <2> QED BY <1>2, <2>5, <2>7, <2>8 DEF Outer
<1>5. CASE ReceiverLeaves
  <2>1. /\ rpc = "loop" /\ rpc' = "exit" /\ net = <<>> /\ UNCHANGED <<net, ring>>
        /\ early' = early \cup IF Ended THEN {} ELSE {"receiver"}
    BY <1>5 DEF ReceiverLeaves
  <2>2. OuterTypes' BY <1>1, <2>1 DEF OuterTypes
  <2>3. InTurn' /\ NothingSentYet' BY <1>1, <2>1 DEF InTurn, NothingSentYet
  <2>4. SmoothRun'
    <3> SUFFICES ASSUME Smooth'
                 PROVE  (spc' \in {"read", "idle"} => NothingLost') /\ EndsInOrder'
      BY DEF SmoothRun
    <3>1. Smooth /\ Ended BY <1>1, <2>1 DEF Smooth
    <3>2. Ended' BY <1>1, <3>1 DEF Ended
    <3> QED BY <1>1, <2>1, <3>1, <3>2 DEF SmoothRun, NothingLost, EndsInOrder
  <2> QED BY <1>2, <2>2, <2>3, <2>4 DEF Outer
<1> QED BY <1>3, <1>4, <1>5 DEF ReceiverLoop

LEMMA ConsumerSide ==
    ASSUME SessionInv, SegInv', ConsumerStart \/ ConsumerLoop PROVE Outer'
<1> USE DEF SessionInv
<1>1. /\ UNCHANGED <<ordered, hs, rpc, start, net, ring, lapped>>
      /\ UNCHANGED <<spc, smap, read_index, inodes, ppc, pmap, run>>
  BY DEF ConsumerStart, ConsumerLoop, ConsumeOne, ConsumerLeaves, vars, producerVars, senderVars
<1>2. FirstRunRing' /\ NothingSentYet' BY <1>1 DEF FirstRunRing, NothingSentYet
<1>l. Len(ring) \in Nat /\ cread \in 0 .. Len(ring) /\ cstart \in 0 .. cread BY DEF OuterTypes
<1>3. CASE ConsumerStart
  <2>1. /\ cpc = "off" /\ cpc' \in {"open_failed", "sigbus", "wild", "read"}
        /\ ordered => Announced
        /\ cread' \in {0, Len(ring)} /\ cstart' = cread' /\ UNCHANGED early
    BY <1>3 DEF ConsumerStart
  <2>2. ordered => cpc' = "read"
    BY <1>3, SetupPassed DEF ConsumerStart, Announced
  <2>3. OuterTypes' BY <1>1, <1>l, <2>1 DEF OuterTypes
  <2>4. InTurn'
    <3>1. ASSUME ordered PROVE cstart' = 0
      <4>1. spc = "probe" BY <2>1, <3>1 DEF InTurn
      <4>2. Len(ring) = 0 BY <4>1 DEF NothingSentYet, Reading
      <4> QED BY <2>1, <4>2
    <3> QED BY <1>1, <2>1, <2>2, <3>1 DEF InTurn
  <2>5. SmoothRun'
    BY <1>1, <2>1 DEF SmoothRun, Smooth, NothingLost, EndsInOrder, Ended
  <2> QED BY <1>2, <2>3, <2>4, <2>5 DEF Outer
<1>4. CASE ConsumeOne
  <2>1. cpc = "read" /\ cread < Len(ring) /\ cread' = cread + 1 /\ UNCHANGED <<cpc, cstart, early>>
    BY <1>4 DEF ConsumeOne
  <2>2. OuterTypes' BY <1>1, <1>l, <2>1 DEF OuterTypes
  <2>3. InTurn' BY <1>1, <2>1 DEF InTurn
  <2>4. SmoothRun'
    BY <1>1, <2>1 DEF SmoothRun, Smooth, NothingLost, EndsInOrder, Ended
  <2> QED BY <1>2, <2>2, <2>3, <2>4 DEF Outer
<1>5. CASE ConsumerLeaves
  <2>1. /\ cpc = "read" /\ cpc' = "exit" /\ cread = Len(ring) /\ UNCHANGED <<cstart, cread>>
        /\ early' = early \cup IF RingClosed THEN {} ELSE {"consumer"}
    BY <1>5 DEF ConsumerLeaves
  <2>2. OuterTypes' BY <1>1, <2>1 DEF OuterTypes
  <2>3. InTurn' BY <1>1, <2>1 DEF InTurn
  <2>4. SmoothRun'
    <3> SUFFICES ASSUME Smooth'
                 PROVE  (spc' \in {"read", "idle"} => NothingLost') /\ EndsInOrder'
      BY DEF SmoothRun
    <3>1. Smooth /\ RingClosed BY <1>1, <2>1 DEF Smooth
    <3>2. Ended /\ net = <<>> BY <3>1 DEF RingClosed, SmoothRun, EndsInOrder
    <3>3. Ended' BY <1>1, <3>2 DEF Ended
    <3> QED BY <1>1, <2>1, <3>1, <3>2, <3>3 DEF SmoothRun, NothingLost, EndsInOrder
  <2> QED BY <1>2, <2>2, <2>3, <2>4 DEF Outer
<1> QED BY <1>3, <1>4, <1>5 DEF ConsumerLoop

-----------------------------------------------------------------------------
(* The theorems.                                                           *)

\* Whatever the others do, the segment changes by a step of its own or not.
LEMMA SessionSteps == [SessionNext]_sessionVars => [Next]_vars
BY DEF SessionNext, sessionVars, ProducerStep, SenderStep, SenderStart, Greet, ConnectFails,
       SenderApproach, SendOne, SenderLapped, SenderLeaves, ReceiverSetup, ReceiverLoop,
       ReceiveOne, ReceiverLeaves, ConsumerStart, ConsumerLoop, ConsumeOne, ConsumerLeaves,
       Next, SenderNext

LEMMA SessionStep == SessionInv /\ [SessionNext]_sessionVars => SessionInv'
<1> SUFFICES ASSUME SessionInv, [SessionNext]_sessionVars PROVE SessionInv'
  OBVIOUS
<1>1. SegInv' BY SegStep, SessionSteps DEF SessionInv
<1>2. Outer'
  <2>1. CASE UNCHANGED sessionVars
    BY <2>1 DEF sessionVars, outerVars, vars, producerVars, senderVars, SessionInv, Outer,
                OuterTypes, InTurn, NothingSentYet, FirstRunRing, SmoothRun, Smooth,
                NothingLost, EndsInOrder, Ended
  <2> QED BY <1>1, <2>1, SegmentSide, SenderSide, ReceiverSide, ConsumerSide DEF SessionNext
<1> QED BY <1>1, <1>2 DEF SessionInv, Outer

LEMMA SessionInvariance == SessionSpec => []SessionInv
BY SessionInvInit, SessionStep, PTL DEF SessionSpec

\* A session adds to the life of the producer's segment and changes nothing in
\* it: whatever the receiver and the consumer do, the producer of producer.cpp
\* and the sender's wait_for_segment behave as Segment says.
THEOREM SessionIsASegmentsLife == SessionSpec => Spec
<1>1. SessionInit => Init BY DEF SessionInit
<1> QED BY <1>1, SessionSteps, PTL DEF SessionSpec, Spec

\* The size that wait_for_segment checks before it opens the segment is enough
\* in one run of the producer: Ring::attach touches no page that is not there.
THEOREM NoSigbusInFirstRun == Spec => []FirstRunNoSigbus
BY SegInvariance, SegMeans, PTL

\* While the producer of the run it attached in publishes, what the sender has
\* mapped is what that producer fills and what shm_open leads others to.
THEOREM SenderReadsLiveRing == Spec => []ReadsTheLiveRing
BY SegInvariance, SegMeans, PTL

\* The variables of the four programs of a session keep to what they stand for.
THEOREM SessionTypeCorrect == SessionSpec => []SessionTypeOK
<1>1. SessionInv => SessionTypeOK
  <2> SUFFICES ASSUME SessionInv PROVE SessionTypeOK
    OBVIOUS
  <2>1. TypeOK BY SegMeans DEF SessionInv
  <2>2. ToSet(net) \subseteq 1 .. MaxMessages /\ ToSet(ring) \subseteq 1 .. MaxMessages
    <3>1. ASSUME NEW S, NEW s \in Seq(S) PROVE ToSet(s) \subseteq S
      BY DEF ToSet
    <3> QED BY <3>1 DEF SessionInv, OuterTypes
  <2>3. rpc \in ToSet(Setup) \cup {"exit"} BY SetupStates DEF SessionInv, OuterTypes
  <2> QED BY <2>1, <2>2, <2>3 DEF SessionInv, OuterTypes, SessionTypeOK
<1> QED BY <1>1, SessionInvariance, PTL

\* The hello of control.h keeps the sender from streaming before the receiver's
\* socket is bound, in whatever order the programs are started; and a consumer
\* started at the receiver's announcement finds its ring whole.
THEOREM TooEarlyNever == SessionSpec => []NobodyTooEarly
<1>1. SessionInv => NobodyTooEarly
  BY SetupPassed DEF SessionInv, InTurn, NobodyTooEarly, Bound
<1> QED BY <1>1, SessionInvariance, PTL

\* Started as the documents say, with one run of the producer, nobody lapped and
\* nobody out of patience, the consumer gets all that was published after the
\* sender read the live edge, in order and without a gap.
THEOREM BeginningOnlyIsMissed == SessionSpec => []OnlyTheBeginningIsMissed
<1>1. SessionInv => OnlyTheBeginningIsMissed
  <2> SUFFICES ASSUME SessionInv, ordered, Control, run = 1, early = {}, ~lapped,
                      spc \in {"read", "idle"}
               PROVE  /\ ring \o net = [k \in 1 .. read_index - start |-> start + k]
                      /\ spc = "idle" => read_index = inodes[smap].write_index
                      /\ cpc = "exit" => got = ring /\ net = <<>>
    BY DEF OnlyTheBeginningIsMissed
  <2>1. NothingLost /\ EndsInOrder
    BY DEF SessionInv, SmoothRun, Smooth
  <2>2. /\ ring \in Seq(1 .. MaxMessages) /\ net \in Seq(1 .. MaxMessages)
        /\ Len(ring) \in Nat /\ Len(net) \in Nat /\ start \in Nat /\ read_index \in Nat
    BY DEF SessionInv, OuterTypes, SegInv, SegTypes
  <2>3. ring \o net = [k \in 1 .. read_index - start |-> start + k]
    <3>1. \A k \in 1 .. Len(ring) + Len(net) :
              (ring \o net)[k] = IF k <= Len(ring) THEN ring[k] ELSE net[k - Len(ring)]
      BY <2>2
    <3>2. ring \o net = [k \in 1 .. Len(ring) + Len(net) |-> (ring \o net)[k]]
      <4> DEFINE s == ring \o net
      <4>1. s \in Seq(1 .. MaxMessages) /\ Len(s) = Len(ring) + Len(net) BY <2>2
      <4> HIDE DEF s
      <4>2. s = [k \in 1 .. Len(s) |-> s[k]] BY <4>1
      <4> QED BY <4>1, <4>2 DEF s
    <3>3. ASSUME NEW k \in 1 .. Len(ring) + Len(net) PROVE (ring \o net)[k] = start + k
      <4>1. CASE k <= Len(ring) BY <2>1, <2>2, <3>1, <4>1 DEF NothingLost
      <4>2. CASE ~(k <= Len(ring))
        <5>1. k - Len(ring) \in 1 .. Len(net) BY <2>2, <4>2
        <5>2. net[k - Len(ring)] = start + Len(ring) + (k - Len(ring))
          BY <2>1, <5>1 DEF NothingLost
        <5> QED BY <2>2, <3>1, <4>2, <5>2
      <4> QED BY <4>1, <4>2
    <3>4. Len(ring) + Len(net) = read_index - start BY <2>1 DEF NothingLost
    <3> QED BY <3>2, <3>3, <3>4
  <2>4. ASSUME cpc = "exit" PROVE got = ring /\ net = <<>>
    <3>1. cstart = 0 /\ cread = Len(ring) /\ net = <<>>
      BY <2>1, <2>4 DEF SessionInv, InTurn, EndsInOrder
    <3>2. SubSeq(ring, 1, Len(ring)) = ring BY <2>2
    <3> QED BY <3>1, <3>2 DEF got
  <2> QED BY <2>1, <2>3, <2>4 DEF EndsInOrder
<1> QED BY <1>1, SessionInvariance, PTL
=============================================================================
