--------------------------- MODULE HandshakeProofs ---------------------------
(***************************************************************************)
(* Proofs about Handshake for any number of senders, any backlog and any   *)
(* number of attempts, with and without crashes: type correctness, and     *)
(* that only the one sender that was agreed with streams.                  *)
(***************************************************************************)
EXTENDS Handshake, TLAPS

-----------------------------------------------------------------------------
(* The inductive invariant.                                                *)

\* The receiver talks to a sender between accept() and its verdict, and has
\* accepted nobody until then.
VerdictPending ==
    /\ rpc \in {"hello", "ack"} => conn \in Senders
    /\ rpc \in {"start", "accept", "hello", "ack"} => \A s \in Senders : acks[s] # "ok"

\* An "ok" went to one sender only, the one the receiver took.
OkToOne == \A s \in Senders : acks[s] = "ok" => runs = s /\ Speaks[s]

\* Who streams has read an "ok", and who ended well has streamed.
StreamsOnOk == \A s \in Senders :
    (spc[s] = "run" \/ (spc[s] = "exit" /\ code[s] = 0)) => acks[s] = "ok"

TakenSpeaks == runs # NoOne => Speaks[runs]

TriesLeft == \A s \in Senders : spc[s] = "connect" => tries[s] < MaxTries

IndInv == TypeOK /\ TriesLeft /\ VerdictPending /\ OkToOne /\ StreamsOnOk /\ TakenSpeaks

LEMMA IndInit == Init => IndInv
<1> SUFFICES ASSUME Init PROVE IndInv
  OBVIOUS
<1>1. <<>> \in Seq(Senders) /\ Len(<<>>) <= Backlog BY HandshakeAssumption
<1>2. TypeOK BY <1>1, HandshakeAssumption DEF Init, TypeOK
<1>3. TriesLeft /\ VerdictPending /\ OkToOne /\ StreamsOnOk /\ TakenSpeaks
  BY HandshakeAssumption DEF Init, TriesLeft, VerdictPending, OkToOne, StreamsOnOk, TakenSpeaks
<1> QED BY <1>2, <1>3 DEF IndInv

-----------------------------------------------------------------------------
(* Types.                                                                  *)

LEMMA TypeReceiver == ASSUME IndInv, ReceiverSetup \/ ReceiverEnds \/ ReceiverCrash PROVE TypeOK' /\ TriesLeft'
<1> USE DEF IndInv, TypeOK, TriesLeft, VerdictPending
<1>0. <<>> \in Seq(Senders) /\ Len(<<>>) <= Backlog BY HandshakeAssumption
<1>1. CASE ListenOn BY <1>1 DEF ListenOn
<1>2. CASE Accept
  <2>1. Head(queue) \in Senders /\ Tail(queue) \in Seq(Senders) /\ Len(Tail(queue)) <= Backlog
    BY <1>2, HandshakeAssumption DEF Accept
  <2> QED BY <1>2, <2>1 DEF Accept
<1>3. CASE ReadHello BY <1>3 DEF ReadHello
<1>4. CASE HelloCut BY <1>0, <1>4 DEF HelloCut, Shut
<1>5. CASE WriteAck
  <2>1. conn \in Senders BY <1>5 DEF WriteAck
  <2>2. CASE Taken(conn) BY <1>5, <2>1, <2>2 DEF WriteAck
  <2>3. CASE ~Taken(conn) BY <1>0, <1>5, <2>1, <2>3 DEF WriteAck, Shut
  <2> QED BY <2>2, <2>3
<1>6. CASE ReceiverEnds BY <1>0, <1>6 DEF ReceiverEnds, Shut
<1>7. CASE ReceiverCrash BY <1>0, <1>7 DEF ReceiverCrash, Shut
<1> QED BY <1>1, <1>2, <1>3, <1>4, <1>5, <1>6, <1>7 DEF ReceiverSetup

LEMMA TypeSender ==
    ASSUME IndInv, NEW s \in Senders, SenderStep(s) \/ SenderCrash(s)
    PROVE  TypeOK' /\ TriesLeft'
<1> USE DEF IndInv, TypeOK, TriesLeft
<1>1. CASE Connect(s)
  <2>1. queue' \in Seq(Senders) /\ Len(queue') <= Backlog
    BY <1>1, HandshakeAssumption DEF Connect
  <2> QED BY <1>1, <2>1 DEF Connect
<1>2. CASE ConnectRefused(s)
  <2>1. tries' \in [Senders -> 0 .. MaxTries] BY <1>2, HandshakeAssumption DEF ConnectRefused
  <2>3. ~OutOfTries(tries'[s]) => tries'[s] < MaxTries
    BY <1>2, <2>1, HandshakeAssumption DEF ConnectRefused, OutOfTries
  <2>4. TriesLeft' BY <1>2, <2>1, <2>3 DEF ConnectRefused, Ends
  <2>2. spc' \in [Senders -> {"connect", "hello", "ack", "run", "exit"}]
        /\ code' \in [Senders -> {0, 1}]
    BY <1>2 DEF ConnectRefused, Ends
  <2> QED BY <1>2, <2>1, <2>2, <2>4 DEF ConnectRefused
<1>3. CASE WriteHello(s) BY <1>3 DEF WriteHello, Ends
<1>4. CASE ReadAck(s) BY <1>4 DEF ReadAck, Ends
<1>5. CASE AckCut(s) BY <1>5 DEF AckCut, Ends
<1>6. CASE SenderEnds(s) BY <1>6 DEF SenderEnds, Ends
<1>7. CASE SenderCrash(s) BY <1>7 DEF SenderCrash, Ends
<1> QED BY <1>1, <1>2, <1>3, <1>4, <1>5, <1>6, <1>7 DEF SenderStep

-----------------------------------------------------------------------------
(* The agreement.                                                          *)

\* Only the verdict of the receiver makes an "ok".
LEMMA AgreeReceiver ==
    ASSUME IndInv, ReceiverSetup \/ ReceiverEnds \/ ReceiverCrash
    PROVE  (VerdictPending /\ OkToOne /\ StreamsOnOk /\ TakenSpeaks)'
<1> USE DEF IndInv, TypeOK, VerdictPending, OkToOne, StreamsOnOk, TakenSpeaks
<1>1. CASE ListenOn BY <1>1 DEF ListenOn
<1>2. CASE Accept
  <2>1. Head(queue) \in Senders BY <1>2 DEF Accept
  <2> QED BY <1>2, <2>1 DEF Accept
<1>3. CASE ReadHello BY <1>3 DEF ReadHello
<1>4. CASE HelloCut BY <1>4 DEF HelloCut, Shut
<1>5. CASE WriteAck
  <2>1. conn \in Senders /\ \A s \in Senders : acks[s] # "ok" BY <1>5 DEF WriteAck
  <2>2. \A s \in Senders : ~(spc[s] = "run" \/ (spc[s] = "exit" /\ code[s] = 0)) BY <2>1
  <2>3. CASE Taken(conn)
    <3>1. /\ acks' = [acks EXCEPT ![conn] = "ok"] /\ rpc' = "run" /\ runs' = conn
          /\ UNCHANGED <<spc, code>>
      BY <1>5, <2>3 DEF WriteAck
    <3>2. Speaks[conn] BY <2>3 DEF Taken
    <3> QED BY <2>1, <2>2, <3>1, <3>2
  <2>4. CASE ~Taken(conn)
    <3>1. /\ acks' = [acks EXCEPT ![conn] = "rejected"] /\ rpc' = "exit"
          /\ UNCHANGED <<runs, spc, code>>
      BY <1>5, <2>4 DEF WriteAck
    <3> QED BY <2>1, <2>2, <3>1
  <2> QED BY <2>3, <2>4
<1>6. CASE ReceiverEnds BY <1>6 DEF ReceiverEnds, Shut
<1>7. CASE ReceiverCrash BY <1>7 DEF ReceiverCrash, Shut
<1> QED BY <1>1, <1>2, <1>3, <1>4, <1>5, <1>6, <1>7 DEF ReceiverSetup

\* A sender streams only after it has read one, and fails in all other ways.
LEMMA AgreeSender ==
    ASSUME IndInv, NEW s \in Senders, SenderStep(s) \/ SenderCrash(s)
    PROVE  (VerdictPending /\ OkToOne /\ StreamsOnOk /\ TakenSpeaks)'
<1>1. UNCHANGED <<rpc, conn, acks, runs>>
  BY DEF SenderStep, Connect, ConnectRefused, WriteHello, ReadAck, AckCut, SenderEnds, SenderCrash
<1>2. (VerdictPending /\ OkToOne /\ TakenSpeaks)'
  BY <1>1 DEF IndInv, VerdictPending, OkToOne, TakenSpeaks
<1>3. StreamsOnOk'
  <2> USE DEF IndInv, TypeOK, StreamsOnOk
  <2>1. CASE Connect(s) BY <2>1 DEF Connect
  <2>2. CASE ConnectRefused(s) BY <2>2 DEF ConnectRefused, Ends
  <2>3. CASE WriteHello(s) BY <2>3 DEF WriteHello, Ends
  <2>4. CASE ReadAck(s) BY <2>4 DEF ReadAck, Ends, Accepted
  <2>5. CASE AckCut(s) BY <2>5 DEF AckCut, Ends
  <2>6. CASE SenderEnds(s) BY <2>6 DEF SenderEnds, Ends
  <2>7. CASE SenderCrash(s) BY <2>7 DEF SenderCrash, Ends
  <2> QED BY <2>1, <2>2, <2>3, <2>4, <2>5, <2>6, <2>7 DEF SenderStep
<1> QED BY <1>2, <1>3

LEMMA IndStep == IndInv /\ [Next]_vars => IndInv'
<1> SUFFICES ASSUME IndInv, [Next]_vars PROVE IndInv'
  OBVIOUS
<1>1. CASE ReceiverSetup \/ ReceiverEnds \/ ReceiverCrash
  BY <1>1, TypeReceiver, AgreeReceiver DEF IndInv
<1>2. ASSUME NEW s \in Senders, SenderStep(s) \/ SenderCrash(s) PROVE IndInv'
  BY <1>2, TypeSender, AgreeSender DEF IndInv
<1>3. CASE UNCHANGED vars
  BY <1>3 DEF vars, IndInv, TypeOK, TriesLeft, VerdictPending, OkToOne, StreamsOnOk, TakenSpeaks
<1> QED BY <1>1, <1>2, <1>3 DEF Next

LEMMA Invariance == Spec => []IndInv
BY IndInit, IndStep, PTL DEF Spec

-----------------------------------------------------------------------------
(* What the handshake guarantees.                                          *)

\* Every field keeps its type; in particular the backlog is never exceeded and
\* nobody connects more often than its timeout allows.
THEOREM TypeCorrect == Spec => []TypeOK
<1>1. IndInv => TypeOK BY DEF IndInv
<1> QED BY <1>1, Invariance, PTL

\* At most one sender streams to a receiver, the one whose magic, version and
\* encoding it accepted, and one of another protocol always fails.
THEOREM OneSender == Spec => []OneAgreedSender
<1>1. IndInv => OneAgreedSender
  <2> SUFFICES ASSUME IndInv PROVE OneAgreedSender
    OBVIOUS
  <2>1. \A s \in Senders : spc[s] = "run" => runs = s BY DEF IndInv, OkToOne, StreamsOnOk
  <2>2. runs # NoOne => Speaks[runs] BY DEF IndInv, TakenSpeaks
  <2>3. \A s \in Senders : ~Speaks[s] /\ spc[s] = "exit" => code[s] = 1
    BY DEF IndInv, TypeOK, OkToOne, StreamsOnOk
  <2> QED BY <2>1, <2>2, <2>3 DEF OneAgreedSender
<1> QED BY <1>1, Invariance, PTL

-----------------------------------------------------------------------------
(* Nobody waits in vain.                                                   *)

\* Connections exist while the receiver listens, and the one it serves has its
\* verdict when the receiver's loop runs.
ConnectionsLive ==
    /\ queue # <<>> => Listening
    /\ conn # NoOne => rpc \in {"hello", "ack", "run"}
    /\ rpc = "run" => acks[conn] # "none"

\* Who is connected and has not written its hello is about to, or is gone.
HelloToCome ==
    \A s \in Senders : Connected(s) /\ s \notin hellos => spc[s] \in {"hello", "exit"}

LEMMA QueueFacts ==
    ASSUME NEW q \in Seq(Senders)
    PROVE  /\ \A s \in Senders : ToSet(Append(q, s)) = ToSet(q) \cup {s}
           /\ q # <<>> => Head(q) \in ToSet(q) /\ ToSet(Tail(q)) \subseteq ToSet(q)
           /\ ToSet(<<>>) = {}
<1>1. ASSUME NEW s \in Senders PROVE ToSet(Append(q, s)) = ToSet(q) \cup {s}
  <2>1. /\ Append(q, s) \in Seq(Senders) /\ Len(Append(q, s)) = Len(q) + 1
        /\ Append(q, s)[Len(q) + 1] = s
        /\ \A k \in 1 .. Len(q) : Append(q, s)[k] = q[k]
    OBVIOUS
  <2>2. 1 .. Len(q) + 1 = (1 .. Len(q)) \cup {Len(q) + 1} OBVIOUS
  <2> QED BY <2>1, <2>2 DEF ToSet
<1>2. ASSUME q # <<>> PROVE Head(q) \in ToSet(q) /\ ToSet(Tail(q)) \subseteq ToSet(q)
  <2>1. /\ Head(q) = q[1] /\ 1 \in 1 .. Len(q) /\ Len(Tail(q)) = Len(q) - 1
        /\ \A k \in 1 .. Len(q) - 1 : Tail(q)[k] = q[k + 1] /\ k + 1 \in 1 .. Len(q)
    BY <1>2
  <2> QED BY <2>1 DEF ToSet
<1>3. ToSet(<<>>) = {} BY DEF ToSet
<1> QED BY <1>1, <1>2, <1>3

LEMMA LiveInit == Init => ConnectionsLive /\ HelloToCome
<1> SUFFICES ASSUME Init PROVE ConnectionsLive /\ HelloToCome
  OBVIOUS
<1>1. ToSet(queue) = {}
  BY DEF Init, ToSet
<1>2. \A s \in Senders : ~Connected(s) BY <1>1, HandshakeAssumption DEF Init, Connected
<1> QED BY <1>2 DEF Init, ConnectionsLive, HelloToCome

LEMMA LiveReceiver ==
    ASSUME IndInv, ConnectionsLive, HelloToCome, ReceiverSetup \/ ReceiverEnds \/ ReceiverCrash
    PROVE  ConnectionsLive' /\ HelloToCome'
<1>0. queue \in Seq(Senders) /\ acks \in [Senders -> {"none", "ok", "rejected"}]
      /\ (rpc \in {"hello", "ack"} => conn \in Senders)
  BY DEF IndInv, TypeOK, VerdictPending
<1> USE DEF ConnectionsLive, HelloToCome, Connected, Listening
<1>1. CASE ListenOn BY <1>1 DEF ListenOn
<1>2. CASE Accept
  <2>1. /\ queue # <<>> /\ Head(queue) \in ToSet(queue) /\ ToSet(Tail(queue)) \subseteq ToSet(queue)
    BY <1>0, <1>2, QueueFacts DEF Accept
  <2> QED BY <1>2, <2>1 DEF Accept
<1>3. CASE ReadHello BY <1>3 DEF ReadHello
<1>4. CASE rpc' = "exit" /\ Shut /\ UNCHANGED <<hellos, spc>>
  <2>1. \A s \in Senders : ~Connected(s)'
    <3>1. conn' = NoOne /\ ToSet(queue') = {} BY <1>0, <1>4, QueueFacts DEF Shut
    <3> QED BY <3>1, HandshakeAssumption
  <2> QED BY <1>4, <2>1 DEF Shut
<1>5. CASE WriteAck /\ Taken(conn)
  <2>1. /\ conn \in Senders /\ rpc' = "run" /\ UNCHANGED <<conn, queue, hellos, spc>>
        /\ acks' = [acks EXCEPT ![conn] = "ok"]
    BY <1>0, <1>5 DEF WriteAck
  <2>2. acks'[conn] = "ok" BY <1>0, <2>1
  <2> QED BY <2>1, <2>2
<1>6. CASE WriteAck /\ ~Taken(conn) BY <1>4, <1>6 DEF WriteAck
<1> QED BY <1>1, <1>2, <1>3, <1>4, <1>5, <1>6
        DEF ReceiverSetup, HelloCut, ReceiverEnds, ReceiverCrash

LEMMA LiveSender ==
    ASSUME IndInv, ConnectionsLive, HelloToCome, NEW s \in Senders, SenderStep(s) \/ SenderCrash(s)
    PROVE  ConnectionsLive' /\ HelloToCome'
<1>0. queue \in Seq(Senders) /\ spc \in [Senders -> {"connect", "hello", "ack", "run", "exit"}]
  BY DEF IndInv, TypeOK
<1>1. UNCHANGED <<rpc, conn, acks>>
  BY DEF SenderStep, Connect, ConnectRefused, WriteHello, ReadAck, AckCut, SenderEnds, SenderCrash
<1> USE DEF ConnectionsLive, HelloToCome, Connected
<1>2. CASE Connect(s)
  <2>1. /\ Listening /\ queue' = Append(queue, s) /\ spc' = [spc EXCEPT ![s] = "hello"]
        /\ UNCHANGED hellos
    BY <1>2 DEF Connect
  <2>2. ToSet(queue') = ToSet(queue) \cup {s} BY <1>0, <2>1, QueueFacts
  <2> QED BY <1>0, <1>1, <2>1, <2>2 DEF Listening
<1>3. CASE /\ UNCHANGED queue /\ hellos \subseteq hellos'
           /\ \A q \in Senders : \/ spc'[q] = spc[q] \/ spc'[q] = "exit"
                              \/ spc[q] \in {"connect", "ack"} \/ q \in hellos'
  BY <1>1, <1>3 DEF Listening
<1>4. ConnectRefused(s) \/ WriteHello(s) \/ ReadAck(s) \/ AckCut(s) \/ SenderEnds(s) \/ SenderCrash(s)
      => UNCHANGED queue /\ hellos \subseteq hellos'
  BY DEF ConnectRefused, WriteHello, ReadAck, AckCut, SenderEnds, SenderCrash
<1>5. ASSUME NEW q \in Senders,
             ConnectRefused(s) \/ WriteHello(s) \/ ReadAck(s) \/ AckCut(s)
                 \/ SenderEnds(s) \/ SenderCrash(s)
      PROVE  \/ spc'[q] = spc[q] \/ spc'[q] = "exit"
             \/ spc[q] \in {"connect", "ack"} \/ q \in hellos'
  BY <1>0, <1>5 DEF ConnectRefused, WriteHello, ReadAck, AckCut, SenderEnds, SenderCrash, Ends
<1> QED BY <1>2, <1>3, <1>4, <1>5 DEF SenderStep

LEMMA LiveInvariance == Spec => [](IndInv /\ ConnectionsLive /\ HelloToCome)
<1>1. IndInv /\ ConnectionsLive /\ HelloToCome /\ [Next]_vars => ConnectionsLive' /\ HelloToCome'
  <2> SUFFICES ASSUME IndInv, ConnectionsLive, HelloToCome, [Next]_vars
               PROVE  ConnectionsLive' /\ HelloToCome'
    OBVIOUS
  <2>1. CASE UNCHANGED vars
    BY <2>1 DEF vars, ConnectionsLive, HelloToCome, Connected, Listening
  <2> QED BY <2>1, LiveReceiver, LiveSender DEF Next
<1> QED BY <1>1, LiveInit, Invariance, PTL DEF Spec

\* In no state, after any crash, does a sender wait for an answer that nobody is
\* about to give: behind one that the receiver serves it waits for that one.
THEOREM NoWaitInVain == Spec => []NobodyWaitsInVain
<1>1. IndInv /\ ConnectionsLive /\ HelloToCome => NobodyWaitsInVain
  <2> SUFFICES ASSUME IndInv, ConnectionsLive, HelloToCome,
                      NEW s \in Senders, spc[s] # "exit", ~SenderActs(s), ~ReceiverActs
               PROVE  rpc = "hello" /\ SenderActs(conn)
    BY DEF NobodyWaitsInVain
  <2>1. /\ queue \in Seq(Senders) /\ spc[s] \in {"connect", "hello", "ack", "run"}
        /\ rpc \in {"start", "accept", "hello", "ack", "run", "exit"}
    BY DEF IndInv, TypeOK
  <2>2. Listening /\ (rpc = "accept" => queue # <<>>)
    <3>1. CASE spc[s] = "connect"
      <4>1. Listening /\ ~(Len(queue) < Backlog) BY <3>1 DEF SenderActs
      <4>2. Len(<<>>) < Backlog BY HandshakeAssumption
      <4> QED BY <4>1, <4>2
    <3>2. CASE spc[s] = "ack"
      <4>1. conn = s \/ s \in ToSet(queue) BY <3>2 DEF SenderActs, Connected
      <4>2. conn = s => rpc \in {"hello", "ack", "run"}
        BY HandshakeAssumption DEF ConnectionsLive
      <4>3. s \in ToSet(queue) => queue # <<>> BY <2>1, QueueFacts
      <4> QED BY <4>1, <4>2, <4>3 DEF ConnectionsLive, Listening
    <3> QED BY <2>1, <3>1, <3>2 DEF SenderActs
  <2>3. rpc = "hello" BY <2>1, <2>2 DEF Listening, ReceiverActs
  <2>4. conn \in Senders /\ conn \notin hellos /\ spc[conn] # "exit"
    BY <2>3 DEF ReceiverActs, IndInv, VerdictPending
  <2>5. spc[conn] = "hello" BY <2>4 DEF HelloToCome, Connected
  <2> QED BY <2>3, <2>5 DEF SenderActs
<1> QED BY <1>1, LiveInvariance, PTL

\* A handshake is over after as many steps as there are stages and tries, however
\* its steps are interleaved and whoever is killed.
THEOREM StepsAreCounted == Spec => EveryStepCounts
<1> DEFINE Counts == /\ ReceiverStages' <= ReceiverStages
                     /\ \A s \in Senders : SenderStages(s)' <= SenderStages(s)
                     /\ \/ ReceiverStages' < ReceiverStages
                        \/ \E s \in Senders : SenderStages(s)' < SenderStages(s)
<1>1. ASSUME IndInv, Next PROVE Counts
  <2>1. /\ rpc \in {"start", "accept", "hello", "ack", "run", "exit"} /\ MaxTries \in Nat
        /\ spc \in [Senders -> {"connect", "hello", "ack", "run", "exit"}]
        /\ tries \in [Senders -> 0 .. MaxTries]
        /\ \A s \in Senders : spc[s] = "connect" => tries[s] < MaxTries
    BY <1>1, HandshakeAssumption DEF IndInv, TypeOK, TriesLeft
  <2>2. \A s \in Senders : SenderStages(s) \in Nat /\ (spc[s] = "connect" => SenderStages(s) > 3)
    BY <2>1 DEF SenderStages
  <2>3. ReceiverStages \in Nat BY DEF ReceiverStages
  <2>4. CASE ReceiverSetup \/ ReceiverEnds \/ ReceiverCrash
    <3>1. UNCHANGED <<spc, tries>>
      BY <2>4 DEF ReceiverSetup, ListenOn, Accept, ReadHello, HelloCut, WriteAck, ReceiverEnds,
         ReceiverCrash
    <3>2. \A s \in Senders : SenderStages(s)' = SenderStages(s) BY <3>1 DEF SenderStages
    <3>3. ReceiverStages' < ReceiverStages
      BY <2>1, <2>4 DEF ReceiverStages, ReceiverSetup, ListenOn, Accept, ReadHello, HelloCut,
         WriteAck, ReceiverEnds, ReceiverCrash
    <3>4. \A s \in Senders : SenderStages(s)' <= SenderStages(s) BY <2>2, <3>2
    <3>5. ReceiverStages' \in Nat BY DEF ReceiverStages
    <3>6. ReceiverStages' <= ReceiverStages BY <2>3, <3>3, <3>5
    <3> QED BY <3>3, <3>4, <3>6
  <2>5. ASSUME NEW s \in Senders, SenderStep(s) \/ SenderCrash(s) PROVE Counts
    <3>1. rpc' = rpc
      BY <2>5 DEF SenderStep, Connect, ConnectRefused, WriteHello, ReadAck, AckCut, SenderEnds,
         SenderCrash
    <3>2. ReceiverStages' = ReceiverStages /\ ReceiverStages' <= ReceiverStages
      BY <2>3, <3>1 DEF ReceiverStages
    <3>3. /\ \A q \in Senders : q # s => spc'[q] = spc[q] /\ tries'[q] = tries[q]
      BY <2>1, <2>5 DEF SenderStep, Connect, ConnectRefused, WriteHello, ReadAck, AckCut,
         SenderEnds, SenderCrash, Ends
    <3>4. \A q \in Senders : q # s => SenderStages(q)' = SenderStages(q)
      BY <3>3 DEF SenderStages
    <3>5. SenderStages(s)' < SenderStages(s)
      <4>1. CASE ConnectRefused(s)
        <5>1. spc[s] = "connect" /\ tries'[s] = tries[s] + 1 /\ spc'[s] \in {"connect", "exit"}
          BY <2>1, <4>1 DEF ConnectRefused, Ends
        <5> QED BY <2>1, <5>1 DEF SenderStages
      <4>2. CASE Connect(s)
        <5>1. spc[s] = "connect" /\ spc'[s] = "hello" BY <2>1, <4>2 DEF Connect
        <5>2. SenderStages(s)' = 3 BY <5>1 DEF SenderStages
        <5> QED BY <2>2, <5>1, <5>2
      <4>3. CASE WriteHello(s) \/ ReadAck(s) \/ AckCut(s) \/ SenderEnds(s)
        <5>1. \/ spc[s] = "hello" /\ spc'[s] \in {"ack", "exit"}
              \/ spc[s] = "ack" /\ spc'[s] \in {"run", "exit"}
              \/ spc[s] = "run" /\ spc'[s] = "exit"
          BY <2>1, <4>3 DEF WriteHello, ReadAck, AckCut, SenderEnds, Ends
        <5> QED BY <5>1 DEF SenderStages
      <4>4. CASE SenderCrash(s)
        <5>1. spc[s] # "exit" /\ spc'[s] = "exit" BY <2>1, <4>4 DEF SenderCrash, Ends
        <5>2. SenderStages(s)' = 0 BY <5>1 DEF SenderStages
        <5>3. SenderStages(s) > 0 BY <2>1, <2>2, <5>1 DEF SenderStages
        <5> QED BY <5>2, <5>3
      <4> QED BY <2>5, <4>1, <4>2, <4>3, <4>4 DEF SenderStep
    <3>6. SenderStages(s)' \in Nat
      <4>1. spc'[s] = "connect" => tries'[s] \in 0 .. MaxTries
        BY <1>1, <2>5, TypeSender DEF IndInv, TypeOK
      <4> QED BY <2>1, <4>1 DEF SenderStages
    <3>7. \A q \in Senders : SenderStages(q)' <= SenderStages(q)
      BY <2>2, <3>4, <3>5, <3>6
    <3> QED BY <3>2, <3>5, <3>7
  <2> QED BY <1>1, <2>4, <2>5 DEF Next
<1>2. IndInv /\ [Next]_vars => [Counts]_vars BY <1>1
<1> QED BY <1>2, Invariance, PTL DEF Spec, EveryStepCounts
=============================================================================
