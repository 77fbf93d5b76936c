------------------------------ MODULE Session ------------------------------
(***************************************************************************)
(* One session from its start to its end: the four programs started in the *)
(* order the documents give or in any other, the sender and the producer   *)
(* around the producer's Segment, the receiver that creates the consumer's *)
(* ring and listens (src/transport/src/receiver.cpp), the consumer.        *)
(*                                                                         *)
(* The network between them loses nothing, so that what is missing at the  *)
(* end was missed by the programs; Transport has the one that loses, and   *)
(* Handshake what is one step here, Greet.  A message is its seq_id.       *)
(***************************************************************************)
EXTENDS Segment, SequencesExt

CONSTANT Control  \* is --control-port given to both

ASSUME SessionAssumption == Control \in BOOLEAN

VARIABLES
    ordered,  \* are the programs started in the documented order
    hs,       \* the sender before it waits for the segment: "off" | "connect" | "greeted" | "failed"
    rpc,      \* the receiver: one of Setup, or "exit"
    cpc,      \* the consumer: "off" | "read" | "exit" | "open_failed" | "sigbus" | "wild"
    start,    \* history: where the sender began
    net,      \* messages in the receiver's socket
    ring,     \* what the receiver published
    cstart,   \* where the consumer began in the ring
    cread,    \* its read_index
    lapped,   \* history: a lap made the sender jump
    early     \* history: programs that left on a timer with messages still to come

outerVars   == <<ordered, hs, rpc, cpc, start, net, ring, cstart, cread, lapped, early>>
sessionVars == <<vars, outerVars>>

\* Mutant: the socket is bound when the sender has been accepted.
SetupBoundLate == <<"off", "truncate", "init", "listen", "accept", "bind", "loop">>

\* Mutant: the ring is created when it is needed.
SetupRingLate == <<"off", "bind", "listen", "accept", "truncate", "init", "loop">>

\* What the receiver's main does next: shm_open and ftruncate, attach(init),
\* bind, listen, accept, the loop.
Setup == <<"off", "truncate", "init", "bind", "listen", "accept", "loop">>

\* The receiver's step follows on that one.
Passed(step) ==
    rpc # "exit" /\ \E j, k \in 1 .. Len(Setup) : Setup[j] = step /\ Setup[k] = rpc /\ j < k

\* What the consumer received.
got == SubSeq(ring, cstart + 1, cread)

AfterStep(step) == Setup[1 + CHOOSE k \in DOMAIN Setup : Setup[k] = step]

Bound == Passed("bind")

Ended == spc \in Ends \/ hs = "failed"

SessionTypeOK ==
    /\ TypeOK
    /\ ordered \in BOOLEAN /\ lapped \in BOOLEAN
    /\ hs \in {"off", "connect", "greeted", "failed"}
    /\ rpc \in ToSet(Setup) \cup {"exit"}
    /\ cpc \in {"off", "read", "exit", "open_failed", "sigbus", "wild"}
    /\ start \in 0 .. MaxMessages
    /\ ToSet(net) \cup ToSet(ring) \subseteq 1 .. MaxMessages
    /\ cstart \in 0 .. cread /\ cread \in 0 .. Len(ring)
    /\ early \subseteq {"sender", "receiver", "consumer"}

SessionInit ==
    /\ Init
    /\ ordered \in BOOLEAN
    /\ hs = "off" /\ rpc = "off" /\ cpc = "off" /\ start = 0
    /\ net = <<>> /\ ring = <<>> /\ cstart = 0 /\ cread = 0
    /\ lapped = FALSE /\ early = {}

-----------------------------------------------------------------------------
(* The producer and the sender.                                            *)

\* The sender is started last but one, the producer when the sender waits.
ProducerStep ==
    /\ ordered => hs = "greeted"
    /\ ProducerNext
    /\ UNCHANGED outerVars

SenderStart ==
    /\ hs = "off" /\ (ordered => cpc # "off")
    /\ hs' = IF Control THEN "connect" ELSE "greeted"
    /\ UNCHANGED <<vars, ordered, rpc, cpc, start, net, ring, cstart, cread, lapped, early>>

\* connect_hello() and accept_hello() of one build succeed.
Greet ==
    /\ hs = "connect" /\ rpc = "accept"
    /\ hs' = "greeted" /\ rpc' = AfterStep("accept")
    /\ UNCHANGED <<vars, ordered, cpc, start, net, ring, cstart, cread, lapped, early>>

\* There is no receiver for as long as the sender tries.
ConnectFails ==
    /\ hs = "connect" /\ ~Passed("listen")
    /\ hs' = "failed"
    /\ UNCHANGED <<vars, ordered, rpc, cpc, start, net, ring, cstart, cread, lapped, early>>

SenderApproach ==
    /\ hs = "greeted" /\ Approach
    /\ start' = read_index'
    /\ UNCHANGED <<ordered, hs, rpc, cpc, net, ring, cstart, cread, lapped, early>>

\* Datagrams to a port that nobody has bound are gone.
SendOne ==
    /\ ReadOne
    /\ net' = IF Bound THEN Append(net, read_index') ELSE net
    /\ UNCHANGED <<ordered, hs, rpc, cpc, start, ring, cstart, cread, lapped, early>>

\* The producer is at work, or still to be started.
Pending == ppc # "off" \/ run = 0

SenderLapped ==
    /\ ReadLapped
    /\ lapped' = TRUE
    /\ early' = early \cup IF spc' = "idle" /\ Pending THEN {"sender"} ELSE {}
    /\ UNCHANGED <<ordered, hs, rpc, cpc, start, net, ring, cstart, cread>>

SenderLeaves ==
    /\ ReadWild \/ IdleExit
    /\ early' = early \cup IF Pending THEN {"sender"} ELSE {}
    /\ UNCHANGED <<ordered, hs, rpc, cpc, start, net, ring, cstart, cread, lapped>>

SenderStep == SenderStart \/ Greet \/ ConnectFails \/ SenderApproach
              \/ SendOne \/ SenderLapped \/ SenderLeaves

SenderTimer == (SenderLapped \/ SenderLeaves) /\ spc' = "idle"

-----------------------------------------------------------------------------
(* The receiver.                                                           *)

\* Without the control port the receiver neither listens nor accepts.
ReceiverSetup ==
    /\ rpc \notin {"loop", "exit"} /\ (rpc = "accept" => ~Control)
    /\ rpc' = AfterStep(rpc)
    /\ UNCHANGED <<vars, ordered, hs, cpc, start, net, ring, cstart, cread, lapped, early>>

\* dedup::Window, with a window that outlasts the session.
IsNew(m) == m \notin ToSet(ring)

ReceiveOne ==
    /\ rpc = "loop" /\ net # <<>>
    /\ ring' = IF IsNew(Head(net)) THEN Append(ring, Head(net)) ELSE ring
    /\ net' = Tail(net)
    /\ UNCHANGED <<vars, ordered, hs, rpc, cpc, start, cstart, cread, lapped, early>>

\* The idle timer, which began when the sender was accepted; unlink().
ReceiverLeaves ==
    /\ rpc = "loop" /\ net = <<>>
    /\ rpc' = "exit"
    /\ early' = early \cup IF Ended THEN {} ELSE {"receiver"}
    /\ UNCHANGED <<vars, ordered, hs, cpc, start, net, ring, cstart, cread, lapped>>

-----------------------------------------------------------------------------
(* The consumer.                                                           *)

Announced == rpc \in {"accept", "loop"}

\* Segment::open without create, and attach.
ConsumerStart ==
    /\ cpc = "off" /\ (ordered => Announced)
    /\ cpc' = IF rpc \in {"off", "exit"} THEN "open_failed"
              ELSE IF ~Passed("truncate") THEN "sigbus"
              ELSE IF ~Passed("init") THEN "wild" ELSE "read"
    /\ cread' \in IF cpc' = "read" THEN {0, Len(ring)} ELSE {0}
    /\ cstart' = cread'
    /\ UNCHANGED <<vars, ordered, hs, rpc, start, net, ring, lapped, early>>

\* In a ring that is large enough for the session: Transport has the laps.
ConsumeOne ==
    /\ cpc = "read" /\ cread < Len(ring)
    /\ cread' = cread + 1
    /\ UNCHANGED <<vars, ordered, hs, rpc, cpc, start, net, ring, cstart, lapped, early>>

\* No message can reach the consumer's ring any more.
RingClosed == rpc = "exit" \/ (Ended /\ net = <<>>)

ConsumerLeaves ==
    /\ cpc = "read" /\ cread = Len(ring)
    /\ cpc' = "exit"
    /\ early' = early \cup IF RingClosed THEN {} ELSE {"consumer"}
    /\ UNCHANGED <<vars, ordered, hs, rpc, start, net, ring, cstart, cread, lapped>>

-----------------------------------------------------------------------------
ReceiverLoop == ReceiveOne \/ ReceiverLeaves
ConsumerLoop == ConsumeOne \/ ConsumerLeaves

SessionNext == ProducerStep \/ SenderStep \/ ReceiverSetup \/ ReceiverLoop
               \/ ConsumerStart \/ ConsumerLoop

SessionSpec == SessionInit /\ [][SessionNext]_sessionVars

\* Once a program runs it goes on, and its timer runs out.
SessionFairness ==
    /\ WF_sessionVars(ReceiverLoop) /\ WF_sessionVars(ConsumerLoop)
    /\ WF_sessionVars(hs = "greeted" /\ SenderStep) /\ WF_sessionVars(SenderTimer)

FairSession == SessionSpec /\ SessionFairness

-----------------------------------------------------------------------------
(* Properties.                                                             *)

\* bench/e2e-netns.sh:9-10: "the sender must not start publishing before there
\* is something to publish into".  With the control port a sender streams only
\* when the receiver's socket is bound, whatever order they are started in; and,
\* as receiver.cpp:191 wants it, the consumer may start while the receiver still
\* waits: from its announcement on there is the ring, whole and initialised.
NobodyTooEarly ==
    /\ Control /\ spc = "read" => Bound \/ rpc = "exit"
    /\ ordered => cpc \in {"off", "read", "exit"}

\* In the documented order and with one run of the producer, if nobody is lapped
\* or leaves with messages still to come, those missed are a beginning of the
\* stream: what was published before the sender read the live edge.
OnlyTheBeginningIsMissed ==
    (ordered /\ Control /\ run = 1 /\ early = {} /\ ~lapped /\ spc \in {"read", "idle"}) =>
        /\ ring \o net = [k \in 1 .. read_index - start |-> start + k]
        /\ spc = "idle" => read_index = inodes[smap].write_index
        /\ cpc = "exit" => got = ring /\ net = <<>>

\* Whoever has begun to work comes to an end, whatever becomes of the others: a
\* producer that never starts, is killed or restarted, a receiver that gave up
\* while its sender still waited for the segment.
EveryoneEnds ==
    /\ hs = "greeted" ~> Ended
    /\ rpc = "loop" ~> rpc = "exit"
    /\ cpc = "read" ~> cpc = "exit"

-----------------------------------------------------------------------------
(* What a document claims and the code does not do.                        *)

\* plans/GENERAL.md:408-410 gives the order of the start and expects
\* "received == count" of a run without loss.
ReceivedIsCount ==
    (ordered /\ run = 1 /\ ppc = "off" /\ name = None /\ early = {} /\ ~lapped
        /\ spc = "idle" /\ cpc = "exit") => Len(got) = MaxMessages
=============================================================================
