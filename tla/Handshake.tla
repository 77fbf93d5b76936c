----------------------------- MODULE Handshake -----------------------------
(***************************************************************************)
(* The session set-up of src/transport/include/control.h between one       *)
(* receiver (Listener) and the senders that were told to use it (Client),  *)
(* around the run of the two mains.  A TCP connection is what each end     *)
(* knows of it; sockets of a process that ends are closed by the kernel.   *)
(***************************************************************************)
EXTENDS Integers, Sequences, SequencesExt, FiniteSets

CONSTANTS
    Senders,   \* the senders started
    Speaks,    \* Speaks[s]: magic, version and encoding of its Hello are the receiver's
    MaxTries,  \* timeout_ms / step_ms + 1, connects a client attempts
    Backlog,   \* connections the kernel completes before accept()
    Crashes    \* may processes be killed

NoOne == "none"

ASSUME HandshakeAssumption ==
    /\ NoOne \notin Senders
    /\ Speaks \in [Senders -> BOOLEAN]
    /\ MaxTries \in Nat \ {0} /\ Backlog \in Nat \ {0} /\ Crashes \in BOOLEAN

VARIABLES
    rpc,    \* receiver: "start" | "accept" | "hello" | "ack" | "run" | "exit"
    conn,   \* conn_: the sender whose connection was accepted, or NoOne
    queue,  \* connections completed and not accepted
    hellos, \* senders whose Hello is on its connection
    acks,   \* ack[s]: "none" | "ok" | "rejected", what is on the way to s
    spc,    \* spc[s]: "connect" | "hello" | "ack" | "run" | "exit"
    code,   \* code[s]: exit code of main, 0 until it ends
    tries,  \* connects attempted
    runs    \* history: the sender the receiver took into its loop, or NoOne

vars == <<rpc, conn, queue, hellos, acks, spc, code, tries, runs>>

TypeOK ==
    /\ rpc \in {"start", "accept", "hello", "ack", "run", "exit"}
    /\ conn \in Senders \cup {NoOne} /\ runs \in Senders \cup {NoOne}
    /\ queue \in Seq(Senders) /\ Len(queue) <= Backlog
    /\ hellos \subseteq Senders
    /\ acks \in [Senders -> {"none", "ok", "rejected"}]
    /\ spc \in [Senders -> {"connect", "hello", "ack", "run", "exit"}]
    /\ code \in [Senders -> {0, 1}]
    /\ tries \in [Senders -> 0 .. MaxTries]

Init ==
    /\ rpc = "start" /\ conn = NoOne /\ queue = <<>> /\ hellos = {}
    /\ acks = [s \in Senders |-> "none"]
    /\ spc = [s \in Senders |-> "connect"]
    /\ code = [s \in Senders |-> 0]
    /\ tries = [s \in Senders |-> 0]
    /\ runs = NoOne

-----------------------------------------------------------------------------
(* The receiver.                                                           *)

Listening == rpc \notin {"start", "exit"}

ListenOn ==
    /\ rpc = "start"
    /\ rpc' = "accept"
    /\ UNCHANGED <<conn, queue, hellos, acks, spc, code, tries, runs>>

\* accept() returns the connection that has waited longest.
Accept ==
    /\ rpc = "accept" /\ queue # <<>>
    /\ conn' = Head(queue) /\ queue' = Tail(queue)
    /\ rpc' = "hello"
    /\ UNCHANGED <<hellos, acks, spc, code, tries, runs>>

\* Mutant: the listener stays open.
ShutNever == UNCHANGED <<conn, queue>>

\* close(), or the end of the process: who waits in the queue is reset.
Shut == conn' = NoOne /\ queue' = <<>>

\* The other end is there, or has left what it wrote behind.
ReadHello ==
    /\ rpc = "hello" /\ conn \in hellos
    /\ rpc' = "ack"
    /\ UNCHANGED <<conn, queue, hellos, acks, spc, code, tries, runs>>

\* read_exact() meets the end of the stream: main returns 1.
HelloCut ==
    /\ rpc = "hello" /\ conn \notin hellos /\ spc[conn] = "exit"
    /\ rpc' = "exit" /\ Shut
    /\ UNCHANGED <<hellos, acks, spc, code, tries, runs>>

\* Mutant: a rejected sender is taken all the same.
TakenAnyway(s) == TRUE

\* magic, version and encoding of the hello are the receiver's.
Taken(s) == Speaks[s]

\* The verdict is sent, whether the sender still reads it or not, and then
\* either the receiver's loop starts or main returns 1.
WriteAck ==
    /\ rpc = "ack"
    /\ IF Taken(conn)
       THEN /\ acks' = [acks EXCEPT ![conn] = "ok"]
            /\ rpc' = "run" /\ runs' = conn
            /\ UNCHANGED <<conn, queue>>
       ELSE /\ acks' = [acks EXCEPT ![conn] = "rejected"]
            /\ rpc' = "exit" /\ Shut
            /\ UNCHANGED runs
    /\ UNCHANGED <<hellos, spc, code, tries>>

\* The receiver's loop ends (idle, --count or a signal) and close() follows.
ReceiverEnds ==
    /\ rpc = "run"
    /\ rpc' = "exit" /\ Shut
    /\ UNCHANGED <<hellos, acks, spc, code, tries, runs>>

ReceiverCrash ==
    /\ Crashes /\ rpc # "exit"
    /\ rpc' = "exit" /\ Shut
    /\ UNCHANGED <<hellos, acks, spc, code, tries, runs>>

-----------------------------------------------------------------------------
(* A sender.                                                               *)

Ends(s, c) ==
    /\ spc' = [spc EXCEPT ![s] = "exit"]
    /\ code' = [code EXCEPT ![s] = c]

\* The kernel refuses while nobody listens; a full backlog makes connect() wait.
Connect(s) ==
    /\ spc[s] = "connect" /\ Listening /\ Len(queue) < Backlog
    /\ queue' = Append(queue, s)
    /\ spc' = [spc EXCEPT ![s] = "hello"]
    /\ UNCHANGED <<rpc, conn, hellos, acks, code, tries, runs>>

\* Mutant: one attempt more than the timeout allows.
OutOfTriesLate(n) == n > MaxTries

OutOfTries(n) == n = MaxTries

\* connect() fails and is tried again step_ms later, until timeout_ms is over.
ConnectRefused(s) ==
    /\ spc[s] = "connect" /\ ~Listening
    /\ tries' = [tries EXCEPT ![s] = @ + 1]
    /\ IF OutOfTries(tries'[s]) THEN Ends(s, 1) ELSE UNCHANGED <<spc, code>>
    /\ UNCHANGED <<rpc, conn, queue, hellos, acks, runs>>

Connected(s) == conn = s \/ s \in ToSet(queue)

WriteHello(s) ==
    /\ spc[s] = "hello"
    /\ IF Connected(s)
       THEN /\ hellos' = hellos \cup {s}
            /\ spc' = [spc EXCEPT ![s] = "ack"]
            /\ UNCHANGED code
       ELSE Ends(s, 1) /\ UNCHANGED hellos
    /\ UNCHANGED <<rpc, conn, queue, acks, tries, runs>>

\* Mutant: the status is not looked at.
AcceptedUnchecked(s) == TRUE

Accepted(s) == acks[s] = "ok"

ReadAck(s) ==
    /\ spc[s] = "ack" /\ acks[s] # "none"
    /\ IF Accepted(s)
       THEN spc' = [spc EXCEPT ![s] = "run"] /\ UNCHANGED code
       ELSE Ends(s, 1)
    /\ UNCHANGED <<rpc, conn, queue, hellos, acks, tries, runs>>

\* read_exact() meets the end of the stream before an ack.
AckCut(s) ==
    /\ spc[s] = "ack" /\ acks[s] = "none" /\ ~Connected(s)
    /\ Ends(s, 1)
    /\ UNCHANGED <<rpc, conn, queue, hellos, acks, tries, runs>>

SenderEnds(s) ==
    /\ spc[s] = "run"
    /\ Ends(s, 0)
    /\ UNCHANGED <<rpc, conn, queue, hellos, acks, tries, runs>>

SenderCrash(s) ==
    /\ Crashes /\ spc[s] # "exit"
    /\ Ends(s, 1)
    /\ UNCHANGED <<rpc, conn, queue, hellos, acks, tries, runs>>

-----------------------------------------------------------------------------
ReceiverSetup == ListenOn \/ Accept \/ ReadHello \/ HelloCut \/ WriteAck

SenderStep(s) == \/ Connect(s) \/ ConnectRefused(s) \/ WriteHello(s)
                 \/ ReadAck(s) \/ AckCut(s) \/ SenderEnds(s)

Next == \/ ReceiverSetup \/ ReceiverEnds \/ ReceiverCrash
        \/ \E s \in Senders : SenderStep(s) \/ SenderCrash(s)

Spec == Init /\ [][Next]_vars

\* The receiver's loop ends by its idle timer, the sender's by the producer's
\* end; nothing says that a receiver is started.
Fairness == /\ WF_vars(Accept \/ ReadHello \/ HelloCut \/ WriteAck) /\ WF_vars(ReceiverEnds)
            /\ \A s \in Senders : WF_vars(SenderStep(s))

FairSpec == Spec /\ Fairness

-----------------------------------------------------------------------------
(* Properties.                                                             *)

\* A sender that streams was accepted by the receiver, speaks its protocol, and
\* is the only one: two runs are never mixed in one receiver's numbers.  A sender
\* of another protocol makes both ends fail instead.
OneAgreedSender ==
    /\ \A s \in Senders : spc[s] = "run" => runs = s
    /\ runs # NoOne => Speaks[runs]
    /\ \A s \in Senders : ~Speaks[s] /\ spc[s] = "exit" => code[s] = 1

\* No sender waits for ever: it streams and ends, or gives up.  One that is
\* second in the queue waits until the receiver has done with the first.
EverySenderEnds == \A s \in Senders : <>(spc[s] = "exit")

\* The safety EverySenderEnds rests on, in two parts.  Nobody waits in vain: who
\* has not ended can act, or the receiver can, or the sender whose hello the
\* receiver waits for.  These are the conditions under which the calls return.
ReceiverActs ==
    \/ rpc = "accept" /\ queue # <<>>
    \/ rpc = "hello" /\ (conn \in hellos \/ spc[conn] = "exit")
    \/ rpc \in {"ack", "run"}

SenderActs(s) ==
    \/ spc[s] = "connect" /\ (~Listening \/ Len(queue) < Backlog)
    \/ spc[s] \in {"hello", "run"}
    \/ spc[s] = "ack" /\ (acks[s] # "none" \/ ~Connected(s))

NobodyWaitsInVain ==
    \A s \in Senders : spc[s] # "exit" =>
        SenderActs(s) \/ ReceiverActs \/ (rpc = "hello" /\ SenderActs(conn))

\* And nothing is repeated for ever: each step takes one process a stage further,
\* or uses up one of its tries, and takes none back.
ReceiverStages == CASE rpc = "start" -> 5 [] rpc = "accept" -> 4 [] rpc = "hello" -> 3
                    [] rpc = "ack" -> 2 [] rpc = "run" -> 1 [] OTHER -> 0

SenderStages(s) == CASE spc[s] = "connect" -> 3 + MaxTries - tries[s]
                     [] spc[s] = "hello" -> 3 [] spc[s] = "ack" -> 2
                     [] spc[s] = "run" -> 1 [] OTHER -> 0

EveryStepCounts ==
    [][/\ ReceiverStages' <= ReceiverStages
       /\ \A s \in Senders : SenderStages(s)' <= SenderStages(s)
       /\ \/ ReceiverStages' < ReceiverStages
          \/ \E s \in Senders : SenderStages(s)' < SenderStages(s)]_vars
=============================================================================
