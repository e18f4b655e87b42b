------------------------------ MODULE RelayHop ------------------------------
(***************************************************************************)
(* One node's list of next hops for one packet type, with the sending      *)
(* threads of its elements and the threads at the next hops.  A packet     *)
(* type is sent over TCP or UDP (protocolType); over UDP this is the ARQ   *)
(* without order of packetSender_nonGBNARQ.c (ArqLink has the other one).  *)
(***************************************************************************)
EXTENDS TcpHop, NonGbnArq

CONSTANT MaxNumber    \* the packets EndedLeaves is about: 0..MaxNumber

vars == <<hopVars, tcpVars, udpVars>>

Init ==
    /\ NextHopsInit
    /\ TcpInit
    /\ UdpInit

(* A packet is inserted under queueMutex, which a pass of the deleting      *)
(* thread holds.                                                            *)
Calling(c) ==
    /\ step[c] = "insert" => pass[proc[c]] = 0
    /\ Caller(c)
    /\ UNCHANGED <<tcpVars, udpVars>>

Tcp == protocolType = "TCP" /\ UNCHANGED udpVars
Udp == protocolType = "UDP" /\ UNCHANGED tcpVars

Threads(e) ==
    \/ Tcp /\ TcpThread(e)
    \/ Tcp /\ TcpReceiver(e)
    \/ Udp /\ SenderThreads(e)
    \/ Udp /\ DelThread(e)
    \/ Udp /\ UdpReceiver(e)

Next ==
    \/ \E c \in Callers : Calling(c)
    \/ \E e \in Elements : Threads(e)

Spec == Init /\ [][Next]_vars
-----------------------------------------------------------------------------
TypeOK ==
    /\ nextNodeType \in NodeTypes
    /\ protocolType \in Protocols
    /\ link \in [{0} \cup Elements -> {0} \cup Elements]
    /\ dest \in Seq(Addresses)
    /\ step \in [Callers -> {"idle", "search", "create", "room", "number", "insert",
                             "signal", "crash"}]
    /\ call \in [Callers -> Nat]
    /\ rest \in [Callers -> Seq(Addresses)]
    /\ hit \in [Callers -> BOOLEAN]
    /\ proc \in [Callers -> {0} \cup Elements]
    /\ num \in [Callers -> Nat]
    /\ number \in Nat
    /\ queue \in [Elements -> Seq([no : Nat, pkt : Callers \X Nat, retry : 0..ACK_RETRY_MAX,
                                   st : {"READY", "START", "SENDEND", "ENDING", "EXIT"}])]
    /\ waiting \in [Elements -> BOOLEAN]
    /\ pending \in [Elements -> BOOLEAN]
    /\ at \in [Elements -> {"none", "read", "send", "unlink", "flag", "wait", "clear"}]
    /\ wire \in [Elements -> Seq(Seq(Nat))]
    /\ relayed \in [Elements -> Seq(Seq(Nat))]
    /\ data \in [Elements -> SUBSET [no : Nat, try : 0..ACK_RETRY_MAX]]
    /\ acks \in [Elements -> SUBSET [no : Nat, try : 0..ACK_RETRY_MAX]]
    /\ copies \in [Elements -> Seq(Nat)]
    /\ delSignal \in [Elements -> BOOLEAN]
    /\ pass \in [Elements -> Nat]
    /\ offered \in Seq(Addresses \X (Callers \X Nat))

(* A call that returns has offered its packet to each next hop once: to the *)
(* elements it has created, or to those of the list.  For the parent also   *)
(* when several threads build the list at the same time (sendPacketToNext). *)
OfferedOnce ==
    \A c \in Callers : step[c] = "idle" /\ call[c] > 0 =>
        \A i \in DOMAIN Route :
            Cardinality({k \in DOMAIN offered : offered[k] = <<Route[i], Packet(c)>>}) = 1

(* The connections of each element, and what a connection was given: what   *)
(* was relayed of it, and what it still holds.                              *)
Connections == UNION {{<<e, k>> : k \in DOMAIN wire[e]} : e \in Elements}

Sent(x) == relayed[x[1]][x[2]] \o wire[x[1]][x[2]]

(* A packet that was sent is still the first of the queue until Unlink.     *)
Unsent(e) == IF at[e] = "unlink" THEN Tail(queue[e]) ELSE queue[e]

(* Every packet that was numbered is with its caller, in one queue unsent,  *)
(* or was sent once on one connection: the dispatcher sends and frees it in *)
(* steps, without the lock between them, while callers enqueue and          *)
(* connections break, and the threads at the next hop relay each connection *)
(* from its beginning (the TCP branches of UnicastWithARQ and relayPacket). *)
SentOnce ==
    protocolType = "TCP" =>
        \A n \in 0..(number - 1) :
            LET held == {c \in Callers : step[c] = "insert" /\ num[c] = n}
                left == UNION {{<<e, i>> : i \in {j \in DOMAIN Unsent(e) : Unsent(e)[j].no = n}} :
                               e \in Elements}
                sent == UNION {{<<x, i>> : i \in {j \in DOMAIN Sent(x) : Sent(x)[j] = n}} :
                               x \in Connections}
            IN  Cardinality(held) + Cardinality(left) + Cardinality(sent) = 1

(* The next hop relays no packet more often than ACK_RETRY_MAX times, and   *)
(* none that was not sent to it (sendWaitAndResend, relayPacket).           *)
CopiesBounded ==
    \A e \in Elements : \A n \in 0..(number - 1) :
        Cardinality({k \in DOMAIN copies[e] : copies[e][k] = n}) <= ACK_RETRY_MAX

(* A thread that stops before its last transmission does so because the     *)
(* next hop has relayed its packet: late ACKs and ACKs of other             *)
(* transmissions never stand for a packet that is still missing.            *)
AckedIsRelayed ==
    \A e \in Elements : \A i \in DOMAIN queue[e] :
        LET q == queue[e][i] IN
        q.st \in {"SENDEND", "ENDING", "EXIT"} /\ q.retry < ACK_RETRY_MAX =>
            \E k \in DOMAIN copies[e] : copies[e][k] = q.no
-----------------------------------------------------------------------------
(* Each thread runs, and connect succeeds in the end; nothing is assumed of *)
(* what the network does with a datagram, nor of when a packet is started.  *)
RunToEnd(e) ==
    \E i \in DOMAIN queue[e] :
        \/ \E arrives \in BOOLEAN : Timeout(e, i, arrives)
        \/ SendEnd(e, i)
        \/ Exit(e, i)

SendOrGoOn(e) ==
    \/ Connect(e) \/ ReadQueue(e) \/ SendTCP(e) \/ Unlink(e)
    \/ Flag(e) \/ WaitEnqueue(e) \/ ClearFlag(e)

Fairness ==
    /\ \A c \in Callers : WF_vars(Calling(c))
    /\ \A e \in Elements :
          /\ WF_vars(Tcp /\ SendOrGoOn(e))
          /\ WF_vars(Udp /\ RunToEnd(e))
          /\ WF_vars(Udp /\ DelThread(e))

FairSpec == Spec /\ Fairness

(* An enqueue that finds the flag of the waiting dispatcher has the whole   *)
(* queue sent, also what an enqueue before it left there unsignalled.       *)
EnqueueWakes ==
    \A e \in Elements :
        (waiting[e] /\ queue[e] # <<>> /\ \E c \in Callers : step[c] = "signal" /\ proc[c] = e)
            ~> queue[e] = <<>>

(* A thread signals the deleting thread before it sets THREAD_EXIT, and     *)
(* signals merge, so that a pass may go by its packet.  What was left so    *)
(* leaves the queue with the next signal: one that is pending, or that of   *)
(* another thread of the queue that has still to end (sendWaitAndResend,    *)
(* delPacketFromQueue).  The last packet of all has no such signal.         *)
EndedLeaves ==
    \A n \in 0..MaxNumber :
        (\E e \in Elements : \E i \in DOMAIN queue[e] :
            /\ queue[e][i].no = n /\ queue[e][i].st = "EXIT"
            /\ \/ delSignal[e]
               \/ \E j \in DOMAIN queue[e] : queue[e][j].st \in {"START", "SENDEND"})
            ~> ~(\E e \in Elements : \E i \in DOMAIN queue[e] : queue[e][i].no = n)
=============================================================================
