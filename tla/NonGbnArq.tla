----------------------------- MODULE NonGbnArq ------------------------------
(***************************************************************************)
(* packetSender_nonGBNARQ.c, UDP branch: the ARQ before it kept the order. *)
(* A packet is sent at most ACK_RETRY_MAX times, no thread waits for the   *)
(* one before it, and the next hop acknowledges and relays whatever        *)
(* arrives, also what it has relayed before.                               *)
(*                                                                         *)
(* A datagram and its ACK are named by the number of the packet and of the *)
(* transmission; they may be lost and overtake each other.  The waiting of *)
(* the threads for each other is that of module TxQueue and left out here. *)
(***************************************************************************)
EXTENDS NextHops

CONSTANTS
    ACK_RETRY_MAX,
    WINDOW_SIZE,
    MaxFlight       \* bound: datagrams, and ACKs, on their way

ASSUME NonGbnAssumption ==
    /\ ACK_RETRY_MAX \in Nat \ {0}
    /\ WINDOW_SIZE \in Nat
    /\ MaxFlight \in Nat

VARIABLES
    data,       \* data[e]: datagrams on their way to the next hop
    acks,       \* acks[e]: ACKs on their way back
    copies,     \* copies[e]: the numbers of the packets relayed, in order
    delSignal,  \* delSignal[e]: SIGNAL_DEL_QUEUE (SIGUSR2, not queued) is pending
    pass        \* pass[e]: the place delPacketFromQueue looks at, 0 while it waits

delVars == <<delSignal, pass>>
udpVars == <<data, acks, copies, delVars>>

UdpInit ==
    /\ data = [e \in Elements |-> {}]
    /\ acks = [e \in Elements |-> {}]
    /\ copies = [e \in Elements |-> <<>>]
    /\ delSignal = [e \in Elements |-> FALSE]
    /\ pass = [e \in Elements |-> 0]

QueueOnly(e, q) ==
    /\ queue' = [queue EXCEPT ![e] = q]
    /\ UNCHANGED <<types, listVars, callerVars, number, waiting, pending, offered>>

(* sendto: the datagram or ACK is on its way, or lost.                      *)
Transmit(chan, e, d, arrives) ==
    /\ arrives => Cardinality(chan[e]) < MaxFlight
    /\ chan' = [chan EXCEPT ![e] = IF arrives THEN @ \cup {d} ELSE @]

MiddleOfSend(e) == {i \in DOMAIN queue[e] : queue[e][i].st # "READY"}

(* UnicastWithARQ creates the threads in queue order while numMiddleSend is *)
(* not above the window, each when the one before has sent its packet.      *)
(* It changes the state under queueMutex, which a pass of the deleting      *)
(* thread holds.                                                            *)
StartSender(e, i, arrives) ==
    /\ pass[e] = 0
    /\ queue[e][i].st = "READY"
    /\ \A j \in 1..(i - 1) : queue[e][j].st # "READY"
    /\ Cardinality(MiddleOfSend(e)) <= WINDOW_SIZE
    /\ QueueOnly(e, [queue[e] EXCEPT ![i].st = "START"])
    /\ Transmit(data, e, [no |-> queue[e][i].no, try |-> 0], arrives)
    /\ UNCHANGED <<acks, copies, delVars>>

(* sendWaitAndResend sends SIGNAL_DEL_QUEUE ...                             *)
Ending(e, q) ==
    /\ QueueOnly(e, q)
    /\ delSignal' = [delSignal EXCEPT ![e] = TRUE]
    /\ UNCHANGED <<data, pass>>

(* Mutant: one transmission too many.                                       *)
TimeoutOnceMore(e, i, arrives) ==
    LET n == queue[e][i].retry + 1 IN
    /\ queue[e][i].st = "START"
    /\ IF n <= ACK_RETRY_MAX
       THEN /\ QueueOnly(e, [queue[e] EXCEPT ![i].retry = n])
            /\ Transmit(data, e, [no |-> queue[e][i].no, try |-> n], arrives)
            /\ UNCHANGED delVars
       ELSE Ending(e, [queue[e] EXCEPT ![i].retry = n, ![i].st = "ENDING"])
    /\ UNCHANGED <<acks, copies>>

(* RTO: the packet is sent again, or given up after ACK_RETRY_MAX times.    *)
Timeout(e, i, arrives) ==
    LET n == queue[e][i].retry + 1 IN
    /\ queue[e][i].st = "START"
    /\ IF n < ACK_RETRY_MAX
       THEN /\ QueueOnly(e, [queue[e] EXCEPT ![i].retry = n])
            /\ Transmit(data, e, [no |-> queue[e][i].no, try |-> n], arrives)
            /\ UNCHANGED delVars
       ELSE Ending(e, [queue[e] EXCEPT ![i].retry = n, ![i].st = "ENDING"])
    /\ UNCHANGED <<acks, copies>>

(* SIGNAL_SENDEND ends the loop at the next sigtimedwait.                   *)
SendEnd(e, i) ==
    /\ queue[e][i].st = "SENDEND"
    /\ Ending(e, [queue[e] EXCEPT ![i].st = "ENDING"])
    /\ UNCHANGED <<acks, copies>>

(* ... and sets THREAD_EXIT only then, without the lock: the pass that the  *)
(* signal has started may have gone by.                                     *)
Exit(e, i) ==
    /\ queue[e][i].st = "ENDING"
    /\ QueueOnly(e, [queue[e] EXCEPT ![i].st = "EXIT"])
    /\ UNCHANGED udpVars
-----------------------------------------------------------------------------
(* delPacketFromQueue: one pass for each signal it gets, with the lock held *)
(* to the end of the pass.                                                  *)
WaitDelSignal(e) ==
    /\ pass[e] = 0
    /\ delSignal[e]
    /\ delSignal' = [delSignal EXCEPT ![e] = FALSE]
    /\ pass' = [pass EXCEPT ![e] = 1]
    /\ UNCHANGED <<hopVars, data, acks, copies>>

DelPacket(e, i) ==
    /\ pass[e] = i
    /\ queue[e][i].st = "EXIT"
    /\ QueueOnly(e, [j \in 1..(Len(queue[e]) - 1) |-> queue[e][IF j < i THEN j ELSE j + 1]])
    /\ UNCHANGED udpVars

(* Mutant: the pass is over at a thread that has not ended.                 *)
LookOnNot(e) ==
    /\ pass[e] > 0
    /\ pass[e] \in DOMAIN queue[e] => queue[e][pass[e]].st # "EXIT"
    /\ pass' = [pass EXCEPT ![e] = 0]
    /\ UNCHANGED <<hopVars, data, acks, copies, delSignal>>

(* It goes by the packets whose threads run, and ends at the first one not  *)
(* yet sent.                                                                *)
LookOn(e) ==
    LET i == pass[e] IN
    /\ i > 0
    /\ i \in DOMAIN queue[e] => queue[e][i].st # "EXIT"
    /\ pass' = [pass EXCEPT ![e] =
                   IF i \in DOMAIN queue[e] /\ queue[e][i].st # "READY" THEN i + 1 ELSE 0]
    /\ UNCHANGED <<hopVars, data, acks, copies, delSignal>>

DelThread(e) ==
    \/ WaitDelSignal(e)
    \/ \E i \in DOMAIN queue[e] : DelPacket(e, i)
    \/ LookOn(e)
-----------------------------------------------------------------------------
(* Mutant: the ACK ends the thread of the first packet it finds.            *)
MatchesAny(e, no) == {i \in DOMAIN queue[e] : queue[e][i].st = "START"}

(* recvACKorNACK looks at no more than DEL_PACKET_QUEUE_SEARCH_MAX + 2      *)
(* packets (DEL_PACKET_QUEUE_SEARCH_MAX is WINDOW_SIZE), under the lock.    *)
Matches(e, no) ==
    {i \in DOMAIN queue[e] : i <= WINDOW_SIZE + 2 /\ queue[e][i].no = no
                             /\ queue[e][i].st = "START"}

RecvACK(e, a) ==
    /\ a \in acks[e]
    /\ pass[e] = 0
    /\ acks' = [acks EXCEPT ![e] = @ \ {a}]
    /\ \/ /\ Matches(e, a.no) = {}
          /\ QueueOnly(e, queue[e])
       \/ \E i \in Matches(e, a.no) :
             /\ \A j \in Matches(e, a.no) : i <= j
             /\ QueueOnly(e, [queue[e] EXCEPT ![i].st = "SENDEND"])
    /\ UNCHANGED <<data, copies, delVars>>

(* SendingACKorNACK sets diffSeq to 0, so that everything is acknowledged;  *)
(* relayPacket does not look at what it returns, and relays everything.     *)
SendingACK(e, d, arrives) ==
    /\ d \in data[e]
    /\ data' = [data EXCEPT ![e] = @ \ {d}]
    /\ Transmit(acks, e, d, arrives)
    /\ copies' = [copies EXCEPT ![e] = Append(@, d.no)]
    /\ UNCHANGED <<hopVars, delVars>>

SenderThreads(e) ==
    \E i \in DOMAIN queue[e] :
        \/ \E arrives \in BOOLEAN : StartSender(e, i, arrives) \/ Timeout(e, i, arrives)
        \/ SendEnd(e, i)
        \/ Exit(e, i)

UdpReceiver(e) ==
    \/ \E d \in data[e], arrives \in BOOLEAN : SendingACK(e, d, arrives)
    \/ \E a \in acks[e] : RecvACK(e, a)
=============================================================================
