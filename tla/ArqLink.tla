------------------------------ MODULE ArqLink -------------------------------
(***************************************************************************)
(* The application-level ARQ of packetSender.c, seen as a protocol: one    *)
(* sending process with its list of next hops for one packet type, and the *)
(* process at each next hop that answers with SendingACKorNACK.            *)
(*                                                                         *)
(* The sending side is UnicastPacket (enqueue), the sender threads, the    *)
(* ACK thread and the delete thread, with the thread synchronisation left  *)
(* to module TxQueue; the receiving side is the ACK branch of              *)
(* SendingACKorNACK and its caller, which uses a packet only when it       *)
(* returned 0.  A datagram or an ACK can be lost, and can overtake up to   *)
(* Reorder others; duplicates come from the retransmissions.               *)
(*                                                                         *)
(* A packet is identified by its place in `issued', the history of the     *)
(* sequence numbers handed out: the packet at place k + 1 carries the      *)
(* u_short k % SeqMod on the wire, and the code sees only that.            *)
(***************************************************************************)
EXTENDS Integers, Sequences, FiniteSets

CONSTANTS
    NumHops,              \* next hops of the packet type, in list order
    Callers,              \* threads that call sendPacketToNext
    SeqMod,               \* the sequence numbers of a u_short: 2^16 in the code
    WINDOW_SIZE,
    TX_QUEUE_LENGTH_MAX,
    Reorder,              \* how many datagrams one may overtake on a hop
    MaxPackets,           \* bound: packets each caller sends
    MaxIssued,            \* bound: sequence numbers handed out
    ChanMax               \* bound: datagrams, and ACKs, in flight on a hop

ASSUME ConstantsAssumption ==
    /\ NumHops \in Nat \ {0}
    /\ IsFiniteSet(Callers)
    /\ SeqMod \in Nat \ {0}
    /\ WINDOW_SIZE \in Nat
    /\ TX_QUEUE_LENGTH_MAX \in Nat
    /\ Reorder \in Nat
    /\ MaxPackets \in Nat
    /\ MaxIssued \in Nat
    /\ ChanMax \in Nat

Hops == 1..NumHops

USHRT_MAX == SeqMod - 1
DEL_PACKET_QUEUE_SEARCH_MAX == WINDOW_SIZE

(***************************************************************************)
(* The states of a queue element: THREAD_READY (no sender thread yet),     *)
(* THREAD_START, THREAD_START with SENDEND pending for its thread, and     *)
(* THREAD_EXIT (the thread has ended, the element may be freed).           *)
(***************************************************************************)
Status == {"READY", "START", "SENDEND", "EXIT"}

VARIABLES
    made,        \* made[c]: packets caller c has started to send
    step,        \* step[c]: where caller c stands in UnicastPacket
    at,          \* at[c]: the hop its loop over the list has reached
    num,         \* num[c]: the packet number it took, before it is enqueued
    issued,      \* every sequence number handed out: for which hop, which packet
    queue,       \* queue[h]: the transmission queue, first to send first
    data,        \* data[h]: datagrams in flight to hop h
    acks,        \* acks[h]: ACKs in flight from hop h
    expectedSeq, \* expectedSeq[h]: at hop h, for this sender
    delivered    \* delivered[h]: the packet numbers hop h has used, in order

callerVars == <<made, step, at, num, issued>>
hopVars == <<expectedSeq, delivered>>
vars == <<callerVars, queue, data, acks, hopVars>>

PacketIds == Callers \X (1..MaxPackets)
SeqNos == 0..SeqMod - 1

TypeOK ==
    /\ made \in [Callers -> 0..MaxPackets]
    /\ step \in [Callers -> {"idle", "room", "number", "insert"}]
    /\ at \in [Callers -> Hops]
    /\ num \in [Callers -> Nat]
    /\ issued \in Seq([hop : Hops, pkt : PacketIds])
    /\ queue \in [Hops -> Seq([no : Nat, st : Status])]
    /\ data \in [Hops -> Seq(Nat)]
    /\ acks \in [Hops -> Seq(SeqNos)]
    /\ expectedSeq \in [Hops -> SeqNos]
    /\ delivered \in [Hops -> Seq(Nat)]

Init ==
    /\ made = [c \in Callers |-> 0]
    /\ step = [c \in Callers |-> "idle"]
    /\ at = [c \in Callers |-> 1]
    /\ num = [c \in Callers |-> 0]
    /\ issued = <<>>
    /\ queue = [h \in Hops |-> <<>>]
    /\ data = [h \in Hops |-> <<>>]
    /\ acks = [h \in Hops |-> <<>>]
    /\ expectedSeq = [h \in Hops |-> 0]
    /\ delivered = [h \in Hops |-> <<>>]
-----------------------------------------------------------------------------
(* The number packet no carries on the wire. *)
SequenceNumber(no) == no % SeqMod

(* The sequence s without its i-th element. *)
Without(s, i) == [j \in 1..Len(s) - 1 |-> IF j < i THEN s[j] ELSE s[j + 1]]

(* The places a datagram can be taken from: Reorder = 0 is a FIFO hop. *)
Receivable(s) == {i \in DOMAIN s : i <= Reorder + 1}

(* sendto on a UDP socket: the datagram is on its way, or it is lost. *)
Transmit(chan, h, m, arrives) ==
    IF arrives THEN Len(chan[h]) < ChanMax /\ chan' = [chan EXCEPT ![h] = Append(@, m)]
               ELSE UNCHANGED chan

(* numMiddleSend: the elements whose sender thread has been created. *)
MiddleOfSend(h) == {i \in DOMAIN queue[h] : queue[h][i].st # "READY"}
-----------------------------------------------------------------------------
(***************************************************************************)
(* sendPacketToNext: one UnicastPacket for every next hop in the list.     *)
(***************************************************************************)
Begin(c) ==
    /\ step[c] = "idle"
    /\ made[c] < MaxPackets
    /\ made' = [made EXCEPT ![c] = @ + 1]
    /\ at' = [at EXCEPT ![c] = 1]
    /\ step' = [step EXCEPT ![c] = "room"]
    /\ UNCHANGED <<num, issued, queue, data, acks, hopVars>>

(* Mutant: the loop over the list runs one node too far. *)
AdvanceTooFar(c) ==
    IF at[c] <= NumHops
    THEN /\ at' = [at EXCEPT ![c] = @ + 1]
         /\ step' = [step EXCEPT ![c] = "room"]
    ELSE /\ step' = [step EXCEPT ![c] = "idle"]
         /\ UNCHANGED at

(* The next hop in the list, or the end of the call. *)
Advance(c) ==
    IF at[c] < NumHops
    THEN /\ at' = [at EXCEPT ![c] = @ + 1]
         /\ step' = [step EXCEPT ![c] = "room"]
    ELSE /\ step' = [step EXCEPT ![c] = "idle"]
         /\ UNCHANGED at

(* Mutant: the comparison lets a full queue grow. *)
CheckRoomAtLimit(c) ==
    /\ step[c] = "room"
    /\ IF Len(queue[at[c]]) <= TX_QUEUE_LENGTH_MAX
       THEN step' = [step EXCEPT ![c] = "number"] /\ UNCHANGED at
       ELSE Advance(c)
    /\ UNCHANGED <<made, num, issued, queue, data, acks, hopVars>>

(* Mutant: a packet dropped at the full queue uses up a number. *)
CheckRoomLeavesGap(c) ==
    /\ step[c] = "room"
    /\ IF Len(queue[at[c]]) < TX_QUEUE_LENGTH_MAX
       THEN step' = [step EXCEPT ![c] = "number"] /\ UNCHANGED <<at, issued>>
       ELSE /\ Advance(c)
            /\ Len(issued) < MaxIssued
            /\ issued' = Append(issued, [hop |-> at[c], pkt |-> <<c, made[c]>>])
    /\ UNCHANGED <<made, num, queue, data, acks, hopVars>>

(* queueSize is read before any lock is taken; a full queue drops the packet. *)
CheckRoom(c) ==
    /\ step[c] = "room"
    /\ IF Len(queue[at[c]]) < TX_QUEUE_LENGTH_MAX
       THEN step' = [step EXCEPT ![c] = "number"] /\ UNCHANGED at
       ELSE Advance(c)
    /\ UNCHANGED <<made, num, issued, queue, data, acks, hopVars>>

(* One counter for the packet type, under a mutex of its own. *)
TakeNumber(c) ==
    /\ step[c] = "number"
    /\ Len(issued) < MaxIssued
    /\ issued' = Append(issued, [hop |-> at[c], pkt |-> <<c, made[c]>>])
    /\ num' = [num EXCEPT ![c] = Len(issued)]
    /\ step' = [step EXCEPT ![c] = "insert"]
    /\ UNCHANGED <<made, at, queue, data, acks, hopVars>>

(* The element becomes the tail of the queue, under queueMutex. *)
Insert(c) ==
    /\ step[c] = "insert"
    /\ queue' = [queue EXCEPT ![at[c]] = Append(@, [no |-> num[c], st |-> "READY"])]
    /\ Advance(c)
    /\ UNCHANGED <<made, num, issued, data, acks, hopVars>>
-----------------------------------------------------------------------------
(***************************************************************************)
(* UnicastWithARQ takes the elements in queue order, each once the         *)
(* previous one was sent, and waits while numMiddleSend > WINDOW_SIZE; the *)
(* new thread sends the datagram.                                          *)
(***************************************************************************)
StartSender(h, i, arrives) ==
    /\ queue[h][i].st = "READY"
    /\ \A j \in 1..i - 1 : queue[h][j].st # "READY"
    /\ ~ Cardinality(MiddleOfSend(h)) > WINDOW_SIZE
    /\ queue' = [queue EXCEPT ![h][i].st = "START"]
    /\ Transmit(data, h, queue[h][i].no, arrives)
    /\ UNCHANGED <<callerVars, acks, hopVars>>

(* RTO expired, or the predecessor's thread resent: the datagram goes again. *)
Resend(h, i, arrives) ==
    /\ queue[h][i].st \in {"START", "SENDEND"}
    /\ Transmit(data, h, queue[h][i].no, arrives)
    /\ UNCHANGED <<callerVars, queue, acks, hopVars>>

(* The elements the ACK thread looks at before it gives up the search. *)
Searched(h) == {i \in DOMAIN queue[h] : i <= DEL_PACKET_QUEUE_SEARCH_MAX + 2}

Matches(h, seq) ==
    {i \in Searched(h) : /\ SequenceNumber(queue[h][i].no) = seq
                         /\ queue[h][i].st \in {"START", "SENDEND"}}

(* recvACKorNACK: SENDEND to the thread of the first element that matches. *)
RecvACK(h, k) ==
    /\ k \in Receivable(acks[h])
    /\ acks' = [acks EXCEPT ![h] = Without(@, k)]
    /\ \/ /\ Matches(h, acks[h][k]) = {}
          /\ UNCHANGED queue
       \/ \E i \in Matches(h, acks[h][k]) :
             /\ \A j \in Matches(h, acks[h][k]) : i <= j
             /\ queue' = [queue EXCEPT ![h][i].st = "SENDEND"]
    /\ UNCHANGED <<callerVars, data, hopVars>>

(* sendWaitAndResend leaves its loop on SENDEND and ends. *)
SenderExit(h, i) ==
    /\ queue[h][i].st = "SENDEND"
    /\ queue' = [queue EXCEPT ![h][i].st = "EXIT"]
    /\ UNCHANGED <<callerVars, data, acks, hopVars>>

(* delPacketFromQueue unlinks and frees an element whose thread has ended. *)
DelPacket(h, i) ==
    /\ queue[h][i].st = "EXIT"
    /\ queue' = [queue EXCEPT ![h] = Without(@, i)]
    /\ UNCHANGED <<callerVars, data, acks, hopVars>>
-----------------------------------------------------------------------------
(***************************************************************************)
(* The difference of the arriving number and the expected one, with the    *)
(* correction for the wrap of the u_short exactly as it is written.        *)
(***************************************************************************)
DiffSeq(seqCur, expected) ==
    LET diffSeq == seqCur - expected
    IN  IF diffSeq >= USHRT_MAX - 2 * WINDOW_SIZE THEN diffSeq - USHRT_MAX
        ELSE IF diffSeq <= -USHRT_MAX + 2 * WINDOW_SIZE THEN diffSeq + USHRT_MAX
        ELSE diffSeq

(* Mutant: every packet is acknowledged, one ahead of the expected one too. *)
SendingACKAlways(h, k, arrives) ==
    LET no      == data[h][k]
        seqCur  == SequenceNumber(no)
        diffSeq == DiffSeq(seqCur, expectedSeq[h])
    IN  /\ k \in Receivable(data[h])
        /\ data' = [data EXCEPT ![h] = Without(@, k)]
        /\ Transmit(acks, h, seqCur, arrives)
        /\ IF diffSeq = 0
           THEN /\ expectedSeq' = [expectedSeq EXCEPT ![h] = (seqCur + 1) % SeqMod]
                /\ delivered' = [delivered EXCEPT ![h] = Append(@, no)]
           ELSE UNCHANGED hopVars
        /\ UNCHANGED <<callerVars, queue>>

(* Mutant: a packet received before is acknowledged and used again. *)
SendingACKUsesOld(h, k, arrives) ==
    LET no      == data[h][k]
        seqCur  == SequenceNumber(no)
        diffSeq == DiffSeq(seqCur, expectedSeq[h])
    IN  /\ k \in Receivable(data[h])
        /\ data' = [data EXCEPT ![h] = Without(@, k)]
        /\ IF diffSeq <= 0
           THEN /\ Transmit(acks, h, seqCur, arrives)
                /\ expectedSeq' = [expectedSeq EXCEPT ![h] = (seqCur + 1) % SeqMod]
                /\ delivered' = [delivered EXCEPT ![h] = Append(@, no)]
           ELSE UNCHANGED <<acks, hopVars>>
        /\ UNCHANGED <<callerVars, queue>>

(* SendingACKorNACK with typeACK = ACK; its caller uses the packet when it returns 0. *)
SendingACK(h, k, arrives) ==
    LET no      == data[h][k]
        seqCur  == SequenceNumber(no)
        diffSeq == DiffSeq(seqCur, expectedSeq[h])
    IN  /\ k \in Receivable(data[h])
        /\ data' = [data EXCEPT ![h] = Without(@, k)]
        /\ IF diffSeq <= 0 THEN Transmit(acks, h, seqCur, arrives) ELSE UNCHANGED acks
        /\ IF diffSeq = 0
           THEN /\ expectedSeq' = [expectedSeq EXCEPT ![h] = (seqCur + 1) % SeqMod]
                /\ delivered' = [delivered EXCEPT ![h] = Append(@, no)]
           ELSE UNCHANGED hopVars
        /\ UNCHANGED <<callerVars, queue>>
-----------------------------------------------------------------------------
Caller(c) == Begin(c) \/ CheckRoom(c) \/ TakeNumber(c) \/ Insert(c)

Sender(h) ==
    \/ \E i \in DOMAIN queue[h] :
          \/ \E arrives \in BOOLEAN : StartSender(h, i, arrives) \/ Resend(h, i, arrives)
          \/ SenderExit(h, i)
          \/ DelPacket(h, i)
    \/ \E k \in DOMAIN acks[h] : RecvACK(h, k)

Receiver(h) == \E k \in DOMAIN data[h], arrives \in BOOLEAN : SendingACK(h, k, arrives)

Next == (\E c \in Callers : Caller(c)) \/ (\E h \in Hops : Sender(h) \/ Receiver(h))

Spec == Init /\ [][Next]_vars
-----------------------------------------------------------------------------
(***************************************************************************)
(* The inductive invariant of the ARQ for as long as the u_short has not   *)
(* wrapped: the receiver's expectedSeq counts what it has used, and every  *)
(* number in a queue, on the wire or in an ACK belongs to the packet that  *)
(* took it.                                                                *)
(***************************************************************************)
NoWrap == MaxIssued < USHRT_MAX - 2 * WINDOW_SIZE

InQueue(h, n) == \E i \in DOMAIN queue[h] : queue[h][i].no = n

OnItsWay(h, n) == \E c \in Callers : step[c] = "insert" /\ at[c] = h /\ num[c] = n

Numbered(h, n) == n + 1 \in DOMAIN issued /\ issued[n + 1].hop = h

CallerInv ==
    \A c \in Callers :
        /\ step[c] # "idle" => made[c] \in 1..MaxPackets
        /\ step[c] = "insert" => Numbered(at[c], num[c])

QueueInv ==
    \A h \in Hops : \A i \in DOMAIN queue[h] :
        /\ Numbered(h, queue[h][i].no)
        /\ queue[h][i].st \in {"SENDEND", "EXIT"} => queue[h][i].no < expectedSeq[h]

WireInv ==
    \A h \in Hops :
        /\ \A k \in DOMAIN data[h] : Numbered(h, data[h][k])
        /\ \A k \in DOMAIN acks[h] : acks[h][k] < expectedSeq[h]

HopInv ==
    \A h \in Hops :
        /\ expectedSeq[h] = Len(delivered[h])
        /\ \A k \in DOMAIN delivered[h] : delivered[h][k] = k - 1 /\ Numbered(h, k - 1)

KeptInv ==
    \A h \in Hops, n \in Nat :
        Numbered(h, n) => OnItsWay(h, n) \/ InQueue(h, n) \/ n < expectedSeq[h]

IInv ==
    /\ TypeOK
    /\ Len(issued) <= MaxIssued
    /\ CallerInv
    /\ QueueInv
    /\ WireInv
    /\ HopInv
    /\ KeptInv
-----------------------------------------------------------------------------
(***************************************************************************)
(* Properties.                                                             *)
(***************************************************************************)
(***************************************************************************)
(* What a next hop has used is, packet by packet, what was numbered first  *)
(* for it: nothing out of order, nothing twice, nothing skipped, and       *)
(* nothing that was meant for another hop (relayPacket and the receivers   *)
(* use a packet when SendingACKorNACK returned 0).                         *)
(***************************************************************************)
DeliveredInOrder ==
    \A h \in Hops : \A k \in DOMAIN delivered[h] :
        /\ delivered[h][k] = k - 1
        /\ k \in DOMAIN issued /\ issued[k].hop = h

(***************************************************************************)
(* A sender thread stops resending, and its packet is freed, only after    *)
(* the hop has used that very packet: an ACK, old or new, lost and         *)
(* repeated, never stands for a packet the hop did not take.               *)
(***************************************************************************)
AckedIsDelivered ==
    \A h \in Hops : \A i \in DOMAIN queue[h] :
        queue[h][i].st \in {"SENDEND", "EXIT"} =>
            \E k \in DOMAIN delivered[h] : delivered[h][k] = queue[h][i].no

(***************************************************************************)
(* SendingACKorNACK acknowledges the packet it expects and the ones before *)
(* it (an ACK was lost), never one that is ahead: that is what lets the    *)
(* sender free acknowledged packets.                                       *)
(***************************************************************************)
NoAckAhead ==
    [][\A h \in Hops : Len(acks'[h]) > Len(acks[h]) =>
          \E k \in DOMAIN data[h] : /\ data'[h] = Without(data[h], k)
                                    /\ data[h][k] <= Len(delivered[h])]_vars

(***************************************************************************)
(* Every packet that was given a number is with the caller, in the queue,  *)
(* or used by the hop: drops at a full queue happen before the number is   *)
(* taken, so the numbers on the wire have no gap the ARQ could not close.  *)
(***************************************************************************)
NothingLost ==
    \A k \in DOMAIN issued :
        LET h == issued[k].hop
        IN  \/ OnItsWay(h, k - 1)
            \/ InQueue(h, k - 1)
            \/ \E j \in DOMAIN delivered[h] : delivered[h][j] = k - 1

(***************************************************************************)
(* queueSize is compared with TX_QUEUE_LENGTH_MAX outside queueMutex, so   *)
(* every further caller that passed the comparison can add one more.       *)
(***************************************************************************)
QueueBound ==
    \A h \in Hops :
        queue[h] = <<>> \/ Len(queue[h]) < TX_QUEUE_LENGTH_MAX + Cardinality(Callers)

(***************************************************************************)
(* No number is missing at a hop: while a packet waits to be taken, the    *)
(* number the hop expects was given to a packet for that hop, the first    *)
(* one 0 (comments at lines 918 and 2002; violated with two hops).         *)
(***************************************************************************)
NoGapForHop ==
    \A h \in Hops : \A i \in DOMAIN queue[h] :
        queue[h][i].no >= expectedSeq[h] => Numbered(h, expectedSeq[h])

(***************************************************************************)
(* With one next hop the ARQ is a FIFO link: what was numbered comes out   *)
(* at the hop in that order, each packet once and none skipped.            *)
(***************************************************************************)
Fifo == INSTANCE FifoLink WITH
    Packets <- PacketIds,
    sent    <- [k \in DOMAIN issued |-> issued[k].pkt],
    rcvd    <- [k \in DOMAIN delivered[1] |-> issued[delivered[1][k] + 1].pkt]

RefinesFifo == Fifo!Spec
=============================================================================
