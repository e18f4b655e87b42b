--------------------------- MODULE RelayHopProofs ---------------------------
(***************************************************************************)
(* Proofs about RelayHop, for every number of callers and next hops, every *)
(* window and retry limit, and a network that holds any number of          *)
(* datagrams and ACKs.                                                     *)
(***************************************************************************)
EXTENDS RelayHop, NextHopsProofs, TLAPS

QueueElement ==
    [no : Nat, pkt : Callers \X Nat, retry : 0..ACK_RETRY_MAX,
     st : {"READY", "START", "SENDEND", "ENDING", "EXIT"}]

Transmission == [no : Nat, try : 0..ACK_RETRY_MAX]

HopTypes ==
    /\ call \in [Callers -> Nat]
    /\ num \in [Callers -> Nat]
    /\ number \in Nat
    /\ queue \in [Elements -> Seq(QueueElement)]
    /\ at \in [Elements -> {"none", "read", "send", "unlink", "flag", "wait", "clear"}]
    /\ data \in [Elements -> SUBSET Transmission]
    /\ acks \in [Elements -> SUBSET Transmission]
    /\ copies \in [Elements -> Seq(Nat)]

(* n was relayed by the next hop of e.                                      *)
IsRelayed(e, n) == \E k \in DOMAIN copies[e] : copies[e][k] = n

(* A thread still waiting may send again; one that got an ACK has had its   *)
(* packet relayed, and so has one that ends before its last transmission.   *)
Justified(e, q) ==
    /\ q.st = "START" => q.retry < ACK_RETRY_MAX
    /\ q.st = "SENDEND" => IsRelayed(e, q.no)
    /\ q.st \in {"ENDING", "EXIT"} /\ q.retry < ACK_RETRY_MAX => IsRelayed(e, q.no)

AckInv ==
    /\ HopTypes
    /\ protocolType = "UDP" => \A e \in Elements : at[e] = "none"
    /\ \A e \in Elements : at[e] \in {"send", "unlink"} => queue[e] # <<>>
    /\ \A e \in Elements : \A a \in acks[e] : IsRelayed(e, a.no)
    /\ \A e \in Elements : \A i \in DOMAIN queue[e] : 
          queue[e][i].st = "READY" => queue[e][i].retry = 0
    /\ \A e \in Elements : \A i \in DOMAIN queue[e] : Justified(e, queue[e][i])

ackVars == <<protocolType, call, num, number, queue, at, data, acks, copies>>

LEMMA RetryMax == ACK_RETRY_MAX \in Nat \ {0}
  BY NonGbnAssumption

LEMMA LastElement ==
    ASSUME NEW S, NEW s \in Seq(S), NEW e \in S
    PROVE  /\ Append(s, e) \in Seq(S)
           /\ Append(s, e) # <<>>
           /\ DOMAIN Append(s, e) = DOMAIN s \cup {Len(s) + 1}
           /\ DOMAIN s = 1..Len(s)
           /\ \A i \in DOMAIN s : Append(s, e)[i] = s[i]
           /\ Append(s, e)[Len(s) + 1] = e
  OBVIOUS

LEMMA ElementOf ==
    ASSUME NEW S, NEW s \in Seq(S), NEW i \in DOMAIN s
    PROVE  s[i] \in S
  OBVIOUS

LEMMA EndAfter ==
    ASSUME NEW q \in QueueElement, NEW n \in 0..ACK_RETRY_MAX
    PROVE  /\ [q EXCEPT !.retry = n, !.st = "ENDING"] \in QueueElement
           /\ [q EXCEPT !.retry = n, !.st = "ENDING"].st = "ENDING"
           /\ [q EXCEPT !.retry = n, !.st = "ENDING"].retry = n
           /\ [q EXCEPT !.retry = n, !.st = "ENDING"].no = q.no
<1>1. [q EXCEPT !.retry = n, !.st = "ENDING"] \in QueueElement
  BY DEF QueueElement
<1>2. [q EXCEPT !.retry = n, !.st = "ENDING"].st = "ENDING"
  BY DEF QueueElement
<1>3. [q EXCEPT !.retry = n, !.st = "ENDING"].retry = n
  BY DEF QueueElement
<1>4. [q EXCEPT !.retry = n, !.st = "ENDING"].no = q.no
  BY DEF QueueElement
<1> QED BY <1>1, <1>2, <1>3, <1>4

LEMMA TailElements ==
    ASSUME NEW S, NEW s \in Seq(S), s # <<>>
    PROVE  /\ Tail(s) \in Seq(S)
           /\ \A i \in DOMAIN Tail(s) : i + 1 \in DOMAIN s /\ Tail(s)[i] = s[i + 1]
  OBVIOUS

LEMMA InitAckInv == Init => AckInv
<1> SUFFICES ASSUME Init PROVE AckInv
  OBVIOUS
<1> USE DEF Init, NextHopsInit, TcpInit, UdpInit
<1>1. HopTypes
  BY DEF HopTypes
<1> QED BY <1>1 DEF AckInv

(* A step that leaves the ACKs and what was relayed alone keeps AckInv when *)
(* the elements of the changed queue come from the old one or are new.      *)
LEMMA QueueChange ==
    ASSUME AckInv, UNCHANGED <<data, acks, copies, protocolType>>, HopTypes',
           protocolType = "UDP" => at' = at,
           \A e \in Elements : at'[e] \in {"send", "unlink"} => queue'[e] # <<>>,
           \A e \in Elements : \A i \in DOMAIN queue'[e] :
              \/ \E j \in DOMAIN queue[e] : queue'[e][i] = queue[e][j]
              \/ queue'[e][i].st = "READY" /\ queue'[e][i].retry = 0
    PROVE  AckInv'
<1>1. \A e \in Elements : \A q : Justified(e, q) => Justified(e, q)'
  BY DEF Justified, IsRelayed
<1>2. \A e \in Elements : \A i \in DOMAIN queue'[e] :
        /\ queue'[e][i].st = "READY" => queue'[e][i].retry = 0
        /\ Justified(e, queue'[e][i])
  BY DEF AckInv, Justified
<1> QED BY <1>1, <1>2 DEF AckInv, IsRelayed, Justified

LEMMA CallerKeepsAckInv ==
    ASSUME AckInv, NEW c \in Callers, Calling(c)
    PROVE  AckInv'
<1> USE RetryMax
<1>1. UNCHANGED <<at, data, acks, copies, protocolType>>
  BY DEF Calling, tcpVars, udpVars, Caller, Begin, Search, Create, CheckRoom, TakeNumber,
         Insert, Signal, types
<1>2. CASE Begin(c) \/ Search(c) \/ Create(c) \/ CheckRoom(c) \/ TakeNumber(c) \/ Signal(c)
  <2>1. /\ UNCHANGED queue
        /\ call' \in [Callers -> Nat] /\ num' \in [Callers -> Nat] /\ number' \in Nat
    BY <1>2 DEF Begin, Search, Create, CheckRoom, TakeNumber, Signal, AckInv, HopTypes
  <2>2. HopTypes'
    BY <1>1, <2>1 DEF AckInv, HopTypes
  <2> QED BY <1>1, <2>1, <2>2 DEF AckInv, IsRelayed, Justified
<1>3. CASE Insert(c)
  <2> DEFINE q == [no |-> num[c], pkt |-> Packet(c), st |-> "READY", retry |-> 0]
             e == proc[c]
  <2>1. /\ queue' = [queue EXCEPT ![e] = Append(queue[e], q)]
        /\ UNCHANGED <<call, num, number>>
    BY <1>3 DEF Insert
  <2>2. q \in QueueElement /\ q.st = "READY" /\ q.retry = 0
    BY DEF AckInv, HopTypes, QueueElement, Packet
  <2> HIDE DEF q
  <2>3. ASSUME e \in Elements
        PROVE  /\ Append(queue[e], q) \in Seq(QueueElement) /\ Append(queue[e], q) # <<>>
               /\ \A i \in DOMAIN Append(queue[e], q) :
                     Append(queue[e], q)[i] = q \/ (i \in DOMAIN queue[e] /\ Append(queue[e], q)[i] = queue[e][i])
    <3>1. queue[e] \in Seq(QueueElement)
      BY <2>3 DEF AckInv, HopTypes
    <3> HIDE DEF e
    <3> QED BY <2>2, <3>1, LastElement
  <2>4. HopTypes'
    BY <1>1, <2>1, <2>3 DEF AckInv, HopTypes
  <2>5. ASSUME NEW d \in Elements, at'[d] \in {"send", "unlink"} PROVE queue'[d] # <<>>
    BY <1>1, <2>1, <2>3, <2>5 DEF AckInv, HopTypes
  <2>6. ASSUME NEW d \in Elements, NEW i \in DOMAIN queue'[d]
        PROVE  \/ \E j \in DOMAIN queue[d] : queue'[d][i] = queue[d][j]
               \/ queue'[d][i].st = "READY" /\ queue'[d][i].retry = 0
    BY <2>1, <2>2, <2>3 DEF AckInv, HopTypes
  <2> QED BY <1>1, <2>4, <2>5, <2>6, QueueChange
<1> QED BY <1>2, <1>3 DEF Calling, Caller

(* The thread of a TCP connection takes packets from its queue's front.     *)
LEMMA TcpKeepsAckInv ==
    ASSUME AckInv, NEW e \in Elements, Tcp, TcpThread(e) \/ TcpReceiver(e)
    PROVE  AckInv'
<1> USE RetryMax
<1>1. UNCHANGED <<data, acks, copies, call, num, number, protocolType>> /\ protocolType # "UDP"
  BY DEF Tcp, types, udpVars, TcpThread, TcpReceiver, Connect, ReadQueue, SendTCP, Reconnect, Unlink,
         Flag, WaitEnqueue, ClearFlag, RecvTCP, hopVars, callerVars
<1>2. CASE Unlink(e)
  <2>1. /\ at[e] = "unlink" /\ queue[e] # <<>> /\ queue[e] \in Seq(QueueElement)
        /\ queue' = [queue EXCEPT ![e] = Tail(queue[e])]
        /\ at' = [at EXCEPT ![e] = IF queue'[e] = <<>> THEN "flag" ELSE "send"]
    BY <1>2 DEF Unlink, AckInv, HopTypes
  <2>2. /\ Tail(queue[e]) \in Seq(QueueElement)
        /\ \A i \in DOMAIN Tail(queue[e]) :
              i + 1 \in DOMAIN queue[e] /\ Tail(queue[e])[i] = queue[e][i + 1]
    BY <2>1, TailElements
  <2>3. HopTypes'
    BY <1>1, <2>1, <2>2 DEF AckInv, HopTypes
  <2>4. ASSUME NEW d \in Elements, at'[d] \in {"send", "unlink"} PROVE queue'[d] # <<>>
    BY <2>1, <2>4 DEF AckInv, HopTypes
  <2>5. ASSUME NEW d \in Elements, NEW i \in DOMAIN queue'[d]
        PROVE  \E j \in DOMAIN queue[d] : queue'[d][i] = queue[d][j]
    <3>1. CASE d = e
      <4>1. queue'[d] = Tail(queue[e])
        BY <2>1, <3>1 DEF AckInv, HopTypes
      <4> QED BY <2>2, <3>1, <4>1
    <3>2. CASE d # e
      BY <2>1, <3>2 DEF AckInv, HopTypes
    <3> QED BY <3>1, <3>2
  <2> QED BY <1>1, <2>3, <2>4, <2>5, QueueChange
<1>3. CASE \/ Connect(e) \/ ReadQueue(e) \/ SendTCP(e) \/ Reconnect(e) \/ Flag(e)
           \/ WaitEnqueue(e) \/ ClearFlag(e) \/ TcpReceiver(e)
  <2>1. /\ UNCHANGED queue
        /\ \/ UNCHANGED at
           \/ \E q \in {"read", "flag", "wait", "clear"} : at' = [at EXCEPT ![e] = q]
           \/ at' = [at EXCEPT ![e] = "send"] /\ queue[e] # <<>>
           \/ at' = [at EXCEPT ![e] = "unlink"] /\ at[e] = "send"
    BY <1>3 DEF Connect, ReadQueue, SendTCP, Reconnect, Flag, WaitEnqueue, ClearFlag,
                TcpReceiver, RecvTCP, hopVars
  <2>2. HopTypes'
    BY <1>1, <2>1 DEF AckInv, HopTypes
  <2>3. ASSUME NEW d \in Elements, at'[d] \in {"send", "unlink"} PROVE queue'[d] # <<>>
    BY <2>1, <2>3 DEF AckInv, HopTypes
  <2> QED BY <1>1, <2>1, <2>2, <2>3, QueueChange
<1> QED BY <1>2, <1>3 DEF TcpThread

(* A step that changes the state of one packet of the queue.                *)
LEMMA SetElement ==
    ASSUME HopTypes, NEW e \in Elements, NEW i \in DOMAIN queue[e], NEW q \in QueueElement,
           QueueOnly(e, [queue[e] EXCEPT ![i] = q])
    PROVE  /\ queue' \in [Elements -> Seq(QueueElement)]
           /\ \A d \in Elements :
                 /\ DOMAIN queue'[d] = DOMAIN queue[d]
                 /\ queue'[d] = <<>> <=> queue[d] = <<>>
                 /\ \A j \in DOMAIN queue[d] :
                       queue'[d][j] = IF d = e /\ j = i THEN q ELSE queue[d][j]
           /\ UNCHANGED <<call, num, number, protocolType>>
<1>1. queue[e] \in Seq(QueueElement) /\ queue \in [Elements -> Seq(QueueElement)]
  BY DEF HopTypes
<1>2. queue' = [queue EXCEPT ![e] = [queue[e] EXCEPT ![i] = q]]
      /\ UNCHANGED <<call, num, number, protocolType>>
  BY DEF QueueOnly, callerVars, types
<1> DEFINE s == [queue[e] EXCEPT ![i] = q]
<1>3. /\ s \in Seq(QueueElement) /\ DOMAIN s = DOMAIN queue[e]
      /\ s = <<>> <=> queue[e] = <<>>
      /\ \A j \in DOMAIN queue[e] : s[j] = IF j = i THEN q ELSE queue[e][j]
  BY <1>1
<1> HIDE DEF s
<1>4. queue' = [queue EXCEPT ![e] = s]
  BY <1>2 DEF s
<1> QED BY <1>1, <1>2, <1>3, <1>4

LEMMA ThreadKeepsAckInv ==
    ASSUME AckInv, NEW e \in Elements, Udp, SenderThreads(e)
    PROVE  AckInv'
<1> USE RetryMax
<1>1. UNCHANGED at
  BY DEF Udp, tcpVars
<1>2. PICK i \in DOMAIN queue[e] :
        \/ \E arrives \in BOOLEAN : StartSender(e, i, arrives) \/ Timeout(e, i, arrives)
        \/ SendEnd(e, i)
        \/ Exit(e, i)
  BY DEF SenderThreads
<1> DEFINE p == queue[e][i]
<1>3. p \in QueueElement /\ p.no \in Nat /\ p.retry \in 0..ACK_RETRY_MAX /\ Justified(e, p)
      /\ (p.st = "READY" => p.retry = 0)
  <2>1. queue[e] \in Seq(QueueElement)
    BY DEF AckInv, HopTypes
  <2>2. p \in QueueElement
    BY <2>1, ElementOf
  <2> QED BY <2>2 DEF AckInv, QueueElement
<1>4. ASSUME NEW q \in QueueElement, QueueOnly(e, [queue[e] EXCEPT ![i] = q]),
             Justified(e, q), q.st # "READY",
             UNCHANGED <<acks, copies>>, data' \in [Elements -> SUBSET Transmission]
      PROVE  AckInv'
  <2>1. /\ queue' \in [Elements -> Seq(QueueElement)]
        /\ \A d \in Elements :
              /\ DOMAIN queue'[d] = DOMAIN queue[d]
              /\ queue'[d] = <<>> <=> queue[d] = <<>>
              /\ \A j \in DOMAIN queue[d] :
                    queue'[d][j] = IF d = e /\ j = i THEN q ELSE queue[d][j]
        /\ UNCHANGED <<call, num, number, protocolType>>
    BY <1>4, SetElement DEF AckInv
  <2>2. HopTypes'
    BY <1>1, <1>4, <2>1 DEF AckInv, HopTypes
  <2>3. \A d \in Elements : \A r : Justified(d, r)' <=> Justified(d, r)
    BY <1>4 DEF Justified, IsRelayed
  <2>4. \A d \in Elements : at'[d] \in {"send", "unlink"} => queue'[d] # <<>>
    BY <1>1, <2>1 DEF AckInv
  <2>5. \A d \in Elements : \A a \in acks'[d] : IsRelayed(d, a.no)'
    BY <1>4 DEF AckInv, IsRelayed
  <2>6. ASSUME NEW d \in Elements, NEW j \in DOMAIN queue'[d]
        PROVE  /\ queue'[d][j].st = "READY" => queue'[d][j].retry = 0
               /\ Justified(d, queue'[d][j])
    <3>1. CASE d = e /\ j = i
      BY <1>4, <2>1, <3>1
    <3>2. CASE ~(d = e /\ j = i)
      BY <2>1, <3>2 DEF AckInv
    <3> QED BY <3>1, <3>2
  <2> QED BY <1>1, <2>1, <2>2, <2>3, <2>4, <2>5, <2>6 DEF AckInv
<1>5. ASSUME NEW n \in 0..ACK_RETRY_MAX, NEW arrives \in BOOLEAN,
             Transmit(data, e, [no |-> p.no, try |-> n], arrives)
      PROVE  data' \in [Elements -> SUBSET Transmission]
  BY <1>3, <1>5 DEF Transmit, Transmission, AckInv, HopTypes
<1>6. ASSUME NEW arrives \in BOOLEAN, StartSender(e, i, arrives) PROVE AckInv'
  <2> DEFINE q == [p EXCEPT !.st = "START"]
  <2>1. q \in QueueElement /\ q.st = "START" /\ q.retry = 0
    BY <1>3, <1>6 DEF StartSender, QueueElement
  <2>2. /\ QueueOnly(e, [queue[e] EXCEPT ![i] = q])
        /\ UNCHANGED <<acks, copies>>
    BY <1>6 DEF StartSender
  <2>3. data' \in [Elements -> SUBSET Transmission]
    BY <1>5, <1>6 DEF StartSender
  <2>4. Justified(e, q)
    BY <2>1 DEF Justified
  <2> HIDE DEF q
  <2> QED BY <1>4, <2>1, <2>2, <2>3, <2>4
<1>7. ASSUME NEW arrives \in BOOLEAN, Timeout(e, i, arrives) PROVE AckInv'
  <2> DEFINE n == p.retry + 1
  <2>1. n \in 1..ACK_RETRY_MAX /\ p.st = "START"
    BY <1>3, <1>7 DEF Timeout, Justified
  <2>2. CASE n < ACK_RETRY_MAX
    <3> DEFINE q == [p EXCEPT !.retry = n]
    <3>1. q \in QueueElement /\ q.st = "START" /\ q.retry = n
      BY <1>3, <2>1 DEF QueueElement
    <3>2. QueueOnly(e, [queue[e] EXCEPT ![i] = q]) /\ UNCHANGED <<acks, copies>>
      BY <1>7, <2>2 DEF Timeout
    <3>3. data' \in [Elements -> SUBSET Transmission]
      BY <1>5, <1>7, <2>1, <2>2 DEF Timeout
    <3>4. Justified(e, q)
      BY <2>2, <3>1 DEF Justified
    <3> HIDE DEF q
    <3> QED BY <1>4, <3>1, <3>2, <3>3, <3>4
  <2>3. CASE ~(n < ACK_RETRY_MAX)
    <3> DEFINE q == [p EXCEPT !.retry = n, !.st = "ENDING"]
    <3>1. q \in QueueElement /\ q.st = "ENDING" /\ q.retry = n
      <4>1. n \in 0..ACK_RETRY_MAX
        BY <2>1
      <4> HIDE DEF n, p
      <4>2. q \in QueueElement
        BY <1>3, <4>1, EndAfter
      <4>3. q.st = "ENDING"
        BY <1>3 DEF QueueElement
      <4>4. q.retry = n
        BY <1>3 DEF QueueElement
      <4> QED BY <4>2, <4>3, <4>4
    <3>2. QueueOnly(e, [queue[e] EXCEPT ![i] = q]) /\ UNCHANGED <<acks, copies, data>>
      BY <1>7, <2>3 DEF Timeout, Ending
    <3>3. Justified(e, q)
      BY <2>1, <2>3, <3>1 DEF Justified
    <3>4. data' \in [Elements -> SUBSET Transmission]
      BY <3>2 DEF AckInv, HopTypes
    <3> HIDE DEF q
    <3> QED BY <1>4, <3>1, <3>2, <3>3, <3>4
  <2> QED BY <2>2, <2>3
<1>8. CASE SendEnd(e, i)
  <2> DEFINE q == [p EXCEPT !.st = "ENDING"]
  <2>1. q \in QueueElement /\ q.st = "ENDING" /\ q.no = p.no /\ p.st = "SENDEND"
    BY <1>3, <1>8 DEF SendEnd, QueueElement
  <2>2. QueueOnly(e, [queue[e] EXCEPT ![i] = q]) /\ UNCHANGED <<acks, copies, data>>
    BY <1>8 DEF SendEnd, Ending
  <2>3. Justified(e, q)
    BY <1>3, <2>1 DEF Justified
  <2>4. data' \in [Elements -> SUBSET Transmission]
    BY <2>2 DEF AckInv, HopTypes
  <2> HIDE DEF q
  <2> QED BY <1>4, <2>1, <2>2, <2>3, <2>4
<1>9. CASE Exit(e, i)
  <2> DEFINE q == [p EXCEPT !.st = "EXIT"]
  <2>1. q \in QueueElement /\ q.st = "EXIT" /\ q.no = p.no /\ p.st = "ENDING"
    BY <1>3, <1>9 DEF Exit, QueueElement
  <2>2. QueueOnly(e, [queue[e] EXCEPT ![i] = q]) /\ UNCHANGED <<acks, copies, data>>
    BY <1>9 DEF Exit, udpVars
  <2>3. Justified(e, q)
    BY <1>3, <2>1 DEF Justified
  <2>4. data' \in [Elements -> SUBSET Transmission]
    BY <2>2 DEF AckInv, HopTypes
  <2> HIDE DEF q
  <2> QED BY <1>4, <2>1, <2>2, <2>3, <2>4
<1> QED BY <1>2, <1>6, <1>7, <1>8, <1>9

LEMMA SameKeepsAckInv == AckInv /\ UNCHANGED ackVars => AckInv'
  BY DEF ackVars, AckInv, HopTypes, Justified, IsRelayed

(* A pass of the deleting thread changes the queue only where it takes a    *)
(* packet out.                                                              *)
LEMMA DelKeepsAckInv ==
    ASSUME AckInv, NEW e \in Elements, Udp, DelThread(e)
    PROVE  AckInv'
<1> USE RetryMax
<1>1. UNCHANGED at
  BY DEF Udp, tcpVars
<1>2. ASSUME NEW i \in DOMAIN queue[e], DelPacket(e, i) PROVE AckInv'
  <2> DEFINE s == [j \in 1..(Len(queue[e]) - 1) |-> queue[e][IF j < i THEN j ELSE j + 1]]
  <2>1. /\ queue' = [queue EXCEPT ![e] = s]
        /\ UNCHANGED <<call, num, number, data, acks, copies, protocolType>>
    BY <1>2 DEF DelPacket, QueueOnly, callerVars, types, udpVars
  <2>2. /\ s \in Seq(QueueElement)
        /\ \A j \in DOMAIN s : \E k \in DOMAIN queue[e] : s[j] = queue[e][k]
    <3>1. queue[e] \in Seq(QueueElement) /\ Len(queue[e]) \in Nat /\ DOMAIN queue[e] = 1..Len(queue[e])
      BY DEF AckInv, HopTypes
    <3>2. i \in 1..Len(queue[e]) /\ Len(queue[e]) - 1 \in Nat
      BY <3>1
    <3>3. \A j \in 1..(Len(queue[e]) - 1) : (IF j < i THEN j ELSE j + 1) \in DOMAIN queue[e]
      BY <3>1, <3>2
    <3>4. \A k \in DOMAIN queue[e] : queue[e][k] \in QueueElement
      BY <3>1, ElementOf
    <3> QED BY <3>2, <3>3, <3>4
  <2> HIDE DEF s
  <2>3. HopTypes'
    BY <1>1, <2>1, <2>2 DEF AckInv, HopTypes
  <2>4. \A d \in Elements : \A j \in DOMAIN queue'[d] :
          \E k \in DOMAIN queue[d] : queue'[d][j] = queue[d][k]
    BY <2>1, <2>2 DEF AckInv, HopTypes
  <2>5. \A d \in Elements : at'[d] = "none"
    BY <1>1 DEF Udp, AckInv
  <2> QED BY <1>1, <2>1, <2>3, <2>4, <2>5, QueueChange
<1>3. CASE WaitDelSignal(e) \/ LookOn(e)
  <2>1. UNCHANGED ackVars
    BY <1>1, <1>3 DEF WaitDelSignal, LookOn, hopVars, callerVars, types, ackVars
  <2> QED BY <2>1, SameKeepsAckInv
<1> QED BY <1>2, <1>3 DEF DelThread

(* An ACK is put on its way only with the copy that is relayed, so that the *)
(* packet a thread learns of has been relayed.                              *)
LEMMA ReceiverKeepsAckInv ==
    ASSUME AckInv, NEW e \in Elements, Udp, UdpReceiver(e)
    PROVE  AckInv'
<1> USE RetryMax
<1>1. UNCHANGED at
  BY DEF Udp, tcpVars
<1>2. ASSUME NEW d \in data[e], NEW arrives \in BOOLEAN, SendingACK(e, d, arrives)
      PROVE  AckInv'
  <2>1. /\ d \in Transmission /\ d.no \in Nat /\ copies[e] \in Seq(Nat)
        /\ UNCHANGED <<call, num, number, queue, protocolType>>
    BY <1>2 DEF SendingACK, hopVars, callerVars, types, AckInv, HopTypes, Transmission
  <2>2. /\ copies' = [copies EXCEPT ![e] = Append(copies[e], d.no)]
        /\ data' = [data EXCEPT ![e] = data[e] \ {d}]
        /\ acks' = [acks EXCEPT ![e] = IF arrives THEN acks[e] \cup {d} ELSE acks[e]]
    BY <1>2 DEF SendingACK, Transmit
  <2>3. /\ Append(copies[e], d.no) \in Seq(Nat)
        /\ DOMAIN Append(copies[e], d.no) = DOMAIN copies[e] \cup {Len(copies[e]) + 1}
        /\ \A k \in DOMAIN copies[e] : Append(copies[e], d.no)[k] = copies[e][k]
        /\ Append(copies[e], d.no)[Len(copies[e]) + 1] = d.no
    BY <2>1, LastElement
  <2>4. HopTypes'
    BY <1>1, <2>1, <2>2, <2>3 DEF AckInv, HopTypes
  <2>5. ASSUME NEW f \in Elements, NEW n, IsRelayed(f, n) PROVE IsRelayed(f, n)'
    <3>1. CASE f = e
      <4>1. copies'[f] = Append(copies[e], d.no)
        BY <2>2, <3>1 DEF AckInv, HopTypes
      <4> QED BY <2>3, <2>5, <3>1, <4>1 DEF IsRelayed
    <3>2. CASE f # e
      BY <2>2, <2>5, <3>2 DEF AckInv, HopTypes, IsRelayed
    <3> QED BY <3>1, <3>2
  <2>6. IsRelayed(e, d.no)'
    <3>1. copies'[e] = Append(copies[e], d.no)
      BY <2>2 DEF AckInv, HopTypes
    <3> QED BY <2>3, <3>1 DEF IsRelayed
  <2>7. ASSUME NEW f \in Elements, NEW a \in acks'[f] PROVE IsRelayed(f, a.no)'
    <3>1. (f = e /\ a = d) \/ a \in acks[f]
      BY <2>2 DEF AckInv, HopTypes
    <3>2. CASE a \in acks[f]
      BY <2>5, <3>2 DEF AckInv
    <3> QED BY <2>6, <3>1, <3>2
  <2>8. \A f \in Elements : \A r : Justified(f, r) => Justified(f, r)'
    BY <2>5 DEF Justified
  <2> QED BY <1>1, <2>1, <2>4, <2>7, <2>8 DEF AckInv
<1>3. ASSUME NEW a \in acks[e], RecvACK(e, a) PROVE AckInv'
  <2>1. /\ UNCHANGED <<data, copies>>
        /\ acks' = [acks EXCEPT ![e] = acks[e] \ {a}]
        /\ IsRelayed(e, a.no)
    BY <1>3 DEF RecvACK, AckInv
  <2>2. acks' \in [Elements -> SUBSET Transmission]
        /\ \A f \in Elements : acks'[f] \subseteq acks[f]
    BY <2>1 DEF AckInv, HopTypes
  <2>3. \A f \in Elements : \A r : Justified(f, r)' <=> Justified(f, r)
    BY <2>1 DEF Justified, IsRelayed
  <2>4. \A f \in Elements : \A b \in acks'[f] : IsRelayed(f, b.no)'
    BY <2>1, <2>2 DEF AckInv, IsRelayed
  <2>5. CASE QueueOnly(e, queue[e])
    <3>1. UNCHANGED <<queue, call, num, number, protocolType>>
      BY <2>5 DEF QueueOnly, callerVars, types, AckInv, HopTypes
    <3>2. HopTypes'
      BY <1>1, <2>1, <2>2, <3>1 DEF AckInv, HopTypes
    <3> QED BY <1>1, <2>3, <2>4, <3>1, <3>2 DEF AckInv
  <2>6. ASSUME NEW i \in Matches(e, a.no),
               QueueOnly(e, [queue[e] EXCEPT ![i].st = "SENDEND"])
        PROVE  AckInv'
    <3> DEFINE p == queue[e][i]
               q == [p EXCEPT !.st = "SENDEND"]
    <3>1. i \in DOMAIN queue[e] /\ p.no = a.no
      BY DEF Matches
    <3>2. p \in QueueElement
      <4>1. queue[e] \in Seq(QueueElement)
        BY DEF AckInv, HopTypes
      <4> QED BY <3>1, <4>1, ElementOf
    <3>3. q \in QueueElement /\ q.st = "SENDEND" /\ q.no = a.no
      BY <3>1, <3>2 DEF QueueElement
    <3>4. QueueOnly(e, [queue[e] EXCEPT ![i] = q])
      BY <2>6
    <3>5. Justified(e, q)
      BY <2>1, <3>3 DEF Justified
    <3> HIDE DEF q
    <3>6. /\ queue' \in [Elements -> Seq(QueueElement)]
          /\ \A d \in Elements :
                /\ DOMAIN queue'[d] = DOMAIN queue[d]
                /\ queue'[d] = <<>> <=> queue[d] = <<>>
                /\ \A j \in DOMAIN queue[d] :
                      queue'[d][j] = IF d = e /\ j = i THEN q ELSE queue[d][j]
          /\ UNCHANGED <<call, num, number, protocolType>>
      BY <3>1, <3>3, <3>4, SetElement DEF AckInv
    <3>7. HopTypes'
      BY <1>1, <2>1, <2>2, <3>6 DEF AckInv, HopTypes
    <3>8. ASSUME NEW d \in Elements, NEW j \in DOMAIN queue'[d]
          PROVE  /\ queue'[d][j].st = "READY" => queue'[d][j].retry = 0
                 /\ Justified(d, queue'[d][j])
      <4>1. CASE d = e /\ j = i
        BY <3>3, <3>5, <3>6, <4>1
      <4>2. CASE ~(d = e /\ j = i)
        BY <3>6, <4>2 DEF AckInv
      <4> QED BY <4>1, <4>2
    <3>9. \A d \in Elements : at'[d] \in {"send", "unlink"} => queue'[d] # <<>>
      BY <1>1, <3>6 DEF AckInv
    <3> QED BY <1>1, <2>3, <2>4, <3>6, <3>7, <3>8, <3>9 DEF AckInv
  <2> QED BY <1>3, <2>5, <2>6 DEF RecvACK
<1> QED BY <1>2, <1>3 DEF UdpReceiver

LEMMA NextKeepsAckInv == AckInv /\ [Next]_vars => AckInv'
<1> SUFFICES ASSUME AckInv, [Next]_vars PROVE AckInv'
  OBVIOUS
<1>1. ASSUME NEW c \in Callers, Calling(c) PROVE AckInv'
  BY <1>1, CallerKeepsAckInv
<1>2. ASSUME NEW e \in Elements, Threads(e) PROVE AckInv'
  <2>1. CASE Tcp /\ (TcpThread(e) \/ TcpReceiver(e))
    BY <2>1, TcpKeepsAckInv
  <2>2. CASE Udp /\ SenderThreads(e)
    BY <2>2, ThreadKeepsAckInv
  <2>3. CASE Udp /\ UdpReceiver(e)
    BY <2>3, ReceiverKeepsAckInv
  <2>4. CASE Udp /\ DelThread(e)
    BY <2>4, DelKeepsAckInv
  <2> QED BY <1>2, <2>1, <2>2, <2>3, <2>4 DEF Threads
<1>3. CASE UNCHANGED vars
  <2>1. UNCHANGED ackVars
    BY <1>3 DEF vars, hopVars, tcpVars, udpVars, callerVars, types, ackVars
  <2> QED BY <2>1, SameKeepsAckInv
<1> QED BY <1>1, <1>2, <1>3 DEF Next

LEMMA AckInvJustifies == AckInv => AckedIsRelayed
<1> SUFFICES ASSUME AckInv, NEW e \in Elements, NEW i \in DOMAIN queue[e],
                    queue[e][i].st \in {"SENDEND", "ENDING", "EXIT"},
                    queue[e][i].retry < ACK_RETRY_MAX
             PROVE  \E k \in DOMAIN copies[e] : copies[e][k] = queue[e][i].no
  BY DEF AckedIsRelayed
<1> QED BY DEF AckInv, Justified, IsRelayed

(* A sending thread of packetSender_nonGBNARQ.c that stops before its last  *)
(* transmission stops because the next hop has relayed its packet: for any  *)
(* number of packets, retries, window size and any loss and reordering of   *)
(* datagrams and ACKs (recvACKorNACK, sendWaitAndResend, relayPacket).      *)
THEOREM ThreadsStopWhenRelayed == Spec => []AckedIsRelayed
<1>1. Init => AckInv
  BY InitAckInv
<1>2. AckInv /\ [Next]_vars => AckInv'
  BY NextKeepsAckInv
<1>3. AckInv => AckedIsRelayed
  BY AckInvJustifies
<1> QED BY <1>1, <1>2, <1>3, PTL DEF Spec
-----------------------------------------------------------------------------
(***************************************************************************)
(* The list of next hops and the callers (NextHopsProofs), whatever the    *)
(* threads of the elements do.                                             *)
(***************************************************************************)
hopListVars == <<types, listVars, callerVars, number, offered>>

LEMMA ThreadsLeaveCallers ==
    ASSUME NEW e \in Elements, Threads(e)
    PROVE  UNCHANGED hopListVars
<1>1. CASE TcpThread(e)
  BY <1>1 DEF TcpThread, Connect, ReadQueue, SendTCP, Reconnect, Unlink, Flag, WaitEnqueue,
              ClearFlag, hopVars, hopListVars
<1>2. CASE TcpReceiver(e)
  BY <1>2 DEF TcpReceiver, RecvTCP, hopVars, hopListVars
<1>3. CASE SenderThreads(e)
  BY <1>3 DEF SenderThreads, StartSender, Timeout, SendEnd, Exit, Ending, QueueOnly, hopListVars
<1>4. CASE UdpReceiver(e)
  BY <1>4 DEF UdpReceiver, SendingACK, RecvACK, QueueOnly, hopVars, hopListVars
<1>5. CASE DelThread(e)
  BY <1>5 DEF DelThread, WaitDelSignal, DelPacket, LookOn, QueueOnly, hopVars, hopListVars
<1> QED BY <1>1, <1>2, <1>3, <1>4, <1>5 DEF Threads

LEMMA StutterLeavesCallers == UNCHANGED vars => UNCHANGED hopListVars
  BY DEF vars, hopVars, hopListVars

LEMMA NextKeepsListInv == ListInv /\ [Next]_vars => ListInv'
<1> SUFFICES ASSUME ListInv, [Next]_vars PROVE ListInv'
  OBVIOUS
<1>1. CASE UNCHANGED hopListVars
  BY <1>1 DEF hopListVars, types, listVars, callerVars, ListInv, ListTypes, LinksUp, CallerOK
<1> QED BY <1>1, ThreadsLeaveCallers, StutterLeavesCallers, CallerKeepsListInv DEF Next, Calling

LEMMA AlwaysListInv == Spec => []ListInv
<1>1. Init => ListInv
  BY InitListInv DEF Init
<1> QED BY <1>1, NextKeepsListInv, PTL DEF Spec

LEMMA NextKeepsOffers ==
    ASSUME OneSender
    PROVE  ListInv /\ (PlacesInv /\ OffersInv) /\ [Next]_vars => (PlacesInv /\ OffersInv)'
<1> SUFFICES ASSUME ListInv, PlacesInv, OffersInv, [Next]_vars PROVE PlacesInv' /\ OffersInv'
  OBVIOUS
<1>1. CASE UNCHANGED hopListVars
  <2> USE <1>1 DEF hopListVars, types, listVars, callerVars
  <2>1. Route' = Route /\ types' = types
    BY DEF Route
  <2>2. PlacesInv'
    BY <2>1 DEF PlacesInv, CallsInv, ParentList, ParentCaller, ChildList, ChildCaller, At
  <2>3. \A c \in Callers : Done(c)' = Done(c) /\ Packet(c)' = Packet(c)
    BY <2>1 DEF Done, At, Packet
  <2>4. \A a, pkt : Offers(a, pkt)' = Offers(a, pkt)
    BY DEF Offers
  <2>5. OffersInv'
    BY <2>1, <2>3, <2>4 DEF OffersInv, Once
  <2> QED BY <2>2, <2>5
<1> QED BY <1>1, ThreadsLeaveCallers, StutterLeavesCallers, CallerKeepsPlaces, CallerKeepsOffers
    DEF Next, Calling

(* A call that returns has offered its packet to each next hop once, also   *)
(* when several threads build the list for the parent at the same time, if  *)
(* one thread sends to the children, as in the programs, and the routing    *)
(* script prints no child twice (sendPacketToNext).                         *)
THEOREM EachNextHopOnce ==
    ASSUME OneSender
    PROVE  Spec => []OfferedOnce
<1>1. Init => PlacesInv /\ OffersInv
  BY InitPlaces DEF Init
<1>2. ListInv /\ (PlacesInv /\ OffersInv) /\ [Next]_vars => (PlacesInv /\ OffersInv)'
  BY NextKeepsOffers
<1>3. ListInv /\ (PlacesInv /\ OffersInv) => OfferedOnce
  <2> SUFFICES ASSUME ListInv, OffersInv, NEW c \in Callers, step[c] = "idle", call[c] > 0,
                      NEW i \in DOMAIN Route
               PROVE  Cardinality({k \in DOMAIN offered : offered[k] = <<Route[i], Packet(c)>>}) = 1
    BY DEF OfferedOnce
  <2>1. i <= Done(c)
    BY RouteFacts DEF Done
  <2>2. Once(Offers(Route[i], Packet(c)))
    BY <2>1 DEF OffersInv
  <2> QED BY <2>2, FS_Singleton DEF Once, Offers
<1> QED BY <1>1, <1>2, <1>3, AlwaysListInv, PTL DEF Spec
-----------------------------------------------------------------------------
(* The connections of an element; a sending thread has one.                 *)
WireInv ==
    /\ waiting \in [Elements -> BOOLEAN]
    /\ pending \in [Elements -> BOOLEAN]
    /\ wire \in [Elements -> Seq(Seq(Nat))]
    /\ relayed \in [Elements -> Seq(Seq(Nat))]
    /\ \A e \in Elements :
          /\ Len(relayed[e]) = Len(wire[e])
          /\ at[e] # "none" => wire[e] # <<>>

LEMMA InitWireInv == Init => WireInv
<1> SUFFICES ASSUME Init PROVE WireInv
  OBVIOUS
<1> USE DEF Init, NextHopsInit, TcpInit
<1>1. <<>> \in Seq(Seq(Nat))
  OBVIOUS
<1> QED BY <1>1 DEF WireInv

LEMMA SameWires ==
    ASSUME WireInv, UNCHANGED <<wire, relayed>>,
           \A e \in Elements : at'[e] # "none" => at[e] # "none" \/ wire[e] # <<>>,
           waiting' \in [Elements -> BOOLEAN], pending' \in [Elements -> BOOLEAN]
    PROVE  WireInv'
  BY DEF WireInv

(* One element of a sequence changes, or it is another sequence for e.      *)
LEMMA ReplacedAt ==
    ASSUME NEW S, NEW s \in Seq(S), NEW k \in DOMAIN s, NEW x \in S
    PROVE  /\ [s EXCEPT ![k] = x] \in Seq(S)
           /\ Len([s EXCEPT ![k] = x]) = Len(s)
           /\ DOMAIN [s EXCEPT ![k] = x] = DOMAIN s
           /\ \A j \in DOMAIN s : [s EXCEPT ![k] = x][j] = IF j = k THEN x ELSE s[j]
  OBVIOUS

LEMMA NewWires ==
    ASSUME WireInv, NEW e \in Elements, NEW w \in Seq(Seq(Nat)), NEW r \in Seq(Seq(Nat)),
           wire' = [wire EXCEPT ![e] = w], relayed' = [relayed EXCEPT ![e] = r],
           Len(r) = Len(w), w # <<>>,
           \A d \in Elements : d = e \/ at'[d] = at[d], UNCHANGED <<waiting, pending>>
    PROVE  WireInv'
<1>1. \A d \in Elements : /\ wire'[d] = IF d = e THEN w ELSE wire[d]
                          /\ relayed'[d] = IF d = e THEN r ELSE relayed[d]
  BY DEF WireInv
<1> QED BY <1>1 DEF WireInv

LEMMA ThreadKeepsWireInv ==
    ASSUME AckInv, WireInv, NEW e \in Elements, TcpThread(e) \/ TcpReceiver(e)
    PROVE  WireInv'
<1>0. /\ wire[e] \in Seq(Seq(Nat)) /\ relayed[e] \in Seq(Seq(Nat))
      /\ Len(relayed[e]) = Len(wire[e]) /\ Len(wire[e]) \in Nat
      /\ at \in [Elements -> {"none", "read", "send", "unlink", "flag", "wait", "clear"}]
      /\ at[e] # "none" => wire[e] # <<>>
      /\ wire = [wire EXCEPT ![e] = wire[e]] /\ relayed = [relayed EXCEPT ![e] = relayed[e]]
  <2>1. /\ wire[e] \in Seq(Seq(Nat)) /\ relayed[e] \in Seq(Seq(Nat))
        /\ Len(relayed[e]) = Len(wire[e])
        /\ at \in [Elements -> {"none", "read", "send", "unlink", "flag", "wait", "clear"}]
        /\ at[e] # "none" => wire[e] # <<>>
        /\ wire = [wire EXCEPT ![e] = wire[e]] /\ relayed = [relayed EXCEPT ![e] = relayed[e]]
    BY DEF WireInv, AckInv, HopTypes
  <2>2. Len(wire[e]) \in Nat
    BY <2>1
  <2> QED BY <2>1, <2>2
<1>1. ASSUME NewConnection(e), UNCHANGED <<waiting, pending>>,
             \A d \in Elements : d = e \/ at'[d] = at[d]
      PROVE  WireInv'
  <2>1. <<>> \in Seq(Nat)
    OBVIOUS
  <2> DEFINE w == Append(wire[e], <<>>)
             r == Append(relayed[e], <<>>)
  <2>2. w \in Seq(Seq(Nat)) /\ r \in Seq(Seq(Nat)) /\ Len(r) = Len(w) /\ w # <<>>
    <3>1. PICK S : S = Seq(Nat)
      OBVIOUS
    <3>2. wire[e] \in Seq(S) /\ relayed[e] \in Seq(S) /\ <<>> \in S
      BY <1>0, <2>1, <3>1
    <3>3. w \in Seq(S) /\ w # <<>> /\ Len(w) = Len(wire[e]) + 1
      BY <3>2, Appended
    <3>4. r \in Seq(S) /\ Len(r) = Len(relayed[e]) + 1
      BY <3>2, Appended
    <3> HIDE DEF w, r
    <3> QED BY <1>0, <3>1, <3>3, <3>4
  <2>3. wire' = [wire EXCEPT ![e] = w] /\ relayed' = [relayed EXCEPT ![e] = r]
    BY <1>1 DEF NewConnection
  <2> HIDE DEF w, r
  <2> QED BY <1>1, <2>2, <2>3, NewWires
<1>2. CASE Connect(e) \/ Reconnect(e)
  <2>1. NewConnection(e) /\ UNCHANGED <<waiting, pending>>
        /\ \A d \in Elements : d = e \/ at'[d] = at[d]
    BY <1>0, <1>2 DEF Connect, Reconnect, hopVars
  <2> QED BY <1>1, <2>1
<1>3. CASE SendTCP(e)
  <2> DEFINE n == Len(wire[e])
             x == Append(wire[e][n], Head(queue[e]).no)
             w == [wire[e] EXCEPT ![n] = x]
  <2>1. at[e] = "send" /\ queue[e] # <<>> /\ queue[e] \in Seq(QueueElement)
    BY <1>3 DEF SendTCP, AckInv, HopTypes
  <2>2. Head(queue[e]) \in QueueElement
    BY <2>1, Ends
  <2>3. Head(queue[e]).no \in Nat
    BY <2>2 DEF QueueElement
  <2>4. n \in DOMAIN wire[e] /\ wire[e][n] \in Seq(Nat)
    <3>1. wire[e] # <<>>
      BY <1>0, <2>1
    <3>2. n \in DOMAIN wire[e]
      BY <1>0, <3>1
    <3> HIDE DEF n
    <3> QED BY <1>0, <3>2, Member
  <2>5. x \in Seq(Nat)
    BY <2>3, <2>4
  <2>6. wire' = [wire EXCEPT ![e] = w] /\ relayed' = relayed
        /\ UNCHANGED <<waiting, pending>> /\ \A d \in Elements : d = e \/ at'[d] = at[d]
    BY <1>0, <1>3 DEF SendTCP, hopVars
  <2>7. w \in Seq(Seq(Nat)) /\ Len(w) = Len(wire[e]) /\ w # <<>>
    <3> HIDE DEF x, n
    <3>1. w \in Seq(Seq(Nat)) /\ Len(w) = Len(wire[e])
      BY <1>0, <2>4, <2>5, ReplacedAt
    <3> HIDE DEF w
    <3>2. Len(w) # 0
      BY <1>0, <2>4, <3>1
    <3> QED BY <3>1, <3>2
  <2> HIDE DEF w
  <2> QED BY <1>0, <2>6, <2>7, NewWires
<1>4. CASE ReadQueue(e) \/ Unlink(e) \/ Flag(e) \/ WaitEnqueue(e) \/ ClearFlag(e)
  <2>1. /\ UNCHANGED <<wire, relayed>> /\ at[e] # "none"
        /\ \A d \in Elements : d = e \/ at'[d] = at[d]
    BY <1>0, <1>4 DEF ReadQueue, Unlink, Flag, WaitEnqueue, ClearFlag, hopVars
  <2>2. waiting' \in [Elements -> BOOLEAN] /\ pending' \in [Elements -> BOOLEAN]
    BY <1>4 DEF ReadQueue, Unlink, Flag, WaitEnqueue, ClearFlag, hopVars, WireInv
  <2> QED BY <2>1, <2>2, SameWires
<1>5. ASSUME NEW k \in DOMAIN wire[e], RecvTCP(e, k) PROVE WireInv'
  <2> DEFINE x == Tail(wire[e][k])
             y == Append(relayed[e][k], Head(wire[e][k]))
             w == [wire[e] EXCEPT ![k] = x]
             r == [relayed[e] EXCEPT ![k] = y]
  <2>1. /\ wire[e][k] # <<>>
        /\ wire' = [wire EXCEPT ![e] = w] /\ relayed' = [relayed EXCEPT ![e] = r]
        /\ UNCHANGED <<waiting, pending, at>>
    BY <1>5 DEF RecvTCP, hopVars
  <2>2. k \in DOMAIN relayed[e] /\ wire[e][k] \in Seq(Nat) /\ relayed[e][k] \in Seq(Nat)
    <3>1. DOMAIN wire[e] = 1..Len(wire[e]) /\ DOMAIN relayed[e] = 1..Len(relayed[e])
      BY <1>0
    <3> QED BY <1>0, <3>1, Member
  <2>3. x \in Seq(Nat) /\ y \in Seq(Nat)
    BY <2>1, <2>2, Ends
  <2>4. /\ w \in Seq(Seq(Nat)) /\ Len(w) = Len(wire[e])
        /\ r \in Seq(Seq(Nat)) /\ Len(r) = Len(relayed[e])
    <3> HIDE DEF x, y
    <3> QED BY <1>0, <2>2, <2>3, ReplacedAt
  <2> HIDE DEF w, r
  <2>5. w # <<>>
    <3>1. Len(wire[e]) # 0
      BY <1>0
    <3> QED BY <1>0, <2>4, <3>1
  <2> QED BY <1>0, <2>1, <2>4, <2>5, NewWires
<1> QED BY <1>2, <1>3, <1>4, <1>5 DEF TcpThread, TcpReceiver

LEMMA NextKeepsWireInv == ListInv /\ AckInv /\ WireInv /\ [Next]_vars => WireInv'
<1> SUFFICES ASSUME ListInv, AckInv, WireInv, [Next]_vars PROVE WireInv'
  OBVIOUS
<1>1. CASE UNCHANGED <<waiting, pending, at, wire, relayed>>
  BY <1>1, SameWires DEF WireInv
<1>2. ASSUME NEW c \in Callers, Calling(c) PROVE WireInv'
  <2>1. UNCHANGED <<waiting, at, wire, relayed>>
    BY <1>2 DEF Calling, tcpVars, Caller, Begin, Search, Create, CheckRoom, TakeNumber, Insert,
                Signal
  <2>2. pending' \in [Elements -> BOOLEAN]
    <3>1. CASE Signal(c)
      <4> DEFINE b == pending[proc[c]] \/ waiting[proc[c]]
      <4>1. b \in BOOLEAN
        OBVIOUS
      <4>2. pending' = [pending EXCEPT ![proc[c]] = b]
        BY <3>1 DEF Signal
      <4> HIDE DEF b
      <4> QED BY <4>1, <4>2 DEF WireInv
    <3>2. CASE ~Signal(c)
      BY <1>2, <3>2 DEF Calling, Caller, Begin, Search, Create, CheckRoom, TakeNumber, Insert,
                        WireInv
    <3> QED BY <3>1, <3>2
  <2> QED BY <2>1, <2>2, SameWires DEF WireInv
<1>3. ASSUME NEW e \in Elements, Threads(e) PROVE WireInv'
  <2>1. CASE Tcp /\ (TcpThread(e) \/ TcpReceiver(e))
    BY <2>1, ThreadKeepsWireInv
  <2>2. CASE Udp /\ (SenderThreads(e) \/ DelThread(e) \/ UdpReceiver(e))
    <3>1. ASSUME SenderThreads(e) PROVE UNCHANGED <<waiting, pending>>
      BY <3>1 DEF SenderThreads, StartSender, Timeout, SendEnd, Exit, Ending, QueueOnly
    <3>2. ASSUME DelThread(e) PROVE UNCHANGED <<waiting, pending>>
      BY <3>2 DEF DelThread, WaitDelSignal, DelPacket, LookOn, QueueOnly, hopVars
    <3>3. ASSUME UdpReceiver(e) PROVE UNCHANGED <<waiting, pending>>
      BY <3>3 DEF UdpReceiver, SendingACK, RecvACK, QueueOnly, hopVars
    <3>4. UNCHANGED <<waiting, pending>>
      BY <2>2, <3>1, <3>2, <3>3
    <3> QED BY <1>1, <2>2, <3>4 DEF Udp, tcpVars
  <2> QED BY <1>3, <2>1, <2>2 DEF Threads
<1>4. CASE UNCHANGED vars
  BY <1>1, <1>4 DEF vars, hopVars, tcpVars
<1> QED BY <1>2, <1>3, <1>4 DEF Next

DelTypes ==
    /\ delSignal \in [Elements -> BOOLEAN]
    /\ pass \in [Elements -> Nat]

LEMMA NextKeepsDelTypes == DelTypes /\ [Next]_vars => DelTypes'
<1> SUFFICES ASSUME DelTypes, [Next]_vars PROVE DelTypes'
  OBVIOUS
<1>1. ASSUME NEW e \in Elements, SenderThreads(e) PROVE DelTypes'
  BY <1>1 DEF SenderThreads, StartSender, Timeout, SendEnd, Exit, Ending, delVars, udpVars, DelTypes
<1>2. ASSUME NEW e \in Elements, DelThread(e) PROVE DelTypes'
  <2>1. CASE WaitDelSignal(e)
    BY <2>1 DEF WaitDelSignal, DelTypes
  <2>2. CASE LookOn(e)
    <3>1. PICK n : n = IF pass[e] \in DOMAIN queue[e] /\ queue[e][pass[e]].st # "READY"
                       THEN pass[e] + 1 ELSE 0
      OBVIOUS
    <3>2. pass' = [pass EXCEPT ![e] = n] /\ UNCHANGED delSignal
      BY <2>2, <3>1 DEF LookOn
    <3>3. n \in Nat
      BY <3>1 DEF DelTypes
    <3> QED BY <3>2, <3>3 DEF DelTypes
  <2>3. CASE \E i \in DOMAIN queue[e] : DelPacket(e, i)
    BY <2>3 DEF DelPacket, udpVars, delVars, DelTypes
  <2> QED BY <1>2, <2>1, <2>2, <2>3 DEF DelThread
<1>3. ASSUME NEW e \in Elements, UdpReceiver(e) PROVE DelTypes'
  BY <1>3 DEF UdpReceiver, SendingACK, RecvACK, delVars, DelTypes
<1>4. CASE UNCHANGED udpVars
  BY <1>4 DEF udpVars, delVars, DelTypes
<1> QED BY <1>1, <1>2, <1>3, <1>4 DEF Next, Threads, Calling, Tcp, vars

HopInv == ListInv /\ AckInv /\ WireInv

LEMMA AlwaysHopInv == Spec => []HopInv
<1>1. Init => HopInv
  BY InitListInv, InitAckInv, InitWireInv DEF Init, HopInv
<1>2. HopInv /\ [Next]_vars => HopInv'
  BY NextKeepsListInv, NextKeepsAckInv, NextKeepsWireInv DEF HopInv
<1> QED BY <1>1, <1>2, PTL DEF Spec

(* The elements, queues and connections keep their types: no caller uses an *)
(* element that was not allocated, no retry counter exceeds ACK_RETRY_MAX,  *)
(* and no thread takes a packet from an empty queue.                        *)
THEOREM TypeCorrect == Spec => []TypeOK
<1>1. HopInv /\ DelTypes => TypeOK
  BY DEF HopInv, DelTypes, ListInv, ListTypes, AckInv, HopTypes, QueueElement, Transmission, WireInv, TypeOK
<1>2. Init => DelTypes
  BY DEF Init, UdpInit, DelTypes
<1> QED BY <1>1, <1>2, AlwaysHopInv, NextKeepsDelTypes, PTL DEF Spec
-----------------------------------------------------------------------------
(***************************************************************************)
(* A sequence number names one packet: each that was taken is with its     *)
(* caller or in one place of one queue, or has left the queues.            *)
(***************************************************************************)
Holds(c, n) == step[c] = "insert" /\ num[c] = n

NotQueued(n) == \A e \in Elements : \A i \in DOMAIN queue[e] : queue[e][i].no # n

NumberInv ==
    /\ \A c \in Callers : step[c] = "insert" => num[c] < number
    /\ \A c, d \in Callers : \A n : Holds(c, n) /\ Holds(d, n) => c = d
    /\ \A e \in Elements : \A i \in DOMAIN queue[e] : queue[e][i].no < number
    /\ \A c \in Callers : \A n : Holds(c, n) => NotQueued(n)
    /\ \A e, f \in Elements : \A i \in DOMAIN queue[e] : \A j \in DOMAIN queue[f] :
          queue[e][i].no = queue[f][j].no => e = f /\ i = j

LEMMA InitNumberInv == Init => NumberInv
  BY DEF Init, NextHopsInit, NumberInv, Holds, NotQueued

(* One queue changes, and what it holds stood in it at different places.    *)
Within(s, t, h) ==
    /\ h \in [DOMAIN s -> DOMAIN t]
    /\ \A i, j \in DOMAIN s : h[i] = h[j] => i = j
    /\ \A i \in DOMAIN s : s[i].no = t[h[i]].no

LEMMA QueueKeepsNumbers ==
    ASSUME HopTypes, NumberInv, UNCHANGED <<step, num, number>>, NEW e \in Elements, NEW s,
           queue' = [queue EXCEPT ![e] = s],
           \E h : Within(s, queue[e], h)
    PROVE  NumberInv'
<1>0. PICK h : /\ h \in [DOMAIN s -> DOMAIN queue[e]]
               /\ \A i, j \in DOMAIN s : h[i] = h[j] => i = j
               /\ \A i \in DOMAIN s : s[i].no = queue[e][h[i]].no
  BY DEF Within
<1>1. \A f \in Elements : queue'[f] = IF f = e THEN s ELSE queue[f]
  BY DEF HopTypes
<1>2. ASSUME NEW f \in Elements, NEW i \in DOMAIN queue'[f]
      PROVE  \E k \in DOMAIN queue[f] : queue'[f][i].no = queue[f][k].no
  BY <1>0, <1>1
<1>3. ASSUME NEW f \in Elements, NEW g \in Elements,
             NEW i \in DOMAIN queue'[f], NEW j \in DOMAIN queue'[g],
             queue'[f][i].no = queue'[g][j].no
      PROVE  f = g /\ i = j
  <2>1. f = g
    BY <1>2, <1>3 DEF NumberInv
  <2>2. CASE f = e
    <3>1. queue'[f] = s /\ queue'[g] = s
      BY <1>1, <2>1, <2>2
    <3>2. h[i] = h[j]
      BY <1>0, <1>3, <3>1 DEF NumberInv
    <3> QED BY <1>0, <2>1, <3>1, <3>2
  <2>3. CASE f # e
    BY <1>1, <1>3, <2>1, <2>3 DEF NumberInv
  <2> QED BY <2>1, <2>2, <2>3
<1>4. \A f \in Elements : \A i \in DOMAIN queue'[f] : queue'[f][i].no < number'
  BY <1>2 DEF NumberInv
<1>6. \A n : NotQueued(n) => NotQueued(n)'
  BY <1>2 DEF NotQueued
<1>5. (\A c \in Callers : step'[c] = "insert" => num'[c] < number')
      /\ \A c, d \in Callers : \A n : Holds(c, n)' /\ Holds(d, n)' => c = d
  BY DEF NumberInv, Holds
<1> QED BY <1>3, <1>4, <1>5, <1>6 DEF NumberInv, Holds

LEMMA CallerKeepsNumbers ==
    ASSUME ListInv, AckInv, NumberInv, NEW c \in Callers, Calling(c)
    PROVE  NumberInv'
<1>0. /\ step \in [Callers -> {"idle", "search", "create", "room", "number", "insert",
                               "signal", "crash"}]
      /\ num \in [Callers -> Nat] /\ number \in Nat
      /\ proc[c] \in {0} \cup Elements
      /\ queue \in [Elements -> Seq(QueueElement)]
  BY DEF ListInv, ListTypes, AckInv, HopTypes
<1>1. CASE Begin(c) \/ Search(c) \/ Create(c) \/ CheckRoom(c) \/ Signal(c)
  <2>1. UNCHANGED <<num, number, queue>> /\ step[c] # "insert"
    BY <1>1 DEF Begin, Search, Create, CheckRoom, Signal
  <2>2. step'[c] # "insert"
    <3>1. CASE CheckRoom(c)
      BY <1>0, <3>1 DEF CheckRoom
    <3>2. CASE Begin(c) \/ Search(c) \/ Create(c) \/ Signal(c)
      BY <1>0, <3>2 DEF Begin, Search, Create, Signal, Advance
    <3> QED BY <1>1, <3>1, <3>2
  <2>3. \A d \in Callers : \A n : Holds(d, n)' <=> Holds(d, n)
    BY <2>1, <2>2, OthersStay DEF Calling, Holds
  <2>4. \A d \in Callers : step'[d] = "insert" => step[d] = "insert"
    BY <2>1, <2>2, OthersStay DEF Calling
  <2>5. \A n : NotQueued(n)' <=> NotQueued(n)
    BY <2>1 DEF NotQueued
  <2> QED BY <2>1, <2>3, <2>4, <2>5 DEF NumberInv
<1>2. CASE TakeNumber(c)
  <2>1. /\ num' = [num EXCEPT ![c] = number] /\ number' = number + 1 /\ queue' = queue
        /\ step'[c] = "insert"
    BY <1>0, <1>2 DEF TakeNumber
  <2>2. \A d \in Callers : d # c => step'[d] = step[d] /\ num'[d] = num[d]
    BY OthersStay DEF Calling
  <2>3. num'[c] = number /\ number < number'
    BY <1>0, <2>1
  <2>4. \A d \in Callers : \A n : Holds(d, n)' <=> IF d = c THEN n = number ELSE Holds(d, n)
    BY <2>1, <2>2, <2>3 DEF Holds
  <2>5. \A d \in Callers : \A n : Holds(d, n) => n < number /\ n \in Nat
    BY <1>0 DEF NumberInv, Holds
  <2>6. \A n \in Nat : n < number => n < number' /\ n # number
    BY <1>0, <2>1
  <2>7. \A e \in Elements : \A i \in DOMAIN queue[e] : queue[e][i].no \in Nat
    <3>1. \A e \in Elements : \A i \in DOMAIN queue[e] : queue[e][i] \in QueueElement
      BY <1>0, ElementOf
    <3> QED BY <3>1 DEF QueueElement
  <2>8. \A d \in Callers : step'[d] = "insert" => num'[d] < number'
    BY <2>4, <2>2, <2>3, <2>5, <2>6 DEF Holds
  <2>9. \A d, f \in Callers : \A n : Holds(d, n)' /\ Holds(f, n)' => d = f
    <3>1. \A d \in Callers : ~Holds(d, number)
      BY <1>0, <2>5, <2>6
    <3> QED BY <2>4, <3>1 DEF NumberInv
  <2>10. \A e \in Elements : \A i \in DOMAIN queue'[e] : queue'[e][i].no < number'
    BY <2>1, <2>6, <2>7 DEF NumberInv
  <2>11. NotQueued(number)
    <3>1. \A e \in Elements : \A i \in DOMAIN queue[e] : queue[e][i].no < number
      BY DEF NumberInv
    <3> QED BY <2>6, <2>7, <3>1 DEF NotQueued
  <2>12. \A n : NotQueued(n)' <=> NotQueued(n)
    BY <2>1 DEF NotQueued
  <2>13. \A d \in Callers : \A n : Holds(d, n)' => NotQueued(n)'
    BY <2>4, <2>11, <2>12 DEF NumberInv
  <2>14. \A e, f \in Elements : \A i \in DOMAIN queue'[e] : \A j \in DOMAIN queue'[f] :
           queue'[e][i].no = queue'[f][j].no => e = f /\ i = j
    BY <2>1 DEF NumberInv
  <2> QED BY <2>8, <2>9, <2>10, <2>13, <2>14 DEF NumberInv
<1>3. CASE Insert(c)
  <2> DEFINE e == proc[c]
             q == [no |-> num[c], pkt |-> Packet(c), st |-> "READY", retry |-> 0]
  <2>1. /\ queue' = [queue EXCEPT ![e] = Append(queue[e], q)]
        /\ UNCHANGED <<num, number>> /\ step[c] = "insert" /\ step'[c] = "signal"
    BY <1>0, <1>3 DEF Insert
  <2>2. q \in QueueElement /\ q.no = num[c] /\ e \in Elements
    BY <2>1, RetryMax DEF AckInv, HopTypes, QueueElement, Packet, ListInv, ListTypes, CallerOK
  <2> HIDE DEF q, e
  <2>3. /\ DOMAIN Append(queue[e], q) = DOMAIN queue[e] \cup {Len(queue[e]) + 1}
        /\ Len(queue[e]) + 1 \notin DOMAIN queue[e]
        /\ \A i \in DOMAIN queue[e] : Append(queue[e], q)[i] = queue[e][i]
        /\ Append(queue[e], q)[Len(queue[e]) + 1] = q
    <3>1. queue[e] \in Seq(QueueElement)
      BY <1>0, <2>2
    <3>2. DOMAIN queue[e] = 1..Len(queue[e]) /\ Len(queue[e]) \in Nat
      BY <3>1
    <3> QED BY <2>2, <3>1, <3>2, LastElement
  <2>4. PICK m : m = Len(queue[e]) + 1
    OBVIOUS
  <2>5. ASSUME NEW f \in Elements, NEW i \in DOMAIN queue'[f]
        PROVE  \/ i \in DOMAIN queue[f] /\ queue'[f][i] = queue[f][i]
               \/ f = e /\ i = m /\ queue'[f][i].no = num[c] /\ i \notin DOMAIN queue[f]
    <3>1. queue'[f] = IF f = e THEN Append(queue[e], q) ELSE queue[f]
      BY <1>0, <2>1
    <3> QED BY <2>2, <2>3, <2>4, <3>1
  <2>6. \A d \in Callers : \A n : Holds(d, n)' <=> (d # c /\ Holds(d, n))
    BY <2>1, OthersStay DEF Holds, Calling
  <2>7. Holds(c, num[c]) /\ num[c] < number
    BY <2>1 DEF NumberInv, Holds
  <2>8. \A d \in Callers : step'[d] = "insert" => num'[d] < number'
    BY <2>1, OthersStay DEF Calling, NumberInv
  <2>9. \A d, f \in Callers : \A n : Holds(d, n)' /\ Holds(f, n)' => d = f
    BY <2>6 DEF NumberInv
  <2>10. \A f \in Elements : \A i \in DOMAIN queue'[f] : queue'[f][i].no < number'
    BY <2>1, <2>5, <2>7 DEF NumberInv
  <2>12. \A n : NotQueued(n) /\ n # num[c] => NotQueued(n)'
    BY <2>5 DEF NotQueued
  <2>13. ASSUME NEW d \in Callers, NEW n, Holds(d, n)' PROVE NotQueued(n)'
    <3>1. d # c /\ Holds(d, n)
      BY <2>6, <2>13
    <3>2. NotQueued(n) /\ n # num[c]
      BY <2>7, <3>1 DEF NumberInv
    <3> QED BY <2>12, <3>2
  <2>11. ASSUME NEW f \in Elements, NEW g \in Elements,
                NEW i \in DOMAIN queue'[f], NEW j \in DOMAIN queue'[g],
                queue'[f][i].no = queue'[g][j].no
         PROVE  f = g /\ i = j
    <3>1. \A k \in Elements : \A l \in DOMAIN queue[k] : queue[k][l].no # num[c]
      BY <2>7 DEF NumberInv, NotQueued
    <3>2. CASE i \in DOMAIN queue[f] /\ queue'[f][i] = queue[f][i]
      <4>1. j \in DOMAIN queue[g] /\ queue'[g][j] = queue[g][j]
        BY <2>5, <2>11, <3>1, <3>2
      <4> QED BY <2>11, <3>2, <4>1 DEF NumberInv
    <3>3. CASE f = e /\ i = m /\ queue'[f][i].no = num[c]
      BY <2>5, <2>11, <3>1, <3>3
    <3> QED BY <2>5, <3>2, <3>3
  <2> QED BY <2>8, <2>9, <2>10, <2>11, <2>13 DEF NumberInv
<1> QED BY <1>1, <1>2, <1>3 DEF Calling, Caller

(* What the threads of e do to its queue.                                   *)
LEMMA TakeFirst ==
    ASSUME HopTypes, NumberInv, NEW e \in Elements, queue[e] # <<>>,
           UNCHANGED <<step, num, number>>, queue' = [queue EXCEPT ![e] = Tail(queue[e])]
    PROVE  NumberInv'
<1>1. queue[e] \in Seq(QueueElement)
  BY DEF HopTypes
<1>2. PICK s : s = Tail(queue[e])
  OBVIOUS
<1>3. \A i \in DOMAIN s : i \in Nat /\ i + 1 \in DOMAIN queue[e] /\ s[i] = queue[e][i + 1]
  <2>1. s \in Seq(QueueElement)
    BY <1>1, <1>2, Ends
  <2>2. \A i \in DOMAIN s : i \in Nat
    BY <2>1
  <2> QED BY <1>1, <1>2, <2>2, TailElements
<1>4. PICK h : h = [i \in DOMAIN s |-> i + 1]
  OBVIOUS
<1>5. Within(s, queue[e], h)
  <2>1. h \in [DOMAIN s -> DOMAIN queue[e]] /\ \A i, j \in DOMAIN s : h[i] = h[j] => i = j
    BY <1>3, <1>4
  <2>2. \A i \in DOMAIN s : s[i].no = queue[e][h[i]].no
    BY <1>3, <1>4
  <2> QED BY <2>1, <2>2 DEF Within
<1> QED BY <1>2, <1>5, QueueKeepsNumbers

LEMMA DeleteKeepsNumbers ==
    ASSUME HopTypes, NumberInv, NEW e \in Elements, NEW k \in DOMAIN queue[e], DelPacket(e, k)
    PROVE  NumberInv'
<1>1. queue[e] \in Seq(QueueElement)
  BY DEF HopTypes
<1>2. Len(queue[e]) \in Nat /\ DOMAIN queue[e] = 1..Len(queue[e])
  BY <1>1
<1>3. PICK D : D = 1..(Len(queue[e]) - 1)
  OBVIOUS
<1>4. PICK s : s = [j \in D |-> queue[e][IF j < k THEN j ELSE j + 1]]
  OBVIOUS
<1>5. PICK h : h = [j \in D |-> IF j < k THEN j ELSE j + 1]
  OBVIOUS
<1>6. queue' = [queue EXCEPT ![e] = s] /\ UNCHANGED <<step, num, number>>
  BY <1>3, <1>4 DEF DelPacket, QueueOnly, callerVars
<1>7. \A j \in D : (IF j < k THEN j ELSE j + 1) \in DOMAIN queue[e]
  BY <1>2, <1>3
<1>8. \A i, j \in D : (IF i < k THEN i ELSE i + 1) = (IF j < k THEN j ELSE j + 1) => i = j
  BY <1>2, <1>3
<1>9. Within(s, queue[e], h)
  <2>1. DOMAIN s = D /\ \A j \in D : s[j] = queue[e][h[j]]
    BY <1>4, <1>5
  <2>2. h \in [D -> DOMAIN queue[e]] /\ \A i, j \in D : h[i] = h[j] => i = j
    BY <1>5, <1>7, <1>8
  <2> QED BY <2>1, <2>2 DEF Within
<1> QED BY <1>6, <1>9, QueueKeepsNumbers

LEMMA SetKeepsNumbers ==
    ASSUME HopTypes, NumberInv, NEW e \in Elements, NEW k \in DOMAIN queue[e], NEW q,
           q.no = queue[e][k].no, QueueOnly(e, [queue[e] EXCEPT ![k] = q])
    PROVE  NumberInv'
<1>1. queue[e] \in Seq(QueueElement)
  BY DEF HopTypes
<1>2. PICK s : s = [queue[e] EXCEPT ![k] = q]
  OBVIOUS
<1>3. PICK h : h = [j \in DOMAIN queue[e] |-> j]
  OBVIOUS
<1>4. DOMAIN s = DOMAIN queue[e] /\ \A j \in DOMAIN queue[e] : s[j].no = queue[e][j].no
  BY <1>1, <1>2
<1>5. queue' = [queue EXCEPT ![e] = s] /\ UNCHANGED <<step, num, number>>
  BY <1>2 DEF QueueOnly, callerVars
<1>6. Within(s, queue[e], h)
  BY <1>3, <1>4 DEF Within
<1> QED BY <1>5, <1>6, QueueKeepsNumbers

LEMMA SameNumbers ==
    ASSUME NumberInv, UNCHANGED <<step, num, number, queue>>
    PROVE  NumberInv'
  BY DEF NumberInv, Holds, NotQueued

(* What a step of the threads does to the packets and their numbers.        *)
LEMMA ThreadsKeepNumbers ==
    ASSUME AckInv, NumberInv, NEW e \in Elements, Threads(e)
    PROVE  NumberInv'
<1>0. HopTypes /\ UNCHANGED <<step, num, number>>
  BY ThreadsLeaveCallers DEF hopListVars, callerVars, AckInv
<1>1. CASE TcpThread(e) \/ TcpReceiver(e)
  <2>1. CASE Unlink(e)
    <3>1. queue[e] # <<>> /\ queue' = [queue EXCEPT ![e] = Tail(queue[e])]
      BY <2>1 DEF Unlink, AckInv
    <3> QED BY <1>0, <3>1, TakeFirst
  <2>2. CASE ~Unlink(e)
    <3>1. queue' = queue
      BY <1>1, <2>2 DEF TcpThread, TcpReceiver, Connect, ReadQueue, SendTCP, Reconnect, Flag,
                        WaitEnqueue, ClearFlag, RecvTCP, hopVars
    <3> QED BY <1>0, <3>1, SameNumbers
  <2> QED BY <2>1, <2>2
<1>2. ASSUME NEW i \in DOMAIN queue[e], NEW q, q.no = queue[e][i].no,
             QueueOnly(e, [queue[e] EXCEPT ![i] = q])
      PROVE  NumberInv'
  BY <1>0, <1>2, SetKeepsNumbers
<1>3. ASSUME NEW i \in DOMAIN queue[e] PROVE queue[e][i] \in QueueElement
  <2>1. queue[e] \in Seq(QueueElement)
    BY <1>0 DEF HopTypes
  <2> QED BY <2>1, ElementOf
<1>4. CASE SenderThreads(e)
  <2>1. PICK i \in DOMAIN queue[e] :
          \/ \E arrives \in BOOLEAN : StartSender(e, i, arrives) \/ Timeout(e, i, arrives)
          \/ SendEnd(e, i)
          \/ Exit(e, i)
    BY <1>4 DEF SenderThreads
  <2>2. PICK q : /\ \/ q = [queue[e][i] EXCEPT !.st = "START"]
                    \/ q = [queue[e][i] EXCEPT !.st = "ENDING"]
                    \/ q = [queue[e][i] EXCEPT !.st = "EXIT"]
                    \/ q = [queue[e][i] EXCEPT !.retry = queue[e][i].retry + 1]
                    \/ q = [queue[e][i] EXCEPT !.retry = queue[e][i].retry + 1, !.st = "ENDING"]
                 /\ QueueOnly(e, [queue[e] EXCEPT ![i] = q])
    BY <2>1 DEF StartSender, Timeout, SendEnd, Exit, Ending
  <2>3. q.no = queue[e][i].no
    BY <1>3, <2>2 DEF QueueElement
  <2> QED BY <1>2, <2>2, <2>3
<1>5. CASE UdpReceiver(e)
  <2>1. CASE queue' = queue
    BY <1>0, <2>1, SameNumbers
  <2>2. CASE queue' # queue
    <3>1. PICK a \in acks[e] : RecvACK(e, a)
      BY <1>5, <2>2 DEF UdpReceiver, SendingACK, hopVars
    <3>2. ~QueueOnly(e, queue[e])
      BY <1>0, <2>2 DEF QueueOnly, HopTypes
    <3>3. PICK i \in Matches(e, a.no) : QueueOnly(e, [queue[e] EXCEPT ![i].st = "SENDEND"])
      BY <3>1, <3>2 DEF RecvACK
    <3>4. PICK q : q = [queue[e][i] EXCEPT !.st = "SENDEND"]
      OBVIOUS
    <3>5. i \in DOMAIN queue[e] /\ QueueOnly(e, [queue[e] EXCEPT ![i] = q])
      BY <3>3, <3>4 DEF Matches
    <3>6. q.no = queue[e][i].no
      BY <1>3, <3>4, <3>5 DEF QueueElement
    <3> QED BY <1>2, <3>5, <3>6
  <2> QED BY <2>1, <2>2
<1>6. CASE DelThread(e)
  <2>1. CASE \E i \in DOMAIN queue[e] : DelPacket(e, i)
    BY <1>0, <2>1, DeleteKeepsNumbers
  <2>2. CASE WaitDelSignal(e) \/ LookOn(e)
    <3>1. queue' = queue
      BY <2>2 DEF WaitDelSignal, LookOn, hopVars
    <3> QED BY <1>0, <3>1, SameNumbers
  <2> QED BY <1>6, <2>1, <2>2 DEF DelThread
<1> QED BY <1>1, <1>4, <1>5, <1>6 DEF Threads

LEMMA NextKeepsNumberInv == ListInv /\ AckInv /\ NumberInv /\ [Next]_vars => NumberInv'
<1> SUFFICES ASSUME ListInv, AckInv, NumberInv, [Next]_vars PROVE NumberInv'
  OBVIOUS
<1>1. CASE UNCHANGED vars
  BY <1>1, SameNumbers DEF vars, hopVars, callerVars
<1> QED BY <1>1, CallerKeepsNumbers, ThreadsKeepNumbers DEF Next
-----------------------------------------------------------------------------
(***************************************************************************)
(* UDP: the datagrams of a packet that are on their way or have arrived    *)
(* are no more than its thread has sent.                                   *)
(***************************************************************************)
Copies(e, n) == {k \in DOMAIN copies[e] : copies[e][k] = n}
Flying(e, n) == {d \in data[e] : d.no = n}
Count(e, n) == Cardinality(Copies(e, n)) + Cardinality(Flying(e, n))

Sends(q) ==
    IF q.st = "READY" THEN 0
    ELSE IF q.st = "START" THEN q.retry + 1
    ELSE ACK_RETRY_MAX

UdpCopies ==
    /\ \A e \in Elements : IsFiniteSet(data[e])
    /\ \A e \in Elements : \A n \in Nat : Count(e, n) <= ACK_RETRY_MAX
    /\ \A e \in Elements : \A n \in Nat : n >= number => Count(e, n) = 0
    /\ \A c \in Callers : \A n : Holds(c, n) => \A e \in Elements : Count(e, n) = 0
    /\ \A e \in Elements : \A i \in DOMAIN queue[e] : \A q :
          queue[e][i] = q => Count(e, q.no) <= Sends(q)

CopyInv ==
    IF protocolType = "UDP" THEN UdpCopies
    ELSE \A e \in Elements : copies[e] = <<>>

LEMMA CountFacts ==
    ASSUME HopTypes, NEW e \in Elements, IsFiniteSet(data[e]), NEW n
    PROVE  /\ IsFiniteSet(Copies(e, n)) /\ Cardinality(Copies(e, n)) \in Nat
           /\ IsFiniteSet(Flying(e, n)) /\ Cardinality(Flying(e, n)) \in Nat
           /\ Count(e, n) \in Nat
<1>1. copies[e] \in Seq(Nat)
  BY DEF HopTypes
<1>2. DOMAIN copies[e] = 1..Len(copies[e]) /\ Len(copies[e]) \in Nat
  BY <1>1
<1>3. IsFiniteSet(DOMAIN copies[e])
  BY <1>2, FS_Interval
<1>4. IsFiniteSet(Copies(e, n)) /\ IsFiniteSet(Flying(e, n))
  <2>1. Copies(e, n) \in SUBSET DOMAIN copies[e] /\ Flying(e, n) \in SUBSET data[e]
    BY DEF Copies, Flying
  <2> QED BY <1>3, <2>1, FS_Subset
<1>5. Cardinality(Copies(e, n)) \in Nat /\ Cardinality(Flying(e, n)) \in Nat
  BY <1>4, FS_CardinalityType
<1> QED BY <1>4, <1>5 DEF Count

(* One transmission adds at most one datagram of its packet.                *)
LEMMA Transmitted ==
    ASSUME HopTypes, \A f \in Elements : IsFiniteSet(data[f]),
           NEW e \in Elements, NEW d, NEW arrives \in BOOLEAN,
           Transmit(data, e, d, arrives), copies' = copies
    PROVE  /\ \A f \in Elements : IsFiniteSet(data'[f])
           /\ \A f \in Elements : \A n : ~(f = e /\ n = d.no) => Count(f, n)' = Count(f, n)
           /\ Count(e, d.no)' <= Count(e, d.no) + 1
           /\ Count(e, d.no)' \in Nat
<1>1. \A f \in Elements : data'[f] = IF f = e /\ arrives THEN data[f] \cup {d} ELSE data[f]
  BY DEF Transmit, HopTypes
<1>2. \A f \in Elements : IsFiniteSet(data'[f])
  <2>1. IsFiniteSet(data[e] \cup {d})
    BY FS_AddElement
  <2> QED BY <1>1, <2>1
<1>3. \A f \in Elements : \A n : Copies(f, n)' = Copies(f, n)
  BY DEF Copies
<1>4. \A f \in Elements : \A n : ~(f = e /\ n = d.no) => Flying(f, n)' = Flying(f, n)
  BY <1>1 DEF Flying
<1>5. PICK n : n = d.no
  OBVIOUS
<1>6. Flying(e, n)' = Flying(e, n) \/ Flying(e, n)' = Flying(e, n) \cup {d}
  BY <1>1, <1>5 DEF Flying
<1>7. Cardinality(Flying(e, n))' <= Cardinality(Flying(e, n)) + 1
  <2>1. IsFiniteSet(Flying(e, n)) /\ Cardinality(Flying(e, n)) \in Nat
    BY CountFacts
  <2>2. Cardinality(Flying(e, n) \cup {d}) <= Cardinality(Flying(e, n)) + 1
    <3>1. PICK F, k : F = Flying(e, n) /\ k = Cardinality(F)
      OBVIOUS
    <3>2. IsFiniteSet(F) /\ k \in Nat
      BY <2>1, <3>1
    <3>3. Cardinality(F \cup {d}) = IF d \in F THEN k ELSE k + 1
      BY <3>1, <3>2, FS_AddElement
    <3>4. Cardinality(F \cup {d}) <= k + 1
      BY <3>2, <3>3
    <3> QED BY <3>1, <3>4
  <2>3. Cardinality(Flying(e, n))' \in {Cardinality(Flying(e, n)), Cardinality(Flying(e, n) \cup {d})}
    BY <1>6
  <2> QED BY <2>1, <2>2, <2>3
<1>8. Count(e, n)' <= Count(e, n) + 1 /\ Count(e, n)' \in Nat
  <2>1. PICK a, b, c : a = Cardinality(Copies(e, n)) /\ b = Cardinality(Flying(e, n))
                       /\ c = Cardinality(Flying(e, n))'
    OBVIOUS
  <2>2. a \in Nat /\ b \in Nat /\ c <= b + 1
    BY <1>7, <2>1, CountFacts
  <2>3. c \in Nat
    <3>1. IsFiniteSet(Flying(e, n)')
      BY <1>2, FS_Subset DEF Flying
    <3> QED BY <2>1, <3>1, FS_CardinalityType
  <2>4. Count(e, n) = a + b /\ Count(e, n)' = a + c
    BY <1>3, <2>1 DEF Count
  <2> QED BY <2>2, <2>3, <2>4
<1>9. \A f \in Elements : \A m : ~(f = e /\ m = d.no) => Count(f, m)' = Count(f, m)
  BY <1>3, <1>4 DEF Count
<1> QED BY <1>2, <1>5, <1>8, <1>9

(* A datagram that arrives is relayed: the two are counted as one.          *)
LEMMA Received ==
    ASSUME HopTypes, \A f \in Elements : IsFiniteSet(data[f]),
           NEW e \in Elements, NEW d \in data[e], NEW arrives \in BOOLEAN,
           SendingACK(e, d, arrives)
    PROVE  /\ \A f \in Elements : IsFiniteSet(data'[f])
           /\ \A f \in Elements : \A n : Count(f, n)' = Count(f, n)
<1>1. /\ data' = [data EXCEPT ![e] = data[e] \ {d}]
      /\ copies' = [copies EXCEPT ![e] = Append(copies[e], d.no)]
      /\ copies[e] \in Seq(Nat) /\ d.no \in Nat
  BY DEF SendingACK, HopTypes, Transmission
<1>2. \A f \in Elements : IsFiniteSet(data'[f])
  <2>1. IsFiniteSet(data[e] \ {d})
    BY FS_RemoveElement
  <2> QED BY <1>1, <2>1 DEF HopTypes
<1>3. \A f \in Elements \ {e} : \A n : Count(f, n)' = Count(f, n)
  BY <1>1 DEF Count, Copies, Flying, HopTypes
<1>4. PICK m : m = Len(copies[e]) + 1
  OBVIOUS
<1>5. /\ DOMAIN copies'[e] = DOMAIN copies[e] \cup {m} /\ m \notin DOMAIN copies[e]
      /\ \A k \in DOMAIN copies[e] : copies'[e][k] = copies[e][k]
      /\ copies'[e][m] = d.no
      /\ data'[e] = data[e] \ {d}
  <2>1. copies'[e] = Append(copies[e], d.no) /\ data'[e] = data[e] \ {d}
    BY <1>1 DEF HopTypes
  <2>2. DOMAIN copies[e] = 1..Len(copies[e]) /\ Len(copies[e]) \in Nat
    BY <1>1
  <2> QED BY <1>1, <1>4, <2>1, <2>2, LastElement
<1>6. ASSUME NEW n PROVE Count(e, n)' = Count(e, n)
  <2>1. CASE n # d.no
    <3>1. Copies(e, n)' = Copies(e, n) /\ Flying(e, n)' = Flying(e, n)
      BY <1>5, <2>1 DEF Copies, Flying
    <3> QED BY <3>1 DEF Count
  <2>2. CASE n = d.no
    <3>1. PICK C, F, a, b : /\ C = Copies(e, n) /\ a = Cardinality(C)
                            /\ F = Flying(e, n) /\ b = Cardinality(F)
      OBVIOUS
    <3>2. IsFiniteSet(C) /\ IsFiniteSet(F) /\ a \in Nat /\ b \in Nat /\ Count(e, n) = a + b
      BY <3>1, CountFacts DEF Count
    <3>3. Copies(e, n)' = C \cup {m} /\ m \notin C
      BY <1>5, <2>2, <3>1 DEF Copies
    <3>4. Flying(e, n)' = F \ {d} /\ d \in F
      BY <1>5, <2>2, <3>1 DEF Flying
    <3>5. Cardinality(C \cup {m}) = a + 1
      BY <3>1, <3>2, <3>3, FS_AddElement
    <3>6. Cardinality(F \ {d}) = b - 1
      BY <3>1, <3>2, <3>4, FS_RemoveElement
    <3>7. Count(e, n)' = (a + 1) + (b - 1)
      BY <3>3, <3>4, <3>5, <3>6 DEF Count
    <3> QED BY <3>2, <3>7
  <2> QED BY <2>1, <2>2
<1> QED BY <1>2, <1>3, <1>6

LEMMA InitCopyInv == Init => CopyInv
<1> SUFFICES ASSUME Init PROVE CopyInv
  OBVIOUS
<1> USE DEF Init, NextHopsInit, UdpInit
<1>1. \A e \in Elements : \A n : Count(e, n) = 0
  <2> SUFFICES ASSUME NEW e \in Elements, NEW n PROVE Count(e, n) = 0
    OBVIOUS
  <2>1. Copies(e, n) = {} /\ Flying(e, n) = {}
    BY DEF Copies, Flying
  <2>2. Cardinality(Copies(e, n)) = 0 /\ Cardinality(Flying(e, n)) = 0
    BY <2>1, FS_EmptySet
  <2> QED BY <2>2 DEF Count
<1>2. \A e \in Elements : data[e] = {} /\ copies[e] = <<>> /\ queue[e] = <<>>
  OBVIOUS
<1>3. \A c \in Callers : \A n : ~Holds(c, n)
  BY DEF Holds
<1> QED BY <1>1, <1>2, <1>3, RetryMax, FS_EmptySet DEF CopyInv, UdpCopies

LEMMA CallerKeepsCopies ==
    ASSUME ListInv, AckInv, NumberInv, UdpCopies, NEW c \in Callers, Calling(c)
    PROVE  UdpCopies'
<1>0. /\ step \in [Callers -> {"idle", "search", "create", "room", "number", "insert",
                               "signal", "crash"}]
      /\ num \in [Callers -> Nat] /\ number \in Nat
      /\ queue \in [Elements -> Seq(QueueElement)]
  BY DEF ListInv, ListTypes, AckInv, HopTypes
<1>1. UNCHANGED <<data, copies>>
  BY DEF Calling, udpVars
<1>2. \A e \in Elements : \A n : Count(e, n)' = Count(e, n)
  BY <1>1 DEF Count, Copies, Flying
<1>3. \A d \in Callers : d # c => \A n : Holds(d, n)' <=> Holds(d, n)
  BY OthersStay DEF Calling, Holds
<1>4. ASSUME number' = number, queue' = queue, \A n : Holds(c, n)' => Holds(c, n)
      PROVE  UdpCopies'
  BY <1>1, <1>2, <1>3, <1>4 DEF UdpCopies
<1>5. CASE Begin(c) \/ Search(c) \/ Create(c) \/ CheckRoom(c) \/ Signal(c)
  <2>1. UNCHANGED <<num, number, queue>>
    BY <1>5 DEF Begin, Search, Create, CheckRoom, Signal
  <2>2. step'[c] # "insert"
    <3>1. CASE CheckRoom(c)
      BY <1>0, <3>1 DEF CheckRoom
    <3>2. CASE Begin(c) \/ Search(c) \/ Create(c) \/ Signal(c)
      BY <1>0, <3>2 DEF Begin, Search, Create, Signal, Advance
    <3> QED BY <1>5, <3>1, <3>2
  <2> QED BY <1>4, <2>1, <2>2 DEF Holds
<1>6. CASE TakeNumber(c)
  <2>1. /\ num'[c] = number /\ number' = number + 1 /\ queue' = queue
    BY <1>0, <1>6 DEF TakeNumber
  <2>2. \A n \in Nat : n >= number' => n >= number
    BY <1>0, <2>1
  <2>3. \A e \in Elements : Count(e, number) = 0
    BY <1>0 DEF UdpCopies
  <2>4. \A n : Holds(c, n)' => n = number
    BY <2>1 DEF Holds
  <2>5. \A d \in Callers : \A n : Holds(d, n)' => \A e \in Elements : Count(e, n)' = 0
    BY <1>2, <1>3, <2>3, <2>4 DEF UdpCopies
  <2>6. \A e \in Elements : \A n \in Nat : n >= number' => Count(e, n)' = 0
    BY <1>2, <2>2 DEF UdpCopies
  <2> QED BY <1>1, <1>2, <2>1, <2>5, <2>6 DEF UdpCopies
<1>7. CASE Insert(c)
  <2> DEFINE e == proc[c]
             q == [no |-> num[c], pkt |-> Packet(c), st |-> "READY", retry |-> 0]
  <2>1. /\ queue' = [queue EXCEPT ![e] = Append(queue[e], q)]
        /\ UNCHANGED <<num, number>> /\ step[c] = "insert" /\ step'[c] = "signal"
    BY <1>0, <1>7 DEF Insert
  <2>2. q \in QueueElement /\ q.no = num[c] /\ e \in Elements /\ Sends(q) = 0
    BY <2>1, RetryMax DEF AckInv, HopTypes, QueueElement, Packet, ListInv, ListTypes, CallerOK, Sends
  <2> HIDE DEF q, e
  <2>3. ASSUME NEW f \in Elements, NEW i \in DOMAIN queue'[f]
        PROVE  \/ i \in DOMAIN queue[f] /\ queue'[f][i] = queue[f][i]
               \/ queue'[f][i] = q
    <3>1. queue[e] \in Seq(QueueElement)
      BY <1>0, <2>2
    <3>2. queue'[f] = IF f = e THEN Append(queue[e], q) ELSE queue[f]
      BY <1>0, <2>1
    <3> QED BY <2>2, <3>1, <3>2, LastElement
  <2>4. Holds(c, num[c]) /\ \A n : ~Holds(c, n)'
    BY <2>1 DEF Holds
  <2>5. \A f \in Elements : Count(f, q.no) = 0
    BY <2>2, <2>4 DEF UdpCopies
  <2>6. \A f \in Elements : Count(f, q.no) <= Sends(q)
    BY <2>2, <2>5
  <2>7. \A f \in Elements : \A i \in DOMAIN queue'[f] : \A r :
          queue'[f][i] = r => Count(f, r.no)' <= Sends(r)
    BY <1>2, <2>3, <2>6 DEF UdpCopies
  <2>8. \A r : Sends(r)' = Sends(r)
    BY DEF Sends
  <2> QED BY <1>1, <1>2, <1>3, <2>1, <2>4, <2>7, <2>8 DEF UdpCopies
<1> QED BY <1>5, <1>6, <1>7 DEF Calling, Caller

(* The thread of one packet goes on: it may have sent its packet again.     *)
LEMMA ThreadSends ==
    ASSUME HopTypes, NumberInv, UdpCopies, NEW e \in Elements, NEW k \in DOMAIN queue[e],
           NEW q \in QueueElement, QueueOnly(e, [queue[e] EXCEPT ![k] = q]),
           q.no = queue[e][k].no, Sends(q) <= ACK_RETRY_MAX,
           \A f \in Elements : IsFiniteSet(data'[f]),
           \A f \in Elements : \A n : ~(f = e /\ n = q.no) => Count(f, n)' = Count(f, n),
           Count(e, q.no)' <= Sends(q), Count(e, q.no)' \in Nat, Sends(q) \in Nat
    PROVE  UdpCopies'
<1>1. /\ \A d \in Elements :
            /\ DOMAIN queue'[d] = DOMAIN queue[d]
            /\ \A j \in DOMAIN queue[d] :
                  queue'[d][j] = IF d = e /\ j = k THEN q ELSE queue[d][j]
      /\ UNCHANGED <<number, step, num>>
  BY SetElement DEF QueueOnly, callerVars
<1>2. \A d \in Callers : \A n : Holds(d, n)' <=> Holds(d, n)
  BY <1>1 DEF Holds
<1>3. q.no \in Nat /\ q.no < number /\ number \in Nat
  BY DEF NumberInv, QueueElement, HopTypes
<1>4. \A d \in Callers : ~Holds(d, q.no)
  BY DEF NumberInv, NotQueued
<1>5. \A f \in Elements : \A n \in Nat : Count(f, n)' <= ACK_RETRY_MAX
  <2>1. Count(e, q.no)' <= ACK_RETRY_MAX
    BY RetryMax
  <2> QED BY <2>1 DEF UdpCopies
<1>6. \A f \in Elements : \A n \in Nat : n >= number' => Count(f, n)' = 0
  <2>1. \A n \in Nat : n >= number => n # q.no
    BY <1>3
  <2> QED BY <1>1, <2>1 DEF UdpCopies
<1>7. \A d \in Callers : \A n : Holds(d, n)' => \A f \in Elements : Count(f, n)' = 0
  BY <1>2, <1>4 DEF UdpCopies
<1>8. ASSUME NEW f \in Elements, NEW i \in DOMAIN queue'[f], NEW r, queue'[f][i] = r
      PROVE  Count(f, r.no)' <= Sends(r)
  <2>1. CASE f = e /\ i = k
    BY <1>1, <1>8, <2>1
  <2>2. CASE ~(f = e /\ i = k)
    <3>1. i \in DOMAIN queue[f] /\ r = queue[f][i]
      BY <1>1, <1>8, <2>2
    <3>2. ~(f = e /\ r.no = q.no)
      BY <2>2, <3>1 DEF NumberInv
    <3>3. Count(f, r.no) <= Sends(r)
      BY <3>1 DEF UdpCopies
    <3> QED BY <3>2, <3>3
  <2> QED BY <2>1, <2>2
<1>9. \A r : Sends(r)' = Sends(r)
  BY DEF Sends
<1> QED BY <1>5, <1>6, <1>7, <1>8, <1>9 DEF UdpCopies

(* The other queues do not change, and this one loses a packet or none.     *)
LEMMA FewerKeepCopies ==
    ASSUME UdpCopies, UNCHANGED <<step, num, number, data, copies>>,
           \A f \in Elements : \A i \in DOMAIN queue'[f] :
              \E j \in DOMAIN queue[f] : queue'[f][i] = queue[f][j]
    PROVE  UdpCopies'
<1>1. \A f \in Elements : \A n : Count(f, n)' = Count(f, n)
  BY DEF Count, Copies, Flying
<1>2. \A r : Sends(r)' = Sends(r)
  BY DEF Sends
<1>3. \A d \in Callers : \A n : Holds(d, n)' <=> Holds(d, n)
  BY DEF Holds
<1>4. \A f \in Elements : \A i \in DOMAIN queue'[f] : \A r :
        queue'[f][i] = r => Count(f, r.no) <= Sends(r)
  BY DEF UdpCopies
<1> QED BY <1>1, <1>2, <1>3, <1>4 DEF UdpCopies

LEMMA ThreadKeepsCopies ==
    ASSUME AckInv, NumberInv, UdpCopies, NEW e \in Elements, SenderThreads(e)
    PROVE  UdpCopies'
<1> USE RetryMax
<1>1. PICK i \in DOMAIN queue[e] :
        \/ \E arrives \in BOOLEAN : StartSender(e, i, arrives) \/ Timeout(e, i, arrives)
        \/ SendEnd(e, i)
        \/ Exit(e, i)
  BY DEF SenderThreads
<1>2. PICK p : p = queue[e][i]
  OBVIOUS
<1>3. p \in QueueElement /\ p.no \in Nat /\ p.retry \in 0..ACK_RETRY_MAX /\ Justified(e, p)
      /\ (p.st = "READY" => p.retry = 0)
  <2>1. queue[e] \in Seq(QueueElement)
    BY DEF AckInv, HopTypes
  <2>2. p \in QueueElement
    BY <1>2, <2>1, ElementOf
  <2> QED BY <1>2, <2>2 DEF AckInv, QueueElement
<1>4. HopTypes /\ \A f \in Elements : IsFiniteSet(data[f])
  BY DEF AckInv, UdpCopies
<1>5. Count(e, p.no) \in Nat /\ Count(e, p.no) <= ACK_RETRY_MAX /\ Count(e, p.no) <= Sends(p)
  BY <1>2, <1>3, <1>4, CountFacts DEF UdpCopies
<1>6. ASSUME NEW q \in QueueElement, NEW n \in 0..ACK_RETRY_MAX, NEW arrives \in BOOLEAN,
             QueueOnly(e, [queue[e] EXCEPT ![i] = q]), q.no = p.no,
             q.st = "START", q.retry = n, n < ACK_RETRY_MAX,
             Transmit(data, e, [no |-> p.no, try |-> n], arrives), copies' = copies,
             Sends(p) <= n
      PROVE  UdpCopies'
  <2>1. Sends(q) = n + 1
    BY <1>6 DEF Sends
  <2>2. PICK d : d = [no |-> p.no, try |-> n]
    OBVIOUS
  <2>3. d.no = p.no /\ Transmit(data, e, d, arrives)
    BY <1>6, <2>2
  <2>4. /\ \A f \in Elements : IsFiniteSet(data'[f])
        /\ \A f \in Elements : \A m : ~(f = e /\ m = p.no) => Count(f, m)' = Count(f, m)
        /\ Count(e, p.no)' <= Count(e, p.no) + 1
    BY <1>4, <1>6, <2>3, Transmitted
  <2>5. Count(e, p.no)' \in Nat
    BY <1>4, <1>6, <2>3, Transmitted
  <2>6. Count(e, q.no)' <= Sends(q) /\ Sends(q) \in Nat /\ Sends(q) <= ACK_RETRY_MAX
    <3>1. PICK a, b : a = Count(e, p.no) /\ b = Count(e, p.no)'
      OBVIOUS
    <3>2. a \in Nat /\ b \in Nat /\ b <= a + 1 /\ a <= Sends(p) /\ Sends(p) <= n
      BY <1>5, <1>6, <2>4, <2>5, <3>1
    <3>3. Sends(p) \in Nat
      BY <1>3 DEF Sends
    <3>4. b <= n + 1 /\ n + 1 \in Nat /\ n + 1 <= ACK_RETRY_MAX
      BY <1>6, <3>2, <3>3
    <3> QED BY <1>6, <2>1, <3>1, <3>4
  <2> QED BY <1>2, <1>4, <1>6, <2>4, <2>5, <2>6, ThreadSends
<1>7. ASSUME NEW q \in QueueElement, QueueOnly(e, [queue[e] EXCEPT ![i] = q]), q.no = p.no,
             q.st \in {"SENDEND", "ENDING", "EXIT"}, UNCHANGED <<data, copies>>
      PROVE  UdpCopies'
  <2>1. Sends(q) = ACK_RETRY_MAX
    BY <1>7 DEF Sends
  <2>2. \A f \in Elements : \A n : Count(f, n)' = Count(f, n)
    BY <1>7 DEF Count, Copies, Flying
  <2>3. \A f \in Elements : IsFiniteSet(data'[f])
    BY <1>4, <1>7
  <2>4. Count(e, q.no)' \in Nat /\ Count(e, q.no)' <= Sends(q)
    BY <1>5, <1>7, <2>1, <2>2
  <2> QED BY <1>2, <1>4, <1>7, <2>1, <2>2, <2>3, <2>4, ThreadSends
<1>8. ASSUME NEW arrives \in BOOLEAN, StartSender(e, i, arrives) PROVE UdpCopies'
  <2>1. PICK q : q = [p EXCEPT !.st = "START"]
    OBVIOUS
  <2>2. q \in QueueElement /\ q.st = "START" /\ q.retry = 0 /\ q.no = p.no /\ p.st = "READY"
    BY <1>2, <1>3, <1>8, <2>1 DEF StartSender, QueueElement
  <2>3. QueueOnly(e, [queue[e] EXCEPT ![i] = q]) /\ copies' = copies
        /\ Transmit(data, e, [no |-> p.no, try |-> 0], arrives)
    BY <1>2, <1>8, <2>1 DEF StartSender
  <2>4. Sends(p) <= 0 /\ 0 \in 0..ACK_RETRY_MAX /\ 0 < ACK_RETRY_MAX
    BY <2>2 DEF Sends
  <2> QED BY <1>6, <2>2, <2>3, <2>4
<1>9. ASSUME NEW arrives \in BOOLEAN, Timeout(e, i, arrives) PROVE UdpCopies'
  <2>1. PICK n : n = p.retry + 1
    OBVIOUS
  <2>2. n \in 1..ACK_RETRY_MAX /\ p.st = "START" /\ Sends(p) <= n
    BY <1>2, <1>3, <1>9, <2>1 DEF Timeout, Justified, Sends
  <2>3. CASE n < ACK_RETRY_MAX
    <3>1. PICK q : q = [p EXCEPT !.retry = n]
      OBVIOUS
    <3>2. q \in QueueElement /\ q.st = "START" /\ q.retry = n /\ q.no = p.no
      BY <1>3, <2>2, <3>1 DEF QueueElement
    <3>3. QueueOnly(e, [queue[e] EXCEPT ![i] = q]) /\ copies' = copies
          /\ Transmit(data, e, [no |-> p.no, try |-> n], arrives)
      BY <1>2, <1>9, <2>1, <2>3, <3>1 DEF Timeout
    <3>4. n \in 0..ACK_RETRY_MAX
      BY <2>2
    <3> QED BY <1>6, <2>2, <2>3, <3>2, <3>3, <3>4
  <2>4. CASE ~(n < ACK_RETRY_MAX)
    <3>1. PICK q : q = [p EXCEPT !.retry = n, !.st = "ENDING"]
      OBVIOUS
    <3>2. n \in 0..ACK_RETRY_MAX
      BY <2>2
    <3>3. q \in QueueElement /\ q.st = "ENDING" /\ q.no = p.no
      BY <1>3, <3>1, <3>2, EndAfter
    <3>4. QueueOnly(e, [queue[e] EXCEPT ![i] = q]) /\ UNCHANGED <<data, copies>>
      BY <1>2, <1>9, <2>1, <2>4, <3>1 DEF Timeout, Ending
    <3> QED BY <1>7, <3>3, <3>4
  <2> QED BY <2>3, <2>4
<1>10. CASE SendEnd(e, i)
  <2>1. PICK q : q = [p EXCEPT !.st = "ENDING"]
    OBVIOUS
  <2>2. q \in QueueElement /\ q.st = "ENDING" /\ q.no = p.no
    BY <1>3, <2>1 DEF QueueElement
  <2>3. QueueOnly(e, [queue[e] EXCEPT ![i] = q]) /\ UNCHANGED <<data, copies>>
    BY <1>2, <1>10, <2>1 DEF SendEnd, Ending
  <2> QED BY <1>7, <2>2, <2>3
<1>11. CASE Exit(e, i)
  <2>1. PICK q : q = [p EXCEPT !.st = "EXIT"]
    OBVIOUS
  <2>2. q \in QueueElement /\ q.st = "EXIT" /\ q.no = p.no
    BY <1>3, <2>1 DEF QueueElement
  <2>3. QueueOnly(e, [queue[e] EXCEPT ![i] = q]) /\ UNCHANGED <<data, copies>>
    BY <1>2, <1>11, <2>1 DEF Exit, udpVars
  <2> QED BY <1>7, <2>2, <2>3
<1> QED BY <1>1, <1>8, <1>9, <1>10, <1>11

LEMMA DelKeepsCopies ==
    ASSUME AckInv, UdpCopies, NEW e \in Elements, DelThread(e)
    PROVE  UdpCopies'
<1>1. HopTypes
  BY DEF AckInv
<1>2. ASSUME NEW i \in DOMAIN queue[e], DelPacket(e, i) PROVE UdpCopies'
  <2>1. PICK s : s = [j \in 1..(Len(queue[e]) - 1) |-> queue[e][IF j < i THEN j ELSE j + 1]]
    OBVIOUS
  <2>2. queue' = [queue EXCEPT ![e] = s] /\ UNCHANGED <<step, num, number, data, copies>>
    BY <1>2, <2>1 DEF DelPacket, QueueOnly, callerVars, udpVars
  <2>3. \A j \in DOMAIN s : \E k \in DOMAIN queue[e] : s[j] = queue[e][k]
    <3>1. Len(queue[e]) \in Nat /\ DOMAIN queue[e] = 1..Len(queue[e])
      BY <1>1 DEF HopTypes
    <3>2. \A j \in 1..(Len(queue[e]) - 1) : (IF j < i THEN j ELSE j + 1) \in DOMAIN queue[e]
      BY <3>1
    <3> QED BY <2>1, <3>2
  <2>4. \A f \in Elements : \A j \in DOMAIN queue'[f] :
          \E k \in DOMAIN queue[f] : queue'[f][j] = queue[f][k]
    BY <1>1, <2>2, <2>3 DEF HopTypes
  <2> QED BY <2>2, <2>4, FewerKeepCopies
<1>3. CASE WaitDelSignal(e) \/ LookOn(e)
  <2>1. UNCHANGED <<step, num, number, data, copies, queue>>
    BY <1>3 DEF WaitDelSignal, LookOn, hopVars, callerVars
  <2> QED BY <2>1, FewerKeepCopies
<1> QED BY <1>2, <1>3 DEF DelThread

LEMMA ReceiverKeepsCopies ==
    ASSUME AckInv, NumberInv, UdpCopies, NEW e \in Elements, UdpReceiver(e)
    PROVE  UdpCopies'
<1>1. HopTypes /\ \A f \in Elements : IsFiniteSet(data[f])
  BY DEF AckInv, UdpCopies
<1>2. ASSUME NEW d \in data[e], NEW arrives \in BOOLEAN, SendingACK(e, d, arrives)
      PROVE  UdpCopies'
  <2>1. /\ \A f \in Elements : IsFiniteSet(data'[f])
        /\ \A f \in Elements : \A n : Count(f, n)' = Count(f, n)
    BY <1>1, <1>2, Received
  <2>2. UNCHANGED <<step, num, number, queue>>
    BY <1>2 DEF SendingACK, hopVars, callerVars
  <2>3. \A r : Sends(r)' = Sends(r)
    BY DEF Sends
  <2>4. \A d2 \in Callers : \A n : Holds(d2, n)' <=> Holds(d2, n)
    BY <2>2 DEF Holds
  <2> QED BY <2>1, <2>2, <2>3, <2>4 DEF UdpCopies
<1>3. ASSUME NEW a \in acks[e], RecvACK(e, a) PROVE UdpCopies'
  <2>1. UNCHANGED <<step, num, number, data, copies>>
    BY <1>3 DEF RecvACK, QueueOnly, callerVars
  <2>2. CASE QueueOnly(e, queue[e])
    <3>1. queue' = queue
      BY <1>1, <2>2 DEF QueueOnly, HopTypes
    <3> QED BY <2>1, <3>1, FewerKeepCopies
  <2>3. CASE ~QueueOnly(e, queue[e])
    <3>1. PICK i \in Matches(e, a.no) : QueueOnly(e, [queue[e] EXCEPT ![i].st = "SENDEND"])
      BY <1>3, <2>3 DEF RecvACK
    <3>2. PICK p : p = queue[e][i]
      OBVIOUS
    <3>3. PICK q : q = [p EXCEPT !.st = "SENDEND"]
      OBVIOUS
    <3>4. i \in DOMAIN queue[e] /\ QueueOnly(e, [queue[e] EXCEPT ![i] = q])
      BY <3>1, <3>2, <3>3 DEF Matches
    <3>5. p \in QueueElement /\ p.no \in Nat
      <4>1. p \in QueueElement
        BY <1>1, <3>2, <3>4, ElementOf DEF HopTypes
      <4> QED BY <4>1 DEF QueueElement
    <3>6. q \in QueueElement /\ q.st = "SENDEND" /\ q.no = p.no
      BY <3>3, <3>5 DEF QueueElement
    <3>7. Sends(q) = ACK_RETRY_MAX
      BY <3>6 DEF Sends
    <3>8. \A f \in Elements : \A n : Count(f, n)' = Count(f, n)
      BY <2>1 DEF Count, Copies, Flying
    <3>9. Count(e, q.no)' \in Nat /\ Count(e, q.no)' <= Sends(q)
      BY <1>1, <3>5, <3>6, <3>7, <3>8, CountFacts DEF UdpCopies
    <3>10. \A f \in Elements : IsFiniteSet(data'[f])
      BY <1>1, <2>1
    <3>11. q.no = queue[e][i].no /\ Sends(q) \in Nat /\ Sends(q) <= ACK_RETRY_MAX
      BY <3>2, <3>6, <3>7, RetryMax
    <3>12. \A f \in Elements : \A n : ~(f = e /\ n = q.no) => Count(f, n)' = Count(f, n)
      BY <3>8
    <3> QED BY <1>1, <3>4, <3>6, <3>9, <3>10, <3>11, <3>12, ThreadSends
  <2> QED BY <2>2, <2>3
<1> QED BY <1>2, <1>3 DEF UdpReceiver

LEMMA NextKeepsProtocol == [Next]_vars => protocolType' = protocolType
<1> SUFFICES ASSUME [Next]_vars PROVE protocolType' = protocolType
  OBVIOUS
<1>1. ASSUME NEW c \in Callers, Caller(c) PROVE protocolType' = protocolType
  BY <1>1 DEF Caller, Begin, Search, Create, CheckRoom, TakeNumber, Insert, Signal, types
<1>2. ASSUME NEW e \in Elements, Threads(e) PROVE protocolType' = protocolType
  <2>1. CASE TcpThread(e)
    BY <2>1 DEF TcpThread, Connect, ReadQueue, SendTCP, Reconnect, Unlink, Flag, WaitEnqueue,
                ClearFlag, hopVars, types
  <2>2. CASE TcpReceiver(e)
    BY <2>2 DEF TcpReceiver, RecvTCP, hopVars, types
  <2>3. CASE SenderThreads(e)
    BY <2>3 DEF SenderThreads, StartSender, Timeout, SendEnd, Exit, Ending, QueueOnly, types
  <2>4. CASE UdpReceiver(e)
    BY <2>4 DEF UdpReceiver, SendingACK, RecvACK, QueueOnly, hopVars, types
  <2>5. CASE DelThread(e)
    BY <2>5 DEF DelThread, WaitDelSignal, DelPacket, LookOn, QueueOnly, hopVars, types
  <2> QED BY <1>2, <2>1, <2>2, <2>3, <2>4, <2>5 DEF Threads
<1>3. CASE UNCHANGED vars
  BY <1>3 DEF vars, hopVars, types
<1> QED BY <1>1, <1>2, <1>3 DEF Next, Calling

LEMMA NextKeepsCopyInv == HopInv /\ NumberInv /\ CopyInv /\ [Next]_vars => CopyInv'
<1> SUFFICES ASSUME HopInv, NumberInv, CopyInv, [Next]_vars PROVE CopyInv'
  OBVIOUS
<1> USE DEF HopInv
<1>1. CASE protocolType = "UDP"
  <2>1. UdpCopies
    BY <1>1 DEF CopyInv
  <2>2. protocolType' = protocolType
    BY NextKeepsProtocol
  <2>3. UdpCopies'
    <3>1. ASSUME NEW c \in Callers, Calling(c) PROVE UdpCopies'
      BY <2>1, <3>1, CallerKeepsCopies
    <3>2. ASSUME NEW e \in Elements, Threads(e) PROVE UdpCopies'
      <4>1. SenderThreads(e) \/ DelThread(e) \/ UdpReceiver(e)
        BY <1>1, <3>2 DEF Threads, Tcp, Udp
      <4> QED BY <2>1, <4>1, ThreadKeepsCopies, DelKeepsCopies, ReceiverKeepsCopies
    <3>3. CASE UNCHANGED vars
      <4>1. UNCHANGED <<step, num, number, data, copies, queue>>
        BY <3>3 DEF vars, hopVars, callerVars, udpVars
      <4> QED BY <2>1, <4>1, FewerKeepCopies
    <3> QED BY <3>1, <3>2, <3>3 DEF Next
  <2> QED BY <1>1, <2>2, <2>3 DEF CopyInv
<1>2. CASE protocolType # "UDP"
  <2>1. protocolType' = protocolType /\ copies' = copies
    <3>1. copies' = copies
      BY <1>2 DEF Next, Threads, Calling, Tcp, Udp, udpVars, vars
    <3> QED BY <3>1, NextKeepsProtocol
  <2> QED BY <1>2, <2>1 DEF CopyInv
<1> QED BY <1>1, <1>2

PacketInv == HopInv /\ NumberInv /\ CopyInv

LEMMA AlwaysPacketInv == Spec => []PacketInv
<1>1. Init => PacketInv
  BY InitListInv, InitAckInv, InitWireInv, InitNumberInv, InitCopyInv DEF Init, HopInv, PacketInv
<1>2. PacketInv /\ [Next]_vars => PacketInv'
  BY NextKeepsListInv, NextKeepsAckInv, NextKeepsWireInv, NextKeepsNumberInv, NextKeepsCopyInv
  DEF HopInv, PacketInv
<1> QED BY <1>1, <1>2, PTL DEF Spec

(* A next hop relays no packet more often than ACK_RETRY_MAX times, over    *)
(* UDP: what was relayed and what is on its way were sent by the thread of  *)
(* the packet, which sends for its number at most ACK_RETRY_MAX times, and  *)
(* no other packet ever has its number.                                     *)
THEOREM RelaysAreBounded == Spec => []CopiesBounded
<1>1. PacketInv => CopiesBounded
  <2> SUFFICES ASSUME PacketInv, NEW e \in Elements, NEW n \in 0..(number - 1)
               PROVE  Cardinality(Copies(e, n)) <= ACK_RETRY_MAX
    BY DEF CopiesBounded, Copies
  <2> USE DEF PacketInv, HopInv
  <2>1. HopTypes /\ n \in Nat
    BY DEF AckInv, HopTypes
  <2>2. CASE protocolType = "UDP"
    <3>1. PICK a, b : a = Cardinality(Copies(e, n)) /\ b = Cardinality(Flying(e, n))
      OBVIOUS
    <3>2. a \in Nat /\ b \in Nat
      BY <2>1, <2>2, <3>1, CountFacts DEF CopyInv, UdpCopies
    <3>3. a + b <= ACK_RETRY_MAX
      BY <2>1, <2>2, <3>1 DEF CopyInv, UdpCopies, Count
    <3> QED BY <3>1, <3>2, <3>3, RetryMax
  <2>3. CASE protocolType # "UDP"
    <3>1. Copies(e, n) = {}
      BY <2>3 DEF CopyInv, Copies
    <3> QED BY <3>1, FS_EmptySet, RetryMax
  <2> QED BY <2>2, <2>3
<1> QED BY <1>1, AlwaysPacketInv, PTL
-----------------------------------------------------------------------------
(***************************************************************************)
(* TCP: a number that was sent is on one connection, once, and no longer   *)
(* with a caller or unsent in a queue; and no number is lost between.      *)
(***************************************************************************)
IsHeld(n) == \E c \in Callers : Holds(c, n)
IsLeft(n) == \E e \in Elements : \E i \in DOMAIN Unsent(e) : Unsent(e)[i].no = n
IsSent(n) == \E x \in Connections : \E i \in DOMAIN Sent(x) : Sent(x)[i] = n

SentApart ==
    \A x, y \in Connections : \A i \in DOMAIN Sent(x) : \A j \in DOMAIN Sent(y) :
        Sent(x)[i] = Sent(y)[j] => x = y /\ i = j

SentInv ==
    /\ SentApart
    /\ \A n : IsSent(n) => n \in Nat /\ n < number /\ ~IsHeld(n) /\ ~IsLeft(n)
    /\ \A n \in Nat : n < number => IsHeld(n) \/ IsLeft(n) \/ IsSent(n)

TcpSent == protocolType = "TCP" => SentInv

LEMMA InitTcpSent == Init => TcpSent
<1> SUFFICES ASSUME Init PROVE SentInv
  BY DEF TcpSent
<1> USE DEF Init, NextHopsInit, TcpInit
<1>1. number = 0 /\ \A n \in Nat : ~(n < number)
  OBVIOUS
<1>2. \A e \in Elements : wire[e] = <<>>
  OBVIOUS
<1>3. Connections = {}
  BY <1>2 DEF Connections
<1> QED BY <1>1, <1>3 DEF SentInv, SentApart, IsSent

LEMMA ConnectionFacts ==
    ASSUME WireInv, NEW e \in Elements
    PROVE  /\ wire[e] \in Seq(Seq(Nat)) /\ relayed[e] \in Seq(Seq(Nat))
           /\ DOMAIN wire[e] = 1..Len(wire[e]) /\ DOMAIN relayed[e] = DOMAIN wire[e]
           /\ Len(wire[e]) \in Nat
           /\ \A k \in DOMAIN wire[e] : wire[e][k] \in Seq(Nat) /\ relayed[e][k] \in Seq(Nat)
<1>1. /\ wire[e] \in Seq(Seq(Nat)) /\ relayed[e] \in Seq(Seq(Nat))
      /\ Len(relayed[e]) = Len(wire[e])
  BY DEF WireInv
<1>2. /\ DOMAIN wire[e] = 1..Len(wire[e]) /\ DOMAIN relayed[e] = 1..Len(relayed[e])
      /\ Len(wire[e]) \in Nat
  BY <1>1
<1>3. \A k \in DOMAIN wire[e] : wire[e][k] \in Seq(Nat) /\ relayed[e][k] \in Seq(Nat)
  BY <1>1, <1>2, ElementOf
<1> QED BY <1>1, <1>2, <1>3

LEMMA ConnectionOf ==
    /\ \A x \in Connections : \E e \in Elements : \E k \in DOMAIN wire[e] : x = <<e, k>>
    /\ \A e \in Elements : \A k \in DOMAIN wire[e] : <<e, k>> \in Connections
  BY DEF Connections

(* What the next hop has relayed or still holds changes nothing.            *)
LEMMA SameSent ==
    ASSUME \A x : x \in Connections => x \in Connections' /\ Sent(x)' = Sent(x),
           \A x \in Connections' : x \in Connections \/ Sent(x)' = <<>>
    PROVE  /\ \A n : IsSent(n)' <=> IsSent(n)
           /\ SentApart => SentApart'
<1>1. \A x \in Connections' : \A i \in DOMAIN Sent(x)' : x \in Connections /\ Sent(x)' = Sent(x)
  OBVIOUS
<1>2. \A n : IsSent(n)' <=> IsSent(n)
  BY <1>1 DEF IsSent
<1>3. SentApart => SentApart'
  BY <1>1 DEF SentApart
<1> QED BY <1>2, <1>3

LEMMA SameWire ==
    ASSUME UNCHANGED <<wire, relayed>>
    PROVE  /\ \A x : x \in Connections => x \in Connections' /\ Sent(x)' = Sent(x)
           /\ \A x \in Connections' : x \in Connections
  BY DEF Connections, Sent

LEMMA SameLeft ==
    ASSUME \A e \in Elements : Unsent(e)' = Unsent(e)
    PROVE  \A n : IsLeft(n)' <=> IsLeft(n)
  BY DEF IsLeft

LEMMA KeepsSentInv ==
    ASSUME SentInv, number' = number,
           \A x : x \in Connections => x \in Connections' /\ Sent(x)' = Sent(x),
           \A x \in Connections' : x \in Connections \/ Sent(x)' = <<>>,
           \A e \in Elements : Unsent(e)' = Unsent(e),
           \A n : IsHeld(n)' <=> IsHeld(n)
    PROVE  SentInv'
<1>1. \A n : IsLeft(n)' <=> IsLeft(n)
  BY SameLeft
<1>2. (\A n : IsSent(n)' <=> IsSent(n)) /\ SentApart'
  BY SameSent DEF SentInv
<1> QED BY <1>1, <1>2 DEF SentInv

LEMMA Joined ==
    ASSUME NEW S, NEW s \in Seq(S), NEW t \in Seq(S), NEW x \in S
    PROVE  /\ s \o t \in Seq(S)
           /\ s \o Append(t, x) = Append(s \o t, x)
           /\ t # <<>> => Append(s, Head(t)) \o Tail(t) = s \o t
<1>1. s \o t \in Seq(S) /\ s \o Append(t, x) = Append(s \o t, x)
  OBVIOUS
<1>2. ASSUME t # <<>> PROVE Append(s, Head(t)) \o Tail(t) = s \o t
  <2>1. Head(t) \in S /\ Tail(t) \in Seq(S) /\ t = <<Head(t)>> \o Tail(t)
    BY <1>2, HeadTailProperties
  <2>2. PICK h, r : h = Head(t) /\ r = Tail(t)
    OBVIOUS
  <2>3. Append(s, h) = s \o <<h>>
    BY <2>1, <2>2, AppendIsConcat
  <2>4. <<h>> \in Seq(S) /\ (s \o <<h>>) \o r = s \o (<<h>> \o r)
    BY <2>1, <2>2, ConcatAssociative
  <2> QED BY <2>1, <2>2, <2>3, <2>4
<1> QED BY <1>1, <1>2

(* The connection k of e is given the number n, or what it holds is read.   *)
LEMMA WireChange ==
    ASSUME WireInv, NEW e \in Elements, NEW k \in DOMAIN wire[e], NEW w \in Seq(Nat),
           wire' = [wire EXCEPT ![e][k] = w],
           \A f \in Elements : DOMAIN relayed'[f] = DOMAIN relayed[f],
           \A f \in Elements : \A j \in DOMAIN wire[f] :
              ~(f = e /\ j = k) => relayed'[f][j] = relayed[f][j]
    PROVE  /\ \A x : x \in Connections' <=> x \in Connections
           /\ \A x \in Connections : x # <<e, k>> => Sent(x)' = Sent(x)
           /\ Sent(<<e, k>>)' = relayed'[e][k] \o w
           /\ <<e, k>> \in Connections
           /\ Sent(<<e, k>>) = relayed[e][k] \o wire[e][k]
<1>1. \A f \in Elements : /\ DOMAIN wire'[f] = DOMAIN wire[f]
                          /\ \A j \in DOMAIN wire[f] :
                                wire'[f][j] = IF f = e /\ j = k THEN w ELSE wire[f][j]
  <2>1. wire \in [Elements -> Seq(Seq(Nat))]
    BY DEF WireInv
  <2> QED BY <2>1, ConnectionFacts
<1>2. \A x : x \in Connections' <=> x \in Connections
  BY <1>1 DEF Connections
<1>3. ASSUME NEW x \in Connections, x # <<e, k>> PROVE Sent(x)' = Sent(x)
  <2>0. PICK f \in Elements : \E j \in DOMAIN wire[f] : x = <<f, j>>
    BY ConnectionOf
  <2>1. PICK j \in DOMAIN wire[f] : x = <<f, j>>
    BY <2>0
  <2>2. wire'[f][j] = wire[f][j] /\ relayed'[f][j] = relayed[f][j]
    BY <1>1, <1>3, <2>1
  <2> QED BY <2>1, <2>2 DEF Sent
<1>4. Sent(<<e, k>>)' = relayed'[e][k] \o w
  <2>1. wire'[e][k] = w
    BY <1>1
  <2>2. Sent(<<e, k>>)' = relayed'[e][k] \o wire'[e][k]
    BY DEF Sent
  <2> QED BY <2>1, <2>2
<1>5. <<e, k>> \in Connections /\ Sent(<<e, k>>) = relayed[e][k] \o wire[e][k]
  BY ConnectionOf DEF Sent
<1> QED BY <1>2, <1>3, <1>4, <1>5

LEMMA GivenToConnection ==
    ASSUME SentInv, NEW x \in Connections, NEW n \in Nat, ~IsSent(n), Sent(x) \in Seq(Nat),
           \A y : y \in Connections' <=> y \in Connections,
           \A y \in Connections : y # x => Sent(y)' = Sent(y),
           Sent(x)' = Append(Sent(x), n)
    PROVE  /\ SentApart'
           /\ \A m : IsSent(m)' <=> IsSent(m) \/ m = n
<1>1. PICK l : l = Len(Sent(x)) + 1
  OBVIOUS
<1>2. /\ DOMAIN Sent(x)' = DOMAIN Sent(x) \cup {l} /\ l \notin DOMAIN Sent(x)
      /\ \A i \in DOMAIN Sent(x) : Sent(x)'[i] = Sent(x)[i]
      /\ Sent(x)'[l] = n
  <2>1. PICK s : s = Sent(x)
    OBVIOUS
  <2>2. s \in Seq(Nat) /\ Sent(x)' = Append(s, n) /\ l = Len(s) + 1
    BY <1>1, <2>1
  <2>3. l \notin DOMAIN s
    BY <2>2
  <2> QED BY <2>1, <2>2, <2>3, LastElement
<1>3. ASSUME NEW y \in Connections, NEW i \in DOMAIN Sent(y)'
      PROVE  \/ i \in DOMAIN Sent(y) /\ Sent(y)'[i] = Sent(y)[i] /\ Sent(y)'[i] # n
             \/ y = x /\ i = l /\ Sent(y)'[i] = n
  BY <1>2 DEF IsSent
<1>4. SentApart'
  <2> SUFFICES ASSUME NEW y \in Connections', NEW z \in Connections',
                      NEW i \in DOMAIN Sent(y)', NEW j \in DOMAIN Sent(z)',
                      Sent(y)'[i] = Sent(z)'[j]
               PROVE  y = z /\ i = j
    BY DEF SentApart
  <2>1. y \in Connections /\ z \in Connections
    OBVIOUS
  <2>2. CASE Sent(y)'[i] = n
    BY <1>3, <2>1, <2>2
  <2>3. CASE Sent(y)'[i] # n
    <3>1. i \in DOMAIN Sent(y) /\ Sent(y)'[i] = Sent(y)[i]
      BY <1>3, <2>1, <2>3
    <3>2. j \in DOMAIN Sent(z) /\ Sent(z)'[j] = Sent(z)[j]
      BY <1>3, <2>1, <2>3
    <3>3. Sent(y)[i] = Sent(z)[j]
      BY <3>1, <3>2
    <3>4. SentApart
      BY DEF SentInv
    <3> QED BY <2>1, <3>1, <3>2, <3>3, <3>4 DEF SentApart
  <2> QED BY <2>2, <2>3
<1>5. ASSUME NEW m, IsSent(m)' PROVE IsSent(m) \/ m = n
  <2>0. PICK y \in Connections' : \E i \in DOMAIN Sent(y)' : Sent(y)'[i] = m
    BY <1>5 DEF IsSent
  <2>1. PICK i \in DOMAIN Sent(y)' : Sent(y)'[i] = m
    BY <2>0
  <2> QED BY <1>3, <2>1 DEF IsSent
<1>6. ASSUME NEW m, IsSent(m) PROVE IsSent(m)'
  <2>0. PICK y \in Connections : \E i \in DOMAIN Sent(y) : Sent(y)[i] = m
    BY <1>6 DEF IsSent
  <2>1. PICK i \in DOMAIN Sent(y) : Sent(y)[i] = m
    BY <2>0
  <2>2. y \in Connections' /\ i \in DOMAIN Sent(y)' /\ Sent(y)'[i] = m
    BY <1>2, <2>1
  <2> QED BY <2>2 DEF IsSent
<1>7. IsSent(n)'
  BY <1>2 DEF IsSent
<1> QED BY <1>4, <1>5, <1>6, <1>7

LEMMA UnsentFacts ==
    ASSUME AckInv, NEW e \in Elements
    PROVE  /\ Unsent(e) \in Seq(QueueElement)
           /\ \A i \in DOMAIN Unsent(e) :
                 /\ i \in Nat
                 /\ (IF at[e] = "unlink" THEN i + 1 ELSE i) \in DOMAIN queue[e]
                 /\ Unsent(e)[i] = queue[e][IF at[e] = "unlink" THEN i + 1 ELSE i]
<1>1. queue[e] \in Seq(QueueElement) /\ (at[e] = "unlink" => queue[e] # <<>>)
  BY DEF AckInv, HopTypes
<1>2. CASE at[e] = "unlink"
  <2>1. Unsent(e) = Tail(queue[e])
    BY <1>2 DEF Unsent
  <2>2. Tail(queue[e]) \in Seq(QueueElement)
    BY <1>1, <1>2, TailElements
  <2>3. \A i \in DOMAIN Tail(queue[e]) :
          i \in Nat /\ i + 1 \in DOMAIN queue[e] /\ Tail(queue[e])[i] = queue[e][i + 1]
    BY <1>1, <1>2, <2>2, TailElements
  <2> QED BY <1>2, <2>1, <2>2, <2>3
<1>3. CASE at[e] # "unlink"
  <2>1. Unsent(e) = queue[e]
    BY <1>3 DEF Unsent
  <2>2. \A i \in DOMAIN queue[e] : i \in Nat
    BY <1>1
  <2> QED BY <1>1, <1>3, <2>1, <2>2
<1> QED BY <1>2, <1>3

LEMMA LeftIsNumbered ==
    ASSUME AckInv, NumberInv, NEW n, IsLeft(n)
    PROVE  n < number /\ n \in Nat
<1>1. PICK e \in Elements : \E i \in DOMAIN Unsent(e) : Unsent(e)[i].no = n
  BY DEF IsLeft
<1>2. PICK i \in DOMAIN Unsent(e) : Unsent(e)[i].no = n
  BY <1>1
<1>3. PICK j \in DOMAIN queue[e] : queue[e][j].no = n
  BY <1>2, UnsentFacts
<1>4. queue[e][j] \in QueueElement
  BY ElementOf DEF AckInv, HopTypes
<1> QED BY <1>3, <1>4 DEF NumberInv, QueueElement

LEMMA CallerKeepsSent ==
    ASSUME ListInv, AckInv, NumberInv, SentInv, NEW c \in Callers, Calling(c)
    PROVE  SentInv'
<1>0. /\ step \in [Callers -> {"idle", "search", "create", "room", "number", "insert",
                               "signal", "crash"}]
      /\ num \in [Callers -> Nat] /\ number \in Nat
      /\ queue \in [Elements -> Seq(QueueElement)]
  BY DEF ListInv, ListTypes, AckInv, HopTypes
<1>1. UNCHANGED <<at, wire, relayed>>
  BY DEF Calling, tcpVars
<1>2. /\ \A x : x \in Connections => x \in Connections' /\ Sent(x)' = Sent(x)
      /\ \A x \in Connections' : x \in Connections \/ Sent(x)' = <<>>
  BY <1>1, SameWire
<1>3. \A d \in Callers : d # c => \A n : Holds(d, n)' <=> Holds(d, n)
  BY OthersStay DEF Calling, Holds
<1>4. (\A n : IsSent(n)' <=> IsSent(n)) /\ SentApart'
  BY <1>2, SameSent DEF SentInv
<1>5. CASE Begin(c) \/ Search(c) \/ Create(c) \/ CheckRoom(c) \/ Signal(c)
  <2>1. UNCHANGED <<num, number, queue>> /\ step[c] # "insert"
    BY <1>5 DEF Begin, Search, Create, CheckRoom, Signal
  <2>2. step'[c] # "insert"
    <3>1. CASE CheckRoom(c)
      BY <1>0, <3>1 DEF CheckRoom
    <3>2. CASE Begin(c) \/ Search(c) \/ Create(c) \/ Signal(c)
      BY <1>0, <3>2 DEF Begin, Search, Create, Signal, Advance
    <3> QED BY <1>5, <3>1, <3>2
  <2>3. \A n : IsHeld(n)' <=> IsHeld(n)
    BY <1>3, <2>1, <2>2 DEF IsHeld, Holds
  <2>4. \A e \in Elements : Unsent(e)' = Unsent(e)
    BY <1>1, <2>1 DEF Unsent
  <2> QED BY <1>2, <2>1, <2>3, <2>4, KeepsSentInv
<1>6. CASE TakeNumber(c)
  <2>1. /\ num'[c] = number /\ number' = number + 1 /\ queue' = queue
        /\ step[c] = "number" /\ step'[c] = "insert"
    BY <1>0, <1>6 DEF TakeNumber
  <2>2. \A n : IsHeld(n)' <=> IsHeld(n) \/ n = number
    BY <1>3, <2>1 DEF IsHeld, Holds
  <2>3. \A n : IsLeft(n)' <=> IsLeft(n)
    <3>1. \A e \in Elements : Unsent(e)' = Unsent(e)
      BY <1>1, <2>1 DEF Unsent
    <3> QED BY <3>1, SameLeft
  <2>4. \A n \in Nat : n < number' <=> n < number \/ n = number
    BY <1>0, <2>1
  <2>5. \A n \in Nat : n < number => n # number
    BY <1>0
  <2> QED BY <1>4, <2>2, <2>3, <2>4, <2>5 DEF SentInv
<1>7. CASE Insert(c)
  <2>0. PICK e, q : e = proc[c]
                    /\ q = [no |-> num[c], pkt |-> Packet(c), st |-> "READY", retry |-> 0]
    OBVIOUS
  <2>1. /\ queue' = [queue EXCEPT ![e] = Append(queue[e], q)]
        /\ UNCHANGED <<num, number>> /\ step[c] = "insert" /\ step'[c] = "signal"
    BY <1>0, <1>7, <2>0 DEF Insert
  <2>2. q \in QueueElement /\ q.no = num[c] /\ e \in Elements
    BY <2>0, <2>1, RetryMax DEF AckInv, HopTypes, QueueElement, Packet, ListInv, ListTypes, CallerOK
  <2>3. /\ Unsent(e)' = Append(Unsent(e), q)
        /\ \A f \in Elements : f # e => Unsent(f)' = Unsent(f)
    <3>1. queue[e] \in Seq(QueueElement) /\ (at[e] = "unlink" => queue[e] # <<>>)
      BY <2>2 DEF AckInv, HopTypes
    <3>2. queue'[e] = Append(queue[e], q) /\ \A f \in Elements : f # e => queue'[f] = queue[f]
      BY <1>0, <2>1, <2>2
    <3>3. queue[e] # <<>> => Tail(Append(queue[e], q)) = Append(Tail(queue[e]), q)
      BY <2>2, <3>1, HeadTailAppend
    <3>4. Unsent(e)' = Append(Unsent(e), q)
      BY <1>1, <3>1, <3>2, <3>3 DEF Unsent
    <3> QED BY <1>1, <3>2, <3>4 DEF Unsent
  <2>4. PICK l : l = Len(Unsent(e)) + 1
    OBVIOUS
  <2>5. /\ DOMAIN Unsent(e)' = DOMAIN Unsent(e) \cup {l}
        /\ \A i \in DOMAIN Unsent(e) : Unsent(e)'[i] = Unsent(e)[i]
        /\ Unsent(e)'[l] = q
    <3>1. Unsent(e) \in Seq(QueueElement)
      BY <2>2, UnsentFacts
    <3> QED BY <2>2, <2>3, <2>4, <3>1, LastElement
  <2>6. \A n : IsLeft(n)' <=> IsLeft(n) \/ n = num[c]
    <3>1. ASSUME NEW n, IsLeft(n)' PROVE IsLeft(n) \/ n = num[c]
      <4>1. PICK f \in Elements : \E i \in DOMAIN Unsent(f)' : Unsent(f)'[i].no = n
        BY <3>1 DEF IsLeft
      <4>2. CASE f = e
        BY <2>2, <2>5, <4>1, <4>2 DEF IsLeft
      <4>3. CASE f # e
        BY <2>3, <4>1, <4>3 DEF IsLeft
      <4> QED BY <4>2, <4>3
    <3>2. ASSUME NEW n, IsLeft(n) PROVE IsLeft(n)'
      <4>1. PICK f \in Elements : \E i \in DOMAIN Unsent(f) : Unsent(f)[i].no = n
        BY <3>2 DEF IsLeft
      <4>2. CASE f = e
        BY <2>5, <4>1, <4>2 DEF IsLeft
      <4>3. CASE f # e
        BY <2>3, <4>1, <4>3 DEF IsLeft
      <4> QED BY <4>2, <4>3
    <3>3. ASSUME NEW n, n = num[c] PROVE IsLeft(n)'
      BY <2>2, <2>5, <3>3 DEF IsLeft
    <3> QED BY <3>1, <3>2, <3>3
  <2>7. Holds(c, num[c]) /\ \A n : Holds(c, n) => n = num[c]
    BY <2>1 DEF Holds
  <2>8. \A n : IsHeld(n)' <=> IsHeld(n) /\ n # num[c]
    <3>1. \A n : ~Holds(c, n)'
      BY <2>1 DEF Holds
    <3>2. \A d \in Callers : d # c => ~Holds(d, num[c])
      BY <2>7 DEF NumberInv
    <3> QED BY <1>3, <2>7, <3>1, <3>2 DEF IsHeld
  <2>9. IsHeld(num[c])
    BY <2>7 DEF IsHeld
  <2> QED BY <1>4, <2>1, <2>6, <2>8, <2>9 DEF SentInv
<1> QED BY <1>5, <1>6, <1>7 DEF Calling, Caller

(* A new connection was given nothing yet.                                  *)
LEMMA OneConnectionMore ==
    ASSUME WireInv, NEW e \in Elements, NewConnection(e)
    PROVE  /\ \A x : x \in Connections => x \in Connections' /\ Sent(x)' = Sent(x)
           /\ \A x \in Connections' : x \in Connections \/ Sent(x)' = <<>>
<1>1. <<>> \in Seq(Nat)
  OBVIOUS
<1>2. PICK l : l = Len(wire[e]) + 1
  OBVIOUS
<1>3. /\ DOMAIN wire'[e] = DOMAIN wire[e] \cup {l}
      /\ \A k \in DOMAIN wire[e] : wire'[e][k] = wire[e][k] /\ relayed'[e][k] = relayed[e][k]
      /\ wire'[e][l] = <<>> /\ relayed'[e][l] = <<>>
      /\ \A f \in Elements : f # e => wire'[f] = wire[f] /\ relayed'[f] = relayed[f]
  <2>1. /\ wire \in [Elements -> Seq(Seq(Nat))] /\ relayed \in [Elements -> Seq(Seq(Nat))]
        /\ Len(relayed[e]) = Len(wire[e])
    BY DEF WireInv
  <2>2. wire'[e] = Append(wire[e], <<>>) /\ relayed'[e] = Append(relayed[e], <<>>)
        /\ \A f \in Elements : f # e => wire'[f] = wire[f] /\ relayed'[f] = relayed[f]
    BY <2>1 DEF NewConnection
  <2>3. /\ DOMAIN Append(wire[e], <<>>) = DOMAIN wire[e] \cup {l}
        /\ \A k \in DOMAIN wire[e] : Append(wire[e], <<>>)[k] = wire[e][k]
        /\ Append(wire[e], <<>>)[l] = <<>>
    BY <1>1, <1>2, <2>1, LastElement
  <2>4. /\ \A k \in DOMAIN relayed[e] : Append(relayed[e], <<>>)[k] = relayed[e][k]
        /\ Append(relayed[e], <<>>)[l] = <<>>
    BY <1>1, <1>2, <2>1, LastElement
  <2>5. DOMAIN relayed[e] = DOMAIN wire[e]
    BY ConnectionFacts
  <2> QED BY <2>2, <2>3, <2>4, <2>5
<1>4. ASSUME NEW x \in Connections PROVE x \in Connections' /\ Sent(x)' = Sent(x)
  <2>1. PICK f \in Elements : \E k \in DOMAIN wire[f] : x = <<f, k>>
    BY ConnectionOf
  <2>2. PICK k \in DOMAIN wire[f] : x = <<f, k>>
    BY <2>1
  <2>3. k \in DOMAIN wire'[f] /\ wire'[f][k] = wire[f][k] /\ relayed'[f][k] = relayed[f][k]
    BY <1>3
  <2>4. <<f, k>> \in Connections'
    BY <2>3 DEF Connections
  <2> QED BY <2>2, <2>3, <2>4 DEF Sent
<1>5. ASSUME NEW x \in Connections', x \notin Connections PROVE Sent(x)' = <<>>
  <2>1. PICK f \in Elements : \E k \in DOMAIN wire'[f] : x = <<f, k>>
    BY DEF Connections
  <2>2. PICK k \in DOMAIN wire'[f] : x = <<f, k>>
    BY <2>1
  <2>3. k \notin DOMAIN wire[f]
    BY <1>5, <2>2, ConnectionOf
  <2>4. f = e /\ k = l
    BY <1>3, <2>3
  <2>5. Sent(x)' = relayed'[e][l] \o wire'[e][l]
    BY <2>2, <2>4 DEF Sent
  <2>6. <<>> \o <<>> = <<>>
    OBVIOUS
  <2> QED BY <1>3, <2>5, <2>6
<1> QED BY <1>4, <1>5

LEMMA SendTCPKeepsSent ==
    ASSUME AckInv, WireInv, NumberInv, SentInv, NEW e \in Elements, SendTCP(e)
    PROVE  SentInv'
<1>0. /\ queue[e] \in Seq(QueueElement) /\ queue[e] # <<>>
      /\ at \in [Elements -> {"none", "read", "send", "unlink", "flag", "wait", "clear"}]
      /\ at[e] = "send" /\ at' = [at EXCEPT ![e] = "unlink"] /\ UNCHANGED hopVars
      /\ UNCHANGED relayed
  BY DEF AckInv, HopTypes, SendTCP
<1>1. PICK h : h = Head(queue[e]).no
  OBVIOUS
<1>2. h = queue[e][1].no /\ 1 \in DOMAIN queue[e] /\ h \in Nat
  <2>1. 1 \in DOMAIN queue[e] /\ Head(queue[e]) = queue[e][1]
    BY <1>0
  <2>2. queue[e][1] \in QueueElement
    BY <1>0, <2>1, ElementOf
  <2> QED BY <1>1, <2>1, <2>2 DEF QueueElement
<1>3. UNCHANGED <<queue, number, num, step>>
  BY <1>0 DEF hopVars, callerVars
<1>4. /\ Unsent(e) = queue[e] /\ Unsent(e)' = Tail(queue[e])
      /\ \A f \in Elements : f # e => Unsent(f)' = Unsent(f)
  BY <1>0, <1>3 DEF Unsent
<1>5. /\ \A i \in DOMAIN Tail(queue[e]) :
            i + 1 \in DOMAIN queue[e] /\ i \in Nat /\ Tail(queue[e])[i] = queue[e][i + 1]
      /\ \A i \in DOMAIN queue[e] :
            i # 1 => i - 1 \in DOMAIN Tail(queue[e]) /\ Tail(queue[e])[i - 1] = queue[e][i]
  <2>1. \A i \in DOMAIN Tail(queue[e]) :
            i + 1 \in DOMAIN queue[e] /\ i \in Nat /\ Tail(queue[e])[i] = queue[e][i + 1]
    BY <1>0, TailElements
  <2>2. \A i \in DOMAIN queue[e] :
            i # 1 => i - 1 \in DOMAIN Tail(queue[e]) /\ Tail(queue[e])[i - 1] = queue[e][i]
    BY <1>0
  <2> QED BY <2>1, <2>2
<1>6. ASSUME NEW f \in Elements, NEW i \in DOMAIN queue[f], queue[f][i].no = h
      PROVE  f = e /\ i = 1
  BY <1>2, <1>6 DEF NumberInv
<1>7. ASSUME NEW m, IsLeft(m)' PROVE IsLeft(m) /\ m # h
  <2>1. PICK f \in Elements : \E i \in DOMAIN Unsent(f)' : Unsent(f)'[i].no = m
    BY <1>7 DEF IsLeft
  <2>2. PICK i \in DOMAIN Unsent(f)' : Unsent(f)'[i].no = m
    BY <2>1
  <2>3. CASE f = e
    <3>1. i \in Nat /\ i + 1 \in DOMAIN queue[e] /\ queue[e][i + 1].no = m
      BY <1>4, <1>5, <2>2, <2>3
    <3>2. i + 1 # 1 \/ m # h
      <4>1. i = 0 => i \notin DOMAIN Tail(queue[e])
        BY <1>0
      <4> QED BY <1>4, <2>2, <2>3, <3>1, <4>1
    <3> QED BY <1>4, <1>6, <3>1, <3>2 DEF IsLeft
  <2>4. CASE f # e
    <3>1. i \in DOMAIN Unsent(f) /\ Unsent(f)[i].no = m
      BY <1>4, <2>2, <2>4
    <3>2. \E j \in DOMAIN queue[f] : queue[f][j].no = m
      BY <3>1, UnsentFacts
    <3> QED BY <1>6, <2>4, <3>1, <3>2 DEF IsLeft
  <2> QED BY <2>3, <2>4
<1>8. ASSUME NEW m, IsLeft(m), m # h PROVE IsLeft(m)'
  <2>1. PICK f \in Elements : \E i \in DOMAIN Unsent(f) : Unsent(f)[i].no = m
    BY <1>8 DEF IsLeft
  <2>2. PICK i \in DOMAIN Unsent(f) : Unsent(f)[i].no = m
    BY <2>1
  <2>3. CASE f = e
    <3>1. i \in DOMAIN queue[e] /\ queue[e][i].no = m /\ i # 1
      BY <1>2, <1>4, <1>8, <2>2, <2>3
    <3>2. PICK j : j = i - 1
      OBVIOUS
    <3>3. j \in DOMAIN Unsent(f)' /\ Unsent(f)'[j].no = m
      BY <1>4, <1>5, <2>3, <3>1, <3>2
    <3> QED BY <3>3 DEF IsLeft
  <2>4. CASE f # e
    BY <1>4, <2>2, <2>4 DEF IsLeft
  <2> QED BY <2>3, <2>4
<1>9. IsLeft(h)
  BY <1>2, <1>4 DEF IsLeft
<1>10. ~IsSent(h)
  BY <1>9 DEF SentInv
<1>11. PICK k : k = Len(wire[e])
  OBVIOUS
<1>12. PICK x, w : x = <<e, k>> /\ w = Append(wire[e][k], h)
  OBVIOUS
<1>13. k \in DOMAIN wire[e] /\ wire[e][k] \in Seq(Nat) /\ relayed[e][k] \in Seq(Nat)
       /\ w \in Seq(Nat)
  <2>1. wire[e] # <<>>
    BY <1>0 DEF WireInv
  <2>2. k \in DOMAIN wire[e]
    BY <1>11, <2>1, ConnectionFacts
  <2> QED BY <1>2, <1>12, <2>2, ConnectionFacts
<1>14. wire' = [wire EXCEPT ![e][k] = w]
  BY <1>1, <1>11, <1>12 DEF SendTCP
<1>15. /\ \A y : y \in Connections' <=> y \in Connections
       /\ \A y \in Connections : y # x => Sent(y)' = Sent(y)
       /\ Sent(x)' = relayed[e][k] \o w
       /\ x \in Connections
       /\ Sent(x) = relayed[e][k] \o wire[e][k]
  BY <1>0, <1>12, <1>13, <1>14, WireChange
<1>16. Sent(x) \in Seq(Nat) /\ Sent(x)' = Append(Sent(x), h)
  <2>1. PICK r, v : r = relayed[e][k] /\ v = wire[e][k]
    OBVIOUS
  <2>2. r \in Seq(Nat) /\ v \in Seq(Nat) /\ w = Append(v, h)
    BY <1>12, <1>13, <2>1
  <2>3. r \o v \in Seq(Nat) /\ r \o Append(v, h) = Append(r \o v, h)
    BY <1>2, <2>2, Joined, SMTT(60)
  <2>4. Sent(x) = r \o v /\ Sent(x)' = r \o w
    BY <1>15, <2>1
  <2> QED BY <2>2, <2>3, <2>4
<1>17. SentApart' /\ \A m : IsSent(m)' <=> IsSent(m) \/ m = h
  BY <1>2, <1>10, <1>15, <1>16, GivenToConnection
<1>18. \A m : IsHeld(m)' <=> IsHeld(m)
  BY <1>3 DEF IsHeld, Holds
<1>19. h < number /\ ~IsHeld(h)
  <2>1. h < number
    BY <1>2 DEF NumberInv
  <2>2. ~IsHeld(h)
    BY <1>2 DEF NumberInv, NotQueued, IsHeld
  <2> QED BY <2>1, <2>2
<1> QED BY <1>2, <1>3, <1>7, <1>8, <1>17, <1>18, <1>19 DEF SentInv

LEMMA RecvTCPKeepsSent ==
    ASSUME AckInv, WireInv, SentInv, NEW e \in Elements, NEW k \in DOMAIN wire[e], RecvTCP(e, k)
    PROVE  SentInv'
<1>1. PICK r, v, x : r = relayed[e][k] /\ v = wire[e][k] /\ x = <<e, k>>
  OBVIOUS
<1>2. r \in Seq(Nat) /\ v \in Seq(Nat) /\ v # <<>>
  BY <1>1, ConnectionFacts DEF RecvTCP
<1>3. Head(v) \in Nat /\ Tail(v) \in Seq(Nat)
  BY <1>2
<1>4. /\ wire' = [wire EXCEPT ![e][k] = Tail(v)]
      /\ relayed' = [relayed EXCEPT ![e][k] = Append(r, Head(v))]
      /\ UNCHANGED <<at, queue, number, num, step>>
  BY <1>1 DEF RecvTCP, hopVars, callerVars
<1>5. \A f \in Elements : /\ DOMAIN relayed'[f] = DOMAIN relayed[f]
                          /\ \A j \in DOMAIN wire[f] : ~(f = e /\ j = k) =>
                                relayed'[f][j] = relayed[f][j]
  BY <1>4 DEF WireInv
<1>6. relayed'[e][k] = Append(r, Head(v))
  <2>1. relayed \in [Elements -> Seq(Seq(Nat))] /\ k \in DOMAIN relayed[e]
    BY ConnectionFacts DEF WireInv
  <2> QED BY <1>4, <2>1
<1>7. /\ \A y : y \in Connections' <=> y \in Connections
      /\ \A y \in Connections : y # x => Sent(y)' = Sent(y)
      /\ Sent(x)' = relayed'[e][k] \o Tail(v)
      /\ x \in Connections
      /\ Sent(x) = r \o v
  <2>1. PICK w : w = Tail(v)
    OBVIOUS
  <2>2. w \in Seq(Nat) /\ wire' = [wire EXCEPT ![e][k] = w]
    BY <1>3, <1>4, <2>1
  <2>3. /\ \A y : y \in Connections' <=> y \in Connections
        /\ \A y \in Connections : y # <<e, k>> => Sent(y)' = Sent(y)
        /\ Sent(<<e, k>>)' = relayed'[e][k] \o w
        /\ <<e, k>> \in Connections
        /\ Sent(<<e, k>>) = relayed[e][k] \o wire[e][k]
    <3>1. \A f \in Elements : DOMAIN relayed'[f] = DOMAIN relayed[f]
      BY <1>5
    <3>2. \A f \in Elements : \A j \in DOMAIN wire[f] :
            ~(f = e /\ j = k) => relayed'[f][j] = relayed[f][j]
      BY <1>5
    <3> QED BY <2>2, <3>1, <3>2, WireChange
  <2> QED BY <1>1, <2>1, <2>3
<1>8. Sent(x)' = Sent(x)
  <2>1. Append(r, Head(v)) \o Tail(v) = r \o v
    BY <1>2, <1>3, Joined
  <2> QED BY <1>6, <1>7, <2>1
<1>9. \A f \in Elements : Unsent(f)' = Unsent(f)
  BY <1>4 DEF Unsent
<1>10. \A n : IsHeld(n)' <=> IsHeld(n)
  BY <1>4 DEF IsHeld, Holds
<1> QED BY <1>4, <1>7, <1>8, <1>9, <1>10, KeepsSentInv

LEMMA ThreadKeepsSent ==
    ASSUME AckInv, WireInv, NumberInv, SentInv, NEW e \in Elements,
           TcpThread(e) \/ TcpReceiver(e)
    PROVE  SentInv'
<1>0. /\ queue \in [Elements -> Seq(QueueElement)]
      /\ at \in [Elements -> {"none", "read", "send", "unlink", "flag", "wait", "clear"}]
  BY DEF AckInv, HopTypes
<1>1. CASE Connect(e) \/ Reconnect(e)
  <2>1. NewConnection(e) /\ UNCHANGED <<queue, number, num, step>> /\ at[e] # "unlink"
        /\ at'[e] # "unlink" /\ \A f \in Elements : f # e => at'[f] = at[f]
    BY <1>0, <1>1 DEF Connect, Reconnect, hopVars, callerVars
  <2>2. /\ \A x : x \in Connections => x \in Connections' /\ Sent(x)' = Sent(x)
        /\ \A x \in Connections' : x \in Connections \/ Sent(x)' = <<>>
    BY <2>1, OneConnectionMore
  <2>3. \A f \in Elements : Unsent(f)' = Unsent(f)
    BY <2>1 DEF Unsent
  <2>4. \A n : IsHeld(n)' <=> IsHeld(n)
    BY <2>1 DEF IsHeld, Holds
  <2> QED BY <2>1, <2>2, <2>3, <2>4, KeepsSentInv
<1>2. CASE SendTCP(e)
  BY <1>2, SendTCPKeepsSent
<1>3. CASE TcpReceiver(e)
  BY <1>3, RecvTCPKeepsSent DEF TcpReceiver
<1>4. CASE ReadQueue(e) \/ Flag(e) \/ WaitEnqueue(e) \/ ClearFlag(e) \/ Unlink(e)
  <2>1. UNCHANGED <<number, num, step, wire, relayed>>
        /\ \A f \in Elements : f # e => at'[f] = at[f] /\ queue'[f] = queue[f]
    BY <1>0, <1>4 DEF ReadQueue, Flag, WaitEnqueue, ClearFlag, Unlink, hopVars, callerVars
  <2>2. Unsent(e)' = Unsent(e)
    <3>1. CASE Unlink(e)
      <4>1. at[e] = "unlink" /\ queue'[e] = Tail(queue[e]) /\ at'[e] # "unlink"
        BY <1>0, <3>1 DEF Unlink
      <4> QED BY <4>1 DEF Unsent
    <3>2. CASE ReadQueue(e) \/ Flag(e) \/ WaitEnqueue(e) \/ ClearFlag(e)
      <4>1. at[e] # "unlink" /\ queue' = queue /\ at'[e] # "unlink"
        BY <1>0, <3>2 DEF ReadQueue, Flag, WaitEnqueue, ClearFlag, hopVars
      <4> QED BY <4>1 DEF Unsent
    <3> QED BY <1>4, <3>1, <3>2
  <2>3. \A f \in Elements : Unsent(f)' = Unsent(f)
    BY <2>1, <2>2 DEF Unsent
  <2>4. \A n : IsHeld(n)' <=> IsHeld(n)
    BY <2>1 DEF IsHeld, Holds
  <2> QED BY <2>1, <2>3, <2>4, SameWire, KeepsSentInv
<1> QED BY <1>1, <1>2, <1>3, <1>4 DEF TcpThread

LEMMA NextKeepsTcpSent == HopInv /\ NumberInv /\ TcpSent /\ [Next]_vars => TcpSent'
<1> SUFFICES ASSUME HopInv, NumberInv, TcpSent, [Next]_vars, protocolType' = "TCP" PROVE SentInv'
  BY DEF TcpSent
<1> USE DEF HopInv
<1>1. protocolType = "TCP" /\ SentInv
  BY NextKeepsProtocol DEF TcpSent
<1>2. ASSUME NEW c \in Callers, Calling(c) PROVE SentInv'
  BY <1>1, <1>2, CallerKeepsSent
<1>3. ASSUME NEW e \in Elements, Threads(e) PROVE SentInv'
  BY <1>1, <1>3, ThreadKeepsSent DEF Threads, Udp
<1>4. CASE UNCHANGED vars
  <2>1. UNCHANGED <<at, queue, number, num, step, wire, relayed>>
    BY <1>4 DEF vars, hopVars, callerVars, tcpVars
  <2>2. \A f \in Elements : Unsent(f)' = Unsent(f)
    BY <2>1 DEF Unsent
  <2>3. \A n : IsHeld(n)' <=> IsHeld(n)
    BY <2>1 DEF IsHeld, Holds
  <2> QED BY <1>1, <2>1, <2>2, <2>3, SameWire, KeepsSentInv
<1> QED BY <1>2, <1>3, <1>4 DEF Next

AllInv == PacketInv /\ TcpSent

LEMMA AlwaysAllInv == Spec => []AllInv
<1>1. Init => TcpSent
  BY InitTcpSent
<1>2. PacketInv /\ TcpSent /\ [Next]_vars => TcpSent'
  BY NextKeepsTcpSent DEF PacketInv
<1> QED BY <1>1, <1>2, AlwaysPacketInv, PTL DEF Spec, AllInv

(* The three places a number can be in, as SentOnce counts them.            *)
LEMMA OneOrNone ==
    ASSUME NEW S, \A x, y \in S : x = y
    PROVE  Cardinality(S) = IF S = {} THEN 0 ELSE 1
<1>1. CASE S = {}
  BY <1>1, FS_EmptySet
<1>2. CASE S # {}
  <2>1. PICK x : x \in S
    BY <1>2
  <2>2. S = {x}
    BY <2>1
  <2> QED BY <1>2, <2>2, FS_Singleton
<1> QED BY <1>1, <1>2

(* A numbered packet is with its caller, unsent in one queue, or was sent   *)
(* once on one connection, and never in two of these: the unlocked steps of *)
(* the dispatcher, the enqueues and the broken connections neither lose nor *)
(* repeat it, whatever the number of threads, next hops and breaks.         *)
THEOREM EachSentOnce == Spec => []SentOnce
<1>1. AllInv => SentOnce
  <2> SUFFICES ASSUME AllInv, protocolType = "TCP", NEW n \in 0..(number - 1)
               PROVE  LET held == {c \in Callers : step[c] = "insert" /\ num[c] = n}
                          left == UNION {{<<e, i>> : i \in {j \in DOMAIN Unsent(e) : Unsent(e)[j].no = n}} :
                                         e \in Elements}
                          sent == UNION {{<<x, i>> : i \in {j \in DOMAIN Sent(x) : Sent(x)[j] = n}} :
                                         x \in Connections}
                      IN  Cardinality(held) + Cardinality(left) + Cardinality(sent) = 1
    BY DEF SentOnce
  <2> DEFINE held == {c \in Callers : step[c] = "insert" /\ num[c] = n}
             left == UNION {{<<e, i>> : i \in {j \in DOMAIN Unsent(e) : Unsent(e)[j].no = n}} :
                            e \in Elements}
             sent == UNION {{<<x, i>> : i \in {j \in DOMAIN Sent(x) : Sent(x)[j] = n}} :
                            x \in Connections}
  <2> USE DEF AllInv, PacketInv, HopInv
  <2>1. n \in Nat /\ n < number /\ SentInv
    BY DEF TcpSent, AckInv, HopTypes
  <2>2. (\A x, y \in held : x = y) /\ (held = {} <=> ~IsHeld(n))
    BY DEF NumberInv, Holds, IsHeld
  <2>3. (\A x, y \in left : x = y) /\ (left = {} <=> ~IsLeft(n))
    <3>1. ASSUME NEW x \in left
          PROVE  \E e \in Elements : \E i \in DOMAIN Unsent(e) : x = <<e, i>> /\ Unsent(e)[i].no = n
      OBVIOUS
    <3>2. ASSUME NEW e \in Elements, NEW i \in DOMAIN Unsent(e), Unsent(e)[i].no = n
          PROVE  <<e, i>> \in left
      BY <3>2
    <3>3. ASSUME NEW e \in Elements, NEW i \in DOMAIN Unsent(e), Unsent(e)[i].no = n,
                 NEW f \in Elements, NEW j \in DOMAIN Unsent(f), Unsent(f)[j].no = n
          PROVE  e = f /\ i = j
      <4>1. PICK k \in DOMAIN queue[e] : /\ k = IF at[e] = "unlink" THEN i + 1 ELSE i
                                         /\ Unsent(e)[i] = queue[e][k] /\ i \in Nat
        BY UnsentFacts
      <4>2. PICK l \in DOMAIN queue[f] : /\ l = IF at[f] = "unlink" THEN j + 1 ELSE j
                                         /\ Unsent(f)[j] = queue[f][l] /\ j \in Nat
        BY UnsentFacts
      <4>3. e = f /\ k = l
        BY <3>3, <4>1, <4>2 DEF NumberInv
      <4> QED BY <4>1, <4>2, <4>3
    <3> HIDE DEF left
    <3>4. \A x, y \in left : x = y
      BY <3>1, <3>3
    <3>5. left = {} <=> ~IsLeft(n)
      BY <3>1, <3>2 DEF IsLeft
    <3> QED BY <3>4, <3>5
  <2>4. (\A x, y \in sent : x = y) /\ (sent = {} <=> ~IsSent(n))
    <3>1. ASSUME NEW x \in sent
          PROVE  \E y \in Connections : \E i \in DOMAIN Sent(y) : x = <<y, i>> /\ Sent(y)[i] = n
      OBVIOUS
    <3>2. ASSUME NEW y \in Connections, NEW i \in DOMAIN Sent(y), Sent(y)[i] = n
          PROVE  <<y, i>> \in sent
      BY <3>2
    <3>3. SentApart
      BY <2>1 DEF SentInv
    <3> HIDE DEF sent
    <3>4. \A x, y \in sent : x = y
      BY <3>1, <3>3 DEF SentApart
    <3>5. sent = {} <=> ~IsSent(n)
      BY <3>1, <3>2 DEF IsSent
    <3> QED BY <3>4, <3>5
  <2>5. ~(IsHeld(n) /\ IsLeft(n))
    <3>1. ASSUME IsHeld(n), IsLeft(n) PROVE FALSE
      <4>1. NotQueued(n)
        BY <3>1 DEF IsHeld, NumberInv
      <4>2. PICK e \in Elements : \E i \in DOMAIN Unsent(e) : Unsent(e)[i].no = n
        BY <3>1 DEF IsLeft
      <4>3. PICK i \in DOMAIN Unsent(e) : Unsent(e)[i].no = n
        BY <4>2
      <4>4. \E k \in DOMAIN queue[e] : queue[e][k].no = n
        BY <4>3, UnsentFacts
      <4> QED BY <4>1, <4>4 DEF NotQueued
    <3> QED BY <3>1
  <2>6. /\ IsSent(n) => ~IsHeld(n) /\ ~IsLeft(n)
        /\ IsHeld(n) \/ IsLeft(n) \/ IsSent(n)
    BY <2>1 DEF SentInv
  <2>7. PICK a, b, c : a = Cardinality(held) /\ b = Cardinality(left) /\ c = Cardinality(sent)
    OBVIOUS
  <2> HIDE DEF held, left, sent
  <2>8. /\ a = IF IsHeld(n) THEN 1 ELSE 0
        /\ b = IF IsLeft(n) THEN 1 ELSE 0
        /\ c = IF IsSent(n) THEN 1 ELSE 0
    BY <2>2, <2>3, <2>4, <2>7, OneOrNone
  <2>9. a + b + c = 1
    BY <2>5, <2>6, <2>8
  <2> QED BY <2>7, <2>9 DEF held, left, sent
<1> QED BY <1>1, AlwaysAllInv, PTL
=============================================================================
