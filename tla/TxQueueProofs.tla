--------------------------- MODULE TxQueueProofs ----------------------------
(***************************************************************************)
(* Proofs about TxQueue, for every set of callers, every window and queue  *)
(* length, any number of packets and of timeouts.                          *)
(***************************************************************************)
EXTENDS TxQueue, DataLemmas, FiniteSetTheorems

Started(e) == spc[e] # "none"

(* The numbers of the packets enqueued and of those about to be differ, and *)
(* all of them were taken from the counter.                                 *)
NumberInv ==
    /\ \A k \in DOMAIN enq : enq[k] < seqNo
    /\ \A j, k \in DOMAIN enq : enq[j] = enq[k] => j = k
    /\ \A c \in Callers : cpc[c] = "insert" =>
          /\ num[c] < seqNo
          /\ \A k \in DOMAIN enq : enq[k] # num[c]
          /\ \A d \in Callers : cpc[d] = "insert" /\ num[d] = num[c] => d = c

(* An element has a place as soon as it is enqueued, a thread while its     *)
(* status is START, and is not touched by it any more from EXIT on.         *)
ElementInv ==
    \A e \in Elements :
        /\ status[e] = "NONE" <=> e > Len(enq)
        /\ Started(e) <=> status[e] \notin {"NONE", "READY"}
        /\ spc[e] = "ended" <=> status[e] \in {"EXIT", "FREED"}

Holding == {"full", "waitDel", "dequeued", "token", "create"}

(* The threads are created in queue order, and q_cur is the next in turn.   *)
OrderInv ==
    /\ \A e, f \in Elements : e < f /\ Started(f) => Started(e)
    /\ dpc \in Holding =>
          /\ cur \in Elements
          /\ status[cur] = "READY"
          /\ \A f \in Elements : f < cur => Started(f)

(* There is at most one token: pending at the dispatcher, with the          *)
(* dispatcher while it creates a thread, or with a thread before its first  *)
(* sendto.                                                                  *)
TokenInv ==
    /\ tokens \in {0, 1}
    /\ dpc \in {"none", "start"} => tokens = 0 /\ \A e \in Elements : ~Started(e)
    /\ dpc = "create" => tokens = 0
    /\ tokens = 1 \/ dpc = "create" => \A e \in Elements : spc[e] # "first"
    /\ \A e, f \in Elements : spc[e] = "first" /\ spc[f] = "first" => e = f

(* What was sent is what has been started, but for the thread with the      *)
(* token.                                                                   *)
SentInv ==
    /\ \A k \in DOMAIN sent : sent[k] = k
    /\ \A e \in Elements : e <= Len(sent) <=> spc[e] \notin {"none", "first"}

(* An ACK, a pending SENDEND and a thread that leaves its loop all mean a   *)
(* packet below the number the next hop expects.                            *)
AckInv ==
    /\ \A n \in acks : n < expectedSeq
    /\ \A e \in Elements :
          sigEnd[e] \/ spc[e] \in {"suc", "del", "exit", "ended"} => enq[e] < expectedSeq
    /\ \A e \in Elements : sigEnd[e] => Started(e)

IInv ==
    /\ TypeOK
    /\ NumberInv
    /\ ElementInv
    /\ OrderInv
    /\ TokenInv
    /\ SentInv
    /\ AckInv
-----------------------------------------------------------------------------
LEMMA ElementsAreNat == Elements \in SUBSET Nat /\ \A e \in Elements : e <= MaxPackets
  BY ConstantsAssumption DEF Elements

(* Min and Max of a set of elements are what their names say. *)
LEMMA MinOfElements ==
    ASSUME NEW S \in SUBSET Elements, S # {}
    PROVE  Min(S) \in S /\ \A e \in S : Min(S) <= e
<1>1. \E i \in S : \A j \in S : i <= j
  <2>1. S \in SUBSET Nat
    BY ElementsAreNat
  <2> QED BY <2>1, LeastNat
<1> QED BY <1>1 DEF Min

(* There is always room for a packet whose number has been taken. *)
LEMMA RoomForInsert ==
    ASSUME TypeOK, NumberInv, NEW c \in Callers, cpc[c] = "insert"
    PROVE  Len(enq) < seqNo
<1> DEFINE n == Len(enq)
           s == [k \in 1..n + 1 |-> IF k <= n THEN enq[k] ELSE num[c]]
<1>1. n \in Nat /\ seqNo \in Nat /\ num[c] \in Nat /\ num[c] < seqNo
      /\ \A k \in 1..n : enq[k] \in Nat /\ enq[k] < seqNo
  BY ConstantsAssumption DEF TypeOK, NumberInv
<1>2. s \in [1..n + 1 -> 0..seqNo - 1]
  BY <1>1
<1>3. \A j, k \in 1..n + 1 : s[j] = s[k] => j = k
  BY <1>1 DEF NumberInv, TypeOK
<1>4. s \in Injection(1..n + 1, 0..seqNo - 1)
  BY <1>2, <1>3 DEF Injection, IsInjective
<1>5. IsFiniteSet(0..seqNo - 1) /\ Cardinality(0..seqNo - 1) = seqNo
  <2>1. 0 \in Int /\ seqNo - 1 \in Int
    BY <1>1
  <2>2. IsFiniteSet(0..seqNo - 1)
        /\ Cardinality(0..seqNo - 1) = IF 0 > seqNo - 1 THEN 0 ELSE seqNo - 1 - 0 + 1
    BY <2>1, FS_Interval
  <2> QED BY <1>1, <2>2
<1>6. Cardinality(1..n + 1) = n + 1
  BY <1>1, FS_Interval
<1>7. Cardinality(1..n + 1) <= Cardinality(0..seqNo - 1)
  BY <1>4, <1>5, FS_Injection
<1> QED BY <1>1, <1>5, <1>6, <1>7
-----------------------------------------------------------------------------
LEMMA InitIInv == Init => IInv
<1> SUFFICES ASSUME Init PROVE IInv
  OBVIOUS
<1> USE ConstantsAssumption DEF Init, Elements
<1>1. TypeOK
  <2>1. seqNo \in 0..MaxPackets /\ enq \in Seq(0..MaxPackets - 1) /\ Len(enq) <= seqNo
    OBVIOUS
  <2>2. sent \in Seq(Elements)
    OBVIOUS
  <2>3. cur \in 0..MaxPackets /\ timeouts \in 0..MaxTimeouts /\ expectedSeq \in 0..MaxPackets
    OBVIOUS
  <2> QED BY <2>1, <2>2, <2>3 DEF TypeOK
<1>2. NumberInv /\ ElementInv /\ OrderInv /\ TokenInv /\ SentInv /\ AckInv
  BY DEF NumberInv, ElementInv, OrderInv, TokenInv, SentInv, AckInv, Started, Holding
<1> QED BY <1>1, <1>2 DEF IInv
-----------------------------------------------------------------------------
(***************************************************************************)
(* UnicastPacket.                                                          *)
(***************************************************************************)
LEMMA EnqueueKeepsIInv ==
    ASSUME IInv, NEW c \in Callers, Enqueue(c)
    PROVE  IInv'
<1> DEFINE n == Len(enq) + 1
<1>1. /\ cpc[c] = "insert"
      /\ enq' = Append(enq, num[c])
      /\ status' = [status EXCEPT ![n] = "READY"]
      /\ cpc' = [cpc EXCEPT ![c] = "notify"]
      /\ dpc' = dpc \/ (dpc = "none" /\ dpc' = "start")
      /\ UNCHANGED <<num, seqNo, cur, waitingEnqueueSig, waitingDequeueSig, signals, tokens,
                     xpc, xsignal, spc, sigSuc, sigResend, sigEnd, timeouts, sent,
                     expectedSeq, acks>>
  <2>1. dpc' = dpc \/ (dpc = "none" /\ dpc' = "start")
    BY DEF Enqueue
  <2> QED BY <2>1 DEF Enqueue, delVars, senderVars, hopVars
<1>2. /\ Len(enq) \in Nat /\ n <= seqNo /\ seqNo <= MaxPackets /\ n \in Elements
      /\ num[c] \in Nat /\ num[c] < seqNo /\ MaxPackets \in Nat /\ seqNo \in Nat
      /\ enq \in Seq(0..MaxPackets - 1)
  <2>1. /\ num[c] \in Nat /\ num[c] < seqNo /\ MaxPackets \in Nat /\ seqNo \in 0..MaxPackets
        /\ enq \in Seq(0..MaxPackets - 1)
    BY <1>1, ConstantsAssumption DEF IInv, TypeOK, NumberInv
  <2>2. Len(enq) < seqNo
    BY <1>1, RoomForInsert DEF IInv
  <2>3. Len(enq) \in Nat
    BY <2>1
  <2> QED BY <2>1, <2>2, <2>3 DEF Elements
<1>3. /\ enq' \in Seq(0..MaxPackets - 1)
      /\ Len(enq') = n
      /\ DOMAIN enq' = DOMAIN enq \cup {n}
      /\ enq'[n] = num[c]
      /\ \A k \in DOMAIN enq : enq'[k] = enq[k]
      /\ DOMAIN enq = 1..Len(enq)
  BY <1>1, <1>2
<1>4. status[n] = "NONE" /\ ~Started(n) /\ spc[n] = "none"
  BY <1>2 DEF IInv, ElementInv, Started
<1>5. \A e \in Elements : status'[e] = IF e = n THEN "READY" ELSE status[e]
  BY <1>1 DEF IInv, TypeOK
<1>6. TypeOK'
  BY <1>1, <1>2, <1>3 DEF IInv, TypeOK
<1>7. NumberInv'
  <2>1. \A k \in DOMAIN enq' : enq'[k] < seqNo'
    BY <1>1, <1>2, <1>3 DEF IInv, NumberInv
  <2>2. \A j, k \in DOMAIN enq' : enq'[j] = enq'[k] => j = k
    BY <1>1, <1>3 DEF IInv, NumberInv
  <2>3. ASSUME NEW d \in Callers, cpc'[d] = "insert"
        PROVE  /\ d # c /\ cpc[d] = "insert"
               /\ num'[d] < seqNo'
               /\ \A k \in DOMAIN enq' : enq'[k] # num'[d]
               /\ \A b \in Callers : cpc'[b] = "insert" /\ num'[b] = num'[d] => b = d
    <3>1. d # c /\ cpc[d] = "insert"
      BY <1>1, <2>3 DEF IInv, TypeOK
    <3>2. \A b \in Callers : cpc'[b] = "insert" => cpc[b] = "insert"
      BY <1>1 DEF IInv, TypeOK
    <3> QED BY <1>1, <1>3, <3>1, <3>2 DEF IInv, NumberInv
  <2> QED BY <2>1, <2>2, <2>3 DEF NumberInv
<1>8. ElementInv'
  BY <1>1, <1>2, <1>3, <1>4, <1>5, ElementsAreNat DEF IInv, ElementInv, Started
<1>9. OrderInv'
  BY <1>1, <1>4, <1>5 DEF IInv, OrderInv, Started, Holding
<1>10. TokenInv' /\ SentInv'
  BY <1>1 DEF IInv, TokenInv, SentInv, Started
<1>11. AckInv'
  <2>1. ASSUME NEW e \in Elements, sigEnd'[e] \/ spc'[e] \in {"suc", "del", "exit", "ended"}
        PROVE  enq'[e] < expectedSeq'
    <3>1. Started(e) /\ enq[e] < expectedSeq
      BY <1>1, <2>1 DEF IInv, AckInv, Started
    <3>2. e \in DOMAIN enq
      <4>1. status[e] # "NONE"
        BY <3>1 DEF IInv, ElementInv
      <4>2. ~(e > Len(enq)) /\ e \in Nat \ {0}
        BY <4>1, ElementsAreNat DEF IInv, ElementInv, Elements
      <4> QED BY <1>2, <1>3, <4>2
    <3> QED BY <1>1, <1>3, <3>1, <3>2
  <2> QED BY <1>1, <2>1 DEF IInv, AckInv, Started
<1> QED BY <1>6, <1>7, <1>8, <1>9, <1>10, <1>11 DEF IInv

LEMMA CallerKeepsIInv ==
    ASSUME IInv, NEW c \in Callers, Caller(c)
    PROVE  IInv'
<1>1. CASE Enqueue(c)
  BY <1>1, EnqueueKeepsIInv
<1>2. CASE CheckRoom(c) \/ TakeNumber(c) \/ TestWaiting(c) \/ SignalEnqueue(c)
  <2>1. UNCHANGED <<enq, status, dpc, cur, waitingEnqueueSig, waitingDequeueSig, tokens,
                    xpc, xsignal, spc, sigSuc, sigResend, sigEnd, timeouts, sent,
                    expectedSeq, acks>>
    BY <1>2 DEF CheckRoom, TakeNumber, TestWaiting, SignalEnqueue, queueVars, dispatcherVars,
                delVars, senderVars, hopVars
  <2>2. TypeOK'
    <3>1. /\ cpc' \in [Callers -> {"idle", "number", "insert", "notify", "kill"}]
          /\ num' \in [Callers -> Nat]
          /\ seqNo' \in 0..MaxPackets /\ seqNo <= seqNo'
          /\ signals' \subseteq {"ENQUEUE", "DEL_QUEUE"}
      <4>1. CASE TakeNumber(c)
        BY <4>1, ConstantsAssumption DEF IInv, TypeOK, TakeNumber
      <4>2. CASE CheckRoom(c) \/ TestWaiting(c) \/ SignalEnqueue(c)
        <5>1. \E q \in {"idle", "number", "notify", "kill"} : cpc' = [cpc EXCEPT ![c] = q]
          BY <4>2 DEF CheckRoom, TestWaiting, SignalEnqueue
        <5>2. UNCHANGED <<num, seqNo>> /\ (UNCHANGED signals \/ signals' = signals \cup {"ENQUEUE"})
          BY <4>2 DEF CheckRoom, TestWaiting, SignalEnqueue
        <5>3. cpc' \in [Callers -> {"idle", "number", "insert", "notify", "kill"}]
          BY <5>1 DEF IInv, TypeOK
        <5>4. signals' \subseteq {"ENQUEUE", "DEL_QUEUE"}
          BY <5>2 DEF IInv, TypeOK
        <5>5. num' \in [Callers -> Nat]
          BY <5>2 DEF IInv, TypeOK
        <5>6. seqNo' \in 0..MaxPackets /\ seqNo <= seqNo'
          BY <5>2, ConstantsAssumption DEF IInv, TypeOK
        <5> QED BY <5>3, <5>4, <5>5, <5>6
      <4> QED BY <1>2, <4>1, <4>2
    <3>2. enq' \in Seq(0..MaxPackets - 1) /\ Len(enq') <= seqNo'
      BY <2>1, <3>1, ConstantsAssumption DEF IInv, TypeOK
    <3> QED BY <2>1, <3>1, <3>2 DEF IInv, TypeOK
  <2>3. NumberInv'
    <3>1. CASE TakeNumber(c)
      <4>1. /\ cpc' = [cpc EXCEPT ![c] = "insert"]
            /\ num' = [num EXCEPT ![c] = seqNo]
            /\ seqNo' = seqNo + 1
        BY <3>1 DEF TakeNumber
      <4>2. seqNo \in Nat /\ DOMAIN enq \in SUBSET Nat
        BY ConstantsAssumption DEF IInv, TypeOK
      <4>3. \A k \in DOMAIN enq : enq[k] < seqNo /\ enq[k] \in Nat
        BY ConstantsAssumption DEF IInv, TypeOK, NumberInv
      <4>4. \A d \in Callers : num[d] \in Nat /\ (cpc[d] = "insert" => num[d] < seqNo)
        BY DEF IInv, TypeOK, NumberInv
      <4>5. \A k \in DOMAIN enq' : enq'[k] < seqNo'
        BY <2>1, <4>1, <4>2, <4>3
      <4>6. ASSUME NEW d \in Callers, cpc'[d] = "insert"
            PROVE  /\ num'[d] < seqNo'
                   /\ \A k \in DOMAIN enq' : enq'[k] # num'[d]
                   /\ \A b \in Callers : cpc'[b] = "insert" /\ num'[b] = num'[d] => b = d
        <5>1. num'[d] = IF d = c THEN seqNo ELSE num[d]
          BY <4>1 DEF IInv, TypeOK
        <5>2. d # c => cpc[d] = "insert"
          BY <4>1, <4>6 DEF IInv, TypeOK
        <5>3. \A b \in Callers : cpc'[b] = "insert" =>
                 /\ num'[b] = IF b = c THEN seqNo ELSE num[b]
                 /\ b # c => cpc[b] = "insert"
          BY <4>1 DEF IInv, TypeOK
        <5> QED BY <2>1, <4>1, <4>2, <4>3, <4>4, <5>1, <5>2, <5>3 DEF IInv, NumberInv
      <4> QED BY <2>1, <4>5, <4>6 DEF IInv, NumberInv
    <3>2. CASE CheckRoom(c) \/ TestWaiting(c) \/ SignalEnqueue(c)
      <4>1. UNCHANGED <<num, seqNo>> /\ \A d \in Callers : cpc'[d] = "insert" => cpc[d] = "insert"
        BY <3>2 DEF CheckRoom, TestWaiting, SignalEnqueue, IInv, TypeOK
      <4> QED BY <2>1, <4>1 DEF IInv, NumberInv
    <3> QED BY <1>2, <3>1, <3>2
  <2>4. ElementInv' /\ OrderInv' /\ TokenInv' /\ SentInv' /\ AckInv'
    BY <2>1 DEF IInv, ElementInv, OrderInv, TokenInv, SentInv, AckInv, Started, Holding
  <2> QED BY <2>2, <2>3, <2>4 DEF IInv
<1> QED BY <1>1, <1>2 DEF Caller
-----------------------------------------------------------------------------
(***************************************************************************)
(* UnicastWithARQ.                                                         *)
(***************************************************************************)
(* The scan stops at the first element behind e without a thread.           *)
LEMMA ScanFromFacts ==
    ASSUME IInv, NEW e \in Nat, NEW n, ScanFrom(e, n)
    PROVE  /\ dpc' \in {"end", "full", "token"}
           /\ cur' \in 0..MaxPackets
           /\ dpc' # "end" => /\ cur' \in Elements /\ e < cur' /\ status[cur'] = "READY"
                              /\ \A f \in Elements : e < f /\ f < cur' => Started(f)
<1> DEFINE ready == {f \in InQueue : f > e /\ status[f] = "READY"}
<1>1. CASE ready = {}
  BY <1>1 DEF ScanFrom, IInv, TypeOK
<1>2. CASE ready # {}
  <2>1. cur' = Min(ready) /\ dpc' \in {"full", "token"}
    BY <1>2 DEF ScanFrom
  <2>2. ready \in SUBSET Elements
    BY DEF InQueue
  <2>3. cur' \in ready /\ \A f \in ready : cur' <= f
    <3> HIDE DEF ready
    <3> QED BY <1>2, <2>1, <2>2, MinOfElements
  <2>4. cur' \in Elements /\ e < cur' /\ status[cur'] = "READY"
    BY <2>2, <2>3, ElementsAreNat
  <2>5. ASSUME NEW f \in Elements, e < f, f < cur' PROVE Started(f)
    <3>1. f \in Nat /\ cur' \in Nat /\ Len(enq) \in Nat
      BY <2>4, ElementsAreNat DEF IInv, TypeOK
    <3>2. ~(cur' > Len(enq))
      BY <2>4 DEF IInv, ElementInv
    <3>3. status[f] # "NONE"
      BY <2>5, <3>1, <3>2 DEF IInv, ElementInv
    <3>4. f \notin ready
      BY <2>3, <2>5, <3>1
    <3>5. status[f] # "READY"
      BY <2>5, <3>1, <3>4 DEF InQueue
    <3> QED BY <3>3, <3>5 DEF IInv, ElementInv
  <2>6. cur' \in 0..MaxPackets
    BY <2>4, ElementsAreNat, ConstantsAssumption
  <2> QED BY <2>1, <2>4, <2>5, <2>6
<1> QED BY <1>1, <1>2

LEMMA CreateSenderKeepsIInv ==
    ASSUME IInv, CreateSender
    PROVE  IInv'
<1>1. /\ dpc = "create"
      /\ status' = [status EXCEPT ![cur] = "START"]
      /\ spc' = [spc EXCEPT ![cur] = "first"]
      /\ UNCHANGED <<cpc, num, seqNo, enq, waitingEnqueueSig, waitingDequeueSig, signals, tokens,
                     xpc, xsignal, sigSuc, sigResend, sigEnd, timeouts, sent, expectedSeq, acks>>
  BY DEF CreateSender, callerVars, delVars, hopVars
<1>2. /\ cur \in Elements /\ status[cur] = "READY" /\ spc[cur] = "none"
      /\ \A f \in Elements : f < cur => Started(f)
  BY <1>1 DEF IInv, OrderInv, ElementInv, Holding, Started
<1>3. /\ dpc' \in {"end", "full", "token"}
      /\ cur' \in 0..MaxPackets
      /\ dpc' # "end" => /\ cur' \in Elements /\ cur < cur' /\ status[cur'] = "READY"
                         /\ \A f \in Elements : cur < f /\ f < cur' => Started(f)
  BY <1>2, ScanFromFacts, ElementsAreNat DEF CreateSender
<1>4. \A e \in Elements : /\ status'[e] = IF e = cur THEN "START" ELSE status[e]
                          /\ spc'[e] = IF e = cur THEN "first" ELSE spc[e]
  BY <1>1 DEF IInv, TypeOK
<1>5. TypeOK'
  BY <1>1, <1>3 DEF IInv, TypeOK
<1>6. NumberInv' /\ ElementInv' /\ AckInv'
  BY <1>1, <1>2, <1>4 DEF IInv, NumberInv, ElementInv, AckInv, Started
<1>7. OrderInv'
  <2>1. \A e \in Elements : Started(e)' <=> Started(e) \/ e = cur
    BY <1>4 DEF Started
  <2>2. ASSUME NEW e \in Elements, NEW f \in Elements, e < f, Started(f)' PROVE Started(e)'
    BY <1>2, <2>1, <2>2 DEF IInv, OrderInv
  <2>3. ASSUME dpc' \in Holding
        PROVE  /\ cur' \in Elements /\ status'[cur'] = "READY"
               /\ \A f \in Elements : f < cur' => Started(f)'
    <3>1. /\ cur' \in Elements /\ cur < cur' /\ status[cur'] = "READY"
          /\ \A f \in Elements : cur < f /\ f < cur' => Started(f)
      BY <1>3, <2>3 DEF Holding
    <3>2. status'[cur'] = "READY"
      BY <1>2, <1>4, <3>1, ElementsAreNat
    <3> QED BY <1>2, <2>1, <3>1, <3>2, ElementsAreNat
  <2> QED BY <2>2, <2>3 DEF OrderInv
<1>8. TokenInv'
  BY <1>1, <1>2, <1>3, <1>4 DEF IInv, TokenInv, Started
<1>9. SentInv'
  BY <1>1, <1>2, <1>4 DEF IInv, SentInv
<1> QED BY <1>5, <1>6, <1>7, <1>8, <1>9 DEF IInv

LEMMA DispatcherKeepsIInv ==
    ASSUME IInv, Dispatcher
    PROVE  IInv'
<1>1. CASE CreateSender
  BY <1>1, CreateSenderKeepsIInv
<1>2. CASE Dispatcher /\ ~CreateSender
  <2>1. UNCHANGED <<cpc, num, seqNo, enq, status, xpc, xsignal, spc, sigSuc, sigResend, sigEnd,
                    timeouts, sent, expectedSeq, acks>>
    BY <1>2 DEF Dispatcher, StartDispatcher, Scan, WindowFull, WaitDequeue, Dequeued, WaitToken,
                QueueDone, WaitEnqueue, Enqueued, callerVars, queueVars, delVars, senderVars,
                hopVars
  <2>2. /\ signals' \subseteq signals
        /\ waitingEnqueueSig' \in BOOLEAN /\ waitingDequeueSig' \in BOOLEAN
    BY <1>2 DEF Dispatcher, StartDispatcher, Scan, WindowFull, WaitDequeue, Dequeued, WaitToken,
                QueueDone, WaitEnqueue, Enqueued, IInv, TypeOK
  <2>3. NumberInv' /\ ElementInv' /\ SentInv' /\ AckInv'
    BY <2>1 DEF IInv, NumberInv, ElementInv, SentInv, AckInv, Started
  <2>4. CASE Scan
    <3>1. /\ UNCHANGED tokens /\ dpc = "lock"
          /\ dpc' \in {"end", "full", "token"}
          /\ cur' \in 0..MaxPackets
          /\ dpc' # "end" => /\ cur' \in Elements /\ status[cur'] = "READY"
                             /\ \A f \in Elements : 0 < f /\ f < cur' => Started(f)
      <4>1. 0 \in Nat /\ ScanFrom(0, numMiddleSend) /\ UNCHANGED tokens /\ dpc = "lock"
        BY <2>4 DEF Scan
      <4> HIDE DEF numMiddleSend
      <4> QED BY <4>1, ScanFromFacts
    <3>2. OrderInv'
      BY <2>1, <3>1, ElementsAreNat DEF IInv, OrderInv, Holding, Started, Elements
    <3>3. TokenInv'
      BY <2>1, <3>1 DEF IInv, TokenInv, Started
    <3>4. TypeOK'
      BY <2>1, <2>2, <3>1 DEF IInv, TypeOK
    <3> QED BY <2>3, <3>2, <3>3, <3>4 DEF IInv
  <2>5. CASE StartDispatcher
    <3>1. /\ dpc = "start" /\ dpc' = "lock" /\ tokens' = tokens + 1 /\ UNCHANGED cur
      BY <2>5 DEF StartDispatcher
    <3>2. OrderInv' /\ TokenInv'
      BY <2>1, <3>1 DEF IInv, OrderInv, TokenInv, Holding, Started
    <3>3. TypeOK'
      BY <2>1, <2>2, <3>1 DEF IInv, TypeOK
    <3> QED BY <2>3, <3>2, <3>3 DEF IInv
  <2>6. CASE WaitToken
    <3>1. /\ dpc = "token" /\ dpc' = "create" /\ tokens > 0 /\ tokens' = tokens - 1 /\ UNCHANGED cur
      BY <2>6 DEF WaitToken
    <3>2. OrderInv' /\ TokenInv'
      BY <2>1, <3>1 DEF IInv, OrderInv, TokenInv, Holding, Started
    <3>3. tokens' \in Nat
      BY <3>1 DEF IInv, TypeOK
    <3>4. TypeOK'
      BY <2>1, <2>2, <3>1, <3>3 DEF IInv, TypeOK
    <3> QED BY <2>3, <3>2, <3>4 DEF IInv
  <2>7. CASE WindowFull \/ WaitDequeue \/ Dequeued \/ QueueDone \/ WaitEnqueue \/ Enqueued
    <3>1. /\ UNCHANGED <<tokens, cur>>
          /\ \/ dpc \in Holding /\ dpc' \in {"waitDel", "dequeued", "token"}
             \/ dpc \in {"end", "waitEnq", "enqueued"} /\ dpc' \in {"waitEnq", "enqueued", "lock"}
      BY <2>7 DEF WindowFull, WaitDequeue, Dequeued, QueueDone, WaitEnqueue, Enqueued, Holding
    <3>2. OrderInv' /\ TokenInv'
      BY <2>1, <3>1 DEF IInv, OrderInv, TokenInv, Holding, Started
    <3>3. TypeOK'
      BY <2>1, <2>2, <3>1 DEF IInv, TypeOK
    <3> QED BY <2>3, <3>2, <3>3 DEF IInv
  <2> QED BY <1>2, <2>4, <2>5, <2>6, <2>7 DEF Dispatcher
<1> QED BY <1>1, <1>2
-----------------------------------------------------------------------------
(***************************************************************************)
(* sendWaitAndResend.                                                      *)
(***************************************************************************)
Between == {"wait", "check", "hold", "resend", "pass", "suc", "del", "exit"}

(* An element with a thread is a place of enq, and is linked while it runs. *)
LEMMA StartedFacts ==
    ASSUME IInv, NEW e \in Elements, Started(e)
    PROVE  /\ e \in DOMAIN enq
           /\ enq[e] \in 0..MaxPackets - 1
           /\ spc[e] # "ended" => status[e] = "START"
<1>1. status[e] \notin {"NONE", "READY"}
  BY DEF IInv, ElementInv
<1>2. ~(e > Len(enq))
  BY <1>1 DEF IInv, ElementInv
<1>3. enq \in Seq(0..MaxPackets - 1)
  BY DEF IInv, TypeOK
<1>4. e \in DOMAIN enq
  BY <1>2, <1>3, ConstantsAssumption DEF Elements
<1>5. spc[e] # "ended" => status[e] = "START"
  BY <1>1 DEF IInv, ElementInv, TypeOK
<1>6. enq[e] \in 0..MaxPackets - 1
  <2> DEFINE S == 0..MaxPackets - 1
  <2>1. enq \in Seq(S)
    BY <1>3
  <2> HIDE DEF S
  <2>2. enq[e] \in S
    BY <1>4, <2>1
  <2> QED BY <2>2 DEF S
<1> QED BY <1>4, <1>5, <1>6

(* A step of a running thread between its first sendto and its end keeps    *)
(* the order and the token.                                                 *)
LEMMA BetweenKeepsOrder ==
    ASSUME IInv, NEW e \in Elements, NEW q \in Between, spc[e] \in Between,
           spc' = [spc EXCEPT ![e] = q],
           UNCHANGED <<cpc, num, seqNo, enq, status, dpc, cur, tokens, sent>>
    PROVE  NumberInv' /\ ElementInv' /\ OrderInv' /\ TokenInv' /\ SentInv'
<1>1. \A f \in Elements : spc'[f] = IF f = e THEN q ELSE spc[f]
  BY DEF IInv, TypeOK
<1>2. \A f \in Elements : /\ Started(f)' <=> Started(f)
                          /\ spc'[f] = "first" <=> spc[f] = "first"
                          /\ spc'[f] = "none" <=> spc[f] = "none"
                          /\ spc'[f] = "ended" <=> spc[f] = "ended"
  BY <1>1 DEF Started, Between
<1>3. NumberInv'
  BY DEF IInv, NumberInv
<1>4. ElementInv'
  BY <1>2 DEF IInv, ElementInv
<1>5. OrderInv'
  BY <1>2 DEF IInv, OrderInv, Holding
<1>6. TokenInv'
  BY <1>2 DEF IInv, TokenInv
<1>7. SentInv'
  BY <1>2 DEF IInv, SentInv
<1> QED BY <1>3, <1>4, <1>5, <1>6, <1>7

(* What a sendto does at the next hop: the expected number never falls, and *)
(* an ACK is for a number below it.                                         *)
LEMMA TransmitKeepsHop ==
    ASSUME IInv, NEW n \in 0..MaxPackets - 1, NEW arrives \in BOOLEAN, Transmit(n, arrives)
    PROVE  /\ expectedSeq' \in 0..MaxPackets
           /\ expectedSeq <= expectedSeq'
           /\ acks' \subseteq 0..MaxPackets - 1
           /\ \A a \in acks' : a < expectedSeq'
<1>1. expectedSeq \in 0..MaxPackets /\ acks \subseteq 0..MaxPackets - 1 /\ \A a \in acks : a < expectedSeq
  BY DEF IInv, TypeOK, AckInv
<1>2. expectedSeq' = IF arrives /\ n = expectedSeq THEN n + 1 ELSE expectedSeq
  BY DEF Transmit
<1>3. acks' = IF arrives /\ n <= expectedSeq THEN acks \cup {n} ELSE acks
  BY DEF Transmit
<1>4. expectedSeq' \in 0..MaxPackets /\ expectedSeq <= expectedSeq'
  BY <1>1, <1>2, ConstantsAssumption
<1>5. acks' \subseteq 0..MaxPackets - 1
  BY <1>1, <1>3
<1>6. ASSUME NEW a \in acks' PROVE a < expectedSeq'
  <2>1. CASE a \in acks
    BY <1>1, <1>4, <2>1, ConstantsAssumption
  <2>2. CASE a \notin acks
    <3>1. a = n /\ arrives /\ n <= expectedSeq
      BY <1>3, <1>6, <2>2
    <3> QED BY <1>1, <1>2, <3>1, ConstantsAssumption
  <2> QED BY <2>1, <2>2
<1> QED BY <1>4, <1>5, <1>6

(* AckInv survives when the expected number does not fall and no thread     *)
(* joins those that have seen their ACK.                                    *)
LEMMA AckInvKept ==
    ASSUME IInv, UNCHANGED enq, TypeOK',
           expectedSeq <= expectedSeq', \A a \in acks' : a < expectedSeq',
           \A f \in Elements : (Started(f)' <=> Started(f)),
           \A f \in Elements :
               sigEnd'[f] \/ spc'[f] \in {"suc", "del", "exit", "ended"} =>
               sigEnd[f] \/ spc[f] \in {"suc", "del", "exit", "ended"},
           \A f \in Elements : sigEnd'[f] => sigEnd[f]
    PROVE  AckInv'
<1>1. ASSUME NEW f \in Elements, sigEnd'[f] \/ spc'[f] \in {"suc", "del", "exit", "ended"}
      PROVE  enq'[f] < expectedSeq'
  <2>1. enq[f] < expectedSeq /\ Started(f)
    BY <1>1 DEF IInv, AckInv, Started
  <2>2. enq[f] \in 0..MaxPackets - 1
    BY <2>1, StartedFacts
  <2>3. expectedSeq \in Int /\ expectedSeq' \in Int
    BY DEF IInv, TypeOK
  <2> QED BY <2>1, <2>2, <2>3
<1> QED BY <1>1 DEF IInv, AckInv

LEMMA SendFirstKeepsIInv ==
    ASSUME IInv, NEW e \in Elements, NEW arrives \in BOOLEAN, SendFirst(e, arrives)
    PROVE  IInv'
<1>1. /\ spc[e] = "first"
      /\ Transmit(enq[e], arrives)
      /\ sent' = Append(sent, e)
      /\ tokens' = tokens + 1
      /\ spc' = [spc EXCEPT ![e] = "wait"]
      /\ UNCHANGED <<cpc, num, seqNo, enq, status, dpc, cur, waitingEnqueueSig, waitingDequeueSig,
                     signals, xpc, xsignal, sigSuc, sigResend, sigEnd, timeouts>>
  BY DEF SendFirst, callerVars, queueVars, dispatcherVars, delVars
<1>2. e \in DOMAIN enq /\ enq[e] \in 0..MaxPackets - 1
  BY <1>1, StartedFacts DEF Started
<1>3. /\ expectedSeq' \in 0..MaxPackets
      /\ expectedSeq <= expectedSeq'
      /\ acks' \subseteq 0..MaxPackets - 1
      /\ \A a \in acks' : a < expectedSeq'
  BY <1>1, <1>2, TransmitKeepsHop
<1>4. \A f \in Elements : spc'[f] = IF f = e THEN "wait" ELSE spc[f]
  BY <1>1 DEF IInv, TypeOK
<1>5. tokens = 0 /\ dpc \notin {"none", "start", "create"}
  BY <1>1 DEF IInv, TokenInv, Started
<1>6. \A f \in Elements : Started(f)' <=> Started(f)
  BY <1>1, <1>4 DEF Started
<1>7. Len(sent) \in Nat /\ e = Len(sent) + 1
  <2>1. e \in Nat /\ e >= 1 /\ e <= MaxPackets /\ sent \in Seq(Elements) /\ Len(sent) \in Nat
    BY ElementsAreNat DEF Elements, IInv, TypeOK
  <2>2. ~(e <= Len(sent))
    BY <1>1 DEF IInv, SentInv
  <2>3. ASSUME e # 1 PROVE e - 1 <= Len(sent)
    <3>1. e - 1 \in Elements /\ e - 1 < e
      BY <2>1, <2>3, ConstantsAssumption DEF Elements
    <3>2. Started(e - 1)
      BY <1>1, <3>1 DEF IInv, OrderInv, Started
    <3>3. spc[e - 1] # "first"
      BY <1>1, <2>1, <3>1 DEF IInv, TokenInv
    <3> QED BY <3>1, <3>2, <3>3 DEF IInv, SentInv, Started
  <2> QED BY <2>1, <2>2, <2>3
<1>8. /\ sent' \in Seq(Elements)
      /\ Len(sent') = Len(sent) + 1
      /\ \A k \in DOMAIN sent' : sent'[k] = IF k = Len(sent) + 1 THEN e ELSE sent[k]
      /\ \A k \in DOMAIN sent' : k # Len(sent) + 1 => k \in DOMAIN sent
  BY <1>1, <1>7 DEF IInv, TypeOK
<1>9. TypeOK'
  BY <1>1, <1>3, <1>5, <1>8 DEF IInv, TypeOK
<1>10. NumberInv' /\ ElementInv' /\ OrderInv'
  BY <1>1, <1>4, <1>6 DEF IInv, NumberInv, ElementInv, OrderInv, Holding
<1>11. TokenInv'
  BY <1>1, <1>4, <1>5, <1>6 DEF IInv, TokenInv
<1>12. SentInv'
  <2>1. ASSUME NEW f \in Elements PROVE f <= Len(sent') <=> spc'[f] \notin {"none", "first"}
    <3>1. f \in Nat
      BY ElementsAreNat
    <3> QED BY <1>4, <1>7, <1>8, <3>1 DEF IInv, SentInv
  <2> QED BY <1>7, <1>8, <2>1 DEF IInv, SentInv
<1>13. AckInv'
  BY <1>1, <1>3, <1>4, <1>6, <1>9, AckInvKept
<1> QED BY <1>9, <1>10, <1>11, <1>12, <1>13 DEF IInv

LEMMA ResendKeepsIInv ==
    ASSUME IInv, NEW e \in Elements, NEW arrives \in BOOLEAN, Resend(e, arrives)
    PROVE  IInv'
<1>1. /\ spc[e] = "resend"
      /\ Transmit(enq[e], arrives)
      /\ spc' = [spc EXCEPT ![e] = "pass"]
      /\ UNCHANGED <<cpc, num, seqNo, enq, status, dpc, cur, waitingEnqueueSig, waitingDequeueSig,
                     signals, tokens, xpc, xsignal, sigSuc, sigResend, sigEnd, timeouts, sent>>
  BY DEF Resend, callerVars, queueVars, dispatcherVars, delVars
<1>2. enq[e] \in 0..MaxPackets - 1
  BY <1>1, StartedFacts DEF Started
<1>3. /\ expectedSeq' \in 0..MaxPackets
      /\ expectedSeq <= expectedSeq'
      /\ acks' \subseteq 0..MaxPackets - 1
      /\ \A a \in acks' : a < expectedSeq'
  BY <1>1, <1>2, TransmitKeepsHop
<1>4. \A f \in Elements : spc'[f] = IF f = e THEN "pass" ELSE spc[f]
  BY <1>1 DEF IInv, TypeOK
<1>5. NumberInv' /\ ElementInv' /\ OrderInv' /\ TokenInv' /\ SentInv'
  BY <1>1, BetweenKeepsOrder DEF Between
<1>6. TypeOK'
  BY <1>1, <1>3 DEF IInv, TypeOK
<1>7. \A f \in Elements : Started(f)' <=> Started(f)
  BY <1>1, <1>4 DEF Started
<1>8. AckInv'
  BY <1>1, <1>3, <1>4, <1>6, <1>7, AckInvKept
<1> QED BY <1>5, <1>6, <1>8 DEF IInv

(* The steps that only wait or signal: of a thread that has not seen its ACK. *)
LEMMA WaitingKeepsIInv ==
    ASSUME IInv, NEW e \in Elements,
           WaitResend(e) \/ Timeout(e) \/ CheckPredecessor(e) \/ Hold(e) \/ PassOn(e)
    PROVE  IInv'
<1> DEFINE Open == {"wait", "check", "hold", "resend", "pass"}
<1>1. /\ spc[e] \in Open
      /\ \E q \in Open : spc' = [spc EXCEPT ![e] = q]
      /\ UNCHANGED <<cpc, num, seqNo, enq, status, dpc, cur, waitingEnqueueSig, waitingDequeueSig,
                     signals, tokens, xpc, xsignal, sigEnd, sent, expectedSeq, acks>>
  BY DEF WaitResend, Timeout, CheckPredecessor, Hold, PassOn, callerVars, queueVars,
         dispatcherVars, delVars, hopVars
<1>2. PICK q \in Open : spc' = [spc EXCEPT ![e] = q]
  BY <1>1
<1>3. \A f \in Elements : spc'[f] = IF f = e THEN q ELSE spc[f]
  BY <1>2 DEF IInv, TypeOK
<1>4. NumberInv' /\ ElementInv' /\ OrderInv' /\ TokenInv' /\ SentInv'
  BY <1>1, <1>2, BetweenKeepsOrder DEF Between
<1>5. sigSuc' \in [Elements -> Nat]
  <2>1. sigSuc' = sigSuc \/ (sigSuc[e] > 0 /\ sigSuc' = [sigSuc EXCEPT ![e] = @ - 1])
    BY DEF WaitResend, Timeout, CheckPredecessor, Hold, PassOn
  <2>2. sigSuc \in [Elements -> Nat]
    BY DEF IInv, TypeOK
  <2>3. sigSuc[e] > 0 => sigSuc[e] - 1 \in Nat
    BY <2>2
  <2> QED BY <2>1, <2>2, <2>3
<1>6. sigResend' \in [Elements -> Nat]
  <2>1. CASE PassOn(e)
    <3>1. sigResend' = sigResend \/ sigResend' = [sigResend EXCEPT ![Successor(e)] = @ + 1]
      BY <2>1 DEF PassOn
    <3>2. sigResend \in [Elements -> Nat]
      BY DEF IInv, TypeOK
    <3> HIDE DEF Successor
    <3>3. \A f \in Elements : sigResend[f] + 1 \in Nat
      BY <3>2
    <3> QED BY <3>1, <3>2, <3>3
  <2>2. CASE WaitResend(e) \/ Timeout(e) \/ CheckPredecessor(e) \/ Hold(e)
    BY <2>2 DEF WaitResend, Timeout, CheckPredecessor, Hold, IInv, TypeOK
  <2> QED BY <2>1, <2>2
<1>7. timeouts' \in 0..MaxTimeouts
  BY ConstantsAssumption DEF WaitResend, Timeout, CheckPredecessor, Hold, PassOn, IInv, TypeOK
<1>8. TypeOK'
  BY <1>1, <1>2, <1>5, <1>6, <1>7, ZenonT(60) DEF IInv, TypeOK
<1>9. \A f \in Elements : Started(f)' <=> Started(f)
  BY <1>1, <1>3 DEF Started
<1>10. expectedSeq <= expectedSeq' /\ \A a \in acks' : a < expectedSeq'
  BY <1>1, ConstantsAssumption DEF IInv, TypeOK, AckInv
<1>11. AckInv'
  BY <1>1, <1>3, <1>8, <1>9, <1>10, AckInvKept
<1> QED BY <1>4, <1>8, <1>11 DEF IInv

(* The steps of a thread that has seen its ACK, up to the last. *)
LEMMA LeavingKeepsIInv ==
    ASSUME IInv, NEW e \in Elements, WaitEnd(e) \/ Succeed(e) \/ AskDelete(e)
    PROVE  IInv'
<1>1. /\ (spc[e] = "wait" /\ sigEnd[e]) \/ spc[e] \in {"suc", "del"}
      /\ \E q \in {"suc", "del", "exit"} : spc' = [spc EXCEPT ![e] = q]
      /\ sigEnd' = sigEnd \/ sigEnd' = [sigEnd EXCEPT ![e] = FALSE]
      /\ UNCHANGED <<cpc, num, seqNo, enq, status, dpc, cur, waitingEnqueueSig, waitingDequeueSig,
                     signals, tokens, xpc, sigResend, timeouts, sent, expectedSeq, acks>>
  BY DEF WaitEnd, Succeed, AskDelete, callerVars, queueVars, dispatcherVars, delVars, hopVars
<1>2. PICK q \in {"suc", "del", "exit"} : spc' = [spc EXCEPT ![e] = q]
  BY <1>1
<1>3. \A f \in Elements : spc'[f] = IF f = e THEN q ELSE spc[f]
  BY <1>2 DEF IInv, TypeOK
<1>4. NumberInv' /\ ElementInv' /\ OrderInv' /\ TokenInv' /\ SentInv'
  BY <1>1, <1>2, BetweenKeepsOrder DEF Between
<1>5. sigSuc' \in [Elements -> Nat]
  <2>1. sigSuc' = sigSuc \/ sigSuc' = [sigSuc EXCEPT ![Successor(e)] = @ + 1]
    BY DEF WaitEnd, Succeed, AskDelete
  <2>2. sigSuc \in [Elements -> Nat]
    BY DEF IInv, TypeOK
  <2> HIDE DEF Successor
  <2>3. \A f \in Elements : sigSuc[f] + 1 \in Nat
    BY <2>2
  <2> QED BY <2>1, <2>2, <2>3
<1>6. xsignal' \in BOOLEAN
  BY DEF WaitEnd, Succeed, AskDelete, delVars, IInv, TypeOK
<1>7. sigEnd' \in [Elements -> BOOLEAN] /\ \A f \in Elements : sigEnd'[f] => sigEnd[f]
  BY <1>1 DEF IInv, TypeOK
<1>8. TypeOK'
  BY <1>1, <1>2, <1>5, <1>6, <1>7 DEF IInv, TypeOK
<1>9. \A f \in Elements : Started(f)' <=> Started(f)
  BY <1>1, <1>3 DEF Started
<1>10. expectedSeq <= expectedSeq' /\ \A a \in acks' : a < expectedSeq'
  BY <1>1, ConstantsAssumption DEF IInv, TypeOK, AckInv
<1>11. \A f \in Elements :
           sigEnd'[f] \/ spc'[f] \in {"suc", "del", "exit", "ended"} =>
           sigEnd[f] \/ spc[f] \in {"suc", "del", "exit", "ended"}
  BY <1>1, <1>3, <1>7
<1>12. AckInv'
  BY <1>1, <1>7, <1>8, <1>9, <1>10, <1>11, AckInvKept
<1> QED BY <1>4, <1>8, <1>12 DEF IInv

LEMMA ExitKeepsIInv ==
    ASSUME IInv, NEW e \in Elements, Exit(e)
    PROVE  IInv'
<1>1. /\ spc[e] = "exit"
      /\ status' = [status EXCEPT ![e] = "EXIT"]
      /\ spc' = [spc EXCEPT ![e] = "ended"]
      /\ sigSuc' = [sigSuc EXCEPT ![e] = 0]
      /\ sigResend' = [sigResend EXCEPT ![e] = 0]
      /\ sigEnd' = [sigEnd EXCEPT ![e] = FALSE]
      /\ UNCHANGED <<cpc, num, seqNo, enq, dpc, cur, waitingEnqueueSig, waitingDequeueSig,
                     signals, tokens, xpc, xsignal, timeouts, sent, expectedSeq, acks>>
  BY DEF Exit, callerVars, dispatcherVars, delVars, hopVars
<1>2. \A f \in Elements : /\ spc'[f] = IF f = e THEN "ended" ELSE spc[f]
                          /\ status'[f] = IF f = e THEN "EXIT" ELSE status[f]
  BY <1>1 DEF IInv, TypeOK
<1>3. status[e] = "START"
  BY <1>1, StartedFacts DEF Started
<1>4. \A f \in Elements : Started(f)' <=> Started(f)
  BY <1>1, <1>2 DEF Started
<1>5. TypeOK'
  BY <1>1 DEF IInv, TypeOK
<1>6. NumberInv' /\ TokenInv' /\ SentInv'
  BY <1>1, <1>2, <1>4 DEF IInv, NumberInv, TokenInv, SentInv
<1>7. ElementInv'
  BY <1>1, <1>2, <1>3, <1>4 DEF IInv, ElementInv
<1>8. OrderInv'
  BY <1>1, <1>2, <1>3, <1>4 DEF IInv, OrderInv, Holding
<1>9. \A f \in Elements : sigEnd'[f] => sigEnd[f]
  BY <1>1 DEF IInv, TypeOK
<1>10. expectedSeq <= expectedSeq' /\ \A a \in acks' : a < expectedSeq'
  BY <1>1, ConstantsAssumption DEF IInv, TypeOK, AckInv
<1>11. AckInv'
  BY <1>1, <1>2, <1>4, <1>5, <1>9, <1>10, AckInvKept
<1> QED BY <1>5, <1>6, <1>7, <1>8, <1>11 DEF IInv

LEMMA SenderKeepsIInv ==
    ASSUME IInv, NEW e \in Elements, Sender(e)
    PROVE  IInv'
BY SendFirstKeepsIInv, ResendKeepsIInv, WaitingKeepsIInv, LeavingKeepsIInv, ExitKeepsIInv
   DEF Sender
-----------------------------------------------------------------------------
(***************************************************************************)
(* delPacketFromQueue and recvACKorNACK.                                   *)
(***************************************************************************)
LEMMA DeleterKeepsIInv ==
    ASSUME IInv, Deleter
    PROVE  IInv'
<1>1. UNCHANGED <<cpc, num, seqNo, enq, dpc, cur, waitingEnqueueSig, waitingDequeueSig, tokens,
                  spc, sigSuc, sigResend, sigEnd, timeouts, sent, expectedSeq, acks>>
  BY DEF Deleter, WaitDelQueue, DelPackets, TellDispatcher, callerVars, queueVars,
         dispatcherVars, senderVars, hopVars
<1>2. xpc' \in {"wait", "lock", "signal"} /\ xsignal' \in BOOLEAN
      /\ signals' \subseteq {"ENQUEUE", "DEL_QUEUE"}
  BY DEF Deleter, WaitDelQueue, DelPackets, TellDispatcher, IInv, TypeOK
<1>3. /\ status' \in [Elements -> {"NONE", "READY", "START", "EXIT", "FREED"}]
      /\ \A f \in Elements : status'[f] = status[f] \/ (status[f] = "EXIT" /\ status'[f] = "FREED")
  <2>1. CASE WaitDelQueue \/ TellDispatcher
    <3>1. status' = status
      BY <2>1 DEF WaitDelQueue, TellDispatcher, queueVars
    <3> QED BY <3>1 DEF IInv, TypeOK
  <2>2. CASE DelPackets
    <3>1. status' = [e \in Elements |->
                       IF status[e] = "EXIT" /\ \A f \in Before(e) : status[f] # "READY"
                       THEN "FREED" ELSE status[e]]
      BY <2>2 DEF DelPackets
    <3> QED BY <3>1 DEF IInv, TypeOK
  <2> QED BY <2>1, <2>2 DEF Deleter
<1>4. TypeOK'
  BY <1>1, <1>2, <1>3 DEF IInv, TypeOK
<1>5. NumberInv' /\ TokenInv' /\ SentInv' /\ AckInv'
  BY <1>1 DEF IInv, NumberInv, TokenInv, SentInv, AckInv, Started
<1>6. ElementInv'
  BY <1>1, <1>3 DEF IInv, ElementInv, Started
<1>7. OrderInv'
  BY <1>1, <1>3 DEF IInv, OrderInv, Started, Holding
<1> QED BY <1>4, <1>5, <1>6, <1>7 DEF IInv

LEMMA RecvACKKeepsIInv ==
    ASSUME IInv, NEW n \in acks, RecvACK(n)
    PROVE  IInv'
<1> DEFINE found == {e \in Searched : enq[e] = n /\ status[e] = "START"}
<1>1. /\ acks' = acks \ {n}
      /\ sigEnd' = IF found = {} THEN sigEnd ELSE [sigEnd EXCEPT ![Min(found)] = TRUE]
      /\ UNCHANGED <<cpc, num, seqNo, enq, status, dpc, cur, waitingEnqueueSig, waitingDequeueSig,
                     signals, tokens, xpc, xsignal, spc, sigSuc, sigResend, timeouts, sent,
                     expectedSeq>>
  BY DEF RecvACK, callerVars, queueVars, dispatcherVars, delVars
<1>2. found \in SUBSET Elements
  BY DEF Searched, InQueue
<1>3. \A f \in Elements : sigEnd'[f] => sigEnd[f] \/ (enq[f] = n /\ status[f] = "START")
  <2>1. CASE found = {}
    BY <1>1, <2>1
  <2>2. CASE found # {}
    <3>1. Min(found) \in found
      <4> HIDE DEF found
      <4> QED BY <1>2, <2>2, MinOfElements
    <3> QED BY <1>1, <2>2, <3>1 DEF IInv, TypeOK
  <2> QED BY <2>1, <2>2
<1>4. TypeOK'
  <2>1. sigEnd' \in [Elements -> BOOLEAN]
    <3> HIDE DEF found
    <3> QED BY <1>1 DEF IInv, TypeOK
  <2> HIDE DEF found
  <2> QED BY <1>1, <2>1 DEF IInv, TypeOK
<1>5. NumberInv' /\ ElementInv' /\ OrderInv' /\ TokenInv' /\ SentInv'
  BY <1>1 DEF IInv, NumberInv, ElementInv, OrderInv, TokenInv, SentInv, Started, Holding
<1>6. AckInv'
  <2>1. n < expectedSeq
    BY DEF IInv, AckInv
  <2>2. \A f \in Elements : sigEnd'[f] => Started(f) /\ (sigEnd[f] \/ enq[f] < expectedSeq)
    BY <1>3, <2>1 DEF IInv, AckInv, ElementInv
  <2> QED BY <1>1, <2>2 DEF IInv, AckInv, Started
<1> QED BY <1>4, <1>5, <1>6 DEF IInv
-----------------------------------------------------------------------------
(* IInv is an invariant: UnicastPacket's callers, the dispatcher, the sender *)
(* threads, delPacketFromQueue and recvACKorNACK all keep it.               *)
THEOREM AlwaysIInv == Spec => []IInv
<1>1. Init => IInv
  BY InitIInv
<1>2. IInv /\ [Next]_vars => IInv'
  <2> SUFFICES ASSUME IInv, [Next]_vars PROVE IInv'
    OBVIOUS
  <2>1. CASE Next
    BY <2>1, CallerKeepsIInv, DispatcherKeepsIInv, SenderKeepsIInv, DeleterKeepsIInv,
       RecvACKKeepsIInv DEF Next
  <2>2. CASE UNCHANGED vars
    BY <2>2 DEF vars, callerVars, queueVars, dispatcherVars, delVars, senderVars, hopVars, IInv,
                TypeOK, NumberInv, ElementInv, OrderInv, TokenInv, SentInv, AckInv, Started,
                Holding, Elements
  <2> QED BY <2>1, <2>2
<1> QED BY <1>1, <1>2, PTL DEF Spec

(* The variables of the queue, its dispatcher, its sender, delete and ACK   *)
(* threads keep their types: the sequence numbers handed out and expected   *)
(* stay in range, and no more is enqueued than numbers were taken.          *)
THEOREM TypeCorrect == Spec => []TypeOK
BY AlwaysIInv, PTL DEF IInv

(* delPacketFromQueue never frees an element that UnicastWithARQ still has  *)
(* in q_cur, though it waits there without queueMutex, or that a            *)
(* sendWaitAndResend thread will still access.                              *)
THEOREM NoElementUsedAfterFree == Spec => []NoUseAfterFree
<1>1. ASSUME IInv PROVE NoUseAfterFree
  <2>1. dpc \in {"full", "waitDel", "dequeued", "token", "create"} => status[cur] = "READY"
    BY <1>1 DEF IInv, OrderInv, Holding
  <2>2. ASSUME NEW e \in Elements, spc[e] \notin {"none", "ended"} PROVE e \in InQueue
    BY <1>1, <2>2, StartedFacts DEF InQueue, Started
  <2> QED BY <2>1, <2>2 DEF NoUseAfterFree
<1> QED BY <1>1, AlwaysIInv, PTL

(* SIGNAL_SEND_ONE_PACKET, handed from the dispatcher to each sender thread *)
(* and back, makes the first sendto calls happen in queue order.            *)
THEOREM FirstTransmissionsInOrder == Spec => []FirstSentInOrder
BY AlwaysIInv, PTL DEF IInv, SentInv, FirstSentInOrder

(* delPacketFromQueue may stop at the first THREAD_READY element: there is  *)
(* nothing to delete behind it.                                             *)
THEOREM DeletionMayStop == Spec => []ReadyAtTail
<1>1. ASSUME IInv PROVE ReadyAtTail
  <2>1. ASSUME NEW e \in InQueue, NEW f \in InQueue, e < f, status[e] = "READY"
        PROVE  status[f] = "READY"
    <3>1. e \in Elements /\ f \in Elements /\ status[f] # "NONE"
      BY DEF InQueue
    <3>2. ~Started(e)
      BY <1>1, <2>1, <3>1 DEF IInv, ElementInv
    <3>3. ~Started(f)
      BY <1>1, <2>1, <3>1, <3>2 DEF IInv, OrderInv
    <3> QED BY <1>1, <3>1, <3>3 DEF IInv, ElementInv
  <2> QED BY <2>1 DEF ReadyAtTail
<1> QED BY <1>1, AlwaysIInv, PTL

(* A sendWaitAndResend thread leaves its loop, and its packet is freed, only *)
(* after the next hop took the packet, whatever signals its neighbours and  *)
(* whatever ACKs the network delivered late.                                *)
THEOREM EndedOnlyWhenTaken == Spec => []EndedIsTaken
<1>1. ASSUME IInv PROVE EndedIsTaken
  BY <1>1 DEF IInv, AckInv, ElementInv, EndedIsTaken
<1> QED BY <1>1, AlwaysIInv, PTL
=============================================================================
