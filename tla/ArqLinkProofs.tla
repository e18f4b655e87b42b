--------------------------- MODULE ArqLinkProofs ----------------------------
(***************************************************************************)
(* Proofs about ArqLink, for every number of hops and callers, every       *)
(* window, queue length and degree of reordering, as long as the sequence  *)
(* number has not come near the end of the u_short (NoWrap).               *)
(***************************************************************************)
EXTENDS ArqLink, FiniteSetTheorems, TLAPS

(* Removing an element of a sequence keeps all the others. *)
LEMMA WithoutFacts ==
    ASSUME NEW S, NEW s \in Seq(S), NEW i \in DOMAIN s
    PROVE  /\ Without(s, i) \in Seq(S)
           /\ \A j \in DOMAIN Without(s, i) : \E k \in DOMAIN s : Without(s, i)[j] = s[k]
           /\ \A k \in DOMAIN s \ {i} : \E j \in DOMAIN Without(s, i) : Without(s, i)[j] = s[k]
<1> DEFINE w == Without(s, i)
<1>1. Len(s) \in Nat /\ DOMAIN s = 1..Len(s) /\ \A k \in 1..Len(s) : s[k] \in S
  OBVIOUS
<1>2. Len(s) - 1 \in Nat
  BY <1>1
<1>3. w = [j \in 1..Len(s) - 1 |-> IF j < i THEN s[j] ELSE s[j + 1]]
  BY DEF Without
<1>4. DOMAIN w = 1..Len(s) - 1
  BY <1>3
<1>5. \A j \in DOMAIN w : w[j] \in S
  BY <1>1, <1>3, <1>4
<1>6. w \in Seq(S)
  BY <1>2, <1>3, <1>4, <1>5
<1>7. \A j \in DOMAIN w : \E k \in DOMAIN s : w[j] = s[k]
  <2> TAKE j \in DOMAIN w
  <2>1. CASE j < i
    BY <2>1, <1>1, <1>3, <1>4
  <2>2. CASE ~(j < i)
    <3> j + 1 \in DOMAIN s
      BY <1>1, <1>4
    <3> WITNESS j + 1 \in DOMAIN s
    <3> QED BY <2>2, <1>3, <1>4
  <2> QED BY <2>1, <2>2
<1>8. \A k \in DOMAIN s \ {i} : \E j \in DOMAIN w : w[j] = s[k]
  <2> TAKE k \in DOMAIN s \ {i}
  <2>1. CASE k < i
    <3> k \in DOMAIN w
      BY <2>1, <1>1, <1>4
    <3> WITNESS k \in DOMAIN w
    <3> QED BY <2>1, <1>3, <1>4
  <2>2. CASE ~(k < i)
    <3> k - 1 \in DOMAIN w /\ ~(k - 1 < i) /\ k - 1 + 1 = k
      BY <2>2, <1>1, <1>4
    <3> WITNESS k - 1 \in DOMAIN w
    <3> QED BY <1>3, <1>4
  <2> QED BY <2>1, <2>2
<1> QED BY <1>6, <1>7, <1>8

LEMMA ElementOfSeq ==
    ASSUME NEW S, NEW s \in Seq(S), NEW i \in DOMAIN s
    PROVE  s[i] \in S
  OBVIOUS

(* Before the wrap the number on the wire is the packet's place itself. *)
LEMMA SequenceNumberIsPlace ==
    ASSUME NoWrap, NEW n \in Nat, n < MaxIssued
    PROVE  SequenceNumber(n) = n /\ n \in SeqNos /\ n + 1 \in SeqNos /\ (n + 1) % SeqMod = n + 1
<1>1. n + 1 < SeqMod /\ SeqMod \in Nat \ {0}
  BY ConstantsAssumption DEF NoWrap, USHRT_MAX
<1>2. \A m \in Nat : m < SeqMod => m % SeqMod = m
  BY <1>1
<1> QED BY <1>1, <1>2 DEF SequenceNumber, SeqNos

(* Before the wrap neither correction of DiffSeq applies. *)
LEMMA DiffSeqIsDifference ==
    ASSUME NoWrap, NEW a \in 0..MaxIssued, NEW b \in 0..MaxIssued
    PROVE  DiffSeq(a, b) = a - b
  BY ConstantsAssumption DEF NoWrap, USHRT_MAX, DiffSeq
-----------------------------------------------------------------------------
LEMMA InitIInv == Init => IInv
<1> SUFFICES ASSUME Init PROVE IInv
  OBVIOUS
<1> USE ConstantsAssumption DEF Init, Hops, SeqNos
<1>1. TypeOK
  BY DEF TypeOK, PacketIds, Status
<1>2. Len(issued) <= MaxIssued
  OBVIOUS
<1>3. CallerInv /\ QueueInv /\ WireInv /\ HopInv /\ KeptInv
  BY DEF CallerInv, QueueInv, WireInv, HopInv, KeptInv, Numbered
<1> QED BY <1>1, <1>2, <1>3 DEF IInv
-----------------------------------------------------------------------------
(* What setting the status of one element leaves alone. *)
LEMMA SetStatus ==
    ASSUME TypeOK, NEW h \in Hops, NEW i \in DOMAIN queue[h], NEW s \in Status,
           queue' = [queue EXCEPT ![h][i].st = s]
    PROVE  /\ queue' \in [Hops -> Seq([no : Nat, st : Status])]
           /\ \A g \in Hops :
                 /\ DOMAIN queue'[g] = DOMAIN queue[g]
                 /\ \A j \in DOMAIN queue[g] :
                       /\ queue'[g][j].no = queue[g][j].no
                       /\ queue'[g][j].st = IF g = h /\ j = i THEN s ELSE queue[g][j].st
<1> DEFINE T == [no : Nat, st : Status]
           q == [queue[h] EXCEPT ![i] = [queue[h][i] EXCEPT !.st = s]]
<1>1. queue \in [Hops -> Seq(T)]
  BY DEF TypeOK
<1>2. queue[h] \in Seq(T) /\ queue[h][i] \in T
  <2> HIDE DEF T
  <2>1. queue[h] \in Seq(T)
    BY <1>1
  <2> QED BY <2>1, ElementOfSeq
<1>3. queue' = [queue EXCEPT ![h] = q]
  OBVIOUS
<1>4. [queue[h][i] EXCEPT !.st = s] \in T
  BY <1>2
<1>5. q \in Seq(T) /\ DOMAIN q = DOMAIN queue[h]
  BY <1>2, <1>4
<1>6. queue' \in [Hops -> Seq(T)]
  BY <1>1, <1>3, <1>5
<1>7. ASSUME NEW g \in Hops
      PROVE  /\ DOMAIN queue'[g] = DOMAIN queue[g]
             /\ \A j \in DOMAIN queue[g] :
                   /\ queue'[g][j].no = queue[g][j].no
                   /\ queue'[g][j].st = IF g = h /\ j = i THEN s ELSE queue[g][j].st
  <2>1. CASE g = h
    BY <2>1, <1>1, <1>2, <1>3, <1>5
  <2>2. CASE g # h
    BY <2>2, <1>1, <1>3
  <2> QED BY <2>1, <2>2
<1> QED BY <1>6, <1>7

LEMMA QueueElement ==
    ASSUME TypeOK, NEW h \in Hops, NEW i \in DOMAIN queue[h]
    PROVE  queue[h][i] \in [no : Nat, st : Status]
<1> DEFINE T == [no : Nat, st : Status]
<1>1. queue[h] \in Seq(T)
  BY DEF TypeOK
<1> HIDE DEF T
<1>2. queue[h][i] \in T
  BY <1>1, ElementOfSeq
<1> QED BY <1>2 DEF T

(* What is in flight to the hops after a sendto: what was, and perhaps the datagram. *)
LEMMA SendData ==
    ASSUME TypeOK, NEW h \in Hops, NEW m \in Nat, NEW arrives \in BOOLEAN,
           Transmit(data, h, m, arrives)
    PROVE  /\ data' \in [Hops -> Seq(Nat)]
           /\ \A g \in Hops : \A k \in DOMAIN data'[g] :
                 \/ g = h /\ data'[g][k] = m
                 \/ \E j \in DOMAIN data[g] : data'[g][k] = data[g][j]
<1>1. data \in [Hops -> Seq(Nat)]
  BY DEF TypeOK
<1>2. CASE arrives
  <2>1. data' = [data EXCEPT ![h] = Append(@, m)]
    BY <1>2 DEF Transmit
  <2>2. data' \in [Hops -> Seq(Nat)]
    BY <1>1, <2>1
  <2>3. ASSUME NEW g \in Hops, NEW k \in DOMAIN data'[g]
        PROVE  \/ g = h /\ data'[g][k] = m
               \/ \E j \in DOMAIN data[g] : data'[g][k] = data[g][j]
    BY <1>1, <2>1, <2>3
  <2> QED BY <2>2, <2>3
<1>3. CASE ~arrives
  <2>1. data' = data
    BY <1>3 DEF Transmit
  <2> QED BY <2>1, <1>1
<1> QED BY <1>2, <1>3

LEMMA SendAck ==
    ASSUME TypeOK, NEW h \in Hops, NEW m \in SeqNos, NEW arrives \in BOOLEAN,
           Transmit(acks, h, m, arrives)
    PROVE  /\ acks' \in [Hops -> Seq(SeqNos)]
           /\ \A g \in Hops : \A k \in DOMAIN acks'[g] :
                 \/ g = h /\ acks'[g][k] = m
                 \/ \E j \in DOMAIN acks[g] : acks'[g][k] = acks[g][j]
<1>1. acks \in [Hops -> Seq(SeqNos)]
  BY DEF TypeOK
<1>2. CASE arrives
  <2>1. acks' = [acks EXCEPT ![h] = Append(@, m)]
    BY <1>2 DEF Transmit
  <2>2. acks' \in [Hops -> Seq(SeqNos)]
    BY <1>1, <2>1
  <2>3. ASSUME NEW g \in Hops, NEW k \in DOMAIN acks'[g]
        PROVE  \/ g = h /\ acks'[g][k] = m
               \/ \E j \in DOMAIN acks[g] : acks'[g][k] = acks[g][j]
    BY <1>1, <2>1, <2>3
  <2> QED BY <2>2, <2>3
<1>3. CASE ~arrives
  <2>1. acks' = acks
    BY <1>3 DEF Transmit
  <2> QED BY <2>1, <1>1
<1> QED BY <1>2, <1>3
-----------------------------------------------------------------------------
(* The steps of sendPacketToNext that leave queue, wire and hops alone. *)
LEMMA CallerQuietStep ==
    ASSUME IInv, NEW c \in Callers, Begin(c) \/ CheckRoom(c)
    PROVE  IInv'
<1> USE ConstantsAssumption
<1>1. UNCHANGED <<num, issued, queue, data, acks, hopVars>>
  BY DEF Begin, CheckRoom
<1>2. /\ step[c] # "insert"
      /\ step' \in [Callers -> {"idle", "room", "number", "insert"}]
      /\ at' \in [Callers -> Hops]
      /\ made' \in [Callers -> 0..MaxPackets]
      /\ made'[c] \in 1..MaxPackets
      /\ step'[c] # "insert"
      /\ \A d \in Callers \ {c} : step'[d] = step[d] /\ at'[d] = at[d] /\ made'[d] = made[d]
  <2>1. /\ step \in [Callers -> {"idle", "room", "number", "insert"}]
        /\ at \in [Callers -> 1..NumHops]
        /\ made \in [Callers -> 0..MaxPackets]
    BY DEF IInv, TypeOK, Hops
  <2>2. CASE Begin(c)
    BY <2>1, <2>2 DEF Begin, Hops
  <2>3. CASE CheckRoom(c)
    <3>1. made[c] \in 1..MaxPackets /\ made' = made
      BY <2>3 DEF IInv, CallerInv, CheckRoom
    <3>2. /\ step[c] = "room"
          /\ \/ step' = [step EXCEPT ![c] = "number"]
             \/ step' = [step EXCEPT ![c] = "room"]
             \/ step' = [step EXCEPT ![c] = "idle"]
          /\ at' = at \/ (at[c] < NumHops /\ at' = [at EXCEPT ![c] = @ + 1])
      BY <2>3 DEF CheckRoom, Advance
    <3>3. at' \in [Callers -> 1..NumHops] /\ \A d \in Callers \ {c} : at'[d] = at[d]
      BY <2>1, <3>2
    <3> QED BY <2>1, <3>1, <3>2, <3>3 DEF Hops
  <2> QED BY <2>2, <2>3
<1>3. TypeOK'
  BY <1>1, <1>2 DEF IInv, TypeOK, hopVars
<1>4. CallerInv'
  BY <1>1, <1>2 DEF IInv, CallerInv, Numbered
<1>5. QueueInv' /\ WireInv' /\ HopInv' /\ (Len(issued) <= MaxIssued)'
  BY <1>1 DEF IInv, QueueInv, WireInv, HopInv, Numbered, hopVars
<1>6. KeptInv'
  BY <1>1, <1>2, ZenonT(60) DEF IInv, KeptInv, OnItsWay, InQueue, Numbered, hopVars
<1> QED BY <1>3, <1>4, <1>5, <1>6 DEF IInv

LEMMA TakeNumberStep ==
    ASSUME IInv, NEW c \in Callers, TakeNumber(c)
    PROVE  IInv'
<1> USE ConstantsAssumption
<1> DEFINE e == [hop |-> at[c], pkt |-> <<c, made[c]>>]
<1>1. /\ issued' = Append(issued, e)
      /\ num' = [num EXCEPT ![c] = Len(issued)]
      /\ step' = [step EXCEPT ![c] = "insert"]
      /\ step[c] = "number"
      /\ Len(issued) < MaxIssued
      /\ UNCHANGED <<made, at, queue, data, acks, hopVars>>
  BY DEF TakeNumber
<1>2. /\ issued \in Seq([hop : Hops, pkt : PacketIds])
      /\ e \in [hop : Hops, pkt : PacketIds]
      /\ num \in [Callers -> Nat]
      /\ step \in [Callers -> {"idle", "room", "number", "insert"}]
  BY <1>1 DEF IInv, TypeOK, CallerInv, PacketIds
<1>3. /\ issued' \in Seq([hop : Hops, pkt : PacketIds])
      /\ Len(issued') = Len(issued) + 1
      /\ Len(issued) \in Nat
      /\ DOMAIN issued = 1..Len(issued) /\ DOMAIN issued' = 1..Len(issued) + 1
      /\ \A k \in DOMAIN issued : issued'[k] = issued[k]
      /\ issued'[Len(issued) + 1] = e
  BY <1>1, <1>2
<1>4. TypeOK'
  BY <1>1, <1>2, <1>3 DEF IInv, TypeOK, hopVars
<1>5. \A h \in Hops, n \in Nat : Numbered(h, n) => Numbered(h, n)'
  BY <1>3 DEF Numbered
<1>6. num'[c] = Len(issued) /\ Numbered(at[c], num[c])'
  BY <1>1, <1>2, <1>3 DEF Numbered
<1>7. CallerInv'
  <2> SUFFICES ASSUME NEW d \in Callers
               PROVE  /\ step'[d] # "idle" => made'[d] \in 1..MaxPackets
                      /\ step'[d] = "insert" => Numbered(at[d], num[d])'
    BY DEF CallerInv
  <2>1. CASE d = c
    BY <2>1, <1>1, <1>2, <1>6 DEF IInv, CallerInv, Numbered
  <2>2. CASE d # c
    <3>1. num'[d] = num[d] /\ at'[d] = at[d] /\ step'[d] = step[d] /\ made'[d] = made[d]
      BY <2>2, <1>1, <1>2
    <3>2. num[d] \in Nat /\ at[d] \in Hops
      BY DEF IInv, TypeOK
    <3> QED BY <3>1, <3>2, <1>3 DEF IInv, CallerInv, Numbered
  <2> QED BY <2>1, <2>2
<1>8. QueueInv'
  <2> SUFFICES ASSUME NEW h \in Hops, NEW i \in DOMAIN queue[h]
               PROVE  /\ Numbered(h, queue[h][i].no)'
                      /\ queue[h][i].st \in {"SENDEND", "EXIT"} => queue[h][i].no < expectedSeq[h]
    BY <1>1 DEF QueueInv, hopVars
  <2> QED BY <1>1, <1>3 DEF IInv, QueueInv, Numbered
<1>9. WireInv'
  BY <1>1, <1>3 DEF IInv, WireInv, Numbered, hopVars
<1>10. HopInv'
  BY <1>1, <1>3 DEF IInv, HopInv, Numbered, hopVars
<1>11. KeptInv'
  <2> SUFFICES ASSUME NEW h \in Hops, NEW n \in Nat, Numbered(h, n)'
               PROVE  (OnItsWay(h, n) \/ InQueue(h, n) \/ n < expectedSeq[h])'
    BY DEF KeptInv
  <2>1. CASE n = Len(issued)
    BY <2>1, <1>1, <1>2, <1>3 DEF OnItsWay, Numbered
  <2>2. CASE n # Len(issued)
    <3>1. Numbered(h, n)
      <4>1. n + 1 \in 1..Len(issued) + 1 /\ issued'[n + 1].hop = h
        BY <1>3 DEF Numbered
      <4>2. n + 1 \in DOMAIN issued
        <5> DEFINE L == Len(issued)
        <5>1. L \in Nat /\ DOMAIN issued = 1..L /\ n + 1 \in 1..L + 1 /\ n # L
          BY <4>1, <2>2, <1>3
        <5> HIDE DEF L
        <5> QED BY <5>1
      <4> QED BY <4>1, <4>2, <1>3 DEF Numbered
    <3>2. OnItsWay(h, n) => OnItsWay(h, n)'
      BY <1>1, <1>2 DEF OnItsWay
    <3>3. UNCHANGED <<queue, expectedSeq>>
      BY <1>1 DEF hopVars
    <3> QED BY <3>1, <3>2, <3>3 DEF IInv, KeptInv, InQueue
  <2> QED BY <2>1, <2>2
<1> QED BY <1>1, <1>3, <1>4, <1>7, <1>8, <1>9, <1>10, <1>11 DEF IInv

LEMMA InsertStep ==
    ASSUME IInv, NEW c \in Callers, Insert(c)
    PROVE  IInv'
<1> USE ConstantsAssumption
<1> DEFINE e == [no |-> num[c], st |-> "READY"]
           T == [no : Nat, st : Status]
           q == queue[at[c]]
<1>1. /\ step[c] = "insert"
      /\ queue' = [queue EXCEPT ![at[c]] = Append(q, e)]
      /\ UNCHANGED <<made, num, issued, data, acks, expectedSeq, delivered>>
  BY DEF Insert, hopVars
<1>2. /\ queue \in [Hops -> Seq(T)]
      /\ at \in [Callers -> Hops]
      /\ num \in [Callers -> Nat]
      /\ step \in [Callers -> {"idle", "room", "number", "insert"}]
  BY DEF IInv, TypeOK
<1>3. e \in T /\ q \in Seq(T) /\ at[c] \in Hops /\ num[c] \in Nat
  BY <1>2 DEF Status
<1>4. /\ Append(q, e) \in Seq(T)
      /\ DOMAIN Append(q, e) = DOMAIN q \cup {Len(q) + 1}
      /\ \A i \in DOMAIN q : Append(q, e)[i] = q[i]
      /\ Append(q, e)[Len(q) + 1] = e
  <2> HIDE DEF e, T, q
  <2> QED BY <1>3
<1>5. /\ step' \in [Callers -> {"idle", "room", "number", "insert"}]
      /\ at' \in [Callers -> Hops]
      /\ step'[c] # "insert"
      /\ \A d \in Callers \ {c} : step'[d] = step[d] /\ at'[d] = at[d]
  <2>1. /\ \/ step' = [step EXCEPT ![c] = "room"]
           \/ step' = [step EXCEPT ![c] = "idle"]
        /\ at' = at \/ (at[c] < NumHops /\ at' = [at EXCEPT ![c] = @ + 1])
    BY DEF Insert, Advance
  <2>2. at' \in [Callers -> Hops] /\ \A d \in Callers \ {c} : at'[d] = at[d]
    BY <1>2, <2>1 DEF Hops
  <2> QED BY <1>2, <2>1, <2>2
<1>6. queue' \in [Hops -> Seq(T)]
  BY <1>1, <1>2, <1>4
<1>7. TypeOK'
  BY <1>1, <1>5, <1>6 DEF IInv, TypeOK
<1>8. CallerInv'
  BY <1>1, <1>5 DEF IInv, CallerInv, Numbered
<1>9. QueueInv'
  <2> SUFFICES ASSUME NEW h \in Hops, NEW i \in DOMAIN queue'[h]
               PROVE  /\ Numbered(h, queue'[h][i].no)
                      /\ queue'[h][i].st \in {"SENDEND", "EXIT"} => queue'[h][i].no < expectedSeq[h]
    BY <1>1 DEF QueueInv, Numbered
  <2>1. CASE h # at[c]
    BY <2>1, <1>1, <1>2 DEF IInv, QueueInv
  <2>2. CASE h = at[c] /\ i \in DOMAIN q
    BY <2>2, <1>1, <1>2, <1>3, <1>4 DEF IInv, QueueInv
  <2>3. CASE h = at[c] /\ i = Len(q) + 1
    BY <2>3, <1>1, <1>2, <1>3, <1>4 DEF IInv, CallerInv
  <2> QED BY <2>1, <2>2, <2>3, <1>1, <1>2, <1>3, <1>4
<1>10. WireInv' /\ HopInv' /\ (Len(issued) <= MaxIssued)'
  BY <1>1 DEF IInv, WireInv, HopInv, Numbered
<1>11. KeptInv'
  <2> SUFFICES ASSUME NEW h \in Hops, NEW n \in Nat, Numbered(h, n)
               PROVE  OnItsWay(h, n)' \/ InQueue(h, n)' \/ n < expectedSeq[h]
    BY <1>1 DEF KeptInv, Numbered
  <2>1. CASE h = at[c] /\ n = num[c]
    <3>1. Len(q) + 1 \in DOMAIN queue'[h] /\ queue'[h][Len(q) + 1].no = n
      BY <2>1, <1>1, <1>2, <1>3, <1>4
    <3> QED BY <3>1 DEF InQueue
  <2>2. CASE OnItsWay(h, n) /\ ~(h = at[c] /\ n = num[c])
    BY <2>2, <1>1, <1>5 DEF OnItsWay
  <2>3. CASE InQueue(h, n)
    <3>1. PICK i \in DOMAIN queue[h] : queue[h][i].no = n
      BY <2>3 DEF InQueue
    <3>2. i \in DOMAIN queue'[h] /\ queue'[h][i] = queue[h][i]
      BY <1>1, <1>2, <1>3, <1>4
    <3> QED BY <3>1, <3>2 DEF InQueue
  <2> QED BY <2>1, <2>2, <2>3 DEF IInv, KeptInv
<1> QED BY <1>7, <1>8, <1>9, <1>10, <1>11 DEF IInv
-----------------------------------------------------------------------------
(***************************************************************************)
(* The steps of the sending side, each from what it does to the queue.     *)
(* KeepsQueue: the elements keep their numbers; one of them that is new to *)
(* {SENDEND, EXIT} has been delivered.                                     *)
(***************************************************************************)
LEMMA QueueStatusStep ==
    ASSUME IInv, NEW h \in Hops, NEW i \in DOMAIN queue[h], NEW s \in Status,
           queue' = [queue EXCEPT ![h][i].st = s],
           s \in {"SENDEND", "EXIT"} => queue[h][i].no < expectedSeq[h],
           UNCHANGED <<callerVars, hopVars>>
    PROVE  queue' \in [Hops -> Seq([no : Nat, st : Status])] /\ QueueInv' /\ KeptInv'
<1> USE SetStatus DEF callerVars, hopVars, IInv
<1>1. queue' \in [Hops -> Seq([no : Nat, st : Status])]
  OBVIOUS
<1>2. QueueInv'
  <2> SUFFICES ASSUME NEW g \in Hops, NEW j \in DOMAIN queue[g]
               PROVE  /\ Numbered(g, queue[g][j].no)
                      /\ queue'[g][j].st \in {"SENDEND", "EXIT"} => queue[g][j].no < expectedSeq[g]
    BY DEF QueueInv, Numbered
  <2> QED BY DEF QueueInv
<1>3. KeptInv'
  <2>1. ASSUME NEW g \in Hops, NEW n \in Nat, InQueue(g, n) PROVE InQueue(g, n)'
    BY <2>1 DEF InQueue
  <2> QED BY <2>1 DEF KeptInv, OnItsWay, Numbered
<1> QED BY <1>1, <1>2, <1>3

LEMMA StartSenderStep ==
    ASSUME IInv, NEW h \in Hops, NEW i \in DOMAIN queue[h], NEW arrives \in BOOLEAN,
           StartSender(h, i, arrives)
    PROVE  IInv'
<1> USE DEF callerVars, hopVars
<1>1. /\ queue' = [queue EXCEPT ![h][i].st = "START"]
      /\ Transmit(data, h, queue[h][i].no, arrives)
      /\ UNCHANGED <<callerVars, acks, hopVars>>
  BY DEF StartSender
<1>2. TypeOK /\ queue[h][i].no \in Nat
  BY QueueElement DEF IInv
<1>3. /\ queue' \in [Hops -> Seq([no : Nat, st : Status])]
      /\ QueueInv' /\ KeptInv'
  BY <1>1, QueueStatusStep DEF Status
<1>4. /\ data' \in [Hops -> Seq(Nat)]
      /\ \A g \in Hops : \A k \in DOMAIN data'[g] :
            \/ g = h /\ data'[g][k] = queue[h][i].no
            \/ \E j \in DOMAIN data[g] : data'[g][k] = data[g][j]
  BY <1>1, <1>2, SendData
<1>5. TypeOK'
  BY <1>1, <1>2, <1>3, <1>4 DEF TypeOK
<1>6. WireInv'
  <2>1. Numbered(h, queue[h][i].no)
    BY DEF IInv, QueueInv
  <2>2. ASSUME NEW g \in Hops, NEW k \in DOMAIN data'[g]
        PROVE  Numbered(g, data'[g][k])
    <3>1. CASE g = h /\ data'[g][k] = queue[h][i].no
      BY <3>1, <2>1
    <3>2. CASE \E j \in DOMAIN data[g] : data'[g][k] = data[g][j]
      BY <3>2 DEF IInv, WireInv
    <3> QED BY <3>1, <3>2, <1>4
  <2> QED BY <2>2, <1>1 DEF IInv, WireInv, Numbered
<1>7. CallerInv' /\ HopInv' /\ (Len(issued) <= MaxIssued)'
  BY <1>1 DEF IInv, CallerInv, HopInv, Numbered
<1> QED BY <1>3, <1>5, <1>6, <1>7 DEF IInv

LEMMA ResendStep ==
    ASSUME IInv, NEW h \in Hops, NEW i \in DOMAIN queue[h], NEW arrives \in BOOLEAN,
           Resend(h, i, arrives)
    PROVE  IInv'
<1> USE DEF callerVars, hopVars
<1>1. /\ Transmit(data, h, queue[h][i].no, arrives)
      /\ UNCHANGED <<callerVars, queue, acks, hopVars>>
  BY DEF Resend
<1>2. TypeOK /\ queue[h][i].no \in Nat
  BY QueueElement DEF IInv
<1>3. /\ data' \in [Hops -> Seq(Nat)]
      /\ \A g \in Hops : \A k \in DOMAIN data'[g] :
            \/ g = h /\ data'[g][k] = queue[h][i].no
            \/ \E j \in DOMAIN data[g] : data'[g][k] = data[g][j]
  BY <1>1, <1>2, SendData
<1>4. TypeOK'
  BY <1>1, <1>2, <1>3 DEF TypeOK
<1>5. WireInv'
  <2>1. Numbered(h, queue[h][i].no)
    BY DEF IInv, QueueInv
  <2>2. ASSUME NEW g \in Hops, NEW k \in DOMAIN data'[g]
        PROVE  Numbered(g, data'[g][k])
    <3>1. CASE g = h /\ data'[g][k] = queue[h][i].no
      BY <3>1, <2>1
    <3>2. CASE \E j \in DOMAIN data[g] : data'[g][k] = data[g][j]
      BY <3>2 DEF IInv, WireInv
    <3> QED BY <3>1, <3>2, <1>3
  <2> QED BY <2>2, <1>1 DEF IInv, WireInv, Numbered
<1>6. CallerInv' /\ QueueInv' /\ HopInv' /\ KeptInv' /\ (Len(issued) <= MaxIssued)'
  BY <1>1 DEF IInv, CallerInv, QueueInv, HopInv, KeptInv, OnItsWay, InQueue, Numbered
<1> QED BY <1>4, <1>5, <1>6 DEF IInv

LEMMA RecvACKStep ==
    ASSUME NoWrap, IInv, NEW h \in Hops, NEW k \in DOMAIN acks[h], RecvACK(h, k)
    PROVE  IInv'
<1> USE DEF callerVars, hopVars
<1>1. /\ acks' = [acks EXCEPT ![h] = Without(@, k)]
      /\ UNCHANGED <<callerVars, data, hopVars>>
      /\ \/ queue' = queue
         \/ \E i \in Matches(h, acks[h][k]) : queue' = [queue EXCEPT ![h][i].st = "SENDEND"]
  BY DEF RecvACK
<1>2. TypeOK /\ acks[h] \in Seq(SeqNos) /\ acks \in [Hops -> Seq(SeqNos)]
  BY DEF IInv, TypeOK
<1>3. /\ Without(acks[h], k) \in Seq(SeqNos)
      /\ \A j \in DOMAIN Without(acks[h], k) :
            \E l \in DOMAIN acks[h] : Without(acks[h], k)[j] = acks[h][l]
  BY <1>2, WithoutFacts
<1>4. acks' \in [Hops -> Seq(SeqNos)]
  BY <1>1, <1>2, <1>3
<1>5. WireInv'
  <2>1. ASSUME NEW g \in Hops, NEW j \in DOMAIN acks'[g]
        PROVE  acks'[g][j] < expectedSeq[g]
    <3>1. \E l \in DOMAIN acks[g] : acks'[g][j] = acks[g][l]
      BY <1>1, <1>2, <1>3
    <3> QED BY <3>1 DEF IInv, WireInv
  <2> QED BY <2>1, <1>1 DEF IInv, WireInv, Numbered
<1>6. /\ queue' \in [Hops -> Seq([no : Nat, st : Status])]
      /\ QueueInv' /\ KeptInv'
  <2>1. CASE queue' = queue
    BY <2>1, <1>1, <1>2 DEF IInv, TypeOK, QueueInv, KeptInv, OnItsWay, InQueue, Numbered
  <2>2. CASE \E i \in Matches(h, acks[h][k]) : queue' = [queue EXCEPT ![h][i].st = "SENDEND"]
    <3>1. PICK i \in Matches(h, acks[h][k]) : queue' = [queue EXCEPT ![h][i].st = "SENDEND"]
      BY <2>2
    <3>2. i \in DOMAIN queue[h] /\ SequenceNumber(queue[h][i].no) = acks[h][k]
      BY DEF Matches, Searched
    <3>3. queue[h][i].no \in Nat /\ queue[h][i].no < MaxIssued
      <4>1. queue[h][i].no \in Nat
        BY <1>2, <3>2, QueueElement
      <4>2. queue[h][i].no + 1 \in DOMAIN issued /\ Len(issued) <= MaxIssued
        BY <3>2 DEF IInv, QueueInv, Numbered
      <4>3. DOMAIN issued = 1..Len(issued) /\ Len(issued) \in Nat
        BY <1>2 DEF TypeOK
      <4> QED BY <4>1, <4>2, <4>3, ConstantsAssumption
    <3>4. queue[h][i].no < expectedSeq[h]
      BY <3>2, <3>3, SequenceNumberIsPlace DEF IInv, WireInv
    <3> QED BY <3>1, <3>2, <3>4, <1>1, QueueStatusStep DEF Status
  <2> QED BY <2>1, <2>2, <1>1
<1>7. TypeOK'
  BY <1>1, <1>2, <1>4, <1>6 DEF TypeOK
<1>8. CallerInv' /\ HopInv' /\ (Len(issued) <= MaxIssued)'
  BY <1>1 DEF IInv, CallerInv, HopInv, Numbered
<1> QED BY <1>5, <1>6, <1>7, <1>8 DEF IInv

LEMMA SenderExitStep ==
    ASSUME IInv, NEW h \in Hops, NEW i \in DOMAIN queue[h], SenderExit(h, i)
    PROVE  IInv'
<1> USE DEF callerVars, hopVars
<1>1. /\ queue[h][i].st = "SENDEND"
      /\ queue' = [queue EXCEPT ![h][i].st = "EXIT"]
      /\ UNCHANGED <<callerVars, data, acks, hopVars>>
  BY DEF SenderExit
<1>2. queue[h][i].no < expectedSeq[h]
  BY <1>1 DEF IInv, QueueInv
<1>3. /\ queue' \in [Hops -> Seq([no : Nat, st : Status])]
      /\ QueueInv' /\ KeptInv'
  BY <1>1, <1>2, QueueStatusStep DEF Status
<1>4. TypeOK'
  BY <1>1, <1>3 DEF IInv, TypeOK
<1>5. CallerInv' /\ WireInv' /\ HopInv' /\ (Len(issued) <= MaxIssued)'
  BY <1>1 DEF IInv, CallerInv, WireInv, HopInv, Numbered
<1> QED BY <1>3, <1>4, <1>5 DEF IInv

(* Only an element whose packet was delivered leaves the queue. *)
LEMMA DelPacketStep ==
    ASSUME IInv, NEW h \in Hops, NEW i \in DOMAIN queue[h], DelPacket(h, i)
    PROVE  IInv'
<1> USE DEF callerVars, hopVars
<1> DEFINE T == [no : Nat, st : Status]
<1>1. /\ queue[h][i].st = "EXIT"
      /\ queue' = [queue EXCEPT ![h] = Without(@, i)]
      /\ UNCHANGED <<callerVars, data, acks, hopVars>>
  BY DEF DelPacket
<1>2. queue \in [Hops -> Seq(T)] /\ queue[h] \in Seq(T)
  BY DEF IInv, TypeOK
<1>3. /\ Without(queue[h], i) \in Seq(T)
      /\ \A j \in DOMAIN Without(queue[h], i) :
            \E l \in DOMAIN queue[h] : Without(queue[h], i)[j] = queue[h][l]
      /\ \A l \in DOMAIN queue[h] \ {i} :
            \E j \in DOMAIN Without(queue[h], i) : Without(queue[h], i)[j] = queue[h][l]
  <2> HIDE DEF T
  <2> QED BY <1>2, WithoutFacts
<1>4. queue' \in [Hops -> Seq(T)]
  BY <1>1, <1>2, <1>3
<1>5. \A g \in Hops : \A j \in DOMAIN queue'[g] :
        \E l \in DOMAIN queue[g] : queue'[g][j] = queue[g][l]
  BY <1>1, <1>2, <1>3
<1>6. QueueInv'
  <2> SUFFICES ASSUME NEW g \in Hops, NEW j \in DOMAIN queue'[g]
               PROVE  /\ Numbered(g, queue'[g][j].no)
                      /\ queue'[g][j].st \in {"SENDEND", "EXIT"} => queue'[g][j].no < expectedSeq[g]
    BY <1>1 DEF QueueInv, Numbered
  <2> QED BY <1>5 DEF IInv, QueueInv
<1>7. KeptInv'
  <2> SUFFICES ASSUME NEW g \in Hops, NEW n \in Nat, Numbered(g, n)
               PROVE  OnItsWay(g, n) \/ InQueue(g, n)' \/ n < expectedSeq[g]
    BY <1>1 DEF KeptInv, Numbered, OnItsWay
  <2>1. CASE InQueue(g, n)
    <3>1. PICK l \in DOMAIN queue[g] : queue[g][l].no = n
      BY <2>1 DEF InQueue
    <3>2. CASE g = h /\ l = i
      BY <3>1, <3>2, <1>1 DEF IInv, QueueInv
    <3>3. CASE ~(g = h /\ l = i)
      <4>1. \E j \in DOMAIN queue'[g] : queue'[g][j] = queue[g][l]
        BY <3>3, <1>1, <1>2, <1>3
      <4> QED BY <3>1, <4>1 DEF InQueue
    <3> QED BY <3>2, <3>3
  <2> QED BY <2>1 DEF IInv, KeptInv
<1>8. TypeOK'
  BY <1>1, <1>4 DEF IInv, TypeOK
<1>9. CallerInv' /\ WireInv' /\ HopInv' /\ (Len(issued) <= MaxIssued)'
  BY <1>1 DEF IInv, CallerInv, WireInv, HopInv, Numbered
<1> QED BY <1>6, <1>7, <1>8, <1>9 DEF IInv
-----------------------------------------------------------------------------
(***************************************************************************)
(* The receiving side.  What SendingACK does before the wrap: the packet   *)
(* is answered when its place is not ahead of what the hop has used, and   *)
(* used when it is the next one.                                           *)
(***************************************************************************)
LEMMA SendingACKMeans ==
    ASSUME NoWrap, IInv, NEW h \in Hops, NEW k \in DOMAIN data[h], NEW arrives \in BOOLEAN,
           SendingACK(h, k, arrives)
    PROVE  LET no == data[h][k]
           IN  /\ no \in Nat /\ Numbered(h, no)
               /\ no \in SeqNos /\ no + 1 \in SeqNos
               /\ data' = [data EXCEPT ![h] = Without(@, k)]
               /\ UNCHANGED <<callerVars, queue>>
               /\ IF no <= expectedSeq[h] THEN Transmit(acks, h, no, arrives) ELSE UNCHANGED acks
               /\ IF no = expectedSeq[h]
                  THEN /\ expectedSeq' = [expectedSeq EXCEPT ![h] = no + 1]
                       /\ delivered' = [delivered EXCEPT ![h] = Append(@, no)]
                  ELSE UNCHANGED hopVars
<1> DEFINE no == data[h][k]
           seqCur == SequenceNumber(no)
           d == DiffSeq(seqCur, expectedSeq[h])
<1>1. Numbered(h, no)
  BY DEF IInv, WireInv
<1>2. issued \in Seq([hop : Hops, pkt : PacketIds]) /\ data[h] \in Seq(Nat) /\ Len(issued) <= MaxIssued
  BY DEF IInv, TypeOK
<1>3. no \in Nat
  BY <1>2, ElementOfSeq
<1>4. no < MaxIssued
  <2>1. no + 1 \in 1..Len(issued) /\ Len(issued) \in Nat
    BY <1>1, <1>2 DEF Numbered
  <2> HIDE DEF no
  <2> QED BY <2>1, <1>2, <1>3, ConstantsAssumption
<1>5. seqCur = no /\ no \in SeqNos /\ no + 1 \in SeqNos /\ (no + 1) % SeqMod = no + 1
  BY <1>3, <1>4, SequenceNumberIsPlace
<1>6. expectedSeq[h] \in 0..MaxIssued
  <2>1. delivered[h] \in Seq(Nat) /\ expectedSeq[h] = Len(delivered[h])
    BY DEF IInv, TypeOK, HopInv
  <2>2. CASE Len(delivered[h]) = 0
    BY <2>1, <2>2, ConstantsAssumption
  <2>3. CASE Len(delivered[h]) # 0
    <3>1. Len(delivered[h]) \in DOMAIN delivered[h] /\ Len(delivered[h]) \in Nat
      BY <2>1, <2>3
    <3>2. Numbered(h, Len(delivered[h]) - 1)
      BY <3>1 DEF IInv, HopInv
    <3>3. Len(delivered[h]) \in 1..Len(issued)
      BY <3>1, <3>2, <1>2 DEF Numbered
    <3> QED BY <3>3, <2>1, <1>2, ConstantsAssumption
  <2> QED BY <2>2, <2>3
<1>7. d = no - expectedSeq[h]
  BY <1>3, <1>4, <1>5, <1>6, DiffSeqIsDifference, ConstantsAssumption
<1>8. (d <= 0 <=> no <= expectedSeq[h]) /\ (d = 0 <=> no = expectedSeq[h])
  BY <1>3, <1>6, <1>7, ConstantsAssumption
<1>9. /\ data' = [data EXCEPT ![h] = Without(@, k)]
      /\ UNCHANGED <<callerVars, queue>>
      /\ IF d <= 0 THEN Transmit(acks, h, seqCur, arrives) ELSE UNCHANGED acks
      /\ IF d = 0
         THEN /\ expectedSeq' = [expectedSeq EXCEPT ![h] = (seqCur + 1) % SeqMod]
              /\ delivered' = [delivered EXCEPT ![h] = Append(@, no)]
         ELSE UNCHANGED hopVars
  BY DEF SendingACK
<1> HIDE DEF d, seqCur
<1> QED BY <1>1, <1>3, <1>5, <1>8, <1>9

LEMMA SendingACKStep ==
    ASSUME NoWrap, IInv, NEW h \in Hops, NEW k \in DOMAIN data[h], NEW arrives \in BOOLEAN,
           SendingACK(h, k, arrives)
    PROVE  IInv'
<1> DEFINE no == data[h][k]
<1>1. /\ no \in Nat /\ Numbered(h, no)
      /\ no \in SeqNos /\ no + 1 \in SeqNos
      /\ data' = [data EXCEPT ![h] = Without(@, k)]
      /\ UNCHANGED <<callerVars, queue>>
      /\ IF no <= expectedSeq[h] THEN Transmit(acks, h, no, arrives) ELSE UNCHANGED acks
      /\ IF no = expectedSeq[h]
         THEN /\ expectedSeq' = [expectedSeq EXCEPT ![h] = no + 1]
              /\ delivered' = [delivered EXCEPT ![h] = Append(@, no)]
         ELSE UNCHANGED hopVars
  BY SendingACKMeans
<1> HIDE DEF no
<1>2. UNCHANGED <<made, step, at, num, issued, queue>>
  BY <1>1 DEF callerVars
<1>3. /\ TypeOK
      /\ data \in [Hops -> Seq(Nat)] /\ data[h] \in Seq(Nat)
      /\ acks \in [Hops -> Seq(SeqNos)]
      /\ expectedSeq \in [Hops -> SeqNos]
      /\ delivered \in [Hops -> Seq(Nat)] /\ delivered[h] \in Seq(Nat)
  BY DEF IInv, TypeOK
<1>4. /\ Without(data[h], k) \in Seq(Nat)
      /\ \A j \in DOMAIN Without(data[h], k) :
            \E l \in DOMAIN data[h] : Without(data[h], k)[j] = data[h][l]
  BY <1>3, WithoutFacts
<1>5. /\ data' \in [Hops -> Seq(Nat)]
      /\ \A g \in Hops : \A j \in DOMAIN data'[g] : \E l \in DOMAIN data[g] : data'[g][j] = data[g][l]
  BY <1>1, <1>3, <1>4
<1>6. /\ expectedSeq' \in [Hops -> SeqNos]
      /\ \A g \in Hops : expectedSeq[g] <= expectedSeq'[g]
  <2>1. \A g \in Hops : expectedSeq[g] \in Nat
    BY <1>3 DEF SeqNos
  <2>2. CASE no = expectedSeq[h]
    <3>1. expectedSeq' = [expectedSeq EXCEPT ![h] = no + 1] /\ no + 1 \in SeqNos
      BY <2>2, <1>1
    <3>2. expectedSeq' \in [Hops -> SeqNos]
      BY <3>1, <1>3
    <3>3. \A g \in Hops : expectedSeq'[g] = IF g = h THEN no + 1 ELSE expectedSeq[g]
      BY <3>1, <1>3
    <3>4. ASSUME NEW g \in Hops PROVE expectedSeq[g] <= expectedSeq'[g]
      <4>1. CASE g = h
        BY <4>1, <3>3, <2>1, <2>2, <1>1
      <4>2. CASE g # h
        BY <4>2, <3>3, <2>1
      <4> QED BY <4>1, <4>2
    <3> QED BY <3>2, <3>4
  <2>3. CASE no # expectedSeq[h]
    BY <2>1, <2>3, <1>1, <1>3 DEF hopVars
  <2> QED BY <2>2, <2>3
<1>7. /\ acks' \in [Hops -> Seq(SeqNos)]
      /\ \A g \in Hops : \A j \in DOMAIN acks'[g] :
            \/ g = h /\ acks'[g][j] = no /\ no <= expectedSeq[h]
            \/ \E l \in DOMAIN acks[g] : acks'[g][j] = acks[g][l]
  <2>1. CASE no <= expectedSeq[h]
    BY <2>1, <1>1, <1>3, SendAck
  <2>2. CASE ~(no <= expectedSeq[h])
    BY <2>2, <1>1, <1>3
  <2> QED BY <2>1, <2>2
<1>8. delivered' \in [Hops -> Seq(Nat)]
  <2>1. CASE no = expectedSeq[h]
    <3>1. Append(delivered[h], no) \in Seq(Nat)
      BY <1>1, <1>3
    <3> QED BY <3>1, <2>1, <1>1, <1>3
  <2>2. CASE no # expectedSeq[h]
    BY <2>2, <1>1, <1>3 DEF hopVars
  <2> QED BY <2>1, <2>2
<1>9. TypeOK'
  BY <1>2, <1>3, <1>5, <1>6, <1>7, <1>8 DEF TypeOK
<1>10. QueueInv'
  <2> SUFFICES ASSUME NEW g \in Hops, NEW i \in DOMAIN queue[g]
               PROVE  /\ Numbered(g, queue[g][i].no)
                      /\ queue[g][i].st \in {"SENDEND", "EXIT"} => queue[g][i].no < expectedSeq'[g]
    BY <1>2 DEF QueueInv, Numbered
  <2>1. queue[g][i].no \in Nat
    BY <1>3, QueueElement
  <2>2. expectedSeq[g] \in Nat /\ expectedSeq'[g] \in Nat /\ expectedSeq[g] <= expectedSeq'[g]
    BY <1>3, <1>6 DEF SeqNos
  <2> QED BY <2>1, <2>2 DEF IInv, QueueInv
<1>11. WireInv'
  <2>1. ASSUME NEW g \in Hops, NEW j \in DOMAIN data'[g] PROVE Numbered(g, data'[g][j])
    BY <1>5 DEF IInv, WireInv
  <2>2. ASSUME NEW g \in Hops, NEW j \in DOMAIN acks'[g] PROVE acks'[g][j] < expectedSeq'[g]
    <3>1. expectedSeq[g] \in Nat /\ expectedSeq'[g] \in Nat /\ expectedSeq[g] <= expectedSeq'[g]
      BY <1>3, <1>6 DEF SeqNos
    <3>2. CASE g = h /\ acks'[g][j] = no /\ no <= expectedSeq[h]
      <4>1. CASE no = expectedSeq[h]
        BY <4>1, <3>2, <1>1, <1>3
      <4>2. CASE no # expectedSeq[h]
        BY <4>2, <3>1, <3>2, <1>1
      <4> QED BY <4>1, <4>2
    <3>3. CASE \E l \in DOMAIN acks[g] : acks'[g][j] = acks[g][l]
      <4>1. PICK l \in DOMAIN acks[g] : acks'[g][j] = acks[g][l]
        BY <3>3
      <4>2. acks[g][l] \in Nat /\ acks[g][l] < expectedSeq[g]
        <5>1. acks[g] \in Seq(SeqNos)
          BY <1>3
        <5>2. acks[g][l] \in SeqNos
          BY <5>1, ElementOfSeq
        <5> QED BY <5>2 DEF IInv, WireInv, SeqNos
      <4> QED BY <4>1, <4>2, <3>1
    <3> QED BY <3>2, <3>3, <1>7
  <2> QED BY <2>1, <2>2, <1>2 DEF WireInv, Numbered
<1>12. HopInv'
  <2> SUFFICES ASSUME NEW g \in Hops
               PROVE  /\ expectedSeq'[g] = Len(delivered'[g])
                      /\ \A j \in DOMAIN delivered'[g] : delivered'[g][j] = j - 1 /\ Numbered(g, j - 1)
    BY <1>2 DEF HopInv, Numbered
  <2>1. CASE g = h /\ no = expectedSeq[h]
    <3>1. expectedSeq'[g] = no + 1 /\ delivered'[g] = Append(delivered[g], no)
      BY <2>1, <1>1, <1>3
    <3>2. no = Len(delivered[g]) /\ delivered[g] \in Seq(Nat)
      BY <2>1, <1>3 DEF IInv, HopInv
    <3>3. /\ Len(delivered'[g]) = no + 1
          /\ DOMAIN delivered'[g] = DOMAIN delivered[g] \cup {no + 1}
          /\ delivered'[g][no + 1] = no
          /\ \A j \in DOMAIN delivered[g] : delivered'[g][j] = delivered[g][j]
      BY <3>1, <3>2, <1>1
    <3> QED BY <3>1, <3>3, <2>1, <1>1 DEF IInv, HopInv
  <2>2. CASE ~(g = h /\ no = expectedSeq[h])
    <3>1. expectedSeq'[g] = expectedSeq[g] /\ delivered'[g] = delivered[g]
      BY <2>2, <1>1, <1>3 DEF hopVars
    <3> QED BY <3>1 DEF IInv, HopInv
  <2> QED BY <2>1, <2>2
<1>13. KeptInv'
  <2>1. ASSUME NEW g \in Hops, NEW n \in Nat, n < expectedSeq[g] PROVE n < expectedSeq'[g]
    <3>1. expectedSeq[g] \in Nat /\ expectedSeq'[g] \in Nat /\ expectedSeq[g] <= expectedSeq'[g]
      BY <1>3, <1>6 DEF SeqNos
    <3> QED BY <3>1, <2>1
  <2> QED BY <2>1, <1>2 DEF IInv, KeptInv, OnItsWay, InQueue, Numbered
<1>14. CallerInv' /\ (Len(issued) <= MaxIssued)'
  BY <1>2 DEF IInv, CallerInv, Numbered
<1> QED BY <1>9, <1>10, <1>11, <1>12, <1>13, <1>14 DEF IInv
-----------------------------------------------------------------------------
(* Every step keeps the invariant: one case for each action. *)
LEMMA NextIInv ==
    ASSUME NoWrap
    PROVE  IInv /\ [Next]_vars => IInv'
<1> SUFFICES ASSUME IInv, [Next]_vars PROVE IInv'
  OBVIOUS
<1>1. CASE UNCHANGED vars
  BY <1>1 DEF vars, callerVars, hopVars, IInv, TypeOK, CallerInv, QueueInv, WireInv, HopInv,
              KeptInv, Numbered, OnItsWay, InQueue
<1>2. ASSUME NEW c \in Callers, Caller(c) PROVE IInv'
  <2>1. CASE Begin(c) \/ CheckRoom(c)
    BY <2>1, CallerQuietStep
  <2>2. CASE TakeNumber(c)
    BY <2>2, TakeNumberStep
  <2>3. CASE Insert(c)
    BY <2>3, InsertStep
  <2> QED BY <1>2, <2>1, <2>2, <2>3 DEF Caller
<1>3. ASSUME NEW h \in Hops, Sender(h) PROVE IInv'
  <2>1. ASSUME NEW i \in DOMAIN queue[h], NEW arrives \in BOOLEAN, StartSender(h, i, arrives)
        PROVE  IInv'
    BY <2>1, StartSenderStep
  <2>2. ASSUME NEW i \in DOMAIN queue[h], NEW arrives \in BOOLEAN, Resend(h, i, arrives)
        PROVE  IInv'
    BY <2>2, ResendStep
  <2>3. ASSUME NEW i \in DOMAIN queue[h], SenderExit(h, i) PROVE IInv'
    BY <2>3, SenderExitStep
  <2>4. ASSUME NEW i \in DOMAIN queue[h], DelPacket(h, i) PROVE IInv'
    BY <2>4, DelPacketStep
  <2>5. ASSUME NEW k \in DOMAIN acks[h], RecvACK(h, k) PROVE IInv'
    BY <2>5, RecvACKStep
  <2> QED BY <1>3, <2>1, <2>2, <2>3, <2>4, <2>5 DEF Sender
<1>4. ASSUME NEW h \in Hops, Receiver(h) PROVE IInv'
  BY <1>4, SendingACKStep DEF Receiver
<1> QED BY <1>1, <1>2, <1>3, <1>4 DEF Next

LEMMA InvariantOfSpec ==
    ASSUME NoWrap
    PROVE  Spec => []IInv
<1>1. Init => IInv
  BY InitIInv
<1>2. IInv /\ [Next]_vars => IInv'
  BY NextIInv
<1> QED BY <1>1, <1>2, PTL DEF Spec
-----------------------------------------------------------------------------
(* A hop uses the packets of its sender in order, each once, none skipped. *)
THEOREM InOrder ==
    ASSUME NoWrap
    PROVE  Spec => []DeliveredInOrder
<1>1. IInv => DeliveredInOrder
  <2> SUFFICES ASSUME IInv, NEW h \in Hops, NEW k \in DOMAIN delivered[h]
               PROVE  /\ delivered[h][k] = k - 1
                      /\ k \in DOMAIN issued /\ issued[k].hop = h
    BY DEF DeliveredInOrder
  <2>1. delivered[h][k] = k - 1 /\ Numbered(h, k - 1)
    BY DEF IInv, HopInv
  <2>2. k \in Nat /\ k - 1 + 1 = k
    BY DEF IInv, TypeOK
  <2> QED BY <2>1, <2>2 DEF Numbered
<1> QED BY <1>1, InvariantOfSpec, PTL

(* No packet is taken for acknowledged before the hop has used it. *)
THEOREM AckMeansDelivered ==
    ASSUME NoWrap
    PROVE  Spec => []AckedIsDelivered
<1>1. IInv => AckedIsDelivered
  <2> SUFFICES ASSUME IInv, NEW h \in Hops, NEW i \in DOMAIN queue[h],
                      queue[h][i].st \in {"SENDEND", "EXIT"}
               PROVE  \E k \in DOMAIN delivered[h] : delivered[h][k] = queue[h][i].no
    BY DEF AckedIsDelivered
  <2>1. queue[h][i].no < expectedSeq[h] /\ expectedSeq[h] = Len(delivered[h])
    BY DEF IInv, QueueInv, HopInv
  <2>2. queue[h][i].no \in Nat
    BY QueueElement DEF IInv
  <2>3. DOMAIN delivered[h] = 1..Len(delivered[h]) /\ Len(delivered[h]) \in Nat
    BY DEF IInv, TypeOK
  <2>4. queue[h][i].no + 1 \in DOMAIN delivered[h] /\ queue[h][i].no + 1 - 1 = queue[h][i].no
    BY <2>1, <2>2, <2>3
  <2>5. \A k \in DOMAIN delivered[h] : delivered[h][k] = k - 1
    BY DEF IInv, HopInv
  <2> DEFINE n == queue[h][i].no
  <2>6. n \in Nat /\ n + 1 \in DOMAIN delivered[h]
    BY <2>2, <2>4
  <2> HIDE DEF n
  <2>7. \E k \in DOMAIN delivered[h] : delivered[h][k] = n
    BY <2>5, <2>6
  <2> QED BY <2>7 DEF n
<1> QED BY <1>1, InvariantOfSpec, PTL

(* A packet that was given a number is on its way to the queue, in it, or used. *)
THEOREM NothingIsLost ==
    ASSUME NoWrap
    PROVE  Spec => []NothingLost
<1>1. IInv => NothingLost
  <2> SUFFICES ASSUME IInv, NEW k \in DOMAIN issued
               PROVE  \/ OnItsWay(issued[k].hop, k - 1)
                      \/ InQueue(issued[k].hop, k - 1)
                      \/ \E j \in DOMAIN delivered[issued[k].hop] :
                            delivered[issued[k].hop][j] = k - 1
    BY DEF NothingLost
  <2> DEFINE h == issued[k].hop
  <2>1. issued \in Seq([hop : Hops, pkt : PacketIds])
    BY DEF IInv, TypeOK
  <2>2. h \in Hops
    <3>1. issued[k] \in [hop : Hops, pkt : PacketIds]
      BY <2>1, ElementOfSeq
    <3> QED BY <3>1
  <2>3. k \in Nat /\ k - 1 \in Nat /\ k - 1 + 1 = k
    BY <2>1
  <2>4. Numbered(h, k - 1)
    BY <2>3 DEF Numbered
  <2> HIDE DEF h
  <2>5. OnItsWay(h, k - 1) \/ InQueue(h, k - 1) \/ k - 1 < expectedSeq[h]
    BY <2>2, <2>3, <2>4 DEF IInv, KeptInv
  <2>6. CASE k - 1 < expectedSeq[h]
    <3>1. /\ DOMAIN delivered[h] = 1..Len(delivered[h]) /\ Len(delivered[h]) \in Nat
          /\ expectedSeq[h] = Len(delivered[h])
      BY <2>2 DEF IInv, TypeOK, HopInv
    <3>2. k \in DOMAIN delivered[h]
      BY <2>3, <2>6, <3>1
    <3>3. delivered[h][k] = k - 1
      BY <2>2, <3>2 DEF IInv, HopInv
    <3> QED BY <3>2, <3>3 DEF h
  <2> QED BY <2>5, <2>6 DEF h
<1> QED BY <1>1, InvariantOfSpec, PTL

(***************************************************************************)
(* The answer of SendingACKorNACK is never for a packet ahead of what the  *)
(* hop has used: only the receiving action lets ACKs grow.                 *)
(***************************************************************************)
THEOREM AnswersAreNotAhead ==
    ASSUME NoWrap
    PROVE  Spec => NoAckAhead
<1> DEFINE Grew(h) == Len(acks'[h]) > Len(acks[h])
           Behind(h) == \E k \in DOMAIN data[h] : /\ data'[h] = Without(data[h], k)
                                                  /\ data[h][k] <= Len(delivered[h])
<1>1. ASSUME IInv, [Next]_vars, NEW h \in Hops, Grew(h) PROVE Behind(h)
  <2>1. ~ UNCHANGED acks
    <3>1. Len(acks[h]) \in Nat
      BY <1>1 DEF IInv, TypeOK
    <3> QED BY <1>1, <3>1
  <2>2. PICK g \in Hops : (\E k \in DOMAIN acks[g] : RecvACK(g, k)) \/ Receiver(g)
    BY <1>1, <2>1 DEF Next, vars, Caller, Sender, Begin, CheckRoom, TakeNumber, Insert,
                      StartSender, Resend, SenderExit, DelPacket
  <2>3. CASE \E k \in DOMAIN acks[g] : RecvACK(g, k)
    <3>1. PICK k \in DOMAIN acks[g] : RecvACK(g, k)
      BY <2>3
    <3>2. acks' = [acks EXCEPT ![g] = Without(@, k)] /\ acks \in [Hops -> Seq(SeqNos)]
      BY <1>1, <3>1 DEF RecvACK, IInv, TypeOK
    <3>3. /\ acks[g] \in Seq(SeqNos) /\ acks[h] \in Seq(SeqNos)
          /\ Len(acks[h]) \in Nat /\ Len(acks[g]) \in Nat /\ Len(acks[g]) # 0
      BY <3>2
    <3>4. Len(Without(acks[g], k)) = Len(acks[g]) - 1
      BY <3>3 DEF Without
    <3>5. CASE h = g
      BY <3>2, <3>3, <3>4, <3>5, <1>1
    <3>6. CASE h # g
      BY <3>2, <3>3, <3>6, <1>1
    <3> QED BY <3>5, <3>6
  <2>4. CASE Receiver(g)
    <3>1. PICK k \in DOMAIN data[g], arrives \in BOOLEAN : SendingACK(g, k, arrives)
      BY <2>4 DEF Receiver
    <3>2. /\ data[g][k] \in Nat
          /\ data' = [data EXCEPT ![g] = Without(@, k)]
          /\ IF data[g][k] <= expectedSeq[g] THEN Transmit(acks, g, data[g][k], arrives)
                                             ELSE UNCHANGED acks
      BY <1>1, <3>1, SendingACKMeans
    <3>3. data[g][k] <= expectedSeq[g] /\ expectedSeq[g] = Len(delivered[g])
      BY <1>1, <2>1, <3>2 DEF IInv, HopInv
    <3>4. h = g
      <4>1. acks' = [acks EXCEPT ![g] = Append(@, data[g][k])]
        BY <2>1, <3>2, <3>3 DEF Transmit
      <4>2. acks \in [Hops -> Seq(SeqNos)] /\ Len(acks[h]) \in Nat
        BY <1>1 DEF IInv, TypeOK
      <4> QED BY <4>1, <4>2, <1>1
    <3>5. data'[g] = Without(data[g], k)
      BY <1>1, <3>2 DEF IInv, TypeOK
    <3> QED BY <3>3, <3>4, <3>5
  <2> QED BY <2>2, <2>3, <2>4
<1>2. IInv /\ [Next]_vars => [\A h \in Hops : Grew(h) => Behind(h)]_vars
  BY <1>1
<1> QED BY <1>2, InvariantOfSpec, PTL DEF Spec, NoAckAhead
-----------------------------------------------------------------------------
(***************************************************************************)
(* With one next hop the ARQ implements the FIFO link.  The packets handed *)
(* over are `issued', the packets used are those `delivered' names.        *)
(***************************************************************************)
Sent == [k \in DOMAIN issued |-> issued[k].pkt]
Rcvd == [k \in DOMAIN delivered[1] |-> issued[delivered[1][k] + 1].pkt]

(* What the invariant says of the two histories. *)
Histories ==
    /\ Len(issued) \in Nat /\ DOMAIN issued = 1..Len(issued)
    /\ \A k \in DOMAIN issued : issued[k].pkt \in PacketIds
    /\ Len(delivered[1]) \in Nat
    /\ Len(delivered[1]) <= Len(issued)
    /\ Sent \in Seq(PacketIds) /\ Len(Sent) = Len(issued)
    /\ Rcvd = [k \in 1..Len(delivered[1]) |-> issued[k].pkt]
    /\ Rcvd \in Seq(PacketIds) /\ Len(Rcvd) = Len(delivered[1])

LEMMA HistoriesAgree == IInv => Histories
<1> SUFFICES ASSUME IInv PROVE Histories
  OBVIOUS
<1> DEFINE D == delivered[1]
           P == [hop : Hops, pkt : PacketIds]
<1>1. 1 \in Hops
  BY ConstantsAssumption DEF Hops
<1>2. issued \in Seq(P) /\ D \in Seq(Nat)
  BY <1>1 DEF IInv, TypeOK
<1>3. Len(issued) \in Nat /\ DOMAIN issued = 1..Len(issued)
  BY <1>2
<1>4. Len(D) \in Nat /\ DOMAIN D = 1..Len(D)
  BY <1>2
<1>5. \A k \in DOMAIN issued : issued[k].pkt \in PacketIds
  <2> TAKE k \in DOMAIN issued
  <2>1. issued[k] \in P
    BY <1>2, ElementOfSeq
  <2> QED BY <2>1
<1>6. \A k \in DOMAIN D : k \in DOMAIN issued /\ D[k] + 1 = k
  <2> TAKE k \in DOMAIN D
  <2>1. D[k] = k - 1 /\ Numbered(1, k - 1)
    BY <1>1 DEF IInv, HopInv
  <2>2. k \in Nat /\ k - 1 + 1 = k
    BY <1>4
  <2> QED BY <2>1, <2>2 DEF Numbered
<1>7. Len(D) <= Len(issued)
  <2>1. Len(D) = 0 \/ Len(D) \in DOMAIN D
    BY <1>4
  <2>2. Len(D) = 0 \/ Len(D) \in 1..Len(issued)
    BY <2>1, <1>3, <1>6
  <2> HIDE DEF D
  <2> QED BY <2>2, <1>3, <1>4
<1> HIDE DEF P
<1>8. Sent \in Seq(PacketIds) /\ Len(Sent) = Len(issued)
  <2> DEFINE n == Len(issued)
  <2>1. Sent = [k \in 1..n |-> issued[k].pkt] /\ n \in Nat /\ \A k \in 1..n : issued[k].pkt \in PacketIds
    BY <1>3, <1>5 DEF Sent
  <2> HIDE DEF n
  <2>2. Sent \in Seq(PacketIds) /\ Len(Sent) = n
    BY <2>1
  <2> QED BY <2>2 DEF n
<1>9. Rcvd = [k \in 1..Len(D) |-> issued[k].pkt]
  BY <1>4, <1>6 DEF Rcvd
<1>10. Rcvd \in Seq(PacketIds) /\ Len(Rcvd) = Len(D)
  <2> DEFINE n == Len(D)
  <2>1. Rcvd = [k \in 1..n |-> issued[k].pkt] /\ n \in Nat /\ \A k \in 1..n : issued[k].pkt \in PacketIds
    BY <1>3, <1>4, <1>5, <1>6, <1>9
  <2> HIDE DEF n, D
  <2>2. Rcvd \in Seq(PacketIds) /\ Len(Rcvd) = n
    BY <2>1
  <2> QED BY <2>2 DEF n
<1> QED BY <1>3, <1>4, <1>5, <1>7, <1>8, <1>9, <1>10 DEF Histories

(* Taking a number is Send of the link. *)
LEMMA NumberIsSend ==
    ASSUME IInv, Histories, Histories', NEW c \in Callers, TakeNumber(c)
    PROVE  Fifo!Next
<1> DEFINE e == [hop |-> at[c], pkt |-> <<c, made[c]>>]
           n == Len(issued)
<1>1. issued' = Append(issued, e) /\ UNCHANGED delivered
  BY DEF TakeNumber, hopVars
<1>2. n \in Nat /\ Len(issued') = n + 1 /\ issued'[n + 1] = e /\ \A k \in 1..n : issued'[k] = issued[k]
  <2>1. issued \in Seq([hop : Hops, pkt : PacketIds])
    BY DEF IInv, TypeOK
  <2> QED BY <1>1, <2>1
<1>3. e.pkt \in PacketIds
  <2>1. made[c] \in 1..MaxPackets
    BY DEF IInv, CallerInv, TakeNumber
  <2> QED BY <2>1 DEF PacketIds
<1>4. Sent' = Append(Sent, e.pkt)
  <2>1. Sent' = [k \in 1..n + 1 |-> IF k = n + 1 THEN e.pkt ELSE issued[k].pkt]
    <3>1. DOMAIN issued' = 1..n + 1
      BY <1>2 DEF Histories
    <3>2. \A k \in 1..n + 1 : issued'[k] = IF k = n + 1 THEN e ELSE issued[k]
      <4> HIDE DEF e, n
      <4> QED BY <1>2
    <3>3. \A k \in 1..n + 1 : issued'[k].pkt = IF k = n + 1 THEN e.pkt ELSE issued[k].pkt
      BY <3>2
    <3> QED BY <3>1, <3>3 DEF Sent
  <2>2. Sent = [k \in 1..n |-> issued[k].pkt] /\ Len(Sent) = n
    BY DEF Sent, Histories
  <2> HIDE DEF e, n
  <2> QED BY <2>1, <2>2, <1>2
<1>5. Rcvd' = Rcvd
  <2>1. \A k \in 1..Len(delivered[1]) : issued'[k] = issued[k]
    BY <1>2 DEF Histories
  <2> QED BY <2>1, <1>1 DEF Histories
<1> QED BY <1>3, <1>4, <1>5 DEF Fifo!Next, Fifo!Send, Sent, Rcvd

(* Using a packet is Deliver of the link; a packet not used leaves it alone. *)
LEMMA AnswerIsDeliver ==
    ASSUME NoWrap, NumHops = 1, IInv, Histories, Histories',
           NEW k \in DOMAIN data[1], NEW arrives \in BOOLEAN, SendingACK(1, k, arrives)
    PROVE  Fifo!Deliver \/ UNCHANGED <<Sent, Rcvd>>
<1> DEFINE n == Len(delivered[1])
<1>1. 1 \in Hops
  BY DEF Hops
<1>2. /\ UNCHANGED issued
      /\ \/ UNCHANGED delivered
         \/ delivered' = [delivered EXCEPT ![1] = Append(@, data[1][k])]
  BY <1>1, SendingACKMeans DEF callerVars, hopVars
<1>3. UNCHANGED Sent
  BY <1>2 DEF Sent
<1>4. CASE UNCHANGED delivered
  BY <1>2, <1>3, <1>4 DEF Rcvd
<1>5. CASE delivered' = [delivered EXCEPT ![1] = Append(@, data[1][k])]
  <2>1. n \in Nat /\ Len(delivered'[1]) = n + 1
    BY <1>1, <1>5 DEF IInv, TypeOK
  <2>2. n + 1 \in 1..Len(issued)
    BY <2>1, <1>2 DEF Histories
  <2>3. Rcvd' = [j \in 1..n + 1 |-> issued[j].pkt] /\ Rcvd = [j \in 1..n |-> issued[j].pkt]
    BY <2>1, <1>2 DEF Histories
  <2>4. Sent[n + 1] = issued[n + 1].pkt /\ Len(Sent) = Len(issued) /\ Len(Rcvd) = n
    BY <2>2 DEF Sent, Histories
  <2> HIDE DEF n
  <2>5. Rcvd' = Append(Rcvd, Sent[Len(Rcvd) + 1])
    BY <2>1, <2>3, <2>4
  <2>6. Len(Rcvd) < Len(Sent)
    BY <2>1, <2>2, <2>4 DEF Histories
  <2> QED BY <2>5, <2>6, <1>3 DEF Fifo!Deliver, Sent, Rcvd
<1> QED BY <1>2, <1>4, <1>5

(* The packets for one next hop come out of SendingACKorNACK in the order   *)
(* in which UnicastPacket numbered them, each once: the ARQ keeps the       *)
(* promise of FifoLink, whatever is lost, repeated or reordered.            *)
THEOREM ArqIsFifo ==
    ASSUME NoWrap, NumHops = 1
    PROVE  Spec => RefinesFifo
<1>1. Init => Fifo!Init
  <2> SUFFICES ASSUME Init PROVE Fifo!Init
    OBVIOUS
  <2>1. issued = <<>> /\ delivered[1] = <<>>
    BY DEF Init, Hops
  <2> QED BY <2>1 DEF Fifo!Init
<1>2. IInv /\ Histories /\ Histories' /\ [Next]_vars => [Fifo!Next]_(Fifo!vars)
  <2> SUFFICES ASSUME IInv, Histories, Histories', [Next]_vars
               PROVE  [Fifo!Next]_(Fifo!vars)
    OBVIOUS
  <2>1. ASSUME UNCHANGED <<Sent, Rcvd>> PROVE UNCHANGED Fifo!vars
    BY <2>1 DEF Fifo!vars, Sent, Rcvd
  <2>2. ASSUME UNCHANGED <<issued, delivered>> PROVE UNCHANGED Fifo!vars
    BY <2>2 DEF Fifo!vars
  <2>3. ASSUME NEW c \in Callers, TakeNumber(c) PROVE Fifo!Next
    BY <2>3, NumberIsSend
  <2>4. ASSUME NEW h \in Hops, Receiver(h) PROVE [Fifo!Next]_(Fifo!vars)
    <3>1. h = 1
      BY DEF Hops
    <3>2. PICK k \in DOMAIN data[1], arrives \in BOOLEAN : SendingACK(1, k, arrives)
      BY <2>4, <3>1 DEF Receiver
    <3> QED BY <3>2, <2>1, AnswerIsDeliver DEF Fifo!Next
  <2>5. \/ UNCHANGED <<issued, delivered>>
        \/ \E c \in Callers : TakeNumber(c)
        \/ \E h \in Hops : Receiver(h)
    BY ZenonT(60) DEF Next, vars, callerVars, hopVars, Caller, Sender, Begin, CheckRoom, Insert,
           StartSender, Resend, SenderExit, DelPacket, RecvACK
  <2> QED BY <2>2, <2>3, <2>4, <2>5
<1>3. IInv => Histories
  BY HistoriesAgree
<1> QED BY <1>1, <1>2, <1>3, InvariantOfSpec, PTL DEF Spec, RefinesFifo, Fifo!Spec
-----------------------------------------------------------------------------
(***************************************************************************)
(* What does not depend on the wrap of the sequence number: the types, and *)
(* the length of the queue.                                                *)
(***************************************************************************)
TypeInv == TypeOK /\ \A c \in Callers : step[c] # "idle" => made[c] \in 1..MaxPackets

LEMMA SequenceNumberType ==
    \A n \in Nat : SequenceNumber(n) \in SeqNos /\ (SequenceNumber(n) + 1) % SeqMod \in SeqNos
<1>1. SeqMod \in Nat /\ SeqMod > 0
  BY ConstantsAssumption
<1>2. \A n \in Nat : n % SeqMod \in 0..SeqMod - 1
  BY <1>1
<1> QED BY <1>1, <1>2 DEF SequenceNumber, SeqNos

LEMMA WithoutLen ==
    ASSUME NEW S, NEW s \in Seq(S), NEW i \in DOMAIN s
    PROVE  Len(Without(s, i)) = Len(s) - 1 /\ Len(s) \in Nat
<1>1. Len(s) \in Nat /\ DOMAIN s = 1..Len(s)
  OBVIOUS
<1>2. Len(s) - 1 \in Nat
  BY <1>1
<1>3. DOMAIN Without(s, i) = 1..Len(s) - 1 /\ Without(s, i) \in Seq(S)
  BY WithoutFacts DEF Without
<1>4. \A w \in Seq(S) : Len(w) \in Nat /\ DOMAIN w = 1..Len(w)
  OBVIOUS
<1>5. \A m, n \in Nat : 1..m = 1..n => m = n
  <2> SUFFICES ASSUME NEW m \in Nat, NEW n \in Nat, 1..m = 1..n PROVE m = n
    OBVIOUS
  <2>1. (m > 0 => m \in 1..n) /\ (n > 0 => n \in 1..m)
    OBVIOUS
  <2> QED BY <2>1
<1>6. Len(Without(s, i)) \in Nat /\ 1..Len(Without(s, i)) = 1..Len(s) - 1
  BY <1>3, <1>4
<1> QED BY <1>1, <1>2, <1>5, <1>6

(* Advance, after the packet was enqueued for a hop or dropped. *)
LEMMA AdvanceFacts ==
    ASSUME TypeOK, NEW c \in Callers, Advance(c)
    PROVE  /\ step' \in [Callers -> {"idle", "room", "number", "insert"}]
           /\ at' \in [Callers -> Hops]
           /\ step'[c] \in {"room", "idle"}
           /\ \A d \in Callers \ {c} : step'[d] = step[d] /\ at'[d] = at[d]
<1>1. /\ step \in [Callers -> {"idle", "room", "number", "insert"}]
      /\ at \in [Callers -> Hops]
  BY DEF TypeOK
<1>2. CASE at[c] < NumHops
  <2>1. at' = [at EXCEPT ![c] = at[c] + 1] /\ step' = [step EXCEPT ![c] = "room"]
    BY <1>2 DEF Advance
  <2>2. at[c] + 1 \in Hops
    BY <1>1, <1>2, ConstantsAssumption DEF Hops
  <2> QED BY <1>1, <2>1, <2>2
<1>3. CASE ~(at[c] < NumHops)
  BY <1>1, <1>3 DEF Advance
<1> QED BY <1>2, <1>3

LEMMA CallerKeepsTypes ==
    ASSUME TypeInv, NEW c \in Callers, Caller(c)
    PROVE  TypeInv'
<1>0. /\ TypeOK
      /\ step \in [Callers -> {"idle", "room", "number", "insert"}]
      /\ at \in [Callers -> Hops]
      /\ made \in [Callers -> 0..MaxPackets]
      /\ num \in [Callers -> Nat]
      /\ issued \in Seq([hop : Hops, pkt : PacketIds])
      /\ queue \in [Hops -> Seq([no : Nat, st : Status])]
      /\ MaxPackets \in Nat
  BY ConstantsAssumption DEF TypeInv, TypeOK
<1>1. CASE Begin(c)
  <2>1. /\ made[c] < MaxPackets
        /\ made' = [made EXCEPT ![c] = made[c] + 1]
        /\ at' = [at EXCEPT ![c] = 1]
        /\ step' = [step EXCEPT ![c] = "room"]
        /\ UNCHANGED <<num, issued, queue, data, acks, expectedSeq, delivered>>
    BY <1>1 DEF Begin, hopVars
  <2>2. 1 \in Hops /\ made[c] + 1 \in 1..MaxPackets
    BY <1>0, <2>1, ConstantsAssumption DEF Hops
  <2>3. /\ made' \in [Callers -> 0..MaxPackets] /\ at' \in [Callers -> Hops]
        /\ step' \in [Callers -> {"idle", "room", "number", "insert"}]
    BY <1>0, <2>1, <2>2
  <2>4. \A d \in Callers : step'[d] # "idle" => made'[d] \in 1..MaxPackets
    BY <1>0, <2>1, <2>2 DEF TypeInv
  <2> QED BY <1>0, <2>1, <2>3, <2>4 DEF TypeInv, TypeOK
<1>2. CASE CheckRoom(c)
  <2>1. /\ step[c] = "room"
        /\ UNCHANGED <<made, num, issued, queue, data, acks, expectedSeq, delivered>>
        /\ (step' = [step EXCEPT ![c] = "number"] /\ at' = at) \/ Advance(c)
    BY <1>2 DEF CheckRoom, hopVars
  <2>2. /\ step' \in [Callers -> {"idle", "room", "number", "insert"}] /\ at' \in [Callers -> Hops]
        /\ \A d \in Callers \ {c} : step'[d] = step[d]
    BY <1>0, <2>1, AdvanceFacts
  <2> QED BY <1>0, <2>1, <2>2 DEF TypeInv, TypeOK
<1>3. CASE TakeNumber(c)
  <2> DEFINE e == [hop |-> at[c], pkt |-> <<c, made[c]>>]
             E == [hop : Hops, pkt : PacketIds]
  <2>1. /\ step[c] = "number"
        /\ issued' = Append(issued, e)
        /\ num' = [num EXCEPT ![c] = Len(issued)]
        /\ step' = [step EXCEPT ![c] = "insert"]
        /\ UNCHANGED <<made, at, queue, data, acks, expectedSeq, delivered>>
    BY <1>3 DEF TakeNumber, hopVars
  <2>2. made[c] \in 1..MaxPackets /\ e \in E
    BY <1>0, <2>1 DEF TypeInv, PacketIds
  <2>3. issued' \in Seq(E) /\ Len(issued) \in Nat
    <3> HIDE DEF e
    <3> QED BY <1>0, <2>1, <2>2
  <2>4. num' \in [Callers -> Nat] /\ step' \in [Callers -> {"idle", "room", "number", "insert"}]
    BY <1>0, <2>1, <2>3
  <2>5. \A d \in Callers : step'[d] # "idle" => made'[d] \in 1..MaxPackets
    BY <1>0, <2>1 DEF TypeInv
  <2> QED BY <1>0, <2>1, <2>3, <2>4, <2>5 DEF TypeInv, TypeOK
<1>4. CASE Insert(c)
  <2> DEFINE e == [no |-> num[c], st |-> "READY"]
             T == [no : Nat, st : Status]
  <2>1. /\ step[c] = "insert" /\ Advance(c)
        /\ queue' = [queue EXCEPT ![at[c]] = Append(queue[at[c]], e)]
        /\ UNCHANGED <<made, num, issued, data, acks, expectedSeq, delivered>>
    BY <1>4 DEF Insert, hopVars
  <2>2. e \in T /\ queue \in [Hops -> Seq(T)] /\ at[c] \in Hops
    BY <1>0 DEF Status
  <2>3. queue' \in [Hops -> Seq(T)]
    <3> HIDE DEF e, T
    <3>1. Append(queue[at[c]], e) \in Seq(T)
      BY <2>2
    <3> QED BY <2>1, <2>2, <3>1
  <2>4. /\ step' \in [Callers -> {"idle", "room", "number", "insert"}] /\ at' \in [Callers -> Hops]
        /\ \A d \in Callers \ {c} : step'[d] = step[d]
    BY <1>0, <2>1, AdvanceFacts
  <2> QED BY <1>0, <2>1, <2>3, <2>4 DEF TypeInv, TypeOK
<1> QED BY <1>1, <1>2, <1>3, <1>4 DEF Caller

LEMMA SenderKeepsTypes ==
    ASSUME TypeInv, NEW h \in Hops, Sender(h)
    PROVE  TypeInv'
<1> DEFINE T == [no : Nat, st : Status]
<1>0. TypeOK /\ queue \in [Hops -> Seq(T)] /\ acks \in [Hops -> Seq(SeqNos)]
  BY DEF TypeInv, TypeOK
<1>1. ASSUME UNCHANGED <<callerVars, hopVars>>, queue' \in [Hops -> Seq(T)],
             data' \in [Hops -> Seq(Nat)], acks' \in [Hops -> Seq(SeqNos)]
      PROVE  TypeInv'
  BY <1>0, <1>1 DEF TypeInv, TypeOK, callerVars, hopVars
<1>2. ASSUME NEW i \in DOMAIN queue[h], NEW arrives \in BOOLEAN, StartSender(h, i, arrives)
      PROVE  TypeInv'
  <2>1. /\ queue' = [queue EXCEPT ![h][i].st = "START"] /\ Transmit(data, h, queue[h][i].no, arrives)
        /\ UNCHANGED <<callerVars, acks, hopVars>>
    BY <1>2 DEF StartSender
  <2>2. queue[h][i].no \in Nat
    BY <1>0, QueueElement
  <2>3. queue' \in [Hops -> Seq(T)] /\ data' \in [Hops -> Seq(Nat)]
    <3>1. "START" \in Status
      BY DEF Status
    <3>2. queue' \in [Hops -> Seq(T)]
      BY <1>0, <2>1, <3>1, SetStatus
    <3>3. data' \in [Hops -> Seq(Nat)]
      BY <1>0, <2>1, <2>2, SendData
    <3> QED BY <3>2, <3>3
  <2> QED BY <1>0, <1>1, <2>1, <2>3
<1>3. ASSUME NEW i \in DOMAIN queue[h], NEW arrives \in BOOLEAN, Resend(h, i, arrives)
      PROVE  TypeInv'
  <2>1. /\ Transmit(data, h, queue[h][i].no, arrives) /\ UNCHANGED <<callerVars, queue, acks, hopVars>>
    BY <1>3 DEF Resend
  <2>2. queue[h][i].no \in Nat
    BY <1>0, QueueElement
  <2>3. data' \in [Hops -> Seq(Nat)]
    BY <1>0, <2>1, <2>2, SendData
  <2> QED BY <1>0, <1>1, <2>1, <2>3
<1>4. ASSUME NEW i \in DOMAIN queue[h], SenderExit(h, i)
      PROVE  TypeInv'
  <2>1. queue' = [queue EXCEPT ![h][i].st = "EXIT"] /\ UNCHANGED <<callerVars, data, acks, hopVars>>
    BY <1>4 DEF SenderExit
  <2>2. queue' \in [Hops -> Seq(T)]
    BY <1>0, <2>1, SetStatus DEF Status
  <2> QED BY <1>0, <1>1, <2>1, <2>2 DEF TypeOK
<1>5. ASSUME NEW i \in DOMAIN queue[h], DelPacket(h, i)
      PROVE  TypeInv'
  <2>1. queue' = [queue EXCEPT ![h] = Without(queue[h], i)] /\ UNCHANGED <<callerVars, data, acks, hopVars>>
    BY <1>5 DEF DelPacket
  <2> HIDE DEF T
  <2>2. Without(queue[h], i) \in Seq(T)
    BY <1>0, WithoutFacts
  <2>3. queue' \in [Hops -> Seq(T)]
    BY <1>0, <2>1, <2>2
  <2> QED BY <1>0, <1>1, <2>1, <2>3 DEF TypeOK
<1>6. ASSUME NEW k \in DOMAIN acks[h], RecvACK(h, k)
      PROVE  TypeInv'
  <2>1. /\ acks' = [acks EXCEPT ![h] = Without(acks[h], k)]
        /\ UNCHANGED <<callerVars, data, hopVars>>
        /\ \/ queue' = queue
           \/ \E i \in DOMAIN queue[h] : queue' = [queue EXCEPT ![h][i].st = "SENDEND"]
    BY <1>6 DEF RecvACK, Matches, Searched
  <2>2. Without(acks[h], k) \in Seq(SeqNos)
    BY <1>0, WithoutFacts
  <2>3. acks' \in [Hops -> Seq(SeqNos)]
    BY <1>0, <2>1, <2>2
  <2>4. queue' \in [Hops -> Seq(T)]
    <3>1. ASSUME NEW i \in DOMAIN queue[h], queue' = [queue EXCEPT ![h][i].st = "SENDEND"]
          PROVE  queue' \in [Hops -> Seq(T)]
      BY <1>0, <3>1, SetStatus DEF Status
    <3> QED BY <1>0, <2>1, <3>1
  <2> QED BY <1>0, <1>1, <2>1, <2>3, <2>4 DEF TypeOK
<1> QED BY <1>2, <1>3, <1>4, <1>5, <1>6 DEF Sender

LEMMA ReceiverKeepsTypes ==
    ASSUME TypeInv, NEW h \in Hops, Receiver(h)
    PROVE  TypeInv'
<1>0. /\ TypeOK
      /\ data \in [Hops -> Seq(Nat)] /\ acks \in [Hops -> Seq(SeqNos)]
      /\ expectedSeq \in [Hops -> SeqNos] /\ delivered \in [Hops -> Seq(Nat)]
  BY DEF TypeInv, TypeOK
<1>1. PICK k \in DOMAIN data[h], arrives \in BOOLEAN : SendingACK(h, k, arrives)
  BY DEF Receiver
<1>2. PICK no : no = data[h][k]
  OBVIOUS
<1>3. no \in Nat /\ SequenceNumber(no) \in SeqNos /\ (SequenceNumber(no) + 1) % SeqMod \in SeqNos
  <2>1. no \in Nat
    BY <1>0, <1>2, ElementOfSeq
  <2> QED BY <2>1, SequenceNumberType
<1>4. /\ data' = [data EXCEPT ![h] = Without(data[h], k)]
      /\ Transmit(acks, h, SequenceNumber(no), arrives) \/ acks' = acks
      /\ \/ /\ expectedSeq' = [expectedSeq EXCEPT ![h] = (SequenceNumber(no) + 1) % SeqMod]
            /\ delivered' = [delivered EXCEPT ![h] = Append(delivered[h], no)]
         \/ UNCHANGED <<expectedSeq, delivered>>
      /\ UNCHANGED <<made, step, at, num, issued, queue>>
  BY <1>1, <1>2 DEF SendingACK, callerVars, hopVars
<1>5. data' \in [Hops -> Seq(Nat)]
  <2>1. Without(data[h], k) \in Seq(Nat)
    BY <1>0, WithoutFacts
  <2> QED BY <1>0, <1>4, <2>1
<1>6. acks' \in [Hops -> Seq(SeqNos)]
  BY <1>0, <1>3, <1>4, SendAck
<1>7. expectedSeq' \in [Hops -> SeqNos] /\ delivered' \in [Hops -> Seq(Nat)]
  <2>1. PICK m : m = (SequenceNumber(no) + 1) % SeqMod
    OBVIOUS
  <2>2. Append(delivered[h], no) \in Seq(Nat) /\ m \in SeqNos
    BY <1>0, <1>3, <2>1
  <2> QED BY <1>0, <1>4, <2>1, <2>2
<1> QED BY <1>0, <1>4, <1>5, <1>6, <1>7 DEF TypeInv, TypeOK

LEMMA AlwaysTypeInv == Spec => []TypeInv
<1>1. Init => TypeInv
  BY InitIInv DEF IInv, TypeInv, Init
<1>2. TypeInv /\ [Next]_vars => TypeInv'
  <2> SUFFICES ASSUME TypeInv, [Next]_vars PROVE TypeInv'
    OBVIOUS
  <2>1. CASE UNCHANGED vars
    BY <2>1 DEF vars, callerVars, hopVars, TypeInv, TypeOK
  <2> QED BY <2>1, CallerKeepsTypes, SenderKeepsTypes, ReceiverKeepsTypes DEF Next
<1> QED BY <1>1, <1>2, PTL DEF Spec

(* The variables of the ARQ keep their types, the numbers on the wire that  *)
(* of a u_short, also when they wrap.                                       *)
THEOREM TypeCorrect == Spec => []TypeOK
<1>1. TypeInv => TypeOK
  BY DEF TypeInv
<1> QED BY <1>1, AlwaysTypeInv, PTL

(* The callers that found room for hop h and have not enqueued yet count as *)
(* if their packet stood in the queue.                                      *)
Waiting(h) == {c \in Callers : step[c] \in {"number", "insert"} /\ at[c] = h}

Room(h) ==
    Waiting(h) # {} \/ queue[h] # <<>> =>
        Len(queue[h]) + Cardinality(Waiting(h)) < TX_QUEUE_LENGTH_MAX + Cardinality(Callers)

RoomInv == \A h \in Hops : Room(h)

LEMMA WaitingFacts ==
    /\ Cardinality(Callers) \in Nat
    /\ \A h : /\ IsFiniteSet(Waiting(h))
              /\ Cardinality(Waiting(h)) \in Nat
              /\ Cardinality(Waiting(h)) <= Cardinality(Callers)
<1>1. IsFiniteSet(Callers)
  BY ConstantsAssumption
<1>2. ASSUME NEW h PROVE Waiting(h) \in SUBSET Callers
  BY DEF Waiting
<1> QED BY <1>1, <1>2, FS_Subset, FS_CardinalityType

LEMMA CallerKeepsRoom ==
    ASSUME TypeInv, RoomInv, NEW c \in Callers, Caller(c), NEW h \in Hops
    PROVE  Room(h)'
<1>0. /\ TypeOK
      /\ step \in [Callers -> {"idle", "room", "number", "insert"}]
      /\ at \in [Callers -> Hops]
      /\ queue \in [Hops -> Seq([no : Nat, st : Status])]
      /\ TX_QUEUE_LENGTH_MAX \in Nat
      /\ Len(queue[h]) \in Nat
  <2>1. /\ TypeOK
        /\ step \in [Callers -> {"idle", "room", "number", "insert"}]
        /\ at \in [Callers -> Hops]
        /\ queue \in [Hops -> Seq([no : Nat, st : Status])]
        /\ TX_QUEUE_LENGTH_MAX \in Nat
    BY ConstantsAssumption DEF TypeInv, TypeOK
  <2> DEFINE T == [no : Nat, st : Status]
  <2>2. queue \in [Hops -> Seq(T)]
    BY <2>1
  <2> HIDE DEF T
  <2>3. queue[h] \in Seq(T)
    BY <2>2
  <2>4. Len(queue[h]) \in Nat
    BY <2>3
  <2> QED BY <2>1, <2>4
<1>1. Room(h)
  BY DEF RoomInv
<1>2. ASSUME Waiting(h)' = Waiting(h), queue' = queue PROVE Room(h)'
  BY <1>1, <1>2 DEF Room
<1>3. \A d \in Callers \ {c} : step'[d] = step[d] /\ at'[d] = at[d]
  <2>1. CASE Begin(c)
    BY <1>0, <2>1 DEF Begin
  <2>2. CASE (CheckRoom(c) /\ Advance(c)) \/ Insert(c)
    BY <1>0, <2>2, AdvanceFacts DEF Insert
  <2>3. CASE (CheckRoom(c) /\ ~Advance(c)) \/ TakeNumber(c)
    BY <1>0, <2>3 DEF CheckRoom, TakeNumber
  <2> QED BY <2>1, <2>2, <2>3 DEF Caller
<1>4. CASE Begin(c)
  <2>1. c \notin Waiting(h) /\ c \notin Waiting(h)' /\ queue' = queue
    BY <1>0, <1>4 DEF Begin, Waiting
  <2>2. Waiting(h)' = Waiting(h)
    BY <1>3, <2>1 DEF Waiting
  <2> QED BY <1>2, <2>1, <2>2
<1>5. CASE CheckRoom(c)
  <2>1. step[c] = "room" /\ queue' = queue /\ c \notin Waiting(h)
    BY <1>5 DEF CheckRoom, Waiting
  <2>2. CASE Advance(c)
    <3>1. c \notin Waiting(h)'
      BY <1>0, <2>2, AdvanceFacts DEF Waiting
    <3>2. Waiting(h)' = Waiting(h)
      BY <1>3, <2>1, <3>1 DEF Waiting
    <3> QED BY <1>2, <2>1, <3>2
  <2>3. CASE ~Advance(c)
    <3>1. /\ Len(queue[at[c]]) < TX_QUEUE_LENGTH_MAX
          /\ step' = [step EXCEPT ![c] = "number"] /\ at' = at
      BY <1>5, <2>3 DEF CheckRoom
    <3>2. CASE h # at[c]
      <4>1. c \notin Waiting(h)'
        BY <3>1, <3>2 DEF Waiting
      <4>2. Waiting(h)' = Waiting(h)
        BY <1>3, <2>1, <4>1 DEF Waiting
      <4> QED BY <1>2, <2>1, <4>2
    <3>3. CASE h = at[c]
      <4>1. PICK W : W = Waiting(h)'
        OBVIOUS
      <4>2. W \in SUBSET Callers
        BY <4>1 DEF Waiting
      <4>3. Cardinality(W) <= Cardinality(Callers) /\ Cardinality(W) \in Nat
            /\ Cardinality(Callers) \in Nat
        BY <4>2, FS_Subset, FS_CardinalityType, ConstantsAssumption
      <4>4. Len(queue[h]) + Cardinality(W) < TX_QUEUE_LENGTH_MAX + Cardinality(Callers)
        BY <1>0, <3>1, <3>3, <4>3
      <4> QED BY <2>1, <4>1, <4>4 DEF Room
    <3> QED BY <3>2, <3>3
  <2> QED BY <2>2, <2>3
<1>6. CASE TakeNumber(c)
  <2>1. /\ step[c] = "number" /\ step' = [step EXCEPT ![c] = "insert"] /\ at' = at /\ queue' = queue
    BY <1>6 DEF TakeNumber
  <2>2. Waiting(h)' = Waiting(h)
    BY <1>0, <2>1 DEF Waiting
  <2> QED BY <1>2, <2>1, <2>2
<1>7. CASE Insert(c)
  <2>1. /\ step[c] = "insert" /\ Advance(c)
        /\ queue' = [queue EXCEPT ![at[c]] = Append(queue[at[c]], [no |-> num[c], st |-> "READY"])]
    BY <1>7 DEF Insert
  <2>2. c \notin Waiting(h)'
    BY <1>0, <2>1, AdvanceFacts DEF Waiting
  <2>3. Waiting(h)' = Waiting(h) \ {c}
    BY <1>3, <2>2 DEF Waiting
  <2>4. CASE h # at[c]
    <3>1. c \notin Waiting(h) /\ queue'[h] = queue[h]
      BY <1>0, <2>1, <2>4 DEF Waiting
    <3>2. Waiting(h)' = Waiting(h)
      BY <2>3, <3>1
    <3> QED BY <1>1, <3>1, <3>2 DEF Room
  <2>5. CASE h = at[c]
    <3>1. c \in Waiting(h)
      BY <2>1, <2>5 DEF Waiting
    <3>2. Len(queue'[h]) = Len(queue[h]) + 1
      <4>1. queue'[h] = Append(queue[h], [no |-> num[c], st |-> "READY"])
        BY <1>0, <2>1, <2>5
      <4> QED BY <1>0, <4>1
    <3>3. Cardinality(Waiting(h) \ {c}) = Cardinality(Waiting(h)) - 1
      BY <3>1, WaitingFacts, FS_RemoveElement
    <3>4. Cardinality(Waiting(h)) \in Nat /\ Cardinality(Callers) \in Nat
      BY WaitingFacts
    <3>5. Len(queue[h]) + Cardinality(Waiting(h)) < TX_QUEUE_LENGTH_MAX + Cardinality(Callers)
      BY <1>1, <3>1 DEF Room
    <3>6. Cardinality(Waiting(h)') = Cardinality(Waiting(h)) - 1
      BY <2>3, <3>3
    <3>7. Len(queue'[h]) + Cardinality(Waiting(h)') < TX_QUEUE_LENGTH_MAX + Cardinality(Callers)
      BY <1>0, <3>2, <3>4, <3>5, <3>6
    <3> QED BY <3>7 DEF Room
  <2> QED BY <2>4, <2>5
<1> QED BY <1>4, <1>5, <1>6, <1>7 DEF Caller

LEMMA OthersKeepRoom ==
    ASSUME TypeInv, RoomInv, NEW g \in Hops, Sender(g) \/ Receiver(g), NEW h \in Hops
    PROVE  Room(h)'
<1> DEFINE T == [no : Nat, st : Status]
<1>0. TypeOK /\ queue \in [Hops -> Seq(T)] /\ TX_QUEUE_LENGTH_MAX \in Nat /\ Room(h)
  BY ConstantsAssumption DEF TypeInv, TypeOK, RoomInv
<1>1. UNCHANGED <<step, at>>
  BY DEF Sender, Receiver, StartSender, Resend, SenderExit, DelPacket, RecvACK, SendingACK, callerVars
<1>2. Waiting(h)' = Waiting(h)
  BY <1>1 DEF Waiting
<1>3. \A q \in Seq(T) : Len(q) \in Nat /\ (q = <<>> <=> Len(q) = 0) /\ DOMAIN q = 1..Len(q)
  <2> HIDE DEF T
  <2> QED OBVIOUS
<1>4. queue'[h] \in Seq(T) /\ Len(queue'[h]) <= Len(queue[h])
  <2> HIDE DEF T
  <2>1. CASE queue' = queue
    BY <1>0, <1>3, <2>1
  <2>2. ASSUME NEW i \in DOMAIN queue[g], NEW st \in Status, queue' = [queue EXCEPT ![g][i].st = st]
        PROVE  queue'[h] \in Seq(T) /\ Len(queue'[h]) <= Len(queue[h])
    <3>1. queue' \in [Hops -> Seq(T)] /\ DOMAIN queue'[h] = DOMAIN queue[h]
      BY <1>0, <2>2, SetStatus DEF T
    <3>2. Len(queue'[h]) \in Nat /\ Len(queue[h]) \in Nat /\ 1..Len(queue'[h]) = 1..Len(queue[h])
      BY <1>0, <1>3, <3>1
    <3>3. Len(queue'[h]) > 0 => Len(queue'[h]) \in 1..Len(queue[h])
      BY <3>2
    <3> QED BY <1>0, <3>1, <3>2, <3>3
  <2>3. ASSUME NEW i \in DOMAIN queue[g], DelPacket(g, i)
        PROVE  queue'[h] \in Seq(T) /\ Len(queue'[h]) <= Len(queue[h])
    <3>1. queue' = [queue EXCEPT ![g] = Without(queue[g], i)] /\ queue[g] \in Seq(T) /\ queue[h] \in Seq(T)
      BY <1>0, <2>3 DEF DelPacket
    <3>2. Without(queue[g], i) \in Seq(T) /\ Len(Without(queue[g], i)) = Len(queue[g]) - 1
      BY <3>1, WithoutFacts, WithoutLen
    <3>3. queue'[h] = IF h = g THEN Without(queue[g], i) ELSE queue[h]
      BY <1>0, <3>1
    <3> QED BY <1>3, <3>1, <3>2, <3>3
  <2>4. CASE Receiver(g)
    BY <2>1, <2>4 DEF Receiver, SendingACK
  <2>5. CASE Sender(g)
    <3>1. /\ "START" \in Status /\ "SENDEND" \in Status /\ "EXIT" \in Status
      BY DEF Status
    <3>2. ASSUME NEW k \in DOMAIN acks[g], RecvACK(g, k)
          PROVE  queue' = queue \/ \E i \in DOMAIN queue[g] : queue' = [queue EXCEPT ![g][i].st = "SENDEND"]
      BY <3>2 DEF RecvACK, Matches, Searched
    <3>3. ASSUME NEW i \in DOMAIN queue[g], NEW arrives \in BOOLEAN, StartSender(g, i, arrives)
          PROVE  queue' = [queue EXCEPT ![g][i].st = "START"]
      BY <3>3 DEF StartSender
    <3>4. ASSUME NEW i \in DOMAIN queue[g], NEW arrives \in BOOLEAN, Resend(g, i, arrives)
          PROVE  queue' = queue
      BY <3>4 DEF Resend
    <3>5. ASSUME NEW i \in DOMAIN queue[g], SenderExit(g, i)
          PROVE  queue' = [queue EXCEPT ![g][i].st = "EXIT"]
      BY <3>5 DEF SenderExit
    <3> QED BY <2>1, <2>2, <2>3, <2>5, <3>1, <3>2, <3>3, <3>4, <3>5 DEF Sender
  <2> QED BY <2>4, <2>5
<1>5. /\ Len(queue[h]) \in Nat /\ Len(queue'[h]) \in Nat
      /\ queue[h] = <<>> <=> Len(queue[h]) = 0
      /\ queue'[h] = <<>> <=> Len(queue'[h]) = 0
  <2> HIDE DEF T
  <2> QED BY <1>0, <1>3, <1>4
<1>6. Cardinality(Waiting(h)) \in Nat /\ Cardinality(Callers) \in Nat
  BY WaitingFacts
<1>7. ASSUME Waiting(h) # {} \/ queue'[h] # <<>>
      PROVE  Len(queue'[h]) + Cardinality(Waiting(h)) < TX_QUEUE_LENGTH_MAX + Cardinality(Callers)
  <2>1. Waiting(h) # {} \/ queue[h] # <<>>
    BY <1>4, <1>5, <1>7
  <2> QED BY <1>0, <1>4, <1>5, <1>6, <2>1 DEF Room
<1> QED BY <1>2, <1>7 DEF Room

(* The test of queueSize outside of queueMutex costs no more than one place *)
(* for each thread that passed it at the same time.                         *)
THEOREM QueueIsBounded == Spec => []QueueBound
<1>1. Init => RoomInv
  <2> SUFFICES ASSUME Init, NEW h \in Hops PROVE Room(h)
    BY DEF RoomInv
  <2>1. Waiting(h) = {} /\ queue[h] = <<>>
    BY DEF Init, Waiting
  <2> QED BY <2>1 DEF Room
<1>2. TypeInv /\ RoomInv /\ [Next]_vars => RoomInv'
  <2> SUFFICES ASSUME TypeInv, RoomInv, [Next]_vars, NEW h \in Hops PROVE Room(h)'
    BY DEF RoomInv
  <2>1. CASE UNCHANGED vars
    <3>1. Waiting(h)' = Waiting(h) /\ queue' = queue
      BY <2>1 DEF Waiting, vars, callerVars
    <3> QED BY <3>1 DEF RoomInv, Room
  <2> QED BY <2>1, CallerKeepsRoom, OthersKeepRoom DEF Next
<1>3. TypeInv /\ RoomInv => QueueBound
  <2> SUFFICES ASSUME TypeInv, RoomInv, NEW h \in Hops, queue[h] # <<>>
               PROVE  Len(queue[h]) < TX_QUEUE_LENGTH_MAX + Cardinality(Callers)
    BY DEF QueueBound
  <2>1. Len(queue[h]) + Cardinality(Waiting(h)) < TX_QUEUE_LENGTH_MAX + Cardinality(Callers)
    BY DEF RoomInv, Room
  <2>2. /\ Len(queue[h]) \in Nat /\ Cardinality(Waiting(h)) \in Nat /\ Cardinality(Callers) \in Nat
        /\ TX_QUEUE_LENGTH_MAX \in Nat
    BY WaitingFacts, ConstantsAssumption DEF TypeInv, TypeOK
  <2> QED BY <2>1, <2>2
<1> QED BY <1>1, <1>2, <1>3, AlwaysTypeInv, PTL DEF Spec
=============================================================================
