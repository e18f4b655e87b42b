------------------------- MODULE ControlLoopProofs --------------------------
(***************************************************************************)
(* Proofs about ControlLoop, for every tree of clients, every number of    *)
(* threads and every bound: which period messages go down the tree while   *)
(* threads overtake each other; how the server's handler walks its list;   *)
(* how the announcements tile the images; and what the handler counts,     *)
(* through the sort, the scan and the sums over the images.                *)
(***************************************************************************)
EXTENDS ControlLoop, DataLemmas, FiniteSetTheorems

ThreadState ==
    [step : {"recv", "test", "new", "relay", "store"}, msg : PeriodMessage]

RelayTypes ==
    /\ interval \in Period
    /\ issued \in Seq(PeriodMessage)
    /\ relayed \in [Clients -> Seq(PeriodMessage)]
    /\ number \in [Clients -> Nat]
    /\ period \in [Clients -> Period]
    /\ thread \in [Clients -> [Threads -> ThreadState]]
    /\ phase \in [Clients -> {"beacon", "sending", "stopping", "stopped"}]

LEMMA LastElement ==
    ASSUME NEW S, NEW s \in Seq(S), NEW e \in S
    PROVE  /\ Append(s, e) \in Seq(S)
           /\ Append(s, e) # <<>>
           /\ Len(Append(s, e)) = Len(s) + 1
           /\ DOMAIN Append(s, e) = DOMAIN s \cup {Len(s) + 1}
           /\ DOMAIN s = 1..Len(s)
           /\ Len(s) \in Nat
           /\ \A i \in DOMAIN s : Append(s, e)[i] = s[i]
           /\ Append(s, e)[Len(s) + 1] = e
  OBVIOUS

LEMMA ElementOf ==
    ASSUME NEW S, NEW s \in Seq(S), NEW i \in DOMAIN s
    PROVE  s[i] \in S
  OBVIOUS

LEMMA InitRelayTypes == LoopInit => RelayTypes
  BY DEF LoopInit, SenderInit, StaticInit, RateInit, RelayTypes, ThreadState,
         InitialPeriod, Period, Idle, PeriodMessage
-----------------------------------------------------------------------------
(* The server leaves the clients alone and adds to its messages only.      *)
ServerStep == Main \/ ReceiverThread \/ Handler \/ \E c \in Clients : ValueThread(c)

NewMessage(p) ==
    interval' = p /\ issued' = Append(issued, [no |-> Len(issued) + 1, period |-> p])

LEMMA ServerIssues ==
    ASSUME RelayTypes, ServerStep
    PROVE  /\ UNCHANGED senderVars
           /\ UNCHANGED periodVars \/ \E p \in Period : NewMessage(p)
<1>1. Longer \in Period /\ Shorter \in Period
  BY DEF RelayTypes, Period, Longer, Shorter
<1>2. ASSUME NEW high, AdaptPeriod(high)
      PROVE  UNCHANGED periodVars \/ \E p \in Period : NewMessage(p)
  BY <1>1, <1>2 DEF AdaptPeriod, SendingPeriodControl, NewMessage
<1>3. ASSUME FixedPeriod
      PROVE  UNCHANGED periodVars \/ \E p \in Period : NewMessage(p)
  BY <1>1, <1>3 DEF FixedPeriod, StaticSendingPeriodControl, SendingPeriodControl, NewMessage
<1>4. CASE Main
  BY <1>4 DEF Main, Adaptive, Static, InOrder, SendingBeacon, StaticSendingBeacon,
              InOrderSendingBeacon, ExitServer, StaticExitServer, InOrderExitServer
<1>5. CASE ReceiverThread
  BY <1>5 DEF ReceiverThread, Adaptive, Static, InOrder, ReceiveImageFile,
              StaticReceiveImageFile, InOrderReceiveImageFile, ReceiveTimeout,
              StaticReceiveTimeout, InOrderReceiveTimeout
<1>6. CASE \E c \in Clients : ValueThread(c)
  BY <1>6 DEF ValueThread, Adaptive, Static, InOrder, ReceiveValueMessage,
              StaticReceiveValueMessage, InOrderReceiveValueMessage
<1>7. CASE Handler
  <2>1. UNCHANGED senderVars
    BY <1>7 DEF Handler, Adaptive, Static, InOrder
  <2>2. \/ TimerExpires \/ FirstMessage \/ CountMessage \/ DeletePacket \/ SkipPacket
        \/ EndMessage \/ EndCycle \/ StaticEndCycle \/ InOrderEndCycle
    BY <1>7 DEF Handler, StaticTimerExpires, StaticFirstMessage, StaticCountMessage,
                StaticDeletePacket, StaticSkipPacket, StaticEndMessage,
                InOrderTimerExpires, InOrderFirstMessage, InOrderCountMessage,
                InOrderDeletePacket, InOrderSkipPacket, InOrderEndMessage
  <2>3. CASE TimerExpires \/ FirstMessage \/ CountMessage \/ DeletePacket \/ SkipPacket \/ EndMessage
    BY <2>1, <2>3 DEF TimerExpires, FirstMessage, CountMessage, DeletePacket, SkipPacket, EndMessage
  <2>4. CASE EndCycle
    BY <2>1, <2>4, <1>2 DEF EndCycle
  <2>5. CASE StaticEndCycle
    BY <2>1, <2>5, <1>3 DEF StaticEndCycle
  <2>6. CASE InOrderEndCycle
    BY <2>1, <2>6, <1>2 DEF InOrderEndCycle
  <2> QED BY <2>2, <2>3, <2>4, <2>5, <2>6
<1> QED BY <1>4, <1>5, <1>6, <1>7 DEF ServerStep
-----------------------------------------------------------------------------
(***************************************************************************)
(* The steps of a client leave the types of its messages alone, however    *)
(* many connections it serves at a time.                                   *)
(***************************************************************************)
LEMMA IdleState == Idle \in ThreadState /\ Idle.step = "recv"
  BY DEF Idle, ThreadState, InitialPeriod, PeriodMessage, Period

LEMMA ThreadKeepsRelayTypes ==
    ASSUME RelayTypes, NEW c \in Clients, NEW t \in Threads,
           ConnectionThread(c, t, issued), UNCHANGED serverVars
    PROVE  RelayTypes'
<1> USE DEF RelayTypes
<1>1. UNCHANGED <<interval, issued, phase>>
  BY DEF ConnectionThread, RecvMessage, TestNumber, StoreNumber, Relay, StorePeriod,
         mainVars, serverVars, rateVars, periodVars
<1> DEFINE th == thread[c][t]
<1>2. /\ th \in ThreadState
      /\ th.msg \in PeriodMessage /\ th.msg.no \in Nat /\ th.msg.period \in Period
  BY DEF PeriodMessage, ThreadState
<1>3. /\ [th EXCEPT !.step = "new"] \in ThreadState
      /\ [th EXCEPT !.step = "relay"] \in ThreadState
      /\ [th EXCEPT !.step = "store"] \in ThreadState
  BY <1>2 DEF ThreadState
<1>4. CASE RecvMessage(c, t, issued)
  <2>1. PICK i \in DOMAIN Incoming(c, issued) :
          /\ thread' = [thread EXCEPT ![c][t] = [step |-> "test", msg |-> Incoming(c, issued)[i]]]
          /\ UNCHANGED <<number, period, relayed>>
    BY <1>4 DEF RecvMessage
  <2>2. Incoming(c, issued) \in Seq(PeriodMessage)
    BY NetworkAssumption DEF Incoming
  <2>3. [step |-> "test", msg |-> Incoming(c, issued)[i]] \in ThreadState
    BY <2>2, ElementOf DEF ThreadState
  <2> QED BY <1>1, <2>1, <2>3
<1>5. CASE TestNumber(c, t)
  <2> DEFINE new == IF IsNew(c, th.msg) THEN [th EXCEPT !.step = "new"] ELSE Idle
  <2>1. thread' = [thread EXCEPT ![c][t] = new] /\ UNCHANGED <<number, period, relayed>>
    BY <1>5 DEF TestNumber
  <2>2. new \in ThreadState
    BY <1>3, IdleState
  <2> HIDE DEF new
  <2> QED BY <1>1, <2>1, <2>2
<1>6. CASE StoreNumber(c, t)
  <2>1. /\ number' = [number EXCEPT ![c] = th.msg.no]
        /\ thread' = [thread EXCEPT ![c][t] = [th EXCEPT !.step = "relay"]]
        /\ UNCHANGED <<period, relayed>>
    BY <1>6 DEF StoreNumber
  <2> HIDE DEF th
  <2> QED BY <1>1, <1>2, <1>3, <2>1
<1>7. CASE Relay(c, t)
  <2>1. /\ relayed' = [relayed EXCEPT ![c] = Append(relayed[c], th.msg)]
        /\ thread' = [thread EXCEPT ![c][t] = [th EXCEPT !.step = "store"]]
        /\ UNCHANGED <<number, period>>
    BY <1>7 DEF Relay
  <2>2. Append(relayed[c], th.msg) \in Seq(PeriodMessage)
    BY <1>2, LastElement
  <2> HIDE DEF th
  <2> QED BY <1>1, <1>3, <2>1, <2>2
<1>8. CASE StorePeriod(c, t)
  <2>1. /\ period' = [period EXCEPT ![c] = th.msg.period]
        /\ thread' = [thread EXCEPT ![c][t] = Idle]
        /\ UNCHANGED <<number, relayed>>
    BY <1>8 DEF StorePeriod
  <2> HIDE DEF th
  <2> QED BY <1>1, <1>2, <2>1, IdleState
<1> QED BY <1>4, <1>5, <1>6, <1>7, <1>8 DEF ConnectionThread

LEMMA NextKeepsRelayTypes ==
    ASSUME RelayTypes, [LoopNext]_loopVars
    PROVE  RelayTypes'
<1>1. CASE ServerStep
  <2>1. UNCHANGED senderVars
    BY <1>1, ServerIssues
  <2>2. CASE UNCHANGED periodVars
    BY <2>1, <2>2 DEF RelayTypes, senderVars, mainVars, threadVars, periodVars
  <2>3. ASSUME NEW p \in Period, NewMessage(p) PROVE RelayTypes'
    <3>1. Len(issued) \in Nat
      BY DEF RelayTypes
    <3>2. [no |-> Len(issued) + 1, period |-> p] \in PeriodMessage
      BY <3>1 DEF PeriodMessage
    <3>3. issued' \in Seq(PeriodMessage)
      BY <2>3, <3>2, LastElement DEF RelayTypes, NewMessage
    <3> QED BY <2>1, <2>3, <3>3 DEF RelayTypes, NewMessage, senderVars, mainVars, threadVars
  <2> QED BY <1>1, <2>2, <2>3, ServerIssues
<1>2. ASSUME NEW c \in Clients, Control(c) \/ Sending(c) PROVE RelayTypes'
  <2>1. /\ UNCHANGED <<interval, issued, relayed, number, thread>>
        /\ UNCHANGED period \/ period' = [period EXCEPT ![c] = InitialPeriod]
        /\ \/ UNCHANGED phase
           \/ \E q \in {"sending", "stopping", "stopped"} : phase' = [phase EXCEPT ![c] = q]
    BY <1>2 DEF Control, Sending, WaitingBeacon, WaitExitCode, Stop, MainLoop, SendFragment,
                TestChange, ResetChange, EndOfImage, threadVars, serverVars, rateVars, periodVars
  <2>2. InitialPeriod \in Period
    BY DEF InitialPeriod, Period
  <2> QED BY <2>1, <2>2 DEF RelayTypes
<1>3. ASSUME NEW c \in Clients, Connections(c) PROVE RelayTypes'
  BY <1>3, ThreadKeepsRelayTypes DEF Connections
<1>4. CASE UNCHANGED loopVars
  BY <1>4 DEF RelayTypes, loopVars, senderVars, mainVars, threadVars, serverVars, rateVars, periodVars
<1> QED BY <1>1, <1>2, <1>3, <1>4 DEF LoopNext, ServerStep
-----------------------------------------------------------------------------
(***************************************************************************)
(* What a client has read goes on to its children.  The unlocked number    *)
(* may go back when threads overtake each other; what is never lost is     *)
(* that the number it stands at was passed on, or a thread is about to.    *)
(***************************************************************************)
Accounted(c, no) ==
    \/ \E j \in DOMAIN relayed[c] : relayed[c][j].no = no
    \/ \E t \in Threads : thread[c][t].step = "relay" /\ thread[c][t].msg.no = no

Covered(c, no) ==
    \/ \E j \in DOMAIN relayed[c] : relayed[c][j].no >= no
    \/ \E t \in Threads : /\ thread[c][t].step \in {"test", "new", "relay"}
                          /\ thread[c][t].msg.no >= no

(* The server numbers its messages from 1; a client's number is 0 at first. *)
Positive ==
    /\ \A i \in DOMAIN issued : issued[i].no > 0
    /\ \A c \in Clients :
          /\ \A j \in DOMAIN relayed[c] : relayed[c][j].no > 0
          /\ \A t \in Threads : thread[c][t].step # "recv" => thread[c][t].msg.no > 0

Reading ==
    \A c \in Clients :
        /\ number[c] = 0 \/ Accounted(c, number[c])
        /\ \A i \in got[c] : /\ i \in DOMAIN Incoming(c, issued)
                             /\ Covered(c, Incoming(c, issued)[i].no)

ReadInv ==
    /\ RelayTypes
    /\ got \in [Clients -> SUBSET Nat]
    /\ Positive
    /\ Reading

(* Histories only grow.                                                    *)
Grown ==
    /\ \A i \in DOMAIN issued : i \in DOMAIN issued' /\ issued'[i] = issued[i]
    /\ \A c \in Clients : \A j \in DOMAIN relayed[c] :
          j \in DOMAIN relayed'[c] /\ relayed'[c][j] = relayed[c][j]

LEMMA IncomingGrows ==
    ASSUME Grown, NEW c \in Clients, NEW i \in DOMAIN Incoming(c, issued)
    PROVE  /\ i \in DOMAIN Incoming(c, issued)'
           /\ Incoming(c, issued)'[i] = Incoming(c, issued)[i]
  BY NetworkAssumption DEF Grown, Incoming

LEMMA IncomingType ==
    ASSUME RelayTypes, Positive, NEW c \in Clients, NEW i \in DOMAIN Incoming(c, issued)
    PROVE  /\ Incoming(c, issued)[i] \in PeriodMessage
           /\ Incoming(c, issued)[i].no \in Nat
           /\ Incoming(c, issued)[i].no > 0
           /\ i \in Nat
<1>1. Incoming(c, issued) \in Seq(PeriodMessage)
  BY NetworkAssumption DEF Incoming, RelayTypes
<1>2. Incoming(c, issued)[i] \in PeriodMessage /\ i \in Nat
  BY <1>1, ElementOf
<1>3. Incoming(c, issued)[i].no > 0
  BY NetworkAssumption DEF Incoming, Positive
<1> QED BY <1>2, <1>3 DEF PeriodMessage

LEMMA InitReadInv == LoopInit => ReadInv
<1> SUFFICES ASSUME LoopInit PROVE ReadInv
  OBVIOUS
<1>1. got \in [Clients -> SUBSET Nat] /\ Positive /\ Reading
  BY DEF LoopInit, SenderInit, StaticInit, RateInit, Positive, Reading, Idle
<1> QED BY <1>1, InitRelayTypes DEF ReadInv

(* A new message of the server: what the clients have stays as it is.      *)
LEMMA ServerKeepsReading ==
    ASSUME ReadInv, ServerStep
    PROVE  ReadInv'
<1>1. UNCHANGED <<relayed, number, thread, got>>
  BY ServerIssues DEF ReadInv, senderVars, threadVars
<1>2. RelayTypes'
  BY NextKeepsRelayTypes DEF ReadInv, ServerStep, LoopNext
<1>3. issued \in Seq(PeriodMessage) /\ Len(issued) \in Nat
  BY DEF ReadInv, RelayTypes
<1>4. /\ \A i \in DOMAIN issued : i \in DOMAIN issued' /\ issued'[i] = issued[i]
      /\ \A i \in DOMAIN issued' : i \in DOMAIN issued \/ issued'[i].no > 0
  <2>1. CASE UNCHANGED periodVars
    BY <2>1 DEF periodVars
  <2>2. ASSUME NEW p \in Period, NewMessage(p)
        PROVE  /\ \A i \in DOMAIN issued : i \in DOMAIN issued' /\ issued'[i] = issued[i]
               /\ \A i \in DOMAIN issued' : i \in DOMAIN issued \/ issued'[i].no > 0
    <3> DEFINE m == [no |-> Len(issued) + 1, period |-> p]
    <3>1. m \in PeriodMessage /\ m.no > 0
      BY <1>3 DEF PeriodMessage
    <3>2. issued' = Append(issued, m)
      BY <2>2 DEF NewMessage
    <3> HIDE DEF m
    <3> QED BY <1>3, <3>1, <3>2, LastElement
  <2> QED BY <2>1, <2>2, ServerIssues DEF ReadInv
<1>5. Grown
  BY <1>1, <1>4 DEF Grown
<1>6. Positive'
  BY <1>1, <1>4 DEF ReadInv, Positive
<1>7. Reading'
  BY <1>1, <1>5, IncomingGrows DEF ReadInv, Reading, Accounted, Covered
<1> QED BY <1>1, <1>2, <1>6, <1>7 DEF ReadInv

(* A step of one thread: the other threads and clients stay as they are.   *)
LEMMA ThreadKeepsReading ==
    ASSUME ReadInv, NEW c \in Clients, NEW t \in Threads,
           ConnectionThread(c, t, issued), UNCHANGED serverVars
    PROVE  ReadInv'
<1>1. RelayTypes'
  BY ThreadKeepsRelayTypes DEF ReadInv
<1>2. UNCHANGED issued
  BY DEF serverVars, rateVars, periodVars
<1> DEFINE th == thread[c][t]
           m == th.msg
<1>3. th \in ThreadState /\ m \in PeriodMessage /\ m.no \in Nat
  BY DEF ReadInv, RelayTypes, ThreadState, PeriodMessage
<1>4. /\ number \in [Clients -> Nat]
      /\ thread \in [Clients -> [Threads -> ThreadState]]
      /\ relayed \in [Clients -> Seq(PeriodMessage)]
      /\ got \in [Clients -> SUBSET Nat]
  BY DEF ReadInv, RelayTypes
<1>5. \A d \in Clients : \A u \in Threads :
          thread[d][u].msg.no \in Nat
  BY <1>4 DEF ThreadState, PeriodMessage
<1>6. \A d \in Clients : \A j \in DOMAIN relayed[d] : relayed[d][j].no \in Nat
  <2>1. ASSUME NEW d \in Clients, NEW j \in DOMAIN relayed[d]
        PROVE  relayed[d][j].no \in Nat
    <3>1. relayed[d][j] \in PeriodMessage
      BY <1>4, ElementOf
    <3> QED BY <3>1 DEF PeriodMessage
  <2> QED BY <2>1
<1>7. CASE RecvMessage(c, t, issued)
  <2>1. PICK i \in DOMAIN Incoming(c, issued) :
          /\ thread' = [thread EXCEPT ![c][t] = [step |-> "test", msg |-> Incoming(c, issued)[i]]]
          /\ got' = [got EXCEPT ![c] = @ \cup {i}]
          /\ UNCHANGED <<number, relayed>>
          /\ thread[c][t].step = "recv"
    BY <1>7 DEF RecvMessage
  <2>2. PICK n : n = Incoming(c, issued)[i] /\ n.no \in Nat /\ n.no > 0 /\ i \in Nat
    BY IncomingType DEF ReadInv
  <2>3. Grown
    BY <1>2, <2>1 DEF Grown
  <2>4. /\ thread'[c][t].step = "test" /\ thread'[c][t].msg = n
        /\ \A d \in Clients : \A u \in Threads :
             d # c \/ u # t => thread'[d][u] = thread[d][u]
    BY <1>4, <2>1, <2>2
  <2>5. /\ got' \in [Clients -> SUBSET Nat]
        /\ \A d \in Clients : got'[d] \subseteq got[d] \cup {i}
        /\ \A d \in Clients : d # c => got'[d] = got[d]
    BY <1>4, <2>1, <2>2
  <2>6. Positive'
    BY <1>2, <2>1, <2>2, <2>4 DEF ReadInv, Positive
  <2>7. \A d \in Clients : \A no \in Nat : Covered(d, no) => Covered(d, no)'
    BY <2>1, <2>4 DEF Covered
  <2>8. \A d \in Clients : \A no \in Nat : Accounted(d, no) => Accounted(d, no)'
    BY <2>1, <2>4 DEF Accounted
  <2>9. Covered(c, n.no)'
    BY <2>2, <2>4 DEF Covered
  <2>10. ASSUME NEW d \in Clients PROVE number'[d] = 0 \/ Accounted(d, number[d])'
    BY <1>4, <2>1, <2>8 DEF ReadInv, Reading
  <2>11. ASSUME NEW d \in Clients, NEW k \in got'[d]
         PROVE  /\ k \in DOMAIN Incoming(d, issued)'
                /\ Covered(d, Incoming(d, issued)[k].no)'
    <3>1. CASE k \in got[d]
      <4>1. k \in DOMAIN Incoming(d, issued) /\ Covered(d, Incoming(d, issued)[k].no)
        BY <3>1 DEF ReadInv, Reading
      <4>2. Incoming(d, issued)[k].no \in Nat
        BY <4>1, IncomingType DEF ReadInv
      <4> QED BY <2>1, <2>7, <4>1, <4>2, <1>2 DEF Incoming
    <3>2. CASE d = c /\ k = i
      <4>1. Incoming(c, issued)' = Incoming(c, issued)
        BY <1>2, <2>1 DEF Incoming
      <4> QED BY <2>1, <2>2, <2>9, <3>2, <4>1
    <3> QED BY <2>5, <3>1, <3>2
  <2>12. Reading'
    BY <2>1, <2>10, <2>11 DEF Reading
  <2> QED BY <1>1, <2>5, <2>6, <2>12 DEF ReadInv
<1>8. CASE ~RecvMessage(c, t, issued)
  <2>1. UNCHANGED got
    BY <1>8 DEF ConnectionThread, TestNumber, StoreNumber, Relay, StorePeriod
  <2>2. /\ th.step # "recv"
        /\ \/ UNCHANGED relayed
           \/ relayed' = [relayed EXCEPT ![c] = Append(relayed[c], m)]
        /\ \/ UNCHANGED number
           \/ number' = [number EXCEPT ![c] = m.no]
        /\ \/ thread' = [thread EXCEPT ![c][t] = Idle]
           \/ \E s \in {"new", "relay", "store"} :
                thread' = [thread EXCEPT ![c][t] = [th EXCEPT !.step = s]]
    <3>1. CASE TestNumber(c, t)
      BY <3>1 DEF TestNumber
    <3>2. CASE StoreNumber(c, t)
      BY <3>2 DEF StoreNumber
    <3>3. CASE Relay(c, t)
      BY <3>3 DEF Relay
    <3>4. CASE StorePeriod(c, t)
      BY <3>4 DEF StorePeriod
    <3> QED BY <1>8, <3>1, <3>2, <3>3, <3>4 DEF ConnectionThread
  <2>3. /\ thread'[c][t].step # "recv" => thread'[c][t].msg = m
        /\ \A d \in Clients : \A u \in Threads :
             d # c \/ u # t => thread'[d][u] = thread[d][u]
    BY <1>3, <1>4, <2>2, IdleState DEF ThreadState
  <2>4. m.no > 0
    BY <2>2 DEF ReadInv, Positive
  <2>5. ASSUME NEW d \in Clients
        PROVE  /\ \A j \in DOMAIN relayed[d] :
                     j \in DOMAIN relayed'[d] /\ relayed'[d][j] = relayed[d][j]
               /\ \A j \in DOMAIN relayed'[d] :
                     j \in DOMAIN relayed[d] \/ relayed'[d][j] = m
    <3>1. CASE relayed'[d] = relayed[d]
      BY <3>1
    <3>2. CASE d = c /\ relayed'[c] = Append(relayed[c], m)
      <4>1. relayed[c] \in Seq(PeriodMessage)
        BY <1>4
      <4> QED BY <1>3, <3>2, <4>1, LastElement
    <3> QED BY <1>4, <2>2, <3>1, <3>2
  <2>6. Grown
    BY <1>2, <2>5 DEF Grown
  <2>7. Positive'
    <3>1. ASSUME NEW d \in Clients, NEW j \in DOMAIN relayed'[d] PROVE relayed'[d][j].no > 0
      BY <2>4, <2>5 DEF ReadInv, Positive
    <3>2. ASSUME NEW d \in Clients, NEW u \in Threads, thread'[d][u].step # "recv"
          PROVE  thread'[d][u].msg.no > 0
      BY <2>3, <2>4, <3>2 DEF ReadInv, Positive
    <3> QED BY <1>2, <3>1, <3>2 DEF ReadInv, Positive
  <2>8. \A d \in Clients \ {c} : \A no \in Nat :
          /\ Covered(d, no) => Covered(d, no)'
          /\ Accounted(d, no) => Accounted(d, no)'
    BY <2>3, <2>5 DEF Covered, Accounted
  <2>9. /\ \A no \in Nat : Covered(c, no) => Covered(c, no)'
        /\ number'[c] = 0 \/ Accounted(c, number[c])'
    <3>1. number[c] = 0 \/ Accounted(c, number[c])
      BY DEF ReadInv, Reading
    <3>2. CASE TestNumber(c, t)
      <4>1. /\ thread' = [thread EXCEPT ![c][t] =
                            IF m.no > number[c] THEN [th EXCEPT !.step = "new"] ELSE Idle]
            /\ th.step = "test" /\ UNCHANGED <<number, relayed>>
        BY <3>2 DEF TestNumber, IsNew
      <4>2. Accounted(c, number[c]) => Accounted(c, number[c])'
        BY <2>3, <4>1 DEF Accounted
      <4>3. CASE m.no > number[c]
        <5>1. thread'[c][t].step = "new" /\ thread'[c][t].msg = m
          BY <1>3, <1>4, <4>1, <4>3 DEF ThreadState
        <5>2. \A no \in Nat : Covered(c, no) => Covered(c, no)'
          BY <2>3, <4>1, <5>1 DEF Covered
        <5> QED BY <3>1, <4>1, <4>2, <5>2
      <4>4. CASE ~(m.no > number[c])
        <5>1. Accounted(c, number[c]) /\ number[c] >= m.no /\ number[c] \in Nat
          BY <1>3, <1>4, <2>4, <3>1, <4>4
        <5>2. ASSUME NEW no \in Nat, m.no >= no PROVE Covered(c, no)'
          <6>1. number[c] >= no
            BY <1>3, <5>1, <5>2
          <6> QED BY <4>1, <4>2, <5>1, <6>1 DEF Accounted, Covered
        <5>3. \A no \in Nat : Covered(c, no) => Covered(c, no)'
          BY <2>3, <4>1, <5>2 DEF Covered
        <5> QED BY <3>1, <4>1, <4>2, <5>3
      <4> QED BY <4>3, <4>4
    <3>3. CASE StoreNumber(c, t)
      <4>1. /\ thread'[c][t].step = "relay" /\ thread'[c][t].msg = m
            /\ number'[c] = m.no /\ th.step = "new" /\ UNCHANGED relayed
        BY <1>3, <1>4, <3>3 DEF StoreNumber, ThreadState
      <4>2. \A no \in Nat : Covered(c, no) => Covered(c, no)'
        BY <2>3, <4>1 DEF Covered
      <4>3. Accounted(c, number[c])'
        BY <4>1 DEF Accounted
      <4> QED BY <4>2, <4>3
    <3>4. CASE Relay(c, t)
      <4>1. /\ relayed'[c] = Append(relayed[c], m) /\ UNCHANGED number
            /\ th.step = "relay"
        BY <1>4, <3>4 DEF Relay
      <4>2. relayed[c] \in Seq(PeriodMessage)
        BY <1>4
      <4>3. PICK k \in DOMAIN relayed'[c] : relayed'[c][k] = m
        BY <1>3, <4>1, <4>2, LastElement
      <4>4. \A no \in Nat : Covered(c, no) => Covered(c, no)'
        BY <2>3, <2>5, <4>3 DEF Covered
      <4>5. \A no \in Nat : Accounted(c, no) => Accounted(c, no)'
        BY <2>3, <2>5, <4>3 DEF Accounted
      <4> QED BY <1>4, <3>1, <4>1, <4>4, <4>5
    <3>5. CASE StorePeriod(c, t)
      <4>1. th.step = "store" /\ UNCHANGED <<number, relayed>>
        BY <3>5 DEF StorePeriod
      <4> QED BY <2>3, <3>1, <4>1 DEF Covered, Accounted
    <3> QED BY <1>8, <3>2, <3>3, <3>4, <3>5 DEF ConnectionThread
  <2>10. \A d \in Clients \ {c} : number'[d] = number[d]
    BY <1>4, <2>2
  <2>11. ASSUME NEW d \in Clients
         PROVE  /\ number'[d] = 0 \/ Accounted(d, number[d])'
                /\ \A i \in got'[d] : /\ i \in DOMAIN Incoming(d, issued)'
                                      /\ Covered(d, Incoming(d, issued)[i].no)'
    <3>1. number'[d] = 0 \/ Accounted(d, number[d])'
      BY <1>4, <2>8, <2>9, <2>10 DEF ReadInv, Reading
    <3>2. ASSUME NEW i \in got'[d]
          PROVE  i \in DOMAIN Incoming(d, issued)' /\ Covered(d, Incoming(d, issued)[i].no)'
      <4>1. i \in DOMAIN Incoming(d, issued) /\ Covered(d, Incoming(d, issued)[i].no)
        BY <2>1 DEF ReadInv, Reading
      <4>2. Incoming(d, issued)[i].no \in Nat
        BY <4>1, IncomingType DEF ReadInv
      <4>3. /\ i \in DOMAIN Incoming(d, issued)'
            /\ Incoming(d, issued)'[i] = Incoming(d, issued)[i]
        BY <2>6, <4>1, IncomingGrows
      <4> QED BY <2>8, <2>9, <4>1, <4>2, <4>3
    <3> QED BY <3>1, <3>2
  <2>12. Reading'
    BY <2>11 DEF Reading
  <2> QED BY <1>1, <1>4, <2>1, <2>7, <2>12 DEF ReadInv
<1> QED BY <1>7, <1>8

LEMMA NextKeepsReadInv ==
    ASSUME ReadInv, [LoopNext]_loopVars
    PROVE  ReadInv'
<1>1. CASE ServerStep
  BY <1>1, ServerKeepsReading
<1>2. ASSUME NEW c \in Clients, Control(c) \/ Sending(c)
      PROVE  ReadInv'
  <2>1. UNCHANGED <<issued, relayed, number, thread, got>>
    BY <1>2 DEF Control, Sending, WaitingBeacon, WaitExitCode, Stop, MainLoop, SendFragment,
                TestChange, ResetChange, EndOfImage, threadVars, serverVars, rateVars, periodVars
  <2> QED BY <2>1, NextKeepsRelayTypes
          DEF ReadInv, Positive, Reading, Accounted, Covered, Incoming
<1>3. ASSUME NEW c \in Clients, Connections(c)
      PROVE  ReadInv'
  BY <1>3, ThreadKeepsReading DEF Connections
<1>4. CASE UNCHANGED loopVars
  <2>1. UNCHANGED <<issued, relayed, number, thread, got>>
    BY <1>4 DEF loopVars, senderVars, threadVars, serverVars, rateVars, periodVars
  <2> QED BY <2>1, NextKeepsRelayTypes
          DEF ReadInv, Positive, Reading, Accounted, Covered, Incoming
<1> QED BY <1>1, <1>2, <1>3, <1>4 DEF LoopNext, ServerStep

(* In every tree, with any number of connections served at a time and       *)
(* whatever they give late or never: each period message a client has read  *)
(* was sent to its children, or a newer one was, or a thread still has it   *)
(* or a newer one in hand (recvNewIntvlMessTCP, without a lock).            *)
THEOREM NewestAlwaysRelayed == LoopSpec => []NewestRelayed
<1>1. ReadInv /\ [LoopNext]_loopVars => ReadInv'
  BY NextKeepsReadInv
<1>2. ReadInv => NewestRelayed
  <2> SUFFICES ASSUME ReadInv, NEW c \in Clients, NEW i \in got[c]
               PROVE  \/ \E j \in 1..Len(relayed[c]) :
                            relayed[c][j].no >= Incoming(c, issued)[i].no
                      \/ \E t \in Threads :
                            /\ thread[c][t].step \in {"test", "new", "relay"}
                            /\ thread[c][t].msg.no >= Incoming(c, issued)[i].no
    BY DEF NewestRelayed
  <2>1. Covered(c, Incoming(c, issued)[i].no)
    BY DEF ReadInv, Reading
  <2>2. relayed[c] \in Seq(PeriodMessage)
    BY DEF ReadInv, RelayTypes
  <2>3. DOMAIN relayed[c] = 1..Len(relayed[c])
    BY <2>2
  <2> QED BY <2>1, <2>3 DEF Covered
<1> QED BY <1>1, <1>2, InitReadInv, PTL DEF LoopSpec
-----------------------------------------------------------------------------
(***************************************************************************)
(* The walk of CalcDataRecvRate through One_Packet_Data.                   *)
(***************************************************************************)
WalkInv ==
    /\ packets \in Seq(Fragment)
    /\ cur \in Nat
    /\ WalkInList

LEMMA FirstPart ==
    ASSUME NEW S, NEW s \in Seq(S), NEW i \in 1..Len(s)
    PROVE  /\ SubSeq(s, 1, i - 1) \in Seq(S)
           /\ Len(SubSeq(s, 1, i - 1)) = i - 1
<1>1. i - 1 \in 0..Len(s) /\ Len(s) \in Nat /\ DOMAIN s = 1..Len(s)
  OBVIOUS
<1>2. \A k \in 1..i - 1 : s[k] \in S
  BY <1>1
<1> QED BY <1>1, <1>2, SubSeqProperties

LEMMA OneLess ==
    ASSUME NEW S, NEW s \in Seq(S), NEW i \in 1..Len(s)
    PROVE  RemoveAt(s, i) \in Seq(S) /\ Len(RemoveAt(s, i)) = Len(s) - 1
<1>1. i - 1 \in 0..Len(s) /\ Len(s) \in Nat /\ i + 1 \in 1..Len(s) + 1
  OBVIOUS
<1>2. SubSeq(s, i + 1, Len(s)) \in Seq(S) /\ Len(SubSeq(s, i + 1, Len(s))) = Len(s) - i
  BY <1>1, SubSeqProperties
<1>3. SubSeq(s, 1, i - 1) \in Seq(S) /\ Len(SubSeq(s, 1, i - 1)) = i - 1
  BY FirstPart
<1> DEFINE a == SubSeq(s, 1, i - 1)
           b == SubSeq(s, i + 1, Len(s))
<1>4. RemoveAt(s, i) = a \o b
  BY DEF RemoveAt
<1> HIDE DEF a, b
<1>5. a \o b \in Seq(S) /\ Len(a \o b) = Len(a) + Len(b)
  BY <1>2, <1>3, ConcatProperties DEF a, b
<1>6. Len(a) = i - 1 /\ Len(b) = Len(s) - i
  BY <1>2, <1>3 DEF a, b
<1> QED BY <1>1, <1>4, <1>5, <1>6

LEMMA InitWalkInv == LoopInit => WalkInv
  BY DEF LoopInit, SenderInit, StaticInit, RateInit, WalkInv, WalkInList

LEMMA FragmentIsFragment ==
    ASSUME NEW c \in Clients, NEW n \in Nat \ {0}
    PROVE  FragmentAt(c, n) \in Fragment
<1>1. ImgMod \in Nat \ {0} /\ Fragments \in Nat \ {0}
  BY NetworkAssumption
<1>2. (n - 1) % Fragments \in 0..(Fragments - 1)
  BY <1>1
<1>3. (n - 1) \div Fragments \in Int
  BY <1>1
<1>4. \A k \in Int : k % ImgMod \in 0..(ImgMod - 1)
  BY <1>1
<1> QED BY <1>2, <1>3, <1>4 DEF FragmentAt, Fragment

(* What the end of the handler does, whichever server it is.                *)
Decided ==
    /\ pc = "decide" /\ pc' \in {"exiting", "idle"}
    /\ images' = NoImages /\ ratio' = NoRatio
    /\ cycle' = cycle + 1 /\ exitCode' \in BOOLEAN
    /\ UNCHANGED <<listVars, walkVars>>

LEMMA ServerDoes ==
    ASSUME LoopNext
    PROVE  \/ UNCHANGED rateVars
           \/ SendingBeacon \/ ExitServer \/ ReceiveTimeout
           \/ \E f \in Fragment : ReceiveImageFile(f)
           \/ \E c \in Clients : \E i \in DOMAIN announced[c] :
                  ReceiveValueMessage(announced[c][i])
           \/ TimerExpires \/ FirstMessage \/ CountMessage \/ DeletePacket \/ SkipPacket
           \/ EndMessage
           \/ Decided
<1>1. CASE Main
  BY <1>1 DEF Main, StaticSendingBeacon, InOrderSendingBeacon, StaticExitServer, InOrderExitServer
<1>2. CASE ReceiverThread
  <2>1. \A f \in Arriving : f \in Fragment
    BY DEF Arriving, SentFragments
  <2>2. ASSUME NEW c \in Clients, NEW n \in 1..SentSoFar(c), InOrderReceiveImageFile(c, n)
        PROVE  \E f \in Fragment : ReceiveImageFile(f)
    BY <2>2, FragmentIsFragment DEF InOrderReceiveImageFile
  <2> QED BY <1>2, <2>1, <2>2 DEF ReceiverThread, StaticReceiveImageFile, StaticReceiveTimeout,
                                  InOrderReceiveTimeout
<1>3. CASE \E c \in Clients : ValueThread(c)
  BY <1>3 DEF ValueThread, StaticReceiveValueMessage, InOrderReceiveValueMessage
<1>4. CASE \E c \in Clients : Control(c) \/ Connections(c) \/ Sending(c)
  BY <1>4 DEF Control, Connections, Sending, serverVars
<1>5. CASE Handler
  <2>1. \/ TimerExpires \/ FirstMessage \/ CountMessage \/ DeletePacket \/ SkipPacket
        \/ EndMessage \/ EndCycle \/ StaticEndCycle \/ InOrderEndCycle
    BY <1>5 DEF Handler, StaticTimerExpires, StaticFirstMessage, StaticCountMessage,
                StaticDeletePacket, StaticSkipPacket, StaticEndMessage,
                InOrderTimerExpires, InOrderFirstMessage, InOrderCountMessage,
                InOrderDeletePacket, InOrderSkipPacket, InOrderEndMessage
  <2>2. ASSUME NEW k, FinishCycle(k)
        PROVE  /\ images' = NoImages /\ ratio' = NoRatio /\ cycle' = cycle + 1
               /\ exitCode' \in BOOLEAN /\ pc' \in {"exiting", "idle"}
    BY <2>2 DEF FinishCycle
  <2>3. ASSUME EndCycle \/ StaticEndCycle \/ InOrderEndCycle PROVE Decided
    BY <2>2, <2>3 DEF EndCycle, StaticEndCycle, InOrderEndCycle, Decided
  <2> QED BY <2>1, <2>3
<1> QED BY <1>1, <1>2, <1>3, <1>4, <1>5 DEF LoopNext

(* What the actions do to the list and the place in it.                     *)
LEMMA NextWalk ==
    ASSUME LoopNext
    PROVE  \/ UNCHANGED <<packets, cur, atHead>> /\ (pc' = pc \/ pc' # "walk")
           \/ \E f \in Fragment : ReceiveImageFile(f)
           \/ CountMessage \/ DeletePacket \/ SkipPacket \/ EndMessage
<1>1. CASE UNCHANGED rateVars
  BY <1>1 DEF rateVars, listVars, walkVars
<1>2. CASE SendingBeacon \/ ExitServer \/ ReceiveTimeout
  BY <1>2 DEF SendingBeacon, ExitServer, ReceiveTimeout, listVars, walkVars
<1>3. ASSUME NEW m, ReceiveValueMessage(m)
      PROVE  UNCHANGED <<packets, cur, atHead>> /\ pc' = pc
  BY <1>3 DEF ReceiveValueMessage, walkVars
<1>4. CASE TimerExpires \/ FirstMessage \/ Decided
  BY <1>4 DEF TimerExpires, FirstMessage, Decided, listVars, walkVars
<1> QED BY <1>1, <1>2, <1>3, <1>4, ServerDoes

LEMMA NextKeepsWalkInv ==
    ASSUME WalkInv, [LoopNext]_loopVars
    PROVE  WalkInv'
<1> USE DEF WalkInv, WalkInList
<1>1. Len(packets) \in Nat
  OBVIOUS
<1>2. CASE \E f \in Fragment : ReceiveImageFile(f)
  <2>1. PICK f \in Fragment : packets' = Append(packets, f) /\ UNCHANGED <<pc, cur, atHead>>
    BY <1>2 DEF ReceiveImageFile, walkVars
  <2>2. packets' \in Seq(Fragment) /\ Len(packets') = Len(packets) + 1
    BY <2>1, LastElement
  <2> QED BY <1>1, <2>1, <2>2
<1>3. CASE CountMessage
  BY <1>1, <1>3 DEF CountMessage, listVars
<1>4. CASE DeletePacket
  <2>1. pc = "walk" /\ cur \in 1..Len(packets) /\ cur' = cur - 1 /\ UNCHANGED <<pc, atHead>>
    BY <1>1, <1>4 DEF DeletePacket
  <2>2. CASE atHead
    <3>1. packets' = SubSeq(packets, 1, cur - 1)
      BY <1>4, <2>2 DEF DeletePacket
    <3>2. packets' \in Seq(Fragment) /\ Len(packets') = cur - 1
      BY <2>1, <3>1, FirstPart
    <3> QED BY <2>1, <2>2, <3>2
  <2>3. CASE ~atHead
    <3>1. packets' = RemoveAt(packets, cur)
      BY <1>4, <2>3 DEF DeletePacket
    <3>2. packets' \in Seq(Fragment) /\ Len(packets') = Len(packets) - 1
      BY <2>1, <3>1, OneLess
    <3> QED BY <1>1, <2>1, <2>3, <3>2
  <2> QED BY <2>2, <2>3
<1>5. CASE SkipPacket
  BY <1>1, <1>5 DEF SkipPacket, listVars
<1>6. CASE EndMessage
  BY <1>1, <1>6 DEF EndMessage
<1>7. CASE UNCHANGED loopVars
  BY <1>7 DEF loopVars, serverVars, rateVars, listVars, walkVars
<1>8. CASE UNCHANGED <<packets, cur, atHead>> /\ (pc' = pc \/ pc' # "walk")
  BY <1>8
<1> QED BY <1>2, <1>3, <1>4, <1>5, <1>6, <1>7, <1>8, NextWalk

(* However many fragments arrive while the handler walks the unlocked list *)
(* of packets, the place it stands at is in the list, and the one before   *)
(* it is the head or its predecessor (CalcDataRecvRate).                   *)
THEOREM WalkStaysInList == LoopSpec => []WalkInList
<1>1. WalkInv /\ [LoopNext]_loopVars => WalkInv'
  BY NextKeepsWalkInv
<1>2. WalkInv => WalkInList
  BY DEF WalkInv
<1> QED BY <1>1, <1>2, InitWalkInv, PTL DEF LoopSpec
-----------------------------------------------------------------------------
(***************************************************************************)
(* The announcements of a client, SendValueOfData.                         *)
(***************************************************************************)
LEMMA NextNumber ==
    ASSUME NEW M \in Nat \ {0}, NEW x \in Nat
    PROVE  /\ x % M \in 0..(M - 1)
           /\ (x + 1) % M = IF x % M = M - 1 THEN 0 ELSE (x % M) + 1
<1>1. PICK q \in Int, r \in 0..(M - 1) : x = M * q + r /\ x % M = r
  <2>1. x % M \in 0..(M - 1) /\ x \div M \in Int /\ x = M * (x \div M) + (x % M)
    OBVIOUS
  <2> QED BY <2>1
<1>2. \A k \in Int : \A s \in 0..(M - 1) : (M * k + s) % M = s
  OBVIOUS
<1>3. CASE r = M - 1
  <2>1. x + 1 = M * (q + 1) + 0
    BY <1>1, <1>3
  <2>2. (M * (q + 1) + 0) % M = 0
    BY <1>2
  <2> QED BY <1>1, <1>3, <2>1, <2>2
<1>4. CASE r # M - 1
  <2>1. x + 1 = M * q + (r + 1) /\ r + 1 \in 0..(M - 1)
    BY <1>1, <1>4
  <2>2. (M * q + (r + 1)) % M = r + 1
    BY <1>2, <2>1
  <2> QED BY <1>1, <1>4, <2>1, <2>2
<1> QED BY <1>3, <1>4

LEMMA Distance ==
    ASSUME NEW M \in Nat \ {0}, NEW x \in 0..(M - 1), NEW l \in 0..(M - 1)
    PROVE  (x - l) % M = IF x >= l THEN x - l ELSE x - l + M
  OBVIOUS

(* Images sent since the last announcement, but for the current one.        *)
Unannounced(c) == (Number(c) - last[c]) % ImgMod

TileTypes ==
    /\ image \in [Clients -> Nat]
    /\ sequence \in [Clients -> 0..Fragments]
    /\ last \in [Clients -> 0..(ImgMod - 1)]
    /\ value \in [Clients -> Nat]
    /\ pace \in [Clients -> {"send", "test", "reset", "end"}]
    /\ announced \in [Clients -> Seq(ValueMessage)]

TileInv ==
    /\ TileTypes
    /\ \A c \in Clients :
          /\ pace[c] = "end" <=> sequence[c] = Fragments
          /\ Unannounced(c) < INTERVAL_SEND
          /\ value[c] = Fragments * Unannounced(c) + sequence[c]
          /\ last[c] = IF announced[c] = <<>> THEN 0
                       ELSE (announced[c][Len(announced[c])].to + 1) % ImgMod
    /\ AnnouncementsTile

tileVars == <<image, sequence, last, value, pace, announced>>

LEMMA ImgModNat == ImgMod \in Nat \ {0} /\ Fragments \in Nat \ {0} /\ INTERVAL_SEND \in 1..ImgMod
  BY NetworkAssumption, SenderAssumption

LEMMA InitTileInv == LoopInit => TileInv
<1> SUFFICES ASSUME LoopInit PROVE TileInv
  OBVIOUS
<1> USE DEF LoopInit, SenderInit
<1>1. TileTypes
  BY ImgModNat DEF TileTypes
<1>2. ASSUME NEW c \in Clients PROVE Unannounced(c) = 0
  <2>1. Number(c) = 0
    BY ImgModNat DEF Number
  <2> QED BY <2>1, ImgModNat DEF Unannounced
<1>3. AnnouncementsTile
  BY DEF AnnouncementsTile
<1> QED BY <1>1, <1>2, <1>3, ImgModNat DEF TileInv

(* Only the sending loop of the client changes what its announcements are  *)
(* made of.                                                                *)
LEMMA WhoAnnounces ==
    ASSUME [LoopNext]_loopVars
    PROVE  \/ UNCHANGED tileVars
           \/ \E c \in Clients : SendFragment(c) \/ TestChange(c) \/ ResetChange(c) \/ EndOfImage(c)
<1> USE DEF tileVars, senderVars, mainVars
<1>1. CASE UNCHANGED loopVars
  BY <1>1 DEF loopVars
<1>2. CASE Main
  BY <1>2 DEF Main, Adaptive, Static, InOrder
<1>3. CASE ReceiverThread
  BY <1>3 DEF ReceiverThread, Adaptive, Static, InOrder
<1>4. CASE Handler
  BY <1>4 DEF Handler, Adaptive, Static, InOrder
<1>5. CASE \E c \in Clients : ValueThread(c)
  BY <1>5 DEF ValueThread, Adaptive, Static, InOrder
<1>6. CASE \E c \in Clients : Control(c)
  BY <1>6 DEF Control, WaitingBeacon, WaitExitCode, Stop
<1>7. CASE \E c \in Clients : Connections(c)
  BY <1>7 DEF Connections, ConnectionThread, RecvMessage, TestNumber, StoreNumber, Relay, StorePeriod
<1>8. CASE \E c \in Clients : Sending(c)
  BY <1>8 DEF Sending, MainLoop
<1> QED BY <1>1, <1>2, <1>3, <1>4, <1>5, <1>6, <1>7, <1>8 DEF LoopNext

LEMMA UnannouncedNat ==
    ASSUME TileTypes, NEW c \in Clients
    PROVE  Unannounced(c) \in 0..(ImgMod - 1) /\ Number(c) \in 0..(ImgMod - 1)
<1>1. image[c] \in Nat /\ last[c] \in 0..(ImgMod - 1)
  BY DEF TileTypes
<1>2. \A k \in Int : k % ImgMod \in 0..(ImgMod - 1)
  BY ImgModNat
<1>3. Number(c) \in 0..(ImgMod - 1)
  BY <1>1, <1>2 DEF Number
<1>4. Number(c) - last[c] \in Int
  BY <1>1, <1>3, ImgModNat
<1> QED BY <1>2, <1>3, <1>4 DEF Unannounced

LEMMA FragmentKeepsTileInv ==
    ASSUME TileInv, NEW c \in Clients, SendFragment(c)
    PROVE  TileInv'
<1> USE ImgModNat
<1>1. /\ pace[c] = "send" /\ sequence[c] < Fragments
      /\ sequence' = [sequence EXCEPT ![c] = sequence[c] + 1]
      /\ value' = [value EXCEPT ![c] = value[c] + 1]
      /\ pace' = [pace EXCEPT ![c] = IF sequence[c] + 1 = Fragments THEN "end" ELSE "test"]
      /\ UNCHANGED <<image, last, announced>>
  BY DEF SendFragment, TileInv, TileTypes
<1>2. TileTypes'
  BY <1>1 DEF TileInv, TileTypes
<1>3. \A d \in Clients : Unannounced(d)' = Unannounced(d) /\ Unannounced(d) \in Nat
  BY <1>1, UnannouncedNat DEF TileInv, Unannounced, Number
<1>4. AnnouncementsTile'
  BY <1>1 DEF TileInv, AnnouncementsTile
<1>5. ASSUME NEW d \in Clients
      PROVE  /\ pace'[d] = "end" <=> sequence'[d] = Fragments
             /\ value'[d] = Fragments * Unannounced(d) + sequence'[d]
  <2> DEFINE p == Fragments * Unannounced(d)
  <2>1. p \in Int /\ value[d] = p + sequence[d]
    BY <1>3 DEF TileInv
  <2> HIDE DEF p
  <2>2. value'[d] = p + sequence'[d]
    BY <1>1, <2>1 DEF TileInv, TileTypes
  <2>3. pace'[d] = "end" <=> sequence'[d] = Fragments
    BY <1>1 DEF TileInv, TileTypes
  <2> QED BY <2>2, <2>3 DEF p
<1> QED BY <1>1, <1>2, <1>3, <1>4, <1>5 DEF TileInv

LEMMA EndOfImageKeepsTileInv ==
    ASSUME TileInv, NEW c \in Clients, EndOfImage(c)
    PROVE  TileInv'
<1> DEFINE d == Unannounced(c)
           n == Number(c)
           a == announced[c]
<1>1. /\ pace[c] = "end"
      /\ image' = [image EXCEPT ![c] = image[c] + 1]
      /\ sequence' = [sequence EXCEPT ![c] = 0]
      /\ pace' = [pace EXCEPT ![c] = "send"]
  BY DEF EndOfImage
<1>2. /\ image[c] \in Nat /\ last[c] \in 0..(ImgMod - 1) /\ value[c] \in Nat
      /\ sequence[c] = Fragments /\ value[c] = Fragments * d + Fragments
      /\ d < INTERVAL_SEND
      /\ d \in 0..(ImgMod - 1) /\ n \in 0..(ImgMod - 1)
      /\ a \in Seq(ValueMessage)
  BY <1>1, UnannouncedNat DEF TileInv, TileTypes
<1>3. Number(c)' = IF n = ImgMod - 1 THEN 0 ELSE n + 1
  <2>1. image'[c] = image[c] + 1
    BY <1>1 DEF TileInv, TileTypes
  <2> QED BY <1>2, <2>1, NextNumber, ImgModNat DEF Number
<1>4. Number(c)' \in 0..(ImgMod - 1) /\ (n + 1) % ImgMod = Number(c)'
  <2>1. n \in 0..(ImgMod - 1) /\ n \in Nat
    BY <1>2, ImgModNat
  <2> HIDE DEF n
  <2>2. (n + 1) % ImgMod = IF n % ImgMod = ImgMod - 1 THEN 0 ELSE (n % ImgMod) + 1
    BY <2>1, NextNumber, ImgModNat
  <2>3. n % ImgMod = n
    BY <2>1, ImgModNat
  <2> QED BY <1>3, <2>1, <2>2, <2>3, ImgModNat
<1>5. value[c] = Fragments * (d + 1)
  BY <1>2, ImgModNat
<1>6. \A e \in Clients \ {c} : Unannounced(e)' = (Number(e) - last'[e]) % ImgMod
  BY <1>1 DEF Unannounced, Number, TileInv, TileTypes
<1>7. CASE ~Due(c)
  <2>1. UNCHANGED <<announced, last, value>>
    BY <1>7 DEF EndOfImage
  <2>2. d < INTERVAL_SEND - 1
    BY <1>2, <1>7, ImgModNat DEF Due, Unannounced
  <2>3. Unannounced(c)' = d + 1
    <3>1. d = IF n >= last[c] THEN n - last[c] ELSE n - last[c] + ImgMod
      BY <1>2, Distance, ImgModNat DEF Unannounced
    <3>2. Unannounced(c)' = (Number(c)' - last[c]) % ImgMod
      BY <2>1 DEF Unannounced
    <3> DEFINE n1 == Number(c)'
    <3>3. n1 = (IF n = ImgMod - 1 THEN 0 ELSE n + 1) /\ n1 \in 0..(ImgMod - 1)
      BY <1>3, <1>4
    <3>0. /\ n \in 0..(ImgMod - 1) /\ last[c] \in 0..(ImgMod - 1) /\ d \in Int
          /\ d < ImgMod - 1
      BY <1>2, <2>2, ImgModNat
    <3> HIDE DEF n, d, n1
    <3>4. (n1 - last[c]) % ImgMod = IF n1 >= last[c] THEN n1 - last[c] ELSE n1 - last[c] + ImgMod
      BY <1>2, <3>3, Distance, ImgModNat
    <3>5. IF n1 >= last[c] THEN n1 - last[c] = d + 1 ELSE n1 - last[c] + ImgMod = d + 1
      <4>1. CASE n = ImgMod - 1
        BY <3>0, <3>1, <3>3, <4>1, ImgModNat
      <4>2. CASE n # ImgMod - 1
        BY <3>0, <3>1, <3>3, <4>2, ImgModNat
      <4> QED BY <4>1, <4>2
    <3>6. Unannounced(c)' = (n1 - last[c]) % ImgMod
      BY <3>2 DEF n1
    <3> QED BY <3>4, <3>5, <3>6
  <2>4. TileTypes'
    BY <1>1, <2>1, ImgModNat DEF TileInv, TileTypes
  <2>5. ASSUME NEW e \in Clients \ {c}
        PROVE  /\ pace'[e] = pace[e] /\ sequence'[e] = sequence[e]
               /\ Unannounced(e)' = Unannounced(e)
    BY <1>1, <1>6, <2>1 DEF TileInv, TileTypes, Unannounced
  <2>6. value'[c] = Fragments * Unannounced(c)' + sequence'[c]
    BY <1>1, <1>2, <1>5, <2>1, <2>3, ImgModNat DEF TileInv, TileTypes
  <2>7. pace'[c] # "end" /\ sequence'[c] # Fragments
    BY <1>1, ImgModNat DEF TileInv, TileTypes
  <2>8. Unannounced(c)' < INTERVAL_SEND
    BY <1>2, <2>2, <2>3, ImgModNat
  <2>9. AnnouncementsTile'
    BY <2>1 DEF TileInv, AnnouncementsTile
  <2> HIDE DEF d, n
  <2>10. ASSUME NEW e \in Clients
         PROVE  /\ pace'[e] = "end" <=> sequence'[e] = Fragments
                /\ Unannounced(e)' < INTERVAL_SEND
                /\ value'[e] = Fragments * Unannounced(e)' + sequence'[e]
    <3>1. CASE e = c
      BY <2>6, <2>7, <2>8, <3>1
    <3>2. CASE e # c
      BY <2>1, <2>5, <3>2 DEF TileInv
    <3> QED BY <3>1, <3>2
  <2> QED BY <2>1, <2>4, <2>9, <2>10 DEF TileInv
<1>8. CASE Due(c)
  <2> DEFINE m == Announcement(c)
  <2>1. /\ announced' = [announced EXCEPT ![c] = Append(a, m)]
        /\ last' = [last EXCEPT ![c] = (n + 1) % ImgMod]
        /\ value' = [value EXCEPT ![c] = 0]
    BY <1>8 DEF EndOfImage
  <2>2. m \in ValueMessage
    BY <1>2 DEF Announcement, ValueMessage
  <2>3. /\ m.from = last[c] /\ m.to = n /\ m.size = Fragments * (d + 1)
        /\ d = (m.to - m.from) % ImgMod
    BY <1>5 DEF Announcement, Unannounced
  <2> HIDE DEF m
  <2>4. /\ announced'[c] = Append(a, m)
        /\ last'[c] = (n + 1) % ImgMod /\ last'[c] = Number(c)'
        /\ value'[c] = 0 /\ pace'[c] = "send" /\ sequence'[c] = 0
    BY <1>1, <1>4, <2>1 DEF TileInv, TileTypes
  <2>5. Unannounced(c)' = 0
    <3>1. Unannounced(c)' = (Number(c)' - Number(c)') % ImgMod
      BY <2>4 DEF Unannounced
    <3>2. \A k \in 0..(ImgMod - 1) : (k - k) % ImgMod = 0
      BY ImgModNat
    <3> QED BY <1>4, <3>1, <3>2
  <2> DEFINE k == Len(a)
  <2>6. /\ Append(a, m) \in Seq(ValueMessage) /\ Append(a, m) # <<>>
        /\ Len(Append(a, m)) = k + 1 /\ k \in Nat /\ DOMAIN a = 1..k
        /\ \A i \in 1..k : Append(a, m)[i] = a[i]
        /\ Append(a, m)[k + 1] = m
        /\ a = <<>> <=> k = 0
    <3> HIDE DEF a
    <3> QED BY <1>2, <2>2, LastElement
  <2>7. TileTypes'
    BY <1>1, <1>4, <2>1, <2>6, ImgModNat DEF TileInv, TileTypes
  <2>8. ASSUME NEW e \in Clients \ {c}
        PROVE  /\ pace'[e] = pace[e] /\ sequence'[e] = sequence[e] /\ value'[e] = value[e]
               /\ last'[e] = last[e] /\ announced'[e] = announced[e]
               /\ Unannounced(e)' = Unannounced(e)
    <3>1. /\ pace'[e] = pace[e] /\ sequence'[e] = sequence[e] /\ value'[e] = value[e]
          /\ last'[e] = last[e] /\ announced'[e] = announced[e]
      BY <1>1, <2>1 DEF TileInv, TileTypes
    <3> QED BY <1>6, <3>1 DEF Unannounced
  <2>9. last[c] = IF k = 0 THEN 0 ELSE (a[k].to + 1) % ImgMod
    BY <2>6 DEF TileInv
  <2>10. AnnouncementsTile'
    <3> SUFFICES ASSUME NEW e \in Clients, NEW i \in 1..Len(announced'[e])
                 PROVE  LET b == announced'[e][i] IN
                        /\ b.from = IF i = 1 THEN 0 ELSE ((announced'[e][i - 1].to + 1) % ImgMod)
                        /\ b.size = Fragments * (((b.to - b.from) % ImgMod) + 1)
      BY DEF AnnouncementsTile
    <3>1. CASE e # c
      BY <2>8, <3>1 DEF TileInv, AnnouncementsTile
    <3>2. CASE e = c /\ i <= k
      <4>1. i \in 1..k /\ announced'[e][i] = a[i]
        BY <2>4, <2>6, <3>2
      <4>2. i # 1 => i - 1 \in 1..k /\ announced'[e][i - 1] = a[i - 1]
        BY <2>4, <2>6, <3>2, <4>1
      <4> QED BY <3>2, <4>1, <4>2 DEF TileInv, AnnouncementsTile
    <3>3. CASE e = c /\ i = k + 1
      <4>1. announced'[e][i] = m /\ (i # 1 => announced'[e][i - 1] = a[k] /\ k # 0)
        BY <2>4, <2>6, <3>3
      <4>2. i = 1 <=> k = 0
        BY <2>6, <3>3
      <4> HIDE DEF a, k, d, n
      <4> QED BY <2>3, <2>9, <4>1, <4>2
    <3> QED BY <2>4, <2>6, <3>1, <3>2, <3>3
  <2>11. last'[c] = (Append(a, m)[k + 1].to + 1) % ImgMod
    BY <2>3, <2>4, <2>6
  <2> HIDE DEF d, n, a
  <2>12. ASSUME NEW e \in Clients
         PROVE  /\ pace'[e] = "end" <=> sequence'[e] = Fragments
                /\ Unannounced(e)' < INTERVAL_SEND
                /\ value'[e] = Fragments * Unannounced(e)' + sequence'[e]
                /\ last'[e] = IF announced'[e] = <<>> THEN 0
                              ELSE (announced'[e][Len(announced'[e])].to + 1) % ImgMod
    <3>1. CASE e = c
      BY <2>4, <2>5, <2>6, <2>11, <3>1, ImgModNat
    <3>2. CASE e # c
      BY <2>8, <3>2 DEF TileInv
    <3> QED BY <3>1, <3>2
  <2> QED BY <2>7, <2>10, <2>12 DEF TileInv
<1> QED BY <1>7, <1>8

LEMMA NextKeepsTileInv ==
    ASSUME TileInv, [LoopNext]_loopVars
    PROVE  TileInv'
<1>1. CASE UNCHANGED tileVars
  BY <1>1 DEF tileVars, TileInv, TileTypes, Unannounced, Number, AnnouncementsTile
<1>2. ASSUME NEW c \in Clients, SendFragment(c) PROVE TileInv'
  BY <1>2, FragmentKeepsTileInv
<1>3. ASSUME NEW c \in Clients, TestChange(c) \/ ResetChange(c) PROVE TileInv'
  <2>1. /\ UNCHANGED <<image, sequence, last, value, announced>>
        /\ pace[c] # "end"
        /\ \E q \in {"send", "reset"} : pace' = [pace EXCEPT ![c] = q]
    BY <1>3 DEF TestChange, ResetChange
  <2>2. TileTypes'
    BY <2>1 DEF TileInv, TileTypes
  <2>3. \A e \in Clients : pace'[e] = "end" <=> pace[e] = "end"
    BY <2>1 DEF TileInv, TileTypes
  <2> QED BY <2>1, <2>2, <2>3 DEF TileInv, Unannounced, Number, AnnouncementsTile
<1>4. ASSUME NEW c \in Clients, EndOfImage(c) PROVE TileInv'
  BY <1>4, EndOfImageKeepsTileInv
<1> QED BY <1>1, <1>2, <1>3, <1>4, WhoAnnounces

(* However many images a client sends, across the wrap of image_number its *)
(* announcements tile them without gap or overlap, and give the size of    *)
(* all the fragments sent (SendValueOfData); this needs INTERVAL_SEND to   *)
(* be at most the number of image numbers.                                 *)
THEOREM AnnouncementsAlwaysTile == LoopSpec => []AnnouncementsTile
<1>1. TileInv /\ [LoopNext]_loopVars => TileInv'
  BY NextKeepsTileInv
<1>2. TileInv => AnnouncementsTile
  BY DEF TileInv
<1> QED BY <1>1, <1>2, InitTileInv, PTL DEF LoopSpec
-----------------------------------------------------------------------------
(***************************************************************************)
(* The merge sort of the handler's copy, and the scan after it.            *)
(***************************************************************************)
(* Merge obeys its own equation on all pairs of lists. *)
LEMMA MergeEquation ==
    ASSUME NEW l \in Seq(Nat), NEW r \in Seq(Nat)
    PROVE  /\ l = <<>> => Merge[<<l, r>>] = r
           /\ l # <<>> /\ r = <<>> => Merge[<<l, r>>] = l
           /\ l # <<>> /\ r # <<>> =>
                 Merge[<<l, r>>] =
                    IF Head(l) < Head(r)
                    THEN <<Head(l)>> \o Merge[<<Tail(l), r>>]
                    ELSE <<Head(r)>> \o Merge[<<l, Tail(r)>>]
<1> DEFINE V == Seq(Nat)
           D == V \X V
           m == [x \in D |-> Len(x[1]) + Len(x[2])]
           body(x, f) ==
             IF x[1] = <<>> THEN x[2]
             ELSE IF x[2] = <<>> THEN x[1]
             ELSE IF Head(x[1]) < Head(x[2])
                  THEN <<Head(x[1])>> \o f[<<Tail(x[1]), x[2]>>]
             ELSE <<Head(x[2])>> \o f[<<x[1], Tail(x[2])>>]
           step == [y \in D \X [D -> V] |-> body(y[1], y[2])]
<1>1. m \in [D -> Nat] /\ \A a, b \in V : m[<<a, b>>] = Len(a) + Len(b)
  <2>1. \A a, b \in V : Len(a) + Len(b) \in Nat
    OBVIOUS
  <2> HIDE DEF V
  <2> QED BY <2>1
<1>2. ASSUME NEW a \in V, NEW b \in V, a # <<>>, b # <<>>
      PROVE  /\ <<Tail(a), b>> \in D /\ m[<<Tail(a), b>>] < m[<<a, b>>]
             /\ <<a, Tail(b)>> \in D /\ m[<<a, Tail(b)>>] < m[<<a, b>>]
             /\ Head(a) \in Nat /\ Head(b) \in Nat
  <2> HIDE DEF V, m
  <2>1. /\ Tail(a) \in V /\ Tail(b) \in V /\ Head(a) \in Nat /\ Head(b) \in Nat
        /\ Len(Tail(a)) = Len(a) - 1 /\ Len(Tail(b)) = Len(b) - 1
        /\ Len(a) \in Nat /\ Len(b) \in Nat
    BY <1>2, HeadTailFacts DEF V
  <2>2. /\ m[<<a, b>>] = Len(a) + Len(b)
        /\ m[<<Tail(a), b>>] = Len(Tail(a)) + Len(b)
        /\ m[<<a, Tail(b)>>] = Len(a) + Len(Tail(b))
    BY <1>1, <2>1
  <2>3. <<Tail(a), b>> \in D /\ <<a, Tail(b)>> \in D
    BY <2>1
  <2> QED BY <2>1, <2>2, <2>3
<1>3. ASSUME NEW x \in D, NEW f \in [D -> V] PROVE body(x, f) \in V
  <2>1. PICK a \in V, b \in V : x = <<a, b>>
    OBVIOUS
  <2>2. CASE a = <<>> \/ b = <<>>
    BY <2>1, <2>2
  <2>3. CASE a # <<>> /\ b # <<>>
    <3>1. /\ f[<<Tail(a), b>>] \in V /\ f[<<a, Tail(b)>>] \in V
          /\ Head(a) \in Nat /\ Head(b) \in Nat
      <4> HIDE DEF V, m, D
      <4> QED BY <1>2, <2>3
    <3>2. <<Head(a)>> \o f[<<Tail(a), b>>] \in V /\ <<Head(b)>> \o f[<<a, Tail(b)>>] \in V
      BY <3>1, ConsFacts
    <3> HIDE DEF V
    <3> QED BY <2>1, <2>3, <3>2
  <2> QED BY <2>2, <2>3
<1>4. step \in [D \X [D -> V] -> V]
  <2> HIDE DEF body, D, V
  <2> QED BY <1>3
<1>5. ASSUME NEW x \in D, NEW f \in [D -> V], NEW g \in [D -> V],
             \A y \in D : m[y] < m[x] => f[y] = g[y]
      PROVE  step[<<x, f>>] = step[<<x, g>>]
  <2>1. PICK a \in V, b \in V : x = <<a, b>>
    OBVIOUS
  <2>2. body(x, f) = body(x, g)
    <3>1. CASE a = <<>> \/ b = <<>>
      BY <2>1, <3>1
    <3>2. CASE a # <<>> /\ b # <<>>
      <4>1. f[<<Tail(a), b>>] = g[<<Tail(a), b>>] /\ f[<<a, Tail(b)>>] = g[<<a, Tail(b)>>]
        <5> HIDE DEF V, m, D
        <5> QED BY <1>2, <1>5, <2>1, <3>2
      <4> HIDE DEF V, m, D
      <4> QED BY <2>1, <4>1
    <3> QED BY <3>1, <3>2
  <2> HIDE DEF body, D, V
  <2> QED BY <2>2
<1>6. V # {}
  <2>1. <<>> \in V
    OBVIOUS
  <2> QED BY <2>1
<1>7. PICK f \in [D -> V] : \A x \in D : f[x] = step[<<x, f>>]
  <2>1. m \in [D -> Nat]
    BY <1>1
  <2>2. \A x \in D : \A f, g \in [D -> V] :
            (\A y \in D : m[y] < m[x] => f[y] = g[y]) => step[<<x, f>>] = step[<<x, g>>]
    <3> HIDE DEF V, D, m, step
    <3> QED BY <1>5
  <2> HIDE DEF V, D, m, step
  <2>3. LooksBelow(D, V, m, step)
    BY <2>1, <2>2, <1>4, <1>6 DEF LooksBelow
  <2> QED BY <2>3, RecursionNat
<1> DEFINE F(g) == [x \in D |-> body(x, g)]
<1>8. f = F(f)
  <2>1. \A x \in D : f[x] = body(x, f)
    <3> HIDE DEF body, V
    <3> QED BY <1>7
  <2> HIDE DEF D, V, body
  <2> QED BY <2>1
<1>9. Merge = F(Merge)
  <2>1. Merge = CHOOSE g : g = F(g)
    BY DEF Merge
  <2> HIDE DEF F
  <2> QED BY <1>8, <2>1
<1>10. Merge[<<l, r>>] = body(<<l, r>>, Merge)
  <2> <<l, r>> \in D
    OBVIOUS
  <2> HIDE DEF D, V, body
  <2> QED BY <1>9
<1> QED BY <1>10

(* Merge returns a list. *)
LEMMA MergeType == \A l, r \in Seq(Nat) : Merge[<<l, r>>] \in Seq(Nat)
<1> DEFINE V == Seq(Nat)
           Bad == {n \in Nat : \E l, r \in V : n = Len(l) + Len(r) /\ Merge[<<l, r>>] \notin V}
<1>1. \A l, r \in V : Len(l) + Len(r) \in Nat
  OBVIOUS
<1> SUFFICES ASSUME Bad # {} PROVE FALSE
  <2> HIDE DEF V
  <2> QED BY <1>1 DEF V
<1>2. PICK n \in Bad : \A k \in Bad : n <= k
  <2> HIDE DEF Bad
  <2> Bad \in SUBSET Nat
    BY DEF Bad
  <2> QED BY LeastNat
<1>3. PICK l \in V, r \in V : n = Len(l) + Len(r) /\ Merge[<<l, r>>] \notin V
  OBVIOUS
<1>4. l # <<>> /\ r # <<>>
  BY <1>3, MergeEquation
<1>5. /\ Head(l) \in Nat /\ Tail(l) \in V /\ Len(Tail(l)) = Len(l) - 1
      /\ Head(r) \in Nat /\ Tail(r) \in V /\ Len(Tail(r)) = Len(r) - 1
      /\ Len(l) \in Nat /\ Len(r) \in Nat
  BY <1>4, HeadTailFacts
<1>6. Merge[<<Tail(l), r>>] \in V /\ Merge[<<l, Tail(r)>>] \in V
  <2>1. Len(Tail(l)) + Len(r) < n /\ Len(l) + Len(Tail(r)) < n
    BY <1>3, <1>5
  <2> HIDE DEF V
  <2>2. Len(Tail(l)) + Len(r) \notin Bad /\ Len(l) + Len(Tail(r)) \notin Bad
    <3> HIDE DEF Bad
    <3>1. Bad \in SUBSET Nat
      BY DEF Bad
    <3> QED BY <1>1, <1>2, <1>5, <2>1, <3>1
  <2> QED BY <1>1, <1>5, <2>2
<1>7. <<Head(l)>> \o Merge[<<Tail(l), r>>] \in V /\ <<Head(r)>> \o Merge[<<l, Tail(r)>>] \in V
  BY <1>5, <1>6, ConsFacts
<1> QED BY <1>3, <1>4, <1>7, MergeEquation

(* Two lists in order are merged into a list in order, of the keys of both. *)
Ordered(s) == \A j, k \in DOMAIN s : j < k => s[j] <= s[k]

LEMMA ConsOrdered ==
    ASSUME NEW p \in Nat, NEW s \in Seq(Nat), Ordered(s), \A q \in Members(s) : p <= q
    PROVE  Ordered(<<p>> \o s)
<1> DEFINE c == <<p>> \o s
<1>1. /\ c[1] = p /\ DOMAIN c \in SUBSET Nat
      /\ \A k \in DOMAIN c : k = 1 \/ (k - 1 \in DOMAIN s /\ c[k] = s[k - 1])
      /\ DOMAIN c \in SUBSET (Nat \ {0})
  BY ConsFacts
<1>2. ASSUME NEW j \in DOMAIN c, NEW k \in DOMAIN c, j < k PROVE c[j] <= c[k]
  <2> HIDE DEF c
  <2>1. k # 1 /\ k - 1 \in DOMAIN s /\ c[k] = s[k - 1]
    BY <1>1, <1>2
  <2>2. CASE j = 1
    BY <1>1, <2>1, <2>2 DEF Members
  <2>3. CASE j # 1
    <3>1. j - 1 \in DOMAIN s /\ c[j] = s[j - 1]
      BY <1>1, <2>3
    <3>2. j - 1 < k - 1
      BY <1>1, <1>2
    <3> QED BY <2>1, <3>1, <3>2 DEF Ordered
  <2> QED BY <2>2, <2>3
<1> QED BY <1>2 DEF Ordered

LEMMA OrderedTail ==
    ASSUME NEW s \in Seq(Nat), s # <<>>, Ordered(s)
    PROVE  Ordered(Tail(s)) /\ \A q \in Members(Tail(s)) : Head(s) <= q
<1>1. /\ Head(s) = s[1] /\ 1 \in DOMAIN s
      /\ \A k \in DOMAIN Tail(s) : k \in Nat \ {0} /\ k + 1 \in DOMAIN s /\ Tail(s)[k] = s[k + 1]
  BY HeadTailFacts
<1>2. ASSUME NEW j \in DOMAIN Tail(s), NEW k \in DOMAIN Tail(s), j < k
      PROVE  Tail(s)[j] <= Tail(s)[k]
  <2>1. j + 1 < k + 1
    BY <1>1, <1>2
  <2> QED BY <1>1, <2>1 DEF Ordered
<1>3. ASSUME NEW k \in DOMAIN Tail(s) PROVE Head(s) <= Tail(s)[k]
  <2>1. 1 < k + 1
    BY <1>1
  <2> QED BY <1>1, <2>1 DEF Ordered
<1> QED BY <1>2, <1>3 DEF Ordered, Members

LEMMA MergeFacts ==
    \A l, r \in Seq(Nat) : Ordered(l) /\ Ordered(r) =>
        /\ Ordered(Merge[<<l, r>>])
        /\ Members(Merge[<<l, r>>]) = Members(l) \cup Members(r)
<1> DEFINE V == Seq(Nat)
           Good(l, r) == /\ Ordered(Merge[<<l, r>>])
                         /\ Members(Merge[<<l, r>>]) = Members(l) \cup Members(r)
           Bad == {n \in Nat : \E l, r \in V :
                     n = Len(l) + Len(r) /\ Ordered(l) /\ Ordered(r) /\ ~Good(l, r)}
<1>1. \A l, r \in V : Len(l) + Len(r) \in Nat
  OBVIOUS
<1> SUFFICES ASSUME Bad # {} PROVE FALSE
  <2> HIDE DEF V, Good
  <2> SUFFICES \A l, r \in V : Ordered(l) /\ Ordered(r) => Good(l, r)
    BY DEF V, Good
  <2> QED BY <1>1
<1>2. PICK n \in Bad : \A k \in Bad : n <= k
  <2> HIDE DEF Bad
  <2> Bad \in SUBSET Nat
    BY DEF Bad
  <2> QED BY LeastNat
<1>3. PICK l \in V, r \in V : n = Len(l) + Len(r) /\ Ordered(l) /\ Ordered(r) /\ ~Good(l, r)
  <2> HIDE DEF V, Good
  <2> QED BY DEF Bad
<1>5. Members(<<>>) = {}
  BY DEF Members
<1>6. l # <<>> /\ r # <<>>
  <2>1. CASE l = <<>>
    BY <1>3, <1>5, <2>1, MergeEquation
  <2>2. CASE l # <<>> /\ r = <<>>
    <3>1. Merge[<<l, r>>] = l
      BY <2>2, MergeEquation
    <3>2. Members(r) = {}
      BY <1>5, <2>2
    <3> QED BY <1>3, <3>1, <3>2
  <2> QED BY <1>3, <2>1, <2>2
<1>7. /\ Head(l) \in Nat /\ Tail(l) \in V /\ Len(Tail(l)) = Len(l) - 1
      /\ Head(r) \in Nat /\ Tail(r) \in V /\ Len(Tail(r)) = Len(r) - 1
      /\ Len(l) \in Nat /\ Len(r) \in Nat
      /\ Members(l) = {Head(l)} \cup Members(Tail(l))
      /\ Members(r) = {Head(r)} \cup Members(Tail(r))
  BY <1>6, HeadTailFacts
<1>8. /\ Ordered(Tail(l)) /\ \A q \in Members(Tail(l)) : Head(l) <= q
      /\ Ordered(Tail(r)) /\ \A q \in Members(Tail(r)) : Head(r) <= q
  BY <1>3, <1>6, OrderedTail
<1>10. Good(Tail(l), r) /\ Good(l, Tail(r))
  <2>1. Len(Tail(l)) + Len(r) < n /\ Len(l) + Len(Tail(r)) < n
    BY <1>3, <1>7
  <2> HIDE DEF V, Good
  <2>2. Len(Tail(l)) + Len(r) \notin Bad /\ Len(l) + Len(Tail(r)) \notin Bad
    <3> HIDE DEF Bad
    <3>1. Bad \in SUBSET Nat
      BY DEF Bad
    <3> QED BY <1>1, <1>2, <1>7, <2>1, <3>1
  <2> QED BY <1>1, <1>3, <1>7, <1>8, <2>2
<1>11. \A s \in V : Members(s) \subseteq Nat
  BY DEF Members
<1>13. CASE Head(l) < Head(r)
  <2> DEFINE t == Merge[<<Tail(l), r>>]
  <2>1. Merge[<<l, r>>] = <<Head(l)>> \o t
    BY <1>6, <1>13, MergeEquation
  <2>2. t \in V /\ Ordered(t) /\ Members(t) = Members(Tail(l)) \cup Members(r)
    BY <1>7, <1>10, MergeType
  <2> HIDE DEF t, V
  <2>4. \A q \in Members(r) : Head(l) <= q
    BY <1>7, <1>8, <1>11, <1>13
  <2>5. Ordered(<<Head(l)>> \o t)
    BY <1>7, <1>8, <2>2, <2>4, ConsOrdered DEF V
  <2>6. Members(<<Head(l)>> \o t) = {Head(l)} \cup Members(t)
    BY <1>7, <2>2, ConsFacts DEF V
  <2> QED BY <1>3, <1>7, <2>1, <2>2, <2>5, <2>6
<1>14. CASE ~(Head(l) < Head(r))
  <2> DEFINE t == Merge[<<l, Tail(r)>>]
  <2>1. Merge[<<l, r>>] = <<Head(r)>> \o t
    BY <1>6, <1>14, MergeEquation
  <2>2. t \in V /\ Ordered(t) /\ Members(t) = Members(l) \cup Members(Tail(r))
    BY <1>7, <1>10, MergeType
  <2> HIDE DEF t, V
  <2>3. Head(r) <= Head(l)
    BY <1>7, <1>14
  <2>4. \A q \in Members(l) : Head(r) <= q
    BY <1>7, <1>8, <1>11, <2>3
  <2>5. Ordered(<<Head(r)>> \o t)
    BY <1>7, <1>8, <2>2, <2>4, ConsOrdered DEF V
  <2>6. Members(<<Head(r)>> \o t) = {Head(r)} \cup Members(t)
    BY <1>7, <2>2, ConsFacts DEF V
  <2> QED BY <1>3, <1>7, <2>1, <2>2, <2>5, <2>6
<1> QED BY <1>13, <1>14

(* MergeSort obeys its own equation on all lists. *)
LEMMA MergeSortEquation ==
    ASSUME NEW s \in Seq(Nat)
    PROVE  /\ Len(s) <= 1 => MergeSort[s] = s
           /\ Len(s) > 1 =>
                 MergeSort[s] = Merge[<<MergeSort[Left(s)], MergeSort[Right(s)]>>]
<1> DEFINE V == Seq(Nat)
           m == [t \in V |-> Len(t)]
           body(t, f) == IF Len(t) <= 1 THEN t ELSE Merge[<<f[Left(t)], f[Right(t)]>>]
           step == [y \in V \X [V -> V] |-> body(y[1], y[2])]
<1>1. m \in [V -> Nat]
  OBVIOUS
<1>2. ASSUME NEW t \in V, ~(Len(t) <= 1)
      PROVE  /\ Left(t) \in V /\ m[Left(t)] < m[t]
             /\ Right(t) \in V /\ m[Right(t)] < m[t]
  <2>1. Len(t) > 1
    BY <1>2
  <2>2. Left(t) \in V /\ Len(Left(t)) < Len(t) /\ Right(t) \in V /\ Len(Right(t)) < Len(t)
    BY <2>1, HalvesFacts
  <2> HIDE DEF V
  <2> QED BY <2>2
<1>3. ASSUME NEW t \in V, NEW f \in [V -> V] PROVE body(t, f) \in V
  <2>1. CASE Len(t) <= 1
    BY <2>1
  <2>2. CASE ~(Len(t) <= 1)
    <3>1. f[Left(t)] \in V /\ f[Right(t)] \in V
      <4> HIDE DEF V, m
      <4> QED BY <1>2, <2>2
    <3>2. Merge[<<f[Left(t)], f[Right(t)]>>] \in V
      BY <3>1, MergeType
    <3> HIDE DEF V
    <3> QED BY <2>2, <3>2
  <2> QED BY <2>1, <2>2
<1>4. step \in [V \X [V -> V] -> V]
  <2> HIDE DEF body, V
  <2> QED BY <1>3
<1>5. \A t \in V : \A f, g \in [V -> V] :
          (\A u \in V : m[u] < m[t] => f[u] = g[u]) => step[<<t, f>>] = step[<<t, g>>]
  <2> SUFFICES ASSUME NEW t \in V, NEW f \in [V -> V], NEW g \in [V -> V],
                      \A u \in V : m[u] < m[t] => f[u] = g[u]
               PROVE  step[<<t, f>>] = step[<<t, g>>]
    <3> HIDE DEF V, m, step
    <3> QED OBVIOUS
  <2>1. body(t, f) = body(t, g)
    <3> HIDE DEF V, m
    <3> QED BY <1>2
  <2> HIDE DEF body, V
  <2> QED BY <2>1
<1>6. V # {}
  <2>1. s \in V
    OBVIOUS
  <2> QED BY <2>1
<1>7. PICK f \in [V -> V] : \A t \in V : f[t] = step[<<t, f>>]
  <2> HIDE DEF V, m, step
  <2>1. LooksBelow(V, V, m, step)
    BY <1>1, <1>4, <1>5, <1>6 DEF LooksBelow
  <2> QED BY <2>1, RecursionNat
<1> DEFINE F(g) == [t \in V |-> body(t, g)]
<1>8. f = F(f)
  <2>1. \A t \in V : f[t] = body(t, f)
    <3> HIDE DEF body, V
    <3> QED BY <1>7
  <2> HIDE DEF V, body
  <2> QED BY <2>1
<1>9. MergeSort = F(MergeSort)
  <2>1. MergeSort = CHOOSE g : g = F(g)
    BY DEF MergeSort, Left, Right
  <2> HIDE DEF F
  <2> QED BY <1>8, <2>1
<1>10. MergeSort[s] = body(s, MergeSort)
  <2> s \in V
    OBVIOUS
  <2> HIDE DEF V, body
  <2> QED BY <1>9
<1>11. Len(s) \in Nat
  OBVIOUS
<1> QED BY <1>10, <1>11

(* MergeSort puts the keys of a list in order and neither loses a key nor   *)
(* adds one (mergeSort in serverImageReceiver.c).                           *)
THEOREM MergeSortFacts ==
    \A s \in Seq(Nat) :
        /\ MergeSort[s] \in Seq(Nat)
        /\ Ordered(MergeSort[s])
        /\ Members(MergeSort[s]) = Members(s)
<1> DEFINE V == Seq(Nat)
           Good(s) == /\ MergeSort[s] \in V
                      /\ Ordered(MergeSort[s])
                      /\ Members(MergeSort[s]) = Members(s)
           Bad == {n \in Nat : \E s \in V : n = Len(s) /\ ~Good(s)}
<1>1. \A s \in V : Len(s) \in Nat
  OBVIOUS
<1> SUFFICES ASSUME Bad # {} PROVE FALSE
  <2> HIDE DEF V, Good
  <2> SUFFICES \A s \in V : Good(s)
    BY DEF V, Good
  <2> QED BY <1>1
<1>2. PICK n \in Bad : \A k \in Bad : n <= k
  <2> HIDE DEF Bad
  <2> Bad \in SUBSET Nat
    BY DEF Bad
  <2> QED BY LeastNat
<1>3. PICK s \in V : n = Len(s) /\ ~Good(s)
  <2> HIDE DEF V, Good
  <2> QED BY DEF Bad
<1>4. Len(s) > 1
  <2> SUFFICES ASSUME Len(s) <= 1 PROVE FALSE
    BY <1>1
  <2>1. MergeSort[s] = s
    BY MergeSortEquation
  <2>2. \A j, k \in DOMAIN s : ~(j < k)
    OBVIOUS
  <2>3. Ordered(s)
    BY <2>2 DEF Ordered
  <2> QED BY <1>3, <2>1, <2>3
<1> DEFINE l == Left(s)
           r == Right(s)
<1>5. /\ l \in V /\ r \in V /\ Len(l) < Len(s) /\ Len(r) < Len(s)
      /\ Members(s) = Members(l) \cup Members(r)
  BY <1>4, HalvesFacts
<1>6. MergeSort[s] = Merge[<<MergeSort[l], MergeSort[r]>>]
  BY <1>4, MergeSortEquation
<1> HIDE DEF l, r
<1>7. Good(l) /\ Good(r)
  <2> HIDE DEF V, Good
  <2>1. Len(l) \notin Bad /\ Len(r) \notin Bad
    <3> HIDE DEF Bad
    <3>1. Bad \in SUBSET Nat
      BY DEF Bad
    <3> QED BY <1>1, <1>2, <1>3, <1>5, <3>1
  <2> QED BY <1>1, <1>5, <2>1
<1>8. Good(s)
  BY <1>5, <1>6, <1>7, MergeFacts, MergeType
<1> QED BY <1>3, <1>8
-----------------------------------------------------------------------------
(* The keys that differ from the one before them are, in a list in order,   *)
(* as many as there are different keys.                                     *)
LEMMA CountOfOrdered ==
    ASSUME NEW s \in Seq(Nat), Ordered(s)
    PROVE  /\ IsFiniteSet(Members(s))
           /\ CountNew(s) = Cardinality(Members(s))
<1> DEFINE New == {i \in DOMAIN s : i = 1 \/ s[i] # s[i - 1]}
           f == [i \in New |-> s[i]]
<1>1. DOMAIN s = 1..Len(s) /\ Len(s) \in Nat /\ \A i \in DOMAIN s : s[i] \in Nat
  OBVIOUS
<1>2. IsFiniteSet(New)
  <2>1. IsFiniteSet(1..Len(s)) /\ New \subseteq 1..Len(s)
    BY <1>1, FS_Interval
  <2> HIDE DEF New
  <2> QED BY <2>1, FS_Subset
<1>3. \A i, j \in New : i < j => s[i] # s[j]
  <2> SUFFICES ASSUME NEW i \in New, NEW j \in New, i < j, s[i] = s[j] PROVE FALSE
    OBVIOUS
  <2>1. i \in Nat /\ j \in Nat /\ j # 1 /\ j - 1 \in DOMAIN s /\ i <= j - 1 /\ j - 1 < j
    BY <1>1
  <2>2. s[i] <= s[j - 1] /\ s[j - 1] <= s[j]
    <3>1. i \in DOMAIN s /\ j \in DOMAIN s /\ s[i] \in Nat
      BY <1>1
    <3>2. s[j - 1] <= s[j]
      BY <2>1, <3>1 DEF Ordered
    <3>3. i < j - 1 => s[i] <= s[j - 1]
      BY <2>1, <3>1 DEF Ordered
    <3>4. i = j - 1 \/ i < j - 1
      BY <2>1
    <3> QED BY <3>1, <3>2, <3>3, <3>4
  <2>3. s[j] # s[j - 1]
    BY <2>1
  <2> QED BY <1>1, <2>1, <2>2, <2>3
<1>4. \A i, j \in New : i # j => s[i] # s[j]
  <2>1. New \subseteq Nat
    BY <1>1
  <2> HIDE DEF New
  <2>2. \A i, j \in New : i # j => i < j \/ j < i
    BY <2>1
  <2> QED BY <1>3, <2>2
<1>5. ASSUME NEW v \in Members(s) PROVE \E i \in New : s[i] = v
  <2> DEFINE At == {i \in DOMAIN s : s[i] = v}
  <2>1. PICK i \in At : \A j \in At : i <= j
    <3>1. At # {} /\ At \in SUBSET Nat
      BY <1>1 DEF Members
    <3> HIDE DEF At
    <3> QED BY <3>1, LeastNat
  <2>2. CASE i = 1
    BY <2>2
  <2>3. CASE i # 1
    <3>1. i - 1 \in DOMAIN s /\ ~(i <= i - 1)
      BY <1>1, <2>3
    <3>2. s[i - 1] # v
      BY <2>1, <3>1
    <3> QED BY <2>1, <3>2
  <2> QED BY <2>2, <2>3
<1>6. f \in Bijection(New, Members(s))
  <2>1. f \in [New -> Members(s)]
    BY DEF Members
  <2>2. \A i, j \in New : f[i] = f[j] => i = j
    BY <1>4
  <2>3. \A v \in Members(s) : \E i \in New : f[i] = v
    BY <1>5
  <2> HIDE DEF New, f
  <2>4. f \in Injection(New, Members(s))
    BY <2>1, <2>2 DEF Injection, IsInjective
  <2>5. f \in Surjection(New, Members(s))
    BY <2>1, <2>3 DEF Surjection
  <2> QED BY <2>4, <2>5 DEF Bijection
<1>7. Cardinality(New) = Cardinality(Members(s)) /\ IsFiniteSet(Members(s))
  <2> HIDE DEF New, f
  <2>1. ExistsBijection(New, Members(s))
    BY <1>6 DEF ExistsBijection
  <2> QED BY <1>2, <2>1, FS_Bijection
<1> QED BY <1>7 DEF CountNew
-----------------------------------------------------------------------------
(* The sum of the values of f over a finite set, at most b each.            *)
Sum(f, T) == MapThenSumSet(LAMBDA x : f[x], T)

LEMMA SumBounded ==
    ASSUME NEW T, IsFiniteSet(T), NEW f, NEW b \in Nat, \A x \in T : f[x] \in 0..b
    PROVE  Sum(f, T) \in Nat /\ Sum(f, T) <= b * Cardinality(T)
<1> DEFINE D == SUBSET T
           one(s) == CHOOSE x \in s : TRUE
           m == [s \in D |-> Cardinality(s)]
           body(s, g) == IF s = {} THEN 0 ELSE f[one(s)] + g[s \ {one(s)}]
           step == [y \in D \X [D -> Nat] |-> body(y[1], y[2])]
           F(g) == [s \in D |-> body(s, g)]
<1>1. \A s \in D : IsFiniteSet(s) /\ Cardinality(s) \in Nat
  BY FS_Subset, FS_CardinalityType
<1>2. ASSUME NEW s \in D, s # {}
      PROVE  /\ one(s) \in s /\ f[one(s)] \in 0..b
             /\ s \ {one(s)} \in D
             /\ Cardinality(s \ {one(s)}) = Cardinality(s) - 1
  <2>1. one(s) \in s
    BY <1>2
  <2> HIDE DEF one
  <2> QED BY <1>1, <2>1, FS_RemoveElement
<1> HIDE DEF one
<1>3. m \in [D -> Nat]
  <2> HIDE DEF D
  <2> QED BY <1>1
<1>4. ASSUME NEW s \in D, NEW g \in [D -> Nat] PROVE body(s, g) \in Nat
  <2>1. CASE s = {}
    BY <2>1
  <2>2. CASE s # {}
    <3>1. f[one(s)] \in Nat /\ g[s \ {one(s)}] \in Nat
      BY <1>2, <2>2
    <3> QED BY <2>2, <3>1
  <2> QED BY <2>1, <2>2
<1>5. step \in [D \X [D -> Nat] -> Nat]
  <2> HIDE DEF body, D
  <2> QED BY <1>4
<1>6. ASSUME NEW s \in D, NEW g \in [D -> Nat], NEW h \in [D -> Nat],
             \A t \in D : m[t] < m[s] => g[t] = h[t]
      PROVE  step[<<s, g>>] = step[<<s, h>>]
  <2>1. body(s, g) = body(s, h)
    <3>1. CASE s = {}
      BY <3>1
    <3>2. CASE s # {}
      <4>1. s \ {one(s)} \in D /\ m[s \ {one(s)}] < m[s]
        <5>1. m[s] = Cardinality(s) /\ Cardinality(s) \in Nat
          BY <1>1
        <5>2. s \ {one(s)} \in D /\ Cardinality(s \ {one(s)}) = Cardinality(s) - 1
          BY <1>2, <3>2
        <5>3. m[s \ {one(s)}] = Cardinality(s) - 1
          BY <5>2
        <5> HIDE DEF m
        <5> QED BY <5>1, <5>2, <5>3
      <4>2. g[s \ {one(s)}] = h[s \ {one(s)}]
        <5> HIDE DEF D, m
        <5> QED BY <1>6, <4>1
      <4> QED BY <4>2
    <3> QED BY <3>1, <3>2
  <2> HIDE DEF body, D
  <2> QED BY <2>1
<1>7. PICK g \in [D -> Nat] : \A s \in D : g[s] = step[<<s, g>>]
  <2> HIDE DEF D, m, step
  <2>1. \A s \in D : \A g, h \in [D -> Nat] :
            (\A t \in D : m[t] < m[s] => g[t] = h[t]) => step[<<s, g>>] = step[<<s, h>>]
    BY <1>6
  <2>2. LooksBelow(D, Nat, m, step)
    BY <1>3, <1>5, <2>1 DEF LooksBelow
  <2> QED BY <2>2, RecursionNat
<1>8. g = F(g)
  <2>1. \A s \in D : g[s] = body(s, g)
    <3> HIDE DEF body, D
    <3> QED BY <1>7
  <2> HIDE DEF D, body
  <2> QED BY <2>1
<1> DEFINE iter == CHOOSE h : h = F(h)
<1>9. iter = F(iter)
  <2> HIDE DEF F
  <2> QED BY <1>8
<1>10. Sum(f, T) = iter[T]
  BY DEF Sum, MapThenSumSet, MapThenFoldSet, one
<1> HIDE DEF iter
<1>11. \A s \in D : iter[s] = body(s, iter)
  <2> HIDE DEF D, body
  <2> QED BY <1>9
<1> DEFINE Good(n) == \A s \in D : Cardinality(s) = n =>
                          iter[s] \in Nat /\ iter[s] <= b * n
           G == {n \in Nat : Good(n)}
<1>12. 0 \in G
  <2> SUFFICES ASSUME NEW s \in D, Cardinality(s) = 0 PROVE iter[s] = 0
    BY b * 0 = 0
  <2>1. s = {}
    BY <1>1, FS_EmptySet
  <2> QED BY <1>11, <2>1
<1>13. ASSUME NEW n \in Nat, n \in G PROVE n + 1 \in G
  <2> SUFFICES ASSUME NEW s \in D, Cardinality(s) = n + 1
               PROVE  iter[s] \in Nat /\ iter[s] <= b * (n + 1)
    OBVIOUS
  <2>1. s # {}
    <3>1. Cardinality({}) = 0 /\ n + 1 # 0
      BY FS_EmptySet
    <3> QED BY <3>1
  <2> DEFINE t == s \ {one(s)}
  <2>2. t \in D /\ Cardinality(t) = n /\ f[one(s)] \in 0..b
    BY <1>2, <2>1
  <2>3. iter[t] \in Nat /\ iter[t] <= b * n
    BY <1>13, <2>2
  <2>4. iter[s] = f[one(s)] + iter[t]
    BY <1>11, <2>1
  <2> DEFINE p == b * n
  <2>5. p \in Nat /\ b * (n + 1) = p + b
    OBVIOUS
  <2> HIDE DEF t, p
  <2>6. iter[t] <= p
    BY <2>3 DEF p
  <2> QED BY <2>2, <2>3, <2>4, <2>5, <2>6
<1>14. G = Nat
  <2> HIDE DEF Good
  <2>1. G \in SUBSET Nat
    OBVIOUS
  <2> HIDE DEF G
  <2> QED BY <1>12, <1>13, <2>1, InductionNat
<1>15. Good(Cardinality(T))
  <2>1. Cardinality(T) \in Nat
    BY FS_CardinalityType
  <2> HIDE DEF Good
  <2> QED BY <1>14, <2>1
<1> QED BY <1>10, <1>15
-----------------------------------------------------------------------------
(***************************************************************************)
(* What CalcDataRecvRate counts.                                           *)
(***************************************************************************)
Of(c, i) == {f \in Members(packets) : f.ip = c /\ f.img = i}

LEMMA SequencesFacts ==
    ASSUME packets \in Seq(Fragment), NEW c, NEW i
    PROVE  /\ SequencesOf(c, i) \in Seq(0..(Fragments - 1))
           /\ Members(SequencesOf(c, i)) = {f.seq : f \in Of(c, i)}
<1> DEFINE N == Len(packets)
           D == 0..N
           K == 0..(Fragments - 1)
           V == Seq(K)
           mine(k) == packets[k].ip = c /\ packets[k].img = i
           m == [k \in D |-> k]
           body(k, g) == IF k = 0 THEN <<>>
                         ELSE IF mine(k) THEN Append(g[k - 1], packets[k].seq)
                         ELSE g[k - 1]
           step == [y \in D \X [D -> V] |-> body(y[1], y[2])]
           F(g) == [k \in D |-> body(k, g)]
<1>1. N \in Nat /\ DOMAIN packets = 1..N /\ \A k \in 1..N : packets[k] \in Fragment
  OBVIOUS
<1>2. \A k \in 1..N : packets[k].seq \in K
  BY <1>1 DEF Fragment
<1> HIDE DEF N, K, mine
<1>3. \A k \in D \ {0} : k \in 1..N /\ k - 1 \in D /\ k - 1 < k
  BY <1>1
<1>4. m \in [D -> Nat]
  BY <1>1
<1>5. ASSUME NEW k \in D, NEW g \in [D -> V] PROVE body(k, g) \in V
  <2>1. CASE k = 0
    BY <2>1
  <2>2. CASE k # 0
    <3>1. g[k - 1] \in V /\ packets[k].seq \in K
      BY <1>2, <1>3, <2>2
    <3>2. Append(g[k - 1], packets[k].seq) \in V
      BY <3>1
    <3> HIDE DEF V
    <3> QED BY <2>2, <3>1, <3>2
  <2> QED BY <2>1, <2>2
<1>6. step \in [D \X [D -> V] -> V]
  <2> HIDE DEF body, D, V
  <2> QED BY <1>5
<1>7. ASSUME NEW k \in D, NEW g \in [D -> V], NEW h \in [D -> V],
             \A t \in D : m[t] < m[k] => g[t] = h[t]
      PROVE  step[<<k, g>>] = step[<<k, h>>]
  <2>1. k # 0 => g[k - 1] = h[k - 1]
    BY <1>3, <1>7
  <2>2. body(k, g) = body(k, h)
    BY <2>1
  <2> HIDE DEF body, D, V
  <2> QED BY <2>2
<1>8. PICK g \in [D -> V] : \A k \in D : g[k] = step[<<k, g>>]
  <2> HIDE DEF D, V, m, step
  <2>1. \A k \in D : \A g, h \in [D -> V] :
            (\A t \in D : m[t] < m[k] => g[t] = h[t]) => step[<<k, g>>] = step[<<k, h>>]
    BY <1>7
  <2>2. V # {}
    <3>1. <<>> \in V
      BY DEF V
    <3> QED BY <3>1
  <2>3. LooksBelow(D, V, m, step)
    BY <1>4, <1>6, <2>1, <2>2 DEF LooksBelow
  <2> QED BY <2>3, RecursionNat
<1>9. g = F(g)
  <2>1. \A k \in D : g[k] = body(k, g)
    <3> HIDE DEF body, D, V
    <3> QED BY <1>8
  <2> HIDE DEF D, body, V
  <2> QED BY <2>1
<1> DEFINE of == CHOOSE h : h = F(h)
<1>10. of = F(of)
  <2> HIDE DEF F
  <2> QED BY <1>9
<1>11. SequencesOf(c, i) = of[N]
  BY DEF SequencesOf, N, mine
<1> HIDE DEF of
<1>12. \A k \in D : of[k] = body(k, of)
  <2> HIDE DEF D, body
  <2> QED BY <1>10
<1> DEFINE Keys(k) == {packets[j].seq : j \in {j \in 1..k : mine(j)}}
           Good(k) == k <= N => of[k] \in V /\ Members(of[k]) = Keys(k)
           G == {k \in Nat : Good(k)}
<1>13. 0 \in G
  <2>1. of[0] = <<>>
    <3>1. 0 \in D
      BY <1>1
    <3>2. of[0] = body(0, of)
      <4> HIDE DEF D, body
      <4> QED BY <1>12, <3>1
    <3> QED BY <3>2
  <2>2. Keys(0) = {}
    OBVIOUS
  <2>3. Members(<<>>) = {} /\ <<>> \in V
    BY DEF Members
  <2> HIDE DEF V, Keys
  <2> QED BY <2>1, <2>2, <2>3
<1>14. ASSUME NEW k \in Nat, k \in G PROVE k + 1 \in G
  <2> SUFFICES ASSUME k + 1 <= N PROVE of[k + 1] \in V /\ Members(of[k + 1]) = Keys(k + 1)
    OBVIOUS
  <2>1. of[k] \in V /\ Members(of[k]) = Keys(k) /\ k + 1 \in 1..N /\ k + 1 \in D
    BY <1>1, <1>14
  <2>2. \A j \in 1..(k + 1) : j \in 1..k \/ j = k + 1
    OBVIOUS
  <2>3. \A j \in 1..k : j \in 1..(k + 1)
    OBVIOUS
  <2>4. k + 1 \in 1..(k + 1) /\ k + 1 # 0 /\ k + 1 - 1 = k
    OBVIOUS
  <2>5. of[k + 1] = body(k + 1, of)
    BY <1>12, <2>1
  <2>6. CASE mine(k + 1)
    <3> DEFINE e == packets[k + 1].seq
               s == of[k]
    <3>1. of[k + 1] = Append(s, e) /\ e \in K
      BY <1>2, <2>1, <2>4, <2>5, <2>6
    <3>2. s \in V /\ Members(s) = Keys(k)
      BY <2>1
    <3> HIDE DEF s, Keys
    <3>3. /\ Append(s, e) \in V /\ DOMAIN Append(s, e) = DOMAIN s \cup {Len(s) + 1}
          /\ \A j \in DOMAIN s : Append(s, e)[j] = s[j]
          /\ Append(s, e)[Len(s) + 1] = e
      <4> HIDE DEF e
      <4> QED BY <3>1, <3>2
    <3>4. Members(Append(s, e)) = Members(s) \cup {e}
      <4> HIDE DEF e, V
      <4> QED BY <3>3 DEF Members
    <3>5. Keys(k + 1) = Keys(k) \cup {e}
      BY <2>2, <2>3, <2>4, <2>6 DEF Keys
    <3> QED BY <3>1, <3>2, <3>3, <3>4, <3>5
  <2>7. CASE ~mine(k + 1)
    <3>1. of[k + 1] = of[k]
      BY <2>4, <2>5, <2>7
    <3>2. Keys(k + 1) = Keys(k)
      BY <2>2, <2>3, <2>7
    <3> QED BY <2>1, <3>1, <3>2
  <2> QED BY <2>6, <2>7
<1>15. G = Nat
  <2> HIDE DEF Good
  <2>1. G \in SUBSET Nat
    OBVIOUS
  <2> HIDE DEF G
  <2> QED BY <1>13, <1>14, <2>1, InductionNat
<1>16. Good(N)
  <2> HIDE DEF Good
  <2> QED BY <1>1, <1>15
<1>17. Keys(N) = {f.seq : f \in Of(c, i)}
  <2>1. \A f \in Of(c, i) : \E j \in 1..N : mine(j) /\ f = packets[j]
    BY <1>1 DEF Of, Members, mine
  <2>2. \A j \in 1..N : mine(j) => packets[j] \in Of(c, i)
    BY <1>1 DEF Of, Members, mine
  <2> QED BY <2>1, <2>2
<1>18. N <= N
  BY <1>1
<1>19. of[N] \in V /\ Members(of[N]) = Keys(N)
  BY <1>16, <1>18
<1> QED BY <1>11, <1>17, <1>19 DEF K

(* After the sort an image's packets are counted as its different fragments.*)
LEMMA ImageSizeFacts ==
    ASSUME packets \in Seq(Fragment), NEW c, NEW i
    PROVE  /\ ImageSize(c, i) = Cardinality(Of(c, i))
           /\ ImageSize(c, i) \in 0..Fragments
<1> DEFINE s == SequencesOf(c, i)
           t == MergeSort[s]
           K == 0..(Fragments - 1)
           f == [x \in Of(c, i) |-> x.seq]
<1>1. s \in Seq(K) /\ Members(s) = {x.seq : x \in Of(c, i)}
  BY SequencesFacts
<1> HIDE DEF s
<1>2. s \in Seq(Nat) /\ Members(s) \in SUBSET K
  <2>1. K \in SUBSET Nat
    OBVIOUS
  <2> HIDE DEF K
  <2>2. \A k \in DOMAIN s : s[k] \in K
    BY <1>1
  <2>3. s \in Seq(Nat)
    <3>1. s \in [1..Len(s) -> K] /\ Len(s) \in Nat
      BY <1>1, LenProperties
    <3>2. s \in [1..Len(s) -> Nat]
      BY <2>1, <3>1
    <3> QED BY <3>1, <3>2, SeqDef
  <2> QED BY <2>2, <2>3 DEF Members
<1>3. t \in Seq(Nat) /\ Ordered(t) /\ Members(t) = Members(s)
  BY <1>2, MergeSortFacts
<1> HIDE DEF t
<1>4. IsFiniteSet(Members(s)) /\ CountNew(t) = Cardinality(Members(s))
  BY <1>3, CountOfOrdered
<1>5. \A x \in Of(c, i) : x \in Fragment /\ x.ip = c /\ x.img = i
  BY DEF Of, Members
<1>6. f \in Injection(Of(c, i), Members(s)) /\ f \in Surjection(Of(c, i), Members(s))
  <2>1. f \in [Of(c, i) -> Members(s)]
    BY <1>1
  <2>2. ASSUME NEW x \in Of(c, i), NEW y \in Of(c, i), f[x] = f[y] PROVE x = y
    <3>1. x.seq = y.seq /\ x.ip = y.ip /\ x.img = y.img /\ x \in Fragment /\ y \in Fragment
      BY <1>5, <2>2
    <3> QED BY <3>1 DEF Fragment
  <2>3. \A v \in Members(s) : \E x \in Of(c, i) : f[x] = v
    BY <1>1
  <2>4. f \in Injection(Of(c, i), Members(s))
    BY <2>1, <2>2 DEF Injection, IsInjective
  <2> HIDE DEF f
  <2>5. f \in Surjection(Of(c, i), Members(s))
    BY <2>1, <2>3 DEF Surjection
  <2> QED BY <2>4, <2>5
<1> HIDE DEF f
<1>7. Cardinality(Of(c, i)) = Cardinality(Members(s))
  BY <1>4, <1>6, FS_Injection
<1>8. Cardinality(Members(s)) \in Nat /\ Cardinality(Members(s)) <= Fragments
  <2>1. Fragments \in Nat \ {0}
    BY NetworkAssumption
  <2>2. IsFiniteSet(K) /\ Cardinality(K) = Fragments
    <3>1. 0 \in Int /\ Fragments - 1 \in Int /\ ~(0 > Fragments - 1)
          /\ (Fragments - 1) - 0 + 1 = Fragments
      BY <2>1
    <3> QED BY <3>1, FS_Interval
  <2> HIDE DEF K
  <2>3. Cardinality(Members(s)) <= Cardinality(K)
    BY <1>2, <2>2, FS_Subset
  <2> QED BY <1>4, <2>2, <2>3, FS_CardinalityType
<1>9. ImageSize(c, i) = CountNew(t)
  BY DEF ImageSize, s, t
<1> QED BY <1>4, <1>7, <1>8, <1>9, NetworkAssumption

(* An announcement is about as many images as it gives the size of.         *)
Images(m) == ((m.to - m.from) % ImgMod) + 1

LEMMA AnnouncedFacts ==
    ASSUME NEW m \in ValueMessage
    PROVE  LET A == {i \in 0..(ImgMod - 1) : Announced(m, i)} IN
           IsFiniteSet(A) /\ Cardinality(A) = Images(m) /\ Images(m) \in Nat
<1> DEFINE A == {i \in 0..(ImgMod - 1) : Announced(m, i)}
           M == ImgMod
           a == m.from
           b == m.to
<1>1. M \in Nat \ {0} /\ a \in 0..(M - 1) /\ b \in 0..(M - 1)
  BY NetworkAssumption DEF ValueMessage
<1>2. Images(m) = (IF b >= a THEN b - a ELSE b - a + M) + 1
  <2> HIDE DEF a, b, M
  <2>1. (b - a) % M = IF b >= a THEN b - a ELSE b - a + M
    BY <1>1, Distance
  <2> QED BY <2>1 DEF Images, a, b, M
<1>3. CASE a > b
  <2>1. A = (a..(M - 1)) \cup (0..b) /\ (a..(M - 1)) \cap (0..b) = {}
    BY <1>1, <1>3 DEF Announced
  <2> HIDE DEF A, a, b, M
  <2>2. IsFiniteSet(a..(M - 1)) /\ Cardinality(a..(M - 1)) = M - a
    <3>1. a \in Int /\ M - 1 \in Int /\ ~(a > M - 1) /\ (M - 1) - a + 1 = M - a
      BY <1>1
    <3>2. Cardinality(a..(M - 1)) = IF a > M - 1 THEN 0 ELSE (M - 1) - a + 1
      BY <3>1, FS_Interval
    <3>3. IsFiniteSet(a..(M - 1))
      BY <3>1, FS_Interval
    <3> QED BY <3>1, <3>2, <3>3
  <2>3. IsFiniteSet(0..b) /\ Cardinality(0..b) = b + 1
    <3>1. 0 \in Int /\ b \in Int /\ ~(0 > b) /\ b - 0 + 1 = b + 1
      BY <1>1
    <3>2. Cardinality(0..b) = IF 0 > b THEN 0 ELSE b - 0 + 1
      BY <3>1, FS_Interval
    <3>3. IsFiniteSet(0..b)
      BY <3>1, FS_Interval
    <3> QED BY <3>1, <3>2, <3>3
  <2>4. /\ IsFiniteSet(A)
        /\ Cardinality(A) = Cardinality(a..(M - 1)) + Cardinality(0..b) - Cardinality({})
    <3> DEFINE U == a..(M - 1)
               L == 0..b
    <3>1. IsFiniteSet(U) /\ IsFiniteSet(L) /\ A = U \cup L /\ U \cap L = {}
      BY <2>1, <2>2, <2>3
    <3> HIDE DEF U, L
    <3>2. /\ IsFiniteSet(U \cup L)
          /\ Cardinality(U \cup L) = Cardinality(U) + Cardinality(L) - Cardinality(U \cap L)
      BY <3>1, FS_Union
    <3>3. IsFiniteSet(A) /\ Cardinality(A) = Cardinality(U) + Cardinality(L) - Cardinality({})
      BY <3>1, <3>2
    <3> QED BY <3>3 DEF U, L
  <2>5. Cardinality({}) = 0
    BY FS_EmptySet
  <2>6. Cardinality(A) = M - a + (b + 1) - 0
    BY <2>2, <2>3, <2>4, <2>5
  <2>7. Cardinality(A) = Images(m) /\ Images(m) \in Nat
    BY <1>1, <1>2, <1>3, <2>6
  <2> QED BY <2>4, <2>7 DEF A
<1>4. CASE ~(a > b)
  <2>1. A = a..b
    BY <1>1, <1>4 DEF Announced
  <2> HIDE DEF A, a, b, M
  <2>2. a \in Int /\ b \in Int
    BY <1>1
  <2>3. Cardinality(a..b) = IF a > b THEN 0 ELSE b - a + 1
    BY <2>2, FS_Interval
  <2>4. IsFiniteSet(a..b)
    BY <2>2, FS_Interval
  <2>5. Cardinality(A) = Images(m) /\ Images(m) \in Nat
    BY <1>1, <1>2, <1>4, <2>1, <2>3
  <2> QED BY <2>1, <2>4, <2>5 DEF A
<1> QED BY <1>3, <1>4

ImagesType == images \in [Clients -> [0..(ImgMod - 1) -> 0..Fragments]]

Sized == {m \in ValueMessage : m.size = Fragments * Images(m)}

(* So the handler finds no more received of these images than was announced.*)
LEMMA ReceivedIsSent ==
    ASSUME ImagesType, NEW m \in Sized
    PROVE  ReceivedSize(m) \in Nat /\ ReceivedSize(m) <= m.size
<1> DEFINE A == {i \in 0..(ImgMod - 1) : Announced(m, i)}
           f == images[m.ip]
<1>1. m \in ValueMessage /\ m.ip \in Clients /\ m.size = Fragments * Images(m)
  BY DEF Sized, ValueMessage
<1>2. ReceivedSize(m) = Sum(f, A)
  BY DEF ReceivedSize, Sum
<1>3. \A i \in A : f[i] \in 0..Fragments
  BY <1>1 DEF ImagesType
<1>4. IsFiniteSet(A) /\ Cardinality(A) = Images(m)
  BY <1>1, AnnouncedFacts
<1>5. Fragments \in Nat
  BY NetworkAssumption
<1> HIDE DEF f, A
<1>6. Sum(f, A) \in Nat /\ Sum(f, A) <= Fragments * Cardinality(A)
  BY <1>3, <1>4, <1>5, SumBounded
<1> QED BY <1>1, <1>2, <1>4, <1>6
-----------------------------------------------------------------------------
(* All announcements that the server holds were made by a client, and give  *)
(* the size of their images; while one is dealt with the list is not empty. *)
CountTypes ==
    /\ pc \in {"start", "idle", "first", "message", "walk", "decide", "exiting", "exit"}
    /\ messages \in Seq(Sized)
    /\ ImagesType
    /\ ratio \in [Clients -> [send : Nat, recv : Nat]]

CountInv ==
    /\ CountTypes
    /\ pc \in {"message", "walk"} => messages # <<>>
    /\ CountedWithinSent

countVars == <<pc, messages, images, ratio>>

LEMMA NothingCounted ==
    /\ NoImages \in [Clients -> [0..(ImgMod - 1) -> 0..Fragments]]
    /\ NoRatio \in [Clients -> [send : Nat, recv : Nat]]
    /\ \A c \in Clients : NoRatio[c].recv <= NoRatio[c].send
  BY NetworkAssumption DEF NoImages, NoRatio

LEMMA InitCountInv == LoopInit => CountInv
  BY NothingCounted DEF LoopInit, StaticInit, InOrderInit, RateInit, CountInv, CountTypes,
                        ImagesType, CountedWithinSent

LEMMA AnnouncedIsSized ==
    ASSUME TileInv, NEW c \in Clients, NEW i \in DOMAIN announced[c]
    PROVE  announced[c][i] \in Sized
<1>1. announced[c] \in Seq(ValueMessage)
  BY DEF TileInv, TileTypes
<1>2. announced[c][i] \in ValueMessage /\ i \in 1..Len(announced[c])
  BY <1>1
<1> QED BY <1>2 DEF TileInv, AnnouncementsTile, Sized, Images

LEMMA NextKeepsCountInv ==
    ASSUME WalkInv, TileInv, CountInv, [LoopNext]_loopVars
    PROVE  CountInv'
<1> USE DEF CountInv, CountTypes
<1>1. CASE UNCHANGED countVars
  BY <1>1 DEF countVars, ImagesType, CountedWithinSent
<1>2. CASE SendingBeacon \/ ExitServer \/ ReceiveTimeout
  BY <1>2 DEF SendingBeacon, ExitServer, ReceiveTimeout, listVars, ImagesType, CountedWithinSent
<1>3. CASE \E f \in Fragment : ReceiveImageFile(f)
  BY <1>1, <1>3 DEF ReceiveImageFile, countVars
<1>4. ASSUME NEW c \in Clients, NEW i \in DOMAIN announced[c],
             ReceiveValueMessage(announced[c][i])
      PROVE  CountInv'
  <2>1. messages' = Append(messages, announced[c][i]) /\ UNCHANGED <<pc, images, ratio>>
    BY <1>4 DEF ReceiveValueMessage
  <2>2. announced[c][i] \in Sized
    BY AnnouncedIsSized
  <2>3. messages' \in Seq(Sized) /\ messages' # <<>>
    BY <2>1, <2>2, LastElement
  <2> QED BY <2>1, <2>3 DEF ImagesType, CountedWithinSent
<1>5. CASE TimerExpires
  <2>1. /\ pc' = "first" /\ UNCHANGED <<messages, ratio>>
        /\ images' = [c \in Clients |-> [i \in 0..(ImgMod - 1) |-> ImageSize(c, i)]]
    BY <1>5 DEF TimerExpires, listVars
  <2>2. \A c \in Clients : \A i \in 0..(ImgMod - 1) : ImageSize(c, i) \in 0..Fragments
    BY ImageSizeFacts DEF WalkInv
  <2>3. ImagesType'
    BY <2>1, <2>2 DEF ImagesType
  <2> QED BY <2>1, <2>3 DEF CountedWithinSent
<1>6. CASE FirstMessage
  BY <1>6 DEF FirstMessage, listVars, ImagesType, CountedWithinSent
<1>7. CASE CountMessage
  <2> DEFINE m == Head(messages)
             new == [send |-> ratio[m.ip].send + m.size,
                     recv |-> ratio[m.ip].recv + ReceivedSize(m)]
  <2>1. /\ pc = "message" /\ pc' = "walk"
        /\ ratio' = [ratio EXCEPT ![m.ip] = new]
        /\ UNCHANGED <<messages, images>>
    BY <1>7 DEF CountMessage, listVars
  <2>2. m \in Sized
    BY <2>1
  <2> HIDE DEF m
  <2>3. m.ip \in Clients /\ m.size \in Nat
    BY <2>2 DEF Sized, ValueMessage
  <2>4. ReceivedSize(m) \in Nat /\ ReceivedSize(m) <= m.size
    BY <2>2, ReceivedIsSent
  <2>5. /\ ratio[m.ip].send \in Nat /\ ratio[m.ip].recv \in Nat
        /\ ratio[m.ip].recv <= ratio[m.ip].send
    BY <2>3 DEF CountedWithinSent
  <2>6. new \in [send : Nat, recv : Nat] /\ new.recv <= new.send
    BY <2>3, <2>4, <2>5
  <2> HIDE DEF new
  <2>7. ratio' \in [Clients -> [send : Nat, recv : Nat]]
    BY <2>1, <2>6
  <2>8. CountedWithinSent'
    BY <2>1, <2>6 DEF CountedWithinSent
  <2> QED BY <2>1, <2>7, <2>8 DEF ImagesType
<1>8. CASE DeletePacket \/ SkipPacket
  BY <1>1, <1>8 DEF DeletePacket, SkipPacket, listVars, countVars
<1>9. CASE EndMessage
  <2>1. /\ pc = "walk" /\ messages' = Tail(messages)
        /\ pc' = IF messages' = <<>> THEN "decide" ELSE "message"
        /\ UNCHANGED <<images, ratio>>
    BY <1>9 DEF EndMessage
  <2>2. messages' \in Seq(Sized)
    BY <2>1
  <2> QED BY <2>1, <2>2 DEF ImagesType, CountedWithinSent
<1>10. CASE Decided
  <2>1. /\ pc' \in {"exiting", "idle"} /\ images' = NoImages /\ ratio' = NoRatio
        /\ UNCHANGED messages
    BY <1>10 DEF Decided, listVars
  <2> QED BY <2>1, NothingCounted DEF ImagesType, CountedWithinSent
<1>11. CASE UNCHANGED rateVars
  BY <1>1, <1>11 DEF rateVars, listVars, countVars
<1>12. CASE UNCHANGED loopVars
  BY <1>11, <1>12 DEF loopVars, serverVars
<1> QED BY <1>2, <1>3, <1>4, <1>5, <1>6, <1>7, <1>8, <1>9, <1>10, <1>11, <1>12, ServerDoes

(* The handler never finds that a client's images arrived to a larger       *)
(* amount than the client announced, whatever is repeated, comes late or    *)
(* stays in the list, and across the wrap of image_number                   *)
(* (CalcDataRecvRate).                                                      *)
THEOREM ReceivedWithinAnnounced == LoopSpec => []CountedWithinSent
<1>1. WalkInv /\ TileInv /\ CountInv /\ [LoopNext]_loopVars => (WalkInv /\ TileInv /\ CountInv)'
  BY NextKeepsWalkInv, NextKeepsTileInv, NextKeepsCountInv
<1>2. CountInv => CountedWithinSent
  BY DEF CountInv
<1> QED BY <1>1, <1>2, InitWalkInv, InitTileInv, InitCountInv, PTL DEF LoopSpec

(* The scan after the sort counts each fragment in the list once, however   *)
(* often it came and in whatever order (CalcDataRecvRate).                  *)
THEOREM EachFragmentCountedOnce == LoopSpec => CountsDistinct
<1>1. ASSUME WalkInv, [LoopNext]_loopVars, pc = "idle", pc' = "first",
             NEW c \in Clients, NEW i \in 0..(ImgMod - 1)
      PROVE  images'[c][i] = Cardinality({f \in ToSet(packets) : f.ip = c /\ f.img = i})
  <2>1. LoopNext
    BY <1>1 DEF loopVars, serverVars, rateVars
  <2>2. TimerExpires
    BY <1>1, <2>1, ServerDoes DEF rateVars, SendingBeacon, ExitServer, ReceiveTimeout,
       ReceiveImageFile, ReceiveValueMessage, FirstMessage, CountMessage, DeletePacket,
       SkipPacket, EndMessage, Decided
  <2>3. images'[c][i] = ImageSize(c, i)
    BY <2>2 DEF TimerExpires
  <2>4. {f \in ToSet(packets) : f.ip = c /\ f.img = i} = Of(c, i)
    BY DEF ToSet, Of, Members
  <2> QED BY <2>3, <2>4, <1>1, ImageSizeFacts DEF WalkInv
<1>2. WalkInv /\ [LoopNext]_loopVars =>
        [pc = "idle" /\ pc' = "first" =>
           \A c \in Clients, i \in 0..(ImgMod - 1) :
              images'[c][i] = Cardinality({f \in ToSet(packets) : f.ip = c /\ f.img = i})
        ]_loopVars
  BY <1>1
<1>3. WalkInv /\ [LoopNext]_loopVars => WalkInv'
  BY NextKeepsWalkInv
<1> QED BY <1>2, <1>3, InitWalkInv, PTL DEF LoopSpec, CountsDistinct
-----------------------------------------------------------------------------
(***************************************************************************)
(* The types of the other variables.                                       *)
(***************************************************************************)
RestTypes ==
    /\ change \in [Clients -> {0, 1}]
    /\ got \in [Clients -> SUBSET (Nat \ {0})]
    /\ atHead \in BOOLEAN
    /\ cycle \in Nat /\ exitCode \in BOOLEAN
    /\ calls \in 0..PERIOD_FIXED_INTERVAL
    /\ newest \in [Clients -> Nat]
    /\ heard \in [Clients -> SUBSET (Nat \ {0})]
    /\ build \in {"adaptive", "static", "in_order"}

LEMMA InitRestTypes == LoopInit => RestTypes
<1> SUFFICES ASSUME LoopInit PROVE RestTypes
  OBVIOUS
<1> USE DEF LoopInit, SenderInit, StaticInit, InOrderInit, RateInit
<1>1. change \in [Clients -> {0, 1}] /\ newest \in [Clients -> Nat]
  OBVIOUS
<1>2. got \in [Clients -> SUBSET (Nat \ {0})] /\ heard \in [Clients -> SUBSET (Nat \ {0})]
  OBVIOUS
<1>3. atHead \in BOOLEAN /\ exitCode \in BOOLEAN
  OBVIOUS
<1>4. cycle \in Nat /\ calls \in 0..PERIOD_FIXED_INTERVAL
  BY StaticRateAssumption
<1>5. build \in {"adaptive", "static", "in_order"}
  OBVIOUS
<1> QED BY <1>1, <1>2, <1>3, <1>4, <1>5 DEF RestTypes

(* Variables of the clients that only their own threads write.              *)
LEMMA ClientKeepsTypes ==
    ASSUME RestTypes, RelayTypes, [LoopNext]_loopVars
    PROVE  change' \in [Clients -> {0, 1}] /\ got' \in [Clients -> SUBSET (Nat \ {0})]
<1> USE DEF RestTypes
<1>1. CASE ServerStep
  BY <1>1, ServerIssues DEF senderVars, threadVars
<1>2. ASSUME NEW c \in Clients, Control(c) \/ Sending(c)
      PROVE  change' \in [Clients -> {0, 1}] /\ got' \in [Clients -> SUBSET (Nat \ {0})]
  BY <1>2 DEF Control, Sending, WaitingBeacon, WaitExitCode, Stop, MainLoop, SendFragment,
              TestChange, ResetChange, EndOfImage, threadVars
<1>3. ASSUME NEW c \in Clients, NEW t \in Threads, ConnectionThread(c, t, issued)
      PROVE  change' \in [Clients -> {0, 1}] /\ got' \in [Clients -> SUBSET (Nat \ {0})]
  <2>1. Incoming(c, issued) \in Seq(PeriodMessage)
    BY NetworkAssumption DEF Incoming, RelayTypes
  <2>2. DOMAIN Incoming(c, issued) \in SUBSET (Nat \ {0})
    BY <2>1
  <2>3. change' \in [Clients -> {0, 1}]
    BY <1>3 DEF ConnectionThread, RecvMessage, TestNumber, StoreNumber, Relay, StorePeriod
  <2>4. UNCHANGED got \/ \E i \in DOMAIN Incoming(c, issued) :
                            got' = [got EXCEPT ![c] = got[c] \cup {i}]
    BY <1>3 DEF ConnectionThread, RecvMessage, TestNumber, StoreNumber, Relay, StorePeriod
  <2> QED BY <2>2, <2>3, <2>4
<1>4. CASE UNCHANGED loopVars
  BY <1>4 DEF loopVars, senderVars, threadVars
<1> QED BY <1>1, <1>2, <1>3, <1>4 DEF LoopNext, ServerStep, Connections

LEMMA NextKeepsRestTypes ==
    ASSUME RestTypes, RelayTypes, TileInv, [LoopNext]_loopVars
    PROVE  RestTypes'
<1>1. atHead' \in BOOLEAN /\ cycle' \in Nat /\ exitCode' \in BOOLEAN
  <2>1. CASE UNCHANGED rateVars
    BY <2>1 DEF RestTypes, rateVars, walkVars
  <2>2. CASE UNCHANGED loopVars
    BY <2>1, <2>2 DEF loopVars, serverVars
  <2>3. CASE ~(UNCHANGED rateVars) /\ ~(UNCHANGED loopVars)
    <3> USE DEF walkVars
    <3>1. CASE \/ SendingBeacon \/ ExitServer \/ ReceiveTimeout \/ TimerExpires \/ FirstMessage
               \/ DeletePacket
      BY <3>1 DEF RestTypes, SendingBeacon, ExitServer, ReceiveTimeout, TimerExpires,
                  FirstMessage, DeletePacket
    <3>2. CASE CountMessage \/ SkipPacket \/ EndMessage
      BY <3>2 DEF RestTypes, CountMessage, SkipPacket, EndMessage
    <3>3. CASE Decided
      <4>1. atHead' = atHead /\ cycle' = cycle + 1 /\ exitCode' \in BOOLEAN
        BY <3>3 DEF Decided
      <4>2. cycle' \in Nat
        BY <4>1 DEF RestTypes
      <4> QED BY <4>1, <4>2 DEF RestTypes
    <3>4. ASSUME NEW f, ReceiveImageFile(f) \/ ReceiveValueMessage(f)
          PROVE  atHead' \in BOOLEAN /\ cycle' \in Nat /\ exitCode' \in BOOLEAN
      BY <3>4 DEF RestTypes, ReceiveImageFile, ReceiveValueMessage
    <3>5. LoopNext
      BY <2>3
    <3> HIDE DEF walkVars
    <3> QED BY <2>3, <3>1, <3>2, <3>3, <3>4, <3>5, ServerDoes
  <2> QED BY <2>1, <2>2, <2>3
<1>2. build' \in {"adaptive", "static", "in_order"}
  BY DEF RestTypes, LoopNext, Main, ReceiverThread, Handler, ValueThread, Control, Connections,
         Sending, Adaptive, Static, InOrder, loopVars
<1>3. heard' \in [Clients -> SUBSET (Nat \ {0})]
  <2>1. ASSUME NEW c \in Clients, NEW i \in DOMAIN announced[c], Hear(c, i)
        PROVE  heard' \in [Clients -> SUBSET (Nat \ {0})]
    <3>1. i \in Nat \ {0}
      BY DEF TileInv, TileTypes
    <3> QED BY <2>1, <3>1 DEF Hear, RestTypes
  <2>2. CASE \E c \in Clients : ValueThread(c)
    BY <2>1, <2>2 DEF ValueThread
  <2> QED BY <2>2 DEF RestTypes, LoopNext, Main, ReceiverThread, Handler, Control, Connections,
                      Sending, loopVars
<1>4. calls' \in 0..PERIOD_FIXED_INTERVAL
  <2>1. CASE UNCHANGED calls
    BY <2>1 DEF RestTypes
  <2>2. CASE StaticEndCycle
    BY <2>1, <2>2, StaticRateAssumption
       DEF RestTypes, StaticEndCycle, FixedPeriod, StaticSendingPeriodControl
  <2>3. UNCHANGED calls \/ StaticEndCycle
    <3>1. CASE Main
      BY <3>1 DEF Main, Adaptive, InOrder, StaticSendingBeacon, StaticExitServer
    <3>2. CASE ReceiverThread
      BY <3>2 DEF ReceiverThread, Adaptive, InOrder, StaticReceiveImageFile, StaticReceiveTimeout
    <3>3. CASE Handler
      BY <3>3 DEF Handler, Adaptive, InOrder, StaticTimerExpires, StaticFirstMessage,
                  StaticCountMessage, StaticDeletePacket, StaticSkipPacket, StaticEndMessage
    <3>4. CASE \E c \in Clients : ValueThread(c)
      BY <3>4 DEF ValueThread, Adaptive, InOrder, StaticReceiveValueMessage
    <3>5. CASE \E c \in Clients : Control(c) \/ Connections(c) \/ Sending(c)
      BY <3>5 DEF Control, Connections, Sending, serverVars
    <3>6. CASE UNCHANGED loopVars
      BY <3>6 DEF loopVars, serverVars
    <3> QED BY <3>1, <3>2, <3>3, <3>4, <3>5, <3>6 DEF LoopNext
  <2> QED BY <2>1, <2>2, <2>3
<1>5. newest' \in [Clients -> Nat]
  <2>1. CASE UNCHANGED newest
    BY <2>1 DEF RestTypes
  <2>2. ASSUME NEW c \in Clients, NEW n \in 1..SentSoFar(c), InOrderReceiveImageFile(c, n)
        PROVE  newest' \in [Clients -> Nat]
    BY <2>2 DEF RestTypes, InOrderReceiveImageFile
  <2>3. \/ UNCHANGED newest
        \/ \E c \in Clients : \E n \in 1..SentSoFar(c) : InOrderReceiveImageFile(c, n)
    <3>1. CASE Main
      BY <3>1 DEF Main, Adaptive, Static, InOrderSendingBeacon, InOrderExitServer
    <3>2. CASE ReceiverThread
      BY <3>2 DEF ReceiverThread, Adaptive, Static, InOrderReceiveTimeout
    <3>3. CASE Handler
      BY <3>3 DEF Handler, Adaptive, Static, InOrderTimerExpires, InOrderFirstMessage,
                  InOrderCountMessage, InOrderDeletePacket, InOrderSkipPacket,
                  InOrderEndMessage, InOrderEndCycle
    <3>4. CASE \E c \in Clients : ValueThread(c)
      BY <3>4 DEF ValueThread, Adaptive, Static, InOrderReceiveValueMessage
    <3>5. CASE \E c \in Clients : Control(c) \/ Connections(c) \/ Sending(c)
      BY <3>5 DEF Control, Connections, Sending, serverVars
    <3>6. CASE UNCHANGED loopVars
      BY <3>6 DEF loopVars, serverVars
    <3> QED BY <3>1, <3>2, <3>3, <3>4, <3>5, <3>6 DEF LoopNext
  <2> QED BY <2>1, <2>2, <2>3
<1> QED BY <1>1, <1>2, <1>3, <1>4, <1>5, ClientKeepsTypes DEF RestTypes

LEMMA TypesTogether ==
    ASSUME WalkInv, TileInv, CountInv, RelayTypes, RestTypes
    PROVE  TypeOK
<1>1. messages \in Seq(ValueMessage)
  <2>1. Sized \in SUBSET ValueMessage /\ messages \in Seq(Sized)
    BY DEF Sized, CountInv, CountTypes
  <2>2. messages \in [1..Len(messages) -> Sized] /\ Len(messages) \in Nat
    BY <2>1, LenProperties
  <2>3. messages \in [1..Len(messages) -> ValueMessage]
    BY <2>1, <2>2
  <2> QED BY <2>2, <2>3, SeqDef
<1> QED BY <1>1 DEF TypeOK, WalkInv, TileInv, TileTypes, CountInv, CountTypes, ImagesType,
                    RelayTypes, ThreadState, RestTypes

(* The variables keep their types, in every tree, with any number of        *)
(* connections at a time and with each of the three servers.                *)
THEOREM TypeCorrect == LoopSpec => []TypeOK
<1> DEFINE Inv == WalkInv /\ TileInv /\ CountInv /\ RelayTypes /\ RestTypes
<1>1. LoopInit => Inv
  BY InitWalkInv, InitTileInv, InitCountInv, InitRelayTypes, InitRestTypes
<1>2. Inv /\ [LoopNext]_loopVars => Inv'
  BY NextKeepsWalkInv, NextKeepsTileInv, NextKeepsCountInv, NextKeepsRelayTypes, NextKeepsRestTypes
<1>3. Inv => TypeOK
  BY TypesTogether
<1> QED BY <1>1, <1>2, <1>3, PTL DEF LoopSpec
=============================================================================
