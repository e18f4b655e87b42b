---------------------------- MODULE ControlLoop ----------------------------
(***************************************************************************)
(* The clients and the server together: fragments go to the server over    *)
(* UDP and may be lost, repeated and reordered; announcements go up the    *)
(* tree, period messages down the tree over TCP, from node to node.        *)
(* The server is one of the two the Makefile builds, or the older one of   *)
(* the go-back-N packet sender.                                            *)
(***************************************************************************)
EXTENDS ImageSender, StaticRate, InOrderRate

VARIABLES
    heard,      \* heard[c]: which of c's announcements the server has read
    build       \* "adaptive": serverImageReceiver, "static": ..._testStat,
                \* "in_order": ..._goBackN_ARQ

serverVars == <<rateVars, calls, newest>>
loopVars == <<senderVars, serverVars, heard, build>>

LoopInit ==
    /\ SenderInit
    /\ StaticInit
    /\ InOrderInit
    /\ heard = [c \in Clients |-> {}]
    /\ build \in {"adaptive", "static", "in_order"}

(* Which of the three servers runs: the one the Makefile was told to build. *)
Adaptive == build = "adaptive" /\ UNCHANGED <<senderVars, calls, newest, build>>
Static == build = "static" /\ UNCHANGED <<senderVars, newest, build>>
InOrder == build = "in_order" /\ UNCHANGED <<senderVars, calls, build>>

Arriving == UNION {SentFragments(c) : c \in Clients}

(* The nodes an announcement of c goes through.                             *)
Above[c \in Clients \cup {Server}] ==
    IF c = Server THEN {} ELSE ({Parent[c]} \cup Above[Parent[c]]) \ {Server}

(* An announcement arrives while the nodes it goes through run; one that a  *)
(* broken connection held may come after later ones, or never.              *)
Hear(c, i) ==
    /\ i \in DOMAIN announced[c] \ heard[c]
    /\ \A d \in Above[c] : phase[d] # "stopped"
    /\ heard' = [heard EXCEPT ![c] = @ \cup {i}]

Handler ==
    \/ /\ Adaptive
       /\ UNCHANGED heard
       /\ \/ TimerExpires
          \/ FirstMessage
          \/ CountMessage
          \/ DeletePacket
          \/ SkipPacket
          \/ EndMessage
          \/ EndCycle
    \/ /\ Static
       /\ UNCHANGED heard
       /\ \/ StaticTimerExpires
          \/ StaticFirstMessage
          \/ StaticCountMessage
          \/ StaticDeletePacket
          \/ StaticSkipPacket
          \/ StaticEndMessage
          \/ StaticEndCycle
    \/ /\ InOrder
       /\ UNCHANGED heard
       /\ \/ InOrderTimerExpires
          \/ InOrderFirstMessage
          \/ InOrderCountMessage
          \/ InOrderDeletePacket
          \/ InOrderSkipPacket
          \/ InOrderEndMessage
          \/ InOrderEndCycle

Main ==
    /\ UNCHANGED heard
    /\ \/ Adaptive /\ SendingBeacon
       \/ Static /\ StaticSendingBeacon
       \/ InOrder /\ InOrderSendingBeacon
       \/ Adaptive /\ ExitServer
       \/ Static /\ StaticExitServer
       \/ InOrder /\ InOrderExitServer

ReceiverThread ==
    /\ UNCHANGED heard
    /\ \/ \E f \in Arriving : Adaptive /\ ReceiveImageFile(f)
       \/ \E f \in Arriving : Static /\ StaticReceiveImageFile(f)
       \/ \E c \in Clients : \E n \in 1..SentSoFar(c) :
            InOrder /\ InOrderReceiveImageFile(c, n)
       \/ Adaptive /\ ReceiveTimeout
       \/ Static /\ StaticReceiveTimeout
       \/ InOrder /\ InOrderReceiveTimeout

ValueThread(c) ==
    \E i \in DOMAIN announced[c] :
        /\ Hear(c, i)
        /\ \/ Adaptive /\ ReceiveValueMessage(announced[c][i])
           \/ Static /\ StaticReceiveValueMessage(announced[c][i])
           \/ InOrder /\ InOrderReceiveValueMessage(announced[c][i])

Control(c) ==
    /\ WaitingBeacon(c, pc # "start") \/ WaitExitCode(c, exitCode) \/ Stop(c)
    /\ UNCHANGED <<serverVars, heard, build>>

Connections(c) ==
    /\ \E t \in Threads : ConnectionThread(c, t, issued)
    /\ UNCHANGED <<serverVars, heard, build>>

Sending(c) ==
    /\ MainLoop(c)
    /\ UNCHANGED <<serverVars, heard, build>>

LoopNext ==
    \/ Main
    \/ ReceiverThread
    \/ Handler
    \/ \E c \in Clients : ValueThread(c) \/ Control(c) \/ Connections(c) \/ Sending(c)

LoopSpec == LoopInit /\ [][LoopNext]_loopVars
-----------------------------------------------------------------------------
TypeOK ==
    /\ phase \in [Clients -> {"beacon", "sending", "stopping", "stopped"}]
    /\ image \in [Clients -> Nat]
    /\ sequence \in [Clients -> 0..Fragments]
    /\ last \in [Clients -> 0..(ImgMod - 1)]
    /\ value \in [Clients -> Nat]
    /\ pace \in [Clients -> {"send", "test", "reset", "end"}]
    /\ announced \in [Clients -> Seq(ValueMessage)]
    /\ got \in [Clients -> SUBSET (Nat \ {0})]
    /\ number \in [Clients -> Nat]
    /\ period \in [Clients -> Period]
    /\ change \in [Clients -> {0, 1}]
    /\ thread \in [Clients -> [Threads ->
         [step : {"recv", "test", "new", "relay", "store"}, msg : PeriodMessage]]]
    /\ relayed \in [Clients -> Seq(PeriodMessage)]
    /\ pc \in {"start", "idle", "first", "message", "walk", "decide", "exiting", "exit"}
    /\ packets \in Seq(Fragment)
    /\ messages \in Seq(ValueMessage)
    /\ images \in [Clients -> [0..(ImgMod - 1) -> 0..Fragments]]
    /\ ratio \in [Clients -> [send : Nat, recv : Nat]]
    /\ cur \in Nat /\ atHead \in BOOLEAN
    /\ interval \in Period /\ issued \in Seq(PeriodMessage)
    /\ cycle \in Nat /\ exitCode \in BOOLEAN
    /\ calls \in 0..PERIOD_FIXED_INTERVAL
    /\ newest \in [Clients -> Nat]
    /\ heard \in [Clients -> SUBSET (Nat \ {0})]
    /\ build \in {"adaptive", "static", "in_order"}

(* The announcements of a client tile its images: each begins where the     *)
(* one before it ended, and gives the size of all images from its first to  *)
(* its last one (EndOfImage, SendValueOfData).                              *)
AnnouncementsTile ==
    \A c \in Clients : \A i \in 1..Len(announced[c]) :
        LET m == announced[c][i] IN
        /\ m.from = IF i = 1 THEN 0 ELSE ((announced[c][i - 1].to + 1) % ImgMod)
        /\ m.size = Fragments * (((m.to - m.from) % ImgMod) + 1)

(* Every period message a client has read goes on to its children, or a     *)
(* newer one does, whichever of its threads overtakes which: it was sent    *)
(* to them, or a thread still has it in hand (recvNewIntvlMessTCP compares  *)
(* and writes SequenceNumberVmessage without a lock).                       *)
NewestRelayed ==
    \A c \in Clients : \A i \in got[c] :
        LET no == Incoming(c, issued)[i].no IN
        \/ \E j \in 1..Len(relayed[c]) : relayed[c][j].no >= no
        \/ \E t \in Threads : /\ thread[c][t].step \in {"test", "new", "relay"}
                             /\ thread[c][t].msg.no >= no

(* While no thread of it has a message in hand, a client sends with the     *)
(* period of the newest message it has read (lines 473 and 749; violated).  *)
NewestInForce ==
    \A c \in Clients :
        (\A t \in Threads : thread[c][t].step = "recv") =>
            \A i \in got[c] :
                LET m == Incoming(c, issued)[i] IN
                \/ \E k \in got[c] : Incoming(c, issued)[k].no > m.no
                \/ period[c] = m.period

(* While the handler walks the list of packets, unlocked, and the receiver  *)
(* puts packets at its head, pac_cur is in the list, and pac_prev is its    *)
(* predecessor in the list or the head (CalcDataRecvRate).                  *)
WalkInList ==
    pc = "walk" => cur <= Len(packets) /\ (~atHead => cur < Len(packets))

(* Nothing is counted twice: no client is found to have received more than  *)
(* it announced, whatever is repeated or late.                              *)
CountedWithinSent ==
    \A c \in Clients : ratio[c].recv <= ratio[c].send

(* What the handler counts of an image after sorting its packets is the     *)
(* number of different fragments of it in the list.                         *)
CountsDistinct ==
    [][pc = "idle" /\ pc' = "first" =>
         \A c \in Clients, i \in 0..(ImgMod - 1) :
            images'[c][i] = Cardinality({f \in ToSet(packets) : f.ip = c /\ f.img = i})
      ]_loopVars

(* A step of the walk only deletes packets that the announcement it is      *)
(* about covers (the comment at lines 1229-1232).                           *)
FreedIsAnnounced ==
    [][pc = "walk" /\ Len(packets') < Len(packets) =>
         Deleted(Head(messages), packets[Freed])]_loopVars

=============================================================================
