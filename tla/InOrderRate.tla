---------------------------- MODULE InOrderRate ----------------------------
(***************************************************************************)
(* serverImageReceiver_goBackN_ARQ.c: the server as it was with the        *)
(* go-back-N packet sender.  It takes a fragment only when SendingACKorNACK *)
(* says that it is the next one of its hop, so that what a client sends    *)
(* arrives in order and once, with gaps where a queue was full.  It stops  *)
(* after another number of cycles and shortens the period above another    *)
(* share; the rest is as in serverImageReceiver.c.                         *)
(***************************************************************************)
EXTENDS RecvRate

CONSTANTS
    IN_ORDER_GAMMA2,               \* in percent
    IN_ORDER_NUM_CYCLE_FOR_EXIT

ASSUME InOrderRateAssumption ==
    /\ IN_ORDER_GAMMA2 \in GAMMA1..100
    /\ IN_ORDER_NUM_CYCLE_FOR_EXIT \in Nat \ {0}

VARIABLE newest     \* newest[c]: the last fragment of c that came, counted from 1

inOrderVars == <<rateVars, newest>>

InOrderInit == RateInit /\ newest = [c \in Clients |-> 0]

InOrderSendingBeacon == SendingBeacon /\ UNCHANGED newest

(* The n-th fragment a client sends.                                        *)
FragmentAt(c, n) ==
    [ip |-> c, img |-> ((n - 1) \div Fragments) % ImgMod, seq |-> (n - 1) % Fragments]

(* A repeated fragment, or one out of its turn, has isDepPac # 0 and is     *)
(* not put into the list.                                                   *)
InOrderReceiveImageFile(c, n) ==
    /\ n > newest[c]
    /\ ReceiveImageFile(FragmentAt(c, n))
    /\ newest' = [newest EXCEPT ![c] = n]

InOrderReceiveTimeout == ReceiveTimeout /\ UNCHANGED newest

InOrderReceiveValueMessage(m) == ReceiveValueMessage(m) /\ UNCHANGED newest

InOrderTimerExpires == TimerExpires /\ UNCHANGED newest

InOrderFirstMessage == FirstMessage /\ UNCHANGED newest

InOrderCountMessage == CountMessage /\ UNCHANGED newest

InOrderDeletePacket == DeletePacket /\ UNCHANGED newest

InOrderSkipPacket == SkipPacket /\ UNCHANGED newest

InOrderEndMessage == EndMessage /\ UNCHANGED newest

InOrderEndCycle ==
    /\ pc = "decide"
    /\ AdaptPeriod(IN_ORDER_GAMMA2)
    /\ FinishCycle(IN_ORDER_NUM_CYCLE_FOR_EXIT)
    /\ UNCHANGED <<listVars, walkVars, newest>>

InOrderExitServer == ExitServer /\ UNCHANGED newest
=============================================================================
