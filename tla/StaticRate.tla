----------------------------- MODULE StaticRate -----------------------------
(***************************************************************************)
(* serverImageReceiver_testStat.c, which the Makefile builds as            *)
(* serverd_test_static_period: the server of the experiments with fixed    *)
(* periods.  Its threads, lists and walks are those of                     *)
(* serverImageReceiver.c; the period is changed after a number of          *)
(* calculations, whatever they find.                                       *)
(***************************************************************************)
EXTENDS RecvRate

CONSTANTS
    PERIOD_FIXED_INTERVAL,
    NUM_PETTERN

ASSUME StaticRateAssumption ==
    /\ PERIOD_FIXED_INTERVAL \in Nat \ {0}
    /\ NUM_PETTERN \in Nat \ {0}

VARIABLE calls      \* num_call

staticVars == <<rateVars, calls>>

StaticInit == RateInit /\ calls = 0

StaticSendingBeacon == SendingBeacon /\ UNCHANGED calls

StaticReceiveImageFile(f) == ReceiveImageFile(f) /\ UNCHANGED calls

StaticReceiveTimeout == ReceiveTimeout /\ UNCHANGED calls

StaticReceiveValueMessage(m) == ReceiveValueMessage(m) /\ UNCHANGED calls

StaticTimerExpires == TimerExpires /\ UNCHANGED calls

StaticFirstMessage == FirstMessage /\ UNCHANGED calls

StaticCountMessage == CountMessage /\ UNCHANGED calls

StaticDeletePacket == DeletePacket /\ UNCHANGED calls

StaticSkipPacket == SkipPacket /\ UNCHANGED calls

StaticEndMessage == EndMessage /\ UNCHANGED calls

(* The fixed periods become longer and longer.                              *)
StaticSendingPeriodControl == SendingPeriodControl(Longer) /\ calls' = 0

(* A calculation was made: the period is made longer when num_call stands   *)
(* at PERIOD_FIXED_INTERVAL, and num_call starts again.                     *)
FixedPeriod ==
    IF AmountOfSend = 0 THEN UNCHANGED <<periodVars, calls>>
    ELSE IF calls >= PERIOD_FIXED_INTERVAL
    THEN StaticSendingPeriodControl
    ELSE UNCHANGED periodVars /\ calls' = calls + 1

StaticEndCycle ==
    /\ pc = "decide"
    /\ FixedPeriod
    /\ FinishCycle(PERIOD_FIXED_INTERVAL * NUM_PETTERN)
    /\ UNCHANGED <<listVars, walkVars>>

StaticExitServer == ExitServer /\ UNCHANGED calls
=============================================================================
