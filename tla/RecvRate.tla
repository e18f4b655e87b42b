------------------------------ MODULE RecvRate ------------------------------
(***************************************************************************)
(* serverImageReceiver.c: three threads share two lists.  The receiver     *)
(* puts every image fragment at the head of One_Packet_Data, the threads   *)
(* of the children's connections put announcements at the head of          *)
(* Send_Data_Val_Mess, and the timer's handler CalcDataRecvRate compares   *)
(* both, deletes what it has counted and sets a new sending period.        *)
(*                                                                         *)
(* The lists are sequences with the head of the code's list at their end.  *)
(* The lists are locked for single steps of the handler, not for its       *)
(* walks, so that fragments arrive between any two steps.                  *)
(***************************************************************************)
EXTENDS Network, SequencesExt, FiniteSetsExt, ListSort

CONSTANTS
    GAMMA1,                 \* in percent
    GAMMA2,                 \* in percent
    NUM_CYCLE_FOR_EXIT,
    MaxList                 \* bound: elements of One_Packet_Data

ASSUME RecvRateAssumption ==
    /\ GAMMA1 \in 0..100 /\ GAMMA2 \in GAMMA1..100
    /\ NUM_CYCLE_FOR_EXIT \in Nat \ {0}
    /\ MaxList \in Nat

VARIABLES
    pc,         \* what main, then the handler does
    packets,    \* One_Packet_Data, the oldest packet first
    messages,   \* Send_Data_Val_Mess, the oldest announcement first
    images,     \* One_Image_Data: the size of each image in the handler's copy
    ratio,      \* Recv_Data_Ratio: amounts sent and received, for each client
    cur,        \* pac_cur: an index of `packets', 0 for NULL
    atHead,     \* whether pac_prev is still the head of the list
    interval,   \* SendingInterval
    issued,     \* the period messages sent, in order
    cycle,      \* current_cycle
    exitCode    \* whether the exit code was sent

listVars == <<packets, messages>>
walkVars == <<cur, atHead>>
periodVars == <<interval, issued>>
rateVars == <<pc, listVars, images, ratio, walkVars, periodVars, cycle, exitCode>>

NoRatio == [c \in Clients |-> [send |-> 0, recv |-> 0]]
NoImages == [c \in Clients |-> [i \in 0..(ImgMod - 1) |-> 0]]

RateInit ==
    /\ pc = "start"
    /\ packets = <<>>
    /\ messages = <<>>
    /\ images = NoImages
    /\ ratio = NoRatio
    /\ cur = 0
    /\ atHead = TRUE
    /\ interval = InitialPeriod
    /\ issued = <<>>
    /\ cycle = 0
    /\ exitCode = FALSE

Up == pc \notin {"start", "exit"}

(* main, when the receiver's port is open: the timer is set and the beacon  *)
(* sent.                                                                    *)
SendingBeacon ==
    /\ pc = "start"
    /\ pc' = "idle"
    /\ UNCHANGED <<listVars, images, ratio, walkVars, periodVars, cycle, exitCode>>
-----------------------------------------------------------------------------
(* The receiver, and the threads of the connections                        *)

(* A fragment goes to the head of the list, whether it is new or not.       *)
ReceiveImageFile(f) ==
    /\ Up
    /\ Len(packets) < MaxList
    /\ packets' = Append(packets, f)
    /\ UNCHANGED <<pc, messages, images, ratio, walkVars, periodVars, cycle, exitCode>>

(* No fragment came for 3 * NumImages * SendingInterval: the process ends,  *)
(* whatever the handler does, and sends no exit code.                       *)
ReceiveTimeout ==
    /\ Up
    /\ pc' = "exit"
    /\ UNCHANGED <<listVars, images, ratio, walkVars, periodVars, cycle, exitCode>>

ReceiveValueMessage(m) ==
    /\ Up
    /\ messages' = Append(messages, m)
    /\ UNCHANGED <<pc, packets, images, ratio, walkVars, periodVars, cycle, exitCode>>
-----------------------------------------------------------------------------
(* CalcDataRecvRate                                                        *)

(* The packets of one image in the handler's copy, before it is sorted.     *)
SequencesOf(c, i) ==
    LET of[k \in 0..Len(packets)] ==
            IF k = 0 THEN <<>>
            ELSE IF packets[k].ip = c /\ packets[k].img = i
            THEN Append(of[k - 1], packets[k].seq)
            ELSE of[k - 1]
    IN of[Len(packets)]

ImageSize(c, i) == CountNew(MergeSort[SequencesOf(c, i)])

(* The timer expires: the list is copied and sorted.  What is put at the    *)
(* head meanwhile is not seen, so the copy is the list of this moment.      *)
TimerExpires ==
    /\ pc = "idle"
    /\ pc' = "first"
    /\ images' = [c \in Clients |-> [i \in 0..(ImgMod - 1) |-> ImageSize(c, i)]]
    /\ UNCHANGED <<listVars, ratio, walkVars, periodVars, cycle, exitCode>>

(* The oldest announcement is looked up; without one there is no walk.      *)
FirstMessage ==
    /\ pc = "first"
    /\ pc' = IF messages = <<>> THEN "decide" ELSE "message"
    /\ UNCHANGED <<listVars, images, ratio, walkVars, periodVars, cycle, exitCode>>

(* Mutant: whatever the client has sent counts.                             *)
AnnouncedAll(m, i) == TRUE

(* The images an announcement is about; overflow is TRUE when from > to.    *)
Announced(m, i) ==
    IF m.from > m.to THEN i >= m.from \/ i <= m.to ELSE m.from <= i /\ i <= m.to

(* The packets that are deleted with it: the same, but for the overflow.    *)
Deleted(m, f) ==
    /\ f.ip = m.ip
    /\ IF m.from > m.to
       THEN f.img <= m.from \/ f.img <= m.to
       ELSE m.from <= f.img /\ f.img <= m.to

ReceivedSize(m) ==
    MapThenSumSet(LAMBDA i : images[m.ip][i],
                  {i \in 0..(ImgMod - 1) : Announced(m, i)})

(* The amounts of the oldest announcement are added to its client's; then   *)
(* the head of the packet list is read for the walk.                        *)
CountMessage ==
    /\ pc = "message"
    /\ LET m == Head(messages) IN
         ratio' = [ratio EXCEPT ![m.ip] = [send |-> @.send + m.size,
                                           recv |-> @.recv + ReceivedSize(m)]]
    /\ pc' = "walk"
    /\ cur' = Len(packets)
    /\ atHead' = TRUE
    /\ UNCHANGED <<listVars, images, periodVars, cycle, exitCode>>

(* free(pac_prev->next): with pac_prev still the head, this is the packet   *)
(* that is at the head of the list now.                                     *)
Freed == IF atHead THEN Len(packets) ELSE cur

(* Mutant: pac_prev is taken to be the packet before in every case.         *)
DeletePacketOne ==
    /\ pc = "walk" /\ cur > 0
    /\ Deleted(Head(messages), packets[cur])
    /\ packets' = RemoveAt(packets, cur)
    /\ cur' = cur
    /\ UNCHANGED <<pc, messages, images, ratio, atHead, periodVars, cycle, exitCode>>

(* pac_prev->next = pac_cur->next: what stood between is no longer linked.  *)
DeletePacket ==
    /\ pc = "walk" /\ cur > 0
    /\ Deleted(Head(messages), packets[cur])
    /\ packets' = IF atHead THEN SubSeq(packets, 1, cur - 1) ELSE RemoveAt(packets, cur)
    /\ cur' = cur - 1
    /\ UNCHANGED <<pc, messages, images, ratio, atHead, periodVars, cycle, exitCode>>

SkipPacket ==
    /\ pc = "walk" /\ cur > 0
    /\ ~Deleted(Head(messages), packets[cur])
    /\ cur' = cur - 1
    /\ atHead' = FALSE
    /\ UNCHANGED <<pc, listVars, images, ratio, periodVars, cycle, exitCode>>

(* The announcement is freed, and the next one taken if there is one now.   *)
EndMessage ==
    /\ pc = "walk" /\ cur = 0
    /\ messages' = Tail(messages)
    /\ pc' = IF messages' = <<>> THEN "decide" ELSE "message"
    /\ atHead' = TRUE
    /\ UNCHANGED <<packets, images, ratio, cur, periodVars, cycle, exitCode>>

-----------------------------------------------------------------------------
(* The end of CalcDataRecvRate                                             *)

AmountOfSend == MapThenSumSet(LAMBDA c : ratio[c].send, Clients)
AmountOfRecv == MapThenSumSet(LAMBDA c : ratio[c].recv, Clients)

Longer == [interval EXCEPT !.longer = @ + 1]
Shorter == [interval EXCEPT !.shorter = @ + 1]

(* SendingPeriodControl: the timer is set anew and the period sent to the   *)
(* children, with the next number.                                          *)
SendingPeriodControl(param) ==
    /\ interval' = param
    /\ issued' = Append(issued, [no |-> Len(issued) + 1, period |-> param])

(* A share of received data below GAMMA1 makes the period longer, one above *)
(* `high' shorter; without an announcement nothing is decided.              *)
AdaptPeriod(high) ==
    IF AmountOfSend = 0 THEN UNCHANGED periodVars
    ELSE IF 100 * AmountOfRecv < GAMMA1 * AmountOfSend THEN SendingPeriodControl(Longer)
    ELSE IF 100 * AmountOfRecv > high * AmountOfSend THEN SendingPeriodControl(Shorter)
    ELSE UNCHANGED periodVars

(* The copy and the amounts are freed; after the last cycle the exit code   *)
(* is sent (SendingExitCode) and the handler does not return.               *)
FinishCycle(cycles) ==
    /\ images' = NoImages
    /\ ratio' = NoRatio
    /\ cycle' = cycle + 1
    /\ exitCode' = (cycle' = cycles)
    /\ pc' = IF exitCode' THEN "exiting" ELSE "idle"

EndCycle ==
    /\ pc = "decide"
    /\ AdaptPeriod(GAMMA2)
    /\ FinishCycle(NUM_CYCLE_FOR_EXIT)
    /\ UNCHANGED <<listVars, walkVars>>

(* exit(0), 60 seconds after the exit code.                                 *)
ExitServer ==
    /\ pc = "exiting"
    /\ pc' = "exit"
    /\ UNCHANGED <<listVars, images, ratio, walkVars, periodVars, cycle, exitCode>>
=============================================================================
