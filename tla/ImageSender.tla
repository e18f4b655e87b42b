---------------------------- MODULE ImageSender -----------------------------
(***************************************************************************)
(* clientImageSender.c: the image sending clients of one network.  A       *)
(* client waits for the beacon, then sends image after image, announces    *)
(* every INTERVAL_SEND images how much it has sent, follows the period     *)
(* messages of its parent and passes them on, and stops at the exit code.  *)
(*                                                                         *)
(* What a node sends to its children is kept as the history `relayed' of   *)
(* the node; a child reads the history of its parent at its own place.     *)
(* Sleeping is not modelled: how long a period is only decides when the    *)
(* next fragment is sent, and the actions below may happen at any time.    *)
(***************************************************************************)
EXTENDS Network

CONSTANTS
    Threads,         \* connections a client may serve at a time, one thread each
    INTERVAL_SEND,
    MaxImages        \* bound: images each client sends

ASSUME SenderAssumption ==
    /\ INTERVAL_SEND \in 1..ImgMod
    /\ MaxImages \in [Clients -> Nat]

VARIABLES
    phase,      \* phase[c]: "beacon", "sending", "stopping", "stopped"
    image,      \* image[c]: images sent so far; image_number is image % ImgMod
    sequence,   \* sequence[c]: fragments of the current image sent so far
    last,       \* last[c]: image_number_last
    value,      \* value[c]: value_of_data
    pace,       \* pace[c]: where the sending loop stands between two fragments
    announced,  \* announced[c]: the announcements c has sent, in order
    got,        \* got[c]: which of its parent's period messages c has read
    number,     \* number[c]: SequenceNumberVmessage
    period,     \* period[c]: SendingInterval
    change,     \* change[c]: PeriodChange
    thread,     \* thread[c][t]: the step of a connection thread, and its message
    relayed     \* relayed[c]: period messages c has sent to its children

mainVars == <<phase, image, sequence, last, value, pace, announced>>
threadVars == <<got, number, period, thread, relayed>>
senderVars == <<mainVars, threadVars, change>>

Number(c) == image[c] % ImgMod

(***************************************************************************)
(* What c's parent has sent to its children.  Of the server are given: its *)
(* period messages, whether it has sent the beacon, and the exit code.     *)
(* Sent is not read: a message may wait in the queue of the parent (also   *)
(* for a wake-up it missed), in a connection that breaks, or end with the  *)
(* parent, so that reading is possible and never promised.  What a parent  *)
(* sent before it stopped may have arrived and be read after that.         *)
(***************************************************************************)
Incoming(c, issued) ==
    IF Parent[c] = Server THEN issued ELSE relayed[Parent[c]]

BeaconSent(c, beacon) ==
    IF Parent[c] = Server THEN beacon ELSE phase[Parent[c]] # "beacon"

ExitSent(c, exitCode) ==
    IF Parent[c] = Server THEN exitCode
    ELSE phase[Parent[c]] \in {"stopping", "stopped"}

Running(c) == phase[c] \in {"sending", "stopping"}

Idle == [step |-> "recv", msg |-> [no |-> 0, period |-> InitialPeriod]]

SenderInit ==
    /\ phase = [c \in Clients |-> "beacon"]
    /\ image = [c \in Clients |-> 0]
    /\ sequence = [c \in Clients |-> 0]
    /\ last = [c \in Clients |-> 0]
    /\ value = [c \in Clients |-> 0]
    /\ pace = [c \in Clients |-> "send"]
    /\ announced = [c \in Clients |-> <<>>]
    /\ got = [c \in Clients |-> {}]
    /\ number = [c \in Clients |-> 0]
    /\ period = [c \in Clients |-> InitialPeriod]
    /\ change = [c \in Clients |-> 0]
    /\ thread = [c \in Clients |-> [t \in Threads |-> Idle]]
    /\ relayed = [c \in Clients |-> <<>>]
-----------------------------------------------------------------------------
(* main, and the exit code                                                 *)

(* waitingBeacon: the beacon carries the initial period and is passed on;   *)
(* main then creates the threads and begins with image 0.                   *)
WaitingBeacon(c, beacon) ==
    /\ phase[c] = "beacon"
    /\ BeaconSent(c, beacon)
    /\ phase' = [phase EXCEPT ![c] = "sending"]
    /\ period' = [period EXCEPT ![c] = InitialPeriod]
    /\ UNCHANGED <<image, sequence, last, value, pace, announced, got, number,
                   change, thread, relayed>>

(* Mutant: the end of the image is seen one fragment late.                  *)
SendFragmentOver(c) ==
    /\ Running(c)
    /\ pace[c] = "send"
    /\ image[c] < MaxImages[c]
    /\ sequence' = [sequence EXCEPT ![c] = @ + 1]
    /\ value' = [value EXCEPT ![c] = @ + 1]
    /\ pace' = [pace EXCEPT ![c] = IF sequence'[c] > Fragments THEN "end" ELSE "test"]
    /\ UNCHANGED <<phase, image, last, announced, change, threadVars>>

(* One fragment is read from the image and sent.                            *)
SendFragment(c) ==
    /\ Running(c)
    /\ pace[c] = "send"
    /\ image[c] < MaxImages[c]
    /\ sequence' = [sequence EXCEPT ![c] = @ + 1]
    /\ value' = [value EXCEPT ![c] = @ + 1]
    /\ pace' = [pace EXCEPT ![c] = IF sequence'[c] = Fragments THEN "end" ELSE "test"]
    /\ UNCHANGED <<phase, image, last, announced, change, threadVars>>

(* The sleep until the next fragment takes the period and looks whether it  *)
(* is new; only later is PeriodChange set back.                             *)
TestChange(c) ==
    /\ Running(c)
    /\ pace[c] = "test"
    /\ pace' = [pace EXCEPT ![c] = IF change[c] = 1 THEN "reset" ELSE "send"]
    /\ UNCHANGED <<phase, image, sequence, last, value, announced, change, threadVars>>

ResetChange(c) ==
    /\ Running(c)
    /\ pace[c] = "reset"
    /\ pace' = [pace EXCEPT ![c] = "send"]
    /\ change' = [change EXCEPT ![c] = 0]
    /\ UNCHANGED <<phase, image, sequence, last, value, announced, threadVars>>

Due(c) == (Number(c) - last[c]) % ImgMod >= INTERVAL_SEND - 1

(* SendValueOfData: the images from `last' to this one, and their size.     *)
Announcement(c) ==
    [ip |-> c, from |-> last[c], to |-> Number(c), size |-> value[c]]

(* Mutant: value_of_data is not set back after an announcement.             *)
EndOfImageKeepsValue(c) ==
    /\ Running(c)
    /\ pace[c] = "end"
    /\ IF Due(c)
       THEN /\ announced' = [announced EXCEPT ![c] = Append(@, Announcement(c))]
            /\ last' = [last EXCEPT ![c] = (Number(c) + 1) % ImgMod]
       ELSE UNCHANGED <<announced, last>>
    /\ image' = [image EXCEPT ![c] = @ + 1]
    /\ sequence' = [sequence EXCEPT ![c] = 0]
    /\ pace' = [pace EXCEPT ![c] = "send"]
    /\ UNCHANGED <<phase, value, change, threadVars>>

(* The image is complete: it is announced when INTERVAL_SEND images are.    *)
EndOfImage(c) ==
    /\ Running(c)
    /\ pace[c] = "end"
    /\ IF Due(c)
       THEN /\ announced' = [announced EXCEPT ![c] = Append(@, Announcement(c))]
            /\ last' = [last EXCEPT ![c] = (Number(c) + 1) % ImgMod]
            /\ value' = [value EXCEPT ![c] = 0]
       ELSE UNCHANGED <<announced, last, value>>
    /\ image' = [image EXCEPT ![c] = @ + 1]
    /\ sequence' = [sequence EXCEPT ![c] = 0]
    /\ pace' = [pace EXCEPT ![c] = "send"]
    /\ UNCHANGED <<phase, change, threadVars>>

(* waitExitCode: the code is passed on, and 20 seconds later the process    *)
(* ends, whatever its children have read; until then its other threads go   *)
(* on.                                                                      *)
WaitExitCode(c, exitCode) ==
    /\ phase[c] = "sending"
    /\ ExitSent(c, exitCode)
    /\ phase' = [phase EXCEPT ![c] = "stopping"]
    /\ UNCHANGED <<image, sequence, last, value, pace, announced, change, threadVars>>

Stop(c) ==
    /\ phase[c] = "stopping"
    /\ phase' = [phase EXCEPT ![c] = "stopped"]
    /\ UNCHANGED <<image, sequence, last, value, pace, announced, change, threadVars>>
-----------------------------------------------------------------------------
(* recvNewIntvlMessTCP: one thread for each connection of the parent        *)

(* A message of the parent is read.  The parent sends in order, but after a *)
(* failed send on a new connection: what the old connection still holds is  *)
(* read by its own thread, later or never.                                  *)
RecvMessage(c, t, issued) ==
    /\ Running(c)
    /\ thread[c][t].step = "recv"
    /\ \E i \in DOMAIN Incoming(c, issued) \ got[c] :
         /\ thread' = [thread EXCEPT ![c][t] =
                          [step |-> "test", msg |-> Incoming(c, issued)[i]]]
         /\ got' = [got EXCEPT ![c] = @ \cup {i}]
    /\ UNCHANGED <<mainVars, number, period, change, relayed>>

IsNew(c, m) == m.no > number[c]

(* The number is compared without a lock.                                   *)
TestNumber(c, t) ==
    /\ Running(c)
    /\ thread[c][t].step = "test"
    /\ thread' = [thread EXCEPT ![c][t] =
                     IF IsNew(c, @.msg) THEN [@ EXCEPT !.step = "new"] ELSE Idle]
    /\ UNCHANGED <<mainVars, got, number, period, change, relayed>>

(* A new number is remembered, ...                                          *)
StoreNumber(c, t) ==
    /\ Running(c)
    /\ thread[c][t].step = "new"
    /\ number' = [number EXCEPT ![c] = thread[c][t].msg.no]
    /\ thread' = [thread EXCEPT ![c][t].step = "relay"]
    /\ UNCHANGED <<mainVars, got, period, change, relayed>>

(* Mutant: a message is passed on only if it is still the newest one.       *)
RelayIfNewest(c, t) ==
    /\ Running(c)
    /\ thread[c][t].step = "relay"
    /\ relayed' = IF number[c] = thread[c][t].msg.no
                  THEN [relayed EXCEPT ![c] = Append(@, thread[c][t].msg)] ELSE relayed
    /\ thread' = [thread EXCEPT ![c][t].step = "store"]
    /\ UNCHANGED <<mainVars, got, number, period, change>>

(* ... the message is sent to the children ...                              *)
Relay(c, t) ==
    /\ Running(c)
    /\ thread[c][t].step = "relay"
    /\ relayed' = [relayed EXCEPT ![c] = Append(@, thread[c][t].msg)]
    /\ thread' = [thread EXCEPT ![c][t].step = "store"]
    /\ UNCHANGED <<mainVars, got, number, period, change>>

(* ... and only then the period is written, with the flag for the main loop.*)
StorePeriod(c, t) ==
    /\ Running(c)
    /\ thread[c][t].step = "store"
    /\ period' = [period EXCEPT ![c] = thread[c][t].msg.period]
    /\ change' = [change EXCEPT ![c] = 1]
    /\ thread' = [thread EXCEPT ![c][t] = Idle]
    /\ UNCHANGED <<mainVars, got, number, relayed>>

MainLoop(c) ==
    \/ SendFragment(c)
    \/ TestChange(c)
    \/ ResetChange(c)
    \/ EndOfImage(c)

ConnectionThread(c, t, issued) ==
    \/ RecvMessage(c, t, issued)
    \/ TestNumber(c, t)
    \/ StoreNumber(c, t)
    \/ Relay(c, t)
    \/ StorePeriod(c, t)
-----------------------------------------------------------------------------
(***************************************************************************)
(* What clients have put on the air and announced.                         *)
(***************************************************************************)

(* The fragments c has sent: any of them may arrive, late, twice or never.  *)
SentFragments(c) ==
    {f \in Fragment : f.ip = c /\
        \E i \in 0..image[c] :
            i % ImgMod = f.img /\ (i < image[c] \/ f.seq < sequence[c])}

(* How many fragments c has sent.                                           *)
SentSoFar(c) == image[c] * Fragments + sequence[c]

=============================================================================
