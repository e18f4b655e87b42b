------------------------------ MODULE TxQueue -------------------------------
(***************************************************************************)
(* The threads behind one transmission queue of packetSender.c:            *)
(*   - the callers of UnicastPacket, which enqueue;                        *)
(*   - UnicastWithARQ, the dispatcher, which starts one sender thread for  *)
(*     each packet, at most a window of them at a time;                    *)
(*   - sendWaitAndResend, the sender thread of one packet;                 *)
(*   - delPacketFromQueue, which frees the packets whose thread has ended; *)
(*   - recvACKorNACK, which ends the thread an ACK is for.                 *)
(*                                                                         *)
(* They meet in three ways: queueMutex, flags read and written outside of  *)
(* it, and signals sent with pthread_kill and taken with sigwait (every    *)
(* one of them is blocked from main on, so a signal waits for its sigwait).*)
(* SIGNAL_ENQUEUE and SIGNAL_DEL_QUEUE are SIGUSR1 and SIGUSR2: at most    *)
(* one of each is pending at a thread.  The others are real-time signals:  *)
(* they queue, and sigwait takes the one with the lowest number first.     *)
(*                                                                         *)
(* An action is a critical section of queueMutex, or one access to         *)
(* something read or written outside of it.                                *)
(*                                                                         *)
(* A queue element is named by its place in `enq', the history of what was *)
(* enqueued: places are in queue order, and an element that was unlinked   *)
(* and freed keeps its place with the status FREED.                        *)
(***************************************************************************)
EXTENDS Integers, Sequences, FiniteSets

CONSTANTS
    Callers,              \* threads that call UnicastPacket for this next hop
    WINDOW_SIZE,
    TX_QUEUE_LENGTH_MAX,
    MaxPackets,           \* bound: sequence numbers handed out
    MaxTimeouts           \* bound: timeouts of the sender threads

ASSUME ConstantsAssumption ==
    /\ WINDOW_SIZE \in Nat
    /\ TX_QUEUE_LENGTH_MAX \in Nat
    /\ MaxPackets \in Nat
    /\ MaxTimeouts \in Nat

DEL_PACKET_QUEUE_SEARCH_MAX == WINDOW_SIZE

Elements == 1..MaxPackets

Max(S) == CHOOSE i \in S : \A j \in S : j <= i
Min(S) == CHOOSE i \in S : \A j \in S : i <= j

VARIABLES
    cpc,       \* cpc[c]: where caller c stands in UnicastPacket
    num,       \* num[c]: the sequence number c has taken
    seqNo,     \* SequenceNumber of the packet type
    enq,       \* the sequence numbers enqueued so far, oldest first
    status,    \* status[e]: isThreadExists_sender of the element at place e
    dpc,       \* where the dispatcher stands in UnicastWithARQ
    cur,       \* its q_cur
    waitingEnqueueSig,
    waitingDequeueSig,
    signals,   \* SIGNAL_ENQUEUE and SIGNAL_DEL_QUEUE pending at the dispatcher
    tokens,    \* SIGNAL_SEND_ONE_PACKET pending at the dispatcher
    xpc,       \* where delPacketFromQueue stands
    xsignal,   \* SIGNAL_DEL_QUEUE is pending there
    spc,       \* spc[e]: where the sender thread of e stands
    sigSuc,    \* sigSuc[e]: how many SIGNAL_SUCCESS are pending at it
    sigResend, \* sigResend[e]: how many SIGNAL_RESEND
    sigEnd,    \* sigEnd[e]: whether a SIGNAL_SENDEND is (one ends the thread)
    timeouts,  \* how often a sender's timer has expired
    sent,      \* history: the elements in the order of their first sendto
    expectedSeq, \* the number the next hop expects
    acks       \* the ACKs in flight

callerVars == <<cpc, num, seqNo>>
queueVars == <<enq, status>>
dispatcherVars == <<dpc, cur, waitingEnqueueSig, waitingDequeueSig>>
delVars == <<xpc, xsignal>>
senderVars == <<spc, sigSuc, sigResend, sigEnd, timeouts>>
hopVars == <<expectedSeq, acks>>
vars == <<callerVars, queueVars, dispatcherVars, signals, tokens, delVars, senderVars,
          sent, hopVars>>

TypeOK ==
    /\ cpc \in [Callers -> {"idle", "number", "insert", "notify", "kill"}]
    /\ num \in [Callers -> Nat]
    /\ seqNo \in 0..MaxPackets
    /\ enq \in Seq(0..MaxPackets - 1) /\ Len(enq) <= seqNo
    /\ status \in [Elements -> {"NONE", "READY", "START", "EXIT", "FREED"}]
    /\ dpc \in {"none", "start", "lock", "full", "waitDel", "dequeued", "token", "create",
                "end", "waitEnq", "enqueued"}
    /\ cur \in 0..MaxPackets
    /\ waitingEnqueueSig \in BOOLEAN
    /\ waitingDequeueSig \in BOOLEAN
    /\ signals \subseteq {"ENQUEUE", "DEL_QUEUE"}
    /\ tokens \in Nat
    /\ xpc \in {"wait", "lock", "signal"}
    /\ xsignal \in BOOLEAN
    /\ spc \in [Elements -> {"none", "first", "wait", "check", "hold", "resend", "pass", "suc",
                             "del", "exit", "ended"}]
    /\ sigSuc \in [Elements -> Nat]
    /\ sigResend \in [Elements -> Nat]
    /\ sigEnd \in [Elements -> BOOLEAN]
    /\ timeouts \in 0..MaxTimeouts
    /\ sent \in Seq(Elements)
    /\ expectedSeq \in 0..MaxPackets
    /\ acks \subseteq 0..MaxPackets - 1

Init ==
    /\ cpc = [c \in Callers |-> "idle"]
    /\ num = [c \in Callers |-> 0]
    /\ seqNo = 0
    /\ enq = <<>>
    /\ status = [e \in Elements |-> "NONE"]
    /\ dpc = "none"
    /\ cur = 0
    /\ waitingEnqueueSig = FALSE
    /\ waitingDequeueSig = FALSE
    /\ signals = {}
    /\ tokens = 0
    /\ xpc = "wait"
    /\ xsignal = FALSE
    /\ spc = [e \in Elements |-> "none"]
    /\ sigSuc = [e \in Elements |-> 0]
    /\ sigResend = [e \in Elements |-> 0]
    /\ sigEnd = [e \in Elements |-> FALSE]
    /\ timeouts = 0
    /\ sent = <<>>
    /\ expectedSeq = 0
    /\ acks = {}
-----------------------------------------------------------------------------
(* The elements linked in the queue, and the neighbours of one of them. *)
InQueue == {e \in Elements : status[e] \in {"READY", "START", "EXIT"}}

Before(e) == {f \in InQueue : f < e}
After(e) == {f \in InQueue : f > e}

(* q->next of e, towards the head; the head itself has status THREAD_NON. *)
Predecessor(e) == Max(Before(e))
PredecessorRuns(e) == Before(e) # {} /\ status[Predecessor(e)] = "START"

(* q->prev of e, towards the tail. *)
Successor(e) == Min(After(e))
SuccessorRuns(e) == After(e) # {} /\ status[Successor(e)] = "START"

queueSize == Cardinality(InQueue)
numMiddleSend == Cardinality({e \in InQueue : status[e] # "READY"})
-----------------------------------------------------------------------------
(***************************************************************************)
(* UnicastPacket.                                                          *)
(***************************************************************************)
(* queueSize is read without queueMutex; at the limit the packet is dropped. *)
CheckRoom(c) ==
    /\ cpc[c] = "idle"
    /\ cpc' = [cpc EXCEPT ![c] = IF queueSize < TX_QUEUE_LENGTH_MAX THEN "number" ELSE "notify"]
    /\ UNCHANGED <<num, seqNo, queueVars, dispatcherVars, signals, tokens, delVars, senderVars,
                   sent, hopVars>>

TakeNumber(c) ==
    /\ cpc[c] = "number"
    /\ seqNo < MaxPackets
    /\ num' = [num EXCEPT ![c] = seqNo]
    /\ seqNo' = seqNo + 1
    /\ cpc' = [cpc EXCEPT ![c] = "insert"]
    /\ UNCHANGED <<queueVars, dispatcherVars, signals, tokens, delVars, senderVars, sent, hopVars>>

(* Under queueMutex; the first packet ever creates the dispatcher. *)
Enqueue(c) ==
    /\ cpc[c] = "insert"
    /\ enq' = Append(enq, num[c])
    /\ status' = [status EXCEPT ![Len(enq) + 1] = "READY"]
    /\ dpc' = IF queueSize = 0 /\ dpc = "none" THEN "start" ELSE dpc
    /\ cpc' = [cpc EXCEPT ![c] = "notify"]
    /\ UNCHANGED <<num, seqNo, cur, waitingEnqueueSig, waitingDequeueSig, signals, tokens,
                   delVars, senderVars, sent, hopVars>>

(* isThreadUWAExists and waitingEnqueueSig are read without queueMutex. *)
TestWaiting(c) ==
    /\ cpc[c] = "notify"
    /\ cpc' = [cpc EXCEPT ![c] = IF dpc \notin {"none", "start"} /\ waitingEnqueueSig
                                 THEN "kill" ELSE "idle"]
    /\ UNCHANGED <<num, seqNo, queueVars, dispatcherVars, signals, tokens, delVars, senderVars,
                   sent, hopVars>>

SignalEnqueue(c) ==
    /\ cpc[c] = "kill"
    /\ signals' = signals \cup {"ENQUEUE"}
    /\ cpc' = [cpc EXCEPT ![c] = "idle"]
    /\ UNCHANGED <<num, seqNo, queueVars, dispatcherVars, tokens, delVars, senderVars, sent, hopVars>>
-----------------------------------------------------------------------------
(***************************************************************************)
(* UnicastWithARQ.                                                         *)
(***************************************************************************)
(* Mutant: one token too many at the start. *)
StartDispatcherTwice ==
    /\ dpc = "start"
    /\ tokens' = tokens + 2
    /\ dpc' = "lock"
    /\ UNCHANGED <<callerVars, queueVars, cur, waitingEnqueueSig, waitingDequeueSig, signals,
                   delVars, senderVars, sent, hopVars>>

(* It gives itself the first token; the ACK and the delete thread are created. *)
StartDispatcher ==
    /\ dpc = "start"
    /\ tokens' = tokens + 1
    /\ dpc' = "lock"
    /\ UNCHANGED <<callerVars, queueVars, cur, waitingEnqueueSig, waitingDequeueSig, signals,
                   delVars, senderVars, sent, hopVars>>

(* Mutant: the scan follows the wrong link, from the tail. *)
ScanFromTail(e, n) ==
    LET ready == {f \in InQueue : f # e /\ status[f] = "READY"}
    IN  IF ready = {}
        THEN dpc' = "end" /\ UNCHANGED cur
        ELSE /\ cur' = Max(ready)
             /\ dpc' = IF n > WINDOW_SIZE THEN "full" ELSE "token"

(***************************************************************************)
(* Under queueMutex, from the element after e on: the next READY element,  *)
(* and whether the window, with n threads in it, has room for it.          *)
(***************************************************************************)
ScanFrom(e, n) ==
    LET ready == {f \in InQueue : f > e /\ status[f] = "READY"}
    IN  IF ready = {}
        THEN dpc' = "end" /\ UNCHANGED cur
        ELSE /\ cur' = Min(ready)
             /\ dpc' = IF n > WINDOW_SIZE THEN "full" ELSE "token"

Scan ==
    /\ dpc = "lock"
    /\ ScanFrom(0, numMiddleSend)
    /\ UNCHANGED <<callerVars, queueVars, waitingEnqueueSig, waitingDequeueSig, signals, tokens,
                   delVars, senderVars, sent, hopVars>>

(* queueMutex has been released when the flag is set. *)
WindowFull ==
    /\ dpc = "full"
    /\ waitingDequeueSig' = TRUE
    /\ dpc' = "waitDel"
    /\ UNCHANGED <<callerVars, queueVars, cur, waitingEnqueueSig, signals, tokens, delVars,
                   senderVars, sent, hopVars>>

WaitDequeue ==
    /\ dpc = "waitDel"
    /\ "DEL_QUEUE" \in signals
    /\ signals' = signals \ {"DEL_QUEUE"}
    /\ dpc' = "dequeued"
    /\ UNCHANGED <<callerVars, queueVars, cur, waitingEnqueueSig, waitingDequeueSig, tokens,
                   delVars, senderVars, sent, hopVars>>

(* numMiddleSend is not compared again. *)
Dequeued ==
    /\ dpc = "dequeued"
    /\ waitingDequeueSig' = FALSE
    /\ dpc' = "token"
    /\ UNCHANGED <<callerVars, queueVars, cur, waitingEnqueueSig, signals, tokens, delVars,
                   senderVars, sent, hopVars>>

(* Mutant: the token is taken without waiting for it. *)
WaitTokenNot ==
    /\ dpc = "token"
    /\ tokens' = tokens - 1
    /\ dpc' = "create"
    /\ UNCHANGED <<callerVars, queueVars, cur, waitingEnqueueSig, waitingDequeueSig, signals,
                   delVars, senderVars, sent, hopVars>>

(* Without queueMutex: wait until the previous packet has been sent. *)
WaitToken ==
    /\ dpc = "token"
    /\ tokens > 0
    /\ tokens' = tokens - 1
    /\ dpc' = "create"
    /\ UNCHANGED <<callerVars, queueVars, cur, waitingEnqueueSig, waitingDequeueSig, signals,
                   delVars, senderVars, sent, hopVars>>

(* Under queueMutex: the sender thread is created, and the scan goes on. *)
CreateSender ==
    /\ dpc = "create"
    /\ status' = [status EXCEPT ![cur] = "START"]
    /\ spc' = [spc EXCEPT ![cur] = "first"]
    /\ ScanFrom(cur, numMiddleSend + 1)
    /\ UNCHANGED <<callerVars, enq, waitingEnqueueSig, waitingDequeueSig, signals, tokens, delVars,
                   sigSuc, sigResend, sigEnd, timeouts, sent, hopVars>>

(* queueMutex has been released when the flag is set. *)
QueueDone ==
    /\ dpc = "end"
    /\ waitingEnqueueSig' = TRUE
    /\ dpc' = "waitEnq"
    /\ UNCHANGED <<callerVars, queueVars, cur, waitingDequeueSig, signals, tokens, delVars,
                   senderVars, sent, hopVars>>

WaitEnqueue ==
    /\ dpc = "waitEnq"
    /\ "ENQUEUE" \in signals
    /\ signals' = signals \ {"ENQUEUE"}
    /\ dpc' = "enqueued"
    /\ UNCHANGED <<callerVars, queueVars, cur, waitingEnqueueSig, waitingDequeueSig, tokens,
                   delVars, senderVars, sent, hopVars>>

Enqueued ==
    /\ dpc = "enqueued"
    /\ waitingEnqueueSig' = FALSE
    /\ dpc' = "lock"
    /\ UNCHANGED <<callerVars, queueVars, cur, waitingDequeueSig, signals, tokens, delVars,
                   senderVars, sent, hopVars>>
-----------------------------------------------------------------------------
(***************************************************************************)
(* sendWaitAndResend.                                                      *)
(***************************************************************************)
(***************************************************************************)
(* sendto, the next hop's answer included: it takes the packet it expects, *)
(* answers it and those before it, and ignores those ahead.  An ACK that   *)
(* is lost is one that stays in `acks'.                                    *)
(***************************************************************************)
Transmit(n, arrives) ==
    /\ expectedSeq' = IF arrives /\ n = expectedSeq THEN n + 1 ELSE expectedSeq
    /\ acks' = IF arrives /\ n <= expectedSeq THEN acks \cup {n} ELSE acks

(* Mutant: a first sendto that fails keeps the token. *)
SendFirstKeepsToken(e, arrives) ==
    /\ spc[e] = "first"
    /\ Transmit(enq[e], arrives)
    /\ sent' = Append(sent, e)
    /\ tokens' = IF arrives THEN tokens + 1 ELSE tokens
    /\ spc' = [spc EXCEPT ![e] = "wait"]
    /\ UNCHANGED <<callerVars, queueVars, dispatcherVars, signals, delVars, sigSuc, sigResend,
                   sigEnd, timeouts>>

(* The first sendto hands the token back to the dispatcher. *)
SendFirst(e, arrives) ==
    /\ spc[e] = "first"
    /\ Transmit(enq[e], arrives)
    /\ sent' = Append(sent, e)
    /\ tokens' = tokens + 1
    /\ spc' = [spc EXCEPT ![e] = "wait"]
    /\ UNCHANGED <<callerVars, queueVars, dispatcherVars, signals, delVars, sigSuc, sigResend,
                   sigEnd, timeouts>>

(* sigtimedwait: the predecessor has resent its packet, so this one is resent. *)
WaitResend(e) ==
    /\ spc[e] = "wait"
    /\ sigResend[e] > 0
    /\ sigResend' = [sigResend EXCEPT ![e] = @ - 1]
    /\ spc' = [spc EXCEPT ![e] = "resend"]
    /\ UNCHANGED <<callerVars, queueVars, dispatcherVars, signals, tokens, delVars, sigSuc,
                   sigEnd, timeouts, sent, hopVars>>

(* sigtimedwait: RTO has expired. *)
Timeout(e) ==
    /\ spc[e] = "wait"
    /\ sigResend[e] = 0 /\ ~sigEnd[e]
    /\ timeouts < MaxTimeouts
    /\ timeouts' = timeouts + 1
    /\ spc' = [spc EXCEPT ![e] = "check"]
    /\ UNCHANGED <<callerVars, queueVars, dispatcherVars, signals, tokens, delVars, sigSuc,
                   sigResend, sigEnd, sent, hopVars>>

(* sigtimedwait: the packet is acknowledged. *)
WaitEnd(e) ==
    /\ spc[e] = "wait"
    /\ sigResend[e] = 0 /\ sigEnd[e]
    /\ sigEnd' = [sigEnd EXCEPT ![e] = FALSE]
    /\ spc' = [spc EXCEPT ![e] = "suc"]
    /\ UNCHANGED <<callerVars, queueVars, dispatcherVars, signals, tokens, delVars, sigSuc,
                   sigResend, timeouts, sent, hopVars>>

(* After a timeout of its own it lets a running predecessor resend first. *)
CheckPredecessor(e) ==
    /\ spc[e] = "check"
    /\ spc' = [spc EXCEPT ![e] = IF PredecessorRuns(e) THEN "hold" ELSE "resend"]
    /\ UNCHANGED <<callerVars, queueVars, dispatcherVars, signals, tokens, delVars, sigSuc,
                   sigResend, sigEnd, timeouts, sent, hopVars>>

(* sigwait for SIGNAL_SUCCESS or SIGNAL_RESEND, without a timeout. *)
Hold(e) ==
    /\ spc[e] = "hold"
    /\ \/ /\ sigSuc[e] > 0
          /\ sigSuc' = [sigSuc EXCEPT ![e] = @ - 1]
          /\ UNCHANGED sigResend
       \/ /\ sigSuc[e] = 0 /\ sigResend[e] > 0
          /\ sigResend' = [sigResend EXCEPT ![e] = @ - 1]
          /\ UNCHANGED sigSuc
    /\ spc' = [spc EXCEPT ![e] = "resend"]
    /\ UNCHANGED <<callerVars, queueVars, dispatcherVars, signals, tokens, delVars, sigEnd,
                   timeouts, sent, hopVars>>

Resend(e, arrives) ==
    /\ spc[e] = "resend"
    /\ Transmit(enq[e], arrives)
    /\ spc' = [spc EXCEPT ![e] = "pass"]
    /\ UNCHANGED <<callerVars, queueVars, dispatcherVars, signals, tokens, delVars, sigSuc,
                   sigResend, sigEnd, timeouts, sent>>

(* Under queueMutex: a running successor shall resend as well. *)
PassOn(e) ==
    /\ spc[e] = "pass"
    /\ sigResend' = IF SuccessorRuns(e) THEN [sigResend EXCEPT ![Successor(e)] = @ + 1]
                                        ELSE sigResend
    /\ spc' = [spc EXCEPT ![e] = "wait"]
    /\ UNCHANGED <<callerVars, queueVars, dispatcherVars, signals, tokens, delVars, sigSuc,
                   sigEnd, timeouts, sent, hopVars>>

(* Mutant: THREAD_EXIT is written before the delete thread is signalled. *)
SucceedExits(e) ==
    /\ spc[e] = "suc"
    /\ sigSuc' = IF SuccessorRuns(e) THEN [sigSuc EXCEPT ![Successor(e)] = @ + 1] ELSE sigSuc
    /\ spc' = [spc EXCEPT ![e] = "del"]
    /\ status' = [status EXCEPT ![e] = "EXIT"]
    /\ UNCHANGED <<callerVars, enq, dispatcherVars, signals, tokens, delVars, sigResend,
                   sigEnd, timeouts, sent, hopVars>>

(* Under queueMutex: a running successor need not wait for this thread. *)
Succeed(e) ==
    /\ spc[e] = "suc"
    /\ sigSuc' = IF SuccessorRuns(e) THEN [sigSuc EXCEPT ![Successor(e)] = @ + 1] ELSE sigSuc
    /\ spc' = [spc EXCEPT ![e] = "del"]
    /\ UNCHANGED <<callerVars, queueVars, dispatcherVars, signals, tokens, delVars, sigResend,
                   sigEnd, timeouts, sent, hopVars>>

AskDelete(e) ==
    /\ spc[e] = "del"
    /\ xsignal' = TRUE
    /\ spc' = [spc EXCEPT ![e] = "exit"]
    /\ UNCHANGED <<callerVars, queueVars, dispatcherVars, signals, tokens, xpc, sigSuc, sigResend,
                   sigEnd, timeouts, sent, hopVars>>

(* The last access to the element, without queueMutex; pending signals go with the thread. *)
Exit(e) ==
    /\ spc[e] = "exit"
    /\ status' = [status EXCEPT ![e] = "EXIT"]
    /\ spc' = [spc EXCEPT ![e] = "ended"]
    /\ sigSuc' = [sigSuc EXCEPT ![e] = 0]
    /\ sigResend' = [sigResend EXCEPT ![e] = 0]
    /\ sigEnd' = [sigEnd EXCEPT ![e] = FALSE]
    /\ UNCHANGED <<callerVars, enq, dispatcherVars, signals, tokens, delVars, timeouts, sent, hopVars>>
-----------------------------------------------------------------------------
(***************************************************************************)
(* delPacketFromQueue.                                                     *)
(***************************************************************************)
WaitDelQueue ==
    /\ xpc = "wait"
    /\ xsignal
    /\ xsignal' = FALSE
    /\ xpc' = "lock"
    /\ UNCHANGED <<callerVars, queueVars, dispatcherVars, signals, tokens, senderVars, sent, hopVars>>

(* Under queueMutex: what has ended is freed, up to the first READY element. *)
DelPackets ==
    /\ xpc = "lock"
    /\ status' = [e \in Elements |->
                    IF status[e] = "EXIT" /\ \A f \in Before(e) : status[f] # "READY"
                    THEN "FREED" ELSE status[e]]
    /\ xpc' = "signal"
    /\ UNCHANGED <<callerVars, enq, dispatcherVars, signals, tokens, xsignal, senderVars, sent, hopVars>>

(* The flag is read, and the signal sent, without queueMutex. *)
TellDispatcher ==
    /\ xpc = "signal"
    /\ signals' = IF waitingDequeueSig THEN signals \cup {"DEL_QUEUE"} ELSE signals
    /\ xpc' = "wait"
    /\ UNCHANGED <<callerVars, queueVars, dispatcherVars, tokens, xsignal, senderVars, sent, hopVars>>
-----------------------------------------------------------------------------
(***************************************************************************)
(* recvACKorNACK, ACK branch, under queueMutex: SENDEND to the thread of   *)
(* the first element, of those it looks at, that has the number and runs.  *)
(***************************************************************************)
Searched == {e \in InQueue : Cardinality(Before(e)) <= DEL_PACKET_QUEUE_SEARCH_MAX + 1}

(* Mutant: an ACK ends the first running thread, whatever its number. *)
RecvACKAny(n) ==
    LET found == {e \in Searched : status[e] = "START"}
    IN  /\ n \in acks
        /\ acks' = acks \ {n}
        /\ sigEnd' = IF found = {} THEN sigEnd ELSE [sigEnd EXCEPT ![Min(found)] = TRUE]
        /\ UNCHANGED <<callerVars, queueVars, dispatcherVars, signals, tokens, delVars, spc,
                       sigSuc, sigResend, timeouts, sent, expectedSeq>>

RecvACK(n) ==
    LET found == {e \in Searched : enq[e] = n /\ status[e] = "START"}
    IN  /\ n \in acks
        /\ acks' = acks \ {n}
        /\ sigEnd' = IF found = {} THEN sigEnd ELSE [sigEnd EXCEPT ![Min(found)] = TRUE]
        /\ UNCHANGED <<callerVars, queueVars, dispatcherVars, signals, tokens, delVars, spc,
                       sigSuc, sigResend, timeouts, sent, expectedSeq>>
-----------------------------------------------------------------------------
Caller(c) == CheckRoom(c) \/ TakeNumber(c) \/ Enqueue(c) \/ TestWaiting(c) \/ SignalEnqueue(c)

Dispatcher ==
    \/ StartDispatcher \/ Scan \/ WindowFull \/ WaitDequeue \/ Dequeued
    \/ WaitToken \/ CreateSender \/ QueueDone \/ WaitEnqueue \/ Enqueued

Sender(e) ==
    \/ \E arrives \in BOOLEAN : SendFirst(e, arrives) \/ Resend(e, arrives)
    \/ WaitResend(e) \/ Timeout(e) \/ WaitEnd(e)
    \/ CheckPredecessor(e) \/ Hold(e) \/ PassOn(e)
    \/ Succeed(e) \/ AskDelete(e) \/ Exit(e)

Deleter == WaitDelQueue \/ DelPackets \/ TellDispatcher

Next ==
    \/ \E c \in Callers : Caller(c)
    \/ Dispatcher
    \/ \E e \in Elements : Sender(e)
    \/ Deleter
    \/ \E n \in acks : RecvACK(n)

Spec == Init /\ [][Next]_vars

(***************************************************************************)
(* Fairness: a thread that can take a step is scheduled.  Nothing is       *)
(* assumed of the network, nor of the signals.                             *)
(***************************************************************************)
FairSpec == Spec /\ WF_vars(Dispatcher) /\ (\A e \in Elements : WF_vars(Sender(e)))
-----------------------------------------------------------------------------
(***************************************************************************)
(* Properties.                                                             *)
(***************************************************************************)
(***************************************************************************)
(* A thread never holds a pointer to an element that was freed: neither    *)
(* the dispatcher its q_cur while it waits without queueMutex, nor a       *)
(* sender thread its tx_packet up to its last access (which is why         *)
(* THREAD_EXIT is written after the delete thread has been signalled).     *)
(***************************************************************************)
NoUseAfterFree ==
    /\ dpc \in {"full", "waitDel", "dequeued", "token", "create"} => status[cur] = "READY"
    /\ \A e \in Elements : spc[e] \notin {"none", "ended"} => e \in InQueue

(***************************************************************************)
(* The first transmissions are in queue order, although each is made by a  *)
(* thread of its own: SIGNAL_SEND_ONE_PACKET passes one token around.      *)
(***************************************************************************)
FirstSentInOrder == \A k \in DOMAIN sent : sent[k] = k

(***************************************************************************)
(* Behind a READY element everything is READY: the delete thread may stop  *)
(* its search at the first one ("nothing behind it needs to be checked").  *)
(***************************************************************************)
ReadyAtTail ==
    \A e, f \in InQueue : e < f /\ status[e] = "READY" => status[f] = "READY"

(***************************************************************************)
(* A sender thread ends, and its packet is freed, only when the next hop   *)
(* has taken the packet: no signal meant for a neighbour, and no late or   *)
(* repeated ACK, is mistaken for its acknowledgement.                      *)
(***************************************************************************)
EndedIsTaken ==
    \A e \in Elements :
        spc[e] \in {"suc", "del", "exit", "ended"} \/ status[e] = "FREED" => enq[e] < expectedSeq

(***************************************************************************)
(* The dispatcher is never left without its token: the thread it created   *)
(* last always gets to its first sendto, whatever the others are doing.    *)
(***************************************************************************)
TokenComesBack == dpc = "token" ~> dpc = "create"

(***************************************************************************)
(* "When all queue elements are in transmission, wait for the enqueue      *)
(* signal" (the comment above UnicastWithARQ): while it waits, with no     *)
(* signal on its way, the queue holds no packet that was never sent.       *)
(***************************************************************************)
WaitsWithNothingToSend ==
    dpc = "waitEnq" /\ "ENQUEUE" \notin signals /\ (\A c \in Callers : cpc[c] \notin {"notify", "kill"})
        => \A e \in InQueue : status[e] # "READY"
=============================================================================
