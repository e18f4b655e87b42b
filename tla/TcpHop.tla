------------------------------- MODULE TcpHop -------------------------------
(***************************************************************************)
(* The TCP branch of UnicastWithARQ, one thread for each element of the    *)
(* list of next hops, and at the next hop the TCP branch of relayPacket:   *)
(* one recvTCPPacket thread for each connection, which hands on what recv  *)
(* returns, wherever packets begin and end.                                *)
(*                                                                         *)
(* A connection is the sequence of the packets it still holds, each named  *)
(* by its number, which TCP packets do not carry.                          *)
(* When a send fails the thread makes a new connection and leaves the old  *)
(* one open: what that one holds is read later, or never.                  *)
(***************************************************************************)
EXTENDS NextHops

CONSTANTS
    MaxBreaks     \* bound: sends that fail, by type of the next hop

ASSUME TcpHopAssumption == MaxBreaks \in [NodeTypes -> Nat]

VARIABLES
    at,         \* at[e]: where the thread of element e stands
    wire,       \* wire[e]: its connections, the newest last
    relayed     \* relayed[e]: what the next hop has relayed of each, in order

tcpVars == <<at, wire, relayed>>

TcpInit ==
    /\ at = [e \in Elements |-> "none"]
    /\ wire = [e \in Elements |-> <<>>]
    /\ relayed = [e \in Elements |-> <<>>]

Breaks == UNION {{<<e, k>> : k \in 1..(Len(wire[e]) - 1)} : e \in Elements}

NewConnection(e) ==
    /\ wire' = [wire EXCEPT ![e] = Append(@, <<>>)]
    /\ relayed' = [relayed EXCEPT ![e] = Append(@, <<>>)]

(* The thread is created with the first packet; connect is repeated until   *)
(* it succeeds.                                                             *)
Connect(e) ==
    /\ at[e] = "none" /\ queue[e] # <<>>
    /\ at' = [at EXCEPT ![e] = "read"]
    /\ NewConnection(e)
    /\ UNCHANGED hopVars

(* q_cur is read under the lock.                                            *)
ReadQueue(e) ==
    /\ at[e] = "read"
    /\ at' = [at EXCEPT ![e] = IF queue[e] = <<>> THEN "flag" ELSE "send"]
    /\ UNCHANGED <<hopVars, wire, relayed>>

(* send, without the lock: it succeeds ...                                  *)
SendTCP(e) ==
    LET n == Len(wire[e]) IN
    /\ at[e] = "send"
    /\ wire' = [wire EXCEPT ![e][n] = Append(@, Head(queue[e]).no)]
    /\ at' = [at EXCEPT ![e] = "unlink"]
    /\ UNCHANGED <<hopVars, relayed>>

(* Mutant: after a failed send the packet is freed as if it was sent.       *)
ReconnectDrops(e) ==
    /\ at[e] = "send"
    /\ Cardinality(Breaks) < MaxBreaks[nextNodeType]
    /\ NewConnection(e)
    /\ at' = [at EXCEPT ![e] = "unlink"]
    /\ UNCHANGED hopVars

(* ... or fails, and is repeated on a new connection.                       *)
Reconnect(e) ==
    /\ at[e] = "send"
    /\ Cardinality(Breaks) < MaxBreaks[nextNodeType]
    /\ NewConnection(e)
    /\ UNCHANGED <<hopVars, at>>

(* Under the lock the packet is freed, and q_cur set to the next one.       *)
Unlink(e) ==
    /\ at[e] = "unlink"
    /\ queue' = [queue EXCEPT ![e] = Tail(@)]
    /\ at' = [at EXCEPT ![e] = IF queue'[e] = <<>> THEN "flag" ELSE "send"]
    /\ UNCHANGED <<types, listVars, callerVars, number, waiting, pending,
                   offered, wire, relayed>>

(* waitingEnqueueSig is set without a lock, and without another look at the *)
(* queue.                                                                   *)
Flag(e) ==
    /\ at[e] = "flag"
    /\ waiting' = [waiting EXCEPT ![e] = TRUE]
    /\ at' = [at EXCEPT ![e] = "wait"]
    /\ UNCHANGED <<types, listVars, callerVars, number, queue, pending,
                   offered, wire, relayed>>

WaitEnqueue(e) ==
    /\ at[e] = "wait"
    /\ pending[e]
    /\ pending' = [pending EXCEPT ![e] = FALSE]
    /\ at' = [at EXCEPT ![e] = "clear"]
    /\ UNCHANGED <<types, listVars, callerVars, number, queue, waiting,
                   offered, wire, relayed>>

ClearFlag(e) ==
    /\ at[e] = "clear"
    /\ waiting' = [waiting EXCEPT ![e] = FALSE]
    /\ at' = [at EXCEPT ![e] = "read"]
    /\ UNCHANGED <<types, listVars, callerVars, number, queue, pending,
                   offered, wire, relayed>>

(* recvTCPPacket gives what it reads to sendPacketToNext.                   *)
RecvTCP(e, k) ==
    /\ wire[e][k] # <<>>
    /\ wire' = [wire EXCEPT ![e][k] = Tail(@)]
    /\ relayed' = [relayed EXCEPT ![e][k] = Append(@, Head(wire[e][k]))]
    /\ UNCHANGED <<hopVars, at>>

TcpThread(e) ==
    \/ Connect(e) \/ ReadQueue(e) \/ SendTCP(e) \/ Reconnect(e) \/ Unlink(e)
    \/ Flag(e) \/ WaitEnqueue(e) \/ ClearFlag(e)

TcpReceiver(e) == \E k \in DOMAIN wire[e] : RecvTCP(e, k)
=============================================================================
