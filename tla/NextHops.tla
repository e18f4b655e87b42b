------------------------------ MODULE NextHops ------------------------------
(***************************************************************************)
(* sendPacketToNext and UnicastPacket: the list of the next hops of one    *)
(* packet type, built by the first call from the routing script's output,  *)
(* and the transmission queue of each next hop.                            *)
(*                                                                         *)
(* Nothing locks the list.  Threads that find it empty each build it, so   *)
(* that there may be several elements for one address, some of them no     *)
(* longer in the list.  Elements are numbered as they are allocated; 0 is  *)
(* the head of the list, and NULL.                                         *)
(***************************************************************************)
EXTENDS Integers, Sequences, FiniteSets

CONSTANTS
    Callers,              \* threads that call sendPacketToNext
    Calls,                \* bound: calls of each, by protocol and type of the next hop
    Addresses,
    ParentAddress,        \* what the routing script prints for the parent
    ChildAddresses,       \* the lines it prints for the children
    TX_QUEUE_LENGTH_MAX,
    MaxElements           \* bound: elements allocated

Protocols == {"TCP", "UDP"}
NodeTypes == {"PARENT", "CHILDLEN"}

ASSUME NextHopsAssumption ==
    /\ Calls \in [Protocols \X NodeTypes -> [Callers -> Nat]]
    /\ ParentAddress \in Addresses
    /\ ChildAddresses \in Seq(Addresses)
    /\ TX_QUEUE_LENGTH_MAX \in Nat
    /\ MaxElements \in Nat

VARIABLES
    protocolType,   \* of the packet type, like
    nextNodeType,
    link,           \* link[e]: the element after e in the list
    dest,           \* dest[e]: ipDest; the elements allocated so far, in order
    step,           \* step[c]: what caller c does
    call,           \* call[c]: calls c has begun
    rest,           \* rest[c]: addresses of the routing file still to do
    hit,            \* hit[c]: nexthopl_hit
    proc,           \* proc[c]: nexthopl_prev while it searches, then nexthopl_cur
    num,            \* num[c]: the sequence number taken for the packet
    number,         \* SequenceNumber of the packet type
    queue,          \* queue[e]: the transmission queue of element e
    waiting,        \* waiting[e]: waitingEnqueueSig
    pending,        \* pending[e]: SIGNAL_ENQUEUE is pending
    offered         \* history: what was offered to which address, in order

listVars == <<link, dest>>
callerVars == <<step, call, rest, hit, proc, num>>
types == <<protocolType, nextNodeType>>
hopVars == <<types, listVars, callerVars, number, queue, waiting, pending, offered>>

Route == IF nextNodeType = "PARENT" THEN <<ParentAddress>> ELSE ChildAddresses

Elements == 1..MaxElements

Packet(c) == <<c, call[c]>>

NextHopsInit ==
    /\ protocolType \in Protocols
    /\ nextNodeType \in NodeTypes
    /\ link = [e \in {0} \cup Elements |-> 0]
    /\ dest = <<>>
    /\ step = [c \in Callers |-> "idle"]
    /\ call = [c \in Callers |-> 0]
    /\ rest = [c \in Callers |-> <<>>]
    /\ hit = [c \in Callers |-> FALSE]
    /\ proc = [c \in Callers |-> 0]
    /\ num = [c \in Callers |-> 0]
    /\ number = 0
    /\ queue = [e \in Elements |-> <<>>]
    /\ waiting = [e \in Elements |-> FALSE]
    /\ pending = [e \in Elements |-> FALSE]
    /\ offered = <<>>
-----------------------------------------------------------------------------
(* sendPacketToNext                                                        *)

(* The list is tested for NULL, unlocked.  The first call runs the script   *)
(* and reads its output (under a mutex of its own); a later one begins with *)
(* the first element.                                                       *)
Begin(c) ==
    /\ step[c] = "idle"
    /\ call[c] < Calls[types][c]
    /\ call' = [call EXCEPT ![c] = @ + 1]
    /\ hit' = [hit EXCEPT ![c] = FALSE]
    /\ IF link[0] = 0
       THEN /\ rest' = [rest EXCEPT ![c] = Route]
            /\ step' = [step EXCEPT ![c] = IF Route = <<>> THEN "idle" ELSE "search"]
            /\ UNCHANGED proc
       ELSE /\ rest' = [rest EXCEPT ![c] = <<>>]
            /\ proc' = [proc EXCEPT ![c] = link[0]]
            /\ step' = [step EXCEPT ![c] = "room"]
    /\ UNCHANGED <<types, listVars, num, number, queue, waiting, pending, offered>>

(* The elements from e to the end of the list, and from its head.           *)
ChainFrom[e \in {0} \cup Elements] ==
    IF e = 0 THEN <<>> ELSE <<e>> \o ChainFrom[link[e]]

Chain == ChainFrom[link[0]]

(* The list is searched for the next address.  nexthopl_hit is not reset:   *)
(* after one address was found, another that is not in the list is taken    *)
(* for found too, and UnicastPacket is called with NULL.                    *)
Search(c) ==
    LET found == {i \in DOMAIN Chain : dest[Chain[i]] = Head(rest[c])} IN
    /\ step[c] = "search"
    /\ \/ \E i \in found :
             /\ \A j \in found : i <= j
             /\ hit' = [hit EXCEPT ![c] = TRUE]
             /\ proc' = [proc EXCEPT ![c] = Chain[i]]
             /\ step' = [step EXCEPT ![c] = "room"]
       \/ /\ found = {}
          /\ proc' = [proc EXCEPT ![c] =
                         IF hit[c] \/ Chain = <<>> THEN 0 ELSE Chain[Len(Chain)]]
          /\ step' = [step EXCEPT ![c] = IF hit[c] THEN "crash" ELSE "create"]
          /\ UNCHANGED hit
    /\ UNCHANGED <<types, listVars, call, rest, num, number, queue, waiting,
                   pending, offered>>

(* A new element is linked behind the last one the search has seen, which   *)
(* may have a successor by now.                                             *)
Create(c) ==
    LET new == Len(dest) + 1 IN
    /\ step[c] = "create"
    /\ new <= MaxElements
    /\ dest' = Append(dest, Head(rest[c]))
    /\ link' = [link EXCEPT ![proc[c]] = new]
    /\ proc' = [proc EXCEPT ![c] = new]
    /\ step' = [step EXCEPT ![c] = "room"]
    /\ UNCHANGED <<types, call, rest, hit, num, number, queue, waiting,
                   pending, offered>>
-----------------------------------------------------------------------------
(* UnicastPacket                                                           *)

(* queueSize is read without a lock; a full queue drops the packet.         *)
CheckRoom(c) ==
    /\ step[c] = "room"
    /\ step' = [step EXCEPT ![c] =
                   IF Len(queue[proc[c]]) < TX_QUEUE_LENGTH_MAX THEN "number" ELSE "signal"]
    /\ offered' = Append(offered, <<dest[proc[c]], Packet(c)>>)
    /\ UNCHANGED <<types, listVars, call, rest, hit, proc, num, number, queue,
                   waiting, pending>>

TakeNumber(c) ==
    /\ step[c] = "number"
    /\ num' = [num EXCEPT ![c] = number]
    /\ number' = number + 1
    /\ step' = [step EXCEPT ![c] = "insert"]
    /\ UNCHANGED <<types, listVars, call, rest, hit, proc, queue, waiting,
                   pending, offered>>

(* The packet becomes the tail of the queue; its state and the number of    *)
(* its timeouts are used for UDP only.                                      *)
Insert(c) ==
    /\ step[c] = "insert"
    /\ queue' = [queue EXCEPT ![proc[c]] =
                    Append(@, [no |-> num[c], pkt |-> Packet(c), st |-> "READY", retry |-> 0])]
    /\ step' = [step EXCEPT ![c] = "signal"]
    /\ UNCHANGED <<types, listVars, call, rest, hit, proc, num, number, waiting,
                   pending, offered>>

(* Mutant: a second element of the list is left out by later calls.         *)
AdvanceStops(c) ==
    IF Len(rest[c]) > 1
    THEN /\ rest' = [rest EXCEPT ![c] = Tail(@)]
         /\ step' = [step EXCEPT ![c] = "search"]
         /\ UNCHANGED proc
    ELSE /\ step' = [step EXCEPT ![c] = "idle"]
         /\ proc' = [proc EXCEPT ![c] = 0]
         /\ rest' = [rest EXCEPT ![c] = <<>>]

(* The next address of the routing file, or the next element of the list.   *)
Advance(c) ==
    LET after == IF rest[c] = <<>> THEN link[proc[c]] ELSE 0 IN
    IF Len(rest[c]) > 1
    THEN /\ rest' = [rest EXCEPT ![c] = Tail(@)]
         /\ step' = [step EXCEPT ![c] = "search"]
         /\ UNCHANGED proc
    ELSE /\ step' = [step EXCEPT ![c] = IF after = 0 THEN "idle" ELSE "room"]
         /\ proc' = [proc EXCEPT ![c] = after]
         /\ rest' = [rest EXCEPT ![c] = <<>>]

(* Mutant: a packet that is not the first of the queue is not signalled.    *)
SignalFirstOnly(c) ==
    /\ step[c] = "signal"
    /\ pending' = [pending EXCEPT ![proc[c]] = @ \/ (waiting[proc[c]] /\ Len(queue[proc[c]]) = 1)]
    /\ Advance(c)
    /\ UNCHANGED <<types, listVars, call, hit, num, number, queue, waiting, offered>>

(* waitingEnqueueSig is read without a lock, also when the packet was       *)
(* dropped.                                                                 *)
Signal(c) ==
    /\ step[c] = "signal"
    /\ pending' = [pending EXCEPT ![proc[c]] = @ \/ waiting[proc[c]]]
    /\ Advance(c)
    /\ UNCHANGED <<types, listVars, call, hit, num, number, queue, waiting, offered>>

Caller(c) ==
    \/ Begin(c) \/ Search(c) \/ Create(c)
    \/ CheckRoom(c) \/ TakeNumber(c) \/ Insert(c) \/ Signal(c)
=============================================================================
