# Verification of the image transmission programs

The repository sends images from camera nodes over a multi-hop wireless network
to a server. Three C programs do the work: `clientd` (a camera node: takes
images, sends them, and relays messages of its neighbours), `serverd` (receives
images, measures how many arrive, and adjusts the pace of every client) and
`serverd_test_static_period` (the server without the adjustment). All of them
are linked with `packetSender.c`, a library of threads that sends packets hop by
hop.

This directory holds TLA+ models of the parts that run concurrently or against
an unreliable network, the TLC configurations that check them, and proofs, for
every value of the constants, of their safety properties: every invariant and
every action property that a passing run checks is also proved. What is left to
model checking is liveness, of which little is stated: the threads hand each
other work by signals and flags that can be missed, so that the code itself
promises little (sections 3.2 and 5).

## 1. The system

### 1.1 Components

| component | source | state it keeps | operations |
|---|---|---|---|
| Packet sender, UDP ARQ | `packetSender.c` `sendPacketToNext`, `UnicastPacket`, `UnicastWithARQ`, `sendWaitAndResend`, `recvACKorNACK`, `delPacketFromQueue`, `SendingACKorNACK`, `relayPacket` | per packet type: list of next hops, `SequenceNumber`; per next hop: transmission queue, thread flags, pending signals; per previous hop: `expectedSeq` | enqueue, start a sender thread per packet within a window, resend on timeout or when the predecessor resent, acknowledge, end, delete, relay |
| Packet sender, TCP | `UnicastWithARQ` 1016-1101, `relayPacket`, `recvTCPPacket` | one connection per next hop, the queue | send, reconnect, receive, relay |
| Next hops | `sendPacketToNext` 1330-1541, `get_next_node.pl` | the list of next hops | build the list from the route file at the first call |
| ARQ without order | `packetSender_nonGBNARQ.c` | as the UDP ARQ, without numbers expected by the next hop | enqueue, send at most `ACK_RETRY_MAX` times, acknowledge and relay whatever arrives, delete |
| NACK-based ARQ | `sendingNACK`, `delNACKfromQueue` | - | unfinished and switched off |
| Image store | `createImage.c` | list of images, per image a list of packets and a thread | add a fragment, sort and write the file, delete finished images |
| Reception rate and control | `serverImageReceiver.c` | lists of received packets and of announced ranges, period, amounts per client | receive image data and announcements, compute the rate in a timer handler, send new periods, send the exit code |
| Other servers | `serverImageReceiver_testStat.c`, `serverImageReceiver_goBackN_ARQ.c` | the same, and a count of calculations | the same, with fixed periods; with fragments taken in order only |
| Image sender | `clientImageSender.c` | image number, interval, route state | beacon, send fragments, announce ranges, take new intervals, wait for the exit code |
| Scripts | `start_exe.pl`, `end_exe.pl`, `get_final_dest.pl`, `analyze-tools/` | - | start programs on nodes, evaluate logs |
| Other | `ath9k_patch/`, `emacs-tools/`, `test/`, `hopByHop_messageTransTesting/` | - | a driver patch, editor set-up, experiments, an older copy of the sender |

Which transport carries which message is chosen in `common.h`: as committed,
control messages and announcements travel hop by hop over TCP, image data as
plain UDP along the routes of the network, and the exit code hop by hop with the
UDP ARQ; other flags put control messages and announcements on the UDP ARQ too.

### 1.2 How they interact

* Callers (the program's own threads and the threads in `relayPacket`) enter a
  queue of the packet sender with `sendPacketToNext`. The dispatcher thread, the
  sender threads, the delete thread and the ACK thread of that queue share it
  under `queueMutex`, plus flags outside the mutex and signals between threads.
* Two processes meet over UDP: datagrams with a `u_short` number one way, ACKs
  the other. Both can be lost, repeated and overtaken.
* On the server the receiving thread calls `makeImageData` for each fragment;
  one thread per image turns fragments into a file; a deleting thread frees what
  is finished and is woken by a signal.
* Client and server close a loop: fragments and announced ranges go up, new
  intervals and the exit code come down.

### 1.3 What is hard, and what makes each part correct

* ARQ: retransmission and loss. A packet is used once, in order; an ACK never
  stands for a packet that was not used; a numbered packet is never lost.
* Threads of a queue: flags read outside the mutex, three kinds of signals,
  elements freed while others keep pointers to them. Nothing freed is used; the
  first transmissions keep the order of the queue; a thread ends only for its
  own ACK; no wake-up is lost.
* Image store: a receiving, a writing and a deleting thread on the same lists,
  fragments late, repeated and out of order. A file has one writer, holds each
  fragment once, at its place; a finished image is always freed; nothing freed
  is read.
* Next hops and TCP: a list nobody locks, built by the first call; a queue whose
  first element is sent and freed in steps; connections that break with messages
  on them. Each packet is offered to each next hop once, and sent once; no
  enqueued packet is left behind for good.
* ARQ without order: retries are limited and repeated packets are relayed again.
  Copies stay within the retries, and a thread that stops early was relayed.
* Reception rate: a handler walks a list without its lock while fragments are
  put at its head; ranges wrap. The walk stays in the list, nothing is counted
  twice, no more is counted than was sent.
* Image sender: image numbers wrap, the period is read and written without a
  lock by threads of several connections. Announcements tile the images; the
  newest period that a client has read goes on to its children, whichever of its
  threads overtakes which.

Every such place is listed with its line under `hazards` in `PROJECT.json`,
with the property that covers it or the reason why none does.

## 2. Modules

| module | models | used by |
|---|---|---|
| `FifoLink` | the abstract promise: a link that gives out what was put in, in order, each packet once and none skipped | `ArqLink` (refinement) |
| `ArqLink` | the UDP ARQ as a protocol between a sender and its next hops | `MCArqLink`, `ArqLinkProofs` |
| `ArqLinkProofs` | theorems about `ArqLink` and their proofs | |
| `TxQueue` | the threads, mutex, flags and signals of one transmission queue | `MCTxQueue`, `TxQueueProofs` |
| `TxQueueProofs` | theorems about `TxQueue` | |
| `ImageStore` | `createImage.c` | `MCImageStore`, `ImageSortProofs` |
| `ImageSortProofs` | what the merge sort of `createImage.c` and the lists it works on do | `ImageStoreProofs` |
| `ImageStoreProofs` | theorems about `ImageStore` | |
| `NextHops` | `sendPacketToNext` and `UnicastPacket` with any number of threads: the list of next hops and the queues | `TcpHop`, `NonGbnArq`, `NextHopsProofs` |
| `NextHopsProofs` | lemmas about the callers and the list, whatever the transport | `RelayHopProofs` |
| `TcpHop` | the TCP branches of `UnicastWithARQ` and `relayPacket` | `RelayHop` |
| `NonGbnArq` | the UDP branches in `packetSender_nonGBNARQ.c` | `RelayHop` |
| `RelayHop` | `NextHops` with the threads of the protocol that the packet type uses | `MCRelayHop`, `RelayHopProofs` |
| `RelayHopProofs` | theorems about `RelayHop` | |
| `Network` | the routing tree, numbers, periods and messages that client and server share | `ImageSender`, `RecvRate` |
| `ImageSender` | `clientImageSender.c`, all clients of a tree | `ControlLoop` |
| `ListSort` | the merge sort of `serverImageReceiver.c` and the count after it | `RecvRate` |
| `RecvRate` | `serverImageReceiver.c` | `StaticRate`, `InOrderRate`, `ControlLoop` |
| `StaticRate` | `serverImageReceiver_testStat.c` | `ControlLoop` |
| `InOrderRate` | `serverImageReceiver_goBackN_ARQ.c` | `ControlLoop` |
| `ControlLoop` | clients, network and one of the three servers | `MCControlLoop`, `ControlLoopProofs` |
| `ControlLoopProofs` | theorems about `ControlLoop` | |
| `DataLemmas` | facts about numbers, recursive functions and lists that the proofs share | `TxQueueProofs`, `ImageSortProofs`, `NextHopsProofs`, `ControlLoopProofs` |
| `MCArqLink`, `MCTxQueue`, `MCImageStore`, `MCRelayHop`, `MCControlLoop` | instances for TLC: trees, call bounds, symmetry sets | the `.cfg` files |

`ArqLink` and `TxQueue` look at the same code at two grains. `ArqLink` has the
network in full (loss, reordering, wrap-around, several hops) and takes the
threads of a queue as atomic steps; `TxQueue` has every unlocked access and
signal and a next hop reduced to the number it expects.

Each module also holds operators marked `Mutant:`. They are wrong versions of
the definition that follows them (a dropped guard, a swapped order) used to
confirm that each property notices such an error; no specification uses them.

### 2.1 `ArqLink`

| state | code |
|---|---|
| `issued` | the values `SequenceNumber` took (1189-1197), with hop and packet |
| `queue[h]` | the list of `struct packet_queue` of a next hop; `st` is `isThreadExists_sender` and a pending `SIGNAL_SENDEND` |
| `made`, `step`, `at`, `num` | where a caller stands in `sendPacketToNext` / `UnicastPacket` |
| `data[h]`, `acks[h]` | the UDP sockets |
| `expectedSeq[h]` | `expectedSeq` of the previous hop's entry in `SendingACKorNACK` |
| `delivered[h]` | history: the packets for which it returned 0 |

`CheckRoom`, `TakeNumber` and `Insert` are the three parts of `UnicastPacket`
between which other callers run. `StartSender` is one turn of the dispatcher;
`Resend`, `SenderExit` the thread of a packet; `RecvACK` the ACK thread, which
looks at the first `DEL_PACKET_QUEUE_SEARCH_MAX + 2` elements only; `DelPacket`
the delete thread; `SendingACK` the receiving side with the correction for the
wrap of the number exactly as it is written.

Choices: a packet is identified by its place in `issued`, and the code sees only
that place modulo `SeqMod`. The list of next hops is fixed. The caller of
`SendingACKorNACK` is `relayPacket`, which uses a packet only when 0 was
returned; `ReceiveImageFile` overrides the result (line 480 of
`serverImageReceiver.c`) although the comment at its end says that repeated and
skipped packets are not received, so for image data the ARQ orders nothing and
`ImageStore` takes fragments in any order.

### 2.2 `TxQueue`

An action is one critical section of `queueMutex`, or one access to something
shared outside of it. All signals are blocked, so a signal waits for its
`sigwait`: `SIGNAL_ENQUEUE` and `SIGNAL_DEL_QUEUE` are `SIGUSR1/2` and at most
one of each is pending (`signals`, a set); the others are real-time signals,
which queue (`tokens`, `sigSuc`, `sigResend` count them) and of which `sigwait`
takes the lowest number first. An element is named by its place in the history
`enq`; a freed one keeps its place as `FREED`, so that a stale pointer can be
seen.

| actions | code |
|---|---|
| `CheckRoom` ... `SignalEnqueue` | `UnicastPacket` |
| `StartDispatcher` ... `Enqueued` | `UnicastWithARQ` |
| `SendFirst` ... `Exit` | `sendWaitAndResend` |
| `WaitDelQueue`, `DelPackets`, `TellDispatcher` | `delPacketFromQueue` |
| `RecvACK` | `recvACKorNACK` |

Choices: an ACK that is lost is one that stays in `acks`. `DelPackets` is one
step, since it holds `queueMutex` and the only concurrent change (a thread
writing `THREAD_EXIT`) can as well come before or after. The ACK thread's test
and its `pthread_kill` are one step, both are made under the mutex. As in the
code, the dispatcher does not compare `numMiddleSend` again after a deletion, so
a stale `SIGNAL_DEL_QUEUE` lets one thread more into the window.

### 2.3 `ImageStore`

`FindItem` and `AddPacket` are `makeImageData` before and after it changes the
mutex; `Sort`, `OpenFile`, `WritePacket`, `CloseFile`, `Exit`, `SignalDelItem`
are `makeOneImageFileOneAddr`; the others are `delItemFromImageOfNode`, which
walks the list without its mutex. The lists of packets are modelled by their
links (`first`, `next`, `dataEnd`), because what goes wrong here goes wrong in the
links. The list of items needs none: an item is appended at its end and unlinked
when it is freed, so the items that are `Linked` stand in the order of their
numbers. The sort is the code's merge sort on lists, a recursive function.

Choices: the temporary file is abstracted to the packets it holds; freed memory
is not used again, so a write to it reaches nobody. `UINT_MAX` added to a
negative difference makes it one less, so a number that does not grow is skipped,
as in the code. `makeImageData` can append to an item that has just been freed
(lines 230-235): the model allows it and the packet is lost; a property about it
would be false, no comment or test promises it.

### 2.4 `NextHops`, `TcpHop`, `NonGbnArq`, `RelayHop`

One packet type of one node. `NextHops` is the part all transports share. A
caller of `sendPacketToNext` that finds the list empty reads the route file
(`Route`) and creates an element for each address that `Search` does not find;
a later one walks the list. The list is not locked, so elements can be created
twice, or linked over another (`link`, `dest`). `CheckRoom`, `TakeNumber`,
`Insert`, `Signal` are the parts of `UnicastPacket` between which others run.
`hit` is `nexthopl_hit`, which no line resets between two addresses: with
several addresses and a second thread, `UnicastPacket` is called with NULL (the
step `crash`). It needs two threads that send to the children first at the same
time, and in the two programs one thread of a node does that, so the run gives
several threads to the parent only, whose route file has one line.

`NextHops` is mapped to `packetSender_nonGBNARQ.c`; `sendPacketToNext` and
`UnicastPacket` of `packetSender.c` are the same statements.
`packetSender_goBackNARQ.c`, and the copy under `hopByHop_messageTransTesting/`,
are older states of `packetSender.c`.

`TcpHop` is the dispatcher of a TCP element: the first packet is sent without
the lock and unlinked under it (`SendTCP`, `Unlink`); a send that fails opens a
new connection and repeats it (`Reconnect`). `wire[e][k]` is what connection `k`
still holds, `relayed[e][k]` what the next hop has read of it: connections are
read by a thread each, so an older one may come later. A failed `send` has
accepted nothing, and whole messages are read: `recv` without framing (line
1820) and the `u_short` that takes its -1 (line 1823) are not modelled.

`NonGbnArq` is the ARQ the repository had before: no thread waits for another's
acknowledgement, a packet is given up after `ACK_RETRY_MAX` transmissions, and
the next hop acknowledges and relays whatever arrives. A datagram and an ACK are
sets of number and transmission, so they overtake each other freely. How the
threads of a queue hand each other the right to send is in `TxQueue`.

A sending thread signals the deleting thread (`Ending`, line 478) and only then,
without the lock, writes `THREAD_EXIT` (`Exit`, line 481). The signal is SIGUSR2,
so that one is pending at most (`delSignal`), and each gives one pass over the
queue under `queueMutex` (`WaitDelSignal`, `DelPacket`, `LookOn`; `pass` is the
place the pass has come to). A pass can therefore go by an element whose thread
is about to end, and the element stays until the next signal.

### 2.5 `ImageSender`, `RecvRate`, `StaticRate`, `InOrderRate`, `ControlLoop`

`ImageSender` has all clients. `MainLoop` is the loop of `main` over fragments
(`SendFragment`), the pause between two of them with its two unlocked accesses
to `PeriodChange` (`TestChange`, `ResetChange`), and the end of an image, which
announces `INTERVAL_SEND` images (`EndOfImage`). `WaitingBeacon`,
`WaitExitCode`, `Stop` are its phases. `ConnectionThread` is
`recvNewIntvlMessTCP`, of which a client runs one for each connection: read a
message (`RecvMessage`), compare its number, store the number, relay, store the
period, each a step, because the lock that a comment asks for is not taken.
Image numbers wrap at `ImgMod` (2^16).

What a node has sent to its children is the history `relayed` for periods, and
its phase for the beacon and the exit code. A child may read any of it, in any
order, at any time or never. It may read it late or never because a message can
wait in the parent's queue for a wake-up that was missed (line 1094 of
`packetSender.c`), on a connection that broke, or end with the parent's process;
and it may still read it after the parent has stopped, because what the parent
had sent may have arrived. How the parent's sender does this is in `TcpHop` and
`ArqLink`. A client or server that has passed the exit code on stops at any time
after it (`Stop`, `ExitServer`), whatever its children have read: the code only
sleeps (20 and 60 seconds).

`RecvRate` is the server. The list of fragments is a sequence with the head of
the C list at its end; the receiving thread inserts between any two steps of the
handler. The handler copies and sorts the list (`TimerExpires`, `ListSort`),
takes one announcement after the other (`CountMessage`), and after each walks the
list to delete what the announcement covers: `cur` is `pac_cur`, and `atHead`
says that `pac_prev` is still the head variable, so that a deletion frees
whatever is at the head then (`Freed`). `EndCycle` compares the share received
with `GAMMA1` and `GAMMA2` (in percent, since amounts are integers) and sends a
period: `Period` counts how often it was made longer or shorter, as the code
multiplies. After `NUM_CYCLE_FOR_EXIT` cycles the exit code is sent.
`ReceiveTimeout` ends the process without one.

`StaticRate` makes the period longer after each `PERIOD_FIXED_INTERVAL + 1`
calculations (the count is compared before it is incremented). `InOrderRate`
takes a fragment only when it is the next on its hop, so fragments come in order,
with gaps where a queue was full. All three share `RecvRate`'s actions, since
their sources are copies of each other; `build` chooses one for a behaviour.

Choices: sizes are counted in fragments; a picture has `Fragments` of them, at
least one. Time is left out: an action may happen at any time. One recv reads
one period message.
SIGALRM is taken to be handled by the main thread, as Linux does; its call of
`malloc` and the locks it may interrupt are not modelled. The detection mode is
the one compiled in (all clients together).

## 3. What TLC checks

| run | specification and bounds | shows |
|---|---|---|
| `arq_safety` | 2 callers, 1 hop, window 1 (2 threads), queue limit 2, 4 packets, 2 datagrams and 2 ACKs in flight, one may overtake another | `TypeOK`; packets used in order and once; an acknowledged packet was used; nothing numbered is lost; the queue exceeds its limit by no more than the other callers; no ACK for a packet that is ahead; `ArqLink` implements `FifoLink` |
| `arq_wrap` (violated) | numbers modulo 8, 10 packets | a packet ahead of the expected one is acknowledged at the wrap |
| `arq_two_hops` (violated) | 2 next hops, 1 caller, 1 packet for each | with two next hops the shared counter leaves one of them waiting for a number that the other was given |
| `tx_threads` | 1 caller, 3 packets, window 1, 1 timeout | no pointer to a freed element; first transmissions in queue order; `READY` elements at the tail; a thread ends only when its packet was taken |
| `tx_callers` | 2 callers, 2 packets, 1 timeout, fairness | a thread ends only when its packet was taken, also when the numbers and places of two callers cross; the dispatcher gets its token back |
| `tx_enqueue` (violated) | 2 callers, no timeout | a packet enqueued just before the dispatcher sets `waitingEnqueueSig` wakes nobody |
| `image_store` | 2 images of 4 fragments, 3 packets, 2 items | nothing freed is read; a file has one writer; it holds the fragments once, in order, at their place; a finished item is always noticed |
| `loop_tree` | 2 clients, one behind the other, 2 connection threads in each, 4 images of 2 fragments of the farther one, image numbers modulo 3, announced every 2 images, each of the 3 servers | announcements tile the images; the newest period read is relayed |
| `loop_race` (violated) | as `loop_tree` | two threads of a client leave it with the number of the newer message and the period of the older one |
| `loop_rate` | 1 client that sends 2 images of 2 fragments, numbers modulo 2, list of 3 packets, each of the 3 servers | types; the walk of the handler stays in the list; sorting counts different fragments; nobody received more than was sent |
| `rate_head` (violated) | as `loop_rate` | the handler frees a fragment that arrived a moment before |
| `relay` | 2 threads; TCP to the parent and to 2 children, UDP to the parent; queue limit 2; 1 broken connection; 2 transmissions, window 1, 1 datagram and 1 ACK in flight; fairness | each packet is offered to each next hop once; over TCP sent once; over UDP copied at most twice, and a thread that stops early was relayed; a waiting dispatcher is woken by the next packet; a packet whose thread has ended leaves the queue when another signal to delete is still to come |

Why the bounds are enough. A window of 1 gives two sender threads, the least
number with a predecessor and a successor, and with a third packet the window is
full, the dispatcher waits and elements lie behind it. Two callers are enough to
pass the limit together and to enqueue in the opposite order of their numbers.
One timeout reaches the retransmission, its passing on to the successor, and the
wait for the predecessor. In `arq_safety` two datagrams in flight with one
overtaking give every order of a packet, its repetition and its successor;
`arq_wrap` shrinks the number space because 2^16 packets are out of reach of
TLC, and the same arithmetic fails at 2^16. In `image_store` three packets make
a file with a repetition, a gap and a late fragment, and two items are a
finished image with a second item for the same one. In `loop_tree` three image
numbers with ranges of two wrap inside a range and between two; a client behind
another is the least tree in which a node relays, and two threads are enough for
one to be overtaken between any two of its steps: `loop_race`, on the same
instance, finds what goes wrong then (with one thread in each client
`NewestInForce` holds). In `loop_rate` a list of three packets has one at
the head, one behind it and one that arrives, and numbers modulo 2 put a wrap
into every second range; one client is enough, because the handler treats the
packets of each client by themselves, and the theorems are about any number. In `relay` two threads at the parent find the list
empty together, the third call finds it built; one broken connection leaves two
to be read in either order; two transmissions give a late ACK and a second copy.
Over UDP the run has the parent only, since elements of a list share nothing
there but the counter of numbers, and two packets in one queue are what a pass of
the deleting thread can go by and come back to.
`CHECK_DEADLOCK` is off everywhere: a system that has sent all its packets
stops.

### 3.1 What the violated runs say of the code

* `arq_wrap`: `SendingACKorNACK` corrects a wrapped difference by 65535, not
  65536. A packet one ahead of the expected one across the wrap seems to be the
  expected one (difference 0 instead of 1): it is acknowledged and used, and the
  expected one is skipped.
* `arq_two_hops`: one `SequenceNumber` per packet type numbers the packets of
  all next hops, and each hop expects every number, from 0 on: a hop whose first
  packet has number 1 drops it and never acknowledges.
* `tx_enqueue`: `waitingEnqueueSig` is set after `queueMutex` is released. A
  packet enqueued in between is sent only when another one is enqueued.
* `loop_race`: `recvNewIntvlMessTCP` compares the number (line 749), stores it,
  relays the message and then stores the period, all without a lock. The thread
  of an older message, overtaken after its comparison, stores its period last: the
  client sends with it, and drops every message up to the newer number.
* `rate_head`: `CalcDataRecvRate` reads the head of the list and locks only to
  delete. A fragment inserted in between is what `free(pac_prev->next)` frees; it
  is lost for the count (and the receiving thread may still read it), while the
  packet that was counted is unlinked and never freed.

Two exceptions that `FileIsRight` makes are faults of `createImage.c` as well. A
missing first fragment is not padded (`FirstGapUnpadded`), because the difference
must exceed 1 there too, although the comment at line 433 says that gaps are
padded. And `mergeSort` leaves `dataEnd` inside the sorted list (`late`), although
line 46 calls it the end: a fragment that comes while the file is written cuts
off what was sorted behind it.

Places where no text of the repository says otherwise, so that no run calls them
wrong: after a wrapped range the handler deletes images at or below its first
number instead of at or above it (line 1245); fragments that arrive after its
copy can be deleted uncounted (1125); a fixed period lasts one calculation more
than its constant; a client that loses an announcement leaves its fragments in
the server's list (the code has a TODO on it).

### 3.2 Fairness

Fairness is assumed of threads that can take their next step by themselves, never
of what another thread, process or the network has to bring.

* `TxQueue!FairSpec`: weak fairness for the dispatcher and each sender thread.
  Callers may stop, and ACKs and timeouts may never come; `TokenComesBack` does
  not need them.
* `RelayHop!FairSpec`: weak fairness for callers, for a TCP dispatcher (`connect`
  succeeds in the end, connections break finitely often), for a running sending
  thread to its end (its `sigtimedwait` returns without an ACK, and the
  transmissions are limited) and for the deleting thread. A pass of that thread
  begins only when its signal is pending.
* `ArqLink` and `ControlLoop` state no fairness, and no property of them says that
  something is delivered in the end. The code does not promise it: section 5.

## 4. What is proved

Every module of proofs is about any values of the constants: any number of hops,
callers, packets, images, fragments, timeouts, any window, limit, modulus and
bound. Where a theorem needs more than the assumptions that the module of the
model states on its constants, the column says so.

| module | theorem | statement | assumption |
|---|---|---|---|
| `ArqLinkProofs` | `TypeCorrect` | `Spec => []TypeOK` | |
| | `QueueIsBounded` | `Spec => []QueueBound` | |
| | `InOrder` | `Spec => []DeliveredInOrder` | `NoWrap` |
| | `AckMeansDelivered` | `Spec => []AckedIsDelivered` | `NoWrap` |
| | `NothingIsLost` | `Spec => []NothingLost` | `NoWrap` |
| | `AnswersAreNotAhead` | `Spec => NoAckAhead` | `NoWrap` |
| | `ArqIsFifo` | `Spec => RefinesFifo` | `NoWrap`, one hop |
| `TxQueueProofs` | `TypeCorrect` | `Spec => []TypeOK` | |
| | `NoElementUsedAfterFree` | `Spec => []NoUseAfterFree` | |
| | `FirstTransmissionsInOrder` | `Spec => []FirstSentInOrder` | |
| | `DeletionMayStop` | `Spec => []ReadyAtTail` | |
| | `EndedOnlyWhenTaken` | `Spec => []EndedIsTaken` | |
| `ImageSortProofs` | `MergeSortFacts` | `mergeSort` returns the packets of its list in order | |
| `ImageStoreProofs` | `TypeCorrect` | `Spec => []TypeOK` | |
| | `NothingUsedAfterFree` | `Spec => []NoUseAfterFree` | |
| | `OneWriter` | `Spec => []WrittenByOne` | |
| | `FileRight` | `Spec => []FileIsRight` | |
| | `NoItemForgotten` | `Spec => []EndedIsNoticed` | |
| `RelayHopProofs` | `TypeCorrect` | `Spec => []TypeOK` | |
| | `EachNextHopOnce` | `Spec => []OfferedOnce` | `OneSender` |
| | `EachSentOnce` | `Spec => []SentOnce` | |
| | `ThreadsStopWhenRelayed` | `Spec => []AckedIsRelayed` | |
| | `RelaysAreBounded` | `Spec => []CopiesBounded` | |
| `ControlLoopProofs` | `TypeCorrect` | `LoopSpec => []TypeOK` | |
| | `NewestAlwaysRelayed` | `LoopSpec => []NewestRelayed` | |
| | `WalkStaysInList` | `LoopSpec => []WalkInList` | |
| | `AnnouncementsAlwaysTile` | `LoopSpec => []AnnouncementsTile` | |
| | `MergeSortFacts` | `MergeSort` returns the keys of its list in order | |
| | `EachFragmentCountedOnce` | `LoopSpec => CountsDistinct` | |
| | `ReceivedWithinAnnounced` | `LoopSpec => []CountedWithinSent` | |

The assumptions.

* `NoWrap`: fewer numbers are handed out than the `u_short` has before the wrap
  correction starts. `arq_wrap` shows that it cannot be dropped. The types and
  the length of the queue do not need it.
* One hop: `arq_two_hops` shows that `ArqIsFifo` needs it.
* `OneSender`: one thread of a node sends to the children, and the routing script
  prints no child twice. The number of threads that send to the parent is free.
  In the two programs it holds; without it a caller can meet a `nexthopl_hit` that
  was left set (`crash`, section 2.4).
* Of the callers of `ArqLink` there are finitely many (a process has finitely
  many threads); otherwise the length of its queue has no bound.

### 4.1 The arguments

`ArqLink`. That the receiver takes the right packet depends on what is on the
wire, and that on the queue. `IInv` follows a number along its way: a caller
holds a number that was issued for its hop (`CallerInv`), so does each queue
element, and one that is ended was used (`QueueInv`), so does each datagram, and
each ACK is for a number below `expectedSeq` (`WireInv`); `expectedSeq` counts
what was used (`HopInv`); and an issued number is with its caller, in the queue
or below `expectedSeq` (`KeptInv`). Below the wrap `DiffSeq` is plain subtraction
and `SequenceNumber` the identity. `ArqIsFifo` maps every step to a `FifoLink` step
or to a stutter. For the queue's length the callers between the test and the
insertion are counted with it (`RoomInv`).

`TxQueue`. The threads are created in the order of the queue, so that those that
have one are its front (`OrderInv`); the token `SIGNAL_SEND_ONE_PACKET` is in one
place at a time: pending, with the dispatcher that creates a thread, or with the
thread before its first `sendto` (`TokenInv`). Hence what was sent is what was
started, but for the thread with the token (`SentInv`). An ACK, a pending
`SIGNAL_SENDEND` and a thread on its way out all stand for a number below the one
the next hop expects (`AckInv`), for which numbers must differ (`NumberInv`).

`ImageStore`. All links stay within their item (`LinkInv`). That the deleting
thread never reads a freed packet is a statement about all lists it may meet,
also those that a late fragment tied together anew: there is a measure that
decreases along every link, and what was freed of an item stands above the packet
to be freed next (`DepthInv`). Of the items of an image all but the last have been
freed, and the first of them makes the file (`LifeInv`, `WriterInv`). The file is
followed through the sort: up to it a list is in the order of reception
(`SleepInv`), after it in the order of `mergeSort` (`SortedInv`), and the file
holds the numbers up to `ID_prev` (`WriteInv`), each at its place (`EntriesRight`).

`NextHops` and `RelayHop`. The links go to elements that are allocated, and only
upwards (`ListInv`); each caller is at the place of the route
file that the list has reached (`PlacesInv`) and has offered its packet to exactly
the addresses before it (`OffersInv`). A number is with its caller or once in one
queue (`NumberInv`). Over UDP an ACK is followed backwards, to the copy it was sent
with (`AckInv`), and the copies and datagrams of a number together are no more
than its thread has sent (`CopyInv`), counted with cardinalities. Over TCP a number
is held, left in a queue or sent, in exactly one of these and there once, and no
connection repeats another's (`SentInv`); between `SendTCP` and `Unlink` the first
of the queue is both, and counts as sent.

`ControlLoop`. The number a client compares with is 0 or that of a message that
was relayed, or that a thread has still to relay; so a message that is dropped for
its number has a newer one, or itself, relayed or in hand (`Accounted`,
`Covered`). A thread gives up what it has in hand only to `relayed`, or to a number
that is accounted for; and the histories only grow, so that what was read keeps
its place (`Grown`, `ReadInv`). No lock and no bound on the threads is needed.
The walk of the handler needs that deletion takes away
no more than what lies at or above `pac_cur`, whoever inserted meanwhile, and that
while `pac_prev` is not the head there is a packet between (`WalkInv`). Tiling
needs the modulus: the images announced and those still to be announced add up
to what was sent, and the range open now is shorter than `INTERVAL_SEND`, which
is at most `ImgMod` (`TileInv`). Hence every announcement gives the size of as many
different image numbers as its range covers, and of each the count after the
sort is at most `Fragments`: of no announcement more is received than sent
(`CountInv`, `AnnouncedFacts`, `SumBounded`). The count is right because the sort
keeps the keys and puts them in order (`MergeSortFacts`), and in an ordered list
the keys that differ from the one before are as many as there are different ones
(`CountOfOrdered`).

### 4.2 Recursive functions

The merge sorts, the walks along links and the sums of the handler are recursive
functions. `DataLemmas` gives what is needed to reason about them: a set of
numbers that is not empty has a least element (`LeastNat`), induction over a set
of numbers (`InductionNat`), and the recursion equation of a function over any set
with a measure, if its body looks only at arguments of a smaller one
(`RecursionNat`). Each function then has an equation (`MergeEquation`,
`ChainEquation` and others), and what it returns is proved by the least
counterexample, by length or by measure.

### 4.3 What is only model-checked

Liveness, which TLAPS does not reach: `TokenComesBack`, `EnqueueWakes`,
`EndedLeaves`. The five violated runs are counterexamples and need no proof.

## 5. Not modelled

* The NACK branches (`sendingNACK`, `delNACKfromQueue`), unfinished and switched
  off in `common.h`.
* `packetSender_goBackNARQ.c` and `serverImageReceiver_nonGBNARQ.c` as modules of
  their own: neither is built, and they differ from files that are modelled in
  constants (how old a number is still acknowledged; the cycles before the exit).
* The Perl scripts, the driver patch and the experiments hold no protocol state;
  the route file is a constant.
* TCP below a message (a `recv` that reads a part or two of them) and errors of
  established connections.
* Signal handlers that interrupt a lock of their own thread, failures of `malloc`
  and of system calls that end the program.
* Times: how long a period or a retransmission timer is. They decide when an
  action happens, and the models let it happen at any time.
* Contents of packets and images, addresses, log output.
* The half-linked new item of `makeImageData` and the next hop linked before its
  fields are set (line 1491): one unlocked access is the finest grain.
* No property says that a packet, a period or the exit code arrives in the end,
  because each of the following can keep it for good, also when the network loses
  nothing more. The dispatcher misses the wake-up of an enqueue (lines 1001 and
  1008 over UDP, 1094 over TCP), and nobody enqueues again. The signal to delete
  is sent before `THREAD_EXIT` is written (466 and 469; 478 and 481 in
  `packetSender_nonGBNARQ.c`), so that the last packet stays in the queue. A thread
  waits in `Hold` (next item). A connection breaks with messages on it. A node
  ends 20 or 60 seconds after the exit code, or a server at its timeout (442) with
  messages still queued. `EndedLeaves` and `EnqueueWakes` say what the code does
  give: the next signal, or the next enqueue, makes up for the one missed.
* That a left packet leaves with the next signal is checked for `NonGbnArq`; in
  `TxQueue`, where threads also wait for each other, the same formula is out of
  reach of TLC.
* No property says that a thread in `Hold` is answered, because it may not be:
  the last `SIGNAL_SUCCESS` goes only to a successor that runs by then (line 445),
  while `THREAD_START` stays until line 469. In `TxQueue` a successor created and
  timed out in between holds with nobody left to signal it, and `SIGNAL_SENDEND`
  is not a signal it waits for. In the program the whole retransmission time must
  pass between those two statements.
* The window can be filled by later packets: when `WINDOW_SIZE + 1` later numbers
  enter the queue between one thread's taking of a number (line 1189) and its
  insertion, the packet the hop expects waits behind them for ever. `WINDOW_SIZE`
  is 10, so this takes eleven packets of the other threads between two statements.
  The safety properties of `ArqLink` include this case.

## 6. Plan

1. `ArqLink` across the wrap: up to the first wrap `NoWrap` holds, and after it
   packets are skipped. What is still true of the order then (no packet is used
   twice while fewer than half of the numbers are on the way) is not stated yet.
2. An abstract specification of `ImageStore` (a map from images to what was
   received of them) and of `TcpHop` (a bag of packets per next hop), and the
   models shown to implement them, as `ArqLink` does `FifoLink`.
3. `OneSender`: what holds without it, when several threads of a node send to its
   children.
4. `TxQueue` with the threads of `NonGbnArq`, whose signals differ.
