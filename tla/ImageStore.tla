----------------------------- MODULE ImageStore -----------------------------
(***************************************************************************)
(* createImage.c on the server: fragments become image files.              *)
(*                                                                         *)
(* makeImageData, called by the one thread that receives image data, finds *)
(* or creates the item of an image in a list and appends the fragment to   *)
(* the item's list of packets.  Each item has a thread of its own,         *)
(* makeOneImageFileOneAddr, which sleeps, sorts the packets, writes the    *)
(* image file and marks the item THREAD_EXIT; one further thread,          *)
(* delItemFromImageOfNode, frees such items when it is signalled.          *)
(*                                                                         *)
(* ImageOfNodeMutex guards the list of items and image_data_mutex the      *)
(* packets of an item, but neither is held by makeImageData from the       *)
(* search to the append, nor by the image thread while it writes, nor by   *)
(* the deleting thread while it walks the list.  An action is a critical   *)
(* section, or one access outside of them.  Memory that was freed is not   *)
(* used again in the model: a write into it reaches nobody.                *)
(*                                                                         *)
(* Items and packets are named by the order of their creation.  The number *)
(* 0 stands for NULL, and for the head of a list.                          *)
(***************************************************************************)
EXTENDS Integers, Sequences, FiniteSets

CONSTANTS
    Images,      \* source address and image number together
    Fragments,   \* an image is sent as the fragments 0..Fragments - 1
    MaxPackets,  \* bound: packets received
    MaxItems     \* bound: items created

ASSUME ConstantsAssumption ==
    /\ Fragments \in Nat \ {0}
    /\ MaxPackets \in Nat
    /\ MaxItems \in Nat

Items == 1..MaxItems
Packets == 1..MaxPackets
Sequences == 0..Fragments - 1

(* All fragments but the last are of one size; the last is what is left. *)
FullSize == 2
DataSize(no) == IF no = Fragments - 1 THEN 1 ELSE FullSize

VARIABLES
    packet,    \* packet[p]: the item and the sequence number of packet p
    image,     \* image[i]: the image of item i
    status,    \* threadStatus of each item
    first,     \* first[i]: dataHead.next of item i
    dataEnd,   \* dataEnd[i]: its last packet
    next,      \* next[p]: the packet after p
    freed,     \* the packets that were freed
    late,      \* history: a packet joined item i after it was sorted
    rpc, rItem, rNo,   \* makeImageData: where it stands, IoN_proc, the fragment
    ipc, prev, cur,    \* the image threads: where each stands, ID_prev, ID_cur
    made,      \* the image files that exist
    file,      \* file[g]: what was written, and where: item, number, offset
    signals,   \* SIGNAL_DEL_ITEM_IMAGE pending at the deleting thread
    dpc, dCur, dPacket \* the deleting thread: where it stands, IoN_cur, ID_cur

listVars == <<image, status>>
dataVars == <<packet, first, dataEnd, next, late>>
recvVars == <<rpc, rItem, rNo>>
imageVars == <<ipc, prev, cur>>
fileVars == <<made, file>>
delVars == <<dpc, dCur, dPacket>>
vars == <<listVars, dataVars, freed, recvVars, imageVars, fileVars, signals, delVars>>

TypeOK ==
    /\ packet \in Seq([item : Items, no : Sequences]) /\ Len(packet) <= MaxPackets
    /\ image \in Seq(Images) /\ Len(image) <= MaxItems
    /\ status \in [Items -> {"NONE", "START", "EXIT", "FREED"}]
    /\ first \in [Items -> 0..MaxPackets]
    /\ dataEnd \in [Items -> 0..MaxPackets]
    /\ next \in [Packets -> 0..MaxPackets]
    /\ freed \subseteq Packets
    /\ late \in [Items -> BOOLEAN]
    /\ rpc \in {"idle", "append"}
    /\ rItem \in 0..MaxItems
    /\ rNo \in Sequences
    /\ ipc \in [Items -> {"none", "sleep", "check", "write", "exit", "signal", "ended"}]
    /\ prev \in [Items -> 0..MaxPackets]
    /\ cur \in [Items -> 0..MaxPackets]
    /\ made \subseteq Images
    /\ file \in [Images -> Seq([item : Items, no : Sequences, at : Nat])]
    /\ signals \in Nat
    /\ dpc \in {"wait", "walk", "data"}
    /\ dCur \in 0..MaxItems
    /\ dPacket \in 0..MaxPackets

Init ==
    /\ packet = <<>>
    /\ image = <<>>
    /\ status = [i \in Items |-> "NONE"]
    /\ first = [i \in Items |-> 0]
    /\ dataEnd = [i \in Items |-> 0]
    /\ next = [p \in Packets |-> 0]
    /\ freed = {}
    /\ late = [i \in Items |-> FALSE]
    /\ rpc = "idle" /\ rItem = 0 /\ rNo = 0
    /\ ipc = [i \in Items |-> "none"]
    /\ prev = [i \in Items |-> 0]
    /\ cur = [i \in Items |-> 0]
    /\ made = {}
    /\ file = [g \in Images |-> <<>>]
    /\ signals = 0
    /\ dpc = "wait" /\ dCur = 0 /\ dPacket = 0
-----------------------------------------------------------------------------
(***************************************************************************)
(* makeImageData.                                                          *)
(***************************************************************************)
(* The items in the list: a new one goes to its end, so they are linked in  *)
(* the order of their numbers.                                              *)
Linked == {i \in Items : status[i] \in {"START", "EXIT"}}

Found(g) == {i \in Linked : image[i] = g}

(* Under ImageOfNodeMutex; a new item goes to the end and gets its thread. *)
FindItem(g, no) ==
    /\ rpc = "idle"
    /\ Len(packet) < MaxPackets
    /\ rpc' = "append"
    /\ rNo' = no
    /\ \/ /\ Found(g) # {}
          /\ rItem' \in Found(g)
          /\ UNCHANGED <<listVars, ipc>>
       \/ /\ Found(g) = {}
          /\ Len(image) < MaxItems
          /\ rItem' = Len(image) + 1
          /\ image' = Append(image, g)
          /\ status' = [status EXCEPT ![rItem'] = "START"]
          /\ ipc' = [ipc EXCEPT ![rItem'] = "sleep"]
    /\ UNCHANGED <<dataVars, freed, prev, cur, fileVars, signals, delVars>>

(* Under image_data_mutex: the packet goes after dataEnd. *)
AddPacket ==
    LET p == Len(packet) + 1
        e == dataEnd[rItem]
    IN  /\ rpc = "append"
        /\ packet' = Append(packet, [item |-> rItem, no |-> rNo])
        /\ IF e = 0
           THEN first' = [first EXCEPT ![rItem] = p] /\ UNCHANGED next
           ELSE next' = [next EXCEPT ![e] = p] /\ UNCHANGED first
        /\ dataEnd' = [dataEnd EXCEPT ![rItem] = p]
        /\ late' = [late EXCEPT ![rItem] = ipc[rItem] # "sleep"]
        /\ rpc' = "idle"
        /\ UNCHANGED <<listVars, freed, rItem, rNo, imageVars, fileVars, signals, delVars>>
-----------------------------------------------------------------------------
(***************************************************************************)
(* makeOneImageFileOneAddr.                                                *)
(***************************************************************************)
(* The packets of a list from p on. *)
Chain[p \in 0..MaxPackets] == IF p = 0 THEN <<>> ELSE <<p>> \o Chain[next[p]]

(* merge: of two equal numbers the one on the right goes first. *)
merge[lists \in Seq(Packets) \X Seq(Packets)] ==
    LET l == lists[1]
        r == lists[2]
    IN  IF l = <<>> THEN r
        ELSE IF r = <<>> THEN l
        ELSE IF packet[Head(l)].no < packet[Head(r)].no THEN <<Head(l)>> \o merge[<<Tail(l), r>>]
        ELSE <<Head(r)>> \o merge[<<l, Tail(r)>>]

mergeSort[s \in Seq(Packets)] ==
    IF Len(s) <= 1 THEN s
    ELSE LET half == Len(s) \div 2
         IN  merge[<<mergeSort[SubSeq(s, 1, half)], mergeSort[SubSeq(s, half + 1, Len(s))]>>]

(* Mutant: THREAD_EXIT is written when the packets are sorted. *)
SortExits(i) ==
    LET s == mergeSort[Chain[first[i]]]
        After(p) == {k \in 1..Len(s) - 1 : s[k] = p}
    IN  /\ ipc[i] = "sleep"
        /\ first' = [first EXCEPT ![i] = IF s = <<>> THEN 0 ELSE s[1]]
        /\ next' = [p \in Packets |->
                       IF p \notin {s[k] : k \in DOMAIN s} THEN next[p]
                       ELSE IF p = s[Len(s)] THEN 0
                       ELSE s[1 + CHOOSE k \in After(p) : TRUE]]
        /\ ipc' = [ipc EXCEPT ![i] = "check"]
        /\ status' = [status EXCEPT ![i] = "EXIT"]
        /\ UNCHANGED <<image, packet, dataEnd, late, freed, recvVars, prev, cur, fileVars,
                       signals, delVars>>

(* The timer has expired.  Under image_data_mutex; dataEnd is left as it is. *)
Sort(i) ==
    LET s == mergeSort[Chain[first[i]]]
        After(p) == {k \in 1..Len(s) - 1 : s[k] = p}
    IN  /\ ipc[i] = "sleep"
        /\ first' = [first EXCEPT ![i] = IF s = <<>> THEN 0 ELSE s[1]]
        /\ next' = [p \in Packets |->
                       IF p \notin {s[k] : k \in DOMAIN s} THEN next[p]
                       ELSE IF p = s[Len(s)] THEN 0
                       ELSE s[1 + CHOOSE k \in After(p) : TRUE]]
        /\ ipc' = [ipc EXCEPT ![i] = "check"]
        /\ UNCHANGED <<listVars, packet, dataEnd, late, freed, recvVars, prev, cur, fileVars,
                       signals, delVars>>

(* Mutant: the image file is made again for a late fragment. *)
OpenFileAgain(i) ==
    /\ ipc[i] = "check"
    /\ made' = made \cup {image[i]}
    /\ prev' = [prev EXCEPT ![i] = 0]
    /\ cur' = [cur EXCEPT ![i] = first[i]]
    /\ ipc' = [ipc EXCEPT ![i] = "write"]
    /\ UNCHANGED <<listVars, dataVars, freed, recvVars, file, signals, delVars>>

(* An image file that exists is not made again. *)
OpenFile(i) ==
    /\ ipc[i] = "check"
    /\ \/ /\ image[i] \in made
          /\ ipc' = [ipc EXCEPT ![i] = "exit"]
          /\ UNCHANGED <<made, prev, cur>>
       \/ /\ image[i] \notin made
          /\ made' = made \cup {image[i]}
          /\ prev' = [prev EXCEPT ![i] = 0]
          /\ cur' = [cur EXCEPT ![i] = first[i]]
          /\ ipc' = [ipc EXCEPT ![i] = "write"]
    /\ UNCHANGED <<listVars, dataVars, freed, recvVars, file, signals, delVars>>

FileSize(g) ==
    IF file[g] = <<>> THEN 0
    ELSE LET last == file[g][Len(file[g])] IN last.at + DataSize(last.no)

(* diffSeqNum; UINT_MAX added to a negative int makes it one less. *)
DiffSeqNum(i) ==
    LET diff == packet[cur[i]].no - packet[prev[i]].no
    IN  IF prev[i] = 0 THEN packet[cur[i]].no ELSE IF diff < 0 THEN diff - 1 ELSE diff

(* Mutant: the difference is padded, not what is missing in between. *)
PaddedOneMore(i) == IF DiffSeqNum(i) <= 1 THEN 0 ELSE DiffSeqNum(i)

(* How many fragments the white padding before the current packet stands for. *)
Padded(i) ==
    IF DiffSeqNum(i) <= 1 THEN 0 ELSE IF prev[i] = 0 THEN DiffSeqNum(i) ELSE DiffSeqNum(i) - 1

(* One packet of the list, without a lock; numbers that do not grow are left out. *)
WritePacket(i) ==
    LET no == packet[cur[i]].no
        g  == image[i]
    IN  /\ ipc[i] = "write"
        /\ cur[i] # 0
        /\ file' = IF prev[i] # 0 /\ DiffSeqNum(i) < 1 THEN file
                   ELSE [file EXCEPT ![g] = Append(@,
                           [item |-> i, no |-> no, at |-> FileSize(g) + Padded(i) * DataSize(no)])]
        /\ prev' = [prev EXCEPT ![i] = cur[i]]
        /\ cur' = [cur EXCEPT ![i] = next[cur[i]]]
        /\ UNCHANGED <<listVars, dataVars, freed, recvVars, ipc, made, signals, delVars>>

CloseFile(i) ==
    /\ ipc[i] = "write"
    /\ cur[i] = 0
    /\ ipc' = [ipc EXCEPT ![i] = "exit"]
    /\ UNCHANGED <<listVars, dataVars, freed, recvVars, prev, cur, fileVars, signals, delVars>>

(* The last access to the item. *)
Exit(i) ==
    /\ ipc[i] = "exit"
    /\ status' = [status EXCEPT ![i] = "EXIT"]
    /\ ipc' = [ipc EXCEPT ![i] = "signal"]
    /\ UNCHANGED <<image, dataVars, freed, recvVars, prev, cur, fileVars, signals, delVars>>

SignalDelItem(i) ==
    /\ ipc[i] = "signal"
    /\ signals' = signals + 1
    /\ ipc' = [ipc EXCEPT ![i] = "ended"]
    /\ UNCHANGED <<listVars, dataVars, freed, recvVars, prev, cur, fileVars, delVars>>
-----------------------------------------------------------------------------
(***************************************************************************)
(* delItemFromImageOfNode.                                                 *)
(***************************************************************************)
(* The item after i in the list, or the first one. *)
NextItem(i) ==
    LET here == {k \in Linked : k > i}
    IN  IF here = {} THEN 0 ELSE CHOOSE k \in here : \A m \in here : k <= m

(* Mutant: the list is walked without waiting for the signal. *)
WaitDelItemNot ==
    /\ dpc = "wait"
    /\ signals' = signals - 1
    /\ dCur' = NextItem(0)
    /\ dpc' = "walk"
    /\ UNCHANGED <<listVars, dataVars, freed, recvVars, imageVars, fileVars, dPacket>>

WaitDelItem ==
    /\ dpc = "wait"
    /\ signals > 0
    /\ signals' = signals - 1
    /\ dCur' = NextItem(0)
    /\ dpc' = "walk"
    /\ UNCHANGED <<listVars, dataVars, freed, recvVars, imageVars, fileVars, dPacket>>

(* Mutant: the walk ends at the first item whose thread still runs. *)
WalkStops ==
    /\ dpc = "walk"
    /\ dCur # 0
    /\ IF status[dCur] = "EXIT"
       THEN /\ dPacket' = first[dCur]
            /\ dpc' = "data"
            /\ UNCHANGED dCur
       ELSE /\ dCur' = 0
            /\ UNCHANGED <<dpc, dPacket>>
    /\ UNCHANGED <<listVars, dataVars, freed, recvVars, imageVars, fileVars, signals>>

(* threadStatus and next are read without a lock. *)
Walk ==
    /\ dpc = "walk"
    /\ dCur # 0
    /\ IF status[dCur] = "EXIT"
       THEN /\ dPacket' = first[dCur]
            /\ dpc' = "data"
            /\ UNCHANGED dCur
       ELSE /\ dCur' = NextItem(dCur)
            /\ UNCHANGED <<dpc, dPacket>>
    /\ UNCHANGED <<listVars, dataVars, freed, recvVars, imageVars, fileVars, signals>>

WalkEnd ==
    /\ dpc = "walk"
    /\ dCur = 0
    /\ dpc' = "wait"
    /\ UNCHANGED <<listVars, dataVars, freed, recvVars, imageVars, fileVars, signals, dCur, dPacket>>

(* Under image_data_mutex: one packet at a time. *)
FreePacket ==
    /\ dpc = "data"
    /\ dPacket # 0
    /\ freed' = freed \cup {first[dCur]}
    /\ first' = [first EXCEPT ![dCur] = next[dPacket]]
    /\ dPacket' = next[dPacket]
    /\ UNCHANGED <<listVars, packet, dataEnd, next, late, recvVars, imageVars, fileVars, signals,
                   dpc, dCur>>

(* Under ImageOfNodeMutex: the item is unlinked and freed. *)
FreeItem ==
    /\ dpc = "data"
    /\ dPacket = 0
    /\ status' = [status EXCEPT ![dCur] = "FREED"]
    /\ dCur' = NextItem(dCur)
    /\ dpc' = "walk"
    /\ UNCHANGED <<image, dataVars, freed, recvVars, imageVars, fileVars, signals, dPacket>>
-----------------------------------------------------------------------------
Receiver == AddPacket \/ \E g \in Images, no \in Sequences : FindItem(g, no)

ImageThread(i) ==
    \/ Sort(i) \/ OpenFile(i) \/ WritePacket(i) \/ CloseFile(i) \/ Exit(i) \/ SignalDelItem(i)

Deleter == WaitDelItem \/ Walk \/ WalkEnd \/ FreePacket \/ FreeItem

Next == Receiver \/ (\E i \in Items : ImageThread(i)) \/ Deleter

Spec == Init /\ [][Next]_vars
-----------------------------------------------------------------------------
(***************************************************************************)
(* Properties.                                                             *)
(***************************************************************************)
(***************************************************************************)
(* No image thread and no walk of the deleting thread holds a pointer to   *)
(* an item or a packet that was freed, although neither holds the mutex of *)
(* the list while it works.                                                *)
(***************************************************************************)
NoUseAfterFree ==
    /\ \A i \in Items : ipc[i] \notin {"none", "signal", "ended"} =>
          /\ status[i] # "FREED"
          /\ ipc[i] = "write" => cur[i] \notin freed /\ prev[i] \notin freed
    /\ dpc \in {"walk", "data"} /\ dCur # 0 => dCur \in Linked
    /\ dpc = "data" => dPacket \notin freed

(***************************************************************************)
(* An image file is written by one image thread only: a late fragment that *)
(* makes a new item for a finished image adds nothing to its file.         *)
(***************************************************************************)
WrittenByOne ==
    \A g \in Images : \A k \in DOMAIN file[g] :
        /\ file[g][k].item = file[g][1].item
        /\ \A i \in 1..file[g][1].item - 1 : image[i] # g

Got(i) == {packet[p].no : p \in {q \in DOMAIN packet : packet[q].item = i}}

(* The gap at the start of a file that the padding does not fill: for the   *)
(* first packet the difference of the numbers must exceed 1 as it must for  *)
(* the later ones, of which one number is the distance to the next.         *)
FirstGapUnpadded(i) == 0 \notin Got(i) /\ 1 \in Got(i)

(***************************************************************************)
(* If no packet joined the item after it was sorted, the image file holds  *)
(* every fragment that was received, once, in the order of the numbers,    *)
(* whatever the order and the repetitions of their arrival; and each       *)
(* fragment of full size stands where it stands in the image, unless       *)
(* fragment 0 is missing and 1 is not.  A packet that joins later is       *)
(* linked behind dataEnd, which the sort leaves inside the list: it cuts   *)
(* off what was sorted behind it (makeImageData, mergeSort).               *)
(***************************************************************************)
FileIsRight ==
    \A g \in Images : \A k \in DOMAIN file[g] :
        LET f == file[g][k]
        IN  ~late[f.item] =>
              /\ k > 1 => file[g][k - 1].no < f.no
              /\ ipc[f.item] # "write" => Got(f.item) = {file[g][m].no : m \in DOMAIN file[g]}
              /\ ~FirstGapUnpadded(f.item) /\ f.no # Fragments - 1 => f.at = f.no * FullSize

(***************************************************************************)
(* An item whose thread has ended is freed in the end: the mark is set     *)
(* before the signal is sent and signals are not lost, so there is always  *)
(* a signal on its way, or a walk of the list that has yet to reach the    *)
(* item; a walk that was already past it is followed by another one.       *)
(***************************************************************************)
EndedIsNoticed ==
    \A i \in Items : status[i] = "EXIT" =>
        \/ signals > 0
        \/ \E j \in Items : ipc[j] = "signal"
        \/ dpc \in {"walk", "data"} /\ dCur # 0 /\ dCur <= i
=============================================================================
