-------------------------- MODULE ImageStoreProofs --------------------------
(***************************************************************************)
(* Proofs about ImageStore, for every set of images, any number of         *)
(* fragments, packets and items.                                           *)
(***************************************************************************)
EXTENDS ImageSortProofs

Of(i) == {p \in Received : packet[p].item = i}

(* The thread of an item runs while its status is START; of the items of    *)
(* one image all but the last have been freed.                              *)
LifeInv ==
    /\ \A i \in Items :
          /\ status[i] = "NONE" <=> i > Len(image)
          /\ status[i] = "NONE" <=> ipc[i] = "none"
          /\ status[i] = "START" <=> ipc[i] \in {"sleep", "check", "write", "exit"}
    /\ \A i, j \in Items : i < j /\ j <= Len(image) /\ image[i] = image[j] => status[i] = "FREED"
    /\ \A p \in Received : packet[p].item <= Len(image)
    /\ rpc = "append" => rItem \in Items /\ rItem <= Len(image) /\ Len(packet) < MaxPackets

(* The thread that makes the file of an image is that of its first item.    *)
FirstOf(i, g) == i \in Items /\ i <= Len(image) /\ image[i] = g /\ \A j \in 1..i - 1 : image[j] # g

WriterInv ==
    /\ \A i \in Items : ipc[i] \in {"write", "exit", "signal", "ended"} => image[i] \in made
    /\ \A i \in Items : ipc[i] = "write" => FirstOf(i, image[i])
    /\ \A g \in Images : \A k \in DOMAIN file[g] :
          /\ FirstOf(file[g][k].item, g)
          /\ ipc[file[g][k].item] \notin {"none", "sleep", "check"}

(* The links of a list stay within its item. *)
LinkInv ==
    /\ \A i \in Items :
          /\ first[i] # 0 => first[i] \in Of(i)
          /\ dataEnd[i] # 0 => dataEnd[i] \in Of(i)
          /\ dataEnd[i] = 0 => Of(i) = {}
          /\ ipc[i] = "write" => cur[i] \in Of(i) \cup {0} /\ prev[i] \in Of(i) \cup {0}
    /\ \A p \in Received : next[p] # 0 => next[p] \in Of(packet[p].item)
    /\ \A p \in Packets : p \notin Received => next[p] = 0

(* What was freed belongs to an item that has ended; of the item that is    *)
(* being freed, it is what stood before ID_cur.                             *)
FreeInv ==
    /\ \A p \in freed :
          /\ p \in Received
          /\ \/ status[packet[p].item] = "FREED"
             \/ status[packet[p].item] = "EXIT" /\ dpc = "data" /\ dCur = packet[p].item
    /\ dpc = "walk" /\ dCur # 0 => dCur \in Linked
    /\ dpc = "data" => /\ dCur \in Items /\ status[dCur] = "EXIT"
                       /\ dPacket # 0 => dPacket = first[dCur]

FreedBefore(depth) ==
    dpc = "data" /\ dPacket # 0 =>
        \A p \in freed : packet[p].item = dCur => depth[dPacket] < depth[p]

DepthInv == \E depth \in [Packets -> Nat] : LinksDown(depth) /\ FreedBefore(depth)

(* Up to the sort, a list is in the order of reception. *)
SleepInv ==
    \A i \in Items : ipc[i] \in {"none", "sleep"} =>
        /\ ~late[i]
        /\ InOrder(Of(i))
        /\ \A p \in Of(i) : first[i] # 0 /\ first[i] <= p /\ p <= dataEnd[i]

(* After it, and if no packet joins, it is in the order of mergeSort. *)
InSortOrder(i) ==
    /\ \A p \in Of(i) : next[p] # 0 => Lt(p, next[p])
    /\ \A p, q \in Of(i) : Lt(p, q) => next[p] # 0 /\ (next[p] = q \/ Lt(next[p], q))
    /\ \A p \in Of(i) : first[i] # 0 /\ (first[i] = p \/ Lt(first[i], p))

SortedInv ==
    \A i \in Items : ipc[i] \in {"check", "write"} /\ ~late[i] => InSortOrder(i)

Numbers(g) == {file[g][k].no : k \in DOMAIN file[g]}

(* What has been written of a list is what stands up to ID_prev. *)
UpTo(i, p) == {q \in Of(i) : q = p \/ Lt(q, p)}
NumbersUpTo(i, p) == {packet[q].no : q \in UpTo(i, p)}

Written(i, g) ==
    /\ prev[i] = 0 => cur[i] = first[i] /\ file[g] = <<>>
    /\ prev[i] # 0 => /\ cur[i] = next[prev[i]]
                      /\ file[g] # <<>>
                      /\ file[g][Len(file[g])].no = packet[prev[i]].no
                      /\ Numbers(g) = NumbersUpTo(i, prev[i])

WriteInv == \A i \in Items : ipc[i] = "write" /\ ~late[i] => Written(i, image[i])

(* FileIsRight, entry by entry: of the k-th entry of g's file, made for i.  *)
EntryRight(g, k, i) ==
    /\ k > 1 => file[g][k - 1].no < file[g][k].no
    /\ ipc[i] # "write" => Got(i) = Numbers(g)
    /\ ~FirstGapUnpadded(i) /\ file[g][k].no # Fragments - 1 =>
          file[g][k].at = file[g][k].no * FullSize

EntriesRight ==
    \A g \in Images : \A k \in DOMAIN file[g] : \A i \in Items :
        file[g][k].item = i /\ ~late[i] => EntryRight(g, k, i)

IInv ==
    /\ TypeOK
    /\ LifeInv
    /\ WriterInv
    /\ LinkInv
    /\ FreeInv
    /\ DepthInv
    /\ SleepInv
    /\ SortedInv
    /\ WriteInv
    /\ EntriesRight
-----------------------------------------------------------------------------
LEMMA InitIInv == Init => IInv
<1> SUFFICES ASSUME Init PROVE IInv
  OBVIOUS
<1> USE ConstantsAssumption DEF Init, Items, Packets, Sequences
<1>1. packet = <<>> /\ image = <<>> /\ Received = {} /\ \A i : Of(i) = {}
  BY DEF Received, Of
<1>2. TypeOK
  <2>1. /\ packet \in Seq([item : Items, no : Sequences]) /\ Len(packet) <= MaxPackets
        /\ image \in Seq(Images) /\ Len(image) <= MaxItems
    OBVIOUS
  <2>2. /\ rItem \in 0..MaxItems /\ rNo \in Sequences
        /\ file \in [Images -> Seq([item : Items, no : Sequences, at : Nat])]
    OBVIOUS
  <2>3. /\ dCur \in 0..MaxItems /\ dPacket \in 0..MaxPackets
        /\ prev \in [Items -> 0..MaxPackets] /\ cur \in [Items -> 0..MaxPackets]
        /\ first \in [Items -> 0..MaxPackets] /\ dataEnd \in [Items -> 0..MaxPackets]
        /\ next \in [Packets -> 0..MaxPackets]
    OBVIOUS
  <2> QED BY <2>1, <2>2, <2>3 DEF TypeOK
<1>3. LifeInv
  BY <1>1 DEF LifeInv
<1>4. WriterInv
  BY DEF WriterInv
<1>5. LinkInv /\ FreeInv
  BY <1>1 DEF LinkInv, FreeInv
<1>6. DepthInv
  <2>1. LinksDown([p \in Packets |-> 0]) /\ FreedBefore([p \in Packets |-> 0])
    BY <1>2 DEF LinksDown, FreedBefore, TypeOK
  <2> QED BY <2>1 DEF DepthInv
<1>7. SleepInv
  BY <1>1 DEF SleepInv, InOrder
<1>8. SortedInv /\ WriteInv
  BY DEF SortedInv, WriteInv
<1>9. EntriesRight
  BY DEF EntriesRight
<1> QED BY <1>2, <1>3, <1>4, <1>5, <1>6, <1>7, <1>8, <1>9 DEF IInv

LEMMA BasicFacts ==
    ASSUME IInv
    PROVE  /\ PacketsOK
           /\ Received \in SUBSET Packets /\ Received \in SUBSET Nat
           /\ \A i \in Items : Of(i) \in SUBSET Received
           /\ \A p \in Received : p \in Of(packet[p].item) /\ packet[p].item \in Items
           /\ Items \in SUBSET Nat /\ Packets \in SUBSET Nat /\ 0 \notin Items /\ 0 \notin Packets
           /\ Len(image) \in Nat /\ DOMAIN image = 1..Len(image)
           /\ \A i \in Items : i <= Len(image) => i \in DOMAIN image /\ image[i] \in Images
<1>1. PacketsOK
  BY DEF IInv, TypeOK, PacketsOK
<1>2. /\ Received \in SUBSET Packets /\ Received \in SUBSET Nat
      /\ \A p \in Received : packet[p].item \in Items
  BY <1>1, ReceivedFacts
<1>3. Items \in SUBSET Nat /\ Packets \in SUBSET Nat /\ 0 \notin Items /\ 0 \notin Packets
  BY ConstantsAssumption DEF Items, Packets
<1>4. image \in Seq(Images) /\ Len(image) \in Nat /\ DOMAIN image = 1..Len(image)
  BY DEF IInv, TypeOK
<1>5. \A i \in Items : i <= Len(image) => i \in DOMAIN image /\ image[i] \in Images
  <2>1. \A i \in Items : i \in Nat /\ i >= 1
    BY ConstantsAssumption DEF Items
  <2> QED BY <1>4, <2>1
<1> QED BY <1>1, <1>2, <1>3, <1>4, <1>5 DEF Of

(* What the order of a list depends on. *)
LEMMA DataFrame ==
    ASSUME UNCHANGED <<packet, first, next>>
    PROVE  /\ Received' = Received
           /\ \A i : /\ Of(i)' = Of(i)
                     /\ InOrder(Of(i))' <=> InOrder(Of(i))
                     /\ InSortOrder(i)' <=> InSortOrder(i)
                     /\ Got(i)' = Got(i)
                     /\ FirstGapUnpadded(i)' <=> FirstGapUnpadded(i)
           /\ \A depth : LinksDown(depth)' <=> LinksDown(depth)
<1>1. Received' = Received /\ \A i : Of(i)' = Of(i)
  BY DEF Received, Of
<1>2. \A p, q : Lt(p, q)' <=> Lt(p, q)
  BY DEF Lt
<1>3. \A i : InOrder(Of(i))' <=> InOrder(Of(i))
  BY <1>1 DEF InOrder
<1>4. \A i : InSortOrder(i)' <=> InSortOrder(i)
  BY <1>1, <1>2 DEF InSortOrder
<1>5. \A i : Got(i)' = Got(i) /\ (FirstGapUnpadded(i)' <=> FirstGapUnpadded(i))
  BY DEF Got, FirstGapUnpadded
<1>6. \A depth : LinksDown(depth)' <=> LinksDown(depth)
  BY DEF LinksDown
<1> QED BY <1>1, <1>3, <1>4, <1>5, <1>6

(* A step that leaves the list of one item as it is. *)
Kept(i) ==
    /\ Of(i)' = Of(i)
    /\ first'[i] = first[i]
    /\ \A p \in Of(i) : packet'[p] = packet[p] /\ next'[p] = next[p]

LEMMA KeptFacts ==
    ASSUME IInv, NEW i \in Items, Kept(i)
    PROVE  /\ InOrder(Of(i))' <=> InOrder(Of(i))
           /\ InSortOrder(i)' <=> InSortOrder(i)
           /\ Got(i)' = Got(i)
           /\ FirstGapUnpadded(i)' <=> FirstGapUnpadded(i)
<1>1. Of(i)' = Of(i) /\ \A p \in Of(i) : packet'[p] = packet[p] /\ next'[p] = next[p]
  BY DEF Kept
<1>2. \A p \in Of(i) : next[p] # 0 => next[p] \in Of(i)
  BY DEF IInv, LinkInv, Of
<1>3. \A p, q \in Of(i) : Lt(p, q)' <=> Lt(p, q)
  BY <1>1 DEF Lt
<1>4. InOrder(Of(i))' <=> InOrder(Of(i))
  BY <1>1 DEF InOrder
<1>5. InSortOrder(i)' <=> InSortOrder(i)
  <2>1. /\ \A p \in Of(i) : next'[p] # 0 => next'[p] \in Of(i)
        /\ first'[i] = first[i] /\ (first[i] # 0 => first[i] \in Of(i))
    BY <1>1, <1>2 DEF Kept, IInv, LinkInv
  <2> HIDE DEF Of
  <2> QED BY <1>1, <1>2, <1>3, <2>1 DEF InSortOrder
<1>6. Got(i) = {packet[p].no : p \in Of(i)} /\ Got(i)' = {packet'[p].no : p \in Of(i)'}
  BY DEF Got, Of, Received
<1>7. Got(i)' = Got(i)
  BY <1>1, <1>6
<1> QED BY <1>4, <1>5, <1>7 DEF FirstGapUnpadded

LEMMA WrittenKept ==
    ASSUME IInv, NEW i \in Items, NEW g, ipc[i] = "write", Kept(i),
           prev'[i] = prev[i], cur'[i] = cur[i], file'[g] = file[g], Written(i, g)
    PROVE  Written(i, g)'
<1>1. Of(i)' = Of(i) /\ \A p \in Of(i) : packet'[p] = packet[p] /\ next'[p] = next[p]
  BY DEF Kept
<1>2. \A p, q \in Of(i) : Lt(p, q)' <=> Lt(p, q)
  BY <1>1 DEF Lt
<1>3. PICK p : p = prev[i]
  OBVIOUS
<1>4. CASE p = 0
  BY <1>3, <1>4 DEF Written, Kept
<1>5. CASE p # 0
  <2>1. p \in Of(i)
    BY <1>3, <1>5 DEF IInv, LinkInv
  <2>2. UpTo(i, p)' = UpTo(i, p)
    <3> HIDE DEF Of
    <3> QED BY <1>1, <1>2, <2>1 DEF UpTo
  <2>3. NumbersUpTo(i, p)' = NumbersUpTo(i, p)
    <3>1. \A q \in UpTo(i, p) : packet'[q].no = packet[q].no
      BY <1>1 DEF UpTo
    <3> HIDE DEF UpTo
    <3> QED BY <2>2, <3>1 DEF NumbersUpTo
  <2>4. NumbersUpTo(i, prev[i])' = NumbersUpTo(i, prev[i])
    <3>1. NumbersUpTo(i, prev[i])' = NumbersUpTo(i, p)'
      BY <1>3 DEF NumbersUpTo, UpTo, Lt
    <3> QED BY <1>3, <2>3, <3>1
  <2>5. Numbers(g)' = Numbers(g)
    BY DEF Numbers
  <2> QED BY <1>1, <1>3, <1>5, <2>1, <2>4, <2>5 DEF Written
<1> QED BY <1>4, <1>5

(* A step that leaves the lists, the file and the place of its thread alone *)
(* keeps what is said of an item's file.                                    *)
LEMMA WriteInvFrame ==
    ASSUME IInv, UNCHANGED <<packet, first, next, late, prev, cur, file>>,
           \A i \in Items : ipc'[i] = "write" => ipc[i] = "write" /\ image'[i] = image[i]
    PROVE  WriteInv'
<1>1. \A i, g : Written(i, g)' <=> Written(i, g)
  <2>1. \A i, p : NumbersUpTo(i, p)' = NumbersUpTo(i, p)
    BY DataFrame DEF NumbersUpTo, UpTo, Lt
  <2>2. \A g : Numbers(g)' = Numbers(g)
    BY DEF Numbers
  <2> SUFFICES ASSUME NEW i, NEW g PROVE Written(i, g)' <=> Written(i, g)
    OBVIOUS
  <2>3. PICK p : p = prev[i]
    OBVIOUS
  <2>4. NumbersUpTo(i, p)' = NumbersUpTo(i, p)
    BY <2>1
  <2>5. NumbersUpTo(i, prev[i])' = NumbersUpTo(i, prev[i])
    BY <2>3, <2>4 DEF NumbersUpTo, UpTo, Lt, Of
  <2> QED BY <2>2, <2>5 DEF Written
<1>2. WriteInv'
  <2> SUFFICES ASSUME NEW i \in Items, ipc'[i] = "write", ~late'[i] PROVE Written(i, image[i])'
    BY DEF WriteInv
  <2>1. ipc[i] = "write" /\ ~late[i] /\ image'[i] = image[i]
    OBVIOUS
  <2>2. PICK g : g = image[i]
    OBVIOUS
  <2>3. Written(i, g)'
    BY <1>1, <2>1, <2>2 DEF IInv, WriteInv
  <2> QED BY <2>1, <2>2, <2>3 DEF Written, Numbers
<1> QED BY <1>2

LEMMA WritingFrame ==
    ASSUME IInv, UNCHANGED <<packet, first, next, late, prev, cur, file>>,
           \A i \in Items : ipc'[i] = "write" <=> ipc[i] = "write",
           \A i \in Items : ipc[i] = "write" => image'[i] = image[i]
    PROVE  WriteInv' /\ EntriesRight'
<1> SUFFICES EntriesRight'
  BY WriteInvFrame
<1> SUFFICES ASSUME NEW g \in Images, NEW k \in DOMAIN file[g], NEW i \in Items,
                    file[g][k].item = i, ~late[i]
             PROVE  EntryRight(g, k, i)'
  BY DEF EntriesRight
<1>1. Got(i)' = Got(i) /\ (FirstGapUnpadded(i)' <=> FirstGapUnpadded(i)) /\ Numbers(g)' = Numbers(g)
  BY DataFrame DEF Numbers
<1>2. EntryRight(g, k, i)
  BY DEF IInv, EntriesRight
<1> QED BY <1>1, <1>2 DEF EntryRight
-----------------------------------------------------------------------------
(***************************************************************************)
(* makeImageData.                                                          *)
(***************************************************************************)
LEMMA FindItemKeepsIInv ==
    ASSUME IInv, NEW g \in Images, NEW no \in Sequences, FindItem(g, no)
    PROVE  IInv'
<1>1. /\ rpc = "idle" /\ rpc' = "append" /\ rNo' = no /\ Len(packet) < MaxPackets
      /\ UNCHANGED <<packet, first, dataEnd, next, late, freed, prev, cur, made, file, signals, dpc,
                     dCur, dPacket>>
  BY DEF FindItem, dataVars, fileVars, delVars
<1>2. LinkInv' => DepthInv'
  BY <1>1 DEF IInv, DepthInv, LinksDown, FreedBefore
<1>3. CASE Found(g) # {} /\ rItem' \in Found(g) /\ UNCHANGED <<image, status, ipc>>
  <2>1. rItem' \in Items /\ rItem' <= Len(image)
    BY <1>3, BasicFacts DEF Found, Linked, IInv, LifeInv
  <2>2. rItem' \in 0..MaxItems
    BY <2>1, ConstantsAssumption DEF Items
  <2>3. TypeOK'
    BY <1>1, <1>3, <2>2 DEF IInv, TypeOK
  <2>4. LifeInv'
    BY <1>1, <1>3, <2>1 DEF IInv, LifeInv, Received
  <2>5. WriterInv' /\ LinkInv' /\ FreeInv'
    BY <1>1, <1>3 DEF IInv, WriterInv, FirstOf, LinkInv, FreeInv, Linked, Of, Received
  <2>6. SleepInv' /\ SortedInv' /\ WriteInv' /\ EntriesRight'
    <3>1. SleepInv' /\ SortedInv'
      BY <1>1, <1>3, DataFrame DEF IInv, SleepInv, SortedInv
    <3>2. WriteInv' /\ EntriesRight'
      BY <1>1, <1>3, WritingFrame
    <3> QED BY <3>1, <3>2
  <2> QED BY <1>2, <2>3, <2>4, <2>5, <2>6 DEF IInv
<1>4. CASE /\ Found(g) = {}
           /\ Len(image) < MaxItems
           /\ rItem' = Len(image) + 1
           /\ image' = Append(image, g)
           /\ status' = [status EXCEPT ![rItem'] = "START"]
           /\ ipc' = [ipc EXCEPT ![rItem'] = "sleep"]
  <2> DEFINE n == Len(image) + 1
  <2>1. /\ n \in Items /\ n \in Nat /\ rItem' = n /\ Len(image) \in Nat
        /\ image \in Seq(Images)
    <3>1. Len(image) \in Nat /\ image \in Seq(Images) /\ MaxItems \in Nat /\ Len(image) < MaxItems
      BY <1>4, ConstantsAssumption DEF IInv, TypeOK
    <3> QED BY <1>4, <3>1 DEF Items
  <2>2. /\ image' \in Seq(Images) /\ Len(image') = n /\ image'[n] = g
        /\ \A i \in 1..Len(image) : image'[i] = image[i]
    BY <1>4, <2>1
  <2> HIDE DEF n
  <2>3. /\ \A i \in Items : status'[i] = IF i = n THEN "START" ELSE status[i]
        /\ \A i \in Items : ipc'[i] = IF i = n THEN "sleep" ELSE ipc[i]
    BY <1>4, <2>1 DEF IInv, TypeOK
  <2>4. \A i \in Items : i <= Len(image) => i # n /\ i \in 1..Len(image) /\ image'[i] = image[i] /\ i <= n
    BY <2>1, <2>2, BasicFacts DEF n
  <2>5. \A i \in Items : i <= n /\ i # n => i <= Len(image)
    BY <2>1, BasicFacts DEF n
  <2>6. status[n] = "NONE" /\ ipc[n] = "none" /\ ~(n <= Len(image))
    BY <2>1, <2>4 DEF IInv, LifeInv, n
  <2>7. Received' = Received /\ \A i : Of(i)' = Of(i)
    BY <1>1 DEF Received, Of
  <2>8. Of(n) = {}
    BY <2>6 DEF IInv, LifeInv, Of
  <2>9. TypeOK'
    <3>1. rItem' \in 0..MaxItems /\ Len(image') <= MaxItems
      BY <1>4, <2>1, <2>2, ConstantsAssumption DEF Items
    <3> QED BY <1>1, <1>4, <2>2, <3>1 DEF IInv, TypeOK
  <2>10. LifeInv'
    <3>1. ASSUME NEW i \in Items
          PROVE  /\ status'[i] = "NONE" <=> i > Len(image')
                 /\ status'[i] = "NONE" <=> ipc'[i] = "none"
                 /\ status'[i] = "START" <=> ipc'[i] \in {"sleep", "check", "write", "exit"}
      <4>1. i > Len(image') <=> i > Len(image) /\ i # n
        BY <2>1, <2>2, BasicFacts DEF n
      <4> QED BY <2>1, <2>3, <4>1 DEF IInv, LifeInv
    <3>2. ASSUME NEW i \in Items, NEW j \in Items, i < j, j <= Len(image'), image'[i] = image'[j]
          PROVE  status'[i] = "FREED"
      <4>1. i \in Nat /\ j \in Nat /\ i <= Len(image) /\ i # n
        BY <2>1, <2>2, <3>2, BasicFacts DEF n
      <4>2. CASE j = n
        <5>1. image[i] = g
          BY <2>2, <2>4, <3>2, <4>1, <4>2
        <5>2. status[i] \notin {"START", "EXIT", "NONE"}
          BY <1>4, <4>1, <5>1 DEF Found, Linked, IInv, LifeInv
        <5> QED BY <2>3, <4>1, <5>2 DEF IInv, TypeOK
      <4>3. CASE j # n
        BY <2>2, <2>3, <2>4, <2>5, <3>2, <4>1, <4>3 DEF IInv, LifeInv
      <4> QED BY <4>2, <4>3
    <3>3. \A p \in Received : packet[p].item <= Len(image')
      BY <2>2, <2>4, BasicFacts DEF IInv, LifeInv
    <3> QED BY <1>1, <2>1, <2>2, <2>7, <3>1, <3>2, <3>3, BasicFacts DEF LifeInv
  <2>11. ASSUME NEW i, NEW h, FirstOf(i, h) PROVE FirstOf(i, h)'
    <3>1. i \in Items /\ i <= Len(image) /\ image'[i] = image[i] /\ i <= Len(image')
      BY <2>2, <2>4, <2>11 DEF FirstOf
    <3>2. \A j \in 1..i - 1 : j \in 1..Len(image) /\ image'[j] = image[j]
      <4>1. i \in Nat
        BY <3>1, BasicFacts
      <4> QED BY <2>1, <2>2, <3>1, <4>1
    <3> QED BY <2>11, <3>1, <3>2 DEF FirstOf
  <2>12. WriterInv'
    <3>1. \A i \in Items : ipc'[i] \in {"write", "exit", "signal", "ended"} =>
             ipc[i] = ipc'[i] /\ image'[i] = image[i]
      <4>1. ASSUME NEW i \in Items, ipc'[i] \in {"write", "exit", "signal", "ended"}
            PROVE  ipc[i] = ipc'[i] /\ i <= Len(image)
        <5>1. ipc[i] = ipc'[i] /\ ipc[i] # "none"
          BY <2>3, <4>1
        <5>2. ~(i > Len(image))
          BY <5>1 DEF IInv, LifeInv
        <5> QED BY <2>1, <5>1, <5>2, BasicFacts
      <4> QED BY <2>4, <4>1
    <3>2. \A i \in Items : ipc'[i] = ipc[i] \/ ipc[i] = "none"
      BY <2>3, <2>6
    <3>3. \A i \in Items : ipc'[i] \in {"none", "sleep", "check"} => ipc[i] \in {"none", "sleep", "check"}
      BY <3>2
    <3>4. ASSUME NEW h \in Images, NEW k \in DOMAIN file'[h]
          PROVE  /\ FirstOf(file[h][k].item, h)'
                 /\ ipc'[file'[h][k].item] \notin {"none", "sleep", "check"}
      <4>1. FirstOf(file[h][k].item, h) /\ ipc[file[h][k].item] \notin {"none", "sleep", "check"}
        BY <1>1 DEF IInv, WriterInv
      <4>2. file[h][k].item \in Items
        BY <4>1 DEF FirstOf
      <4> QED BY <1>1, <2>11, <3>3, <4>1, <4>2
    <3>5. ASSUME NEW i \in Items, ipc'[i] = "write" PROVE FirstOf(i, image[i])'
      <4>1. FirstOf(i, image[i]) /\ image'[i] = image[i]
        BY <3>1, <3>5 DEF IInv, WriterInv
      <4>2. PICK h : h = image[i]
        OBVIOUS
      <4>3. FirstOf(i, h)'
        BY <2>11, <4>1, <4>2
      <4> QED BY <4>1, <4>2, <4>3 DEF FirstOf
    <3> QED BY <1>1, <3>1, <3>4, <3>5 DEF IInv, WriterInv
  <2>13. LinkInv'
    <3>1. \A i \in Items : ipc'[i] = "write" => ipc[i] = "write"
      BY <2>3
    <3> QED BY <1>1, <2>7, <3>1 DEF IInv, LinkInv
  <2>14. FreeInv'
    <3>1. \A i \in Items : status[i] \in {"START", "EXIT", "FREED"} => status'[i] = status[i]
      BY <2>3, <2>6
    <3>2. ASSUME NEW p \in freed
          PROVE  /\ p \in Received
                 /\ \/ status'[packet[p].item] = "FREED"
                    \/ status'[packet[p].item] = "EXIT" /\ dpc = "data" /\ dCur = packet[p].item
      BY <3>1, BasicFacts DEF IInv, FreeInv
    <3>3. Linked \subseteq Linked'
      BY <3>1 DEF Linked
    <3>4. dpc = "data" => dCur \in Items /\ status'[dCur] = "EXIT"
      BY <3>1 DEF IInv, FreeInv
    <3> QED BY <1>1, <2>7, <3>2, <3>3, <3>4 DEF IInv, FreeInv
  <2>15. SleepInv'
    <3>1. \A i \in Items : ipc'[i] \in {"none", "sleep"} => ipc[i] \in {"none", "sleep"}
      BY <2>3, <2>6
    <3> QED BY <1>1, <3>1, DataFrame DEF IInv, SleepInv
  <2>16. SortedInv'
    <3>1. \A i \in Items : ipc'[i] \in {"check", "write"} => ipc[i] = ipc'[i]
      BY <2>3
    <3> QED BY <1>1, <3>1, DataFrame DEF IInv, SortedInv
  <2>17. WriteInv' /\ EntriesRight'
    <3>1. ASSUME NEW i \in Items PROVE ipc'[i] = "write" <=> ipc[i] = "write"
      BY <2>3, <2>6
    <3>2. ASSUME NEW i \in Items, ipc[i] = "write" PROVE image'[i] = image[i]
      BY <2>4, <3>2 DEF IInv, WriterInv, FirstOf
    <3> QED BY <1>1, <3>1, <3>2, WritingFrame
  <2> QED BY <1>2, <2>9, <2>10, <2>12, <2>13, <2>14, <2>15, <2>16, <2>17 DEF IInv
<1> QED BY <1>3, <1>4 DEF FindItem, listVars

LEMMA AddPacketKeepsIInv ==
    ASSUME IInv, AddPacket
    PROVE  IInv'
<1>0. PICK r, p, e : r = rItem /\ p = Len(packet) + 1 /\ e = dataEnd[rItem]
  OBVIOUS
<1>1. /\ rpc = "append" /\ rpc' = "idle"
      /\ packet' = Append(packet, [item |-> r, no |-> rNo])
      /\ dataEnd' = [dataEnd EXCEPT ![r] = p]
      /\ late' = [late EXCEPT ![r] = ipc[r] # "sleep"]
      /\ UNCHANGED <<image, status, freed, rItem, rNo, ipc, prev, cur, made, file, signals, dpc,
                     dCur, dPacket>>
      /\ e = 0 => first' = [first EXCEPT ![r] = p] /\ next' = next
      /\ e # 0 => first' = first /\ next' = [next EXCEPT ![e] = p]
  BY <1>0 DEF AddPacket, listVars, imageVars, fileVars, delVars
<1>2. /\ r \in Items /\ r <= Len(image) /\ Len(packet) < MaxPackets /\ rNo \in Sequences
  BY <1>0, <1>1 DEF IInv, LifeInv, TypeOK
<1>3. /\ Len(packet) \in Nat /\ p \in Nat /\ p \in Packets /\ p <= MaxPackets /\ p # 0
      /\ Received = 1..Len(packet) /\ p \notin Received /\ \A q \in Received : q < p
      /\ packet' \in Seq([item : Items, no : Sequences]) /\ Len(packet') = p
      /\ packet'[p] = [item |-> r, no |-> rNo]
      /\ \A q \in Received : packet'[q] = packet[q]
      /\ Received' = Received \cup {p}
  <2> DEFINE R == [item : Items, no : Sequences]
             x == [item |-> r, no |-> rNo]
  <2>1. packet \in Seq(R) /\ x \in R /\ Len(packet) \in Nat /\ packet' = Append(packet, x)
    BY <1>1, <1>2 DEF IInv, TypeOK
  <2> HIDE DEF R, x
  <2>2. /\ packet' \in Seq(R) /\ Len(packet') = p /\ packet'[p] = x
        /\ Received = 1..Len(packet) /\ Received' = 1..p
        /\ \A q \in 1..Len(packet) : packet'[q] = packet[q]
    BY <1>0, <2>1 DEF Received
  <2>3. p \in Nat /\ p <= MaxPackets /\ p # 0 /\ p \in Packets
    BY <1>0, <1>2, <2>1, ConstantsAssumption DEF Packets
  <2>4. p \notin Received /\ (\A q \in Received : q < p) /\ Received' = Received \cup {p}
    BY <1>0, <2>1, <2>2
  <2> QED BY <1>0, <2>1, <2>2, <2>3, <2>4 DEF R, x
<1>4. /\ \A j : j # r => Of(j)' = Of(j)
      /\ Of(r)' = Of(r) \cup {p}
  BY <1>3 DEF Of
<1>5. /\ e \in Of(r) \cup {0}
      /\ e = 0 => Of(r) = {} /\ first[r] = 0
      /\ e # 0 => e \in Packets /\ e \in Received /\ packet[e].item = r
      /\ e # p
  <2>1. e \in Of(r) \cup {0} /\ (e = 0 => Of(r) = {} /\ first[r] = 0)
    BY <1>0, <1>2 DEF IInv, LinkInv
  <2> QED BY <1>2, <1>3, <2>1, BasicFacts DEF Of
<1>6. /\ \A j \in Items : /\ first'[j] = IF j = r /\ e = 0 THEN p ELSE first[j]
                          /\ dataEnd'[j] = IF j = r THEN p ELSE dataEnd[j]
                          /\ late'[j] = IF j = r THEN ipc[r] # "sleep" ELSE late[j]
      /\ \A q \in Packets : next'[q] = IF e # 0 /\ q = e THEN p ELSE next[q]
  <2>1. first \in [Items -> 0..MaxPackets] /\ dataEnd \in [Items -> 0..MaxPackets]
        /\ late \in [Items -> BOOLEAN] /\ next \in [Packets -> 0..MaxPackets]
    BY DEF IInv, TypeOK
  <2> QED BY <1>1, <2>1
<1>7. next[p] = 0 /\ next'[p] = 0
  BY <1>3, <1>5, <1>6 DEF IInv, LinkInv
<1>8. ASSUME NEW j \in Items, j # r PROVE Kept(j) /\ late'[j] = late[j] /\ dataEnd'[j] = dataEnd[j]
  <2>1. ASSUME NEW q \in Of(j) PROVE packet'[q] = packet[q] /\ next'[q] = next[q]
    <3>1. q \in Received /\ q \in Packets /\ packet[q].item = j
      BY BasicFacts DEF Of
    <3>2. e # 0 => q # e
      BY <1>5, <1>8, <3>1
    <3> QED BY <1>3, <1>6, <3>1, <3>2
  <2> QED BY <1>4, <1>6, <1>8, <2>1 DEF Kept
<1>9. \A j \in Items : Of(j) \subseteq Of(j)'
  BY <1>4
<1>10. TypeOK'
  <2>1. p \in 0..MaxPackets
    BY <1>3, ConstantsAssumption
  <2>2. /\ first' \in [Items -> 0..MaxPackets] /\ dataEnd' \in [Items -> 0..MaxPackets]
        /\ next' \in [Packets -> 0..MaxPackets] /\ late' \in [Items -> BOOLEAN]
    <3>1. CASE e = 0
      BY <1>1, <2>1, <3>1 DEF IInv, TypeOK
    <3>2. CASE e # 0
      BY <1>1, <2>1, <3>2 DEF IInv, TypeOK
    <3> QED BY <3>1, <3>2
  <2> QED BY <1>1, <1>3, <2>2 DEF IInv, TypeOK
<1>11. LifeInv'
  <2>1. \A q \in Received' : packet'[q].item <= Len(image)
    BY <1>2, <1>3 DEF IInv, LifeInv
  <2> QED BY <1>1, <2>1 DEF IInv, LifeInv
<1>12. WriterInv'
  BY <1>1 DEF IInv, WriterInv, FirstOf
<1>13. LinkInv'
  <2>1. ASSUME NEW j \in Items
        PROVE  /\ first'[j] # 0 => first'[j] \in Of(j)'
               /\ dataEnd'[j] # 0 => dataEnd'[j] \in Of(j)'
               /\ dataEnd'[j] = 0 => Of(j)' = {}
    <3>1. CASE j = r
      BY <1>3, <1>4, <1>6, <3>1 DEF IInv, LinkInv
    <3>2. CASE j # r
      BY <1>4, <1>6, <3>2 DEF IInv, LinkInv
    <3> QED BY <3>1, <3>2
  <2>2. ASSUME NEW j \in Items, ipc'[j] = "write"
        PROVE  cur'[j] \in Of(j)' \cup {0} /\ prev'[j] \in Of(j)' \cup {0}
    BY <1>1, <1>9, <2>2 DEF IInv, LinkInv
  <2>3. ASSUME NEW q \in Received', next'[q] # 0 PROVE next'[q] \in Of(packet[q].item)'
    <3>1. q \in Received /\ q \in Packets /\ packet'[q] = packet[q] /\ packet[q].item \in Items
      BY <1>3, <1>7, <2>3, BasicFacts
    <3>2. CASE e # 0 /\ q = e
      BY <1>4, <1>5, <1>6, <3>1, <3>2 DEF Of
    <3>3. CASE ~(e # 0 /\ q = e)
      <4>1. next'[q] = next[q]
        BY <1>6, <3>1, <3>3
      <4>2. next[q] \in Of(packet[q].item)
        BY <2>3, <3>1, <4>1 DEF IInv, LinkInv
      <4>3. PICK j \in Items : j = packet[q].item
        BY <3>1
      <4>4. next[q] \in Of(j)'
        BY <1>9, <4>2, <4>3
      <4> QED BY <3>1, <4>1, <4>3, <4>4 DEF Of
    <3> QED BY <3>2, <3>3
  <2>4. \A q \in Packets : q \notin Received' => next'[q] = 0
    BY <1>3, <1>5, <1>6 DEF IInv, LinkInv
  <2> QED BY <2>1, <2>2, <2>3, <2>4 DEF LinkInv
<1>14. FreeInv'
  <2>1. ASSUME dpc = "data", dPacket # 0 PROVE dPacket = first'[dCur]
    <3>1. dCur \in Items /\ dPacket = first[dCur]
      BY <2>1 DEF IInv, FreeInv
    <3> QED BY <1>5, <1>6, <2>1, <3>1
  <2>2. \A q \in freed : q \in Received' /\ packet'[q] = packet[q]
    BY <1>3 DEF IInv, FreeInv
  <2> QED BY <1>1, <2>1, <2>2 DEF IInv, FreeInv, Linked
<1>15. DepthInv'
  <2>1. PICK depth \in [Packets -> Nat] : LinksDown(depth) /\ FreedBefore(depth)
    BY DEF IInv, DepthInv
  <2> DEFINE d == [q \in Packets |-> IF q = p THEN 0 ELSE depth[q] + 1]
  <2>2. d \in [Packets -> Nat] /\ \A q \in Packets : d[q] = IF q = p THEN 0 ELSE depth[q] + 1
    OBVIOUS
  <2> HIDE DEF d
  <2>3. ASSUME NEW q \in Packets, next'[q] # 0 PROVE d[next'[q]] < d[q]
    <3>1. q # p
      BY <1>7, <2>3
    <3>2. depth[q] \in Nat /\ d[q] = depth[q] + 1
      BY <2>2, <3>1
    <3>3. CASE next'[q] = p
      BY <1>3, <2>2, <3>2, <3>3
    <3>4. CASE next'[q] # p
      <4>1. next'[q] = next[q]
        BY <1>6, <3>4
      <4>2. next[q] \in Packets
        BY <2>3, <4>1, ConstantsAssumption DEF IInv, TypeOK, Packets
      <4>3. depth[next[q]] < depth[q] /\ depth[next[q]] \in Nat
        BY <2>1, <2>3, <4>1, <4>2 DEF LinksDown
      <4> QED BY <2>2, <3>2, <3>4, <4>1, <4>2, <4>3
    <3> QED BY <3>3, <3>4
  <2>4. LinksDown(d)'
    BY <1>10, <2>2, <2>3 DEF LinksDown, TypeOK
  <2>5. FreedBefore(d)'
    <3> SUFFICES ASSUME dpc = "data", dPacket # 0, NEW q \in freed, packet'[q].item = dCur
                 PROVE  d[dPacket] < d[q]
      BY <1>1 DEF FreedBefore
    <3>1. q \in Received /\ q \in Packets /\ packet'[q] = packet[q] /\ q # p
      BY <1>3, BasicFacts DEF IInv, FreeInv
    <3>2. dPacket \in Packets /\ dPacket # p
      <4>1. dCur \in Items /\ dPacket = first[dCur]
        BY DEF IInv, FreeInv
      <4>2. dPacket \in Of(dCur)
        BY <4>1 DEF IInv, LinkInv
      <4> QED BY <1>3, <4>1, <4>2, BasicFacts DEF Of
    <3>3. depth[dPacket] < depth[q]
      BY <2>1, <3>1 DEF FreedBefore
    <3>4. depth[dPacket] \in Nat /\ depth[q] \in Nat
      BY <3>1, <3>2
    <3> QED BY <2>2, <3>1, <3>2, <3>3, <3>4
  <2> QED BY <2>2, <2>4, <2>5 DEF DepthInv
<1>16. SleepInv'
  <2> SUFFICES ASSUME NEW j \in Items, ipc[j] \in {"none", "sleep"}
               PROVE  /\ ~late'[j] /\ InOrder(Of(j))'
                      /\ \A q \in Of(j)' : first'[j] # 0 /\ first'[j] <= q /\ q <= dataEnd'[j]
    BY <1>1 DEF SleepInv
  <2>1. CASE j # r
    <3>1. Kept(j) /\ late'[j] = late[j] /\ dataEnd'[j] = dataEnd[j]
      BY <1>8, <2>1
    <3>2. Of(j)' = Of(j) /\ first'[j] = first[j]
      BY <3>1 DEF Kept
    <3> QED BY <3>1, <3>2, KeptFacts DEF IInv, SleepInv
  <2>2. CASE j = r
    <3>1. ~late'[r]
      <4>1. ipc[r] # "none"
        BY <1>2, BasicFacts DEF IInv, LifeInv
      <4> QED BY <1>2, <1>6, <2>2, <4>1
    <3>2. /\ InOrder(Of(r))
          /\ \A q \in Of(r) : first[r] # 0 /\ first[r] <= q /\ q <= e
      BY <1>0, <2>2 DEF IInv, SleepInv
    <3>3. \A q \in Of(r) : q \in Nat /\ q < p /\ q \in Packets /\ q \in Received
      BY <1>2, <1>3, BasicFacts
    <3>4. \A q \in Of(r) : e # 0 /\ e \in Of(r)
      BY <1>5
    <3>5. ASSUME NEW q \in Of(r)', next'[q] # 0 PROVE next'[q] \in Of(r)' /\ q < next'[q]
      <4>1. q \in Of(r)
        BY <1>4, <1>7, <3>5
      <4> QED BY <1>4, <1>6, <3>2, <3>3, <3>5, <4>1 DEF InOrder
    <3>6. ASSUME NEW q \in Of(r)', NEW t \in Of(r)', q < t PROVE next'[q] # 0 /\ next'[q] <= t
      <4>1. q \in Of(r) /\ e \in Of(r) /\ e # 0
        BY <1>3, <1>4, <3>3, <3>4, <3>6
      <4>2. CASE q = e
        <5>1. t = p
          BY <1>4, <3>2, <3>3, <3>6, <4>1, <4>2
        <5> QED BY <1>3, <1>6, <3>3, <4>1, <4>2, <5>1
      <4>3. CASE q # e
        <5>1. next'[q] = next[q]
          BY <1>6, <3>3, <4>1, <4>3
        <5>2. q < e
          BY <3>2, <3>3, <4>1, <4>3
        <5>3. next[q] # 0 /\ next[q] <= e /\ next[q] \in Of(r)
          BY <3>2, <4>1, <5>2 DEF InOrder
        <5>4. CASE t = p
          BY <1>3, <3>3, <5>1, <5>3, <5>4
        <5>5. CASE t # p
          BY <1>4, <3>2, <3>6, <4>1, <5>1, <5>5 DEF InOrder
        <5> QED BY <5>4, <5>5
      <4> QED BY <4>2, <4>3
    <3>7. InOrder(Of(r))'
      BY <3>5, <3>6 DEF InOrder
    <3>8. ASSUME NEW q \in Of(r)' PROVE first'[r] # 0 /\ first'[r] <= q /\ q <= dataEnd'[r]
      <4>1. dataEnd'[r] = p
        BY <1>2, <1>6
      <4>2. CASE e = 0
        <5>1. q = p /\ first'[r] = p
          BY <1>2, <1>4, <1>5, <1>6, <4>2
        <5> QED BY <1>3, <4>1, <5>1
      <4>3. CASE e # 0
        <5>1. first'[r] = first[r] /\ e \in Of(r)
          BY <1>2, <1>5, <1>6, <4>3
        <5>2. first[r] # 0 /\ first[r] \in Of(r)
          BY <1>2, <3>2, <5>1 DEF IInv, LinkInv
        <5> QED BY <1>3, <1>4, <3>2, <3>3, <4>1, <5>1, <5>2
      <4> QED BY <4>2, <4>3
    <3> QED BY <2>2, <3>1, <3>7, <3>8
  <2> QED BY <2>1, <2>2
<1>17. ASSUME NEW j \in Items, ~late'[j], ipc[j] # "sleep" PROVE j # r
  BY <1>6, <1>17
<1>18. SortedInv'
  <2> SUFFICES ASSUME NEW j \in Items, ipc[j] \in {"check", "write"}, ~late'[j]
               PROVE  InSortOrder(j)'
    BY <1>1 DEF SortedInv
  <2>1. Kept(j) /\ ~late[j]
    BY <1>8, <1>17
  <2> QED BY <2>1, KeptFacts DEF IInv, SortedInv
<1>19. WriteInv'
  <2> SUFFICES ASSUME NEW j \in Items, ipc[j] = "write", ~late'[j]
               PROVE  Written(j, image[j])'
    BY <1>1 DEF WriteInv
  <2>1. Kept(j) /\ ~late[j]
    BY <1>8, <1>17
  <2>2. PICK g : g = image[j]
    OBVIOUS
  <2>3. Written(j, g)'
    BY <1>1, <2>1, <2>2, WrittenKept DEF IInv, WriteInv
  <2> QED BY <1>1, <2>2, <2>3, ZenonT(60) DEF Written, Numbers
<1>20. EntriesRight'
  <2> SUFFICES ASSUME NEW g \in Images, NEW k \in DOMAIN file[g], NEW j \in Items,
                      file[g][k].item = j, ~late'[j]
               PROVE  EntryRight(g, k, j)'
    BY <1>1 DEF EntriesRight
  <2>1. ipc[j] # "sleep"
    BY DEF IInv, WriterInv
  <2>2. Kept(j) /\ ~late[j]
    BY <1>8, <1>17, <2>1
  <2>3. /\ Got(j)' = Got(j) /\ (FirstGapUnpadded(j)' <=> FirstGapUnpadded(j))
        /\ Numbers(g)' = Numbers(g)
    BY <1>1, <2>2, KeptFacts DEF Numbers
  <2>4. EntryRight(g, k, j)
    BY <2>2 DEF IInv, EntriesRight
  <2> QED BY <1>1, <2>3, <2>4 DEF EntryRight
<1> QED BY <1>10, <1>11, <1>12, <1>13, <1>14, <1>15, <1>16, <1>18, <1>19, <1>20 DEF IInv
-----------------------------------------------------------------------------
(***************************************************************************)
(* makeOneImageFileOneAddr and delItemFromImageOfNode, but for the sort,   *)
(* the file and the frees: they leave the lists as they are.               *)
(***************************************************************************)
LEMMA CloseFileKeepsIInv ==
    ASSUME IInv, NEW i \in Items, CloseFile(i)
    PROVE  IInv'
<1>1. /\ ipc[i] = "write" /\ cur[i] = 0 /\ ipc' = [ipc EXCEPT ![i] = "exit"]
      /\ UNCHANGED <<packet, image, status, first, dataEnd, next, freed, late, rpc, rItem, rNo,
                     prev, cur, made, file, signals, dpc, dCur, dPacket>>
  BY DEF CloseFile, listVars, dataVars, recvVars, fileVars, delVars
<1>2. \A j \in Items : ipc'[j] = IF j = i THEN "exit" ELSE ipc[j]
  BY <1>1 DEF IInv, TypeOK
<1>3. TypeOK'
  BY <1>1 DEF IInv, TypeOK
<1>4. LifeInv' /\ WriterInv'
  BY <1>1, <1>2, DataFrame DEF IInv, LifeInv, WriterInv, FirstOf
<1>5. LinkInv' /\ FreeInv'
  BY <1>1, <1>2, DataFrame DEF IInv, LinkInv, FreeInv, Linked
<1>6. DepthInv'
  BY <1>1, DataFrame DEF IInv, DepthInv, FreedBefore
<1>7. SleepInv' /\ SortedInv'
  BY <1>1, <1>2, DataFrame DEF IInv, SleepInv, SortedInv
<1>8. WriteInv'
  BY <1>1, <1>2, WriteInvFrame
<1>9. EntriesRight'
  <2> SUFFICES ASSUME NEW g \in Images, NEW k \in DOMAIN file[g], NEW j \in Items,
                      file[g][k].item = j, ~late[j]
               PROVE  EntryRight(g, k, j)'
    BY <1>1 DEF EntriesRight
  <2>1. Got(j)' = Got(j) /\ (FirstGapUnpadded(j)' <=> FirstGapUnpadded(j)) /\ Numbers(g)' = Numbers(g)
    BY <1>1, DataFrame DEF Numbers
  <2>2. EntryRight(g, k, j)
    BY DEF IInv, EntriesRight
  <2>3. CASE j # i
    BY <1>1, <1>2, <2>1, <2>2, <2>3 DEF EntryRight
  <2>4. CASE j = i
    <3>1. g = image[i]
      BY <2>4 DEF IInv, WriterInv, FirstOf
    <3>2. Written(i, g) /\ file[g] # <<>>
      BY <1>1, <2>4, <3>1 DEF IInv, WriteInv
    <3>3. Got(i) = {packet[p].no : p \in Of(i)}
      BY DEF Got, Of, Received
    <3>4. UpTo(i, prev[i]) = Of(i)
      <4>1. prev[i] # 0 /\ next[prev[i]] = 0
        BY <1>1, <3>2 DEF Written
      <4>2. prev[i] \in Of(i)
        BY <1>1, <4>1 DEF IInv, LinkInv
      <4>3. InSortOrder(i)
        BY <1>1, <2>4 DEF IInv, SortedInv
      <4>4. \A p \in Of(i) : p = prev[i] \/ Lt(p, prev[i])
        BY <4>1, <4>2, <4>3, BasicFacts, LtFacts DEF InSortOrder
      <4> QED BY <4>4 DEF UpTo
    <3>5. Got(i) = Numbers(g)
      BY <1>1, <3>2, <3>3, <3>4 DEF Written, NumbersUpTo
    <3> QED BY <1>1, <2>1, <2>2, <2>4, <3>5 DEF EntryRight
  <2> QED BY <2>3, <2>4
<1> QED BY <1>3, <1>4, <1>5, <1>6, <1>7, <1>8, <1>9 DEF IInv

LEMMA ExitKeepsIInv ==
    ASSUME IInv, NEW i \in Items, Exit(i)
    PROVE  IInv'
<1>1. /\ ipc[i] = "exit" /\ ipc' = [ipc EXCEPT ![i] = "signal"]
      /\ status' = [status EXCEPT ![i] = "EXIT"]
      /\ UNCHANGED <<packet, image, first, dataEnd, next, freed, late, rpc, rItem, rNo,
                     prev, cur, made, file, signals, dpc, dCur, dPacket>>
  BY DEF Exit, dataVars, recvVars, fileVars, delVars
<1>2. \A j \in Items : /\ ipc'[j] = IF j = i THEN "signal" ELSE ipc[j]
                       /\ status'[j] = IF j = i THEN "EXIT" ELSE status[j]
  BY <1>1 DEF IInv, TypeOK
<1>3. status[i] = "START"
  BY <1>1 DEF IInv, LifeInv
<1>4. TypeOK'
  BY <1>1 DEF IInv, TypeOK
<1>5. LifeInv' /\ WriterInv'
  BY <1>1, <1>2, <1>3, DataFrame DEF IInv, LifeInv, WriterInv, FirstOf
<1>6. LinkInv'
  BY <1>1, <1>2, DataFrame DEF IInv, LinkInv
<1>7. FreeInv'
  BY <1>1, <1>2, <1>3, BasicFacts, DataFrame DEF IInv, FreeInv, Linked
<1>8. DepthInv'
  BY <1>1, DataFrame DEF IInv, DepthInv, FreedBefore
<1>9. SleepInv' /\ SortedInv'
  BY <1>1, <1>2, DataFrame DEF IInv, SleepInv, SortedInv
<1>10. WriteInv' /\ EntriesRight'
  BY <1>1, <1>2, WritingFrame
<1> QED BY <1>4, <1>5, <1>6, <1>7, <1>8, <1>9, <1>10 DEF IInv

LEMMA SignalDelItemKeepsIInv ==
    ASSUME IInv, NEW i \in Items, SignalDelItem(i)
    PROVE  IInv'
<1>1. /\ ipc[i] = "signal" /\ ipc' = [ipc EXCEPT ![i] = "ended"] /\ signals' = signals + 1
      /\ UNCHANGED <<packet, image, status, first, dataEnd, next, freed, late, rpc, rItem, rNo,
                     prev, cur, made, file, dpc, dCur, dPacket>>
  BY DEF SignalDelItem, listVars, dataVars, recvVars, fileVars, delVars
<1>2. \A j \in Items : ipc'[j] = IF j = i THEN "ended" ELSE ipc[j]
  BY <1>1 DEF IInv, TypeOK
<1>3. TypeOK'
  <2>1. signals' \in Nat
    BY <1>1 DEF IInv, TypeOK
  <2> QED BY <1>1, <2>1 DEF IInv, TypeOK
<1>4. LifeInv' /\ WriterInv'
  BY <1>1, <1>2, DataFrame DEF IInv, LifeInv, WriterInv, FirstOf
<1>5. LinkInv' /\ FreeInv'
  BY <1>1, <1>2, DataFrame DEF IInv, LinkInv, FreeInv, Linked
<1>6. DepthInv'
  BY <1>1, DataFrame DEF IInv, DepthInv, FreedBefore
<1>7. SleepInv' /\ SortedInv'
  BY <1>1, <1>2, DataFrame DEF IInv, SleepInv, SortedInv
<1>8. WriteInv' /\ EntriesRight'
  BY <1>1, <1>2, WritingFrame
<1> QED BY <1>3, <1>4, <1>5, <1>6, <1>7, <1>8 DEF IInv

LEMMA OpenFileKeepsIInv ==
    ASSUME IInv, NEW i \in Items, OpenFile(i)
    PROVE  IInv'
<1>1. /\ ipc[i] = "check"
      /\ UNCHANGED <<packet, image, status, first, dataEnd, next, freed, late, rpc, rItem, rNo,
                     file, signals, dpc, dCur, dPacket>>
  BY DEF OpenFile, listVars, dataVars, recvVars, delVars
<1>2. DepthInv'
  BY <1>1, DataFrame DEF IInv, DepthInv, FreedBefore
<1>3. CASE /\ image[i] \in made
           /\ ipc' = [ipc EXCEPT ![i] = "exit"]
           /\ UNCHANGED <<made, prev, cur>>
  <2>1. \A j \in Items : ipc'[j] = IF j = i THEN "exit" ELSE ipc[j]
    BY <1>3 DEF IInv, TypeOK
  <2>2. TypeOK'
    BY <1>1, <1>3 DEF IInv, TypeOK
  <2>3. LifeInv' /\ WriterInv'
    BY <1>1, <1>3, <2>1, DataFrame DEF IInv, LifeInv, WriterInv, FirstOf
  <2>4. LinkInv' /\ FreeInv'
    BY <1>1, <1>3, <2>1, DataFrame DEF IInv, LinkInv, FreeInv, Linked
  <2>5. SleepInv' /\ SortedInv'
    BY <1>1, <1>3, <2>1, DataFrame DEF IInv, SleepInv, SortedInv
  <2>6. WriteInv' /\ EntriesRight'
    BY <1>1, <1>3, <2>1, WritingFrame
  <2> QED BY <1>2, <2>2, <2>3, <2>4, <2>5, <2>6 DEF IInv
<1>4. CASE /\ image[i] \notin made
           /\ made' = made \cup {image[i]}
           /\ prev' = [prev EXCEPT ![i] = 0]
           /\ cur' = [cur EXCEPT ![i] = first[i]]
           /\ ipc' = [ipc EXCEPT ![i] = "write"]
  <2>1. \A j \in Items : /\ ipc'[j] = IF j = i THEN "write" ELSE ipc[j]
                         /\ prev'[j] = IF j = i THEN 0 ELSE prev[j]
                         /\ cur'[j] = IF j = i THEN first[i] ELSE cur[j]
    BY <1>4 DEF IInv, TypeOK
  <2>2. i <= Len(image) /\ image[i] \in Images
    <3>1. ~(i > Len(image))
      BY <1>1 DEF IInv, LifeInv
    <3> QED BY <3>1, BasicFacts
  <2>3. TypeOK'
    <3>1. 0 \in 0..MaxPackets
      BY ConstantsAssumption
    <3> QED BY <1>1, <1>4, <2>2, <3>1 DEF IInv, TypeOK
  <2>4. FirstOf(i, image[i])
    <3> SUFFICES ASSUME NEW j \in 1..i - 1, image[j] = image[i] PROVE FALSE
      BY <2>2 DEF FirstOf
    <3>1. j \in Items /\ j < i
      BY ConstantsAssumption DEF Items
    <3>2. status[j] = "FREED"
      BY <2>2, <3>1 DEF IInv, LifeInv
    <3>3. ipc[j] \in {"signal", "ended"}
      BY <3>1, <3>2 DEF IInv, LifeInv, TypeOK
    <3> QED BY <1>4, <3>1, <3>3 DEF IInv, WriterInv
  <2>5. \A g \in Images : \A k \in DOMAIN file[g] : file[g][k].item # i
    BY <1>1 DEF IInv, WriterInv
  <2>6. file[image[i]] = <<>>
    <3> DEFINE f == file[image[i]]
    <3> SUFFICES ASSUME f # <<>> PROVE FALSE
      OBVIOUS
    <3>1. 1 \in DOMAIN f
      <4>1. f \in Seq([item : Items, no : Sequences, at : Nat])
        BY <2>2 DEF IInv, TypeOK
      <4> HIDE DEF f
      <4> QED BY <4>1
    <3>2. FirstOf(f[1].item, image[i]) /\ ipc[f[1].item] \notin {"none", "sleep", "check"}
      BY <2>2, <3>1 DEF IInv, WriterInv
    <3>3. f[1].item \in Items /\ image[f[1].item] = image[i]
      BY <3>2 DEF FirstOf
    <3>4. ipc[f[1].item] \in {"write", "exit", "signal", "ended"}
      BY <3>2, <3>3 DEF IInv, TypeOK
    <3> QED BY <1>4, <3>3, <3>4 DEF IInv, WriterInv
  <2>7. LifeInv'
    BY <1>1, <2>1, DataFrame DEF IInv, LifeInv
  <2>8. WriterInv'
    <3>1. \A j, g : FirstOf(j, g)' <=> FirstOf(j, g)
      BY <1>1 DEF FirstOf
    <3>2. ASSUME NEW j \in Items, ipc'[j] = "write" PROVE FirstOf(j, image[j])'
      BY <1>1, <2>1, <2>4, <3>2 DEF IInv, WriterInv, FirstOf
    <3>3. ASSUME NEW g \in Images, NEW k \in DOMAIN file[g]
          PROVE  FirstOf(file[g][k].item, g) /\ ipc'[file[g][k].item] \notin {"none", "sleep", "check"}
      <4>1. FirstOf(file[g][k].item, g) /\ ipc[file[g][k].item] \notin {"none", "sleep", "check"}
        BY DEF IInv, WriterInv
      <4> QED BY <2>1, <4>1 DEF FirstOf
    <3>4. ASSUME NEW g \in Images, NEW k \in DOMAIN file'[g]
          PROVE  FirstOf(file[g][k].item, g)'
      BY <1>1, <3>3 DEF FirstOf
    <3>5. \A j \in Items : ipc'[j] \in {"write", "exit", "signal", "ended"} => image'[j] \in made'
      BY <1>1, <1>4, <2>1 DEF IInv, WriterInv
    <3> QED BY <1>1, <3>2, <3>3, <3>4, <3>5 DEF WriterInv
  <2>9. LinkInv' /\ FreeInv'
    BY <1>1, <2>1, DataFrame DEF IInv, LinkInv, FreeInv, Linked
  <2>10. SleepInv' /\ SortedInv'
    BY <1>1, <2>1, DataFrame DEF IInv, SleepInv, SortedInv
  <2>11. WriteInv'
    <3> SUFFICES ASSUME NEW j \in Items, ipc'[j] = "write", ~late[j] PROVE Written(j, image[j])'
      BY <1>1 DEF WriteInv
    <3>1. CASE j = i
      BY <1>1, <2>1, <2>6, <3>1 DEF Written
    <3>2. CASE j # i
      <4>1. ipc[j] = "write" /\ prev'[j] = prev[j] /\ cur'[j] = cur[j] /\ Written(j, image[j])
        BY <2>1, <3>2 DEF IInv, WriteInv
      <4>2. Kept(j)
        BY <1>1, DataFrame DEF Kept
      <4>3. PICK g : g = image[j]
        OBVIOUS
      <4>4. Written(j, g)'
        BY <1>1, <4>1, <4>2, <4>3, WrittenKept
      <4> QED BY <1>1, <4>3, <4>4 DEF Written, Numbers
    <3> QED BY <3>1, <3>2
  <2>12. EntriesRight'
    <3> SUFFICES ASSUME NEW g \in Images, NEW k \in DOMAIN file[g], NEW j \in Items,
                        file[g][k].item = j, ~late[j]
                 PROVE  EntryRight(g, k, j)'
      BY <1>1 DEF EntriesRight
    <3>1. Got(j)' = Got(j) /\ (FirstGapUnpadded(j)' <=> FirstGapUnpadded(j)) /\ Numbers(g)' = Numbers(g)
      BY <1>1, DataFrame DEF Numbers
    <3>2. EntryRight(g, k, j)
      BY DEF IInv, EntriesRight
    <3>3. ipc'[j] = ipc[j]
      BY <2>1, <2>5
    <3> QED BY <1>1, <3>1, <3>2, <3>3 DEF EntryRight
  <2> QED BY <1>2, <2>3, <2>7, <2>8, <2>9, <2>10, <2>11, <2>12 DEF IInv
<1> QED BY <1>3, <1>4 DEF OpenFile

(* The walk: the next item of the list, if there is one. *)
LEMMA NextItemFacts ==
    ASSUME NEW i \in Nat
    PROVE  /\ NextItem(i) \in Linked \cup {0}
           /\ NextItem(i) \in 0..MaxItems
           /\ NextItem(i) # 0 => i < NextItem(i)
           /\ \A k \in Linked : i < k => NextItem(i) # 0 /\ NextItem(i) <= k
<1> DEFINE here == {k \in Linked : k > i}
<1>1. Linked \in SUBSET Items /\ Items \in SUBSET Nat /\ 0 \notin Items
      /\ \A k \in Items : k \in 0..MaxItems
  BY ConstantsAssumption DEF Linked, Items
<1>2. CASE here = {}
  <2>1. NextItem(i) = 0
    BY <1>2 DEF NextItem
  <2>2. \A k \in Linked : ~(i < k)
    BY <1>1, <1>2
  <2> QED BY <2>1, <2>2, ConstantsAssumption
<1>3. CASE here # {}
  <2>1. \E k \in here : \A m \in here : k <= m
    <3>1. here \in SUBSET Nat
      BY <1>1
    <3> HIDE DEF here
    <3> QED BY <1>3, <3>1, LeastNat
  <2>2. NextItem(i) = CHOOSE k \in here : \A m \in here : k <= m
    BY <1>3 DEF NextItem
  <2>3. NextItem(i) \in here /\ \A m \in here : NextItem(i) <= m
    <3> HIDE DEF here
    <3> QED BY <2>1, <2>2
  <2> QED BY <1>1, <2>3
<1> QED BY <1>2, <1>3

LEMMA WalkKeepsIInv ==
    ASSUME IInv, WaitDelItem \/ Walk \/ WalkEnd
    PROVE  IInv'
<1>1. UNCHANGED <<packet, image, status, first, dataEnd, next, freed, late, rpc, rItem, rNo,
                  ipc, prev, cur, made, file>>
  BY DEF WaitDelItem, Walk, WalkEnd, listVars, dataVars, recvVars, imageVars, fileVars
<1>2. /\ dpc # "data" /\ signals' \in Nat /\ dpc' \in {"wait", "walk", "data"}
      /\ dCur' \in 0..MaxItems /\ dPacket' \in 0..MaxPackets
      /\ dpc' = "walk" => dCur' \in Linked \cup {0}
      /\ dpc' = "data" => dCur' \in Items /\ status[dCur'] = "EXIT" /\ dPacket' = first[dCur']
  <2>1. CASE WaitDelItem
    <3>1. signals \in Nat /\ signals > 0 /\ signals' = signals - 1
      BY <2>1 DEF WaitDelItem, IInv, TypeOK
    <3>2. 0 \in Nat /\ dpc = "wait" /\ dpc' = "walk" /\ dCur' = NextItem(0) /\ dPacket' = dPacket
      BY <2>1 DEF WaitDelItem
    <3>3. dCur' \in Linked \cup {0} /\ dCur' \in 0..MaxItems
      BY <3>2, NextItemFacts
    <3> QED BY <3>1, <3>2, <3>3 DEF IInv, TypeOK
  <2>2. CASE Walk
    <3>1. /\ dpc = "walk" /\ dCur # 0 /\ signals' = signals /\ dCur \in Items
      BY <2>2 DEF Walk, IInv, FreeInv, Linked
    <3>2. CASE status[dCur] = "EXIT"
      BY <2>2, <3>1, <3>2 DEF Walk, IInv, TypeOK
    <3>3. CASE status[dCur] # "EXIT"
      <4>1. dCur' = NextItem(dCur) /\ dpc' = "walk" /\ dPacket' = dPacket
        BY <2>2, <3>1, <3>3 DEF Walk
      <4>2. dCur \in Nat
        BY <3>1, BasicFacts
      <4>3. dCur' \in Linked \cup {0} /\ dCur' \in 0..MaxItems
        BY <4>1, <4>2, NextItemFacts
      <4> QED BY <3>1, <4>1, <4>3 DEF IInv, TypeOK
    <3> QED BY <3>2, <3>3
  <2>3. CASE WalkEnd
    BY <2>3 DEF WalkEnd, IInv, TypeOK
  <2> QED BY <2>1, <2>2, <2>3
<1>3. TypeOK'
  BY <1>1, <1>2 DEF IInv, TypeOK
<1>4. LifeInv' /\ WriterInv' /\ LinkInv'
  BY <1>1, DataFrame DEF IInv, LifeInv, WriterInv, LinkInv, FirstOf
<1>5. FreeInv'
  BY <1>1, <1>2, DataFrame DEF IInv, FreeInv, Linked
<1>6. DepthInv'
  <2>1. PICK depth \in [Packets -> Nat] : LinksDown(depth)
    BY DEF IInv, DepthInv
  <2>2. FreedBefore(depth)'
    BY <1>1, <1>2 DEF IInv, FreeInv, FreedBefore
  <2> QED BY <1>1, <2>1, <2>2, DataFrame DEF DepthInv
<1>7. SleepInv' /\ SortedInv'
  BY <1>1, DataFrame DEF IInv, SleepInv, SortedInv
<1>8. WriteInv' /\ EntriesRight'
  BY <1>1, WritingFrame
<1> QED BY <1>3, <1>4, <1>5, <1>6, <1>7, <1>8 DEF IInv
-----------------------------------------------------------------------------
(***************************************************************************)
(* The frees.                                                              *)
(***************************************************************************)
LEMMA PacketFrame ==
    ASSUME packet' = packet
    PROVE  /\ Received' = Received
           /\ \A i : /\ Of(i)' = Of(i)
                     /\ Got(i)' = Got(i)
                     /\ FirstGapUnpadded(i)' <=> FirstGapUnpadded(i)
BY DEF Received, Of, Got, FirstGapUnpadded

LEMMA EntriesFrame ==
    ASSUME IInv, UNCHANGED <<packet, late, file>>,
           \A i \in Items : ipc'[i] = "write" <=> ipc[i] = "write"
    PROVE  EntriesRight'
<1> SUFFICES ASSUME NEW g \in Images, NEW k \in DOMAIN file[g], NEW i \in Items,
                    file[g][k].item = i, ~late[i]
             PROVE  EntryRight(g, k, i)'
  BY DEF EntriesRight
<1>1. Got(i)' = Got(i) /\ (FirstGapUnpadded(i)' <=> FirstGapUnpadded(i)) /\ Numbers(g)' = Numbers(g)
  BY PacketFrame DEF Numbers
<1>2. EntryRight(g, k, i)
  BY DEF IInv, EntriesRight
<1> QED BY <1>1, <1>2 DEF EntryRight

LEMMA FreePacketKeepsIInv ==
    ASSUME IInv, FreePacket
    PROVE  IInv'
<1>1. /\ dpc = "data" /\ dPacket # 0
      /\ freed' = freed \cup {first[dCur]}
      /\ first' = [first EXCEPT ![dCur] = next[dPacket]]
      /\ dPacket' = next[dPacket]
      /\ UNCHANGED <<packet, image, status, dataEnd, next, late, rpc, rItem, rNo,
                     ipc, prev, cur, made, file, signals, dpc, dCur>>
  BY DEF FreePacket, listVars, recvVars, imageVars, fileVars
<1>2. dCur \in Items /\ status[dCur] = "EXIT" /\ dPacket = first[dCur]
  BY <1>1 DEF IInv, FreeInv
<1>3. ipc[dCur] \notin {"none", "sleep", "check", "write", "exit"}
  BY <1>2 DEF IInv, LifeInv
<1>4. /\ dPacket \in Of(dCur) /\ dPacket \in Received /\ packet[dPacket].item = dCur
      /\ dPacket \in Packets
  <2>1. dPacket \in Of(dCur)
    BY <1>1, <1>2 DEF IInv, LinkInv
  <2> QED BY <2>1, BasicFacts DEF Of
<1>5. next[dPacket] # 0 => next[dPacket] \in Of(dCur)
  BY <1>4 DEF IInv, LinkInv
<1>6. \A i \in Items : first'[i] = IF i = dCur THEN next[dPacket] ELSE first[i]
  BY <1>1 DEF IInv, TypeOK
<1>7. Received' = Received /\ \A i : Of(i)' = Of(i)
  BY <1>1, PacketFrame
<1>8. TypeOK'
  <2>1. next[dPacket] \in 0..MaxPackets
    BY <1>4 DEF IInv, TypeOK
  <2>2. first' \in [Items -> 0..MaxPackets] /\ dPacket' \in 0..MaxPackets /\ freed' \subseteq Packets
    BY <1>1, <1>2, <1>4, <2>1 DEF IInv, TypeOK
  <2> QED BY <1>1, <2>2 DEF IInv, TypeOK
<1>9. LifeInv' /\ WriterInv'
  BY <1>1, <1>7 DEF IInv, LifeInv, WriterInv, FirstOf
<1>10. LinkInv'
  BY <1>1, <1>5, <1>6, <1>7 DEF IInv, LinkInv
<1>11. FreeInv'
  BY <1>1, <1>2, <1>4, <1>6, <1>7 DEF IInv, FreeInv, Linked
<1>12. DepthInv'
  <2>1. PICK depth \in [Packets -> Nat] : LinksDown(depth) /\ FreedBefore(depth)
    BY DEF IInv, DepthInv
  <2>2. LinksDown(depth)'
    BY <1>1, <2>1 DEF LinksDown
  <2>3. ASSUME next[dPacket] # 0, NEW q \in freed', packet[q].item = dCur
        PROVE  depth[next[dPacket]] < depth[q]
    <3>1. next[dPacket] \in Packets /\ q \in Packets
      BY <1>1, <1>2, <1>5, <1>8, <2>3, BasicFacts DEF TypeOK
    <3>2. depth[next[dPacket]] < depth[dPacket]
      BY <1>4, <2>1, <2>3 DEF LinksDown
    <3>3. q = dPacket \/ depth[dPacket] < depth[q]
      BY <1>1, <1>2, <2>1, <2>3 DEF FreedBefore
    <3>4. depth[q] \in Nat /\ depth[dPacket] \in Nat /\ depth[next[dPacket]] \in Nat
      BY <1>4, <3>1
    <3> QED BY <3>2, <3>3, <3>4
  <2>4. FreedBefore(depth)'
    BY <1>1, <2>3 DEF FreedBefore
  <2> QED BY <2>2, <2>4 DEF DepthInv
<1>13. ASSUME NEW i \in Items, ipc[i] \in {"none", "sleep", "check", "write"} PROVE Kept(i)
  BY <1>1, <1>3, <1>6, <1>7, <1>13 DEF Kept
<1>14. SleepInv'
  <2> SUFFICES ASSUME NEW i \in Items, ipc[i] \in {"none", "sleep"}
               PROVE  /\ ~late[i] /\ InOrder(Of(i))'
                      /\ \A p \in Of(i) : first'[i] # 0 /\ first'[i] <= p /\ p <= dataEnd[i]
    BY <1>1, <1>7 DEF SleepInv
  <2>1. Kept(i) /\ first'[i] = first[i]
    BY <1>13 DEF Kept
  <2> QED BY <2>1, KeptFacts DEF IInv, SleepInv
<1>15. SortedInv'
  <2> SUFFICES ASSUME NEW i \in Items, ipc[i] \in {"check", "write"}, ~late[i]
               PROVE  InSortOrder(i)'
    BY <1>1 DEF SortedInv
  <2> QED BY <1>13, KeptFacts DEF IInv, SortedInv
<1>16. WriteInv'
  <2> SUFFICES ASSUME NEW i \in Items, ipc[i] = "write", ~late[i]
               PROVE  Written(i, image[i])'
    BY <1>1 DEF WriteInv
  <2>1. PICK g : g = image[i]
    OBVIOUS
  <2>2. Written(i, g)'
    BY <1>1, <1>13, <2>1, WrittenKept DEF IInv, WriteInv
  <2> QED BY <1>1, <2>1, <2>2 DEF Written, Numbers
<1>17. EntriesRight'
  BY <1>1, EntriesFrame
<1> QED BY <1>8, <1>9, <1>10, <1>11, <1>12, <1>14, <1>15, <1>16, <1>17 DEF IInv

LEMMA FreeItemKeepsIInv ==
    ASSUME IInv, FreeItem
    PROVE  IInv'
<1>1. /\ dpc = "data" /\ status' = [status EXCEPT ![dCur] = "FREED"]
      /\ dCur' = NextItem(dCur) /\ dpc' = "walk"
      /\ UNCHANGED <<packet, image, first, dataEnd, next, late, freed, rpc, rItem, rNo,
                     ipc, prev, cur, made, file, signals, dPacket>>
  BY DEF FreeItem, dataVars, recvVars, imageVars, fileVars
<1>2. dCur \in Items /\ dCur \in Nat /\ status[dCur] = "EXIT"
  BY <1>1, BasicFacts DEF IInv, FreeInv
<1>3. \A i \in Items : status'[i] = IF i = dCur THEN "FREED" ELSE status[i]
  BY <1>1 DEF IInv, TypeOK
<1>4. dCur' \in Linked \cup {0} /\ dCur' \in 0..MaxItems /\ (dCur' # 0 => dCur < dCur')
  BY <1>1, <1>2, NextItemFacts
<1>5. TypeOK'
  BY <1>1, <1>4 DEF IInv, TypeOK
<1>6. LifeInv' /\ WriterInv' /\ LinkInv'
  BY <1>1, <1>2, <1>3, DataFrame DEF IInv, LifeInv, WriterInv, LinkInv, FirstOf
<1>7. FreeInv'
  <2>1. dCur' # 0 => dCur' # dCur /\ dCur' \in Linked'
    BY <1>2, <1>3, <1>4 DEF Linked
  <2> QED BY <1>1, <1>2, <1>3, <2>1, BasicFacts, DataFrame DEF IInv, FreeInv
<1>8. DepthInv'
  BY <1>1, DataFrame DEF IInv, DepthInv, FreedBefore
<1>9. SleepInv' /\ SortedInv'
  BY <1>1, DataFrame DEF IInv, SleepInv, SortedInv
<1>10. WriteInv' /\ EntriesRight'
  BY <1>1, WritingFrame
<1> QED BY <1>5, <1>6, <1>7, <1>8, <1>9, <1>10 DEF IInv
-----------------------------------------------------------------------------
(***************************************************************************)
(* The sort.                                                               *)
(***************************************************************************)
LEMMA SortFacts ==
    ASSUME IInv, NEW i \in Items, ipc[i] = "sleep"
    PROVE  LET s == mergeSort[Chain[first[i]]]
           IN  s \in Seq(Received) /\ Sorted(s) /\ Members(s) = Of(i)
<1> DEFINE c == Chain[first[i]]
<1>1. PICK depth : LinksDown(depth)
  BY DEF IInv, DepthInv
<1>2. /\ PacketsOK /\ Of(i) \in SUBSET Received /\ InOrder(Of(i))
      /\ \A p \in Of(i) : first[i] # 0 /\ first[i] <= p
  BY BasicFacts DEF IInv, SleepInv
<1>3. c \in Seq(Received) /\ Increasing(c) /\ Members(c) = Of(i)
  <2>1. CASE first[i] = 0
    <3>1. c = <<>> /\ Of(i) = {}
      BY <1>1, <1>2, <2>1, ChainEquation
    <3> QED BY <3>1 DEF Increasing, Members
  <2>2. CASE first[i] # 0
    <3>1. first[i] \in Of(i)
      BY <2>2 DEF IInv, LinkInv
    <3>2. /\ c \in Seq(Of(i)) /\ Increasing(c)
          /\ Members(c) = {q \in Of(i) : first[i] <= q}
      BY <1>1, <1>2, <3>1, ChainInOrder
    <3>3. c \in Seq(Received)
      BY <1>2, <3>2
    <3> HIDE DEF c, Of
    <3> QED BY <1>2, <3>2, <3>3
  <2> QED BY <2>1, <2>2
<1> HIDE DEF c
<1>4. mergeSort[c] \in Seq(Received) /\ Sorted(mergeSort[c]) /\ Members(mergeSort[c]) = Of(i)
  BY <1>2, <1>3, MergeSortFacts
<1> QED BY <1>4 DEF c

(* The links that the sort makes: s[k] is followed by s[k + 1]. *)
LEMMA SortLinks ==
    ASSUME IInv, NEW i \in Items, Sort(i)
    PROVE  \E s \in Seq(Of(i)) :
              /\ Sorted(s) /\ Members(s) = Of(i)
              /\ \A k \in DOMAIN s : next'[s[k]] = IF k = Len(s) THEN 0 ELSE s[k + 1]
              /\ \A p \in Packets : p \notin Of(i) => next'[p] = next[p]
              /\ next' \in [Packets -> 0..MaxPackets]
              /\ first' = [first EXCEPT ![i] = IF s = <<>> THEN 0 ELSE s[1]]
<1> DEFINE s == mergeSort[Chain[first[i]]]
           After(p) == {k \in 1..Len(s) - 1 : s[k] = p}
           Link(p) == IF p \notin Members(s) THEN next[p]
                      ELSE IF p = s[Len(s)] THEN 0
                      ELSE s[1 + CHOOSE k \in After(p) : TRUE]
<1>1. /\ ipc[i] = "sleep"
      /\ first' = [first EXCEPT ![i] = IF s = <<>> THEN 0 ELSE s[1]]
      /\ next' = [p \in Packets |-> Link(p)]
  BY DEF Sort, Members
<1>2. s \in Seq(Received) /\ Sorted(s) /\ Members(s) = Of(i)
  BY <1>1, SortFacts
<1> HIDE DEF s
<1>3. /\ Of(i) \in SUBSET Received /\ Received \in SUBSET Packets /\ PacketsOK
      /\ Packets \in SUBSET (0..MaxPackets)
  BY BasicFacts, ConstantsAssumption DEF Packets
<1>4. s \in Seq(Of(i)) /\ Len(s) \in Nat /\ DOMAIN s = 1..Len(s) /\ \A k \in DOMAIN s : s[k] \in Of(i)
  <2>1. Len(s) \in Nat /\ DOMAIN s = 1..Len(s) /\ s = [k \in 1..Len(s) |-> s[k]]
    BY <1>2
  <2>2. \A k \in DOMAIN s : s[k] \in Of(i)
    BY <1>2 DEF Members
  <2>3. s \in [1..Len(s) -> Of(i)]
    BY <2>1, <2>2
  <2> QED BY <2>1, <2>2, <2>3, SeqDef
<1>5. \A j, k \in DOMAIN s : s[j] = s[k] => j = k
  <2> SUFFICES ASSUME NEW j \in DOMAIN s, NEW k \in DOMAIN s, s[j] = s[k], j # k PROVE FALSE
    OBVIOUS
  <2>1. Lt(s[j], s[k]) \/ Lt(s[k], s[j])
    <3>1. j \in Nat /\ k \in Nat
      BY <1>4
    <3>2. j < k \/ k < j
      BY <3>1
    <3> QED BY <1>2, <3>2 DEF Sorted
  <2> QED BY <1>3, <1>4, <2>1, LtFacts
<1>6. ASSUME NEW k \in DOMAIN s PROVE Link(s[k]) = IF k = Len(s) THEN 0 ELSE s[k + 1]
  <2>1. s[k] \in Members(s)
    BY DEF Members
  <2>2. CASE k = Len(s)
    BY <2>1, <2>2
  <2>3. CASE k # Len(s)
    <3>1. k \in 1..Len(s) - 1 /\ Len(s) \in DOMAIN s /\ 1..Len(s) - 1 \subseteq DOMAIN s
      BY <1>4, <2>3
    <3>2. s[k] # s[Len(s)]
      BY <1>5, <2>3, <3>1
    <3>3. After(s[k]) = {k}
      BY <1>5, <3>1
    <3>4. (CHOOSE m \in After(s[k]) : TRUE) = k
      <4> HIDE DEF After
      <4> QED BY <3>3
    <3> HIDE DEF After
    <3>5. Link(s[k]) = s[1 + CHOOSE m \in After(s[k]) : TRUE]
      BY <2>1, <3>2
    <3> HIDE DEF Link
    <3>6. Link(s[k]) = s[1 + k]
      BY <3>4, <3>5
    <3>7. 1 + k = k + 1
      BY <1>4
    <3> QED BY <2>3, <3>6, <3>7
  <2> QED BY <2>2, <2>3
<1>7. \A p \in Packets : p \notin Of(i) => Link(p) = next[p]
  BY <1>2
<1>8. \A p \in Packets : Link(p) \in 0..MaxPackets
  <2> SUFFICES ASSUME NEW p \in Packets PROVE Link(p) \in 0..MaxPackets
    OBVIOUS
  <2>1. CASE p \notin Of(i)
    <3> HIDE DEF Link
    <3> QED BY <1>7, <2>1 DEF IInv, TypeOK
  <2>2. CASE p \in Of(i)
    <3>1. PICK k \in DOMAIN s : p = s[k]
      BY <1>2, <2>2 DEF Members
    <3>2. k # Len(s) => k + 1 \in DOMAIN s
      BY <1>4
    <3>3. 0 \in 0..MaxPackets
      BY ConstantsAssumption
    <3> HIDE DEF Link
    <3> QED BY <1>3, <1>4, <1>6, <3>1, <3>2, <3>3
  <2> QED BY <2>1, <2>2
<1> HIDE DEF Link
<1>9. \A p \in Packets : next'[p] = Link(p)
  BY <1>1
<1>10. next' \in [Packets -> 0..MaxPackets]
  BY <1>1, <1>8
<1>11. \A k \in DOMAIN s : s[k] \in Packets
  BY <1>3, <1>4
<1> HIDE DEF Of
<1> QED BY <1>1, <1>2, <1>4, <1>6, <1>7, <1>9, <1>10, <1>11

LEMMA SortKeepsIInv ==
    ASSUME IInv, NEW i \in Items, Sort(i)
    PROVE  IInv'
<1>1. /\ ipc[i] = "sleep" /\ ipc' = [ipc EXCEPT ![i] = "check"]
      /\ UNCHANGED <<packet, image, status, dataEnd, late, freed, rpc, rItem, rNo, prev, cur,
                     made, file, signals, dpc, dCur, dPacket>>
  BY DEF Sort, listVars, recvVars, fileVars, delVars
<1>2. PICK s \in Seq(Of(i)) :
         /\ Sorted(s) /\ Members(s) = Of(i)
         /\ \A k \in DOMAIN s : next'[s[k]] = IF k = Len(s) THEN 0 ELSE s[k + 1]
         /\ \A p \in Packets : p \notin Of(i) => next'[p] = next[p]
         /\ next' \in [Packets -> 0..MaxPackets]
         /\ first' = [first EXCEPT ![i] = IF s = <<>> THEN 0 ELSE s[1]]
  BY SortLinks
<1>3. Len(s) \in Nat /\ DOMAIN s = 1..Len(s) /\ \A k \in DOMAIN s : s[k] \in Of(i) /\ k \in Nat
  BY <1>2
<1>4. \A p \in Of(i) : \E k \in DOMAIN s : p = s[k]
  BY <1>2 DEF Members
<1>5. /\ PacketsOK /\ Of(i) \in SUBSET Received /\ Of(i) \in SUBSET Packets
      /\ Received \in SUBSET Packets /\ 0 \notin Packets
  BY BasicFacts
<1>6. Received' = Received /\ (\A j : Of(j)' = Of(j)) /\ (\A p, q : Lt(p, q)' <=> Lt(p, q))
  BY <1>1, PacketFrame DEF Lt
<1>7. \A j \in Items : /\ ipc'[j] = IF j = i THEN "check" ELSE ipc[j]
                       /\ j # i => first'[j] = first[j]
                       /\ first'[i] = IF s = <<>> THEN 0 ELSE s[1]
  BY <1>1, <1>2 DEF IInv, TypeOK
<1>8. \A j, k \in DOMAIN s : Lt(s[j], s[k]) <=> j < k
  <2> SUFFICES ASSUME NEW j \in DOMAIN s, NEW k \in DOMAIN s PROVE Lt(s[j], s[k]) <=> j < k
    OBVIOUS
  <2>1. j < k \/ j = k \/ k < j
    BY <1>3
  <2>2. ~(j < k /\ k < j) /\ (j = k => ~(j < k))
    BY <1>3
  <2>3. s[j] \in Received /\ s[k] \in Received
    BY <1>3, <1>5
  <2> QED BY <1>2, <1>5, <2>1, <2>2, <2>3, LtFacts DEF Sorted
<1>9. ASSUME NEW j \in Items, j # i PROVE Kept(j)
  <2>1. \A p \in Of(j) : p \notin Of(i) /\ p \in Packets
    BY <1>9, BasicFacts DEF Of
  <2> QED BY <1>1, <1>2, <1>6, <1>7, <1>9, <2>1 DEF Kept
<1>10. first'[i] = 0 \/ first'[i] \in Of(i)
  <2>1. CASE s = <<>>
    BY <1>7, <2>1
  <2>2. CASE s # <<>>
    <3>1. 1 \in DOMAIN s
      BY <1>2, <2>2
    <3> QED BY <1>3, <1>7, <2>2, <3>1
  <2> QED BY <2>1, <2>2
<1>11. \A p \in Of(i) : next'[p] = 0 \/ next'[p] \in Of(i)
  <2> SUFFICES ASSUME NEW k \in DOMAIN s PROVE next'[s[k]] = 0 \/ next'[s[k]] \in Of(i)
    BY <1>4
  <2>1. k # Len(s) => k + 1 \in DOMAIN s
    BY <1>3
  <2> QED BY <1>2, <1>3, <2>1
<1>12. TypeOK'
  <2>1. first'[i] \in 0..MaxPackets
    BY <1>5, <1>10, ConstantsAssumption DEF Packets
  <2>2. first' = [first EXCEPT ![i] = first'[i]]
    BY <1>2, <1>7
  <2>3. first' \in [Items -> 0..MaxPackets] /\ ipc' \in [Items -> {"none", "sleep", "check", "write", "exit", "signal", "ended"}]
    BY <1>1, <2>1, <2>2 DEF IInv, TypeOK
  <2> QED BY <1>1, <1>2, <2>3 DEF IInv, TypeOK
<1>13. LifeInv' /\ WriterInv'
  BY <1>1, <1>6, <1>7 DEF IInv, LifeInv, WriterInv, FirstOf
<1>14. LinkInv'
  <2>1. ASSUME NEW j \in Items
        PROVE  /\ first'[j] # 0 => first'[j] \in Of(j)
               /\ dataEnd'[j] # 0 => dataEnd'[j] \in Of(j)
               /\ dataEnd'[j] = 0 => Of(j) = {}
               /\ ipc'[j] = "write" => cur'[j] \in Of(j) \cup {0} /\ prev'[j] \in Of(j) \cup {0}
    <3>1. CASE j = i
      BY <1>1, <1>7, <1>10, <3>1 DEF IInv, LinkInv
    <3>2. CASE j # i
      BY <1>1, <1>7, <3>2 DEF IInv, LinkInv
    <3> QED BY <3>1, <3>2
  <2>2. ASSUME NEW p \in Received, next'[p] # 0 PROVE next'[p] \in Of(packet[p].item)
    <3>1. CASE p \in Of(i)
      BY <1>11, <2>2, <3>1 DEF Of
    <3>2. CASE p \notin Of(i)
      BY <1>2, <1>5, <2>2, <3>2 DEF IInv, LinkInv
    <3> QED BY <3>1, <3>2
  <2>3. \A p \in Packets : p \notin Received => next'[p] = 0
    BY <1>2, <1>5 DEF IInv, LinkInv
  <2> QED BY <1>1, <1>6, <2>1, <2>2, <2>3 DEF LinkInv
<1>15. dpc = "data" => dCur # i /\ dCur \in Items
  BY <1>1 DEF IInv, FreeInv, LifeInv
<1>16. FreeInv'
  <2>1. dpc = "data" => first'[dCur] = first[dCur]
    BY <1>7, <1>15
  <2> QED BY <1>1, <1>6, <2>1 DEF IInv, FreeInv, Linked
<1>17. DepthInv'
  <2>1. PICK depth \in [Packets -> Nat] : LinksDown(depth) /\ FreedBefore(depth)
    BY DEF IInv, DepthInv
  <2>2. PICK d \in [Packets -> Nat] :
           /\ \A k \in DOMAIN s : d[s[k]] = Len(s) - k
           /\ \A q \in Packets : q \notin Of(i) => d[q] = depth[q]
    <3> DEFINE at(q) == CHOOSE k \in DOMAIN s : s[k] = q
               d == [q \in Packets |-> IF q \in Of(i) THEN Len(s) - at(q) ELSE depth[q]]
    <3>1. \A k \in DOMAIN s : at(s[k]) = k
      <4>1. \A j, k \in DOMAIN s : s[j] = s[k] => j = k
        <5> SUFFICES ASSUME NEW j \in DOMAIN s, NEW k \in DOMAIN s, s[j] = s[k] PROVE j = k
          OBVIOUS
        <5>1. ~(j < k) /\ ~(k < j)
          BY <1>3, <1>8
        <5> QED BY <1>3, <5>1
      <4> QED BY <4>1
    <3>2. ASSUME NEW q \in Of(i) PROVE Len(s) - at(q) \in Nat
      <4>1. PICK k \in DOMAIN s : q = s[k]
        BY <1>4
      <4> HIDE DEF at
      <4>2. at(q) = k
        BY <3>1, <4>1
      <4> QED BY <1>3, <4>2
    <3>3. d \in [Packets -> Nat]
      <4> HIDE DEF at
      <4> QED BY <3>2
    <3>4. \A k \in DOMAIN s : d[s[k]] = Len(s) - k
      <4> HIDE DEF at
      <4> QED BY <1>3, <1>5, <3>1
    <3>5. \A q \in Packets : q \notin Of(i) => d[q] = depth[q]
      <4> HIDE DEF at
      <4> QED OBVIOUS
    <3> HIDE DEF d
    <3> QED BY <3>3, <3>4, <3>5
  <2>3. ASSUME NEW p \in Packets, next'[p] # 0 PROVE d[next'[p]] < d[p]
    <3>1. CASE p \in Of(i)
      <4>1. PICK k \in DOMAIN s : p = s[k]
        BY <1>4, <3>1
      <4>2. k # Len(s) /\ next'[p] = s[k + 1]
        BY <1>2, <2>3, <4>1
      <4>3. k + 1 \in DOMAIN s
        BY <1>3, <4>2
      <4>4. d[p] = Len(s) - k /\ d[next'[p]] = Len(s) - (k + 1)
        BY <2>2, <4>1, <4>2, <4>3
      <4> QED BY <1>3, <4>4
    <3>2. CASE p \notin Of(i)
      <4>1. next'[p] = next[p] /\ d[p] = depth[p]
        BY <1>2, <2>2, <3>2
      <4>2. p \in Received /\ next[p] \in Of(packet[p].item)
        BY <2>3, <4>1 DEF IInv, LinkInv
      <4>3. next[p] \notin Of(i) /\ next[p] \in Packets
        BY <1>5, <3>2, <4>2 DEF Of
      <4> QED BY <2>1, <2>2, <2>3, <4>1, <4>3 DEF LinksDown
    <3> QED BY <3>1, <3>2
  <2>4. LinksDown(d)'
    BY <1>12, <2>3 DEF LinksDown, TypeOK
  <2>5. FreedBefore(d)'
    <3> SUFFICES ASSUME dpc = "data", dPacket # 0, NEW q \in freed, packet[q].item = dCur
                 PROVE  d[dPacket] < d[q]
      BY <1>1 DEF FreedBefore
    <3>1. q \in Packets /\ q \notin Of(i)
      BY <1>5, <1>15 DEF IInv, FreeInv, Of
    <3>2. dPacket \in Of(dCur)
      BY DEF IInv, FreeInv, LinkInv
    <3>3. dPacket \in Packets /\ dPacket \notin Of(i)
      BY <1>15, <3>2, BasicFacts DEF Of
    <3> QED BY <2>1, <2>2, <3>1, <3>3 DEF FreedBefore
  <2> QED BY <2>4, <2>5 DEF DepthInv
<1>18. SleepInv'
  <2> SUFFICES ASSUME NEW j \in Items, ipc'[j] \in {"none", "sleep"}
               PROVE  /\ ~late[j] /\ InOrder(Of(j))'
                      /\ \A q \in Of(j)' : first'[j] # 0 /\ first'[j] <= q /\ q <= dataEnd[j]
    BY <1>1 DEF SleepInv
  <2>1. j # i /\ ipc[j] \in {"none", "sleep"}
    BY <1>7
  <2>2. Kept(j) /\ Of(j)' = Of(j) /\ first'[j] = first[j]
    BY <1>6, <1>7, <1>9, <2>1
  <2> QED BY <2>1, <2>2, KeptFacts DEF IInv, SleepInv
<1>19. SortedInv'
  <2> SUFFICES ASSUME NEW j \in Items, ipc'[j] \in {"check", "write"}, ~late[j]
               PROVE  InSortOrder(j)'
    BY <1>1 DEF SortedInv
  <2>1. CASE j # i
    <3>1. ipc[j] \in {"check", "write"}
      BY <1>7, <2>1
    <3> QED BY <1>9, <2>1, <3>1, KeptFacts DEF IInv, SortedInv
  <2>2. CASE j = i
    <3>1. \A p \in Of(i) : next'[p] # 0 => Lt(p, next'[p])
      <4> SUFFICES ASSUME NEW k \in DOMAIN s, next'[s[k]] # 0 PROVE Lt(s[k], next'[s[k]])
        BY <1>4
      <4>1. next'[s[k]] = s[k + 1] /\ k # Len(s)
        BY <1>2
      <4>2. k + 1 \in DOMAIN s /\ k < k + 1
        BY <1>3, <4>1
      <4> QED BY <1>8, <4>1, <4>2
    <3>2. ASSUME NEW p \in Of(i), NEW q \in Of(i), Lt(p, q)
          PROVE  next'[p] # 0 /\ (next'[p] = q \/ Lt(next'[p], q))
      <4>1. PICK j1 \in DOMAIN s, k \in DOMAIN s : p = s[j1] /\ q = s[k]
        BY <1>4
      <4>2. j1 < k
        BY <1>8, <3>2, <4>1
      <4>3. j1 # Len(s) /\ j1 + 1 \in DOMAIN s /\ (j1 + 1 = k \/ j1 + 1 < k)
        BY <1>3, <4>2
      <4>4. next'[p] = s[j1 + 1]
        BY <1>2, <4>1, <4>3
      <4>5. s[j1 + 1] # 0
        BY <1>3, <1>5, <4>3
      <4> QED BY <1>8, <4>1, <4>3, <4>4, <4>5
    <3>3. ASSUME NEW p \in Of(i) PROVE first'[i] # 0 /\ (first'[i] = p \/ Lt(first'[i], p))
      <4>1. PICK k \in DOMAIN s : p = s[k]
        BY <1>4
      <4>2. 1 \in DOMAIN s /\ (k = 1 \/ 1 < k) /\ s # <<>>
        BY <1>3, <4>1
      <4>3. first'[i] = s[1] /\ s[1] # 0
        BY <1>3, <1>5, <1>7, <4>2
      <4> QED BY <1>8, <4>1, <4>2, <4>3
    <3>4. InSortOrder(i)'
      <4> HIDE DEF Of, Lt
      <4> QED BY <1>6, <3>1, <3>2, <3>3 DEF InSortOrder
    <3> QED BY <2>2, <3>4
  <2> QED BY <2>1, <2>2
<1>20. WriteInv'
  <2> SUFFICES ASSUME NEW j \in Items, ipc'[j] = "write", ~late[j]
               PROVE  Written(j, image[j])'
    BY <1>1 DEF WriteInv
  <2>1. j # i /\ ipc[j] = "write"
    BY <1>7
  <2>2. PICK g : g = image[j]
    OBVIOUS
  <2>3. Written(j, g)'
    BY <1>1, <1>9, <2>1, <2>2, WrittenKept DEF IInv, WriteInv
  <2> QED BY <1>1, <2>2, <2>3 DEF Written, Numbers
<1>21. EntriesRight'
  <2>1. \A j \in Items : ipc'[j] = "write" <=> ipc[j] = "write"
    BY <1>1, <1>7
  <2> QED BY <1>1, <2>1, EntriesFrame
<1> QED BY <1>12, <1>13, <1>14, <1>16, <1>17, <1>18, <1>19, <1>20, <1>21 DEF IInv
-----------------------------------------------------------------------------
(***************************************************************************)
(* The file.                                                               *)
(***************************************************************************)
LEMMA FirstOfUnique ==
    ASSUME NEW i, NEW j, NEW g, FirstOf(i, g), FirstOf(j, g)
    PROVE  i = j
<1>1. i \in Nat /\ j \in Nat /\ i >= 1 /\ j >= 1
  BY ConstantsAssumption DEF FirstOf, Items
<1>2. ~(i < j) /\ ~(j < i)
  <2>1. i < j => i \in 1..j - 1
    BY <1>1
  <2>2. j < i => j \in 1..i - 1
    BY <1>1
  <2> QED BY <2>1, <2>2 DEF FirstOf
<1> QED BY <1>1, <1>2

(* What stands up to the next packet is what stood up to this one, and it.  *)
LEMMA UpToNext ==
    ASSUME IInv, NEW i \in Items, InSortOrder(i), NEW p \in Of(i), next[p] # 0
    PROVE  UpTo(i, next[p]) = UpTo(i, p) \cup {next[p]}
<1>1. PICK c : c = next[p]
  OBVIOUS
<1>2. c \in Of(i) /\ Lt(p, c)
  BY <1>1 DEF IInv, LinkInv, InSortOrder, Of
<1>3. PacketsOK /\ Of(i) \in SUBSET Received
  BY BasicFacts
<1>4. ASSUME NEW q \in Of(i) PROVE Lt(q, c) <=> q = p \/ Lt(q, p)
  <2>1. q \in Received /\ p \in Received /\ c \in Received
    BY <1>2, <1>3
  <2>2. q = p \/ Lt(q, p) => Lt(q, c)
    BY <1>2, <1>3, <2>1, LtFacts
  <2>3. ASSUME ~(q = p \/ Lt(q, p)) PROVE ~Lt(q, c)
    <3>1. Lt(p, q)
      BY <1>3, <2>1, <2>3, LtFacts
    <3>2. c = q \/ Lt(c, q)
      BY <1>1, <3>1 DEF InSortOrder
    <3> QED BY <1>3, <2>1, <3>2, LtFacts
  <2> QED BY <2>2, <2>3
<1> QED BY <1>1, <1>2, <1>4 DEF UpTo

LEMMA DiffFacts ==
    ASSUME IInv, NEW i \in Items, ipc[i] = "write", cur[i] # 0
    PROVE  /\ packet[cur[i]].no \in Sequences /\ packet[cur[i]].no \in Nat
           /\ prev[i] = 0 => DiffSeqNum(i) = packet[cur[i]].no
           /\ prev[i] # 0 =>
                 /\ packet[prev[i]].no \in Nat
                 /\ DiffSeqNum(i) < 1 <=> packet[cur[i]].no <= packet[prev[i]].no
                 /\ DiffSeqNum(i) >= 1 => DiffSeqNum(i) = packet[cur[i]].no - packet[prev[i]].no
           /\ DiffSeqNum(i) \in Int
           /\ Padded(i) \in Nat
           /\ prev[i] = 0 => Padded(i) = IF packet[cur[i]].no <= 1 THEN 0 ELSE packet[cur[i]].no
           /\ prev[i] # 0 /\ DiffSeqNum(i) >= 1 =>
                 Padded(i) = packet[cur[i]].no - packet[prev[i]].no - 1
<1>1. cur[i] \in Received /\ (prev[i] # 0 => prev[i] \in Received)
  BY BasicFacts DEF IInv, LinkInv
<1>2. /\ packet[cur[i]].no \in Sequences /\ packet[cur[i]].no \in Nat
      /\ prev[i] # 0 => packet[prev[i]].no \in Nat
  BY <1>1, BasicFacts, ReceivedFacts
<1> DEFINE n == packet[cur[i]].no
           m == packet[prev[i]].no
           d == DiffSeqNum(i)
<1>3. d = IF prev[i] = 0 THEN n ELSE IF n - m < 0 THEN n - m - 1 ELSE n - m
  BY DEF DiffSeqNum
<1>4. Padded(i) = IF d <= 1 THEN 0 ELSE IF prev[i] = 0 THEN d ELSE d - 1
  BY DEF Padded
<1>5. n \in Nat /\ (prev[i] # 0 => m \in Nat) /\ n \in Sequences
  BY <1>2
<1> HIDE DEF n, m, d
<1>6. /\ d \in Int
      /\ prev[i] = 0 => d = n
      /\ prev[i] # 0 => (d < 1 <=> n <= m) /\ (d >= 1 => d = n - m)
  BY <1>3, <1>5
<1>7. /\ Padded(i) \in Nat
      /\ prev[i] = 0 => Padded(i) = IF n <= 1 THEN 0 ELSE n
      /\ prev[i] # 0 /\ d >= 1 => Padded(i) = n - m - 1
  BY <1>4, <1>5, <1>6
<1> QED BY <1>5, <1>6, <1>7 DEF n, m, d

LEMMA WritePacketKeepsIInv ==
    ASSUME IInv, NEW i \in Items, WritePacket(i)
    PROVE  IInv'
<1>0. PICK c, g, no, at :
         c = cur[i] /\ g = image[i] /\ no = packet[c].no /\ at = FileSize(g) + Padded(i) * DataSize(no)
  OBVIOUS
<1> DEFINE skip == prev[i] # 0 /\ DiffSeqNum(i) < 1
           entry == [item |-> i, no |-> no, at |-> at]
<1>1. /\ ipc[i] = "write" /\ c # 0
      /\ skip => file' = file
      /\ ~skip => file' = [file EXCEPT ![g] = Append(file[g], entry)]
      /\ prev' = [prev EXCEPT ![i] = c]
      /\ cur' = [cur EXCEPT ![i] = next[c]]
      /\ UNCHANGED <<packet, image, status, first, dataEnd, next, late, freed, rpc, rItem, rNo,
                     ipc, made, signals, dpc, dCur, dPacket>>
  BY <1>0 DEF WritePacket, listVars, dataVars, recvVars, delVars
<1>2. FirstOf(i, g) /\ g \in Images
  BY <1>0, <1>1, BasicFacts DEF IInv, WriterInv, FirstOf
<1>3. c \in Of(i) /\ c \in Received /\ c \in Packets /\ prev[i] \in Of(i) \cup {0}
  BY <1>0, <1>1, BasicFacts DEF IInv, LinkInv
<1>4. next[c] # 0 => next[c] \in Of(i)
  BY <1>3 DEF IInv, LinkInv, Of
<1>5. /\ no \in Sequences /\ no \in Nat /\ Padded(i) \in Nat
      /\ prev[i] = 0 => Padded(i) = IF no <= 1 THEN 0 ELSE no
      /\ prev[i] # 0 =>
            /\ packet[prev[i]].no \in Nat
            /\ skip <=> no <= packet[prev[i]].no
            /\ ~skip => Padded(i) = no - packet[prev[i]].no - 1
  <2>1. DiffSeqNum(i) \in Int
    BY <1>0, <1>1, DiffFacts
  <2>2. ~(DiffSeqNum(i) < 1) => DiffSeqNum(i) >= 1
    BY <2>1
  <2> QED BY <1>0, <1>1, <2>2, DiffFacts
<1>6. \A m : DataSize(m) \in {1, 2}
  BY DEF DataSize, FullSize
<1> DEFINE E == [item : Items, no : Sequences, at : Nat]
<1>7. file[g] \in Seq(E) /\ Len(file[g]) \in Nat /\ DOMAIN file[g] = 1..Len(file[g])
      /\ \A k \in DOMAIN file[g] : file[g][k] \in E
  <2>1. file[g] \in Seq(E)
    BY <1>2 DEF IInv, TypeOK
  <2> HIDE DEF E
  <2> QED BY <2>1
<1>8. FileSize(g) \in Nat
  <2>1. CASE file[g] = <<>>
    BY <2>1 DEF FileSize
  <2>2. CASE file[g] # <<>>
    <3>1. Len(file[g]) \in DOMAIN file[g]
      BY <1>7, <2>2
    <3>2. file[g][Len(file[g])].at \in Nat
      BY <1>7, <3>1
    <3>3. FileSize(g) = file[g][Len(file[g])].at + DataSize(file[g][Len(file[g])].no)
      BY <2>2 DEF FileSize
    <3> QED BY <1>6, <3>2, <3>3
  <2> QED BY <2>1, <2>2
<1>9. at \in Nat
  <2>1. Padded(i) * DataSize(no) \in Nat
    <3>1. DataSize(no) = 1 \/ DataSize(no) = 2
      BY <1>6
    <3> QED BY <1>5, <3>1
  <2> QED BY <1>0, <1>8, <2>1
<1>10. entry \in E
  BY <1>5, <1>9
<1>11. \A j \in Items : /\ prev'[j] = IF j = i THEN c ELSE prev[j]
                        /\ cur'[j] = IF j = i THEN next[c] ELSE cur[j]
  BY <1>1 DEF IInv, TypeOK
<1>12. /\ \A h \in Images : h # g => file'[h] = file[h]
       /\ skip => file'[g] = file[g]
       /\ ~skip => /\ file'[g] = Append(file[g], entry)
                   /\ file'[g] \in Seq(E) /\ Len(file'[g]) = Len(file[g]) + 1
                   /\ file'[g][Len(file[g]) + 1] = entry
                   /\ \A k \in DOMAIN file[g] : file'[g][k] = file[g][k]
                   /\ DOMAIN file'[g] = DOMAIN file[g] \cup {Len(file[g]) + 1}
  <2>1. /\ \A h \in Images : h # g => file'[h] = file[h]
        /\ skip => file'[g] = file[g]
        /\ ~skip => file'[g] = Append(file[g], entry)
    <3> HIDE DEF entry
    <3> QED BY <1>1, <1>2 DEF IInv, TypeOK
  <2> HIDE DEF entry, E
  <2>2. LET f == Append(file[g], entry)
        IN  /\ f \in Seq(E) /\ Len(f) = Len(file[g]) + 1
            /\ f[Len(file[g]) + 1] = entry
            /\ \A k \in DOMAIN file[g] : f[k] = file[g][k]
            /\ DOMAIN f = DOMAIN file[g] \cup {Len(file[g]) + 1}
    BY <1>7, <1>10
  <2> QED BY <2>1, <2>2
<1>13. TypeOK'
  <2>1. next[c] \in 0..MaxPackets /\ c \in 0..MaxPackets
    BY <1>3, ConstantsAssumption DEF IInv, TypeOK, Packets
  <2>2. prev' \in [Items -> 0..MaxPackets] /\ cur' \in [Items -> 0..MaxPackets]
    BY <1>1, <2>1 DEF IInv, TypeOK
  <2>3. file' \in [Images -> Seq(E)]
    <3>1. CASE skip
      BY <1>1, <3>1 DEF IInv, TypeOK
    <3>2. CASE ~skip
      <4> DEFINE f == Append(file[g], entry)
      <4>1. f \in Seq(E) /\ file' = [file EXCEPT ![g] = f] /\ file \in [Images -> Seq(E)]
        BY <1>1, <1>12, <3>2 DEF IInv, TypeOK
      <4> HIDE DEF E, f
      <4> QED BY <4>1
    <3> QED BY <3>1, <3>2
  <2> QED BY <1>1, <2>2, <2>3 DEF IInv, TypeOK
<1>14. LifeInv'
  BY <1>1, DataFrame DEF IInv, LifeInv
<1>15. ASSUME NEW h \in Images, NEW k \in DOMAIN file'[h]
       PROVE  \/ k \in DOMAIN file[h] /\ file'[h][k] = file[h][k]
              \/ h = g /\ ~skip /\ k = Len(file[g]) + 1 /\ file'[h][k] = entry
  <2>1. CASE h # g \/ skip
    BY <1>12, <1>15, <2>1
  <2>2. CASE h = g /\ ~skip
    <3> HIDE DEF entry, E, skip
    <3> QED BY <1>12, <1>15, <2>2
  <2> QED BY <2>1, <2>2
<1>16. WriterInv'
  <2>1. \A j, h : FirstOf(j, h)' <=> FirstOf(j, h)
    BY <1>1 DEF FirstOf
  <2>2. ASSUME NEW h \in Images, NEW k \in DOMAIN file'[h]
        PROVE  FirstOf(file'[h][k].item, h) /\ ipc[file'[h][k].item] \notin {"none", "sleep", "check"}
    BY <1>1, <1>2, <1>15 DEF IInv, WriterInv
  <2>3. ASSUME NEW h \in Images, NEW k \in DOMAIN file'[h]
        PROVE  FirstOf(file[h][k].item, h)'
    BY <1>1, <2>2 DEF FirstOf
  <2> QED BY <1>1, <2>1, <2>2, <2>3 DEF IInv, WriterInv
<1>17. LinkInv' /\ FreeInv'
  BY <1>1, <1>3, <1>4, <1>11, DataFrame DEF IInv, LinkInv, FreeInv, Linked
<1>18. DepthInv'
  BY <1>1, DataFrame DEF IInv, DepthInv, FreedBefore
<1>19. SleepInv' /\ SortedInv'
  BY <1>1, DataFrame DEF IInv, SleepInv, SortedInv
<1>20. \A j \in Items : Kept(j)
  BY <1>1, DataFrame DEF Kept
<1>21. ASSUME ~late[i] PROVE InSortOrder(i) /\ Written(i, g)
  BY <1>0, <1>1, <1>21 DEF IInv, SortedInv, WriteInv
<1>22. ASSUME ~late[i] PROVE file[g] = <<>> <=> prev[i] = 0
  BY <1>21, <1>22 DEF Written
<1>23. ASSUME ~skip PROVE Numbers(g)' = Numbers(g) \cup {no}
  <2>1. entry.no = no
    OBVIOUS
  <2> HIDE DEF entry, E, skip
  <2>2. Numbers(g)' = {file'[g][k].no : k \in DOMAIN file[g] \cup {Len(file[g]) + 1}}
    BY <1>12, <1>23 DEF Numbers
  <2> QED BY <1>12, <1>23, <2>1, <2>2 DEF Numbers
<1>24. ASSUME ~late[i], prev[i] # 0
       PROVE  /\ c = next[prev[i]] /\ Lt(prev[i], c)
              /\ packet[prev[i]].no <= no
              /\ file[g] # <<>> /\ file[g][Len(file[g])].no = packet[prev[i]].no
              /\ Numbers(g) = NumbersUpTo(i, prev[i])
  <2>1. /\ c = next[prev[i]] /\ file[g] # <<>> /\ file[g][Len(file[g])].no = packet[prev[i]].no
        /\ Numbers(g) = NumbersUpTo(i, prev[i])
    BY <1>0, <1>21, <1>24 DEF Written
  <2>2. Lt(prev[i], c)
    BY <1>1, <1>3, <1>21, <1>24, <2>1 DEF InSortOrder
  <2> QED BY <1>0, <1>5, <1>24, <2>1, <2>2 DEF Lt
<1>25. ASSUME ~late[i] PROVE Written(i, g)'
  <2>1. cur'[i] = next'[prev'[i]] /\ prev'[i] = c
    BY <1>1, <1>11
  <2>2. file'[g] # <<>> /\ file'[g][Len(file'[g])].no = no
    <3>1. CASE skip
      <4>1. no = packet[prev[i]].no
        BY <1>5, <1>24, <1>25, <3>1
      <4> QED BY <1>12, <1>24, <1>25, <3>1, <4>1
    <3>2. CASE ~skip
      <4>1. entry.no = no
        OBVIOUS
      <4> HIDE DEF entry, E, skip
      <4>2. Len(file'[g]) = Len(file[g]) + 1 /\ file'[g][Len(file'[g])] = entry /\ file'[g] # <<>>
        BY <1>7, <1>12, <3>2
      <4> QED BY <4>1, <4>2
    <3> QED BY <3>1, <3>2
  <2>3. Numbers(g)' = NumbersUpTo(i, c)
    <3>1. CASE prev[i] = 0
      <4>1. c = first[i] /\ file[g] = <<>>
        BY <1>0, <1>21, <1>25, <3>1 DEF Written
      <4>2. Numbers(g)' = {no}
        <5>1. Numbers(g) = {}
          BY <4>1 DEF Numbers
        <5> QED BY <1>23, <3>1, <5>1
      <4>3. UpTo(i, c) = {c}
        <5>1. \A q \in Of(i) : ~Lt(q, c)
          BY <1>3, <1>21, <1>25, <4>1, BasicFacts, LtFacts DEF InSortOrder
        <5> QED BY <1>3, <5>1 DEF UpTo
      <4> QED BY <1>0, <4>2, <4>3 DEF NumbersUpTo
    <3>2. CASE prev[i] # 0
      <4>1. UpTo(i, c) = UpTo(i, prev[i]) \cup {c}
        BY <1>1, <1>3, <1>21, <1>24, <1>25, <3>2, UpToNext
      <4>2. NumbersUpTo(i, c) = NumbersUpTo(i, prev[i]) \cup {no}
        <5> HIDE DEF UpTo
        <5> QED BY <1>0, <4>1 DEF NumbersUpTo
      <4>3. CASE skip
        <5>1. no = packet[prev[i]].no
          BY <1>5, <1>24, <1>25, <3>2, <4>3
        <5>2. prev[i] \in UpTo(i, prev[i])
          BY <1>3, <3>2 DEF UpTo
        <5>3. no \in NumbersUpTo(i, prev[i])
          BY <5>1, <5>2 DEF NumbersUpTo
        <5>4. Numbers(g)' = Numbers(g)
          BY <1>12, <4>3 DEF Numbers
        <5> QED BY <1>24, <1>25, <3>2, <4>2, <5>3, <5>4
      <4>4. CASE ~skip
        BY <1>23, <1>24, <1>25, <3>2, <4>2, <4>4
      <4> QED BY <4>3, <4>4
    <3> QED BY <3>1, <3>2
  <2>4. NumbersUpTo(i, prev[i])' = NumbersUpTo(i, c)
    BY <1>1, <2>1, DataFrame DEF NumbersUpTo, UpTo, Lt
  <2>5. packet'[prev'[i]].no = no /\ c # 0
    BY <1>0, <1>1, <2>1
  <2> QED BY <2>1, <2>2, <2>3, <2>4, <2>5 DEF Written
<1>26. WriteInv'
  <2> SUFFICES ASSUME NEW j \in Items, ipc[j] = "write", ~late[j]
               PROVE  Written(j, image[j])'
    BY <1>1 DEF WriteInv
  <2>1. CASE j = i
    BY <1>0, <1>1, <1>25, <2>1 DEF Written, Numbers
  <2>2. CASE j # i
    <3>1. PICK h : h = image[j]
      OBVIOUS
    <3>2. FirstOf(j, h) /\ h \in Images
      BY <3>1, BasicFacts DEF IInv, WriterInv, FirstOf
    <3>3. h # g
      BY <1>2, <2>2, <3>2, FirstOfUnique
    <3>4. file'[h] = file[h] /\ prev'[j] = prev[j] /\ cur'[j] = cur[j]
      BY <1>11, <1>12, <2>2, <3>2, <3>3
    <3>5. Written(j, h)'
      BY <1>20, <3>1, <3>4, WrittenKept DEF IInv, WriteInv
    <3> QED BY <1>1, <3>1, <3>5 DEF Written, Numbers
  <2> QED BY <2>1, <2>2
<1>27. ASSUME ~late[i], ~skip
       PROVE  /\ file[g] # <<>> => file[g][Len(file[g])].no < no
              /\ ~FirstGapUnpadded(i) /\ no # Fragments - 1 => at = no * FullSize
  <2>1. CASE prev[i] = 0
    <3>1. file[g] = <<>> /\ c = first[i]
      BY <1>0, <1>21, <1>27, <2>1 DEF Written
    <3>2. ASSUME ~FirstGapUnpadded(i), no # Fragments - 1 PROVE at = no * FullSize
      <4>1. at = Padded(i) * 2
        BY <1>0, <1>5, <3>1, <3>2 DEF FileSize, DataSize, FullSize
      <4>2. no # 1
        <5> SUFFICES ASSUME no = 1 PROVE FALSE
          OBVIOUS
        <5>1. Got(i) = {packet[p].no : p \in Of(i)}
          BY DEF Got, Of, Received
        <5>2. 1 \in Got(i)
          BY <1>0, <1>3, <5>1
        <5>3. \A p \in Of(i) : packet[p].no # 0
          <6> SUFFICES ASSUME NEW p \in Of(i), packet[p].no = 0 PROVE FALSE
            OBVIOUS
          <6>1. c = p \/ Lt(c, p)
            BY <1>21, <1>27, <3>1 DEF InSortOrder
          <6> QED BY <1>0, <6>1 DEF Lt
        <5> QED BY <3>2, <5>1, <5>2, <5>3 DEF FirstGapUnpadded
      <4> QED BY <1>5, <2>1, <4>1, <4>2 DEF FullSize
    <3> QED BY <3>1, <3>2
  <2>2. CASE prev[i] # 0
    <3>1. PICK m : m = packet[prev[i]].no
      OBVIOUS
    <3>2. m \in Nat /\ m < no /\ Padded(i) = no - m - 1
      BY <1>5, <1>27, <2>2, <3>1
    <3>3. file[g] # <<>> /\ file[g][Len(file[g])].no = m
      BY <1>24, <1>27, <2>2, <3>1
    <3>4. ASSUME ~FirstGapUnpadded(i), no # Fragments - 1 PROVE at = no * FullSize
      <4>1. Len(file[g]) \in DOMAIN file[g]
        BY <1>7, <3>3
      <4>2. file[g][Len(file[g])].item = i
        BY <1>2, <4>1, FirstOfUnique DEF IInv, WriterInv
      <4>3. m # Fragments - 1
        BY <1>5, <3>2, ConstantsAssumption DEF Sequences
      <4>4. EntryRight(g, Len(file[g]), i)
        BY <1>2, <1>27, <4>1, <4>2 DEF IInv, EntriesRight
      <4>5. file[g][Len(file[g])].at = m * 2
        BY <3>3, <3>4, <4>3, <4>4 DEF EntryRight, FullSize
      <4>6. FileSize(g) = m * 2 + 2 /\ DataSize(no) = 2
        BY <3>3, <3>4, <4>3, <4>5 DEF FileSize, DataSize, FullSize
      <4> QED BY <1>0, <1>5, <3>2, <4>6 DEF FullSize
    <3> QED BY <3>2, <3>3, <3>4
  <2> QED BY <2>1, <2>2
<1>28. EntriesRight'
  <2> SUFFICES ASSUME NEW h \in Images, NEW k \in DOMAIN file'[h], NEW j \in Items,
                      file'[h][k].item = j, ~late[j]
               PROVE  EntryRight(h, k, j)'
    BY <1>1 DEF EntriesRight
  <2>1. Got(j)' = Got(j) /\ (FirstGapUnpadded(j)' <=> FirstGapUnpadded(j))
    BY <1>1, DataFrame
  <2>2. CASE h # g
    <3>1. file'[h] = file[h]
      BY <1>12, <2>2
    <3>2. EntryRight(h, k, j) /\ Numbers(h)' = Numbers(h)
      BY <3>1 DEF IInv, EntriesRight, Numbers
    <3> QED BY <1>1, <2>1, <3>1, <3>2 DEF EntryRight
  <2>3. CASE h = g
    <3>1. j = i
      BY <1>1, <1>2, <1>16, <2>3, FirstOfUnique DEF WriterInv, FirstOf
    <3>2. CASE k \in DOMAIN file[h] /\ file'[h][k] = file[h][k]
      <4>1. EntryRight(h, k, j)
        BY <3>2 DEF IInv, EntriesRight
      <4>2. k > 1 => file'[h][k - 1] = file[h][k - 1]
        <5>1. k > 1 => k - 1 \in DOMAIN file[h]
          BY <1>7, <2>3, <3>2
        <5>2. \A l \in DOMAIN file[h] : file'[h][l] = file[h][l]
          BY <1>12, <2>3
        <5> QED BY <5>1, <5>2
      <4> QED BY <1>1, <2>1, <3>1, <3>2, <4>1, <4>2 DEF EntryRight
    <3>3. CASE ~skip /\ k = Len(file[g]) + 1 /\ file'[h][k] = entry
      <4>1. file'[g][k].no = no /\ file'[g][k].at = at
        BY <2>3, <3>3
      <4>2. k > 1 => file[g] # <<>> /\ file'[g][k - 1] = file[g][Len(file[g])]
        <5> SUFFICES ASSUME k > 1 PROVE file[g] # <<>> /\ file'[g][k - 1] = file[g][Len(file[g])]
          OBVIOUS
        <5>1. k - 1 = Len(file[g]) /\ Len(file[g]) \in DOMAIN file[g]
          BY <1>7, <3>3
        <5> HIDE DEF entry, E, skip
        <5> QED BY <1>12, <3>3, <5>1
      <4>3. ~late[i]
        BY <3>1
      <4> HIDE DEF entry, E, skip
      <4> QED BY <1>1, <1>27, <2>1, <2>3, <3>1, <3>3, <4>1, <4>2, <4>3 DEF EntryRight
    <3> QED BY <1>15, <3>2, <3>3
  <2> QED BY <2>2, <2>3
<1> QED BY <1>13, <1>14, <1>16, <1>17, <1>18, <1>19, <1>26, <1>28 DEF IInv
-----------------------------------------------------------------------------
LEMMA NextKeepsIInv == IInv /\ [Next]_vars => IInv'
<1> SUFFICES ASSUME IInv, [Next]_vars PROVE IInv'
  OBVIOUS
<1>1. CASE Receiver
  BY <1>1, AddPacketKeepsIInv, FindItemKeepsIInv DEF Receiver
<1>2. CASE \E i \in Items : ImageThread(i)
  BY <1>2, SortKeepsIInv, OpenFileKeepsIInv, WritePacketKeepsIInv, CloseFileKeepsIInv, ExitKeepsIInv,
     SignalDelItemKeepsIInv DEF ImageThread
<1>3. CASE Deleter
  BY <1>3, WalkKeepsIInv, FreePacketKeepsIInv, FreeItemKeepsIInv DEF Deleter
<1>4. CASE UNCHANGED vars
  <2>1. UNCHANGED <<packet, image, status, first, dataEnd, next, freed, late, rpc, rItem, rNo, ipc,
                    prev, cur, made, file, signals, dpc, dCur, dPacket>>
    BY <1>4 DEF vars, listVars, dataVars, recvVars, imageVars, fileVars, delVars
  <2>2. TypeOK' /\ LifeInv' /\ WriterInv' /\ LinkInv' /\ FreeInv'
    <3>1. TypeOK'
      BY <2>1 DEF IInv, TypeOK
    <3>2. LifeInv' /\ WriterInv'
      BY <2>1, DataFrame DEF IInv, LifeInv, WriterInv, FirstOf
    <3>3. LinkInv' /\ FreeInv'
      BY <2>1, DataFrame DEF IInv, LinkInv, FreeInv, Linked
    <3> QED BY <3>1, <3>2, <3>3
  <2>3. DepthInv' /\ SleepInv' /\ SortedInv'
    BY <2>1, DataFrame DEF IInv, DepthInv, FreedBefore, SleepInv, SortedInv
  <2>4. WriteInv' /\ EntriesRight'
    BY <2>1, WritingFrame
  <2> QED BY <2>2, <2>3, <2>4 DEF IInv
<1> QED BY <1>1, <1>2, <1>3, <1>4 DEF Next

(* The inductive invariant: a list is the order of reception until its sort *)
(* and mergeSort's order after it, the file holds what stands before ID_cur *)
(* of it, and what was freed belongs to items whose thread has ended.       *)
THEOREM AlwaysIInv == Spec => []IInv
<1>1. Init => IInv
  BY InitIInv
<1>2. IInv /\ [Next]_vars => IInv'
  BY NextKeepsIInv
<1> QED BY <1>1, <1>2, PTL DEF Spec

(* Every variable of createImage.c's state keeps its type, the links of the *)
(* lists and the offsets in the files included.                             *)
THEOREM TypeCorrect == Spec => []TypeOK
<1>1. IInv => TypeOK
  BY DEF IInv
<1> QED BY <1>1, AlwaysIInv, PTL

(* Neither an image thread nor delItemFromImageOfNode reads an item or a    *)
(* packet that was freed, though both work outside of the list's mutex.     *)
THEOREM NothingUsedAfterFree == Spec => []NoUseAfterFree
<1>1. IInv => NoUseAfterFree
  <2> SUFFICES ASSUME IInv PROVE NoUseAfterFree
    OBVIOUS
  <2>1. 0 \notin freed
    BY BasicFacts DEF IInv, FreeInv
  <2>2. ASSUME NEW i \in Items, ipc[i] \notin {"none", "signal", "ended"}
        PROVE  status[i] = "START"
    BY <2>2 DEF IInv, LifeInv, TypeOK
  <2>3. ASSUME NEW i \in Items, ipc[i] = "write" PROVE cur[i] \notin freed /\ prev[i] \notin freed
    <3>1. status[i] = "START"
      BY <2>2, <2>3
    <3>2. \A p \in Of(i) : p \notin freed
      BY <3>1 DEF IInv, FreeInv, Of
    <3> QED BY <2>1, <2>3, <3>2 DEF IInv, LinkInv
  <2>4. dpc \in {"walk", "data"} /\ dCur # 0 => dCur \in Linked
    BY DEF IInv, FreeInv, Linked
  <2>5. ASSUME dpc = "data" PROVE dPacket \notin freed
    <3> SUFFICES ASSUME dPacket # 0, dPacket \in freed PROVE FALSE
      BY <2>1
    <3>1. PICK depth \in [Packets -> Nat] : FreedBefore(depth)
      BY DEF IInv, DepthInv
    <3>2. dPacket \in Of(dCur)
      BY <2>5 DEF IInv, FreeInv, LinkInv
    <3>3. dPacket \in Packets /\ packet[dPacket].item = dCur
      BY <3>2, BasicFacts DEF Of
    <3>4. depth[dPacket] < depth[dPacket] /\ depth[dPacket] \in Nat
      BY <2>5, <3>1, <3>3 DEF FreedBefore
    <3> QED BY <3>4
  <2> QED BY <2>2, <2>3, <2>4, <2>5 DEF NoUseAfterFree
<1> QED BY <1>1, AlwaysIInv, PTL

(* The file of an image is written by the thread of the image's first item  *)
(* alone: an item made for a late fragment finds the file and leaves it.    *)
THEOREM OneWriter == Spec => []WrittenByOne
<1>1. IInv => WrittenByOne
  <2> SUFFICES ASSUME IInv, NEW g \in Images, NEW k \in DOMAIN file[g]
               PROVE  /\ file[g][k].item = file[g][1].item
                      /\ \A i \in 1..file[g][1].item - 1 : image[i] # g
    BY DEF WrittenByOne
  <2>1. 1 \in DOMAIN file[g]
    <3> DEFINE E == [item : Items, no : Sequences, at : Nat]
    <3>1. file[g] \in Seq(E)
      BY DEF IInv, TypeOK
    <3> HIDE DEF E
    <3> QED BY <3>1
  <2>2. FirstOf(file[g][k].item, g) /\ FirstOf(file[g][1].item, g)
    BY <2>1 DEF IInv, WriterInv
  <2> QED BY <2>2, FirstOfUnique DEF FirstOf
<1> QED BY <1>1, AlwaysIInv, PTL

(* What makeOneImageFileOneAddr writes: every fragment received before the  *)
(* sort, once, in order and where it stands in the image.                   *)
THEOREM FileRight == Spec => []FileIsRight
<1>1. IInv => FileIsRight
  <2> SUFFICES ASSUME IInv, NEW g \in Images, NEW k \in DOMAIN file[g], ~late[file[g][k].item]
               PROVE  LET f == file[g][k]
                      IN  /\ k > 1 => file[g][k - 1].no < f.no
                          /\ ipc[f.item] # "write" =>
                                Got(f.item) = {file[g][m].no : m \in DOMAIN file[g]}
                          /\ ~FirstGapUnpadded(f.item) /\ f.no # Fragments - 1 =>
                                f.at = f.no * FullSize
    BY DEF FileIsRight
  <2>1. file[g][k].item \in Items
    BY DEF IInv, WriterInv, FirstOf
  <2>2. EntryRight(g, k, file[g][k].item)
    BY <2>1 DEF IInv, EntriesRight
  <2> QED BY <2>2 DEF EntryRight, Numbers
<1> QED BY <1>1, AlwaysIInv, PTL

(* One item at a time: what is said of item i stays true of it. *)
Noticed(i) ==
    \/ signals > 0
    \/ \E j \in Items : ipc[j] = "signal"
    \/ dpc \in {"walk", "data"} /\ dCur # 0 /\ dCur <= i

LEMMA ReceiverNotices ==
    ASSUME IInv, Receiver, NEW i \in Items, status'[i] = "EXIT", status[i] = "EXIT" => Noticed(i)
    PROVE  Noticed(i)'
<1>1. UNCHANGED <<signals, dpc, dCur>>
  BY DEF Receiver, AddPacket, FindItem, delVars
<1>2. status[i] = "EXIT" /\ \A j \in Items : ipc[j] = "signal" => ipc'[j] = "signal"
  <2>1. CASE AddPacket
    BY <2>1 DEF AddPacket, listVars, imageVars
  <2>2. CASE \E g \in Images, no \in Sequences : FindItem(g, no)
    <3>1. PICK g \in Images, no \in Sequences : FindItem(g, no)
      BY <2>2
    <3>2. CASE UNCHANGED <<status, ipc>>
      BY <3>2
    <3>3. CASE /\ rItem' = Len(image) + 1
               /\ status' = [status EXCEPT ![rItem'] = "START"]
               /\ ipc' = [ipc EXCEPT ![rItem'] = "sleep"]
      <4>1. \A j \in Items : j = Len(image) + 1 => ipc[j] = "none"
        BY BasicFacts DEF IInv, LifeInv
      <4>2. \A j \in Items : /\ status'[j] = IF j = rItem' THEN "START" ELSE status[j]
                             /\ ipc'[j] = IF j = rItem' THEN "sleep" ELSE ipc[j]
        BY <3>3 DEF IInv, TypeOK
      <4> QED BY <3>3, <4>1, <4>2
    <3> QED BY <3>1, <3>2, <3>3 DEF FindItem, listVars
  <2> QED BY <2>1, <2>2 DEF Receiver
<1> QED BY <1>1, <1>2 DEF Noticed

LEMMA ImageThreadNotices ==
    ASSUME IInv, NEW k \in Items, ImageThread(k), NEW i \in Items, status'[i] = "EXIT",
           status[i] = "EXIT" => Noticed(i)
    PROVE  Noticed(i)'
<1>1. CASE Exit(k)
  <2>1. ipc'[k] = "signal"
    BY <1>1 DEF Exit, IInv, TypeOK
  <2> QED BY <2>1 DEF Noticed
<1>2. CASE SignalDelItem(k)
  <2>1. signals' > 0
    BY <1>2 DEF SignalDelItem, IInv, TypeOK
  <2> QED BY <2>1 DEF Noticed
<1>3. CASE Sort(k) \/ OpenFile(k) \/ WritePacket(k) \/ CloseFile(k)
  <2>1. UNCHANGED <<status, signals, dpc, dCur>>
    BY <1>3 DEF Sort, OpenFile, WritePacket, CloseFile, listVars, delVars
  <2>2. ipc[k] # "signal" /\ \A j \in Items : j # k => ipc'[j] = ipc[j]
    <3>1. CASE Sort(k)
      BY <3>1 DEF Sort, IInv, TypeOK
    <3>2. CASE OpenFile(k)
      BY <3>2 DEF OpenFile, IInv, TypeOK
    <3>3. CASE WritePacket(k)
      BY <3>3 DEF WritePacket
    <3>4. CASE CloseFile(k)
      BY <3>4 DEF CloseFile, IInv, TypeOK
    <3> QED BY <1>3, <3>1, <3>2, <3>3, <3>4
  <2> QED BY <2>1, <2>2 DEF Noticed
<1> QED BY <1>1, <1>2, <1>3 DEF ImageThread

LEMMA DeleterNotices ==
    ASSUME IInv, Deleter, NEW i \in Items, status'[i] = "EXIT", status[i] = "EXIT" => Noticed(i)
    PROVE  Noticed(i)'
<1>0. i \in Nat /\ 0 < i /\ (status[i] = "EXIT" => i \in Linked)
  BY ConstantsAssumption DEF Items, Linked
<1>1. CASE WaitDelItem
  <2>1. i \in Linked /\ dCur' = NextItem(0) /\ dpc' = "walk"
    BY <1>0, <1>1 DEF WaitDelItem, listVars
  <2>2. 0 \in Nat
    OBVIOUS
  <2>3. NextItem(0) # 0 /\ NextItem(0) <= i
    BY <1>0, <2>1, <2>2, NextItemFacts
  <2> QED BY <2>1, <2>3 DEF Noticed
<1>2. CASE Walk
  <2>1. UNCHANGED <<status, ipc, signals>> /\ dpc = "walk" /\ dCur # 0 /\ dCur \in Items
    BY <1>2 DEF Walk, listVars, imageVars, IInv, FreeInv, Linked
  <2>2. CASE status[dCur] = "EXIT"
    BY <1>2, <2>1, <2>2 DEF Walk, Noticed
  <2>3. CASE status[dCur] # "EXIT"
    <3>1. dCur' = NextItem(dCur) /\ dpc' = "walk" /\ dCur \in Nat /\ dCur # i
      BY <1>2, <2>1, <2>3, BasicFacts DEF Walk
    <3>2. dCur < i => NextItem(dCur) # 0 /\ NextItem(dCur) <= i
      BY <1>0, <2>1, <3>1, NextItemFacts
    <3>3. dCur <= i => dCur < i
      BY <1>0, <3>1
    <3> QED BY <2>1, <3>1, <3>2, <3>3 DEF Noticed
  <2> QED BY <2>2, <2>3
<1>3. CASE WalkEnd
  BY <1>3 DEF WalkEnd, Noticed, listVars, imageVars
<1>4. CASE FreePacket
  BY <1>4 DEF FreePacket, Noticed, listVars, imageVars
<1>5. CASE FreeItem
  <2>1. /\ UNCHANGED <<ipc, signals>> /\ dpc = "data" /\ dpc' = "walk" /\ dCur' = NextItem(dCur)
        /\ status' = [status EXCEPT ![dCur] = "FREED"]
    BY <1>5 DEF FreeItem, imageVars
  <2>2. dCur \in Items /\ dCur \in Nat
    BY <2>1, BasicFacts DEF IInv, FreeInv
  <2>3. dCur # i /\ status[i] = "EXIT"
    BY <2>1, <2>2 DEF IInv, TypeOK
  <2>4. dCur < i => NextItem(dCur) # 0 /\ NextItem(dCur) <= i
    BY <1>0, <2>2, <2>3, NextItemFacts
  <2>5. dCur <= i => dCur < i
    BY <1>0, <2>2, <2>3
  <2> QED BY <2>1, <2>3, <2>4, <2>5 DEF Noticed
<1> QED BY <1>1, <1>2, <1>3, <1>4, <1>5 DEF Deleter

(* An item whose thread has set THREAD_EXIT is not forgotten: a signal is   *)
(* pending or on its way, or the deleting thread has yet to come by it.     *)
THEOREM NoItemForgotten == Spec => []EndedIsNoticed
<1>1. Init => EndedIsNoticed
  BY DEF Init, EndedIsNoticed
<1>2. IInv /\ EndedIsNoticed /\ [Next]_vars => EndedIsNoticed'
  <2> SUFFICES ASSUME IInv, EndedIsNoticed, [Next]_vars, NEW i \in Items, status'[i] = "EXIT"
               PROVE  Noticed(i)'
    BY DEF EndedIsNoticed, Noticed
  <2>1. status[i] = "EXIT" => Noticed(i)
    BY DEF EndedIsNoticed, Noticed
  <2>2. CASE Receiver
    BY <2>1, <2>2, ReceiverNotices
  <2>3. CASE \E k \in Items : ImageThread(k)
    BY <2>1, <2>3, ImageThreadNotices
  <2>4. CASE Deleter
    BY <2>1, <2>4, DeleterNotices
  <2>5. CASE UNCHANGED vars
    BY <2>1, <2>5 DEF Noticed, vars, listVars, imageVars, delVars
  <2> QED BY <2>2, <2>3, <2>4, <2>5 DEF Next
<1> QED BY <1>1, <1>2, AlwaysIInv, PTL DEF Spec
=============================================================================
