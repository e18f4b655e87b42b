------------------------------ MODULE ListSort ------------------------------
(***************************************************************************)
(* The merge sort of serverImageReceiver.c, on the keys of a list:         *)
(* mergeSort_packetData sorts the packets of one image by sequence_number. *)
(* (mergeSort_imageData sorts the images by image_number with the same     *)
(* statements; nothing reads that order.)                                  *)
(***************************************************************************)
EXTENDS Integers, Sequences, FiniteSets

(***************************************************************************)
(* merge_packetData: the left key is taken only when it is strictly        *)
(* smaller, so of two equal keys the right one comes first.                *)
(***************************************************************************)
Merge[p \in Seq(Nat) \X Seq(Nat)] ==
    LET l == p[1]
        r == p[2]
    IN IF l = <<>> THEN r
       ELSE IF r = <<>> THEN l
       ELSE IF Head(l) < Head(r) THEN <<Head(l)>> \o Merge[<<Tail(l), r>>]
       ELSE <<Head(r)>> \o Merge[<<l, Tail(r)>>]

MergeSort[s \in Seq(Nat)] ==
    IF Len(s) <= 1 THEN s
    ELSE LET left == Len(s) \div 2
         IN Merge[<<MergeSort[SubSeq(s, 1, left)],
                    MergeSort[SubSeq(s, left + 1, Len(s))]>>]

(* Mutant: a repeated fragment counts again.                               *)
CountAll(s) == Len(s)

(***************************************************************************)
(* The scan that follows the sort: a key counts when it differs from the   *)
(* one before it (the first one always: last_seq is 65535 before it, which *)
(* is no fragment's number).                                               *)
(***************************************************************************)
CountNew(s) ==
    Cardinality({i \in DOMAIN s : i = 1 \/ s[i] # s[i - 1]})
=============================================================================
