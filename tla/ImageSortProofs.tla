-------------------------- MODULE ImageSortProofs ---------------------------
(***************************************************************************)
(* What the list operations of createImage.c return: the walk along the    *)
(* links of a list, merge and mergeSort, for lists of any length.          *)
(***************************************************************************)
EXTENDS ImageStore, DataLemmas

Received == DOMAIN packet

(* The order mergeSort makes: by number, of equal numbers the later packet  *)
(* first.                                                                   *)
Lt(p, q) == packet[p].no < packet[q].no \/ (packet[p].no = packet[q].no /\ p > q)

Sorted(s) == \A j, k \in DOMAIN s : j < k => Lt(s[j], s[k])
Increasing(s) == \A j, k \in DOMAIN s : j < k => s[j] < s[k]

PacketsOK == packet \in Seq([item : Items, no : Sequences]) /\ Len(packet) <= MaxPackets
-----------------------------------------------------------------------------
LEMMA ReceivedFacts ==
    ASSUME PacketsOK
    PROVE  /\ Received \in SUBSET Packets
           /\ Received \in SUBSET Nat
           /\ \A p \in Received : packet[p].no \in Nat /\ packet[p].no \in Sequences
           /\ \A p \in Received : packet[p].item \in Items
<1> DEFINE R == [item : Items, no : Sequences]
<1>1. packet \in Seq(R)
  BY DEF PacketsOK
<1>2. \A p \in Received : packet[p] \in R
  <2> HIDE DEF R
  <2> QED BY <1>1 DEF Received
<1>3. \A p \in Received : packet[p].no \in Sequences /\ packet[p].item \in Items
  <2> HIDE DEF Sequences, Items
  <2> QED BY <1>2
<1>4. Received = 1..Len(packet) /\ Len(packet) \in Nat
  <2> HIDE DEF R
  <2> QED BY <1>1 DEF Received
<1>5. \A n \in Sequences : n \in Nat
  BY ConstantsAssumption DEF Sequences
<1>6. Received \in SUBSET Packets
  BY <1>4, ConstantsAssumption DEF PacketsOK, Packets
<1> QED BY <1>3, <1>4, <1>5, <1>6

LEMMA LtFacts ==
    ASSUME PacketsOK
    PROVE  /\ \A p \in Received : ~Lt(p, p)
           /\ \A p, q, r \in Received : Lt(p, q) /\ Lt(q, r) => Lt(p, r)
           /\ \A p, q \in Received : p # q => Lt(p, q) \/ Lt(q, p)
           /\ \A p, q \in Received : ~(Lt(p, q) /\ Lt(q, p))
<1>1. Received \in SUBSET Nat /\ \A p \in Received : packet[p].no \in Nat
  BY ReceivedFacts
<1> QED BY <1>1 DEF Lt

-----------------------------------------------------------------------------
(* merge obeys its own equation on all pairs of lists. *)
LEMMA MergeEquation ==
    ASSUME NEW l \in Seq(Packets), NEW r \in Seq(Packets)
    PROVE  /\ l = <<>> => merge[<<l, r>>] = r
           /\ l # <<>> /\ r = <<>> => merge[<<l, r>>] = l
           /\ l # <<>> /\ r # <<>> =>
                 merge[<<l, r>>] =
                    IF packet[Head(l)].no < packet[Head(r)].no
                    THEN <<Head(l)>> \o merge[<<Tail(l), r>>]
                    ELSE <<Head(r)>> \o merge[<<l, Tail(r)>>]
<1> DEFINE V == Seq(Packets)
           D == V \X V
           m == [x \in D |-> Len(x[1]) + Len(x[2])]
           body(x, f) ==
             IF x[1] = <<>> THEN x[2]
             ELSE IF x[2] = <<>> THEN x[1]
             ELSE IF packet[Head(x[1])].no < packet[Head(x[2])].no
                  THEN <<Head(x[1])>> \o f[<<Tail(x[1]), x[2]>>]
             ELSE <<Head(x[2])>> \o f[<<x[1], Tail(x[2])>>]
           step == [y \in D \X [D -> V] |-> body(y[1], y[2])]
<1>1. m \in [D -> Nat] /\ \A a, b \in V : m[<<a, b>>] = Len(a) + Len(b)
  <2>1. \A a, b \in V : Len(a) + Len(b) \in Nat
    OBVIOUS
  <2> HIDE DEF V
  <2> QED BY <2>1
<1>2. ASSUME NEW a \in V, NEW b \in V, a # <<>>, b # <<>>
      PROVE  /\ <<Tail(a), b>> \in D /\ m[<<Tail(a), b>>] < m[<<a, b>>]
             /\ <<a, Tail(b)>> \in D /\ m[<<a, Tail(b)>>] < m[<<a, b>>]
             /\ Head(a) \in Packets /\ Head(b) \in Packets
  <2> HIDE DEF V, m
  <2>1. /\ Tail(a) \in V /\ Tail(b) \in V /\ Head(a) \in Packets /\ Head(b) \in Packets
        /\ Len(Tail(a)) = Len(a) - 1 /\ Len(Tail(b)) = Len(b) - 1
        /\ Len(a) \in Nat /\ Len(b) \in Nat
    BY <1>2, HeadTailFacts DEF V
  <2>2. /\ m[<<a, b>>] = Len(a) + Len(b)
        /\ m[<<Tail(a), b>>] = Len(Tail(a)) + Len(b)
        /\ m[<<a, Tail(b)>>] = Len(a) + Len(Tail(b))
    BY <1>1, <2>1
  <2>3. <<Tail(a), b>> \in D /\ <<a, Tail(b)>> \in D
    BY <2>1
  <2> QED BY <2>1, <2>2, <2>3
<1>3. ASSUME NEW x \in D, NEW f \in [D -> V] PROVE body(x, f) \in V
  <2>1. PICK a \in V, b \in V : x = <<a, b>>
    OBVIOUS
  <2>2. CASE a = <<>> \/ b = <<>>
    BY <2>1, <2>2
  <2>3. CASE a # <<>> /\ b # <<>>
    <3>1. /\ f[<<Tail(a), b>>] \in V /\ f[<<a, Tail(b)>>] \in V
          /\ Head(a) \in Packets /\ Head(b) \in Packets
      <4> HIDE DEF V, m, D
      <4> QED BY <1>2, <2>3
    <3>2. <<Head(a)>> \o f[<<Tail(a), b>>] \in V /\ <<Head(b)>> \o f[<<a, Tail(b)>>] \in V
      BY <3>1, ConsFacts
    <3> HIDE DEF V
    <3> QED BY <2>1, <2>3, <3>2
  <2> QED BY <2>2, <2>3
<1>4. step \in [D \X [D -> V] -> V]
  <2> HIDE DEF body, D, V
  <2> QED BY <1>3
<1>5. ASSUME NEW x \in D, NEW f \in [D -> V], NEW g \in [D -> V],
             \A y \in D : m[y] < m[x] => f[y] = g[y]
      PROVE  step[<<x, f>>] = step[<<x, g>>]
  <2>1. PICK a \in V, b \in V : x = <<a, b>>
    OBVIOUS
  <2>2. body(x, f) = body(x, g)
    <3>1. CASE a = <<>> \/ b = <<>>
      BY <2>1, <3>1
    <3>2. CASE a # <<>> /\ b # <<>>
      <4>1. f[<<Tail(a), b>>] = g[<<Tail(a), b>>] /\ f[<<a, Tail(b)>>] = g[<<a, Tail(b)>>]
        <5> HIDE DEF V, m, D
        <5> QED BY <1>2, <1>5, <2>1, <3>2
      <4> HIDE DEF V, m, D
      <4> QED BY <2>1, <4>1
    <3> QED BY <3>1, <3>2
  <2> HIDE DEF body, D, V
  <2> QED BY <2>2
<1>6. V # {}
  <2>1. <<>> \in V
    OBVIOUS
  <2> QED BY <2>1
<1>7. PICK f \in [D -> V] : \A x \in D : f[x] = step[<<x, f>>]
  <2>1. m \in [D -> Nat]
    BY <1>1
  <2>2. \A x \in D : \A f, g \in [D -> V] :
            (\A y \in D : m[y] < m[x] => f[y] = g[y]) => step[<<x, f>>] = step[<<x, g>>]
    <3> HIDE DEF V, D, m, step
    <3> QED BY <1>5
  <2> HIDE DEF V, D, m, step
  <2>3. LooksBelow(D, V, m, step)
    BY <2>1, <2>2, <1>4, <1>6 DEF LooksBelow
  <2> QED BY <2>3, RecursionNat
<1> DEFINE F(g) == [x \in D |-> body(x, g)]
<1>8. f = F(f)
  <2>1. \A x \in D : f[x] = body(x, f)
    <3> HIDE DEF body, V
    <3> QED BY <1>7
  <2> HIDE DEF D, V, body
  <2> QED BY <2>1
<1>9. merge = F(merge)
  <2>1. merge = CHOOSE g : g = F(g)
    BY DEF merge
  <2> HIDE DEF F
  <2> QED BY <1>8, <2>1
<1>10. merge[<<l, r>>] = body(<<l, r>>, merge)
  <2> <<l, r>> \in D
    OBVIOUS
  <2> HIDE DEF D, V, body
  <2> QED BY <1>9
<1> QED BY <1>10

(* merge returns a list. *)
LEMMA MergeType == \A l, r \in Seq(Packets) : merge[<<l, r>>] \in Seq(Packets)
<1> DEFINE V == Seq(Packets)
           Bad == {n \in Nat : \E l, r \in V : n = Len(l) + Len(r) /\ merge[<<l, r>>] \notin V}
<1>1. \A l, r \in V : Len(l) + Len(r) \in Nat
  OBVIOUS
<1> SUFFICES ASSUME Bad # {} PROVE FALSE
  <2> HIDE DEF V
  <2> QED BY <1>1 DEF V
<1>2. PICK n \in Bad : \A k \in Bad : n <= k
  <2> HIDE DEF Bad
  <2> Bad \in SUBSET Nat
    BY DEF Bad
  <2> QED BY LeastNat
<1>3. PICK l \in V, r \in V : n = Len(l) + Len(r) /\ merge[<<l, r>>] \notin V
  OBVIOUS
<1>4. l # <<>> /\ r # <<>>
  BY <1>3, MergeEquation
<1>5. /\ Head(l) \in Packets /\ Tail(l) \in V /\ Len(Tail(l)) = Len(l) - 1
      /\ Head(r) \in Packets /\ Tail(r) \in V /\ Len(Tail(r)) = Len(r) - 1
      /\ Len(l) \in Nat /\ Len(r) \in Nat
  BY <1>4, HeadTailFacts
<1>6. merge[<<Tail(l), r>>] \in V /\ merge[<<l, Tail(r)>>] \in V
  <2>1. Len(Tail(l)) + Len(r) < n /\ Len(l) + Len(Tail(r)) < n
    BY <1>3, <1>5
  <2> HIDE DEF V
  <2>2. Len(Tail(l)) + Len(r) \notin Bad /\ Len(l) + Len(Tail(r)) \notin Bad
    <3> HIDE DEF Bad
    <3>1. Bad \in SUBSET Nat
      BY DEF Bad
    <3> QED BY <1>1, <1>2, <1>5, <2>1, <3>1
  <2> QED BY <1>1, <1>5, <2>2
<1>7. <<Head(l)>> \o merge[<<Tail(l), r>>] \in V /\ <<Head(r)>> \o merge[<<l, Tail(r)>>] \in V
  BY <1>5, <1>6, ConsFacts
<1> QED BY <1>3, <1>4, <1>7, MergeEquation

(* A packet before the first of a sorted list goes in front of it. *)
LEMMA ConsSorted ==
    ASSUME PacketsOK, NEW p \in Received, NEW s \in Seq(Received), Sorted(s),
           \A q \in Members(s) : Lt(p, q)
    PROVE  Sorted(<<p>> \o s)
<1> DEFINE c == <<p>> \o s
<1>1. /\ c[1] = p /\ DOMAIN c \in SUBSET Nat
      /\ \A k \in DOMAIN c : k = 1 \/ (k - 1 \in DOMAIN s /\ c[k] = s[k - 1])
      /\ DOMAIN c \in SUBSET (Nat \ {0})
  BY ConsFacts
<1>2. ASSUME NEW j \in DOMAIN c, NEW k \in DOMAIN c, j < k PROVE Lt(c[j], c[k])
  <2> HIDE DEF c
  <2>1. k # 1 /\ k - 1 \in DOMAIN s /\ c[k] = s[k - 1]
    BY <1>1, <1>2
  <2>2. CASE j = 1
    BY <1>1, <2>1, <2>2 DEF Members
  <2>3. CASE j # 1
    <3>1. j - 1 \in DOMAIN s /\ c[j] = s[j - 1]
      BY <1>1, <2>3
    <3>2. j - 1 < k - 1
      BY <1>1, <1>2
    <3> QED BY <2>1, <3>1, <3>2 DEF Sorted
  <2> QED BY <2>2, <2>3
<1> QED BY <1>2 DEF Sorted

(* A sorted list begins with its least packet, and stays sorted without it. *)
LEMMA SortedTail ==
    ASSUME NEW s \in Seq(Received), s # <<>>, Sorted(s)
    PROVE  Sorted(Tail(s)) /\ \A q \in Members(Tail(s)) : Lt(Head(s), q)
<1>1. /\ Head(s) = s[1] /\ 1 \in DOMAIN s
      /\ \A k \in DOMAIN Tail(s) : k \in Nat \ {0} /\ k + 1 \in DOMAIN s /\ Tail(s)[k] = s[k + 1]
  BY HeadTailFacts
<1> HIDE DEF Received
<1>2. ASSUME NEW j \in DOMAIN Tail(s), NEW k \in DOMAIN Tail(s), j < k
      PROVE  Lt(Tail(s)[j], Tail(s)[k])
  <2>1. j + 1 < k + 1
    BY <1>1, <1>2
  <2> QED BY <1>1, <2>1 DEF Sorted
<1>3. ASSUME NEW k \in DOMAIN Tail(s) PROVE Lt(Head(s), Tail(s)[k])
  <2>1. 1 < k + 1
    BY <1>1
  <2> QED BY <1>1, <2>1 DEF Sorted
<1> QED BY <1>2, <1>3 DEF Sorted, Members

(* Two sorted lists, of which one was received before the other, are merged *)
(* into a sorted list of the packets of both.                               *)
Mergeable(l, r) ==
    /\ Sorted(l) /\ Sorted(r)
    /\ \A p \in Members(l), q \in Members(r) : p < q

LEMMA MergeFacts ==
    ASSUME PacketsOK
    PROVE  \A l, r \in Seq(Received) : Mergeable(l, r) =>
              /\ merge[<<l, r>>] \in Seq(Received)
              /\ Sorted(merge[<<l, r>>])
              /\ Members(merge[<<l, r>>]) = Members(l) \cup Members(r)
<1> DEFINE V == Seq(Received)
           Good(l, r) == /\ merge[<<l, r>>] \in V
                         /\ Sorted(merge[<<l, r>>])
                         /\ Members(merge[<<l, r>>]) = Members(l) \cup Members(r)
           Bad == {n \in Nat : \E l, r \in V : n = Len(l) + Len(r) /\ Mergeable(l, r) /\ ~Good(l, r)}
<1>1. \A l, r \in V : Len(l) + Len(r) \in Nat
  OBVIOUS
<1> SUFFICES ASSUME Bad # {} PROVE FALSE
  <2> HIDE DEF V, Good
  <2> SUFFICES \A l, r \in V : Mergeable(l, r) => Good(l, r)
    BY DEF V, Good
  <2> QED BY <1>1
<1>2. PICK n \in Bad : \A k \in Bad : n <= k
  <2> HIDE DEF Bad
  <2> Bad \in SUBSET Nat
    BY DEF Bad
  <2> QED BY LeastNat
<1>3. PICK l \in V, r \in V : n = Len(l) + Len(r) /\ Mergeable(l, r) /\ ~Good(l, r)
  <2> HIDE DEF V, Good
  <2> QED BY DEF Bad
<1>4. Received \in SUBSET Packets /\ \A s \in V : s \in Seq(Packets)
  BY ReceivedFacts
<1>5. Members(<<>>) = {}
  BY DEF Members
<1>6. l # <<>> /\ r # <<>>
  <2>1. CASE l = <<>>
    BY <1>3, <1>4, <1>5, <2>1, MergeEquation, ZenonT(60) DEF Mergeable
  <2>2. CASE l # <<>> /\ r = <<>>
    <3>1. merge[<<l, r>>] = l
      BY <1>4, <2>2, MergeEquation
    <3>2. Members(r) = {}
      BY <1>5, <2>2
    <3> QED BY <1>3, <3>1, <3>2 DEF Mergeable
  <2> QED BY <1>3, <2>1, <2>2
<1>7. /\ Head(l) \in Received /\ Tail(l) \in V /\ Len(Tail(l)) = Len(l) - 1
      /\ Head(r) \in Received /\ Tail(r) \in V /\ Len(Tail(r)) = Len(r) - 1
      /\ Len(l) \in Nat /\ Len(r) \in Nat
      /\ Members(l) = {Head(l)} \cup Members(Tail(l))
      /\ Members(r) = {Head(r)} \cup Members(Tail(r))
  BY <1>6, HeadTailFacts
<1>8. /\ Sorted(Tail(l)) /\ \A q \in Members(Tail(l)) : Lt(Head(l), q)
      /\ Sorted(Tail(r)) /\ \A q \in Members(Tail(r)) : Lt(Head(r), q)
  BY <1>3, <1>6, SortedTail DEF Mergeable
<1>9. Mergeable(Tail(l), r) /\ Mergeable(l, Tail(r))
  BY <1>3, <1>7, <1>8 DEF Mergeable
<1>10. Good(Tail(l), r) /\ Good(l, Tail(r))
  <2>1. Len(Tail(l)) + Len(r) < n /\ Len(l) + Len(Tail(r)) < n
    BY <1>3, <1>7
  <2> HIDE DEF V, Good
  <2>2. Len(Tail(l)) + Len(r) \notin Bad /\ Len(l) + Len(Tail(r)) \notin Bad
    <3> HIDE DEF Bad
    <3>1. Bad \in SUBSET Nat
      BY DEF Bad
    <3> QED BY <1>1, <1>2, <1>7, <2>1, <3>1
  <2> QED BY <1>1, <1>7, <1>9, <2>2
<1>11. \A s \in V : Members(s) \subseteq Received
  BY DEF Members
<1>12. Head(l) \in Members(l) /\ Head(r) \in Members(r)
  BY <1>7
<1>13. CASE packet[Head(l)].no < packet[Head(r)].no
  <2> DEFINE t == merge[<<Tail(l), r>>]
  <2>1. merge[<<l, r>>] = <<Head(l)>> \o t
    BY <1>4, <1>6, <1>13, MergeEquation
  <2>2. t \in V /\ Sorted(t) /\ Members(t) = Members(Tail(l)) \cup Members(r)
    BY <1>10
  <2> HIDE DEF t, V
  <2>3. Lt(Head(l), Head(r))
    BY <1>13 DEF Lt
  <2>4. \A q \in Members(r) : Lt(Head(l), q)
    BY <1>7, <1>8, <1>11, <2>3, LtFacts
  <2>5. Sorted(<<Head(l)>> \o t)
    BY <1>7, <1>8, <2>2, <2>4, ConsSorted DEF V
  <2>6. <<Head(l)>> \o t \in V /\ Members(<<Head(l)>> \o t) = {Head(l)} \cup Members(t)
    BY <1>7, <2>2, ConsFacts DEF V
  <2> QED BY <1>3, <1>7, <2>1, <2>2, <2>5, <2>6
<1>14. CASE ~(packet[Head(l)].no < packet[Head(r)].no)
  <2> DEFINE t == merge[<<l, Tail(r)>>]
  <2>1. merge[<<l, r>>] = <<Head(r)>> \o t
    BY <1>4, <1>6, <1>14, MergeEquation
  <2>2. t \in V /\ Sorted(t) /\ Members(t) = Members(l) \cup Members(Tail(r))
    BY <1>10
  <2> HIDE DEF t, V
  <2>3. Lt(Head(r), Head(l))
    <3>1. packet[Head(l)].no \in Nat /\ packet[Head(r)].no \in Nat
      BY <1>7, ReceivedFacts
    <3>2. Head(l) < Head(r) /\ Head(l) \in Nat /\ Head(r) \in Nat
      BY <1>3, <1>7, <1>12, ReceivedFacts DEF Mergeable
    <3> QED BY <1>14, <3>1, <3>2 DEF Lt
  <2>4. \A q \in Members(l) : Lt(Head(r), q)
    BY <1>7, <1>8, <1>11, <2>3, LtFacts
  <2>5. Sorted(<<Head(r)>> \o t)
    BY <1>7, <1>8, <2>2, <2>4, ConsSorted DEF V
  <2>6. <<Head(r)>> \o t \in V /\ Members(<<Head(r)>> \o t) = {Head(r)} \cup Members(t)
    BY <1>7, <2>2, ConsFacts DEF V
  <2> QED BY <1>3, <1>7, <2>1, <2>2, <2>5, <2>6
<1> QED BY <1>13, <1>14
-----------------------------------------------------------------------------
(* mergeSort obeys its own equation on all lists. *)
LEMMA MergeSortEquation ==
    ASSUME NEW s \in Seq(Packets)
    PROVE  /\ Len(s) <= 1 => mergeSort[s] = s
           /\ Len(s) > 1 =>
                 mergeSort[s] = merge[<<mergeSort[Left(s)], mergeSort[Right(s)]>>]
<1> DEFINE V == Seq(Packets)
           m == [t \in V |-> Len(t)]
           body(t, f) == IF Len(t) <= 1 THEN t ELSE merge[<<f[Left(t)], f[Right(t)]>>]
           step == [y \in V \X [V -> V] |-> body(y[1], y[2])]
<1>1. m \in [V -> Nat]
  OBVIOUS
<1>2. ASSUME NEW t \in V, ~(Len(t) <= 1)
      PROVE  /\ Left(t) \in V /\ m[Left(t)] < m[t]
             /\ Right(t) \in V /\ m[Right(t)] < m[t]
  <2>1. Len(t) > 1
    BY <1>2
  <2>2. Left(t) \in V /\ Len(Left(t)) < Len(t) /\ Right(t) \in V /\ Len(Right(t)) < Len(t)
    BY <2>1, HalvesFacts
  <2> HIDE DEF V
  <2> QED BY <2>2
<1>3. ASSUME NEW t \in V, NEW f \in [V -> V] PROVE body(t, f) \in V
  <2>1. CASE Len(t) <= 1
    BY <2>1
  <2>2. CASE ~(Len(t) <= 1)
    <3>1. f[Left(t)] \in V /\ f[Right(t)] \in V
      <4> HIDE DEF V, m
      <4> QED BY <1>2, <2>2
    <3>2. merge[<<f[Left(t)], f[Right(t)]>>] \in V
      BY <3>1, MergeType
    <3> HIDE DEF V
    <3> QED BY <2>2, <3>2
  <2> QED BY <2>1, <2>2
<1>4. step \in [V \X [V -> V] -> V]
  <2> HIDE DEF body, V
  <2> QED BY <1>3
<1>5. \A t \in V : \A f, g \in [V -> V] :
          (\A u \in V : m[u] < m[t] => f[u] = g[u]) => step[<<t, f>>] = step[<<t, g>>]
  <2> SUFFICES ASSUME NEW t \in V, NEW f \in [V -> V], NEW g \in [V -> V],
                      \A u \in V : m[u] < m[t] => f[u] = g[u]
               PROVE  step[<<t, f>>] = step[<<t, g>>]
    <3> HIDE DEF V, m, step
    <3> QED OBVIOUS
  <2>1. body(t, f) = body(t, g)
    <3> HIDE DEF V, m
    <3> QED BY <1>2
  <2> HIDE DEF body, V
  <2> QED BY <2>1
<1>6. V # {}
  <2>1. s \in V
    OBVIOUS
  <2> QED BY <2>1
<1>7. PICK f \in [V -> V] : \A t \in V : f[t] = step[<<t, f>>]
  <2> HIDE DEF V, m, step
  <2>1. LooksBelow(V, V, m, step)
    BY <1>1, <1>4, <1>5, <1>6 DEF LooksBelow
  <2> QED BY <2>1, RecursionNat
<1> DEFINE F(g) == [t \in V |-> body(t, g)]
<1>8. f = F(f)
  <2>1. \A t \in V : f[t] = body(t, f)
    <3> HIDE DEF body, V
    <3> QED BY <1>7
  <2> HIDE DEF V, body
  <2> QED BY <2>1
<1>9. mergeSort = F(mergeSort)
  <2>1. mergeSort = CHOOSE g : g = F(g)
    BY DEF mergeSort, Left, Right
  <2> HIDE DEF F
  <2> QED BY <1>8, <2>1
<1>10. mergeSort[s] = body(s, mergeSort)
  <2> s \in V
    OBVIOUS
  <2> HIDE DEF V, body
  <2> QED BY <1>9
<1>11. Len(s) \in Nat
  OBVIOUS
<1> QED BY <1>10, <1>11

(* mergeSort sorts: what it returns holds the packets it was given, by      *)
(* number, and of equal numbers the one received later first               *)
(* (mergeSort in createImage.c).                                            *)
THEOREM MergeSortFacts ==
    ASSUME PacketsOK
    PROVE  \A s \in Seq(Received) : Increasing(s) =>
              /\ mergeSort[s] \in Seq(Received)
              /\ Sorted(mergeSort[s])
              /\ Members(mergeSort[s]) = Members(s)
<1> DEFINE V == Seq(Received)
           Good(s) == /\ mergeSort[s] \in V
                      /\ Sorted(mergeSort[s])
                      /\ Members(mergeSort[s]) = Members(s)
           Bad == {n \in Nat : \E s \in V : n = Len(s) /\ Increasing(s) /\ ~Good(s)}
<1>1. \A s \in V : Len(s) \in Nat
  OBVIOUS
<1> SUFFICES ASSUME Bad # {} PROVE FALSE
  <2> HIDE DEF V, Good
  <2> SUFFICES \A s \in V : Increasing(s) => Good(s)
    BY DEF V, Good
  <2> QED BY <1>1
<1>2. PICK n \in Bad : \A k \in Bad : n <= k
  <2> HIDE DEF Bad
  <2> Bad \in SUBSET Nat
    BY DEF Bad
  <2> QED BY LeastNat
<1>3. PICK s \in V : n = Len(s) /\ Increasing(s) /\ ~Good(s)
  <2> HIDE DEF V, Good
  <2> QED BY DEF Bad
<1>4. s \in Seq(Packets)
  BY ReceivedFacts
<1>5. Len(s) > 1
  <2> SUFFICES ASSUME Len(s) <= 1 PROVE FALSE
    BY <1>1
  <2>1. mergeSort[s] = s
    BY <1>4, MergeSortEquation
  <2>2. \A j, k \in DOMAIN s : ~(j < k)
    OBVIOUS
  <2>3. Sorted(s)
    BY <2>2 DEF Sorted
  <2> QED BY <1>3, <2>1, <2>3
<1> DEFINE l == Left(s)
           r == Right(s)
<1>6. /\ l \in V /\ r \in V /\ Len(l) < Len(s) /\ Len(r) < Len(s)
      /\ Members(s) = Members(l) \cup Members(r)
  BY <1>5, HalvesFacts
<1>7. PICK half \in Nat : SplitAt(s, half)
  BY <1>5, HalvesFacts
<1>8. /\ \A k \in DOMAIN l : k \in DOMAIN s /\ k <= half /\ l[k] = s[k]
      /\ \A k \in DOMAIN r : half + k \in DOMAIN s /\ k > 0 /\ r[k] = s[half + k]
  BY <1>7 DEF SplitAt
<1>9. mergeSort[s] = merge[<<mergeSort[l], mergeSort[r]>>]
  BY <1>4, <1>5, MergeSortEquation
<1>10. \A t \in V : DOMAIN t \in SUBSET Nat
  OBVIOUS
<1> HIDE DEF l, r
<1>11. Increasing(l) /\ Increasing(r)
  <2>1. ASSUME NEW j \in DOMAIN l, NEW k \in DOMAIN l, j < k PROVE l[j] < l[k]
    <3> HIDE DEF V
    <3> QED BY <1>3, <1>8, <2>1 DEF Increasing
  <2>2. ASSUME NEW j \in DOMAIN r, NEW k \in DOMAIN r, j < k PROVE r[j] < r[k]
    <3>1. half + j < half + k
      BY <1>6, <1>10, <2>2
    <3> HIDE DEF V
    <3>2. /\ half + j \in DOMAIN s /\ r[j] = s[half + j]
          /\ half + k \in DOMAIN s /\ r[k] = s[half + k]
      BY <1>8
    <3> QED BY <1>3, <3>1, <3>2 DEF Increasing
  <2> QED BY <2>1, <2>2 DEF Increasing
<1>12. Good(l) /\ Good(r)
  <2> HIDE DEF V, Good
  <2>1. Len(l) \notin Bad /\ Len(r) \notin Bad
    <3> HIDE DEF Bad
    <3>1. Bad \in SUBSET Nat
      BY DEF Bad
    <3> QED BY <1>1, <1>2, <1>3, <1>6, <3>1
  <2> QED BY <1>1, <1>6, <1>11, <2>1
<1>13. \A p \in Members(l), q \in Members(r) : p < q
  <2> SUFFICES ASSUME NEW j \in DOMAIN l, NEW k \in DOMAIN r PROVE l[j] < r[k]
    BY DEF Members
  <2>1. j < half + k
    BY <1>6, <1>8, <1>10
  <2> HIDE DEF V
  <2> QED BY <1>3, <1>8, <2>1 DEF Increasing
<1>14. Mergeable(mergeSort[l], mergeSort[r])
  BY <1>12, <1>13 DEF Mergeable
<1>15. Good(s)
  BY <1>6, <1>9, <1>12, <1>14, MergeFacts
<1> QED BY <1>3, <1>15
-----------------------------------------------------------------------------
(* Links that lead nowhere twice: each step along them goes down.           *)
LinksDown(depth) ==
    /\ depth \in [Packets -> Nat]
    /\ next \in [Packets -> 0..MaxPackets]
    /\ \A p \in Packets : next[p] # 0 => depth[next[p]] < depth[p]

LEMMA ChainEquation ==
    ASSUME NEW depth, LinksDown(depth)
    PROVE  /\ Chain[0] = <<>>
           /\ \A p \in Packets : Chain[p] = <<p>> \o Chain[next[p]]
<1> DEFINE D == 0..MaxPackets
           V == Seq(Packets)
           m == [p \in D |-> IF p = 0 THEN 0 ELSE depth[p] + 1]
           body(p, f) == IF p = 0 THEN <<>> ELSE <<p>> \o f[next[p]]
           step == [y \in D \X [D -> V] |-> body(y[1], y[2])]
<1>1. /\ 0 \in D
      /\ \A p \in D : p # 0 => p \in Packets
      /\ \A p \in Packets : p \in D /\ p # 0
  BY ConstantsAssumption DEF Packets
<1>2. /\ depth \in [Packets -> Nat]
      /\ \A p \in Packets : next[p] \in D
      /\ \A p \in Packets : next[p] # 0 => depth[next[p]] < depth[p]
  BY DEF LinksDown
<1>3. m \in [D -> Nat]
  <2>1. \A p \in D : p # 0 => depth[p] + 1 \in Nat
    <3> HIDE DEF D
    <3> QED BY <1>1, <1>2
  <2> QED BY <2>1
<1>4. ASSUME NEW p \in D, p # 0 PROVE next[p] \in D /\ m[next[p]] < m[p]
  <2> HIDE DEF D
  <2>1. p \in Packets /\ next[p] \in D /\ depth[p] \in Nat
    BY <1>1, <1>2, <1>4
  <2>2. m[p] = depth[p] + 1
    BY <1>4
  <2>3. CASE next[p] = 0
    BY <2>1, <2>2, <2>3
  <2>4. CASE next[p] # 0
    <3>1. m[next[p]] = depth[next[p]] + 1 /\ depth[next[p]] \in Nat
      BY <1>1, <1>2, <2>1, <2>4
    <3>2. depth[next[p]] < depth[p]
      BY <1>2, <2>1, <2>4
    <3> HIDE DEF m
    <3> QED BY <2>1, <2>2, <3>1, <3>2
  <2> QED BY <2>1, <2>3, <2>4
<1>5. ASSUME NEW p \in D, NEW f \in [D -> V] PROVE body(p, f) \in V
  <2>1. CASE p = 0
    BY <2>1
  <2>2. CASE p # 0
    <3>1. p \in Packets /\ f[next[p]] \in V
      <4> HIDE DEF V, m, D
      <4> QED BY <1>1, <1>4, <2>2
    <3>2. <<p>> \o f[next[p]] \in V
      BY <3>1, ConsFacts
    <3> HIDE DEF V
    <3> QED BY <2>2, <3>2
  <2> QED BY <2>1, <2>2
<1>6. step \in [D \X [D -> V] -> V]
  <2> HIDE DEF body, D, V
  <2> QED BY <1>5
<1>7. \A p \in D : \A f, g \in [D -> V] :
          (\A q \in D : m[q] < m[p] => f[q] = g[q]) => step[<<p, f>>] = step[<<p, g>>]
  <2> SUFFICES ASSUME NEW p \in D, NEW f \in [D -> V], NEW g \in [D -> V],
                      \A q \in D : m[q] < m[p] => f[q] = g[q]
               PROVE  step[<<p, f>>] = step[<<p, g>>]
    <3> HIDE DEF D, V, m, step
    <3> QED OBVIOUS
  <2>1. body(p, f) = body(p, g)
    <3> HIDE DEF D, V, m
    <3> QED BY <1>4
  <2> HIDE DEF body, D, V
  <2> QED BY <2>1
<1>8. V # {}
  <2>1. <<>> \in V
    OBVIOUS
  <2> QED BY <2>1
<1>9. PICK f \in [D -> V] : \A p \in D : f[p] = step[<<p, f>>]
  <2> HIDE DEF D, V, m, step
  <2>1. LooksBelow(D, V, m, step)
    BY <1>3, <1>6, <1>7, <1>8 DEF LooksBelow
  <2> QED BY <2>1, RecursionNat
<1> DEFINE F(g) == [p \in D |-> body(p, g)]
<1>10. f = F(f)
  <2>1. \A p \in D : f[p] = body(p, f)
    <3> HIDE DEF body, V, D
    <3> QED BY <1>9
  <2> HIDE DEF D, V, body
  <2> QED BY <2>1
<1>11. Chain = F(Chain)
  <2>1. Chain = CHOOSE g : g = F(g)
    BY DEF Chain
  <2> HIDE DEF F
  <2> QED BY <1>10, <2>1
<1>12. \A p \in D : Chain[p] = body(p, Chain)
  <2> HIDE DEF D, body
  <2> QED BY <1>11
<1> HIDE DEF D
<1> QED BY <1>1, <1>12

(* A list whose links lead through the packets of P in the order of their   *)
(* reception is walked through in that order, and completely.               *)
InOrder(P) ==
    /\ \A p \in P : next[p] # 0 => next[p] \in P /\ p < next[p]
    /\ \A p, q \in P : p < q => next[p] # 0 /\ next[p] <= q

LEMMA ChainInOrder ==
    ASSUME PacketsOK, NEW depth, LinksDown(depth), NEW P \in SUBSET Received, InOrder(P)
    PROVE  \A p \in P : /\ Chain[p] \in Seq(P)
                        /\ Increasing(Chain[p])
                        /\ Members(Chain[p]) = {q \in P : p <= q}
<1> DEFINE Good(p) == /\ Chain[p] \in Seq(P)
                      /\ Increasing(Chain[p])
                      /\ Members(Chain[p]) = {q \in P : p <= q}
           Bad == {p \in P : ~Good(p)}
<1> SUFFICES ASSUME Bad # {} PROVE FALSE
  OBVIOUS
<1>1. P \in SUBSET Nat /\ P \in SUBSET Packets /\ MaxPackets \in Nat /\ \A p \in P : p <= MaxPackets
  BY ReceivedFacts, ConstantsAssumption DEF Packets
<1>2. PICK p \in Bad : \A q \in Bad : q <= p
  <2> HIDE DEF Good
  <2>1. Bad \in SUBSET Nat /\ \A q \in Bad : q <= MaxPackets
    BY <1>1
  <2> HIDE DEF Bad
  <2> QED BY <1>1, <2>1, GreatestNat
<1>3. p \in P /\ p \in Packets /\ ~Good(p)
  BY <1>1
<1> DEFINE s == Chain[next[p]]
<1>4. Chain[p] = <<p>> \o s
  BY <1>3, ChainEquation
<1>5. s \in Seq(P) /\ Increasing(s) /\ Members(s) = {q \in P : p < q}
  <2>1. CASE next[p] = 0
    <3>1. s = <<>>
      BY <2>1, ChainEquation
    <3>2. {q \in P : p < q} = {}
      BY <1>3, <2>1 DEF InOrder
    <3> QED BY <3>1, <3>2 DEF Increasing, Members
  <2>2. CASE next[p] # 0
    <3>1. next[p] \in P /\ p < next[p]
      BY <1>3, <2>2 DEF InOrder
    <3>2. Good(next[p])
      <4> HIDE DEF Good
      <4>1. ~(next[p] <= p)
        <5>1. p \in Nat /\ next[p] \in Nat
          BY <1>1, <1>3, <3>1
        <5> QED BY <3>1, <5>1
      <4> QED BY <1>2, <3>1, <4>1
    <3>3. ASSUME NEW q \in P PROVE next[p] <= q <=> p < q
      <4>1. p \in Nat /\ next[p] \in Nat /\ q \in Nat
        BY <1>1, <1>3, <3>1
      <4>2. p < q => next[p] <= q
        BY <1>3 DEF InOrder
      <4> QED BY <3>1, <4>1, <4>2
    <3> QED BY <3>2, <3>3
  <2> QED BY <2>1, <2>2
<1> HIDE DEF s
<1>6. Chain[p] \in Seq(P) /\ Members(Chain[p]) = {p} \cup Members(s)
  BY <1>3, <1>4, <1>5, ConsFacts
<1>7. Members(Chain[p]) = {q \in P : p <= q}
  <2>1. ASSUME NEW q \in P PROVE p <= q <=> q = p \/ p < q
    <3>1. p \in Nat /\ q \in Nat
      BY <1>1, <1>3
    <3> QED BY <3>1
  <2> QED BY <1>3, <1>5, <1>6, <2>1
<1>8. Increasing(Chain[p])
  <2> DEFINE c == <<p>> \o s
  <2>1. /\ c[1] = p /\ DOMAIN c \in SUBSET (Nat \ {0})
        /\ \A k \in DOMAIN c : k = 1 \/ (k - 1 \in DOMAIN s /\ c[k] = s[k - 1])
    BY <1>3, <1>5, ConsFacts
  <2> HIDE DEF c
  <2>2. ASSUME NEW j \in DOMAIN c, NEW k \in DOMAIN c, j < k PROVE c[j] < c[k]
    <3>1. k - 1 \in DOMAIN s /\ c[k] = s[k - 1]
      BY <2>1, <2>2
    <3>2. CASE j = 1
      BY <1>5, <2>1, <3>1, <3>2 DEF Members
    <3>3. CASE j # 1
      <4>1. j - 1 \in DOMAIN s /\ c[j] = s[j - 1] /\ j - 1 < k - 1
        BY <2>1, <2>2, <3>3
      <4> QED BY <1>5, <3>1, <4>1 DEF Increasing
    <3> QED BY <3>2, <3>3
  <2> QED BY <1>4, <2>2 DEF c, Increasing
<1> QED BY <1>3, <1>6, <1>7, <1>8
=============================================================================
