--------------------------- MODULE NextHopsProofs ---------------------------
(***************************************************************************)
(* Proofs about NextHops, whatever empties the queues: how the callers     *)
(* build and walk the list of next hops, which nothing locks.              *)
(***************************************************************************)
EXTENDS NextHops, DataLemmas, FiniteSetTheorems, SequenceTheorems

LEMMA Appended ==
    ASSUME NEW S, NEW s \in Seq(S), NEW e \in S
    PROVE  /\ Append(s, e) \in Seq(S)
           /\ Append(s, e) # <<>>
           /\ Len(Append(s, e)) = Len(s) + 1
           /\ Len(s) \in Nat
           /\ DOMAIN s = 1..Len(s)
           /\ DOMAIN Append(s, e) = DOMAIN s \cup {Len(s) + 1}
           /\ \A i \in DOMAIN s : Append(s, e)[i] = s[i]
           /\ Append(s, e)[Len(s) + 1] = e
  OBVIOUS

LEMMA Member ==
    ASSUME NEW S, NEW s \in Seq(S), NEW i \in DOMAIN s
    PROVE  s[i] \in S
  OBVIOUS

(* A sequence that is not empty: its head, its tail, and its last element.  *)
LEMMA Ends ==
    ASSUME NEW S, NEW s \in Seq(S), s # <<>>
    PROVE  /\ Head(s) \in S
           /\ Tail(s) \in Seq(S)
           /\ Len(s) \in Nat \ {0}
           /\ s[Len(s)] \in S
           /\ Head(s) = s[1]
           /\ Len(Tail(s)) = Len(s) - 1
           /\ \A i \in 1..(Len(s) - 1) : Tail(s)[i] = s[i + 1]
           /\ Len(s) > 1 => Tail(s) # <<>>
  OBVIOUS

LEMMA Prepended ==
    ASSUME NEW S, NEW s \in Seq(S), NEW e \in S
    PROVE  /\ <<e>> \o s \in Seq(S)
           /\ <<e>> \o s # <<>>
           /\ Len(<<e>> \o s) = Len(s) + 1
           /\ (<<e>> \o s)[1] = e
           /\ \A i \in DOMAIN s : (<<e>> \o s)[i + 1] = s[i]
           /\ s # <<>> => (<<e>> \o s)[Len(s) + 1] = s[Len(s)]
  OBVIOUS
-----------------------------------------------------------------------------
(* The list.  An element is linked behind one that was allocated before it. *)
LinksUp ==
    /\ link \in [{0} \cup Elements -> {0} \cup Elements]
    /\ \A e \in {0} \cup Elements : link[e] = 0 \/ e < link[e]

LEMMA ElementFacts ==
    /\ MaxElements \in Nat
    /\ Elements \in SUBSET Nat
    /\ \A e \in Elements : e # 0 /\ e <= MaxElements
    /\ \A e \in Nat : e # 0 /\ e <= MaxElements => e \in Elements
    /\ {0} \cup Elements = 0..MaxElements
  BY NextHopsAssumption DEF Elements

LEMMA ChainEquation ==
    ASSUME LinksUp
    PROVE  /\ ChainFrom[0] = <<>>
           /\ \A e \in Elements : ChainFrom[e] = <<e>> \o ChainFrom[link[e]]
<1> DEFINE D == {0} \cup Elements
           V == Seq(Elements)
           m == [e \in D |-> IF e = 0 THEN 0 ELSE MaxElements + 1 - e]
           body(e, f) == IF e = 0 THEN <<>> ELSE <<e>> \o f[link[e]]
           stp == [y \in D \X [D -> V] |-> body(y[1], y[2])]
<1>1. /\ 0 \in D
      /\ \A e \in D : e # 0 => e \in Elements
      /\ \A e \in Elements : e \in D /\ e # 0
  BY ElementFacts
<1>2. \A e \in D : e \in Nat /\ e <= MaxElements
  BY ElementFacts
<1>3. m \in [D -> Nat]
  <2>1. \A e \in D : MaxElements + 1 - e \in Nat
    <3> HIDE DEF D
    <3> QED BY <1>2, ElementFacts
  <2> HIDE DEF D
  <2> QED BY <2>1
<1>4. ASSUME NEW e \in D, e # 0 PROVE link[e] \in D /\ m[link[e]] < m[e]
  <2>1. link[e] \in D /\ (link[e] = 0 \/ e < link[e])
    BY DEF LinksUp
  <2> HIDE DEF D
  <2>2. m[e] = MaxElements + 1 - e
    BY <1>4
  <2>3. CASE link[e] = 0
    BY <1>2, <1>4, <2>1, <2>2, <2>3, ElementFacts
  <2>4. CASE link[e] # 0
    <3>1. m[link[e]] = MaxElements + 1 - link[e]
      BY <2>1, <2>4
    <3> HIDE DEF m
    <3> QED BY <1>2, <2>1, <2>2, <2>4, <3>1, ElementFacts
  <2> QED BY <2>3, <2>4
<1>5. ASSUME NEW e \in D, NEW f \in [D -> V] PROVE body(e, f) \in V
  <2>1. CASE e = 0
    BY <2>1
  <2>2. CASE e # 0
    <3>1. e \in Elements /\ f[link[e]] \in V
      <4> HIDE DEF V, m, D
      <4> QED BY <1>1, <1>4, <2>2
    <3>2. <<e>> \o f[link[e]] \in V
      BY <3>1, Prepended
    <3> HIDE DEF V
    <3> QED BY <2>2, <3>2
  <2> QED BY <2>1, <2>2
<1>6. stp \in [D \X [D -> V] -> V]
  <2> HIDE DEF body, D, V
  <2> QED BY <1>5
<1>7. \A e \in D : \A f, g \in [D -> V] :
          (\A d \in D : m[d] < m[e] => f[d] = g[d]) => stp[<<e, f>>] = stp[<<e, g>>]
  <2> SUFFICES ASSUME NEW e \in D, NEW f \in [D -> V], NEW g \in [D -> V],
                      \A d \in D : m[d] < m[e] => f[d] = g[d]
               PROVE  stp[<<e, f>>] = stp[<<e, g>>]
    <3> HIDE DEF D, V, m, stp
    <3> QED OBVIOUS
  <2>1. body(e, f) = body(e, g)
    <3> HIDE DEF D, V, m
    <3> QED BY <1>4
  <2> HIDE DEF body, D, V
  <2> QED BY <2>1
<1>8. V # {}
  <2>1. <<>> \in V
    OBVIOUS
  <2> QED BY <2>1
<1>9. PICK f \in [D -> V] : \A e \in D : f[e] = stp[<<e, f>>]
  <2> HIDE DEF D, V, m, stp
  <2>1. LooksBelow(D, V, m, stp)
    BY <1>3, <1>6, <1>7, <1>8 DEF LooksBelow
  <2> QED BY <2>1, RecursionNat
<1> DEFINE F(g) == [e \in D |-> body(e, g)]
<1>10. f = F(f)
  <2>1. \A e \in D : f[e] = body(e, f)
    <3> HIDE DEF body, V, D
    <3> QED BY <1>9
  <2> HIDE DEF D, V, body
  <2> QED BY <2>1
<1>11. ChainFrom = F(ChainFrom)
  <2>1. ChainFrom = CHOOSE g : g = F(g)
    BY DEF ChainFrom
  <2> HIDE DEF F
  <2> QED BY <1>10, <2>1
<1>12. \A e \in D : ChainFrom[e] = body(e, ChainFrom)
  <2> HIDE DEF D, body
  <2> QED BY <1>11
<1> HIDE DEF D
<1> QED BY <1>1, <1>12

(* Walking from an element, one finds allocated elements only.              *)
LEMMA ChainAllocated ==
    ASSUME LinksUp, NEW n \in Nat, n <= MaxElements,
           \A e \in {0} \cup Elements : link[e] <= n
    PROVE  \A e \in 1..n : ChainFrom[e] \in Seq(1..n) /\ ChainFrom[e] # <<>>
<1> DEFINE Good(e) == ChainFrom[e] \in Seq(1..n) /\ ChainFrom[e] # <<>>
           Bad == {e \in 1..n : ~Good(e)}
<1> SUFFICES ASSUME Bad # {} PROVE FALSE
  OBVIOUS
<1>1. PICK e \in Bad : \A d \in Bad : d <= e
  <2> HIDE DEF Good
  <2>1. Bad \in SUBSET Nat /\ \A d \in Bad : d <= n
    OBVIOUS
  <2> HIDE DEF Bad
  <2> QED BY <2>1, GreatestNat
<1>2. e \in 1..n /\ ~Good(e) /\ e \in Elements
  BY ElementFacts
<1>3. ChainFrom[e] = <<e>> \o ChainFrom[link[e]]
  BY <1>2, ChainEquation
<1>4. link[e] = 0 \/ (e < link[e] /\ link[e] \in 1..n)
  BY <1>2, ElementFacts DEF LinksUp
<1>5. ChainFrom[link[e]] \in Seq(1..n)
  <2>1. CASE link[e] = 0
    <3>1. <<>> \in Seq(1..n)
      OBVIOUS
    <3> QED BY <2>1, <3>1, ChainEquation
  <2>2. CASE link[e] # 0
    <3>1. link[e] \notin Bad
      <4> HIDE DEF Bad
      <4>1. ~(link[e] <= e)
        BY <1>2, <1>4, <2>2
      <4> QED BY <1>1, <4>1
    <3> QED BY <1>4, <2>2, <3>1
  <2> QED BY <2>1, <2>2
<1> HIDE DEF Bad
<1>6. Good(e)
  BY <1>2, <1>3, <1>5, Prepended
<1> QED BY <1>2, <1>6
-----------------------------------------------------------------------------
ListTypes ==
    /\ nextNodeType \in NodeTypes
    /\ protocolType \in Protocols
    /\ link \in [{0} \cup Elements -> {0} \cup Elements]
    /\ dest \in Seq(Addresses)
    /\ step \in [Callers -> {"idle", "search", "create", "room", "number", "insert",
                             "signal", "crash"}]
    /\ call \in [Callers -> Nat]
    /\ rest \in [Callers -> Seq(Addresses)]
    /\ hit \in [Callers -> BOOLEAN]
    /\ proc \in [Callers -> {0} \cup Elements]
    /\ num \in [Callers -> Nat]
    /\ number \in Nat
    /\ offered \in Seq(Addresses \X (Callers \X Nat))

(* What a caller searches with is an address to look for; from the test for *)
(* room on it stands at an element.                                         *)
CallerOK(c) ==
    /\ proc[c] <= Len(dest)
    /\ step[c] \in {"room", "number", "insert", "signal"} => proc[c] # 0
    /\ step[c] \in {"search", "create"} => rest[c] # <<>>

ListInv ==
    /\ ListTypes
    /\ LinksUp
    /\ Len(dest) <= MaxElements
    /\ \A e \in {0} \cup Elements : link[e] <= Len(dest)
    /\ \A c \in Callers : CallerOK(c)

LEMMA RouteType == Route \in Seq(Addresses)
  BY NextHopsAssumption DEF Route

LEMMA ChainInv ==
    ASSUME ListInv
    PROVE  /\ Chain \in Seq(1..Len(dest))
           /\ Chain = <<>> <=> link[0] = 0
<1>1. Len(dest) \in Nat /\ Len(dest) <= MaxElements /\ LinksUp
      /\ \A e \in {0} \cup Elements : link[e] <= Len(dest)
  BY DEF ListInv, ListTypes
<1>2. link[0] = 0 \/ link[0] \in 1..Len(dest)
  BY <1>1, ElementFacts DEF LinksUp
<1>3. CASE link[0] = 0
  <2>1. <<>> \in Seq(1..Len(dest))
    OBVIOUS
  <2> QED BY <1>1, <1>3, <2>1, ChainEquation DEF Chain
<1>4. CASE link[0] # 0
  BY <1>1, <1>2, <1>4, ChainAllocated DEF Chain
<1> QED BY <1>3, <1>4

LEMMA InitListInv == NextHopsInit => ListInv
<1> SUFFICES ASSUME NextHopsInit PROVE ListInv
  OBVIOUS
<1> USE DEF NextHopsInit
<1>1. ListTypes
  BY DEF ListTypes
<1>2. LinksUp
  BY DEF LinksUp
<1>3. Len(dest) = 0 /\ \A e \in {0} \cup Elements : link[e] = 0
  OBVIOUS
<1>4. \A c \in Callers : CallerOK(c)
  BY <1>3 DEF CallerOK
<1> QED BY <1>1, <1>2, <1>3, <1>4, ElementFacts DEF ListInv

(* A step of c that changes neither the list nor its own place much.        *)
LEMMA CallerStep ==
    ASSUME ListInv, NEW c \in Callers, UNCHANGED <<types, listVars>>,
           NEW s \in {"idle", "search", "create", "room", "number", "insert", "signal", "crash"},
           NEW a \in Seq(Addresses), NEW p \in {0} \cup Elements, NEW h \in BOOLEAN,
           step' = [step EXCEPT ![c] = s], rest' = [rest EXCEPT ![c] = a],
           proc' = [proc EXCEPT ![c] = p], hit' = [hit EXCEPT ![c] = h],
           p <= Len(dest),
           s \in {"room", "number", "insert", "signal"} => p # 0,
           s \in {"search", "create"} => a # <<>>,
           call' \in [Callers -> Nat], num' \in [Callers -> Nat], number' \in Nat,
           offered' \in Seq(Addresses \X (Callers \X Nat))
    PROVE  ListInv'
<1>1. ListTypes'
  BY DEF ListInv, ListTypes, types, listVars
<1>2. LinksUp' /\ (Len(dest) <= MaxElements)' /\ \A e \in {0} \cup Elements : link'[e] <= Len(dest')
  BY DEF ListInv, LinksUp, listVars
<1>3. ASSUME NEW d \in Callers PROVE CallerOK(d)'
  <2>1. CallerOK(d) /\ dest' = dest
    BY DEF ListInv, listVars
  <2>2. CASE d = c
    <3>1. step'[d] = s /\ rest'[d] = a /\ proc'[d] = p
      BY <2>2 DEF ListInv, ListTypes
    <3> QED BY <2>1, <3>1 DEF CallerOK
  <2>3. CASE d # c
    <3>1. step'[d] = step[d] /\ rest'[d] = rest[d] /\ proc'[d] = proc[d]
      BY <2>3 DEF ListInv, ListTypes
    <3> QED BY <2>1, <3>1 DEF CallerOK
  <2> QED BY <2>2, <2>3
<1> QED BY <1>1, <1>2, <1>3 DEF ListInv

LEMMA CallerKeepsListInv ==
    ASSUME ListInv, NEW c \in Callers, Caller(c)
    PROVE  ListInv'
<1>0. /\ ListTypes /\ LinksUp
      /\ \A e \in {0} \cup Elements : link[e] <= Len(dest)
      /\ CallerOK(c)
      /\ Len(dest) \in Nat
  BY DEF ListInv, ListTypes
<1>1. /\ step \in [Callers -> {"idle", "search", "create", "room", "number", "insert",
                               "signal", "crash"}]
      /\ call \in [Callers -> Nat] /\ rest \in [Callers -> Seq(Addresses)]
      /\ hit \in [Callers -> BOOLEAN] /\ proc \in [Callers -> {0} \cup Elements]
      /\ num \in [Callers -> Nat] /\ number \in Nat
      /\ offered \in Seq(Addresses \X (Callers \X Nat))
      /\ dest \in Seq(Addresses)
      /\ link \in [{0} \cup Elements -> {0} \cup Elements]
  BY <1>0 DEF ListTypes
<1>2. /\ rest[c] \in Seq(Addresses) /\ hit[c] \in BOOLEAN /\ proc[c] \in {0} \cup Elements
      /\ rest = [rest EXCEPT ![c] = rest[c]]
      /\ hit = [hit EXCEPT ![c] = hit[c]]
      /\ proc = [proc EXCEPT ![c] = proc[c]]
      /\ proc[c] <= Len(dest)
  BY <1>0, <1>1 DEF CallerOK
<1>3. 0 \in {0} \cup Elements /\ 0 <= Len(dest) /\ <<>> \in Seq(Addresses)
  BY <1>0
<1>4. CASE Begin(c)
  <2>1. call' \in [Callers -> Nat]
    BY <1>1, <1>4 DEF Begin
  <2>2. CASE link[0] = 0
    <3>1. /\ UNCHANGED <<types, listVars, proc, num, number, offered>>
          /\ hit' = [hit EXCEPT ![c] = FALSE] /\ rest' = [rest EXCEPT ![c] = Route]
          /\ step' = [step EXCEPT ![c] = IF Route = <<>> THEN "idle" ELSE "search"]
      BY <1>4, <2>2 DEF Begin
    <3> DEFINE s == IF Route = <<>> THEN "idle" ELSE "search"
    <3>2. s \in {"idle", "search"} /\ (s = "search" => Route # <<>>)
      OBVIOUS
    <3>3. step' = [step EXCEPT ![c] = s]
      BY <3>1
    <3> HIDE DEF s
    <3> QED BY <1>1, <1>2, <2>1, <3>1, <3>2, <3>3, RouteType, CallerStep
  <2>3. CASE link[0] # 0
    <3>1. /\ UNCHANGED <<types, listVars, num, number, offered>>
          /\ hit' = [hit EXCEPT ![c] = FALSE] /\ rest' = [rest EXCEPT ![c] = <<>>]
          /\ step' = [step EXCEPT ![c] = "room"]
          /\ proc' = [proc EXCEPT ![c] = link[0]]
      BY <1>4, <2>3 DEF Begin
    <3>2. link[0] \in {0} \cup Elements /\ link[0] <= Len(dest)
      BY <1>0, <1>1
    <3> QED BY <1>1, <1>2, <1>3, <2>1, <2>3, <3>1, <3>2, CallerStep
  <2> QED BY <2>2, <2>3
<1>5. CASE Search(c)
  <2>1. UNCHANGED <<types, listVars, call, rest, num, number, offered>>
    BY <1>5 DEF Search
  <2>2. rest[c] # <<>>
    BY <1>0, <1>5 DEF Search, CallerOK
  <2>3. Chain \in Seq(1..Len(dest))
    BY ChainInv
  <2>4. \A i \in DOMAIN Chain : Chain[i] \in {0} \cup Elements /\ Chain[i] <= Len(dest) /\ Chain[i] # 0
    <3>1. \A i \in DOMAIN Chain : Chain[i] \in 1..Len(dest)
      BY <2>3, Member
    <3> QED BY <1>0, <3>1, ElementFacts DEF ListInv
  <2>5. ASSUME NEW i \in DOMAIN Chain, hit' = [hit EXCEPT ![c] = TRUE],
               proc' = [proc EXCEPT ![c] = Chain[i]], step' = [step EXCEPT ![c] = "room"]
        PROVE  ListInv'
    <3> DEFINE p == Chain[i]
    <3>1. p \in {0} \cup Elements /\ p <= Len(dest) /\ p # 0 /\ proc' = [proc EXCEPT ![c] = p]
      BY <2>4, <2>5
    <3> HIDE DEF p
    <3> QED BY <1>1, <1>2, <2>1, <2>5, <3>1, CallerStep
  <2>6. ASSUME proc' = [proc EXCEPT ![c] = IF hit[c] \/ Chain = <<>> THEN 0 ELSE Chain[Len(Chain)]],
               step' = [step EXCEPT ![c] = IF hit[c] THEN "crash" ELSE "create"],
               UNCHANGED hit
        PROVE  ListInv'
    <3> DEFINE p == IF hit[c] \/ Chain = <<>> THEN 0 ELSE Chain[Len(Chain)]
               s == IF hit[c] THEN "crash" ELSE "create"
    <3>1. p \in {0} \cup Elements /\ p <= Len(dest)
      <4>1. Chain # <<>> => Len(Chain) \in DOMAIN Chain
        BY <2>3
      <4> QED BY <1>3, <2>4, <4>1
    <3>2. s \in {"crash", "create"}
      OBVIOUS
    <3>3. proc' = [proc EXCEPT ![c] = p] /\ step' = [step EXCEPT ![c] = s]
      BY <2>6
    <3> HIDE DEF p, s
    <3> QED BY <1>1, <1>2, <2>1, <2>2, <2>6, <3>1, <3>2, <3>3, CallerStep
  <2> QED BY <1>5, <2>5, <2>6 DEF Search
<1>6. CASE Create(c)
  <2> DEFINE new == Len(dest) + 1
  <2>1. /\ step[c] = "create" /\ new <= MaxElements
        /\ dest' = Append(dest, Head(rest[c]))
        /\ link' = [link EXCEPT ![proc[c]] = new]
        /\ proc' = [proc EXCEPT ![c] = new]
        /\ step' = [step EXCEPT ![c] = "room"]
        /\ UNCHANGED <<types, call, rest, hit, num, number, offered>>
    BY <1>6 DEF Create
  <2>2. rest[c] # <<>> /\ Head(rest[c]) \in Addresses
    <3>1. rest[c] # <<>>
      BY <1>0, <2>1 DEF CallerOK
    <3> QED BY <1>2, <3>1, Ends
  <2>3. dest' \in Seq(Addresses) /\ Len(dest') = new
    BY <1>1, <2>1, <2>2, Appended
  <2>4. new \in Elements /\ new # 0 /\ Len(dest) <= new
    BY <1>0, <2>1, ElementFacts
  <2> HIDE DEF new
  <2>5. ListTypes'
    BY <1>0, <2>1, <2>3, <2>4 DEF ListTypes, types
  <2>6. ASSUME NEW e \in {0} \cup Elements
        PROVE  link'[e] <= new /\ (link'[e] = 0 \/ e < link'[e])
    <3>1. new = Len(dest) + 1 /\ proc[c] <= Len(dest)
      BY <1>2 DEF new
    <3>2. CASE e = proc[c]
      <4>1. link'[e] = new
        BY <1>1, <1>2, <2>1, <3>2
      <4> QED BY <1>0, <1>2, <3>1, <3>2, <4>1, ElementFacts
    <3>3. CASE e # proc[c]
      <4>1. link'[e] = link[e]
        BY <1>1, <1>2, <2>1, <3>3
      <4>2. link[e] <= Len(dest) /\ link[e] \in Nat
        BY <1>0, <1>1, ElementFacts
      <4> QED BY <1>0, <3>1, <4>1, <4>2 DEF LinksUp
    <3> QED BY <3>2, <3>3
  <2>7. LinksUp'
    BY <2>5, <2>6 DEF LinksUp, ListTypes
  <2>8. ASSUME NEW d \in Callers PROVE CallerOK(d)'
    <3>1. CASE d = c
      <4>1. proc'[d] = new /\ step'[d] = "room" /\ rest'[d] = rest[d]
        BY <1>1, <2>1, <3>1
      <4> QED BY <1>0, <2>3, <2>4, <4>1, ElementFacts DEF CallerOK
    <3>2. CASE d # c
      <4>1. proc'[d] = proc[d] /\ step'[d] = step[d] /\ rest'[d] = rest[d]
        BY <1>1, <2>1, <3>2
      <4>2. CallerOK(d)
        BY DEF ListInv
      <4>3. proc[d] \in Nat /\ new \in Nat
        BY <1>1, <2>4, ElementFacts
      <4> QED BY <1>0, <2>3, <2>4, <4>1, <4>2, <4>3 DEF CallerOK
    <3> QED BY <3>1, <3>2
  <2> QED BY <2>1, <2>3, <2>5, <2>6, <2>7, <2>8 DEF ListInv, new
<1>7. CASE CheckRoom(c) \/ TakeNumber(c) \/ Insert(c)
  <2>1. /\ UNCHANGED <<types, listVars, call, rest, hit, proc>>
        /\ step[c] \in {"room", "number", "insert"}
        /\ num' \in [Callers -> Nat] /\ number' \in Nat
        /\ \E s \in {"number", "insert", "signal"} : step' = [step EXCEPT ![c] = s]
    <3>1. CASE CheckRoom(c)
      <4> DEFINE s == IF Len(queue[proc[c]]) < TX_QUEUE_LENGTH_MAX THEN "number" ELSE "signal"
      <4>1. s \in {"number", "signal"}
        OBVIOUS
      <4>2. step' = [step EXCEPT ![c] = s]
        BY <3>1 DEF CheckRoom
      <4> HIDE DEF s
      <4> QED BY <1>1, <3>1, <4>1, <4>2 DEF CheckRoom
    <3>2. CASE TakeNumber(c)
      BY <1>1, <3>2 DEF TakeNumber
    <3>3. CASE Insert(c)
      BY <1>1, <3>3 DEF Insert
    <3> QED BY <1>7, <3>1, <3>2, <3>3
  <2>2. proc[c] # 0 /\ proc[c] \in 1..Len(dest)
    BY <1>0, <1>2, <2>1, ElementFacts DEF CallerOK
  <2>3. offered' \in Seq(Addresses \X (Callers \X Nat))
    <3>1. CASE CheckRoom(c)
      <4>1. dest[proc[c]] \in Addresses
        BY <1>1, <2>2
      <4>2. <<dest[proc[c]], Packet(c)>> \in Addresses \X (Callers \X Nat)
        BY <1>1, <4>1 DEF Packet
      <4>3. offered' = Append(offered, <<dest[proc[c]], Packet(c)>>)
        BY <3>1 DEF CheckRoom
      <4> QED BY <1>1, <4>2, <4>3, Appended
    <3>2. CASE TakeNumber(c) \/ Insert(c)
      BY <1>1, <3>2 DEF TakeNumber, Insert
    <3> QED BY <1>7, <3>1, <3>2
  <2>4. PICK s \in {"number", "insert", "signal"} : step' = [step EXCEPT ![c] = s]
    BY <2>1
  <2> QED BY <1>1, <1>2, <2>1, <2>2, <2>3, <2>4, CallerStep, ZenonT(60)
<1>8. CASE Signal(c)
  <2>1. step[c] = "signal" /\ UNCHANGED <<types, listVars, call, hit, num, number, offered>>
        /\ Advance(c)
    BY <1>8 DEF Signal
  <2>2. CASE Len(rest[c]) > 1
    <3>1. /\ rest' = [rest EXCEPT ![c] = Tail(rest[c])]
          /\ step' = [step EXCEPT ![c] = "search"]
          /\ UNCHANGED proc
      BY <2>1, <2>2 DEF Advance
    <3>2. Tail(rest[c]) \in Seq(Addresses) /\ Tail(rest[c]) # <<>>
      <4>1. rest[c] # <<>>
        BY <2>2
      <4> QED BY <1>2, <2>2, <4>1, Ends
    <3> QED BY <1>1, <1>2, <2>1, <3>1, <3>2, CallerStep
  <2>3. CASE ~(Len(rest[c]) > 1)
    <3> DEFINE p == IF rest[c] = <<>> THEN link[proc[c]] ELSE 0
               s == IF p = 0 THEN "idle" ELSE "room"
    <3>1. /\ rest' = [rest EXCEPT ![c] = <<>>]
          /\ step' = [step EXCEPT ![c] = s]
          /\ proc' = [proc EXCEPT ![c] = p]
      BY <2>1, <2>3 DEF Advance
    <3>2. p \in {0} \cup Elements /\ p <= Len(dest)
      BY <1>0, <1>1, <1>2, <1>3
    <3>3. s \in {"idle", "room"} /\ (s = "room" => p # 0)
      OBVIOUS
    <3> HIDE DEF p, s
    <3> QED BY <1>1, <1>2, <1>3, <2>1, <3>1, <3>2, <3>3, CallerStep
  <2> QED BY <2>2, <2>3
<1> QED BY <1>4, <1>5, <1>6, <1>7, <1>8 DEF Caller
-----------------------------------------------------------------------------
(* A node has one thread that sends to its children, and the routing script *)
(* prints each child once.                                                  *)
OneSender ==
    /\ \A i, j \in DOMAIN ChildAddresses : ChildAddresses[i] = ChildAddresses[j] => i = j
    /\ \A t \in Protocols : \A c, d \in Callers :
          Calls[<<t, "CHILDLEN">>][c] > 0 /\ Calls[<<t, "CHILDLEN">>][d] > 0 => c = d

CallsInv ==
    \A c \in Callers :
        /\ call[c] <= Calls[types][c]
        /\ step[c] # "idle" => call[c] > 0

(* The parent: there may be many elements, of which the list holds the one  *)
(* created last, each for the same address.                                 *)
ParentCaller(c) ==
    /\ step[c] # "crash"
    /\ step[c] \in {"search", "create"} => ~hit[c]
    /\ step[c] = "create" => proc[c] = 0
    /\ rest[c] \in {<<>>, Route}

ParentList ==
    /\ \A k \in DOMAIN dest : dest[k] = ParentAddress
    /\ \A e \in Elements : link[e] = 0
    /\ \A c \in Callers : ParentCaller(c)

(* The address of the routing file caller c stands at.                      *)
At(c) ==
    IF nextNodeType = "PARENT" THEN 1
    ELSE IF rest[c] # <<>> THEN Len(Route) - Len(rest[c]) + 1
    ELSE proc[c]

(* The children: the list grows in the order of the routing file, and is    *)
(* complete when the call that builds it has returned.                      *)
ChildCaller(c) ==
    /\ step[c] # "crash"
    /\ step[c] = "idle" /\ call[c] > 0 => Len(dest) = Len(Route)
    /\ step[c] \in {"search", "create"} => ~hit[c] /\ At(c) = Len(dest) + 1
    /\ step[c] = "create" => proc[c] = Len(dest)
    /\ step[c] \in {"room", "number", "insert", "signal"} =>
          IF rest[c] = <<>> THEN Len(dest) = Len(Route)
          ELSE ~hit[c] /\ At(c) = Len(dest) /\ proc[c] = Len(dest)
    /\ Len(rest[c]) <= Len(Route)
    /\ \A j \in DOMAIN rest[c] : rest[c][j] = Route[Len(Route) - Len(rest[c]) + j]

ChildList ==
    /\ Len(dest) <= Len(Route)
    /\ \A k \in DOMAIN dest : dest[k] = Route[k]
    /\ \A e \in {0} \cup Elements : link[e] = IF e < Len(dest) THEN e + 1 ELSE 0
    /\ dest # <<>> => \E c \in Callers : call[c] > 0
    /\ \A c \in Callers : ChildCaller(c)

PlacesInv ==
    /\ CallsInv
    /\ nextNodeType = "PARENT" => ParentList
    /\ nextNodeType = "CHILDLEN" => ChildList

LEMMA ChainLast ==
    ASSUME ListInv, ChildList
    PROVE  (IF Chain = <<>> THEN 0 ELSE Chain[Len(Chain)]) = Len(dest)
<1> DEFINE n == Len(dest)
           Good(e) == ChainFrom[e][Len(ChainFrom[e])] = n
           Bad == {e \in 1..n : ~Good(e)}
<1>1. n \in Nat /\ n <= MaxElements /\ LinksUp
      /\ \A e \in {0} \cup Elements : link[e] <= n /\ (link[e] = IF e < n THEN e + 1 ELSE 0)
  BY DEF ListInv, ListTypes, ChildList
<1>2. \A e \in 1..n : ChainFrom[e] \in Seq(1..n) /\ ChainFrom[e] # <<>> /\ e \in Elements
  <2> HIDE DEF n
  <2>1. \A e \in 1..n : e \in Elements
    BY <1>1, ElementFacts
  <2> QED BY <1>1, <2>1, ChainAllocated
<1>3. ASSUME Bad # {} PROVE FALSE
  <2>1. PICK e \in Bad : \A d \in Bad : d <= e
    <3> HIDE DEF Good
    <3>1. Bad \in SUBSET Nat /\ \A d \in Bad : d <= n
      OBVIOUS
    <3> HIDE DEF Bad
    <3> QED BY <1>1, <1>3, <3>1, GreatestNat
  <2>2. e \in 1..n /\ ~Good(e) /\ e \in Elements
    BY <1>2
  <2>3. ChainFrom[e] = <<e>> \o ChainFrom[link[e]]
    BY <1>1, <2>2, ChainEquation
  <2>4. CASE e = n
    <3>1. link[e] = 0
      BY <1>1, <2>2, <2>4
    <3>2. ChainFrom[e] = <<e>> \o <<>>
      BY <1>1, <2>3, <3>1, ChainEquation
    <3>3. <<e>> \o <<>> = <<e>> /\ Len(<<e>>) = 1 /\ <<e>>[1] = e
      OBVIOUS
    <3> QED BY <2>2, <2>4, <3>2, <3>3
  <2>5. CASE e # n
    <3>1. link[e] = e + 1 /\ e + 1 \in 1..n
      BY <1>1, <2>2, <2>5
    <3>2. Good(e + 1)
      <4>1. e + 1 \notin Bad
        <5> HIDE DEF Bad
        <5>1. ~(e + 1 <= e)
          BY <2>2
        <5> QED BY <2>1, <5>1
      <4> QED BY <3>1, <4>1
    <3> DEFINE s == ChainFrom[e + 1]
    <3>3. s \in Seq(1..n) /\ s # <<>> /\ ChainFrom[e] = <<e>> \o s
      BY <1>2, <2>3, <3>1
    <3> HIDE DEF s
    <3>4. Len(<<e>> \o s) = Len(s) + 1 /\ (<<e>> \o s)[Len(s) + 1] = s[Len(s)]
      BY <2>2, <3>3, Prepended
    <3>5. s[Len(s)] = n
      BY <3>2 DEF s
    <3> QED BY <2>2, <3>3, <3>4, <3>5
  <2> QED BY <2>4, <2>5
<1>4. \A e \in 1..n : Good(e)
  BY <1>3
<1>5. CASE n = 0
  <2>1. link[0] = 0
    BY <1>1, <1>5
  <2> QED BY <1>5, <2>1, ChainInv
<1>6. CASE n # 0
  <2>1. link[0] = 1 /\ 1 \in 1..n
    BY <1>1, <1>6
  <2> QED BY <1>2, <1>4, <2>1 DEF Chain
<1> QED BY <1>5, <1>6
-----------------------------------------------------------------------------
(* What was offered: the current packet of a call once to each address the  *)
(* call has come past.                                                      *)
Offers(a, pkt) == {k \in DOMAIN offered : offered[k] = <<a, pkt>>}

Once(S) == \E k \in S : S = {k}

Done(c) ==
    IF step[c] = "idle" THEN Len(Route)
    ELSE IF step[c] \in {"number", "insert", "signal"} THEN At(c)
    ELSE At(c) - 1

OffersInv ==
    /\ \A k \in DOMAIN offered : offered[k][2][2] <= call[offered[k][2][1]]
    /\ \A c \in Callers : call[c] > 0 =>
          \A i \in DOMAIN Route :
             IF i <= Done(c) THEN Once(Offers(Route[i], Packet(c)))
             ELSE Offers(Route[i], Packet(c)) = {}

LEMMA InitPlaces == NextHopsInit => PlacesInv /\ OffersInv
<1> SUFFICES ASSUME NextHopsInit PROVE PlacesInv /\ OffersInv
  OBVIOUS
<1> USE DEF NextHopsInit
<1>1. CallsInv
  <2>1. types \in Protocols \X NodeTypes
    BY DEF types
  <2> QED BY <2>1, NextHopsAssumption DEF CallsInv
<1>2. ParentList
  BY DEF ParentList, ParentCaller, Elements
<1>3. ChildList
  <2>1. Len(dest) = 0 /\ DOMAIN dest = {} /\ Len(Route) \in Nat
    BY RouteType
  <2>2. \A e \in {0} \cup Elements : ~(e < 0)
    BY ElementFacts
  <2>3. \A c \in Callers : ChildCaller(c)
    <3>1. \A c \in Callers : rest[c] = <<>> /\ Len(rest[c]) = 0 /\ DOMAIN rest[c] = {}
      OBVIOUS
    <3> QED BY <2>1, <3>1 DEF ChildCaller
  <2> QED BY <2>1, <2>2, <2>3 DEF ChildList
<1>4. OffersInv
  BY DEF OffersInv
<1> QED BY <1>1, <1>2, <1>3, <1>4 DEF PlacesInv

(* A step of c leaves the other callers where they are.                     *)
LEMMA OthersStay ==
    ASSUME ListInv, NEW c \in Callers, Caller(c), NEW d \in Callers, d # c
    PROVE  /\ step'[d] = step[d] /\ rest'[d] = rest[d] /\ hit'[d] = hit[d]
           /\ proc'[d] = proc[d] /\ call'[d] = call[d] /\ num'[d] = num[d]
<1>1. /\ step \in [Callers -> {"idle", "search", "create", "room", "number", "insert",
                               "signal", "crash"}]
      /\ call \in [Callers -> Nat] /\ rest \in [Callers -> Seq(Addresses)]
      /\ hit \in [Callers -> BOOLEAN] /\ proc \in [Callers -> {0} \cup Elements]
      /\ num \in [Callers -> Nat]
  BY DEF ListInv, ListTypes
<1>2. CASE Begin(c)
  BY <1>1, <1>2 DEF Begin
<1>3. CASE Search(c)
  BY <1>1, <1>3 DEF Search
<1>4. CASE Create(c)
  BY <1>1, <1>4 DEF Create
<1>5. CASE CheckRoom(c) \/ TakeNumber(c) \/ Insert(c)
  BY <1>1, <1>5 DEF CheckRoom, TakeNumber, Insert
<1>6. CASE Signal(c)
  BY <1>1, <1>6 DEF Signal, Advance
<1> QED BY <1>2, <1>3, <1>4, <1>5, <1>6 DEF Caller

LEMMA CallerKeepsCalls ==
    ASSUME ListInv, CallsInv, NEW c \in Callers, Caller(c)
    PROVE  CallsInv' /\ types' = types
<1>1. /\ step \in [Callers -> {"idle", "search", "create", "room", "number", "insert",
                               "signal", "crash"}]
      /\ call \in [Callers -> Nat] /\ types \in Protocols \X NodeTypes
  BY DEF ListInv, ListTypes, types
<1>2. Calls[types] \in [Callers -> Nat]
  BY <1>1, NextHopsAssumption
<1>3. types' = types
  BY DEF Caller, Begin, Search, Create, CheckRoom, TakeNumber, Insert, Signal
<1>4. call'[c] <= Calls[types][c] /\ (step'[c] # "idle" => call'[c] > 0)
  <2>0. call[c] \in Nat /\ Calls[types][c] \in Nat
    BY <1>1, <1>2
  <2>1. CASE Begin(c)
    <3>1. call'[c] = call[c] + 1 /\ call[c] < Calls[types][c]
      BY <1>1, <2>1 DEF Begin
    <3> QED BY <2>0, <3>1
  <2>2. CASE ~Begin(c)
    <3>1. step[c] # "idle" /\ call' = call
      BY <2>2 DEF Caller, Search, Create, CheckRoom, TakeNumber, Insert, Signal
    <3> QED BY <3>1 DEF CallsInv
  <2> QED BY <2>1, <2>2
<1>5. ASSUME NEW d \in Callers PROVE call'[d] <= Calls[types'][d] /\ (step'[d] # "idle" => call'[d] > 0)
  <2>1. CASE d = c
    BY <1>3, <1>4, <2>1
  <2>2. CASE d # c
    BY <1>3, <2>2, OthersStay DEF CallsInv
  <2> QED BY <2>1, <2>2
<1> QED BY <1>3, <1>5 DEF CallsInv

LEMMA CallerKeepsParent ==
    ASSUME ListInv, ParentList, nextNodeType = "PARENT", NEW c \in Callers, Caller(c)
    PROVE  ParentList'
<1>0. /\ step \in [Callers -> {"idle", "search", "create", "room", "number", "insert",
                               "signal", "crash"}]
      /\ rest \in [Callers -> Seq(Addresses)]
      /\ hit \in [Callers -> BOOLEAN] /\ proc \in [Callers -> {0} \cup Elements]
      /\ dest \in Seq(Addresses) /\ link \in [{0} \cup Elements -> {0} \cup Elements]
      /\ ParentCaller(c) /\ CallerOK(c)
  BY DEF ListInv, ListTypes, ParentList
<1>1. /\ Route = <<ParentAddress>> /\ Len(Route) = 1 /\ Head(Route) = ParentAddress
      /\ Route # <<>> /\ Len(<<>>) = 0
  BY DEF Route
<1>2. types' = types /\ Route' = Route
  BY DEF Caller, Begin, Search, Create, CheckRoom, TakeNumber, Insert, Signal, types, Route
<1>3. ASSUME ParentCaller(c)', UNCHANGED listVars PROVE ParentList'
  <2>1. ASSUME NEW d \in Callers PROVE ParentCaller(d)'
    <3>1. CASE d = c
      BY <1>3, <3>1
    <3>2. CASE d # c
      <4>1. ParentCaller(d)
        BY DEF ParentList
      <4> QED BY <1>2, <3>2, <4>1, OthersStay DEF ParentCaller
    <3> QED BY <3>1, <3>2
  <2> QED BY <1>3, <2>1 DEF ParentList, listVars
<1>4. CASE Begin(c)
  <2>1. UNCHANGED listVars /\ hit'[c] = FALSE
        /\ \/ rest'[c] = Route /\ step'[c] = "search"
           \/ rest'[c] = <<>> /\ step'[c] = "room"
    BY <1>0, <1>1, <1>4 DEF Begin
  <2> QED BY <1>2, <1>3, <2>1 DEF ParentCaller
<1>5. CASE Search(c)
  <2>1. rest[c] = Route /\ hit[c] = FALSE
    BY <1>0, <1>5 DEF Search, ParentCaller, CallerOK
  <2> DEFINE found == {i \in DOMAIN Chain : dest[Chain[i]] = Head(rest[c])}
  <2>2. Chain # <<>> => found # {}
    <3> SUFFICES ASSUME Chain # <<>> PROVE 1 \in found
      OBVIOUS
    <3>1. Chain \in Seq(1..Len(dest))
      BY ChainInv
    <3>2. 1 \in DOMAIN Chain /\ Chain[1] \in DOMAIN dest
      BY <1>0, <3>1
    <3>3. dest[Chain[1]] = ParentAddress
      BY <3>2 DEF ParentList
    <3> QED BY <1>1, <2>1, <3>2, <3>3
  <2>3. \/ step'[c] = "room"
        \/ step'[c] = "create" /\ hit'[c] = FALSE /\ proc'[c] = 0
    BY <1>0, <1>5, <2>1, <2>2 DEF Search
  <2>4. UNCHANGED listVars /\ rest' = rest
    BY <1>5 DEF Search
  <2> QED BY <1>0, <1>2, <1>3, <2>3, <2>4 DEF ParentCaller
<1>6. CASE Create(c)
  <2> DEFINE new == Len(dest) + 1
  <2>1. /\ step[c] = "create"
        /\ dest' = Append(dest, Head(rest[c]))
        /\ link' = [link EXCEPT ![proc[c]] = new]
        /\ step'[c] = "room"
        /\ UNCHANGED <<rest, hit>>
    BY <1>0, <1>6 DEF Create
  <2>2. proc[c] = 0 /\ rest[c] = Route
    BY <1>0, <2>1 DEF ParentCaller, CallerOK
  <2> HIDE DEF new
  <2>3. \A e \in Elements : link'[e] = 0
    BY <1>0, <2>1, <2>2, ElementFacts DEF ParentList
  <2>4. \A k \in DOMAIN dest' : dest'[k] = ParentAddress
    <3>1. dest' = Append(dest, ParentAddress) /\ ParentAddress \in Addresses
      BY <1>1, <2>1, <2>2, NextHopsAssumption
    <3> QED BY <1>0, <3>1, Appended DEF ParentList
  <2>5. ASSUME NEW d \in Callers PROVE ParentCaller(d)'
    <3>1. CASE d = c
      BY <1>0, <1>2, <2>1, <3>1 DEF ParentCaller
    <3>2. CASE d # c
      <4>1. ParentCaller(d)
        BY DEF ParentList
      <4> QED BY <1>2, <3>2, <4>1, OthersStay DEF ParentCaller
    <3> QED BY <3>1, <3>2
  <2> QED BY <2>3, <2>4, <2>5 DEF ParentList
<1>7. CASE CheckRoom(c) \/ TakeNumber(c) \/ Insert(c)
  <2>1. UNCHANGED <<listVars, rest>> /\ step'[c] \in {"number", "insert", "signal"}
    BY <1>0, <1>7 DEF CheckRoom, TakeNumber, Insert
  <2> QED BY <1>0, <1>2, <1>3, <2>1 DEF ParentCaller
<1>8. CASE Signal(c)
  <2>1. ~(Len(rest[c]) > 1)
    <3>1. rest[c] = <<>> \/ rest[c] = Route
      BY <1>0 DEF ParentCaller
    <3>2. Len(rest[c]) = 0 \/ Len(rest[c]) = 1
      BY <1>1, <3>1
    <3>3. \A k : k = 0 \/ k = 1 => ~(k > 1)
      OBVIOUS
    <3> QED BY <3>2, <3>3
  <2>2. UNCHANGED listVars /\ rest'[c] = <<>> /\ step'[c] \in {"idle", "room"}
    BY <1>0, <1>8, <2>1 DEF Signal, Advance
  <2> QED BY <1>2, <1>3, <2>2 DEF ParentCaller
<1> QED BY <1>4, <1>5, <1>6, <1>7, <1>8 DEF Caller

(* When one thread sends to the children, the others have not begun to.     *)
LEMMA Alone ==
    ASSUME OneSender, ListInv, CallsInv, nextNodeType = "CHILDLEN",
           NEW c \in Callers, NEW d \in Callers, call[c] > 0 \/ call[c] < Calls[types][c],
           call[d] > 0
    PROVE  c = d
<1>1. /\ call \in [Callers -> Nat] /\ types \in Protocols \X NodeTypes
      /\ types = <<protocolType, "CHILDLEN">> /\ protocolType \in Protocols
  BY DEF ListInv, ListTypes, types
<1>2. Calls[types] \in [Callers -> Nat]
  BY <1>1, NextHopsAssumption
<1>3. /\ call[c] \in Nat /\ call[d] \in Nat
      /\ Calls[types][c] \in Nat /\ Calls[types][d] \in Nat
      /\ call[c] <= Calls[types][c] /\ call[d] <= Calls[types][d]
  BY <1>1, <1>2 DEF CallsInv
<1>4. Calls[types][c] > 0 /\ Calls[types][d] > 0
  BY <1>3
<1> QED BY <1>1, <1>4 DEF OneSender

(* A caller of the children steps, and the list stays as it is.             *)
LEMMA ChildStep ==
    ASSUME OneSender, ListInv, CallsInv, ChildList, nextNodeType = "CHILDLEN",
           NEW c \in Callers, Caller(c), UNCHANGED listVars, ChildCaller(c)',
           dest # <<>> => call'[c] > 0
    PROVE  ChildList'
<1>1. Route' = Route /\ nextNodeType' = nextNodeType
  BY CallerKeepsCalls DEF types, Route
<1>2. ASSUME NEW d \in Callers PROVE ChildCaller(d)'
  <2>1. CASE d = c
    BY <2>1
  <2>2. CASE d # c
    <3>1. ChildCaller(d)
      BY DEF ChildList
    <3>2. At(d)' = At(d) /\ dest' = dest
      BY <1>1, <2>2, OthersStay DEF At, listVars
    <3> QED BY <1>1, <2>2, <3>1, <3>2, OthersStay DEF ChildCaller
  <2> QED BY <2>1, <2>2
<1> QED BY <1>1, <1>2 DEF ChildList, listVars

LEMMA CallerKeepsChild ==
    ASSUME OneSender, ListInv, CallsInv, ChildList, nextNodeType = "CHILDLEN",
           NEW c \in Callers, Caller(c)
    PROVE  ChildList'
<1> DEFINE n == Len(dest)
           l == Len(Route)
<1>0. /\ step \in [Callers -> {"idle", "search", "create", "room", "number", "insert",
                               "signal", "crash"}]
      /\ rest \in [Callers -> Seq(Addresses)] /\ call \in [Callers -> Nat]
      /\ hit \in [Callers -> BOOLEAN] /\ proc \in [Callers -> {0} \cup Elements]
      /\ dest \in Seq(Addresses) /\ link \in [{0} \cup Elements -> {0} \cup Elements]
      /\ ChildCaller(c) /\ CallerOK(c)
      /\ n \in Nat /\ l \in Nat /\ n <= l
      /\ rest[c] \in Seq(Addresses) /\ Len(rest[c]) \in Nat
      /\ DOMAIN dest = 1..n /\ DOMAIN Route = 1..l /\ DOMAIN rest[c] = 1..Len(rest[c])
  <2>1. /\ step \in [Callers -> {"idle", "search", "create", "room", "number", "insert",
                               "signal", "crash"}]
        /\ rest \in [Callers -> Seq(Addresses)] /\ call \in [Callers -> Nat]
        /\ hit \in [Callers -> BOOLEAN] /\ proc \in [Callers -> {0} \cup Elements]
        /\ dest \in Seq(Addresses) /\ link \in [{0} \cup Elements -> {0} \cup Elements]
        /\ ChildCaller(c) /\ CallerOK(c) /\ n <= l
    BY DEF ListInv, ListTypes, ChildList
  <2>2. n \in Nat /\ DOMAIN dest = 1..n
    BY <2>1
  <2>3. l \in Nat /\ DOMAIN Route = 1..l
    BY RouteType
  <2>4. rest[c] \in Seq(Addresses)
    BY <2>1
  <2>5. Len(rest[c]) \in Nat /\ DOMAIN rest[c] = 1..Len(rest[c])
    BY <2>4
  <2> HIDE DEF n, l
  <2> QED BY <2>1, <2>2, <2>3, <2>4, <2>5
<1>1. Route' = Route /\ nextNodeType' = nextNodeType
  BY CallerKeepsCalls DEF types, Route
<1>2. CallsInv'
  BY CallerKeepsCalls
<1>3. n = 0 => dest = <<>>
  BY <1>0
<1>4. \A d \in Callers : call[d] > 0 /\ (call[c] > 0 \/ call[c] < Calls[types][c]) => c = d
  BY Alone
<1>5. CASE Begin(c)
  <2>1. UNCHANGED listVars /\ hit'[c] = FALSE /\ call'[c] > 0 /\ step[c] = "idle"
        /\ IF link[0] = 0
           THEN rest'[c] = Route /\ step'[c] = (IF Route = <<>> THEN "idle" ELSE "search")
           ELSE rest'[c] = <<>> /\ step'[c] = "room" /\ proc'[c] = link[0]
    BY <1>0, <1>5 DEF Begin
  <2>2. dest' = dest
    BY <2>1 DEF listVars
  <2>3. CASE link[0] = 0
    <3>1. n = 0
      <4>1. link[0] = IF 0 < n THEN 0 + 1 ELSE 0
        BY DEF ChildList
      <4> QED BY <1>0, <2>3, <4>1
    <3>2. CASE Route = <<>>
      <4>1. l = 0 /\ rest'[c] = <<>> /\ Len(rest'[c]) = 0 /\ DOMAIN rest'[c] = {} /\ step'[c] = "idle"
        BY <2>1, <2>3, <3>2
      <4>2. ChildCaller(c)'
        BY <1>1, <2>2, <3>1, <4>1 DEF ChildCaller
      <4> QED BY <2>1, <4>2, ChildStep
    <3>3. CASE Route # <<>>
      <4>1. rest'[c] = Route /\ step'[c] = "search"
        BY <2>1, <2>3, <3>3
      <4>2. At(c)' = l - l + 1
        BY <1>1, <3>3, <4>1 DEF At
      <4>3. \A j \in DOMAIN Route : Route[l - l + j] = Route[j]
        <5> HIDE DEF l
        <5>1. \A j \in DOMAIN Route : l - l + j = j
          BY <1>0
        <5> QED BY <5>1
      <4> HIDE DEF l
      <4>4. At(c)' = n + 1 /\ l <= l
        BY <1>0, <3>1, <4>2
      <4>5. ChildCaller(c)'
        BY <1>1, <2>1, <2>2, <4>1, <4>3, <4>4 DEF ChildCaller, l
      <4> QED BY <2>1, <4>5, ChildStep
    <3> QED BY <3>2, <3>3
  <2>4. CASE link[0] # 0
    <3>1. n # 0
      <4>1. link[0] = IF 0 < n THEN 0 + 1 ELSE 0
        BY DEF ChildList
      <4> QED BY <1>0, <2>4, <4>1
    <3>2. n = l
      <4>1. PICK d \in Callers : call[d] > 0
        <5>1. dest # <<>>
          BY <3>1
        <5> QED BY <5>1 DEF ChildList
      <4>2. d = c
        BY <1>4, <1>5, <4>1 DEF Begin
      <4> QED BY <1>0, <2>1, <4>1, <4>2 DEF ChildCaller
    <3>3. rest'[c] = <<>> /\ Len(rest'[c]) = 0 /\ DOMAIN rest'[c] = {} /\ step'[c] = "room"
      BY <2>1, <2>4
    <3>4. ChildCaller(c)'
      BY <1>0, <1>1, <2>2, <3>2, <3>3 DEF ChildCaller
    <3> QED BY <2>1, <3>4, ChildStep
  <2> QED BY <2>3, <2>4
<1>6. CASE Search(c)
  <2>1. step[c] = "search" /\ rest[c] # <<>> /\ hit[c] = FALSE /\ At(c) = n + 1
    BY <1>0, <1>6 DEF Search, CallerOK, ChildCaller
  <2>2. At(c) = l - Len(rest[c]) + 1
    BY <2>1 DEF At
  <2> HIDE DEF n, l
  <2>3. 1 \in DOMAIN rest[c] /\ rest[c][1] = Head(rest[c])
    BY <1>0, <2>1, Ends
  <2>4. Head(rest[c]) = Route[n + 1] /\ n + 1 \in 1..l
    <3>1. rest[c][1] = Route[l - Len(rest[c]) + 1]
      BY <1>0, <2>3 DEF ChildCaller, l
    <3>2. Len(rest[c]) # 0
      BY <1>0, <2>3
    <3>3. l - Len(rest[c]) + 1 = n + 1
      BY <2>1, <2>2
    <3>4. n + 1 <= l
      BY <1>0, <3>2, <3>3
    <3> QED BY <1>0, <2>3, <3>1, <3>3, <3>4
  <2>5. \A i \in DOMAIN Chain : dest[Chain[i]] # Head(rest[c])
    <3> SUFFICES ASSUME NEW i \in DOMAIN Chain, dest[Chain[i]] = Head(rest[c]) PROVE FALSE
      OBVIOUS
    <3>1. Chain[i] \in 1..n
      <4>1. Chain \in Seq(1..n)
        BY ChainInv DEF n
      <4> QED BY <4>1, Member
    <3>2. Route[Chain[i]] = Route[n + 1] /\ Chain[i] \in 1..l
      <4>1. dest[Chain[i]] = Route[Chain[i]]
        BY <1>0, <3>1 DEF ChildList
      <4> QED BY <1>0, <2>4, <3>1, <4>1
    <3>3. Route = ChildAddresses
      BY DEF Route
    <3>4. Chain[i] = n + 1
      BY <1>0, <2>4, <3>2, <3>3 DEF OneSender
    <3> QED BY <1>0, <3>1, <3>4
  <2>6. /\ proc' = [proc EXCEPT ![c] =
                       IF hit[c] \/ Chain = <<>> THEN 0 ELSE Chain[Len(Chain)]]
        /\ step' = [step EXCEPT ![c] = IF hit[c] THEN "crash" ELSE "create"]
        /\ UNCHANGED hit
        /\ UNCHANGED <<types, listVars, call, rest>>
    BY <1>6, <2>5 DEF Search
  <2>7. proc'[c] = n /\ step'[c] = "create" /\ rest'[c] = rest[c] /\ hit'[c] = FALSE
    BY <1>0, <2>1, <2>6, ChainLast DEF n
  <2>8. At(c)' = At(c) /\ dest' = dest
    BY <1>1, <2>1, <2>6, <2>7 DEF At, listVars
  <2>9. ChildCaller(c)'
    BY <1>0, <1>1, <2>1, <2>7, <2>8 DEF ChildCaller, n
  <2>10. call'[c] > 0
    BY <2>1, <2>6 DEF CallsInv
  <2> QED BY <2>6, <2>9, <2>10, ChildStep
<1>7. CASE Create(c)
  <2>1. /\ step[c] = "create" /\ n + 1 <= MaxElements
        /\ dest' = Append(dest, Head(rest[c]))
        /\ link' = [link EXCEPT ![proc[c]] = n + 1]
        /\ proc'[c] = n + 1
        /\ step'[c] = "room"
        /\ UNCHANGED <<call, rest, hit>>
    BY <1>0, <1>7 DEF Create
  <2>2. proc[c] = n /\ rest[c] # <<>> /\ hit[c] = FALSE /\ At(c) = n + 1 /\ call[c] > 0
    BY <1>0, <2>1 DEF CallerOK, ChildCaller, CallsInv
  <2>3. At(c) = l - Len(rest[c]) + 1
    BY <2>2 DEF At
  <2> HIDE DEF n, l
  <2>4. 1 \in DOMAIN rest[c] /\ rest[c][1] = Head(rest[c]) /\ Head(rest[c]) \in Addresses
    BY <1>0, <2>2, Ends
  <2>5. Head(rest[c]) = Route[n + 1] /\ n + 1 \in 1..l
    <3>1. rest[c][1] = Route[l - Len(rest[c]) + 1]
      BY <1>0, <2>4 DEF ChildCaller, l
    <3>2. Len(rest[c]) # 0
      BY <1>0, <2>4
    <3>3. l - Len(rest[c]) + 1 = n + 1
      BY <2>2, <2>3
    <3>4. n + 1 <= l
      BY <1>0, <3>2, <3>3
    <3> QED BY <1>0, <2>4, <3>1, <3>3, <3>4
  <2>6. /\ dest' # <<>> /\ Len(dest') = n + 1
        /\ DOMAIN dest' = DOMAIN dest \cup {n + 1}
        /\ \A k \in DOMAIN dest : dest'[k] = dest[k]
        /\ dest'[n + 1] = Head(rest[c])
    BY <1>0, <2>1, <2>4, Appended DEF n
  <2>7. \A k \in DOMAIN dest' : dest'[k] = Route[k]
    BY <2>5, <2>6 DEF ChildList
  <2>8. ASSUME NEW e \in {0} \cup Elements PROVE link'[e] = IF e < n + 1 THEN e + 1 ELSE 0
    <3>1. link[e] = IF e < n THEN e + 1 ELSE 0
      BY DEF ChildList, n
    <3>2. e \in Nat
      BY ElementFacts
    <3>3. CASE e = n
      <4>1. link'[e] = n + 1
        BY <1>0, <2>1, <2>2, <3>3
      <4> QED BY <1>0, <3>3, <4>1
    <3>4. CASE e # n
      <4>1. link'[e] = link[e]
        BY <1>0, <2>1, <2>2, <3>4
      <4>2. e < n <=> e < n + 1
        BY <1>0, <3>2, <3>4
      <4> QED BY <3>1, <4>1, <4>2
    <3> QED BY <3>3, <3>4
  <2>9. ASSUME NEW d \in Callers PROVE ChildCaller(d)'
    <3>1. CASE d = c
      <4>1. rest'[d] = rest[d] /\ hit'[d] = FALSE /\ step'[d] = "room" /\ proc'[d] = n + 1
        BY <2>1, <2>2, <3>1
      <4>2. At(d)' = n + 1
        BY <1>1, <2>2, <3>1, <4>1 DEF At
      <4> QED BY <1>0, <1>1, <2>2, <2>6, <3>1, <4>1, <4>2 DEF ChildCaller, l
    <3>2. CASE d # c
      <4>1. /\ step'[d] = step[d] /\ rest'[d] = rest[d] /\ call'[d] = call[d]
        BY <3>2, OthersStay
      <4>2. ~(call[d] > 0)
        BY <1>4, <2>2, <3>2
      <4>3. step[d] = "idle"
        BY <4>2 DEF CallsInv
      <4>4. ChildCaller(d)
        BY DEF ChildList
      <4> QED BY <1>1, <4>1, <4>2, <4>3, <4>4 DEF ChildCaller
    <3> QED BY <3>1, <3>2
  <2>10. Len(dest') <= Len(Route')
    BY <1>0, <1>1, <2>5, <2>6 DEF l
  <2>11. \E d \in Callers : call'[d] > 0
    BY <2>1, <2>2
  <2> QED BY <1>1, <2>6, <2>7, <2>8, <2>9, <2>10, <2>11 DEF ChildList
<1>8. CASE CheckRoom(c) \/ TakeNumber(c) \/ Insert(c)
  <2>1. /\ UNCHANGED <<listVars, call, rest, hit, proc>>
        /\ step'[c] \in {"number", "insert", "signal"}
        /\ step[c] \in {"room", "number", "insert"}
    BY <1>0, <1>8 DEF CheckRoom, TakeNumber, Insert
  <2>2. dest' = dest /\ At(c)' = At(c) /\ call'[c] > 0
    BY <1>1, <2>1 DEF At, listVars, CallsInv
  <2>3. ChildCaller(c)'
    BY <1>0, <1>1, <2>1, <2>2 DEF ChildCaller
  <2> QED BY <2>1, <2>2, <2>3, ChildStep
<1>9. CASE Signal(c)
  <2>1. step[c] = "signal" /\ UNCHANGED <<listVars, call, hit>> /\ Advance(c)
    BY <1>9 DEF Signal
  <2>2. dest' = dest /\ call'[c] > 0
    BY <2>1 DEF listVars, CallsInv
  <2>3. CASE Len(rest[c]) > 1
    <3>1. rest'[c] = Tail(rest[c]) /\ step'[c] = "search"
      BY <1>0, <2>1, <2>3 DEF Advance
    <3>2. rest[c] # <<>>
      BY <2>3
    <3>3. hit'[c] = FALSE /\ At(c) = n
      BY <1>0, <2>1, <3>2 DEF ChildCaller
    <3>4. At(c) = l - Len(rest[c]) + 1
      BY <3>2 DEF At
    <3> HIDE DEF n, l
    <3> DEFINE s == Tail(rest[c])
    <3>5. /\ s \in Seq(Addresses) /\ s # <<>> /\ Len(s) = Len(rest[c]) - 1
          /\ \A i \in 1..(Len(rest[c]) - 1) : s[i] = rest[c][i + 1]
      BY <1>0, <2>3, <3>2, Ends
    <3>6. DOMAIN s = 1..(Len(rest[c]) - 1)
      <4> HIDE DEF s
      <4> QED BY <3>5
    <3> HIDE DEF s
    <3>7. At(c)' = l - Len(s) + 1
      BY <1>1, <3>1, <3>5 DEF At, l, s
    <3>8. At(c)' = n + 1
      BY <1>0, <3>3, <3>4, <3>5, <3>7
    <3>9. Len(s) <= l
      <4>1. Len(rest[c]) <= l
        BY <1>0 DEF ChildCaller, l
      <4> QED BY <1>0, <3>5, <4>1
    <3>10. ASSUME NEW j \in DOMAIN s PROVE s[j] = Route[l - Len(s) + j]
      <4>1. j \in Nat /\ j + 1 \in DOMAIN rest[c]
        BY <1>0, <3>6
      <4>2. s[j] = rest[c][j + 1]
        BY <3>5, <3>6
      <4>3. rest[c][j + 1] = Route[l - Len(rest[c]) + (j + 1)]
        BY <1>0, <4>1 DEF ChildCaller, l
      <4>4. l - Len(rest[c]) + (j + 1) = l - Len(s) + j
        BY <1>0, <3>5, <4>1
      <4> QED BY <4>2, <4>3, <4>4
    <3>11. rest'[c] = s /\ Route' = Route
      BY <1>1, <3>1 DEF s
    <3>12. ChildCaller(c)'
      BY <2>2, <3>1, <3>3, <3>8, <3>9, <3>10, <3>11 DEF ChildCaller, l, n
    <3> QED BY <2>1, <2>2, <3>12, ChildStep
  <2>4. CASE ~(Len(rest[c]) > 1)
    <3>1. rest'[c] = <<>> /\ Len(rest'[c]) = 0 /\ DOMAIN rest'[c] = {} /\ step'[c] \in {"idle", "room"}
      BY <1>0, <2>1, <2>4 DEF Advance
    <3>2. n = l
      <4>1. CASE rest[c] = <<>>
        BY <1>0, <2>1, <4>1 DEF ChildCaller
      <4>2. CASE rest[c] # <<>>
        <5>1. At(c) = n /\ At(c) = l - Len(rest[c]) + 1
          BY <1>0, <2>1, <4>2 DEF ChildCaller, At
        <5>2. Len(rest[c]) = 1
          <6>1. Len(rest[c]) # 0
            BY <1>0, <4>2
          <6> QED BY <1>0, <2>4, <6>1
        <5> HIDE DEF n, l
        <5> QED BY <1>0, <5>1, <5>2
      <4> QED BY <4>1, <4>2
    <3>3. ChildCaller(c)'
      BY <1>0, <1>1, <2>2, <3>1, <3>2 DEF ChildCaller
    <3> QED BY <2>1, <2>2, <3>3, ChildStep
  <2> QED BY <2>3, <2>4
<1> QED BY <1>5, <1>6, <1>7, <1>8, <1>9 DEF Caller

LEMMA CallerKeepsPlaces ==
    ASSUME OneSender, ListInv, PlacesInv, NEW c \in Callers, Caller(c)
    PROVE  PlacesInv'
<1>1. CallsInv' /\ nextNodeType' = nextNodeType
  BY CallerKeepsCalls DEF PlacesInv, types
<1>2. nextNodeType = "PARENT" => ParentList'
  BY CallerKeepsParent DEF PlacesInv
<1>3. nextNodeType = "CHILDLEN" => ChildList'
  BY CallerKeepsChild DEF PlacesInv
<1> QED BY <1>1, <1>2, <1>3 DEF PlacesInv

LEMMA RouteFacts ==
    ASSUME OneSender, ListInv
    PROVE  /\ Route \in Seq(Addresses) /\ Len(Route) \in Nat /\ DOMAIN Route = 1..Len(Route)
           /\ \A i, j \in DOMAIN Route : Route[i] = Route[j] => i = j
           /\ nextNodeType \in {"PARENT", "CHILDLEN"}
           /\ nextNodeType = "PARENT" =>
                 /\ Len(Route) = 1 /\ Route[1] = ParentAddress
                 /\ \A c \in Callers : At(c) = 1
<1>1. Route \in Seq(Addresses) /\ nextNodeType \in {"PARENT", "CHILDLEN"}
  BY RouteType DEF ListInv, ListTypes, NodeTypes
<1>2. CASE nextNodeType = "PARENT"
  <2>1. Route = <<ParentAddress>> /\ \A c \in Callers : At(c) = 1
    BY <1>2 DEF Route, At
  <2> QED BY <1>1, <1>2, <2>1
<1>3. CASE nextNodeType # "PARENT"
  <2>1. \A i, j \in DOMAIN Route : Route[i] = Route[j] => i = j
    BY <1>3 DEF Route, OneSender
  <2> QED BY <1>1, <1>3, <2>1
<1> QED BY <1>2, <1>3

(* Where there is room to be looked for, the element is for the address the *)
(* caller stands at.                                                        *)
LEMMA AtElement ==
    ASSUME OneSender, ListInv, PlacesInv, NEW c \in Callers, step[c] = "room"
    PROVE  At(c) \in DOMAIN Route /\ dest[proc[c]] = Route[At(c)]
<1>1. /\ proc[c] # 0 /\ proc[c] <= Len(dest) /\ proc[c] \in Nat
      /\ dest \in Seq(Addresses) /\ Len(dest) \in Nat /\ DOMAIN dest = 1..Len(dest)
  <2>1. proc[c] # 0 /\ proc[c] <= Len(dest) /\ dest \in Seq(Addresses)
    BY DEF ListInv, ListTypes, CallerOK
  <2>2. proc[c] \in Nat
    BY ElementFacts DEF ListInv, ListTypes
  <2> QED BY <2>1, <2>2
<1>2. CASE nextNodeType = "PARENT"
  <2>1. dest[proc[c]] = ParentAddress
    BY <1>1, <1>2 DEF PlacesInv, ParentList
  <2> QED BY <1>2, <2>1, RouteFacts
<1>3. CASE nextNodeType # "PARENT"
  <2>1. ChildList /\ ChildCaller(c)
    BY <1>3, RouteFacts DEF PlacesInv, ChildList
  <2>2. CASE rest[c] = <<>>
    <3>1. At(c) = proc[c] /\ Len(dest) = Len(Route)
      BY <1>3, <2>1, <2>2 DEF At, ChildCaller
    <3> QED BY <1>1, <2>1, <3>1, RouteFacts DEF ChildList
  <2>3. CASE rest[c] # <<>>
    <3>1. At(c) = proc[c] /\ Len(dest) <= Len(Route)
      BY <2>1, <2>3 DEF ChildCaller, ChildList
    <3> QED BY <1>1, <2>1, <3>1, RouteFacts DEF ChildList
  <2> QED BY <2>2, <2>3
<1> QED BY <1>2, <1>3

(* Only the test for room counts as offering.                               *)
LEMMA DoneStep ==
    ASSUME OneSender, ListInv, PlacesInv, NEW c \in Callers, Caller(c)
    PROVE  /\ Begin(c) => Done(c)' = 0
           /\ CheckRoom(c) => Done(c) = At(c) - 1 /\ Done(c)' = At(c)
           /\ ~Begin(c) /\ ~CheckRoom(c) => Done(c)' = Done(c)
<1>0. /\ step \in [Callers -> {"idle", "search", "create", "room", "number", "insert",
                               "signal", "crash"}]
      /\ rest \in [Callers -> Seq(Addresses)] /\ call \in [Callers -> Nat]
      /\ hit \in [Callers -> BOOLEAN] /\ proc \in [Callers -> {0} \cup Elements]
      /\ dest \in Seq(Addresses) /\ Len(dest) \in Nat
      /\ CallerOK(c)
  BY DEF ListInv, ListTypes
<1>1. Route' = Route /\ nextNodeType' = nextNodeType
  BY CallerKeepsCalls DEF PlacesInv, types, Route
<1>2. nextNodeType # "PARENT" => ChildList /\ ChildCaller(c)
  BY RouteFacts DEF PlacesInv, ChildList
<1>3. ASSUME step[c] # "idle", step'[c] # "idle", rest'[c] = rest[c],
             rest[c] # <<>> \/ proc'[c] = proc[c]
      PROVE  At(c)' = At(c)
  BY <1>1, <1>3 DEF At
<1>l. PICK l : l = Len(Route)
  OBVIOUS
<1>4. l \in Nat /\ Len(rest[c]) \in Nat
  <2>1. l \in Nat
    BY <1>l, RouteFacts
  <2>2. rest[c] \in Seq(Addresses)
    BY <1>0
  <2> QED BY <2>1, <2>2
<1>5. CASE Begin(c)
  <2>1. step[c] = "idle"
        /\ IF link[0] = 0
           THEN rest'[c] = Route /\ step'[c] = (IF Route = <<>> THEN "idle" ELSE "search")
           ELSE rest'[c] = <<>> /\ step'[c] = "room" /\ proc'[c] = link[0]
    BY <1>0, <1>5 DEF Begin
  <2>2. CASE step'[c] = "idle"
    <3>1. Route = <<>>
      BY <2>1, <2>2
    <3> QED BY <1>1, <1>5, <2>1, <2>2, <3>1 DEF Done, CheckRoom
  <2>3. CASE step'[c] # "idle"
    <3>1. At(c)' = 1
      <4>1. CASE nextNodeType = "PARENT"
        BY <1>1, <4>1 DEF At
      <4>2. CASE nextNodeType # "PARENT"
        <5>1. link[0] = IF 0 < Len(dest) THEN 0 + 1 ELSE 0
          BY <1>2, <4>2 DEF ChildList
        <5>2. CASE link[0] = 0
          <6>1. rest'[c] = Route /\ rest'[c] # <<>>
            BY <2>1, <2>3, <5>2
          <6>2. At(c)' = l - l + 1
            BY <1>l, <1>1, <4>2, <6>1 DEF At
          <6> QED BY <1>4, <6>2
        <5>3. CASE link[0] # 0
          <6>1. rest'[c] = <<>> /\ proc'[c] = 1
            BY <2>1, <5>1, <5>3
          <6> QED BY <1>1, <4>2, <6>1 DEF At
        <5> QED BY <5>2, <5>3
      <4> QED BY <4>1, <4>2
    <3>2. step'[c] \in {"search", "room"}
      BY <2>1, <2>3
    <3>3. Done(c)' = At(c)' - 1
      BY <3>2 DEF Done
    <3> QED BY <1>5, <2>1, <3>1, <3>3 DEF CheckRoom
  <2> QED BY <2>2, <2>3
<1>6. CASE Search(c) \/ Create(c)
  <2>1. /\ step[c] \in {"search", "create"} /\ step'[c] \in {"create", "room", "crash"}
        /\ rest' = rest
    BY <1>0, <1>6 DEF Search, Create
  <2>2. At(c)' = At(c)
    BY <1>0, <1>3, <2>1 DEF CallerOK
  <2>3. Done(c)' = At(c)' - 1 /\ Done(c) = At(c) - 1
    BY <2>1 DEF Done
  <2> QED BY <2>1, <2>2, <2>3 DEF Begin, CheckRoom
<1>7. CASE CheckRoom(c)
  <2>1. step[c] = "room" /\ step'[c] \in {"number", "signal"} /\ rest' = rest /\ proc' = proc
    BY <1>0, <1>7 DEF CheckRoom
  <2>2. At(c)' = At(c)
    BY <1>3, <2>1
  <2> QED BY <1>7, <2>1, <2>2 DEF Done, Begin
<1>8. CASE TakeNumber(c) \/ Insert(c)
  <2>1. /\ step[c] \in {"number", "insert"} /\ step'[c] \in {"insert", "signal"}
        /\ rest' = rest /\ proc' = proc
    BY <1>0, <1>8 DEF TakeNumber, Insert
  <2>2. At(c)' = At(c)
    BY <1>3, <2>1
  <2> QED BY <2>1, <2>2 DEF Done, Begin, CheckRoom
<1>9. CASE Signal(c)
  <2>1. step[c] = "signal" /\ Advance(c)
    BY <1>9 DEF Signal
  <2>2. Done(c) = At(c)
    BY <2>1 DEF Done
  <2>3. CASE Len(rest[c]) > 1
    <3>1. rest'[c] = Tail(rest[c]) /\ step'[c] = "search" /\ rest[c] # <<>>
      BY <1>0, <2>1, <2>3 DEF Advance
    <3>2. nextNodeType # "PARENT"
      <4> SUFFICES ASSUME nextNodeType = "PARENT" PROVE FALSE
        OBVIOUS
      <4>1. rest[c] = Route /\ Len(Route) = 1
        BY <3>1, RouteFacts DEF PlacesInv, ParentList, ParentCaller
      <4> QED BY <2>3, <4>1
    <3>3. rest'[c] # <<>> /\ Len(rest'[c]) = Len(rest[c]) - 1
      BY <1>0, <2>3, <3>1, Ends
    <3>4. At(c)' = l - Len(rest'[c]) + 1
      BY <1>l, <1>1, <3>2, <3>3 DEF At
    <3>5. At(c) = l - Len(rest[c]) + 1
      BY <1>l, <3>1, <3>2 DEF At
    <3>6. Done(c)' = At(c)' - 1
      BY <3>1 DEF Done
    <3>8. Done(c)' = Done(c)
      <4>1. PICK x, y : x = Len(rest'[c]) /\ y = Len(rest[c])
        OBVIOUS
      <4>2. x = y - 1 /\ y \in Nat
        BY <1>4, <3>3, <4>1
      <4>3. At(c)' = l - x + 1
        BY <3>4, <4>1
      <4>4. Done(c)' = l - x + 1 - 1
        BY <1>4, <3>6, <4>2, <4>3
      <4>5. Done(c) = l - y + 1
        BY <2>2, <3>5, <4>1
      <4> QED BY <1>4, <4>2, <4>4, <4>5
    <3> QED BY <2>1, <3>8 DEF Begin, CheckRoom
  <2>4. CASE ~(Len(rest[c]) > 1)
    <3> DEFINE after == IF rest[c] = <<>> THEN link[proc[c]] ELSE 0
    <3>1. rest'[c] = <<>> /\ step'[c] = (IF after = 0 THEN "idle" ELSE "room") /\ proc'[c] = after
      BY <1>0, <2>1, <2>4 DEF Advance
    <3>2. proc[c] \in Elements /\ proc[c] <= Len(dest) /\ proc[c] \in Nat
      BY <1>0, <2>1, ElementFacts DEF CallerOK
    <3>3. CASE nextNodeType = "PARENT"
      <4>1. after = 0
        BY <3>2, <3>3 DEF PlacesInv, ParentList
      <4>2. Done(c)' = Len(Route) /\ Len(Route) = 1 /\ At(c) = 1
        BY <1>1, <3>1, <3>3, <4>1, RouteFacts DEF Done
      <4> QED BY <2>1, <2>2, <4>2 DEF Begin, CheckRoom
    <3>4. CASE nextNodeType # "PARENT" /\ rest[c] # <<>>
      <4>1. step'[c] = "idle"
        BY <3>1, <3>4
      <4>2. At(c) = l - Len(rest[c]) + 1
        BY <1>l, <3>4 DEF At
      <4>3. Len(rest[c]) # 0
        BY <1>0, <3>4
      <4>4. Done(c)' = l
        BY <1>l, <1>1, <4>1 DEF Done
      <4>5. At(c) = l
        BY <1>4, <2>4, <4>2, <4>3
      <4> QED BY <2>1, <2>2, <4>4, <4>5 DEF Begin, CheckRoom
    <3>5. CASE nextNodeType # "PARENT" /\ rest[c] = <<>>
      <4>1. At(c) = proc[c] /\ Len(dest) = l
        BY <1>l, <1>2, <2>1, <3>5 DEF At, ChildCaller
      <4>2. after = IF proc[c] < Len(dest) THEN proc[c] + 1 ELSE 0
        BY <1>2, <3>2, <3>5 DEF ChildList
      <4>3. CASE proc[c] < Len(dest)
        <5>1. after = proc[c] + 1 /\ after # 0
          BY <3>2, <4>2, <4>3
        <5>2. step'[c] = "room" /\ At(c)' = proc[c] + 1
          BY <1>1, <3>1, <3>5, <5>1 DEF At
        <5>3. Done(c)' = (proc[c] + 1) - 1
          BY <5>2 DEF Done
        <5> QED BY <2>1, <2>2, <3>2, <4>1, <5>3 DEF Begin, CheckRoom
      <4>4. CASE ~(proc[c] < Len(dest))
        <5>1. step'[c] = "idle" /\ proc[c] = l
          BY <1>0, <3>1, <3>2, <4>1, <4>2, <4>4
        <5>2. Done(c)' = l
          BY <1>l, <1>1, <5>1 DEF Done
        <5> QED BY <2>1, <2>2, <4>1, <5>1, <5>2 DEF Begin, CheckRoom
      <4> QED BY <4>3, <4>4
    <3> QED BY <3>3, <3>4, <3>5
  <2> QED BY <2>3, <2>4
<1> QED BY <1>5, <1>6, <1>7, <1>8, <1>9 DEF Caller

LEMMA CallerKeepsOffers ==
    ASSUME OneSender, ListInv, PlacesInv, OffersInv, NEW c \in Callers, Caller(c)
    PROVE  OffersInv'
<1>0. /\ call \in [Callers -> Nat] /\ offered \in Seq(Addresses \X (Callers \X Nat))
      /\ ListInv' /\ offered' \in Seq(Addresses \X (Callers \X Nat))
  BY CallerKeepsListInv DEF ListInv, ListTypes
<1>1. Route' = Route /\ nextNodeType' = nextNodeType
  BY CallerKeepsCalls DEF PlacesInv, types, Route
<1>2. \A d \in Callers : d # c => Done(d)' = Done(d) /\ Packet(d)' = Packet(d) /\ call'[d] = call[d]
  BY <1>1, OthersStay DEF Done, At, Packet
<1>3. /\ Route \in Seq(Addresses) /\ DOMAIN Route = 1..Len(Route) /\ Len(Route) \in Nat
      /\ \A i, j \in DOMAIN Route : Route[i] = Route[j] => i = j
  BY RouteFacts
<1>4. \A k \in DOMAIN offered : offered[k] \in Addresses \X (Callers \X Nat)
  BY <1>0
<1>5. CASE Begin(c)
  <2>1. offered' = offered /\ call' = [call EXCEPT ![c] = call[c] + 1]
    BY <1>5 DEF Begin
  <2>2. Done(c)' = 0 /\ call'[c] = call[c] + 1 /\ call[c] \in Nat
    BY <1>0, <1>5, <2>1, DoneStep
  <2>3. \A k \in DOMAIN offered : offered[k][2][1] \in Callers /\ offered[k][2][2] \in Nat
    BY <1>4
  <2>4. \A k \in DOMAIN offered : offered[k][2][2] <= call'[offered[k][2][1]]
    <3> SUFFICES ASSUME NEW k \in DOMAIN offered
                 PROVE  offered[k][2][2] <= call'[offered[k][2][1]]
      OBVIOUS
    <3> DEFINE d == offered[k][2][1]
               m == offered[k][2][2]
    <3>1. d \in Callers /\ m \in Nat /\ m <= call[d]
      BY <2>3 DEF OffersInv
    <3> HIDE DEF d, m
    <3>2. m <= call'[d]
      <4>1. CASE d = c
        BY <2>2, <3>1, <4>1
      <4>2. CASE d # c
        BY <1>2, <3>1, <4>2
      <4> QED BY <4>1, <4>2
    <3> QED BY <3>2 DEF d, m
  <2>5. \A a : Offers(a, Packet(c)') = {}
    <3> SUFFICES ASSUME NEW a, NEW k \in DOMAIN offered, offered[k] = <<a, Packet(c)'>>
                 PROVE  FALSE
      BY DEF Offers
    <3>1. offered[k][2][1] = c /\ offered[k][2][2] = call[c] + 1
      BY <2>2 DEF Packet
    <3>2. call[c] + 1 <= call[c]
      BY <3>1 DEF OffersInv
    <3> QED BY <2>2, <3>2
  <2>6. ASSUME NEW d \in Callers, call'[d] > 0, NEW i \in DOMAIN Route
        PROVE  IF i <= Done(d)' THEN Once(Offers(Route[i], Packet(d)'))
               ELSE Offers(Route[i], Packet(d)') = {}
    <3>1. CASE d = c
      <4>1. ~(i <= Done(d)')
        BY <1>3, <2>2, <3>1
      <4> QED BY <2>5, <3>1, <4>1
    <3>2. CASE d # c
      BY <1>2, <2>6, <3>2 DEF OffersInv
    <3> QED BY <3>1, <3>2
  <2> QED BY <1>1, <2>1, <2>4, <2>6 DEF OffersInv, Offers
<1>6. CASE CheckRoom(c)
  <2>1. /\ offered' = Append(offered, <<dest[proc[c]], Packet(c)>>) /\ call' = call
        /\ step[c] = "room"
    BY <1>6 DEF CheckRoom
  <2>2. At(c) \in DOMAIN Route /\ dest[proc[c]] = Route[At(c)]
        /\ Done(c) = At(c) - 1 /\ Done(c)' = At(c)
    BY <1>6, <2>1, AtElement, DoneStep
  <2> DEFINE x == <<Route[At(c)], Packet(c)>>
             n == Len(offered) + 1
  <2>3. x \in Addresses \X (Callers \X Nat)
    <3>1. Route[At(c)] \in Addresses
      BY <1>3, <2>2
    <3>2. Packet(c) \in Callers \X Nat
      BY <1>0 DEF Packet
    <3> QED BY <3>1, <3>2
  <2>4. /\ offered' = Append(offered, x)
        /\ DOMAIN offered' = DOMAIN offered \cup {n} /\ n \notin DOMAIN offered
        /\ \A k \in DOMAIN offered : offered'[k] = offered[k]
        /\ offered'[n] = x
    <3>1. offered' = Append(offered, x)
      BY <2>1, <2>2
    <3> HIDE DEF x
    <3>2. DOMAIN offered = 1..Len(offered) /\ Len(offered) \in Nat
      BY <1>0
    <3> QED BY <1>0, <2>3, <3>1, <3>2, Appended
  <2>5. \A k \in DOMAIN offered' : offered'[k][2][2] <= call'[offered'[k][2][1]]
    <3>1. x[2][2] = call[c] /\ x[2][1] = c
      BY DEF Packet
    <3>2. call[c] <= call[c]
      BY <1>0
    <3> HIDE DEF x, n
    <3> QED BY <2>1, <2>4, <3>1, <3>2 DEF OffersInv
  <2>6. \A pkt, a : Offers(a, pkt)' = IF <<a, pkt>> = x THEN Offers(a, pkt) \cup {n}
                                      ELSE Offers(a, pkt)
    <3> HIDE DEF x, n
    <3> QED BY <2>4 DEF Offers
  <2>7. \A d \in Callers : Packet(d)' = Packet(d)
    BY <2>1 DEF Packet
  <2>8. ASSUME NEW d \in Callers, call'[d] > 0, NEW i \in DOMAIN Route
        PROVE  IF i <= Done(d)' THEN Once(Offers(Route[i], Packet(d)))'
               ELSE Offers(Route[i], Packet(d))' = {}
    <3>0. call[d] > 0 /\ Route[i]' = Route[i] /\ Packet(d)' = Packet(d)
      BY <1>1, <2>1, <2>7, <2>8
    <3>1. CASE d = c /\ i = At(c)
      <4>1. Offers(Route[i], Packet(d)) = {}
        <5>1. ~(i <= Done(d))
          BY <1>3, <2>2, <3>1
        <5> QED BY <3>0, <5>1 DEF OffersInv
      <4>2. Offers(Route[i], Packet(d))' = {n}
        BY <2>6, <3>0, <3>1, <4>1
      <4>3. i <= Done(d)'
        BY <1>3, <2>2, <3>1
      <4> QED BY <4>2, <4>3 DEF Once
    <3>2. CASE ~(d = c /\ i = At(c))
      <4>1. <<Route[i], Packet(d)>> # x
        BY <1>3, <2>2, <3>2 DEF Packet
      <4>2. Offers(Route[i], Packet(d))' = Offers(Route[i], Packet(d))
        BY <2>6, <3>0, <4>1
      <4>3. i <= Done(d)' <=> i <= Done(d)
        <5>1. CASE d # c
          BY <1>2, <5>1
        <5>2. CASE d = c
          BY <1>3, <2>2, <3>2, <5>2
        <5> QED BY <5>1, <5>2
      <4> QED BY <3>0, <4>2, <4>3 DEF OffersInv, Once
    <3> QED BY <3>1, <3>2
  <2> QED BY <1>1, <2>5, <2>8 DEF OffersInv
<1>7. CASE ~Begin(c) /\ ~CheckRoom(c)
  <2>1. UNCHANGED <<offered, call>>
    BY <1>7 DEF Caller, Search, Create, TakeNumber, Insert, Signal
  <2>2. \A d \in Callers : Done(d)' = Done(d)
    BY <1>2, <1>7, DoneStep
  <2>3. \A a, pkt : Offers(a, pkt)' = Offers(a, pkt)
    BY <2>1 DEF Offers
  <2>4. \A d \in Callers : Packet(d)' = Packet(d)
    BY <2>1 DEF Packet
  <2>5. ASSUME NEW d \in Callers, call'[d] > 0, NEW i \in DOMAIN Route
        PROVE  IF i <= Done(d)' THEN Once(Offers(Route[i], Packet(d)))'
               ELSE Offers(Route[i], Packet(d))' = {}
    <3>1. Offers(Route[i], Packet(d))' = Offers(Route[i], Packet(d))
      BY <1>1, <2>3, <2>4
    <3>2. IF i <= Done(d) THEN Once(Offers(Route[i], Packet(d)))
          ELSE Offers(Route[i], Packet(d)) = {}
      BY <2>1, <2>5 DEF OffersInv
    <3> QED BY <2>2, <3>1, <3>2 DEF Once
  <2> QED BY <1>1, <2>1, <2>5 DEF OffersInv
<1> QED BY <1>5, <1>6, <1>7
=============================================================================
