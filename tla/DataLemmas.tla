---------------------------- MODULE DataLemmas ------------------------------
(***************************************************************************)
(* What the proofs of the other modules need to know of their data: least  *)
(* and greatest elements of sets of numbers (`the first element of the     *)
(* list such that ...'), induction stated with a set and recursion stated  *)
(* with a function instead of an operator (for the recursive functions),   *)
(* and lists that are taken apart at the head or in the middle.            *)
(***************************************************************************)
EXTENDS Integers, FiniteSets, SequenceTheorems, TLAPS, WellFoundedInduction

LEMMA LeastInRelation ==
    ASSUME NEW R, IsWellFoundedOn(R, Nat),
           \A x, y \in Nat : y < x => <<y, x>> \in R,
           NEW S \in SUBSET Nat, S # {}
    PROVE  \E x \in S : \A y \in S : x <= y
<1>1. PICK x \in S : \A y \in S : ~ (<<y, x>> \in R)
  BY WFMin
<1>2. ASSUME NEW y \in S PROVE x <= y
  <2>1. x \in Nat /\ y \in Nat
    OBVIOUS
  <2>2. ~(y < x)
    BY <1>1, <2>1
  <2> QED BY <2>1, <2>2
<1> QED BY <1>2

(* A set of natural numbers that is not empty has a least element. *)
LEMMA LeastNat ==
    ASSUME NEW S \in SUBSET Nat, S # {}
    PROVE  \E x \in S : \A y \in S : x <= y
<1>1. IsWellFoundedOn(OpToRel(<, Nat), Nat)
  BY NatLessThanWellFounded
<1>2. \A x, y \in Nat : y < x => <<y, x>> \in OpToRel(<, Nat)
  BY DEF OpToRel
<1> QED BY <1>1, <1>2, LeastInRelation

(* One that is bounded has a greatest element. *)
LEMMA GreatestNat ==
    ASSUME NEW S \in SUBSET Nat, S # {}, NEW n \in Nat, \A y \in S : y <= n
    PROVE  \E x \in S : \A y \in S : y <= x
<1> DEFINE Above == {b \in Nat : \A y \in S : y <= b}
<1>1. n \in Above
  OBVIOUS
<1>2. PICK b \in Above : \A c \in Above : b <= c
  <2> HIDE DEF Above
  <2>1. Above \in SUBSET Nat
    BY DEF Above
  <2> QED BY <1>1, <2>1, LeastNat
<1>3. b \in S
  <2> SUFFICES ASSUME b \notin S PROVE FALSE
    OBVIOUS
  <2>1. \A y \in S : y \in Nat /\ y <= b /\ y # b
    OBVIOUS
  <2>2. b # 0
    <3>1. PICK y \in S : TRUE
      OBVIOUS
    <3> QED BY <2>1, <3>1
  <2>3. b - 1 \in Nat /\ \A y \in S : y <= b - 1
    BY <2>1, <2>2
  <2>4. b - 1 \in Above
    BY <2>3
  <2> QED BY <1>2, <2>4
<1> QED BY <1>3

(* Induction over the natural numbers. *)
LEMMA InductionNat ==
    ASSUME NEW S \in SUBSET Nat, 0 \in S, \A n \in Nat : n \in S => n + 1 \in S
    PROVE  S = Nat
<1> SUFFICES ASSUME Nat \ S # {} PROVE FALSE
  OBVIOUS
<1>1. PICK x \in Nat \ S : \A y \in Nat \ S : x <= y
  BY LeastNat
<1>2. x # 0
  OBVIOUS
<1>3. x - 1 \in Nat
  BY <1>2
<1>4. x - 1 \in S
  BY <1>1, <1>3
<1> QED BY <1>3, <1>4

(***************************************************************************)
(* Recursion: when the value step[<<x, f>>] at x depends on f only below x *)
(* in the measure m, there is a function f that equals its own step.       *)
(***************************************************************************)
LooksBelow(D, V, m, step) ==
    /\ m \in [D -> Nat]
    /\ step \in [D \X [D -> V] -> V]
    /\ V # {}
    /\ \A x \in D : \A f, g \in [D -> V] :
          (\A y \in D : m[y] < m[x] => f[y] = g[y]) => step[<<x, f>>] = step[<<x, g>>]

LEMMA RecursionNat ==
    ASSUME NEW D, NEW V, NEW m, NEW step, LooksBelow(D, V, m, step)
    PROVE  \E f \in [D -> V] : \A x \in D : f[x] = step[<<x, f>>]
<1> USE DEF LooksBelow
<1> DEFINE Good(n, f) == f \in [D -> V] /\ \A x \in D : m[x] < n => f[x] = step[<<x, f>>]
           S == {n \in Nat : \E f \in [D -> V] : Good(n, f)}
<1>1. 0 \in S
  <2>1. PICK v \in V : TRUE
    OBVIOUS
  <2>2. [x \in D |-> v] \in [D -> V]
    OBVIOUS
  <2>3. \A x \in D : ~(m[x] < 0)
    OBVIOUS
  <2> QED BY <2>2, <2>3
<1>2. ASSUME NEW n \in Nat, n \in S PROVE n + 1 \in S
  <2>1. PICK f \in [D -> V] : Good(n, f)
    BY <1>2
  <2> DEFINE g == [x \in D |-> step[<<x, f>>]]
  <2>2. g \in [D -> V]
    OBVIOUS
  <2>3. ASSUME NEW x \in D, m[x] < n + 1 PROVE g[x] = step[<<x, g>>]
    <3>1. \A y \in D : m[y] < m[x] => f[y] = g[y]
      <4>1. \A y \in D : m[y] < m[x] => m[y] < n
        BY <2>3
      <4> QED BY <2>1, <4>1
    <3> HIDE DEF g
    <3>2. step[<<x, f>>] = step[<<x, g>>]
      BY <2>2, <3>1
    <3> QED BY <3>2 DEF g
  <2> HIDE DEF g
  <2> QED BY <2>2, <2>3
<1>3. S = Nat
  <2> HIDE DEF S
  <2> S \in SUBSET Nat
    BY DEF S
  <2> QED BY <1>1, <1>2, InductionNat
<1> DEFINE h(n) == CHOOSE f \in [D -> V] : Good(n, f)
<1>4. \A n \in Nat : Good(n, h(n))
  <2> SUFFICES ASSUME NEW n \in Nat PROVE Good(n, h(n))
    OBVIOUS
  <2>1. \E f \in [D -> V] : Good(n, f)
    BY <1>3
  <2> HIDE DEF Good
  <2> QED BY <2>1
<1>5. ASSUME NEW f, NEW g, NEW n \in Nat, NEW k \in Nat, n <= k, Good(n, f), Good(k, g)
      PROVE  \A x \in D : m[x] < n => f[x] = g[x]
  <2> DEFINE Bad == {j \in Nat : \E x \in D : m[x] = j /\ j < n /\ f[x] # g[x]}
  <2> SUFFICES Bad = {}
    OBVIOUS
  <2> SUFFICES ASSUME Bad # {} PROVE FALSE
    OBVIOUS
  <2>1. PICK j \in Bad : \A i \in Bad : j <= i
    <3> HIDE DEF Bad
    <3>1. Bad \in SUBSET Nat
      BY DEF Bad
    <3> QED BY <3>1, LeastNat
  <2>2. PICK x \in D : m[x] = j /\ j < n /\ f[x] # g[x]
    OBVIOUS
  <2>3. \A y \in D : m[y] < m[x] => f[y] = g[y]
    <3> SUFFICES ASSUME NEW y \in D, m[y] < m[x], f[y] # g[y] PROVE FALSE
      OBVIOUS
    <3>1. m[y] \in Bad
      BY <2>2
    <3> QED BY <2>1, <2>2, <3>1
  <2>4. step[<<x, f>>] = step[<<x, g>>]
    BY <1>5, <2>3
  <2>5. f[x] = step[<<x, f>>] /\ g[x] = step[<<x, g>>]
    <3>1. m[x] < n /\ m[x] < k
      BY <1>5, <2>2
    <3> QED BY <1>5, <3>1
  <2> QED BY <2>2, <2>4, <2>5
<1> DEFINE r == [x \in D |-> h(m[x] + 1)[x]]
<1>6. r \in [D -> V]
  <2> SUFFICES ASSUME NEW x \in D PROVE h(m[x] + 1)[x] \in V
    OBVIOUS
  <2> HIDE DEF h
  <2>1. m[x] + 1 \in Nat
    OBVIOUS
  <2>2. h(m[x] + 1) \in [D -> V]
    BY <1>4, <2>1
  <2> QED BY <2>2
<1>7. ASSUME NEW x \in D PROVE r[x] = step[<<x, r>>]
  <2> DEFINE n == m[x] + 1
  <2> n \in Nat
    OBVIOUS
  <2>1. Good(n, h(n))
    <3> HIDE DEF h, Good
    <3> QED BY <1>4
  <2>2. ASSUME NEW y \in D, m[y] < m[x] PROVE h(n)[y] = r[y]
    <3>1. m[y] + 1 \in Nat /\ m[y] + 1 <= n /\ m[y] < m[y] + 1
      BY <2>2
    <3>2. Good(m[y] + 1, h(m[y] + 1))
      <4> HIDE DEF h, Good, n
      <4> QED BY <1>4, <3>1
    <3>3. h(m[y] + 1)[y] = h(n)[y]
      <4> HIDE DEF h, Good, n
      <4> QED BY <1>5, <2>1, <3>1, <3>2
    <3> QED BY <3>3
  <2>3. h(n) \in [D -> V] /\ h(n)[x] = step[<<x, h(n)>>]
    <3> HIDE DEF h
    <3> QED BY <2>1
  <2> HIDE DEF h, Good, n
  <2>4. step[<<x, h(n)>>] = step[<<x, r>>]
    <3> HIDE DEF r
    <3> QED BY <1>6, <2>2, <2>3
  <2>5. r[x] = h(n)[x]
    BY DEF n
  <2> QED BY <2>3, <2>4, <2>5
<1> HIDE DEF r
<1> QED BY <1>6, <1>7
-----------------------------------------------------------------------------
(* The elements of a list. *)
Members(s) == {s[k] : k \in DOMAIN s}

(* Prepending to a sequence. *)
LEMMA ConsFacts ==
    ASSUME NEW S, NEW p \in S, NEW s \in Seq(S)
    PROVE  /\ <<p>> \o s \in Seq(S)
           /\ Len(<<p>> \o s) = Len(s) + 1
           /\ (<<p>> \o s)[1] = p
           /\ \A k \in DOMAIN s : (<<p>> \o s)[k + 1] = s[k]
           /\ \A k \in DOMAIN (<<p>> \o s) : k = 1 \/ (k - 1 \in DOMAIN s /\ (<<p>> \o s)[k] = s[k - 1])
           /\ Members(<<p>> \o s) = {p} \cup Members(s)
<1> DEFINE c == <<p>> \o s
<1>1. c \in Seq(S) /\ Len(c) = Len(s) + 1 /\ c[1] = p
  OBVIOUS
<1>2. \A k \in DOMAIN s : c[k + 1] = s[k] /\ k + 1 \in DOMAIN c
  OBVIOUS
<1>3. \A k \in DOMAIN c : k = 1 \/ (k - 1 \in DOMAIN s /\ c[k] = s[k - 1])
  OBVIOUS
<1>4. 1 \in DOMAIN c
  OBVIOUS
<1>5. Members(c) = {p} \cup Members(s)
  <2> HIDE DEF c
  <2>1. ASSUME NEW k \in DOMAIN c PROVE c[k] \in {p} \cup Members(s)
    <3>1. CASE k = 1
      BY <1>1, <3>1
    <3>2. CASE k # 1
      BY <1>3, <3>2 DEF Members
    <3> QED BY <3>1, <3>2
  <2>2. ASSUME NEW k \in DOMAIN s PROVE s[k] \in Members(c)
    BY <1>2 DEF Members
  <2>3. p \in Members(c)
    BY <1>1, <1>4 DEF Members
  <2> QED BY <2>1, <2>2, <2>3 DEF Members
<1> QED BY <1>1, <1>2, <1>3, <1>5

LEMMA HeadTailFacts ==
    ASSUME NEW S, NEW s \in Seq(S), s # <<>>
    PROVE  /\ Head(s) \in S /\ Head(s) = s[1] /\ 1 \in DOMAIN s
           /\ Tail(s) \in Seq(S)
           /\ Len(Tail(s)) = Len(s) - 1
           /\ \A k \in DOMAIN Tail(s) : k + 1 \in DOMAIN s /\ Tail(s)[k] = s[k + 1]
           /\ Members(s) = {Head(s)} \cup Members(Tail(s))
<1>1. /\ Head(s) \in S /\ Head(s) = s[1] /\ 1 \in DOMAIN s
      /\ Tail(s) \in Seq(S) /\ Len(Tail(s)) = Len(s) - 1
      /\ \A k \in DOMAIN Tail(s) : k + 1 \in DOMAIN s /\ Tail(s)[k] = s[k + 1]
  OBVIOUS
<1>2. \A k \in DOMAIN s : k = 1 \/ (k - 1 \in DOMAIN Tail(s) /\ Tail(s)[k - 1] = s[k])
  OBVIOUS
<1>3. Members(s) = {Head(s)} \cup Members(Tail(s))
  <2> DEFINE t == Tail(s)
  <2>1. ASSUME NEW k \in DOMAIN s PROVE s[k] \in {Head(s)} \cup Members(t)
    <3>1. CASE k = 1
      BY <1>1, <3>1
    <3>2. CASE k # 1
      BY <1>2, <3>2 DEF Members
    <3> QED BY <3>1, <3>2
  <2>2. \A k \in DOMAIN t : t[k] \in Members(s)
    BY <1>1 DEF Members
  <2>3. Head(s) \in Members(s)
    BY <1>1 DEF Members
  <2> HIDE DEF t
  <2>4. Members(s) = {Head(s)} \cup Members(t)
    BY <2>1, <2>2, <2>3 DEF Members
  <2> QED BY <2>4 DEF t
<1> QED BY <1>1, <1>3

(* The two halves of a list of at least two elements. *)
Left(s) == SubSeq(s, 1, Len(s) \div 2)
Right(s) == SubSeq(s, Len(s) \div 2 + 1, Len(s))

SplitAt(s, half) ==
    /\ \A k \in DOMAIN Left(s) : k \in DOMAIN s /\ k <= half /\ Left(s)[k] = s[k]
    /\ \A k \in DOMAIN Right(s) : half + k \in DOMAIN s /\ k > 0 /\ Right(s)[k] = s[half + k]

LEMMA HalvesFacts ==
    ASSUME NEW S, NEW s \in Seq(S), Len(s) > 1
    PROVE  /\ Left(s) \in Seq(S) /\ Right(s) \in Seq(S)
           /\ Len(Left(s)) < Len(s) /\ Len(Right(s)) < Len(s)
           /\ Members(s) = Members(Left(s)) \cup Members(Right(s))
           /\ \E half \in Nat : SplitAt(s, half)
<1> DEFINE half == Len(s) \div 2
           l == SubSeq(s, 1, half)
           r == SubSeq(s, half + 1, Len(s))
<1>1. half \in Nat /\ 0 < half /\ half < Len(s) /\ Len(s) \in Nat /\ DOMAIN s = 1..Len(s)
  OBVIOUS
<1> HIDE DEF half
<1>2. /\ l \in Seq(S) /\ Len(l) = half /\ DOMAIN l = 1..half
      /\ \A k \in 1..half : l[k] = s[k]
  BY <1>1
<1>3. /\ r \in Seq(S) /\ Len(r) = Len(s) - half /\ DOMAIN r = 1..Len(s) - half
      /\ \A k \in 1..Len(s) - half : r[k] = s[half + k]
  <2>1. r \in Seq(S) /\ Len(r) = Len(s) - half /\ DOMAIN r = 1..Len(s) - half
    <3> DEFINE a == half + 1
               b == Len(s)
    <3>1. a \in Int /\ b \in Int /\ a <= b /\ b - a + 1 = Len(s) - half
      BY <1>1
    <3>2. \A i \in a..b : s[i] \in S
      BY <1>1
    <3> HIDE DEF a, b
    <3>3. SubSeq(s, a, b) \in Seq(S) /\ Len(SubSeq(s, a, b)) = b - a + 1
      BY <3>1, <3>2, SubSeqProperties
    <3>4. r \in Seq(S) /\ Len(r) = Len(s) - half
      BY <3>1, <3>3 DEF a, b
    <3> HIDE DEF r
    <3> QED BY <3>4
  <2>2. ASSUME NEW k \in 1..Len(s) - half PROVE r[k] = s[half + k]
    <3>1. r[k] = s[half + 1 + k - 1]
      BY <1>1
    <3>2. half + 1 + k - 1 = half + k
      BY <1>1
    <3> QED BY <3>1, <3>2
  <2> QED BY <2>1, <2>2
<1> HIDE DEF l, r
<1>4. ASSUME NEW k \in DOMAIN s PROVE s[k] \in Members(l) \cup Members(r)
  <2>1. CASE k <= half
    <3>1. k \in DOMAIN l /\ l[k] = s[k]
      BY <1>1, <1>2, <2>1
    <3> QED BY <3>1 DEF Members
  <2>2. CASE ~(k <= half)
    <3>1. k - half \in DOMAIN r /\ r[k - half] = s[k]
      BY <1>1, <1>3, <2>2
    <3> QED BY <3>1 DEF Members
  <2> QED BY <2>1, <2>2
<1>5. \A k \in DOMAIN l : k \in DOMAIN s /\ k <= half /\ l[k] = s[k]
  BY <1>1, <1>2
<1>6. \A k \in DOMAIN r : half + k \in DOMAIN s /\ k > 0 /\ r[k] = s[half + k]
  BY <1>1, <1>3
<1>7. Members(s) = Members(l) \cup Members(r)
  BY <1>4, <1>5, <1>6 DEF Members
<1>8. Len(l) < Len(s) /\ Len(r) < Len(s)
  BY <1>1, <1>2, <1>3
<1>9. l = Left(s) /\ r = Right(s)
  BY DEF l, r, half, Left, Right
<1>10. SplitAt(s, half)
  BY <1>5, <1>6, <1>9 DEF SplitAt
<1> QED BY <1>1, <1>2, <1>3, <1>7, <1>8, <1>9, <1>10
=============================================================================
