---------------------------- MODULE PagingProofs ----------------------------
(***************************************************************************)
(* Lemmas about the lists that clients page through: what filters and      *)
(* slices leave of a sequence, and that the pages cut out of it, filtered  *)
(* before or after, put together are the whole.                            *)
(***************************************************************************)
EXTENDS Paging, FiniteSetTheorems, SequenceTheorems, WellFoundedInduction, TLAPS

-----------------------------------------------------------------------------
(* Sets of places and their ascending lists *)

\* A set of naturals has a least one: induction in first-order form.
LEMMA LeastNatural ==
  ASSUME NEW T \in SUBSET Nat, T # {}
  PROVE  \E n \in T : \A m \in T : n <= m
<1>1. PICK x \in T : \A y \in T : ~ (<<y, x>> \in OpToRel(<, Nat))
  BY NatLessThanWellFounded, WFMin, Zenon
<1>2. \A y \in T : ~(y < x)
  BY <1>1 DEF OpToRel
<1> QED BY <1>2

\* A set with 0 and the successors of its naturals holds all of them.
LEMMA NaturalsClosed ==
  ASSUME NEW S, 0 \in S, \A n \in Nat : n \in S => n + 1 \in S
  PROVE  Nat \subseteq S
<1> SUFFICES ASSUME Nat \ S # {} PROVE FALSE
  OBVIOUS
<1>1. PICK n \in Nat \ S : \A m \in Nat \ S : n <= m
  BY LeastNatural
<1>2. n # 0 /\ n - 1 \in Nat /\ n - 1 \in S
  BY <1>1
<1> QED BY <1>1, <1>2

\* h lists the m elements of P in ascending order.
Lists(h, m, P) ==
  /\ h \in [1..m -> P]
  /\ \A i \in P : \E k \in 1..m : h[k] = i
  /\ \A k, l \in 1..m : k < l => h[k] < h[l]

\* Such a list is as long as the set is large, and has its k-th place at k.
LEMMA ListIsNth ==
  ASSUME NEW P \in SUBSET Nat, NEW m \in Nat, NEW h, Lists(h, m, P)
  PROVE  /\ IsFiniteSet(P) /\ Cardinality(P) = m
         /\ \A k \in 1..m : Nth(P, k) = h[k]
<1>1. h \in [1..m -> P] /\ \A k \in 1..m : h[k] \in P /\ h[k] \in Nat
  BY DEF Lists
<1>a. \A k, l \in 1..m : k < l => h[k] < h[l]
  BY DEF Lists
<1>2. \A k, l \in 1..m : h[k] = h[l] => k = l
  BY <1>1, <1>a
<1>3. IsFiniteSet(1..m) /\ Cardinality(1..m) = m
  BY FS_Interval
<1>4. h \in Bijection(1..m, P)
  BY <1>1, <1>2 DEF Lists, Bijection, Injection, IsInjective, Surjection
<1>5. IsFiniteSet(P) /\ Cardinality(P) = m
  BY <1>3, <1>4, FS_Bijection DEF ExistsBijection
<1>6. ASSUME NEW k \in 1..m
      PROVE  Cardinality({j \in P : j <= h[k]}) = k
  <2> DEFINE Q == {j \in P : j <= h[k]}
             g == [i \in 1..k |-> h[i]]
  <2>1. \A i \in 1..k : i \in 1..m /\ h[i] \in Q
    BY <1>1, <1>6, <1>a
  <2>2. \A j \in Q : \E i \in 1..k : g[i] = j
    <3> SUFFICES ASSUME NEW j \in Q PROVE \E i \in 1..k : g[i] = j
      OBVIOUS
    <3>1. PICK i \in 1..m : h[i] = j
      BY DEF Lists
    <3>2. ~(k < i)
      BY <1>1, <1>6, <1>a, <3>1
    <3> QED BY <3>1, <3>2
  <2>a. g \in [1..k -> Q]
    BY <2>1
  <2>b. \A i, j \in 1..k : g[i] = g[j] => i = j
    BY <1>2, <2>1
  <2>3. g \in [1..k -> Q] /\ \A i, j \in 1..k : g[i] = g[j] => i = j
    BY <2>a, <2>b
  <2> HIDE DEF Q, g
  <2>4. g \in Bijection(1..k, Q)
    BY <2>2, <2>3 DEF Bijection, Injection, IsInjective, Surjection
  <2>5. k \in Nat /\ ExistsBijection(1..k, Q)
    BY <2>4, <1>6 DEF ExistsBijection
  <2> QED BY <2>5, FS_CountingElements DEF Q
<1>7. ASSUME NEW k \in 1..m PROVE Nth(P, k) = h[k]
  <2> DEFINE R(i) == Cardinality({j \in P : j <= i}) = k
  <2>1. h[k] \in P /\ R(h[k])
    BY <1>1, <1>6
  <2>2. \A i \in P : R(i) => i = h[k]
    <3> SUFFICES ASSUME NEW i \in P, R(i) PROVE i = h[k]
      OBVIOUS
    <3>1. PICK l \in 1..m : h[l] = i
      BY DEF Lists
    <3>2. Cardinality({j \in P : j <= h[l]}) = l
      BY <1>6
    <3> QED BY <3>1, <3>2
  <2>3. Nth(P, k) = CHOOSE i \in P : R(i)
    BY DEF Nth
  <2> HIDE DEF R
  <2> QED BY <2>1, <2>2, <2>3
<1> QED BY <1>5, <1>7

\* Every bounded set of places has a list.
LEMMA ListExists ==
  ASSUME NEW n \in Nat, NEW P \in SUBSET (1..n)
  PROVE  \E m \in Nat : \E h : Lists(h, m, P)
<1> DEFINE Part(k) == {i \in P : i <= k}
           Good == {k \in Nat : \E m \in Nat : \E h : Lists(h, m, Part(k))}
<1>0. \A i \in P : i \in Nat /\ 1 <= i /\ i <= n
  OBVIOUS
<1>1. 0 \in Good
  <2>1. Part(0) = {}
    <3>1. \A i \in P : ~(i <= 0)
      BY <1>0
    <3> QED BY <3>1
  <2>2. Lists([i \in 1..0 |-> 0], 0, {})
    BY DEF Lists
  <2> HIDE DEF Part
  <2> QED BY <2>1, <2>2
<1>2. ASSUME NEW k \in Nat, k \in Good PROVE k + 1 \in Good
  <2>1. CASE k + 1 \notin P
    <3>1. \A i \in P : i <= k + 1 <=> i <= k
      <4> HIDE DEF Good
      <4> QED BY <1>0, <2>1
    <3>2. Part(k + 1) = Part(k)
      BY <3>1
    <3> HIDE DEF Part
    <3> QED BY <1>2, <3>2
  <2>2. CASE k + 1 \in P
    <3>1a. PICK m \in Nat : \E h : Lists(h, m, Part(k))
      BY <1>2
    <3>1. PICK h : Lists(h, m, Part(k))
      BY <3>1a
    <3> HIDE DEF Good
    <3> DEFINE g == [i \in 1..(m + 1) |-> IF i = m + 1 THEN k + 1 ELSE h[i]]
    <3>2. \A i \in 1..m : h[i] \in P /\ h[i] <= k /\ h[i] \in Nat
      BY <1>0, <3>1 DEF Lists
    <3>3. g \in [1..(m + 1) -> Part(k + 1)]
      BY <2>2, <3>2
    <3>4. \A i \in Part(k + 1) : \E j \in 1..(m + 1) : g[j] = i
      <4> SUFFICES ASSUME NEW i \in Part(k + 1) PROVE \E j \in 1..(m + 1) : g[j] = i
        OBVIOUS
      <4>1. CASE i = k + 1
        BY <4>1
      <4>2. CASE i # k + 1
        <5>1. i \in Part(k)
          BY <1>0, <4>2
        <5>2. PICK j \in 1..m : h[j] = i
          BY <3>1, <5>1 DEF Lists
        <5> QED BY <5>2
      <4> QED BY <4>1, <4>2
    <3>5. \A i, j \in 1..(m + 1) : i < j => g[i] < g[j]
      <4>1. \A i, j \in 1..m : i < j => h[i] < h[j]
        BY <3>1 DEF Lists
      <4> SUFFICES ASSUME NEW i \in 1..(m + 1), NEW j \in 1..(m + 1), i < j PROVE g[i] < g[j]
        OBVIOUS
      <4>2. g[i] = h[i] /\ i \in 1..m
        OBVIOUS
      <4>3. CASE j = m + 1
        BY <3>2, <4>2, <4>3
      <4>4. CASE j # m + 1
        BY <4>1, <4>2, <4>4
      <4> QED BY <4>3, <4>4
    <3> HIDE DEF g, Part
    <3>6. Lists(g, m + 1, Part(k + 1))
      BY <3>3, <3>4, <3>5 DEF Lists
    <3>7. m + 1 \in Nat
      OBVIOUS
    <3> QED BY <3>6, <3>7 DEF Good
  <2> QED BY <2>1, <2>2
<1>3. Nat \subseteq Good
  <2> HIDE DEF Good
  <2> QED BY <1>1, <1>2, NaturalsClosed
<1>4. Part(n) = P
  <2> HIDE DEF Good
  <2> QED BY <1>0
<1> HIDE DEF Part
<1> QED BY <1>3, <1>4

\* What a filter leaves: as long as there are places, in order.
LEMMA OnlyIs ==
  ASSUME NEW s, NEW P \in SUBSET Nat, NEW m \in Nat, NEW h, Lists(h, m, P)
  PROVE  Only(s, P) = [k \in 1..m |-> s[h[k]]]
<1>1. Cardinality(P) = m /\ \A k \in 1..m : Nth(P, k) = h[k]
  BY ListIsNth
<1> QED BY <1>1 DEF Only

\* Filters of a sequence are sequences.
LEMMA OnlyType ==
  ASSUME NEW T, NEW s \in Seq(T), NEW P \in SUBSET DOMAIN s
  PROVE  /\ Only(s, P) \in Seq(T) /\ Len(Only(s, P)) = Cardinality(P) /\ Cardinality(P) \in Nat
         /\ DOMAIN Only(s, P) = 1..Cardinality(P) /\ Cardinality(P) <= Len(s)
<1>1. DOMAIN s = 1..Len(s) /\ Len(s) \in Nat /\ \A i \in 1..Len(s) : s[i] \in T
  BY ElementOfSeq, LenProperties
<1>2a. PICK m \in Nat : \E h : Lists(h, m, P)
  BY <1>1, ListExists
<1>2. PICK h : Lists(h, m, P)
  BY <1>2a
<1>3. P \in SUBSET Nat
  BY <1>1
<1>4. Cardinality(P) = m /\ Only(s, P) = [k \in 1..m |-> s[h[k]]]
  BY <1>2, <1>3, ListIsNth, OnlyIs
<1>5. \A k \in 1..m : s[h[k]] \in T
  BY <1>1, <1>2 DEF Lists
<1>6. Only(s, P) \in Seq(T)
  BY <1>4, <1>5, IsASeq
<1>7. Cardinality(P) <= Len(s)
  <2>1. IsFiniteSet(1..Len(s)) /\ Cardinality(1..Len(s)) = Len(s)
    BY <1>1, FS_Interval
  <2> QED BY <1>1, <2>1, FS_Subset
<1>8. Len(Only(s, P)) = m /\ DOMAIN Only(s, P) = 1..m
  BY <1>4, <1>6, LenProperties
<1> QED BY <1>4, <1>6, <1>7, <1>8

\* The places of the elements of s that are in E.
Places(s, E) == {i \in DOMAIN s : s[i] \in E}

\* A filter after a filter is one filter.
LEMMA OnlyTwice ==
  ASSUME NEW T, NEW s \in Seq(T), NEW P \in SUBSET DOMAIN s, NEW E \in SUBSET T,
         NEW R, R = {i \in P : s[i] \in E}
  PROVE  Only(Only(s, P), Places(Only(s, P), E)) = Only(s, R)
<1> DEFINE q == Only(s, P)
           K == Places(q, E)
<1>1. DOMAIN s = 1..Len(s) /\ Len(s) \in Nat
  BY LenProperties
<1>2a. PICK m \in Nat : \E h : Lists(h, m, P)
  BY <1>1, ListExists
<1>2. PICK h : Lists(h, m, P)
  BY <1>2a
<1>3. P \in SUBSET Nat /\ R \in SUBSET Nat
  BY <1>1
<1>4. q = [k \in 1..m |-> s[h[k]]]
  BY <1>2, <1>3, OnlyIs
<1>5. K = {k \in 1..m : s[h[k]] \in E} /\ K \in SUBSET (1..m)
  BY <1>4 DEF Places
<1> HIDE DEF K, q
<1>6a. PICK l \in Nat : \E g : Lists(g, l, K)
  BY <1>5, ListExists
<1>6. PICK g : Lists(g, l, K)
  BY <1>6a
<1> DEFINE f == [k \in 1..l |-> h[g[k]]]
<1>7. \A k \in 1..l : g[k] \in 1..m /\ s[h[g[k]]] \in E
  BY <1>5, <1>6 DEF Lists
<1>8. \A k \in 1..m : h[k] \in P
  BY <1>2 DEF Lists
<1>9. f \in [1..l -> R]
  BY <1>7, <1>8
<1>10. \A i \in R : \E k \in 1..l : f[k] = i
  <2> SUFFICES ASSUME NEW i \in R PROVE \E k \in 1..l : f[k] = i
    OBVIOUS
  <2>1. PICK j \in 1..m : h[j] = i
    BY <1>2 DEF Lists
  <2>2. j \in K
    BY <1>5, <2>1
  <2>3. PICK k \in 1..l : g[k] = j
    BY <1>6, <2>2 DEF Lists
  <2> QED BY <2>1, <2>3
<1>11. \A k, j \in 1..l : k < j => f[k] < f[j]
  <2> SUFFICES ASSUME NEW k \in 1..l, NEW j \in 1..l, k < j PROVE f[k] < f[j]
    OBVIOUS
  <2>1. g[k] < g[j]
    BY <1>6 DEF Lists
  <2>2. h[g[k]] < h[g[j]]
    BY <1>2, <1>7, <2>1 DEF Lists
  <2> QED BY <2>2
<1> HIDE DEF f
<1>12. Lists(f, l, R)
  BY <1>9, <1>10, <1>11 DEF Lists
<1>13. Only(s, R) = [k \in 1..l |-> s[f[k]]]
  BY <1>3, <1>12, OnlyIs
<1>14. K \in SUBSET Nat
  BY <1>5
<1>15. Only(q, K) = [k \in 1..l |-> q[g[k]]]
  BY <1>6, <1>14, OnlyIs
<1>16. \A k \in 1..l : q[g[k]] = s[f[k]]
  BY <1>4, <1>7 DEF f
<1>17. Only(q, K) = Only(s, R)
  BY <1>13, <1>15, <1>16
<1> QED BY <1>17 DEF q, K

-----------------------------------------------------------------------------
(* Pages *)

\* How far x reaches into n places.
Reach(x, n) == IF x < n THEN x ELSE n

\* Past the end it reaches the end.
LEMMA ReachesEnd == ASSUME NEW x \in Nat, NEW n \in Nat, n <= x PROVE Reach(x, n) = n
BY DEF Reach

\* Page p begins where page p - 1 ends, and there are enough of them.
LEMMA PageBounds ==
  ASSUME NEW limit \in Nat \ {0}, NEW p \in Nat
  PROVE  /\ p * limit \in Nat /\ p <= p * limit
         /\ p # 0 => (p - 1) * limit \in Nat /\ (p - 1) * limit + limit = p * limit
  OBVIOUS

\* A slice in terms of two places of the sequence.
LEMMA SliceIs ==
  ASSUME NEW T, NEW s \in Seq(T), NEW limit \in Nat, NEW offset \in Nat
  PROVE  Slice(s, limit, offset) = SubSeq(s, Reach(offset, Len(s)) + 1, Reach(offset + limit, Len(s)))
<1>1. Len(s) \in Nat
  BY LenProperties
<1>2. CASE offset < Len(s)
  BY <1>1, <1>2 DEF Slice, Reach
<1>3. CASE ~(offset < Len(s))
  <2>1. Slice(s, limit, offset) = SubSeq(s, offset + 1, Len(s))
    BY <1>1, <1>3 DEF Slice
  <2>2. SubSeq(s, offset + 1, Len(s)) = <<>>
    BY <1>1, <1>3, SubSeqEmpty
  <2>3. SubSeq(s, Len(s) + 1, Len(s)) = <<>>
    BY <1>1, SubSeqEmpty
  <2>4. Reach(offset, Len(s)) = Len(s) /\ Reach(offset + limit, Len(s)) = Len(s)
    BY <1>1, <1>3 DEF Reach
  <2> QED BY <2>1, <2>2, <2>3, <2>4
<1> QED BY <1>2, <1>3

\* Slices, one after the other, are the sequence.
LEMMA SlicesConcatenate ==
  ASSUME NEW T, NEW s \in Seq(T), NEW limit \in Nat \ {0}, NEW n \in Nat, Len(s) <= n
  PROVE  Concatenate([p \in 1..n |-> Slice(s, limit, (p - 1) * limit)], s)
<1> DEFINE pages == [p \in 1..n |-> Slice(s, limit, (p - 1) * limit)]
           cut == [p \in 0..n |-> Reach(p * limit, Len(s))]
<1>1. Len(s) \in Nat
  BY LenProperties
<1>2. Len(pages) = n
  OBVIOUS
<1>3. \A p \in 0..n : p * limit \in Nat /\ p <= p * limit
  BY PageBounds
<1>4. cut \in [0..n -> 0..Len(s)]
  BY <1>1, <1>3 DEF Reach
<1>5. cut[0] = 0
  BY <1>1 DEF Reach
<1>6. cut[n] = Len(s)
  BY <1>1, <1>3 DEF Reach
<1>7. ASSUME NEW p \in 1..n
      PROVE  cut[p - 1] <= cut[p] /\ pages[p] = SubSeq(s, cut[p - 1] + 1, cut[p])
  <2>1. (p - 1) * limit \in Nat /\ (p - 1) * limit + limit = p * limit /\ p - 1 \in 0..n /\ p \in 0..n
    BY PageBounds
  <2>2. PICK x \in Nat : x = (p - 1) * limit
    BY <2>1
  <2>3. cut[p - 1] = Reach(x, Len(s)) /\ cut[p] = Reach(x + limit, Len(s))
    BY <2>1, <2>2
  <2>4. pages[p] = Slice(s, limit, x)
    BY <2>2
  <2>5. Slice(s, limit, x) = SubSeq(s, Reach(x, Len(s)) + 1, Reach(x + limit, Len(s)))
    BY <2>2, SliceIs
  <2>6. Reach(x, Len(s)) <= Reach(x + limit, Len(s))
    BY <1>1, <2>2 DEF Reach
  <2> QED BY <2>3, <2>4, <2>5, <2>6
<1> HIDE DEF cut, pages
<1> QED BY <1>2, <1>4, <1>5, <1>6, <1>7 DEF Concatenate, pages

\* The first c of the m places that h lists are those up to a.
Split(h, m, a, c) == \A k \in 1..m : h[k] <= a <=> k <= c

\* Of an ascending list those up to a come first.
LEMMA FirstOnes ==
  ASSUME NEW m \in Nat, NEW P \in SUBSET Nat, NEW h, Lists(h, m, P), NEW a \in Nat
  PROVE  \E c \in 0..m : Split(h, m, a, c)
<1>1. \A k \in 1..m : h[k] \in Nat
  BY DEF Lists
<1>2. \A k, l \in 1..m : k < l => h[k] < h[l]
  BY DEF Lists
<1> DEFINE Later == {k \in 1..(m + 1) : k = m + 1 \/ h[k] > a}
<1>3. Later \in SUBSET Nat /\ m + 1 \in Later
  OBVIOUS
<1>4. PICK t \in Later : \A l \in Later : t <= l
  <2> HIDE DEF Later
  <2> QED BY <1>3, LeastNatural
<1>5. t \in 1..(m + 1) /\ t - 1 \in 0..m
  BY <1>4
<1>6. ASSUME NEW k \in 1..m PROVE h[k] <= a <=> k <= t - 1
  <2>1. CASE k < t
    <3>1. k \notin Later
      BY <1>4, <1>5, <2>1
    <3> QED BY <1>1, <1>5, <2>1, <3>1
  <2>2. CASE k = t
    BY <1>1, <1>4, <1>5, <2>2
  <2>3. CASE t < k
    <3>1. t \in 1..m /\ h[t] > a /\ h[t] < h[k]
      BY <1>2, <1>4, <1>5, <2>3
    <3> QED BY <1>1, <1>5, <2>3, <3>1
  <2> QED BY <1>5, <2>1, <2>2, <2>3
<1> QED BY <1>5, <1>6 DEF Split

\* What a filter leaves of the part between a and b is a part of what it
\* leaves of the whole.
LEMMA OnlyOfPart ==
  ASSUME NEW T, NEW s \in Seq(T), NEW E \in SUBSET T,
         NEW a \in 0..Len(s), NEW b \in a..Len(s),
         NEW m \in Nat, NEW h, Lists(h, m, Places(s, E)),
         NEW c \in 0..m, Split(h, m, a, c),
         NEW d \in 0..m, Split(h, m, b, d)
  PROVE  /\ c <= d
         /\ Only(SubSeq(s, a + 1, b), Places(SubSeq(s, a + 1, b), E)) = SubSeq(Only(s, Places(s, E)), c + 1, d)
<1>0. /\ \A k \in 1..m : h[k] <= a <=> k <= c
      /\ \A k \in 1..m : h[k] <= b <=> k <= d
  BY DEF Split
<1> DEFINE q == SubSeq(s, a + 1, b)
           f == [k \in 1..(d - c) |-> h[c + k] - a]
<1>1. DOMAIN s = 1..Len(s) /\ Len(s) \in Nat /\ \A i \in 1..Len(s) : s[i] \in T
  BY LenProperties, ElementOfSeq
<1>2. \A i \in (a + 1)..b : s[i] \in T
  BY <1>1
<1>3. q \in Seq(T) /\ Len(q) = b - a /\ \A i \in 1..(b - a) : q[i] = s[a + i]
  <2>1. a + 1 \in Int /\ b \in Int /\ b - (a + 1) + 1 = b - a
    BY <1>1
  <2>2. /\ q \in Seq(T) /\ Len(q) = IF a + 1 <= b THEN b - (a + 1) + 1 ELSE 0
        /\ \A i \in 1..(b - (a + 1) + 1) : q[i] = s[a + 1 + i - 1]
    <3> HIDE DEF q
    <3> QED BY <1>2, <2>1, SubSeqProperties DEF q
  <2>3. \A i \in 1..(b - a) : a + 1 + i - 1 = a + i
    BY <1>1
  <2> HIDE DEF q
  <2> QED BY <1>1, <2>1, <2>2, <2>3
<1> HIDE DEF q
<1>4. DOMAIN q = 1..(b - a)
  BY <1>3, LenProperties
<1>5. \A k \in 1..m : h[k] \in 1..Len(s) /\ s[h[k]] \in E
  BY <1>1 DEF Lists, Places
<1>6. c <= d
  <2> SUFFICES ASSUME d < c PROVE FALSE
    BY <1>1
  <2>1. c \in 1..m /\ h[c] <= a /\ ~(h[c] <= b)
    BY <1>0
  <2> QED BY <1>1, <1>5, <2>1
<1>7. ASSUME NEW k \in 1..(d - c)
      PROVE  /\ c + k \in 1..m
             /\ h[c + k] - a \in 1..(b - a) /\ a + (h[c + k] - a) = h[c + k]
  <2>1. c + k \in 1..m /\ ~(c + k <= c) /\ c + k <= d
    OBVIOUS
  <2>2. ~(h[c + k] <= a) /\ h[c + k] <= b
    BY <1>0, <2>1
  <2>3. PICK x \in 1..Len(s) : x = h[c + k]
    BY <1>5, <2>1
  <2>4. x - a \in 1..(b - a) /\ a + (x - a) = x
    BY <1>1, <2>2, <2>3
  <2> QED BY <2>1, <2>3, <2>4
<1>8. f \in [1..(d - c) -> Places(q, E)]
  <2> SUFFICES ASSUME NEW k \in 1..(d - c) PROVE h[c + k] - a \in Places(q, E)
    OBVIOUS
  <2>1. h[c + k] - a \in 1..(b - a) /\ a + (h[c + k] - a) = h[c + k]
    BY <1>7
  <2>2. q[h[c + k] - a] = s[h[c + k]]
    BY <1>3, <2>1
  <2> QED BY <1>4, <1>5, <1>7, <2>1, <2>2 DEF Places
<1>9. \A i \in Places(q, E) : \E k \in 1..(d - c) : f[k] = i
  <2> SUFFICES ASSUME NEW i \in Places(q, E) PROVE \E k \in 1..(d - c) : f[k] = i
    OBVIOUS
  <2>1. i \in 1..(b - a) /\ s[a + i] \in E
    BY <1>3, <1>4 DEF Places
  <2>2. a + i \in Places(s, E)
    BY <1>1, <2>1 DEF Places
  <2>3. PICK j \in 1..m : h[j] = a + i
    BY <2>2 DEF Lists
  <2>4. ~(h[j] <= a) /\ h[j] <= b
    BY <1>1, <2>1, <2>3
  <2>5. ~(j <= c) /\ j <= d
    BY <1>0, <2>4
  <2>6. j - c \in 1..(d - c) /\ c + (j - c) = j
    BY <2>5
  <2>7. f[j - c] = h[j] - a /\ h[j] - a = i
    BY <1>1, <2>1, <2>3, <2>6
  <2> QED BY <2>6, <2>7
<1>10. \A k, l \in 1..(d - c) : k < l => f[k] < f[l]
  <2> SUFFICES ASSUME NEW k \in 1..(d - c), NEW l \in 1..(d - c), k < l PROVE f[k] < f[l]
    OBVIOUS
  <2>1. c + k \in 1..m /\ c + l \in 1..m /\ c + k < c + l
    BY <1>7
  <2>2. h[c + k] < h[c + l]
    BY <2>1 DEF Lists
  <2> QED BY <1>1, <1>5, <2>1, <2>2
<1>11. d - c \in Nat /\ Places(q, E) \in SUBSET Nat /\ Places(s, E) \in SUBSET Nat
  BY <1>1, <1>4, <1>6 DEF Places
<1>12. Only(q, Places(q, E)) = [k \in 1..(d - c) |-> q[f[k]]]
  <2> HIDE DEF f
  <2>1. Lists(f, d - c, Places(q, E))
    BY <1>8, <1>9, <1>10 DEF Lists
  <2> QED BY <1>11, <2>1, OnlyIs
<1>13. Only(s, Places(s, E)) = [k \in 1..m |-> s[h[k]]]
  BY <1>11, OnlyIs
<1>14. \A k \in 1..(d - c) : q[f[k]] = s[h[c + k]]
  <2> SUFFICES ASSUME NEW k \in 1..(d - c) PROVE q[f[k]] = s[h[c + k]]
    OBVIOUS
  <2>1. h[c + k] - a \in 1..(b - a) /\ a + (h[c + k] - a) = h[c + k]
    BY <1>7
  <2> QED BY <1>3, <2>1
<1>15. SubSeq(Only(s, Places(s, E)), c + 1, d) = [k \in 1..(d - c) |-> s[h[c + k]]]
  <2> DEFINE o == Only(s, Places(s, E))
  <2>1. \A i \in (c + 1)..d : o[i] \in T
    BY <1>1, <1>5, <1>13
  <2>2. /\ SubSeq(o, c + 1, d) \in Seq(T) /\ Len(SubSeq(o, c + 1, d)) = IF c + 1 <= d THEN d - (c + 1) + 1 ELSE 0
        /\ \A i \in 1..(d - (c + 1) + 1) : SubSeq(o, c + 1, d)[i] = o[c + 1 + i - 1]
    <3> HIDE DEF o
    <3>1. c + 1 \in Int /\ d \in Int
      OBVIOUS
    <3> QED BY <2>1, <3>1, SubSeqProperties
  <2>3. d - (c + 1) + 1 = d - c /\ Len(SubSeq(o, c + 1, d)) = d - c
    <3> HIDE DEF o
    <3> QED BY <1>6, <2>2
  <2>4. \A k \in 1..(d - c) : SubSeq(o, c + 1, d)[k] = s[h[c + k]]
    <3> SUFFICES ASSUME NEW k \in 1..(d - c) PROVE SubSeq(o, c + 1, d)[k] = s[h[c + k]]
      OBVIOUS
    <3>1. SubSeq(o, c + 1, d)[k] = o[c + k]
      <4>1. c + 1 + k - 1 = c + k
        OBVIOUS
      <4> HIDE DEF o
      <4> QED BY <2>2, <2>3, <4>1
    <3>2. o[c + k] = s[h[c + k]]
      BY <1>7, <1>13
    <3> QED BY <3>1, <3>2
  <2> HIDE DEF o
  <2>5. SubSeq(o, c + 1, d) = [k \in 1..(d - c) |-> SubSeq(o, c + 1, d)[k]]
    BY <2>2, <2>3, LenProperties
  <2>6. SubSeq(o, c + 1, d) = [k \in 1..(d - c) |-> s[h[c + k]]]
    BY <2>4, <2>5
  <2> QED BY <2>6 DEF o
<1>16. Only(q, Places(q, E)) = SubSeq(Only(s, Places(s, E)), c + 1, d)
  BY <1>12, <1>14, <1>15
<1> QED BY <1>6, <1>16 DEF q

\* Pages that are filtered after they were cut, one after the other, are
\* what the filter leaves of the whole.
LEMMA FilteredSlicesConcatenate ==
  ASSUME NEW T, NEW s \in Seq(T), NEW E \in SUBSET T,
         NEW limit \in Nat \ {0}, NEW n \in Nat, Len(s) <= n
  PROVE  Concatenate([p \in 1..n |-> Only(Slice(s, limit, (p - 1) * limit), Places(Slice(s, limit, (p - 1) * limit), E))],
                     Only(s, Places(s, E)))
<1> DEFINE whole == Only(s, Places(s, E))
           pages == [p \in 1..n |-> Only(Slice(s, limit, (p - 1) * limit), Places(Slice(s, limit, (p - 1) * limit), E))]
           place(p) == Reach(p * limit, Len(s))
<1>1. Len(s) \in Nat /\ DOMAIN s = 1..Len(s)
  BY LenProperties
<1>2. Places(s, E) \in SUBSET (1..Len(s)) /\ Places(s, E) \in SUBSET Nat
  BY <1>1 DEF Places
<1>3a. PICK m \in Nat : \E h : Lists(h, m, Places(s, E))
  BY <1>1, <1>2, ListExists
<1>3. PICK h : Lists(h, m, Places(s, E))
  BY <1>3a
<1>4. Len(whole) = m
  BY <1>1, <1>2, <1>3, ListIsNth, OnlyType
<1>5. \A p \in 0..n : p * limit \in Nat /\ p <= p * limit /\ place(p) \in 0..Len(s)
  BY <1>1, PageBounds DEF Reach
<1> DEFINE Is(p, c) == c \in 0..m /\ Split(h, m, place(p), c)
           cut == [p \in 0..n |-> CHOOSE c \in 0..m : Is(p, c)]
<1>6. ASSUME NEW p \in 0..n PROVE Is(p, cut[p])
  <2>1. place(p) \in Nat
    BY <1>1, <1>5
  <2>2. \E c \in 0..m : Is(p, c)
    <3> HIDE DEF place
    <3> QED BY <1>2, <1>3, <2>1, FirstOnes
  <2>3. cut[p] = CHOOSE c \in 0..m : Is(p, c)
    OBVIOUS
  <2> HIDE DEF Is, cut
  <2> QED BY <2>2, <2>3
<1> HIDE DEF cut
<1>7. cut \in [0..n -> 0..m]
  BY <1>6 DEF cut
<1>8. \A k \in 1..m : h[k] \in 1..Len(s)
  BY <1>2, <1>3 DEF Lists
<1>9. cut[0] = 0
  <2>1. place(0) = 0 /\ 0 \in 0..n
    BY <1>1 DEF Reach
  <2>2. Is(0, cut[0])
    BY <1>6, <2>1
  <2>3. \A k \in 1..m : ~(k <= cut[0])
    BY <1>1, <1>8, <2>1, <2>2 DEF Split
  <2> QED BY <2>2, <2>3
<1>10. cut[n] = m
  <2>0. PICK y \in Nat : y = n * limit /\ Len(s) <= y
    <3>1. n \in 0..n
      OBVIOUS
    <3>2. n * limit \in Nat /\ n <= n * limit
      BY <1>5, <3>1
    <3> QED BY <1>1, <3>2
  <2>a. Reach(y, Len(s)) = Len(s)
    <3> HIDE DEF place
    <3>1. Len(s) <= y
      BY <2>0
    <3> QED BY <1>1, <3>1, ReachesEnd
  <2>1. place(n) = Len(s) /\ n \in 0..n
    BY <2>0, <2>a
  <2>2. Is(n, cut[n])
    BY <1>6, <2>1
  <2>3. \A k \in 1..m : k <= cut[n]
    BY <1>1, <1>8, <2>1, <2>2 DEF Split
  <2> QED BY <2>2, <2>3
<1>11. ASSUME NEW p \in 1..n
       PROVE  cut[p - 1] <= cut[p] /\ pages[p] = SubSeq(whole, cut[p - 1] + 1, cut[p])
  <2>1. (p - 1) * limit \in Nat /\ (p - 1) * limit + limit = p * limit /\ p - 1 \in 0..n /\ p \in 0..n
    BY PageBounds
  <2>2. PICK x \in Nat : x = (p - 1) * limit
    BY <2>1
  <2>3. place(p - 1) = Reach(x, Len(s)) /\ place(p) = Reach(x + limit, Len(s))
    BY <2>1, <2>2
  <2>4. Slice(s, limit, x) = SubSeq(s, place(p - 1) + 1, place(p))
    BY <2>2, <2>3, SliceIs
  <2>5. place(p - 1) \in 0..Len(s) /\ place(p) \in place(p - 1)..Len(s)
    BY <1>1, <2>2, <2>3 DEF Reach
  <2>6. pages[p] = Only(SubSeq(s, place(p - 1) + 1, place(p)), Places(SubSeq(s, place(p - 1) + 1, place(p)), E))
    BY <2>2, <2>4
  <2>7. Is(p - 1, cut[p - 1]) /\ Is(p, cut[p])
    BY <1>6, <2>1
  <2> HIDE DEF pages
  <2> HIDE DEF place
  <2>a. PICK a \in 0..Len(s) : a = place(p - 1)
    BY <2>5
  <2>8. PICK b \in a..Len(s) : a = place(p - 1) /\ b = place(p)
    BY <2>5, <2>a
  <2>9. PICK c \in 0..m, d \in 0..m : c = cut[p - 1] /\ d = cut[p]
    BY <2>7
  <2>10. Split(h, m, a, c) /\ Split(h, m, b, d)
    BY <2>7, <2>8, <2>9
  <2>11. /\ c <= d
         /\ Only(SubSeq(s, a + 1, b), Places(SubSeq(s, a + 1, b), E)) = SubSeq(Only(s, Places(s, E)), c + 1, d)
    BY <1>3, <2>10, OnlyOfPart
  <2> QED BY <2>6, <2>8, <2>9, <2>11
<1>12. Len(pages) = n
  OBVIOUS
<1> HIDE DEF pages, whole
<1>13. Concatenate(pages, whole)
  BY <1>4, <1>7, <1>9, <1>10, <1>11, <1>12 DEF Concatenate
<1> QED BY <1>13 DEF pages, whole

\* A page that holds everything is everything.
LEMMA LargePage ==
  ASSUME NEW T, NEW s \in Seq(T), NEW limit \in Nat, Len(s) <= limit
  PROVE  Slice(s, limit, 0) = s
<1>1. Len(s) \in Nat
  BY LenProperties
<1>2. Slice(s, limit, 0) = SubSeq(s, 1, Len(s))
  BY <1>1 DEF Slice
<1> QED BY <1>2, SubSeqFull

\* Slices are sequences.
LEMMA SliceType ==
  ASSUME NEW T, NEW s \in Seq(T), NEW limit \in Nat, NEW offset \in Nat
  PROVE  Slice(s, limit, offset) \in Seq(T)
<1> DEFINE b == IF offset + limit < Len(s) THEN offset + limit ELSE Len(s)
<1>1. Len(s) \in Nat /\ \A i \in 1..Len(s) : s[i] \in T
  BY LenProperties, ElementOfSeq
<1>2. offset + 1 \in Int /\ b \in Int /\ \A i \in (offset + 1)..b : s[i] \in T
  BY <1>1
<1> HIDE DEF b
<1>3. SubSeq(s, offset + 1, b) \in Seq(T)
  BY <1>2, SubSeqProperties
<1> QED BY <1>3 DEF Slice, b
=============================================================================
