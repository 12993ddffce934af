----------------------------- MODULE SlotsProofs -----------------------------
(***************************************************************************)
(* Proofs about what bounds the work of a process: the execution capacity  *)
(* and the slots of the gRPC worker, both over asyncio's semaphore.        *)
(***************************************************************************)
EXTENDS MCSlots, FiniteSetTheorems, SequenceTheorems, TLAPS

-----------------------------------------------------------------------------
(* The semaphore, as operators of its three fields *)

Entries(w) == {w[i] : i \in DOMAIN w}

Distinct(w) == \A i, j \in DOMAIN w : w[i] = w[j] => i = j

\* A caller waits once, or owns a permit and is about to run.
Pool(S, v, w, g) ==
  /\ v \in Nat /\ w \in Seq(S) /\ g \in SUBSET S
  /\ IsFiniteSet(g)
  /\ Distinct(w)
  /\ Entries(w) \cap g = {}

\* The permits that no slot holds.
Spare(v, g) == v + Cardinality(g)

Remaining(w, n) == SubSeq(w, n + 1, Len(w))

First(w, n) == {w[i] : i \in 1..n}

\* The first n of a queue without repetitions are n, and the others are
\* queued as before.
LEMMA FirstOfQueue ==
  ASSUME NEW S, NEW w \in Seq(S), Distinct(w), NEW n \in 0..Len(w)
  PROVE  /\ IsFiniteSet(First(w, n)) /\ Cardinality(First(w, n)) = n
         /\ Remaining(w, n) \in Seq(S) /\ Distinct(Remaining(w, n))
         /\ First(w, n) \cup Entries(Remaining(w, n)) = Entries(w)
         /\ First(w, n) \cap Entries(Remaining(w, n)) = {}
<1>0. n \in Nat /\ Len(w) \in Nat /\ DOMAIN w = 1..Len(w)
  OBVIOUS
<1> DEFINE f == [i \in 1..n |-> w[i]]
<1>1. f \in Bijection(1..n, First(w, n))
  <2>1. f \in [1..n -> First(w, n)]
    BY DEF First
  <2>2. \A a, b \in 1..n : f[a] = f[b] => a = b
    BY <1>0 DEF Distinct
  <2>3. \A t \in First(w, n) : \E s \in 1..n : f[s] = t
    BY DEF First
  <2> HIDE DEF f
  <2> QED
    BY <2>1, <2>2, <2>3 DEF Bijection, Injection, IsInjective, Surjection
<1>2. IsFiniteSet(1..n) /\ Cardinality(1..n) = n
  BY FS_Interval, <1>0
<1>3. ExistsBijection(1..n, First(w, n))
  BY <1>1 DEF ExistsBijection
<1>4. IsFiniteSet(First(w, n)) /\ Cardinality(First(w, n)) = n
  BY <1>2, <1>3, FS_Bijection
<1> DEFINE r == Remaining(w, n)
<1>5. /\ r \in Seq(S) /\ Len(r) = Len(w) - n
      /\ DOMAIN r = 1..(Len(w) - n)
      /\ \A i \in 1..(Len(w) - n) : r[i] = w[n + i]
  <2>1. \A i \in (n + 1)..Len(w) : w[i] \in S
    BY <1>0
  <2>2. /\ SubSeq(w, n + 1, Len(w)) \in Seq(S)
        /\ Len(SubSeq(w, n + 1, Len(w))) = IF n + 1 <= Len(w) THEN Len(w) - (n + 1) + 1 ELSE 0
        /\ \A i \in 1..(Len(w) - (n + 1) + 1) : SubSeq(w, n + 1, Len(w))[i] = w[n + 1 + i - 1]
    <3>1. n + 1 \in Int /\ Len(w) \in Int
      BY <1>0
    <3> QED
      BY <2>1, <3>1, SubSeqProperties
  <2>6. r = SubSeq(w, n + 1, Len(w))
    BY DEF Remaining
  <2> HIDE DEF r
  <2>3. r \in Seq(S) /\ Len(r) = Len(w) - n
    <3>1. r \in Seq(S)
      BY <2>2, <2>6
    <3>2. Len(r) = IF n + 1 <= Len(w) THEN Len(w) - (n + 1) + 1 ELSE 0
      BY <2>2, <2>6, Zenon
    <3>3. n <= Len(w)
      BY <1>0
    <3>4. CASE n + 1 <= Len(w)
      BY <3>1, <3>2, <3>4, <1>0
    <3>5. CASE n = Len(w)
      BY <3>1, <3>2, <3>5, <1>0
    <3>6. n \in Nat /\ Len(w) \in Nat
      BY <1>0
    <3>7. n + 1 <= Len(w) \/ n = Len(w)
      BY <3>3, <3>6
    <3> QED
      BY <3>4, <3>5, <3>7
  <2>4. \A i \in 1..(Len(w) - n) : r[i] = w[n + i]
    BY <2>2, <2>6, <1>0
  <2>5. DOMAIN r = 1..Len(r)
    BY <2>3
  <2> QED
    BY <2>3, <2>4, <2>5
<1> HIDE DEF r
<1>6. Distinct(r)
  <2> SUFFICES ASSUME NEW i \in DOMAIN r, NEW j \in DOMAIN r, r[i] = r[j]
               PROVE  i = j
    BY DEF Distinct
  <2>1. n + i \in DOMAIN w /\ n + j \in DOMAIN w /\ w[n + i] = w[n + j]
    BY <1>0, <1>5
  <2> QED
    BY <2>1, <1>0, <1>5 DEF Distinct
<1>7. First(w, n) \cup Entries(r) = Entries(w)
  <2>1. First(w, n) \subseteq Entries(w)
    BY <1>0 DEF First, Entries
  <2>2. Entries(r) \subseteq Entries(w)
    BY <1>0, <1>5 DEF Entries
  <2>3. ASSUME NEW x \in Entries(w)
        PROVE  x \in First(w, n) \cup Entries(r)
    <3>1. PICK i \in 1..Len(w) : x = w[i]
      BY <1>0 DEF Entries
    <3>2. CASE i <= n
      BY <3>1, <3>2, <1>0 DEF First
    <3>3. CASE i > n
      <4>1. i - n \in DOMAIN r /\ r[i - n] = w[i]
        BY <3>1, <3>3, <1>0, <1>5
      <4> QED
        BY <4>1, <3>1 DEF Entries
    <3> QED
      BY <3>2, <3>3, <1>0
  <2> QED
    BY <2>1, <2>2, <2>3
<1>8. First(w, n) \cap Entries(r) = {}
  <2> SUFFICES ASSUME NEW i \in 1..n, NEW j \in DOMAIN r, w[i] = r[j]
               PROVE  FALSE
    BY DEF First, Entries
  <2>1. j \in 1..(Len(w) - n)
    BY <1>5
  <2>2. n + j \in 1..Len(w) /\ i \in 1..Len(w) /\ n + j # i
    BY <2>1, <1>0
  <2>3. w[n + j] = w[i]
    BY <2>1, <1>5
  <2> QED
    BY <2>2, <2>3, <1>0 DEF Distinct
<1> QED
  BY <1>4, <1>5, <1>6, <1>7, <1>8, Zenon DEF r

Woken(v, w) == IF v < Len(w) THEN v ELSE Len(w)

\* The loop that wakes waiters gives every permit it takes to one of them:
\* no permit is made or lost, and nobody is forgotten.
LEMMA WakingConserves ==
  ASSUME NEW S, NEW v, NEW w, NEW g, Pool(S, v, w, g),
         NEW v2, NEW w2, NEW g2,
         v2 = v - Woken(v, w),
         w2 = Remaining(w, Woken(v, w)),
         g2 = g \cup First(w, Woken(v, w))
  PROVE  /\ Pool(S, v2, w2, g2)
         /\ Spare(v2, g2) = Spare(v, g)
         /\ Entries(w2) \cup g2 = Entries(w) \cup g
<1> DEFINE n == Woken(v, w)
<1>1. v \in Nat /\ w \in Seq(S) /\ g \in SUBSET S /\ IsFiniteSet(g) /\ Distinct(w)
      /\ Entries(w) \cap g = {}
  BY DEF Pool
<1>2. n \in 0..Len(w) /\ n <= v /\ n \in Nat
  BY <1>1 DEF Woken
<1> HIDE DEF n
<1>3. /\ IsFiniteSet(First(w, n)) /\ Cardinality(First(w, n)) = n
      /\ Remaining(w, n) \in Seq(S) /\ Distinct(Remaining(w, n))
      /\ First(w, n) \cup Entries(Remaining(w, n)) = Entries(w)
      /\ First(w, n) \cap Entries(Remaining(w, n)) = {}
  BY <1>1, <1>2, FirstOfQueue
<1>4. v2 = v - n /\ w2 = Remaining(w, n) /\ g2 = g \cup First(w, n)
  BY DEF n
<1>5. First(w, n) \subseteq Entries(w) /\ Entries(w) \subseteq S
  BY <1>1, <1>3 DEF Entries
<1>6. g \cap First(w, n) = {}
  BY <1>1, <1>5
<1>7. IsFiniteSet(g2) /\ Cardinality(g2) = Cardinality(g) + n
  <2> DEFINE h == First(w, n)
  <2>1. IsFiniteSet(g) /\ IsFiniteSet(h) /\ g \cap h = {} /\ Cardinality(h) = n /\ g2 = g \cup h
    BY <1>1, <1>3, <1>4, <1>6
  <2> HIDE DEF h
  <2>2. /\ IsFiniteSet(g \cup h)
        /\ Cardinality(g \cup h) = Cardinality(g) + Cardinality(h) - Cardinality(g \cap h)
    BY <2>1, FS_Union
  <2>3. Cardinality(g) \in Nat /\ Cardinality(g \cap h) = 0
    BY <2>1, FS_EmptySet, FS_CardinalityType
  <2>4. IsFiniteSet(g2) /\ Cardinality(g2) = Cardinality(g) + Cardinality(h) - Cardinality(g \cap h)
    BY <2>1, <2>2, Zenon
  <2> QED
    BY <2>1, <2>3, <2>4, <1>2
<1>8. v2 \in Nat /\ Spare(v2, g2) = Spare(v, g)
  <2>1. Cardinality(g) \in Nat
    BY <1>1, FS_CardinalityType
  <2> QED
    BY <2>1, <1>1, <1>2, <1>4, <1>7 DEF Spare
<1>9. Entries(w2) \cap g2 = {} /\ Entries(w2) \cup g2 = Entries(w) \cup g
  BY <1>1, <1>3, <1>4
<1> QED
  BY <1>1, <1>3, <1>4, <1>5, <1>7, <1>8, <1>9 DEF Pool

WithoutAt(w, i) == [j \in 1..(Len(w) - 1) |-> IF j < i THEN w[j] ELSE w[j + 1]]

\* A cancelled waiter leaves the queue and nobody else does.
LEMMA LeavingTheQueue ==
  ASSUME NEW S, NEW v, NEW w, NEW g, Pool(S, v, w, g), NEW i \in 1..Len(w)
  PROVE  /\ Pool(S, v, WithoutAt(w, i), g)
         /\ Entries(WithoutAt(w, i)) = Entries(w) \ {w[i]}
<1> DEFINE u == WithoutAt(w, i)
<1>1. v \in Nat /\ w \in Seq(S) /\ g \in SUBSET S /\ IsFiniteSet(g) /\ Distinct(w)
      /\ Entries(w) \cap g = {}
  BY DEF Pool
<1>2. Len(w) \in Nat /\ DOMAIN w = 1..Len(w) /\ i \in DOMAIN w /\ Len(w) - 1 \in Nat
  BY <1>1
<1>3. /\ DOMAIN u = 1..(Len(w) - 1)
      /\ \A j \in 1..(Len(w) - 1) : u[j] = IF j < i THEN w[j] ELSE w[j + 1]
  BY DEF WithoutAt
<1>4. u \in Seq(S)
  <2>1. \A j \in 1..(Len(w) - 1) : (IF j < i THEN w[j] ELSE w[j + 1]) \in S
    BY <1>1, <1>2
  <2>2. u \in [1..(Len(w) - 1) -> S]
    BY <2>1 DEF WithoutAt
  <2> QED
    BY <2>2, <1>2, SeqDef, Zenon
<1> HIDE DEF u
<1> DEFINE at(j) == IF j < i THEN j ELSE j + 1
<1>5. \A j \in DOMAIN u : at(j) \in DOMAIN w /\ at(j) # i /\ u[j] = w[at(j)]
  BY <1>2, <1>3
<1>6. Distinct(u)
  <2> SUFFICES ASSUME NEW j \in DOMAIN u, NEW k \in DOMAIN u, u[j] = u[k]
               PROVE  j = k
    BY DEF Distinct
  <2>1. at(j) = at(k)
    BY <1>1, <1>5 DEF Distinct
  <2> QED
    BY <2>1, <1>2, <1>3
<1>7. Entries(u) \subseteq Entries(w) \ {w[i]}
  BY <1>1, <1>2, <1>5 DEF Entries, Distinct
<1>8. ASSUME NEW k \in DOMAIN w, w[k] # w[i]
      PROVE  w[k] \in Entries(u)
  <2>1. CASE k < i
    <3>1. k \in DOMAIN u /\ u[k] = w[k]
      BY <2>1, <1>2, <1>3
    <3> QED
      BY <3>1 DEF Entries
  <2>2. CASE k > i
    <3>1. k - 1 \in DOMAIN u /\ u[k - 1] = w[k]
      BY <2>2, <1>2, <1>3
    <3> QED
      BY <3>1 DEF Entries
  <2> QED
    BY <2>1, <2>2, <1>2, <1>8
<1>9. Entries(u) = Entries(w) \ {w[i]}
  BY <1>7, <1>8 DEF Entries
<1>10. Entries(u) \cap g = {}
  BY <1>1, <1>9
<1> QED
  BY <1>1, <1>4, <1>6, <1>9, <1>10 DEF Pool, u

\* A caller that waits joins the end of the queue.
LEMMA JoiningTheQueue ==
  ASSUME NEW S, NEW v, NEW w, NEW g, Pool(S, v, w, g), NEW c \in S, c \notin Entries(w) \cup g
  PROVE  /\ Pool(S, v, Append(w, c), g)
         /\ Entries(Append(w, c)) = Entries(w) \cup {c}
<1> DEFINE u == Append(w, c)
<1>1. v \in Nat /\ w \in Seq(S) /\ g \in SUBSET S /\ IsFiniteSet(g) /\ Distinct(w)
      /\ Entries(w) \cap g = {}
  BY DEF Pool
<1>2. /\ Len(w) \in Nat /\ DOMAIN w = 1..Len(w)
      /\ u \in Seq(S) /\ DOMAIN u = 1..(Len(w) + 1)
      /\ \A j \in 1..Len(w) : u[j] = w[j]
      /\ u[Len(w) + 1] = c
  BY <1>1
<1> HIDE DEF u
<1>3. \A j \in DOMAIN w : w[j] # c
  BY DEF Entries
<1>4. Distinct(u)
  <2> SUFFICES ASSUME NEW j \in DOMAIN u, NEW k \in DOMAIN u, u[j] = u[k]
               PROVE  j = k
    BY DEF Distinct
  <2>1. CASE j \in DOMAIN w /\ k \in DOMAIN w
    BY <2>1, <1>1, <1>2 DEF Distinct
  <2>2. CASE j = Len(w) + 1 /\ k \in DOMAIN w
    BY <2>2, <1>2, <1>3
  <2>3. CASE k = Len(w) + 1 /\ j \in DOMAIN w
    BY <2>3, <1>2, <1>3
  <2> QED
    BY <2>1, <2>2, <2>3, <1>2
<1>5. Entries(u) = Entries(w) \cup {c}
  <2>1. \A j \in DOMAIN u : j \in DOMAIN w \/ j = Len(w) + 1
    BY <1>2
  <2>2. DOMAIN w \subseteq DOMAIN u /\ Len(w) + 1 \in DOMAIN u
    BY <1>2
  <2> QED
    BY <2>1, <2>2, <1>2 DEF Entries
<1>6. Entries(u) \cap g = {}
  BY <1>1, <1>5
<1> QED
  BY <1>1, <1>2, <1>4, <1>5, <1>6 DEF Pool, u

-----------------------------------------------------------------------------
(* Slots: the semaphore and the callers that hold a permit *)

Slots(S, v, w, g, ins, a, max) ==
  /\ Pool(S, v, w, g)
  /\ ins \in SUBSET S /\ IsFiniteSet(ins)
  /\ ins \cap (g \cup Entries(w)) = {}
  /\ a = Cardinality(ins)
  /\ Spare(v, g) + a = max

Wakes(v, w, g, v2, w2, g2) ==
  /\ v2 = v - Woken(v, w)
  /\ w2 = Remaining(w, Woken(v, w))
  /\ g2 = g \cup First(w, Woken(v, w))

Releases(v, w, g, v2, w2, g2) ==
  IF w = <<>> THEN v2 = v + 1 /\ w2 = w /\ g2 = g
              ELSE v2 = v /\ w2 = Tail(w) /\ g2 = g \cup {Head(w)}

\* A free permit is taken.
LEMMA SlotTaken ==
  ASSUME NEW S, NEW v, NEW w, NEW g, NEW ins, NEW a, NEW max, Slots(S, v, w, g, ins, a, max),
         NEW c \in S, c \notin ins \cup g \cup Entries(w), v # 0
  PROVE  Slots(S, v - 1, w, g, ins \cup {c}, a + 1, max)
<1>1. /\ v \in Nat /\ w \in Seq(S) /\ g \in SUBSET S /\ IsFiniteSet(g)
      /\ Distinct(w) /\ Entries(w) \cap g = {}
      /\ ins \in SUBSET S /\ IsFiniteSet(ins) /\ ins \cap (g \cup Entries(w)) = {}
      /\ a = Cardinality(ins) /\ v + Cardinality(g) + a = max
  BY DEF Slots, Pool, Spare
<1>2. IsFiniteSet(ins \cup {c}) /\ Cardinality(ins \cup {c}) = Cardinality(ins) + 1
  BY <1>1, FS_AddElement
<1>3. Cardinality(g) \in Nat /\ Cardinality(ins) \in Nat
  BY <1>1, FS_CardinalityType
<1>4. v - 1 \in Nat /\ (v - 1) + Cardinality(g) + (a + 1) = max /\ a + 1 = Cardinality(ins \cup {c})
  BY <1>1, <1>2, <1>3
<1>5. (ins \cup {c}) \cap (g \cup Entries(w)) = {} /\ ins \cup {c} \in SUBSET S
  BY <1>1
<1> QED
  BY <1>1, <1>2, <1>4, <1>5 DEF Slots, Pool, Spare

\* A caller joins the queue.
LEMMA SlotAwaited ==
  ASSUME NEW S, NEW v, NEW w, NEW g, NEW ins, NEW a, NEW max, Slots(S, v, w, g, ins, a, max),
         NEW c \in S, c \notin ins \cup g \cup Entries(w)
  PROVE  /\ Slots(S, v, Append(w, c), g, ins, a, max)
         /\ Entries(Append(w, c)) = Entries(w) \cup {c}
<1>1. Pool(S, v, Append(w, c), g) /\ Entries(Append(w, c)) = Entries(w) \cup {c}
  BY JoiningTheQueue DEF Slots
<1>2. ins \cap (g \cup Entries(Append(w, c))) = {}
  BY <1>1 DEF Slots
<1> QED
  BY <1>1, <1>2 DEF Slots

\* A permit on its way to a caller arrives: whoever is woken then, the
\* permits and the callers are the same.
LEMMA PermitArrives ==
  ASSUME NEW S, NEW v, NEW w, NEW g, NEW ins, NEW a, NEW max, Slots(S, v, w, g, ins, a, max),
         NEW v2, NEW w2, NEW g2, NEW c \in g, Wakes(v, w, g \ {c}, v2, w2, g2)
  PROVE  /\ Slots(S, v2, w2, g2, ins \cup {c}, a + 1, max)
         /\ Entries(w2) \cup g2 = (Entries(w) \cup g) \ {c}
<1>1. /\ v \in Nat /\ w \in Seq(S) /\ g \in SUBSET S /\ IsFiniteSet(g)
      /\ Distinct(w) /\ Entries(w) \cap g = {}
      /\ ins \in SUBSET S /\ IsFiniteSet(ins) /\ ins \cap (g \cup Entries(w)) = {}
      /\ a = Cardinality(ins) /\ v + Cardinality(g) + a = max
  BY DEF Slots, Pool, Spare
<1>2. Cardinality(g) \in Nat /\ Cardinality(ins) \in Nat
  BY <1>1, FS_CardinalityType
<1>3. IsFiniteSet(g \ {c}) /\ Cardinality(g \ {c}) = Cardinality(g) - 1
  BY <1>1, FS_RemoveElement
<1>4. c \notin ins /\ c \notin Entries(w)
  BY <1>1
<1>5. Pool(S, v, w, g \ {c})
  BY <1>1, <1>3 DEF Pool
<1>6. (Entries(w) \cup g) \ {c} = Entries(w) \cup (g \ {c})
  BY <1>4
<1>7. /\ Pool(S, v2, w2, g2) /\ Spare(v2, g2) = Spare(v, g \ {c})
      /\ Entries(w2) \cup g2 = Entries(w) \cup (g \ {c})
  BY <1>5, WakingConserves DEF Wakes
<1>8. IsFiniteSet(ins \cup {c}) /\ Cardinality(ins \cup {c}) = Cardinality(ins) + 1
  BY <1>1, <1>4, FS_AddElement
<1>9. Spare(v2, g2) + (a + 1) = max
  BY <1>1, <1>2, <1>3, <1>7 DEF Spare
<1>10. (ins \cup {c}) \cap (g2 \cup Entries(w2)) = {}
  BY <1>1, <1>4, <1>7
<1>11. ins \cup {c} \in SUBSET S /\ a + 1 = Cardinality(ins \cup {c})
  BY <1>1, <1>8
<1> QED
  BY <1>6, <1>7, <1>8, <1>9, <1>10, <1>11 DEF Slots

\* Its caller gives it back instead.
LEMMA PermitReturned ==
  ASSUME NEW S, NEW v, NEW w, NEW g, NEW ins, NEW a, NEW max, Slots(S, v, w, g, ins, a, max),
         NEW v2, NEW w2, NEW g2, NEW c \in g, Wakes(v + 1, w, g \ {c}, v2, w2, g2)
  PROVE  /\ Slots(S, v2, w2, g2, ins, a, max)
         /\ Entries(w2) \cup g2 = (Entries(w) \cup g) \ {c}
<1>1. /\ v \in Nat /\ w \in Seq(S) /\ g \in SUBSET S /\ IsFiniteSet(g)
      /\ Distinct(w) /\ Entries(w) \cap g = {}
      /\ ins \in SUBSET S /\ IsFiniteSet(ins) /\ ins \cap (g \cup Entries(w)) = {}
      /\ a = Cardinality(ins) /\ v + Cardinality(g) + a = max
  BY DEF Slots, Pool, Spare
<1>2. Cardinality(g) \in Nat /\ Cardinality(ins) \in Nat
  BY <1>1, FS_CardinalityType
<1>3. IsFiniteSet(g \ {c}) /\ Cardinality(g \ {c}) = Cardinality(g) - 1
  BY <1>1, FS_RemoveElement
<1>4. c \notin ins /\ c \notin Entries(w)
  BY <1>1
<1>5. Pool(S, v + 1, w, g \ {c})
  BY <1>1, <1>3 DEF Pool
<1>6. (Entries(w) \cup g) \ {c} = Entries(w) \cup (g \ {c})
  BY <1>4
<1>7. /\ Pool(S, v2, w2, g2) /\ Spare(v2, g2) = Spare(v + 1, g \ {c})
      /\ Entries(w2) \cup g2 = Entries(w) \cup (g \ {c})
  BY <1>5, WakingConserves DEF Wakes
<1>8. Spare(v2, g2) + a = max
  BY <1>1, <1>2, <1>3, <1>7 DEF Spare
<1>9. ins \cap (g2 \cup Entries(w2)) = {}
  BY <1>1, <1>4, <1>7
<1> QED
  BY <1>1, <1>6, <1>7, <1>8, <1>9 DEF Slots

\* A caller that waits is cancelled.
LEMMA WaitCancelled ==
  ASSUME NEW S, NEW v, NEW w, NEW g, NEW ins, NEW a, NEW max, Slots(S, v, w, g, ins, a, max),
         NEW v2, NEW w2, NEW g2, NEW i \in 1..Len(w), Wakes(v, WithoutAt(w, i), g, v2, w2, g2)
  PROVE  /\ Slots(S, v2, w2, g2, ins, a, max)
         /\ Entries(w2) \cup g2 = (Entries(w) \cup g) \ {w[i]}
<1>1. /\ Pool(S, v, w, g) /\ IsFiniteSet(ins) /\ ins \in SUBSET S
      /\ ins \cap (g \cup Entries(w)) = {} /\ a = Cardinality(ins) /\ Spare(v, g) + a = max
  BY DEF Slots
<1>2. /\ Pool(S, v, WithoutAt(w, i), g)
      /\ Entries(WithoutAt(w, i)) = Entries(w) \ {w[i]}
  BY <1>1, LeavingTheQueue
<1>3. /\ Pool(S, v2, w2, g2) /\ Spare(v2, g2) = Spare(v, g)
      /\ Entries(w2) \cup g2 = Entries(WithoutAt(w, i)) \cup g
  BY <1>2, WakingConserves DEF Wakes
<1>4. w[i] \in Entries(w) /\ w[i] \notin g
  BY <1>1 DEF Entries, Pool
<1>5. Entries(w2) \cup g2 = (Entries(w) \cup g) \ {w[i]}
  BY <1>2, <1>3, <1>4
<1>6. ins \cap (g2 \cup Entries(w2)) = {}
  BY <1>1, <1>5
<1>7. Spare(v2, g2) + a = max
  BY <1>1, <1>3
<1> QED
  BY <1>1, <1>3, <1>5, <1>6, <1>7 DEF Slots

\* A slot ends: its permit goes to the first waiter, or is free.
LEMMA SlotEnds ==
  ASSUME NEW S, NEW v, NEW w, NEW g, NEW ins, NEW a, NEW max, Slots(S, v, w, g, ins, a, max),
         NEW v2, NEW w2, NEW g2, NEW c \in ins, Releases(v, w, g, v2, w2, g2)
  PROVE  /\ Slots(S, v2, w2, g2, ins \ {c}, a - 1, max)
         /\ Entries(w2) \cup g2 = Entries(w) \cup g
         /\ a > 0
<1>1. /\ Pool(S, v, w, g)
      /\ v \in Nat /\ w \in Seq(S) /\ g \in SUBSET S /\ IsFiniteSet(g)
      /\ Distinct(w) /\ Entries(w) \cap g = {}
      /\ ins \in SUBSET S /\ IsFiniteSet(ins) /\ ins \cap (g \cup Entries(w)) = {}
      /\ a = Cardinality(ins) /\ v + Cardinality(g) + a = max
  BY DEF Slots, Pool, Spare
<1>2. Cardinality(g) \in Nat /\ Cardinality(ins) \in Nat
  BY <1>1, FS_CardinalityType
<1>3. IsFiniteSet(ins \ {c}) /\ Cardinality(ins \ {c}) = Cardinality(ins) - 1
  BY <1>1, FS_RemoveElement
<1>4. a > 0
  <2>1. Cardinality(ins \ {c}) \in Nat
    BY <1>3, FS_CardinalityType
  <2> QED
    BY <2>1, <1>1, <1>2, <1>3
<1>5. /\ Pool(S, v2, w2, g2) /\ Entries(w2) \cup g2 = Entries(w) \cup g
      /\ Spare(v2, g2) = Spare(v, g) + 1
  <2>1. CASE w = <<>>
    <3>1. v2 = v + 1 /\ w2 = w /\ g2 = g
      BY <2>1 DEF Releases
    <3> QED
      BY <3>1, <1>1, <1>2 DEF Pool, Spare
  <2>2. CASE w # <<>>
    <3>1. v2 = v /\ w2 = Tail(w) /\ g2 = g \cup {Head(w)}
      BY <2>2 DEF Releases
    <3>2. Len(w) \in Nat /\ Len(w) # 0 /\ DOMAIN w = 1..Len(w)
      BY <2>2, <1>1
    <3>3. Head(w) = w[1] /\ Tail(w) = Remaining(w, 1)
      BY <2>2, <1>1, TailIsSubSeq DEF Remaining
    <3>4. First(w, 1) = {w[1]}
      BY DEF First
    <3>6. /\ IsFiniteSet(First(w, 1)) /\ Cardinality(First(w, 1)) = 1
          /\ Remaining(w, 1) \in Seq(S) /\ Distinct(Remaining(w, 1))
          /\ First(w, 1) \cup Entries(Remaining(w, 1)) = Entries(w)
          /\ First(w, 1) \cap Entries(Remaining(w, 1)) = {}
      <4>1. 1 \in 0..Len(w)
        BY <3>2
      <4> QED
        BY <4>1, <1>1, FirstOfQueue
    <3>7. w[1] \in Entries(w) /\ w[1] \notin g /\ w[1] \in S
      <4>1. 1 \in DOMAIN w
        BY <3>2
      <4>2. w[1] \in Entries(w) /\ w[1] \in S
        BY <4>1, <1>1 DEF Entries
      <4> QED
        BY <4>2, <1>1
    <3>8. IsFiniteSet(g2) /\ Cardinality(g2) = Cardinality(g) + 1
      BY <3>1, <3>3, <3>7, <1>1, FS_AddElement
    <3>9. Entries(w2) \cup {w[1]} = Entries(w) /\ w[1] \notin Entries(w2)
      BY <3>1, <3>3, <3>4, <3>6
    <3>10. Entries(w2) \cap g2 = {} /\ Entries(w2) \cup g2 = Entries(w) \cup g /\ g2 \in SUBSET S
      BY <3>1, <3>3, <3>7, <3>9, <1>1
    <3>11. w2 \in Seq(S) /\ Distinct(w2)
      BY <3>1, <3>3, <3>6
    <3> QED
      BY <3>1, <3>8, <3>10, <3>11, <1>1, <1>2 DEF Pool, Spare
  <2> QED
    BY <2>1, <2>2
<1>6. Spare(v2, g2) + (a - 1) = max
  BY <1>1, <1>2, <1>5 DEF Spare
<1>7. (ins \ {c}) \cap (g2 \cup Entries(w2)) = {} /\ ins \ {c} \in SUBSET S
  BY <1>1, <1>5
<1> QED
  BY <1>1, <1>3, <1>4, <1>5, <1>6, <1>7 DEF Slots

\* A permit that is free while somebody queues will be handed on: a caller
\* that was granted one has still to run, and wakes others when it does.
Awake(v, w, g) == w # <<>> => v = 0 \/ g # {}

\* The loop that wakes waiters leaves no free permit, or nobody queued.
LEMMA WakingIsEnough ==
  ASSUME NEW S, NEW v \in Nat, NEW w \in Seq(S), NEW g, NEW v2, NEW w2, NEW g2, Wakes(v, w, g, v2, w2, g2)
  PROVE  Awake(v2, w2, g2)
<1>1. Len(w) \in Nat /\ v2 = v - Woken(v, w) /\ w2 = SubSeq(w, Woken(v, w) + 1, Len(w))
  BY DEF Wakes, Remaining
<1>2. CASE v < Len(w)
  BY <1>1, <1>2 DEF Woken, Awake
<1>3. CASE ~(v < Len(w))
  <2>1. w2 = SubSeq(w, Len(w) + 1, Len(w))
    BY <1>1, <1>3 DEF Woken
  <2>2. w2 = <<>>
    BY <1>1, <2>1, SubSeqEmpty
  <2> QED
    BY <2>2 DEF Awake
<1> QED
  BY <1>2, <1>3

\* release() wakes the first waiter, if there is one.
LEMMA ReleasingIsEnough ==
  ASSUME NEW v, NEW w, NEW g, NEW v2, NEW w2, NEW g2, Releases(v, w, g, v2, w2, g2)
  PROVE  Awake(v2, w2, g2)
BY DEF Releases, Awake

-----------------------------------------------------------------------------
(* ExecutionCapacity *)

\* The permits are the ones that are free, on their way or in use; drain()
\* returns only while the flag is up and nobody is inside.
CapacityInv ==
  /\ Slots(Caller, value, waiters, granted, inside, active, maximum)
  /\ draining \in BOOLEAN
  /\ drainer \in {"away", "waiting", "notified", "returned"}
  /\ drainer # "away" => draining
  /\ drainer = "returned" => inside = {}

\* A step of the capacity keeps the permits; somebody gets in only while the
\* flag is down, and drain() returns only when nobody is in.
LEMMA CapacityStep == CapacityInv /\ [Next]_vars => CapacityInv'
<1> SUFFICES ASSUME CapacityInv, [Next]_vars PROVE CapacityInv'
  OBVIOUS
<1> DEFINE Old == Slots(Caller, value, waiters, granted, inside, active, maximum)
           New == Slots(Caller, value', waiters', granted', inside', active', maximum)
<1>0. /\ Old /\ draining \in BOOLEAN
      /\ drainer \in {"away", "waiting", "notified", "returned"}
      /\ drainer # "away" => draining
      /\ drainer = "returned" => inside = {}
      /\ Waiting = Entries(waiters)
  BY DEF CapacityInv, Waiting, Entries
<1> USE <1>0
<1>Q. ASSUME New, draining' \in BOOLEAN,
             drainer' \in {"away", "waiting", "notified", "returned"},
             drainer' # "away" => draining',
             drainer' = "returned" => inside' = {}
      PROVE  CapacityInv'
  BY <1>Q DEF CapacityInv
<1>1. ASSUME NEW c \in Caller, Enter(c) PROVE CapacityInv'
  <2>1. /\ c \notin inside \cup granted \cup Entries(waiters) /\ ~draining /\ value # 0
        /\ value' = value - 1 /\ waiters' = waiters /\ granted' = granted
        /\ inside' = inside \cup {c} /\ active' = active + 1
        /\ draining' = draining /\ drainer' = drainer
    BY <1>1 DEF Enter, MayEnter, AcquireNow, Locked, SlotEntered
  <2> HIDE DEF Old
  <2>2. New
    BY <2>1, SlotTaken DEF Old
  <2> QED
    BY <2>1, <2>2, <1>Q
<1>2. ASSUME NEW c \in Caller, Queue(c) PROVE CapacityInv'
  <2>1. /\ c \notin inside \cup granted \cup Entries(waiters)
        /\ value' = value /\ waiters' = Append(waiters, c) /\ granted' = granted
        /\ inside' = inside /\ active' = active
        /\ draining' = draining /\ drainer' = drainer
    BY <1>2 DEF Queue, MayEnter, AcquireWait
  <2>2. New
    BY <2>1, SlotAwaited
  <2> QED
    BY <2>1, <2>2, <1>Q
<1>3. ASSUME NEW c \in Caller, EnterAfterWait(c) PROVE CapacityInv'
  <2>1. /\ c \in granted /\ Wakes(value, waiters, granted \ {c}, value', waiters', granted')
        /\ inside' = inside \cup {c} /\ active' = active + 1 /\ ~draining
        /\ draining' = draining /\ drainer' = drainer
    BY <1>3 DEF EnterAfterWait, AcquireResumes, WakeLoop, SlotEntered, Wakes, Woken, Remaining, First
  <2>2. New
    BY <2>1, PermitArrives
  <2> QED
    BY <2>1, <2>2, <1>Q
<1>4. ASSUME NEW c \in Caller, RefusedAfterWait(c) PROVE CapacityInv'
  <2>1. /\ c \in granted /\ Wakes(value + 1, waiters, granted \ {c}, value', waiters', granted')
        /\ inside' = inside /\ active' = active
        /\ draining' = draining /\ drainer' = drainer
    BY <1>4 DEF RefusedAfterWait, AcquireResumesAndReleases, WakeLoop, Wakes, Woken, Remaining, First
  <2>2. New
    BY <2>1, PermitReturned
  <2> QED
    BY <2>1, <2>2, <1>Q
<1>5. ASSUME NEW c \in Caller, CancelledWaiting(c) PROVE CapacityInv'
  <2>1. /\ inside' = inside /\ active' = active
        /\ draining' = draining /\ drainer' = drainer /\ AcquireCancelled(c)
    BY <1>5 DEF CancelledWaiting
  <2>2. CASE /\ c \in granted
             /\ WakeLoop(value + 1, waiters, granted \ {c})
    <3>1. Wakes(value + 1, waiters, granted \ {c}, value', waiters', granted')
      BY <2>2 DEF WakeLoop, Wakes, Woken, Remaining, First
    <3>2. New
      BY <3>1, <2>1, <2>2, PermitReturned
    <3> QED
      BY <3>2, <2>1, <1>Q
  <2>3. CASE \E i \in 1..Len(waiters) : waiters[i] = c /\ WakeLoop(value, Without(i), granted)
    <3>1. PICK i \in 1..Len(waiters) : waiters[i] = c /\ WakeLoop(value, Without(i), granted)
      BY <2>3
    <3>2. Wakes(value, WithoutAt(waiters, i), granted, value', waiters', granted')
      BY <3>1 DEF WakeLoop, Wakes, Woken, Remaining, First, Without, WithoutAt
    <3>3. New
      BY <3>2, <2>1, WaitCancelled
    <3> QED
      BY <3>3, <2>1, <1>Q
  <2> QED
    BY <2>1, <2>2, <2>3 DEF AcquireCancelled
<1>6. ASSUME NEW c \in Caller, Leave(c) PROVE CapacityInv'
  <2>1. /\ c \in inside /\ Releases(value, waiters, granted, value', waiters', granted')
        /\ inside' = inside \ {c} /\ active' = active - 1
        /\ draining' = draining
        /\ drainer' = IF drainer = "waiting" THEN "notified" ELSE drainer
    BY <1>6 DEF Leave, Release, Releases
  <2>2. New
    BY <2>1, SlotEnds
  <2> HIDE DEF Old, New
  <2> QED
    BY <2>1, <2>2, <1>Q
<1>7. ASSUME StartDraining \/ DrainCalled \/ DrainWoken PROVE CapacityInv'
  <2>1. New
    BY <1>7 DEF StartDraining, DrainCalled, DrainWoken, semaphore
  <2>2. active = Cardinality(inside) /\ IsFiniteSet(inside)
    BY DEF Slots
  <2>3. active = 0 => inside = {}
    BY <2>2, FS_EmptySet
  <2> HIDE DEF Old, New
  <2>4. CASE StartDraining
    BY <2>1, <2>4, <1>Q DEF StartDraining, semaphore
  <2>5. CASE DrainCalled
    BY <2>1, <2>3, <2>5, <1>Q DEF DrainCalled, semaphore
  <2>6. CASE DrainWoken
    BY <2>1, <2>3, <2>6, <1>Q DEF DrainWoken, semaphore
  <2> QED
    BY <1>7, <2>4, <2>5, <2>6
<1>8. ASSUME UNCHANGED vars PROVE CapacityInv'
  BY <1>8, <1>Q DEF vars, semaphore
<1> QED
  BY <1>1, <1>2, <1>3, <1>4, <1>5, <1>6, <1>7, <1>8 DEF Next

\* All slots are free.
LEMMA CapacityStart == Init => CapacityInv
<1> SUFFICES ASSUME Init PROVE CapacityInv
  OBVIOUS
<1>1. /\ value = maximum /\ waiters = <<>> /\ granted = {} /\ inside = {} /\ active = 0
      /\ draining = FALSE /\ drainer = "away"
  BY DEF Init, SemaphoreInit
<1>2. IsFiniteSet({}) /\ Cardinality({}) = 0
  BY FS_EmptySet
<1>3. Entries(<<>>) = {} /\ Distinct(<<>>) /\ <<>> \in Seq(Caller)
  BY DEF Entries, Distinct
<1>4. Pool(Caller, maximum, <<>>, {})
  BY <1>2, <1>3, CapacityAssumption DEF Pool
<1>5. Slots(Caller, maximum, <<>>, {}, {}, 0, maximum)
  BY <1>2, <1>3, <1>4, CapacityAssumption DEF Slots, Spare
<1> QED
  BY <1>1, <1>5 DEF CapacityInv

\* Once drain() has returned nobody is in a slot of ExecutionCapacity and
\* nobody gets into one, for any number of slots and of callers, whoever was
\* queued on the semaphore when draining began and whoever was cancelled.
THEOREM DrainedIsEmpty == Spec => []DrainedStaysEmpty
<1>1. CapacityInv => DrainedStaysEmpty
  BY DEF CapacityInv, DrainedStaysEmpty
<1> QED
  BY <1>1, CapacityStart, CapacityStep, PTL DEF Spec

\* Slots are bounded: never more callers inside than there are permits, and
\* every permit is free, on its way to a waiter or held by a caller inside,
\* also when waiters are cancelled after release() chose them.
PermitsKept ==
  /\ value + Cardinality(granted) + Cardinality(inside) = maximum
  /\ Cardinality(inside) <= maximum

\* The capacity never loses a permit and never admits more callers than it
\* was built for.
THEOREM CapacityConserved == Spec => []PermitsKept
<1>1. CapacityInv => PermitsKept
  <2> SUFFICES ASSUME CapacityInv PROVE PermitsKept
    OBVIOUS
  <2>1. /\ value \in Nat /\ IsFiniteSet(granted) /\ IsFiniteSet(inside)
        /\ value + Cardinality(granted) + Cardinality(inside) = maximum
    BY DEF CapacityInv, Slots, Pool, Spare
  <2>2. Cardinality(granted) \in Nat /\ Cardinality(inside) \in Nat
    BY <2>1, FS_CardinalityType
  <2> QED
    BY <2>1, <2>2 DEF PermitsKept
<1> QED
  BY <1>1, CapacityStart, CapacityStep, PTL DEF Spec

\* What a step does to the queue of the semaphore.
LEMMA CapacityWakes == CapacityInv /\ Awake(value, waiters, granted) /\ [Next]_vars => Awake(value', waiters', granted')
<1> SUFFICES ASSUME CapacityInv, Awake(value, waiters, granted), [Next]_vars
             PROVE  Awake(value', waiters', granted')
  OBVIOUS
<1>0. value \in Nat /\ value + 1 \in Nat /\ waiters \in Seq(Caller)
  BY DEF CapacityInv, Slots, Pool
<1>1. ASSUME NEW c \in Caller, Enter(c) \/ Queue(c) PROVE Awake(value', waiters', granted')
  BY <1>1 DEF Enter, Queue, AcquireNow, AcquireWait, Locked, Awake
<1>2. ASSUME NEW c \in Caller, EnterAfterWait(c) PROVE Awake(value', waiters', granted')
  <2>1. Wakes(value, waiters, granted \ {c}, value', waiters', granted')
    BY <1>2 DEF EnterAfterWait, AcquireResumes, WakeLoop, Wakes, Woken, Remaining, First
  <2> QED
    BY <1>0, <2>1, WakingIsEnough
<1>3. ASSUME NEW c \in Caller, RefusedAfterWait(c) PROVE Awake(value', waiters', granted')
  <2>1. Wakes(value + 1, waiters, granted \ {c}, value', waiters', granted')
    BY <1>3 DEF RefusedAfterWait, AcquireResumesAndReleases, WakeLoop, Wakes, Woken, Remaining, First
  <2> QED
    BY <1>0, <2>1, WakingIsEnough
<1>4. ASSUME NEW c \in Caller, CancelledWaiting(c) PROVE Awake(value', waiters', granted')
  <2>1. CASE WakeLoop(value + 1, waiters, granted \ {c})
    <3>1. Wakes(value + 1, waiters, granted \ {c}, value', waiters', granted')
      BY <2>1 DEF WakeLoop, Wakes, Woken, Remaining, First
    <3> QED
      BY <1>0, <3>1, WakingIsEnough
  <2>2. ASSUME NEW i \in 1..Len(waiters), WakeLoop(value, Without(i), granted)
        PROVE  Awake(value', waiters', granted')
    <3>1. Wakes(value, WithoutAt(waiters, i), granted, value', waiters', granted')
      BY <2>2 DEF WakeLoop, Wakes, Woken, Remaining, First, Without, WithoutAt
    <3>2. WithoutAt(waiters, i) \in Seq(Caller)
      <4>1. Pool(Caller, value, waiters, granted)
        BY DEF CapacityInv, Slots
      <4>2. Pool(Caller, value, WithoutAt(waiters, i), granted)
        BY <2>2, <4>1, LeavingTheQueue
      <4> QED
        BY <4>2 DEF Pool
    <3> QED
      BY <1>0, <3>1, <3>2, WakingIsEnough
  <2> QED
    BY <1>4, <2>1, <2>2 DEF CancelledWaiting, AcquireCancelled
<1>5. ASSUME NEW c \in Caller, Leave(c) PROVE Awake(value', waiters', granted')
  <2>1. Releases(value, waiters, granted, value', waiters', granted')
    BY <1>5 DEF Leave, Release, Releases
  <2> QED
    BY <2>1, ReleasingIsEnough
<1>6. CASE StartDraining \/ DrainCalled \/ DrainWoken \/ UNCHANGED vars
  BY <1>6 DEF StartDraining, DrainCalled, DrainWoken, vars, semaphore
<1> QED
  BY <1>1, <1>2, <1>3, <1>4, <1>5, <1>6 DEF Next

\* The task in drain() waits only while somebody is in a slot, whose end
\* will notify it.
DrainerHoped == drainer = "waiting" => inside # {}

\* A caller that gets in is inside, one that leaves notifies.
LEMMA DrainerStep == CapacityInv /\ DrainerHoped /\ [Next]_vars => DrainerHoped'
<1> SUFFICES ASSUME CapacityInv, DrainerHoped, [Next]_vars PROVE DrainerHoped'
  OBVIOUS
<1>1. active # 0 => inside # {}
  <2>1. active = Cardinality(inside)
    BY DEF CapacityInv, Slots
  <2> QED
    BY <2>1, FS_EmptySet
<1>2. ASSUME NEW c \in Caller, Enter(c) \/ EnterAfterWait(c) PROVE DrainerHoped'
  BY <1>2 DEF Enter, EnterAfterWait, SlotEntered, DrainerHoped
<1>3. ASSUME NEW c \in Caller, Queue(c) \/ RefusedAfterWait(c) \/ CancelledWaiting(c) PROVE DrainerHoped'
  BY <1>3 DEF Queue, RefusedAfterWait, CancelledWaiting, DrainerHoped
<1>4. ASSUME NEW c \in Caller, Leave(c) PROVE DrainerHoped'
  BY <1>4 DEF Leave, DrainerHoped, CapacityInv
<1>5. CASE StartDraining \/ DrainCalled \/ DrainWoken \/ UNCHANGED vars
  BY <1>1, <1>5 DEF StartDraining, DrainCalled, DrainWoken, vars, DrainerHoped
<1> QED
  BY <1>2, <1>3, <1>4, <1>5 DEF Next

\* Nobody waits for a wake-up that was lost: a caller is queued on the
\* semaphore only while every slot is in use or a permit is on its way, and
\* drain() waits only while a slot is in use, also when the callers that
\* release() chose are cancelled before they run.
NobodyForgotten ==
  /\ waiters # <<>> => granted # {} \/ Cardinality(inside) = maximum
  /\ drainer = "waiting" => inside # {}

\* What WaiterIsServed and DrainReturns need of every state: somebody whose
\* next step wakes the ones who wait.
THEOREM NoWakeUpLost == Spec => []NobodyForgotten
<1>1. Init => Awake(value, waiters, granted) /\ DrainerHoped
  BY DEF Init, SemaphoreInit, Awake, DrainerHoped
<1>2. CapacityInv /\ Awake(value, waiters, granted) /\ DrainerHoped => NobodyForgotten
  <2> SUFFICES ASSUME CapacityInv, Awake(value, waiters, granted), waiters # <<>>, granted = {}
               PROVE  Cardinality(inside) = maximum
    BY DEF NobodyForgotten, DrainerHoped
  <2>1. value = 0 /\ value + Cardinality(granted) + Cardinality(inside) = maximum
        /\ IsFiniteSet(inside)
    BY DEF CapacityInv, Slots, Spare, Awake
  <2>2. Cardinality(granted) = 0 /\ Cardinality(inside) \in Nat
    BY <2>1, FS_EmptySet, FS_CardinalityType
  <2> QED
    BY <2>1, <2>2
<1>3. Awake(value, waiters, granted)' <=> Awake(value', waiters', granted')
  BY DEF Awake
<1> QED
  BY <1>1, <1>2, <1>3, CapacityStart, CapacityStep, CapacityWakes, DrainerStep, PTL DEF Spec

-----------------------------------------------------------------------------
(* BoundedWorker *)

Limit == Worker!max_concurrency

\* The least of the three limits of the configuration is one of them.
LEMMA LimitIsNatural == Limit \in Nat \ {0}
<1> DEFINE limits == {configured, environment, ceiling}
<1>1. configured \in Nat \ {0} /\ environment \in Nat \ {0} /\ ceiling \in Nat \ {0}
  BY SlotsAssumption
<1>2. \E x \in limits : \A y \in limits : x <= y
  <2>1. CASE configured <= environment /\ configured <= ceiling
    BY <2>1, <1>1
  <2>2. CASE environment <= configured /\ environment <= ceiling
    BY <2>2, <1>1
  <2>3. CASE ceiling <= configured /\ ceiling <= environment
    BY <2>3, <1>1
  <2> QED
    BY <2>1, <2>2, <2>3, <1>1
<1>3. Limit = CHOOSE x \in limits : \A y \in limits : x <= y
  BY DEF Limit, Worker!max_concurrency, Worker!Min
<1> HIDE DEF limits
<1>4. Limit \in limits
  BY <1>2, <1>3
<1> QED
  BY <1>1, <1>4 DEF limits

\* The instance counts as this module does.
LEMMA SameCount == ASSUME NEW S PROVE Worker!Cardinality(S) = Cardinality(S)
BY DEF Worker!Cardinality, Cardinality

Drains == {"request", "stop"}

\* The entry of a run in _running is a call for that run that is executing.
RunningTrue(ins, run) ==
  /\ run \in [Run -> Call \cup {NoCall}]
  /\ \A r \in Run : run[r] # NoCall => run[r] \in ins /\ RunOf[run[r]] = r

\* While the worker drains nobody is queued who was not queued when draining
\* began, and what executes after a drain() has returned was.
DrainTrue ==
  /\ wDraining \in BOOLEAN /\ wListening \in BOOLEAN /\ wClosed \in BOOLEAN
  /\ wDrain \in [Drains -> {"away", "polling", "returned", "timeout"}]
  /\ \A d \in Drains : wDrain[d] # "away" => wDraining
  /\ wDraining => Entries(wWaiters) \cup wGranted \subseteq wQueued
  /\ \A d \in Drains : wDrain[d] = "returned" => wInside \subseteq wQueued
  /\ wClosed => ~wListening /\ wInside \cup wGranted \cup Entries(wWaiters) = {}

WorkerInv ==
  /\ Slots(Call, wValue, wWaiters, wGranted, wInside, wActive, Limit)
  /\ RunningTrue(wInside, wRunning)
  /\ DrainTrue

\* All slots are free and nothing runs.
LEMMA WorkerStart == Worker!Init => WorkerInv
<1> SUFFICES ASSUME Worker!Init PROVE WorkerInv
  OBVIOUS
<1>1. /\ wValue = Limit /\ wWaiters = <<>> /\ wGranted = {} /\ wInside = {} /\ wActive = 0
      /\ wRunning = [r \in Run |-> NoCall]
      /\ wDraining = FALSE /\ wDrain = [d \in Drains |-> "away"]
      /\ wListening = TRUE /\ wClosed = FALSE /\ wQueued = {}
  BY DEF Worker!Init, Worker!SemaphoreInit, Limit, Drains
<1>2. IsFiniteSet({}) /\ Cardinality({}) = 0
  BY FS_EmptySet
<1>3. Entries(<<>>) = {} /\ Distinct(<<>>) /\ <<>> \in Seq(Call)
  BY DEF Entries, Distinct
<1>4. Pool(Call, Limit, <<>>, {})
  BY <1>2, <1>3, LimitIsNatural DEF Pool
<1>5. Slots(Call, Limit, <<>>, {}, {}, 0, Limit)
  BY <1>2, <1>3, <1>4, LimitIsNatural DEF Slots, Spare
<1>6. RunningTrue(wInside, wRunning)
  BY <1>1 DEF RunningTrue
<1>7. DrainTrue
  BY <1>1, <1>3 DEF DrainTrue
<1> QED
  BY <1>1, <1>5, <1>6, <1>7 DEF WorkerInv

\* A call that gets a slot is registered for its run, whatever the entry was.
LEMMA Registered ==
  ASSUME NEW ins, NEW run, RunningTrue(ins, run), NEW c \in Call
  PROVE  RunningTrue(ins \cup {c}, [run EXCEPT ![RunOf[c]] = c])
BY SlotsAssumption DEF RunningTrue

\* A call that ends takes the entry of its run away, if another call for
\* the run has taken it too: no entry is left of a call that is over.
LEMMA Unregistered ==
  ASSUME NEW ins, NEW run, RunningTrue(ins, run), NEW c \in Call
  PROVE  RunningTrue(ins \ {c}, [run EXCEPT ![RunOf[c]] = NoCall])
BY SlotsAssumption DEF RunningTrue

\* What the steps that only move calls leave of the drain: nobody joins the
\* queue while it drains, and who gets a slot then was queued.
LEMMA DrainUndisturbed ==
  ASSUME DrainTrue,
         wDraining' = wDraining, wDrain' = wDrain, wListening' = wListening,
         wClosed' = wClosed, wQueued' = wQueued,
         wDraining => Entries(wWaiters') \cup wGranted' \subseteq Entries(wWaiters) \cup wGranted,
         wDraining => wInside' \subseteq wInside \cup wGranted,
         wClosed => wInside' \cup wGranted' \cup Entries(wWaiters')
                      \subseteq wInside \cup wGranted \cup Entries(wWaiters)
  PROVE  DrainTrue'
<1>1. wDraining' => Entries(wWaiters') \cup wGranted' \subseteq wQueued'
  BY DEF DrainTrue
<1>2. \A d \in Drains : wDrain'[d] = "returned" => wInside' \subseteq wQueued'
  <2> SUFFICES ASSUME NEW d \in Drains, wDrain[d] = "returned" PROVE wInside' \subseteq wQueued
    OBVIOUS
  <2>1. wDraining /\ wInside \subseteq wQueued /\ wGranted \subseteq wQueued
    BY DEF DrainTrue
  <2> QED
    BY <2>1
<1>3. wClosed' => ~wListening' /\ wInside' \cup wGranted' \cup Entries(wWaiters') = {}
  BY DEF DrainTrue
<1> QED
  BY <1>1, <1>2, <1>3 DEF DrainTrue

\* A step of the gRPC worker keeps its permits, its table and its drain.
LEMMA WorkerStep == WorkerInv /\ [Worker!Next]_(Worker!vars) => WorkerInv'
<1> SUFFICES ASSUME WorkerInv, [Worker!Next]_(Worker!vars) PROVE WorkerInv'
  OBVIOUS
<1> DEFINE Old == Slots(Call, wValue, wWaiters, wGranted, wInside, wActive, Limit)
           New == Slots(Call, wValue', wWaiters', wGranted', wInside', wActive', Limit)
           Control == /\ wDraining' = wDraining /\ wDrain' = wDrain /\ wListening' = wListening
                      /\ wClosed' = wClosed /\ wQueued' = wQueued
<1>0. /\ Old /\ RunningTrue(wInside, wRunning) /\ DrainTrue
      /\ Worker!Waiting = Entries(wWaiters)
  BY DEF WorkerInv, Worker!Waiting, Entries
<1>N. wGranted \subseteq Call /\ wInside \subseteq Call /\ Entries(wWaiters) \subseteq Call
  BY <1>0 DEF Slots, Pool, Entries
<1>Q. ASSUME New, RunningTrue(wInside', wRunning'), DrainTrue'
      PROVE  WorkerInv'
  BY <1>Q DEF WorkerInv, RunningTrue, Limit, Worker!max_concurrency
<1>C. wClosed => wInside \cup wGranted \cup Entries(wWaiters) = {} /\ ~wListening
  BY <1>0 DEF DrainTrue
<1> HIDE DEF Old, New
<1>1. ASSUME NEW c \in Call, Worker!Begin(c) PROVE WorkerInv'
  <2>1. /\ c \notin wInside \cup wGranted \cup Entries(wWaiters) /\ ~wDraining /\ wValue # 0
        /\ wListening
        /\ wValue' = wValue - 1 /\ wWaiters' = wWaiters /\ wGranted' = wGranted
        /\ wInside' = wInside \cup {c} /\ wActive' = wActive + 1
        /\ wRunning' = [wRunning EXCEPT ![RunOf[c]] = c]
        /\ Control
    BY <1>0, <1>1 DEF Worker!Begin, Worker!Fresh, Worker!AcquireNow, Worker!Locked, Worker!Enters, Worker!control
  <2>2. New
    BY <2>1, <1>0, SlotTaken DEF Old, New
  <2>3. RunningTrue(wInside', wRunning')
    BY <2>1, <1>0, Registered
  <2>4. DrainTrue'
    BY <2>1, <1>0, <1>C, DrainUndisturbed
  <2> QED
    BY <2>2, <2>3, <2>4, <1>Q
<1>2. ASSUME NEW c \in Call, Worker!Queue(c) PROVE WorkerInv'
  <2>1. /\ c \notin wInside \cup wGranted \cup Entries(wWaiters) /\ ~wDraining
        /\ wListening
        /\ wValue' = wValue /\ wWaiters' = Append(wWaiters, c) /\ wGranted' = wGranted
        /\ wInside' = wInside /\ wActive' = wActive /\ wRunning' = wRunning
        /\ Control
    BY <1>0, <1>2 DEF Worker!Queue, Worker!Fresh, Worker!AcquireWait, Worker!control
  <2>2. New
    BY <2>1, <1>0, SlotAwaited DEF Old, New
  <2>4. DrainTrue'
    BY <2>1, <1>0, <1>C, DrainUndisturbed
  <2> QED
    BY <2>1, <2>2, <2>4, <1>0, <1>Q
<1>3. ASSUME NEW c \in Call, Worker!BeginAfterWait(c) PROVE WorkerInv'
  <2>1. /\ c \in wGranted /\ Wakes(wValue, wWaiters, wGranted \ {c}, wValue', wWaiters', wGranted')
        /\ wInside' = wInside \cup {c} /\ wActive' = wActive + 1
        /\ wRunning' = [wRunning EXCEPT ![RunOf[c]] = c]
        /\ Control
    BY <1>3 DEF Worker!BeginAfterWait, Worker!AcquireResumes, Worker!WakeLoop, Worker!Enters,
                Worker!control, Wakes, Woken, Remaining, First
  <2>2. /\ Slots(Call, wValue', wWaiters', wGranted', wInside \cup {c}, wActive + 1, Limit)
        /\ Entries(wWaiters') \cup wGranted' = (Entries(wWaiters) \cup wGranted) \ {c}
    BY <2>1, <1>0, PermitArrives DEF Old
  <2>3. RunningTrue(wInside', wRunning')
    BY <2>1, <1>0, Registered
  <2>4. DrainTrue'
    BY <2>1, <2>2, <1>0, <1>C, DrainUndisturbed
  <2> QED
    BY <2>1, <2>2, <2>3, <2>4, <1>Q DEF New
<1>4. ASSUME NEW c \in Call, Worker!Abandon(c) PROVE WorkerInv'
  <2>1. /\ wInside' = wInside /\ wActive' = wActive /\ wRunning' = wRunning
        /\ Control /\ Worker!AcquireCancelled(c)
    BY <1>4 DEF Worker!Abandon, Worker!control
  <2>2. /\ Slots(Call, wValue', wWaiters', wGranted', wInside, wActive, Limit)
        /\ Entries(wWaiters') \cup wGranted' = (Entries(wWaiters) \cup wGranted) \ {c}
    <3>1. CASE /\ c \in wGranted
               /\ Worker!WakeLoop(wValue + 1, wWaiters, wGranted \ {c})
      <4>1. Wakes(wValue + 1, wWaiters, wGranted \ {c}, wValue', wWaiters', wGranted')
        BY <3>1 DEF Worker!WakeLoop, Wakes, Woken, Remaining, First
      <4>2. Slots(Call, wValue, wWaiters, wGranted, wInside, wActive, Limit)
        BY <1>0 DEF Old
      <4> QED
        BY <3>1, <4>1, <4>2, PermitReturned
    <3>2. CASE \E i \in 1..Len(wWaiters) :
                 wWaiters[i] = c /\ Worker!WakeLoop(wValue, Worker!Without(i), wGranted)
      <4>1. PICK i \in 1..Len(wWaiters) :
              wWaiters[i] = c /\ Worker!WakeLoop(wValue, Worker!Without(i), wGranted)
        BY <3>2
      <4>2. Wakes(wValue, WithoutAt(wWaiters, i), wGranted, wValue', wWaiters', wGranted')
        BY <4>1 DEF Worker!WakeLoop, Wakes, Woken, Remaining, First, Worker!Without, WithoutAt
      <4>3. /\ Slots(Call, wValue', wWaiters', wGranted', wInside, wActive, Limit)
            /\ Entries(wWaiters') \cup wGranted' = (Entries(wWaiters) \cup wGranted) \ {wWaiters[i]}
        BY <4>2, <1>0, WaitCancelled DEF Old
      <4> QED
        BY <4>1, <4>3, Zenon
    <3> QED
      BY <2>1, <3>1, <3>2 DEF Worker!AcquireCancelled
  <2>4. DrainTrue'
    BY <2>1, <2>2, <1>0, DrainUndisturbed
  <2> QED
    BY <2>1, <2>2, <2>4, <1>0, <1>Q DEF New
<1>5. ASSUME NEW c \in Call, Worker!End(c) PROVE WorkerInv'
  <2>1. /\ c \in wInside /\ wInside' = wInside \ {c}
        /\ wRunning' = [wRunning EXCEPT ![RunOf[c]] = NoCall]
        /\ Control
    BY <1>5 DEF Worker!End, Worker!control
  <2>2. wActive > 0
    <3>1. Releases(wValue, wWaiters, wGranted,
                   IF wWaiters = <<>> THEN wValue + 1 ELSE wValue,
                   IF wWaiters = <<>> THEN wWaiters ELSE Tail(wWaiters),
                   IF wWaiters = <<>> THEN wGranted ELSE wGranted \cup {Head(wWaiters)})
      BY DEF Releases
    <3> QED
      BY <3>1, <2>1, <1>0, SlotEnds DEF Old
  <2>3. /\ wActive' = wActive - 1
        /\ Releases(wValue, wWaiters, wGranted, wValue', wWaiters', wGranted')
    BY <1>5, <2>2 DEF Worker!End, Worker!Release, Releases
  <2>4. /\ Slots(Call, wValue', wWaiters', wGranted', wInside \ {c}, wActive - 1, Limit)
        /\ Entries(wWaiters') \cup wGranted' = Entries(wWaiters) \cup wGranted
    BY <2>1, <2>3, <1>0, SlotEnds DEF Old
  <2>5. RunningTrue(wInside', wRunning')
    BY <2>1, <1>0, <1>5, Unregistered
  <2>6. DrainTrue'
    BY <2>1, <2>4, <1>0, DrainUndisturbed
  <2> QED
    BY <2>1, <2>3, <2>4, <2>5, <2>6, <1>Q DEF New
<1>6. ASSUME \/ \E c \in Call : Worker!Refuse(c)
             \/ \E r \in Run : Worker!Cancel(r)
             \/ \E limit \in {Worker!max_concurrency, configured} : Worker!Register(limit)
             \/ UNCHANGED Worker!vars
      PROVE  WorkerInv'
  <2>1. /\ wValue' = wValue /\ wWaiters' = wWaiters /\ wGranted' = wGranted
        /\ wInside' = wInside /\ wActive' = wActive /\ wRunning' = wRunning /\ Control
    BY <1>6 DEF Worker!Refuse, Worker!Cancel, Worker!Register, Worker!vars, Worker!semaphore, Worker!control
  <2>2. DrainTrue'
    BY <2>1, <1>0, DrainUndisturbed
  <2> QED
    BY <2>1, <2>2, <1>0, <1>Q DEF Old, New
<1>7. ASSUME \/ \E d \in Drains : Worker!DrainBegins(d) \/ Worker!DrainEnds(d)
             \/ Worker!ServerStops \/ Worker!ProcessCloses
      PROVE  WorkerInv'
  <2>1. /\ wValue' = wValue /\ wWaiters' = wWaiters /\ wGranted' = wGranted
        /\ wInside' = wInside /\ wActive' = wActive /\ wRunning' = wRunning
    BY <1>7 DEF Worker!DrainBegins, Worker!DrainEnds, Worker!ServerStops, Worker!ProcessCloses, Worker!semaphore
  <2>2. wActive = 0 => wInside = {}
    <3>1. IsFiniteSet(wInside) /\ wActive = Cardinality(wInside)
      BY <1>0 DEF Old, Slots
    <3> QED
      BY <3>1, FS_EmptySet
  <2>3. ASSUME NEW d \in Drains, Worker!DrainBegins(d) PROVE DrainTrue'
    <3>1. /\ wDraining' = TRUE /\ wListening' = wListening /\ wClosed' = wClosed
          /\ wQueued' = IF wDraining THEN wQueued ELSE Entries(wWaiters) \cup wGranted
          /\ wDrain' = [wDrain EXCEPT ![d] = IF wActive = 0 THEN "returned" ELSE "polling"]
      BY <2>3, <1>0 DEF Worker!DrainBegins
    <3>2. Entries(wWaiters') \cup wGranted' \subseteq wQueued'
      BY <3>1, <2>1, <1>0 DEF DrainTrue
    <3>3. ASSUME NEW e \in Drains, wDrain'[e] = "returned" PROVE wInside' \subseteq wQueued'
      <4>1. CASE e = d
        <5>1. wActive = 0
          BY <3>1, <3>3, <4>1, <1>0 DEF DrainTrue
        <5> QED
          BY <5>1, <2>1, <2>2
      <4>2. CASE e # d
        <5>1. wDrain[e] = "returned"
          BY <3>1, <3>3, <4>2, <1>0 DEF DrainTrue
        <5>2. wDraining /\ wInside \subseteq wQueued
          BY <5>1, <1>0 DEF DrainTrue
        <5> QED
          BY <5>2, <3>1, <2>1
      <4> QED
        BY <4>1, <4>2
    <3>4. wDrain' \in [Drains -> {"away", "polling", "returned", "timeout"}]
      BY <3>1, <1>0 DEF DrainTrue
    <3>5. wClosed' => ~wListening' /\ wInside' \cup wGranted' \cup Entries(wWaiters') = {}
      BY <3>1, <2>1, <1>C
    <3>6. wDraining' \in BOOLEAN /\ wListening' \in BOOLEAN /\ wClosed' \in BOOLEAN
      BY <3>1, <1>0 DEF DrainTrue
    <3> QED
      BY <3>1, <3>2, <3>3, <3>4, <3>5, <3>6 DEF DrainTrue
  <2>4. ASSUME NEW d \in Drains, Worker!DrainEnds(d) PROVE DrainTrue'
    <3>1. /\ wDraining' = wDraining /\ wListening' = wListening /\ wClosed' = wClosed
          /\ wQueued' = wQueued /\ wDrain[d] = "polling"
          /\ wDrain' = [wDrain EXCEPT ![d] = IF wActive = 0 THEN "returned" ELSE "timeout"]
      BY <2>4 DEF Worker!DrainEnds
    <3>2. wDraining
      BY <3>1, <1>0 DEF DrainTrue
    <3>3. ASSUME NEW e \in Drains, wDrain'[e] = "returned" PROVE wInside' \subseteq wQueued'
      <4>1. CASE e = d
        <5>1. wActive = 0
          BY <3>1, <3>3, <4>1, <1>0 DEF DrainTrue
        <5> QED
          BY <5>1, <2>1, <2>2
      <4>2. CASE e # d
        <5>1. wDrain[e] = "returned"
          BY <3>1, <3>3, <4>2, <1>0 DEF DrainTrue
        <5> QED
          BY <5>1, <3>1, <2>1, <1>0 DEF DrainTrue
      <4> QED
        BY <4>1, <4>2
    <3>4. wDrain' \in [Drains -> {"away", "polling", "returned", "timeout"}]
      BY <3>1, <1>0 DEF DrainTrue
    <3> QED
      BY <3>1, <3>2, <3>3, <3>4, <2>1, <1>0 DEF DrainTrue
  <2>5. ASSUME Worker!ServerStops PROVE DrainTrue'
    BY <2>1, <2>5, <1>0 DEF Worker!ServerStops, DrainTrue
  <2>6. ASSUME Worker!ProcessCloses PROVE DrainTrue'
    <3>1. /\ wDraining' = wDraining /\ wListening' = wListening /\ wClosed' = TRUE
          /\ wQueued' = wQueued /\ wDrain' = wDrain /\ ~wListening
          /\ wInside \cup wGranted \cup Entries(wWaiters) = {}
      BY <2>6, <1>0 DEF Worker!ProcessCloses
    <3> QED
      BY <3>1, <2>1, <1>0 DEF DrainTrue
  <2> QED
    BY <1>7, <2>1, <2>3, <2>4, <2>5, <2>6, <1>0, <1>Q DEF Old, New
<1> QED
  BY <1>1, <1>2, <1>3, <1>4, <1>5, <1>6, <1>7 DEF Worker!Next, Drains

\* The available slots that a heartbeat of the gRPC worker reports are the
\* permits that are left or on their way, and Cancel finds only calls that
\* execute, for any limits, calls and runs.
THEOREM PermitsAreSlots == Worker!Spec => []SlotsMatchPermits
<1>1. WorkerInv => SlotsMatchPermits
  <2> SUFFICES ASSUME WorkerInv PROVE SlotsMatchPermits
    OBVIOUS
  <2>1. /\ wValue \in Nat /\ IsFiniteSet(wGranted) /\ IsFiniteSet(wInside)
        /\ wActive = Cardinality(wInside)
        /\ wValue + Cardinality(wGranted) + wActive = Limit
    BY DEF WorkerInv, Slots, Pool, Spare
  <2>2. Cardinality(wGranted) \in Nat /\ Cardinality(wInside) \in Nat /\ Limit \in Nat
    BY <2>1, FS_CardinalityType, LimitIsNatural
  <2>3. Limit - wActive = wValue + Cardinality(wGranted)
    BY <2>1, <2>2
  <2>4. \A r \in Run : wRunning[r] # NoCall => wRunning[r] \in wInside
    BY DEF WorkerInv, RunningTrue
  <2>5. Worker!HeartbeatAnswer = wValue + Worker!Cardinality(wGranted)
    BY <2>3, SameCount DEF Worker!HeartbeatAnswer, Limit
  <2>6. wActive = Worker!Cardinality(wInside)
    BY <2>1, SameCount
  <2> QED
    BY <2>4, <2>5, <2>6 DEF SlotsMatchPermits, Worker!SlotsMatchPermits
<1> QED
  BY <1>1, WorkerStart, WorkerStep, PTL DEF Worker!Spec

\* After a drain() of the gRPC worker has returned only calls that were
\* queued when draining began still execute, and none when the process has
\* closed what its calls use.
THEOREM DrainAdmitsNobodyNew == Worker!Spec => []DrainedAdmitsQueuedOnly
<1>1. WorkerInv => DrainedAdmitsQueuedOnly
  BY DEF WorkerInv, DrainTrue, DrainedAdmitsQueuedOnly, Worker!DrainedAdmitsQueuedOnly, Drains
<1> QED
  BY <1>1, WorkerStart, WorkerStep, PTL DEF Worker!Spec

\* What a step of the worker does to the queue of its semaphore.
LEMMA WorkerWakes ==
  WorkerInv /\ Awake(wValue, wWaiters, wGranted) /\ [Worker!Next]_(Worker!vars)
    => Awake(wValue', wWaiters', wGranted')
<1> SUFFICES ASSUME WorkerInv, Awake(wValue, wWaiters, wGranted), [Worker!Next]_(Worker!vars)
             PROVE  Awake(wValue', wWaiters', wGranted')
  OBVIOUS
<1>0. wValue \in Nat /\ wValue + 1 \in Nat /\ wWaiters \in Seq(Call)
  BY DEF WorkerInv, Slots, Pool
<1>1. ASSUME NEW c \in Call, Worker!Begin(c) \/ Worker!Queue(c) PROVE Awake(wValue', wWaiters', wGranted')
  BY <1>1 DEF Worker!Begin, Worker!Queue, Worker!AcquireNow, Worker!AcquireWait, Worker!Locked, Awake
<1>2. ASSUME NEW c \in Call, Worker!BeginAfterWait(c) PROVE Awake(wValue', wWaiters', wGranted')
  <2>1. Wakes(wValue, wWaiters, wGranted \ {c}, wValue', wWaiters', wGranted')
    BY <1>2 DEF Worker!BeginAfterWait, Worker!AcquireResumes, Worker!WakeLoop, Wakes, Woken, Remaining, First
  <2> QED
    BY <1>0, <2>1, WakingIsEnough
<1>3. ASSUME NEW c \in Call, Worker!Abandon(c) PROVE Awake(wValue', wWaiters', wGranted')
  <2>1. CASE Worker!WakeLoop(wValue + 1, wWaiters, wGranted \ {c})
    <3>1. Wakes(wValue + 1, wWaiters, wGranted \ {c}, wValue', wWaiters', wGranted')
      BY <2>1 DEF Worker!WakeLoop, Wakes, Woken, Remaining, First
    <3> QED
      BY <1>0, <3>1, WakingIsEnough
  <2>2. ASSUME NEW i \in 1..Len(wWaiters), Worker!WakeLoop(wValue, Worker!Without(i), wGranted)
        PROVE  Awake(wValue', wWaiters', wGranted')
    <3>1. Wakes(wValue, WithoutAt(wWaiters, i), wGranted, wValue', wWaiters', wGranted')
      BY <2>2 DEF Worker!WakeLoop, Wakes, Woken, Remaining, First, Worker!Without, WithoutAt
    <3>2. WithoutAt(wWaiters, i) \in Seq(Call)
      <4>1. Pool(Call, wValue, wWaiters, wGranted)
        BY DEF WorkerInv, Slots
      <4>2. Pool(Call, wValue, WithoutAt(wWaiters, i), wGranted)
        BY <2>2, <4>1, LeavingTheQueue
      <4> QED
        BY <4>2 DEF Pool
    <3> QED
      BY <1>0, <3>1, <3>2, WakingIsEnough
  <2> QED
    BY <1>3, <2>1, <2>2 DEF Worker!Abandon, Worker!AcquireCancelled
<1>4. ASSUME NEW c \in Call, Worker!End(c) PROVE Awake(wValue', wWaiters', wGranted')
  <2>1. CASE wActive > 0
    <3>1. Releases(wValue, wWaiters, wGranted, wValue', wWaiters', wGranted')
      BY <1>4, <2>1 DEF Worker!End, Worker!Release, Releases
    <3> QED
      BY <3>1, ReleasingIsEnough
  <2>2. CASE ~(wActive > 0)
    BY <1>4, <2>2 DEF Worker!End, Worker!semaphore
  <2> QED
    BY <2>1, <2>2
<1>5. ASSUME \/ \E c \in Call : Worker!Refuse(c)
             \/ \E r \in Run : Worker!Cancel(r)
             \/ \E limit \in {Worker!max_concurrency, configured} : Worker!Register(limit)
             \/ \E d \in {"request", "stop"} : Worker!DrainBegins(d) \/ Worker!DrainEnds(d)
             \/ Worker!ServerStops \/ Worker!ProcessCloses \/ UNCHANGED Worker!vars
      PROVE  Awake(wValue', wWaiters', wGranted')
  <2>1. wValue' = wValue /\ wWaiters' = wWaiters /\ wGranted' = wGranted
    BY <1>5 DEF Worker!Refuse, Worker!Cancel, Worker!Register, Worker!DrainBegins, Worker!DrainEnds,
       Worker!ServerStops, Worker!ProcessCloses, Worker!vars, Worker!semaphore
  <2> QED
    BY <2>1
<1> QED
  BY <1>1, <1>2, <1>3, <1>4, <1>5 DEF Worker!Next

\* A call is queued on the worker's semaphore only while every slot executes
\* a call or a permit is on its way to one, whoever abandons the queue.
NoCallForgotten == wWaiters # <<>> => wGranted # {} \/ Cardinality(wInside) = Limit

\* The gRPC worker leaves no slot empty that a queued call could have, for
\* any limits, calls and runs.
THEOREM NoSlotWasted == Worker!Spec => []NoCallForgotten
<1>1. Worker!Init => Awake(wValue, wWaiters, wGranted)
  BY DEF Worker!Init, Worker!SemaphoreInit, Awake
<1>2. WorkerInv /\ Awake(wValue, wWaiters, wGranted) => NoCallForgotten
  <2> SUFFICES ASSUME WorkerInv, Awake(wValue, wWaiters, wGranted), wWaiters # <<>>, wGranted = {}
               PROVE  Cardinality(wInside) = Limit
    BY DEF NoCallForgotten
  <2>1. wValue = 0 /\ wValue + Cardinality(wGranted) + Cardinality(wInside) = Limit
        /\ IsFiniteSet(wInside)
    BY DEF WorkerInv, Slots, Spare, Awake
  <2>2. Cardinality(wGranted) = 0 /\ Cardinality(wInside) \in Nat
    BY <2>1, FS_EmptySet, FS_CardinalityType
  <2> QED
    BY <2>1, <2>2
<1>3. Awake(wValue, wWaiters, wGranted)' <=> Awake(wValue', wWaiters', wGranted')
  BY DEF Awake
<1> QED
  BY <1>1, <1>2, <1>3, WorkerStart, WorkerStep, WorkerWakes, PTL DEF Worker!Spec
=============================================================================
