----------------------------- MODULE QueuesProofs -----------------------------
(***************************************************************************)
(* Proofs about the command queues: a command is in one place at a time,   *)
(* and is delivered a bounded number of times.                             *)
(***************************************************************************)
EXTENDS MCSlots, FiniteSetTheorems, SequenceTheorems, WellFoundedInduction, TLAPS

-----------------------------------------------------------------------------
(* The operators of the model *)

\* A set of places has a first one.
LEMMA FirstPlace ==
  ASSUME NEW T \in SUBSET Nat, T # {}
  PROVE  Queues!Min(T) \in T
<1>1. \E x \in T : \A y \in T : ~ (<<y, x>> \in OpToRel(<, Nat))
  BY NatLessThanWellFounded, WFMin
<1>2. \A x, y \in T : ~ (<<y, x>> \in OpToRel(<, Nat)) => x <= y
  BY DEF OpToRel
<1>3. \E x \in T : \A y \in T : x <= y
  BY <1>1, <1>2
<1> QED
  BY <1>3 DEF Queues!Min

\* The highest of the priorities of some commands is the one of a command.
LEMMA HighestIsSome ==
  ASSUME NEW T \in SUBSET {10, 50, 100}, T # {}
  PROVE  Queues!Max(T) \in T
<1>1. \E x \in T : \A y \in T : x >= y
  <2>1. CASE 100 \in T
    BY <2>1
  <2>2. CASE 100 \notin T /\ 50 \in T
    BY <2>2
  <2>3. CASE 100 \notin T /\ 50 \notin T
    <3>1. \A y \in T : y = 10
      BY <2>3
    <3>2. 10 \in T
      BY <3>1
    <3> QED
      BY <3>1, <3>2
  <2> QED
    BY <2>1, <2>2, <2>3
<1> QED
  BY <1>1 DEF Queues!Max

\* RemoveAt takes the entry at one place away and keeps the others.
LEMMA RemovedAt ==
  ASSUME NEW S, NEW s \in Seq(S), NEW i \in 1..Len(s), NEW u, u = Queues!RemoveAt(s, i)
  PROVE  /\ u \in Seq(S) /\ Len(u) = Len(s) - 1
         /\ \A j \in 1..(Len(s) - 1) : u[j] = IF j < i THEN s[j] ELSE s[j + 1]
<1> DEFINE a == SubSeq(s, 1, i - 1)
           b == SubSeq(s, i + 1, Len(s))
<1>0. Len(s) \in Nat /\ i \in Int /\ i - 1 \in Int /\ i + 1 \in Int /\ 1 <= i /\ i <= Len(s)
  OBVIOUS
<1>1. /\ a \in Seq(S) /\ Len(a) = i - 1
      /\ \A j \in 1..(i - 1) : a[j] = s[j]
  <2>1. \A j \in 1..(i - 1) : s[j] \in S
    BY <1>0
  <2>2. /\ SubSeq(s, 1, i - 1) \in Seq(S)
        /\ Len(SubSeq(s, 1, i - 1)) = IF 1 <= i - 1 THEN (i - 1) - 1 + 1 ELSE 0
        /\ \A j \in 1..((i - 1) - 1 + 1) : SubSeq(s, 1, i - 1)[j] = s[1 + j - 1]
    BY <2>1, <1>0, SubSeqProperties
  <2>3. (IF 1 <= i - 1 THEN (i - 1) - 1 + 1 ELSE 0) = i - 1
    BY <1>0
  <2> QED
    BY <2>2, <2>3, <1>0
<1>2. /\ b \in Seq(S) /\ Len(b) = Len(s) - i
      /\ \A j \in 1..(Len(s) - i) : b[j] = s[i + j]
  <2>1. \A j \in (i + 1)..Len(s) : s[j] \in S
    BY <1>0
  <2>2. /\ SubSeq(s, i + 1, Len(s)) \in Seq(S)
        /\ Len(SubSeq(s, i + 1, Len(s))) = IF i + 1 <= Len(s) THEN Len(s) - (i + 1) + 1 ELSE 0
        /\ \A j \in 1..(Len(s) - (i + 1) + 1) : SubSeq(s, i + 1, Len(s))[j] = s[i + 1 + j - 1]
    BY <2>1, <1>0, SubSeqProperties
  <2>3. (IF i + 1 <= Len(s) THEN Len(s) - (i + 1) + 1 ELSE 0) = Len(s) - i
    BY <1>0
  <2> QED
    BY <2>2, <2>3, <1>0
<1>3. u = a \o b
  BY DEF Queues!RemoveAt
<1> HIDE DEF a, b
<1>4. /\ a \o b \in Seq(S)
      /\ Len(a \o b) = Len(a) + Len(b)
      /\ \A j \in 1..(Len(a) + Len(b)) : (a \o b)[j] = IF j <= Len(a) THEN a[j] ELSE b[j - Len(a)]
  BY <1>1, <1>2, ConcatProperties
<1>5. u \in Seq(S) /\ Len(u) = Len(s) - 1
  BY <1>0, <1>1, <1>2, <1>3, <1>4
<1>6. ASSUME NEW j \in 1..(Len(s) - 1) PROVE u[j] = IF j < i THEN s[j] ELSE s[j + 1]
  <2>1. u[j] = IF j <= i - 1 THEN a[j] ELSE b[j - (i - 1)]
    BY <1>0, <1>1, <1>2, <1>3, <1>4
  <2>2. CASE j < i
    BY <2>1, <2>2, <1>0, <1>1
  <2>3. CASE ~(j < i)
    <3>1. j - (i - 1) \in 1..(Len(s) - i) /\ i + (j - (i - 1)) = j + 1
      BY <2>3, <1>0
    <3>2. b[j - (i - 1)] = s[j + 1]
      BY <3>1, <1>2
    <3> QED
      BY <2>1, <2>3, <3>2, <1>0
  <2> QED
    BY <2>2, <2>3
<1> QED
  BY <1>5, <1>6

-----------------------------------------------------------------------------
(* What receive() selects is queued *)

Commands == Queues!Commands
Entry == [command : Commands, count : Nat]

\* The heap, the dispatcher and the topics each offer a queued command.
LEMMA SelectedIsQueued ==
  ASSUME items \in Seq(Entry), items # <<>>, queue \in {"dispatcher", "priority", "kafka"}
  PROVE  Queues!Selected \subseteq 1..Len(items)
<1>0. Len(items) \in Nat /\ DOMAIN items = 1..Len(items) /\ 1 \in DOMAIN items
  OBVIOUS
<1>1. ASSUME NEW T \in SUBSET (DOMAIN items), T # {} PROVE Queues!Min(T) \in 1..Len(items)
  <2>1. T \in SUBSET Nat
    BY <1>0
  <2> QED
    BY <1>0, <1>1, <2>1, FirstPlace
<1> DEFINE top == {i \in DOMAIN items : Queues!Priority(items[i].command) = Queues!Highest}
<1>2. top # {}
  <2> DEFINE ps == {Queues!Priority(c) : c \in Queues!Queued}
  <2>1. ps \in SUBSET {10, 50, 100}
    BY DEF Queues!Priority
  <2>2. ps # {}
    BY <1>0 DEF Queues!Queued
  <2>3. Queues!Highest = Queues!Max(ps)
    BY DEF Queues!Highest
  <2> HIDE DEF ps
  <2>4. Queues!Highest \in ps
    BY <2>1, <2>2, <2>3, HighestIsSome
  <2> QED
    BY <2>4 DEF ps, Queues!Queued
<1>3. Queues!Top = Queues!Min(top)
  BY DEF Queues!Top, Queues!Places
<1>4. top \in SUBSET (DOMAIN items)
  OBVIOUS
<1> HIDE DEF top
<1>5. Queues!Top \in 1..Len(items)
  BY <1>1, <1>2, <1>3, <1>4
<1>6. Queues!Chosen \in 1..Len(items)
  <2> DEFINE turn == <<100, 50, 10>>[cursor + 1]
             old  == {i \in DOMAIN items : items[i].command \in Queues!Aged}
             fair == {i \in DOMAIN items : Queues!Priority(items[i].command) = turn}
  <2>1. Queues!Chosen = IF old # {} THEN Queues!Min(old)
                        ELSE IF fair # {} THEN Queues!Min(fair) ELSE Queues!Min(top)
    BY DEF Queues!Chosen, Queues!Places, top
  <2>2. old \in SUBSET (DOMAIN items) /\ fair \in SUBSET (DOMAIN items)
    OBVIOUS
  <2> HIDE DEF old, fair
  <2> QED
    BY <2>1, <2>2, <1>1, <1>2, <1>4
<1>7. Queues!Offered \subseteq 1..Len(items)
  <2> SUFFICES ASSUME NEW i \in Queues!Offered PROVE i \in 1..Len(items)
    OBVIOUS
  <2>1. PICK topic \in {Queues!Topic(c) : c \in Queues!Queued} :
          i = Queues!Min({j \in DOMAIN items : Queues!Topic(items[j].command) = topic})
    BY DEF Queues!Offered, Queues!Places
  <2> DEFINE T == {j \in DOMAIN items : Queues!Topic(items[j].command) = topic}
  <2>2. T # {} /\ T \in SUBSET (DOMAIN items)
    BY DEF Queues!Queued
  <2> HIDE DEF T
  <2>3. Queues!Min(T) \in 1..Len(items)
    BY <2>2, <1>1
  <2> QED
    BY <2>1, <2>3 DEF T
<1> QED
  BY <1>5, <1>6, <1>7 DEF Queues!Selected

-----------------------------------------------------------------------------
(* The inductive invariant *)

Bound == IF queue = "priority" THEN 4 ELSE 3

TypeOfQueues ==
  /\ queue \in {"dispatcher", "priority", "kafka"}
  /\ items \in Seq(Entry)
  /\ leases \in SUBSET Entry /\ IsFiniteSet(leases)
  /\ dead \in SUBSET Commands
  /\ tries \in [Commands -> Nat]

\* No two entries for one command, and nothing in two places.
OnePlace ==
  /\ \A i, j \in DOMAIN items : items[i].command = items[j].command => i = j
  /\ \A l, m \in leases : l.command = m.command => l = m
  /\ \A i \in DOMAIN items, l \in leases : items[i].command # l.command
  /\ \A i \in DOMAIN items : items[i].command \notin dead
  /\ \A l \in leases : l.command \notin dead

\* The count an entry carries is the number of deliveries so far.
CountsTrue ==
  /\ \A i \in DOMAIN items : tries[items[i].command] = items[i].count /\ items[i].count < Bound
  /\ \A l \in leases : tries[l.command] = l.count
  /\ \A c \in Commands : tries[c] <= Bound

QueuesInv == TypeOfQueues /\ OnePlace /\ CountsTrue

\* Empty queues.
LEMMA QueuesStart == Queues!Init => QueuesInv
<1> SUFFICES ASSUME Queues!Init PROVE QueuesInv
  OBVIOUS
<1>1. /\ queue \in {"dispatcher", "priority", "kafka"}
      /\ items = <<>> /\ leases = {} /\ dead = {} /\ tries = [c \in Commands |-> 0]
  BY DEF Queues!Init, Commands
<1>2. TypeOfQueues
  BY <1>1, FS_EmptySet DEF TypeOfQueues
<1>3. OnePlace /\ CountsTrue
  BY <1>1 DEF OnePlace, CountsTrue, Bound
<1> QED
  BY <1>2, <1>3 DEF QueuesInv

\* An entry goes to the end of the queue, for a command in no other place.
LEMMA EntryAdded ==
  ASSUME TypeOfQueues, OnePlace, CountsTrue,
         NEW e \in Entry, items' = Append(items, e), queue' = queue,
         leases' \in SUBSET leases, dead' = dead,
         \A i \in DOMAIN items : items[i].command # e.command,
         \A l \in leases' : l.command # e.command,
         e.command \notin dead,
         tries' = [tries EXCEPT ![e.command] = e.count], e.count < Bound
  PROVE  QueuesInv'
<1>1. /\ Len(items) \in Nat /\ DOMAIN items = 1..Len(items)
      /\ items' \in Seq(Entry) /\ DOMAIN items' = 1..(Len(items) + 1)
      /\ \A j \in 1..Len(items) : items'[j] = items[j]
      /\ items'[Len(items) + 1] = e
  BY DEF TypeOfQueues
<1>2. \A j \in DOMAIN items' :
        \/ j \in DOMAIN items /\ items'[j] = items[j]
        \/ j = Len(items) + 1 /\ items'[j] = e
  BY <1>1
<1>3. IsFiniteSet(leases')
  BY FS_Subset DEF TypeOfQueues
<1>4. Bound' = Bound /\ Bound \in Nat
  BY DEF Bound
<1>5. e.command \in Commands /\ e.count \in Nat
  BY DEF Entry
<1>6. TypeOfQueues'
  BY <1>1, <1>3, <1>5 DEF TypeOfQueues
<1>7. OnePlace'
  <2>1. \A i, j \in DOMAIN items' : items'[i].command = items'[j].command => i = j
    BY <1>2 DEF OnePlace
  <2>2. \A l, m \in leases' : l.command = m.command => l = m
    BY DEF OnePlace
  <2>3. \A i \in DOMAIN items', l \in leases' : items'[i].command # l.command
    BY <1>2 DEF OnePlace
  <2>4. \A i \in DOMAIN items' : items'[i].command \notin dead'
    BY <1>2 DEF OnePlace
  <2>5. \A l \in leases' : l.command \notin dead'
    BY DEF OnePlace
  <2> QED
    BY <2>1, <2>2, <2>3, <2>4, <2>5 DEF OnePlace
<1>8. CountsTrue'
  <2>1. \A c \in Commands : tries'[c] = IF c = e.command THEN e.count ELSE tries[c]
    BY <1>5 DEF TypeOfQueues
  <2>2. \A c \in Commands : tries'[c] <= Bound
    BY <2>1, <1>4, <1>5 DEF CountsTrue
  <2>3. \A l \in leases' : tries'[l.command] = l.count
    BY <2>1 DEF CountsTrue, TypeOfQueues, Entry
  <2>4. ASSUME NEW i \in DOMAIN items'
        PROVE  tries'[items'[i].command] = items'[i].count /\ items'[i].count < Bound
    <3>1. CASE i \in DOMAIN items /\ items'[i] = items[i]
      <4>1. items[i].command \in Commands /\ items[i].command # e.command
        <5>1. items[i] \in Entry
          BY <3>1, <1>1 DEF TypeOfQueues
        <5> QED
          BY <5>1, <3>1 DEF Entry
      <4> QED
        BY <3>1, <4>1, <2>1 DEF CountsTrue
    <3>2. CASE items'[i] = e
      BY <3>2, <2>1, <1>5
    <3> QED
      BY <3>1, <3>2, <1>2
  <2> QED
    BY <2>2, <2>3, <2>4, <1>4 DEF CountsTrue
<1> QED
  BY <1>6, <1>7, <1>8 DEF QueuesInv

\* A lease leaves, and its command may become a dead letter.
LEMMA LeaseGone ==
  ASSUME TypeOfQueues, OnePlace, CountsTrue, NEW l \in leases,
         items' = items, queue' = queue, leases' = leases \ {l}, tries' = tries,
         dead' \in {dead, dead \cup {l.command}}
  PROVE  QueuesInv'
<1>1. l.command \in Commands
  BY DEF TypeOfQueues, Entry
<1>2. IsFiniteSet(leases')
  BY FS_RemoveElement DEF TypeOfQueues
<1>3. TypeOfQueues'
  BY <1>1, <1>2 DEF TypeOfQueues
<1>4. OnePlace'
  <2>1. \A i \in DOMAIN items' : items'[i].command \notin dead'
    BY DEF OnePlace
  <2>2. \A m \in leases' : m.command \notin dead'
    BY DEF OnePlace
  <2> QED
    BY <2>1, <2>2 DEF OnePlace
<1>5. CountsTrue'
  BY DEF CountsTrue, Bound
<1> QED
  BY <1>3, <1>4, <1>5 DEF QueuesInv

\* receive() takes the entry away and leases its command, counting one
\* delivery more.
LEMMA EntryLeased ==
  ASSUME TypeOfQueues, OnePlace, CountsTrue, NEW i \in 1..Len(items),
         NEW c, c = items[i].command,
         items' = Queues!RemoveAt(items, i), queue' = queue, dead' = dead,
         leases' = leases \cup {[command |-> c, count |-> items[i].count + 1]},
         tries' = [tries EXCEPT ![c] = @ + 1]
  PROVE  QueuesInv'
<1> DEFINE at(j) == IF j < i THEN j ELSE j + 1
           new == [command |-> c, count |-> items[i].count + 1]
<1>0. Len(items) \in Nat /\ DOMAIN items = 1..Len(items) /\ i \in DOMAIN items
  BY DEF TypeOfQueues
<1>1. items[i] \in Entry
  BY <1>0 DEF TypeOfQueues
<1>2. c \in Commands /\ items[i].count \in Nat /\ new \in Entry /\ new.command = c /\ new.count = items[i].count + 1
  BY <1>1 DEF Entry
<1>3. /\ items' \in Seq(Entry) /\ Len(items') = Len(items) - 1
      /\ \A j \in 1..(Len(items) - 1) : items'[j] = IF j < i THEN items[j] ELSE items[j + 1]
  <2>1. items \in Seq(Entry)
    BY DEF TypeOfQueues
  <2> QED
    BY <2>1, RemovedAt
<1>4. DOMAIN items' = 1..(Len(items) - 1)
  BY <1>3
<1>5. \A j \in DOMAIN items' : at(j) \in DOMAIN items /\ at(j) # i /\ items'[j] = items[at(j)]
  BY <1>0, <1>3, <1>4
<1>6. \A j, k \in DOMAIN items' : at(j) = at(k) => j = k
  BY <1>0, <1>4
<1>7. \A j \in DOMAIN items' : items'[j].command # c
  BY <1>0, <1>5 DEF OnePlace
<1>8. IsFiniteSet(leases')
  BY FS_AddElement DEF TypeOfQueues
<1> HIDE DEF at, new
<1>9. leases' = leases \cup {new}
  BY DEF new
<1>10. TypeOfQueues'
  BY <1>2, <1>3, <1>8, <1>9 DEF TypeOfQueues
<1>11. \A l \in leases : l.command # c
  BY <1>0 DEF OnePlace
<1>12. OnePlace'
  <2>1. \A j, k \in DOMAIN items' : items'[j].command = items'[k].command => j = k
    BY <1>5, <1>6 DEF OnePlace
  <2>2. \A l, m \in leases' : l.command = m.command => l = m
    BY <1>2, <1>9, <1>11 DEF OnePlace
  <2>3. \A j \in DOMAIN items', l \in leases' : items'[j].command # l.command
    BY <1>2, <1>5, <1>7, <1>9 DEF OnePlace
  <2>4. \A j \in DOMAIN items' : items'[j].command \notin dead'
    BY <1>5 DEF OnePlace
  <2>5. \A l \in leases' : l.command \notin dead'
    BY <1>0, <1>2, <1>9 DEF OnePlace
  <2> QED
    BY <2>1, <2>2, <2>3, <2>4, <2>5 DEF OnePlace
<1>13. CountsTrue'
  <2>1. \A x \in Commands : tries'[x] = IF x = c THEN tries[c] + 1 ELSE tries[x]
    BY <1>2 DEF TypeOfQueues
  <2>2. tries[c] = items[i].count /\ items[i].count < Bound /\ Bound \in Nat /\ Bound' = Bound
    BY <1>0 DEF CountsTrue, Bound
  <2>3. \A x \in Commands : tries'[x] <= Bound
    BY <2>1, <2>2, <1>2 DEF CountsTrue
  <2>4. \A l \in leases' : tries'[l.command] = l.count
    <3>1. \A l \in leases : tries'[l.command] = l.count
      BY <2>1, <1>11 DEF CountsTrue, TypeOfQueues, Entry
    <3> QED
      BY <3>1, <2>1, <2>2, <1>2, <1>9
  <2>5. ASSUME NEW j \in DOMAIN items'
        PROVE  tries'[items'[j].command] = items'[j].count /\ items'[j].count < Bound
    <3>1. items'[j] = items[at(j)] /\ at(j) \in DOMAIN items /\ items'[j].command # c
      BY <1>5, <1>7
    <3>2. items[at(j)] \in Entry
      BY <3>1, <1>0 DEF TypeOfQueues
    <3>3. items'[j].command \in Commands
      BY <3>1, <3>2 DEF Entry
    <3> QED
      BY <3>1, <3>3, <2>1 DEF CountsTrue
  <2> QED
    BY <2>2, <2>3, <2>4, <2>5 DEF CountsTrue
<1> QED
  BY <1>10, <1>12, <1>13 DEF QueuesInv

\* Every operation of the three queues keeps the invariant.
LEMMA QueuesStep == QueuesInv /\ [Queues!Next]_(Queues!vars) => QueuesInv'
<1> SUFFICES ASSUME QueuesInv, [Queues!Next]_(Queues!vars) PROVE QueuesInv'
  OBVIOUS
<1>0. TypeOfQueues /\ OnePlace /\ CountsTrue
  BY DEF QueuesInv
<1>1. ASSUME NEW c \in Commands, Queues!Publish(c) PROVE QueuesInv'
  <2> DEFINE e == [command |-> c, count |-> 0]
  <2>1. /\ items' = Append(items, e) /\ queue' = queue /\ leases' = leases /\ dead' = dead
        /\ tries' = [tries EXCEPT ![c] = 0]
        /\ c \notin Queues!Queued /\ c \notin Queues!Leased /\ c \notin dead
    BY <1>1 DEF Queues!Publish, Queues!Added
  <2>2. e \in Entry /\ e.command = c /\ e.count = 0
    BY DEF Entry
  <2> HIDE DEF e
  <2>3. \A i \in DOMAIN items : items[i].command # e.command
    BY <2>1, <2>2 DEF Queues!Queued
  <2>4. \A l \in leases' : l.command # e.command
    BY <2>1, <2>2 DEF Queues!Leased
  <2>5. e.count < Bound
    BY <2>2 DEF Bound
  <2> QED
    BY <1>0, <2>1, <2>2, <2>3, <2>4, <2>5, EntryAdded
<1>2. ASSUME Queues!Receive PROVE QueuesInv'
  <2>1. items # <<>> /\ queue' = queue /\ dead' = dead
    BY <1>2 DEF Queues!Receive
  <2>2. PICK i \in Queues!Selected :
          /\ items' = Queues!RemoveAt(items, i)
          /\ leases' = leases \cup {[command |-> items[i].command, count |-> items[i].count + 1]}
          /\ tries' = [tries EXCEPT ![items[i].command] = @ + 1]
    BY <1>2 DEF Queues!Receive
  <2>3. i \in 1..Len(items)
    BY <2>1, <1>0, SelectedIsQueued DEF TypeOfQueues
  <2> QED
    BY <1>0, <2>1, <2>2, <2>3, EntryLeased
<1>3. ASSUME NEW l \in leases, Queues!Acknowledge(l) \/ Queues!RejectForGood(l) PROVE QueuesInv'
  <2>1. /\ items' = items /\ queue' = queue /\ leases' = leases \ {l} /\ tries' = tries
        /\ dead' \in {dead, dead \cup {l.command}}
    BY <1>3 DEF Queues!Acknowledge, Queues!RejectForGood, Queues!Dropped
  <2> QED
    BY <1>0, <2>1, LeaseGone
<1>4. ASSUME NEW l \in leases, Queues!RejectRetryable(l) PROVE QueuesInv'
  <2>1. queue' = queue /\ leases' = leases \ {l} /\ tries' = tries
    BY <1>4 DEF Queues!RejectRetryable
  <2>2. CASE Queues!Retries(l)
    <3> DEFINE e == [command |-> l.command, count |-> l.count]
    <3>1. l \in Entry /\ l.command \in Commands /\ l.count \in Nat
      BY <1>0 DEF TypeOfQueues, Entry
    <3>2. items' = Append(items, e) /\ dead' = dead
      BY <1>4, <2>2 DEF Queues!RejectRetryable, Queues!Added
    <3>3. e \in Entry /\ e.command = l.command /\ e.count = l.count
      BY <3>1 DEF Entry
    <3> HIDE DEF e
    <3>4. \A i \in DOMAIN items : items[i].command # e.command
      BY <3>3, <1>0 DEF OnePlace
    <3>5. \A m \in leases' : m.command # e.command
      BY <2>1, <3>3, <1>0 DEF OnePlace
    <3>6. e.command \notin dead
      BY <3>3, <1>0 DEF OnePlace
    <3>7. tries' = [tries EXCEPT ![e.command] = e.count]
      BY <2>1, <3>1, <3>3, <1>0 DEF CountsTrue, TypeOfQueues
    <3>8. e.count < Bound
      BY <2>2, <3>1, <3>3 DEF Queues!Retries, Bound
    <3>9. leases' \in SUBSET leases
      BY <2>1
    <3> QED
      BY <1>0, <2>1, <3>2, <3>3, <3>4, <3>5, <3>6, <3>7, <3>8, <3>9, EntryAdded
  <2>3. CASE ~Queues!Retries(l)
    <3>1. items' = items /\ dead' \in {dead, dead \cup {l.command}}
      BY <1>4, <2>3 DEF Queues!RejectRetryable, Queues!Dropped
    <3> QED
      BY <1>0, <2>1, <3>1, LeaseGone
  <2> QED
    BY <2>2, <2>3
<1>5. ASSUME Queues!Ages \/ UNCHANGED Queues!vars PROVE QueuesInv'
  <2>1. UNCHANGED <<queue, items, leases, dead, tries>>
    BY <1>5 DEF Queues!Ages, Queues!vars
  <2> QED
    BY <1>0, <2>1 DEF QueuesInv, TypeOfQueues, OnePlace, CountsTrue, Bound, Entry
<1> QED
  BY <1>1, <1>2, <1>3, <1>4, <1>5 DEF Queues!Next, Commands

\* The instance counts as this module does.
LEMMA SameCount == ASSUME NEW S PROVE Queues!Cardinality(S) = Cardinality(S)
BY DEF Queues!Cardinality, Cardinality

\* A command is in one place of its queue at a time and is delivered at most
\* three times, four by the in-memory priority queue, whatever the commands,
\* their priorities and the order of deliveries, rejections and ageing.
THEOREM DeliveriesAreBounded == Queues!Spec => []DeliveriesBounded
<1>1. QueuesInv => DeliveriesBounded
  <2> SUFFICES ASSUME QueuesInv PROVE DeliveriesBounded
    OBVIOUS
  <2>0. TypeOfQueues /\ OnePlace /\ CountsTrue
    BY DEF QueuesInv
  <2>1. Queues!Queued \cap Queues!Leased = {} /\ (Queues!Queued \cup Queues!Leased) \cap dead = {}
    BY <2>0 DEF OnePlace, Queues!Queued, Queues!Leased
  <2>2. Queues!Cardinality(Queues!Queued) = Len(items)
    <3> DEFINE f == [i \in 1..Len(items) |-> items[i].command]
               Q == Queues!Queued
    <3>1. Len(items) \in Nat /\ DOMAIN items = 1..Len(items)
      BY <2>0 DEF TypeOfQueues
    <3>2. f \in [1..Len(items) -> Q]
      BY <3>1 DEF Queues!Queued
    <3>3. \A i, j \in 1..Len(items) : f[i] = f[j] => i = j
      BY <3>1, <2>0 DEF OnePlace
    <3>4. \A c \in Q : \E i \in 1..Len(items) : f[i] = c
      BY <3>1 DEF Queues!Queued
    <3> HIDE DEF f, Q
    <3>5. f \in Bijection(1..Len(items), Q)
      BY <3>2, <3>3, <3>4 DEF Bijection, Injection, IsInjective, Surjection
    <3>6. ExistsBijection(1..Len(items), Q)
      BY <3>5 DEF ExistsBijection
    <3>7. Cardinality(Q) = Len(items)
      BY <3>1, <3>6, FS_CountingElements
    <3> QED
      BY <3>7, SameCount DEF Q
  <2>3. Queues!Cardinality(Queues!Leased) = Queues!Cardinality(leases)
    <3> DEFINE f == [l \in leases |-> l.command]
               L == Queues!Leased
    <3>1. f \in [leases -> L]
      BY DEF Queues!Leased
    <3>2. \A l, m \in leases : f[l] = f[m] => l = m
      BY <2>0 DEF OnePlace
    <3>3. \A c \in L : \E l \in leases : f[l] = c
      BY DEF Queues!Leased
    <3> HIDE DEF f, L
    <3>4. f \in Bijection(leases, L)
      BY <3>1, <3>2, <3>3 DEF Bijection, Injection, IsInjective, Surjection
    <3>5. ExistsBijection(leases, L) /\ IsFiniteSet(leases)
      BY <3>4, <2>0 DEF ExistsBijection, TypeOfQueues
    <3>6. Cardinality(L) = Cardinality(leases)
      BY <3>5, FS_Bijection
    <3> QED
      BY <3>6, SameCount DEF L
  <2>4. \A c \in Queues!Commands : tries[c] <= IF queue = "priority" THEN 4 ELSE 3
    BY <2>0 DEF CountsTrue, Bound, Commands
  <2> QED
    BY <2>1, <2>2, <2>3, <2>4 DEF DeliveriesBounded, Queues!DeliveriesBounded
<1> QED
  BY <1>1, QueuesStart, QueuesStep, PTL DEF Queues!Spec
=============================================================================
