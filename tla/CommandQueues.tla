---------------------------- MODULE CommandQueues ----------------------------
(***************************************************************************)
(* The run command queues.  KafkaRunCommandQueue with its                  *)
(* WeightedFairDispatcher and InMemoryPriorityQueue keep their commands in *)
(* the process; AioKafkaRunCommandQueue keeps them in two topics, here of  *)
(* one partition and with one consumer (ProductionWorker has its offsets   *)
(* and its restarts).  Producers publish without end: a command that has   *)
(* left the queue for good stands for a fresh one when it is published     *)
(* again.  Workers lease commands and acknowledge or reject them, or keep  *)
(* a lease for ever, which no queue takes back.                            *)
(***************************************************************************)
EXTENDS Integers, Sequences, SequencesExt, FiniteSetsExt

CONSTANTS
    Interactive, Normal, Batch  \* commands of priority 100, 50 and 10, disjoint

VARIABLES
    queue,      \* "dispatcher", "priority" or "kafka"
    items,      \* queued commands with their delivery count, oldest first
    cursor,     \* _cursor of the dispatcher, modulo 3
    created,    \* commands that are queued or leased, by created_at
    aged,       \* how many of them were created more than age_after ago
    leases,     \* leased commands with their delivery count
    dead,       \* dead_letters
    tries       \* ghost: deliveries of each command since it was published

vars == <<queue, items, cursor, created, aged, leases, dead, tries>>

Commands == Interactive \union Normal \union Batch
Priority(c) == IF c \in Interactive THEN 100 ELSE IF c \in Normal THEN 50 ELSE 10

-----------------------------------------------------------------------------
Init ==
    /\ queue \in {"dispatcher", "priority", "kafka"}
    /\ items = <<>>
    /\ cursor = 0
    /\ created = <<>>
    /\ aged = 0
    /\ leases = {}
    /\ dead = {}
    /\ tries = [c \in Commands |-> 0]

Queued == {items[i].command : i \in DOMAIN items}
Leased == {l.command : l \in leases}

\* add(): the sequence number is the place in the list.
Added(c, count) == items' = Append(items, [command |-> c, count |-> count])

Publish(c) ==
    /\ c \notin Queued \union Leased \union dead
    /\ Added(c, 0)
    /\ created' = Append(created, c)
    /\ tries' = [tries EXCEPT ![c] = 0]
    /\ UNCHANGED <<queue, cursor, aged, leases, dead>>

\* Time passes: the oldest of the younger commands reaches age_after.
Ages ==
    /\ queue = "dispatcher"
    /\ aged < Len(created)
    /\ aged' = aged + 1
    /\ UNCHANGED <<queue, items, cursor, created, leases, dead, tries>>

Aged == ToSet(SubSeq(created, 1, aged))

\* A command leaves for good.
Gone(c) ==
    /\ created' = Remove(created, c)
    /\ aged' = IF c \in Aged THEN aged - 1 ELSE aged

\* Positions of the queued commands that satisfy a condition.
Places(P(_)) == {i \in DOMAIN items : P(items[i].command)}
Highest == Max({Priority(c) : c \in Queued})

\* Mutant: the highest priority always goes first.
ChosenByPriority == Min(Places(LAMBDA c : Priority(c) = Highest))

\* choose(): the oldest aged command; else the oldest of the priority whose
\* turn it is; else the oldest of the highest priority.
Chosen ==
    LET turn == <<100, 50, 10>>[cursor + 1]
        old  == Places(LAMBDA c : c \in Aged)
        fair == Places(LAMBDA c : Priority(c) = turn)
    IN  IF old # {} THEN Min(old)
        ELSE IF fair # {} THEN Min(fair)
        ELSE Min(Places(LAMBDA c : Priority(c) = Highest))

\* The heap of InMemoryPriorityQueue: highest priority, then oldest.
Top == Min(Places(LAMBDA c : Priority(c) = Highest))

\* run_topic_for: "short_queue" or "long_queue".
Topic(c) == IF Priority(c) >= 50 THEN "short" ELSE "long"

\* getone() returns the next message of either topic.
Offered == {Min(Places(LAMBDA c : Topic(c) = topic)) : topic \in {Topic(c) : c \in Queued}}

Selected == CASE queue = "dispatcher" -> {Chosen}
              [] queue = "priority"   -> {Top}
              [] queue = "kafka"      -> Offered

\* receive() leases the command it selects; the rotation moves on unless an
\* aged command went first.
Receive ==
    /\ items # <<>>
    /\ \E i \in Selected :
       LET c == items[i].command
       IN  /\ items' = RemoveAt(items, i)
           /\ leases' = leases \union {[command |-> c, count |-> items[i].count + 1]}
           /\ tries' = [tries EXCEPT ![c] = @ + 1]
    /\ cursor' = IF queue = "dispatcher" /\ Aged \intersect Queued = {} THEN (cursor + 1) % 3 ELSE cursor
    /\ UNCHANGED <<queue, created, aged, dead>>

Acknowledge(l) ==
    /\ l \in leases
    /\ leases' = leases \ {l}
    /\ Gone(l.command)
    /\ UNCHANGED <<queue, items, cursor, dead, tries>>

\* The queues of Kafka try a command three times, the other one once and
\* max_retries = 3 times more.
Retries(l) == IF queue = "priority" THEN l.count <= 3 ELSE l.count < 3

\* What is tried no more is kept as a dead letter, or its offset committed.
Dropped(c) ==
    /\ dead' = IF queue = "kafka" THEN dead ELSE dead \union {c}
    /\ Gone(c)

\* Mutant: a rejected command is queued as if it were new.
RejectRetryableAnew(l) ==
    /\ l \in leases
    /\ leases' = leases \ {l}
    /\ IF Retries(l)
       THEN Added(l.command, 0) /\ UNCHANGED <<created, aged, dead>>
       ELSE Dropped(l.command) /\ UNCHANGED items
    /\ UNCHANGED <<queue, cursor, tries>>

\* reject(): a retryable command goes to the end of the queue with its count,
\* and keeps its age; Kafka carries the count in the retry-count header.
RejectRetryable(l) ==
    /\ l \in leases
    /\ leases' = leases \ {l}
    /\ IF Retries(l)
       THEN Added(l.command, l.count) /\ UNCHANGED <<created, aged, dead>>
       ELSE Dropped(l.command) /\ UNCHANGED items
    /\ UNCHANGED <<queue, cursor, tries>>

RejectForGood(l) ==
    /\ l \in leases
    /\ leases' = leases \ {l}
    /\ Dropped(l.command)
    /\ UNCHANGED <<queue, items, cursor, tries>>

-----------------------------------------------------------------------------
Next ==
    \/ \E c \in Commands : Publish(c)
    \/ Ages
    \/ Receive
    \/ \E l \in leases : Acknowledge(l) \/ RejectRetryable(l) \/ RejectForGood(l)

\* Workers keep asking for commands.  Producers, and workers that hold a
\* lease, need not do anything more, and no time need pass.
Fairness == WF_vars(Receive)

Spec == Init /\ [][Next]_vars /\ Fairness

-----------------------------------------------------------------------------
\* A command is in one place at a time, and is never delivered more often
\* than its queue allows however often it is rejected.
DeliveriesBounded ==
    /\ Queued \intersect Leased = {} /\ (Queued \union Leased) \intersect dead = {}
    /\ Cardinality(Queued) = Len(items) /\ Cardinality(Leased) = Cardinality(leases)
    /\ \A c \in Commands : tries[c] <= IF queue = "priority" THEN 4 ELSE 3

\* "Batch starvation must be prevented by weights and aging": every command
\* queued with the dispatcher is leased at last, whatever else is published.
\* The rotation alone sees to it; the weights are not used.
NobodyStarves == \A c \in Commands :
    (queue = "dispatcher" /\ c \in Queued) ~> c \notin Queued

=============================================================================
