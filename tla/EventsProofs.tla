---------------------------- MODULE EventsProofs ----------------------------
(***************************************************************************)
(* What TLAPS proves about the event journals and the batcher, for any     *)
(* number of processes, subscribers and events.                            *)
(***************************************************************************)
EXTENDS MCEvents, SequenceTheorems, TLAPS

-----------------------------------------------------------------------------
(* The Postgres journal: one transaction at a time holds the lock of the   *)
(* run, and what it read under the lock stays true until it commits.       *)

AppendSteps == {"idle", "begin", "locked", "insert", "raised"}
Appending == [step : AppendSteps, type : Postgres!Types \cup {"none"}, number : Int, attempt : Nat]

PostgresTypeOK == rows \in Seq(Postgres!Types) /\ append \in [Appenders -> Appending]

\* A transaction past its first statement is the holder of the lock.
LockHeld == \A a \in Appenders : append[a].step \in {"locked", "insert"} <=> locked = a

\* It has an event to insert.
EventGiven == \A a \in Appenders : append[a].step # "idle" => append[a].type \in Postgres!Types

\* The number that was read under the lock is still the next one.
NumberFresh == \A a \in Appenders : append[a].step = "insert" => append[a].number = Len(rows)

PostgresInv == PostgresTypeOK /\ LockHeld /\ EventGiven /\ NumberFresh /\ Postgres!NoAppendRefused

\* An empty table of events.
LEMMA PostgresInit ==
  ASSUME Postgres!Init
  PROVE  PostgresInv
<1> USE EventsAssumption DEF Postgres!Init
<1>1. PostgresTypeOK
  BY DEF PostgresTypeOK, Appending, AppendSteps, Postgres!Idle
<1>2. LockHeld /\ EventGiven /\ NumberFresh /\ Postgres!NoAppendRefused
  BY DEF LockHeld, EventGiven, NumberFresh, Postgres!NoAppendRefused, Postgres!Idle
<1> QED  BY <1>1, <1>2 DEF PostgresInv

\* Every statement of an append keeps the numbers fresh.
LEMMA PostgresStep ==
  ASSUME PostgresInv, [Postgres!Next]_postgresVars
  PROVE  PostgresInv'
<1> USE EventsAssumption DEF PostgresInv, PostgresTypeOK, Appending, AppendSteps, LockHeld, EventGiven, NumberFresh,
        Postgres!NoAppendRefused
<1>1. ASSUME NEW a \in Appenders, NEW type \in Postgres!Types, Postgres!AppendCalled(a, type)
      PROVE  PostgresInv'
  <2>1. append' = [append EXCEPT ![a] = append'[a]] /\ append'[a] \in Appending
        /\ append'[a].step = "begin" /\ append'[a].type = type /\ append'[a].attempt = 0
    <3>1. Postgres!Idle \in Appending /\ Postgres!Idle.attempt = 0
      BY DEF Postgres!Idle
    <3>2. /\ [Postgres!Idle EXCEPT !.step = "begin"] \in Appending
          /\ [Postgres!Idle EXCEPT !.step = "begin"].step = "begin"
          /\ [Postgres!Idle EXCEPT !.step = "begin"].attempt = 0
      BY <3>1
    <3>3. PICK half \in Appending : /\ half = [Postgres!Idle EXCEPT !.step = "begin"]
                                    /\ half.step = "begin" /\ half.attempt = 0
      BY <3>2, Zenon
    <3>4. append' = [append EXCEPT ![a] = [half EXCEPT !.type = type]]
      BY <1>1, <3>3, Zenon DEF Postgres!AppendCalled
    <3> QED  BY <3>3, <3>4
  <2>2. append[a].step = "idle" /\ locked' = locked /\ rows' = rows
    BY <1>1 DEF Postgres!AppendCalled
  <2>3. PostgresTypeOK'
    BY <2>1, <2>2
  <2>4. \A b \in Appenders : b # a => append'[b] = append[b]
    BY <2>1
  <2>5. LockHeld'
    BY <2>1, <2>2, <2>4
  <2>6. EventGiven'
    BY <2>1, <2>2, <2>4
  <2>7. NumberFresh'
    BY <2>1, <2>2, <2>4
  <2>8. Postgres!NoAppendRefused'
    BY <2>1, <2>2, <2>4
  <2> QED  BY <2>3, <2>5, <2>6, <2>7, <2>8
<1>2. ASSUME NEW a \in Appenders, Postgres!AppendLocks(a)
      PROVE  PostgresInv'
  <2>1. append' = [append EXCEPT ![a] = [append[a] EXCEPT !.step = "locked"]] /\ append[a].step = "begin"
        /\ locked = NoOne /\ locked' = a /\ rows' = rows
    BY <1>2 DEF Postgres!AppendLocks
  <2>2. \A b \in Appenders : append[b].step \notin {"locked", "insert"}
    BY <2>1
  <2>3. PostgresTypeOK'
    BY <2>1
  <2> QED  BY <2>1, <2>2, <2>3
<1>3. ASSUME NEW a \in Appenders, Postgres!AppendReads(a)
      PROVE  PostgresInv'
  <2>1. append[a].step = "locked" /\ locked' = locked /\ rows' = rows
    BY <1>3 DEF Postgres!AppendReads
  <2>2. Postgres!Last0 + 1 = Len(rows) /\ Len(rows) \in Int
    BY DEF Postgres!Last0
  <2>3. append' = [append EXCEPT ![a].step = "insert", ![a].number = Len(rows)]
    BY <1>3, <2>2 DEF Postgres!AppendReads
  <2>4. append' = [append EXCEPT ![a] = append'[a]] /\ append'[a] \in Appending
        /\ append'[a].step = "insert" /\ append'[a].number = Len(rows)
        /\ append'[a].type = append[a].type /\ append'[a].attempt = append[a].attempt
    <3>0. /\ [append[a] EXCEPT !.step = "insert"] \in Appending
          /\ [append[a] EXCEPT !.step = "insert"].step = "insert"
          /\ [append[a] EXCEPT !.step = "insert"].type = append[a].type
          /\ [append[a] EXCEPT !.step = "insert"].attempt = append[a].attempt
      OBVIOUS
    <3>1. PICK half \in Appending : /\ half = [append[a] EXCEPT !.step = "insert"]
                                    /\ half.step = "insert" /\ half.type = append[a].type
                                    /\ half.attempt = append[a].attempt
      BY <3>0, Zenon
    <3>2. append' = [append EXCEPT ![a] = [half EXCEPT !.number = Len(rows)]]
      BY <2>3, <3>1, Zenon
    <3> QED  BY <2>2, <3>1, <3>2
  <2>5. PostgresTypeOK'
    BY <2>1, <2>2, <2>4
  <2> QED  BY <2>1, <2>4, <2>5
<1>4. ASSUME NEW a \in Appenders, Postgres!AppendInserts(a)
      PROVE  PostgresInv'
  <2>1. append[a].step = "insert" /\ locked = a /\ append[a].number > Postgres!Last0
    BY <1>4 DEF Postgres!AppendInserts, Postgres!Last0
  <2>2. append[a].type \in Postgres!Types
    BY <2>1
  <2>3. rows' = Append(rows, append[a].type) /\ append' = [append EXCEPT ![a] = Postgres!Idle]
    BY <1>4, <2>1 DEF Postgres!AppendInserts
  <2>4. locked' = NoOne
    BY <1>4, <2>1 DEF Postgres!AppendInserts, Postgres!Unlock
  <2> QED  BY <2>1, <2>2, <2>3, <2>4 DEF Postgres!Idle
<1>5. ASSUME NEW a \in Appenders, Postgres!AppendAborts(a)
      PROVE  PostgresInv'
  BY <1>5 DEF Postgres!AppendAborts, Postgres!Unlock, Postgres!Idle
<1>6. ASSUME UNCHANGED <<rows, locked, append>>
      PROVE  PostgresInv'
  BY <1>6
<1>7. ASSUME NEW s \in Streams, \/ \E after \in -1 .. Postgres!Last0 : Postgres!Subscribe(s, after)
                                \/ Postgres!SubscriberStep(s) \/ Postgres!Disconnect(s)
      PROVE  UNCHANGED <<rows, locked, append>>
  BY <1>7 DEF Postgres!Subscribe, Postgres!SubscriberStep, Postgres!Disconnect, Postgres!Poll,
     Postgres!YieldEvent, Postgres!BatchDone
<1>8. CASE UNCHANGED postgresVars
  BY <1>6, <1>8 DEF postgresVars
<1>9. CASE Postgres!Next
  BY <1>1, <1>2, <1>3, <1>4, <1>5, <1>6, <1>7, <1>9 DEF Postgres!Next, Postgres!AppendStep
<1> QED  BY <1>8, <1>9

\* The lock, and not the retries, keeps the sequence of a run unique: however
\* many gateways and workers append, and whichever of them lose their
\* connection, no insert meets a number that is taken.
THEOREM AppendsNeverRefused == Postgres!Spec => []NoAppendRefused
<1>1. Postgres!Init => PostgresInv
  BY PostgresInit
<1>2. PostgresInv /\ [Postgres!Next]_postgresVars => PostgresInv'
  BY PostgresStep
<1>3. PostgresInv => NoAppendRefused
  BY DEF PostgresInv, NoAppendRefused
<1> QED  BY <1>1, <1>2, <1>3, PTL DEF Postgres!Spec, Postgres!vars, postgresVars

Polling == [step : {"away", "poll", "yield", "ended", "gone"}, cursor : Int, batch : Seq(Int), final : BOOLEAN]

\* What a subscription is about to yield are the committed events after the one
\* it yielded last, without a gap; it knows whether the last of them ends the
\* run, and it has returned only after an event that does.
PollExact(x) ==
  /\ x.cursor >= -1 /\ x.cursor + Len(x.batch) < Len(rows)
  /\ \A i \in 1..Len(x.batch) : x.batch[i] = x.cursor + i
  /\ x.step = "yield" =>
       /\ x.cursor + Len(x.batch) >= 0
       /\ x.final <=> rows[x.cursor + Len(x.batch) + 1] \in Postgres!EndEvent
  /\ x.step = "ended" => x.cursor >= 0 /\ rows[x.cursor + 1] \in Postgres!EndEvent

PollsExact == \A s \in Streams : PollExact(sub[s])

PollType == rows \in Seq(Postgres!Types) /\ sub \in [Streams -> Polling]

\* Setting the step of a subscription changes nothing else of it.
LEMMA StepSet ==
  ASSUME NEW x \in Polling, NEW to \in {"away", "poll", "yield", "ended", "gone"}, NEW y,
         y = [x EXCEPT !.step = to]
  PROVE  y \in Polling /\ y.step = to /\ y.cursor = x.cursor /\ y.batch = x.batch /\ y.final = x.final
BY DEF Polling

\* Setting the cursor changes nothing else.
LEMMA CursorSet ==
  ASSUME NEW x \in Polling, NEW c \in Int, NEW y, y = [x EXCEPT !.cursor = c]
  PROVE  y \in Polling /\ y.step = x.step /\ y.cursor = c /\ y.batch = x.batch /\ y.final = x.final
BY DEF Polling

\* Setting the batch changes nothing else.
LEMMA BatchSet ==
  ASSUME NEW x \in Polling, NEW b \in Seq(Int), NEW y, y = [x EXCEPT !.batch = b]
  PROVE  y \in Polling /\ y.step = x.step /\ y.cursor = x.cursor /\ y.batch = b /\ y.final = x.final
BY DEF Polling

\* Setting the flag changes nothing else.
LEMMA FinalSet ==
  ASSUME NEW x \in Polling, NEW f \in BOOLEAN, NEW y, y = [x EXCEPT !.final = f]
  PROVE  y \in Polling /\ y.step = x.step /\ y.cursor = x.cursor /\ y.batch = x.batch /\ y.final = f
BY DEF Polling

\* Taking the first of consecutive numbers leaves consecutive numbers.
LEMMA OneYielded ==
  ASSUME NEW c \in Int, NEW b \in Seq(Int), b # <<>>, \A i \in 1..Len(b) : b[i] = c + i
  PROVE  /\ Head(b) = c + 1 /\ Len(b) \in Nat /\ Tail(b) \in Seq(Int) /\ Len(Tail(b)) = Len(b) - 1
         /\ \A i \in 1..Len(Tail(b)) : Tail(b)[i] = c + 1 + i
<1>1. Len(b) \in Nat /\ Len(b) > 0 /\ Head(b) = b[1]
  OBVIOUS
<1>2. /\ Tail(b) \in Seq(Int) /\ Len(Tail(b)) = Len(b) - 1
      /\ \A i \in 1..(Len(b) - 1) : Tail(b)[i] = b[i + 1]
  BY <1>1
<1>3. ASSUME NEW i \in 1..(Len(b) - 1) PROVE Tail(b)[i] = c + 1 + i
  <2>1. i + 1 \in 1..Len(b) /\ c + (i + 1) = c + 1 + i
    BY <1>1
  <2> QED  BY <1>2, <2>1
<1> QED  BY <1>1, <1>2, <1>3

\* The row that append inserts is the one after those a subscription knows of.
LEMMA RowsGrow ==
  ASSUME PostgresInv, PollType, PollsExact, NEW type \in Postgres!Types,
         rows' = Append(rows, type), sub' = sub
  PROVE  PollType' /\ PollsExact'
<1>1. /\ Len(rows') = Len(rows) + 1 /\ rows' \in Seq(Postgres!Types) /\ Len(rows) \in Nat
      /\ \A i \in 1..Len(rows) : rows'[i] = rows[i]
  BY DEF PollType
<1>2. ASSUME NEW s \in Streams PROVE PollExact(sub[s])'
  <2>1. sub[s] \in Polling /\ PollExact(sub[s])
    BY DEF PollType, PollsExact
  <2> DEFINE c == sub[s].cursor
             n == Len(sub[s].batch)
  <2>2. c \in Int /\ n \in Nat /\ c >= -1 /\ c + n < Len(rows)
    BY <2>1 DEF Polling, PollExact
  <2>3. c + n >= 0 => rows'[c + n + 1] = rows[c + n + 1]
    BY <1>1, <2>2
  <2>4. c >= 0 => rows'[c + 1] = rows[c + 1]
    BY <1>1, <2>2
  <2>5. c + n < Len(rows')
    BY <1>1, <2>2
  <2> QED  BY <2>1, <2>3, <2>4, <2>5 DEF PollExact
<1> QED  BY <1>1, <1>2 DEF PollType, PollsExact

\* The steps of a subscription that leave its batch alone.
LEMMA PollMoves ==
  ASSUME PollType, PollsExact, rows' = rows, NEW s \in Streams, NEW x \in Polling,
         sub' = [sub EXCEPT ![s] = x], PollExact(x)
  PROVE  PollType' /\ PollsExact'
<1>1. \A t \in Streams : sub'[t] = IF t = s THEN x ELSE sub[t]
  BY DEF PollType
<1>2. PollType'
  BY DEF PollType
<1>3. \A t \in Streams : PollExact(sub'[t])
  BY <1>1 DEF PollsExact
<1> QED  BY <1>2, <1>3 DEF PollsExact, PollExact

\* Every step of an append and of a subscription keeps the batches exact.
LEMMA PollStep ==
  ASSUME PostgresInv, PollType, PollsExact, [Postgres!Next]_postgresVars
  PROVE  PollType' /\ PollsExact'
<1>1. CASE UNCHANGED <<rows, sub>>
  BY <1>1 DEF PollType, PollsExact, PollExact
<1>2. ASSUME NEW a \in Appenders,
             \/ \E type \in Postgres!Types : Postgres!AppendCalled(a, type)
             \/ Postgres!AppendLocks(a) \/ Postgres!AppendReads(a) \/ Postgres!AppendAborts(a)
      PROVE  UNCHANGED <<rows, sub>>
  BY <1>2 DEF Postgres!AppendCalled, Postgres!AppendLocks, Postgres!AppendReads, Postgres!AppendAborts
<1>3. ASSUME NEW a \in Appenders, Postgres!AppendInserts(a)
      PROVE  PollType' /\ PollsExact'
  <2>1. append[a].step = "insert" /\ append[a].type \in Postgres!Types
    BY <1>3 DEF Postgres!AppendInserts, PostgresInv, EventGiven
  <2>2. sub' = sub /\ (rows' = rows \/ rows' = Append(rows, append[a].type))
    BY <1>3 DEF Postgres!AppendInserts
  <2> QED  BY <1>1, <2>1, <2>2, RowsGrow
<1>4. ASSUME NEW s \in Streams, NEW after \in -1 .. Postgres!Last0, Postgres!Subscribe(s, after)
      PROVE  PollType' /\ PollsExact'
  <2> DEFINE h == [Postgres!Away EXCEPT !.step = "poll"]
             x == [h EXCEPT !.cursor = after]
  <2>1. sub' = [sub EXCEPT ![s] = x] /\ rows' = rows
    BY <1>4, Zenon DEF Postgres!Subscribe
  <2>2. after \in Int /\ after >= -1 /\ after < Len(rows) /\ Len(<<>>) = 0
    BY DEF Postgres!Last0, PollType
  <2>3. Postgres!Away \in Polling /\ Postgres!Away.batch = <<>>
    BY DEF Postgres!Away, Polling
  <2>4. h \in Polling /\ h.step = "poll" /\ h.batch = <<>>
    BY <2>3, StepSet
  <2> HIDE DEF h
  <2>5. x \in Polling /\ x.step = "poll" /\ x.cursor = after /\ x.batch = <<>>
    BY <2>2, <2>4, CursorSet
  <2> HIDE DEF x
  <2>6. PollExact(x)
    BY <2>2, <2>5 DEF PollExact
  <2> QED  BY <2>1, <2>5, <2>6, PollMoves
<1>5. ASSUME NEW s \in Streams, Postgres!Poll(s)
      PROVE  PollType' /\ PollsExact'
  <2> DEFINE c == sub[s].cursor
             b == Postgres!Replay(c)
             f == Postgres!TypeAt(Postgres!Last(b)) \in Postgres!EndEvent
             g == [sub[s] EXCEPT !.step = "yield"]
             h == [g EXCEPT !.batch = b]
             x == [h EXCEPT !.final = f]
  <2>1. sub[s] \in Polling /\ c \in Int /\ c >= -1 /\ Len(rows) \in Nat /\ b # <<>>
    BY <1>5 DEF PollType, Polling, PollsExact, PollExact, Postgres!Poll
  <2>2. c < Len(rows)
    BY <2>1 DEF PollsExact, PollExact, PollType, Polling
  <2>3. b = [i \in 1..(Len(rows) - 1 - c) |-> c + i]
    BY DEF Postgres!Replay, Postgres!Last0
  <2>4. sub' = [sub EXCEPT ![s] = x] /\ rows' = rows
    BY <1>5, <2>1, Zenon DEF Postgres!Poll, PollType
  <2>5. f \in BOOLEAN
    OBVIOUS
  <2> HIDE DEF b
  <2>6. /\ b \in Seq(Int) /\ Len(b) = Len(rows) - 1 - c
        /\ \A i \in 1..Len(b) : b[i] = c + i
    BY <2>1, <2>2, <2>3
  <2>7. Len(b) > 0
    BY <2>1, <2>6
  <2>8. f <=> rows[c + Len(b) + 1] \in Postgres!EndEvent
    BY <2>1, <2>6, <2>7 DEF Postgres!TypeAt, Postgres!Last
  <2> HIDE DEF f
  <2>9. g \in Polling /\ g.step = "yield" /\ g.cursor = c
    BY <2>1, StepSet
  <2> HIDE DEF g
  <2>10. h \in Polling /\ h.step = "yield" /\ h.cursor = c /\ h.batch = b
    BY <2>6, <2>9, BatchSet
  <2> HIDE DEF h
  <2>11. x \in Polling /\ x.step = "yield" /\ x.cursor = c /\ x.batch = b /\ x.final = f
    BY <2>5, <2>10, FinalSet
  <2> HIDE DEF x, c
  <2>12. PollExact(x)
    <3>1. x.cursor >= -1 /\ x.cursor + Len(x.batch) < Len(rows) /\ x.cursor + Len(x.batch) >= 0
      BY <2>1, <2>6, <2>7, <2>11
    <3>2. \A i \in 1..Len(x.batch) : x.batch[i] = x.cursor + i
      BY <2>6, <2>11
    <3>3. x.final <=> rows[x.cursor + Len(x.batch) + 1] \in Postgres!EndEvent
      BY <2>8, <2>11, Zenon
    <3> QED  BY <2>11, <3>1, <3>2, <3>3 DEF PollExact
  <2> QED  BY <2>4, <2>11, <2>12, PollMoves
<1>6. ASSUME NEW s \in Streams, Postgres!YieldEvent(s)
      PROVE  PollType' /\ PollsExact'
  <2> DEFINE c == sub[s].cursor
             b == sub[s].batch
             hd == Head(b)
             tl == Tail(b)
             h == [sub[s] EXCEPT !.cursor = hd]
             x == [h EXCEPT !.batch = tl]
  <2>1. /\ sub[s] \in Polling /\ PollExact(sub[s]) /\ sub[s].step = "yield" /\ b # <<>>
        /\ rows' = rows
    BY <1>6 DEF PollType, PollsExact, Postgres!YieldEvent
  <2>2. c \in Int /\ c >= -1 /\ b \in Seq(Int) /\ \A i \in 1..Len(b) : b[i] = c + i
    BY <2>1 DEF Polling, PollExact
  <2>3. /\ hd = c + 1 /\ Len(b) \in Nat /\ tl \in Seq(Int) /\ Len(tl) = Len(b) - 1
        /\ \A i \in 1..Len(tl) : tl[i] = c + 1 + i
    BY <2>1, <2>2, OneYielded
  <2>4. sub' = [sub EXCEPT ![s] = x]
    <3>1. h.batch = b
      BY <2>1, <2>2, <2>3, CursorSet
    <3>2. sub' = [sub EXCEPT ![s] = [h EXCEPT !.batch = Tail(h.batch)]]
      BY <1>6, Zenon DEF Postgres!YieldEvent, PollType
    <3> QED  BY <3>1, <3>2, Zenon
  <2> HIDE DEF hd, tl
  <2>5. hd \in Int
    BY <2>2, <2>3
  <2>6. /\ h \in Polling /\ h.step = sub[s].step /\ h.cursor = hd /\ h.final = sub[s].final
    BY <2>1, <2>5, CursorSet
  <2> HIDE DEF h
  <2>7. x \in Polling /\ x.step = h.step /\ x.cursor = h.cursor /\ x.batch = tl /\ x.final = h.final
    BY <2>3, <2>6, BatchSet
  <2> HIDE DEF x
  <2>8. x.cursor = c + 1 /\ x.batch = tl
    BY <2>3, <2>6, <2>7, Zenon
  <2>9. x.step = "yield" /\ x.final = sub[s].final
    BY <2>1, <2>6, <2>7, Zenon
  <2>10. x.cursor + Len(x.batch) = c + Len(b) /\ x.cursor >= -1
    <3>1. \A k, m, n \in Int : k >= -1 /\ n = m - 1 => (k + 1) + n = k + m /\ k + 1 >= -1
      OBVIOUS
    <3>2. c \in Int /\ c >= -1 /\ Len(b) \in Int /\ Len(tl) \in Int /\ Len(tl) = Len(b) - 1
      BY <2>2, <2>3
    <3>3. (c + 1) + Len(tl) = c + Len(b) /\ c + 1 >= -1
      BY <3>1, <3>2, Zenon
    <3> QED  BY <2>8, <3>3, Zenon
  <2>11. \A i \in 1..Len(x.batch) : x.batch[i] = x.cursor + i
    BY <2>3, <2>8, Zenon
  <2>12. PollExact(x)
    BY <2>1, <2>9, <2>10, <2>11, Zenon DEF PollExact
  <2> QED  BY <2>1, <2>4, <2>7, <2>12, PollMoves
<1>7. ASSUME NEW s \in Streams, Postgres!BatchDone(s)
      PROVE  PollType' /\ PollsExact'
  <2> DEFINE to == IF sub[s].final THEN "ended" ELSE "poll"
             x == [sub[s] EXCEPT !.step = to]
  <2>1. /\ sub[s] \in Polling /\ PollExact(sub[s]) /\ sub[s].step = "yield" /\ sub[s].batch = <<>>
        /\ rows' = rows /\ sub' = [sub EXCEPT ![s] = x]
    BY <1>7 DEF PollType, PollsExact, Postgres!BatchDone
  <2>2. /\ to \in {"ended", "poll"}
        /\ to = "ended" => sub[s].final
    OBVIOUS
  <2> HIDE DEF to
  <2>3. x \in Polling /\ x.step = to /\ x.cursor = sub[s].cursor /\ x.batch = sub[s].batch
    BY <2>1, <2>2, StepSet
  <2> HIDE DEF x
  <2>4. Len(sub[s].batch) = 0 /\ sub[s].cursor \in Int
    BY <2>1 DEF Polling
  <2>5. PollExact(x)
    BY <2>1, <2>2, <2>3, <2>4 DEF PollExact
  <2> QED  BY <2>1, <2>3, <2>5, PollMoves
<1>8. ASSUME NEW s \in Streams, Postgres!Disconnect(s)
      PROVE  PollType' /\ PollsExact'
  <2> DEFINE x == [sub[s] EXCEPT !.step = "gone"]
  <2>1. /\ sub[s] \in Polling /\ PollExact(sub[s])
        /\ rows' = rows /\ sub' = [sub EXCEPT ![s] = x]
    BY <1>8 DEF PollType, PollsExact, Postgres!Disconnect
  <2>2. x \in Polling /\ x.step = "gone" /\ x.cursor = sub[s].cursor /\ x.batch = sub[s].batch
    BY <2>1, StepSet
  <2> HIDE DEF x
  <2>3. PollExact(x)
    BY <2>1, <2>2 DEF PollExact
  <2> QED  BY <2>1, <2>2, <2>3, PollMoves
<1>9. CASE UNCHANGED postgresVars
  BY <1>1, <1>9 DEF postgresVars
<1>10. CASE Postgres!Next
  BY <1>1, <1>2, <1>3, <1>4, <1>5, <1>6, <1>7, <1>8, <1>10
  DEF Postgres!Next, Postgres!AppendStep, Postgres!SubscriberStep
<1> QED  BY <1>9, <1>10

\* A subscription that polls Postgres yields every event after its cursor once
\* and in order, however many processes append meanwhile, and returns only
\* after an event that ends the run.
THEOREM PollingIsExact == Postgres!Spec => []PollsExact
<1>1. Postgres!Init => PostgresInv /\ PollType /\ PollsExact
  <2> SUFFICES ASSUME Postgres!Init PROVE PollType /\ PollsExact
    BY PostgresInit
  <2>1. rows = <<>> /\ Len(rows) = 0 /\ \A s \in Streams : sub[s] = Postgres!Away
    BY DEF Postgres!Init
  <2>2. PollType
    BY DEF Postgres!Init, PollType, Polling, Postgres!Away
  <2>3. PollExact(Postgres!Away)
    BY <2>1 DEF PollExact, Postgres!Away
  <2> QED  BY <2>1, <2>2, <2>3 DEF PollsExact
<1>2. PostgresInv /\ PollType /\ PollsExact /\ [Postgres!Next]_postgresVars =>
        PostgresInv' /\ PollType' /\ PollsExact'
  BY PostgresStep, PollStep
<1> QED  BY <1>1, <1>2, PTL DEF Postgres!Spec, Postgres!vars, postgresVars

-----------------------------------------------------------------------------
(* The journal in memory: what a subscriber has taken and what it will     *)
(* take stays in order, and complete while its queue is registered.        *)

JournalTypeOK ==
  /\ ending \in Seq(BOOLEAN)
  /\ subscribed \subseteq Subscriber
  /\ phase \in [Subscriber -> {"new", "replay", "replayOnly", "ended", "left"}]
  /\ cursor \in [Subscriber -> Int] /\ \A s \in Subscriber : cursor[s] >= -1
  /\ initial \in [Subscriber -> Seq(Int)]
  /\ queue \in [Subscriber -> Seq(Int)]
  /\ delivered \in [Subscriber -> Seq(Int)]

\* Before its first __anext__ a subscriber has nothing.
NewHasNothing ==
  \A s \in Subscriber : phase[s] = "new" =>
    s \notin subscribed /\ initial[s] = <<>> /\ queue[s] = <<>> /\ delivered[s] = <<>>

\* The events of p, and after them those of q that are not None, follow the
\* number c in ascending order.
Follows(c, p, q) ==
  /\ \A i \in 1..Len(p) : c < p[i] /\ \A j \in 1..(i - 1) : p[j] < p[i]
  /\ \A i \in 1..Len(q) : q[i] # Close =>
       /\ c < q[i]
       /\ \A j \in 1..Len(p) : p[j] < q[i]
       /\ \A j \in 1..(i - 1) : q[j] # Close => q[j] < q[i]

\* They are all the numbers from c + 1 to n - 1.
Exactly(c, p, q, n) ==
  /\ Len(p) + Len(q) = n - c - 1
  /\ \A i \in 1..Len(p) : p[i] = c + i
  /\ \A i \in 1..Len(q) : q[i] = c + Len(p) + i

Taken(s) == delivered[s] \o initial[s]

Ordered == \A s \in Subscriber : Follows(cursor[s], Taken(s), queue[s])
Complete == \A s \in subscribed : Exactly(cursor[s], Taken(s), queue[s], Len(ending))

JournalInv == JournalTypeOK /\ NewHasNothing /\ Ordered /\ Complete

\* The invariant says what the property says of the whole sequence.
LEMMA JournalInvImplies ==
  ASSUME JournalInv
  PROVE  HandOverExact
<1> SUFFICES ASSUME NEW s \in Subscriber
             PROVE  /\ \A i \in DOMAIN InOrder(s) : InOrder(s)[i] # Close =>
                         /\ cursor[s] < InOrder(s)[i]
                         /\ \A j \in 1..(i - 1) : InOrder(s)[j] # Close => InOrder(s)[j] < InOrder(s)[i]
                    /\ s \in subscribed => InOrder(s) = After(cursor[s])
  BY DEF HandOverExact
<1>1. PICK p \in Seq(Int), q \in Seq(Int), c \in Int, all \in Seq(Int) :
        p = Taken(s) /\ q = queue[s] /\ c = cursor[s] /\ all = InOrder(s) /\ all = p \o q
  <2>1. delivered[s] \in Seq(Int) /\ initial[s] \in Seq(Int) /\ queue[s] \in Seq(Int) /\ cursor[s] \in Int
    BY DEF JournalInv, JournalTypeOK
  <2>2. Taken(s) \in Seq(Int)
    BY <2>1, ConcatProperties DEF Taken
  <2>3. InOrder(s) \in Seq(Int) /\ InOrder(s) = Taken(s) \o queue[s]
    BY <2>1, <2>2, ConcatProperties DEF Taken, InOrder
  <2> QED  BY <2>1, <2>2, <2>3
<1>2. Follows(c, p, q)
  BY <1>1 DEF JournalInv, Ordered
<1>3. /\ Len(all) = Len(p) + Len(q) /\ Len(p) \in Nat /\ Len(q) \in Nat
      /\ \A i \in 1..Len(all) : all[i] = IF i <= Len(p) THEN p[i] ELSE q[i - Len(p)]
  BY <1>1, ConcatProperties
<1>4. /\ \A i \in 1..Len(all) : i <= Len(p) => i \in 1..Len(p) /\ all[i] = p[i]
      /\ \A i \in 1..Len(all) : ~(i <= Len(p)) => i - Len(p) \in 1..Len(q) /\ all[i] = q[i - Len(p)]
  BY <1>3
<1>5. ASSUME NEW i \in 1..Len(all), all[i] # Close
      PROVE  c < all[i] /\ \A j \in 1..(i - 1) : all[j] # Close => all[j] < all[i]
  <2>1. CASE i <= Len(p)
    <3>1. \A j \in 1..(i - 1) : j \in 1..Len(all) /\ j <= Len(p)
      BY <1>3, <2>1
    <3> QED  BY <1>2, <1>4, <2>1, <3>1 DEF Follows
  <2>2. CASE ~(i <= Len(p))
    <3>1. /\ i - Len(p) \in 1..Len(q) /\ q[i - Len(p)] = all[i]
      BY <1>4, <2>2
    <3>2. /\ c < all[i] /\ \A j \in 1..Len(p) : p[j] < all[i]
          /\ \A j \in 1..(i - Len(p) - 1) : q[j] # Close => q[j] < all[i]
      BY <1>2, <1>5, <3>1 DEF Follows
    <3>3. ASSUME NEW j \in 1..(i - 1), all[j] # Close
          PROVE  all[j] < all[i]
      <4>1. j \in 1..Len(all)
        BY <1>3
      <4>2. CASE j <= Len(p)
        BY <1>4, <3>2, <4>1, <4>2
      <4>3. CASE ~(j <= Len(p))
        <5>1. j - Len(p) \in 1..(i - Len(p) - 1)
          BY <1>3, <4>3
        <5> QED  BY <1>4, <3>2, <3>3, <4>1, <4>3, <5>1
      <4> QED  BY <4>2, <4>3
    <3> QED  BY <3>2, <3>3
  <2> QED  BY <2>1, <2>2
<1>6. ASSUME s \in subscribed
      PROVE  all = After(c)
  <2>1. Exactly(c, p, q, Len(ending)) /\ Len(ending) \in Nat
    BY <1>1, <1>6 DEF JournalInv, JournalTypeOK, Complete
  <2>2. Len(all) = Len(ending) - c - 1
    BY <1>3, <2>1 DEF Exactly
  <2>3. \A i \in 1..Len(all) : all[i] = c + i
    <3>1. ASSUME NEW i \in 1..Len(all), ~(i <= Len(p))
          PROVE  all[i] = c + i
      <4>1. all[i] = c + Len(p) + (i - Len(p))
        BY <1>4, <2>1, <3>1 DEF Exactly
      <4> QED  BY <1>3, <4>1
    <3>2. ASSUME NEW i \in 1..Len(all), i <= Len(p)
          PROVE  all[i] = c + i
      BY <1>4, <2>1, <3>2 DEF Exactly
    <3> QED  BY <3>1, <3>2
  <2>4. all = [i \in 1..Len(all) |-> c + i]
    BY <1>1, <2>3
  <2> QED  BY <2>2, <2>4 DEF After
<1>7. DOMAIN all = 1..Len(all)
  BY <1>1
<1>8. \A i \in DOMAIN all : all[i] # Close =>
        c < all[i] /\ \A j \in 1..(i - 1) : all[j] # Close => all[j] < all[i]
  BY <1>5, <1>7, Zenon
<1> QED  BY <1>1, <1>6, <1>8, Zenon

\* An empty journal without subscriptions.
LEMMA JournalInit ==
  ASSUME Init
  PROVE  JournalInv
<1> USE DEF Init
<1>1. JournalTypeOK
  BY DEF JournalTypeOK
<1>2. NewHasNothing /\ Complete
  BY DEF NewHasNothing, Complete
<1>3. \A s \in Subscriber : Taken(s) = <<>> /\ queue[s] = <<>>
  <2>1. <<>> \o <<>> = <<>>
    BY EmptySeq, ConcatEmptySeq
  <2> QED  BY <2>1, Zenon DEF Taken
<1> QED  BY <1>1, <1>2, <1>3 DEF JournalInv, Ordered, Follows

\* An event moves from one part to the other.
LEMMA MoveHead ==
  ASSUME NEW p \in Seq(Int), NEW q \in Seq(Int), q # <<>>
  PROVE  /\ Head(q) \in Int /\ Head(q) = q[1] /\ Tail(q) \in Seq(Int)
         /\ Append(p, Head(q)) \in Seq(Int)
         /\ Append(p, Head(q)) \o Tail(q) = p \o q
<1>1. Head(q) \in Int /\ Head(q) = q[1] /\ Tail(q) \in Seq(Int) /\ Len(Tail(q)) = Len(q) - 1
      /\ \A i \in 1..Len(Tail(q)) : Tail(q)[i] = q[i + 1]
  BY HeadTailProperties
<1>2. Append(p, Head(q)) \in Seq(Int) /\ Len(Append(p, Head(q))) = Len(p) + 1
      /\ \A i \in 1..Len(p) : Append(p, Head(q))[i] = p[i] /\ Append(p, Head(q))[Len(p) + 1] = q[1]
  BY <1>1, AppendProperties
<1>3. PICK a \in Seq(Int), t \in Seq(Int), u \in Seq(Int), v \in Seq(Int) :
        a = Append(p, Head(q)) /\ t = Tail(q) /\ u = a \o t /\ v = p \o q
  BY <1>1, <1>2, ConcatProperties
<1>4. Len(p) \in Nat /\ Len(q) \in Nat /\ Len(q) > 0 /\ Len(t) = Len(q) - 1 /\ Len(a) = Len(p) + 1
  BY <1>1, <1>2, <1>3
<1>5. Len(u) = Len(p) + Len(q) /\ Len(v) = Len(p) + Len(q)
  BY <1>3, <1>4, ConcatProperties
<1>6. \A i \in 1..Len(u) : u[i] = v[i]
  <2>1. ASSUME NEW i \in 1..Len(u)
        PROVE  u[i] = v[i]
    <3>1. u[i] = (IF i <= Len(a) THEN a[i] ELSE t[i - Len(a)]) /\ v[i] = (IF i <= Len(p) THEN p[i] ELSE q[i - Len(p)])
      BY <1>3, <1>4, <1>5, ConcatProperties
    <3>2. CASE i <= Len(p)
      BY <1>2, <1>3, <1>4, <3>1, <3>2
    <3>3. CASE i = Len(p) + 1
      BY <1>2, <1>3, <1>4, <3>1, <3>3
    <3>4. CASE i > Len(p) + 1
      <4>1. i - Len(a) \in 1..Len(t) /\ i - Len(a) + 1 = i - Len(p)
        BY <1>4, <1>5, <3>4
      <4>2. t[i - Len(a)] = q[i - Len(a) + 1]
        BY <1>1, <1>3, <4>1
      <4>3. ~(i <= Len(a)) /\ ~(i <= Len(p))
        BY <1>4, <3>4
      <4> QED  BY <3>1, <4>1, <4>2, <4>3, Zenon
    <3> QED  BY <1>4, <1>5, <3>2, <3>3, <3>4
  <2> QED  BY <2>1
<1>7. u = v
  BY <1>5, <1>6, SeqEqual
<1> QED  BY <1>1, <1>2, <1>3, <1>7

\* What Append adds.
LEMMA AppendPlaces ==
  ASSUME NEW q \in Seq(Int), NEW e \in Int
  PROVE  \E a \in Seq(Int) : /\ a = Append(q, e) /\ Len(a) = Len(q) + 1 /\ a[Len(q) + 1] = e
                             /\ \A i \in 1..Len(q) : a[i] = q[i]
<1>1. /\ Append(q, e) \in Seq(Int) /\ Len(Append(q, e)) = Len(q) + 1 /\ Append(q, e)[Len(q) + 1] = e
      /\ \A i \in 1..Len(q) : Append(q, e)[i] = q[i]
  BY AppendProperties
<1> QED  BY <1>1, Zenon

\* What Tail leaves.
LEMMA TailPlaces ==
  ASSUME NEW q \in Seq(Int), q # <<>>
  PROVE  \E t \in Seq(Int) : /\ t = Tail(q) /\ Len(t) = Len(q) - 1
                             /\ \A i \in 1..Len(t) : t[i] = q[i + 1]
<1>1. /\ Tail(q) \in Seq(Int) /\ Len(Tail(q)) = Len(q) - 1
      /\ \A i \in 1..Len(Tail(q)) : Tail(q)[i] = q[i + 1]
  BY HeadTailProperties
<1> QED  BY <1>1, Zenon

\* The order survives the move of an event from the queue to the client, ...
LEMMA MoveKeepsOrder ==
  ASSUME NEW c \in Int, NEW p \in Seq(Int), NEW q \in Seq(Int), q # <<>>, q[1] # Close,
         Follows(c, p, q)
  PROVE  /\ Follows(c, Append(p, q[1]), Tail(q))
         /\ \A n \in Int : Exactly(c, p, q, n) => Exactly(c, Append(p, q[1]), Tail(q), n)
<1>1. PICK a \in Seq(Int), t \in Seq(Int) :
        /\ a = Append(p, q[1]) /\ Len(a) = Len(p) + 1 /\ a[Len(p) + 1] = q[1]
        /\ \A i \in 1..Len(p) : a[i] = p[i]
        /\ t = Tail(q) /\ Len(t) = Len(q) - 1 /\ \A i \in 1..Len(t) : t[i] = q[i + 1]
  <2>1. q[1] \in Int
    OBVIOUS
  <2> QED  BY <2>1, AppendPlaces, TailPlaces, Zenon
<1>2. Len(p) \in Nat /\ Len(q) \in Nat \ {0}
  OBVIOUS
<1>3. ASSUME NEW i \in 1..Len(a)
      PROVE  c < a[i] /\ \A j \in 1..(i - 1) : a[j] < a[i]
  <2>1. CASE i = Len(p) + 1
    <3>1. 1 \in 1..Len(q) /\ c < q[1] /\ \A j \in 1..Len(p) : p[j] < q[1]
      BY <1>2 DEF Follows
    <3> QED  BY <1>1, <1>2, <2>1, <3>1
  <2>2. CASE i # Len(p) + 1
    <3>1. i \in 1..Len(p) /\ \A j \in 1..(i - 1) : j \in 1..Len(p)
      BY <1>1, <1>2, <2>2
    <3> QED  BY <1>1, <3>1 DEF Follows
  <2> QED  BY <2>1, <2>2
<1>4. ASSUME NEW i \in 1..Len(t), t[i] # Close
      PROVE  /\ c < t[i]
             /\ \A j \in 1..Len(a) : a[j] < t[i]
             /\ \A j \in 1..(i - 1) : t[j] # Close => t[j] < t[i]
  <2>1. i + 1 \in 1..Len(q) /\ t[i] = q[i + 1] /\ i + 1 > 1
    BY <1>1, <1>2
  <2>2. /\ c < q[i + 1] /\ \A j \in 1..Len(p) : p[j] < q[i + 1]
        /\ \A j \in 1..i : q[j] # Close => q[j] < q[i + 1]
    BY <1>4, <2>1 DEF Follows
  <2> QED  BY <1>1, <1>2, <2>1, <2>2
<1>5. Follows(c, a, t)
  BY <1>3, <1>4 DEF Follows
<1>6. ASSUME NEW n \in Int, Exactly(c, p, q, n)
      PROVE  Exactly(c, a, t, n)
  <2>1. \A i \in 1..Len(t) : i + 1 \in 1..Len(q) /\ t[i] = c + Len(p) + (i + 1)
    BY <1>1, <1>2, <1>6 DEF Exactly
  <2>2. \A i \in 1..Len(t) : t[i] = c + Len(a) + i
    BY <1>1, <1>2, <2>1
  <2>3. 1 \in 1..Len(q) /\ q[1] = c + Len(p) + 1
    BY <1>2, <1>6 DEF Exactly
  <2>4. \A i \in 1..Len(a) : a[i] = c + i
    <3>1. \A i \in 1..Len(a) : i = Len(p) + 1 \/ i \in 1..Len(p)
      BY <1>1, <1>2
    <3>2. \A i \in 1..Len(p) : a[i] = c + i
      BY <1>1, <1>6 DEF Exactly
    <3> QED  BY <1>1, <1>2, <2>3, <3>1, <3>2
  <2>5. Len(a) + Len(t) = n - c - 1
    BY <1>1, <1>2, <1>6 DEF Exactly
  <2> QED  BY <2>2, <2>4, <2>5 DEF Exactly
<1> QED  BY <1>1, <1>5, <1>6, Zenon

\* ... the closing of a queue, full or not, ...
LEMMA ClosedKeepsOrder ==
  ASSUME NEW c \in Int, NEW p \in Seq(Int), NEW q \in Seq(Int), Follows(c, p, q)
  PROVE  Closed(q) \in Seq(Int) /\ Follows(c, p, Closed(q))
<1> Close \in Int
  BY DEF Close
<1>1. ASSUME NEW r \in Seq(Int), Follows(c, p, r)
      PROVE  Append(r, Close) \in Seq(Int) /\ Follows(c, p, Append(r, Close))
  <2>1. PICK a \in Seq(Int) : /\ a = Append(r, Close) /\ Len(a) = Len(r) + 1 /\ a[Len(r) + 1] = Close
                              /\ \A i \in 1..Len(r) : a[i] = r[i]
    BY AppendPlaces
  <2>2. Len(r) \in Nat
    OBVIOUS
  <2>3. ASSUME NEW i \in 1..Len(a), a[i] # Close
        PROVE  i \in 1..Len(r) /\ a[i] = r[i] /\ \A j \in 1..(i - 1) : a[j] = r[j]
    <3>1. i # Len(r) + 1
      BY <2>1, <2>3
    <3>2. i \in 1..Len(r) /\ \A j \in 1..(i - 1) : j \in 1..Len(r)
      BY <2>1, <2>2, <3>1
    <3> QED  BY <2>1, <3>2
  <2>4. Follows(c, p, a)
    BY <1>1, <2>3 DEF Follows
  <2> QED  BY <2>1, <2>4
<1>2. CASE Len(q) < queue_size
  BY <1>1, <1>2 DEF Closed
<1>3. CASE ~(Len(q) < queue_size)
  <2>1. q # <<>> /\ Len(q) \in Nat
    BY <1>3, JournalAssumption
  <2>2. PICK t \in Seq(Int) : t = Tail(q) /\ Len(t) = Len(q) - 1 /\ \A i \in 1..Len(t) : t[i] = q[i + 1]
    BY <2>1, TailPlaces
  <2>3. ASSUME NEW i \in 1..Len(t), t[i] # Close
        PROVE  /\ c < t[i] /\ \A j \in 1..Len(p) : p[j] < t[i]
               /\ \A j \in 1..(i - 1) : t[j] # Close => t[j] < t[i]
    <3>1. i + 1 \in 1..Len(q) /\ t[i] = q[i + 1]
      BY <2>1, <2>2
    <3>2. /\ c < q[i + 1] /\ \A j \in 1..Len(p) : p[j] < q[i + 1]
          /\ \A j \in 1..i : q[j] # Close => q[j] < q[i + 1]
      BY <2>3, <3>1 DEF Follows
    <3> QED  BY <2>1, <2>2, <3>1, <3>2
  <2>4. Follows(c, p, t)
    BY <2>3 DEF Follows
  <2> QED  BY <1>1, <1>3, <2>2, <2>4 DEF Closed
<1> QED  BY <1>2, <1>3

\* ... and the arrival of the next event.
LEMMA ArrivalKeepsOrder ==
  ASSUME NEW c \in Int, NEW p \in Seq(Int), NEW q \in Seq(Int), NEW n \in Nat, c >= -1,
         Exactly(c, p, q, n)
  PROVE  Append(q, n) \in Seq(Int) /\ Exactly(c, p, Append(q, n), n + 1) /\ Follows(c, p, Append(q, n))
<1> n \in Int
  OBVIOUS
<1>1. PICK a \in Seq(Int) : /\ a = Append(q, n) /\ Len(a) = Len(q) + 1 /\ a[Len(q) + 1] = n
                            /\ \A i \in 1..Len(q) : a[i] = q[i]
  BY AppendPlaces, Zenon
<1>2. Len(p) \in Nat /\ Len(q) \in Nat /\ n = c + Len(p) + Len(q) + 1
  BY DEF Exactly
<1>3. \A i \in 1..Len(a) : a[i] = c + Len(p) + i
  <2>1. \A i \in 1..Len(a) : i = Len(q) + 1 \/ i \in 1..Len(q)
    BY <1>1, <1>2
  <2>2. \A i \in 1..Len(q) : a[i] = c + Len(p) + i
    BY <1>1 DEF Exactly
  <2> QED  BY <1>1, <1>2, <2>1, <2>2
<1>4. Exactly(c, p, a, n + 1)
  BY <1>1, <1>2, <1>3 DEF Exactly
<1>5. \A i \in 1..Len(p) : p[i] = c + i
  BY DEF Exactly
<1>6. Follows(c, p, a)
  <2>1. \A i \in 1..Len(p) : c < p[i] /\ \A j \in 1..(i - 1) : j \in 1..Len(p) /\ p[j] < p[i]
    BY <1>2, <1>5
  <2>2. ASSUME NEW i \in 1..Len(a)
        PROVE  c < a[i] /\ (\A j \in 1..Len(p) : p[j] < a[i]) /\ \A j \in 1..(i - 1) : a[j] < a[i]
    <3>1. a[i] = c + Len(p) + i
      BY <1>3
    <3>2. \A j \in 1..Len(p) : p[j] < a[i]
      BY <1>2, <1>5, <3>1
    <3>3. \A j \in 1..(i - 1) : j \in 1..Len(a) /\ a[j] < a[i]
      BY <1>1, <1>2, <1>3, <3>1
    <3> QED  BY <1>2, <3>1, <3>2, <3>3
  <2> QED  BY <2>1, <2>2 DEF Follows
<1> QED  BY <1>1, <1>4, <1>6, Zenon

\* What append does to the queue of a registered subscriber.
LEMMA OfferedKeepsOrder ==
  ASSUME JournalInv, NEW s \in subscribed, NEW last \in BOOLEAN
  PROVE  /\ Offered(s, Len(ending), last) \in Seq(Int)
         /\ Follows(cursor[s], Taken(s), Offered(s, Len(ending), last))
         /\ ~last /\ ~Full(s) => Exactly(cursor[s], Taken(s), Offered(s, Len(ending), last), Len(ending) + 1)
<1>1. PICK c \in Int, p \in Seq(Int), q \in Seq(Int), n \in Nat :
        c = cursor[s] /\ p = Taken(s) /\ q = queue[s] /\ n = Len(ending) /\ c >= -1
  <2>1. /\ delivered[s] \in Seq(Int) /\ initial[s] \in Seq(Int) /\ queue[s] \in Seq(Int)
        /\ cursor[s] \in Int /\ cursor[s] >= -1 /\ Len(ending) \in Nat
    BY DEF JournalInv, JournalTypeOK
  <2>2. Taken(s) \in Seq(Int)
    BY <2>1, ConcatProperties DEF Taken
  <2> QED  BY <2>1, <2>2, Zenon
<1>2. Follows(c, p, q) /\ Exactly(c, p, q, n)
  BY <1>1 DEF JournalInv, JournalTypeOK, Ordered, Complete
<1>3. Append(q, n) \in Seq(Int) /\ Exactly(c, p, Append(q, n), n + 1) /\ Follows(c, p, Append(q, n))
  BY <1>1, <1>2, ArrivalKeepsOrder
<1>4. PICK put \in Seq(Int) : /\ put = IF Full(s) THEN Closed(q) ELSE Append(q, n)
                              /\ Follows(c, p, put)
                              /\ ~Full(s) => Exactly(c, p, put, n + 1)
  BY <1>2, <1>3, ClosedKeepsOrder
<1>5. Offered(s, n, last) = IF last THEN Closed(put) ELSE put
  BY <1>1, <1>4, Zenon DEF Offered
<1>6. Closed(put) \in Seq(Int) /\ Follows(c, p, Closed(put))
  BY <1>4, ClosedKeepsOrder
<1>7. Offered(s, n, last) \in Seq(Int) /\ Follows(c, p, Offered(s, n, last))
      /\ (~last /\ ~Full(s) => Exactly(c, p, Offered(s, n, last), n + 1))
  BY <1>4, <1>5, <1>6, Zenon
<1> QED  BY <1>1, <1>7, Zenon

\* An event is appended and handed to the queues of the subscriptions.
LEMMA JournalAppend ==
  ASSUME JournalInv, NEW last \in BOOLEAN, AppendEvent(last)
  PROVE  JournalInv'
<1>1. UNCHANGED <<phase, cursor, initial, delivered>> /\ ending' = Append(ending, last)
      /\ subscribed' = (IF last THEN {} ELSE {s \in subscribed : ~Full(s)})
      /\ queue' = [s \in Subscriber |->
                     IF s \in subscribed THEN Offered(s, Len(ending), last) ELSE queue[s]]
  BY DEF AppendEvent
<1>2. ending' \in Seq(BOOLEAN) /\ Len(ending') = Len(ending) + 1
  BY <1>1 DEF JournalInv, JournalTypeOK
<1>3. \A s \in Subscriber : /\ queue'[s] = IF s \in subscribed THEN Offered(s, Len(ending), last) ELSE queue[s]
                            /\ Taken(s)' = Taken(s) /\ cursor'[s] = cursor[s]
  BY <1>1 DEF Taken
<1>4. JournalTypeOK'
  <2>1. queue' \in [Subscriber -> Seq(Int)]
    BY <1>1, OfferedKeepsOrder DEF JournalInv, JournalTypeOK
  <2> QED  BY <1>1, <1>2, <2>1 DEF JournalInv, JournalTypeOK
<1>5. NewHasNothing'
  BY <1>1, <1>3 DEF JournalInv, NewHasNothing
<1>6. Ordered'
  <2>1. ASSUME NEW s \in Subscriber
        PROVE  Follows(cursor[s], Taken(s), queue'[s])
    BY <1>3, OfferedKeepsOrder DEF JournalInv, Ordered
  <2> QED  BY <1>3, <2>1 DEF Ordered
<1>7. Complete'
  <2>1. ASSUME NEW s \in subscribed'
        PROVE  Exactly(cursor[s], Taken(s), queue'[s], Len(ending'))
    <3>1. s \in subscribed /\ s \in Subscriber /\ ~last /\ ~Full(s)
      BY <1>1 DEF JournalInv, JournalTypeOK
    <3> QED  BY <1>2, <1>3, <3>1, OfferedKeepsOrder
  <2>2. subscribed' \subseteq Subscriber
    BY <1>4 DEF JournalTypeOK
  <2> QED  BY <1>3, <2>1, <2>2 DEF Complete
<1> QED  BY <1>4, <1>5, <1>6, <1>7 DEF JournalInv

\* A step of one subscriber: what it leaves of the invariant to show.
LEMMA OnlyOne ==
  ASSUME JournalInv, JournalTypeOK', NEW s \in Subscriber, UNCHANGED ending,
         subscribed' \ {s} = subscribed \ {s},
         \A o \in Subscriber \ {s} : /\ phase'[o] = phase[o] /\ cursor'[o] = cursor[o]
                                     /\ initial'[o] = initial[o] /\ queue'[o] = queue[o]
                                     /\ delivered'[o] = delivered[o],
         phase'[s] # "new",
         Follows(cursor'[s], delivered'[s] \o initial'[s], queue'[s]),
         s \in subscribed' => Exactly(cursor'[s], delivered'[s] \o initial'[s], queue'[s], Len(ending))
  PROVE  JournalInv'
<1>1. NewHasNothing'
  BY DEF JournalInv, NewHasNothing
<1>2. Ordered'
  BY Zenon DEF JournalInv, Ordered, Taken
<1>3. Complete'
  <2>1. \A o \in subscribed' : o \in Subscriber /\ (o # s => o \in subscribed)
    BY DEF JournalTypeOK
  <2> QED  BY <2>1, Zenon DEF JournalInv, Complete, Taken
<1> QED  BY <1>1, <1>2, <1>3 DEF JournalInv

\* A subscription takes its replay and registers its queue in one step.
LEMMA JournalSubscribe ==
  ASSUME JournalInv, NEW s \in Subscriber, NEW after \in Cursor, Subscribe(s, after)
  PROVE  JournalInv'
<1> DEFINE over == \E i \in DOMAIN After(after) : Ends(After(after)[i])
<1>1. /\ phase[s] = "new" /\ after < Len(ending)
      /\ cursor' = [cursor EXCEPT ![s] = after]
      /\ initial' = [initial EXCEPT ![s] = After(after)]
      /\ phase' = [phase EXCEPT ![s] = IF over THEN "replayOnly" ELSE "replay"]
      /\ subscribed' = IF over THEN subscribed ELSE subscribed \cup {s}
      /\ UNCHANGED <<ending, queue, delivered>>
  BY DEF Subscribe
<1> HIDE DEF over
<1>2. after \in Int /\ after >= -1 /\ Len(ending) \in Nat
  BY JournalAssumption DEF JournalInv, JournalTypeOK
<1>3. PICK new \in Seq(Int) : /\ new = After(after) /\ Len(new) = Len(ending) - after - 1
                              /\ \A i \in 1..Len(new) : new[i] = after + i
  <2>1. Len(ending) - after - 1 \in Nat
    BY <1>1, <1>2
  <2>2. After(after) \in Seq(Int) /\ Len(After(after)) = Len(ending) - after - 1
    BY <1>2, <2>1 DEF After
  <2>3. \A i \in 1..Len(After(after)) : After(after)[i] = after + i
    BY <1>2, <2>2 DEF After
  <2> QED  BY <2>2, <2>3, Zenon
<1>4. JournalTypeOK'
  <2>1. cursor' \in [Subscriber -> Int] /\ \A o \in Subscriber : cursor'[o] >= -1
    BY <1>1, <1>2 DEF JournalInv, JournalTypeOK
  <2> QED  BY <1>1, <1>3, <2>1 DEF JournalInv, JournalTypeOK
<1>5. queue'[s] = <<>> /\ delivered'[s] = <<>> /\ cursor'[s] = after /\ initial'[s] = new
  BY <1>1, <1>3 DEF JournalInv, JournalTypeOK, NewHasNothing
<1>6. delivered'[s] \o initial'[s] = new
  BY <1>5, ConcatEmptySeq
<1>7. Follows(after, new, <<>>)
  <2>1. \A i \in 1..Len(new) : \A j \in 1..(i - 1) : j \in 1..Len(new)
    BY <1>3
  <2>2. \A i \in 1..Len(new) : after < new[i] /\ \A j \in 1..(i - 1) : new[j] < new[i]
    BY <1>2, <1>3, <2>1
  <2>3. 1..Len(<<>>) = {}
    OBVIOUS
  <2> QED  BY <2>2, <2>3, Zenon DEF Follows
<1>8. Exactly(after, new, <<>>, Len(ending))
  BY <1>2, <1>3 DEF Exactly
<1>9. \A o \in Subscriber \ {s} : /\ phase'[o] = phase[o] /\ cursor'[o] = cursor[o]
                                  /\ initial'[o] = initial[o] /\ queue'[o] = queue[o]
                                  /\ delivered'[o] = delivered[o]
  BY <1>1 DEF JournalInv, JournalTypeOK
<1>10. phase'[s] # "new" /\ subscribed' \ {s} = subscribed \ {s} /\ UNCHANGED ending
  BY <1>1 DEF JournalInv, JournalTypeOK
<1>11. /\ Follows(cursor'[s], delivered'[s] \o initial'[s], queue'[s])
       /\ s \in subscribed' => Exactly(cursor'[s], delivered'[s] \o initial'[s], queue'[s], Len(ending))
  BY <1>5, <1>6, <1>7, <1>8, Zenon
<1> QED  BY <1>4, <1>9, <1>10, <1>11, OnlyOne

\* A subscription yields an event, ends or is abandoned.
LEMMA JournalReads ==
  ASSUME JournalInv, NEW s \in Subscriber, Reads(s) \/ Disconnect(s)
  PROVE  JournalInv'
<1> USE DEF JournalInv, JournalTypeOK
<1>1. CASE YieldReplayed(s)
  <2>1. /\ phase[s] # "new" /\ initial[s] # <<>> /\ UNCHANGED <<ending, subscribed, phase, cursor, queue>>
        /\ delivered' = [delivered EXCEPT ![s] = Append(delivered[s], Head(initial[s]))]
        /\ initial' = [initial EXCEPT ![s] = Tail(initial[s])]
    BY <1>1 DEF YieldReplayed
  <2>2. /\ Tail(initial[s]) \in Seq(Int) /\ Append(delivered[s], Head(initial[s])) \in Seq(Int)
        /\ Append(delivered[s], Head(initial[s])) \o Tail(initial[s]) = delivered[s] \o initial[s]
    BY <2>1, MoveHead
  <2>3. JournalTypeOK'
    BY <2>1, <2>2
  <2>4. delivered'[s] = Append(delivered[s], Head(initial[s])) /\ initial'[s] = Tail(initial[s])
    BY <2>1
  <2>5. delivered'[s] \o initial'[s] = Taken(s)
    BY <2>2, <2>4 DEF Taken
  <2>6. \A o \in Subscriber \ {s} : /\ phase'[o] = phase[o] /\ cursor'[o] = cursor[o]
                                     /\ initial'[o] = initial[o] /\ queue'[o] = queue[o]
                                     /\ delivered'[o] = delivered[o]
    BY <2>1
  <2>7. phase'[s] # "new" /\ subscribed' \ {s} = subscribed \ {s} /\ UNCHANGED ending
    BY <2>1
  <2>8. /\ Follows(cursor'[s], delivered'[s] \o initial'[s], queue'[s])
        /\ s \in subscribed' => Exactly(cursor'[s], delivered'[s] \o initial'[s], queue'[s], Len(ending))
    BY <2>1, <2>5, Zenon DEF Ordered, Complete
  <2> HIDE DEF JournalInv, JournalTypeOK
  <2> QED  BY <2>3, <2>6, <2>7, <2>8, OnlyOne
<1>2. CASE YieldLive(s)
  <2>1. /\ phase[s] # "new" /\ initial[s] = <<>> /\ queue[s] # <<>> /\ Head(queue[s]) # Close
        /\ UNCHANGED <<ending, subscribed, phase, cursor, initial>>
        /\ delivered' = [delivered EXCEPT ![s] = Append(delivered[s], Head(queue[s]))]
        /\ queue' = [queue EXCEPT ![s] = Tail(queue[s])]
    BY <1>2 DEF YieldLive
  <2>2. /\ Tail(queue[s]) \in Seq(Int) /\ Append(delivered[s], Head(queue[s])) \in Seq(Int)
        /\ Head(queue[s]) = queue[s][1]
    BY <2>1, MoveHead
  <2>3. JournalTypeOK'
    BY <2>1, <2>2
  <2>4. delivered'[s] = Append(delivered[s], queue[s][1]) /\ queue'[s] = Tail(queue[s]) /\ initial'[s] = <<>>
    BY <2>1, <2>2
  <2>5. delivered'[s] \o initial'[s] = Append(delivered[s], queue[s][1]) /\ Taken(s) = delivered[s]
    BY <2>1, <2>2, <2>4, ConcatEmptySeq DEF Taken
  <2>6. Follows(cursor[s], delivered[s], queue[s])
    BY <2>5 DEF Ordered
  <2>7. /\ Follows(cursor[s], Append(delivered[s], queue[s][1]), Tail(queue[s]))
        /\ \A n \in Int : Exactly(cursor[s], delivered[s], queue[s], n) =>
                            Exactly(cursor[s], Append(delivered[s], queue[s][1]), Tail(queue[s]), n)
    BY <2>1, <2>2, <2>6, MoveKeepsOrder
  <2>8. s \in subscribed => Exactly(cursor[s], Append(delivered[s], queue[s][1]), Tail(queue[s]), Len(ending))
    <3>1. Len(ending) \in Int
      OBVIOUS
    <3> QED  BY <2>5, <2>7, <3>1 DEF Complete
  <2>9. \A o \in Subscriber \ {s} : /\ phase'[o] = phase[o] /\ cursor'[o] = cursor[o]
                                     /\ initial'[o] = initial[o] /\ queue'[o] = queue[o]
                                     /\ delivered'[o] = delivered[o]
    BY <2>1
  <2>10. phase'[s] # "new" /\ subscribed' \ {s} = subscribed \ {s} /\ UNCHANGED ending
    BY <2>1
  <2>11. /\ Follows(cursor'[s], delivered'[s] \o initial'[s], queue'[s])
         /\ s \in subscribed' => Exactly(cursor'[s], delivered'[s] \o initial'[s], queue'[s], Len(ending))
    BY <2>1, <2>4, <2>5, <2>7, <2>8, Zenon
  <2> HIDE DEF JournalInv, JournalTypeOK
  <2> QED  BY <2>3, <2>9, <2>10, <2>11, OnlyOne
<1>3. CASE Finish(s) \/ Disconnect(s)
  <2>1. /\ UNCHANGED <<ending, cursor, initial, queue, delivered>> /\ subscribed' = subscribed \ {s}
        /\ phase' = [phase EXCEPT ![s] = phase'[s]] /\ phase'[s] \in {"ended", "left"}
    BY <1>3 DEF Finish, Disconnect
  <2>2. JournalTypeOK'
    BY <2>1
  <2>3. \A o \in Subscriber \ {s} : /\ phase'[o] = phase[o] /\ cursor'[o] = cursor[o]
                                     /\ initial'[o] = initial[o] /\ queue'[o] = queue[o]
                                     /\ delivered'[o] = delivered[o]
    BY <2>1
  <2>4. phase'[s] # "new" /\ subscribed' \ {s} = subscribed \ {s} /\ UNCHANGED ending /\ s \notin subscribed'
    BY <2>1
  <2>5. Follows(cursor'[s], delivered'[s] \o initial'[s], queue'[s])
    BY <2>1, Zenon DEF Ordered, Taken
  <2> HIDE DEF JournalInv, JournalTypeOK
  <2> QED  BY <2>2, <2>3, <2>4, <2>5, OnlyOne
<1> QED  BY <1>1, <1>2, <1>3 DEF Reads

\* Every step of the journal keeps the invariant.
LEMMA JournalStep == JournalInv /\ [Next]_vars => JournalInv'
<1> SUFFICES ASSUME JournalInv, [Next]_vars PROVE JournalInv'
  OBVIOUS
<1>1. CASE UNCHANGED vars
  BY <1>1 DEF vars, JournalInv, JournalTypeOK, NewHasNothing, Ordered, Complete, Taken
<1>2. CASE Next
  BY <1>2, JournalAppend, JournalSubscribe, JournalReads DEF Next
<1> QED  BY <1>1, <1>2

\* Whatever is appended while a subscriber replays, reads or falls behind, it
\* gets the events after its cursor in order, and all of them as long as it is
\* registered.
THEOREM HandOverIsExact == Spec => []HandOverExact
<1>1. Init => JournalInv
  BY JournalInit
<1>2. JournalInv => HandOverExact
  BY JournalInvImplies
<1> QED  BY <1>1, <1>2, JournalStep, PTL DEF Spec

\* A queue that ends with None.
EndsClosed(q) == q # <<>> /\ q[Len(q)] = Close

\* No queue grows past its size.  A subscription that reads on is registered,
\* and then the run did not end after its cursor, or its queue holds the None
\* that will end it, also when it was too slow and its queue was full.
StreamCanEnd ==
  \A s \in Subscriber :
    /\ Len(queue[s]) <= queue_size
    /\ phase[s] = "replay" =>
         IF s \in subscribed THEN \A n \in DOMAIN ending : ending[n] => n - 1 <= cursor[s]
         ELSE EndsClosed(queue[s])

\* Closing a queue puts None at its end and makes room for it.
LEMMA ClosedEnds ==
  ASSUME NEW q \in Seq(Int), Len(q) <= queue_size
  PROVE  Closed(q) \in Seq(Int) /\ Len(Closed(q)) <= queue_size /\ EndsClosed(Closed(q))
<1>0. queue_size \in Nat /\ queue_size >= 1 /\ Close \in Int /\ Len(q) \in Nat
  BY JournalAssumption DEF Close
<1>1. ASSUME NEW r \in Seq(Int), Len(r) < queue_size
      PROVE  Append(r, Close) \in Seq(Int) /\ Len(Append(r, Close)) <= queue_size /\ EndsClosed(Append(r, Close))
  <2>1. PICK a \in Seq(Int) : a = Append(r, Close) /\ Len(a) = Len(r) + 1 /\ a[Len(r) + 1] = Close
    BY <1>0, AppendPlaces
  <2>2. Len(r) \in Nat /\ Len(a) <= queue_size /\ Len(a) # 0
    BY <1>0, <1>1, <2>1
  <2> QED  BY <2>1, <2>2 DEF EndsClosed
<1>2. CASE Len(q) < queue_size
  BY <1>1, <1>2 DEF Closed
<1>3. CASE ~(Len(q) < queue_size)
  <2>1. q # <<>>
    BY <1>0, <1>3
  <2>2. PICK t \in Seq(Int) : t = Tail(q) /\ Len(t) = Len(q) - 1
    BY <2>1, TailPlaces
  <2>3. Len(t) < queue_size
    BY <1>0, <2>2
  <2> QED  BY <1>1, <1>3, <2>2, <2>3 DEF Closed
<1> QED  BY <1>2, <1>3

\* What append leaves in the queue of a registered subscription.
LEMMA OfferedEnds ==
  ASSUME NEW s \in Subscriber, queue[s] \in Seq(Int), Len(queue[s]) <= queue_size,
         NEW event \in Int, NEW last \in BOOLEAN
  PROVE  /\ Len(Offered(s, event, last)) <= queue_size
         /\ last \/ Full(s) => EndsClosed(Offered(s, event, last))
<1> DEFINE put == IF Full(s) THEN Closed(queue[s]) ELSE Append(queue[s], event)
<1>1. put \in Seq(Int) /\ Len(put) <= queue_size /\ (Full(s) => EndsClosed(put))
  <2>1. CASE Full(s)
    BY <2>1, ClosedEnds
  <2>2. CASE ~Full(s)
    <3>1. PICK a \in Seq(Int) : a = Append(queue[s], event) /\ Len(a) = Len(queue[s]) + 1
      BY AppendPlaces
    <3>2. Len(a) <= queue_size
      BY <2>2, <3>1, JournalAssumption DEF Full
    <3> QED  BY <2>2, <3>1, <3>2
  <2> QED  BY <2>1, <2>2
<1>2. Offered(s, event, last) = IF last THEN Closed(put) ELSE put
  BY DEF Offered
<1> HIDE DEF put
<1> QED  BY <1>1, <1>2, ClosedEnds

\* An event is appended: the queues it closes are no longer registered.
LEMMA AppendLetsEnd ==
  ASSUME JournalInv, StreamCanEnd, NEW last \in BOOLEAN, AppendEvent(last)
  PROVE  StreamCanEnd'
<1>1. UNCHANGED <<phase, cursor>> /\ ending' = Append(ending, last)
      /\ subscribed' = (IF last THEN {} ELSE {s \in subscribed : ~Full(s)})
      /\ queue' = [s \in Subscriber |->
                     IF s \in subscribed THEN Offered(s, Len(ending), last) ELSE queue[s]]
  BY DEF AppendEvent
<1>2. ending \in Seq(BOOLEAN) /\ Len(ending) \in Int /\ \A s \in Subscriber : queue[s] \in Seq(Int)
  BY DEF JournalInv, JournalTypeOK
<1>3. ASSUME NEW s \in Subscriber
      PROVE  /\ Len(queue'[s]) <= queue_size
             /\ s \in subscribed /\ (last \/ Full(s)) => EndsClosed(queue'[s])
  BY <1>1, <1>2, OfferedEnds DEF StreamCanEnd
<1>4. ASSUME NEW s \in Subscriber, phase[s] = "replay", s \in subscribed',
             NEW n \in DOMAIN ending', ending'[n]
      PROVE  n - 1 <= cursor[s]
  <2>1. s \in subscribed /\ ~last
    BY <1>1, <1>4
  <2>2. n \in DOMAIN ending /\ ending[n]
    BY <1>1, <1>2, <1>4, <2>1
  <2> QED  BY <1>4, <2>1, <2>2 DEF StreamCanEnd
<1>5. ASSUME NEW s \in Subscriber, phase[s] = "replay", s \notin subscribed'
      PROVE  EndsClosed(queue'[s])
  <2>1. CASE s \in subscribed
    BY <1>1, <1>3, <1>5, <2>1
  <2>2. CASE s \notin subscribed
    BY <1>1, <1>5, <2>2 DEF StreamCanEnd
  <2> QED  BY <2>1, <2>2
<1> QED  BY <1>1, <1>3, <1>4, <1>5 DEF StreamCanEnd

\* A subscription registers only for a run that has not ended since its
\* cursor.
LEMMA SubscribeLetsEnd ==
  ASSUME JournalInv, StreamCanEnd, NEW s \in Subscriber, NEW after \in Cursor, Subscribe(s, after)
  PROVE  StreamCanEnd'
<1> DEFINE over == \E i \in DOMAIN After(after) : Ends(After(after)[i])
<1>1. /\ phase[s] = "new" /\ after < Len(ending)
      /\ cursor' = [cursor EXCEPT ![s] = after]
      /\ phase' = [phase EXCEPT ![s] = IF over THEN "replayOnly" ELSE "replay"]
      /\ subscribed' = IF over THEN subscribed ELSE subscribed \cup {s}
      /\ UNCHANGED <<ending, queue>>
  BY DEF Subscribe
<1>2. /\ after \in Int /\ after >= -1 /\ Len(ending) \in Nat /\ DOMAIN ending = 1..Len(ending)
      /\ phase \in [Subscriber -> {"new", "replay", "replayOnly", "ended", "left"}]
      /\ cursor \in [Subscriber -> Int]
  BY JournalAssumption DEF JournalInv, JournalTypeOK
<1>3. ASSUME ~over, NEW n \in DOMAIN ending, ending[n], after < n - 1
      PROVE  FALSE
  <2>1. n - 1 - after \in 1..(Len(ending) - after - 1)
    BY <1>2, <1>3
  <2>2. n - 1 - after \in DOMAIN After(after) /\ After(after)[n - 1 - after] = n - 1
    BY <1>2, <2>1 DEF After
  <2>3. Ends(n - 1)
    BY <1>2, <1>3 DEF Ends
  <2> QED  BY <1>3, <2>2, <2>3
<1>4. over \/ \A n \in DOMAIN ending : ending[n] => n - 1 <= after
  BY <1>2, <1>3
<1> HIDE DEF over
<1>5. cursor'[s] = after /\ phase'[s] = (IF over THEN "replayOnly" ELSE "replay")
      /\ (~over => s \in subscribed')
  BY <1>1, <1>2
<1>6. \A o \in Subscriber \ {s} : /\ cursor'[o] = cursor[o] /\ phase'[o] = phase[o]
                                  /\ o \in subscribed' <=> o \in subscribed
  BY <1>1, <1>2
<1>7. ASSUME NEW o \in Subscriber, phase'[o] = "replay"
      PROVE  IF o \in subscribed' THEN \A n \in DOMAIN ending : ending[n] => n - 1 <= cursor'[o]
             ELSE EndsClosed(queue[o])
  <2>1. CASE o = s
    BY <1>4, <1>5, <1>7, <2>1
  <2>2. CASE o # s
    BY <1>6, <1>7, <2>2 DEF StreamCanEnd
  <2> QED  BY <2>1, <2>2
<1> QED  BY <1>1, <1>7 DEF StreamCanEnd

\* A subscription takes what is before the None.
LEMMA ReadsLetEnd ==
  ASSUME JournalInv, StreamCanEnd, NEW s \in Subscriber, Reads(s) \/ Disconnect(s)
  PROVE  StreamCanEnd'
<1>0. /\ queue \in [Subscriber -> Seq(Int)] /\ queue_size \in Nat
      /\ phase \in [Subscriber -> {"new", "replay", "replayOnly", "ended", "left"}]
  BY JournalAssumption DEF JournalInv, JournalTypeOK
<1>1. CASE YieldReplayed(s)
  BY <1>1 DEF YieldReplayed, StreamCanEnd
<1>2. CASE YieldLive(s)
  <2>1. /\ queue[s] # <<>> /\ Head(queue[s]) # Close /\ UNCHANGED <<ending, subscribed, phase, cursor>>
        /\ queue' = [queue EXCEPT ![s] = Tail(queue[s])]
    BY <1>2 DEF YieldLive
  <2>2. Head(queue[s]) = queue[s][1]
    BY <1>0, <2>1, MoveHead
  <2>3. PICK t \in Seq(Int) : t = Tail(queue[s]) /\ Len(t) = Len(queue[s]) - 1
                              /\ \A i \in 1..Len(t) : t[i] = queue[s][i + 1]
    BY <1>0, <2>1, TailPlaces
  <2>4. Len(t) <= queue_size
    BY <1>0, <2>3 DEF StreamCanEnd
  <2>5. ASSUME EndsClosed(queue[s]) PROVE EndsClosed(t)
    <3>1. Len(queue[s]) \in Nat /\ queue[s][1] # Close /\ queue[s][Len(queue[s])] = Close
      BY <1>0, <2>1, <2>2, <2>5 DEF EndsClosed
    <3>2. Len(queue[s]) # 1 /\ Len(queue[s]) # 0
      BY <1>0, <2>1, <3>1
    <3>3. Len(t) \in 1..Len(t) /\ Len(t) + 1 = Len(queue[s])
      BY <2>3, <3>1, <3>2
    <3>4. t[Len(t)] = queue[s][Len(t) + 1]
      BY <2>3, <3>3
    <3>5. t[Len(t)] = Close
      BY <3>1, <3>3, <3>4
    <3>6. t # <<>>
      BY <3>3
    <3> QED  BY <3>5, <3>6 DEF EndsClosed
  <2>6. \A o \in Subscriber : queue'[o] = IF o = s THEN t ELSE queue[o]
    BY <1>0, <2>1, <2>3
  <2> QED  BY <2>1, <2>4, <2>5, <2>6 DEF StreamCanEnd
<1>3. CASE Finish(s) \/ Disconnect(s)
  <2>1. /\ UNCHANGED <<ending, cursor, queue>> /\ subscribed' = subscribed \ {s}
        /\ phase' = [phase EXCEPT ![s] = phase'[s]] /\ phase'[s] # "replay"
    BY <1>0, <1>3 DEF Finish, Disconnect
  <2>2. \A o \in Subscriber \ {s} : phase'[o] = phase[o] /\ (o \in subscribed' <=> o \in subscribed)
    BY <1>0, <2>1
  <2> QED  BY <2>1, <2>2 DEF StreamCanEnd
<1> QED  BY <1>1, <1>2, <1>3 DEF Reads

\* What StreamEnds needs of every state: no subscription of the journal in
\* memory waits for an event on an abandoned queue, or on a run that ended
\* after its cursor.
THEOREM StreamsCanEnd == Spec => []StreamCanEnd
<1>1. Init => JournalInv /\ StreamCanEnd
  <2>1. Len(<<>>) = 0 /\ 0 <= queue_size
    BY JournalAssumption
  <2>2. Init => \A s \in Subscriber : queue[s] = <<>> /\ phase[s] # "replay"
    BY DEF Init
  <2>3. Init => StreamCanEnd
    BY <2>1, <2>2 DEF StreamCanEnd
  <2> QED  BY <2>3, JournalInit
<1>2. ASSUME JournalInv, StreamCanEnd, [Next]_vars
      PROVE  StreamCanEnd'
  <2>1. CASE UNCHANGED vars
    BY <1>2, <2>1 DEF vars, StreamCanEnd
  <2>2. CASE Next
    BY <1>2, <2>2, AppendLetsEnd, SubscribeLetsEnd, ReadsLetEnd DEF Next
  <2> QED  BY <1>2, <2>1, <2>2
<1> QED  BY <1>1, <1>2, JournalStep, PTL DEF Spec

-----------------------------------------------------------------------------
(* The projector: it has recorded the events up to that of its projection, *)
(* and the projection tells what they say.                                 *)

Told == {"pending", "running", "success", "cancelled", "error", "timeout"}
Shown == [status : Told, sequence : Int]

ProjectorTypeOK ==
  /\ projection \in Shown /\ sink \in [1..Sinks -> Shown]
  /\ projection.sequence >= -1
  /\ expected = projection.sequence + 1
  /\ writing \in 0..Sinks

ProjectorInv ==
  /\ ProjectorTypeOK
  /\ inbox = 0..projection.sequence
  /\ Projector!Tells(projection.status, projection.sequence)
  /\ \A i \in 1..Sinks : /\ Projector!Tells(sink[i].status, sink[i].sequence)
                         /\ i \notin missed => sink[i] = projection

\* Before the first event there is nothing to tell.
LEMMA NothingToTell == Projector!Tells("pending", -1)
<1>1. 1..(-1 + 1) = {}
  OBVIOUS
<1> QED  BY <1>1 DEF Projector!Tells

\* A projection of the run as it was created.
LEMMA ProjectorInit ==
  ASSUME Projector!Init
  PROVE  ProjectorInv
<1> USE DEF Projector!Init, Projector!Pending
<1>1. projection = [status |-> "pending", sequence |-> -1] /\ sink = [i \in 1..Sinks |-> projection]
      /\ inbox = {} /\ expected = 0 /\ writing = 0
  OBVIOUS
<1>2. projection \in Shown /\ projection.sequence = -1 /\ projection.status = "pending"
  BY <1>1 DEF Shown, Told
<1>3. 0..-1 = {} /\ 0 \in 0..Sinks
  BY LimitsAssumption
<1>4. ProjectorTypeOK
  BY <1>1, <1>2, <1>3 DEF ProjectorTypeOK
<1> QED  BY <1>1, <1>2, <1>3, <1>4, NothingToTell DEF ProjectorInv

\* The next event makes the status tell one event more.
LEMMA TellsNext ==
  ASSUME NEW status \in Told, NEW n \in Int, n >= 0, Projector!Tells(status, n - 1)
  PROVE  /\ Projector!Tells(Projector!Projected(status, journal[n + 1]), n)
         /\ Projector!Projected(status, journal[n + 1]) \in Told
<1>1. CASE journal[n + 1] \in Projector!Telling
  <2>1. Projector!Projected(status, journal[n + 1]) = Projector!Projected("pending", journal[n + 1])
        /\ Projector!Projected(status, journal[n + 1]) \in Told
    <3>1. journal[n + 1] = "run.started" \/ journal[n + 1] = "run.completed" \/ journal[n + 1] = "run.cancelled"
          \/ journal[n + 1] = "run.failed" \/ journal[n + 1] = "run.timeout"
      BY <1>1, Zenon DEF Projector!Telling
    <3> QED  BY <3>1 DEF Projector!Projected, Told
  <2>2. n + 1 \in 1..(n + 1) /\ (n + 1 + 1)..(n + 1) = {}
    OBVIOUS
  <2> QED  BY <1>1, <2>1, <2>2, Zenon DEF Projector!Tells
<1>2. CASE journal[n + 1] \notin Projector!Telling
  <2>1. Projector!Projected(status, journal[n + 1]) = status
    BY <1>2 DEF Projector!Telling, Projector!Projected
  <2>2. CASE status = "pending" /\ \A i \in 1..(n - 1 + 1) : journal[i] \notin Projector!Telling
    <3>1. \A i \in 1..(n + 1) : i = n + 1 \/ i \in 1..(n - 1 + 1)
      OBVIOUS
    <3>2. \A i \in 1..(n + 1) : journal[i] \notin Projector!Telling
      BY <1>2, <2>2, <3>1, Zenon
    <3> QED  BY <2>1, <2>2, <3>2, Zenon DEF Projector!Tells
  <2>3. ASSUME NEW i \in 1..(n - 1 + 1), journal[i] \in Projector!Telling,
               status = Projector!Projected("pending", journal[i]),
               \A j \in (i + 1)..(n - 1 + 1) : journal[j] \notin Projector!Telling
        PROVE  Projector!Tells(status, n)
    <3>1. i \in 1..(n + 1) /\ \A j \in (i + 1)..(n + 1) : j = n + 1 \/ j \in (i + 1)..(n - 1 + 1)
      OBVIOUS
    <3>2. \A j \in (i + 1)..(n + 1) : journal[j] \notin Projector!Telling
      BY <1>2, <2>3, <3>1, Zenon
    <3> QED  BY <2>3, <3>1, <3>2, Zenon DEF Projector!Tells
  <2> QED  BY <2>1, <2>2, <2>3, Zenon DEF Projector!Tells
<1> QED  BY <1>1, <1>2

\* Events handled in any order, and sinks that fail, keep the projection true.
LEMMA ProjectorStep ==
  ASSUME ProjectorInv, [Projector!Next]_projectorVars
  PROVE  ProjectorInv'
<1> USE LimitsAssumption DEF ProjectorInv, ProjectorTypeOK
<1>1. ASSUME NEW n \in 0..(Len(journal) - 1), Projector!Handle(n)
      PROVE  ProjectorInv'
  <2>1. n = expected /\ n \in Int /\ n >= 0 /\ n - 1 = projection.sequence /\ expected' = n + 1
        /\ inbox' = inbox \cup {n} /\ missed' = 1..Sinks /\ writing' = 1
        /\ UNCHANGED <<journal, sink>>
    BY <1>1 DEF Projector!Handle, Projector!InOrder, Shown
  <2>2. PICK new \in Told : new = Projector!Projected(projection.status, journal[n + 1]) /\ Projector!Tells(new, n)
    BY <2>1, TellsNext DEF Shown
  <2>3. projection' = [status |-> new, sequence |-> n]
    BY <1>1, <2>2 DEF Projector!Handle
  <2>4. projection' \in Shown /\ projection'.status = new /\ projection'.sequence = n
    BY <2>1, <2>3 DEF Shown
  <2>5. inbox' = 0..n
    BY <2>1
  <2> QED  BY <2>1, <2>2, <2>4, <2>5 DEF Projector!Tells
<1>2. CASE Projector!SinkWrites
  <2>1. /\ writing \in 1..Sinks /\ sink' = [sink EXCEPT ![writing] = projection]
        /\ missed' = missed \ {writing} /\ writing' \in 0..Sinks
        /\ UNCHANGED <<journal, inbox, expected, projection>>
    BY <1>2 DEF Projector!SinkWrites
  <2> QED  BY <2>1 DEF Projector!Tells
<1>3. CASE Projector!SinkFails
  BY <1>3 DEF Projector!SinkFails, Projector!Tells
<1>4. CASE Projector!Restart
  <2>1. /\ projection' = [status |-> "pending", sequence |-> -1] /\ inbox' = {} /\ expected' = 0
        /\ writing' = 0 /\ missed' = 1..Sinks /\ UNCHANGED <<journal, sink>>
    BY <1>4 DEF Projector!Restart, Projector!Pending
  <2>2. projection' \in Shown /\ projection'.status = "pending" /\ projection'.sequence = -1 /\ 0..-1 = {}
    BY <2>1 DEF Shown, Told
  <2>3. Projector!Tells("pending", -1)'
    <3>1. 1..(-1 + 1) = {}
      OBVIOUS
    <3> QED  BY <3>1, Zenon DEF Projector!Tells
  <2> QED  BY <2>1, <2>2, <2>3 DEF Projector!Tells
<1>5. CASE UNCHANGED projectorVars
  BY <1>5 DEF projectorVars, Projector!Tells
<1> QED  BY <1>1, <1>2, <1>3, <1>4, <1>5 DEF Projector!Next

\* Whatever events are repeated or skipped, whichever sinks fail and however
\* often the projector is restarted, what a sink shows is what the journal
\* says up to the event it shows.
THEOREM SinksAreTrue == Projector!Spec => []SinksTellJournal
<1>1. Projector!Init => ProjectorInv
  BY ProjectorInit
<1>2. ProjectorInv /\ [Projector!Next]_projectorVars => ProjectorInv'
  BY ProjectorStep
<1>3. ProjectorInv => SinksTellJournal
  BY DEF ProjectorInv, SinksTellJournal, Projector!SinksTellJournal
<1> QED  BY <1>1, <1>2, <1>3, PTL DEF Projector!Spec, Projector!vars, projectorVars

-----------------------------------------------------------------------------
(* The batcher: every event is written, collected, in the hands of the     *)
(* writer, owed by the add() that holds the lock, or lost.                 *)

Event == [id : Nat, size : Nat, ending : BOOLEAN]
Batches == Seq(Event)

\* The running total of a batch, within max_bytes, comes to n.
FitsTo(b, n) ==
  \E total \in [0..Len(b) -> 0..BatchBytes] :
    /\ total[0] = 0 /\ total[Len(b)] = n
    /\ \A i \in DOMAIN b : total[i] = total[i - 1] + b[i].size

\* What is true of the batch ev that is collected, its size n, the batch
\* hand that the writer has, the ids owed, and the batches wr written and ids
\* lo lost so far, after ad events.
OrderKept(ev, hand, wr) ==
  /\ Batcher!Ascending(ev) /\ Batcher!Ascending(hand)
  /\ \A i \in DOMAIN wr : /\ Batcher!Ascending(wr[i])
                          /\ Batcher!Before(wr[i], ev) /\ Batcher!Before(wr[i], hand)
                          /\ \A j \in DOMAIN wr : i < j => Batcher!Before(wr[i], wr[j])

AllAccounted(ev, hand, owed, wr, lo, ad) ==
  /\ Batcher!WrittenIds(wr) \cup Batcher!Ids(ev) \cup Batcher!Ids(hand) \cup lo \cup owed = 1..ad
  /\ (Batcher!WrittenIds(wr) \cup Batcher!Ids(ev) \cup Batcher!Ids(hand)) \cap owed = {}

LimitsKept(ev, n, hand, wr) ==
  /\ IF n <= BatchBytes THEN FitsTo(ev, n) ELSE Len(ev) = 1
  /\ Len(ev) <= BatchEvents
  /\ hand = <<>> \/ Batcher!WithinLimits(hand)
  /\ \A i \in DOMAIN wr : Batcher!WithinLimits(wr[i])

Books(ev, n, hand, owed, wr, lo, ad) ==
  /\ OrderKept(ev, hand, wr)
  /\ AllAccounted(ev, hand, owed, wr, lo, ad)
  /\ LimitsKept(ev, n, hand, wr)
  /\ \A i \in DOMAIN ev : ~ev[i].ending

\* An empty batch has no ids, no order and no size.
LEMMA EmptyBatch ==
  /\ <<>> \in Batches /\ Batcher!Ids(<<>>) = {} /\ Batcher!Ascending(<<>>)
  /\ \A b : Batcher!Before(b, <<>>)
  /\ FitsTo(<<>>, 0)
<1>1. DOMAIN <<>> = {} /\ Len(<<>>) = 0
  OBVIOUS
<1>2. <<>> \in Batches
  BY DEF Batches
<1>3. Batcher!Ids(<<>>) = {} /\ Batcher!Ascending(<<>>) /\ \A b : Batcher!Before(b, <<>>)
  BY <1>1, Zenon DEF Batcher!Ids, Batcher!Ascending, Batcher!Before
<1>4. FitsTo(<<>>, 0)
  <2>1. [i \in 0..0 |-> 0] \in [0..0 -> 0..BatchBytes] /\ [i \in 0..0 |-> 0][0] = 0
    BY LimitsAssumption
  <2> QED  BY <1>1, <2>1, Zenon DEF FitsTo
<1> QED  BY <1>2, <1>3, <1>4

\* What an event adds to a batch.
LEMMA BatchAppend ==
  ASSUME NEW b \in Batches, NEW e \in Event
  PROVE  \E a \in Batches :
           /\ a = Append(b, e) /\ Len(a) = Len(b) + 1 /\ DOMAIN a = 1..(Len(b) + 1) /\ DOMAIN b = 1..Len(b)
           /\ a[Len(b) + 1] = e /\ \A i \in 1..Len(b) : a[i] = b[i]
<1>1. /\ Append(b, e) \in Batches /\ Len(Append(b, e)) = Len(b) + 1 /\ Append(b, e)[Len(b) + 1] = e
      /\ \A i \in 1..Len(b) : Append(b, e)[i] = b[i]
  BY AppendProperties DEF Batches
<1>2. DOMAIN Append(b, e) = 1..(Len(b) + 1) /\ DOMAIN b = 1..Len(b)
  BY <1>1 DEF Batches
<1> QED  BY <1>1, <1>2, Zenon

\* The events of a longer batch.
LEMMA IdsAppend ==
  ASSUME NEW b \in Batches, NEW e \in Event
  PROVE  Batcher!Ids(Append(b, e)) = Batcher!Ids(b) \cup {e.id}
<1>1. PICK a \in Batches :
        /\ a = Append(b, e) /\ DOMAIN a = 1..(Len(b) + 1) /\ DOMAIN b = 1..Len(b)
        /\ a[Len(b) + 1] = e /\ \A i \in 1..Len(b) : a[i] = b[i]
  BY BatchAppend
<1>2. Len(b) \in Nat
  BY DEF Batches
<1>3. \A i : i \in 1..(Len(b) + 1) <=> i = Len(b) + 1 \/ i \in 1..Len(b)
  BY <1>2
<1>4. Batcher!Ids(a) = Batcher!Ids(b) \cup {e.id}
  BY <1>1, <1>3, Zenon DEF Batcher!Ids
<1> QED  BY <1>1, <1>4, Zenon

\* One batch comes before another when all its events do.
LEMMA BeforeIsOfIds ==
  ASSUME NEW a \in Batches, NEW b \in Batches
  PROVE  Batcher!Before(a, b) <=> \A x \in Batcher!Ids(a), y \in Batcher!Ids(b) : x < y
BY Zenon DEF Batcher!Before, Batcher!Ids

\* A later event keeps a batch in order.
LEMMA AscendingAppend ==
  ASSUME NEW b \in Batches, NEW e \in Event, Batcher!Ascending(b), \A x \in Batcher!Ids(b) : x < e.id
  PROVE  Batcher!Ascending(Append(b, e))
<1>1. PICK a \in Batches :
        /\ a = Append(b, e) /\ DOMAIN a = 1..(Len(b) + 1) /\ DOMAIN b = 1..Len(b)
        /\ a[Len(b) + 1] = e /\ \A i \in 1..Len(b) : a[i] = b[i]
  BY BatchAppend
<1>2. Len(b) \in Nat
  BY DEF Batches
<1>3. \A i \in 1..Len(b) : b[i].id < e.id
  BY <1>1, Zenon DEF Batcher!Ids
<1>4. ASSUME NEW i \in 1..(Len(b) + 1), NEW j \in 1..(Len(b) + 1), i < j
      PROVE  a[i].id < a[j].id
  <2>1. i \in 1..Len(b) /\ (j = Len(b) + 1 \/ j \in 1..Len(b))
    BY <1>2, <1>4
  <2> QED  BY <1>1, <1>3, <1>4, <2>1, Zenon DEF Batcher!Ascending
<1> QED  BY <1>1, <1>4, Zenon DEF Batcher!Ascending

\* An event that fits keeps a batch within its limits.
LEMMA FitsAppend ==
  ASSUME NEW b \in Batches, NEW e \in Event, NEW n \in Nat, FitsTo(b, n), n + e.size <= BatchBytes
  PROVE  FitsTo(Append(b, e), n + e.size)
<1>1. PICK a \in Batches :
        /\ a = Append(b, e) /\ Len(a) = Len(b) + 1 /\ DOMAIN a = 1..(Len(b) + 1) /\ DOMAIN b = 1..Len(b)
        /\ a[Len(b) + 1] = e /\ \A i \in 1..Len(b) : a[i] = b[i]
  BY BatchAppend
<1>2. Len(b) \in Nat /\ e.size \in Nat /\ n + e.size \in 0..BatchBytes
  BY LimitsAssumption DEF Batches, Event
<1>3. PICK total \in [0..Len(b) -> 0..BatchBytes] :
        /\ total[0] = 0 /\ total[Len(b)] = n
        /\ \A i \in DOMAIN b : total[i] = total[i - 1] + b[i].size
  BY DEF FitsTo
<1>4. PICK more : more = [i \in 0..(Len(b) + 1) |-> IF i = Len(b) + 1 THEN n + e.size ELSE total[i]]
  OBVIOUS
<1>5. more \in [0..Len(a) -> 0..BatchBytes] /\ more[0] = 0 /\ more[Len(a)] = n + e.size
  BY <1>1, <1>2, <1>3, <1>4
<1>6. ASSUME NEW i \in DOMAIN a
      PROVE  more[i] = more[i - 1] + a[i].size
  <2>1. CASE i = Len(b) + 1
    <3>1. i \in 0..(Len(b) + 1) /\ i - 1 = Len(b) /\ Len(b) \in 0..(Len(b) + 1) /\ Len(b) # Len(b) + 1
      BY <1>2, <2>1
    <3>2. more[i] = n + e.size /\ more[Len(b)] = n
      BY <1>3, <1>4, <2>1, <3>1
    <3> QED  BY <1>1, <2>1, <3>1, <3>2
  <2>2. CASE i # Len(b) + 1
    <3>1. i \in 1..Len(b) /\ i \in DOMAIN b /\ i \in 0..(Len(b) + 1) /\ i - 1 \in 0..(Len(b) + 1)
          /\ i - 1 # Len(b) + 1
      BY <1>1, <1>2, <2>2
    <3>2. more[i] = total[i] /\ more[i - 1] = total[i - 1]
      BY <1>4, <2>2, <3>1
    <3> QED  BY <1>1, <1>3, <3>1, <3>2
  <2> QED  BY <2>1, <2>2
<1>7. FitsTo(a, n + e.size)
  BY <1>5, <1>6, Zenon DEF FitsTo
<1> QED  BY <1>1, <1>7, Zenon

\* A new event is owed.
LEMMA BooksEnter ==
  ASSUME NEW ev \in Batches, NEW n \in Nat, NEW wr \in Seq(Batches), NEW lo, NEW ad \in Nat,
         Books(ev, n, <<>>, {}, wr, lo, ad)
  PROVE  Books(ev, n, <<>>, {ad + 1}, wr, lo, ad + 1)
<1>1. 1..(ad + 1) = 1..ad \cup {ad + 1} /\ ad + 1 \notin 1..ad
  OBVIOUS
<1>2. AllAccounted(ev, <<>>, {ad + 1}, wr, lo, ad + 1)
  BY <1>1, Zenon DEF Books, AllAccounted
<1> QED  BY <1>2 DEF Books

\* A flush hands the collected batch to the writer.
LEMMA BooksLend ==
  ASSUME NEW ev \in Batches, NEW n \in Nat, NEW wr \in Seq(Batches), NEW lo, NEW ad \in Nat, NEW owed,
         Books(ev, n, <<>>, owed, wr, lo, ad)
  PROVE  Books(<<>>, 0, ev, owed, wr, lo, ad)
<1>1. OrderKept(<<>>, ev, wr)
  BY EmptyBatch, Zenon DEF Books, OrderKept
<1>2. AllAccounted(<<>>, ev, owed, wr, lo, ad)
  BY EmptyBatch, Zenon DEF Books, AllAccounted
<1>3. LimitsKept(<<>>, 0, ev, wr)
  <2>1. Batcher!WithinLimits(ev)
    BY Zenon DEF Books, LimitsKept, Batcher!WithinLimits, FitsTo, Batcher!Fits
  <2>2. 0 <= BatchBytes /\ Len(<<>>) <= BatchEvents
    BY LimitsAssumption
  <2> QED  BY <2>1, <2>2, EmptyBatch, Zenon DEF Books, LimitsKept
<1>4. DOMAIN <<>> = {}
  OBVIOUS
<1> QED  BY <1>1, <1>2, <1>3, <1>4, Zenon DEF Books

\* An event that is appended is no longer owed.
LEMMA BooksCollect ==
  ASSUME NEW ev \in Batches, NEW n \in Nat, NEW wr \in Seq(Batches), NEW lo, NEW ad \in Nat,
         NEW e \in Event, e.id = ad, Books(ev, n, <<>>, {ad}, wr, lo, ad),
         ev = <<>> \/ (Len(ev) < BatchEvents /\ n + e.size <= BatchBytes),
         ev = <<>> => n = 0
  PROVE  /\ Append(ev, e) \in Batches
         /\ OrderKept(Append(ev, e), <<>>, wr)
         /\ AllAccounted(Append(ev, e), <<>>, {}, wr, lo, ad)
         /\ LimitsKept(Append(ev, e), n + e.size, <<>>, wr)
<1>1. PICK a \in Batches :
        /\ a = Append(ev, e) /\ Len(a) = Len(ev) + 1 /\ DOMAIN a = 1..(Len(ev) + 1) /\ DOMAIN ev = 1..Len(ev)
        /\ a[Len(ev) + 1] = e /\ \A i \in 1..Len(ev) : a[i] = ev[i]
  BY BatchAppend
<1>2. Batcher!Ids(a) = Batcher!Ids(ev) \cup {ad}
  BY <1>1, IdsAppend
<1>3. /\ \A x \in Batcher!WrittenIds(wr) \cup Batcher!Ids(ev) : x \in 1..ad /\ x # ad
  BY Zenon DEF Books, AllAccounted
<1>4. \A x \in Batcher!WrittenIds(wr) \cup Batcher!Ids(ev) : x < ad
  BY <1>3
<1>5. AllAccounted(a, <<>>, {}, wr, lo, ad)
  BY <1>2, Zenon DEF Books, AllAccounted
<1>6. OrderKept(a, <<>>, wr)
  <2>1. Batcher!Ascending(a)
    BY <1>1, <1>4, AscendingAppend DEF Books, OrderKept
  <2>2. ASSUME NEW i \in DOMAIN wr
        PROVE  Batcher!Before(wr[i], a)
    <3>1. wr[i] \in Batches
      OBVIOUS
    <3>2. Batcher!Ids(wr[i]) \subseteq Batcher!WrittenIds(wr)
      BY Zenon DEF Batcher!WrittenIds
    <3>3. \A x \in Batcher!Ids(wr[i]), y \in Batcher!Ids(ev) : x < y
      BY <3>1, BeforeIsOfIds DEF Books, OrderKept
    <3>4. \A x \in Batcher!Ids(wr[i]), y \in Batcher!Ids(a) : x < y
      BY <1>2, <1>4, <3>2, <3>3, Zenon
    <3> QED  BY <3>1, <3>4, BeforeIsOfIds
  <2> QED  BY <2>1, <2>2, Zenon DEF Books, OrderKept
<1>7. LimitsKept(a, n + e.size, <<>>, wr)
  <2>1. Len(ev) \in Nat /\ e.size \in Nat /\ (ev = <<>> => Len(ev) = 0)
    BY DEF Batches, Event
  <2>2. Len(a) <= BatchEvents
    BY <1>1, <2>1, LimitsAssumption
  <2>3. CASE n + e.size <= BatchBytes
    <3>1. n <= BatchBytes
      BY <2>1, <2>3, LimitsAssumption
    <3>2. FitsTo(ev, n)
      BY <3>1 DEF Books, LimitsKept
    <3>3. FitsTo(a, n + e.size)
      BY <1>1, <2>3, <3>2, FitsAppend
    <3> QED  BY <2>2, <2>3, <3>3, Zenon DEF Books, LimitsKept
  <2>4. CASE ~(n + e.size <= BatchBytes)
    <3>1. Len(a) = 1
      BY <1>1, <2>1, <2>4
    <3> QED  BY <2>2, <2>4, <3>1, Zenon DEF Books, LimitsKept
  <2> QED  BY <2>3, <2>4
<1> QED  BY <1>1, <1>5, <1>6, <1>7, Zenon

\* The writer returns: its batch is written, ...
LEMMA BooksWrite ==
  ASSUME NEW hand \in Batches, NEW wr \in Seq(Batches), NEW lo, NEW ad \in Nat, NEW owed,
         hand # <<>>, Books(<<>>, 0, hand, owed, wr, lo, ad)
  PROVE  Append(wr, hand) \in Seq(Batches) /\ Books(<<>>, 0, <<>>, owed, Append(wr, hand), lo, ad)
<1>1. /\ Append(wr, hand) \in Seq(Batches) /\ Len(Append(wr, hand)) = Len(wr) + 1
      /\ Append(wr, hand)[Len(wr) + 1] = hand /\ \A i \in 1..Len(wr) : Append(wr, hand)[i] = wr[i]
  BY AppendProperties
<1>2. PICK a \in Seq(Batches) :
        /\ a = Append(wr, hand) /\ Len(a) = Len(wr) + 1
        /\ a[Len(wr) + 1] = hand /\ \A i \in 1..Len(wr) : a[i] = wr[i]
  BY <1>1, Zenon
<1>3. Len(wr) \in Nat /\ DOMAIN wr = 1..Len(wr) /\ DOMAIN a = 1..(Len(wr) + 1)
  BY <1>2
<1>4. \A i : i \in 1..(Len(wr) + 1) <=> i = Len(wr) + 1 \/ i \in 1..Len(wr)
  BY <1>3
<1>5. Batcher!WrittenIds(a) = Batcher!WrittenIds(wr) \cup Batcher!Ids(hand)
  <2>1. \A x : x \in Batcher!WrittenIds(a) <=> \E i \in DOMAIN a : x \in Batcher!Ids(a[i])
    BY Zenon DEF Batcher!WrittenIds
  <2>2. \A x : x \in Batcher!WrittenIds(wr) <=> \E i \in DOMAIN wr : x \in Batcher!Ids(wr[i])
    BY Zenon DEF Batcher!WrittenIds
  <2> QED  BY <1>2, <1>3, <1>4, <2>1, <2>2, Zenon
<1>6. AllAccounted(<<>>, <<>>, owed, a, lo, ad)
  BY <1>5, EmptyBatch, Zenon DEF Books, AllAccounted
<1>7. ASSUME NEW i \in DOMAIN a
      PROVE  /\ Batcher!Ascending(a[i])
             /\ \A j \in DOMAIN a : i < j => Batcher!Before(a[i], a[j])
             /\ Batcher!WithinLimits(a[i])
  <2>1. CASE i = Len(wr) + 1
    <3>1. \A j \in DOMAIN a : ~(i < j)
      BY <1>3, <2>1
    <3> QED  BY <1>2, <2>1, <3>1, Zenon DEF Books, OrderKept, LimitsKept
  <2>2. CASE i \in 1..Len(wr)
    BY <1>2, <1>3, <1>4, <2>2, Zenon DEF Books, OrderKept, LimitsKept
  <2> QED  BY <1>3, <1>4, <2>1, <2>2
<1>8. OrderKept(<<>>, <<>>, a) /\ LimitsKept(<<>>, 0, <<>>, a)
  BY <1>7, EmptyBatch, Zenon DEF Books, OrderKept, LimitsKept
<1>9. Books(<<>>, 0, <<>>, owed, a, lo, ad)
  BY <1>6, <1>8, Zenon DEF Books
<1> QED  BY <1>2, <1>9, Zenon

\* ... or raises: the batch and the event owed are lost.
LEMMA BooksLose ==
  ASSUME NEW hand \in Batches, NEW wr \in Seq(Batches), NEW lo, NEW ad \in Nat, NEW owed,
         Books(<<>>, 0, hand, owed, wr, lo, ad)
  PROVE  Books(<<>>, 0, <<>>, {}, wr, lo \cup Batcher!Ids(hand) \cup owed, ad)
<1>1. AllAccounted(<<>>, <<>>, {}, wr, lo \cup Batcher!Ids(hand) \cup owed, ad)
  BY EmptyBatch, Zenon DEF Books, AllAccounted
<1>2. OrderKept(<<>>, <<>>, wr) /\ LimitsKept(<<>>, 0, <<>>, wr)
  BY EmptyBatch, Zenon DEF Books, OrderKept, LimitsKept
<1> QED  BY <1>1, <1>2, Zenon DEF Books

CallSteps == {"idle", "add", "write", "append", "last"}
Calling == [step : CallSteps, event : Event, batch : Batches]

BatcherTypeOK ==
  /\ events \in Batches /\ bytes \in Nat /\ adds \in Nat /\ written \in Seq(Batches)
  /\ call \in [Callers -> Calling]

\* Whoever is in add() or flush() holds the lock.
HeldByCaller ==
  /\ holder \in Callers \cup {NoOne}
  /\ \A c \in Callers : call[c].step # "idle" <=> holder = c

\* What a caller has in its hands at each step.
CallState ==
  \A c \in Callers :
    /\ call[c].step \in {"add", "write", "append"} => call[c].event.id = adds
    /\ call[c].step \in {"write", "append", "last"} => events = <<>>
    /\ call[c].step \in {"write", "last"} <=> call[c].batch # <<>>

Hand == IF holder = NoOne THEN <<>> ELSE call[holder].batch
Owed == IF holder # NoOne /\ call[holder].step \in {"add", "write", "append"} THEN {adds} ELSE {}

BatcherInv ==
  /\ BatcherTypeOK /\ HeldByCaller /\ CallState
  /\ events = <<>> => bytes = 0
  /\ Books(events, bytes, Hand, Owed, written, lost, adds)

\* A caller outside of add and flush.
LEMMA IdleCalling == Batcher!Idle \in Calling /\ Batcher!Idle.step = "idle" /\ Batcher!Idle.batch = <<>>
BY EmptyBatch DEF Batcher!Idle, Calling, CallSteps, Event

\* An empty batcher.
LEMMA BatcherInit ==
  ASSUME Batcher!Init
  PROVE  BatcherInv
<1> USE DEF Batcher!Init
<1>1. BatcherTypeOK
  BY IdleCalling, EmptyBatch DEF BatcherTypeOK
<1>2. HeldByCaller /\ CallState
  BY IdleCalling, EventsAssumption DEF HeldByCaller, CallState
<1>3. Hand = <<>> /\ Owed = {} /\ events = <<>> /\ bytes = 0 /\ written = <<>> /\ lost = {} /\ adds = 0
  BY DEF Hand, Owed
<1>4. DOMAIN <<>> = {} /\ 1..0 = {} /\ Batcher!WrittenIds(<<>>) = {}
  BY DEF Batcher!WrittenIds
<1>5. OrderKept(<<>>, <<>>, <<>>) /\ AllAccounted(<<>>, <<>>, {}, <<>>, {}, 0)
  BY <1>4, EmptyBatch, Zenon DEF OrderKept, AllAccounted
<1>6. 0 <= BatchBytes /\ Len(<<>>) <= BatchEvents
  BY LimitsAssumption
<1>7. LimitsKept(<<>>, 0, <<>>, <<>>)
  BY <1>4, <1>6, EmptyBatch, Zenon DEF LimitsKept
<1>8. Books(<<>>, 0, <<>>, {}, <<>>, {}, 0)
  BY <1>4, <1>5, <1>7, Zenon DEF Books
<1> QED  BY <1>1, <1>2, <1>3, <1>8 DEF BatcherInv

\* What the caller that holds the lock has, and what nobody has.
LEMMA HandOf ==
  ASSUME BatcherInv, NEW c \in Callers
  PROVE  /\ call[c].step # "idle" => Hand = call[c].batch
         /\ call[c].step \in {"add", "write", "append"} => Owed = {adds}
         /\ call[c].step = "last" => Owed = {}
         /\ holder = NoOne => Hand = <<>> /\ Owed = {}
BY EventsAssumption DEF BatcherInv, HeldByCaller, Hand, Owed

\* A caller moves on with another batch in its hands.
LEMMA CallMoves ==
  ASSUME BatcherTypeOK, NEW c \in Callers, NEW st \in CallSteps, NEW b \in Batches,
         call' = [call EXCEPT ![c].step = st, ![c].batch = b]
  PROVE  /\ call' \in [Callers -> Calling]
         /\ call'[c].step = st /\ call'[c].batch = b /\ call'[c].event = call[c].event
         /\ \A d \in Callers : d # c => call'[d] = call[d]
<1>1. /\ [call[c] EXCEPT !.step = st] \in Calling
      /\ [call[c] EXCEPT !.step = st].step = st
      /\ [call[c] EXCEPT !.step = st].event = call[c].event
  BY DEF BatcherTypeOK, Calling
<1>2. PICK half \in Calling : /\ half = [call[c] EXCEPT !.step = st]
                              /\ half.step = st /\ half.event = call[c].event
  BY <1>1, Zenon
<1>3. call' = [call EXCEPT ![c] = [half EXCEPT !.batch = b]]
  BY <1>2, Zenon
<1>4. PICK new \in Calling : /\ new = [half EXCEPT !.batch = b]
                             /\ new.step = st /\ new.event = call[c].event /\ new.batch = b
  <2>1. /\ [half EXCEPT !.batch = b] \in Calling
        /\ [half EXCEPT !.batch = b].step = st
        /\ [half EXCEPT !.batch = b].event = call[c].event
        /\ [half EXCEPT !.batch = b].batch = b
    BY <1>2 DEF Calling
  <2> QED  BY <2>1, Zenon
<1>5. call' = [call EXCEPT ![c] = new]
  BY <1>3, <1>4, Zenon
<1> QED  BY <1>4, <1>5 DEF BatcherTypeOK

\* The step of caller c: what is left of the invariant to show.
LEMMA OneCaller ==
  ASSUME BatcherInv, BatcherTypeOK', NEW c \in Callers, holder \in {NoOne, c},
         holder' = IF call'[c].step = "idle" THEN NoOne ELSE c,
         \A d \in Callers : d # c => call'[d] = call[d],
         call'[c].step \in {"add", "write", "append"} => call'[c].event.id = adds',
         call'[c].step \in {"write", "append", "last"} => events' = <<>>,
         call'[c].step \in {"write", "last"} <=> call'[c].batch # <<>>,
         events' = <<>> => bytes' = 0,
         Books(events', bytes', call'[c].batch,
               IF call'[c].step \in {"add", "write", "append"} THEN {adds'} ELSE {},
               written', lost', adds')
  PROVE  BatcherInv'
<1>1. \A d \in Callers : d # c => call[d].step = "idle" /\ call[d].batch = <<>>
  BY EventsAssumption, Zenon DEF BatcherInv, HeldByCaller, CallState
<1>2. HeldByCaller' /\ CallState'
  BY <1>1, EventsAssumption DEF HeldByCaller, CallState
<1>3. Hand' = call'[c].batch
  <2>1. CASE call'[c].step = "idle"
    BY <2>1 DEF Hand
  <2>2. CASE call'[c].step # "idle"
    BY <2>2, EventsAssumption DEF Hand
  <2> QED  BY <2>1, <2>2
<1>4. Owed' = IF call'[c].step \in {"add", "write", "append"} THEN {adds'} ELSE {}
  BY EventsAssumption DEF Owed
<1> QED  BY <1>2, <1>3, <1>4 DEF BatcherInv

\* add() takes the lock with a new event.
LEMMA BatcherAdd ==
  ASSUME BatcherInv, NEW c \in Callers, NEW size \in Sizes, NEW last \in BOOLEAN, Batcher!Add(c, size, last)
  PROVE  BatcherInv'
<1>1. /\ call[c].step = "idle" /\ holder = NoOne /\ adds' = adds + 1 /\ holder' = c
      /\ UNCHANGED <<events, bytes, written, lost>>
      /\ call' = [call EXCEPT ![c] = [step |-> "add", batch |-> <<>>,
                                      event |-> [id |-> adds + 1, size |-> size, ending |-> last]]]
  BY DEF Batcher!Add
<1>2. PICK e \in Event : e = [id |-> adds + 1, size |-> size, ending |-> last] /\ e.id = adds + 1
  <2>1. adds + 1 \in Nat /\ size \in Nat
    BY LimitsAssumption DEF BatcherInv, BatcherTypeOK
  <2>2. [id |-> adds + 1, size |-> size, ending |-> last] \in Event
    BY <2>1 DEF Event
  <2> QED  BY <2>2, Zenon
<1>3. PICK new \in Calling : /\ new = [step |-> "add", batch |-> <<>>, event |-> e]
                             /\ new.step = "add" /\ new.batch = <<>> /\ new.event = e
  <2>1. [step |-> "add", batch |-> <<>>, event |-> e] \in Calling
    BY EmptyBatch DEF Calling, CallSteps
  <2> QED  BY <2>1, Zenon
<1>4. call' = [call EXCEPT ![c] = new]
  BY <1>1, <1>2, <1>3, Zenon
<1>5. call'[c] = new /\ call' \in [Callers -> Calling] /\ \A d \in Callers : d # c => call'[d] = call[d]
  BY <1>4 DEF BatcherInv, BatcherTypeOK
<1>6. BatcherTypeOK'
  BY <1>1, <1>5 DEF BatcherInv, BatcherTypeOK
<1>7. Books(events, bytes, <<>>, {adds + 1}, written, lost, adds + 1)
  <2>1. Books(events, bytes, <<>>, {}, written, lost, adds)
    BY <1>1, HandOf DEF BatcherInv
  <2> QED  BY <2>1, BooksEnter DEF BatcherInv, BatcherTypeOK
<1>8. Books(events', bytes', call'[c].batch,
            IF call'[c].step \in {"add", "write", "append"} THEN {adds'} ELSE {}, written', lost', adds')
  BY <1>1, <1>3, <1>5, <1>7, Zenon
<1> QED  BY <1>1, <1>2, <1>3, <1>5, <1>6, <1>8, OneCaller DEF BatcherInv

\* A flush by the caller, before it appends its event or on its own.
LEMMA BatcherFlushes ==
  ASSUME BatcherInv, NEW c \in Callers, Batcher!AddFlushes(c) \/ Batcher!Flush(c)
  PROVE  BatcherInv'
<1>1. PICK st \in {"write", "last"} :
        /\ call' = [call EXCEPT ![c].step = st, ![c].batch = events]
        /\ IF st = "write" THEN call[c].step = "add" ELSE call[c].step = "idle" /\ holder = NoOne
        /\ holder' = IF st = "write" THEN holder ELSE c
        /\ events # <<>> /\ events' = <<>> /\ bytes' = 0 /\ UNCHANGED <<written, lost, adds>>
  BY DEF Batcher!AddFlushes, Batcher!Flush, Batcher!Flushing
<1>2. /\ call' \in [Callers -> Calling]
      /\ call'[c].step = st /\ call'[c].batch = events /\ call'[c].event = call[c].event
      /\ \A d \in Callers : d # c => call'[d] = call[d]
  BY <1>1, CallMoves DEF BatcherInv, BatcherTypeOK, CallSteps
<1>3. BatcherTypeOK'
  BY <1>1, <1>2, EmptyBatch DEF BatcherInv, BatcherTypeOK
<1>4. holder \in {NoOne, c} /\ holder' = c
  BY <1>1 DEF BatcherInv, HeldByCaller
<1>5. Hand = <<>> /\ Owed = IF st = "write" THEN {adds} ELSE {}
  BY <1>1, HandOf DEF BatcherInv, CallState
<1>6. Books(<<>>, 0, events, Owed, written, lost, adds)
  <2>1. Books(events, bytes, <<>>, Owed, written, lost, adds)
    BY <1>5 DEF BatcherInv
  <2> QED  BY <2>1, BooksLend DEF BatcherInv, BatcherTypeOK
<1>7. Books(events', bytes', call'[c].batch,
            IF call'[c].step \in {"add", "write", "append"} THEN {adds'} ELSE {}, written', lost', adds')
  BY <1>1, <1>2, <1>5, <1>6
<1>8. st = "write" => call'[c].event.id = adds'
  BY <1>1, <1>2 DEF BatcherInv, CallState
<1> QED  BY <1>1, <1>2, <1>3, <1>4, <1>7, <1>8, OneCaller DEF BatcherInv

\* The event joins the batch, or the full batch goes to the writer first.
LEMMA BatcherAppends ==
  ASSUME BatcherInv, NEW c \in Callers, Batcher!AddAppends(c)
  PROVE  BatcherInv'
<1>1. /\ call[c].step \in {"add", "append"} /\ UNCHANGED <<written, lost, adds>>
      /\ call[c].step = "add" => events = <<>> \/ ~Batcher!Full(call[c].event)
  BY DEF Batcher!AddAppends
<1>2. PICK e \in Event : e = call[c].event /\ e.id = adds /\ e.size \in Nat
  BY <1>1 DEF BatcherInv, BatcherTypeOK, CallState, Calling, Event
<1>3. Hand = <<>> /\ Owed = {adds} /\ holder = c
  BY <1>1, HandOf DEF BatcherInv, CallState, HeldByCaller
<1>4. events = <<>> \/ (Len(events) < BatchEvents /\ bytes + e.size <= BatchBytes)
  <2>1. CASE call[c].step = "append"
    BY <2>1 DEF BatcherInv, CallState
  <2>2. CASE call[c].step = "add" /\ events # <<>>
    BY <1>1, <1>2, <2>2, LimitsAssumption DEF Batcher!Full, BatcherInv, BatcherTypeOK, Batches
  <2> QED  BY <1>1, <2>1, <2>2
<1>5. PICK b \in Batches : /\ b = Append(events, e) /\ b # <<>>
                           /\ OrderKept(b, <<>>, written)
                           /\ AllAccounted(b, <<>>, {}, written, lost, adds)
                           /\ LimitsKept(b, bytes + e.size, <<>>, written)
  <2>1. Books(events, bytes, <<>>, {adds}, written, lost, adds)
    BY <1>3 DEF BatcherInv
  <2>2. /\ Append(events, e) \in Batches
        /\ OrderKept(Append(events, e), <<>>, written)
        /\ AllAccounted(Append(events, e), <<>>, {}, written, lost, adds)
        /\ LimitsKept(Append(events, e), bytes + e.size, <<>>, written)
    BY <1>2, <1>4, <2>1, BooksCollect DEF BatcherInv, BatcherTypeOK
  <2>3. Append(events, e) # <<>>
    BY AppendProperties DEF BatcherInv, BatcherTypeOK, Batches
  <2> QED  BY <2>2, <2>3, Zenon
<1>6. CASE e.ending
  <2>1. /\ events' = <<>> /\ bytes' = 0 /\ holder' = holder
        /\ call' = [call EXCEPT ![c].step = "last", ![c].batch = b]
    BY <1>2, <1>5, <1>6 DEF Batcher!AddAppends
  <2>2. /\ call' \in [Callers -> Calling]
        /\ call'[c].step = "last" /\ call'[c].batch = b
        /\ \A d \in Callers : d # c => call'[d] = call[d]
    BY <2>1, CallMoves DEF BatcherInv, CallSteps
  <2>3. BatcherTypeOK'
    BY <1>1, <2>1, <2>2, EmptyBatch DEF BatcherInv, BatcherTypeOK
  <2>4. Books(<<>>, 0, b, {}, written, lost, adds)
    <3>1. OrderKept(<<>>, b, written) /\ AllAccounted(<<>>, b, {}, written, lost, adds)
      BY <1>5, EmptyBatch, Zenon DEF OrderKept, AllAccounted
    <3>2. Batcher!WithinLimits(b)
      BY <1>5, Zenon DEF LimitsKept, Batcher!WithinLimits, FitsTo, Batcher!Fits
    <3>3. 0 <= BatchBytes /\ Len(<<>>) <= BatchEvents /\ DOMAIN <<>> = {}
      BY LimitsAssumption
    <3>4. LimitsKept(<<>>, 0, b, written)
      BY <1>5, <3>2, <3>3, EmptyBatch, Zenon DEF LimitsKept
    <3> QED  BY <3>1, <3>3, <3>4, Zenon DEF Books
  <2>5. Books(events', bytes', call'[c].batch,
              IF call'[c].step \in {"add", "write", "append"} THEN {adds'} ELSE {}, written', lost', adds')
    BY <1>1, <2>1, <2>2, <2>4
  <2> QED  BY <1>3, <1>5, <2>1, <2>2, <2>3, <2>5, OneCaller
<1>7. CASE ~e.ending
  <2>1. /\ events' = b /\ bytes' = bytes + e.size /\ holder' = NoOne
        /\ call' = [call EXCEPT ![c] = Batcher!Idle]
    BY <1>2, <1>5, <1>7 DEF Batcher!AddAppends, Batcher!Release
  <2>2. /\ call' \in [Callers -> Calling] /\ call'[c].step = "idle" /\ call'[c].batch = <<>>
        /\ \A d \in Callers : d # c => call'[d] = call[d]
    BY <2>1, IdleCalling DEF BatcherInv, BatcherTypeOK
  <2>3. BatcherTypeOK'
    BY <1>1, <1>2, <2>1, <2>2 DEF BatcherInv, BatcherTypeOK
  <2>4. \A i \in DOMAIN b : ~b[i].ending
    <3>1. PICK a \in Batches :
            /\ a = Append(events, e) /\ DOMAIN a = 1..(Len(events) + 1) /\ DOMAIN events = 1..Len(events)
            /\ a[Len(events) + 1] = e /\ \A i \in 1..Len(events) : a[i] = events[i]
      BY BatchAppend DEF BatcherInv, BatcherTypeOK
    <3>2. \A i \in 1..(Len(events) + 1) : i = Len(events) + 1 \/ i \in 1..Len(events)
      BY DEF BatcherInv, BatcherTypeOK, Batches
    <3> QED  BY <1>5, <1>7, <3>1, <3>2, Zenon DEF BatcherInv, Books
  <2>5. Books(b, bytes + e.size, <<>>, {}, written, lost, adds)
    BY <1>5, <2>4 DEF Books
  <2>6. Books(events', bytes', call'[c].batch,
              IF call'[c].step \in {"add", "write", "append"} THEN {adds'} ELSE {}, written', lost', adds')
    BY <1>1, <2>1, <2>2, <2>5
  <2> QED  BY <1>3, <1>5, <2>1, <2>2, <2>3, <2>6, OneCaller
<1> QED  BY <1>6, <1>7

\* The writer has stored the batch.
LEMMA BatcherWrites ==
  ASSUME BatcherInv, NEW c \in Callers, Batcher!WriterReturns(c)
  PROVE  BatcherInv'
<1>1. /\ call[c].step \in {"write", "last"} /\ written' = Append(written, call[c].batch)
      /\ UNCHANGED <<events, bytes, lost, adds>>
  BY DEF Batcher!WriterReturns
<1>2. PICK hand \in Batches : hand = call[c].batch /\ hand # <<>>
  BY <1>1 DEF BatcherInv, BatcherTypeOK, CallState, Calling
<1>3. Hand = hand /\ holder = c /\ events = <<>> /\ bytes = 0
      /\ Owed = IF call[c].step = "write" THEN {adds} ELSE {}
  BY <1>1, <1>2, HandOf DEF BatcherInv, CallState, HeldByCaller
<1>4. written' \in Seq(Batches) /\ Books(<<>>, 0, <<>>, Owed, written', lost, adds)
  <2>1. Books(<<>>, 0, hand, Owed, written, lost, adds)
    BY <1>3 DEF BatcherInv
  <2> QED  BY <1>1, <1>2, <2>1, BooksWrite DEF BatcherInv, BatcherTypeOK
<1>5. CASE call[c].step = "write"
  <2>1. call' = [call EXCEPT ![c].step = "append", ![c].batch = <<>>] /\ holder' = holder
    BY <1>5 DEF Batcher!WriterReturns
  <2>2. /\ call' \in [Callers -> Calling] /\ call'[c].step = "append" /\ call'[c].batch = <<>>
        /\ call'[c].event = call[c].event /\ \A d \in Callers : d # c => call'[d] = call[d]
    BY <2>1, CallMoves, EmptyBatch DEF BatcherInv, CallSteps
  <2>3. BatcherTypeOK'
    BY <1>1, <1>4, <2>2 DEF BatcherInv, BatcherTypeOK
  <2>4. call'[c].event.id = adds'
    BY <1>1, <1>5, <2>2 DEF BatcherInv, CallState
  <2>5. Books(events', bytes', call'[c].batch,
              IF call'[c].step \in {"add", "write", "append"} THEN {adds'} ELSE {}, written', lost', adds')
    BY <1>1, <1>3, <1>4, <1>5, <2>2
  <2> QED  BY <1>1, <1>3, <2>1, <2>2, <2>3, <2>4, <2>5, OneCaller
<1>6. CASE call[c].step = "last"
  <2>1. call' = [call EXCEPT ![c] = Batcher!Idle] /\ holder' = NoOne
    BY <1>6 DEF Batcher!WriterReturns, Batcher!Release
  <2>2. /\ call' \in [Callers -> Calling] /\ call'[c].step = "idle" /\ call'[c].batch = <<>>
        /\ \A d \in Callers : d # c => call'[d] = call[d]
    BY <2>1, IdleCalling DEF BatcherInv, BatcherTypeOK
  <2>3. BatcherTypeOK'
    BY <1>1, <1>4, <2>2 DEF BatcherInv, BatcherTypeOK
  <2>4. Books(events', bytes', call'[c].batch,
              IF call'[c].step \in {"add", "write", "append"} THEN {adds'} ELSE {}, written', lost', adds')
    BY <1>1, <1>3, <1>4, <1>6, <2>2
  <2> QED  BY <1>1, <1>3, <2>1, <2>2, <2>3, <2>4, OneCaller
<1> QED  BY <1>1, <1>5, <1>6

\* The writer raises and the batch is gone.
LEMMA BatcherLoses ==
  ASSUME BatcherInv, NEW c \in Callers, Batcher!WriterRaises(c)
  PROVE  BatcherInv'
<1>1. /\ call[c].step \in {"write", "last"} /\ UNCHANGED <<events, bytes, written, adds>>
      /\ lost' = lost \cup Batcher!Ids(call[c].batch)
                      \cup IF call[c].step = "write" THEN {call[c].event.id} ELSE {}
      /\ call' = [call EXCEPT ![c] = Batcher!Idle] /\ holder' = NoOne
  BY DEF Batcher!WriterRaises, Batcher!Release
<1>2. PICK hand \in Batches : hand = call[c].batch
  BY DEF BatcherInv, BatcherTypeOK, Calling
<1>3. Hand = hand /\ holder = c /\ events = <<>> /\ bytes = 0
      /\ Owed = IF call[c].step = "write" THEN {call[c].event.id} ELSE {}
  BY <1>1, <1>2, HandOf DEF BatcherInv, CallState, HeldByCaller
<1>4. Books(<<>>, 0, <<>>, {}, written, lost', adds)
  <2>1. Books(<<>>, 0, hand, Owed, written, lost, adds)
    BY <1>3 DEF BatcherInv
  <2>2. lost' = lost \cup Batcher!Ids(hand) \cup Owed
    BY <1>1, <1>2, <1>3, Zenon
  <2> QED  BY <2>1, <2>2, BooksLose DEF BatcherInv, BatcherTypeOK
<1>5. /\ call' \in [Callers -> Calling] /\ call'[c].step = "idle" /\ call'[c].batch = <<>>
      /\ \A d \in Callers : d # c => call'[d] = call[d]
  BY <1>1, IdleCalling DEF BatcherInv, BatcherTypeOK
<1>6. BatcherTypeOK'
  BY <1>1, <1>5 DEF BatcherInv, BatcherTypeOK
<1>7. Books(events', bytes', call'[c].batch,
            IF call'[c].step \in {"add", "write", "append"} THEN {adds'} ELSE {}, written', lost', adds')
  BY <1>1, <1>3, <1>4, <1>5
<1> QED  BY <1>1, <1>3, <1>5, <1>6, <1>7, OneCaller

\* However add(), flush() and a slow or failing writer interleave, nothing is
\* lost but what the writer failed to write, and the batches are in order and
\* within their limits.
THEOREM BatchesAreComplete == Batcher!Spec => []BatchesComplete
<1>1. Batcher!Init => BatcherInv
  BY BatcherInit
<1>2. ASSUME BatcherInv, [Batcher!Next]_batcherVars
      PROVE  BatcherInv'
  <2>1. CASE UNCHANGED batcherVars
    BY <1>2, <2>1 DEF batcherVars, BatcherInv, BatcherTypeOK, HeldByCaller, CallState, Hand, Owed
  <2>2. CASE Batcher!Next
    BY <1>2, <2>2, BatcherAdd, BatcherFlushes, BatcherAppends, BatcherWrites, BatcherLoses DEF Batcher!Next
  <2> QED  BY <1>2, <2>1, <2>2
<1>3. ASSUME BatcherInv
      PROVE  BatchesComplete
  <2>1. holder = NoOne => Books(events, bytes, <<>>, {}, written, lost, adds)
    BY <1>3, Zenon DEF BatcherInv, Hand, Owed
  <2>2. holder = NoOne => /\ Batcher!WrittenIds(written) \cup Batcher!Ids(events) \cup lost = 1..adds
                          /\ \A i \in DOMAIN events : ~events[i].ending
    BY <2>1, EmptyBatch, Zenon DEF Books, AllAccounted
  <2>3. /\ Batcher!Ascending(events) /\ \A i \in DOMAIN written :
             /\ Batcher!Ascending(written[i]) /\ Batcher!Before(written[i], events)
             /\ \A j \in DOMAIN written : i < j => Batcher!Before(written[i], written[j])
             /\ Batcher!WithinLimits(written[i])
    BY <1>3, Zenon DEF BatcherInv, Books, OrderKept, LimitsKept
  <2>4. Batcher!BatchesComplete
    BY <2>2, <2>3, Zenon DEF Batcher!BatchesComplete
  <2> QED  BY <2>4 DEF BatchesComplete
<1> QED  BY <1>1, <1>2, <1>3, PTL DEF Batcher!Spec, Batcher!vars, batcherVars
=============================================================================
