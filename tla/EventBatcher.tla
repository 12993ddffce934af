----------------------------- MODULE EventBatcher -----------------------------
(***************************************************************************)
(* RuntimeEventBatcher: callers add events under a lock, a full batch and  *)
(* a batch with an ending event are handed to the writer, which may        *)
(* suspend and may fail.  Events are numbered in the order of their add(). *)
(***************************************************************************)
EXTENDS Integers, Sequences

CONSTANTS
    Callers,    \* tasks that call add() and flush()
    Sizes,      \* sizes of events in bytes
    MaxEvents,  \* max_events of the configuration, positive
    MaxBytes,   \* max_bytes of the configuration, positive
    MaxAdds,    \* bound: events added
    NoOne       \* holder of a free lock

VARIABLES
    events,     \* _events: the batch being collected
    bytes,      \* _bytes: its size
    holder,     \* holder of _lock
    call,       \* what each caller is doing
    written,    \* batches that the writer has written
    lost,       \* events of the batches it failed to write
    adds        \* number of events so far

vars == <<events, bytes, holder, call, written, lost, adds>>

-----------------------------------------------------------------------------
Idle == [step |-> "idle", event |-> [id |-> 0, size |-> 0, ending |-> FALSE], batch |-> <<>>]

Init ==
    /\ events = <<>>
    /\ bytes = 0
    /\ holder = NoOne
    /\ call = [c \in Callers |-> Idle]
    /\ written = <<>>
    /\ lost = {}
    /\ adds = 0

\* Events wait for the lock in the order of the calls: asyncio.Lock is fair,
\* so the id an event gets when it is appended is its place in that order.
Add(c, size, ending) ==
    /\ call[c].step = "idle"
    /\ adds < MaxAdds
    /\ holder = NoOne
    /\ adds' = adds + 1
    /\ holder' = c
    /\ call' = [call EXCEPT ![c] = [step |-> "add", batch |-> <<>>,
                                    event |-> [id |-> adds + 1, size |-> size, ending |-> ending]]]
    /\ UNCHANGED <<events, bytes, written, lost>>

\* Mutant: the bytes of the new event are left out of the check.
FullBefore(e) == Len(events) >= MaxEvents \/ bytes > MaxBytes

Full(e) == Len(events) >= MaxEvents \/ bytes + e.size > MaxBytes

\* _flush_locked(): the batch is emptied before the writer is called.
Flushing(c, then) ==
    /\ call' = [call EXCEPT ![c].step = then, ![c].batch = events]
    /\ events' = <<>> /\ bytes' = 0

AddFlushes(c) ==
    /\ call[c].step = "add"
    /\ events # <<>> /\ Full(call[c].event)
    /\ Flushing(c, "write")
    /\ UNCHANGED <<holder, written, lost, adds>>

Release(c) == holder' = NoOne /\ call' = [call EXCEPT ![c] = Idle]

AddAppends(c) ==
    /\ call[c].step \in {"add", "append"}
    /\ call[c].step = "add" => events = <<>> \/ ~Full(call[c].event)
    /\ LET batch == Append(events, call[c].event) IN
       IF call[c].event.ending
       THEN /\ events' = <<>> /\ bytes' = 0
            /\ call' = [call EXCEPT ![c].step = "last", ![c].batch = batch]
            /\ UNCHANGED holder
       ELSE events' = batch /\ bytes' = bytes + call[c].event.size /\ Release(c)
    /\ UNCHANGED <<written, lost, adds>>

\* flush(), which the owner calls periodically.
Flush(c) ==
    /\ call[c].step = "idle"
    /\ holder = NoOne
    /\ events # <<>>
    /\ holder' = c
    /\ Flushing(c, "last")
    /\ UNCHANGED <<written, lost, adds>>

\* The writer returns: add() goes on to append its event, or is done.
WriterReturns(c) ==
    /\ call[c].step \in {"write", "last"}
    /\ written' = Append(written, call[c].batch)
    /\ IF call[c].step = "write"
       THEN call' = [call EXCEPT ![c].step = "append", ![c].batch = <<>>] /\ UNCHANGED holder
       ELSE Release(c)
    /\ UNCHANGED <<events, bytes, lost, adds>>

Ids(batch) == {batch[i].id : i \in DOMAIN batch}

\* The writer raises: the batch is gone, and so is the event of an add() that
\* had not appended it yet.
WriterRaises(c) ==
    /\ call[c].step \in {"write", "last"}
    /\ lost' = lost \union Ids(call[c].batch)
                    \union IF call[c].step = "write" THEN {call[c].event.id} ELSE {}
    /\ Release(c)
    /\ UNCHANGED <<events, bytes, written, adds>>

-----------------------------------------------------------------------------
Next == \E c \in Callers :
    \/ \E size \in Sizes, ending \in BOOLEAN : Add(c, size, ending)
    \/ AddFlushes(c) \/ AddAppends(c) \/ Flush(c) \/ WriterReturns(c) \/ WriterRaises(c)

Spec == Init /\ [][Next]_vars

-----------------------------------------------------------------------------
WrittenIds(batches) == UNION {Ids(batches[i]) : i \in DOMAIN batches}

Ascending(batch) == \A i, j \in DOMAIN batch : i < j => batch[i].id < batch[j].id
Before(one, two) == \A i \in DOMAIN one, j \in DOMAIN two : one[i].id < two[j].id

\* The running total of the sizes of a batch stays within max_bytes.
Fits(batch) ==
    \E total \in [0 .. Len(batch) -> 0 .. MaxBytes] :
        /\ total[0] = 0
        /\ \A i \in DOMAIN batch : total[i] = total[i - 1] + batch[i].size

WithinLimits(batch) == Len(batch) = 1 \/ (Len(batch) <= MaxEvents /\ Fits(batch))

\* Only a batch that the writer failed to write is lost: the others reach it
\* in the order of their add(), none is repeated, and none exceeds a limit
\* except for a single event that is itself too large.  When nobody is at it
\* no ending event is left in the batch: the end of a run does not wait for
\* the next event or for a periodic flush.
BatchesComplete ==
    /\ Ascending(events) /\ \A i \in DOMAIN written :
          /\ Ascending(written[i]) /\ Before(written[i], events)
          /\ \A j \in DOMAIN written : i < j => Before(written[i], written[j])
          /\ WithinLimits(written[i])
    /\ holder = NoOne =>
          /\ WrittenIds(written) \union Ids(events) \union lost = 1 .. adds
          /\ \A i \in DOMAIN events : ~events[i].ending

=============================================================================
