------------------------------ MODULE RunEvents ------------------------------
(***************************************************************************)
(* The event log of one run and everyone who reads it: RunStore and its    *)
(* SQLite mirror (runner/store.py), the SSE stream (stream_run_events in   *)
(* api/runs.py), and the writers: the engine, telemetry and the webhook    *)
(* receiver on the event loop, and cancel requests on threadpool threads.  *)
(*                                                                         *)
(* A step is one acquisition of the store's lock or of the database lock,  *)
(* or one call_soon_threadsafe.  The loop thread runs one callback at a    *)
(* time: the streams and the deliveries to their queues wait while it is   *)
(* inside a store operation; the cancel threads do not.  A crash loses the *)
(* memory at any point, and the next process hydrates from the database.   *)
(***************************************************************************)
EXTENDS Integers, Sequences, FiniteSets, SequencesExt

CONSTANTS
    Loop,           \* the event loop's thread
    Cancellers,     \* threadpool threads, one per cancel request
    Streams,        \* clients of GET /runs/{id}/events
    MaxQueue,       \* capacity of a subscriber's queue (500 in the code)
    MaxEvents,      \* bound: ordinary events emitted
    MaxCrashes      \* bound: crashes of the process

ASSUME ThreadAssumption == Loop \notin Cancellers
ASSUME QueueAssumption  == MaxQueue \in Nat \ {0}
ASSUME BoundAssumption  == MaxEvents \in Nat /\ MaxCrashes \in Nat

Thread   == {Loop} \cup Cancellers
Terminal == {"success", "failed", "cancelled"}
Status   == {"running"} \cup Terminal

\* An event: who appended it, and its number among those it appended.  The
\* terminal event of a run is an event like any other to the store.
EventId == [by : Thread, n : Nat]

Idle == {"idle", "done"}
Pc   == Idle \cup {"mark", "append", "notify", "seq", "insert", "scalars", "persist"}

VARIABLES
    status,         \* the record's status
    events,         \* the record's events
    subs,           \* _subscribers
    ready,          \* calls of _safe_put the loop has not run yet, by stream
    queue,          \* the subscribers' queues
    backlog,        \* what a stream was given when it subscribed and has not sent
    sent,           \* what a stream has sent its client
    dropped,        \* events _safe_put dropped, by stream
    spc,            \* where each stream is: off, live, ended
    rows,           \* run_events: the event at each sequence number
    dbStatus,       \* the runs row
    pc,             \* where each thread is in a store operation
    after,          \* where it goes on after the operation
    ev,             \* the event it appends
    todo,           \* the subscribers it has still to notify
    seq,            \* the sequence number it has read
    scalars,        \* the status it is about to persist
    emitted,        \* events appended so far, by thread
    engine,         \* the engine's task: running, or ended
    crashes,        \* crashes so far
    overlapped      \* two operations of the store were ever under way at once

memVars    == <<status, events>>
streamVars == <<subs, ready, queue, backlog, sent, dropped, spc>>
dbVars     == <<rows, dbStatus>>
opVars     == <<after, ev, todo, seq, scalars, emitted>>
histVars   == <<crashes, overlapped>>
vars == <<memVars, streamVars, dbVars, pc, opVars, engine, histVars>>

TypeOK ==
    /\ status \in Status /\ dbStatus \in Status
    /\ events \in Seq(EventId)
    /\ subs \subseteq Streams
    /\ ready \in [Streams -> Seq(EventId)] /\ queue \in [Streams -> Seq(EventId)]
    /\ \A s \in Streams : Len(queue[s]) <= MaxQueue
    /\ backlog \in [Streams -> Seq(EventId)] /\ sent \in [Streams -> Seq(EventId)]
    /\ dropped \in [Streams -> SUBSET EventId]
    /\ spc \in [Streams -> {"off", "live", "ended"}]
    /\ DOMAIN rows \subseteq Nat /\ \A k \in DOMAIN rows : rows[k] \in EventId
    /\ pc \in [Thread -> Pc] /\ after \in [Thread -> Pc]
    /\ ev \in [Thread -> EventId]
    /\ todo \in [Thread -> SUBSET Streams]
    /\ seq \in [Thread -> Nat]
    /\ scalars \in [Thread -> Status]
    /\ emitted \in [Thread -> Nat]
    /\ engine \in {"running", "ended"}
    /\ crashes \in 0..MaxCrashes
    /\ overlapped \in BOOLEAN

\* The loop is free to run another callback.
LoopFree == pc[Loop] = "idle"

Goto(t, label) == pc' = [pc EXCEPT ![t] = label]

\* t begins a store operation: note whether another is under way.
Enter(t) == overlapped' = (overlapped \/ \E u \in Thread \ {t} : pc[u] \notin Idle)

------------------------------------------------------------------------------
(* append_event, from RunStore and then SqliteRunStore.                    *)

\* Under the lock: append, and copy the list of subscribers.
append_event(t) ==
    /\ pc[t] = "append"
    /\ LET e == [by |-> t, n |-> emitted[t] + 1]
       IN  ev' = [ev EXCEPT ![t] = e] /\ events' = Append(events, e)
    /\ emitted' = [emitted EXCEPT ![t] = @ + 1]
    /\ todo' = [todo EXCEPT ![t] = subs]
    /\ Goto(t, "notify")
    /\ UNCHANGED <<status, streamVars, dbVars, after, seq, scalars, engine, histVars>>

\* Outside it: hand the event to one subscriber's loop.
Notify(t) ==
    /\ pc[t] = "notify"
    /\ \E s \in todo[t] :
          /\ todo'  = [todo EXCEPT ![t] = @ \ {s}]
          /\ ready' = [ready EXCEPT ![s] = Append(@, ev[t])]
    /\ UNCHANGED <<memVars, subs, queue, backlog, sent, dropped, spc, dbVars, pc,
                   after, ev, seq, scalars, emitted, engine, histVars>>

\* Mutation of ReadSeq: the number of events, not the last one's index.
ReadSeqLen(t) ==
    /\ pc[t] = "notify" /\ todo[t] = {}
    /\ seq' = [seq EXCEPT ![t] = Len(events)]
    /\ Goto(t, "insert")
    /\ UNCHANGED <<memVars, streamVars, dbVars, after, ev, todo, scalars, emitted,
                   engine, histVars>>

\* Under the lock again: the last event's index is taken for this event's.
ReadSeq(t) ==
    /\ pc[t] = "notify" /\ todo[t] = {}
    /\ seq' = [seq EXCEPT ![t] = Len(events) - 1]
    /\ Goto(t, "insert")
    /\ UNCHANGED <<memVars, streamVars, dbVars, after, ev, todo, scalars, emitted,
                   engine, histVars>>

\* INSERT OR REPLACE INTO run_events, under the database lock.
InsertEvent(t) ==
    /\ pc[t] = "insert"
    /\ rows' = [k \in DOMAIN rows \cup {seq[t]} |-> IF k = seq[t] THEN ev[t] ELSE rows[k]]
    /\ Goto(t, "scalars")
    /\ UNCHANGED <<memVars, streamVars, dbStatus, opVars, engine, histVars>>

\* _persist_record reads the scalars under one lock ...
ReadScalars(t) ==
    /\ pc[t] = "scalars"
    /\ scalars' = [scalars EXCEPT ![t] = status]
    /\ Goto(t, "persist")
    /\ UNCHANGED <<memVars, streamVars, dbVars, after, ev, todo, seq, emitted, engine,
                   histVars>>

\* ... and writes them under the other.
PersistRecord(t) ==
    /\ pc[t] = "persist"
    /\ dbStatus' = scalars[t]
    /\ pc' = [pc EXCEPT ![t] = after[t]]
    /\ after' = [after EXCEPT ![t] = IF t = Loop THEN "idle" ELSE "done"]
    /\ UNCHANGED <<memVars, streamVars, rows, ev, todo, seq, scalars, emitted, engine,
                   histVars>>

\* upsert by t: merge under the lock, then persist, then go on at `next'.
upsert(t, new, next) ==
    /\ status' = new
    /\ after' = [after EXCEPT ![t] = next]
    /\ Goto(t, "scalars")
    /\ Enter(t)

StoreStep(t) ==
    \/ append_event(t) \/ Notify(t) \/ ReadSeq(t) \/ InsertEvent(t)
    \/ ReadScalars(t) \/ PersistRecord(t)

------------------------------------------------------------------------------
(* The writers.                                                            *)

\* The engine, the telemetry sink or the webhook receiver emits an event.
\* Telemetry and deliveries also come after the run has ended.
Emit ==
    /\ LoopFree /\ emitted[Loop] < MaxEvents
    /\ Goto(Loop, "append")
    /\ Enter(Loop)
    /\ UNCHANGED <<memVars, streamVars, dbVars, opVars, engine, crashes>>

\* The run succeeds: the status first, then run.complete, with no await between.
RunComplete ==
    /\ LoopFree /\ engine = "running"
    /\ engine' = "ended"
    /\ IF status = "cancelled"
       THEN UNCHANGED <<status, after, pc, overlapped>>
       ELSE upsert(Loop, "success", "append")
    /\ UNCHANGED <<events, streamVars, dbVars, ev, todo, seq, scalars, emitted, crashes>>

\* The run fails: run.failed, unless it is cancelled, then the status.
RunFailed ==
    /\ LoopFree /\ engine = "running"
    /\ engine' = "ended"
    /\ IF status = "cancelled"
       THEN UNCHANGED <<after, pc, overlapped>>
       ELSE /\ Goto(Loop, "append") /\ Enter(Loop)
            /\ after' = [after EXCEPT ![Loop] = "mark"]
    /\ UNCHANGED <<memVars, streamVars, dbVars, ev, todo, seq, scalars, emitted, crashes>>

\* _finalize_failure checks, then writes.
FinalizeFailure ==
    /\ pc[Loop] = "mark"
    /\ IF status = "cancelled"
       THEN Goto(Loop, "idle") /\ UNCHANGED <<status, after, overlapped>>
       ELSE upsert(Loop, "failed", "idle")
    /\ UNCHANGED <<events, streamVars, dbVars, ev, todo, seq, scalars, emitted, engine,
                   crashes>>

\* cancel_run reads the record: a terminal run is left alone.
CancelCheck(c) ==
    /\ pc[c] = "idle"
    /\ Goto(c, IF status \in Terminal THEN "done" ELSE "mark")
    /\ UNCHANGED <<memVars, streamVars, dbVars, opVars, engine, histVars>>

\* It marks the record, then emits run.cancelled.
CancelMark(c) ==
    /\ pc[c] = "mark"
    /\ upsert(c, "cancelled", "append")
    /\ UNCHANGED <<events, streamVars, dbVars, ev, todo, seq, scalars, emitted, engine,
                   crashes>>

------------------------------------------------------------------------------
(* The readers: gen() of stream_run_events, and _safe_put.                 *)

\* Mutation of Subscribe: the append copies the subscribers outside the lock.
SubscribeUnlocked(s) ==
    /\ LoopFree /\ spc[s] = "off"
    /\ spc' = [spc EXCEPT ![s] = "live"]
    /\ backlog' = [backlog EXCEPT ![s] = events]
    /\ subs' = subs \cup {s}
    /\ todo' = [t \in Thread |-> IF pc[t] = "notify" THEN todo[t] \cup {s} ELSE todo[t]]
    /\ UNCHANGED <<memVars, ready, queue, sent, dropped, dbVars, pc, after, ev, seq,
                   scalars, emitted, engine, histVars>>

\* subscribe: copy the log and register, under one acquisition of the lock.
Subscribe(s) ==
    /\ LoopFree /\ spc[s] = "off"
    /\ spc' = [spc EXCEPT ![s] = "live"]
    /\ backlog' = [backlog EXCEPT ![s] = events]
    /\ subs' = subs \cup {s}
    /\ UNCHANGED <<memVars, ready, queue, sent, dropped, dbVars, pc, opVars, engine,
                   histVars>>

\* Send the next event of the backlog.
SendBacklog(s) ==
    /\ LoopFree /\ spc[s] = "live" /\ backlog[s] # <<>>
    /\ sent' = [sent EXCEPT ![s] = Append(@, Head(backlog[s]))]
    /\ backlog' = [backlog EXCEPT ![s] = Tail(@)]
    /\ UNCHANGED <<memVars, subs, ready, queue, dropped, spc, dbVars, pc, opVars, engine,
                   histVars>>

\* Mutation of SendLive: what is in the queue goes out first.
SendLiveFirst(s) ==
    /\ LoopFree /\ spc[s] = "live" /\ queue[s] # <<>>
    /\ sent' = [sent EXCEPT ![s] = Append(@, Head(queue[s]))]
    /\ queue' = [queue EXCEPT ![s] = Tail(@)]
    /\ UNCHANGED <<memVars, subs, ready, backlog, dropped, spc, dbVars, pc, opVars, engine,
                   histVars>>

\* Send the next event of the queue.  (The heartbeat of an empty one sends none.)
SendLive(s) ==
    /\ LoopFree /\ spc[s] = "live" /\ backlog[s] = <<>> /\ queue[s] # <<>>
    /\ sent' = [sent EXCEPT ![s] = Append(@, Head(queue[s]))]
    /\ queue' = [queue EXCEPT ![s] = Tail(@)]
    /\ UNCHANGED <<memVars, subs, ready, backlog, dropped, spc, dbVars, pc, opVars, engine,
                   histVars>>

\* Mutation of StreamEnd: it waits until it has sent a cancellation or the
\* engine's last event.
StreamEndOnEvent(s) ==
    /\ LoopFree /\ spc[s] = "live" /\ backlog[s] = <<>>
    /\ status \in Terminal /\ queue[s] = <<>>
    /\ ToSet(events) \subseteq ToSet(sent[s])
    /\ spc' = [spc EXCEPT ![s] = "ended"]
    /\ subs' = subs \ {s}
    /\ UNCHANGED <<memVars, ready, queue, backlog, sent, dropped, dbVars, pc, opVars,
                   engine, histVars>>

\* stream.end: the run is terminal and the queue is empty.  The generator's
\* finally clause unsubscribes.
StreamEnd(s) ==
    /\ LoopFree /\ spc[s] = "live" /\ backlog[s] = <<>>
    /\ status \in Terminal /\ queue[s] = <<>>
    /\ spc' = [spc EXCEPT ![s] = "ended"]
    /\ subs' = subs \ {s}
    /\ UNCHANGED <<memVars, ready, queue, backlog, sent, dropped, dbVars, pc, opVars,
                   engine, histVars>>

\* Mutation of _safe_put: the queue has no limit.
_safe_put_unbounded(s) ==
    /\ LoopFree /\ ready[s] # <<>>
    /\ ready' = [ready EXCEPT ![s] = Tail(@)]
    /\ queue' = [queue EXCEPT ![s] = Append(@, Head(ready[s]))]
    /\ UNCHANGED <<memVars, subs, dropped, backlog, sent, spc, dbVars, pc, opVars, engine,
                   histVars>>

\* _safe_put, when the loop comes to it: a full queue drops the event.
_safe_put(s) ==
    /\ LoopFree /\ ready[s] # <<>>
    /\ ready' = [ready EXCEPT ![s] = Tail(@)]
    /\ LET e == Head(ready[s])
       IN  IF Len(queue[s]) < MaxQueue
           THEN queue' = [queue EXCEPT ![s] = Append(@, e)] /\ UNCHANGED dropped
           ELSE dropped' = [dropped EXCEPT ![s] = @ \cup {e}] /\ UNCHANGED queue
    /\ UNCHANGED <<memVars, subs, backlog, sent, spc, dbVars, pc, opVars, engine, histVars>>

------------------------------------------------------------------------------
(* Crash and restart.                                                      *)

\* The events of the database in the order of their numbers: the i-th is the one
\* with i - 1 before it.
Hydrated ==
    [i \in 1..Cardinality(DOMAIN rows) |->
        rows[CHOOSE k \in DOMAIN rows : Cardinality({j \in DOMAIN rows : j < k}) = i - 1]]

\* The process dies and the next one hydrates: the runs row, and the events in
\* the order of their numbers.  The run's task, the streams and whatever the
\* threads were doing are gone; clients may ask again.
Restart ==
    /\ crashes < MaxCrashes /\ crashes' = crashes + 1
    /\ status' = dbStatus /\ events' = Hydrated
    /\ subs' = {}
    /\ ready' = [s \in Streams |-> <<>>] /\ queue' = [s \in Streams |-> <<>>]
    /\ backlog' = [s \in Streams |-> <<>>] /\ sent' = [s \in Streams |-> <<>>]
    /\ dropped' = [s \in Streams |-> {}]
    /\ spc' = [s \in Streams |-> "off"]
    /\ pc' = [t \in Thread |-> IF pc[t] = "done" THEN "done" ELSE "idle"]
    /\ after' = [t \in Thread |-> IF t = Loop THEN "idle" ELSE "done"]
    /\ todo' = [t \in Thread |-> {}]
    /\ engine' = "ended"
    /\ UNCHANGED <<dbVars, ev, seq, scalars, emitted, overlapped>>

------------------------------------------------------------------------------
\* The run has started and has persisted its record; it has no event yet.
Init ==
    /\ status = "running" /\ dbStatus = "running"
    /\ events = <<>> /\ rows = <<>>
    /\ subs = {}
    /\ ready = [s \in Streams |-> <<>>] /\ queue = [s \in Streams |-> <<>>]
    /\ backlog = [s \in Streams |-> <<>>] /\ sent = [s \in Streams |-> <<>>]
    /\ dropped = [s \in Streams |-> {}]
    /\ spc = [s \in Streams |-> "off"]
    /\ pc = [t \in Thread |-> "idle"]
    /\ after = [t \in Thread |-> IF t = Loop THEN "idle" ELSE "done"]
    /\ ev = [t \in Thread |-> [by |-> t, n |-> 0]]
    /\ todo = [t \in Thread |-> {}]
    /\ seq = [t \in Thread |-> 0]
    /\ scalars = [t \in Thread |-> "running"]
    /\ emitted = [t \in Thread |-> 0]
    /\ engine = "running"
    /\ crashes = 0 /\ overlapped = FALSE

EngineEnds == RunComplete \/ RunFailed

StreamStep(s) == SendBacklog(s) \/ SendLive(s) \/ StreamEnd(s)

Next ==
    \/ \E t \in Thread : StoreStep(t)
    \/ Emit \/ EngineEnds \/ FinalizeFailure
    \/ \E c \in Cancellers : CancelCheck(c) \/ CancelMark(c)
    \/ \E s \in Streams : Subscribe(s) \/ StreamStep(s) \/ _safe_put(s)
    \/ Restart

Spec == Init /\ [][Next]_vars

\* A thread inside an operation is scheduled, the loop runs what is due, the
\* run's task ends, and a client that streams reads what it is sent.  Nobody
\* need cancel, subscribe or crash, and nothing more need be emitted.
Fairness ==
    /\ \A t \in Thread : WF_vars(StoreStep(t))
    /\ WF_vars(EngineEnds) /\ WF_vars(FinalizeFailure)
    /\ \A c \in Cancellers : WF_vars(CancelMark(c))
    /\ \A s \in Streams : WF_vars(StreamStep(s)) /\ WF_vars(_safe_put(s))

FairSpec == Spec /\ Fairness

------------------------------------------------------------------------------
(* Properties.                                                             *)

\* What stream s has sent, will send and is about to be given, in that order.
Feed(s) == sent[s] \o backlog[s] \o queue[s] \o ready[s]

\* Every event of the log reaches an open stream exactly once, from the backlog
\* or live, unless its full queue dropped it: none falls between the copy of
\* the log and the registration, none comes from both (subscribe, append_event).
ExactlyOnce ==
    \A s \in Streams : spc[s] = "live" =>
        LET due == {ev[t] : t \in {u \in Thread : s \in todo[u]}}
        IN  /\ IsInjective(Feed(s))
            /\ ToSet(Feed(s)) \cap (dropped[s] \cup due) = {}
            /\ ToSet(events) = ToSet(Feed(s)) \cup dropped[s] \cup due

\* A stream shows the events of one thread in the order that thread appended
\* them, however the threads' notifications overtake each other and whatever
\* is dropped (append_event, gen).  Overlapping operations leave numbers out of
\* the table; a process hydrated from it goes on numbering below the last one, and
\* the next process reads its events in another order, so two crashes after an
\* overlap are excepted.
OwnOrder ==
    ~overlapped \/ crashes <= 1 =>
        \A s \in Streams : \A i, j \in DOMAIN Feed(s) :
            i < j /\ Feed(s)[i].by = Feed(s)[j].by => Feed(s)[i].n < Feed(s)[j].n

\* While no two store operations have overlapped, the database holds every
\* event at its place in the log, but the one being inserted, and the status,
\* but the one being written: a crash at any point loses no more, and numbering
\* goes on where it stopped (SqliteRunStore).
MirrorExact ==
    ~overlapped =>
        /\ DOMAIN rows \subseteq 0..(Len(events) - 1)
        /\ \A k \in 1..Len(events) :
              \/ k - 1 \in DOMAIN rows /\ rows[k - 1] = events[k]
              \/ k = Len(events) /\ \E t \in Thread : pc[t] \in {"notify", "insert"}
        /\ dbStatus = status \/ \E t \in Thread : pc[t] \notin Idle

\* A stream of a run that is over ends, however far its client was behind and
\* whatever its queue dropped; unless the process dies with it (gen).
StreamsEnd ==
    \A s \in Streams :
        (spc[s] = "live" /\ engine = "ended" /\ status \in Terminal) ~> (spc[s] # "live")

\* "mirrors every write to a SQLite file so ... (or a crash) does not lose run
\* history" (store.py): an event whose append_event has returned is in the
\* database.
AppendedIsDurable ==
    \A k \in DOMAIN events :
        \/ \E t \in Thread : pc[t] \in {"notify", "insert"} /\ ev[t] = events[k]
        \/ \E r \in DOMAIN rows : rows[r] = events[k]

==============================================================================
