----------------------------- MODULE RunLifecycle -----------------------------
(***************************************************************************)
(* The life of one scenario run: ScenarioRunner.run (runner/engine.py) on  *)
(* the event loop, any number of POST /runs/{id}/cancel requests           *)
(* (api/runs.py) on threadpool threads, and what they share: the run's     *)
(* record and event log (runner/store.py), the agent processes             *)
(* (hosting/supervisor.py) and the metrics (observability/metrics.py).     *)
(*                                                                         *)
(* The cancel threads are preempted anywhere, so a step below is one       *)
(* access to shared state: one locked store or metrics operation, one      *)
(* entry of the process table, one process.  A check of the status and the *)
(* write it guards are two steps wherever the code makes them under two    *)
(* acquisitions of the lock.                                               *)
(***************************************************************************)
EXTENDS Integers, Sequences, FiniteSets, FiniteSetsExt

CONSTANTS
    NumAgents,      \* agents of the scenario, launched in the order 1..NumAgents
    Cancellers,     \* cancel requests
    Engine,         \* the run's background task
    None            \* no process, no event

ASSUME AgentsAssumption == NumAgents \in Nat
ASSUME ActorAssumption ==
    Engine \notin Cancellers /\ None \notin Nat /\ None \notin STRING

Agent == 1..NumAgents
Actor == {Engine} \cup Cancellers

Terminal == {"success", "failed", "cancelled"}
Event    == {"run.started", "run.complete", "run.failed", "run.cancelled"}

VARIABLES
    status,         \* the record's status
    log,            \* the record's events, of those in Event
    pc,             \* where each actor is
    ret,            \* where it goes on after the emission or kill_run under way
    ev,             \* the event it is emitting
    todo,           \* the rest of the process-table keys its kill_run copied
    victim,         \* the process it has taken out of the table and waits for
    spawned,        \* Engine: the agent it is at; 0 before the try block
    ports, files,   \* Engine: ports and bootstrap files taken, by agent
    disk,           \* bootstrap files that exist
    table,          \* AgentSupervisor._processes
    alive,          \* agents whose process exists
    dying,          \* those of them that were sent SIGKILL
    started,        \* Metrics._started_runs holds the run
    active,         \* runs_active
    refusals,       \* runs_refused_total
    total           \* runs_total, by terminal event

storeVars   == <<status, log>>
actorVars   == <<pc, ret, ev, todo, victim>>
runVars     == <<spawned, ports, files, disk>>
procVars    == <<table, alive, dying>>
metricsVars == <<started, active, refusals, total>>
vars == <<storeVars, actorVars, runVars, procVars, metricsVars>>

EnginePc == {"begin", "load", "checkRefusal", "checkStart", "validate", "acquire",
             "checkSpawn", "launch", "awaitReady", "steps", "except",
             "cleanupFailed", "release", "releaseOk", "finalize", "writeFailed",
             "sweep", "releaseSweep", "cleanupOk", "succeed", "escaped"}
CancelPc == {"idle", "noop", "mark", "kill"}
SharedPc == {"append", "count", "gauge", "total", "killing", "reap", "done"}
Pc == EnginePc \cup CancelPc \cup SharedPc

TypeOK ==
    /\ status \in {"pending", "running"} \cup Terminal
    /\ log \in Seq(Event)
    /\ pc \in [Actor -> Pc]
    /\ ret \in [Actor -> Pc]
    /\ ev \in [Actor -> Event \cup {None}]
    /\ todo \in [Actor -> SUBSET Agent]
    /\ victim \in [Actor -> Agent \cup {None}]
    /\ spawned \in 0..(NumAgents + 1)
    /\ ports \in SUBSET Agent /\ files \in SUBSET Agent /\ disk \in SUBSET Agent
    /\ table \in SUBSET Agent /\ alive \in SUBSET Agent /\ dying \in SUBSET alive
    /\ started \in BOOLEAN
    /\ active \in Nat /\ refusals \in Nat
    /\ total \in [Event -> Nat]

Goto(a, label) == pc' = [pc EXCEPT ![a] = label]

is_cancelled == status = "cancelled"

------------------------------------------------------------------------------
(* Emitting an event: RunContext.emit, and the same two side effects in    *)
(* cancel_run: append to the log, then record into the metrics.            *)

\* Actor a starts to emit e and goes on at `next' afterwards.
Emit(a, e, next) ==
    /\ pc'  = [pc EXCEPT ![a] = "append"]
    /\ ret' = [ret EXCEPT ![a] = next]
    /\ ev'  = [ev EXCEPT ![a] = e]

append_event(a) ==
    /\ pc[a] = "append"
    /\ log' = Append(log, ev[a])
    /\ Goto(a, "count")
    /\ UNCHANGED <<status, ret, ev, todo, victim, runVars, procVars, metricsVars>>

\* record_event, first part: run_started or run_finished.  A duplicate start
\* ends here; a terminal event of a run that never started skips the gauge, and a
\* failure is then counted as a refusal.
CountRun(a) ==
    /\ pc[a] = "count"
    /\ IF ev[a] = "run.started"
       THEN /\ started' = TRUE
            /\ Goto(a, IF started THEN ret[a] ELSE "gauge")
            /\ UNCHANGED refusals
       ELSE /\ started' = FALSE
            /\ Goto(a, IF started THEN "gauge" ELSE "total")
            /\ refusals' = IF ev[a] = "run.failed" /\ ~started THEN refusals + 1 ELSE refusals
    /\ UNCHANGED <<storeVars, ret, ev, todo, victim, runVars, procVars, active, total>>

\* Mutation of add_gauge: no floor.
AddGaugeUnclamped(a) ==
    /\ pc[a] = "gauge"
    /\ IF ev[a] = "run.started"
       THEN active' = active + 1 /\ Goto(a, ret[a])
       ELSE active' = active - 1 /\ Goto(a, "total")
    /\ UNCHANGED <<storeVars, ret, ev, todo, victim, runVars, procVars, started, refusals, total>>

\* add_gauge: up, or down to no less than zero.
add_gauge(a) ==
    /\ pc[a] = "gauge"
    /\ IF ev[a] = "run.started"
       THEN active' = active + 1 /\ Goto(a, ret[a])
       ELSE active' = (IF active > 0 THEN active - 1 ELSE 0) /\ Goto(a, "total")
    /\ UNCHANGED <<storeVars, ret, ev, todo, victim, runVars, procVars, started, refusals, total>>

CountTotal(a) ==
    /\ pc[a] = "total"
    /\ total' = [total EXCEPT ![ev[a]] = @ + 1]
    /\ Goto(a, ret[a])
    /\ UNCHANGED <<storeVars, ret, ev, todo, victim, runVars, procVars, started, active, refusals>>

------------------------------------------------------------------------------
(* AgentSupervisor.kill_run, called by the engine's cleanup and by cancel. *)

\* Copy the keys of the process table.
KillRun(a, next) ==
    /\ pc'   = [pc EXCEPT ![a] = "killing"]
    /\ ret'  = [ret EXCEPT ![a] = next]
    /\ todo' = [todo EXCEPT ![a] = table]

\* The next key: take its process out of the table, unless another call has.
kill(a) ==
    /\ pc[a] = "killing" /\ todo[a] # {}
    /\ LET i == Min(todo[a])
       IN  /\ todo' = [todo EXCEPT ![a] = @ \ {i}]
           /\ table' = table \ {i}
           /\ IF i \in table
              THEN victim' = [victim EXCEPT ![a] = i] /\ Goto(a, "reap")
              ELSE UNCHANGED <<victim, pc>>
    /\ UNCHANGED <<storeVars, ret, ev, runVars, alive, dying, metricsVars>>

\* A process is gone.
Gone(i) == alive' = alive \ {i} /\ dying' = dying \ {i}

\* SIGKILL is sent to it, if it is there, and not waited for.
Sigkill(i) == dying' = dying \cup ({i} \cap alive) /\ UNCHANGED alive

\* Mutation of Reap: the wait is given up when the process does not stop.
ReapGivesUp(a) ==
    /\ pc[a] = "reap"
    /\ Gone(victim[a]) \/ UNCHANGED <<alive, dying>>
    /\ victim' = [victim EXCEPT ![a] = None]
    /\ Goto(a, "killing")
    /\ UNCHANGED <<storeVars, ret, ev, todo, runVars, table, metricsVars>>

\* terminate and wait, and kill, without a wait, if it does not stop.
Reap(a) ==
    /\ pc[a] = "reap"
    /\ Gone(victim[a]) \/ Sigkill(victim[a])
    /\ victim' = [victim EXCEPT ![a] = None]
    /\ Goto(a, "killing")
    /\ UNCHANGED <<storeVars, ret, ev, todo, runVars, table, metricsVars>>

\* The system ends a process that was sent SIGKILL.
Dies(i) ==
    /\ i \in dying /\ Gone(i)
    /\ UNCHANGED <<storeVars, actorVars, runVars, table, metricsVars>>

\* An agent's process ends by itself.  Nobody is told.
Exits(i) ==
    /\ i \in alive \ dying /\ Gone(i)
    /\ UNCHANGED <<storeVars, actorVars, runVars, table, metricsVars>>

KillRunDone(a) ==
    /\ pc[a] = "killing" /\ todo[a] = {}
    /\ Goto(a, ret[a])
    /\ UNCHANGED <<storeVars, ret, ev, todo, victim, runVars, procVars, metricsVars>>

------------------------------------------------------------------------------
(* ScenarioRunner.run                                                      *)

\* Mutation of upsert_unless_cancelled: the record is written whatever it says.
UpsertAlways(new, accepted, refused) ==
    /\ status' = new
    /\ accepted

\* upsert_unless_cancelled: check and write under one acquisition of the lock.
upsert_unless_cancelled(new, accepted, refused) ==
    \/ is_cancelled /\ UNCHANGED status /\ refused
    \/ ~is_cancelled /\ status' = new /\ accepted

Begin ==
    /\ pc[Engine] = "begin"
    /\ upsert_unless_cancelled("running", Goto(Engine, "load"), Goto(Engine, "done"))
    /\ UNCHANGED <<log, ret, ev, todo, victim, runVars, procVars, metricsVars>>

\* Load the scenario and check the SDK features it needs; either may refuse.  An
\* exception that is no PlaygroundError (a template's trust spec that does not
\* validate) leaves run() as it is.
Load ==
    /\ pc[Engine] = "load"
    /\ Goto(Engine, "checkStart") \/ Goto(Engine, "checkRefusal") \/ Goto(Engine, "escaped")
    /\ UNCHANGED <<storeVars, ret, ev, todo, victim, runVars, procVars, metricsVars>>

CheckRefusal ==
    /\ pc[Engine] = "checkRefusal"
    /\ IF is_cancelled
       THEN Goto(Engine, "finalize") /\ UNCHANGED <<ret, ev>>
       ELSE Emit(Engine, "run.failed", "finalize")
    /\ UNCHANGED <<storeVars, todo, victim, runVars, procVars, metricsVars>>

CheckStart ==
    /\ pc[Engine] = "checkStart"
    /\ IF is_cancelled
       THEN Goto(Engine, "finalize") /\ UNCHANGED <<ret, ev>>
       ELSE Emit(Engine, "run.started", "validate")
    /\ UNCHANGED <<storeVars, todo, victim, runVars, procVars, metricsVars>>

\* The inputs are valid, or not, or the scenario's schema itself is invalid:
\* that exception is no ValidationError and leaves run() as it is.
Validate ==
    /\ pc[Engine] = "validate"
    /\ \/ Goto(Engine, "acquire") /\ UNCHANGED <<ret, ev>>
       \/ Emit(Engine, "run.failed", "finalize")
       \/ Goto(Engine, "escaped") /\ UNCHANGED <<ret, ev>>
    /\ UNCHANGED <<storeVars, todo, victim, runVars, procVars, metricsVars>>

\* Mutation of Acquire: a failure part-way leaves before the try block.
AcquireOutsideTry ==
    /\ pc[Engine] = "acquire"
    /\ \E p, f \in 0..NumAgents :
          /\ f > 0 => p = NumAgents
          /\ ports' = 1..p /\ files' = 1..f /\ disk' = 1..f
          /\ IF f = NumAgents /\ p = NumAgents
             THEN spawned' = 1 /\ Goto(Engine, "checkSpawn")
             ELSE UNCHANGED spawned /\ Goto(Engine, "finalize")
    /\ UNCHANGED <<storeVars, ret, ev, todo, victim, procVars, metricsVars>>

\* Allocate the ports, then write the bootstrap files; either may raise on
\* the way.  A write that raises may leave its file, whose name is then lost.
Acquire ==
    /\ pc[Engine] = "acquire"
    /\ spawned' = 1
    /\ \E p, f, d \in 0..NumAgents :
          /\ d \in {f, f + 1} /\ (d > 0 => p = NumAgents)
          /\ ports' = 1..p /\ files' = 1..f /\ disk' = 1..d
          /\ Goto(Engine, IF f = NumAgents /\ p = NumAgents
                          THEN "checkSpawn" ELSE "except")
    /\ UNCHANGED <<storeVars, ret, ev, todo, victim, procVars, metricsVars>>

\* Mutation of CheckSpawn: the record is looked at before the first launch only.
CheckSpawnOnce ==
    /\ pc[Engine] = "checkSpawn"
    /\ \/ spawned > NumAgents /\ Goto(Engine, "steps")
       \/ spawned \in Agent /\ Goto(Engine, IF is_cancelled /\ spawned = 1
                                            THEN "except" ELSE "launch")
    /\ UNCHANGED <<storeVars, ret, ev, todo, victim, runVars, procVars, metricsVars>>

\* Before each launch: a cancelled run unwinds; so does an invalid manifest.
CheckSpawn ==
    /\ pc[Engine] = "checkSpawn"
    /\ \/ spawned > NumAgents /\ Goto(Engine, "steps")
       \/ spawned \in Agent /\ Goto(Engine, IF is_cancelled THEN "except" ELSE "launch")
       \/ spawned \in Agent /\ Goto(Engine, "except")
    /\ UNCHANGED <<storeVars, ret, ev, todo, victim, runVars, procVars, metricsVars>>

\* AgentSupervisor.launch starts the process, or raises.
Launch ==
    /\ pc[Engine] = "launch"
    /\ \/ /\ table' = table \cup {spawned} /\ alive' = alive \cup {spawned}
          /\ Goto(Engine, "awaitReady") /\ UNCHANGED dying
       \/ Goto(Engine, "except") /\ UNCHANGED procVars
    /\ UNCHANGED <<storeVars, ret, ev, todo, victim, runVars, metricsVars>>

\* The engine reads the line that says the agent is ready, which may have died
\* since it wrote it.
AgentReady ==
    /\ pc[Engine] = "awaitReady"
    /\ spawned' = spawned + 1
    /\ Goto(Engine, "checkSpawn")
    /\ UNCHANGED <<storeVars, ret, ev, todo, victim, ports, files, disk, procVars, metricsVars>>

\* Its pipe closes, for its process is gone; or another line comes after the
\* start-up deadline, which is looked at between lines only, and it is killed.
\* The table keeps it either way.
AgentNotReady ==
    /\ pc[Engine] = "awaitReady"
    /\ Sigkill(spawned)
    /\ Goto(Engine, "except")
    /\ UNCHANGED <<storeVars, ret, ev, todo, victim, runVars, table, metricsVars>>

\* Trust set-up and the workflow steps all succeed, or one of them raises.
Steps ==
    /\ pc[Engine] = "steps"
    /\ Goto(Engine, "cleanupOk") \/ Goto(Engine, "except")
    /\ UNCHANGED <<storeVars, ret, ev, todo, victim, runVars, procVars, metricsVars>>

\* Mutation of Except: the failure is not announced.
ExceptSilent ==
    /\ pc[Engine] = "except"
    /\ Goto(Engine, "cleanupFailed")
    /\ UNCHANGED <<storeVars, ret, ev, todo, victim, runVars, procVars, metricsVars>>

\* The except clause: announce the failure, unless the run is cancelled.
Except ==
    /\ pc[Engine] = "except"
    /\ IF is_cancelled
       THEN Goto(Engine, "cleanupFailed") /\ UNCHANGED <<ret, ev>>
       ELSE Emit(Engine, "run.failed", "cleanupFailed")
    /\ UNCHANGED <<storeVars, todo, victim, runVars, procVars, metricsVars>>

\* _cleanup_run: kill the processes, then give back ports and files.  It runs
\* in the except clause, and again, or for the first time, in the finally.
CleanupKill ==
    /\ \/ pc[Engine] = "cleanupFailed" /\ KillRun(Engine, "release")
       \/ pc[Engine] = "cleanupOk"     /\ KillRun(Engine, "releaseOk")
       \/ pc[Engine] = "sweep"         /\ KillRun(Engine, "releaseSweep")
    /\ UNCHANGED <<storeVars, ev, victim, runVars, procVars, metricsVars>>

CleanupRelease ==
    /\ \/ pc[Engine] = "release"      /\ Goto(Engine, "finalize")
       \/ pc[Engine] = "releaseOk"    /\ Goto(Engine, "succeed")
       \/ pc[Engine] = "releaseSweep" /\ Goto(Engine, "done")
    /\ ports' = {} /\ files' = {} /\ disk' = disk \ files
    /\ UNCHANGED <<storeVars, ret, ev, todo, victim, spawned, procVars, metricsVars>>

\* Where _finalize_failure returns to: the finally clause, if the run had
\* entered the try block.
AfterFinalize == IF spawned = 0 THEN "done" ELSE "sweep"

\* _finalize_failure checks the record ...
FinalizeCheck ==
    /\ pc[Engine] = "finalize"
    /\ Goto(Engine, IF is_cancelled THEN AfterFinalize ELSE "writeFailed")
    /\ UNCHANGED <<storeVars, ret, ev, todo, victim, runVars, procVars, metricsVars>>

\* Mutation of FinalizeWrite: the record is left as it is.
FinalizeForgets ==
    /\ pc[Engine] = "writeFailed"
    /\ Goto(Engine, AfterFinalize)
    /\ UNCHANGED <<storeVars, ret, ev, todo, victim, runVars, procVars, metricsVars>>

\* ... and writes it.
FinalizeWrite ==
    /\ pc[Engine] = "writeFailed"
    /\ status' = "failed"
    /\ Goto(Engine, AfterFinalize)
    /\ UNCHANGED <<log, ret, ev, todo, victim, runVars, procVars, metricsVars>>

Succeed ==
    /\ pc[Engine] = "succeed"
    /\ upsert_unless_cancelled("success", Emit(Engine, "run.complete", "done"),
                               Goto(Engine, "done") /\ UNCHANGED <<ret, ev>>)
    /\ UNCHANGED <<log, todo, victim, runVars, procVars, metricsVars>>

------------------------------------------------------------------------------
(* cancel_run                                                              *)

CancelCheck(c) ==
    /\ pc[c] = "idle"
    /\ Goto(c, IF status \in Terminal THEN "noop" ELSE "mark")
    /\ UNCHANGED <<storeVars, ret, ev, todo, victim, runVars, procVars, metricsVars>>

CancelMark(c) ==
    /\ pc[c] = "mark"
    /\ status' = "cancelled"
    /\ Emit(c, "run.cancelled", "kill")
    /\ UNCHANGED <<log, todo, victim, runVars, procVars, metricsVars>>

CancelKill(c) ==
    /\ pc[c] = "kill"
    /\ KillRun(c, "done")
    /\ UNCHANGED <<storeVars, ev, victim, runVars, procVars, metricsVars>>

------------------------------------------------------------------------------
\* create_run has stored the pending run and scheduled the task.
Init ==
    /\ status = "pending" /\ log = <<>>
    /\ pc = [a \in Actor |-> IF a = Engine THEN "begin" ELSE "idle"]
    /\ ret = [a \in Actor |-> "done"]
    /\ ev = [a \in Actor |-> None]
    /\ todo = [a \in Actor |-> {}]
    /\ victim = [a \in Actor |-> None]
    /\ spawned = 0 /\ ports = {} /\ files = {} /\ disk = {}
    /\ table = {} /\ alive = {} /\ dying = {}
    /\ started = FALSE /\ active = 0 /\ refusals = 0 /\ total = [e \in Event |-> 0]

SharedStep(a) ==
    \/ append_event(a) \/ CountRun(a) \/ add_gauge(a) \/ CountTotal(a)
    \/ kill(a) \/ Reap(a) \/ KillRunDone(a)

EngineStep ==
    \/ Begin \/ Load \/ CheckRefusal \/ CheckStart \/ Validate \/ Acquire
    \/ CheckSpawn \/ Launch \/ AgentReady \/ AgentNotReady \/ Steps \/ Except
    \/ CleanupKill \/ CleanupRelease \/ FinalizeCheck \/ FinalizeWrite \/ Succeed
    \/ SharedStep(Engine)

CancelStep(c) == CancelCheck(c) \/ CancelMark(c) \/ CancelKill(c) \/ SharedStep(c)

Next ==
    \/ EngineStep
    \/ \E c \in Cancellers : CancelStep(c)
    \/ \E i \in Agent : Dies(i) \/ Exits(i)

Spec == Init /\ [][Next]_vars

\* The engine reads from an agent that is up: the read has no timeout, and may
\* take for ever.
WaitsForAgent == pc[Engine] = "awaitReady" /\ spawned \in alive

\* The loop runs the task whenever it can go on by itself (steps have HTTP
\* timeouts; a pipe whose process is gone is closed), a thread that started is
\* scheduled, and SIGKILL is carried out.  A cancel request need never be made,
\* an agent need never write a line, nor stop by itself.
Fairness ==
    /\ WF_vars(~WaitsForAgent /\ EngineStep)
    /\ \A c \in Cancellers : WF_vars(CancelMark(c) \/ CancelKill(c) \/ SharedStep(c))
    /\ \A i \in Agent : WF_vars(Dies(i))

FairSpec == Spec /\ Fairness

------------------------------------------------------------------------------
(* Properties.                                                             *)

\* A run a client was told is cancelled is never shown running or successful
\* afterwards, whenever the cancel lands (#118: upsert_unless_cancelled).
NoResurrection ==
    [][status = "cancelled" => status' \notin {"running", "success"}]_vars

\* When the task ends, nothing it took is left: no port, no process but those a
\* cancel thread has in hand or that SIGKILL was sent to, no bootstrap file but one
\* whose write failed, however the run ended and wherever cancels raced it
\* (_cleanup_run, kill_run).
EngineLeavesNothing ==
    pc[Engine] = "done" =>
        /\ ports = {} /\ files = {} /\ table = {}
        /\ \A i \in alive \ dying : \E c \in Cancellers : victim[c] = i
        /\ \A i, j \in disk : i = j

\* Once a cancel has answered, at most one process of the run is not stopped,
\* sent SIGKILL or in the hands of a kill: the one whose launch had passed its
\* check before the cancel marked the record (the spawn loop's check, #118).
OneStraggler ==
    (\E c \in Cancellers : pc[c] = "done") =>
        Cardinality({i \in alive \ dying : \A a \in Actor : victim[a] # i}) <= 1

Quiet == pc[Engine] = "done" /\ \A c \in Cancellers : pc[c] \in {"idle", "noop", "done"}

\* When all is over the record is terminal, the log holds a terminal event,
\* and the metrics counted as many runs as the log holds such events
\* (run, cancel_run, record_event).
EveryRunIsAccounted ==
    Quiet =>
        /\ status \in Terminal
        /\ \E k \in DOMAIN log : log[k] # "run.started"
        /\ \A e \in Event \ {"run.started"} :
              total[e] = Cardinality({k \in DOMAIN log : log[k] = e})

\* Every run ends in a terminal status, unless an exception left run(), or the
\* engine reads for ever from an agent that is up and says nothing more (run,
\* _finalize_failure, launch).
EveryRunEnds ==
    <>(pc[Engine] = "escaped" \/ status \in Terminal) \/ <>[]WaitsForAgent

\* Every agent process a run launched stops, whoever kills it and wherever cancels
\* raced the launch, with the same exception: while the engine reads from a silent
\* agent, it stops none (_cleanup_run, cancel_run, kill).
EveryProcessStops ==
    (\A i \in Agent : (i \in alive) ~> (i \notin alive)) \/ <>[]WaitsForAgent

\* "A cancelled run's record stays cancelled" (D-16, _finalize_failure).
CancelledStaysCancelled == [][status = "cancelled" => status' = "cancelled"]_vars

==============================================================================
