-------------------------- MODULE RunLifecycleProofs --------------------------
(***************************************************************************)
(* Proofs about RunLifecycle: for any number of agents and any set of      *)
(* concurrent cancel requests, an infinite one too.                        *)
(***************************************************************************)
EXTENDS RunLifecycle, FiniteSetTheorems, TLAPS

USE AgentsAssumption, ActorAssumption

------------------------------------------------------------------------------
(* A cancelled run stays cancelled, or fails.                              *)

\* A run a client was told is cancelled is never shown running or successful
\* afterwards (upsert_unless_cancelled).
THEOREM NoResurrectionHolds == Spec => NoResurrection
  <1>1. ASSUME [Next]_vars, status = "cancelled"
        PROVE  status' \notin {"running", "success"}
    <2>1. CASE EngineStep
      BY <1>1, <2>1
      DEF EngineStep, SharedStep, storeVars, vars,
          Begin, upsert_unless_cancelled, is_cancelled, Load, CheckRefusal, CheckStart, Validate,
          Acquire, CheckSpawn, Launch, AgentReady, AgentNotReady, Steps, Except, CleanupKill,
          CleanupRelease, FinalizeCheck, FinalizeWrite, Succeed,
          append_event, CountRun, add_gauge, CountTotal, kill, Reap, KillRunDone
    <2>2. CASE \E c \in Cancellers : CancelStep(c)
      BY <1>1, <2>2
      DEF CancelStep, SharedStep, storeVars, CancelCheck, CancelMark, CancelKill,
          append_event, CountRun, add_gauge, CountTotal, kill, Reap, KillRunDone
    <2>3. CASE \E i \in Agent : Dies(i) \/ Exits(i)
      BY <1>1, <2>3 DEF Dies, Exits, storeVars
    <2>4. CASE UNCHANGED vars
      BY <1>1, <2>4 DEF vars, storeVars
    <2>5. QED
      BY <1>1, <2>1, <2>2, <2>3, <2>4 DEF Next
  <1>2. QED
    BY <1>1, PTL DEF Spec, NoResurrection

------------------------------------------------------------------------------
(* Types, and where each actor's calls return to.                          *)

Emitting == {"append", "count", "gauge", "total"}
Killing  == {"killing", "reap"}

\* What the engine emits and kills, and what it does next; the agent it is at
\* while it launches.
EngineFlow ==
    /\ pc[Engine] \in EnginePc \cup SharedPc
    /\ pc[Engine] \in Emitting =>
          \/ ev[Engine] = "run.started"  /\ ret[Engine] = "validate"
          \/ ev[Engine] = "run.failed"   /\ ret[Engine] \in {"finalize", "cleanupFailed"}
          \/ ev[Engine] = "run.complete" /\ ret[Engine] = "done"
    /\ pc[Engine] \in Killing => ret[Engine] \in {"release", "releaseOk", "releaseSweep"}
    /\ pc[Engine] = "checkSpawn" => spawned \in 1..(NumAgents + 1)
    /\ pc[Engine] \in {"launch", "awaitReady"} => spawned \in Agent

\* The same of a cancel request, and that it has answered only when it has gone
\* through all the keys it copied.
CancelFlow(c) ==
    /\ pc[c] \in CancelPc \cup SharedPc
    /\ pc[c] \in Emitting => ev[c] = "run.cancelled" /\ ret[c] = "kill"
    /\ pc[c] \in Killing => ret[c] = "done"
    /\ pc[c] = "done" => todo[c] = {}

\* The inductive invariant behind TypeOK: who is reaping has a process in hand,
\* and nobody else has.
FlowInv ==
    /\ TypeOK
    /\ EngineFlow
    /\ \A c \in Cancellers : CancelFlow(c)
    /\ \A a \in Actor : pc[a] = "reap" <=> victim[a] # None

LEMMA InitFlow == Init => FlowInv
  <1> SUFFICES ASSUME Init PROVE FlowInv
    OBVIOUS
  <1>1. TypeOK
    <2>1. log \in Seq(Event) /\ total \in [Event -> Nat]
      BY DEF Init
    <2>2. pc \in [Actor -> Pc] /\ ret \in [Actor -> Pc]
      BY DEF Init, Pc, EnginePc, CancelPc, SharedPc
    <2>3. /\ ev \in [Actor -> Event \cup {None}] /\ todo \in [Actor -> SUBSET Agent]
          /\ victim \in [Actor -> Agent \cup {None}]
      BY DEF Init
    <2>4. spawned \in 0..(NumAgents + 1) /\ active \in Nat /\ refusals \in Nat
      BY DEF Init
    <2>5. started \in BOOLEAN /\ status \in {"pending", "running"} \cup Terminal
      BY Zenon DEF Init
    <2>6. {ports, files, disk, table, alive} \subseteq SUBSET Agent /\ dying \subseteq alive
      BY DEF Init
    <2>7. QED
      BY <2>1, <2>2, <2>3, <2>4, <2>5, <2>6 DEF TypeOK
  <1>2. EngineFlow /\ \A c \in Cancellers : CancelFlow(c)
    BY DEF Init, EngineFlow, CancelFlow, Actor, EnginePc, CancelPc, SharedPc, Emitting, Killing
  <1>3. \A a \in Actor : pc[a] # "reap" /\ victim[a] = None
    BY DEF Init
  <1>4. QED
    BY <1>1, <1>2, <1>3 DEF FlowInv

LEMMA NoneIsNoAgent == None \notin Agent
  BY DEF Agent

\* What emissions and kills do, whoever makes them.
LEMMA SharedFlow ==
    ASSUME FlowInv, NEW a \in Actor, SharedStep(a)
    PROVE  FlowInv'
  <1> USE DEF FlowInv, TypeOK, EngineFlow, CancelFlow, Actor, Goto, Emitting, Killing,
              Pc, EnginePc, CancelPc, SharedPc, storeVars, runVars, procVars, metricsVars
  <1>1. CASE append_event(a)
    <2>1. ev[a] \in Event
      BY <1>1 DEF append_event, Event
    <2>2. QED
      BY <1>1, <2>1 DEF append_event
  <1>2. CASE CountRun(a)
    <2>1. started' \in BOOLEAN
      BY <1>2, Zenon DEF CountRun
    <2>2. /\ pc[a] = "count"
          /\ \E l \in {ret[a], "gauge", "total"} : pc' = [pc EXCEPT ![a] = l]
      BY <1>2 DEF CountRun
    <2>3. UNCHANGED <<status, log, ret, ev, todo, victim, spawned, ports, files, disk, table,
                      alive, dying, active, total>>
      BY <1>2 DEF CountRun
    <2>4. refusals' \in Nat
      <3>1. refusals' \in {refusals, refusals + 1} /\ refusals \in Nat
        BY <1>2 DEF CountRun
      <3>2. QED
        BY <3>1
    <2>5. TypeOK'
      BY <2>1, <2>2, <2>3, <2>4
    <2>6. QED
      BY <2>2, <2>3, <2>5
  <1>3. CASE add_gauge(a)
    <2>1. active' \in Nat
      BY <1>3 DEF add_gauge
    <2>2. /\ pc[a] = "gauge"
          /\ \E l \in {ret[a], "total"} : pc' = [pc EXCEPT ![a] = l]
      BY <1>3 DEF add_gauge
    <2>3. UNCHANGED <<status, log, ret, ev, todo, victim, spawned, ports, files, disk, table,
                      alive, dying, started, refusals, total>>
      BY <1>3 DEF add_gauge
    <2>4. TypeOK'
      BY <2>1, <2>2, <2>3
    <2>5. QED
      BY <2>2, <2>3, <2>4
  <1>4. CASE CountTotal(a)
    <2>1. total' \in [Event -> Nat]
      <3>1. ev[a] \in Event
        BY <1>4 DEF CountTotal, Event
      <3>2. total' = [total EXCEPT ![ev[a]] = @ + 1]
        BY <1>4 DEF CountTotal
      <3>3. total \in [Event -> Nat]
        OBVIOUS
      <3>4. QED
        BY <3>1, <3>2, <3>3
    <2>2. QED
      BY <1>4, <2>1 DEF CountTotal
  <1>5. CASE kill(a)
    <2> DEFINE i == Min(todo[a])
    <2>1. CASE i \in table
      <3>1. i \in Agent /\ i # None
        BY <2>1, NoneIsNoAgent
      <3>2. /\ victim' = [victim EXCEPT ![a] = i] /\ pc' = [pc EXCEPT ![a] = "reap"]
            /\ todo' = [todo EXCEPT ![a] = @ \ {i}] /\ table' = table \ {i}
            /\ pc[a] = "killing"
            /\ UNCHANGED <<storeVars, ret, ev, runVars, alive, dying, metricsVars>>
        BY <1>5, <2>1 DEF kill
      <3>3. TypeOK'
        BY <3>1, <3>2
      <3>4. QED
        BY <3>1, <3>2, <3>3
    <2>2. CASE i \notin table
      BY <1>5, <2>2 DEF kill
    <2>3. QED
      BY <2>1, <2>2
  <1>6. CASE Reap(a)
    BY <1>6 DEF Reap, Gone, Sigkill
  <1>7. CASE KillRunDone(a)
    BY <1>7 DEF KillRunDone
  <1>8. QED
    BY <1>1, <1>2, <1>3, <1>4, <1>5, <1>6, <1>7 DEF SharedStep

LEMMA EngineStepFlow ==
    ASSUME FlowInv, EngineStep
    PROVE  FlowInv'
  <1> USE DEF FlowInv, TypeOK, EngineFlow, CancelFlow, Actor, Goto, Emitting, Killing,
              Pc, EnginePc, CancelPc, SharedPc, storeVars, runVars, procVars, metricsVars
  <1>1. CASE Begin
    BY <1>1 DEF Begin, upsert_unless_cancelled, Terminal
  <1>2. CASE Load
    BY <1>2 DEF Load
  <1>3. CASE CheckRefusal \/ CheckStart
    BY <1>3 DEF CheckRefusal, CheckStart, Emit, Event
  <1>4. CASE Validate
    BY <1>4 DEF Validate, Emit, Event
  <1>5. CASE Acquire
    BY <1>5 DEF Acquire, Agent
  <1>6. CASE CheckSpawn
    BY <1>6 DEF CheckSpawn, Agent
  <1>7. CASE Launch
    <2>1. TypeOK'
      BY <1>7 DEF Launch
    <2>2. QED
      BY <1>7, <2>1 DEF Launch
  <1>8. CASE AgentReady
    BY <1>8 DEF AgentReady, Agent
  <1>9. CASE AgentNotReady
    BY <1>9 DEF AgentNotReady, Sigkill
  <1>10. CASE Steps
    BY <1>10 DEF Steps
  <1>11. CASE Except
    BY <1>11 DEF Except, Emit, Event
  <1>12. CASE CleanupKill
    <2>1. PICK next \in {"release", "releaseOk", "releaseSweep"} : KillRun(Engine, next)
      BY <1>12 DEF CleanupKill
    <2>2. pc[Engine] \in {"cleanupFailed", "cleanupOk", "sweep"}
      BY <1>12 DEF CleanupKill
    <2>3. QED
      BY <1>12, <2>1, <2>2 DEF CleanupKill, KillRun
  <1>13. CASE CleanupRelease
    BY <1>13 DEF CleanupRelease
  <1>14. CASE FinalizeCheck
    BY <1>14 DEF FinalizeCheck, AfterFinalize
  <1>15. CASE FinalizeWrite
    BY <1>15 DEF FinalizeWrite, AfterFinalize, Terminal
  <1>16. CASE Succeed
    BY <1>16 DEF Succeed, upsert_unless_cancelled, Emit, Terminal, Event
  <1>17. CASE SharedStep(Engine)
    BY <1>17, SharedFlow
  <1>18. QED
    BY <1>1, <1>2, <1>3, <1>4, <1>5, <1>6, <1>7, <1>8, <1>9, <1>10, <1>11, <1>12, <1>13,
       <1>14, <1>15, <1>16, <1>17 DEF EngineStep

LEMMA StepFlow ==
    ASSUME FlowInv, [Next]_vars
    PROVE  FlowInv'
  <1> USE DEF FlowInv, TypeOK, EngineFlow, CancelFlow, Actor, Goto, Emitting, Killing,
              Pc, EnginePc, CancelPc, SharedPc, storeVars, runVars, procVars, metricsVars
  <1>1. CASE EngineStep
    BY <1>1, EngineStepFlow
  <1>2. ASSUME NEW c \in Cancellers, CancelStep(c)
        PROVE  FlowInv'
    <2>1. CASE CancelCheck(c)
      BY <2>1 DEF CancelCheck
    <2>2. CASE CancelMark(c)
      BY <2>2 DEF CancelMark, Emit, Event, Terminal
    <2>3. CASE CancelKill(c)
      BY <2>3 DEF CancelKill, KillRun
    <2>4. CASE SharedStep(c)
      BY <2>4, SharedFlow
    <2>5. QED
      BY <1>2, <2>1, <2>2, <2>3, <2>4 DEF CancelStep
  <1>3. CASE \E i \in Agent : Dies(i) \/ Exits(i)
    BY <1>3 DEF Dies, Exits, Gone, actorVars
  <1>4. CASE UNCHANGED vars
    BY <1>4 DEF vars, actorVars
  <1>5. QED
    BY <1>1, <1>2, <1>3, <1>4 DEF Next

\* Every variable keeps its type, whatever the engine and the cancel requests do.
THEOREM TypeOKHolds == Spec => []TypeOK
  <1>1. FlowInv => TypeOK
    BY DEF FlowInv
  <1>2. QED
    BY InitFlow, StepFlow, <1>1, PTL DEF Spec

------------------------------------------------------------------------------
(* The task leaves nothing behind.                                         *)

\* A process that was not sent SIGKILL is in the table, or in the hands of the call
\* that took it.
InHand == \A i \in alive \ dying : i \in table \/ \E a \in Actor : victim[a] = i

EmitsThen(labels) == pc[Engine] \in Emitting /\ ret[Engine] \in labels
KillsThen(labels) == pc[Engine] \in Killing /\ ret[Engine] \in labels

\* Before the try block the run has taken nothing.
NothingYet ==
    /\ \/ pc[Engine] \in {"begin", "load", "checkRefusal", "checkStart", "validate", "acquire"}
       \/ EmitsThen({"validate", "finalize"})
       => spawned = 0
    /\ spawned = 0 => table = {} /\ ports = {} /\ files = {}

\* Once the engine's kill_run is through, the table is empty and nothing is
\* launched any more.
Emptied ==
    /\ \/ pc[Engine] \in {"release", "releaseOk", "releaseSweep", "finalize", "writeFailed",
                          "sweep", "succeed", "done"}
       \/ EmitsThen({"done"})
       => table = {}
    /\ pc[Engine] \in Killing => table \subseteq todo[Engine]

\* Once _cleanup_run is through, ports and files are given back.
GivenBack ==
    \/ pc[Engine] \in {"finalize", "writeFailed", "sweep", "releaseSweep", "succeed", "done"}
    \/ EmitsThen({"done"})
    \/ KillsThen({"releaseSweep"})
    => ports = {} /\ files = {}

\* The inductive invariant behind EngineLeavesNothing.
CleanInv == FlowInv /\ InHand /\ NothingYet /\ Emptied /\ GivenBack

LEMMA InitClean == Init => CleanInv
  BY InitFlow DEF Init, CleanInv, InHand, NothingYet, Emptied, GivenBack, EmitsThen, KillsThen,
                  Actor, Emitting, Killing

\* A kill takes a process into its hands and lets it go only when it has stopped or was sent
\* SIGKILL.
LEMMA SharedClean ==
    ASSUME CleanInv, NEW a \in Actor, SharedStep(a)
    PROVE  (InHand /\ NothingYet /\ Emptied /\ GivenBack)'
  <1> USE DEF CleanInv, FlowInv, TypeOK, EngineFlow, CancelFlow, Actor, Goto, Emitting, Killing,
              Pc, EnginePc, CancelPc, SharedPc, storeVars, runVars, procVars, metricsVars,
              InHand, NothingYet, Emptied, GivenBack, EmitsThen, KillsThen
  <1>1. CASE append_event(a)
    BY <1>1 DEF append_event
  <1>2. CASE CountRun(a)
    <2>1. /\ pc[a] = "count"
          /\ \E l \in {ret[a], "gauge", "total"} : pc' = [pc EXCEPT ![a] = l]
      BY <1>2 DEF CountRun
    <2>2. UNCHANGED <<status, log, ret, ev, todo, victim, spawned, ports, files, table, alive, dying>>
      BY <1>2 DEF CountRun
    <2>3. QED
      BY <2>1, <2>2
  <1>3. CASE add_gauge(a)
    BY <1>3 DEF add_gauge
  <1>4. CASE CountTotal(a)
    BY <1>4 DEF CountTotal
  <1>5. CASE kill(a)
    <2> DEFINE i == Min(todo[a])
    <2>1. /\ todo' = [todo EXCEPT ![a] = @ \ {i}] /\ table' = table \ {i}
          /\ pc[a] = "killing"
          /\ UNCHANGED <<ret, ev, spawned, ports, files, alive, dying>>
      BY <1>5 DEF kill
    <2>2. CASE i \in table
      <3>1. victim' = [victim EXCEPT ![a] = i] /\ pc' = [pc EXCEPT ![a] = "reap"]
        BY <1>5, <2>2 DEF kill
      <3>2. InHand'
        <4> SUFFICES ASSUME NEW j \in alive \ dying, j \notin table'
                     PROVE  \E b \in Actor : victim'[b] = j
          BY <2>1
        <4>1. CASE j = i
          BY <3>1, <4>1
        <4>2. CASE j # i
          <5>1. PICK b \in Actor : victim[b] = j
            BY <2>1, <4>2
          <5>2. b # a
            BY <2>1, <5>1, NoneIsNoAgent
          <5>3. QED
            BY <3>1, <5>1, <5>2
        <4>3. QED
          BY <4>1, <4>2
      <3>3. NothingYet' /\ Emptied' /\ GivenBack'
        BY <2>1, <3>1
      <3>4. QED
        BY <3>2, <3>3
    <2>3. CASE i \notin table
      <3>1. UNCHANGED <<victim, pc>>
        BY <1>5, <2>3 DEF kill
      <3>2. QED
        BY <2>1, <2>3, <3>1
    <2>4. QED
      BY <2>2, <2>3
  <1>6. CASE Reap(a)
    BY <1>6 DEF Reap, Gone, Sigkill
  <1>7. CASE KillRunDone(a)
    BY <1>7 DEF KillRunDone
  <1>8. QED
    BY <1>1, <1>2, <1>3, <1>4, <1>5, <1>6, <1>7 DEF SharedStep

LEMMA EngineStepClean ==
    ASSUME CleanInv, EngineStep
    PROVE  (InHand /\ NothingYet /\ Emptied /\ GivenBack)'
  <1> USE DEF CleanInv, FlowInv, TypeOK, EngineFlow, Actor, Goto, Emitting, Killing,
              Pc, EnginePc, CancelPc, SharedPc, storeVars, runVars, procVars, metricsVars,
              InHand, NothingYet, Emptied, GivenBack, EmitsThen, KillsThen
  <1>1. CASE Begin
    BY <1>1 DEF Begin, upsert_unless_cancelled
  <1>2. CASE Load
    BY <1>2 DEF Load
  <1>3. CASE CheckRefusal \/ CheckStart
    BY <1>3 DEF CheckRefusal, CheckStart, Emit
  <1>4. CASE Validate
    BY <1>4 DEF Validate, Emit
  <1>5. CASE Acquire
    BY <1>5 DEF Acquire
  <1>6. CASE CheckSpawn
    BY <1>6 DEF CheckSpawn
  <1>7. CASE Launch
    <2>1. /\ pc'[Engine] \in {"awaitReady", "except"} /\ spawned # 0
          /\ UNCHANGED <<spawned, victim>>
      BY <1>7 DEF Launch, Agent
    <2>2. InHand'
      BY <1>7 DEF Launch
    <2>3. QED
      BY <2>1, <2>2
  <1>8. CASE AgentReady
    BY <1>8 DEF AgentReady, Agent
  <1>9. CASE AgentNotReady
    BY <1>9 DEF AgentNotReady, Sigkill
  <1>10. CASE Steps
    BY <1>10 DEF Steps
  <1>11. CASE Except
    BY <1>11 DEF Except, Emit
  <1>12. CASE CleanupKill
    <2>1. InHand' /\ NothingYet'
      BY <1>12 DEF CleanupKill, KillRun
    <2>2. Emptied'
      BY <1>12 DEF CleanupKill, KillRun
    <2>3. GivenBack'
      BY <1>12 DEF CleanupKill, KillRun
    <2>4. QED
      BY <2>1, <2>2, <2>3
  <1>13. CASE CleanupRelease
    BY <1>13 DEF CleanupRelease
  <1>14. CASE FinalizeCheck
    BY <1>14 DEF FinalizeCheck, AfterFinalize
  <1>15. CASE FinalizeWrite
    BY <1>15 DEF FinalizeWrite, AfterFinalize
  <1>16. CASE Succeed
    BY <1>16 DEF Succeed, upsert_unless_cancelled, Emit
  <1>17. CASE SharedStep(Engine)
    BY <1>17, SharedClean
  <1>18. QED
    BY <1>1, <1>2, <1>3, <1>4, <1>5, <1>6, <1>7, <1>8, <1>9, <1>10, <1>11, <1>12, <1>13,
       <1>14, <1>15, <1>16, <1>17 DEF EngineStep

LEMMA StepClean ==
    ASSUME CleanInv, [Next]_vars
    PROVE  CleanInv'
  <1> USE DEF CleanInv, FlowInv, TypeOK, Actor, Goto, Emitting, Killing,
              storeVars, runVars, procVars, metricsVars,
              InHand, NothingYet, Emptied, GivenBack, EmitsThen, KillsThen
  <1>1. FlowInv'
    BY StepFlow
  <1>2. CASE EngineStep
    BY <1>1, <1>2, EngineStepClean
  <1>3. ASSUME NEW c \in Cancellers, CancelStep(c)
        PROVE  CleanInv'
    <2>1. CASE CancelCheck(c)
      BY <1>1, <2>1 DEF CancelCheck
    <2>2. CASE CancelMark(c)
      BY <1>1, <2>2 DEF CancelMark, Emit
    <2>3. CASE CancelKill(c)
      BY <1>1, <2>3 DEF CancelKill, KillRun
    <2>4. CASE SharedStep(c)
      BY <1>1, <2>4, SharedClean
    <2>5. QED
      BY <1>3, <2>1, <2>2, <2>3, <2>4 DEF CancelStep
  <1>4. CASE \E i \in Agent : Dies(i) \/ Exits(i)
    BY <1>1, <1>4 DEF Dies, Exits, Gone, actorVars
  <1>5. CASE UNCHANGED vars
    BY <1>1, <1>5 DEF vars, actorVars
  <1>6. QED
    BY <1>2, <1>3, <1>4, <1>5 DEF Next

\* Of the bootstrap files that exist, the run does not know the name of one at
\* most: the one whose write raised.
OneLost == \A i, j \in disk \ files : i = j

LEMMA StepLost ==
    ASSUME OneLost, [Next]_vars
    PROVE  OneLost'
  <1>1. CASE Acquire
    <2>1. PICK f, d \in 0..NumAgents : d \in {f, f + 1} /\ files' = 1..f /\ disk' = 1..d
      BY <1>1 DEF Acquire
    <2>2. QED
      BY <2>1 DEF OneLost
  <1>2. CASE CleanupRelease
    <2>1. files' = {} /\ disk' = disk \ files
      BY <1>2 DEF CleanupRelease
    <2>2. QED
      BY <2>1 DEF OneLost
  <1>3. ASSUME NEW a \in Actor, SharedStep(a)
        PROVE  UNCHANGED <<files, disk>>
    BY <1>3 DEF SharedStep, append_event, CountRun, add_gauge, CountTotal, kill, Reap,
                KillRunDone, runVars
  <1>4. CASE EngineStep /\ ~Acquire /\ ~CleanupRelease /\ ~SharedStep(Engine)
    <2>1. UNCHANGED <<files, disk>>
      BY <1>4 DEF EngineStep, Begin, Load, CheckRefusal, CheckStart, Validate, CheckSpawn,
             Launch, AgentReady, AgentNotReady, Steps, Except, CleanupKill, FinalizeCheck,
             FinalizeWrite, Succeed, runVars
    <2>2. QED
      BY <2>1 DEF OneLost
  <1>5. ASSUME NEW c \in Cancellers, CancelCheck(c) \/ CancelMark(c) \/ CancelKill(c)
        PROVE  UNCHANGED <<files, disk>>
    BY <1>5 DEF CancelCheck, CancelMark, CancelKill, runVars
  <1>6. CASE (\E i \in Agent : Dies(i) \/ Exits(i)) \/ UNCHANGED vars
    <2>1. UNCHANGED <<files, disk>>
      BY <1>6 DEF Dies, Exits, vars, runVars
    <2>2. QED
      BY <2>1 DEF OneLost
  <1>7. QED
    BY <1>1, <1>2, <1>3, <1>4, <1>5, <1>6 DEF Next, EngineStep, CancelStep, Actor, OneLost

\* When the task ends, nothing it took is left: no port, no process but those a
\* cancel thread has in hand or that SIGKILL was sent to, no bootstrap file but one
\* whose write failed (_cleanup_run, kill_run).
THEOREM EngineLeavesNothingHolds == Spec => []EngineLeavesNothing
  <1>1. CleanInv /\ OneLost => EngineLeavesNothing
    <2> SUFFICES ASSUME CleanInv, OneLost, pc[Engine] = "done"
                 PROVE  /\ ports = {} /\ files = {} /\ table = {}
                        /\ \A i \in alive \ dying : \E c \in Cancellers : victim[c] = i
                        /\ \A i, j \in disk : i = j
      BY DEF EngineLeavesNothing
    <2>1. ports = {} /\ files = {} /\ table = {}
      BY DEF CleanInv, Emptied, GivenBack
    <2>2. victim[Engine] = None
      BY DEF CleanInv, FlowInv, Actor
    <2>3. \A i \in alive : i # None
      BY NoneIsNoAgent DEF CleanInv, FlowInv, TypeOK
    <2>4. \A i, j \in disk : i = j
      BY <2>1 DEF OneLost
    <2>5. QED
      BY <2>1, <2>2, <2>3, <2>4 DEF CleanInv, InHand, Actor
  <1>2. Init => OneLost
    BY DEF Init, OneLost
  <1>3. QED
    BY InitClean, StepClean, StepLost, <1>1, <1>2, PTL DEF Spec

------------------------------------------------------------------------------
(* At most one process outlives a cancel.                                  *)

\* The cancel request has written the record.
Marked(c) == pc[c] \in {"kill", "done"} \cup Emitting \cup Killing

\* _finalize_failure has written the record: the task is on its way out.
Closed == pc[Engine] \in {"sweep", "releaseSweep", "done"} \/ KillsThen({"releaseSweep"})

\* The mark of a cancel stays until the task has nothing to launch any more.
MarkStays == \A c \in Cancellers : Marked(c) => status = "cancelled" \/ Closed

\* What the table holds beside the keys a cancel has yet to go through is one
\* process at most, and none if a launch is still under way.
OneLeft ==
    \A c \in Cancellers : pc[c] \in Killing \cup {"done"} =>
        /\ pc[Engine] = "launch" => table \subseteq todo[c]
        /\ \A i, j \in table \ todo[c] : i = j

\* The inductive invariant behind OneStraggler.
StragglerInv == CleanInv /\ MarkStays /\ OneLeft

LEMMA InitStraggler == Init => StragglerInv
  BY InitClean DEF Init, StragglerInv, MarkStays, OneLeft, Marked, Actor, Emitting, Killing

LEMMA SharedStraggler ==
    ASSUME StragglerInv, NEW a \in Actor, SharedStep(a)
    PROVE  (MarkStays /\ OneLeft)'
  <1> USE DEF StragglerInv, CleanInv, FlowInv, TypeOK, EngineFlow, CancelFlow, Actor, Goto,
              Emitting, Killing, Pc, EnginePc, CancelPc, SharedPc, storeVars, runVars, procVars,
              metricsVars, KillsThen, MarkStays, OneLeft, Marked, Closed
  <1>1. CASE append_event(a)
    BY <1>1 DEF append_event
  <1>2. CASE CountRun(a)
    <2>1. /\ pc[a] = "count"
          /\ \E l \in {ret[a], "gauge", "total"} : pc' = [pc EXCEPT ![a] = l]
      BY <1>2 DEF CountRun
    <2>2. UNCHANGED <<status, ret, todo, table>>
      BY <1>2 DEF CountRun
    <2>3. QED
      BY <2>1, <2>2
  <1>3. CASE add_gauge(a)
    BY <1>3 DEF add_gauge
  <1>4. CASE CountTotal(a)
    BY <1>4 DEF CountTotal
  <1>5. CASE kill(a)
    <2> DEFINE i == Min(todo[a])
    <2>1. /\ todo' = [todo EXCEPT ![a] = @ \ {i}] /\ table' = table \ {i}
          /\ pc[a] = "killing" /\ pc' \in {pc, [pc EXCEPT ![a] = "reap"]}
          /\ UNCHANGED <<status, ret>>
      BY <1>5 DEF kill
    <2>2. QED
      BY <2>1
  <1>6. CASE Reap(a)
    BY <1>6 DEF Reap, Gone, Sigkill
  <1>7. CASE KillRunDone(a)
    BY <1>7 DEF KillRunDone
  <1>8. QED
    BY <1>1, <1>2, <1>3, <1>4, <1>5, <1>6, <1>7 DEF SharedStep

LEMMA EngineStepStraggler ==
    ASSUME StragglerInv, EngineStep
    PROVE  (MarkStays /\ OneLeft)'
  <1> USE DEF StragglerInv, CleanInv, FlowInv, TypeOK, EngineFlow, Actor, Goto,
              Emitting, Killing, EnginePc, SharedPc, storeVars, runVars, procVars, metricsVars,
              KillsThen, MarkStays, OneLeft, Marked, Closed, is_cancelled
  <1>1. CASE Begin
    BY <1>1 DEF Begin, upsert_unless_cancelled
  <1>2. CASE Load
    BY <1>2 DEF Load
  <1>3. CASE CheckRefusal \/ CheckStart
    <2>1. CASE CheckRefusal
      BY <2>1 DEF CheckRefusal, Emit
    <2>2. CASE CheckStart
      BY <2>2 DEF CheckStart, Emit
    <2>3. QED
      BY <1>3, <2>1, <2>2
  <1>4. CASE Validate
    BY <1>4 DEF Validate, Emit
  <1>5. CASE Acquire
    BY <1>5 DEF Acquire
  <1>6. CASE CheckSpawn
    BY <1>6 DEF CheckSpawn
  <1>7. CASE Launch
    BY <1>7 DEF Launch
  <1>8. CASE AgentReady
    BY <1>8 DEF AgentReady
  <1>9. CASE AgentNotReady
    BY <1>9 DEF AgentNotReady, Sigkill
  <1>10. CASE Steps
    BY <1>10 DEF Steps
  <1>11. CASE Except
    BY <1>11 DEF Except, Emit
  <1>12. CASE CleanupKill
    <2>1. MarkStays'
      BY <1>12 DEF CleanupKill, KillRun
    <2>2. OneLeft'
      BY <1>12 DEF CleanupKill, KillRun
    <2>3. QED
      BY <2>1, <2>2
  <1>13. CASE CleanupRelease
    BY <1>13 DEF CleanupRelease
  <1>14. CASE FinalizeCheck
    BY <1>14 DEF FinalizeCheck, AfterFinalize
  <1>15. CASE FinalizeWrite
    BY <1>15 DEF FinalizeWrite, AfterFinalize
  <1>16. CASE Succeed
    BY <1>16 DEF Succeed, upsert_unless_cancelled, Emit
  <1>17. CASE SharedStep(Engine)
    BY <1>17, SharedStraggler
  <1>18. QED
    BY <1>1, <1>2, <1>3, <1>4, <1>5, <1>6, <1>7, <1>8, <1>9, <1>10, <1>11, <1>12, <1>13,
       <1>14, <1>15, <1>16, <1>17 DEF EngineStep

LEMMA StepStraggler ==
    ASSUME StragglerInv, [Next]_vars
    PROVE  StragglerInv'
  <1> USE DEF StragglerInv, CleanInv, FlowInv, TypeOK, Actor, Goto, Emitting, Killing,
              storeVars, runVars, procVars, metricsVars, KillsThen, MarkStays, OneLeft,
              Marked, Closed
  <1>1. CleanInv'
    BY StepClean
  <1>2. CASE EngineStep
    BY <1>1, <1>2, EngineStepStraggler
  <1>3. ASSUME NEW c \in Cancellers, CancelStep(c)
        PROVE  (MarkStays /\ OneLeft)'
    <2>1. CASE CancelCheck(c)
      BY <2>1 DEF CancelCheck
    <2>2. CASE CancelMark(c)
      BY <2>2 DEF CancelMark, Emit
    <2>3. CASE CancelKill(c)
      BY <2>3 DEF CancelKill, KillRun
    <2>4. CASE SharedStep(c)
      BY <2>4, SharedStraggler
    <2>5. QED
      BY <1>3, <2>1, <2>2, <2>3, <2>4 DEF CancelStep
  <1>4. CASE \E i \in Agent : Dies(i) \/ Exits(i)
    BY <1>1, <1>4 DEF Dies, Exits, actorVars
  <1>5. CASE UNCHANGED vars
    BY <1>1, <1>5 DEF vars, actorVars
  <1>6. QED
    BY <1>1, <1>2, <1>3, <1>4, <1>5 DEF Next

\* Once a cancel has answered, at most one process of the run is not stopped, sent
\* SIGKILL or in the hands of a kill (the spawn loop's check, cancel_run, kill_run).
THEOREM OneStragglerHolds == Spec => []OneStraggler
  <1>1. StragglerInv => OneStraggler
    <2> DEFINE Loose == {i \in alive \ dying : \A a \in Actor : victim[a] # i}
    <2> SUFFICES ASSUME StragglerInv, NEW c \in Cancellers, pc[c] = "done"
                 PROVE  Cardinality(Loose) <= 1
      BY DEF OneStraggler
    <2>1. \A i, j \in table : i = j
      BY DEF StragglerInv, OneLeft, CleanInv, FlowInv, CancelFlow
    <2>2. Loose \subseteq table
      BY DEF StragglerInv, CleanInv, InHand
    <2>3. CASE Loose = {}
      BY <2>3, FS_EmptySet
    <2>4. CASE Loose # {}
      <3>1. PICK i \in Loose : TRUE
        BY <2>4
      <3>2. Loose = {i}
        BY <2>1, <2>2, <3>1
      <3>3. Cardinality({i}) = 1
        BY FS_Singleton
      <3>4. QED
        BY <3>2, <3>3
    <2>5. QED
      BY <2>3, <2>4
  <1>2. QED
    BY InitStraggler, StepStraggler, <1>1, PTL DEF Spec

------------------------------------------------------------------------------
(* Every run is accounted for: in the record, in the log, in the metrics.  *)

Counting == {"count", "gauge", "total"}
Ends     == Event \ {"run.started"}

\* Where the log holds e, and who has logged e and not counted it yet.
Logged(e)  == {k \in DOMAIN log : log[k] = e}
Pending(e) == {a \in Actor : pc[a] \in Counting /\ ev[a] = e}

\* The total and the counts under way make up what the log holds.
Counted ==
    \A e \in Ends :
        /\ IsFiniteSet(Logged(e)) /\ IsFiniteSet(Pending(e))
        /\ total[e] + Cardinality(Pending(e)) = Cardinality(Logged(e))

LogEnds    == \E k \in DOMAIN log : log[k] # "run.started"
SomeMarked == \E c \in Cancellers : Marked(c)

\* The record says cancelled only after a cancel, which is logged next; the
\* engine goes on to its end only after it logged how, or saw a cancel.
Announced ==
    /\ status = "cancelled" => SomeMarked
    /\ \A c \in Cancellers : Marked(c) /\ pc[c] # "append" => LogEnds
    /\ \/ pc[Engine] \in {"cleanupFailed", "release", "finalize", "writeFailed", "sweep",
                          "releaseSweep", "done"}
       \/ KillsThen({"release", "releaseSweep"})
       \/ pc[Engine] \in Counting /\ ev[Engine] # "run.started"
       => LogEnds \/ SomeMarked

\* The record is terminal before the task ends.
Recorded == Closed \/ EmitsThen({"done"}) => status \in Terminal

\* The inductive invariant behind EveryRunIsAccounted.
AccountInv == FlowInv /\ Counted /\ Announced /\ Recorded

LEMMA InitAccount == Init => AccountInv
  <1> SUFFICES ASSUME Init PROVE AccountInv
    OBVIOUS
  <1>1. FlowInv
    BY InitFlow
  <1>2. Counted
    <2> SUFFICES ASSUME NEW e \in Ends
                 PROVE  /\ IsFiniteSet(Logged(e)) /\ IsFiniteSet(Pending(e))
                        /\ total[e] + Cardinality(Pending(e)) = Cardinality(Logged(e))
      BY DEF Counted
    <2>1. Logged(e) = {} /\ Pending(e) = {} /\ total[e] = 0
      BY DEF Init, Logged, Pending, Counting, Ends
    <2>2. QED
      BY <2>1, FS_EmptySet
  <1>3. Announced /\ Recorded
    BY DEF Init, Announced, Recorded, Closed, EmitsThen, KillsThen, Marked, SomeMarked,
           Actor, Emitting, Killing, Counting
  <1>4. QED
    BY <1>1, <1>2, <1>3 DEF AccountInv

\* The metrics keep up with the log: an event is logged, and pending, in one
\* step, and stops being pending in the step that counts it.
LEMMA AppendCounted ==
    ASSUME AccountInv, NEW a \in Actor, append_event(a)
    PROVE  Counted'
  <1> SUFFICES ASSUME NEW e \in Ends
               PROVE  /\ IsFiniteSet(Logged(e)') /\ IsFiniteSet(Pending(e)')
                      /\ total'[e] + Cardinality(Pending(e)') = Cardinality(Logged(e)')
    BY DEF Counted
  <1>1. /\ pc[a] = "append" /\ log' = Append(log, ev[a]) /\ pc' = [pc EXCEPT ![a] = "count"]
        /\ UNCHANGED <<ev, total>>
    BY DEF append_event, Goto, metricsVars
  <1>2. pc \in [Actor -> Pc] /\ total[e] \in Nat /\ log \in Seq(Event)
    BY DEF AccountInv, FlowInv, TypeOK, Ends
  <1>3. /\ IsFiniteSet(Logged(e)) /\ IsFiniteSet(Pending(e))
        /\ total[e] + Cardinality(Pending(e)) = Cardinality(Logged(e))
    BY DEF AccountInv, Counted
  <1>4. Cardinality(Pending(e)) \in Nat /\ Cardinality(Logged(e)) \in Nat
    BY <1>3, FS_CardinalityType
  <1>5. ev[a] \in Event
    BY <1>1 DEF AccountInv, FlowInv, EngineFlow, CancelFlow, Actor, Emitting, Event
  <1>6. CASE ev[a] = e
    <2>1. Logged(e)' = Logged(e) \cup {Len(log) + 1} /\ Len(log) + 1 \notin Logged(e)
      BY <1>1, <1>2, <1>5, <1>6 DEF Logged
    <2>2. Pending(e)' = Pending(e) \cup {a} /\ a \notin Pending(e)
      BY <1>1, <1>2, <1>6 DEF Pending, Counting
    <2>3. IsFiniteSet(Logged(e)') /\ Cardinality(Logged(e)') = Cardinality(Logged(e)) + 1
      BY <1>3, <2>1, FS_AddElement
    <2>4. IsFiniteSet(Pending(e)') /\ Cardinality(Pending(e)') = Cardinality(Pending(e)) + 1
      BY <1>3, <2>2, FS_AddElement
    <2>5. QED
      BY <1>1, <1>2, <1>3, <1>4, <2>3, <2>4
  <1>7. CASE ev[a] # e
    <2>1. Logged(e)' = Logged(e)
      BY <1>1, <1>2, <1>5, <1>7 DEF Logged
    <2>2. Pending(e)' = Pending(e)
      BY <1>1, <1>2, <1>7 DEF Pending, Counting
    <2>3. QED
      BY <1>1, <1>3, <2>1, <2>2
  <1>8. QED
    BY <1>6, <1>7

LEMMA TotalCounted ==
    ASSUME AccountInv, NEW a \in Actor, CountTotal(a)
    PROVE  Counted'
  <1> SUFFICES ASSUME NEW e \in Ends
               PROVE  /\ IsFiniteSet(Logged(e)') /\ IsFiniteSet(Pending(e)')
                      /\ total'[e] + Cardinality(Pending(e)') = Cardinality(Logged(e)')
    BY DEF Counted
  <1>1. /\ pc[a] = "total" /\ total' = [total EXCEPT ![ev[a]] = @ + 1]
        /\ pc' = [pc EXCEPT ![a] = ret[a]] /\ UNCHANGED <<ev, log>>
    BY DEF CountTotal, Goto, storeVars
  <1>2. pc \in [Actor -> Pc] /\ total \in [Event -> Nat] /\ e \in Event
    BY DEF AccountInv, FlowInv, TypeOK, Ends
  <1>3. /\ IsFiniteSet(Logged(e)) /\ IsFiniteSet(Pending(e))
        /\ total[e] + Cardinality(Pending(e)) = Cardinality(Logged(e))
    BY DEF AccountInv, Counted
  <1>4. Cardinality(Pending(e)) \in Nat /\ Cardinality(Logged(e)) \in Nat
    BY <1>3, FS_CardinalityType
  <1>5. ret[a] \notin Counting
    BY <1>1 DEF AccountInv, FlowInv, EngineFlow, CancelFlow, Actor, Emitting, Counting
  <1>6. Logged(e)' = Logged(e)
    BY <1>1 DEF Logged
  <1>7. CASE ev[a] = e
    <2>1. Pending(e)' = Pending(e) \ {a} /\ a \in Pending(e)
      BY <1>1, <1>2, <1>5, <1>7 DEF Pending, Counting
    <2>2. total'[e] = total[e] + 1
      BY <1>1, <1>2, <1>7
    <2>3. IsFiniteSet(Pending(e)') /\ Cardinality(Pending(e)') = Cardinality(Pending(e)) - 1
      BY <1>3, <2>1, FS_RemoveElement
    <2>4. QED
      BY <1>2, <1>3, <1>4, <1>6, <2>2, <2>3
  <1>8. CASE ev[a] # e
    <2>1. Pending(e)' = Pending(e)
      BY <1>1, <1>2, <1>8, <1>5 DEF Pending, Counting
    <2>2. total'[e] = total[e]
      BY <1>1, <1>2, <1>8
    <2>3. QED
      BY <1>3, <1>6, <2>1, <2>2
  <1>9. QED
    BY <1>7, <1>8

\* A step that logs nothing, counts nothing and moves nobody in or out of a count
\* keeps the balance.
LEMMA QuietCounted ==
    ASSUME AccountInv, UNCHANGED <<log, total>>,
           \A e \in Ends : \A a \in Actor :
              (pc'[a] \in Counting /\ ev'[a] = e) <=> (pc[a] \in Counting /\ ev[a] = e)
    PROVE  Counted'
  <1> SUFFICES ASSUME NEW e \in Ends
               PROVE  /\ IsFiniteSet(Logged(e)') /\ IsFiniteSet(Pending(e)')
                      /\ total'[e] + Cardinality(Pending(e)') = Cardinality(Logged(e)')
    BY DEF Counted
  <1>1. Logged(e)' = Logged(e)
    BY DEF Logged
  <1>2. Pending(e)' = Pending(e)
    BY DEF Pending
  <1>3. QED
    BY <1>1, <1>2 DEF AccountInv, Counted

LEMMA StepCounted ==
    ASSUME AccountInv, [Next]_vars
    PROVE  Counted'
  <1> USE DEF AccountInv, FlowInv, TypeOK, EngineFlow, CancelFlow, Actor, Goto, Emitting, Killing,
              Counting, Ends, storeVars, runVars, procVars, metricsVars
  <1>1. ASSUME NEW a \in Actor, SharedStep(a)
        PROVE  Counted'
    <2>1. CASE append_event(a)
      BY <2>1, AppendCounted
    <2>2. CASE CountRun(a)
      BY <2>2, QuietCounted DEF CountRun
    <2>3. CASE add_gauge(a)
      BY <2>3, QuietCounted DEF add_gauge
    <2>4. CASE CountTotal(a)
      BY <2>4, TotalCounted
    <2>5. CASE kill(a)
      <3>1. pc' \in {pc, [pc EXCEPT ![a] = "reap"]} /\ pc[a] = "killing" /\ UNCHANGED <<ev, log, total>>
        BY <2>5 DEF kill
      <3>2. QED
        BY <3>1, QuietCounted
    <2>6. CASE Reap(a)
      BY <2>6, QuietCounted DEF Reap
    <2>7. CASE KillRunDone(a)
      BY <2>7, QuietCounted DEF KillRunDone
    <2>8. QED
      BY <1>1, <2>1, <2>2, <2>3, <2>4, <2>5, <2>6, <2>7 DEF SharedStep
  <1>2. CASE EngineStep /\ ~SharedStep(Engine)
    <2>1. pc[Engine] \notin Counting /\ pc'[Engine] \notin Counting
      BY <1>2 DEF EngineStep, Begin, upsert_unless_cancelled, Load, CheckRefusal, CheckStart,
             Validate, Emit, Acquire, CheckSpawn, Launch, AgentReady, AgentNotReady, Steps, Except,
             CleanupKill, KillRun, CleanupRelease, FinalizeCheck, AfterFinalize, FinalizeWrite, Succeed
    <2>2. \A a \in Actor \ {Engine} : pc'[a] = pc[a] /\ ev'[a] = ev[a]
      BY <1>2 DEF EngineStep, Begin, upsert_unless_cancelled, Load, CheckRefusal, CheckStart,
             Validate, Emit, Acquire, CheckSpawn, Launch, AgentReady, AgentNotReady, Steps, Except,
             CleanupKill, KillRun, CleanupRelease, FinalizeCheck, AfterFinalize, FinalizeWrite, Succeed
    <2>3. UNCHANGED <<log, total>>
      BY <1>2 DEF EngineStep, Begin, Load, CheckRefusal, CheckStart, Validate, Acquire, CheckSpawn,
             Launch, AgentReady, AgentNotReady, Steps, Except, CleanupKill, CleanupRelease,
             FinalizeCheck, FinalizeWrite, Succeed
    <2>4. QED
      BY <2>1, <2>2, <2>3, QuietCounted
  <1>3. ASSUME NEW c \in Cancellers, CancelCheck(c) \/ CancelMark(c) \/ CancelKill(c)
        PROVE  Counted'
    BY <1>3, QuietCounted DEF CancelCheck, CancelMark, CancelKill, Emit, KillRun
  <1>4. CASE (\E i \in Agent : Dies(i) \/ Exits(i)) \/ UNCHANGED vars
    BY <1>4, QuietCounted DEF Dies, Exits, vars, actorVars
  <1>5. QED
    BY <1>1, <1>2, <1>3, <1>4 DEF Next, EngineStep, CancelStep

\* A cancel that marked the record goes forward only, and nothing leaves the log.
LEMMA MarksAndLogKept ==
    ASSUME FlowInv, [Next]_vars
    PROVE  /\ \A c \in Cancellers : Marked(c) => Marked(c)'
           /\ LogEnds => LogEnds'
  <1> USE DEF FlowInv, TypeOK, EngineFlow, CancelFlow, Actor, Goto, Emitting, Killing, Marked
  <1>1. ASSUME NEW a \in Actor, SharedStep(a)
        PROVE  /\ \A c \in Cancellers : Marked(c) => Marked(c)'
               /\ LogEnds => LogEnds'
    <2>1. LogEnds => LogEnds'
      <3>1. CASE append_event(a)
        <4>1. log' = Append(log, ev[a]) /\ log \in Seq(Event) /\ ev[a] \in Event
          BY <3>1 DEF append_event, Event
        <4>2. \A k \in DOMAIN log : k \in DOMAIN log' /\ log'[k] = log[k]
          BY <4>1
        <4>3. QED
          BY <4>2 DEF LogEnds
      <3>2. CASE ~append_event(a)
        BY <1>1, <3>2 DEF LogEnds, SharedStep, CountRun, add_gauge, CountTotal, kill, Reap,
                          KillRunDone, storeVars
      <3>3. QED
        BY <3>1, <3>2
    <2>2. \A b \in Actor \ {a} : pc'[b] = pc[b]
      BY <1>1 DEF SharedStep, append_event, CountRun, add_gauge, CountTotal, kill, Reap, KillRunDone
    <2>3. a \in Cancellers => Marked(a)'
      BY <1>1 DEF SharedStep, append_event, CountRun, add_gauge, CountTotal, kill, Reap, KillRunDone
    <2>4. QED
      BY <2>1, <2>2, <2>3
  <1>2. CASE EngineStep /\ ~SharedStep(Engine)
    <2>1. UNCHANGED log
      BY <1>2 DEF EngineStep, Begin, Load, CheckRefusal, CheckStart, Validate, Acquire, CheckSpawn,
             Launch, AgentReady, AgentNotReady, Steps, Except, CleanupKill, CleanupRelease,
             FinalizeCheck, FinalizeWrite, Succeed, storeVars
    <2>2. \A c \in Cancellers : pc'[c] = pc[c]
      BY <1>2 DEF EngineStep, Begin, upsert_unless_cancelled, Load, CheckRefusal, CheckStart,
             Validate, Emit, Acquire, CheckSpawn, Launch, AgentReady, AgentNotReady, Steps, Except,
             CleanupKill, KillRun, CleanupRelease, FinalizeCheck, FinalizeWrite, Succeed
    <2>3. QED
      BY <2>1, <2>2 DEF LogEnds
  <1>3. ASSUME NEW c \in Cancellers, CancelCheck(c) \/ CancelMark(c) \/ CancelKill(c)
        PROVE  /\ \A d \in Cancellers : Marked(d) => Marked(d)'
               /\ LogEnds => LogEnds'
    BY <1>3 DEF CancelCheck, CancelMark, CancelKill, Emit, KillRun, LogEnds, storeVars
  <1>4. CASE (\E i \in Agent : Dies(i) \/ Exits(i)) \/ UNCHANGED vars
    BY <1>4 DEF Dies, Exits, vars, actorVars, storeVars, LogEnds
  <1>5. QED
    BY <1>1, <1>2, <1>3, <1>4 DEF Next, EngineStep, CancelStep

LEMMA SharedAnnounced ==
    ASSUME AccountInv, NEW a \in Actor, SharedStep(a),
           \A c \in Cancellers : Marked(c) => Marked(c)', LogEnds => LogEnds'
    PROVE  (Announced /\ Recorded)'
  <1> USE DEF AccountInv, FlowInv, EngineFlow, CancelFlow, Actor, Goto, Emitting, Killing,
              Counting, Announced, Recorded, Closed, KillsThen, EmitsThen, SomeMarked,
              storeVars, runVars, procVars, metricsVars
  <1>0. pc \in [Actor -> Pc]
    BY DEF TypeOK
  <1>1. CASE append_event(a)
    <2>1. /\ pc[a] = "append" /\ pc' = [pc EXCEPT ![a] = "count"]
          /\ UNCHANGED <<status, ret, ev>>
      BY <1>1 DEF append_event
    <2>2. ev[a] # "run.started" => LogEnds'
      <3>1. log' = Append(log, ev[a]) /\ log \in Seq(Event) /\ ev[a] \in Event
        BY <1>1 DEF append_event, Event, TypeOK
      <3>2. Len(log') \in DOMAIN log' /\ log'[Len(log')] = ev[a]
        BY <3>1
      <3>3. QED
        BY <3>2 DEF LogEnds
    <2>3. \A c \in Cancellers : c # a => (Marked(c)' <=> Marked(c))
      BY <1>0, <2>1 DEF Marked
    <2>4. a \in Cancellers => ev[a] = "run.cancelled"
      BY <2>1
    <2>5. QED
      BY <1>0, <2>1, <2>2, <2>3, <2>4
  <1>2. CASE CountRun(a)
    <2>1. /\ pc[a] = "count"
          /\ \/ pc' = [pc EXCEPT ![a] = ret[a]] /\ ev[a] = "run.started"
             \/ \E l \in {"gauge", "total"} : pc' = [pc EXCEPT ![a] = l]
          /\ UNCHANGED <<status, log, ret, ev>>
      BY <1>2 DEF CountRun
    <2>2. LogEnds' <=> LogEnds
      BY <2>1 DEF LogEnds
    <2>3. QED
      BY <1>0, <2>1, <2>2 DEF Marked
  <1>3. CASE add_gauge(a) \/ CountTotal(a)
    <2>1. /\ pc[a] \in {"gauge", "total"}
          /\ pc' \in {[pc EXCEPT ![a] = ret[a]], [pc EXCEPT ![a] = "total"]}
          /\ UNCHANGED <<status, log, ret, ev>>
      BY <1>3 DEF add_gauge, CountTotal
    <2>2. LogEnds' <=> LogEnds
      BY <2>1 DEF LogEnds
    <2>3. QED
      BY <1>0, <2>1, <2>2 DEF Marked
  <1>4. CASE kill(a) \/ Reap(a) \/ KillRunDone(a)
    <2>1. /\ \/ pc[a] \in Killing /\ \E l \in Killing : pc' = [pc EXCEPT ![a] = l]
             \/ pc[a] = "killing" /\ pc' = [pc EXCEPT ![a] = ret[a]]
          /\ UNCHANGED <<status, log, ret, ev>>
      BY <1>0, <1>4 DEF kill, Reap, KillRunDone
    <2>2. LogEnds' <=> LogEnds
      BY <2>1 DEF LogEnds
    <2>3. QED
      BY <1>0, <2>1, <2>2 DEF Marked
  <1>5. QED
    BY <1>1, <1>2, <1>3, <1>4 DEF SharedStep

LEMMA EngineAnnounced ==
    ASSUME AccountInv, EngineStep, ~SharedStep(Engine),
           \A c \in Cancellers : Marked(c) => Marked(c)', LogEnds => LogEnds'
    PROVE  (Announced /\ Recorded)'
  <1> USE DEF AccountInv, FlowInv, EngineFlow, CancelFlow, Actor, Goto, Emitting, Killing,
              Counting, Announced, Recorded, Closed, KillsThen, EmitsThen, SomeMarked, is_cancelled,
              storeVars, runVars, procVars, metricsVars
  <1>0. pc \in [Actor -> Pc] /\ ret \in [Actor -> Pc] /\ ev \in [Actor -> Event \cup {None}]
    BY DEF TypeOK
  <1>a. \A c \in Cancellers : pc'[c] = pc[c] /\ Marked(c)' = Marked(c)
    BY <1>0 DEF EngineStep, Begin, upsert_unless_cancelled, Load, CheckRefusal, CheckStart,
           Validate, Emit, Acquire, CheckSpawn, Launch, AgentReady, AgentNotReady, Steps, Except,
           CleanupKill, KillRun, CleanupRelease, FinalizeCheck, FinalizeWrite, Succeed, Marked
  <1>1. CASE Begin
    BY <1>0, <1>a, <1>1 DEF Begin, upsert_unless_cancelled, Terminal
  <1>2. CASE Load \/ Acquire \/ CheckSpawn \/ Launch \/ AgentReady \/ AgentNotReady \/ Steps
    <2>1. /\ pc'[Engine] \in {"checkStart", "checkRefusal", "checkSpawn", "launch", "awaitReady",
                              "steps", "cleanupOk", "except", "escaped"}
          /\ UNCHANGED status
      BY <1>0, <1>2 DEF Load, Acquire, CheckSpawn, Launch, AgentReady, AgentNotReady, Steps
    <2>2. QED
      BY <1>a, <2>1
  <1>3. CASE CheckRefusal
    BY <1>0, <1>a, <1>3 DEF CheckRefusal, Emit
  <1>4. CASE CheckStart
    BY <1>0, <1>a, <1>4 DEF CheckStart, Emit
  <1>5. CASE Validate
    BY <1>0, <1>a, <1>5 DEF Validate, Emit
  <1>6. CASE Except
    BY <1>0, <1>a, <1>6 DEF Except, Emit
  <1>7. CASE CleanupKill
    BY <1>0, <1>a, <1>7 DEF CleanupKill, KillRun
  <1>8. CASE CleanupRelease
    BY <1>0, <1>a, <1>8 DEF CleanupRelease
  <1>9. CASE FinalizeCheck
    BY <1>0, <1>a, <1>9 DEF FinalizeCheck, AfterFinalize, Terminal
  <1>10. CASE FinalizeWrite
    BY <1>0, <1>a, <1>10 DEF FinalizeWrite, AfterFinalize, Terminal
  <1>11. CASE Succeed
    BY <1>0, <1>a, <1>11 DEF Succeed, upsert_unless_cancelled, Emit, Terminal
  <1>12. QED
    BY <1>1, <1>2, <1>3, <1>4, <1>5, <1>6, <1>7, <1>8, <1>9, <1>10, <1>11 DEF EngineStep

LEMMA StepAccount ==
    ASSUME AccountInv, [Next]_vars
    PROVE  AccountInv'
  <1>1. FlowInv'
    BY StepFlow DEF AccountInv
  <1>2. Counted'
    BY StepCounted
  <1>3. (\A c \in Cancellers : Marked(c) => Marked(c)') /\ (LogEnds => LogEnds')
    BY MarksAndLogKept DEF AccountInv
  <1>4. ASSUME NEW a \in Actor, SharedStep(a)
        PROVE  (Announced /\ Recorded)'
    BY <1>3, <1>4, SharedAnnounced
  <1>5. CASE EngineStep /\ ~SharedStep(Engine)
    BY <1>1, <1>2, <1>3, <1>5, EngineAnnounced DEF AccountInv
  <1>6. ASSUME NEW c \in Cancellers, CancelCheck(c) \/ CancelMark(c) \/ CancelKill(c)
        PROVE  (Announced /\ Recorded)'
    <2>1. /\ pc \in [Actor -> Pc] /\ Engine # c /\ pc'[Engine] = pc[Engine]
          /\ ret'[Engine] = ret[Engine] /\ ev'[Engine] = ev[Engine] /\ UNCHANGED log
          /\ ret \in [Actor -> Pc] /\ ev \in [Actor -> Event \cup {None}]
      BY <1>6 DEF AccountInv, FlowInv, TypeOK, CancelCheck, CancelMark, CancelKill, Goto, Emit,
                  KillRun, Actor, storeVars
    <2>2. CASE CancelMark(c)
      <3>1. status' = "cancelled" /\ pc' = [pc EXCEPT ![c] = "append"]
        BY <2>2, <2>1 DEF CancelMark, Emit
      <3>2. Marked(c)'
        BY <2>1, <3>1 DEF Marked, Emitting, Actor
      <3>3. QED
        BY <1>3, <2>1, <3>1, <3>2
        DEF AccountInv, Announced, Recorded, Closed, KillsThen, EmitsThen, SomeMarked, Terminal,
            Marked, Actor
    <2>3. CASE CancelCheck(c) \/ CancelKill(c)
      <3>1. /\ UNCHANGED status /\ Marked(c)' = Marked(c) /\ pc[c] # "append" /\ pc'[c] # "append"
            /\ \A d \in Cancellers \ {c} : pc'[d] = pc[d] /\ Marked(d)' = Marked(d)
        BY <2>1, <2>3 DEF CancelCheck, CancelKill, Goto, KillRun, Marked, Emitting, Killing,
                          storeVars, Actor
      <3>2. LogEnds' = LogEnds
        BY <2>1 DEF LogEnds
      <3>3. QED
        BY <2>1, <3>1, <3>2
        DEF AccountInv, Announced, Recorded, Closed, KillsThen, EmitsThen, SomeMarked
    <2>4. QED
      BY <1>6, <2>2, <2>3
  <1>7. CASE (\E i \in Agent : Dies(i) \/ Exits(i)) \/ UNCHANGED vars
    BY <1>1, <1>2, <1>7 DEF Dies, Exits, vars, storeVars, actorVars, AccountInv, Announced, Recorded, Closed, KillsThen,
                EmitsThen, SomeMarked, LogEnds, Marked
  <1>8. QED
    BY <1>1, <1>2, <1>4, <1>5, <1>6, <1>7 DEF Next, EngineStep, CancelStep, AccountInv, Actor

\* When all is over the record is terminal, the log holds a terminal event, and
\* the metrics counted as many runs as the log holds such events (run,
\* cancel_run, record_event).
THEOREM EveryRunIsAccountedHolds == Spec => []EveryRunIsAccounted
  <1>1. AccountInv => EveryRunIsAccounted
    <2> SUFFICES ASSUME AccountInv, Quiet
                 PROVE  /\ status \in Terminal /\ LogEnds
                        /\ \A e \in Ends : total[e] = Cardinality(Logged(e))
      BY DEF EveryRunIsAccounted, LogEnds, Ends, Logged
    <2>1. status \in Terminal
      BY DEF AccountInv, Quiet, Recorded, Closed
    <2>2. LogEnds
      BY DEF AccountInv, Quiet, Announced, SomeMarked, Marked, Emitting, Killing
    <2>3. ASSUME NEW e \in Ends
          PROVE  total[e] = Cardinality(Logged(e))
      <3>1. Pending(e) = {}
        BY DEF Quiet, Pending, Counting, Actor
      <3>2. total[e] \in Nat
        BY DEF AccountInv, FlowInv, TypeOK, Ends
      <3>3. total[e] + Cardinality(Pending(e)) = Cardinality(Logged(e))
        BY DEF AccountInv, Counted
      <3>4. QED
        BY <3>1, <3>2, <3>3, FS_EmptySet
    <2>4. QED
      BY <2>1, <2>2, <2>3
  <1>2. QED
    BY InitAccount, StepAccount, <1>1, PTL DEF Spec

==============================================================================
