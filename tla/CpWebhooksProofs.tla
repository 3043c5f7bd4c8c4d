--------------------------- MODULE CpWebhooksProofs ---------------------------
(***************************************************************************)
(* Proofs about CpWebhooks: for any number of runs, subscriptions, crashes *)
(* and deliveries handled at once.                                         *)
(***************************************************************************)
EXTENDS CpWebhooks, TLAPS

USE BoundAssumption, NoneAssumption

Handled == [pc : {"body"}, hook : Hook, secret : Hook, seen : Seen]

------------------------------------------------------------------------------
(* Types.                                                                  *)

LEMMA OffIsNotHandled == Off \notin Handled
  BY DEF Off, Handled

LEMMA InitType == Init => TypeOK
  <1> SUFFICES ASSUME Init PROVE TypeOK
    OBVIOUS
  <1>1. /\ subs \in [Runs -> 0..MaxSubs] /\ recorded \in [Hook -> Nat] /\ crashes \in 0..MaxCrashes
    BY DEF Init
  <1>2. QED
    BY <1>1 DEF Init, TypeOK

\* A replaced record leaves its holders with what it held.
LEMMA UpsertedType ==
    ASSUME TypeOK, NEW r \in Runs, Upserted(r)
    PROVE  attempt' \in [Attempts -> {Off} \cup Handled]
  <1>1. attempt \in [Attempts -> {Off} \cup Handled]
    BY DEF TypeOK, Handled
  <1>2. ASSUME NEW h \in Handled, NEW s \in Seen
        PROVE  [h EXCEPT !.seen = s] \in Handled
    BY DEF Handled
  <1>3. \A a \in Attempts : attempt[a] # Off => attempt[a] \in Handled /\ attempt[a].hook \in Hook
    BY <1>1 DEF Handled
  <1>4. QED
    BY <1>1, <1>2, <1>3 DEF Upserted, Seen

LEMMA StepType ==
    ASSUME TypeOK, [Next]_vars
    PROVE  TypeOK'
  <1> USE DEF TypeOK, storeVars, runVars, sweepVars, handlerVars, cpVars
  <1>1. ASSUME NEW r \in Runs, RunStep(r)
        PROVE  TypeOK'
    <2>1. CASE create_run(r)
      BY <2>1 DEF create_run
    <2>2. CASE Subscribe(r)
      <3>1. [run |-> r, n |-> subs[r] + 1] \in Hook /\ subs[r] + 1 \in 0..MaxSubs
        BY <2>2 DEF Subscribe, Hook
      <3>2. QED
        BY <2>2, <3>1 DEF Subscribe
    <2>3. CASE Subscribed(r)
      <3>1. attempt' \in [Attempts -> {Off} \cup Handled]
        BY <2>3, UpsertedType DEF Subscribed
      <3>2. QED
        BY <2>3, <3>1 DEF Subscribed, Handled
    <2>4. CASE SubscribeFailed(r)
      BY <2>4 DEF SubscribeFailed
    <2>5. CASE Cancel(r)
      <3>1. attempt' \in [Attempts -> {Off} \cup Handled]
        BY <2>5, UpsertedType DEF Cancel
      <3>2. QED
        BY <2>5, <3>1 DEF Cancel, Handled
    <2>6. CASE RunEnds(r)
      <3>1. attempt' \in [Attempts -> {Off} \cup Handled]
        BY <2>6, UpsertedType DEF RunEnds, Handled
      <3>2. QED
        BY <2>6, <3>1 DEF RunEnds, Handled
    <2>7. CASE Teardown(r)
      BY <2>7 DEF Teardown
    <2>8. CASE TeardownDelete(r)
      BY <2>8 DEF TeardownDelete, Delete
    <2>9. QED
      BY <1>1, <2>1, <2>2, <2>3, <2>4, <2>5, <2>6, <2>7, <2>8 DEF RunStep
  <1>2. CASE SweepStep
    BY <1>2 DEF SweepStep, SweepList, SweepNext, SweepDelete, Delete
  <1>3. ASSUME NEW h \in Hook, CpCreates(h)
        PROVE  TypeOK'
    BY <1>3 DEF CpCreates
  <1>4. ASSUME NEW a \in Attempts, NEW h \in Hook, Receive(a, h)
        PROVE  TypeOK'
    <2>1. h.run \in Runs
      BY DEF Hook
    <2>2. QED
      BY <1>4, <2>1 DEF Receive, Seen
  <1>5. ASSUME NEW a \in Attempts, Deliver(a)
        PROVE  TypeOK'
    <2>1. attempt[a].hook \in Hook
      BY <1>5 DEF Deliver
    <2>2. recorded' \in [Hook -> Nat]
      BY <1>5, <2>1 DEF Deliver
    <2>3. QED
      BY <1>5, <2>2 DEF Deliver
  <1>6. CASE Crash
    BY <1>6 DEF Crash
  <1>7. CASE UNCHANGED vars
    BY <1>7 DEF vars
  <1>8. QED
    BY <1>1, <1>2, <1>3, <1>4, <1>5, <1>6, <1>7 DEF Next

\* Every variable keeps its type.
THEOREM TypeOKHolds == Spec => []TypeOK
  BY InitType, StepType, PTL DEF Spec

------------------------------------------------------------------------------
(* A live run keeps its subscription.                                      *)

\* What a run holds by its state: nothing before it is created, a record in the
\* store while it is live, a teardown only after it.
RunState ==
    \A r \in Runs :
        /\ rstate[r] = "new" => record[r] = None
        /\ rstate[r] = "live" => r \in known
        /\ tearing[r] # "off" => rstate[r] = "ended"
        /\ waiting[r] # None => rstate[r] = "live" /\ waiting[r].run = r
        /\ record[r] # None => record[r].run = r

\* A subscription that was asked for is on its way to the CP or kept there,
\* unless the sweep chose it, and the sweep deletes only what it chose.
AskedFor ==
    /\ \A r \in Runs : waiting[r] # None => waiting[r] \in posted \cup hooks \cup preempted
    /\ sweep = "delete" => victim \in preempted

\* The inductive invariant behind LiveRunKeepsItsHook.
HookInv == TypeOK /\ RunState /\ AskedFor /\ LiveRunKeepsItsHook

LEMMA InitHook == Init => HookInv
  BY InitType DEF Init, HookInv, RunState, AskedFor, LiveRunKeepsItsHook

LEMMA StepHook ==
    ASSUME HookInv, [Next]_vars
    PROVE  HookInv'
  <1> USE DEF HookInv, RunState, AskedFor, LiveRunKeepsItsHook,
              storeVars, runVars, sweepVars, handlerVars, cpVars
  <1>0. TypeOK'
    BY StepType
  <1>1. ASSUME NEW r \in Runs, RunStep(r)
        PROVE  HookInv'
    <2> USE DEF TypeOK
    <2>1. CASE create_run(r)
      BY <1>0, <2>1 DEF create_run
    <2>2. CASE Subscribe(r)
      <3>1. [run |-> r, n |-> subs[r] + 1].run = r
        OBVIOUS
      <3>2. QED
        BY <1>0, <2>2, <3>1 DEF Subscribe
    <2>3. CASE Subscribed(r)
      BY <1>0, <2>3 DEF Subscribed
    <2>4. CASE SubscribeFailed(r)
      BY <1>0, <2>4 DEF SubscribeFailed
    <2>5. CASE Cancel(r)
      BY <1>0, <2>5 DEF Cancel
    <2>6. CASE RunEnds(r)
      BY <1>0, <2>6 DEF RunEnds
    <2>7. CASE Teardown(r)
      BY <1>0, <2>7 DEF Teardown
    <2>8. CASE TeardownDelete(r)
      <3>1. rstate[r] = "ended"
        BY <2>8 DEF TeardownDelete
      <3>2. \A q \in Runs \ {r} : /\ record[q] # None => record[q] # record[r]
                                  /\ waiting[q] # None => waiting[q] # record[r]
        OBVIOUS
      <3>3. QED
        BY <1>0, <2>8, <3>1, <3>2 DEF TeardownDelete, Delete
    <2>9. QED
      BY <1>1, <2>1, <2>2, <2>3, <2>4, <2>5, <2>6, <2>7, <2>8 DEF RunStep
  <1>2. CASE SweepStep
    BY <1>0, <1>2 DEF SweepStep, SweepList, SweepNext, SweepDelete, Delete
  <1>3. ASSUME NEW h \in Hook, CpCreates(h)
        PROVE  HookInv'
    BY <1>0, <1>3 DEF CpCreates
  <1>4. ASSUME NEW a \in Attempts, NEW h \in Hook, Receive(a, h)
        PROVE  HookInv'
    BY <1>0, <1>4 DEF Receive
  <1>5. ASSUME NEW a \in Attempts, Deliver(a)
        PROVE  HookInv'
    BY <1>0, <1>5 DEF Deliver
  <1>6. CASE Crash
    BY <1>0, <1>6 DEF Crash, TypeOK
  <1>7. CASE UNCHANGED vars
    BY <1>0, <1>7 DEF vars
  <1>8. QED
    BY <1>1, <1>2, <1>3, <1>4, <1>5, <1>6, <1>7 DEF Next

\* While a run is live, the CP keeps the subscription its record names, unless the
\* sweep came to it before the answer that carries its id (sweep_cp_webhooks).
THEOREM LiveRunKeepsItsHookHolds == Spec => []LiveRunKeepsItsHook
  <1>1. HookInv => LiveRunKeepsItsHook
    BY DEF HookInv
  <1>2. QED
    BY InitHook, StepHook, <1>1, PTL DEF Spec

------------------------------------------------------------------------------
(* A repeat of a delivery that is in the log is not recorded again.        *)

\* The inductive invariant behind RepeatsAcknowledged: the record such an attempt
\* holds, be it replaced or not, has the delivery.
RecordInv ==
    /\ TypeOK
    /\ \A a \in Attempts \ early : attempt[a] # Off => Duplicate(a)

LEMMA InitRecord == Init => RecordInv
  BY InitType DEF Init, RecordInv

\* An attempt at h is handled, and h is a delivery.
LEMMA HandledType ==
    ASSUME TypeOK, NEW a \in Attempts, attempt[a] # Off
    PROVE  attempt[a] \in Handled /\ attempt[a].hook \in Hook /\ recorded[attempt[a].hook] \in Nat
  BY DEF TypeOK, Handled

\* An upsert leaves an attempt with a copy that has what the record had.
LEMMA UpsertedRecord ==
    ASSUME RecordInv, TypeOK', UNCHANGED <<recorded, early>>, NEW r \in Runs, Upserted(r)
    PROVE  RecordInv'
  <1> SUFFICES ASSUME NEW a \in Attempts, a \notin early, attempt'[a] # Off
               PROVE  Duplicate(a)'
    BY DEF RecordInv
  <1>1. CASE attempt[a] # Off /\ attempt[a].hook.run = r /\ attempt[a].seen = "live"
    <2>1. attempt[a] \in Handled /\ Duplicate(a)
      BY <1>1, HandledType DEF RecordInv
    <2>2. recorded[attempt[a].hook] > 0
      BY <1>1, <2>1 DEF Duplicate
    <2>3. attempt'[a] = [attempt[a] EXCEPT !.seen = "yes"]
      BY <1>1, <2>2 DEF Upserted
    <2>4. attempt'[a].seen = "yes"
      BY <2>1, <2>3 DEF Handled
    <2>5. QED
      BY <2>4 DEF Duplicate
  <1>2. CASE ~(attempt[a] # Off /\ attempt[a].hook.run = r /\ attempt[a].seen = "live")
    <2>1. attempt'[a] = attempt[a]
      BY <1>2 DEF Upserted
    <2>2. QED
      BY <2>1 DEF RecordInv, Duplicate
  <1>3. QED
    BY <1>1, <1>2

\* What is in the log stays there while attempts are under way.
LEMMA DeliverRecord ==
    ASSUME RecordInv, TypeOK', NEW a \in Attempts, Deliver(a)
    PROVE  RecordInv'
  <1> SUFFICES ASSUME NEW b \in Attempts, b \notin early', attempt'[b] # Off
               PROVE  Duplicate(b)'
    BY DEF RecordInv
  <1>1. /\ attempt' = [attempt EXCEPT ![a] = Off] /\ early' = early \ {a}
        /\ attempt \in [Attempts -> {Off} \cup Handled]
    BY DEF Deliver, RecordInv, TypeOK, Handled
  <1>2. b # a /\ attempt'[b] = attempt[b] /\ b \notin early
    BY <1>1
  <1>3. Duplicate(b) /\ attempt[b].hook \in Hook
    BY <1>2, HandledType DEF RecordInv
  <1>4. recorded'[attempt[b].hook] >= recorded[attempt[b].hook]
    <2>1. recorded \in [Hook -> Nat] /\ attempt[a].hook \in Hook
      BY HandledType DEF Deliver, RecordInv, TypeOK
    <2>2. recorded' \in {recorded, [recorded EXCEPT ![attempt[a].hook] = @ + 1]}
      BY DEF Deliver
    <2>3. QED
      BY <1>3, <2>1, <2>2
  <1>5. recorded'[attempt[b].hook] \in Nat /\ recorded[attempt[b].hook] \in Nat
    BY <1>3 DEF RecordInv, TypeOK
  <1>6. QED
    BY <1>2, <1>3, <1>4, <1>5 DEF Duplicate

LEMMA StepRecord ==
    ASSUME RecordInv, [Next]_vars
    PROVE  RecordInv'
  <1> USE DEF storeVars, runVars, sweepVars, handlerVars, cpVars
  <1>0. TypeOK'
    BY StepType DEF RecordInv
  <1>1. ASSUME UNCHANGED <<recorded, attempt, early>>
        PROVE  RecordInv'
    BY <1>0, <1>1 DEF RecordInv, Duplicate
  <1>2. ASSUME NEW r \in Runs, RunStep(r)
        PROVE  RecordInv'
    <2>1. UNCHANGED <<recorded, early>> /\ (UNCHANGED attempt \/ Upserted(r))
      BY <1>2 DEF RunStep, create_run, Subscribe, Subscribed, SubscribeFailed, Cancel, RunEnds,
                  Teardown, TeardownDelete
    <2>2. QED
      BY <1>0, <1>1, <2>1, UpsertedRecord
  <1>3. CASE SweepStep
    BY <1>1, <1>3 DEF SweepStep, SweepList, SweepNext, SweepDelete
  <1>4. ASSUME NEW h \in Hook, CpCreates(h)
        PROVE  RecordInv'
    BY <1>1, <1>4 DEF CpCreates
  <1>5. ASSUME NEW a \in Attempts, NEW h \in Hook, Receive(a, h)
        PROVE  RecordInv'
    <2>1. CASE UNCHANGED <<attempt, early>>
      BY <1>1, <1>5, <2>1 DEF Receive
    <2>2. CASE attempt' = [attempt EXCEPT ![a] = [pc |-> "body", hook |-> h,
                                                   secret |-> record[h.run], seen |-> "live"]]
               /\ early' = early \cup {b \in {a} : recorded[h] = 0}
      <3> SUFFICES ASSUME NEW b \in Attempts, b \notin early', attempt'[b] # Off
                   PROVE  Duplicate(b)'
        BY <1>0 DEF RecordInv
      <3>1. UNCHANGED recorded /\ recorded[h] \in Nat
            /\ attempt \in [Attempts -> {Off} \cup Handled]
        BY <1>5 DEF Receive, RecordInv, TypeOK, Handled
      <3>2. CASE b = a
        <4>1. recorded[h] # 0
          BY <2>2, <3>2
        <4>2. attempt'[b] = [pc |-> "body", hook |-> h, secret |-> record[h.run], seen |-> "live"]
          BY <2>2, <3>1, <3>2
        <4>3. attempt'[b].seen = "live" /\ attempt'[b].hook = h
          BY <4>2
        <4>4. QED
          BY <3>1, <4>1, <4>3 DEF Duplicate
      <3>3. CASE b # a
        <4>1. attempt'[b] = attempt[b] /\ b \notin early
          BY <2>2, <3>1, <3>3
        <4>2. QED
          BY <3>1, <4>1 DEF RecordInv, Duplicate
      <3>4. QED
        BY <3>2, <3>3
    <2>3. QED
      BY <1>5, <2>1, <2>2 DEF Receive
  <1>6. ASSUME NEW a \in Attempts, Deliver(a)
        PROVE  RecordInv'
    BY <1>0, <1>6, DeliverRecord
  <1>7. CASE Crash
    BY <1>0, <1>7 DEF Crash, RecordInv
  <1>8. CASE UNCHANGED vars
    BY <1>1, <1>8 DEF vars
  <1>9. QED
    BY <1>2, <1>3, <1>4, <1>5, <1>6, <1>7, <1>8 DEF Next

\* A repeat that arrives when its delivery is in the log is acknowledged and not
\* recorded again, whatever upserts replace the record while it waits for its body
\* (receive_cp_webhook, _merge_locked).
THEOREM RepeatsAcknowledgedHolds == Spec => RepeatsAcknowledged
  <1>1. ASSUME RecordInv, [Next]_vars, NEW a \in Attempts \ early,
               attempt[a] # Off, attempt'[a] = Off
        PROVE  recorded'[attempt[a].hook] <= recorded[attempt[a].hook]
    <2> USE DEF storeVars, runVars, sweepVars, handlerVars, cpVars
    <2>1. Duplicate(a) /\ attempt[a].hook \in Hook /\ recorded[attempt[a].hook] \in Nat
      BY <1>1, HandledType DEF RecordInv
    <2>2. CASE UNCHANGED recorded
      BY <2>1, <2>2
    <2>3. CASE Crash
      BY <2>1, <2>3 DEF Crash
    <2>4. ASSUME NEW b \in Attempts, Deliver(b)
          PROVE  UNCHANGED recorded
      <3>1. attempt' = [attempt EXCEPT ![b] = Off]
        BY <2>4 DEF Deliver
      <3>2. attempt \in [Attempts -> {Off} \cup Handled]
        BY <1>1 DEF RecordInv, TypeOK, Handled
      <3>3. b = a
        BY <1>1, <3>1, <3>2
      <3>4. QED
        BY <2>1, <2>4, <3>3 DEF Deliver
    <2>5. QED
      BY <1>1, <2>2, <2>3, <2>4
      DEF Next, vars, RunStep, create_run, Subscribe, Subscribed, SubscribeFailed, Cancel,
          RunEnds, Teardown, TeardownDelete, SweepStep, SweepList, SweepNext, SweepDelete,
          CpCreates, Receive
  <1>2. ASSUME RecordInv, [Next]_vars
        PROVE  [\A a \in Attempts \ early :
                  attempt[a] # Off /\ attempt'[a] = Off =>
                      recorded'[attempt[a].hook] <= recorded[attempt[a].hook]]_vars
    BY <1>1, <1>2
  <1>3. QED
    BY InitRecord, StepRecord, <1>2, PTL DEF Spec, RepeatsAcknowledged

==============================================================================
