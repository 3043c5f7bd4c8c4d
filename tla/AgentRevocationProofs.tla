------------------------ MODULE AgentRevocationProofs ------------------------
(***************************************************************************)
(* Proofs about AgentRevocation, for every set of tokens and of concurrent *)
(* requests and every value of the delays and bounds.                      *)
(***************************************************************************)
EXTENDS AgentRevocation, TLAPS

------------------------------------------------------------------------------
(* Types.                                                                  *)

\* The records the operators build have their types.
LEMMA RecordTypes ==
    ASSUME TypeOK
    PROVE  /\ \A st \in {"publish", "refresh"}, q \in BOOLEAN, a \in Aid :
                    Pulling(st, q, a) \in TaskState
           /\ \A t \in Task : Idle(t) \in TaskState
           /\ \A t \in Task : Emitting(t) \in TaskState
           /\ \A e \in SUBSET Jti, a \in Aid, n \in Nat :
                    Sign(e, a, n) \in SignedList
  <1>1. \A st \in {"publish", "refresh"}, q \in BOOLEAN, a \in Aid :
            Pulling(st, q, a) \in TaskState
    BY DEF TypeOK, Pulling, TaskState
  <1>2. \A t \in Task : Idle(t) \in TaskState
    BY DEF TypeOK, Idle, TaskState, Aid
  <1>3. ASSUME NEW t \in Task PROVE Emitting(t) \in TaskState
    <2>1. task[t] \in TaskState
      BY DEF TypeOK
    <2>2. QED BY <2>1 DEF Emitting, TaskState, Aid
  <1>4. \A e \in SUBSET Jti, a \in Aid, n \in Nat :
            Sign(e, a, n) \in SignedList
    BY TtlAssumption DEF Sign, SignedList
  <1>5. QED BY <1>1, <1>2, <1>3, <1>4

\* The list in force, when there is one, is the list held.
LEMMA InForceFacts ==
    ASSUME NEW list \in SignedList \cup {NoList}, NEW a \in Aid, NEW n \in Nat,
           InForce(list, a, n) # NoList
    PROVE  /\ InForce(list, a, n) = list
           /\ list \in SignedList
           /\ list.signer = a
           /\ n < list.expires_at
  BY DEF InForce

\* What ingesting a list leaves as the snapshot.
LEMMA IngestType ==
    ASSUME TypeOK, NEW list \in SignedList \cup {NoList}, NEW v \in BOOLEAN,
           Ingest(list, v)
    PROVE  snapshot' \in Snapshot \cup {NoSnapshot}
  <1>1. CASE InForce(list, aid, clock) = NoList \/ ~v
    BY <1>1 DEF Ingest, TypeOK
  <1>2. CASE ~(InForce(list, aid, clock) = NoList \/ ~v)
    <2>1. InForce(list, aid, clock) = list /\ list \in SignedList
      BY <1>2, InForceFacts DEF TypeOK
    <2>2. QED
      BY <1>2, <2>1 DEF Ingest, SignedList, Snapshot
  <1>3. QED BY <1>1, <1>2

\* Returning from issued.refresh keeps the types of what it changes.
LEMMA ReturnedType ==
    ASSUME TypeOK, NEW t \in Task, NEW list \in SignedList \cup {NoList},
           NEW v \in BOOLEAN, Returned(t, list, v)
    PROVE  /\ task' \in [Task -> TaskState]
           /\ snapshot' \in Snapshot \cup {NoSnapshot}
           /\ ready' \in BOOLEAN
  <1>1. CASE task[t].stage = "publish"
    <2>1. task[t].quiet \in BOOLEAN
      BY DEF TypeOK, TaskState
    <2>2. Pulling("refresh", task[t].quiet, aid) \in TaskState
      BY <2>1, RecordTypes DEF TypeOK
    <2>3. QED BY <1>1, <2>2 DEF Returned, TypeOK
  <1>2. CASE task[t].stage = "refresh"
    BY <1>2, RecordTypes, IngestType DEF Returned, TypeOK
  <1>3. QED BY <1>1, <1>2 DEF TypeOK, TaskState

\* So does suspending for the telemetry post.
LEMMA AwaitEmitType ==
    ASSUME TypeOK, NEW t \in Task, AwaitEmit(t)
    PROVE  /\ task' \in [Task -> TaskState]
           /\ snapshot' \in Snapshot \cup {NoSnapshot}
           /\ ready' \in BOOLEAN
  BY RecordTypes DEF AwaitEmit, TypeOK

\* Every step keeps the types.
LEMMA TypeInductive == TypeOK /\ [Next]_vars => TypeOK'
  <1> SUFFICES ASSUME TypeOK, [Next]_vars PROVE TypeOK'
    OBVIOUS
  <1>1. CASE Poll
    <2>1. Pulling("refresh", TRUE, aid) \in TaskState
      BY RecordTypes DEF TypeOK
    <2>2. QED BY <1>1, <2>1 DEF Poll, TypeOK, cpVars
  <1>2. ASSUME NEW t \in Admins, NEW q \in BOOLEAN, AdminRefresh(t, q) PROVE TypeOK'
    <2>1. Pulling("refresh", q, aid) \in TaskState
      BY RecordTypes DEF TypeOK
    <2>2. QED BY <1>2, <2>1 DEF AdminRefresh, TypeOK, cpVars
  <1>3. ASSUME NEW t \in Admins, RotateKeys(t) PROVE TypeOK'
    <2>1. aid + 1 \in Aid /\ clock \in Nat
      BY DEF TypeOK, Aid
    <2>2. Pulling("publish", TRUE, aid + 1) \in TaskState
      BY <2>1, RecordTypes
    <2>3. serveable(current, aid + 1, clock, FALSE) \in SignedList \cup {NoList}
      BY <2>1, RecordTypes DEF serveable, InForce, TypeOK
    <2>4. QED BY <1>3, <2>1, <2>2, <2>3 DEF RotateKeys, TypeOK, cpVars
  <1>4. ASSUME NEW t \in Task, CpAnswer(t) PROVE TypeOK'
    <2>1. task[t] \in TaskState
      BY DEF TypeOK
    <2>2. [task[t] EXCEPT !.phase = "answered",
                          !.entries = {j \in cpEntries : issuer[j] = task[t].aid}]
             \in TaskState
      BY <2>1 DEF TaskState, TypeOK
    <2>3. task' \in [Task -> TaskState]
      BY <1>4, <2>2 DEF CpAnswer, TypeOK
    <2>4. QED BY <1>4, <2>3 DEF CpAnswer, TypeOK, cpVars
  <1>5. ASSUME NEW t \in Task, NEW v \in BOOLEAN, SignAnswer(t, v) PROVE TypeOK'
    <2>1. current' \in SignedList
      BY <1>5, RecordTypes DEF SignAnswer, TypeOK, TaskState
    <2>2. AwaitEmit(t) \/ Returned(t, current', v)
      BY <1>5 DEF SignAnswer
    <2>3. /\ task' \in [Task -> TaskState]
          /\ snapshot' \in Snapshot \cup {NoSnapshot}
          /\ ready' \in BOOLEAN
      BY <2>1, <2>2, AwaitEmitType, ReturnedType
    <2>4. QED BY <1>5, <2>1, <2>3 DEF SignAnswer, TypeOK, cpVars
  <1>6. ASSUME NEW t \in Task, NEW v \in BOOLEAN, PullRefused(t, v) PROVE TypeOK'
    <2>1. AwaitEmit(t) \/ Returned(t, current, v)
      BY <1>6 DEF PullRefused
    <2>2. /\ task' \in [Task -> TaskState]
          /\ snapshot' \in Snapshot \cup {NoSnapshot}
          /\ ready' \in BOOLEAN
      BY <2>1, AwaitEmitType, ReturnedType DEF TypeOK
    <2>3. QED BY <1>6, <2>2 DEF PullRefused, TypeOK, cpVars
  <1>7. ASSUME NEW t \in Task, NEW v \in BOOLEAN, EmitDone(t, v) PROVE TypeOK'
    <2>1. /\ task' \in [Task -> TaskState]
          /\ snapshot' \in Snapshot \cup {NoSnapshot}
          /\ ready' \in BOOLEAN
      BY <1>7, ReturnedType DEF EmitDone, TypeOK
    <2>2. QED BY <1>7, <2>1 DEF EmitDone, TypeOK, cpVars
  <1>8. CASE ServeList
    <2>1. current' \in SignedList \cup {NoList}
      BY <1>8, RecordTypes DEF ServeList, serveable, InForce, TypeOK
    <2>2. QED BY <1>8, <2>1 DEF ServeList, TypeOK, cpVars
  <1>9. ASSUME NEW j \in Jti,
               \/ Call(j) \/ IssueTct(j) \/ InitiateHandshake(j) \/ RevokeLocal(j)
               \/ CpRevoke(j) \/ CpUnrevoke(j)
        PROVE  TypeOK'
    BY <1>9 DEF Call, IssueTct, InitiateHandshake, Mint, RevokeLocal, CpRevoke,
                CpUnrevoke, CountDegradedServe, TypeOK, Aid, agentVars, cpVars
  <1>10. ASSUME NEW src \in Jti, NEW new \in Jti,
                RedeemDelegation(src, new) \/ ProcessRenewal(src, new)
         PROVE  TypeOK'
    BY <1>10 DEF RedeemDelegation, ProcessRenewal, Mint, CountDegradedServe, TypeOK,
                 Aid, agentVars, cpVars
  <1>11. CASE Tick
    BY <1>11 DEF Tick, TypeOK, agentVars, cpVars
  <1>12. CASE UNCHANGED vars
    BY <1>12 DEF vars, TypeOK, agentVars, cpVars
  <1>13. QED
    BY <1>1, <1>2, <1>3, <1>4, <1>5, <1>6, <1>7, <1>8, <1>9, <1>10, <1>11, <1>12
       DEF Next, RefreshStep

\* Every start-up state has the types.
LEMMA TypeInit == Init => TypeOK
  <1> SUFFICES ASSUME Init PROVE TypeOK
    OBVIOUS
  <1>1. config.cp \in BOOLEAN
    BY ConfigAssumption DEF Init
  <1>2. \A t \in Task : task[t] \in TaskState
    BY <1>1 DEF Init, Pulling, Idle, TaskState, Aid
  <1>3. ready \in BOOLEAN
    BY <1>1 DEF Init
  <1>4. task \in [Task -> TaskState]
    BY <1>2 DEF Init
  <1>5. issuer \in [Jti -> Nat] /\ revokedAt \in [Jti -> Nat]
    BY DEF Init
  <1>6. /\ config \in Configs /\ clock \in Nat /\ aid \in Aid
        /\ local \in SUBSET Jti /\ cpEntries \in SUBSET Jti
        /\ snapshot \in Snapshot \cup {NoSnapshot}
        /\ current \in SignedList \cup {NoList}
        /\ degradedServes \in Nat
    BY DEF Init, Aid
  <1>7. QED
    BY <1>3, <1>4, <1>5, <1>6 DEF TypeOK

\* The types hold in every reachable state of the agent.
THEOREM TypeCorrect == Spec => []TypeOK
  BY TypeInit, TypeInductive, PTL DEF Spec

------------------------------------------------------------------------------
(* What a pull, a list and a snapshot know: the inductive invariant.       *)

\* At start-up there is nothing to know.
LEMMA IndInvInit == Init => IndInv
  <1> SUFFICES ASSUME Init PROVE IndInv
    OBVIOUS
  <1>1. TypeOK
    BY TypeInit
  <1>2. TokensOK
    BY DEF Init, TokensOK
  <1>3. TasksOK
    BY <1>1, TimingAssumption DEF Init, TasksOK, InFlight, Complete, Pulling, Idle
  <1>4. ListOK /\ SnapshotOK
    BY DEF Init, ListOK, SnapshotOK
  <1>5. QED BY <1>1, <1>2, <1>3, <1>4 DEF IndInv

\* A step by which the CP's record of the current key's tokens gains nothing
\* older than the step itself.
NoOldNews ==
    \A j \in Jti : j \in cpEntries' /\ issuer'[j] = aid' =>
        \/ j \in cpEntries /\ issuer[j] = aid /\ revokedAt'[j] = revokedAt[j]
        \/ revokedAt'[j] = clock

\* Such a step keeps what is known, if it leaves the refreshes alone.
LEMMA FrameKeepsInv ==
    ASSUME IndInv, TypeOK', TokensOK', NoOldNews,
           UNCHANGED <<config, clock, aid, snapshot, current, task>>
    PROVE  IndInv'
  <1>1. TasksOK'
    BY DEF IndInv, NoOldNews, TasksOK, InFlight, Complete, TypeOK, TaskState
  <1>2. ListOK'
    <2> SUFFICES ASSUME current # NoList
                 PROVE  ListOK'
      BY DEF ListOK
    <2>1. current \in SignedList
      BY DEF IndInv, TypeOK
    <2>2. QED
      BY <2>1, TimingAssumption
         DEF IndInv, NoOldNews, ListOK, Complete, TypeOK, SignedList
  <1>3. SnapshotOK'
    <2> SUFFICES ASSUME snapshot # NoSnapshot
                 PROVE  SnapshotOK'
      BY DEF SnapshotOK
    <2>1. snapshot \in Snapshot /\ current \in SignedList
      BY DEF IndInv, TypeOK, SnapshotOK
    <2>2. QED
      BY <2>1, TimingAssumption
         DEF IndInv, NoOldNews, ListOK, SnapshotOK, Complete, TypeOK, Snapshot, SignedList
  <1>4. QED BY <1>1, <1>2, <1>3 DEF IndInv

\* An admission, a redemption or a renewal mints a token the CP has not seen.
LEMMA MintKeepsInv ==
    ASSUME IndInv, TypeOK', NEW j \in Jti, NEW a \in Aid, a <= aid, issuer[j] = 0,
           issuer' = [issuer EXCEPT ![j] = a],
           UNCHANGED <<config, clock, aid, snapshot, current, task, cpVars>>
    PROVE  IndInv'
  <1>1. TokensOK'
    BY DEF IndInv, TokensOK, TypeOK, Aid, cpVars
  <1>2. NoOldNews
    BY DEF IndInv, TokensOK, TypeOK, NoOldNews, cpVars
  <1>3. QED BY <1>1, <1>2, FrameKeepsInv

\* A refresh step that leaves its task waiting, done, or at the start of a new
\* pull under the current key keeps what the other tasks know.
LEMMA TaskStepKeepsTasks ==
    ASSUME IndInv, NEW t \in Task, NEW r \in TaskState,
           task' = [task EXCEPT ![t] = r],
           \/ r.phase \in {"idle", "emit"}
           \/ r.phase = "pull" /\ r.aid = aid /\ r.start = clock,
           r.phase # "idle" => config.cp,
           UNCHANGED <<config, clock, aid, issuer, cpVars>>
    PROVE  TasksOK'
  <1> SUFFICES ASSUME NEW u \in Task
               PROVE  /\ task'[u].phase # "idle" => config.cp
                      /\ InFlight(u)' => /\ task'[u].start <= clock
                                         /\ clock <= task'[u].start + PullTimeout
                      /\ task'[u].phase = "answered" =>
                            Complete(task'[u].entries, task'[u].start)
                      /\ task'[u].phase = "pull" /\ task'[u].aid # aid =>
                            Complete({}, task'[u].start)
    BY DEF TasksOK, Complete, cpVars
  <1>1. CASE u = t
    <2>1. task'[u] = r /\ clock \in Nat
      BY <1>1 DEF IndInv, TypeOK
    <2>2. QED BY <2>1, TimingAssumption DEF InFlight, TaskState
  <1>2. CASE u # t
    <2>1. task'[u] = task[u]
      BY <1>2 DEF IndInv, TypeOK
    <2>2. QED BY <2>1 DEF IndInv, TasksOK, InFlight
  <1>3. QED BY <1>1, <1>2

\* Ingesting the list held replaces the snapshot by one at least as recent
\* that knows as much as it claims.
LEMMA IngestKeepsSnapshot ==
    ASSUME IndInv, TypeOK', ListOK', NEW v \in BOOLEAN, Ingest(current', v),
           config.cp,
           current # NoList => /\ current' # NoList
                               /\ current'.published_at >= current.published_at,
           UNCHANGED <<config, clock, aid, issuer, cpVars>>
    PROVE  /\ SnapshotOK'
           /\ snapshot # NoSnapshot => /\ snapshot' # NoSnapshot
                                       /\ snapshot'.published_at >= snapshot.published_at
  <1>1. CASE InForce(current', aid, clock) = NoList \/ ~v
    <2>1. snapshot' = snapshot
      BY <1>1 DEF Ingest
    <2>2. SnapshotOK'
      <3> SUFFICES ASSUME snapshot # NoSnapshot PROVE SnapshotOK'
        BY <2>1 DEF SnapshotOK
      <3>1. /\ snapshot \in Snapshot /\ current \in SignedList
            /\ current' \in SignedList
        BY DEF IndInv, TypeOK, SnapshotOK
      <3>2. snapshot.published_at <= current'.published_at
        BY <3>1 DEF IndInv, SnapshotOK, Snapshot, SignedList
      <3>3. QED
        BY <2>1, <3>1, <3>2, NoListAssumption DEF IndInv, SnapshotOK, Complete, cpVars
    <2>3. snapshot # NoSnapshot => snapshot.published_at \in Nat
      BY DEF IndInv, TypeOK, Snapshot
    <2>4. QED BY <2>1, <2>2, <2>3
  <1>2. CASE ~(InForce(current', aid, clock) = NoList \/ ~v)
    <2>1. /\ InForce(current', aid, clock) = current' /\ current' \in SignedList
          /\ current'.signer = aid
      BY <1>2, InForceFacts DEF IndInv, TypeOK
    <2>2. /\ snapshot' \in Snapshot
          /\ snapshot'.entries = current'.entries
          /\ snapshot'.published_at = current'.published_at
      BY <1>2, <2>1 DEF Ingest, SignedList, Snapshot
    <2>3. Complete(current'.entries, current'.published_at - PullTimeout)
      BY <2>1, NoListAssumption DEF ListOK, Complete, cpVars
    <2>4. SnapshotOK'
      BY <2>1, <2>2, <2>3, NoListAssumption
         DEF SnapshotOK, Complete, cpVars, SignedList
    <2>5. snapshot # NoSnapshot => snapshot'.published_at >= snapshot.published_at
      BY <2>1, <2>2 DEF IndInv, TypeOK, SnapshotOK, Snapshot, SignedList
    <2>6. QED BY <2>2, <2>4, <2>5, NoSnapshotAssumption
  <1>3. QED BY <1>1, <1>2

\* A publish or a refresh that gets its answer, is refused, or ends its
\* telemetry post: the list held was replaced by a complete one, or not at all.
LEMMA ReturnKeepsInv ==
    ASSUME IndInv, TypeOK', ListOK', NEW t \in Task, NEW v \in BOOLEAN,
           task[t].phase # "idle",
           AwaitEmit(t) \/ Returned(t, current', v),
           current # NoList => /\ current' # NoList
                               /\ current'.published_at >= current.published_at,
           UNCHANGED <<config, clock, aid, issuer, cpVars>>
    PROVE  /\ IndInv'
           /\ snapshot # NoSnapshot => /\ snapshot' # NoSnapshot
                                       /\ snapshot'.published_at >= snapshot.published_at
  <1>1. config.cp
    BY DEF IndInv, TasksOK
  <1>2. TokensOK'
    BY DEF IndInv, TokensOK, cpVars
  <1>3. task[t].stage \in {"publish", "refresh"} /\ task[t].quiet \in BOOLEAN /\ aid \in Aid
    BY DEF IndInv, TypeOK, TaskState
  <1> DEFINE Newer == snapshot # NoSnapshot => /\ snapshot' # NoSnapshot
                                               /\ snapshot'.published_at >= snapshot.published_at
  <1>4. CASE UNCHANGED snapshot
    <2>1. SnapshotOK' /\ Newer
      <3> SUFFICES ASSUME snapshot # NoSnapshot PROVE SnapshotOK' /\ Newer
        BY <1>4 DEF SnapshotOK
      <3>1. /\ snapshot \in Snapshot /\ current \in SignedList
            /\ current' \in SignedList
        BY DEF IndInv, TypeOK, SnapshotOK
      <3>2. snapshot.published_at <= current'.published_at
        BY <3>1 DEF IndInv, SnapshotOK, Snapshot, SignedList
      <3>3. Newer
        BY <1>4, <3>1 DEF Snapshot
      <3>4. SnapshotOK'
        BY <1>4, <3>1, <3>2, NoListAssumption DEF IndInv, SnapshotOK, Complete, cpVars
      <3>5. QED BY <3>3, <3>4
    <2>2. ASSUME AwaitEmit(t) PROVE TasksOK'
      <3>1. Emitting(t) \in TaskState
        BY RecordTypes DEF IndInv
      <3>2. QED BY <1>1, <2>2, <3>1, TaskStepKeepsTasks DEF AwaitEmit, Emitting
    <2>3. ASSUME Returned(t, current', v) PROVE TasksOK'
      <3>1. Pulling("refresh", task[t].quiet, aid) \in TaskState /\ Idle(t) \in TaskState
        BY <1>3, RecordTypes DEF IndInv
      <3>2. CASE task' = [task EXCEPT ![t] = Pulling("refresh", task[t].quiet, aid)]
        BY <1>1, <3>1, <3>2, TaskStepKeepsTasks DEF Pulling
      <3>3. CASE task' = [task EXCEPT ![t] = Idle(t)]
        BY <1>1, <3>1, <3>3, TaskStepKeepsTasks DEF Idle
      <3>4. QED BY <2>3, <3>2, <3>3 DEF Returned
    <2>4. QED BY <1>2, <2>1, <2>2, <2>3 DEF IndInv
  <1>5. CASE Ingest(current', v) /\ task' = [task EXCEPT ![t] = Idle(t)]
    <2>1. Idle(t) \in TaskState
      BY RecordTypes DEF IndInv
    <2>2. TasksOK'
      BY <1>1, <1>5, <2>1, TaskStepKeepsTasks DEF Idle
    <2>3. SnapshotOK' /\ Newer
      BY <1>1, <1>5, IngestKeepsSnapshot
    <2>4. QED BY <1>2, <2>2, <2>3 DEF IndInv
  <1>6. QED BY <1>4, <1>5 DEF AwaitEmit, Returned

\* The snapshot in force is replaced only by one at least as recent.
NeverOlder ==
    snapshot # NoSnapshot => /\ snapshot' # NoSnapshot
                             /\ snapshot'.published_at >= snapshot.published_at

\* A step that leaves the snapshot alone does not make it older.
LEMMA SameSnapshot == TypeOK /\ UNCHANGED snapshot => NeverOlder
  BY DEF TypeOK, Snapshot, NeverOlder

\* The answer signed on its arrival is complete up to one pull ago: the pull
\* began no earlier, and the answer knows what was revoked before it began.
LEMMA SignedListIsComplete ==
    ASSUME IndInv, TypeOK', NEW t \in Task, task[t].phase = "answered",
           current' = Sign(task[t].entries, aid, clock),
           UNCHANGED <<config, clock, aid, issuer, cpVars>>
    PROVE  /\ ListOK'
           /\ current' # NoList
           /\ current # NoList => current'.published_at >= current.published_at
  <1>1. /\ task[t].start \in Nat /\ clock \in Nat /\ aid \in Aid
        /\ task[t].entries \in SUBSET Jti /\ task[t].aid \in Aid
    BY DEF IndInv, TypeOK, TaskState
  <1>2. /\ current' \in SignedList
        /\ current'.published_at = clock
        /\ current'.expires_at = clock + ListTtl
        /\ current'.entries = task[t].entries
    BY <1>1, TtlAssumption DEF Sign, SignedList
  <1>3. clock - PullTimeout <= task[t].start
    BY <1>1, TimingAssumption DEF IndInv, TasksOK, InFlight
  <1>4. Complete(task[t].entries, clock - PullTimeout)
    <2>1. Complete(task[t].entries, task[t].start)
      BY DEF IndInv, TasksOK
    <2>2. \A j \in Jti : revokedAt[j] \in Nat
      BY DEF IndInv, TypeOK
    <2>3. QED
      BY <1>1, <1>3, <2>1, <2>2, TimingAssumption DEF Complete
  <1>5. ListOK'
    BY <1>1, <1>2, <1>4 DEF ListOK, Complete, cpVars
  <1>6. current # NoList => current'.published_at >= current.published_at
    BY <1>1, <1>2 DEF IndInv, ListOK, TypeOK, SignedList
  <1>7. QED BY <1>2, <1>5, <1>6, NoListAssumption

\* Without a CP, serving leaves the list held or signs an empty one.
LEMMA ServeableCases ==
    ASSUME NEW a, NEW list, NEW n
    PROVE  \/ serveable(list, a, n, FALSE) = list
           \/ serveable(list, a, n, FALSE) = Sign({}, a, n)
  <1>1. CASE InForce(list, a, n) = NoList
    BY <1>1 DEF serveable
  <1>2. CASE InForce(list, a, n) # NoList
    BY <1>2 DEF serveable, InForce
  <1>3. QED BY <1>1, <1>2

\* An empty list signed because no CP is configured claims nothing here.
LEMMA ServedKeepsInv ==
    ASSUME IndInv, TypeOK', NEW a \in Aid, ~config.cp,
           current' = current \/ current' = Sign({}, a, clock),
           TokensOK', TasksOK',
           UNCHANGED <<config, clock, snapshot>>
    PROVE  IndInv'
  <1>1. snapshot = NoSnapshot
    BY DEF IndInv, SnapshotOK
  <1>2. CASE current' = current
    BY <1>1, <1>2 DEF IndInv, ListOK, SnapshotOK
  <1>3. CASE current' = Sign({}, a, clock)
    <2>1. clock \in Nat
      BY DEF IndInv, TypeOK
    <2>2. /\ current'.published_at = clock
          /\ current'.expires_at = clock + ListTtl
      BY <1>3, <2>1, TtlAssumption DEF Sign
    <2>3. ListOK'
      BY <2>1, <2>2 DEF ListOK
    <2>4. SnapshotOK'
      BY <1>1 DEF SnapshotOK
    <2>5. QED BY <2>3, <2>4 DEF IndInv
  <1>4. QED BY <1>2, <1>3

\* A new pull by a task that was idle, under the current key.
LEMMA StartKeepsInv ==
    ASSUME IndInv, TypeOK', NEW t \in Task, NEW q \in BOOLEAN, config.cp,
           task' = [task EXCEPT ![t] = Pulling("refresh", q, aid)],
           UNCHANGED <<config, clock, aid, snapshot, current, issuer, cpVars>>
    PROVE  IndInv' /\ NeverOlder
  <1>1. Pulling("refresh", q, aid) \in TaskState
    BY RecordTypes DEF IndInv, TypeOK
  <1>2. TasksOK'
    BY <1>1, TaskStepKeepsTasks DEF Pulling
  <1>3. TokensOK' /\ ListOK' /\ SnapshotOK'
    BY DEF IndInv, TokensOK, ListOK, SnapshotOK, Complete, cpVars
  <1>4. NeverOlder
    BY SameSnapshot DEF IndInv
  <1>5. QED BY <1>2, <1>3, <1>4 DEF IndInv

\* A rotation: no token of the new key exists yet, so every claim about the
\* current key's tokens holds of the new one for want of tokens.
LEMMA RotationKeepsInv ==
    ASSUME IndInv, TypeOK', NEW t \in Admins, RotateKeys(t)
    PROVE  IndInv' /\ NeverOlder
  <1>1. /\ aid \in Nat /\ aid' = aid + 1 /\ aid + 1 \in Aid /\ clock \in Nat
        /\ t \in Task /\ task \in [Task -> TaskState]
    BY DEF IndInv, TypeOK, Aid, RotateKeys, Task
  <1>2. \A j \in Jti : issuer'[j] <= aid /\ issuer'[j] # aid'
    BY <1>1 DEF IndInv, TokensOK, TypeOK, RotateKeys
  <1>3. TokensOK'
    BY <1>1, <1>2 DEF IndInv, TokensOK, TypeOK, RotateKeys, cpVars
  <1>4. NeverOlder
    BY SameSnapshot DEF IndInv, RotateKeys
  <1>5. CASE config.cp
    <2>1. Pulling("publish", TRUE, aid + 1) \in TaskState
      BY <1>1, RecordTypes DEF IndInv
    <2>2. task' = [task EXCEPT ![t] = Pulling("publish", TRUE, aid + 1)]
          /\ UNCHANGED <<config, clock, current, snapshot>>
      BY <1>5 DEF RotateKeys
    <2>3. ASSUME NEW u \in Task
          PROVE  /\ task'[u].phase # "idle" => config'.cp
                 /\ InFlight(u)' => /\ task'[u].start <= clock'
                                    /\ clock' <= task'[u].start + PullTimeout
      <3>1. CASE u = t
        <4>1. task'[u].start = clock
          BY <1>1, <2>2, <3>1 DEF Pulling
        <4>2. clock <= clock /\ clock <= clock + PullTimeout
          BY <1>1, TimingAssumption
        <4>3. QED BY <1>5, <2>2, <4>1, <4>2
      <3>2. CASE u # t
        <4>1. task'[u] = task[u]
          BY <1>1, <2>2, <3>2
        <4>2. QED BY <1>5, <2>2, <4>1 DEF IndInv, TasksOK, InFlight
      <3>3. QED BY <3>1, <3>2
    <2>4. TasksOK'
      BY <1>2, <2>3 DEF TasksOK, Complete
    <2>5. ListOK'
      BY <1>2, <2>2 DEF IndInv, ListOK, Complete
    <2>6. SnapshotOK'
      BY <1>2, <2>2 DEF IndInv, SnapshotOK, Complete
    <2>7. QED BY <1>3, <1>4, <2>4, <2>5, <2>6 DEF IndInv
  <1>6. CASE ~config.cp
    <2>1. /\ current' = current \/ current' = Sign({}, aid + 1, clock)
          /\ UNCHANGED <<config, clock, task, snapshot>>
      BY <1>6, ServeableCases DEF RotateKeys
    <2>2. TasksOK'
      BY <1>2, <2>1 DEF IndInv, TasksOK, InFlight, Complete
    <2>3. IndInv'
      BY <1>1, <1>3, <1>6, <2>1, <2>2, ServedKeepsInv
    <2>4. QED BY <1>4, <2>3
  <1>7. QED BY <1>5, <1>6

\* The CP answers a pull.  Asked for the current key it returns all there is;
\* asked for a key rotated away since, it returns nothing of the current key,
\* of which nothing was revoked before the request.
LEMMA AnswerKeepsInv ==
    ASSUME IndInv, TypeOK', NEW t \in Task, CpAnswer(t)
    PROVE  IndInv' /\ NeverOlder
  <1>1. /\ UNCHANGED <<config, clock, aid, snapshot, current, issuer, cpVars>>
        /\ task[t].phase = "pull" /\ task[t] \in TaskState
        /\ task \in [Task -> TaskState]
    BY DEF CpAnswer, IndInv, TypeOK
  <1>2. /\ task'[t].phase = "answered" /\ task'[t].start = task[t].start
        /\ task'[t].entries = {j \in cpEntries : issuer[j] = task[t].aid}
    BY <1>1 DEF CpAnswer, TaskState
  <1>3. \A u \in Task \ {t} : task'[u] = task[u]
    BY <1>1 DEF CpAnswer
  <1>4. ASSUME NEW j \in Jti, j \in cpEntries, issuer[j] = aid,
               revokedAt[j] < task[t].start
        PROVE  j \in task'[t].entries
    <2>1. CASE task[t].aid = aid
      BY <1>2, <1>4, <2>1
    <2>2. CASE task[t].aid # aid
      BY <1>1, <1>4, <2>2 DEF IndInv, TasksOK, Complete
    <2>3. QED BY <2>1, <2>2
  <1>5. ASSUME NEW u \in Task
        PROVE  /\ task'[u].phase # "idle" => config'.cp
               /\ InFlight(u)' => /\ task'[u].start <= clock'
                                  /\ clock' <= task'[u].start + PullTimeout
               /\ task'[u].phase = "answered" =>
                     Complete(task'[u].entries, task'[u].start)
               /\ task'[u].phase = "pull" /\ task'[u].aid # aid' =>
                     Complete({}, task'[u].start)
    <2>1. CASE u = t
      BY <1>1, <1>2, <1>4, <2>1 DEF IndInv, TasksOK, InFlight, Complete
    <2>2. CASE u # t
      BY <1>1, <1>3, <2>2 DEF IndInv, TasksOK, InFlight
    <2>3. QED BY <2>1, <2>2
  <1>6. TasksOK'
    BY <1>1, <1>5 DEF TasksOK, Complete, cpVars
  <1>7. TokensOK' /\ ListOK' /\ SnapshotOK'
    BY <1>1 DEF IndInv, TokensOK, ListOK, SnapshotOK, Complete, cpVars
  <1>8. QED BY <1>1, <1>6, <1>7, SameSnapshot DEF IndInv

\* Every step keeps the inductive invariant and never brings back an older
\* snapshot.
LEMMA StepKeepsInv == IndInv /\ [Next]_vars => IndInv' /\ NeverOlder
  <1> SUFFICES ASSUME IndInv, [Next]_vars PROVE IndInv' /\ NeverOlder
    OBVIOUS
  <1>0. TypeOK /\ TypeOK'
    BY TypeInductive DEF IndInv
  <1>1. CASE Poll
    BY <1>0, <1>1, StartKeepsInv DEF Poll, Task
  <1>2. ASSUME NEW t \in Admins, NEW q \in BOOLEAN, AdminRefresh(t, q)
        PROVE  IndInv' /\ NeverOlder
    BY <1>0, <1>2, StartKeepsInv DEF AdminRefresh, Task
  <1>3. ASSUME NEW t \in Admins, RotateKeys(t) PROVE IndInv' /\ NeverOlder
    BY <1>0, <1>3, RotationKeepsInv
  <1>4. ASSUME NEW t \in Task, CpAnswer(t) PROVE IndInv' /\ NeverOlder
    BY <1>0, <1>4, AnswerKeepsInv
  <1>5. ASSUME NEW t \in Task, NEW v \in BOOLEAN, SignAnswer(t, v)
        PROVE  IndInv' /\ NeverOlder
    <2>1. /\ task[t].phase = "answered"
          /\ current' = Sign(task[t].entries, aid, clock)
          /\ AwaitEmit(t) \/ Returned(t, current', v)
          /\ UNCHANGED <<config, clock, aid, issuer, cpVars>>
      BY <1>5 DEF SignAnswer
    <2>2. /\ ListOK'
          /\ current' # NoList
          /\ current # NoList => current'.published_at >= current.published_at
      BY <1>0, <2>1, SignedListIsComplete
    <2>3. QED BY <1>0, <2>1, <2>2, ReturnKeepsInv DEF NeverOlder
  <1>6. ASSUME NEW t \in Task, NEW v \in BOOLEAN, PullRefused(t, v) \/ EmitDone(t, v)
        PROVE  IndInv' /\ NeverOlder
    <2>1. /\ task[t].phase # "idle"
          /\ AwaitEmit(t) \/ Returned(t, current', v)
          /\ UNCHANGED <<config, clock, aid, current, issuer, cpVars>>
      BY <1>6 DEF PullRefused, EmitDone
    <2>2. current # NoList => current'.published_at >= current.published_at
      BY <1>0, <2>1 DEF TypeOK, SignedList
    <2>3. ListOK'
      BY <2>1 DEF IndInv, ListOK, Complete, cpVars
    <2>4. QED BY <1>0, <2>1, <2>2, <2>3, ReturnKeepsInv DEF NeverOlder
  <1>7. CASE ServeList
    <2>1. /\ current' = current \/ current' = Sign({}, aid, clock)
          /\ ~config.cp /\ aid \in Aid
          /\ UNCHANGED <<config, clock, aid, task, snapshot, issuer, cpVars>>
      BY <1>0, <1>7, ServeableCases DEF ServeList, TypeOK
    <2>2. TokensOK' /\ TasksOK'
      BY <2>1 DEF IndInv, TokensOK, TasksOK, InFlight, Complete, cpVars
    <2>3. QED BY <1>0, <2>1, <2>2, ServedKeepsInv, SameSnapshot
  <1>8. ASSUME NEW j \in Jti, IssueTct(j) \/ InitiateHandshake(j)
        PROVE  IndInv' /\ NeverOlder
    <2>1. aid \in Aid /\ 1 \in Aid /\ aid <= aid /\ 1 <= aid
      BY <1>0 DEF TypeOK, Aid
    <2>2. QED BY <1>0, <1>8, <2>1, MintKeepsInv, SameSnapshot
              DEF IssueTct, InitiateHandshake, Mint, agentVars
  <1>9. ASSUME NEW src \in Jti, NEW new \in Jti,
               RedeemDelegation(src, new) \/ ProcessRenewal(src, new)
        PROVE  IndInv' /\ NeverOlder
    <2>1. aid \in Aid /\ 1 \in Aid /\ aid <= aid /\ 1 <= aid
      BY <1>0 DEF TypeOK, Aid
    <2>2. UNCHANGED <<config, clock, aid, snapshot, current, task, cpVars>>
      BY <1>9 DEF RedeemDelegation, ProcessRenewal, agentVars
    <2>3. CASE UNCHANGED issuer
      <3>1. TokensOK' /\ NoOldNews
        BY <2>2, <2>3 DEF IndInv, TokensOK, NoOldNews, cpVars
      <3>2. QED BY <1>0, <2>2, <3>1, FrameKeepsInv, SameSnapshot
    <2>4. CASE Mint(new, aid) \/ Mint(new, 1)
      BY <1>0, <2>1, <2>2, <2>4, MintKeepsInv, SameSnapshot DEF Mint
    <2>5. QED BY <1>9, <2>3, <2>4 DEF RedeemDelegation, ProcessRenewal
  <1>10. ASSUME NEW j \in Jti, Call(j) \/ RevokeLocal(j) PROVE IndInv' /\ NeverOlder
    <2>1. UNCHANGED <<config, clock, aid, snapshot, current, task, issuer, cpVars>>
      BY <1>10 DEF Call, RevokeLocal
    <2>2. TokensOK' /\ NoOldNews
      BY <2>1 DEF IndInv, TokensOK, NoOldNews, cpVars
    <2>3. QED BY <1>0, <2>1, <2>2, FrameKeepsInv, SameSnapshot
  <1>11. ASSUME NEW j \in Jti, CpRevoke(j) \/ CpUnrevoke(j) PROVE IndInv' /\ NeverOlder
    <2>1. UNCHANGED <<config, clock, aid, snapshot, current, task, issuer>>
      BY <1>11 DEF CpRevoke, CpUnrevoke, agentVars
    <2>2. TokensOK' /\ NoOldNews
      BY <1>0, <1>11 DEF CpRevoke, CpUnrevoke, agentVars, IndInv, TokensOK, NoOldNews, TypeOK
    <2>3. QED BY <1>0, <2>1, <2>2, FrameKeepsInv, SameSnapshot
  <1>12. CASE Tick
    <2>1. /\ UNCHANGED <<config, aid, snapshot, current, task, issuer, cpVars>>
          /\ clock' = clock + 1 /\ clock \in Nat /\ task \in [Task -> TaskState]
          /\ \A t \in Task : InFlight(t) => clock < task[t].start + PullTimeout
      BY <1>0, <1>12 DEF Tick, agentVars, TypeOK
    <2>2. TokensOK'
      BY <2>1 DEF IndInv, TokensOK, cpVars
    <2>3. TasksOK'
      BY <2>1, TimingAssumption DEF IndInv, TasksOK, InFlight, Complete, cpVars, TaskState
    <2>4. ListOK'
      BY <1>0, <2>1 DEF IndInv, ListOK, Complete, cpVars, TypeOK, SignedList
    <2>5. SnapshotOK'
      BY <2>1 DEF IndInv, SnapshotOK, Complete, cpVars
    <2>6. QED BY <1>0, <2>1, <2>2, <2>3, <2>4, <2>5, SameSnapshot DEF IndInv
  <1>13. CASE UNCHANGED vars
    <2>1. UNCHANGED <<config, clock, aid, snapshot, current, task, issuer, cpVars>>
      BY <1>13 DEF vars, agentVars
    <2>2. TokensOK' /\ NoOldNews
      BY <2>1 DEF IndInv, TokensOK, NoOldNews, cpVars
    <2>3. QED BY <1>0, <2>1, <2>2, FrameKeepsInv, SameSnapshot
  <1>14. QED
    BY <1>1, <1>2, <1>3, <1>4, <1>5, <1>6, <1>7, <1>8, <1>9, <1>10, <1>11, <1>12, <1>13
       DEF Next, RefreshStep

\* The inductive invariant holds in every reachable state.
THEOREM Inductive == Spec => []IndInv
  BY IndInvInit, StepKeepsInv, PTL DEF Spec

------------------------------------------------------------------------------
(* What the invariant gives a caller, a peer and a reader of the deny-set. *)

\* A snapshot that passes the posture is at most MaxStaleness old, and knows
\* every revocation older than its signature by more than one pull.
LEMMA InvBoundsHonour == IndInv => RevocationBound
  <1> SUFFICES ASSUME IndInv, NEW j \in Jti, config.cp,
                      config.fail_mode = "fail_closed", j \in cpEntries, Honours(j)
               PROVE  clock <= revokedAt[j] + MaxStaleness + PullTimeout
    BY DEF RevocationBound
  <1>1. Posture # "degraded"
    BY DEF Honours, FreshEnough
  <1>2. snapshot # NoSnapshot /\ ~(age_secs(snapshot, clock) > MaxStaleness)
    BY <1>1 DEF Posture, posture
  <1>3. snapshot \in Snapshot /\ clock \in Nat /\ revokedAt[j] \in Nat
    BY <1>2 DEF IndInv, TypeOK
  <1>4. clock - snapshot.published_at <= MaxStaleness
    BY <1>2, <1>3, StalenessAssumption DEF age_secs, Snapshot
  <1>5. j \notin snapshot.entries /\ issuer[j] = aid
    BY <1>2 DEF Honours, Denied, is_revoked, effective_jtis
  <1>6. ~(revokedAt[j] < snapshot.published_at - PullTimeout)
    BY <1>2, <1>5 DEF IndInv, SnapshotOK, Complete
  <1>7. QED
    BY <1>3, <1>4, <1>6, StalenessAssumption, TimingAssumption DEF Snapshot

\* A list in force is younger than its lifetime and complete up to one pull.
LEMMA InvBoundsServed == IndInv => ServedListBound
  <1> SUFFICES ASSUME IndInv, NEW j \in Jti, config.cp,
                      InForce(current, aid, clock) # NoList,
                      j \in cpEntries, issuer[j] = aid,
                      j \notin InForce(current, aid, clock).entries
               PROVE  clock < revokedAt[j] + ListTtl + PullTimeout
    BY DEF ServedListBound
  <1>1. /\ InForce(current, aid, clock) = current /\ current \in SignedList
        /\ current.signer = aid /\ clock < current.expires_at
    BY InForceFacts DEF IndInv, TypeOK
  <1>2. clock \in Nat /\ revokedAt[j] \in Nat
    BY DEF IndInv, TypeOK
  <1>3. current # NoList
    BY <1>1, NoListAssumption
  <1>4. /\ current.expires_at = current.published_at + ListTtl
        /\ ~(revokedAt[j] < current.published_at - PullTimeout)
    BY <1>1, <1>3 DEF IndInv, ListOK, Complete
  <1>5. QED
    BY <1>1, <1>2, <1>4, TtlAssumption, TimingAssumption DEF SignedList

\* A fail_closed agent honours a revoked token for at most the staleness
\* budget plus one pull (verify_capability_tct, redeem_delegation).
THEOREM RevocationBoundHolds == Spec => []RevocationBound
  BY Inductive, InvBoundsHonour, PTL

\* A list it serves omits a revoked token of its issuer only for less than the
\* list's lifetime plus one pull (serveable, get_revocation_list).
THEOREM ServedListBoundHolds == Spec => []ServedListBound
  BY Inductive, InvBoundsServed, PTL

\* No interleaving of refreshes puts an older deny-set back in force
\* (refresh_revocations, apply_snapshot).
THEOREM SnapshotNeverOlderHolds == Spec => SnapshotNeverOlder
  <1>1. IndInv /\ [Next]_vars =>
            [snapshot # NoSnapshot => /\ snapshot' # NoSnapshot
                                      /\ snapshot'.published_at >= snapshot.published_at]_vars
    BY StepKeepsInv DEF NeverOlder
  <1>2. QED BY <1>1, Inductive, PTL DEF Spec, SnapshotNeverOlder

==============================================================================
