# A TLA+ model of aitp-playground

aitp-playground runs scenarios in which several agents, each a process of its
own, establish trust with the Agent Identity & Trust Protocol (AITP), call each
other's capabilities, delegate, revoke and rotate keys. This directory models
the parts of it whose correctness depends on time, interleaving and failure,
checks them with TLC on small instances and proves the main properties with
TLAPS for every size.

Paths below are relative to the repository: `agents/base/` is the agent's side,
`src/aitp_playground/` the service that runs the scenarios.

## The system

### The agent process

One asyncio loop per agent; a handler is interrupted only where it awaits.

| Component | State | Operations | What makes it hard |
|---|---|---|---|
| Revocation state (`revocation_state.py`) | local revocations, the snapshot in force | revoke, apply a snapshot, `posture` | staleness and expiry boundaries |
| Issuer list (`revocation_publish.py`) | the signed list held | pull from the control plane (CP), sign, serve | state read before the pull, used after it; CP outages |
| Refresh (`revocation_refresh.py`) | none | pull, sign, verify, apply | several run at once, nothing serialises them |
| Server (`aitp_server.py`) | key, manifest, sessions, trusted peers | handshake routes, redemption, capability checks, rotation, poll | a rotation between any two steps of the rest |
| Replay guard (`handshake_replay.py`) | message ids with the time to forget them | `check` | boundaries, capacity, damaged copies |
| PoP challenges (`pop_challenges.py`) | outstanding nonces | issue, consume | at most one use per challenge |
| Admin router (`agent_admin.py`) | held TCTs and vouchers | start handshakes, invoke, renew, delegate, revoke, enrol | keeps the agent object it was built with |

### The service

One loop plus FastAPI's threadpool: `def` routes (cancel among them) run on
threads and are preempted anywhere.

| Component | State | Operations | What makes it hard |
|---|---|---|---|
| Scenario runner (`runner/engine.py`) | ports, files, processes of a run | run, clean up, finalise | every step may fail; cancels race it |
| Run store (`runner/store.py`) | records, event logs, subscribers, SQLite mirror | upsert, append, subscribe | check and write under separate locks; crash |
| Runs API (`api/runs.py`) | none | create, cancel, stream events | runs on other threads than the runner |
| Supervisor (`hosting/supervisor.py`) | process table, admin tokens | launch, kill | two kills over one table |
| Ports, hosted agents (`hosting/`) | ports in use and free, hosted agents | allocate, release, host, stop | reuse while the old owner is dying |
| Metrics (`observability/metrics.py`) | started runs, gauge, totals | record an event | three locked steps per event |
| CP webhooks (`api/webhooks.py`, `main.py`) | subscriptions, deliveries seen | receive, tear down, sweep | duplicate deliveries, sweep against new runs |
| Spend limits (`limits.py`, `llm.py`) | buckets, rolling window, token budget | allow, acquire, reserve | limits under concurrency |

The service launches agents through the supervisor, provisions and drives them
over their admin routers, and receives their telemetry; agents talk to one
another over the AITP routes; both talk to the CP. The properties each part has
to keep are the hazards listed in `PROJECT.json`, each at its line.

## The modules

| Module | Models |
|---|---|
| `RevocationState` | `revocation_state.py` as operators: deny-set, posture |
| `IssuerRevocationList` | `revocation_publish.py`: signing a list, when it may be served |
| `AgentRevocation` | the agent's loop over both: refresh tasks with their await points, enforcement, rotation, CP and time |
| `MCAgentRevocation` | its instances: a fail_closed agent with a clock, a soft_fail agent without |
| `AgentRevocationProofs` | its theorems |
| `OnceOnly` | the abstract promise: an item takes effect at most once |
| `AgentAdmission` | handshake and capability call, both ends, over an unreliable network, behind the replay guard and the challenge set |
| `MCAgentAdmission` | its instance: clocks, damage, symmetry |
| `AgentAdmissionProofs` | its theorems |
| `RunLifecycle`, `RunLifecycleProofs` | one run: engine, cancel threads, store, process table, metrics; its theorems |
| `RunEvents`, `RunEventsProofs` | one run's event log: its writers, SSE streams, the SQLite mirror, crash and restart; its theorems |
| `CpWebhooks`, `CpWebhooksProofs` | subscriptions at the CP: the step, the teardown, the start-up sweep, the receiver; its theorems |
| `Workflow`, `MCWorkflow`, `WorkflowProofs` | the step types of a scenario and the trust they build, change and take away; its theorems |
| `Hosting`, `MCHosting`, `HostingProofs` | both port pools, the supervisor's tables and tokens, runs, hosted agents; its theorems |
| `ManifestServing`, `ManifestServingProofs` | the manifest's re-mint at half-life against rotations; its theorems |

### AgentRevocation

`task[t]` is where a refresh, publish or rotation is: waiting for the CP
(`pull`), with the answer on its way (`answered`), in the telemetry post the code
awaits in some cases (`emit`), or `idle`. Between two of these the code does not
await, so an action is the code between two awaits: `SignAnswer` is the rest of
`IssuerRevocationList.refresh` after the pull, and, when no post follows, the rest
of `refresh_revocations` too. `Call` and `RedeemDelegation` apply the checks in
the code's order. Handshakes the agent starts and renewals it grants go through
the admin router, which still holds the agent's first key; the actions mint under
AID 1 for that reason. The CP is external: a set of revoked tokens, asked by
issuer. `revokedAt` is history, read only by properties.

`PullTimeout` bounds a whole pull. The code's `timeout=10.0` (`revocation_publish.py`)
bounds each operation of it (connect, each read), so an answer that trickles in can take
longer: that a pull ends within `PullTimeout` is an assumption, and the bounds on
revocation are relative to it.

### AgentAdmission

A handshake attempt signs a HELLO and a COMMIT; `stamp` holds their timestamps.
Once sent, an envelope may arrive at any later time, any number of times, whole or
with a damaged timestamp (its signature then fails in the SDK, after the guard has
recorded the id). `Hello` and `Commit` are the whole handlers: guard, session
table, SDK outcome. `Challenge` and `PopResponse` are the two halves of
`verify_capability_tct`; the revocation checks in front of them are the other
module's subject and could only refuse earlier. `processed` and `accepted` count
how often an envelope or a challenge took effect: they are the `times` of
`OnceOnly`, so the refinement says that no second time ever happens.

The clock of the model never goes back. `ReplayGuard` reads `time.time()`, so a
clock set back by the operator after an id was forgotten is outside what is shown.
Timestamps are integers; the code's are numbers compared in the same way. A timestamp
that is not a number at all (NaN, which JSON as Python reads it can carry) passes both
comparisons of `handshake_replay.py` and is left out.

`issuedTo` ties a challenge to the call it was issued for. The code ties it to the TCT and
the key that presents it, through the SDK's check of the answer's signature; a call here
presents one TCT, and a caller answers its own challenge, so the two come to the same.

### RunLifecycle

`pc[Engine]` follows `ScenarioRunner.run`; each cancel request is an actor with
its own `pc`. A step is one locked store or metrics operation, one entry of the
process table, or one process: what threads can be preempted between. Emission
(`append_event`, `CountRun`, `add_gauge`, `CountTotal`) and `kill_run`
(`kill`, `Reap`, `KillRunDone`) are shared by all actors, with `ret` the place to
go on. Loading, validation, allocation, file writing, launching, readiness and the
workflow each may fail where the code can raise. An exception that is neither a
`PlaygroundError` nor a `ValidationError`, as from a template's trust spec while loading
or from a schema that is itself invalid (`SchemaError`), is not caught by `run`: `pc`
becomes `escaped`.

A process may exit by itself at any time after its launch (`Exits`). `kill` terminates
and waits, but after its three seconds sends SIGKILL and returns (`Sigkill`): the process
is then `dying`, out of the table, and gone at some later time (`Dies`). The start-up
deadline is looked at only between two lines of the agent's output and the read of a line
has no timeout (`supervisor.py:110-118`), so `AgentNotReady` needs a line, or the end of
the process. A line written before the process was killed is still read. `disk` are the
bootstrap files that exist: one whose write raised is on it and not in `files`. A
run.failed counted for a run that never entered the started set counts as a refusal, and
so does one whose start a cancel beat to the set (`metrics.py:171-174`).

### RunEvents

A step is one acquisition of the store's lock or of the database's, or one
`call_soon_threadsafe`. Everything the loop's thread does inside a store operation
keeps it from running streams (`LoopFree`); cancel threads go on meanwhile.
`ready[s]` are the deliveries the loop has not come to, `queue[s]` the bounded
queue. `Restart` is a crash and the next process's hydration: memory, streams and
half-done operations are gone, rows stay. An event is its writer and number;
contents do not matter to the store. `overlapped` is history: whether two store
operations were ever under way at once. A canceller between its check and its write counts
as inside an operation, which makes `MirrorExact` slightly weaker than it could be stated.
`_finalize_failure`'s check and write are one step here; `RunLifecycle` has them as two,
and nothing about the log depends on what lies between.

### CpWebhooks

A call to the CP is acted on at some time and answered later or never, so
`Subscribe`, `CpCreates` and `Subscribed` are three steps. A subscription's id,
secret and delivery stand for each other. An answer may lack the id or the secret, and the
step then fails although the CP keeps the subscription. `attempt` is a delivery being
handled between the look at the record and the arrival of its body; an upsert in between
replaces the record it holds (`Upserted`). A delivery may arrive, and be retried, after
its subscription was deleted: the CP had sent it before. `Foreign` are subscriptions at
the CP that are not the playground's; the sweep sees them and spares them. `preempted` and
`early` are history: what the sweep chose before its answer came, and which requests
arrived before their delivery was in the log. A `Crash` stands for every end of the
process, the orderly shutdown too: that stops agents and the sweep, and does nothing about
subscriptions.

### Workflow

The engine takes one step at a time and the agents act only when asked, so a step
is one action with every handler it reaches. An AID is an agent and a key
generation; the server signs with `key`, the admin router for ever with generation
1. A scenario (a constant) gives agents, eager or explicit handshakes, whether
chained delegation is allowed, the step types in use and how many steps. Calls are
not counted: they change nothing but `served`, which the properties read. Any step
may raise, which ends the run.

`Oidc` are the agents identified by an OIDC token. A responder judges these by its issuers
and trust anchors, not by the pinned keys of its trust store (`aitp_server.py:234-240`), so
`ensure_trust` asks for the trust store only of the others. An agent's deny-set is what it
revoked itself (`local`) and the list in force (`snapshot`); a list takes the place of the
one before, and `rotate_keys` ends with a refresh for the new AID, of which the CP knows no
entries yet. `revoked` is history: what an agent had denied under its present AID. Nothing
here withdraws an entry at the CP, since no step of a scenario can.

The registry and session-bundle steps are there because a scenario can contain them and
every step type is an action; what they keep is small, and no property rests on it.

Taken from how the code uses the SDK: a handshake and a redemption always bring a
voucher, a renewal may; a redemption checks the voucher it came from, and each hop's
issuer against the manifests sent along; the SDK's limit on hops is not reached.
Peer discovery is static. Freshness of the deny-set is `AgentRevocation`'s subject.

### Hosting

Runs and requests to host are tasks on the loop, and a run's cleanup holds the loop
from start to end; cancel and stop are threads. Each owner has one process. `took`
is the process a thread has taken out of the table and waits for. A process is starting,
up, sent SIGKILL and not waited for (`dying`, which is how `kill` leaves one that ignores
SIGTERM, and a launch one that is not ready in time), or dead. It may exit by itself while
its run or its entry in `_hosted` goes on (`Exits`). `LookUp` and `Dial` are the two halves
of a route that reads the hosted agent, awaits, and calls its port.

`Spawn` is the loop's check for a cancel and the launch in one step. A cancel in between
is `RunLifecycle`'s subject (`OneStraggler`); here it is the same as one right after.

### ManifestServing

`_fresh_manifest_json` line by line on several threads, with the lock; rotation
signs first and installs under the lock. One assumption: nobody holds the lock, or
waits for it in a rotation, for half a manifest's life (`SignSecs < HalfLife`).

## What is checked

| Run | Shows | Bounds |
|---|---|---|
| `agent_revocation` | `RevocationBound`, `ServedListBound`, `SnapshotNeverOlder` (which compares times of publication only), the inductive invariant `IndInv`, and `RevocationReachesVerifier` under fairness | poll plus one admin task. Two instances side by side: fail_closed, with and without a CP, one token, no local revocation, one rotation, clock to 4, long enough for a snapshot to age out and a list to expire; soft_fail with a CP, two tokens, local revocations, no rotation and a clock that stands still. The poll may come at any time (`PollSecs = 0`) |
| `agent_admission` | `EnvelopeOnce`, `ChallengeOnce` (refinements of `OnceOnly`), `NoStaleIssuer`, `AdmittedCallsAreSound`, `AdmissionInv` | two attempts, two calls, two nonces, deny list of two, one outstanding challenge, tolerance and lifetime 1, clock to 3: every entry can be at, before and past its boundary and both sets fill up |
| `run_lifecycle` | `NoResurrection`, `EngineLeavesNothing`, `OneStraggler`, `EveryRunIsAccounted`, `EveryRunEnds`, `EveryProcessStops`, `TypeOK` | two agents (one launched, one to come), two cancels (which can also race each other); agents that exit, hang, ignore SIGTERM or never write a line |
| `run_events` | `ExactlyOnce`, `OwnOrder`, `MirrorExact`, `StreamsEnd`, `TypeOK` | the loop, one cancel thread, one stream with a queue of one (so it overflows), three events and the terminal ones, two crashes |
| `cp_webhooks` | `LiveRunKeepsItsHook`, `RepeatsAcknowledged`, `OrphansGo`, `EndedRunsLetGo`, `TypeOK` | one run with up to two subscriptions, another's subscription beside them, two deliveries at once, one crash; both with and without a durable store |
| `workflow` | `RevokedIsRefused`, `RevokedYieldsNothing`, `GrantsOnlyNarrow`, `ManifestsCoverTheChain`, `NothingNewForOldKeys`, `TypeOK` | four scenarios over three agents, one of them OIDC-typed, and two capabilities: a chain of two delegations; a delegation that is revoked; a pair with every step type; rotations across delegations and renewals; at most three TCTs, two keys an agent and five steps |
| `hosting` | `NoSharedPort`, `PortIsGivenUpAtLaunch`, `TokensKept`, `MisdirectedOnlyIfGone`, `TypeOK` | two runs (an old owner and a new one, with offsets that collide), two hosted agents, a pinned port of the runs' pool, one kill thread |
| `manifest_serving` | `KeyAndManifestAgree`, `FloorKept` | two requests at a time, two rotations, three half-lives |

Deadlock checking is off where the model really stops: a bounded clock has run
out, or the run is over.

Several properties name the case in which the code does not keep them, and hold in
every other:

- `EveryRunEnds`, `EveryProcessStops`: the engine reads for ever from an agent that is up
  and writes nothing more (`supervisor.py:110-118`; `docs/getting-started.md:344` knows the
  symptom, "Run hangs in `running` forever"). `EveryRunEnds` also leaves out a run whose
  exception escaped.
- `EngineLeavesNothing`: a process that was sent SIGKILL may still be there, and one
  bootstrap file whose write failed.
- `PortIsGivenUpAtLaunch`: a cancel thread still waits for the process whose port the run's
  own cleanup has released, or the port is pinned. A process that was sent SIGKILL counts
  as ended by the service; that it is gone when the port is bound is the operating
  system's matter.
- `TokensKept`: a late kill drops the token of the port's next owner, or the port is pinned.
- `MisdirectedOnlyIfGone`: the agent named was stopped, or it had exited by itself and its
  pinned port was given to another: it stays in `_hosted` (`hosting/hosted.py:165`).
- `LiveRunKeepsItsHook`: the sweep meets a subscription whose answer is on its way.
- `RepeatsAcknowledged`: a repeat that arrived before its delivery was in the log; what
  then happens is the run `recorded_twice`.
- `RevokedIsRefused`: a renewed or redeemed TCT (the run `revoke_step`).
- `RevokedYieldsNothing`: after a rotation the admin router, which signs with the first key
  for ever, renews what the CP had revoked under the old AID.
- `NothingNewForOldKeys`: an OIDC-typed agent, whose old key goes on being granted
  handshakes, since no trust store binds it.
- `ManifestsCoverTheChain`: a redemption in probe mode.
- `MirrorExact`: overlapping writes (the run `events_lost`).
- `OwnOrder`: two crashes after overlapping writes. The overlap leaves numbers out of the
  table, a process hydrated from it numbers its events below the last row, and the next
  process reads them in that order.

Four more runs show where the code does not do what one of its own comments or
documents says; `PROJECT.json` quotes the line for each.

| Run | Counterexample |
|---|---|
| `cancel_overwritten` | a cancel between `_finalize_failure`'s check and write ends up `failed` |
| `events_lost` | a cancel thread and the loop append together: one row number for two events |
| `recorded_twice` | a repeat that arrives while the first delivery waits for its body, with an upsert in between, is recorded as well |
| `revoke_step` | `revoke_tct` after a renewal or redemption revokes the older TCT; the audience is still served |

The models contain further windows without a run of their own, each noted at its
hazard: a rotation while a pull is in flight, or with the CP down (both stay within
`RevocationBound`, which is why it is the staleness budget plus one pull); a run that
ends between `cancel_run`'s check and write; two terminal labels for one run.

### Fairness

`AgentRevocation`: the loop runs what is runnable, so the poll is weakly fair. The
CP may refuse any pull, but not every one for ever, and the agent's own signature
verifies in the end; both are strong fairness, since refusals keep disabling the
answer. `RunLifecycle`: the loop runs the task whenever it can go on by itself (HTTP
calls time out, a terminated process is killed after three seconds, the pipe of a process
that is gone is closed), a thread that has started is scheduled, and SIGKILL is carried
out. While the engine reads from an agent that is up, nothing is assumed
(`WaitsForAgent`). Nobody is bound to send a cancel, and no agent to stop by itself. `RunEvents`: a thread inside a store operation is scheduled, the loop runs
what is due, the run's task ends, a connected client reads. Nobody need subscribe,
cancel or crash. `CpWebhooks`: the sweep and the teardown tasks go on, since their
calls time out; nothing is assumed of the CP, of runs or of deliveries.

Each property has a mutant: a plausible mistake in the mapped definition under
which TLC finds the property violated. They stand next to the definitions they
change.

## What is proved

The theorems hold for any sets of tokens, tasks, handshakes, calls, nonces, agents,
runs, streams, threads and scenarios and for all values of the delays and bounds, from
the assumptions the modules name: the constants' types, that "absent" is no proper
value, and the `SignSecs < HalfLife` of `ManifestServing`. Every invariant and every action
property a passing run checks is proved.

**AgentRevocationProofs.** `RevocationBound` is not inductive: it says nothing of
the pulls in flight. `IndInv` adds, for each thing that carries entries, how old
its knowledge is. An answer on its way knows every revocation older than its
request (`TasksOK`); a request under a key since rotated away knows nothing of the
new key's tokens, but all of those are younger than the request; a signed list
knows everything older than its signing time minus one pull (`ListOK`); the
snapshot likewise, and it is never younger than the list held (`SnapshotOK`). The
posture check then bounds the age of what is enforced: staleness budget plus one
pull. Theorems: `TypeCorrect`, `Inductive`, `RevocationBoundHolds`,
`ServedListBoundHolds`, `SnapshotNeverOlderHolds`.

**AgentAdmissionProofs.** `EnvelopeOnce` rests on `RememberedInWindow`: an
envelope that took effect is on the deny list, with an entry no shorter than its
window, or its window is over. Pruning drops entries strictly before now, the
window admits up to and including the same instant, so what one forgets the other
refuses; damaged copies can only be recorded while the id is not on the list.
`ChallengeOnce` rests on `OutstandingIsUnused`. `WholeHandshakes` and
`PresentedIsReal` tie calls to TCTs and TCTs to whole handshakes. Theorems:
`AdmissionInvariant`, `EnvelopesOnce`, `ChallengesUsedOnce`, `IssuerIsCurrent`,
`CallsAreSound`.

**ManifestServingProofs.** `KeyAndManifestAgree` is inductive as it stands.
`FloorKept` needs `OnTime` (nobody has the lock for longer than a signature takes, and
what is signed under it is dated no earlier) and `AboutToServe` (a request past its last
check holds a manifest good enough for the time it read).

**RunLifecycleProofs.** `NoResurrection` follows from each step alone. The rest starts
from `FlowInv`: where each actor is, what it emits or kills there and where it returns
to. `CleanInv` adds who has a process: one that exists is in the table, in the hands of
the kill that took it, or was sent SIGKILL, nothing is taken before the try block, the table is empty once the
engine's `kill_run` is through, and a file that is on the disk and not in the run's list is
the one whose write ended the run; hence `EngineLeavesNothing`. `StragglerInv` adds that a
cancel's mark stays until nothing is launched any more, and what the table can hold beside
the keys a cancel has copied; hence `OneStraggler`. `AccountInv` counts: totals and
counts under way make up the log, and nobody goes past an end without having logged it.

**CpWebhooksProofs.** `LiveRunKeepsItsHook` needs that a subscription asked for is on
its way, kept, or chosen by the sweep (`AskedFor`). `RepeatsAcknowledged` needs
`RecordInv`: a request that arrived after the delivery was logged holds a record with the
delivery in it, and an upsert, which replaces the record it holds, leaves it that list.

**HostingProofs.** `PortInv`: a pool never recycles a port in use, nor one twice
(proved of `allocate` and `release` for any pool), runs and hosted agents hold ports of
their pools. Between the pools the code has only distance: the hosted pool starts a
thousand ports above the runs' (`hosting/hosted.py`), and nothing stops the runs' pool
from growing into it. `NoSharedPort`, `PortIsGivenUpAtLaunch`, `TokensKept` and `MisdirectedOnlyIfGone` are
therefore proved while the two pools share no port (`PoolsApart`), which the checked
instance keeps by its size. `ProcInv` ties each process to its task and its tables, exited
ones included. `MisdirectedOnlyIfGone` rests on `OneListener` (at most one process listens
on a port) and on the port of a hosted agent staying in use until it is stopped, whether
its process is there or not.

**WorkflowProofs.** `GrantInv`: the parent of a TCT is an earlier one, its scope within
the parent's, so no chain widens (`GrantsOnlyNarrow`). `KeyInv`: what an agent was pushed
names present keys, so a handshake judged by the trust store is with one
(`NothingNewForOldKeys`). `ChainInv`: vouchers and delegations carry
the manifests of every hop behind them (`ManifestsCoverTheChain`). `RevokeInv`: what was
cut is on its issuer's deny list, what is held was logged, what was served was admitted
(`RevokedIsRefused`). `RevokedYieldsNothing` needs that what was denied under the present
AID is denied still (`StillDenied`), although each list replaces the last: the CP's entries
for an AID only grow while it is current, local revocations stay, and nothing was ever
denied under a key that is not made yet (`NoFutureKeys`).

**RunEventsProofs.** `LogInv`: ids are unique in the log and in the table, because a
thread's count only grows and survives a restart. `StreamInv` (⇒ `ExactlyOnce`): of an
open stream, each event of the log is in the feed, dropped, or still in the hands of one
notifying thread, and in one of these only; it starts true because `subscribe` copies
the log and registers in one locked step. Sending and delivering move an event along the
feed and leave the feed the same sequence. `MirrorInv` (⇒ `MirrorExact`): without an
overlap one thread at most is inside an operation, and the table is the log but for the
event it inserts; hydrating a table without gaps gives the same log. `OrderInv`
(⇒ `OwnOrder`): a thread's next event is newer than what any stream has of it; before
the first crash a thread inserts behind its own rows; after it the order comes from
`MirrorInv`. Proving this showed that an earlier statement, without the exception for two
crashes after an overlap, was false; TLC then gave the counterexample with two cancels and
two crashes.

Only model-checked are the liveness properties, `RevocationReachesVerifier`,
`EveryRunEnds`, `EveryProcessStops`, `StreamsEnd`, `OrphansGo` and `EndedRunsLetGo`:
TLAPS does not reason about fairness here.

## What is not modelled

Signatures, tokens and envelopes are the AITP SDK's: accepted or refused, with the
checks the code relies on. Wire formats, YAML scenarios, bootstrap files, TLS on
loopback, the demo agents' LLM calls, the narrator, the dashboard and the CLI keep
no state whose order matters. Spend limits are single locked checks over a window of
times. The agent's TCT cache only counts. Shutdown (`stop_all`), which misses a hosted
agent still launching, ends the process either way. A fault injected into a workflow
step without `target_agent` raises although the engine's comment says injected steps
never do; `Workflow` has it as `FaultRaises` and no property depends on it. The
components with status `not_modelled` in `PROJECT.json` give the reason for each.

## Plan

The modules of the plan are written, and the safety properties of every run are proved.
What is left:

1. `Hosting`: how many ports of runs keep the pools apart, so that `PoolsApart` follows
   from a bound on the runs at once instead of being assumed.
2. `AgentRevocation`, `AgentAdmission`: facts about single handlers that the theorems use
   inside long proofs (what a refresh leaves in the snapshot, what pruning forgets) as
   theorems of their own.
3. `Workflow`: the invariants as properties of one hop, to be reused for chains with
   another discovery than the static one.
