--------------------------- MODULE AgentRevocation ---------------------------
(***************************************************************************)
(* Revocation inside one agent process: agents/base/aitp_server.py with    *)
(* revocation_refresh.py, over the operators of RevocationState and        *)
(* IssuerRevocationList.                                                   *)
(*                                                                         *)
(* The server is one asyncio loop.  A handler runs without interruption    *)
(* from one `await' to the next, so each action below is the code between  *)
(* two suspension points:                                                  *)
(*                                                                         *)
(*     start ----> pull ----> answered ----> [emit] ----> (apply) idle     *)
(*                   |                          ^                          *)
(*                   +--- refused --------------+                          *)
(*                                                                         *)
(* `pull' is the wait for the control plane (CP), `answered' the answer on *)
(* its way back, `emit' the wait for the telemetry post that the code only *)
(* makes in some cases; a post after the last change of state is left out. *)
(* The poll loop and any number of admin requests run such tasks side by   *)
(* side; nothing in the code serialises them.                              *)
(*                                                                         *)
(* The CP is external: a set of revoked tokens, asked per issuer, that may *)
(* fail to answer.  revokedAt is a history variable: when the CP recorded  *)
(* the revocation.                                                         *)
(***************************************************************************)
EXTENDS IssuerRevocationList, FiniteSets

CONSTANTS
    Poller,         \* the background poll, which first runs the start-up refresh
    Admins,         \* concurrent admin requests
    PollSecs,       \* revocation_poll_secs
    PullTimeout,    \* how long a pull may be in flight (httpx timeout)
    Configs,        \* configurations: is a CP configured, and the fail mode
    MaxClock,       \* bound: the clock stops here
    MaxRotations,   \* bound: key rotations
    MaxServes       \* bound: calls served while degraded

Task == {Poller} \cup Admins

ASSUME TaskAssumption == Poller \notin Admins
ASSUME TimingAssumption == PollSecs \in Nat /\ PullTimeout \in Nat
ASSUME ConfigAssumption ==
    Configs \subseteq [cp : BOOLEAN, fail_mode : {"fail_closed", "soft_fail"}]
ASSUME BoundAssumption ==
    MaxClock \in Nat /\ MaxRotations \in Nat /\ MaxServes \in Nat

VARIABLES
    config,         \* this process's configuration, fixed at start-up
    clock,          \* time.time()
    ready,          \* AITP_AGENT_READY has been printed
    aid,            \* self.agent.aid
    local,          \* RevocationState.local
    snapshot,       \* RevocationState.snapshot
    current,        \* IssuerRevocationList.current
    task,           \* where each refresh, publish or rotation is
    degradedServes, \* _degraded_serves
    issuer,         \* the AID each token was minted under; 0: not minted yet
    cpEntries,      \* CP (external): the tokens it holds as revoked
    revokedAt       \* history: when the CP recorded each of them

agentVars == <<ready, aid, local, snapshot, current, task, degradedServes>>
cpVars    == <<cpEntries, revokedAt>>
vars      == <<config, clock, agentVars, issuer, cpVars>>

TaskState == [phase : {"idle", "pull", "answered", "emit"},
              stage : {"publish", "refresh"}, quiet : BOOLEAN,
              aid : Aid, start : Nat, entries : SUBSET Jti]

TypeOK ==
    /\ config \in Configs
    /\ clock \in Nat
    /\ ready \in BOOLEAN
    /\ aid \in Aid
    /\ local \in SUBSET Jti
    /\ snapshot \in Snapshot \cup {NoSnapshot}
    /\ current \in SignedList \cup {NoList}
    /\ task \in [Task -> TaskState]
    /\ degradedServes \in Nat
    /\ issuer \in [Jti -> Nat]
    /\ cpEntries \in SUBSET Jti
    /\ revokedAt \in [Jti -> Nat]

------------------------------------------------------------------------------
(* Refresh tasks.                                                          *)

\* A task that has just reached `await self._pull(aid)'.
Pulling(stage, quiet, forAid) ==
    [phase |-> "pull", stage |-> stage, quiet |-> quiet,
     aid |-> forAid, start |-> clock, entries |-> {}]

\* A task waiting for a telemetry post, and a finished one.  The fields no
\* later step reads are reset; for the poll, `start' of an idle task is when
\* its sleep began.
Emitting(t) == [phase |-> "emit", stage |-> task[t].stage,
                quiet |-> task[t].quiet, aid |-> 1, start |-> 0, entries |-> {}]

Idle(t) == [phase |-> "idle", stage |-> "refresh", quiet |-> TRUE, aid |-> 1,
            start |-> IF t = Poller THEN clock ELSE 0, entries |-> {}]

InFlight(t) == task[t].phase \in {"pull", "answered"}

\* What refresh_revocations does once issued.refresh has returned: put the
\* list now in force into the deny-set, if there is one and it verifies.
Ingest(list, verified) ==
    LET inForce == InForce(list, aid, clock)
    IN  snapshot' = IF inForce = NoList \/ ~verified
                    THEN snapshot
                    ELSE [entries      |-> inForce.entries,
                          published_at |-> inForce.published_at,
                          expires_at   |-> inForce.expires_at]

\* issued.refresh has returned to its caller.  rotate_keys calls it once for
\* the list alone and then runs a whole refresh; every other caller is
\* refresh_revocations, which goes on to ingest.
Returned(t, list, verified) ==
    \/ /\ task[t].stage = "publish"
       /\ task' = [task EXCEPT ![t] = Pulling("refresh", @.quiet, aid)]
       /\ UNCHANGED <<ready, snapshot>>
    \/ /\ task[t].stage = "refresh"
       /\ Ingest(list, verified)
       /\ task' = [task EXCEPT ![t] = Idle(t)]
       /\ ready' = TRUE

AwaitEmit(t) ==
    /\ task' = [task EXCEPT ![t] = Emitting(t)]
    /\ UNCHANGED <<ready, snapshot>>

\* The poll wakes up.
Poll ==
    /\ ready /\ config.cp
    /\ task[Poller].phase = "idle"
    /\ clock >= task[Poller].start + PollSecs
    /\ task' = [task EXCEPT ![Poller] = Pulling("refresh", TRUE, aid)]
    /\ UNCHANGED <<config, clock, ready, aid, local, snapshot, current,
                   degradedServes, issuer, cpVars>>

\* POST /admin/refresh-revocations or /admin/publish-revocations.  Without a
\* CP both return at once ("no cp configured").
AdminRefresh(t, quiet) ==
    /\ ready /\ config.cp
    /\ task[t].phase = "idle"
    /\ task' = [task EXCEPT ![t] = Pulling("refresh", quiet, aid)]
    /\ UNCHANGED <<config, clock, ready, aid, local, snapshot, current,
                   degradedServes, issuer, cpVars>>

\* POST /admin/rotate-keys: a new key, then a publish and a refresh under it.
\* The list held is not dropped: it now names another issuer.
RotateKeys(t) ==
    /\ ready
    /\ task[t].phase = "idle"
    /\ aid <= MaxRotations
    /\ aid' = aid + 1
    /\ IF config.cp
       THEN /\ task' = [task EXCEPT ![t] = Pulling("publish", TRUE, aid + 1)]
            /\ UNCHANGED current
       ELSE /\ current' = serveable(current, aid + 1, clock, FALSE)
            /\ UNCHANGED task
    /\ UNCHANGED <<config, clock, ready, local, snapshot, degradedServes,
                   issuer, cpVars>>

\* The CP (external) answers with the entries it holds for the AID asked.
CpAnswer(t) ==
    /\ task[t].phase = "pull"
    /\ task' = [task EXCEPT
            ![t].phase   = "answered",
            ![t].entries = {j \in cpEntries : issuer[j] = task[t].aid}]
    /\ UNCHANGED <<config, clock, ready, aid, local, snapshot, current,
                   degradedServes, issuer, cpVars>>

\* The entry count of the list held, as the quiet refresh compares it; the
\* event goes out when the number of entries differs, not their identity.
CountChanges(entries) ==
    \/ current = NoList
    \/ Cardinality(entries) # Cardinality(current.entries)

\* Mutation of SignAnswer: the list is stamped with the time of the request.
SignAnswerBackdated(t, verified) ==
    /\ task[t].phase = "answered"
    /\ current' = Sign(task[t].entries, aid, task[t].start)
    /\ IF ~task[t].quiet \/ CountChanges(task[t].entries)
       THEN AwaitEmit(t)
       ELSE Returned(t, current', verified)
    /\ UNCHANGED <<config, clock, aid, local, degradedServes, issuer, cpVars>>

\* Mutation of SignAnswer: an answer of the same length counts as no news.
SignAnswerOnlyIfLonger(t, verified) ==
    /\ task[t].phase = "answered"
    /\ IF CountChanges(task[t].entries)
       THEN current' = Sign(task[t].entries, aid, clock)
       ELSE UNCHANGED current
    /\ IF ~task[t].quiet \/ CountChanges(task[t].entries)
       THEN AwaitEmit(t)
       ELSE Returned(t, current', verified)
    /\ UNCHANGED <<config, clock, aid, local, degradedServes, issuer, cpVars>>

\* The answer arrives: sign it with the key of now, hold the list, announce
\* it (unless quiet and of the same length), and return to the caller.
SignAnswer(t, verified) ==
    /\ task[t].phase = "answered"
    /\ current' = Sign(task[t].entries, aid, clock)
    /\ IF ~task[t].quiet \/ CountChanges(task[t].entries)
       THEN AwaitEmit(t)
       ELSE Returned(t, current', verified)
    /\ UNCHANGED <<config, clock, aid, local, degradedServes, issuer, cpVars>>

\* Mutation of PullRefused: the list held is signed again, to keep it alive.
PullRefusedResigns(t, verified) ==
    /\ task[t].phase = "pull"
    /\ current' = IF current = NoList THEN current
                  ELSE Sign(current.entries, aid, clock)
    /\ IF ~task[t].quiet THEN AwaitEmit(t) ELSE Returned(t, current', verified)
    /\ UNCHANGED <<config, clock, aid, local, degradedServes, issuer, cpVars>>

\* Mutation of PullRefused: no answer is taken for "nothing revoked".
PullRefusedEmpties(t, verified) ==
    /\ task[t].phase = "pull"
    /\ current' = Sign({}, aid, clock)
    /\ IF ~task[t].quiet THEN AwaitEmit(t) ELSE Returned(t, current', verified)
    /\ UNCHANGED <<config, clock, aid, local, degradedServes, issuer, cpVars>>

\* The pull is refused: CP unreachable, an error answer, another issuer's
\* entries, or an entry that is not a UUID.  The list held is left as it is.
PullRefused(t, verified) ==
    /\ task[t].phase = "pull"
    /\ IF ~task[t].quiet
       THEN AwaitEmit(t)
       ELSE Returned(t, current, verified)
    /\ UNCHANGED <<config, clock, aid, local, current, degradedServes,
                   issuer, cpVars>>

\* The telemetry post is over; what is ingested is the list held by now.
EmitDone(t, verified) ==
    /\ task[t].phase = "emit"
    /\ Returned(t, current, verified)
    /\ UNCHANGED <<config, clock, aid, local, current, degradedServes,
                   issuer, cpVars>>

\* GET /.well-known/aitp-revocation-list: only without a CP does serving
\* change anything, by signing the empty list on demand.
ServeList ==
    /\ ready /\ ~config.cp
    /\ current' = serveable(current, aid, clock, FALSE)
    /\ UNCHANGED <<config, clock, ready, aid, local, snapshot, task,
                   degradedServes, issuer, cpVars>>

------------------------------------------------------------------------------
(* Enforcement.                                                            *)

Denied(j) == is_revoked(j, local, snapshot)

Posture == posture(config.cp, snapshot, clock)

\* _enforce_revocation_freshness lets the request through.
FreshEnough == Posture # "degraded" \/ config.fail_mode = "soft_fail"

CountDegradedServe ==
    degradedServes' = degradedServes + (IF Posture = "degraded" THEN 1 ELSE 0)

\* The revocation part of verify_capability_tct, in its order: deny-set,
\* freshness, issuer.  Proof of possession comes after it.
Honours(j) == ~Denied(j) /\ FreshEnough /\ issuer[j] = aid

\* A capability call that passes the deny-set and the freshness rule.  It is
\* counted here, before the issuer and the proof of possession are looked at.
Call(j) ==
    /\ ready /\ ~Denied(j) /\ FreshEnough
    /\ degradedServes < MaxServes
    /\ CountDegradedServe
    /\ UNCHANGED <<config, clock, ready, aid, local, snapshot, current, task,
                   issuer, cpVars>>

Mint(j, signer) ==
    /\ issuer[j] = 0
    /\ issuer' = [issuer EXCEPT ![j] = signer]

\* A handshake we answer mints a token under the key of now: a rotation drops
\* the sessions in progress.
IssueTct(j) ==
    /\ ready
    /\ Mint(j, aid)
    /\ UNCHANGED <<config, clock, agentVars, cpVars>>

\* A handshake we start, through the admin router.  The router holds the agent
\* object it was built with, so the token is of the first AID whatever
\* rotations came since.
InitiateHandshake(j) ==
    /\ ready
    /\ Mint(j, 1)
    /\ UNCHANGED <<config, clock, agentVars, cpVars>>

\* POST /aitp/delegation/redeem of a delegation built from token src: the
\* freshness rule, which counts, then the deny-set and the issuer, then a new
\* token for the delegatee.
RedeemDelegation(src, new) ==
    /\ ready /\ FreshEnough
    /\ degradedServes < MaxServes
    /\ CountDegradedServe
    /\ \/ Honours(src) /\ Mint(new, aid)
       \/ ~Honours(src) /\ UNCHANGED issuer
    /\ UNCHANGED <<config, clock, ready, aid, local, snapshot, current, task,
                   cpVars>>

\* POST /admin/process-renewal, on the same router: the deny-set, and no
\* freshness rule.
ProcessRenewal(src, new) ==
    /\ ready
    /\ ~Denied(src) /\ issuer[src] = 1
    /\ Mint(new, 1)
    /\ UNCHANGED <<config, clock, agentVars, cpVars>>

\* POST /admin/revoke-tct.
RevokeLocal(j) ==
    /\ ready
    /\ local' = local \cup {j}
    /\ UNCHANGED <<config, clock, ready, aid, snapshot, current, task,
                   degradedServes, issuer, cpVars>>

------------------------------------------------------------------------------
(* The control plane (external) and time.                                  *)

CpRevoke(j) ==
    /\ issuer[j] # 0 /\ j \notin cpEntries
    /\ cpEntries' = cpEntries \cup {j}
    /\ revokedAt' = [revokedAt EXCEPT ![j] = clock]
    /\ UNCHANGED <<config, clock, agentVars, issuer>>

CpUnrevoke(j) ==
    /\ j \in cpEntries
    /\ cpEntries' = cpEntries \ {j}
    /\ revokedAt' = [revokedAt EXCEPT ![j] = 0]
    /\ UNCHANGED <<config, clock, agentVars, issuer>>

\* Time passes, but no pull outlives its timeout.
Tick ==
    /\ clock < MaxClock
    /\ \A t \in Task : InFlight(t) => clock < task[t].start + PullTimeout
    /\ clock' = clock + 1
    /\ UNCHANGED <<config, agentVars, issuer, cpVars>>

------------------------------------------------------------------------------
\* ready_lifespan: with a CP, the start-up refresh (not quiet) is already
\* running; without one it returns at once and the agent is ready.
Init ==
    /\ config \in Configs
    /\ clock = 0
    /\ ready = ~config.cp
    /\ aid = 1
    /\ local = {}
    /\ snapshot = NoSnapshot
    /\ current = NoList
    /\ task = [t \in Task |-> IF t = Poller /\ config.cp
                              THEN Pulling("refresh", FALSE, 1) ELSE Idle(t)]
    /\ degradedServes = 0
    /\ issuer = [j \in Jti |-> 0]
    /\ cpEntries = {}
    /\ revokedAt = [j \in Jti |-> 0]

RefreshStep(t) ==
    \/ CpAnswer(t)
    \/ \E verified \in BOOLEAN :
          \/ SignAnswer(t, verified)
          \/ PullRefused(t, verified)
          \/ EmitDone(t, verified)

Next ==
    \/ Poll
    \/ \E t \in Admins : RotateKeys(t) \/ \E q \in BOOLEAN : AdminRefresh(t, q)
    \/ \E t \in Task : RefreshStep(t)
    \/ ServeList
    \/ \E j \in Jti : Call(j) \/ IssueTct(j) \/ InitiateHandshake(j)
                         \/ RevokeLocal(j) \/ CpRevoke(j) \/ CpUnrevoke(j)
    \/ \E src, new \in Jti : RedeemDelegation(src, new)
                                \/ ProcessRenewal(src, new)
    \/ Tick

Spec == Init /\ [][Next]_vars

\* The loop runs what is runnable (weak fairness of the poll); the CP does
\* not refuse every pull for ever, and the agent's own signature does not
\* fail to verify for ever (strong fairness: in between, both may).
Fairness ==
    /\ WF_vars(Poll)
    /\ SF_vars(CpAnswer(Poller))
    /\ SF_vars(SignAnswer(Poller, TRUE))
    /\ SF_vars(EmitDone(Poller, TRUE))

FairSpec == Spec /\ Fairness

------------------------------------------------------------------------------
(* Properties.                                                             *)

\* The revocation bound of a fail_closed agent: a token the CP revoked is
\* honoured, by a capability call or a redemption, for at most the staleness
\* budget plus the time one pull may take, whatever the CP's outages, the
\* order in which concurrent refreshes finish and the key rotations between
\* (verify_capability_tct, redeem_delegation, refresh_revocations).
RevocationBound ==
    \A j \in Jti :
        /\ config.cp /\ config.fail_mode = "fail_closed"
        /\ j \in cpEntries
        /\ Honours(j)
        => clock <= revokedAt[j] + MaxStaleness + PullTimeout

\* The same bound for a peer that fetches the list instead: a list served
\* now omits a revoked token of its issuer only if the revocation is no
\* older than the list's lifetime plus one pull (serveable, refresh).
ServedListBound ==
    \A j \in Jti :
        /\ config.cp
        /\ InForce(current, aid, clock) # NoList
        /\ j \in cpEntries /\ issuer[j] = aid
        /\ j \notin InForce(current, aid, clock).entries
        => clock < revokedAt[j] + ListTtl + PullTimeout

\* Every token of the current key that the CP revoked before `since' is in
\* `entries'.
Complete(entries, since) ==
    \A j \in Jti : j \in cpEntries /\ issuer[j] = aid /\ revokedAt[j] < since
                        => j \in entries

TokensOK ==
    /\ \A j \in Jti : issuer[j] <= aid
    /\ \A j \in cpEntries : issuer[j] # 0

\* An answer knows every revocation older than its request.  A request under
\* a key since rotated away knows none of the new key's, but those are all
\* younger than the request.
TasksOK ==
    \A t \in Task :
        /\ task[t].phase # "idle" => config.cp
        /\ InFlight(t) => task[t].start <= clock /\ clock <= task[t].start + PullTimeout
        /\ task[t].phase = "answered" => Complete(task[t].entries, task[t].start)
        /\ task[t].phase = "pull" /\ task[t].aid # aid => Complete({}, task[t].start)

ListOK ==
    current # NoList =>
        /\ current.published_at <= clock
        /\ current.expires_at = current.published_at + ListTtl
        /\ config.cp /\ current.signer = aid =>
              Complete(current.entries, current.published_at - PullTimeout)

SnapshotOK ==
    snapshot # NoSnapshot =>
        /\ config.cp
        /\ current # NoList /\ snapshot.published_at <= current.published_at
        /\ Complete(snapshot.entries, snapshot.published_at - PullTimeout)

\* The inductive invariant behind the two bounds and SnapshotNeverOlder: what
\* a pull in flight, the list held and the snapshot in force each know of the
\* CP's record, measured in the time they claim (refresh, refresh_revocations).
IndInv == TypeOK /\ TokensOK /\ TasksOK /\ ListOK /\ SnapshotOK

\* However refreshes overlap, the deny-set in force is never replaced by one
\* signed earlier (refresh_revocations re-reads the list after every await).
SnapshotNeverOlder ==
    [][snapshot # NoSnapshot => /\ snapshot' # NoSnapshot
                                /\ snapshot'.published_at >= snapshot.published_at]_vars

\* A revocation recorded at the CP reaches the deny-set of the agent that
\* issued the token, although pulls fail and admin refreshes overlap the poll,
\* unless it is withdrawn or the issuing key goes first (_revocation_poll_loop).
RevocationReachesVerifier ==
    \A j \in Jti :
        (config.cp /\ j \in cpEntries /\ issuer[j] = aid)
            ~> (Denied(j) \/ j \notin cpEntries \/ issuer[j] # aid)

==============================================================================
