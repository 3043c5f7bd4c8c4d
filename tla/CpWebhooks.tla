------------------------------ MODULE CpWebhooks ------------------------------
(***************************************************************************)
(* The webhook subscriptions the playground makes at the Control Plane:    *)
(* the cp_subscribe_webhook step and the teardown after the run            *)
(* (runner/engine.py), the sweep of leftovers when the process starts      *)
(* (main.py), the receiver of deliveries (api/webhooks.py) and the client  *)
(* calls they make (cp_client/client.py).                                  *)
(*                                                                         *)
(* A call to the CP is a request the CP acts on at some time, and an       *)
(* answer that comes later or never.  The process may crash; a run does    *)
(* not survive it, its subscription does.  The Control Plane is external:  *)
(* it keeps subscriptions, delivers to them, retries what is not answered  *)
(* 2xx and drops a subscription on 410.                                    *)
(***************************************************************************)
EXTENDS Integers

CONSTANTS
    Runs,           \* run ids
    MaxSubs,        \* bound: subscriptions a run makes
    Attempts,       \* delivery requests being handled at once
    MaxCrashes,     \* bound: crashes of the process
    Foreign,        \* subscriptions at the CP that are not the playground's
    None            \* no subscription

ASSUME BoundAssumption == MaxSubs \in Nat /\ MaxCrashes \in Nat
\* A subscription, as its run and number; its id and its secret stand for each
\* other, and so does the delivery id of the one event it is sent.
Hook == [run : Runs, n : 1..MaxSubs]
ASSUME NoneAssumption == None \notin Hook

VARIABLES
    rstate,         \* a run: new, live, ended, or dead with its process
    known,          \* runs the store has a record of
    record,         \* the record's cp_webhook, by run
    recorded,       \* cp.webhook.delivered events in the log, by delivery
    cancelled,      \* runs that were cancelled
    webhook_ids,    \* runner.webhook_ids
    waiting,        \* the subscription a run's step has asked for
    subs,           \* subscriptions asked for so far, by run
    tearing,        \* where the teardown task of a run is
    sweep, victim,  \* where the sweep is, and what it deletes
    listed,         \* the subscriptions it has still to look at
    attempt,        \* the requests being handled
    posted,         \* CP: requests to create not acted on yet
    hooks,          \* CP: active subscriptions
    undeleted,      \* deletions that failed; None: the list itself did
    preempted,      \* subscriptions the sweep chose before their answer came
    early,          \* history: requests that came before their delivery was in the log
    crashes

storeVars == <<known, record, recorded>>
runVars   == <<rstate, cancelled, waiting, subs, tearing>>
sweepVars == <<webhook_ids, sweep, victim, listed, preempted>>
handlerVars == <<attempt, early>>
cpVars    == <<posted, hooks, undeleted>>
vars == <<storeVars, runVars, sweepVars, handlerVars, cpVars, crashes>>

Off == [pc |-> "off"]

\* What an attempt sees of the log: the record's own list, or, once an upsert
\* has replaced the record, whether the old list held the delivery.
Seen == {"live", "yes", "no"}

TypeOK ==
    /\ rstate \in [Runs -> {"new", "live", "ended", "dead"}]
    /\ known \subseteq Runs /\ cancelled \subseteq Runs
    /\ record \in [Runs -> Hook \cup {None}]
    /\ recorded \in [Hook -> Nat]
    /\ webhook_ids \subseteq Hook /\ posted \subseteq Hook /\ hooks \subseteq Hook \cup Foreign
    /\ waiting \in [Runs -> Hook \cup {None}]
    /\ subs \in [Runs -> 0..MaxSubs]
    /\ tearing \in [Runs -> {"off", "wait", "delete"}]
    /\ sweep \in {"list", "loop", "delete", "done"} /\ victim \in Hook \cup {None}
    /\ listed \subseteq Hook \cup Foreign /\ preempted \subseteq Hook /\ early \subseteq Attempts
    /\ attempt \in [Attempts -> {Off} \cup
                        [pc : {"body"}, hook : Hook, secret : Hook, seen : Seen]]
    /\ undeleted \subseteq Hook \cup {None}
    /\ crashes \in 0..MaxCrashes

\* upsert replaces the record of r by a merged copy: whoever still holds the
\* old one sees the log as it was (_merge_locked).
Upserted(r) ==
    attempt' = [a \in Attempts |->
        IF attempt[a] # Off /\ attempt[a].hook.run = r /\ attempt[a].seen = "live"
        THEN [attempt[a] EXCEPT !.seen =
                 IF recorded[attempt[a].hook] > 0 THEN "yes" ELSE "no"]
        ELSE attempt[a]]

------------------------------------------------------------------------------
(* The run.                                                                *)

create_run(r) ==
    /\ rstate[r] = "new"
    /\ rstate' = [rstate EXCEPT ![r] = "live"]
    /\ known' = known \cup {r}
    /\ UNCHANGED <<record, recorded, cancelled, waiting, subs, tearing, sweepVars,
                   handlerVars, cpVars, crashes>>

\* A cp_subscribe_webhook step posts its request and awaits the answer.
Subscribe(r) ==
    /\ rstate[r] = "live" /\ waiting[r] = None /\ subs[r] < MaxSubs
    /\ LET h == [run |-> r, n |-> subs[r] + 1]
       IN  waiting' = [waiting EXCEPT ![r] = h] /\ posted' = posted \cup {h}
    /\ subs' = [subs EXCEPT ![r] = @ + 1]
    /\ UNCHANGED <<storeVars, rstate, cancelled, tearing, sweepVars, handlerVars, hooks,
                   undeleted, crashes>>

\* The CP acts on the request.
CpCreates(h) ==
    /\ h \in posted
    /\ posted' = posted \ {h} /\ hooks' = hooks \cup {h}
    /\ UNCHANGED <<storeVars, runVars, sweepVars, handlerVars, undeleted, crashes>>

\* The answer: remember the id, then put id and secret on the record; an answer
\* that holds neither leaves a record without them.
Subscribed(r) ==
    /\ waiting[r] # None /\ waiting[r] \notin posted
    /\ \/ /\ webhook_ids' = webhook_ids \cup {waiting[r]}
          /\ record' = [record EXCEPT ![r] = waiting[r]]
       \/ record' = [record EXCEPT ![r] = None] /\ UNCHANGED webhook_ids
    /\ Upserted(r)
    /\ waiting' = [waiting EXCEPT ![r] = None]
    /\ UNCHANGED <<known, recorded, rstate, cancelled, subs, tearing, sweep, victim,
                   listed, preempted, early, cpVars, crashes>>

\* Mutation of SubscribeFailed: it goes on, and remembers the id it did not get.
SubscribeFailedRemembered(r) ==
    /\ waiting[r] # None
    /\ waiting' = [waiting EXCEPT ![r] = None]
    /\ webhook_ids' = webhook_ids \cup {None}
    /\ UNCHANGED <<storeVars, rstate, cancelled, subs, tearing, sweep, victim, listed,
                   preempted, handlerVars, cpVars, crashes>>

\* No answer in time, or a refusal: the step only says so.
SubscribeFailed(r) ==
    /\ waiting[r] # None
    /\ waiting' = [waiting EXCEPT ![r] = None]
    /\ UNCHANGED <<storeVars, rstate, cancelled, subs, tearing, sweepVars, handlerVars, cpVars,
                   crashes>>

\* cancel_run marks the record; the run's task goes on until its next failure.
Cancel(r) ==
    /\ rstate[r] = "live" /\ r \notin cancelled
    /\ cancelled' = cancelled \cup {r}
    /\ Upserted(r)
    /\ UNCHANGED <<storeVars, rstate, waiting, subs, tearing, sweepVars, early, cpVars, crashes>>

\* The run ends, with a last upsert unless it is cancelled, and schedules its
\* teardown.
RunEnds(r) ==
    /\ rstate[r] = "live" /\ waiting[r] = None
    /\ rstate' = [rstate EXCEPT ![r] = "ended"]
    /\ tearing' = [tearing EXCEPT ![r] = "wait"]
    /\ IF r \in cancelled THEN UNCHANGED attempt ELSE Upserted(r)
    /\ UNCHANGED <<storeVars, cancelled, waiting, subs, sweepVars, early, cpVars, crashes>>

\* Mutation of Teardown: nothing is deleted for a run that was cancelled.
TeardownUnlessCancelled(r) ==
    /\ tearing[r] = "wait"
    /\ tearing' = [tearing EXCEPT ![r] =
                      IF record[r] = None \/ r \in cancelled THEN "off" ELSE "delete"]
    /\ UNCHANGED <<storeVars, rstate, cancelled, waiting, subs, sweepVars, handlerVars, cpVars,
                   crashes>>

\* After the ingest and the grace period: delete what the record names.
Teardown(r) ==
    /\ tearing[r] = "wait"
    /\ tearing' = [tearing EXCEPT ![r] = IF record[r] = None THEN "off" ELSE "delete"]
    /\ UNCHANGED <<storeVars, rstate, cancelled, waiting, subs, sweepVars, handlerVars, cpVars,
                   crashes>>

\* delete_webhook(h): done, or degraded to nothing.
Delete(h) ==
    \/ hooks' = hooks \ {h} /\ UNCHANGED undeleted
    \/ undeleted' = undeleted \cup {h} /\ UNCHANGED hooks

TeardownDelete(r) ==
    /\ tearing[r] = "delete"
    /\ Delete(record[r])
    /\ tearing' = [tearing EXCEPT ![r] = "off"]
    /\ UNCHANGED <<storeVars, rstate, cancelled, waiting, subs, sweepVars, handlerVars, posted,
                   crashes>>

------------------------------------------------------------------------------
(* sweep_cp_webhooks                                                       *)

\* list_webhooks: the CP's list, or None when the call failed.
SweepList ==
    /\ sweep = "list"
    /\ \/ sweep' = "loop" /\ listed' = hooks /\ UNCHANGED undeleted
       \/ sweep' = "done" /\ undeleted' = undeleted \cup {None} /\ UNCHANGED listed
    /\ UNCHANGED <<storeVars, runVars, webhook_ids, victim, preempted, handlerVars, posted,
                   hooks, crashes>>

\* Mutation of SweepNext: none of the playground's subscriptions is spared.
SweepNextAll ==
    /\ sweep = "loop"
    /\ \/ listed = {} /\ sweep' = "done" /\ UNCHANGED <<victim, listed, preempted>>
       \/ \E h \in listed \ Foreign :
             /\ listed' = listed \ {h}
             /\ sweep' = "delete" /\ victim' = h
             /\ preempted' = preempted \cup ({h} \ webhook_ids)
    /\ UNCHANGED <<storeVars, runVars, webhook_ids, handlerVars, cpVars, crashes>>

\* Mutation of SweepNext: a run the store knows keeps its subscription.
SweepNextUnknown ==
    /\ sweep = "loop"
    /\ \/ listed = {} /\ sweep' = "done" /\ UNCHANGED <<victim, listed, preempted>>
       \/ \E h \in listed :
             /\ listed' = listed \ {h}
             /\ IF h \in Foreign \/ h.run \in known THEN UNCHANGED <<sweep, victim, preempted>>
                ELSE sweep' = "delete" /\ victim' = h /\ preempted' = preempted \cup {h}
    /\ UNCHANGED <<storeVars, runVars, webhook_ids, handlerVars, cpVars, crashes>>

\* The next of the list: spared when its URL is not the playground's or this
\* process knows its id, else deleted.
SweepNext ==
    /\ sweep = "loop"
    /\ \/ listed = {} /\ sweep' = "done" /\ UNCHANGED <<victim, listed, preempted>>
       \/ \E h \in listed :
             /\ listed' = listed \ {h}
             /\ IF h \in Foreign \cup webhook_ids THEN UNCHANGED <<sweep, victim, preempted>>
                ELSE sweep' = "delete" /\ victim' = h /\ preempted' = preempted \cup {h}
    /\ UNCHANGED <<storeVars, runVars, webhook_ids, handlerVars, cpVars, crashes>>

SweepDelete ==
    /\ sweep = "delete"
    /\ Delete(victim)
    /\ sweep' = "loop" /\ victim' = None
    /\ UNCHANGED <<storeVars, runVars, webhook_ids, listed, preempted, handlerVars, posted,
                   crashes>>

------------------------------------------------------------------------------
(* receive_cp_webhook                                                      *)

\* A delivery of a subscription the CP made arrives, perhaps after its deletion.
\* Unknown run: 410, and the CP drops the subscription.  No secret on file: 401
\* (the CP tries again).  Else wait for the body, with the record and its secret
\* as they are now.
Receive(a, h) ==
    /\ h.n <= subs[h.run] /\ h \notin posted /\ attempt[a] = Off
    /\ \/ /\ h.run \notin known
          /\ hooks' = hooks \ {h} /\ UNCHANGED handlerVars
       \/ /\ h.run \in known /\ record[h.run] # None
          /\ attempt' = [attempt EXCEPT ![a] =
                            [pc |-> "body", hook |-> h, secret |-> record[h.run],
                             seen |-> "live"]]
          /\ early' = early \cup {b \in {a} : recorded[h] = 0}
          /\ UNCHANGED hooks
    /\ UNCHANGED <<storeVars, runVars, sweepVars, posted, undeleted, crashes>>

\* The record the attempt holds has the delivery.
Duplicate(a) ==
    \/ attempt[a].seen = "yes"
    \/ attempt[a].seen = "live" /\ recorded[attempt[a].hook] > 0

\* Mutation of Deliver: the delivery is recorded without looking.
DeliverAlways(a) ==
    /\ attempt[a] # Off
    /\ attempt' = [attempt EXCEPT ![a] = Off] /\ early' = early \ {a}
    /\ LET h == attempt[a].hook
       IN  \/ /\ attempt[a].secret = h
              /\ recorded' = [recorded EXCEPT ![h] = @ + 1]
           \/ UNCHANGED recorded
    /\ UNCHANGED <<known, record, runVars, sweepVars, cpVars, crashes>>

\* The body is there: refused when it is not signed with the secret on file or
\* its timestamp is stale (401); acknowledged when the record has it; recorded
\* otherwise.
Deliver(a) ==
    /\ attempt[a] # Off
    /\ attempt' = [attempt EXCEPT ![a] = Off] /\ early' = early \ {a}
    /\ LET h == attempt[a].hook
       IN  \/ /\ attempt[a].secret = h /\ ~Duplicate(a)
              /\ recorded' = [recorded EXCEPT ![h] = @ + 1]
           \/ UNCHANGED recorded
    /\ UNCHANGED <<known, record, runVars, sweepVars, cpVars, crashes>>

------------------------------------------------------------------------------
\* The process dies; the next one hydrates its store, or has none (RUN_HISTORY_DB
\* is empty), knows no subscription and sweeps.  Requests on their way still reach the CP.
Crash ==
    /\ crashes < MaxCrashes /\ crashes' = crashes + 1
    /\ rstate' = [r \in Runs |-> IF rstate[r] = "new" THEN "new" ELSE "dead"]
    /\ \/ UNCHANGED storeVars
       \/ /\ known' = {} /\ record' = [r \in Runs |-> None]
          /\ recorded' = [h \in Hook |-> 0]
    /\ webhook_ids' = {} /\ preempted' = {}
    /\ waiting' = [r \in Runs |-> None]
    /\ tearing' = [r \in Runs |-> "off"]
    /\ sweep' = "list" /\ victim' = None /\ listed' = {}
    /\ attempt' = [a \in Attempts |-> Off] /\ early' = {}
    /\ undeleted' = {}
    /\ UNCHANGED <<cancelled, subs, posted, hooks>>

Init ==
    /\ rstate = [r \in Runs |-> "new"]
    /\ known = {} /\ cancelled = {}
    /\ record = [r \in Runs |-> None]
    /\ recorded = [h \in Hook |-> 0]
    /\ webhook_ids = {} /\ preempted = {}
    /\ waiting = [r \in Runs |-> None]
    /\ subs = [r \in Runs |-> 0]
    /\ tearing = [r \in Runs |-> "off"]
    /\ sweep = "list" /\ victim = None /\ listed = {}
    /\ attempt = [a \in Attempts |-> Off] /\ early = {}
    /\ posted = {} /\ hooks = Foreign /\ undeleted = {}
    /\ crashes = 0

RunStep(r) ==
    \/ create_run(r) \/ Subscribe(r) \/ Subscribed(r) \/ SubscribeFailed(r)
    \/ Cancel(r) \/ RunEnds(r) \/ Teardown(r) \/ TeardownDelete(r)

SweepStep == SweepList \/ SweepNext \/ SweepDelete

Next ==
    \/ \E r \in Runs : RunStep(r)
    \/ SweepStep
    \/ \E h \in Hook : CpCreates(h)
    \/ \E a \in Attempts : (\E h \in Hook : Receive(a, h)) \/ Deliver(a)
    \/ Crash

Spec == Init /\ [][Next]_vars

\* The sweep and the teardown tasks are scheduled and their calls time out.
\* Nothing is assumed of the CP, of runs or of deliveries.
Fairness ==
    /\ WF_vars(SweepStep)
    /\ \A r \in Runs : WF_vars(Teardown(r) \/ TeardownDelete(r))

FairSpec == Spec /\ Fairness

------------------------------------------------------------------------------
(* Properties.                                                             *)

\* While a run is live, the CP keeps the subscription its record names,
\* whatever the sweep of an earlier process's leftovers does meanwhile; unless
\* the sweep came to it while the answer that carries its id was on its way
\* (sweep_cp_webhooks, webhook_ids).
LiveRunKeepsItsHook ==
    \A r \in Runs : rstate[r] = "live" /\ record[r] # None =>
        record[r] \in hooks \cup preempted

\* A repeat that arrives when its delivery is in the log is acknowledged and not
\* recorded again, whatever upserts replace the record while it waits for its body
\* and however the attempts overlap (receive_cp_webhook, _merge_locked).
RepeatsAcknowledged ==
    [][\A a \in Attempts \ early :
          attempt[a] # Off /\ attempt'[a] = Off =>
              recorded'[attempt[a].hook] <= recorded[attempt[a].hook]]_vars

\* "a repeated `deliveryId` is not recorded twice" (receive_cp_webhook).
RecordedOnce == \A h \in Hook : recorded[h] <= 1

\* What a dead process left at the CP when the next one starts goes away, whatever
\* the store remembers of its run, unless a call of the sweep fails
\* (sweep_cp_webhooks).
OrphansGo ==
    \A h \in Hook :
        (h \in hooks /\ rstate[h.run] = "dead" /\ sweep = "list")
            ~> (h \notin hooks \/ undeleted \cap {h, None} # {})

\* The subscription a run's record names does not outlive the run, however the
\* run ended, unless the process died or the deletion failed (_teardown_webhook).
EndedRunsLetGo ==
    \A r \in Runs : \A h \in Hook :
        (rstate[r] = "ended" /\ record[r] = h)
            ~> (h \notin hooks \/ h \in undeleted \/ rstate[r] = "dead")

==============================================================================
