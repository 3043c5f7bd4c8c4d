\* One run that may subscribe twice, beside a subscription that is not the
\* playground's, two deliveries being handled at once, one crash; with and without
\* a durable store.  The sweep of either process meets the run's subscriptions.
SPECIFICATION FairSpec
CONSTANTS
    Runs = {r1}
    MaxSubs = 2
    Attempts = {a1, a2}
    MaxCrashes = 1
    Foreign = {f1}
    None = None
CHECK_DEADLOCK FALSE
INVARIANTS
    TypeOK
    LiveRunKeepsItsHook
PROPERTIES
    RepeatsAcknowledged
    OrphansGo
    EndedRunsLetGo
