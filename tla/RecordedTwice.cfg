\* One subscription, and two requests that carry its delivery.
SPECIFICATION Spec
CONSTANTS
    Runs = {r1}
    MaxSubs = 1
    Attempts = {a1, a2}
    MaxCrashes = 0
    Foreign = {}
    None = None
CHECK_DEADLOCK FALSE
INVARIANT
    RecordedOnce
