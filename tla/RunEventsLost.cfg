\* A cancel request beside the run's own events, no stream, no crash.
SPECIFICATION Spec
CONSTANTS
    Loop = loop
    Cancellers = {c1}
    Streams = {}
    MaxQueue = 1
    MaxEvents = 2
    MaxCrashes = 0
CHECK_DEADLOCK FALSE
INVARIANT
    AppendedIsDurable
