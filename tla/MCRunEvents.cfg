\* One cancel request, one stream with a queue of one, up to three events of the
\* loop before its terminal one, two crashes.
SPECIFICATION FairSpec
CONSTANTS
    Loop = loop
    Cancellers = {c1}
    Streams = {s1}
    MaxQueue = 1
    MaxEvents = 3
    MaxCrashes = 2
CHECK_DEADLOCK FALSE
INVARIANTS
    TypeOK
    ExactlyOnce
    OwnOrder
    MirrorExact
PROPERTIES
    StreamsEnd
