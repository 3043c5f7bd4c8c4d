\* Two agents and two concurrent cancel requests; safety, and progress under
\* fairness.
SPECIFICATION FairSpec
CONSTANTS
    NumAgents = 2
    Cancellers = {c1, c2}
    Engine = engine
    None = None
CHECK_DEADLOCK FALSE
INVARIANTS
    TypeOK
    EngineLeavesNothing
    OneStraggler
    EveryRunIsAccounted
PROPERTIES
    NoResurrection
    EveryRunEnds
    EveryProcessStops
