\* A failure racing one cancel request.
SPECIFICATION Spec
CONSTANTS
    NumAgents = 1
    Cancellers = {c1}
    Engine = engine
    None = None
CHECK_DEADLOCK FALSE
PROPERTY
    CancelledStaysCancelled
