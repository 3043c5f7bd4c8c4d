CONSTANTS
    Handshake = {h1, h2}
    Call = {c1, c2}
    Nonce = {n1, n2}
    None = None
    Tolerance = 1
    MaxSeen = 2
    Ttl = 1
    MaxOutstanding = 1
    Damaged <- AnotherTime
    Skew <- AgreeOrAhead
    MaxTime = 3
    MaxAid = 2
SYMMETRY Symmetry
SPECIFICATION Spec
INVARIANT AdmissionInv
PROPERTIES EnvelopeOnce ChallengeOnce NoStaleIssuer AdmittedCallsAreSound
CHECK_DEADLOCK FALSE
