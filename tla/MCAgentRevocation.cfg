\* A fail_closed agent: one token, the poll and one admin request side by side,
\* one rotation, time up to and past every bound.  A soft_fail agent: two tokens,
\* so that one can be minted from another and one revocation replace another,
\* without time.  Progress under fairness for both.
SPECIFICATION MCSpec
CONSTANTS
    Jti = {j1, j2}
    Derived = {j2}
    MaxStaleness = 1
    NoSnapshot = NoSnapshot
    ListTtl = 3
    NoList = NoList
    Poller = poller
    Admins = {admin}
    PollSecs = 0
    PullTimeout = 1
    Configs <- Modes
    MaxClock = 4
    MaxRotations = 1
    MaxServes = 1
INVARIANTS
    IndInv
    RevocationBound
    ServedListBound
PROPERTIES
    SnapshotNeverOlder
    RevocationReachesVerifier
