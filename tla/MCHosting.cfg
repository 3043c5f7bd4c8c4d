SPECIFICATION Spec
CONSTANTS
    None = None
    Runs = {r1, r2}
    Hosts = {h1, h2}
    Start <- MCStart
    Offsets = {0, 1}
    Pins = {1}
    MaxKills = 1
SYMMETRY Symmetry
INVARIANTS
    TypeOK
    NoSharedPort
    PortIsGivenUpAtLaunch
    TokensKept
PROPERTY
    MisdirectedOnlyIfGone
CHECK_DEADLOCK FALSE
