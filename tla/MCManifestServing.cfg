\* Two requests at a time, two rotations, three half-lives.
SPECIFICATION Spec
CONSTANTS
    None = None
    Threads = {t1, t2}
    HalfLife = 2
    Cooldown = 1
    SignSecs = 1
    MaxClock = 6
    MaxKeys = 3
INVARIANTS
    KeyAndManifestAgree
    FloorKept
CHECK_DEADLOCK FALSE
