SPECIFICATION Spec
CONSTANTS
    t1 = t1
    t2 = t2
    p1 = p1
    p2 = p2
    None = None
    MaxCaptures = 2
    Unsupported = {2}
    Threads = {t1, t2}
    Pids = {p1, p2}
    MaxFrames = 1
    MaxFaults = 1
SYMMETRY Symmetry
INVARIANTS
    OnlyKillsOrphan
    CompletedHasAllFrames
    
CHECK_DEADLOCK FALSE
