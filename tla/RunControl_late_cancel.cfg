SPECIFICATION Spec
CONSTANTS
    r1 = r1
    t1 = t1
    w1 = w1
    None = None
    Runs = {r1}
    LegacyRuns = {}
    Threads = {t1}
    Workers = {w1}
    MaxOverlaps = 0
    MaxKills = 0
    MaxApiRestarts = 0
INVARIANTS
    CancelIsNoFailure
