SPECIFICATION Spec
CONSTANTS
    r1 = r1
    r2 = r2
    t1 = t1
    t2 = t2
    w1 = w1
    None = None
    Runs = {r1, r2}
    LegacyRuns = {}
    Threads = {t1, t2}
    Workers = {w1}
    MaxOverlaps = 0
    MaxKills = 0
    MaxApiRestarts = 0
INVARIANTS
    OneActiveRun
