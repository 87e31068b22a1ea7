SPECIFICATION Spec
CONSTANTS
    r1 = r1
    r2 = r2
    r3 = r3
    t1 = t1
    t2 = t2
    w1 = w1
    w2 = w2
    None = None
    Runs = {r1, r2, r3}
    LegacyRuns = {r2, r3}
    Threads = {t1, t2}
    Workers = {w1, w2}
    MaxOverlaps = 1
    MaxKills = 0
    MaxApiRestarts = 1
SYMMETRY Symmetry
CONSTRAINT RacesBound
INVARIANTS
    ExecutedAtMostOnce
    StartsAreBounded
