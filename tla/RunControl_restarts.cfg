SPECIFICATION FairSpec
CONSTANTS
    r1 = r1
    r2 = r2
    t1 = t1
    w1 = w1
    w2 = w2
    None = None
    Runs = {r1, r2}
    LegacyRuns = {r2}
    Threads = {t1}
    Workers = {w1, w2}
    MaxOverlaps = 0
    MaxKills = 1
    MaxApiRestarts = 0
INVARIANTS
    NoStrandedRun
    DrivenRunIsActive
    FinishedRunHasMetrics
PROPERTIES
    FollowsLifecycle
    StopIsHonoured
    QueuedRunLeavesQueue
