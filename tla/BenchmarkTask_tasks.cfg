SPECIFICATION Spec
CONSTANTS
    t1 = t1
    t2 = t2
    None = None
    Threads = {t1, t2}
    MaxRuns = 2
    MaxTasks = 2
    MaxRestarts = 1
    MaxRequests = 3
    Catalog <- MCCatalog
    Presets <- MCPresets
    Profiles <- MCProfiles
    Requests <- MCRequests
SYMMETRY Symmetry
INVARIANTS
    AnswerWasTrue
    StopReachesAllRuns
    RerunRepeats
PROPERTIES
    FollowsTaskLifecycle
CHECK_DEADLOCK FALSE
