SPECIFICATION DeliveriesSpec
CONSTANTS
    Producers = {p1, p2}
    Consumers = {k1, k2}
    MaxCommands = 2
    MaxCrashes = 2
    MaxCaptures = 1
    Unsupported = {}
    Threads = {1, 2}
    Pids = {1, 2}
    MaxFrames = 1
    MaxFaults = 1
    None = None
INVARIANTS
    LossIsTornOrOrphaned
PROPERTIES
    ImplementsMailbox
    EnqueuedIsReturned
    RunningCaptureEnds
CHECK_DEADLOCK FALSE
