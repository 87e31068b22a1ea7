SPECIFICATION WorkerSpec
CONSTANTS
    rReplay = rReplay
    rManual = rManual
    rPlain = rPlain
    Runs = {rReplay, rManual, rPlain}
    ReplayRuns = {rReplay}
    ManualRuns = {rManual}
    GatewayRuns = {rReplay, rManual}
    StartConfigured = {"host_carla", "pi_pipeline", "jetson_pipeline"}
    StopConfigured = {"host_carla", "pi_pipeline", "jetson_pipeline"}
    Nobody = Nobody
    Operator = Operator
    CarlaMaps = {"m1", "m2"}
    Checks = {"p1"}
    MaxDrives = 2
    MaxMishaps = 1
    Clients = {"c1", "c2"}
    Fields = {"fog_density"}
    Scenarios <- MCScenarios
    Ego = "ego"
    Far = 6
    NumSensors = 3
    MaxPreviews = 1
    MaxMetrics = 2
    MaxAttempts = 2
    MaxFailures = 2
INVARIANTS
    CompleteStartIsStopped
    DrivenWorldIsItsOwn
    WorldIsGivenBack
    PreviewedRunKeepsItsWorld
    RecorderStatusIsTrue
    AcknowledgedIsKept
    EventsFireWhenDue
    ReplayShowsItsWindow
    StoppedRecorderLeavesNothing
    FinalResultStands
PROPERTIES
    StopsOnlyWhatItStarted
    UpdateReachesWorld
    TimedScenarioEnds
    StopIsHeard
CHECK_DEADLOCK FALSE
