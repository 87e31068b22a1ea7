SPECIFICATION Spec
CONSTANTS
    rReplay = rReplay
    rManual = rManual
    rPlain = rPlain
    Runs = {rReplay, rManual, rPlain}
    ReplayRuns = {rReplay}
    ManualRuns = {rManual}
    GatewayRuns = {rReplay, rManual}
    StartConfigured = {"host_carla", "host_display", "pi_pipeline", "jetson_pipeline"}
    StopConfigured = {"host_carla", "host_display", "pi_pipeline", "jetson_pipeline"}
    Nobody = Nobody
    Operator = Operator
INVARIANTS
    NothingLeftRunning
CHECK_DEADLOCK FALSE
