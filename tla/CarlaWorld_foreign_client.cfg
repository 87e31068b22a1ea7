SPECIFICATION CarlaSpec
CONSTANTS
    CarlaMaps = {"m1", "m2"}
    Checks = {"p1"}
    MaxDrives = 1
    MaxMishaps = 0
INVARIANT
    DriverKeepsItsWorld
CHECK_DEADLOCK FALSE
