SPECIFICATION StoresSpec
CONSTANTS
    AssetThreads = {"t1", "t2"}
    SourceRuns = {"r1"}
    ReplayRunIds = {"s1"}
    Calls = {"c1", "c2"}
    StaleAfter = 1
    MaxTroubles = 3
    LibraryThreads = {"t1", "t2"}
    LegacyProfiles = {"y1", "y2"}
    NewProfiles = {"n1"}
    MaxSaves = 2
    Writers = {"w1", "w2", "w3"}
    Doc = "document"
    Replaces = TRUE
    MaxVersions = 4
    MaxBlocks = 2
    MaxCrashes = 1
INVARIANTS
    AnsweredAssetIsStored
    CompletedAssetIsWhole
    QuietListingIsTrue
    HeartbeatStands
PROPERTIES
    GatewayComesBack
    SavedProfileIsKept
    FollowsDocument
CHECK_DEADLOCK FALSE
