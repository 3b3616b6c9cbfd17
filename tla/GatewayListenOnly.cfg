SPECIFICATION FairSpec
CONSTANTS
    Events = {SaveStorage, UserEvent}
    SaveStorage = SaveStorage
    MsPerSecond = 1
    SavePeriod = 2
    UserDelays = {1}
    SendFrom = {}
    PluginReadsPacket = FALSE
    PacketsPerUpdate = 1
    Deltas = {0, 1}
    MaxPackets = 1
    MaxScheduled = 1
    MaxTimer = 2
    MaxDepth = 1
PROPERTIES ClosureEndsRun
CHECK_DEADLOCK FALSE
