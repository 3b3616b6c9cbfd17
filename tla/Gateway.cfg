SPECIFICATION FairSpec
CONSTANTS
    Events = {SaveStorage, UserEvent}
    SaveStorage = SaveStorage
    MsPerSecond = 1
    SavePeriod = 2
    UserDelays = {1, 2}
    SendFrom = {"OnConnected", "Command", "OnReceiveMessage", "OnReceivePosition", "Plugin", "Scheduled", "OnUpdateEvent"}
    PluginReadsPacket = TRUE
    PacketsPerUpdate = 2
    Deltas = {0, 1, 3}
    MaxPackets = 2
    MaxScheduled = 1
    MaxTimer = 4
    MaxDepth = 2
INVARIANTS PacketsInOrder  OneSavePending SavesKeepUp EveryConnectionEndsOnce ExitCodeFollowsLoss NothingUnsavedAtReturn
PROPERTIES SavesKeepApart FailedSendEndsRun
CHECK_DEADLOCK FALSE
