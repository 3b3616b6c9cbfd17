SPECIFICATION Spec
CONSTANTS
    PollSources = PollSources
    Events = {PollSources}
    MsPerSecond = 2
    EndPoints = {e1, e2}
    Intervals = {1, 2}
    Deltas = {0, 1, 5}
    MaxTimer = 9
INVARIANTS SourcesInv OnePollPending
PROPERTY PollsKeepTime
CHECK_DEADLOCK FALSE
