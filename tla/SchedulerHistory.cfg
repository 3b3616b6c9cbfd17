SPECIFICATION FairSpec
CONSTANTS
    Events = {"poll"}
    MsPerSecond = 2
    Delays = {0, 1, 2}
    Deltas = {0, 1, 3}
    MaxScheduled = 4
    MaxTimer = 6
INVARIANTS NoEventLost RunsOnce RunsInTheFirstUpdate BucketIsFifo
PROPERTIES EveryEventRuns
CHECK_DEADLOCK FALSE
