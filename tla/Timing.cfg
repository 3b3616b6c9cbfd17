SPECIFICATION TimingSpec
CONSTANTS
    TicksPerMs = 2
    Interval = 1
    MaxEarly = 1
    MaxClock = 9
    MaxStep = 3
    Events = {e1}
    MsPerSecond = 1
    Delays = {0, 1, 2}
    MaxEntries = 3
INVARIANTS DeltasKeepTime EventsInRealTime
CHECK_DEADLOCK FALSE
