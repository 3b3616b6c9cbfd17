SPECIFICATION Spec
CONSTANTS
    Events = {UpdateDiscord}
    UpdateDiscord = UpdateDiscord
    MsPerSecond = 2
    UpdatePeriod = 2
    MinIdleTime = 4
    MaxIteration = 2
    MaxTime = 22
INVARIANTS OutsideInv OneChain PresenceKeepsUp VisitsPair
CHECK_DEADLOCK FALSE
