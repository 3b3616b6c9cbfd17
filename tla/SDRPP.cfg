SPECIFICATION SDRPPFairSpec
CONSTANTS
    MaxCommands = 3
INVARIANTS SDRPPInv TrueAnswer
PROPERTIES CallReturns
CHECK_DEADLOCK FALSE
