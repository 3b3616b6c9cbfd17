SPECIFICATION HostSpec
CONSTANTS
    Files <- MCFiles
    Names <- MCNames
    Requires <- MCRequires
    Order <- MCOrder
    Registers <- MCRegisters
    Unregisters <- MCUnregisters
    Borrowed <- MCCopied
    Codes = {0, 1001, 32768, 65541}
INVARIANTS HostInv NothingLeaks NoDanglingGlobals ConstantsCopied
CHECK_DEADLOCK FALSE
