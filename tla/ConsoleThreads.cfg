SPECIFICATION ConsoleFairSpec
CONSTANTS
    Threads = {"main", "a", "b"}
    Main = "main"
    Raises = TRUE
    MaxCalls = 1
    MaxPieces = 2
    MaxReports = 1
INVARIANTS ConsoleInv CallsStayWhole
PROPERTIES CallsReturn
CHECK_DEADLOCK FALSE
