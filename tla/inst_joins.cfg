SPECIFICATION FilterSpec
CONSTANTS
    None = None
    ErrorRepeats = FALSE
    Budget = 128
    Payloads = {"a", "b", "error"}
    Decodable = {"a", "b"}
    Lowercase <- MCLowercase
    Registry <- AllPrograms
    Events = {}
    MaxEvents = 0
    Orchestrators = {"activity_sequence", "parallel", "sub_orchestrator", "signals"}
    Answers <- Succeed
    ClientEvents <- Raises
    MaxClientEvents = 2
    MaxCrashes = 1
INVARIANTS Deterministic NeverPanics NothingHidden NothingRepeated
PROPERTIES KeepsPromise Ends
CHECK_DEADLOCK FALSE
