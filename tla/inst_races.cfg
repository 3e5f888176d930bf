SPECIFICATION InstanceSpec
CONSTANTS
    None = None
    ErrorRepeats = TRUE
    Budget = 128
    Payloads = {"a", "b", "error"}
    Decodable = {"a", "b"}
    Lowercase <- MCLowercase
    Registry <- AllPrograms
    Events = {}
    MaxEvents = 0
    Orchestrators = {"timeout", "retry", "terminate_test", "parallel"}
    Answers <- SucceedOrEmpty
    ClientEvents <- RaisesAndTerminate
    MaxClientEvents = 2
    MaxCrashes = 1
INVARIANTS ReplayRestores Deterministic
PROPERTIES KeepsLedger
CHECK_DEADLOCK FALSE
