SPECIFICATION InstanceSpec
CONSTANTS
    None = None
    ErrorRepeats = FALSE
    Budget = 128
    Payloads = {"a", "b", "error"}
    Decodable = {"a", "b"}
    Lowercase <- MCLowercase
    Registry <- AllPrograms
    Events = {}
    MaxEvents = 0
    Orchestrators = {"activity_sequence"}
    Answers <- Succeed
    ClientEvents <- RaisesAndTerminate
    MaxClientEvents = 1
    MaxCrashes = 0
INVARIANTS TerminationHonoured
CHECK_DEADLOCK FALSE
