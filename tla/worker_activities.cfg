SPECIFICATION ActivitiesSpec
CONSTANTS
    None = None
    ErrorRepeats = FALSE
    Budget = 128
    Payloads = {"a", "b", "error"}
    Decodable = {"a", "b"}
    Lowercase <- MCLowercase
    Registry <- AllPrograms
    Events = {}
    MaxEvents = 0
    Orchestrators <- AllNames
    Answers <- TaskEndings
    ClientEvents <- Raises
    MaxClientEvents = 1
    MaxCrashes = 1
    MaxBreaks = 1
INVARIANTS Deterministic NothingAbsorbed PanicsForCause
PROPERTIES HangsForCause KeepsPromise
CHECK_DEADLOCK FALSE
