SPECIFICATION Spec
CONSTANTS
    None = None
    ErrorRepeats = FALSE
    Budget = 128
    Payloads = {"a", "b", "error"}
    Decodable = {"a", "b"}
    Lowercase <- MCLowercase
    Registry <- RaceOnly
    Events <- RaceEvents
    MaxEvents = 3
INVARIANTS UnblockNeverFails
CHECK_DEADLOCK FALSE
