SPECIFICATION Spec
CONSTANTS
    None = None
    ErrorRepeats = FALSE
    Budget = 2
    Payloads = {"a", "b", "error"}
    Decodable = {"a", "b"}
    Lowercase <- MCLowercase
    Registry <- LongOnly
    Events <- LongEvents
    MaxEvents = 4
INVARIANTS NoLostWakeup
CHECK_DEADLOCK FALSE
