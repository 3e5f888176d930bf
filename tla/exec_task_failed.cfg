SPECIFICATION Spec
CONSTANTS
    None = None
    ErrorRepeats = FALSE
    Budget = 128
    Payloads = {"a", "b", "error"}
    Decodable = {"a", "b"}
    Lowercase <- MCLowercase
    Registry <- SequenceOnly
    Events <- FailedEvents
    MaxEvents = 3
INVARIANTS NoLostWakeup
CHECK_DEADLOCK FALSE
