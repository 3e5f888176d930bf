SPECIFICATION Spec
CONSTANTS
    None = None
    ErrorRepeats = FALSE
    Budget = 128
    Payloads = {"a", "b", "error"}
    Decodable = {"a", "b"}
    Lowercase <- MCLowercase
    Registry <- RetryOnly
    Events <- RetryEvents
    MaxEvents = 3
INVARIANTS ResultReported
CHECK_DEADLOCK FALSE
