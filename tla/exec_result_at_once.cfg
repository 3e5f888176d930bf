SPECIFICATION Spec
CONSTANTS
    None = None
    ErrorRepeats = FALSE
    Budget = 128
    Payloads = {"a", "b", "error"}
    Decodable = {"a", "b"}
    Lowercase <- MCLowercase
    Registry <- ImmediateOnly
    Events <- StartImmediate
    MaxEvents = 1
INVARIANTS ResultReported
CHECK_DEADLOCK FALSE
