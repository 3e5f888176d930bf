SPECIFICATION ReplaySpec
CONSTANTS
    None = None
    ErrorRepeats = FALSE
    Budget = 128
    Payloads = {"a", "b", "error"}
    Decodable = {"a", "b"}
    Lowercase <- MCLowercase
    Registry <- Answering
    Events <- AnswerEvents
    MaxEvents = 7
INVARIANTS NoEmptyQueue EventOrWaiter SignalsInOrder NoLostWakeup
PROPERTIES AcknowledgedIsBare
CHECK_DEADLOCK FALSE
