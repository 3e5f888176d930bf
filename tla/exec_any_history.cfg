SPECIFICATION Spec
CONSTANTS
    None = None
    ErrorRepeats = FALSE
    Budget = 2
    Payloads = {"a", "b", "error"}
    Decodable = {"a", "b"}
    Lowercase <- MCLowercase
    Registry <- AllPrograms
    Events <- AllEvents
    MaxEvents = 4
INVARIANTS TypeOK SenderOwned AnsweredByOwn PollPanicHasCause ActionKept
           LostWakeupHasCause RefusalHasCause
CHECK_DEADLOCK FALSE
