SPECIFICATION Spec
CONSTANTS
    None = None
    Inputs <- MCInputs
INVARIANTS Abridged TraceKept UnreadableForCause
CHECK_DEADLOCK FALSE
