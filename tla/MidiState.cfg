SPECIFICATION Spec
CONSTANTS
    Modes <- MCModes
    Message <- MCWellFormed
    RealTimeByte <- MCRealTime
    Delta <- MCDelta
    Capacity <- MCCapacity
    MaxSent <- MCMaxSent
INVARIANTS
    TypeOK
    EmittedInOrder
    NothingWithheld
    InStep
CHECK_DEADLOCK FALSE
