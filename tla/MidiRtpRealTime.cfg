SPECIFICATION Spec
CONSTANTS
    Modes <- MCRtp
    Message <- MCRealTimeInList
    RealTimeByte <- MCNone
    Delta <- MCDelta
    Capacity <- MCRtpCapacity
    MaxSent <- MCRtpMaxSent
INVARIANT
    EmittedInOrder
CHECK_DEADLOCK FALSE
