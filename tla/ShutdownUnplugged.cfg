SPECIFICATION FairSpec
CONSTANTS
    Interrupted = {}
    MaxSignals = 0
PROPERTY
    QuitShutsDown
CHECK_DEADLOCK FALSE
