SPECIFICATION FairSpec
CONSTANTS
    Interrupted = {"queue"}
    MaxSignals = 1
INVARIANTS
    TypeOK
    NobodySleepsOn
    NoCircularWait
    PollTableLive
PROPERTIES
    ShutsDownUnlessStuck
CHECK_DEADLOCK FALSE
