SPECIFICATION FairSpec
CONSTANTS
    Producer = {main, alsa}
    Command = {c1, c2, c3}
    Context = {x1, x2}
    NULL = NULL
INVARIANTS
    TypeOK
    ListShape
    InOrderExactlyOnce
    ReferenceExact
    NoUseAfterFree
    OnlyDroppedLeak
PROPERTIES
    EveryCommandSent
    StopReturns
CHECK_DEADLOCK TRUE
